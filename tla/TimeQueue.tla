------------------------------ MODULE TimeQueue ------------------------------
(***************************************************************************)
(* TimeQueue and PriorityQueue as values: each operation takes a queue     *)
(* and the time and gives the queue it leaves.                             *)
(*                                                                         *)
(* bucket_inuse_indexes_ is left out: it names exactly the buckets that    *)
(* hold something.  queue is queue_ from queue_index_ on, and used says    *)
(* that queue_ is not empty.  An entry of it also remembers the value it   *)
(* was pushed with (own), which the code does not.                         *)
(***************************************************************************)
EXTENDS Integers, Sequences, FiniteSets, FiniteSetsExt, SequencesExt

CONSTANTS
    Interval,       \* interval_, in milliseconds
    TotalBuckets,   \* total_buckets_
    MinFree,        \* kMinFreeTimeQueues
    MaxFree         \* kMaxFreeTimeQueues

ASSUME QueueAssumption ==
    /\ Interval \in Nat \ {0} /\ TotalBuckets \in Nat \ {0, 1}
    /\ MinFree \in Nat \ {0} /\ MaxFree \in Nat /\ MinFree <= MaxFree

Duration == Interval * TotalBuckets
Slots == 0..(TotalBuckets - 1)

-----------------------------------------------------------------------------
(* TimeQueue. *)

NewTimeQueue ==
    [bucket_index |-> 0, used |-> FALSE, current_ticks |-> 0,
     buckets |-> [i \in Slots |-> <<>>], queue |-> <<>>]

Clear(q) ==
    IF ~q.used THEN q
    ELSE [NewTimeQueue EXCEPT !.current_ticks = q.current_ticks]

ClearRange(q, start, end) ==
    [q EXCEPT !.buckets = [i \in Slots |-> IF i \in start..end THEN <<>> ELSE @[i]]]

\* The window of buckets moves by delta; the current one is cleared with those passed.
Moved(r, delta) ==
    IF delta >= TotalBuckets THEN Clear(r)
    ELSE [(IF r.bucket_index + delta > TotalBuckets
           THEN ClearRange(ClearRange(r, r.bucket_index, TotalBuckets), 0, (r.bucket_index + delta) % TotalBuckets)
           ELSE ClearRange(r, r.bucket_index, r.bucket_index + delta))
            EXCEPT !.bucket_index = (r.bucket_index + delta) % TotalBuckets]

\* Whatever is left of an interval is forgotten.
Advance(q, ticks) ==
    IF q.current_ticks \in {0, ticks} THEN [q EXCEPT !.current_ticks = ticks]
    ELSE Moved([q EXCEPT !.current_ticks = ticks], (ticks - q.current_ticks) \div Interval)

\* 2^64 - 1 modulo the number of buckets: what 0 - 1 is as a size_t.
Wrapped ==
    LET sq(x) == (x * x) % TotalBuckets
    IN  (sq(sq(sq(sq(sq(sq(2 % TotalBuckets)))))) + TotalBuckets - 1) % TotalBuckets

\* Mutant: one bucket earlier.
FutureIndexEarly(index, n) == (index + n - 2) % TotalBuckets

\* The bucket for a time to live of n intervals.
FutureIndex(index, n) ==
    IF index + n = 0 THEN Wrapped ELSE (index + n - 1) % TotalBuckets

\* InternalPush; the caller sees to it that ttl <= Duration.
InternalPush(r, b, ticks, value, live, delay) ==
    [r EXCEPT !.buckets[b] = Append(@, value), !.used = TRUE,
              !.queue = Append(@, [bucket |-> b, value_index |-> Len(r.buckets[b]) + 1, expiry_tick |-> ticks + live,
                                   wait_for_tick |-> ticks + delay, own |-> value])]
PushAdvanced(r, ticks, value, live, delay) ==
    InternalPush(r, FutureIndex(r.bucket_index, live \div Interval), ticks, value, live, delay)
PushValue(q, ticks, value, ttl, delay) ==
    PushAdvanced(Advance(q, ticks), ticks, value, IF ttl = 0 THEN Duration ELSE ttl, delay)

IsEmpty(q) == q.queue = <<>>

Expired(q, e, ticks) == e.value_index > Len(q.buckets[e.bucket]) \/ ticks > e.expiry_tick

ValueOf(r, e) == r.buckets[e.bucket][e.value_index]

\* The front at entry at of an advanced queue: the queue then, whether there is a
\* value, the value, how many entries expired, and what the entry was pushed with.
FrontAt(r, ticks, at) ==
    [q |-> [r EXCEPT !.queue = SubSeq(@, at, Len(@))],
     has |-> at \in DOMAIN r.queue /\ r.queue[at].wait_for_tick <= ticks,
     value |-> IF at \in DOMAIN r.queue /\ r.queue[at].wait_for_tick <= ticks THEN ValueOf(r, r.queue[at]) ELSE 0,
     expired |-> at - 1,
     own |-> IF at \in DOMAIN r.queue THEN r.queue[at].own ELSE 0]

\* The first entry that has not expired.
FirstLive(r, ticks) ==
    Min({i \in DOMAIN r.queue : ~Expired(r, r.queue[i], ticks)} \cup {Len(r.queue) + 1})

FrontFrom(r, ticks) == FrontAt(r, ticks, FirstLive(r, ticks))
FrontOf(q, ticks) == FrontFrom(Advance(q, ticks), ticks)

\* Pop, of a queue that is not empty.
PopEntry(q) == [q EXCEPT !.queue = Tail(@)]

-----------------------------------------------------------------------------
(* PriorityQueue: queues_ by priority and group id, and the free list. *)

\* A key is 10 * priority + group id: keys are in the order of the maps.
Priority(key) == key \div 10

NewPriorityQueue == [queues |-> <<>>, free |-> [i \in 1..MinFree |-> NewTimeQueue]]

Keys(pq) == DOMAIN pq.queues

InitFreeTimeQueues(free) == free \o [i \in 1..(IF Len(free) < MinFree THEN MinFree - Len(free) ELSE 0) |-> NewTimeQueue]

\* The queue of the key, a spare one, or a new one; and the spare ones then.
GetQueueByPriorityGroupId(pq, key) ==
    CASE key \in Keys(pq) -> [queue |-> pq.queues[key], free |-> pq.free]
      [] key \notin Keys(pq) /\ pq.free = <<>> ->
           [queue |-> NewTimeQueue, free |-> InitFreeTimeQueues(pq.free)]
      [] OTHER -> [queue |-> Last(pq.free), free |-> Front(pq.free)]

PushTo(pq, g, ticks, key, value, ttl, delay) ==
    [queues |-> [k \in Keys(pq) \cup {key} |->
                    IF k = key THEN PushValue(g.queue, ticks, value, ttl, delay) ELSE pq.queues[k]],
     free |-> g.free]
Push(pq, ticks, key, value, ttl, delay) ==
    PushTo(pq, GetQueueByPriorityGroupId(pq, key), ticks, key, value, ttl, delay)

\* RemoveGroupTimeQueue: what the groups still hold is dropped; in the order of the keys.
Nth(keys, i) == CHOOSE k \in keys : Cardinality({j \in keys : j < k}) = i - 1
Cleared(pq, keys) == [i \in 1..Cardinality(keys) |-> Clear(pq.queues[Nth(keys, i)])]
Spare(free, cleared) == SubSeq(free \o cleared, 1, Max({Len(free), Min({MaxFree, Len(free) + Len(cleared)})}))
RemoveGroupTimeQueue(pq, keys) ==
    [queues |-> [k \in Keys(pq) \ keys |-> pq.queues[k]],
     free |-> Spare(pq.free, Cleared(pq, keys))]

\* The loop of Front and of PopFront: groups are looked at until one has a value; those
\* left empty, without a value, or with expired entries are removed.  f is what a look
\* at each group gives, and the loop ends with group stop.
Looked(pq, f, stop) ==
    [pq EXCEPT !.queues = [k \in Keys(pq) |-> IF k <= stop THEN f[k].q ELSE @[k]]]
FrontUpTo(pq, f, stop) ==
    [pq |-> RemoveGroupTimeQueue(Looked(pq, f, stop),
                {k \in Keys(pq) : k <= stop /\ (IsEmpty(f[k].q) \/ ~f[k].has \/ f[k].expired > 0)}),
     has |-> f[stop].has, value |-> f[stop].value, own |-> f[stop].own]
FrontGroups(pq, f) ==
    FrontUpTo(pq, f, Min({k \in Keys(pq) : f[k].has} \cup {Max(Keys(pq))}))
FrontPQ(pq, ticks) ==
    IF Keys(pq) = {} THEN [pq |-> pq, has |-> FALSE, value |-> 0, own |-> 0]
    ELSE FrontGroups(pq, [k \in Keys(pq) |-> FrontOf(pq.queues[k], ticks)])

Full(pq) == {k \in Keys(pq) : ~IsEmpty(pq.queues[k])}

\* The front of the group goes, if it has one; the group goes when it is then empty,
\* with those of its priority before it.
PopGroup(pq, key) ==
    RemoveGroupTimeQueue(
        [pq EXCEPT !.queues[key] = IF IsEmpty(@) THEN @ ELSE PopEntry(@)],
        {k \in Keys(pq) : \/ Priority(k) = Priority(key) /\ k < key
                          \/ k = key /\ Len(pq.queues[k].queue) <= 1})

\* Mutant: the front of the last group goes.
PopPQLast(pq) ==
    IF Full(pq) = {} THEN pq ELSE [pq EXCEPT !.queues[Max(Full(pq))] = PopEntry(@)]

\* Pop: the front of the first group that is not empty goes, looked at or not.  Empty
\* groups are removed only from the last priority the loop reaches.
PopPQ(pq) ==
    IF Keys(pq) = {} THEN pq
    ELSE PopGroup(pq, IF Full(pq) = {} THEN Max(Keys(pq)) ELSE Min(Full(pq)))

EmptyPQ(pq) == Keys(pq) = {}
=============================================================================
