-------------------------------- MODULE Stores --------------------------------
(***************************************************************************)
(* The stores that forget by time, over one tick service: the datagram     *)
(* queue of a connection (PriorityQueue of TimeQueues) between the threads *)
(* that enqueue and the picoquic thread that sends, and an object Cache.   *)
(*                                                                         *)
(* SendNextDatagram looks at the front and pops it in two critical         *)
(* sections, so it is two steps; everything else is one.  The two stores   *)
(* share nothing but the time, and a behaviour uses one of them.           *)
(***************************************************************************)
EXTENDS TimeQueue, Cache

CONSTANTS
    None,
    Ctx,          \* data contexts that send datagrams
    QueueKeys,    \* priority and group id of a datagram, see Priority
    Ttls,         \* times to live of a datagram
    CacheKeys, CacheTtls,
    MaxPush, MaxInsert, MaxTick, MaxPosted  \* bounds

ASSUME StoresAssumption ==
    /\ None \notin Nat
    /\ QueueKeys \subseteq Nat /\ IsFiniteSet(QueueKeys) /\ Ttls \subseteq 0..Duration
    /\ CacheKeys \subseteq Nat
    /\ CacheTtls \subseteq {0} \cup CacheInterval..CacheDuration
    /\ MaxPush \in Nat /\ MaxInsert \in Nat /\ MaxTick \in Nat \ {0} /\ MaxPosted \in Nat

VARIABLES
    ticks,    \* TickService::Milliseconds
    pq,       \* dgram_tx_data
    active,   \* active_data_contexts
    mark,     \* mark_dgram_ready
    ready,    \* picoquic will ask for a datagram
    posted,   \* MarkDgramReady functions in picoquic_runner_queue_
    slid,     \* the runner queue has dropped one of them at its limit
    sending,  \* the entry between Front and Pop of SendNextDatagram
    pushed,   \* the datagrams enqueued so far; a datagram is its index here
    overtaken, \* history: those a more urgent one came before, between Front and Pop
    sent,     \* the entries given to picoquic, as the datagrams they were pushed with
    cache,    \* a Cache
    inserts   \* what was inserted: key, time and ttl

dgramVars == <<pq, active, mark, ready, posted, slid, sending, pushed, overtaken, sent>>
cacheVars == <<cache, inserts>>
vars == <<ticks, dgramVars, cacheVars>>

Init ==
    /\ ticks = 1
    /\ pq = NewPriorityQueue /\ active = Ctx
    /\ mark = FALSE /\ ready = FALSE /\ posted = 0 /\ slid = FALSE
    /\ sending = None /\ pushed = <<>> /\ overtaken = {} /\ sent = <<>>
    /\ cache = NewCache /\ inserts = <<>>

-----------------------------------------------------------------------------
(* TickService. *)

TickLoop ==
    /\ \E d \in 1..2 : ticks + d <= MaxTick /\ ticks' = ticks + d
    /\ UNCHANGED <<dgramVars, cacheVars>>

-----------------------------------------------------------------------------
(* Datagrams. *)

\* Enqueue without use_reliable.
Enqueue(c, key, ttl) ==
    /\ Len(pushed) < MaxPush /\ inserts = <<>> /\ c \in active
    /\ pushed' = Append(pushed, [ctx |-> c, key |-> key])
    /\ pq' = Push(pq, ticks, key, Len(pushed'), ttl, 0)
    /\ mark' = TRUE
    /\ posted' = IF mark THEN posted ELSE posted + 1
    /\ overtaken' = overtaken \cup {d \in DOMAIN pushed : d = sending /\ key < pushed[d].key}
    /\ UNCHANGED <<ticks, active, ready, slid, sending, sent, cacheVars>>

\* A data context goes, its datagrams stay.
DeleteDataContext(c) ==
    /\ c \in active /\ pushed # <<>>
    /\ active' = active \ {c}
    /\ UNCHANGED <<ticks, pq, mark, ready, posted, slid, sending, pushed, overtaken, sent, cacheVars>>

MarkDgramReady ==
    /\ posted > 0
    /\ posted' = posted - 1
    /\ ready' = TRUE /\ mark' = FALSE
    /\ UNCHANGED <<ticks, pq, active, slid, sending, pushed, overtaken, sent, cacheVars>>

\* RunPqFunction for a stream, with the runner queue at its limit: the oldest function
\* goes, and it was a MarkDgramReady.
RunnerSlides ==
    /\ posted > 0
    /\ posted' = posted - 1
    /\ slid' = TRUE
    /\ UNCHANGED <<ticks, pq, active, mark, ready, sending, pushed, overtaken, sent, cacheVars>>

\* SendNextDatagram up to its Pop: nothing to send, a datagram whose data context is
\* gone (which stays at the front), one that does not fit, and one that does.
SendNextDatagram(fits) ==
    /\ ready /\ sending = None
    /\ \E f \in {FrontPQ(pq, ticks)} :
           /\ pq' = f.pq
           /\ \/ /\ ~f.has /\ fits
                 /\ ready' = FALSE
                 /\ UNCHANGED <<posted, sending>>
              \/ /\ f.has /\ pushed[f.value].ctx \notin active /\ fits
                 /\ UNCHANGED <<ready, posted, sending>>
              \/ /\ f.has /\ pushed[f.value].ctx \in active /\ ~fits
                 /\ posted < MaxPosted /\ posted' = posted + 1
                 /\ ready' \in BOOLEAN
                 /\ UNCHANGED sending
              \/ /\ f.has /\ pushed[f.value].ctx \in active /\ fits
                 /\ sending' = f.own
                 /\ UNCHANGED <<ready, posted>>
    /\ UNCHANGED <<ticks, active, mark, slid, pushed, overtaken, sent, cacheVars>>

\* Mutant: picoquic is told there is nothing more.
SendPopNoMore ==
    /\ sending # None
    /\ pq' = PopPQ(pq)
    /\ sent' = Append(sent, sending)
    /\ sending' = None
    /\ ready' = FALSE
    /\ UNCHANGED <<ticks, active, mark, posted, slid, pushed, overtaken, cacheVars>>

SendPop ==
    /\ sending # None
    /\ pq' = PopPQ(pq)
    /\ sent' = Append(sent, sending)
    /\ sending' = None
    /\ ready' = ~EmptyPQ(pq')
    /\ UNCHANGED <<ticks, active, mark, posted, slid, pushed, overtaken, cacheVars>>

-----------------------------------------------------------------------------
(* The cache. *)

InsertObject(key, ttl) ==
    /\ Len(inserts) < MaxInsert /\ pushed = <<>>
    /\ inserts' = Append(inserts, [key |-> key, at |-> ticks, ttl |-> IF ttl = 0 THEN CacheDuration ELSE ttl])
    /\ cache' = Insert(cache, ticks, key, Len(inserts'), ttl)
    /\ UNCHANGED <<ticks, dgramVars>>

\* Contains, Get, First and Last look after they have advanced.
Lookup ==
    /\ inserts # <<>>
    /\ cache' = AdvanceCache(cache, ticks)
    /\ UNCHANGED <<ticks, dgramVars, inserts>>

ClearObjects ==
    /\ inserts # <<>>
    /\ cache' = ClearCache(cache)
    /\ inserts' = <<>>
    /\ UNCHANGED <<ticks, dgramVars>>

-----------------------------------------------------------------------------
Next ==
    \/ TickLoop
    \/ \E c \in Ctx, key \in QueueKeys, ttl \in Ttls : Enqueue(c, key, ttl)
    \/ \E c \in Ctx : DeleteDataContext(c)
    \/ MarkDgramReady
    \/ RunnerSlides
    \/ \E fits \in BOOLEAN : SendNextDatagram(fits)
    \/ SendPop
    \/ \E key \in CacheKeys, ttl \in CacheTtls : InsertObject(key, ttl)
    \/ Lookup
    \/ ClearObjects

Spec == Init /\ [][Next]_vars

-----------------------------------------------------------------------------
(* Properties. *)

Entries(q) == {q.queue[i] : i \in DOMAIN q.queue}
Queued == UNION {Entries(pq.queues[k]) : k \in Keys(pq)}

\* Type invariant.
TypeOK ==
    /\ ticks \in 1..MaxTick /\ active \subseteq Ctx /\ posted \in 0..(MaxPosted + 1)
    /\ mark \in BOOLEAN /\ ready \in BOOLEAN /\ slid \in BOOLEAN
    /\ Keys(pq) \subseteq QueueKeys /\ Len(pq.free) <= MaxFree
    /\ \A k \in Keys(pq) : pq.queues[k].bucket_index \in Slots
    /\ cache.bucket_index \in CacheSlots /\ DOMAIN cache.cache \subseteq CacheKeys

\* PushTtl puts a value where Advance neither clears it nor lets another take its place
\* while at least two intervals of its ttl are left, whatever the ttls of the others (the
\* current bucket is cleared, and the ttl is rounded down to intervals).
EntryKept ==
    \A k \in Keys(pq) : LET q == pq.queues[k] IN
        \A e \in Entries(q) : q.current_ticks + 2 * Interval <= e.expiry_tick =>
            /\ e.value_index <= Len(q.buckets[e.bucket])
            /\ q.buckets[e.bucket][e.value_index] = e.own

\* A queue "maintains the push/pop order": an entry that has not expired leads to the
\* value it was pushed with.
PushPopOrder ==
    \A k \in Keys(pq) : LET q == pq.queues[k] IN
        \A e \in Entries(q) : ~Expired(q, e, ticks) => q.buckets[e.bucket][e.value_index] = e.own

\* No entry is sent twice or before an earlier one of its priority and group, although it
\* is looked at and popped in two steps; unless a more urgent datagram came between the
\* two, which is then popped in its place.
SentOnce ==
    \A i, j \in DOMAIN sent : i < j /\ pushed[sent[i]].key = pushed[sent[j]].key =>
        sent[i] < sent[j] \/ (sent[i] = sent[j] /\ sent[i] \in overtaken)

\* While a datagram waits, picoquic will ask for it or a function that tells it to is
\* posted: none is left behind by the flag, the Empty() test or a datagram too long,
\* unless the runner queue has dropped such a function.
DgramWakeup == Queued # {} /\ sending = None => ready \/ posted > 0 \/ slid

\* At a lookup, a key found in the cache has not outlived its last insertion.
CacheNotLate ==
    \A k \in DOMAIN cache.cache :
        \E i \in DOMAIN inserts : inserts[i].key = k /\ cache.current_ticks < inserts[i].at + inserts[i].ttl

\* A key that was inserted and is not found has outlived one of its insertions, up to
\* what the bucket interval takes off its ttl.
CacheNotEarly ==
    \A i \in DOMAIN inserts : inserts[i].key \notin DOMAIN cache.cache =>
        \E j \in DOMAIN inserts :
            /\ inserts[j].key = inserts[i].key
            /\ cache.current_ticks >= inserts[j].at + CacheInterval * (inserts[j].ttl \div CacheInterval)

\* A range lookup gives nothing beyond its end key, which cache.h:71 calls exclusive.
RangeExclusive ==
    \A start, end \in CacheKeys : start < end =>
        \A k \in GetRange(cache, start, end) : k >= start /\ k < end
=============================================================================
