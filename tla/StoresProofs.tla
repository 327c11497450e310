---------------------------- MODULE StoresProofs ----------------------------
(***************************************************************************)
(* Proofs about Stores: the operations of the queues and of the cache      *)
(* first, as lemmas about values (what Advance, Push, Front, Pop, Insert   *)
(* leave, for any number of buckets and any interval), then the steps.     *)
(*                                                                         *)
(* The argument for EntryKept is Kept: an entry with two intervals to live *)
(* is ahead of the current bucket, where Advance clears nothing.  SentOnce *)
(* follows from the order of the entries in a group (InOrder) and from     *)
(* what is sent, being sent and queued being in that order (SentInOrder).  *)
(* For the cache, KeysEnd says how far ahead the bucket of a key is.       *)
(***************************************************************************)
EXTENDS Stores, FiniteSetTheorems, SequenceTheorems, TLAPS

-----------------------------------------------------------------------------
(* Arithmetic, and the smallest, the largest and the n-th of a set. *)

LEMMA Params ==
    /\ Interval \in Nat /\ Interval > 0 /\ TotalBuckets \in Nat /\ TotalBuckets > 1
    /\ MinFree \in Nat /\ MaxFree \in Nat /\ MinFree > 0 /\ MinFree <= MaxFree
    /\ CacheInterval \in Nat /\ CacheInterval > 0 /\ CacheBuckets \in Nat /\ CacheBuckets > 1
  BY QueueAssumption, CacheAssumption

LEMMA Mod ==
    ASSUME NEW n \in Nat, n > 0, NEW a \in Nat
    PROVE  /\ a % n \in 0..(n - 1)
           /\ a < n => a % n = a
           /\ n <= a /\ a < n + n => a % n = a - n
  OBVIOUS

LEMMA Div ==
    ASSUME NEW n \in Nat, n > 0, NEW a \in Nat
    PROVE  (a \div n) \in Nat /\ n * (a \div n) <= a /\ a < n * (a \div n) + n
  OBVIOUS

LEMMA Times ==
    ASSUME NEW n \in Nat, NEW a \in Int, NEW b \in Int, a <= b
    PROVE  n * a <= n * b /\ n * a \in Int /\ n * b \in Int
  OBVIOUS

\* Distances on a ring of n places when it turns by m places.
LEMMA RingTurn ==
    ASSUME NEW n \in Nat, NEW m \in Nat, m < n, NEW a \in Nat, a < n, NEW b \in Nat, b < n, NEW c \in Nat, c < n,
           NEW s \in Int, s >= 1, s < n,
           \/ c = a + s \/ c = a + s - n \/ c = a + s + n,
           \/ b = a + m \/ b = a + m - n
    PROVE  \/ c = b + (s - m) \/ c = b + (s - m) - n \/ c = b + (s - m) + n
<1>1. CASE b = a + m
  BY <1>1
<1>2. CASE b = a + m - n
  BY <1>2
<1> QED
  BY <1>1, <1>2

LEMMA RingTurnUp ==
    ASSUME NEW n \in Nat, NEW m \in Nat, NEW a \in Nat, a < n, NEW b \in Nat, b < n, NEW c \in Nat, c < n,
           NEW s \in Nat, m <= s, s < n,
           \/ c = a + s \/ c = a + s - n,
           \/ b = a + m \/ b = a + m - n
    PROVE  \/ c = b + (s - m) \/ c = b + (s - m) - n
<1>1. CASE b = a + m
  BY <1>1
<1>2. CASE b = a + m - n
  BY <1>2
<1> QED
  BY <1>1, <1>2

LEMMA MinIs ==
    ASSUME NEW S, S \subseteq Nat, S # {}
    PROVE  Min(S) \in S /\ \A y \in S : Min(S) <= y
<1>1. PICK x \in S : \A y \in S : ~(<<y, x>> \in OpToRel(<, Nat))
  BY NatLessThanWellFounded, WFMin
<1>2. ASSUME NEW y \in S, ~(x <= y) PROVE FALSE
  <2>1. y < x /\ <<y, x>> \in Nat \X Nat
    BY <1>2
  <2>2. <<y, x>> \in OpToRel(<, Nat)
    BY <2>1, Zenon DEF OpToRel
  <2> QED
    BY <1>1, <2>2, Zenon
<1>3. \A y \in S : x <= y
  BY <1>2
<1> QED
  BY <1>3 DEF Min

\* By the smallest subset that has no largest element.
LEMMA MaxIs ==
    ASSUME NEW S, S \subseteq Nat, IsFiniteSet(S), S # {}
    PROVE  Max(S) \in S /\ \A y \in S : y <= Max(S)
<1> DEFINE Bad == {T \in SUBSET S : T # {} /\ \A x \in T : \E y \in T : ~(y <= x)}
           Sizes == {Cardinality(T) : T \in Bad}
<1>1. ASSUME Bad # {} PROVE FALSE
  <2>1. \A T \in Bad : IsFiniteSet(T) /\ Cardinality(T) \in Nat
    BY FS_Subset, FS_CardinalityType
  <2>2. Sizes \subseteq Nat /\ Sizes # {}
    BY <1>1, <2>1
  <2>3. PICK n \in Sizes : \A m \in Sizes : n <= m
    BY <2>2, MinIs
  <2>4. PICK T \in Bad : Cardinality(T) = n
    BY <2>3
  <2>5. PICK x \in T : TRUE
    BY <2>4
  <2>6. Cardinality(T \ {x}) = Cardinality(T) - 1
    BY <2>1, <2>5, FS_RemoveElement
  <2>7. T \ {x} \notin Bad
    <3>1. T \ {x} \in Bad => n <= Cardinality(T \ {x})
      BY <2>3
    <3>2. n \in Nat
      BY <2>2, <2>3
    <3> QED
      BY <2>4, <2>6, <3>1, <3>2
  <2>8. PICK y \in T : ~(y <= x)
    BY <2>5
  <2>9. y \in T \ {x} /\ x \in Nat
    BY <2>4, <2>5, <2>8
  <2>10. PICK z \in T \ {x} : \A w \in T \ {x} : w <= z
    BY <2>7, <2>9
  <2> QED
    BY <2>4, <2>5, <2>8, <2>9, <2>10
<1>2. \E x \in S : \A y \in S : x >= y
  BY <1>1
<1> QED
  BY <1>2 DEF Max

\* By the smallest subset in which some rank is missing.
LEMMA NthIs ==
    ASSUME NEW S, S \subseteq Nat, IsFiniteSet(S)
    PROVE  \A i \in 1..Cardinality(S) : Nth(S, i) \in S
<1> DEFINE Rank(T, k) == Cardinality({j \in T : j < k})
           Bad == {T \in SUBSET S : \E i \in 1..Cardinality(T) : \A k \in T : Rank(T, k) # i - 1}
           Sizes == {Cardinality(T) : T \in Bad}
<1>1. ASSUME Bad # {} PROVE FALSE
  <2>1. \A T \in Bad : IsFiniteSet(T) /\ Cardinality(T) \in Nat
    BY FS_Subset, FS_CardinalityType
  <2>2. Sizes \subseteq Nat /\ Sizes # {}
    BY <1>1, <2>1
  <2>3. PICK n \in Sizes : \A m \in Sizes : n <= m
    BY <2>2, MinIs
  <2>4. PICK T \in Bad : Cardinality(T) = n
    BY <2>3
  <2>5. PICK i \in 1..Cardinality(T) : \A k \in T : Rank(T, k) # i - 1
    BY <2>4
  <2>6. T # {} /\ T \subseteq Nat /\ IsFiniteSet(T) /\ n \in Nat /\ i \in Nat
    <3>1. n \in Nat /\ IsFiniteSet(T)
      BY <2>1, <2>4
    <3> QED
      BY <2>4, <2>5, <3>1, FS_EmptySet
  <2>7. PICK x \in T : \A y \in T : y <= x
    BY <2>6, MaxIs
  <2> DEFINE U == T \ {x}
  <2>8. Cardinality(U) = n - 1 /\ U \in SUBSET S
    BY <2>4, <2>6, <2>7, FS_RemoveElement
  <2>9. U \notin Bad
    <3>1. U \in Bad => n <= Cardinality(U)
      BY <2>3
    <3>2. ~(n <= Cardinality(U))
      BY <2>6, <2>8
    <3> QED
      BY <3>1, <3>2
  <2>10. Rank(T, x) = n - 1
    <3>1. \A j \in T : j < x <=> j # x
      BY <2>6, <2>7
    <3>2. {j \in T : j < x} = U
      BY <3>1
    <3> QED
      BY <2>8, <3>2
  <2>11. i \in 1..Cardinality(U)
    BY <2>4, <2>5, <2>6, <2>7, <2>8, <2>10
  <2>12. PICK k \in U : Rank(U, k) = i - 1
    BY <2>8, <2>9, <2>11
  <2>13. {j \in T : j < k} = {j \in U : j < k}
    BY <2>6, <2>7, <2>12
  <2> QED
    BY <2>5, <2>12, <2>13
<1>2. S \notin Bad
  BY <1>1
<1>3. ASSUME NEW i \in 1..Cardinality(S) PROVE Nth(S, i) \in S
  <2>1. \E k \in S : Cardinality({j \in S : j < k}) = i - 1
    BY <1>2
  <2> QED
    BY <2>1 DEF Nth
<1> QED
  BY <1>3

-----------------------------------------------------------------------------
(* Time queues. *)

Entry == [bucket : Slots, value_index : Nat \ {0}, expiry_tick : Nat, wait_for_tick : Nat, own : Nat]
TimeQueues ==
    [bucket_index : Slots, used : BOOLEAN, current_ticks : Nat, buckets : [Slots -> Seq(Nat)], queue : Seq(Entry)]

\* The time queues there are at time t.
TQ(t) == {q \in TimeQueues : /\ q.current_ticks <= t
                             /\ q.queue # <<>> => q.used /\ q.current_ticks # 0}

LEMMA TQFields ==
    ASSUME NEW t \in Nat, NEW q \in TQ(t)
    PROVE  /\ q \in TimeQueues /\ q.bucket_index \in Slots /\ q.used \in BOOLEAN /\ q.current_ticks \in 0..t
           /\ q.buckets \in [Slots -> Seq(Nat)] /\ q.queue \in Seq(Entry)
           /\ q.queue # <<>> => q.used /\ q.current_ticks # 0
           /\ Len(q.queue) \in Nat /\ DOMAIN q.queue = 1..Len(q.queue) /\ \A i \in DOMAIN q.queue : q.queue[i] \in Entry
<1>1. /\ q \in TimeQueues /\ q.bucket_index \in Slots /\ q.used \in BOOLEAN /\ q.current_ticks \in 0..t
      /\ q.buckets \in [Slots -> Seq(Nat)] /\ q.queue \in Seq(Entry)
      /\ q.queue # <<>> => q.used /\ q.current_ticks # 0
  BY DEF TQ, TimeQueues
<1> QED
  BY <1>1, LenProperties, ElementOfSeq

LEMMA TQLater ==
    ASSUME NEW t \in Nat, NEW u \in Nat, t <= u
    PROVE  TQ(t) \subseteq TQ(u)
  BY TQFields DEF TQ

LEMMA NewIs ==
    ASSUME NEW t \in Nat
    PROVE  NewTimeQueue \in TQ(t) /\ NewTimeQueue.queue = <<>>
<1>1. 0 \in Slots
  BY Params DEF Slots
<1>2. [i \in Slots |-> <<>>] \in [Slots -> Seq(Nat)] /\ <<>> \in Seq(Entry)
  BY EmptySeq
<1> QED
  BY <1>1, <1>2 DEF NewTimeQueue, TQ, TimeQueues

\* A cleared queue is empty.
LEMMA ClearIs ==
    ASSUME NEW t \in Nat, NEW q \in TQ(t)
    PROVE  Clear(q) \in TQ(t) /\ Clear(q).queue = <<>> /\ Clear(q).current_ticks = q.current_ticks
<1>1. CASE ~q.used
  BY <1>1, TQFields DEF Clear
<1>2. CASE q.used
  <2>1. Clear(q) = [NewTimeQueue EXCEPT !.current_ticks = q.current_ticks]
    BY <1>2 DEF Clear
  <2>2. NewTimeQueue \in TimeQueues /\ NewTimeQueue.queue = <<>>
    BY NewIs, TQFields
  <2>3. q.current_ticks \in 0..t
    BY TQFields
  <2> QED
    BY <2>1, <2>2, <2>3 DEF TQ, TimeQueues
<1> QED
  BY <1>1, <1>2, TQFields

\* The queue with some other entries.
LEMMA WithQueue ==
    ASSUME NEW t \in Nat, NEW q \in TQ(t), NEW s \in Seq(Entry), s # <<>> => q.queue # <<>>
    PROVE  /\ [q EXCEPT !.queue = s] \in TQ(t) /\ [q EXCEPT !.queue = s].queue = s
           /\ [q EXCEPT !.queue = s].bucket_index = q.bucket_index
           /\ [q EXCEPT !.queue = s].buckets = q.buckets
           /\ [q EXCEPT !.queue = s].current_ticks = q.current_ticks
  BY TQFields DEF TQ, TimeQueues

\* Bucket b is s places after the current one; s may be negative.
At(q, b, s) ==
    \/ b = q.bucket_index + s \/ b = q.bucket_index + s - TotalBuckets \/ b = q.bucket_index + s + TotalBuckets

\* The window moves by delta; the buckets it passes, and the one it comes to, are cleared.
LEMMA MovedIs ==
    ASSUME NEW t \in Nat, NEW q \in TQ(t), NEW delta \in Nat
    PROVE  /\ Moved(q, delta) \in TQ(t) /\ Moved(q, delta).current_ticks = q.current_ticks
           /\ \/ Moved(q, delta).queue = <<>>
              \/ /\ Moved(q, delta).queue = q.queue /\ delta < TotalBuckets
                 /\ \/ Moved(q, delta).bucket_index = q.bucket_index + delta
                    \/ Moved(q, delta).bucket_index = q.bucket_index + delta - TotalBuckets
                 /\ \A b \in Slots : Moved(q, delta).buckets[b] \in {q.buckets[b], <<>>}
                 /\ \A b \in Slots, s \in Int :
                        At(q, b, s) /\ delta < s /\ s < TotalBuckets => Moved(q, delta).buckets[b] = q.buckets[b]
<1>0. TotalBuckets \in Nat /\ TotalBuckets > 1 /\ Slots = 0..(TotalBuckets - 1)
  BY Params DEF Slots
<1>1. CASE delta >= TotalBuckets
  BY <1>1, ClearIs DEF Moved
<1>2. CASE delta < TotalBuckets
  <2> DEFINE bi == q.bucket_index
             new == (bi + delta) % TotalBuckets
             past(i) == IF bi + delta > TotalBuckets THEN i \in bi..TotalBuckets \/ i \in 0..new
                        ELSE i \in bi..(bi + delta)
             bs == [i \in Slots |-> IF past(i) THEN <<>> ELSE q.buckets[i]]
  <2>1. bi \in Nat /\ bi < TotalBuckets /\ q \in TimeQueues
    BY <1>0, TQFields
  <2>2. new \in Slots /\ (new = bi + delta \/ new = bi + delta - TotalBuckets)
    <3>1. bi + delta \in Nat /\ bi + delta < TotalBuckets + TotalBuckets
      BY <1>0, <1>2, <2>1
    <3>2. \A a \in Nat : a < TotalBuckets + TotalBuckets =>
            a % TotalBuckets \in Slots /\ (a % TotalBuckets = a \/ a % TotalBuckets = a - TotalBuckets)
      BY <1>0, Mod
    <3>3. PICK a \in Nat : a = bi + delta /\ a < TotalBuckets + TotalBuckets
      BY <3>1
    <3>4. new = a % TotalBuckets
      BY <3>3
    <3> HIDE DEF bi, new
    <3> QED
      BY <1>0, <2>1, <3>2, <3>3, <3>4
  <2>3. Moved(q, delta) = [q EXCEPT !.buckets = bs, !.bucket_index = new]
    <3>1. CASE bi + delta > TotalBuckets
      <4>1. Moved(q, delta) = [ClearRange(ClearRange(q, bi, TotalBuckets), 0, new) EXCEPT !.bucket_index = new]
        BY <1>0, <1>2, <3>1 DEF Moved
      <4>2. ClearRange(ClearRange(q, bi, TotalBuckets), 0, new) = [q EXCEPT !.buckets = bs]
        BY <2>1, <3>1 DEF ClearRange, TimeQueues
      <4> QED
        BY <2>1, <4>1, <4>2 DEF TimeQueues
    <3>2. CASE ~(bi + delta > TotalBuckets)
      <4>1. Moved(q, delta) = [ClearRange(q, bi, bi + delta) EXCEPT !.bucket_index = new]
        BY <1>0, <1>2, <3>2 DEF Moved
      <4>2. ClearRange(q, bi, bi + delta) = [q EXCEPT !.buckets = bs]
        BY <2>1, <3>2 DEF ClearRange, TimeQueues
      <4> QED
        BY <2>1, <4>1, <4>2 DEF TimeQueues
    <3> QED
      BY <3>1, <3>2
  <2>4. bs \in [Slots -> Seq(Nat)]
    BY TQFields, EmptySeq
  <2>5. ASSUME NEW b \in Slots, NEW s \in Int, At(q, b, s), delta < s, s < TotalBuckets
        PROVE  ~past(b)
    <3>1. b = bi + s \/ b = bi + s - TotalBuckets \/ b = bi + s + TotalBuckets
      BY <2>5 DEF At
    <3>2. b \in Nat /\ b < TotalBuckets /\ new \in Nat /\ new < TotalBuckets
      BY <1>0, <2>2
    <3> HIDE DEF bi, new
    <3>3. CASE bi + delta > TotalBuckets
      BY <1>0, <1>2, <2>1, <2>2, <2>5, <3>1, <3>2, <3>3
    <3>4. CASE ~(bi + delta > TotalBuckets)
      BY <1>0, <1>2, <2>1, <2>2, <2>5, <3>1, <3>2, <3>4
    <3> QED
      BY <3>3, <3>4
  <2>6. /\ \A b \in Slots : bs[b] \in {q.buckets[b], <<>>}
        /\ \A b \in Slots, s \in Int : At(q, b, s) /\ delta < s /\ s < TotalBuckets => bs[b] = q.buckets[b]
    BY <2>5
  <2> HIDE DEF bs, new, bi
  <2>7. /\ Moved(q, delta).buckets = bs /\ Moved(q, delta).bucket_index = new /\ Moved(q, delta).queue = q.queue
        /\ Moved(q, delta).current_ticks = q.current_ticks /\ Moved(q, delta).used = q.used
        /\ Moved(q, delta) \in TimeQueues
    BY <2>1, <2>2, <2>3, <2>4 DEF TimeQueues
  <2>8. Moved(q, delta) \in TQ(t)
    BY <2>7, TQFields DEF TQ
  <2> QED
    BY <1>2, <2>2, <2>6, <2>7, <2>8 DEF bi
<1> QED
  BY <1>0, <1>1, <1>2

\* The time is taken over; entries and buckets go with the window.
LEMMA AdvanceIs ==
    ASSUME NEW t \in Nat \ {0}, NEW q \in TQ(t)
    PROVE  /\ Advance(q, t) \in TQ(t) /\ Advance(q, t).current_ticks = t
           /\ \/ Advance(q, t).queue = <<>>
              \/ \E delta \in Nat :
                   /\ Advance(q, t).queue = q.queue /\ delta < TotalBuckets
                   /\ Interval * delta <= t - q.current_ticks
                   /\ \/ Advance(q, t).bucket_index = q.bucket_index + delta
                      \/ Advance(q, t).bucket_index = q.bucket_index + delta - TotalBuckets
                   /\ \A b \in Slots : Advance(q, t).buckets[b] \in {q.buckets[b], <<>>}
                   /\ \A b \in Slots, s \in Int :
                        At(q, b, s) /\ delta < s /\ s < TotalBuckets => Advance(q, t).buckets[b] = q.buckets[b]
<1> DEFINE r == [q EXCEPT !.current_ticks = t]
           d == (t - q.current_ticks) \div Interval
<1>1. /\ r \in TQ(t) /\ r.current_ticks = t /\ r.queue = q.queue /\ r.buckets = q.buckets
      /\ r.bucket_index = q.bucket_index
  <2>1. q \in TimeQueues /\ (q.queue # <<>> => q.used)
    BY TQFields
  <2>2. /\ r \in TimeQueues /\ r.current_ticks = t /\ r.queue = q.queue /\ r.buckets = q.buckets
        /\ r.bucket_index = q.bucket_index /\ r.used = q.used
    BY <2>1 DEF TimeQueues
  <2> HIDE DEF r
  <2> QED
    BY <2>1, <2>2 DEF TQ
<1>2. t - q.current_ticks \in Nat /\ q.bucket_index \in Nat
  BY TQFields, Params DEF Slots
<1>3. CASE q.current_ticks \in {0, t}
  <2>1. Advance(q, t) = r
    BY <1>3 DEF Advance
  <2>2. Interval * 0 = 0 /\ 0 < TotalBuckets /\ q.bucket_index + 0 = q.bucket_index
    BY <1>2, Params
  <2> HIDE DEF r
  <2> QED
    BY <1>1, <1>2, <2>1, <2>2
<1>4. CASE q.current_ticks \notin {0, t}
  <2>1. Advance(q, t) = Moved(r, d)
    BY <1>4 DEF Advance
  <2>2. d \in Nat /\ Interval * d <= t - q.current_ticks
    BY <1>2, Params, Div
  <2>0. t \in Nat
    OBVIOUS
  <2>3. \A b, s : At(r, b, s) <=> At(q, b, s)
    BY <1>1 DEF At
  <2> HIDE DEF r, d
  <2> QED
    <3>1. CASE Moved(r, d).queue = <<>>
      BY <1>1, <2>1, <2>2, <3>1, MovedIs, SMTT(30)
    <3>2. CASE Moved(r, d).queue # <<>>
      <4>0. /\ Moved(r, d) \in TQ(t) /\ Moved(r, d).current_ticks = r.current_ticks
            /\ \/ Moved(r, d).queue = <<>>
               \/ /\ Moved(r, d).queue = r.queue /\ d < TotalBuckets
                  /\ \/ Moved(r, d).bucket_index = r.bucket_index + d
                     \/ Moved(r, d).bucket_index = r.bucket_index + d - TotalBuckets
                  /\ \A b \in Slots : Moved(r, d).buckets[b] \in {r.buckets[b], <<>>}
                  /\ \A b \in Slots, s \in Int :
                        At(r, b, s) /\ d < s /\ s < TotalBuckets => Moved(r, d).buckets[b] = r.buckets[b]
        <5>1. r \in TQ(t)
          BY <1>1
        <5>2. d \in Nat
          BY <2>2
        <5> QED
          BY <2>0, <5>1, <5>2, MovedIs, ZenonT(60)
      <4>1. /\ Moved(r, d).queue = r.queue /\ d < TotalBuckets
            /\ \/ Moved(r, d).bucket_index = r.bucket_index + d
               \/ Moved(r, d).bucket_index = r.bucket_index + d - TotalBuckets
            /\ \A b \in Slots : Moved(r, d).buckets[b] \in {r.buckets[b], <<>>}
            /\ \A b \in Slots, s \in Int :
                  At(r, b, s) /\ d < s /\ s < TotalBuckets => Moved(r, d).buckets[b] = r.buckets[b]
            /\ Moved(r, d) \in TQ(t) /\ Moved(r, d).current_ticks = r.current_ticks
        BY <3>2, <4>0, ZenonT(60)
      <4> QED
        BY <1>1, <2>1, <2>2, <2>3, <4>1
    <3> QED
      BY <3>1, <3>2
<1> QED
  BY <1>3, <1>4

\* The bucket of an element that is to live for n intervals.
LEMMA FutureIs ==
    ASSUME NEW i \in Slots, NEW n \in Nat
    PROVE  /\ FutureIndex(i, n) \in Slots
           /\ n \in 1..TotalBuckets => \/ FutureIndex(i, n) = i + n - 1
                                       \/ FutureIndex(i, n) = i + n - 1 - TotalBuckets
<1>0. TotalBuckets \in Nat /\ TotalBuckets > 1 /\ Slots = 0..(TotalBuckets - 1) /\ i \in Nat /\ i < TotalBuckets
  BY Params DEF Slots
<1>1. \A a \in Nat : a % TotalBuckets \in Slots
  BY <1>0, Mod
<1>2. \A a \in Nat : a < TotalBuckets + TotalBuckets => a % TotalBuckets = a \/ a % TotalBuckets = a - TotalBuckets
  BY <1>0, Mod
<1>3. CASE i + n = 0
  <2> DEFINE sq(x) == (x * x) % TotalBuckets
  <2>1. \A x \in Slots : sq(x) \in Slots
    <3>1. \A x \in Nat : x * x \in Nat
      OBVIOUS
    <3> QED
      BY <1>0, <1>1, <3>1
  <2> DEFINE two == 2 % TotalBuckets
  <2>2. two \in Slots
    BY <1>1
  <2> HIDE DEF sq, two
  <2>3. sq(sq(sq(sq(sq(sq(two)))))) \in Slots
    BY <2>1, <2>2
  <2> DEFINE z == sq(sq(sq(sq(sq(sq(two))))))
  <2>4. (z + TotalBuckets - 1) \in Nat
    BY <1>0, <2>3
  <2>5. Wrapped = (z + TotalBuckets - 1) % TotalBuckets
    BY DEF Wrapped, sq, two
  <2>6. FutureIndex(i, n) = Wrapped /\ n = 0
    BY <1>0, <1>3 DEF FutureIndex
  <2>7. PICK a \in Nat : a = z + TotalBuckets - 1
    BY <2>4
  <2> HIDE DEF z
  <2>8. Wrapped \in Slots
    BY <1>1, <2>5, <2>7
  <2> QED
    BY <2>6, <2>8
<1>4. CASE i + n # 0
  <2>1. PICK a \in Nat : a = i + n - 1
    BY <1>0, <1>4
  <2>2. FutureIndex(i, n) = a % TotalBuckets
    BY <1>4, <2>1 DEF FutureIndex
  <2>3. n \in 1..TotalBuckets => a < TotalBuckets + TotalBuckets
    BY <1>0, <2>1
  <2>4. FutureIndex(i, n) \in Slots
    BY <1>1, <2>2
  <2>5. n \in 1..TotalBuckets => FutureIndex(i, n) = a \/ FutureIndex(i, n) = a - TotalBuckets
    BY <1>2, <2>2, <2>3
  <2> QED
    BY <1>0, <2>1, <2>4, <2>5
<1> QED
  BY <1>3, <1>4

\* What a push leaves: the entry at the end of what advancing left, its value at the
\* end of a bucket.
PushLeaves(r, p, b, t, v, live) ==
    /\ p \in TQ(t) /\ p.current_ticks = t /\ p.bucket_index = r.bucket_index
    /\ b \in Slots /\ r.buckets[b] \in Seq(Nat) /\ p.buckets[b] = Append(r.buckets[b], v)
    /\ \A c \in Slots \ {b} : p.buckets[c] = r.buckets[c]
    /\ r.queue \in Seq(Entry)
    /\ p.queue = Append(r.queue, [bucket |-> b, value_index |-> Len(r.buckets[b]) + 1, expiry_tick |-> t + live,
                                  wait_for_tick |-> t + 0, own |-> v])
    /\ p.queue[Len(r.queue) + 1].own = v

LEMMA PushIs ==
    ASSUME NEW t \in Nat \ {0}, NEW q \in TQ(t), NEW v \in Nat, NEW ttl \in 0..Duration,
           NEW live, live = IF ttl = 0 THEN Duration ELSE ttl
    PROVE  PushLeaves(Advance(q, t), PushValue(q, t, v, ttl, 0),
                      FutureIndex(Advance(q, t).bucket_index, live \div Interval), t, v, live)
<1> DEFINE r == Advance(q, t)
           p == PushValue(q, t, v, ttl, 0)
           b == FutureIndex(r.bucket_index, live \div Interval)
           n == Len(r.buckets[b]) + 1
           e == [bucket |-> b, value_index |-> n, expiry_tick |-> t + live, wait_for_tick |-> t + 0, own |-> v]
<1>1. r \in TQ(t) /\ r.current_ticks = t
  BY AdvanceIs
<1>2. live \in Nat
  BY Params DEF Duration
<1>3. p = [r EXCEPT !.buckets[b] = Append(@, v), !.used = TRUE, !.queue = Append(@, e)]
  BY DEF PushValue, PushAdvanced, InternalPush
<1>4. b \in Slots
  <2>1. live \div Interval \in Nat
    BY <1>2, Params, Div
  <2> HIDE DEF r
  <2> QED
    BY <1>1, <2>1, FutureIs, TQFields
<1> HIDE DEF r, b
<1>5. r.buckets[b] \in Seq(Nat) /\ n \in Nat \ {0} /\ Append(r.buckets[b], v) \in Seq(Nat)
  BY <1>1, <1>4, TQFields, LenProperties, AppendProperties
<1>6. e \in Entry
  BY <1>2, <1>4, <1>5 DEF Entry
<1> HIDE DEF n, e, p
<1>7. r \in TimeQueues /\ r.queue \in Seq(Entry) /\ Append(r.queue, e) \in Seq(Entry)
  BY <1>1, <1>6, TQFields, AppendProperties
<1>8. /\ p \in TimeQueues /\ p.current_ticks = t /\ p.bucket_index = r.bucket_index /\ p.used = TRUE
      /\ p.queue = Append(r.queue, e) /\ p.buckets = [r.buckets EXCEPT ![b] = Append(@, v)]
  BY <1>1, <1>3, <1>4, <1>5, <1>7 DEF TimeQueues
<1>9. p \in TQ(t)
  BY <1>8 DEF TQ
<1>10. r.buckets \in [Slots -> Seq(Nat)]
  BY <1>7 DEF TimeQueues
<1>11. p.buckets[b] = Append(r.buckets[b], v) /\ \A c \in Slots \ {b} : p.buckets[c] = r.buckets[c]
  BY <1>4, <1>8, <1>10
<1>12. e.own = v /\ p.queue[Len(r.queue) + 1] = e
  <2>1. e.own = v
    BY DEF e
  <2> QED
    BY <1>6, <1>7, <1>8, <2>1, AppendProperties
<1>13. PushLeaves(r, p, b, t, v, live)
  BY <1>4, <1>5, <1>7, <1>8, <1>9, <1>11, <1>12 DEF PushLeaves, e, n
<1> QED
  BY <1>13 DEF r, b, p

\* A look at the front: the entries before the first that has not expired go.
LEMMA FrontIs ==
    ASSUME NEW t \in Nat \ {0}, NEW q \in TQ(t)
    PROVE  LET r == Advance(q, t)
               f == FrontOf(q, t)
           IN  /\ f.q \in TQ(t) /\ f.q.current_ticks = t /\ f.q.bucket_index = r.bucket_index
               /\ f.q.buckets = r.buckets /\ f.has \in BOOLEAN
               /\ \E at \in 1..(Len(r.queue) + 1) :
                    /\ Len(f.q.queue) = Len(r.queue) + 1 - at
                    /\ \A i \in DOMAIN f.q.queue : at + i - 1 \in DOMAIN r.queue /\ f.q.queue[i] = r.queue[at + i - 1]
                    /\ f.has => /\ at \in DOMAIN r.queue /\ ~Expired(r, r.queue[at], t)
                                /\ f.value = ValueOf(r, r.queue[at]) /\ f.value \in Nat
                                /\ f.own = r.queue[at].own
<1> DEFINE r == Advance(q, t)
           f == FrontOf(q, t)
           n == Len(r.queue)
           S == {i \in DOMAIN r.queue : ~Expired(r, r.queue[i], t)} \cup {n + 1}
           at == Min(S)
<1>1. r \in TQ(t) /\ r.current_ticks = t
  BY AdvanceIs
<1>2. f = FrontAt(r, t, at)
  BY DEF FrontOf, FrontFrom, FirstLive
<1> HIDE DEF r, f
<1>3. n \in Nat /\ DOMAIN r.queue = 1..n /\ r.queue \in Seq(Entry) /\ \A i \in 1..n : r.queue[i] \in Entry
  BY <1>1, TQFields
<1>4. S \subseteq Nat /\ S # {} /\ S \subseteq 1..(n + 1)
  BY <1>3
<1>5. at \in S /\ at \in 1..(n + 1)
  BY <1>4, MinIs
<1> DEFINE sub == SubSeq(r.queue, at, n)
<1>6. /\ sub \in Seq(Entry) /\ Len(sub) = n + 1 - at
      /\ \A i \in 1..(n + 1 - at) : sub[i] = r.queue[at + i - 1]
  <2> HIDE DEF at, n, S
  <2>0. at \in Int /\ n \in Int /\ \A i \in at..n : i \in 1..n
    BY <1>3, <1>5
  <2>1. at \in Int /\ n \in Int /\ \A i \in at..n : r.queue[i] \in Entry
    BY <1>3, <2>0
  <2>2. \A i \in 1..(n + 1 - at) : i \in 1..(n - at + 1)
    BY <1>3, <1>5
  <2> QED
    BY <1>3, <1>5, <2>1, <2>2, SubSeqProperties
<1>7. sub # <<>> => r.queue # <<>>
  BY <1>3, <1>5, <1>6, EmptySeq
<1>8. f.q = [r EXCEPT !.queue = sub]
  BY <1>2 DEF FrontAt
<1>9. f.has \in BOOLEAN /\ (f.has => at \in DOMAIN r.queue /\ f.value = ValueOf(r, r.queue[at]) /\ f.own = r.queue[at].own)
  BY <1>2 DEF FrontAt
<1> HIDE DEF at, sub, n
<1>10. /\ f.q \in TQ(t) /\ f.q.current_ticks = t /\ f.q.bucket_index = r.bucket_index
       /\ f.q.buckets = r.buckets /\ f.q.queue = sub
  BY <1>1, <1>6, <1>7, <1>8, WithQueue
<1>11. ASSUME f.has
       PROVE  at \in DOMAIN r.queue /\ ~Expired(r, r.queue[at], t) /\ ValueOf(r, r.queue[at]) \in Nat
  <2>1. at \in DOMAIN r.queue /\ ~Expired(r, r.queue[at], t)
    <3>1. at \in 1..n /\ at # n + 1
      BY <1>3, <1>9, <1>11
    <3> QED
      BY <1>3, <1>5, <3>1
  <2>2. r.queue[at] \in Entry /\ r.buckets \in [Slots -> Seq(Nat)]
    BY <1>1, <2>1, TQFields
  <2>3. PICK e \in Entry : e = r.queue[at]
    BY <2>2
  <2>4. e.bucket \in Slots /\ e.value_index \in Nat \ {0} /\ r.buckets[e.bucket] \in Seq(Nat)
    BY <2>2 DEF Entry
  <2>5. Len(r.buckets[e.bucket]) \in Nat /\ e.value_index \in 1..Len(r.buckets[e.bucket])
    BY <2>1, <2>3, <2>4, LenProperties DEF Expired
  <2>6. r.buckets[e.bucket][e.value_index] \in Nat
    BY <2>4, <2>5, ElementOfSeq
  <2> QED
    BY <2>1, <2>3, <2>6 DEF ValueOf
<1>12. \A i \in DOMAIN sub : at + i - 1 \in DOMAIN r.queue /\ sub[i] = r.queue[at + i - 1]
  <2>1. DOMAIN sub = 1..(n + 1 - at)
    BY <1>6, LenProperties
  <2> QED
    BY <1>3, <1>5, <1>6, <2>1, SMTT(30)
<1> QED
  BY <1>5, <1>6, <1>9, <1>10, <1>11, <1>12 DEF r, f, n

LEMMA PopEntryIs ==
    ASSUME NEW t \in Nat, NEW q \in TQ(t), ~IsEmpty(q)
    PROVE  /\ PopEntry(q) \in TQ(t) /\ PopEntry(q).queue = Tail(q.queue)
           /\ PopEntry(q).bucket_index = q.bucket_index /\ PopEntry(q).buckets = q.buckets
           /\ PopEntry(q).current_ticks = q.current_ticks
           /\ \A i \in DOMAIN PopEntry(q).queue : i + 1 \in DOMAIN q.queue /\ PopEntry(q).queue[i] = q.queue[i + 1]
<1>1. q.queue \in Seq(Entry) /\ q.queue # <<>>
  BY TQFields DEF IsEmpty
<1>2. /\ Tail(q.queue) \in Seq(Entry) /\ Len(Tail(q.queue)) = Len(q.queue) - 1
      /\ \A i \in 1..(Len(q.queue) - 1) : Tail(q.queue)[i] = q.queue[i + 1]
  BY <1>1, HeadTailProperties
<1>3. /\ PopEntry(q) \in TQ(t) /\ PopEntry(q).queue = Tail(q.queue)
      /\ PopEntry(q).bucket_index = q.bucket_index /\ PopEntry(q).buckets = q.buckets
      /\ PopEntry(q).current_ticks = q.current_ticks
  BY <1>1, <1>2, WithQueue, SMTT(30) DEF PopEntry
<1>4. DOMAIN Tail(q.queue) = 1..(Len(q.queue) - 1) /\ DOMAIN q.queue = 1..Len(q.queue) /\ Len(q.queue) \in Nat
  BY <1>1, <1>2, LenProperties
<1> QED
  BY <1>2, <1>3, <1>4

-----------------------------------------------------------------------------
(* Entries and their buckets. *)

Holds(q, e) ==
    /\ e.value_index \in 1..Len(q.buckets[e.bucket])
    /\ q.buckets[e.bucket][e.value_index] = e.own

\* An entry that has two intervals to live is s buckets ahead of the current one, its
\* time is no further off than that, and its value is in its bucket.
KeptAt(q, e, s) ==
    /\ At(q, e.bucket, s) /\ s < TotalBuckets
    /\ e.expiry_tick - q.current_ticks < Interval * (s + 2)
    /\ Holds(q, e)
Kept(q, e) == q.current_ticks + 2 * Interval <= e.expiry_tick => \E s \in Int : s >= 1 /\ KeptAt(q, e, s)
AllKept(q) == \A i \in DOMAIN q.queue : Kept(q, q.queue[i])

LEMMA KeptByAdvance ==
    ASSUME NEW t \in Nat \ {0}, NEW q \in TQ(t), AllKept(q)
    PROVE  AllKept(Advance(q, t))
<1> DEFINE r == Advance(q, t)
<1>0. TotalBuckets \in Nat /\ TotalBuckets > 1 /\ Slots = 0..(TotalBuckets - 1) /\ Interval \in Nat /\ Interval > 0
  BY Params DEF Slots
<1>1. CASE r.queue = <<>>
  BY <1>1 DEF AllKept
<1>2. CASE r.queue # <<>>
  <2>1. PICK delta \in Nat :
           /\ r.queue = q.queue /\ delta < TotalBuckets
           /\ Interval * delta <= t - q.current_ticks
           /\ \/ r.bucket_index = q.bucket_index + delta
              \/ r.bucket_index = q.bucket_index + delta - TotalBuckets
           /\ \A b \in Slots : r.buckets[b] \in {q.buckets[b], <<>>}
           /\ \A b \in Slots, s \in Int :
                At(q, b, s) /\ delta < s /\ s < TotalBuckets => r.buckets[b] = q.buckets[b]
    BY <1>2, AdvanceIs, Zenon
  <2>2. r \in TQ(t) /\ r.current_ticks = t
    BY AdvanceIs
  <2> HIDE DEF r
  <2> SUFFICES ASSUME NEW i \in DOMAIN q.queue, t + 2 * Interval <= q.queue[i].expiry_tick
               PROVE  \E s \in Int : s >= 1 /\ KeptAt(r, q.queue[i], s)
    BY <2>1, <2>2 DEF AllKept, Kept, r
  <2>3. PICK e \in Entry : e = q.queue[i]
    BY TQFields
  <2>4. /\ e.bucket \in Slots /\ e.expiry_tick \in Nat /\ e.value_index \in Nat \ {0} /\ q.current_ticks \in Nat
        /\ q.bucket_index \in Nat /\ q.bucket_index < TotalBuckets /\ q.current_ticks <= t
        /\ r.bucket_index \in Nat /\ r.bucket_index < TotalBuckets
    <3>1. q.bucket_index \in Slots /\ q.current_ticks \in 0..t /\ r.bucket_index \in Slots
      BY <2>2, TQFields
    <3> QED
      BY <1>0, <3>1 DEF Entry
  <2>5. PICK s \in Int : s >= 1 /\ KeptAt(q, e, s)
    <3>1. Kept(q, e)
      BY <2>3 DEF AllKept
    <3>2. PICK w \in Nat : w = 2 * Interval
      BY <1>0
    <3>3. q.current_ticks + w <= e.expiry_tick
      BY <2>3, <2>4, <3>2
    <3> QED
      BY <3>1, <3>2, <3>3 DEF Kept
  <2> DEFINE d == s - delta
  <2>6. e.expiry_tick - t < Interval * (d + 2)
    <3>1. Interval * (s + 2) = Interval * delta + Interval * (d + 2)
      BY <1>0
    <3>2. e.expiry_tick - q.current_ticks < Interval * (s + 2)
      BY <2>5 DEF KeptAt
    <3>3. Interval * (s + 2) \in Int /\ Interval * delta \in Int /\ Interval * (d + 2) \in Int
      BY <1>0
    <3> QED
      BY <2>1, <2>4, <3>1, <3>2, <3>3, SMTT(30)
  <2>7. d >= 1
    <3> SUFFICES ASSUME ~(d >= 1) PROVE FALSE
      OBVIOUS
    <3>1. Interval * (d + 2) <= Interval * 2
      BY <1>0, Times
    <3>2. PICK w \in Int : w = Interval * 2 /\ w = 2 * Interval
      BY <1>0
    <3>3. PICK z \in Int : z = Interval * (d + 2)
      BY <1>0
    <3> HIDE DEF d
    <3>4. e.expiry_tick - t < z /\ z <= w /\ t + w <= e.expiry_tick
      BY <2>3, <2>6, <3>1, <3>2, <3>3
    <3> QED
      BY <2>4, <3>4
  <2>8. At(r, e.bucket, d) /\ d < TotalBuckets
    <3>1. \/ e.bucket = q.bucket_index + s \/ e.bucket = q.bucket_index + s - TotalBuckets
          \/ e.bucket = q.bucket_index + s + TotalBuckets
      BY <2>5 DEF KeptAt, At
    <3>2. s < TotalBuckets
      BY <2>5 DEF KeptAt
    <3>3. e.bucket \in Nat /\ e.bucket < TotalBuckets
      BY <1>0, <2>4
    <3>4. \/ e.bucket = r.bucket_index + d \/ e.bucket = r.bucket_index + d - TotalBuckets
          \/ e.bucket = r.bucket_index + d + TotalBuckets
      <4>1. \/ r.bucket_index = q.bucket_index + delta \/ r.bucket_index = q.bucket_index + delta - TotalBuckets
        BY <2>1
      <4>2. delta < TotalBuckets
        BY <2>1
      <4>3. PICK a \in Nat, b \in Nat, c \in Nat : /\ a = q.bucket_index /\ b = r.bucket_index /\ c = e.bucket
                                                  /\ a < TotalBuckets /\ b < TotalBuckets /\ c < TotalBuckets
        BY <1>0, <2>4, <3>3
      <4>4. /\ c = a + s \/ c = a + s - TotalBuckets \/ c = a + s + TotalBuckets
            /\ b = a + delta \/ b = a + delta - TotalBuckets
        BY <3>1, <4>1, <4>3
      <4>5. TotalBuckets \in Nat /\ s >= 1
        BY <2>5, Params
      <4>6. c = b + (s - delta) \/ c = b + (s - delta) - TotalBuckets \/ c = b + (s - delta) + TotalBuckets
        BY <3>2, <4>2, <4>3, <4>4, <4>5, RingTurn
      <4> QED
        BY <4>3, <4>6
    <3> QED
      BY <1>0, <3>2, <3>4 DEF At
  <2>9. Holds(r, e)
    <3>1. At(q, e.bucket, s) /\ s < TotalBuckets /\ delta < s /\ Holds(q, e)
      BY <1>0, <2>5, <2>7 DEF KeptAt
    <3>2. r.buckets[e.bucket] = q.buckets[e.bucket]
      BY <2>1, <2>4, <3>1
    <3> QED
      BY <3>1, <3>2 DEF Holds
  <2>11. KeptAt(r, e, d) /\ d \in Int
    BY <2>2, <2>6, <2>8, <2>9 DEF KeptAt
  <2> QED
    BY <2>3, <2>7, <2>11
<1> QED
  BY <1>1, <1>2

\* A push puts its entry behind those that are there, and disturbs none of them.
LEMMA KeptByPush ==
    ASSUME NEW t \in Nat \ {0}, NEW q \in TQ(t), AllKept(q), NEW v \in Nat, NEW ttl \in 0..Duration
    PROVE  AllKept(PushValue(q, t, v, ttl, 0))
<1> DEFINE r == Advance(q, t)
           p == PushValue(q, t, v, ttl, 0)
           live == IF ttl = 0 THEN Duration ELSE ttl
           m == live \div Interval
           b == FutureIndex(r.bucket_index, m)
           n == Len(r.buckets[b]) + 1
           new == [bucket |-> b, value_index |-> n, expiry_tick |-> t + live, wait_for_tick |-> t + 0, own |-> v]
<1>0. TotalBuckets \in Nat /\ TotalBuckets > 1 /\ Slots = 0..(TotalBuckets - 1) /\ Interval \in Nat /\ Interval > 0
  BY Params DEF Slots
<1>1. live \in Nat /\ live <= Interval * TotalBuckets
  <2>1. PICK d \in Nat : d = Interval * TotalBuckets /\ d = Duration
    BY <1>0 DEF Duration
  <2> QED
    BY <2>1
<1>2. /\ p \in TQ(t) /\ p.current_ticks = t /\ p.bucket_index = r.bucket_index
      /\ b \in Slots /\ r.buckets[b] \in Seq(Nat) /\ p.buckets[b] = Append(r.buckets[b], v)
      /\ \A c \in Slots \ {b} : p.buckets[c] = r.buckets[c]
      /\ r.queue \in Seq(Entry) /\ p.queue = Append(r.queue, new)
  <2>1. PushLeaves(r, p, b, t, v, live)
    BY PushIs
  <2> HIDE DEF r, p, b, live
  <2> QED
    BY <2>1 DEF PushLeaves
<1>3. AllKept(r) /\ r \in TQ(t) /\ r.current_ticks = t
  BY AdvanceIs, KeptByAdvance
<1> HIDE DEF live
<1>4. m \in Nat /\ m <= TotalBuckets /\ live < Interval * (m + 1) /\ (2 * Interval <= live => 2 <= m)
  <2>1. m \in Nat /\ Interval * m <= live /\ live < Interval * m + Interval
    BY <1>0, <1>1, Div
  <2> HIDE DEF m
  <2>2. PICK x \in Nat : x = Interval * m /\ x + Interval = Interval * (m + 1)
    BY <1>0, <2>1
  <2>3. ASSUME 2 * Interval <= live PROVE 2 <= m
    <3>1. CASE m + 1 <= 2
      <4>1. Interval * (m + 1) <= Interval * 2
        BY <1>0, <2>1, <3>1, Times
      <4>2. PICK w \in Nat : w = 2 * Interval /\ w = Interval * 2
        BY <1>0
      <4>3. x + Interval <= w /\ w <= live /\ live < x + Interval
        BY <2>1, <2>2, <2>3, <4>1, <4>2
      <4> QED
        BY <1>0, <1>1, <2>2, <4>2, <4>3
    <3> QED
      BY <2>1, <3>1
  <2>4. m <= TotalBuckets
    <3>1. CASE TotalBuckets + 1 <= m
      <4>1. Interval * (TotalBuckets + 1) <= Interval * m
        BY <1>0, <2>1, <3>1, Times
      <4>2. PICK y \in Nat : y = Interval * TotalBuckets /\ y + Interval = Interval * (TotalBuckets + 1)
        BY <1>0
      <4>3. y + Interval <= x /\ x <= live /\ live <= y
        BY <1>1, <2>1, <2>2, <4>1, <4>2
      <4> QED
        BY <1>0, <1>1, <2>2, <4>2, <4>3
    <3> QED
      BY <1>0, <2>1, <3>1
  <2> QED
    BY <2>1, <2>2, <2>3, <2>4
<1> HIDE DEF m, r
<1>5. r.bucket_index \in Nat /\ r.bucket_index < TotalBuckets /\ r.bucket_index \in Slots
  BY <1>0, <1>3, TQFields
<1>6. 2 <= m => b = r.bucket_index + m - 1 \/ b = r.bucket_index + m - 1 - TotalBuckets
  <2>1. 2 <= m => m \in 1..TotalBuckets
    BY <1>0, <1>4
  <2> QED
    BY <1>5, <2>1, FutureIs
<1> HIDE DEF b
<1>7. n \in Nat \ {0} /\ new \in Entry
  <2>1. n \in Nat \ {0}
    BY <1>2, LenProperties
  <2> HIDE DEF n
  <2> QED
    BY <1>1, <1>2, <2>1 DEF Entry
<1>8. /\ \A i \in 1..Len(r.queue) : p.queue[i] = r.queue[i] /\ r.queue[i] \in Entry
      /\ p.queue[Len(r.queue) + 1] = new /\ DOMAIN p.queue = 1..(Len(r.queue) + 1)
      /\ DOMAIN r.queue = 1..Len(r.queue) /\ Len(r.queue) \in Nat
  <2> HIDE DEF new, p
  <2>1. p.queue \in Seq(Entry) /\ Len(p.queue) = Len(r.queue) + 1
    BY <1>2, <1>7, AppendProperties
  <2>2. DOMAIN p.queue = 1..(Len(r.queue) + 1)
    BY <2>1, LenProperties
  <2> QED
    BY <1>2, <1>3, <1>7, <2>2, AppendProperties, TQFields
<1>9. /\ Len(p.buckets[b]) = n /\ p.buckets[b][n] = v
      /\ \A j \in 1..(n - 1) : p.buckets[b][j] = r.buckets[b][j]
  <2> HIDE DEF p
  <2> QED
    BY <1>2, AppendProperties
<1> HIDE DEF p, n
<1>10. ASSUME 2 <= m PROVE KeptAt(p, new, m - 1)
  <2>1. At(p, b, m - 1) /\ m - 1 < TotalBuckets
    BY <1>0, <1>2, <1>4, <1>5, <1>6, <1>10 DEF At
  <2>2. new.expiry_tick - p.current_ticks < Interval * ((m - 1) + 2)
    <3>1. (m - 1) + 2 = m + 1 /\ (t + live) - t = live
      BY <1>1, <1>4
    <3> QED
      BY <1>2, <1>4, <3>1
  <2>3. Holds(p, new)
    BY <1>7, <1>9 DEF Holds
  <2> QED
    BY <2>1, <2>2, <2>3 DEF KeptAt
<1>11. ASSUME NEW i \in 1..Len(r.queue), t + 2 * Interval <= r.queue[i].expiry_tick
       PROVE  \E s \in Int : s >= 1 /\ KeptAt(p, r.queue[i], s)
  <2>1. PICK e \in Entry : e = r.queue[i]
    BY <1>8
  <2>2. PICK s \in Int : s >= 1 /\ KeptAt(r, e, s)
    BY <1>3, <1>8, <1>11, <2>1 DEF AllKept, Kept
  <2>3. e.bucket \in Slots /\ e.value_index \in Nat \ {0} /\ e.own \in Nat
    BY DEF Entry
  <2>4. At(p, e.bucket, s) /\ s < TotalBuckets /\ e.expiry_tick - p.current_ticks < Interval * (s + 2)
    BY <1>2, <1>3, <2>2 DEF KeptAt, At
  <2>5. Holds(r, e)
    BY <2>2 DEF KeptAt
  <2>6. CASE e.bucket # b
    <3>1. p.buckets[e.bucket] = r.buckets[e.bucket]
      BY <1>2, <2>3, <2>6
    <3>2. KeptAt(p, e, s)
      BY <2>4, <2>5, <3>1 DEF KeptAt, Holds
    <3> QED
      BY <2>1, <2>2, <3>2
  <2>7. CASE e.bucket = b
    <3>1. e.value_index \in 1..(n - 1) /\ r.buckets[b][e.value_index] = e.own
      BY <1>2, <2>5, <2>7, LenProperties DEF Holds, n
    <3>2. Holds(p, e)
      BY <1>7, <1>9, <2>3, <2>7, <3>1, SMTT(30) DEF Holds
    <3>3. KeptAt(p, e, s)
      BY <2>4, <3>2 DEF KeptAt
    <3> QED
      BY <2>1, <2>2, <3>3
  <2> QED
    BY <2>6, <2>7
<1>12. ASSUME NEW i \in DOMAIN p.queue PROVE Kept(p, p.queue[i])
  <2>1. CASE i \in 1..Len(r.queue)
    BY <1>2, <1>8, <1>11, <2>1 DEF Kept
  <2>2. CASE i = Len(r.queue) + 1
    <3>1. p.queue[i] = new /\ new.expiry_tick = t + live /\ p.current_ticks = t
      BY <1>2, <1>8, <2>2
    <3> HIDE DEF new
    <3> SUFFICES ASSUME t + 2 * Interval <= t + live PROVE \E s \in Int : s >= 1 /\ KeptAt(p, new, s)
      BY <3>1 DEF Kept
    <3>2. PICK w \in Nat : w = 2 * Interval
      BY <1>0
    <3>3. 2 <= m
      BY <1>1, <1>4, <3>2
    <3>4. m - 1 \in Int /\ m - 1 >= 1
      BY <1>4, <3>3
    <3> QED
      BY <1>10, <3>3, <3>4
  <2> QED
    BY <1>8, <2>1, <2>2
<1> QED
  BY <1>12 DEF AllKept, p

\* Looking at the front and popping leave some of the entries.
LEMMA KeptByFront ==
    ASSUME NEW t \in Nat \ {0}, NEW q \in TQ(t), AllKept(q)
    PROVE  AllKept(FrontOf(q, t).q)
<1> DEFINE r == Advance(q, t)
           f == FrontOf(q, t)
<1>1. AllKept(r) /\ r \in TQ(t) /\ r.current_ticks = t
  BY AdvanceIs, KeptByAdvance
<1>2. /\ f.q \in TQ(t) /\ f.q.current_ticks = t /\ f.q.bucket_index = r.bucket_index
      /\ f.q.buckets = r.buckets
  BY FrontIs
<1>3. PICK at \in 1..(Len(r.queue) + 1) :
        \A i \in DOMAIN f.q.queue : at + i - 1 \in DOMAIN r.queue /\ f.q.queue[i] = r.queue[at + i - 1]
  BY FrontIs
<1> HIDE DEF r, f
<1>4. \A e : Kept(r, e) => Kept(f.q, e)
  BY <1>1, <1>2 DEF Kept, KeptAt, Holds, At
<1>5. AllKept(f.q)
  BY <1>1, <1>3, <1>4 DEF AllKept
<1> QED
  BY <1>5 DEF f

LEMMA KeptByPop ==
    ASSUME NEW t \in Nat, NEW q \in TQ(t), AllKept(q), ~IsEmpty(q)
    PROVE  AllKept(PopEntry(q))
<1>1. \A e : Kept(q, e) => Kept(PopEntry(q), e)
  BY PopEntryIs, SMTT(30) DEF Kept, KeptAt, Holds, At
<1> QED
  BY <1>1, PopEntryIs DEF AllKept

-----------------------------------------------------------------------------
(* The priority queue. *)

\* Time queues that are free.
Spares(t) == {q \in TQ(t) : q.queue = <<>>}

PQs(t) ==
    {p \in [queues : UNION {[K -> TQ(t)] : K \in SUBSET QueueKeys}, free : Seq(Spares(t))] : Len(p.free) <= MaxFree}

LEMMA PQFields ==
    ASSUME NEW t \in Nat, NEW p \in PQs(t)
    PROVE  /\ Keys(p) \subseteq QueueKeys /\ Keys(p) \subseteq Nat /\ IsFiniteSet(Keys(p))
           /\ p.queues \in [Keys(p) -> TQ(t)] /\ p.free \in Seq(Spares(t)) /\ Len(p.free) <= MaxFree
           /\ p = [queues |-> p.queues, free |-> p.free]
<1>1. PICK K \in SUBSET QueueKeys : p.queues \in [K -> TQ(t)]
  BY DEF PQs
<1>2. Keys(p) = K
  BY <1>1 DEF Keys
<1>3. QueueKeys \subseteq Nat /\ IsFiniteSet(QueueKeys)
  BY StoresAssumption
<1>4. IsFiniteSet(K)
  BY <1>1, <1>3, FS_Subset
<1> QED
  BY <1>1, <1>2, <1>3, <1>4 DEF PQs

LEMMA PQMade ==
    ASSUME NEW t \in Nat, NEW K \in SUBSET QueueKeys, NEW g \in [K -> TQ(t)], NEW fr \in Seq(Spares(t)),
           Len(fr) <= MaxFree
    PROVE  [queues |-> g, free |-> fr] \in PQs(t) /\ Keys([queues |-> g, free |-> fr]) = K
  BY DEF PQs, Keys

LEMMA PQLater ==
    ASSUME NEW t \in Nat, NEW u \in Nat, t <= u, NEW p \in PQs(t)
    PROVE  p \in PQs(u)
<1>1. p.queues \in [Keys(p) -> TQ(u)]
  BY PQFields, TQLater
<1>2. p.free \in Seq(Spares(u))
  <2>1. Spares(t) \subseteq Spares(u)
    BY TQLater DEF Spares
  <2> QED
    BY <2>1, PQFields, SeqMonotonic
<1>3. Keys(p) \in SUBSET QueueKeys /\ Len(p.free) <= MaxFree /\ p = [queues |-> p.queues, free |-> p.free]
  BY PQFields
<1>4. [queues |-> p.queues, free |-> p.free] \in PQs(u)
  BY <1>1, <1>2, <1>3, PQMade, Zenon
<1> QED
  BY <1>3, <1>4, Zenon

\* Groups go, and some of their queues are kept for later.
LEMMA RemoveIs ==
    ASSUME NEW t \in Nat, NEW p \in PQs(t), NEW keys \in SUBSET Keys(p)
    PROVE  /\ RemoveGroupTimeQueue(p, keys) \in PQs(t)
           /\ Keys(RemoveGroupTimeQueue(p, keys)) = Keys(p) \ keys
           /\ \A k \in Keys(p) \ keys : RemoveGroupTimeQueue(p, keys).queues[k] = p.queues[k]
<1> DEFINE c == Cleared(p, keys)
           n == Cardinality(keys)
           l == Len(p.free)
           x == Min({MaxFree, l + Len(c)})
           m == Max({l, x})
           fr == Spare(p.free, c)
           g == [k \in Keys(p) \ keys |-> p.queues[k]]
<1>1. keys \subseteq Nat /\ IsFiniteSet(keys) /\ n \in Nat
  BY PQFields, FS_Subset, FS_CardinalityType
<1>2. c \in Seq(Spares(t)) /\ Len(c) \in Nat
  <2>1. \A i \in 1..n : Nth(keys, i) \in Keys(p)
    BY <1>1, NthIs
  <2>2. \A i \in 1..n : Clear(p.queues[Nth(keys, i)]) \in Spares(t)
    BY <2>1, PQFields, ClearIs DEF Spares
  <2>3. c \in [1..n -> Spares(t)]
    BY <2>2 DEF Cleared
  <2> HIDE DEF c
  <2>4. c \in Seq(Spares(t))
    BY <1>1, <2>3, SeqDef
  <2> QED
    BY <2>4, LenProperties
<1> HIDE DEF c
<1>3. l \in Nat /\ l <= MaxFree /\ p.free \in Seq(Spares(t)) /\ MaxFree \in Nat
  BY PQFields, LenProperties, Params
<1>4. x \in Nat /\ x <= MaxFree /\ x <= l + Len(c)
  <2> DEFINE S == {MaxFree, l + Len(c)}
  <2>1. S \subseteq Nat /\ S # {}
    BY <1>2, <1>3
  <2>2. Min(S) \in S /\ \A y \in S : Min(S) <= y
    BY <2>1, MinIs
  <2> QED
    BY <2>1, <2>2
<1> HIDE DEF x
<1>5. m = l \/ m = x
  <2>1. \E z \in {l, x} : \A y \in {l, x} : z >= y
    BY <1>3, <1>4
  <2> QED
    BY <2>1 DEF Max
<1>6. m \in Nat /\ m <= MaxFree /\ m <= l + Len(c)
  BY <1>2, <1>3, <1>4, <1>5
<1>7. fr = SubSeq(p.free \o c, 1, m)
  BY DEF Spare, x
<1> HIDE DEF m, fr, l
<1>8. \A i \in 1..m : (p.free \o c)[i] \in Spares(t)
  <2>1. p.free \o c \in Seq(Spares(t)) /\ Len(p.free \o c) = l + Len(c)
    BY <1>2, <1>3, ConcatProperties DEF l
  <2>2. \A i \in 1..m : i \in 1..Len(p.free \o c)
    BY <1>2, <1>3, <1>6, <2>1
  <2> QED
    BY <2>1, <2>2, ElementOfSeq
<1>9. fr \in Seq(Spares(t)) /\ Len(fr) <= MaxFree
  <2>1. fr \in Seq(Spares(t)) /\ Len(fr) = IF 1 <= m THEN m - 1 + 1 ELSE 0
    <3>1. PICK s : s = p.free \o c
      OBVIOUS
    <3>0. m \in Int /\ 1 \in Int
      BY <1>6
    <3>2. \A i \in 1..m : s[i] \in Spares(t)
      BY <1>8, <3>1, Zenon
    <3>3. SubSeq(s, 1, m) \in Seq(Spares(t)) /\ Len(SubSeq(s, 1, m)) = IF 1 <= m THEN m - 1 + 1 ELSE 0
      BY <3>0, <3>2, SubSeqProperties
    <3> QED
      BY <1>7, <3>1, <3>3, Zenon
  <2> QED
    BY <1>3, <1>6, <2>1
<1>10. g \in [Keys(p) \ keys -> TQ(t)] /\ Keys(p) \ keys \in SUBSET QueueKeys
  BY PQFields
<1>11. RemoveGroupTimeQueue(p, keys) = [queues |-> g, free |-> fr]
  BY DEF RemoveGroupTimeQueue, c, fr
<1> HIDE DEF g
<1>12. [queues |-> g, free |-> fr] \in PQs(t) /\ Keys([queues |-> g, free |-> fr]) = Keys(p) \ keys
  <2>1. PICK K \in SUBSET QueueKeys : K = Keys(p) \ keys /\ g \in [K -> TQ(t)]
    BY <1>10
  <2>2. [queues |-> g, free |-> fr] \in PQs(t) /\ Keys([queues |-> g, free |-> fr]) = K
    BY <1>9, <2>1 DEF PQs, Keys
  <2> QED
    BY <2>1, <2>2
<1> QED
  BY <1>11, <1>12 DEF g

\* A group gets a queue: its own, a spare or a new one.
LEMMA GetIs ==
    ASSUME NEW t \in Nat, NEW p \in PQs(t), NEW key \in QueueKeys
    PROVE  LET g == GetQueueByPriorityGroupId(p, key)
           IN  /\ g.queue \in TQ(t) /\ g.free \in Seq(Spares(t)) /\ Len(g.free) <= MaxFree
               /\ key \in Keys(p) => g.queue = p.queues[key]
               /\ key \notin Keys(p) => g.queue.queue = <<>>
<1> DEFINE g == GetQueueByPriorityGroupId(p, key)
<1>1. p.free \in Seq(Spares(t)) /\ Len(p.free) \in Nat /\ Len(p.free) <= MaxFree
  BY PQFields, LenProperties
<1>2. CASE key \in Keys(p)
  <2>1. g = [queue |-> p.queues[key], free |-> p.free]
    BY <1>2 DEF GetQueueByPriorityGroupId
  <2> QED
    BY <1>1, <1>2, <2>1, PQFields
<1>3. CASE key \notin Keys(p) /\ p.free = <<>>
  <2> DEFINE new == [i \in 1..MinFree |-> NewTimeQueue]
  <2>1. new \in Seq(Spares(t)) /\ Len(new) = MinFree
    <3>1. new \in [1..MinFree -> Spares(t)]
      BY NewIs DEF Spares
    <3> HIDE DEF new
    <3>2. new \in Seq(Spares(t))
      BY <3>1, SeqDef, Params
    <3>3. DOMAIN new = 1..MinFree /\ DOMAIN new = 1..Len(new) /\ Len(new) \in Nat
      BY <3>1, <3>2, LenProperties
    <3> QED
      BY <3>2, <3>3, Params
  <2>2. InitFreeTimeQueues(p.free) = <<>> \o new
    BY <1>3, EmptySeq, Params DEF InitFreeTimeQueues
  <2>3. g = [queue |-> NewTimeQueue, free |-> InitFreeTimeQueues(p.free)]
    BY <1>3 DEF GetQueueByPriorityGroupId
  <2> HIDE DEF new
  <2>4. <<>> \o new = new
    BY <2>1, ConcatEmptySeq
  <2> QED
    BY <1>3, <2>1, <2>2, <2>3, <2>4, NewIs, Params
<1>4. CASE key \notin Keys(p) /\ p.free # <<>>
  <2> DEFINE n == Len(p.free)
  <2>1. n \in Nat /\ n > 0 /\ n <= MaxFree
    BY <1>1, <1>4, EmptySeq
  <2>2. g = [queue |-> p.free[n], free |-> SubSeq(p.free, 1, n - 1)]
    BY <1>4 DEF GetQueueByPriorityGroupId, Last, Front
  <2>3. p.free[n] \in Spares(t) /\ \A i \in 1..(n - 1) : p.free[i] \in Spares(t)
    <3>1. \A i \in 1..n : p.free[i] \in Spares(t)
      BY <1>1, ElementOfSeq
    <3> HIDE DEF n
    <3> QED
      BY <2>1, <3>1
  <2> HIDE DEF n
  <2>4. /\ SubSeq(p.free, 1, n - 1) \in Seq(Spares(t))
        /\ Len(SubSeq(p.free, 1, n - 1)) = IF 1 <= n - 1 THEN (n - 1) - 1 + 1 ELSE 0
    <3>1. n - 1 \in Int
      BY <2>1
    <3> QED
      BY <2>3, <3>1, SubSeqProperties
  <2>5. Len(SubSeq(p.free, 1, n - 1)) <= MaxFree
    BY <2>1, <2>4, Params
  <2> QED
    BY <1>4, <2>2, <2>3, <2>4, <2>5 DEF Spares
<1> QED
  BY <1>2, <1>3, <1>4

LEMMA PushPQIs ==
    ASSUME NEW t \in Nat \ {0}, NEW p \in PQs(t), NEW key \in QueueKeys, NEW v \in Nat, NEW ttl \in 0..Duration
    PROVE  /\ Push(p, t, key, v, ttl, 0) \in PQs(t) /\ Keys(Push(p, t, key, v, ttl, 0)) = Keys(p) \cup {key}
           /\ \A k \in Keys(p) \ {key} : Push(p, t, key, v, ttl, 0).queues[k] = p.queues[k]
           /\ \E q \in TQ(t) : /\ Push(p, t, key, v, ttl, 0).queues[key] = PushValue(q, t, v, ttl, 0)
                               /\ (key \in Keys(p) /\ q = p.queues[key]) \/ q.queue = <<>>
<1> DEFINE g == GetQueueByPriorityGroupId(p, key)
           new == PushValue(g.queue, t, v, ttl, 0)
           K == Keys(p) \cup {key}
           qs == [k \in K |-> IF k = key THEN new ELSE p.queues[k]]
<1>1. /\ g.queue \in TQ(t) /\ g.free \in Seq(Spares(t)) /\ Len(g.free) <= MaxFree
      /\ key \in Keys(p) => g.queue = p.queues[key]
      /\ key \notin Keys(p) => g.queue.queue = <<>>
  BY GetIs
<1>2. Push(p, t, key, v, ttl, 0) = [queues |-> qs, free |-> g.free]
  BY DEF Push, PushTo
<1> HIDE DEF g
<1>3. new \in TQ(t)
  <2>1. PICK live : live = IF ttl = 0 THEN Duration ELSE ttl
    OBVIOUS
  <2> QED
    BY <1>1, <2>1, PushIs DEF PushLeaves
<1>4. K \in SUBSET QueueKeys /\ p.queues \in [Keys(p) -> TQ(t)]
  BY PQFields
<1> HIDE DEF new
<1>5. qs \in [K -> TQ(t)] /\ qs[key] = new /\ \A k \in Keys(p) \ {key} : qs[k] = p.queues[k]
  BY <1>3, <1>4
<1> HIDE DEF qs, K
<1>6. Push(p, t, key, v, ttl, 0) \in PQs(t) /\ Keys(Push(p, t, key, v, ttl, 0)) = K
  BY <1>1, <1>2, <1>4, <1>5 DEF PQs, Keys
<1>7. Push(p, t, key, v, ttl, 0).queues = qs
  BY <1>2
<1> QED
  BY <1>1, <1>5, <1>6, <1>7 DEF new, K

\* What a look leaves: without a value nothing; with one, the group it comes from
\* without what expired before it, and the groups after that.
FrontLeaves(p, t, f) ==
    /\ f.pq \in PQs(t) /\ f.has \in BOOLEAN /\ Keys(f.pq) \subseteq Keys(p)
    /\ ~f.has => Keys(f.pq) = {}
    /\ f.has => \E stop \in Keys(p) :
         /\ FrontOf(p.queues[stop], t).has /\ f.own = FrontOf(p.queues[stop], t).own
         /\ \A k \in Keys(f.pq) : \/ k = stop /\ f.pq.queues[k] = FrontOf(p.queues[k], t).q
                                  \/ k > stop /\ f.pq.queues[k] = p.queues[k]

LEMMA FrontPQIs ==
    ASSUME NEW t \in Nat \ {0}, NEW p \in PQs(t)
    PROVE  FrontLeaves(p, t, FrontPQ(p, t))
<1> DEFINE F == FrontPQ(p, t)
           K == Keys(p)
<1>1. K \subseteq Nat /\ IsFiniteSet(K) /\ K \subseteq QueueKeys /\ p.queues \in [K -> TQ(t)]
  BY PQFields
<1>2. CASE K = {}
  <2>1. F = [pq |-> p, has |-> FALSE, value |-> 0, own |-> 0]
    BY <1>2 DEF FrontPQ
  <2> QED
    BY <1>2, <2>1 DEF FrontLeaves
<1>3. CASE K # {}
  <2> DEFINE f == [k \in K |-> FrontOf(p.queues[k], t)]
             has == {k \in K : f[k].has}
             S == has \cup {Max(K)}
             stop == Min(S)
             L == Looked(p, f, stop)
             gone == {k \in K : k <= stop /\ (IsEmpty(f[k].q) \/ ~f[k].has \/ f[k].expired > 0)}
  <2>1. F = [pq |-> RemoveGroupTimeQueue(L, gone), has |-> f[stop].has, value |-> f[stop].value, own |-> f[stop].own]
    BY <1>3 DEF FrontPQ, FrontGroups, FrontUpTo
  <2>2. \A k \in K : f[k] = FrontOf(p.queues[k], t) /\ f[k].q \in TQ(t) /\ f[k].has \in BOOLEAN
    BY <1>1, FrontIs
  <2> HIDE DEF f
  <2>3. Max(K) \in K /\ \A k \in K : k <= Max(K)
    BY <1>1, <1>3, MaxIs
  <2>4. S \subseteq Nat /\ S # {} /\ S \subseteq K
    BY <1>1, <2>3
  <2>5. stop \in S /\ \A k \in S : stop <= k
    BY <2>4, MinIs
  <2>6. stop \in K /\ \A k \in K : f[k].has => stop <= k
    BY <2>4, <2>5
  <2>7. ~f[stop].has => stop = Max(K) /\ \A k \in K : ~f[k].has
    <3> SUFFICES ASSUME ~f[stop].has PROVE stop = Max(K) /\ \A k \in K : ~f[k].has
      OBVIOUS
    <3>1. stop = Max(K)
      BY <2>5
    <3>2. ASSUME NEW k \in K, f[k].has PROVE FALSE
      <4>1. stop <= k /\ k <= stop
        BY <2>3, <2>6, <3>1, <3>2
      <4>2. k = stop
        BY <1>1, <2>6, <4>1
      <4> QED
        BY <3>2, <4>2
    <3> QED
      BY <3>1, <3>2
  <2> HIDE DEF stop, S
  <2>8. L \in PQs(t) /\ Keys(L) = K /\ \A k \in K : L.queues[k] = IF k <= stop THEN f[k].q ELSE p.queues[k]
    <3> DEFINE g == [k \in K |-> IF k <= stop THEN f[k].q ELSE p.queues[k]]
    <3>1. p = [queues |-> p.queues, free |-> p.free] /\ p.free \in Seq(Spares(t)) /\ Len(p.free) <= MaxFree
      BY PQFields
    <3>2. L = [p EXCEPT !.queues = g]
      BY DEF Looked
    <3>3. g \in [K -> TQ(t)]
      BY <1>1, <2>2
    <3>4. \A k \in K : g[k] = IF k <= stop THEN f[k].q ELSE p.queues[k]
      OBVIOUS
    <3> HIDE DEF g, L
    <3>5. L = [queues |-> g, free |-> p.free]
      BY <3>1, <3>2
    <3>6. L \in PQs(t) /\ Keys(L) = K
      <4>1. K \in SUBSET QueueKeys
        BY <1>1
      <4> HIDE DEF K
      <4> QED
        BY <3>1, <3>3, <3>5, <4>1 DEF PQs, Keys
    <3> QED
      BY <3>4, <3>5, <3>6
  <2> HIDE DEF L
  <2>9. gone \in SUBSET Keys(L)
    BY <2>8
  <2> DEFINE R == RemoveGroupTimeQueue(L, gone)
  <2>10. R \in PQs(t) /\ Keys(R) = K \ gone /\ \A k \in K \ gone : R.queues[k] = L.queues[k]
    <3> HIDE DEF gone, K
    <3> QED
      BY <2>8, <2>9, RemoveIs
  <2> HIDE DEF R
  <2>11. F.pq = R /\ F.has = f[stop].has /\ F.own = f[stop].own
    BY <2>1 DEF R
  <2> HIDE DEF F
  <2>12. ~F.has => Keys(F.pq) = {}
    <3> SUFFICES ASSUME ~F.has PROVE K \ gone = {}
      BY <2>10, <2>11
    <3>1. \A k \in K : k <= stop /\ ~f[k].has
      BY <2>3, <2>7, <2>11
    <3> QED
      BY <3>1
  <2>13. ASSUME F.has, NEW k \in Keys(F.pq)
         PROVE  \/ k = stop /\ F.pq.queues[k] = FrontOf(p.queues[k], t).q
                \/ k > stop /\ F.pq.queues[k] = p.queues[k]
    <3>1. k \in K /\ k \notin gone /\ k \in Nat /\ stop \in Nat
      BY <1>1, <2>6, <2>10, <2>11, <2>13
    <3>2. R.queues[k] = L.queues[k]
      BY <2>10, <3>1
    <3>3. CASE k > stop
      BY <2>8, <2>11, <3>1, <3>2, <3>3
    <3>4. CASE ~(k > stop)
      <4>1. k <= stop /\ f[k].has
        BY <3>1, <3>4
      <4>2. k = stop
        BY <2>6, <3>1, <4>1
      <4> QED
        BY <2>2, <2>8, <2>11, <3>1, <3>2, <4>1, <4>2
    <3> QED
      BY <3>3, <3>4
  <2>14. F.has \in BOOLEAN /\ F.pq \in PQs(t) /\ Keys(F.pq) \subseteq Keys(p)
    BY <2>2, <2>6, <2>10, <2>11
  <2>15. F.has => FrontOf(p.queues[stop], t).has /\ F.own = FrontOf(p.queues[stop], t).own
    BY <2>2, <2>6, <2>11
  <2>16. FrontLeaves(p, t, F)
    <3> HIDE DEF K
    <3>1. stop \in Keys(p)
      BY <2>6 DEF K
    <3> QED
      BY <2>12, <2>13, <2>14, <2>15, <3>1 DEF FrontLeaves
  <2> QED
    BY <2>16 DEF F
<1> QED
  BY <1>2, <1>3

\* What a pop leaves: the first group that is not empty, if there is one, without its
\* front, and the others as they are.
PopLeaves(p, t, r) ==
    /\ r \in PQs(t) /\ Keys(r) \subseteq Keys(p)
    /\ \A k \in Keys(r) :
         \/ IsEmpty(p.queues[k]) /\ r.queues[k] = p.queues[k]
         \/ /\ ~IsEmpty(p.queues[k]) /\ r.queues[k] = PopEntry(p.queues[k])
            /\ \A j \in Keys(p) : j < k => IsEmpty(p.queues[j])
         \/ r.queues[k] = p.queues[k] /\ \E j \in Keys(p) : j < k /\ ~IsEmpty(p.queues[j])

LEMMA PopPQIs ==
    ASSUME NEW t \in Nat, NEW p \in PQs(t)
    PROVE  PopLeaves(p, t, PopPQ(p))
<1> DEFINE K == Keys(p)
<1>1. K \subseteq Nat /\ IsFiniteSet(K) /\ K \in SUBSET QueueKeys /\ p.queues \in [K -> TQ(t)]
  BY PQFields
<1>2. CASE K = {}
  BY <1>2 DEF PopPQ, PopLeaves
<1>3. CASE K # {}
  <2> DEFINE key == IF Full(p) = {} THEN Max(K) ELSE Min(Full(p))
             g == [p.queues EXCEPT ![key] = IF IsEmpty(@) THEN @ ELSE PopEntry(@)]
             gone == {k \in K : \/ Priority(k) = Priority(key) /\ k < key
                                \/ k = key /\ Len(p.queues[k].queue) <= 1}
  <2>1. PopPQ(p) = RemoveGroupTimeQueue([p EXCEPT !.queues[key] = IF IsEmpty(@) THEN @ ELSE PopEntry(@)], gone)
    BY <1>3 DEF PopPQ, PopGroup
  <2>2. Full(p) \subseteq K
    BY DEF Full
  <2>3. key \in K /\ \A k \in Full(p) : key <= k
    BY <1>1, <1>3, <2>2, MaxIs, MinIs
  <2>4. Full(p) # {} => key \in Full(p)
    BY <1>1, <2>2, MinIs
  <2> HIDE DEF key
  <2>5. p = [queues |-> p.queues, free |-> p.free] /\ p.free \in Seq(Spares(t)) /\ Len(p.free) <= MaxFree
    BY PQFields
  <2> DEFINE L == [queues |-> g, free |-> p.free]
  <2>6. [p EXCEPT !.queues[key] = IF IsEmpty(@) THEN @ ELSE PopEntry(@)] = L
    <3>1. PICK qs, fr : p = [queues |-> qs, free |-> fr] /\ p.queues = qs /\ p.free = fr
      BY <2>5
    <3> QED
      BY <3>1
  <2>7. \A k \in K : g[k] = IF k = key /\ ~IsEmpty(p.queues[k]) THEN PopEntry(p.queues[k]) ELSE p.queues[k]
    BY <1>1, <2>3
  <2>8. g \in [K -> TQ(t)]
    BY <1>1, <2>3, PopEntryIs
  <2> HIDE DEF g
  <2>9. L \in PQs(t) /\ Keys(L) = K /\ L.queues = g
    <3> HIDE DEF K
    <3> QED
      BY <1>1, <2>5, <2>8 DEF PQs, Keys
  <2> HIDE DEF L
  <2>10. gone \in SUBSET Keys(L)
    BY <2>9
  <2> DEFINE R == RemoveGroupTimeQueue(L, gone)
  <2>11. R \in PQs(t) /\ Keys(R) = K \ gone /\ \A k \in K \ gone : R.queues[k] = g[k]
    <3> HIDE DEF gone, K
    <3> QED
      BY <2>9, <2>10, RemoveIs
  <2>12. PopPQ(p) = R
    BY <2>1, <2>6
  <2> HIDE DEF R, gone
  <2>13. ASSUME NEW k \in Keys(R)
         PROVE  \/ IsEmpty(p.queues[k]) /\ R.queues[k] = p.queues[k]
                \/ /\ ~IsEmpty(p.queues[k]) /\ R.queues[k] = PopEntry(p.queues[k])
                   /\ \A j \in Keys(p) : j < k => IsEmpty(p.queues[j])
                \/ R.queues[k] = p.queues[k] /\ \E j \in Keys(p) : j < k /\ ~IsEmpty(p.queues[j])
    <3>1. k \in K /\ R.queues[k] = g[k] /\ k \in Nat /\ key \in Nat
      BY <1>1, <2>3, <2>11, <2>13
    <3>2. CASE IsEmpty(p.queues[k])
      BY <2>7, <3>1, <3>2
    <3>3. CASE ~IsEmpty(p.queues[k]) /\ k = key
      <4>1. ASSUME NEW j \in Keys(p), j < k PROVE IsEmpty(p.queues[j])
        <5>1. j \in Nat /\ ~(key <= j)
          BY <1>1, <3>1, <3>3, <4>1
        <5> QED
          BY <2>3, <4>1, <5>1 DEF Full
      <4> QED
        BY <2>7, <3>1, <3>3, <4>1
    <3>4. CASE ~IsEmpty(p.queues[k]) /\ k # key
      <4>1. k \in Full(p)
        BY <3>1, <3>4 DEF Full
      <4>2. key < k /\ key \in Full(p)
        BY <2>3, <2>4, <3>1, <3>4, <4>1
      <4> QED
        BY <2>7, <3>1, <3>4, <4>2 DEF Full
    <3> QED
      BY <3>2, <3>3, <3>4
  <2> QED
    BY <2>11, <2>12, <2>13 DEF PopLeaves
<1> QED
  BY <1>2, <1>3

-----------------------------------------------------------------------------
(* The datagrams. *)

Datagram == [ctx : Ctx, key : QueueKeys]

\* A posted function for each time the flag is set, and one for a datagram that did
\* not fit.
Counted(marked, n) == n \in Nat /\ n <= MaxPosted + 1 /\ (~marked => n <= MaxPosted)
DgramType ==
    /\ ticks \in 1..MaxTick /\ pq \in PQs(ticks) /\ active \subseteq Ctx
    /\ mark \in BOOLEAN /\ ready \in BOOLEAN /\ slid \in BOOLEAN /\ Counted(mark, posted)
    /\ sending \in Nat \cup {None} /\ pushed \in Seq(Datagram) /\ sent \in Seq(Nat)
DgramInv == DgramType /\ DgramWakeup /\ (mark => posted > 0 \/ slid)

QueuesKept == \A k \in Keys(pq) : AllKept(pq.queues[k])

\* The datagrams of a group are its own and in order.
InOrder ==
    \A k \in Keys(pq) : \A i \in DOMAIN pq.queues[k].queue :
        /\ pq.queues[k].queue[i].own \in DOMAIN pushed /\ pushed[pq.queues[k].queue[i].own].key = k
        /\ \A j \in DOMAIN pq.queues[k].queue : i < j => pq.queues[k].queue[i].own < pq.queues[k].queue[j].own

\* Of one key, what was sent comes before what is being sent, and that before what is
\* queued; and nothing queued is more urgent than what is being sent, unless it came
\* since.
NotAgain(v, w) == v < w \/ (v = w /\ v \in overtaken)
SentLeft == \A i \in DOMAIN sent : \A k \in Keys(pq) : pushed[sent[i]].key = k =>
    \A j \in DOMAIN pq.queues[k].queue : NotAgain(sent[i], pq.queues[k].queue[j].own)
SendingBefore(v) == \A k \in Keys(pq) : \A j \in DOMAIN pq.queues[k].queue :
    (k = pushed[v].key => v <= pq.queues[k].queue[j].own) /\ (k < pushed[v].key => v \in overtaken)
SendingNext(v) ==
    /\ v \in DOMAIN pushed
    /\ \A i \in DOMAIN sent : pushed[sent[i]].key = pushed[v].key => NotAgain(sent[i], v)
    /\ SendingBefore(v)
SentInOrder ==
    /\ SentOnce /\ (\A i \in DOMAIN sent : sent[i] \in DOMAIN pushed)
    /\ SentLeft /\ (sending # None => SendingNext(sending))

-----------------------------------------------------------------------------
(* The cache. *)

Inserted == [key : CacheKeys, at : Nat, ttl : Nat]
Caches(t) ==
    {c \in [bucket_index : CacheSlots, current_ticks : Nat, buckets : [CacheSlots -> SUBSET CacheKeys],
            cache : UNION {[K -> Nat] : K \in SUBSET CacheKeys}] : c.current_ticks <= t}
CacheType ==
    /\ ticks \in 1..MaxTick /\ cache \in Caches(ticks) /\ inserts \in Seq(Inserted)
    /\ cache.current_ticks = 0 => inserts = <<>> /\ DOMAIN cache.cache = {}

\* What the bucket interval leaves of a time to live.
Until(e) == e.at + CacheInterval * (e.ttl \div CacheInterval)
Ahead(c, b, s) == b = c.bucket_index + s \/ b = c.bucket_index + s - CacheBuckets

\* A key in a bucket was inserted to live no longer than until its bucket is passed, and
\* nothing longer than the duration; a key that is gone has outlived an insertion.
KeysEnd(c, ins) ==
    /\ \A b \in CacheSlots, s \in 0..(CacheBuckets - 1) : \A k \in c.buckets[b] : Ahead(c, b, s) =>
         \E i \in DOMAIN ins :
            ins[i].key = k /\ Until(ins[i]) <= c.current_ticks + CacheInterval * (s + 1)
    /\ \A i \in DOMAIN ins : Until(ins[i]) <= c.current_ticks + CacheInterval * CacheBuckets
    /\ \A i \in DOMAIN ins : ins[i].key \notin DOMAIN c.cache =>
         \E j \in DOMAIN ins : ins[j].key = ins[i].key /\ c.current_ticks >= Until(ins[j])

-----------------------------------------------------------------------------
(* Types, and that no datagram is left behind. *)

LEMMA Bounds ==
    /\ None \notin Nat /\ QueueKeys \subseteq Nat /\ Ttls \subseteq 0..Duration /\ Duration \in Nat
    /\ MaxTick \in Nat /\ MaxTick > 0 /\ MaxPosted \in Nat /\ CacheKeys \subseteq Nat
  BY StoresAssumption, Params DEF Duration

LEMMA Clock ==
    ASSUME ticks \in 1..MaxTick
    PROVE  ticks \in Nat \ {0} /\ ticks \in Nat
  BY Bounds

LEMMA QueuedSame ==
    ASSUME UNCHANGED pq
    PROVE  Queued' = Queued
<1>1. Queued' = UNION {Entries(pq'.queues[k]) : k \in Keys(pq')}
  BY DEF Queued, Entries
<1> QED
  BY <1>1, Zenon DEF Queued

\* The steps that leave the datagrams alone.
LEMMA DgramKept ==
    ASSUME DgramInv, UNCHANGED dgramVars, ticks' \in 1..MaxTick, ticks <= ticks'
    PROVE  DgramInv'
<1>1. UNCHANGED <<pq, active, mark, ready, posted, slid, sending, pushed, sent>>
  BY DEF dgramVars
<1>2. pq \in PQs(ticks')
  <2>1. ticks \in Nat /\ ticks' \in Nat /\ pq \in PQs(ticks)
    BY Clock, Bounds DEF DgramInv, DgramType
  <2> QED
    BY <2>1, PQLater
<1>3. DgramType'
  BY <1>1, <1>2 DEF DgramInv, DgramType
<1>4. DgramWakeup'
  BY <1>1, QueuedSame DEF DgramInv, DgramWakeup
<1> QED
  BY <1>1, <1>3, <1>4 DEF DgramInv

LEMMA DgramInit == Init => DgramInv
<1> SUFFICES ASSUME Init PROVE DgramInv
  OBVIOUS
<1>1. pq \in PQs(ticks)
  <2> DEFINE fr == [i \in 1..MinFree |-> NewTimeQueue]
  <2>1. pq = [queues |-> <<>>, free |-> fr] /\ ticks = 1
    BY DEF Init, NewPriorityQueue
  <2>2. <<>> \in [{} -> TQ(1)]
    OBVIOUS
  <2>3. fr \in [1..MinFree -> Spares(1)]
    BY NewIs DEF Spares
  <2> HIDE DEF fr
  <2>4. fr \in Seq(Spares(1)) /\ DOMAIN fr = 1..MinFree
    BY <2>3, SeqDef, Params
  <2>5. Len(fr) = MinFree
    BY <2>4, LenProperties, Params
  <2> QED
    BY <2>1, <2>2, <2>4, <2>5, Params DEF PQs
<1>2. DgramType
  <2>1. ticks = 1 /\ 1 \in 1..MaxTick
    BY Bounds DEF Init
  <2>2. pushed \in Seq(Datagram) /\ sent \in Seq(Nat)
    BY EmptySeq DEF Init
  <2>3. active = Ctx /\ mark = FALSE /\ ready = FALSE /\ posted = 0 /\ slid = FALSE /\ sending = None
    BY DEF Init
  <2>4. Counted(FALSE, 0)
    BY Bounds DEF Counted
  <2> QED
    BY <1>1, <2>1, <2>2, <2>3, <2>4 DEF DgramType
<1>3. Queued = {}
  BY DEF Init, NewPriorityQueue, Queued, Keys
<1>4. mark = FALSE
  BY DEF Init
<1> QED
  BY <1>2, <1>3, <1>4 DEF DgramInv, DgramWakeup

\* What a function posted, run or not does to the count.
LEMMA CountIs ==
    ASSUME NEW m \in BOOLEAN, NEW n, Counted(m, n)
    PROVE  /\ n \in Nat
           /\ n > 0 => Counted(FALSE, n - 1) /\ Counted(m, n - 1)
           /\ n < MaxPosted => Counted(m, n + 1)
           /\ m => Counted(TRUE, n)
           /\ ~m => Counted(TRUE, n + 1) /\ n + 1 > 0
  BY Bounds DEF Counted

LEMMA EnqueueIs ==
    ASSUME DgramInv, NEW c \in Ctx, NEW key \in QueueKeys, NEW ttl \in Ttls, Enqueue(c, key, ttl)
    PROVE  /\ ticks \in Nat \ {0} /\ pq \in PQs(ticks) /\ UNCHANGED ticks
           /\ Len(pushed) \in Nat /\ DOMAIN pushed = 1..Len(pushed) /\ Len(pushed') = Len(pushed) + 1
           /\ pushed' \in Seq(Datagram) /\ DOMAIN pushed' = 1..(Len(pushed) + 1)
           /\ \A i \in DOMAIN pushed : pushed'[i] = pushed[i]
           /\ pushed'[Len(pushed) + 1] = [ctx |-> c, key |-> key]
           /\ ttl \in 0..Duration /\ pq' = Push(pq, ticks, key, Len(pushed) + 1, ttl, 0)
<1> DEFINE d == [ctx |-> c, key |-> key]
<1>1. ticks \in Nat \ {0} /\ pq \in PQs(ticks) /\ pushed \in Seq(Datagram) /\ d \in Datagram
  BY Clock DEF DgramInv, DgramType, Datagram
<1>2. pushed' = Append(pushed, d) /\ UNCHANGED ticks /\ pq' = Push(pq, ticks, key, Len(pushed'), ttl, 0)
  BY DEF Enqueue
<1> HIDE DEF d
<1>3. /\ pushed' \in Seq(Datagram) /\ Len(pushed') = Len(pushed) + 1 /\ pushed'[Len(pushed) + 1] = d
      /\ \A i \in 1..Len(pushed) : pushed'[i] = pushed[i]
  BY <1>1, <1>2, AppendProperties
<1>4. Len(pushed) \in Nat /\ DOMAIN pushed = 1..Len(pushed) /\ DOMAIN pushed' = 1..(Len(pushed) + 1)
  BY <1>1, <1>3, LenProperties
<1> QED
  BY <1>1, <1>2, <1>3, <1>4, Bounds DEF d

LEMMA DgramEnqueue ==
    ASSUME DgramInv, NEW c \in Ctx, NEW key \in QueueKeys, NEW ttl \in Ttls, Enqueue(c, key, ttl)
    PROVE  DgramInv'
<1>1. ticks \in Nat \ {0} /\ pushed' \in Seq(Datagram) /\ UNCHANGED ticks
  BY EnqueueIs
<1>2. pq' \in PQs(ticks)
  <2>1. PICK v \in Nat : v = Len(pushed) + 1
    BY EnqueueIs
  <2> QED
    <3>1. pq' = Push(pq, ticks, key, v, ttl, 0) /\ ttl \in 0..Duration /\ pq \in PQs(ticks)
      BY <2>1, EnqueueIs
    <3> QED
      BY <1>1, <3>1, PushPQIs
<1>3. /\ UNCHANGED <<active, ready, slid, sending, sent>> /\ mark' = TRUE
      /\ posted' = IF mark THEN posted ELSE posted + 1
  BY DEF Enqueue
<1>4. Counted(TRUE, posted') /\ (posted' > 0 \/ slid')
  <2>1. Counted(mark, posted) /\ mark \in BOOLEAN /\ (mark => posted > 0 \/ slid)
    BY DEF DgramInv, DgramType
  <2>2. CASE mark
    BY <1>3, <2>1, <2>2, CountIs
  <2>3. CASE ~mark
    BY <1>3, <2>1, <2>3, CountIs
  <2> QED
    BY <2>2, <2>3
<1>5. DgramType'
  BY <1>1, <1>2, <1>3, <1>4 DEF DgramInv, DgramType
<1>6. DgramWakeup'
  BY <1>4 DEF DgramWakeup
<1> QED
  BY <1>4, <1>5, <1>6 DEF DgramInv

LEMMA DgramSend ==
    ASSUME DgramInv, NEW fits \in BOOLEAN, SendNextDatagram(fits)
    PROVE  /\ DgramInv'
           /\ FrontLeaves(pq, ticks, FrontPQ(pq, ticks)) /\ pq' = FrontPQ(pq, ticks).pq
           /\ UNCHANGED <<ticks, active, mark, slid, pushed, overtaken, sent>> /\ sending = None
           /\ \/ sending' = None
              \/ FrontPQ(pq, ticks).has /\ sending' = FrontPQ(pq, ticks).own /\ sending' \in Nat
<1> DEFINE f == FrontPQ(pq, ticks)
<1>1. /\ pq' = f.pq /\ ready = TRUE /\ sending = None /\ UNCHANGED <<ticks, active, mark, slid, pushed, overtaken, sent>>
      /\ \/ ~f.has /\ ready' = FALSE /\ UNCHANGED <<posted, sending>>
         \/ f.has /\ UNCHANGED <<ready, posted, sending>>
         \/ f.has /\ posted < MaxPosted /\ posted' = posted + 1 /\ ready' \in BOOLEAN /\ UNCHANGED sending
         \/ f.has /\ sending' = f.own /\ UNCHANGED <<ready, posted>>
  BY DEF SendNextDatagram, DgramInv, DgramType
<1>2. ticks \in Nat \ {0} /\ pq \in PQs(ticks)
  BY Clock DEF DgramInv, DgramType
<1>3. FrontLeaves(pq, ticks, f)
  BY <1>2, FrontPQIs
<1> HIDE DEF f
<1>4. f.has => f.own \in Nat
  <2> SUFFICES ASSUME f.has PROVE f.own \in Nat
    OBVIOUS
  <2>1. PICK stop \in Keys(pq) : FrontOf(pq.queues[stop], ticks).has /\ f.own = FrontOf(pq.queues[stop], ticks).own
    BY <1>3 DEF FrontLeaves
  <2>2. PICK r, at : /\ r = Advance(pq.queues[stop], ticks) /\ r \in TQ(ticks) /\ at \in DOMAIN r.queue
                     /\ f.own = r.queue[at].own
    <3>1. pq.queues[stop] \in TQ(ticks)
      BY <1>2, PQFields
    <3> QED
      BY <1>2, <2>1, <3>1, FrontIs, AdvanceIs
  <2>3. r.queue[at] \in Entry
    BY <1>2, <2>2, TQFields
  <2> QED
    BY <2>2, <2>3 DEF Entry
<1>5. DgramType'
  <2>1. pq' \in PQs(ticks')
    BY <1>1, <1>3 DEF FrontLeaves
  <2>2. Counted(mark', posted')
    <3>1. Counted(mark, posted) /\ mark \in BOOLEAN
      BY DEF DgramInv, DgramType
    <3>2. posted < MaxPosted => Counted(mark, posted + 1)
      BY <3>1, CountIs
    <3> QED
      BY <1>1, <3>1, <3>2
  <2>3. ready' \in BOOLEAN /\ sending' \in Nat \cup {None}
    BY <1>1, <1>4 DEF DgramInv, DgramType
  <2> QED
    BY <1>1, <2>1, <2>2, <2>3 DEF DgramInv, DgramType
<1>6. DgramWakeup'
  <2>1. CASE ~f.has
    <3>1. Keys(pq') = {}
      BY <1>1, <1>3, <2>1 DEF FrontLeaves
    <3>2. Queued' = {}
      BY <3>1 DEF Queued, Keys
    <3> QED
      BY <3>2 DEF DgramWakeup
  <2>2. CASE f.has
    <3>1. CASE posted' = posted + 1
      <4>1. posted' > 0
        BY <3>1 DEF DgramInv, DgramType, Counted
      <4> QED
        BY <4>1 DEF DgramWakeup
    <3>2. CASE UNCHANGED ready
      BY <1>1, <3>2 DEF DgramWakeup
    <3> QED
      BY <1>1, <2>2, <3>1, <3>2
  <2> QED
    BY <2>1, <2>2
<1>7. mark' => posted' > 0 \/ slid'
  <2>1. mark => posted > 0 \/ slid
    BY DEF DgramInv
  <2>2. posted' = posted + 1 => posted' > 0
    BY DEF DgramInv, DgramType, Counted
  <2> QED
    BY <1>1, <2>1, <2>2
<1> QED
  BY <1>1, <1>3, <1>4, <1>5, <1>6, <1>7 DEF DgramInv, f

LEMMA DgramPop ==
    ASSUME DgramInv, SendPop
    PROVE  /\ DgramInv' /\ PopLeaves(pq, ticks, PopPQ(pq)) /\ pq' = PopPQ(pq)
           /\ UNCHANGED <<ticks, pushed, overtaken>> /\ sending \in Nat /\ sending' = None /\ sent' = Append(sent, sending)
<1>1. /\ pq' = PopPQ(pq) /\ sent' = Append(sent, sending) /\ sending' = None /\ sending # None
      /\ ready' = ~EmptyPQ(pq') /\ UNCHANGED <<ticks, active, mark, posted, slid, pushed, overtaken>>
  BY DEF SendPop
<1>2. ticks \in Nat /\ pq \in PQs(ticks)
  BY Clock DEF DgramInv, DgramType
<1>3. PopLeaves(pq, ticks, pq')
  BY <1>1, <1>2, PopPQIs
<1>4. sending \in Nat /\ sent \in Seq(Nat)
  BY <1>1 DEF DgramInv, DgramType
<1>5. sent' \in Seq(Nat)
  BY <1>1, <1>4, AppendProperties
<1>6. ready' \in BOOLEAN /\ (~ready' => Keys(pq') = {})
  BY <1>1 DEF EmptyPQ
<1>7. DgramType'
  <2>1. pq' \in PQs(ticks)
    BY <1>3 DEF PopLeaves
  <2> QED
    BY <1>1, <1>5, <1>6, <2>1 DEF DgramInv, DgramType
<1>8. DgramWakeup'
  BY <1>6 DEF DgramWakeup, Queued, Keys
<1> QED
  BY <1>1, <1>3, <1>4, <1>7, <1>8 DEF DgramInv

LEMMA DgramStep == DgramInv /\ [Next]_vars => DgramInv'
<1> SUFFICES ASSUME DgramInv, [Next]_vars PROVE DgramInv'
  OBVIOUS
<1>1. ticks \in Nat /\ ticks \in 1..MaxTick /\ MaxTick \in Nat
  BY Clock, Bounds DEF DgramInv, DgramType
<1>2. CASE TickLoop
  <2>1. ticks' \in 1..MaxTick /\ ticks <= ticks' /\ UNCHANGED dgramVars
    BY <1>1, <1>2 DEF TickLoop
  <2> QED
    BY <2>1, DgramKept
<1>3. CASE UNCHANGED <<ticks, dgramVars>>
  BY <1>1, <1>3, DgramKept
<1>4. CASE \E c \in Ctx, key \in QueueKeys, ttl \in Ttls : Enqueue(c, key, ttl)
  BY <1>4, DgramEnqueue
<1>5. CASE \E c \in Ctx : DeleteDataContext(c)
  <2>1. UNCHANGED <<ticks, pq, mark, ready, posted, slid, sending, pushed, sent>> /\ active' \subseteq Ctx
    BY <1>5 DEF DeleteDataContext, DgramInv, DgramType
  <2>2. DgramType'
    BY <2>1 DEF DgramInv, DgramType
  <2>3. DgramWakeup'
    BY <2>1, QueuedSame DEF DgramInv, DgramWakeup
  <2> QED
    BY <2>1, <2>2, <2>3 DEF DgramInv
<1>6. CASE MarkDgramReady
  <2>1. /\ posted > 0 /\ posted' = posted - 1 /\ ready' = TRUE /\ mark' = FALSE
        /\ UNCHANGED <<ticks, pq, active, slid, sending, pushed, sent>>
    BY <1>6 DEF MarkDgramReady
  <2>2. Counted(mark', posted')
    <3>1. Counted(mark, posted) /\ mark \in BOOLEAN
      BY DEF DgramInv, DgramType
    <3>2. Counted(FALSE, posted - 1)
      BY <2>1, <3>1, CountIs
    <3> QED
      BY <2>1, <3>2
  <2>3. DgramType'
    BY <2>1, <2>2 DEF DgramInv, DgramType
  <2> QED
    BY <2>1, <2>3 DEF DgramInv, DgramWakeup
<1>7. CASE \E fits \in BOOLEAN : SendNextDatagram(fits)
  BY <1>7, DgramSend
<1>8. CASE SendPop
  BY <1>8, DgramPop
<1>9. CASE Lookup \/ ClearObjects \/ \E key \in CacheKeys, ttl \in CacheTtls : InsertObject(key, ttl)
  BY <1>3, <1>9 DEF Lookup, ClearObjects, InsertObject
<1>10. CASE RunnerSlides
  <2>1. /\ posted > 0 /\ posted' = posted - 1 /\ slid' = TRUE
        /\ UNCHANGED <<ticks, pq, active, mark, ready, sending, pushed, sent>>
    BY <1>10 DEF RunnerSlides
  <2>2. Counted(mark', posted')
    <3>1. Counted(mark, posted) /\ mark \in BOOLEAN
      BY DEF DgramInv, DgramType
    <3>2. Counted(mark, posted - 1)
      BY <2>1, <3>1, CountIs
    <3> QED
      BY <2>1, <3>2
  <2>3. DgramType'
    BY <2>1, <2>2 DEF DgramInv, DgramType
  <2> QED
    BY <2>1, <2>3 DEF DgramInv, DgramWakeup
<1> QED
  BY <1>2, <1>3, <1>4, <1>5, <1>6, <1>7, <1>8, <1>9, <1>10 DEF Next, vars

LEMMA DgramAlways == Spec => []DgramInv
  BY DgramInit, DgramStep, PTL DEF Spec

\* MarkDgramReady, the flag, the Empty() test and SendNextDatagram in any order with
\* Enqueue: while a datagram waits, picoquic will ask for it or is told to, unless the
\* runner queue has dropped a function.
THEOREM WakeupCorrect == Spec => []DgramWakeup
<1>1. DgramInv => DgramWakeup
  BY DEF DgramInv
<1> QED
  BY <1>1, DgramAlways, PTL

-----------------------------------------------------------------------------
(* A value stays in its bucket until its time is nearly up. *)

LEMMA DgramCases ==
    ASSUME [Next]_vars
    PROVE  \/ UNCHANGED <<pq, sending, pushed, overtaken, sent>>
           \/ \E c \in Ctx, key \in QueueKeys, ttl \in Ttls : Enqueue(c, key, ttl)
           \/ \E fits \in BOOLEAN : SendNextDatagram(fits)
           \/ SendPop
<1>1. CASE TickLoop \/ \E c \in Ctx : DeleteDataContext(c)
  BY <1>1 DEF TickLoop, DeleteDataContext, dgramVars
<1>2. CASE MarkDgramReady \/ RunnerSlides \/ Lookup \/ ClearObjects \/ \E key \in CacheKeys, ttl \in CacheTtls : InsertObject(key, ttl)
  BY <1>2 DEF MarkDgramReady, RunnerSlides, Lookup, ClearObjects, InsertObject, dgramVars
<1>3. CASE UNCHANGED vars
  BY <1>3 DEF vars, dgramVars
<1> QED
  BY <1>1, <1>2, <1>3 DEF Next

LEMMA QueuesKeptIs == QueuesKept' <=> \A k \in Keys(pq') : AllKept(pq'.queues[k])
  BY DEF QueuesKept, AllKept, Kept, KeptAt, Holds, At, Keys

LEMMA KeptSame ==
    ASSUME QueuesKept, UNCHANGED pq
    PROVE  QueuesKept'
  BY QueuesKeptIs, Zenon DEF QueuesKept

LEMMA KeptEnqueue ==
    ASSUME DgramInv, QueuesKept,
           NEW c \in Ctx, NEW key \in QueueKeys, NEW ttl \in Ttls, Enqueue(c, key, ttl)
    PROVE  QueuesKept'
<1>1. PICK v \in Nat : v = Len(pushed) + 1
  BY EnqueueIs
<1>2. PICK t \in Nat \ {0} : t = ticks
  BY EnqueueIs
<1>3. pq' = Push(pq, t, key, v, ttl, 0) /\ ttl \in 0..Duration /\ pq \in PQs(t)
  BY <1>1, <1>2, EnqueueIs
<1>5. /\ Keys(pq') = Keys(pq) \cup {key} /\ \A k \in Keys(pq) \ {key} : pq'.queues[k] = pq.queues[k]
      /\ \E q \in TQ(t) : /\ pq'.queues[key] = PushValue(q, t, v, ttl, 0)
                          /\ (key \in Keys(pq) /\ q = pq.queues[key]) \/ q.queue = <<>>
  BY <1>3, PushPQIs
<1>6. PICK q \in TQ(t) : /\ pq'.queues[key] = PushValue(q, t, v, ttl, 0)
                         /\ (key \in Keys(pq) /\ q = pq.queues[key]) \/ q.queue = <<>>
  BY <1>5
<1>7. AllKept(q)
  <2>1. CASE q.queue = <<>>
    BY <2>1 DEF AllKept
  <2>2. CASE key \in Keys(pq) /\ q = pq.queues[key]
    BY <2>2 DEF QueuesKept
  <2> QED
    BY <1>6, <2>1, <2>2
<1>8. AllKept(pq'.queues[key])
  BY <1>3, <1>6, <1>7, KeptByPush
<1>9. \A k \in Keys(pq') : AllKept(pq'.queues[k])
  BY <1>5, <1>8 DEF QueuesKept
<1> QED
  BY <1>9, QueuesKeptIs

LEMMA KeptSend ==
    ASSUME DgramInv, QueuesKept, NEW fits \in BOOLEAN, SendNextDatagram(fits)
    PROVE  QueuesKept'
<1>1. PICK t \in Nat \ {0} : t = ticks
  BY Clock DEF DgramInv, DgramType
<1>2. pq \in PQs(t) /\ FrontLeaves(pq, t, FrontPQ(pq, t)) /\ pq' = FrontPQ(pq, t).pq
  BY <1>1, DgramSend DEF DgramInv, DgramType
<1>3. ASSUME NEW k \in Keys(pq') PROVE AllKept(pq'.queues[k])
  <2>1. k \in Keys(pq) /\ (pq'.queues[k] = FrontOf(pq.queues[k], t).q \/ pq'.queues[k] = pq.queues[k])
    BY <1>2, <1>3 DEF FrontLeaves
  <2>2. pq.queues[k] \in TQ(t) /\ AllKept(pq.queues[k])
    BY <1>2, <2>1, PQFields DEF QueuesKept
  <2>3. AllKept(FrontOf(pq.queues[k], t).q)
    BY <2>2, KeptByFront
  <2> QED
    BY <2>1, <2>2, <2>3
<1> QED
  BY <1>3, QueuesKeptIs

LEMMA KeptPop ==
    ASSUME DgramInv, QueuesKept, SendPop
    PROVE  QueuesKept'
<1>1. PICK t \in Nat : t = ticks
  BY Clock DEF DgramInv, DgramType
<1>2. pq \in PQs(t) /\ PopLeaves(pq, t, pq')
  BY <1>1, DgramPop DEF DgramInv, DgramType
<1>3. ASSUME NEW k \in Keys(pq') PROVE AllKept(pq'.queues[k])
  <2>1. /\ k \in Keys(pq)
        /\ \/ pq'.queues[k] = pq.queues[k]
           \/ ~IsEmpty(pq.queues[k]) /\ pq'.queues[k] = PopEntry(pq.queues[k])
    BY <1>2, <1>3 DEF PopLeaves
  <2>2. pq.queues[k] \in TQ(t) /\ AllKept(pq.queues[k])
    BY <1>2, <2>1, PQFields DEF QueuesKept
  <2> QED
    BY <2>1, <2>2, KeptByPop
<1> QED
  BY <1>3, QueuesKeptIs

LEMMA KeptInit == Init => QueuesKept
  BY DEF Init, NewPriorityQueue, QueuesKept, Keys

LEMMA KeptStep == DgramInv /\ QueuesKept /\ [Next]_vars => QueuesKept'
  BY DgramCases, KeptSame, KeptEnqueue, KeptSend, KeptPop

LEMMA KeptAlways == Spec => []QueuesKept
  BY KeptStep, KeptInit, DgramAlways, PTL DEF Spec

LEMMA KeptIs == DgramInv /\ QueuesKept => EntryKept
<1> SUFFICES ASSUME DgramInv, QueuesKept, NEW k \in Keys(pq), NEW i \in DOMAIN pq.queues[k].queue,
                    pq.queues[k].current_ticks + 2 * Interval <= pq.queues[k].queue[i].expiry_tick
             PROVE  LET q == pq.queues[k]
                        e == q.queue[i]
                    IN  e.value_index <= Len(q.buckets[e.bucket]) /\ q.buckets[e.bucket][e.value_index] = e.own
  BY DEF EntryKept, Entries
<1>1. PICK q : q = pq.queues[k]
  OBVIOUS
<1>2. PICK e : e = q.queue[i]
  OBVIOUS
<1>3. PICK t \in Nat : t = ticks /\ pq \in PQs(t)
  BY Clock DEF DgramInv, DgramType
<1>4. q \in TQ(t)
  BY <1>1, <1>3, PQFields
<1>5. e \in Entry /\ q.buckets \in [Slots -> Seq(Nat)]
  BY <1>1, <1>2, <1>4, TQFields
<1>6. Holds(q, e)
  BY <1>1, <1>2 DEF QueuesKept, AllKept, Kept, KeptAt
<1>7. PICK m \in Nat : m = Len(q.buckets[e.bucket])
  BY <1>5, LenProperties DEF Entry
<1>8. e.value_index \in 1..m
  BY <1>6, <1>7, Zenon DEF Holds
<1>9. e.value_index <= m
  BY <1>8, SMT
<1>10. q.buckets[e.bucket][e.value_index] = e.own
  BY <1>6 DEF Holds
<1> QED
  BY <1>1, <1>2, <1>7, <1>9, <1>10, Zenon

\* PushTtl, Advance and Front: however time wraps round the ring and whatever buckets are
\* cleared and filled again, and for times to live of any length, a value stays in its
\* bucket until the last two intervals of its time to live, and its entry leads to it.
THEOREM KeptCorrect == Spec => []EntryKept
  BY DgramAlways, KeptAlways, KeptIs, PTL

-----------------------------------------------------------------------------
(* The datagrams are sent in order. *)

\* The groups of r are those of p without some of their first entries.
Shortened(p, r) ==
    \A k \in Keys(r) : k \in Keys(p) /\ \E n \in Nat : \A i \in DOMAIN r.queues[k].queue :
        i + n \in DOMAIN p.queues[k].queue /\ r.queues[k].queue[i] = p.queues[k].queue[i + n]

LEMMA PQDomains ==
    ASSUME NEW t \in Nat, NEW p \in PQs(t), NEW k \in Keys(p)
    PROVE  /\ p.queues[k] \in TQ(t) /\ Len(p.queues[k].queue) \in Nat
           /\ DOMAIN p.queues[k].queue = 1..Len(p.queues[k].queue)
<1>1. p.queues[k] \in TQ(t)
  BY PQFields
<1> QED
  BY <1>1, TQFields

LEMMA OrderIs ==
    ASSUME DgramInv
    PROVE  /\ DOMAIN pushed \subseteq Nat /\ \A v \in DOMAIN pushed : pushed[v].key \in Nat
           /\ \A k \in Keys(pq) : k \in Nat /\ DOMAIN pq.queues[k].queue \subseteq Nat
<1>1. DOMAIN pushed \subseteq Nat /\ \A v \in DOMAIN pushed : pushed[v].key \in Nat
  <2>1. pushed \in Seq(Datagram)
    BY DEF DgramInv, DgramType
  <2>2. DOMAIN pushed = 1..Len(pushed) /\ Len(pushed) \in Nat /\ \A v \in 1..Len(pushed) : pushed[v] \in Datagram
    BY <2>1, LenProperties, ElementOfSeq
  <2>3. \A d \in Datagram : d.key \in Nat
    BY Bounds DEF Datagram
  <2> QED
    BY <2>2, <2>3
<1>2. PICK t \in Nat : pq \in PQs(t)
  BY Clock DEF DgramInv, DgramType
<1>3. \A k \in Keys(pq) : k \in Nat /\ DOMAIN pq.queues[k].queue \subseteq Nat
  BY <1>2, PQFields, PQDomains
<1> QED
  BY <1>1, <1>3

LEMMA ShortenedInOrder ==
    ASSUME DgramInv, InOrder, Shortened(pq, pq'), UNCHANGED pushed, DgramInv'
    PROVE  InOrder'
<1>1. ASSUME NEW k \in Keys(pq'), NEW i \in DOMAIN pq'.queues[k].queue
      PROVE  /\ pq'.queues[k].queue[i].own \in DOMAIN pushed /\ pushed[pq'.queues[k].queue[i].own].key = k
             /\ \A j \in DOMAIN pq'.queues[k].queue : i < j => pq'.queues[k].queue[i].own < pq'.queues[k].queue[j].own
  <2>1. PICK n \in Nat : \A m \in DOMAIN pq'.queues[k].queue :
          m + n \in DOMAIN pq.queues[k].queue /\ pq'.queues[k].queue[m] = pq.queues[k].queue[m + n]
    BY <1>1 DEF Shortened
  <2>2. k \in Keys(pq)
    BY <1>1 DEF Shortened
  <2>3. DOMAIN pq'.queues[k].queue \subseteq Nat
    <3>1. PICK t \in Nat : pq' \in PQs(t)
      BY Bounds DEF DgramInv, DgramType
    <3> QED
      BY <1>1, <3>1, PQDomains
  <2>4. ASSUME NEW j \in DOMAIN pq'.queues[k].queue, i < j
        PROVE  pq'.queues[k].queue[i].own < pq'.queues[k].queue[j].own
    <3>1. i + n \in DOMAIN pq.queues[k].queue /\ j + n \in DOMAIN pq.queues[k].queue /\ i + n < j + n
      BY <2>1, <2>3, <2>4
    <3> QED
      BY <2>1, <2>2, <3>1 DEF InOrder
  <2> QED
    BY <2>1, <2>2, <2>4 DEF InOrder
<1> QED
  BY <1>1 DEF InOrder, Keys

LEMMA ShortenedLeft ==
    ASSUME Shortened(pq, pq'), SentLeft, UNCHANGED <<pushed, overtaken>>,
           NEW i \in DOMAIN sent, NEW k \in Keys(pq'), pushed[sent[i]].key = k, NEW j \in DOMAIN pq'.queues[k].queue
    PROVE  NotAgain(sent[i], pq'.queues[k].queue[j].own)
  BY DEF Shortened, SentLeft

\* What Enqueue leaves in the groups: what was there, and the new datagram behind it.
LEMMA EnqueueEntries ==
    ASSUME DgramInv, NEW c \in Ctx, NEW key \in QueueKeys, NEW ttl \in Ttls, Enqueue(c, key, ttl),
           NEW k \in Keys(pq'), NEW i \in DOMAIN pq'.queues[k].queue
    PROVE  \/ k \in Keys(pq) /\ i \in DOMAIN pq.queues[k].queue /\ pq'.queues[k].queue[i] = pq.queues[k].queue[i]
           \/ /\ k = key /\ pq'.queues[k].queue[i].own = Len(pushed) + 1
              /\ \A j \in DOMAIN pq'.queues[k].queue : j <= i
<1>1. PICK v \in Nat : v = Len(pushed) + 1
  BY EnqueueIs
<1>2. PICK t \in Nat \ {0} : t = ticks
  BY EnqueueIs
<1>3. pq' = Push(pq, t, key, v, ttl, 0) /\ ttl \in 0..Duration /\ pq \in PQs(t)
  BY <1>1, <1>2, EnqueueIs
<1>4. /\ Keys(pq') = Keys(pq) \cup {key} /\ \A j \in Keys(pq) \ {key} : pq'.queues[j] = pq.queues[j]
      /\ \E q \in TQ(t) : /\ pq'.queues[key] = PushValue(q, t, v, ttl, 0)
                          /\ (key \in Keys(pq) /\ q = pq.queues[key]) \/ q.queue = <<>>
  BY <1>3, PushPQIs
<1>5. CASE k # key
  BY <1>4, <1>5
<1>6. CASE k = key
  <2>1. PICK q \in TQ(t) : /\ pq'.queues[key] = PushValue(q, t, v, ttl, 0)
                           /\ (key \in Keys(pq) /\ q = pq.queues[key]) \/ q.queue = <<>>
    BY <1>4
  <2>2. PICK live : live = IF ttl = 0 THEN Duration ELSE ttl
    OBVIOUS
  <2>3. PICK r : r = Advance(q, t)
    OBVIOUS
  <2>4. PICK b : b = FutureIndex(r.bucket_index, live \div Interval)
    OBVIOUS
  <2>5. PushLeaves(r, pq'.queues[key], b, t, v, live)
    BY <1>3, <2>1, <2>2, <2>3, <2>4, PushIs
  <2>6. PICK s, e : s = r.queue /\ s \in Seq(Entry) /\ e \in Entry /\ pq'.queues[key].queue = Append(s, e)
                    /\ pq'.queues[key].queue[Len(s) + 1].own = v
    <3>1. pq'.queues[key] \in TQ(t)
      BY <2>5 DEF PushLeaves
    <3>2. PICK e : pq'.queues[key].queue = Append(r.queue, e)
      BY <2>5 DEF PushLeaves
    <3>3. r.queue \in Seq(Entry) /\ pq'.queues[key].queue[Len(r.queue) + 1].own = v
      BY <2>5 DEF PushLeaves
    <3>4. e \in Entry
      <4>1. pq'.queues[key].queue \in Seq(Entry)
        BY <3>1, TQFields
      <4>2. Len(r.queue) \in Nat /\ DOMAIN Append(r.queue, e) = 1..(Len(r.queue) + 1)
            /\ Append(r.queue, e)[Len(r.queue) + 1] = e
        BY <3>3
      <4>3. Len(r.queue) + 1 \in DOMAIN pq'.queues[key].queue
        BY <3>2, <4>2
      <4> QED
        BY <3>2, <4>1, <4>2, <4>3, ElementOfSeq, LenProperties
    <3> QED
      BY <3>2, <3>3, <3>4
  <2>7. /\ Len(s) \in Nat /\ DOMAIN s = 1..Len(s) /\ DOMAIN pq'.queues[key].queue = 1..(Len(s) + 1)
        /\ \A j \in 1..Len(s) : pq'.queues[key].queue[j] = s[j]
    <3>1. Len(Append(s, e)) = Len(s) + 1 /\ Append(s, e) \in Seq(Entry) /\ \A j \in 1..Len(s) : Append(s, e)[j] = s[j]
      BY <2>6, AppendProperties
    <3> QED
      BY <2>6, <3>1, LenProperties
  <2>8. CASE i = Len(s) + 1
    BY <1>1, <1>6, <2>6, <2>7, <2>8
  <2>9. CASE i \in 1..Len(s)
    <3>1. s = q.queue /\ s # <<>>
      <4>1. s # <<>>
        BY <2>7, <2>9
      <4> QED
        BY <2>3, <2>6, <4>1, AdvanceIs
    <3>2. key \in Keys(pq) /\ q = pq.queues[key]
      BY <2>1, <3>1
    <3> QED
      BY <1>6, <2>7, <2>9, <3>1, <3>2
  <2> QED
    BY <1>6, <2>7, <2>8, <2>9
<1> QED
  BY <1>5, <1>6

LEMMA OrderEnqueue ==
    ASSUME DgramInv, InOrder, SentInOrder,
           NEW c \in Ctx, NEW key \in QueueKeys, NEW ttl \in Ttls, Enqueue(c, key, ttl)
    PROVE  InOrder' /\ SentInOrder'
<1>1. /\ Len(pushed) \in Nat /\ DOMAIN pushed = 1..Len(pushed) /\ DOMAIN pushed' = 1..(Len(pushed) + 1)
      /\ \A i \in DOMAIN pushed : pushed'[i] = pushed[i]
      /\ pushed'[Len(pushed) + 1].key = key
  <2>1. pushed'[Len(pushed) + 1] = [ctx |-> c, key |-> key]
    BY EnqueueIs
  <2> QED
    BY <2>1, EnqueueIs
<1>2. PICK l \in Nat : l = Len(pushed)
  BY <1>1
<1>3. UNCHANGED <<sent, sending>>
  BY DEF Enqueue
<1>4. /\ \A v \in overtaken : v \in overtaken'
      /\ \A v \in DOMAIN pushed : v = sending /\ key < pushed[v].key => v \in overtaken'
  BY DEF Enqueue
<1>5. ASSUME NEW k \in Keys(pq'), NEW i \in DOMAIN pq'.queues[k].queue
      PROVE  /\ pq'.queues[k].queue[i].own \in DOMAIN pushed' /\ pushed'[pq'.queues[k].queue[i].own].key = k
             /\ \A j \in DOMAIN pq'.queues[k].queue : i < j => pq'.queues[k].queue[i].own < pq'.queues[k].queue[j].own
  <2> DEFINE Old(j) == k \in Keys(pq) /\ j \in DOMAIN pq.queues[k].queue /\ pq'.queues[k].queue[j] = pq.queues[k].queue[j]
             New(j) == /\ k = key /\ pq'.queues[k].queue[j].own = l + 1
                       /\ \A m \in DOMAIN pq'.queues[k].queue : m <= j
  <2>1. \A j \in DOMAIN pq'.queues[k].queue : Old(j) \/ New(j)
    BY <1>2, EnqueueEntries
  <2>2. \A j \in DOMAIN pq'.queues[k].queue : Old(j) =>
          pq'.queues[k].queue[j].own \in DOMAIN pushed /\ pushed[pq'.queues[k].queue[j].own].key = k
    BY DEF InOrder
  <2>3. DOMAIN pq'.queues[k].queue \subseteq Nat
    <3>1. PICK t \in Nat : pq' \in PQs(t)
      BY DgramEnqueue, Bounds DEF DgramInv, DgramType
    <3> QED
      BY <3>1, PQDomains
  <2>4. ASSUME NEW j \in DOMAIN pq'.queues[k].queue, i < j
        PROVE  pq'.queues[k].queue[i].own < pq'.queues[k].queue[j].own
    <3>1. Old(i)
      BY <2>1, <2>3, <2>4
    <3>2. CASE Old(j)
      BY <2>4, <3>1, <3>2 DEF InOrder
    <3>3. CASE New(j)
      <4>1. pq'.queues[k].queue[i].own \in 1..l
        BY <1>1, <1>2, <2>2, <3>1
      <4> QED
        BY <3>3, <4>1
    <3> QED
      BY <2>1, <3>2, <3>3
  <2>5. pq'.queues[k].queue[i].own \in DOMAIN pushed' /\ pushed'[pq'.queues[k].queue[i].own].key = k
    <3>1. CASE Old(i)
      <4>1. PICK v \in DOMAIN pushed : v = pq'.queues[k].queue[i].own /\ pushed[v].key = k
        BY <2>2, <3>1
      <4> QED
        BY <1>1, <4>1
    <3>2. CASE New(i)
      BY <1>1, <1>2, <3>2
    <3> QED
      BY <2>1, <3>1, <3>2
  <2> QED
    BY <2>4, <2>5
<1>6. InOrder'
  BY <1>5 DEF InOrder, Keys
<1>7. \A i \in DOMAIN sent : sent[i] \in 1..l /\ sent[i] \in DOMAIN pushed /\ pushed'[sent[i]] = pushed[sent[i]]
  BY <1>1, <1>2 DEF SentInOrder
<1>8. SentOnce'
  <2> SUFFICES ASSUME NEW i \in DOMAIN sent, NEW j \in DOMAIN sent, i < j, pushed[sent[i]].key = pushed[sent[j]].key
               PROVE  sent[i] < sent[j] \/ (sent[i] = sent[j] /\ sent[i] \in overtaken')
    BY <1>3, <1>7 DEF SentOnce
  <2> QED
    BY <1>4 DEF SentInOrder, SentOnce
<1>9. SentLeft'
  <2> SUFFICES ASSUME NEW i \in DOMAIN sent, NEW k \in Keys(pq'), pushed[sent[i]].key = k,
                      NEW j \in DOMAIN pq'.queues[k].queue
               PROVE  \/ sent[i] < pq'.queues[k].queue[j].own
                      \/ sent[i] = pq'.queues[k].queue[j].own /\ sent[i] \in overtaken'
    BY <1>3, <1>7 DEF SentLeft, NotAgain, Keys
  <2>1. CASE k \in Keys(pq) /\ j \in DOMAIN pq.queues[k].queue /\ pq'.queues[k].queue[j] = pq.queues[k].queue[j]
    BY <1>4, <2>1 DEF SentInOrder, SentLeft, NotAgain
  <2>2. CASE pq'.queues[k].queue[j].own = l + 1
    BY <1>7, <2>2
  <2> QED
    BY <1>2, <2>1, <2>2, EnqueueEntries
<1>10. ASSUME NEW v, v = sending, sending # None PROVE SendingNext(v)'
  <2>1. SendingNext(v) /\ v \in DOMAIN pushed /\ v \in 1..l /\ pushed'[v] = pushed[v]
    BY <1>1, <1>2, <1>10 DEF SentInOrder, SendingNext
  <2>2. \A i \in DOMAIN sent : pushed[sent[i]].key = pushed[v].key => sent[i] < v \/ (sent[i] = v /\ sent[i] \in overtaken')
    BY <1>4, <2>1 DEF SendingNext, NotAgain
  <2>3. ASSUME NEW k \in Keys(pq'), NEW j \in DOMAIN pq'.queues[k].queue
        PROVE  /\ k = pushed[v].key => v <= pq'.queues[k].queue[j].own
               /\ k < pushed[v].key => v \in overtaken'
    <3>1. CASE k \in Keys(pq) /\ j \in DOMAIN pq.queues[k].queue /\ pq'.queues[k].queue[j] = pq.queues[k].queue[j]
      BY <1>4, <2>1, <3>1 DEF SendingNext, SendingBefore
    <3>2. CASE k = key /\ pq'.queues[k].queue[j].own = l + 1
      BY <1>4, <1>10, <2>1, <3>2
    <3> QED
      BY <1>2, <2>3, <3>1, <3>2, EnqueueEntries
  <2>4. v' = v
    BY <1>3, <1>10
  <2>5. v \in DOMAIN pushed'
    BY <1>1, <2>1
  <2>6. SendingBefore(v)'
    BY <2>1, <2>3, <2>4 DEF SendingBefore, Keys
  <2> QED
    BY <1>3, <1>7, <2>1, <2>2, <2>4, <2>5, <2>6 DEF SendingNext, NotAgain
<1>11. \A i \in DOMAIN sent : sent[i] \in DOMAIN pushed'
  BY <1>1, <1>7
<1> QED
  BY <1>3, <1>6, <1>8, <1>9, <1>10, <1>11 DEF SentInOrder

\* With a value, a look leaves the group it comes from with that value in front.
LEMMA SendEntries ==
    ASSUME DgramInv, NEW fits \in BOOLEAN, SendNextDatagram(fits)
    PROVE  /\ Shortened(pq, pq')
           /\ sending' # None => \E stop \in Keys(pq), n \in Nat :
                /\ 1 + n \in DOMAIN pq.queues[stop].queue /\ sending' = pq.queues[stop].queue[1 + n].own
                /\ \A k \in Keys(pq') : \A i \in DOMAIN pq'.queues[k].queue :
                     \/ k = stop /\ i + n \in DOMAIN pq.queues[stop].queue
                        /\ pq'.queues[k].queue[i] = pq.queues[stop].queue[i + n]
                     \/ k > stop /\ k \in Keys(pq) /\ pq'.queues[k] = pq.queues[k]
<1>1. PICK t \in Nat \ {0} : t = ticks
  BY Clock DEF DgramInv, DgramType
<1>2. PICK f : f = FrontPQ(pq, t)
  OBVIOUS
<1>3. /\ pq \in PQs(t) /\ FrontLeaves(pq, t, f) /\ pq' = f.pq
      /\ sending' = None \/ (f.has /\ sending' = f.own)
  <2>1. pq \in PQs(t)
    BY <1>1 DEF DgramInv, DgramType
  <2>2. /\ FrontLeaves(pq, ticks, FrontPQ(pq, ticks)) /\ pq' = FrontPQ(pq, ticks).pq
        /\ \/ sending' = None
           \/ FrontPQ(pq, ticks).has /\ sending' = FrontPQ(pq, ticks).own
    BY DgramSend, Zenon
  <2>3. f = FrontPQ(pq, ticks)
    BY <1>1, <1>2
  <2>4. FrontLeaves(pq, t, f) /\ pq' = f.pq
    BY <1>1, <2>2, <2>3
  <2>5. sending' = None \/ (f.has /\ sending' = f.own)
    BY <2>2, <2>3
  <2> QED
    BY <2>1, <2>4, <2>5, Zenon
<1>4. ASSUME NEW k \in Keys(pq)
      PROVE  \E n \in Nat :
               LET g == FrontOf(pq.queues[k], t)
               IN  /\ \A i \in DOMAIN g.q.queue : /\ i + n \in DOMAIN pq.queues[k].queue
                                                  /\ g.q.queue[i] = pq.queues[k].queue[i + n]
                   /\ g.has => 1 + n \in DOMAIN pq.queues[k].queue /\ g.own = pq.queues[k].queue[1 + n].own
  <2>1. PICK q : q = pq.queues[k] /\ q \in TQ(t)
    BY <1>3, <1>4, PQFields
  <2>2. PICK r : r = Advance(q, t) /\ r \in TQ(t) /\ (r.queue = q.queue \/ r.queue = <<>>)
    BY <2>1, AdvanceIs
  <2>3. PICK g : g = FrontOf(q, t)
    OBVIOUS
  <2>4. PICK at \in 1..(Len(r.queue) + 1) :
            /\ \A i \in DOMAIN g.q.queue : at + i - 1 \in DOMAIN r.queue /\ g.q.queue[i] = r.queue[at + i - 1]
            /\ g.has => at \in DOMAIN r.queue /\ g.own = r.queue[at].own
    BY <2>1, <2>2, <2>3, FrontIs
  <2>5. g.q \in TQ(t)
    BY <2>1, <2>3, FrontIs
  <2>6. DOMAIN g.q.queue = 1..Len(g.q.queue) /\ Len(g.q.queue) \in Nat /\ Len(r.queue) \in Nat
    BY <2>2, <2>5, TQFields
  <2>7. PICK n \in Nat : n = at - 1
    BY <2>6
  <2>8. \A i \in DOMAIN g.q.queue : at + i - 1 = i + n
    BY <2>6, <2>7
  <2>9. ASSUME NEW i \in DOMAIN g.q.queue PROVE i + n \in DOMAIN q.queue /\ g.q.queue[i] = q.queue[i + n]
    <3>1. i + n \in DOMAIN r.queue /\ g.q.queue[i] = r.queue[i + n]
      BY <2>4, <2>8
    <3>2. r.queue # <<>>
      BY <3>1
    <3> QED
      BY <2>2, <3>1, <3>2
  <2>10. ASSUME g.has PROVE 1 + n \in DOMAIN q.queue /\ g.own = q.queue[1 + n].own
    <3>1. 1 + n = at /\ at \in DOMAIN r.queue /\ g.own = r.queue[at].own
      BY <2>4, <2>6, <2>7, <2>10
    <3>2. r.queue # <<>>
      BY <3>1
    <3> QED
      BY <2>2, <3>1, <3>2
  <2> QED
    BY <2>1, <2>3, <2>9, <2>10
<1>5. Shortened(pq, pq')
  <2> SUFFICES ASSUME NEW k \in Keys(pq')
               PROVE  k \in Keys(pq) /\ \E n \in Nat : \A i \in DOMAIN pq'.queues[k].queue :
                        i + n \in DOMAIN pq.queues[k].queue /\ pq'.queues[k].queue[i] = pq.queues[k].queue[i + n]
    BY DEF Shortened
  <2>1. k \in Keys(pq) /\ (pq'.queues[k] = FrontOf(pq.queues[k], t).q \/ pq'.queues[k] = pq.queues[k])
    BY <1>3 DEF FrontLeaves
  <2>2. CASE pq'.queues[k] = FrontOf(pq.queues[k], t).q
    BY <1>4, <2>1, <2>2
  <2>3. CASE pq'.queues[k] = pq.queues[k]
    <3>1. \A i \in DOMAIN pq.queues[k].queue : i + 0 = i
      BY <1>3, <2>1, PQDomains
    <3> QED
      BY <2>1, <2>3, <3>1
  <2> QED
    BY <2>1, <2>2, <2>3
<1>6. ASSUME sending' # None
      PROVE  \E stop \in Keys(pq), n \in Nat :
                /\ 1 + n \in DOMAIN pq.queues[stop].queue /\ sending' = pq.queues[stop].queue[1 + n].own
                /\ \A k \in Keys(pq') : \A i \in DOMAIN pq'.queues[k].queue :
                     \/ k = stop /\ i + n \in DOMAIN pq.queues[stop].queue
                        /\ pq'.queues[k].queue[i] = pq.queues[stop].queue[i + n]
                     \/ k > stop /\ k \in Keys(pq) /\ pq'.queues[k] = pq.queues[k]
  <2>1. PICK stop \in Keys(pq) :
         /\ FrontOf(pq.queues[stop], t).has /\ sending' = FrontOf(pq.queues[stop], t).own
         /\ \A k \in Keys(pq') : \/ k = stop /\ pq'.queues[k] = FrontOf(pq.queues[k], t).q
                                 \/ k > stop /\ pq'.queues[k] = pq.queues[k]
    BY <1>3, <1>6 DEF FrontLeaves
  <2>2. PICK g : g = FrontOf(pq.queues[stop], t)
    OBVIOUS
  <2>3. PICK n \in Nat :
          /\ \A i \in DOMAIN g.q.queue : /\ i + n \in DOMAIN pq.queues[stop].queue
                                         /\ g.q.queue[i] = pq.queues[stop].queue[i + n]
          /\ g.has => 1 + n \in DOMAIN pq.queues[stop].queue /\ g.own = pq.queues[stop].queue[1 + n].own
    BY <1>4, <2>2
  <2>4. \A k \in Keys(pq') : k \in Keys(pq)
    BY <1>3 DEF FrontLeaves
  <2>5. \A k \in Keys(pq') : \A i \in DOMAIN pq'.queues[k].queue :
          \/ k = stop /\ i + n \in DOMAIN pq.queues[stop].queue
             /\ pq'.queues[k].queue[i] = pq.queues[stop].queue[i + n]
          \/ k > stop /\ k \in Keys(pq) /\ pq'.queues[k] = pq.queues[k]
    BY <2>1, <2>2, <2>3, <2>4
  <2> QED
    BY <2>1, <2>2, <2>3, <2>5
<1> QED
  BY <1>5, <1>6

LEMMA OrderSend ==
    ASSUME DgramInv, InOrder, SentInOrder, NEW fits \in BOOLEAN, SendNextDatagram(fits)
    PROVE  InOrder' /\ SentInOrder'
<1>1. Shortened(pq, pq') /\ UNCHANGED <<pushed, overtaken, sent>> /\ sending = None /\ DgramInv'
  BY SendEntries, DgramSend
<1>2. InOrder'
  BY <1>1, ShortenedInOrder
<1>3. SentOnce' /\ \A i \in DOMAIN sent' : sent'[i] \in DOMAIN pushed'
  BY <1>1 DEF SentInOrder, SentOnce
<1>4. SentLeft'
  <2> SUFFICES ASSUME NEW i \in DOMAIN sent, NEW k \in Keys(pq'), pushed[sent[i]].key = k,
                      NEW j \in DOMAIN pq'.queues[k].queue
               PROVE  NotAgain(sent[i], pq'.queues[k].queue[j].own)
    BY <1>1 DEF SentLeft, NotAgain, Keys
  <2> QED
    BY <1>1, ShortenedLeft DEF SentInOrder
<1>5. ASSUME sending' # None PROVE SendingNext(sending)'
  <2>1. PICK stop \in Keys(pq), n \in Nat :
                /\ 1 + n \in DOMAIN pq.queues[stop].queue /\ sending' = pq.queues[stop].queue[1 + n].own
                /\ \A k \in Keys(pq') : \A i \in DOMAIN pq'.queues[k].queue :
                     \/ k = stop /\ i + n \in DOMAIN pq.queues[stop].queue
                        /\ pq'.queues[k].queue[i] = pq.queues[stop].queue[i + n]
                     \/ k > stop /\ k \in Keys(pq) /\ pq'.queues[k] = pq.queues[k]
    BY <1>5, SendEntries
  <2>2. PICK v : v = sending' /\ v = pq.queues[stop].queue[1 + n].own
    BY <2>1
  <2>3. v \in DOMAIN pushed /\ v \in Nat /\ pushed[v].key = stop /\ stop \in Nat
    BY <2>1, <2>2, OrderIs DEF InOrder
  <2>4. \A i \in DOMAIN sent : pushed[sent[i]].key = stop => NotAgain(sent[i], v)
    BY <2>1, <2>2 DEF SentInOrder, SentLeft
  <2>5. ASSUME NEW k \in Keys(pq'), NEW i \in DOMAIN pq'.queues[k].queue
        PROVE  (k = stop => v <= pq'.queues[k].queue[i].own) /\ ~(k < stop)
    <3>1. CASE /\ k = stop /\ i + n \in DOMAIN pq.queues[stop].queue
               /\ pq'.queues[k].queue[i] = pq.queues[stop].queue[i + n]
      <4>1. i \in Nat /\ i >= 1
        <5>1. PICK t \in Nat : pq' \in PQs(t)
          BY <1>1, Bounds DEF DgramInv, DgramType
        <5> QED
          BY <2>5, <5>1, PQDomains
      <4>2. PICK w \in Nat : w = pq.queues[stop].queue[i + n].own
        BY <3>1, OrderIs DEF InOrder
      <4>3. 1 + n < i + n => v < w
        BY <2>1, <2>2, <3>1, <4>2 DEF InOrder
      <4>4. 1 + n = i + n => v = w
        BY <2>2, <4>2
      <4> QED
        BY <2>3, <3>1, <4>1, <4>2, <4>3, <4>4
    <3>2. CASE k > stop /\ k \in Keys(pq)
      <4>1. PICK x \in Nat, y \in Nat : x = k /\ y = stop
        BY <2>3, <3>2, OrderIs
      <4>2. x > y
        BY <3>2, <4>1
      <4>3. ~(x < y) /\ x # y
        BY <4>2
      <4> QED
        BY <4>1, <4>3
    <3> QED
      BY <2>1, <2>5, <3>1, <3>2
  <2>6. SendingBefore(sending)'
    BY <1>1, <2>2, <2>3, <2>5 DEF SendingBefore, Keys
  <2> QED
    BY <1>1, <2>2, <2>3, <2>4, <2>6 DEF SendingNext, NotAgain
<1> QED
  BY <1>2, <1>3, <1>4, <1>5 DEF SentInOrder

LEMMA OrderPop ==
    ASSUME DgramInv, InOrder, SentInOrder, SendPop
    PROVE  InOrder' /\ SentInOrder'
<1>1. /\ UNCHANGED <<pushed, overtaken>> /\ sending \in Nat /\ sending' = None /\ sent' = Append(sent, sending)
      /\ DgramInv' /\ PopLeaves(pq, ticks, pq')
  BY DgramPop
<1>2. PICK t \in Nat : t = ticks /\ pq \in PQs(t) /\ pq' \in PQs(t)
  <2>1. ticks \in Nat /\ pq \in PQs(ticks)
    BY Clock DEF DgramInv, DgramType
  <2> QED
    BY <1>1, <2>1 DEF PopLeaves
<1>3. PICK v \in Nat : v = sending /\ v \in DOMAIN pushed /\ SendingNext(v)
  BY <1>1, Bounds DEF SentInOrder, SendingNext
<1>4. ASSUME NEW k \in Keys(pq')
      PROVE  /\ k \in Keys(pq)
             /\ \/ IsEmpty(pq.queues[k]) /\ pq'.queues[k] = pq.queues[k]
                \/ /\ \A i \in DOMAIN pq'.queues[k].queue :
                         i + 1 \in DOMAIN pq.queues[k].queue /\ pq'.queues[k].queue[i] = pq.queues[k].queue[i + 1]
                   /\ 1 \in DOMAIN pq.queues[k].queue
                \/ pq'.queues[k] = pq.queues[k] /\ \E j \in Keys(pq) : j < k /\ 1 \in DOMAIN pq.queues[j].queue
  <2>1. \A j \in Keys(pq) : ~IsEmpty(pq.queues[j]) => 1 \in DOMAIN pq.queues[j].queue
    <3> SUFFICES ASSUME NEW j \in Keys(pq), ~IsEmpty(pq.queues[j]) PROVE 1 \in DOMAIN pq.queues[j].queue
      OBVIOUS
    <3>1. pq.queues[j] \in TQ(t)
      BY <1>2, PQDomains
    <3>2. pq.queues[j].queue \in Seq(Entry) /\ pq.queues[j].queue # <<>>
      BY <3>1, TQFields DEF IsEmpty
    <3> QED
      BY <3>2, EmptySeq, LenProperties
  <2>2. /\ k \in Keys(pq)
        /\ \/ IsEmpty(pq.queues[k]) /\ pq'.queues[k] = pq.queues[k]
           \/ ~IsEmpty(pq.queues[k]) /\ pq'.queues[k] = PopEntry(pq.queues[k])
           \/ pq'.queues[k] = pq.queues[k] /\ \E j \in Keys(pq) : j < k /\ ~IsEmpty(pq.queues[j])
    BY <1>1, <1>4 DEF PopLeaves
  <2>3. ASSUME ~IsEmpty(pq.queues[k]), pq'.queues[k] = PopEntry(pq.queues[k])
        PROVE  \A i \in DOMAIN pq'.queues[k].queue :
                 i + 1 \in DOMAIN pq.queues[k].queue /\ pq'.queues[k].queue[i] = pq.queues[k].queue[i + 1]
    <3>1. pq.queues[k] \in TQ(t)
      BY <1>2, <2>2, PQDomains
    <3> QED
      BY <2>3, <3>1, PopEntryIs
  <2> QED
    BY <2>1, <2>2, <2>3
<1>5. Shortened(pq, pq')
  <2> SUFFICES ASSUME NEW k \in Keys(pq')
               PROVE  k \in Keys(pq) /\ \E n \in Nat : \A i \in DOMAIN pq'.queues[k].queue :
                        i + n \in DOMAIN pq.queues[k].queue /\ pq'.queues[k].queue[i] = pq.queues[k].queue[i + n]
    BY DEF Shortened
  <2>1. k \in Keys(pq)
    BY <1>4
  <2>2. CASE pq'.queues[k] = pq.queues[k]
    <3>1. \A i \in DOMAIN pq.queues[k].queue : i + 0 = i
      BY <1>2, <2>1, PQDomains
    <3> QED
      BY <2>1, <2>2, <3>1
  <2>3. CASE \A i \in DOMAIN pq'.queues[k].queue :
               i + 1 \in DOMAIN pq.queues[k].queue /\ pq'.queues[k].queue[i] = pq.queues[k].queue[i + 1]
    BY <2>1, <2>3
  <2> QED
    BY <1>4, <2>2, <2>3
<1>6. InOrder'
  BY <1>1, <1>5, ShortenedInOrder
<1>7. ASSUME NEW k \in Keys(pq'), NEW i \in DOMAIN pq'.queues[k].queue, pushed[v].key = k
      PROVE  NotAgain(v, pq'.queues[k].queue[i].own)
  <2>1. i \in Nat /\ i >= 1
    BY <1>2, <1>7, PQDomains
  <2>2. CASE IsEmpty(pq.queues[k]) /\ pq'.queues[k] = pq.queues[k]
    BY <1>7, <2>2 DEF IsEmpty
  <2>3. CASE /\ \A m \in DOMAIN pq'.queues[k].queue :
                  m + 1 \in DOMAIN pq.queues[k].queue /\ pq'.queues[k].queue[m] = pq.queues[k].queue[m + 1]
             /\ 1 \in DOMAIN pq.queues[k].queue
    <3>1. PICK w, x \in Nat : w = pq.queues[k].queue[1].own /\ x = pq'.queues[k].queue[i].own /\ x = pq.queues[k].queue[i + 1].own
      BY <1>4, <1>7, <2>3, OrderIs DEF InOrder
    <3>2. w < x
      BY <1>4, <1>7, <2>1, <2>3, <3>1 DEF InOrder
    <3>3. v <= w
      BY <1>3, <1>4, <1>7, <2>3, <3>1 DEF SendingNext, SendingBefore
    <3> QED
      BY <3>1, <3>2, <3>3 DEF NotAgain
  <2>4. CASE pq'.queues[k] = pq.queues[k] /\ \E j \in Keys(pq) : j < k /\ 1 \in DOMAIN pq.queues[j].queue
    <3>1. v \in overtaken
      BY <1>3, <1>7, <2>4 DEF SendingNext, SendingBefore
    <3>2. PICK x \in Nat : x = pq'.queues[k].queue[i].own /\ x = pq.queues[k].queue[i].own
      BY <1>4, <1>7, <2>4, OrderIs DEF InOrder
    <3>3. v <= x
      BY <1>3, <1>4, <1>7, <2>4, <3>2 DEF SendingNext, SendingBefore
    <3> QED
      BY <3>1, <3>2, <3>3 DEF NotAgain
  <2> QED
    BY <1>4, <2>2, <2>3, <2>4
<1>8. \A i \in DOMAIN sent : pushed[sent[i]].key = pushed[v].key => NotAgain(sent[i], v)
  BY <1>3 DEF SendingNext
<1>9. /\ Len(sent) \in Nat /\ DOMAIN sent = 1..Len(sent) /\ DOMAIN sent' = 1..(Len(sent) + 1)
      /\ sent'[Len(sent) + 1] = v /\ \A i \in DOMAIN sent : sent'[i] = sent[i]
  <2>1. sent \in Seq(Nat) /\ v \in Nat /\ sent' = Append(sent, v)
    BY <1>1, <1>3 DEF DgramInv, DgramType
  <2>2. /\ sent' \in Seq(Nat) /\ Len(sent') = Len(sent) + 1 /\ sent'[Len(sent) + 1] = v
        /\ \A i \in 1..Len(sent) : sent'[i] = sent[i]
    BY <2>1, AppendProperties
  <2> QED
    BY <2>1, <2>2, LenProperties
<1>10. \A i \in DOMAIN sent' : sent'[i] \in DOMAIN pushed
  BY <1>3, <1>9 DEF SentInOrder
<1>11. SentOnce'
  <2> SUFFICES ASSUME NEW i \in DOMAIN sent', NEW j \in DOMAIN sent', i < j,
                      pushed[sent'[i]].key = pushed[sent'[j]].key
               PROVE  NotAgain(sent'[i], sent'[j])
    BY <1>1 DEF SentOnce, NotAgain
  <2>1. i \in DOMAIN sent
    BY <1>9
  <2>2. CASE j \in DOMAIN sent
    BY <1>9, <2>1, <2>2 DEF SentInOrder, SentOnce, NotAgain
  <2>3. CASE j = Len(sent) + 1
    BY <1>8, <1>9, <2>1, <2>3
  <2> QED
    BY <1>9, <2>2, <2>3
<1>12. SentLeft'
  <2> SUFFICES ASSUME NEW i \in DOMAIN sent', NEW k \in Keys(pq'), pushed[sent'[i]].key = k,
                      NEW j \in DOMAIN pq'.queues[k].queue
               PROVE  NotAgain(sent'[i], pq'.queues[k].queue[j].own)
    BY <1>1 DEF SentLeft, NotAgain, Keys
  <2>1. CASE i \in DOMAIN sent
    BY <1>1, <1>5, <1>9, <2>1, ShortenedLeft DEF SentInOrder
  <2>2. CASE i = Len(sent) + 1
    BY <1>7, <1>9, <2>2
  <2> QED
    BY <1>9, <2>1, <2>2
<1> QED
  BY <1>1, <1>6, <1>10, <1>11, <1>12 DEF SentInOrder

LEMMA OrderSame ==
    ASSUME InOrder, SentInOrder, UNCHANGED <<pq, sending, pushed, overtaken, sent>>
    PROVE  InOrder' /\ SentInOrder'
<1>1. InOrder'
  BY DEF InOrder, Keys
<1>2. SentOnce' /\ SentLeft'
  BY DEF SentInOrder, SentOnce, SentLeft, NotAgain, Keys
<1>3. sending # None => SendingNext(sending)'
  BY DEF SentInOrder, SendingNext, SendingBefore, NotAgain, Keys
<1> QED
  BY <1>1, <1>2, <1>3 DEF SentInOrder

LEMMA OrderInit == Init => InOrder /\ SentInOrder
  BY DEF Init, NewPriorityQueue, InOrder, SentInOrder, SentOnce, SentLeft, Keys

LEMMA OrderStep == DgramInv /\ InOrder /\ SentInOrder /\ [Next]_vars => InOrder' /\ SentInOrder'
  BY DgramCases, OrderSame, OrderEnqueue, OrderSend, OrderPop

\* SendNextDatagram, which looks at the front and pops it in two critical sections,
\* while others enqueue with any key and time goes on: no datagram is sent twice or before
\* an earlier one of its key, apart from those a more urgent one came before in between.
THEOREM SentCorrect == Spec => []SentOnce
<1>1. SentInOrder => SentOnce
  BY DEF SentInOrder
<1> QED
  BY <1>1, OrderStep, OrderInit, DgramAlways, PTL DEF Spec

-----------------------------------------------------------------------------
(* The cache forgets no key before its time. *)

LEMMA CacheFields ==
    ASSUME NEW t \in Nat, NEW c \in Caches(t)
    PROVE  /\ c.bucket_index \in CacheSlots /\ c.current_ticks \in Nat /\ c.current_ticks <= t
           /\ c.buckets \in [CacheSlots -> SUBSET CacheKeys]
           /\ DOMAIN c.cache \subseteq CacheKeys /\ c.cache \in [DOMAIN c.cache -> Nat]
<1>1. PICK K \in SUBSET CacheKeys : c.cache \in [K -> Nat]
  BY DEF Caches
<1> QED
  BY <1>1 DEF Caches

LEMMA CacheMade ==
    ASSUME NEW t \in Nat, NEW c, NEW i \in CacheSlots, NEW n \in 0..t, NEW g \in [CacheSlots -> SUBSET CacheKeys],
           NEW K \in SUBSET CacheKeys, NEW m \in [K -> Nat],
           c = [bucket_index |-> i, current_ticks |-> n, buckets |-> g, cache |-> m]
    PROVE  c \in Caches(t)
  BY DEF Caches

LEMMA ClearCacheIs ==
    ASSUME NEW t \in Nat, NEW c \in Caches(t)
    PROVE  /\ ClearCache(c) \in Caches(t) /\ ClearCache(c).current_ticks = c.current_ticks
           /\ DOMAIN ClearCache(c).cache = {} /\ \A b \in CacheSlots : ClearCache(c).buckets[b] = {}
<1> DEFINE g == [i \in CacheSlots |-> {}]
<1>1. ClearCache(c) = [bucket_index |-> 0, current_ticks |-> c.current_ticks, buckets |-> g, cache |-> <<>>]
  <2>1. NewCache = [bucket_index |-> 0, current_ticks |-> 0, buckets |-> g, cache |-> <<>>]
    BY Zenon DEF NewCache
  <2>2. ClearCache(c) = [NewCache EXCEPT !.current_ticks = c.current_ticks]
    BY Zenon DEF ClearCache
  <2> HIDE DEF g
  <2> QED
    BY <2>1, <2>2
<1>2. 0 \in CacheSlots /\ c.current_ticks \in 0..t /\ g \in [CacheSlots -> SUBSET CacheKeys] /\ <<>> \in [{} -> Nat]
  BY CacheFields, Params DEF CacheSlots
<1>3. \A b \in CacheSlots : g[b] = {}
  OBVIOUS
<1> HIDE DEF g
<1>4. ClearCache(c) \in Caches(t)
  BY <1>1, <1>2, CacheMade
<1> QED
  BY <1>1, <1>3, <1>4

\* How far the window of buckets moves.
Delta(c, t) == IF c.current_ticks # 0 THEN (t - c.current_ticks) \div CacheInterval ELSE 0

LEMMA DeltaIs ==
    ASSUME NEW t \in Nat, NEW c \in Caches(t)
    PROVE  /\ Delta(c, t) \in Nat
           /\ c.current_ticks # 0 => /\ CacheInterval * Delta(c, t) <= t - c.current_ticks
                                     /\ t - c.current_ticks < CacheInterval * Delta(c, t) + CacheInterval
           /\ c.current_ticks = 0 => Delta(c, t) = 0
<1>1. c.current_ticks \in Nat /\ c.current_ticks <= t
  BY CacheFields
<1>2. PICK d \in Nat : d = t - c.current_ticks
  BY <1>1
<1>3. (d \div CacheInterval) \in Nat /\ CacheInterval * (d \div CacheInterval) <= d
      /\ d < CacheInterval * (d \div CacheInterval) + CacheInterval
  BY Params, Div
<1> QED
  BY <1>2, <1>3 DEF Delta

\* What advancing leaves: nothing, or what is in the buckets that are not passed.
Passed(c, b, delta) == \E s \in 0..(delta - 1) : Ahead(c, b, s)
AdvanceLeaves(c, a, t, delta) ==
    /\ a \in Caches(t) /\ a.current_ticks = t
    /\ \/ delta >= CacheBuckets /\ DOMAIN a.cache = {} /\ \A b \in CacheSlots : a.buckets[b] = {}
       \/ /\ delta < CacheBuckets
          /\ a.bucket_index = c.bucket_index + delta \/ a.bucket_index = c.bucket_index + delta - CacheBuckets
          /\ \A b \in CacheSlots : a.buckets[b] = IF Passed(c, b, delta) THEN {} ELSE c.buckets[b]
          /\ DOMAIN a.cache = {k \in DOMAIN c.cache : \A b \in CacheSlots : Passed(c, b, delta) => k \notin c.buckets[b]}

LEMMA AdvanceCacheIs ==
    ASSUME NEW t \in Nat, NEW c \in Caches(t)
    PROVE  AdvanceLeaves(c, AdvanceCache(c, t), t, Delta(c, t))
<1> DEFINE a == AdvanceCache(c, t)
           r == [c EXCEPT !.current_ticks = t]
<1>1. PICK delta \in Nat : delta = Delta(c, t)
  BY DeltaIs
<1>2. /\ c.bucket_index \in CacheSlots /\ c.current_ticks \in Nat /\ c.current_ticks <= t
      /\ c.buckets \in [CacheSlots -> SUBSET CacheKeys]
      /\ DOMAIN c.cache \subseteq CacheKeys /\ c.cache \in [DOMAIN c.cache -> Nat]
  BY CacheFields
<1>3. r = [bucket_index |-> c.bucket_index, current_ticks |-> t, buckets |-> c.buckets, cache |-> c.cache]
  BY DEF Caches
<1>4. r \in Caches(t) /\ r.current_ticks = t
  BY <1>2, <1>3, CacheMade
<1>5. CASE delta = 0
  <2>1. a = r
    BY <1>1, <1>5 DEF AdvanceCache, Delta
  <2>2. \A b \in CacheSlots : ~Passed(c, b, delta)
    BY <1>5 DEF Passed
  <2>3. delta < CacheBuckets /\ a.bucket_index = c.bucket_index + delta
    BY <1>2, <1>3, <1>5, <2>1, Params DEF CacheSlots
  <2>4. a.buckets = c.buckets /\ a.cache = c.cache
    BY <1>3, <2>1
  <2> QED
    BY <1>1, <1>4, <2>1, <2>2, <2>3, <2>4 DEF AdvanceLeaves
<1>6. CASE delta # 0 /\ delta >= CacheBuckets
  <2>1. a = ClearCache(r)
    BY <1>1, <1>6 DEF AdvanceCache, Delta
  <2>2. PICK y \in Caches(t) : y = r /\ y.current_ticks = t
    BY <1>4
  <2>3. /\ ClearCache(y) \in Caches(t) /\ ClearCache(y).current_ticks = t
        /\ DOMAIN ClearCache(y).cache = {} /\ \A b \in CacheSlots : ClearCache(y).buckets[b] = {}
    BY <2>2, ClearCacheIs
  <2>4. PICK z : z = ClearCache(y) /\ z = AdvanceCache(c, t)
    BY <2>1, <2>2
  <2>5. AdvanceLeaves(c, z, t, delta)
    BY <1>6, <2>3, <2>4 DEF AdvanceLeaves
  <2> QED
    BY <1>1, <2>4, <2>5
<1>7. CASE delta # 0 /\ delta < CacheBuckets
  <2> DEFINE past == {(c.bucket_index + i) % CacheBuckets : i \in 0..(delta - 1)}
             gone == UNION {c.buckets[i] : i \in past}
             K == DOMAIN c.cache \ gone
             m == [k \in K |-> c.cache[k]]
             g == [i \in CacheSlots |-> IF i \in past THEN {} ELSE c.buckets[i]]
             x == (c.bucket_index + delta) % CacheBuckets
  <2>1. a = [bucket_index |-> x, current_ticks |-> t, buckets |-> g, cache |-> m]
    <3>1. a = [r EXCEPT !.cache = [k \in DOMAIN @ \ gone |-> @[k]],
                        !.buckets = [i \in CacheSlots |-> IF i \in past THEN {} ELSE @[i]],
                        !.bucket_index = (@ + delta) % CacheBuckets]
      <4>1. Delta(c, t) # 0 /\ ~(Delta(c, t) >= CacheBuckets)
        BY <1>1, <1>7, Params
      <4>2. a = LET past0 == {(c.bucket_index + i) % CacheBuckets : i \in 0..(Delta(c, t) - 1)}
                    gone0 == UNION {c.buckets[i] : i \in past0}
                IN  [r EXCEPT !.cache = [k \in DOMAIN @ \ gone0 |-> @[k]],
                              !.buckets = [i \in CacheSlots |-> IF i \in past0 THEN {} ELSE @[i]],
                              !.bucket_index = (@ + Delta(c, t)) % CacheBuckets]
        BY <4>1, Zenon DEF AdvanceCache, Delta
      <4> QED
        BY <1>1, <4>2, Zenon
    <3> HIDE DEF past, gone
    <3>2. PICK i0, g0, m0 : i0 = c.bucket_index /\ g0 = c.buckets /\ m0 = c.cache
      OBVIOUS
    <3>3. r = [bucket_index |-> i0, current_ticks |-> t, buckets |-> g0, cache |-> m0]
      BY <1>3, <3>2
    <3> HIDE DEF r, a
    <3>4. a = [bucket_index |-> (i0 + delta) % CacheBuckets, current_ticks |-> t,
               buckets |-> [i \in CacheSlots |-> IF i \in past THEN {} ELSE g0[i]],
               cache |-> [k \in DOMAIN m0 \ gone |-> m0[k]]]
      BY <3>1, <3>3
    <3> QED
      BY <3>2, <3>4
  <2>2. ASSUME NEW i \in 0..delta
        PROVE  /\ (c.bucket_index + i) % CacheBuckets \in CacheSlots
               /\ Ahead(c, (c.bucket_index + i) % CacheBuckets, i)
    <3>1. PICK y \in Nat : y = c.bucket_index + i /\ y < CacheBuckets + CacheBuckets
      BY <1>2, <1>7, Params DEF CacheSlots
    <3>2. /\ y % CacheBuckets \in 0..(CacheBuckets - 1)
          /\ y % CacheBuckets = y \/ y % CacheBuckets = y - CacheBuckets
      BY <3>1, Mod, Params
    <3> QED
      BY <1>2, <3>1, <3>2, Params DEF CacheSlots, Ahead
  <2>3. ASSUME NEW b \in CacheSlots PROVE b \in past <=> Passed(c, b, delta)
    <3>1. ASSUME NEW s \in 0..(delta - 1), Ahead(c, b, s) PROVE b = (c.bucket_index + s) % CacheBuckets
      <4>1. (c.bucket_index + s) % CacheBuckets \in CacheSlots /\ Ahead(c, (c.bucket_index + s) % CacheBuckets, s)
        BY <2>2
      <4>2. PICK z \in CacheSlots : z = (c.bucket_index + s) % CacheBuckets /\ Ahead(c, z, s)
        BY <4>1
      <4>3. z = b
        BY <1>2, <1>7, <2>3, <3>1, <4>2, Params, SMTT(30) DEF Ahead, CacheSlots
      <4> QED
        BY <4>2, <4>3
    <3>2. \A s \in 0..(delta - 1) : s \in 0..delta
      OBVIOUS
    <3> QED
      BY <2>2, <3>1, <3>2 DEF Passed
  <2>4. \A i \in past : i \in CacheSlots
    <3>1. \A s \in 0..(delta - 1) : s \in 0..delta
      OBVIOUS
    <3> QED
      BY <2>2, <3>1
  <2>5. x \in CacheSlots /\ (x = c.bucket_index + delta \/ x = c.bucket_index + delta - CacheBuckets)
    <3>1. delta \in 0..delta
      OBVIOUS
    <3> QED
      BY <2>2, <3>1 DEF Ahead
  <2> HIDE DEF past, x
  <2>6. g \in [CacheSlots -> SUBSET CacheKeys] /\ \A b \in CacheSlots : g[b] = IF Passed(c, b, delta) THEN {} ELSE c.buckets[b]
    BY <1>2, <2>3
  <2>7. K = {k \in DOMAIN c.cache : \A b \in CacheSlots : Passed(c, b, delta) => k \notin c.buckets[b]}
    BY <2>3, <2>4
  <2>8. m \in [K -> Nat] /\ DOMAIN m = K /\ K \in SUBSET CacheKeys
    BY <1>2
  <2> HIDE DEF K, m, g
  <2>9. a \in Caches(t)
    BY <2>1, <2>5, <2>6, <2>8, CacheMade
  <2> QED
    BY <1>1, <1>7, <2>1, <2>5, <2>6, <2>7, <2>8, <2>9 DEF AdvanceLeaves
<1>8. delta = 0 \/ (delta # 0 /\ delta >= CacheBuckets) \/ (delta # 0 /\ delta < CacheBuckets)
  BY Params
<1> QED
  BY <1>5, <1>6, <1>7, <1>8

\* What inserting leaves: the key in a bucket as many intervals ahead as it has to live.
InsertLeaves(a, q, t, key, live) ==
    /\ q \in Caches(t) /\ q.current_ticks = t /\ q.bucket_index = a.bucket_index
    /\ DOMAIN q.cache = DOMAIN a.cache \cup {key}
    /\ \E b \in CacheSlots, s \in 0..(CacheBuckets - 1) :
         /\ Ahead(a, b, s) /\ s + 1 = live \div CacheInterval
         /\ q.buckets[b] = a.buckets[b] \cup {key}
         /\ \A d \in CacheSlots \ {b} : q.buckets[d] = a.buckets[d]

LEMMA InsertIs ==
    ASSUME NEW t \in Nat, NEW c \in Caches(t), NEW key \in CacheKeys, NEW v \in Nat, NEW ttl \in CacheTtls,
           NEW live, live = IF ttl = 0 THEN CacheDuration ELSE ttl
    PROVE  live \in Nat /\ InsertLeaves(AdvanceCache(c, t), Insert(c, t, key, v, ttl), t, key, live)
<1>1. PICK a \in Caches(t) : a = AdvanceCache(c, t) /\ a.current_ticks = t
  BY AdvanceCacheIs DEF AdvanceLeaves
<1>2. /\ a.bucket_index \in CacheSlots /\ a.buckets \in [CacheSlots -> SUBSET CacheKeys]
      /\ DOMAIN a.cache \subseteq CacheKeys /\ a.cache \in [DOMAIN a.cache -> Nat]
  BY CacheFields
<1>3. live \in Nat /\ CacheInterval <= live /\ live <= CacheInterval * CacheBuckets
  <2>1. PICK d \in Nat : d = CacheInterval * CacheBuckets /\ CacheInterval * 1 <= d
    BY Params, Times
  <2>2. ttl = 0 \/ (ttl \in Nat /\ CacheInterval <= ttl /\ ttl <= d)
    BY <2>1, StoresAssumption, Params DEF CacheDuration
  <2>3. live = IF ttl = 0 THEN d ELSE ttl
    BY <2>1 DEF CacheDuration
  <2>4. live \in Nat /\ CacheInterval <= live /\ live <= d
    <3>1. CacheInterval <= d
      BY <2>1, Params
    <3> QED
      BY <2>2, <2>3, <3>1, Params
  <2> QED
    BY <2>1, <2>4
<1>4. PICK n \in Nat : n = live \div CacheInterval /\ CacheInterval * n <= live /\ live < CacheInterval * n + CacheInterval
  BY <1>3, Div, Params
<1>5. n >= 1 /\ n <= CacheBuckets
  <2>1. PICK p, d \in Nat : p = CacheInterval * n /\ d = CacheInterval * CacheBuckets
    BY Params
  <2>2. live \in Nat /\ p <= live /\ live < p + CacheInterval /\ live <= d /\ CacheInterval <= live
    BY <1>3, <1>4, <2>1
  <2>3. n = 0 => p = 0
    BY <2>1, Params
  <2>4. CacheBuckets + 1 <= n => CacheInterval * (CacheBuckets + 1) <= CacheInterval * n
    BY Params, Times
  <2>5. CacheInterval * (CacheBuckets + 1) = CacheInterval * CacheBuckets + CacheInterval
    BY Params
  <2>6. CacheBuckets + 1 <= n => d + CacheInterval <= p
    BY <2>1, <2>4, <2>5
  <2>7. n >= 1
    <3>1. ASSUME n = 0 PROVE FALSE
      BY <2>2, <2>3, <3>1, Params
    <3> QED
      BY <3>1
  <2>8. ~(CacheBuckets + 1 <= n)
    BY <2>2, <2>6, Params
  <2> QED
    BY <2>7, <2>8, Params
<1>6. PICK s \in Nat : s = n - 1 /\ s \in 0..(CacheBuckets - 1) /\ s + 1 = n
  BY <1>5, Params
<1>7. PICK y \in Nat : y = a.bucket_index + n - 1 /\ y = a.bucket_index + s /\ y < CacheBuckets + CacheBuckets
  BY <1>2, <1>5, <1>6, Params DEF CacheSlots
<1>8. PICK b \in CacheSlots : b = y % CacheBuckets /\ Ahead(a, b, s)
  <2>1. /\ y % CacheBuckets \in 0..(CacheBuckets - 1)
        /\ y % CacheBuckets = y \/ y % CacheBuckets = y - CacheBuckets
    BY <1>7, Mod, Params
  <2> QED
    BY <1>2, <1>6, <1>7, <2>1, Params DEF CacheSlots, Ahead
<1> DEFINE K == DOMAIN a.cache \cup {key}
           m == [k \in K |-> IF k = key THEN v ELSE a.cache[k]]
           g == [a.buckets EXCEPT ![b] = @ \cup {key}]
<1>9. Insert(c, t, key, v, ttl) = [bucket_index |-> a.bucket_index, current_ticks |-> t, buckets |-> g, cache |-> m]
  <2>1. Insert(c, t, key, v, ttl) =
          [a EXCEPT !.buckets[b] = @ \cup {key},
                    !.cache = [k \in DOMAIN @ \cup {key} |-> IF k = key THEN v ELSE @[k]]]
    <3>1. (IF ttl = 0 THEN CacheDuration ELSE ttl) \div CacheInterval = n
      BY <1>4
    <3>2. (a.bucket_index + n - 1) % CacheBuckets = b
      BY <1>7, <1>8
    <3> QED
      BY <1>1, <3>1, <3>2, Zenon DEF Insert
  <2>2. Insert(c, t, key, v, ttl) = [a EXCEPT !.buckets = g, !.cache = m]
    BY <2>1
  <2> HIDE DEF g, m
  <2>3. PICK i0, g0, m0 : i0 = a.bucket_index /\ a = [bucket_index |-> i0, current_ticks |-> t, buckets |-> g0, cache |-> m0]
    BY <1>1 DEF Caches
  <2>4. a = [bucket_index |-> i0, current_ticks |-> t, buckets |-> g0, cache |-> m0]
    BY <2>3
  <2>5. \A h, l : [a EXCEPT !.buckets = h, !.cache = l] = [bucket_index |-> i0, current_ticks |-> t, buckets |-> h, cache |-> l]
    <3> TAKE h, l
    <3>1. [a EXCEPT !.buckets = h] = [bucket_index |-> i0, current_ticks |-> t, buckets |-> h, cache |-> m0]
      BY <2>4
    <3>2. PICK d : d = [bucket_index |-> i0, current_ticks |-> t, buckets |-> h, cache |-> m0]
      OBVIOUS
    <3>3. [d EXCEPT !.cache = l] = [bucket_index |-> i0, current_ticks |-> t, buckets |-> h, cache |-> l]
      BY <3>2
    <3>4. [a EXCEPT !.buckets = h, !.cache = l] = [[a EXCEPT !.buckets = h] EXCEPT !.cache = l]
      BY Zenon
    <3> QED
      BY <3>1, <3>2, <3>3, <3>4, Zenon
  <2> QED
    BY <2>2, <2>3, <2>5, Zenon
<1>10. K \in SUBSET CacheKeys /\ m \in [K -> Nat] /\ DOMAIN m = K
  BY <1>2
<1>11. /\ g \in [CacheSlots -> SUBSET CacheKeys] /\ g[b] = a.buckets[b] \cup {key}
       /\ \A d \in CacheSlots \ {b} : g[d] = a.buckets[d]
  BY <1>2
<1> HIDE DEF m, g
<1>12. Insert(c, t, key, v, ttl) \in Caches(t)
  <2>1. t \in 0..t
    OBVIOUS
  <2> QED
    BY <1>2, <1>9, <1>10, <1>11, <2>1, CacheMade
<1>13. PICK q : q = Insert(c, t, key, v, ttl)
  OBVIOUS
<1>14. /\ q \in Caches(t) /\ q.current_ticks = t /\ q.bucket_index = a.bucket_index
       /\ DOMAIN q.cache = DOMAIN a.cache \cup {key} /\ q.buckets = g
  BY <1>9, <1>10, <1>12, <1>13
<1>15. s + 1 = live \div CacheInterval
  BY <1>4, <1>6
<1>16. InsertLeaves(a, q, t, key, live)
  BY <1>6, <1>8, <1>11, <1>14, <1>15 DEF InsertLeaves
<1> QED
  BY <1>1, <1>3, <1>13, <1>16

-----------------------------------------------------------------------------
LEMMA InsertedIs ==
    ASSUME NEW ins \in Seq(Inserted), NEW i \in DOMAIN ins
    PROVE  ins[i] \in Inserted /\ Until(ins[i]) \in Nat
<1>1. ins[i] \in Inserted
  BY LenProperties, ElementOfSeq
<1>2. PICK a, n \in Nat : a = ins[i].at /\ n = ins[i].ttl \div CacheInterval
  BY <1>1, Div, Params DEF Inserted
<1>3. CacheInterval * n \in Nat
  BY Params
<1> QED
  BY <1>1, <1>2, <1>3 DEF Until

LEMMA AppendedIs ==
    ASSUME NEW ins \in Seq(Inserted), NEW e \in Inserted
    PROVE  /\ Append(ins, e) \in Seq(Inserted) /\ Len(ins) \in Nat /\ DOMAIN ins = 1..Len(ins)
           /\ DOMAIN Append(ins, e) = 1..(Len(ins) + 1) /\ Append(ins, e)[Len(ins) + 1] = e
           /\ \A i \in DOMAIN ins : i \in DOMAIN Append(ins, e) /\ Append(ins, e)[i] = ins[i]
<1>1. /\ Append(ins, e) \in Seq(Inserted) /\ Len(Append(ins, e)) = Len(ins) + 1 /\ Append(ins, e)[Len(ins) + 1] = e
      /\ \A i \in 1..Len(ins) : Append(ins, e)[i] = ins[i]
  BY AppendProperties
<1> QED
  BY <1>1, LenProperties

\* Places in the window of buckets, before and after it has moved.
LEMMA Places ==
    ASSUME NEW n \in Nat, NEW x \in Int, NEW y \in Int, NEW b \in Int, NEW s \in Int, NEW delta \in Int, NEW u \in Int,
           0 <= x, x < n, 0 <= y, y < n, 0 <= b, b < n, 0 <= s, s < n, 0 <= delta, delta < n, 0 <= u, u < n,
           y = x + delta \/ y = x + delta - n,
           b = y + s \/ b = y + s - n,
           u = s + delta \/ u = s + delta - n
    PROVE  b = x + u \/ b = x + u - n
  OBVIOUS

LEMMA OnePlace ==
    ASSUME NEW n \in Nat, NEW x \in Int, NEW b \in Int, NEW s \in Int, NEW u \in Int,
           0 <= s, s < n, 0 <= u, u < n,
           b = x + s \/ b = x + s - n, b = x + u \/ b = x + u - n
    PROVE  u = s
  OBVIOUS

LEMMA EndsByAdvance ==
    ASSUME NEW t \in Nat, NEW c \in Caches(t), NEW ins \in Seq(Inserted),
           c.current_ticks = 0 => ins = <<>>, KeysEnd(c, ins)
    PROVE  KeysEnd(AdvanceCache(c, t), ins)
<1>1. PICK a : a = AdvanceCache(c, t)
  OBVIOUS
<1>2. PICK delta \in Nat : delta = Delta(c, t)
  BY DeltaIs
<1>3. AdvanceLeaves(c, a, t, delta) /\ c.current_ticks \in Nat /\ c.current_ticks <= t
  BY <1>1, <1>2, AdvanceCacheIs, CacheFields
<1>4. PICK D \in Nat : D = CacheInterval * delta
  BY Params
<1>5. c.current_ticks + D <= t
  <2>1. CASE c.current_ticks # 0
    BY <1>2, <1>3, <1>4, <2>1, DeltaIs
  <2>2. CASE c.current_ticks = 0
    <3>1. D = 0
      BY <1>2, <1>4, <2>2, DeltaIs, Params
    <3> QED
      BY <1>3, <2>2, <3>1
  <2> QED
    BY <2>1, <2>2
<1>6. \A i \in DOMAIN ins : Until(ins[i]) \in Nat
  BY InsertedIs
<1>7. a.current_ticks = t
  BY <1>3 DEF AdvanceLeaves
\* The buckets that are left.
<1>8. ASSUME NEW b \in CacheSlots, NEW s \in 0..(CacheBuckets - 1), NEW k \in a.buckets[b], Ahead(a, b, s)
      PROVE  \E i \in DOMAIN ins : ins[i].key = k /\ Until(ins[i]) <= a.current_ticks + CacheInterval * (s + 1)
  <2>1. /\ delta < CacheBuckets
        /\ a.bucket_index = c.bucket_index + delta \/ a.bucket_index = c.bucket_index + delta - CacheBuckets
        /\ ~Passed(c, b, delta) /\ k \in c.buckets[b]
    BY <1>3, <1>8 DEF AdvanceLeaves
  <2>2. /\ a.bucket_index \in 0..(CacheBuckets - 1) /\ c.bucket_index \in 0..(CacheBuckets - 1)
        /\ b \in 0..(CacheBuckets - 1)
    BY <1>3, CacheFields DEF AdvanceLeaves, CacheSlots
  <2>3. b = a.bucket_index + s \/ b = a.bucket_index + s - CacheBuckets
    BY <1>8 DEF Ahead
  <2>4. PICK u \in 0..(CacheBuckets - 1) : Ahead(c, b, u) /\ (u = s + delta \/ u = s + delta - CacheBuckets)
    <3>1. CASE s + delta < CacheBuckets
      <4>1. PICK u \in 0..(CacheBuckets - 1) : u = s + delta
        BY <3>1, Params
      <4>2. b = c.bucket_index + u \/ b = c.bucket_index + u - CacheBuckets
        <5>1. u \in Int /\ 0 <= u /\ u < CacheBuckets /\ s \in Int /\ 0 <= s /\ s < CacheBuckets
          BY <4>1, Params
        <5>2. PICK x, y \in Int : x = c.bucket_index /\ y = a.bucket_index
          BY <2>2
        <5>3. 0 <= x /\ x < CacheBuckets /\ 0 <= y /\ y < CacheBuckets /\ b \in Int /\ 0 <= b /\ b < CacheBuckets
          BY <2>2, <5>2, Params
        <5>4. (y = x + delta \/ y = x + delta - CacheBuckets) /\ (b = y + s \/ b = y + s - CacheBuckets)
          BY <2>1, <2>3, <5>2
        <5>5. b = x + u \/ b = x + u - CacheBuckets
          BY <2>1, <4>1, <5>1, <5>3, <5>4, Params, Places
        <5> QED
          BY <5>2, <5>5
      <4> QED
        BY <4>1, <4>2 DEF Ahead
    <3>2. CASE s + delta >= CacheBuckets
      <4>1. PICK u \in 0..(CacheBuckets - 1) : u = s + delta - CacheBuckets
        BY <2>1, <3>2, Params
      <4>2. b = c.bucket_index + u \/ b = c.bucket_index + u - CacheBuckets
        <5>1. u \in Int /\ 0 <= u /\ u < CacheBuckets /\ s \in Int /\ 0 <= s /\ s < CacheBuckets
          BY <4>1, Params
        <5>2. PICK x, y \in Int : x = c.bucket_index /\ y = a.bucket_index
          BY <2>2
        <5>3. 0 <= x /\ x < CacheBuckets /\ 0 <= y /\ y < CacheBuckets /\ b \in Int /\ 0 <= b /\ b < CacheBuckets
          BY <2>2, <5>2, Params
        <5>4. (y = x + delta \/ y = x + delta - CacheBuckets) /\ (b = y + s \/ b = y + s - CacheBuckets)
          BY <2>1, <2>3, <5>2
        <5>5. b = x + u \/ b = x + u - CacheBuckets
          BY <2>1, <4>1, <5>1, <5>3, <5>4, Params, Places
        <5> QED
          BY <5>2, <5>5
      <4> QED
        BY <4>1, <4>2 DEF Ahead
    <3> QED
      BY <3>1, <3>2, Params
  <2>5. u = s + delta
    <3>1. ~(u \in 0..(delta - 1))
      BY <2>1, <2>4 DEF Passed
    <3> QED
      BY <2>4, <3>1, Params
  <2>6. PICK i \in DOMAIN ins : ins[i].key = k /\ Until(ins[i]) <= c.current_ticks + CacheInterval * (u + 1)
    BY <2>1, <2>4 DEF KeysEnd
  <2>7. CacheInterval * (u + 1) = D + CacheInterval * (s + 1)
    BY <1>4, <2>5, Params
  <2>8. PICK z \in Nat : z = CacheInterval * (s + 1)
    BY Params
  <2>9. Until(ins[i]) <= c.current_ticks + (D + z)
    BY <2>6, <2>7, <2>8
  <2>10. Until(ins[i]) <= t + z
    BY <1>3, <1>5, <1>6, <2>9
  <2> QED
    BY <1>7, <2>6, <2>8, <2>10
<1>9. ASSUME NEW i \in DOMAIN ins PROVE Until(ins[i]) <= a.current_ticks + CacheInterval * CacheBuckets
  <2>1. PICK z \in Nat : z = CacheInterval * CacheBuckets
    BY Params
  <2>2. Until(ins[i]) <= c.current_ticks + z
    BY <2>1 DEF KeysEnd
  <2>3. Until(ins[i]) <= t + z
    BY <1>3, <1>6, <2>2
  <2> QED
    BY <1>7, <2>1, <2>3
\* What has gone.
<1>10. ASSUME NEW i \in DOMAIN ins, ins[i].key \notin DOMAIN a.cache
       PROVE  \E j \in DOMAIN ins : ins[j].key = ins[i].key /\ a.current_ticks >= Until(ins[j])
  <2>1. CASE ins[i].key \notin DOMAIN c.cache
    <3>1. PICK j \in DOMAIN ins : ins[j].key = ins[i].key /\ c.current_ticks >= Until(ins[j])
      BY <2>1 DEF KeysEnd
    <3>2. t >= Until(ins[j])
      BY <1>3, <1>6, <3>1
    <3> QED
      BY <1>7, <3>1, <3>2
  <2>2. CASE ins[i].key \in DOMAIN c.cache /\ delta < CacheBuckets
    <3>1. PICK b \in CacheSlots : Passed(c, b, delta) /\ ins[i].key \in c.buckets[b]
      <4>1. ~(delta >= CacheBuckets)
        BY <2>2, Params
      <4> QED
        BY <1>3, <1>10, <2>2, <4>1 DEF AdvanceLeaves
    <3>2. PICK s \in 0..(delta - 1) : Ahead(c, b, s)
      BY <3>1 DEF Passed
    <3>3. s \in 0..(CacheBuckets - 1)
      BY <2>2, Params
    <3>4. PICK j \in DOMAIN ins : ins[j].key = ins[i].key /\ Until(ins[j]) <= c.current_ticks + CacheInterval * (s + 1)
      BY <3>1, <3>2, <3>3 DEF KeysEnd
    <3>5. PICK z \in Int : z = CacheInterval * (s + 1) /\ z <= D
      BY <1>4, Params, Times
    <3>6. Until(ins[j]) <= c.current_ticks + z
      BY <3>4, <3>5
    <3>7. t >= Until(ins[j])
      <4>1. z <= D
        BY <3>5
      <4> QED
        BY <1>3, <1>5, <1>6, <3>6, <4>1
    <3> QED
      BY <1>7, <3>4, <3>7
  <2>3. CASE delta >= CacheBuckets
    <3>1. PICK z \in Int : z = CacheInterval * CacheBuckets /\ z <= D
      BY <1>4, <2>3, Params, Times
    <3>2. Until(ins[i]) <= c.current_ticks + z
      BY <3>1 DEF KeysEnd
    <3>3. t >= Until(ins[i])
      <4>1. z <= D
        BY <3>1
      <4> QED
        BY <1>3, <1>5, <1>6, <3>2, <4>1
    <3> QED
      BY <1>7, <3>3
  <2> QED
    BY <2>1, <2>2, <2>3, Params
<1> QED
  BY <1>1, <1>8, <1>9, <1>10 DEF KeysEnd

LEMMA EndsByInsert ==
    ASSUME NEW t \in Nat, NEW a \in Caches(t), a.current_ticks = t, NEW q, NEW key \in CacheKeys,
           NEW live \in Nat, InsertLeaves(a, q, t, key, live), NEW ins \in Seq(Inserted), KeysEnd(a, ins),
           NEW e \in Inserted, e = [key |-> key, at |-> t, ttl |-> live]
    PROVE  KeysEnd(q, Append(ins, e))
<1>1. PICK new : /\ new = Append(ins, e) /\ DOMAIN new = DOMAIN ins \cup {Len(ins) + 1} /\ new[Len(ins) + 1] = e
                 /\ \A i \in DOMAIN ins : new[i] = ins[i]
  <2>1. Len(ins) \in Nat /\ DOMAIN ins = 1..Len(ins) /\ DOMAIN Append(ins, e) = 1..(Len(ins) + 1)
    BY AppendedIs
  <2>2. DOMAIN Append(ins, e) = DOMAIN ins \cup {Len(ins) + 1}
    BY <2>1
  <2>3. Append(ins, e)[Len(ins) + 1] = e /\ \A i \in DOMAIN ins : Append(ins, e)[i] = ins[i]
    BY AppendedIs
  <2> QED
    BY <2>2, <2>3
<1>2. PICK b \in CacheSlots, s \in 0..(CacheBuckets - 1) :
         /\ Ahead(a, b, s) /\ s + 1 = live \div CacheInterval
         /\ q.buckets[b] = a.buckets[b] \cup {key}
         /\ \A d \in CacheSlots \ {b} : q.buckets[d] = a.buckets[d]
  BY DEF InsertLeaves
<1>3. q.current_ticks = t /\ q.bucket_index = a.bucket_index /\ DOMAIN q.cache = DOMAIN a.cache \cup {key}
  BY DEF InsertLeaves
<1>4. PICK z \in Nat : z = CacheInterval * (s + 1) /\ z <= CacheInterval * CacheBuckets
  BY Params, Times
<1>5. Until(e) = t + z /\ e.key = key
  BY <1>2, <1>4 DEF Until
<1>6. ASSUME NEW d \in CacheSlots, NEW u \in 0..(CacheBuckets - 1), NEW k \in q.buckets[d], Ahead(q, d, u)
      PROVE  \E i \in DOMAIN new : new[i].key = k /\ Until(new[i]) <= q.current_ticks + CacheInterval * (u + 1)
  <2>1. Ahead(a, d, u)
    BY <1>3, <1>6 DEF Ahead
  <2>2. CASE k \in a.buckets[d]
    <3>1. PICK i \in DOMAIN ins : ins[i].key = k /\ Until(ins[i]) <= a.current_ticks + CacheInterval * (u + 1)
      BY <2>1, <2>2 DEF KeysEnd
    <3> QED
      BY <1>1, <1>3, <3>1
  <2>3. CASE d = b /\ k = key
    <3>1. a.bucket_index \in 0..(CacheBuckets - 1)
      BY CacheFields DEF CacheSlots
    <3>2. u = s
      <4>1. PICK x \in Int : x = a.bucket_index
        BY <3>1
      <4>2. /\ b \in Int /\ s \in Int /\ u \in Int /\ 0 <= s /\ s < CacheBuckets /\ 0 <= u /\ u < CacheBuckets
            /\ CacheBuckets \in Nat
        BY Params DEF CacheSlots
      <4>3. (b = x + s \/ b = x + s - CacheBuckets) /\ (b = x + u \/ b = x + u - CacheBuckets)
        BY <1>2, <2>1, <2>3, <4>1 DEF Ahead
      <4> QED
        BY <4>2, <4>3, OnePlace
    <3>3. Until(e) <= t + CacheInterval * (u + 1)
      BY <1>4, <1>5, <3>2
    <3> QED
      BY <1>1, <1>3, <1>5, <2>3, <3>3
  <2> QED
    BY <1>2, <1>6, <2>2, <2>3
<1>7. ASSUME NEW i \in DOMAIN new PROVE Until(new[i]) <= q.current_ticks + CacheInterval * CacheBuckets
  <2>1. CASE i \in DOMAIN ins
    BY <1>1, <1>3, <2>1 DEF KeysEnd
  <2>2. CASE i = Len(ins) + 1
    <3>1. PICK d \in Nat : d = CacheInterval * CacheBuckets /\ z <= d
      BY <1>4, Params
    <3>2. Until(e) <= t + d
      BY <1>5, <3>1
    <3> QED
      BY <1>1, <1>3, <2>2, <3>1, <3>2
  <2> QED
    BY <1>1, <1>7, <2>1, <2>2
<1>8. ASSUME NEW i \in DOMAIN new, new[i].key \notin DOMAIN q.cache
      PROVE  \E j \in DOMAIN new : new[j].key = new[i].key /\ q.current_ticks >= Until(new[j])
  <2>1. i \in DOMAIN ins /\ new[i] = ins[i] /\ ins[i].key \notin DOMAIN a.cache
    BY <1>1, <1>3, <1>5, <1>8
  <2>2. PICK j \in DOMAIN ins : ins[j].key = ins[i].key /\ a.current_ticks >= Until(ins[j])
    BY <2>1 DEF KeysEnd
  <2> QED
    BY <1>1, <1>3, <2>1, <2>2
<1> QED
  BY <1>1, <1>6, <1>7, <1>8, SMTT(30) DEF KeysEnd

\* The state machine.
LEMMA CacheCases ==
    ASSUME [Next]_vars, ticks \in 1..MaxTick
    PROVE  \/ UNCHANGED <<cache, inserts>> /\ ticks' \in 1..MaxTick /\ ticks <= ticks'
           \/ \E key \in CacheKeys, ttl \in CacheTtls : InsertObject(key, ttl)
           \/ Lookup \/ ClearObjects
<1>1. CASE TickLoop
  BY <1>1, Bounds DEF TickLoop, cacheVars
<1>2. CASE UNCHANGED <<ticks, cache, inserts>>
  BY <1>2, Bounds
<1>3. CASE \/ \E c \in Ctx, key \in QueueKeys, ttl \in Ttls : Enqueue(c, key, ttl)
           \/ \E c \in Ctx : DeleteDataContext(c)
           \/ MarkDgramReady \/ RunnerSlides \/ SendPop
           \/ \E fits \in BOOLEAN : SendNextDatagram(fits)
  BY <1>2, <1>3 DEF Enqueue, DeleteDataContext, MarkDgramReady, RunnerSlides, SendPop, SendNextDatagram, cacheVars
<1>4. CASE UNCHANGED vars
  BY <1>2, <1>4 DEF vars, cacheVars
<1> QED
  BY <1>1, <1>3, <1>4 DEF Next

LEMMA CachesLater ==
    ASSUME NEW t \in Nat, NEW u \in Nat, t <= u, NEW c \in Caches(t)
    PROVE  c \in Caches(u)
  BY CacheFields DEF Caches

LEMMA CacheInit == Init => CacheType /\ KeysEnd(cache, inserts)
<1> SUFFICES ASSUME Init PROVE CacheType /\ KeysEnd(cache, inserts)
  OBVIOUS
<1> DEFINE g == [i \in CacheSlots |-> {}]
<1>1. ticks = 1 /\ inserts = <<>> /\ 1 \in 1..MaxTick
  BY Bounds DEF Init
<1>2. cache = [bucket_index |-> 0, current_ticks |-> 0, buckets |-> g, cache |-> <<>>]
  BY DEF Init, NewCache
<1>3. 0 \in CacheSlots /\ 0 \in 0..1 /\ g \in [CacheSlots -> SUBSET CacheKeys] /\ <<>> \in [{} -> Nat]
  BY Params DEF CacheSlots
<1>4. \A b \in CacheSlots : g[b] = {}
  OBVIOUS
<1> HIDE DEF g
<1>5. cache \in Caches(1)
  BY <1>2, <1>3, CacheMade
<1>6. DOMAIN cache.cache = {} /\ DOMAIN inserts = {} /\ \A b \in CacheSlots : cache.buckets[b] = {}
  BY <1>1, <1>2, <1>4
<1>7. CacheType
  BY <1>1, <1>5, <1>6, EmptySeq DEF CacheType
<1> QED
  BY <1>6, <1>7 DEF KeysEnd

\* The insertion that InsertObject records.
LEMMA InsertObjectIs ==
    ASSUME CacheType, NEW key \in CacheKeys, NEW ttl \in CacheTtls, InsertObject(key, ttl)
    PROVE  \E live \in Nat, e \in Inserted :
             /\ live = IF ttl = 0 THEN CacheDuration ELSE ttl
             /\ e = [key |-> key, at |-> ticks, ttl |-> live]
             /\ UNCHANGED ticks /\ inserts' = Append(inserts, e) /\ inserts' \in Seq(Inserted)
             /\ InsertLeaves(AdvanceCache(cache, ticks), cache', ticks, key, live)
<1>1. PICK live : live = IF ttl = 0 THEN CacheDuration ELSE ttl
  OBVIOUS
<1>2. ticks \in Nat /\ cache \in Caches(ticks) /\ inserts \in Seq(Inserted)
  BY Clock DEF CacheType
<1>3. live \in Nat
  BY <1>1, <1>2, InsertIs
<1>4. PICK e \in Inserted : e = [key |-> key, at |-> ticks, ttl |-> live]
  BY <1>2, <1>3 DEF Inserted
<1>5. UNCHANGED ticks /\ inserts' = Append(inserts, e) /\ cache' = Insert(cache, ticks, key, Len(inserts'), ttl)
  BY <1>1, <1>4 DEF InsertObject
<1>6. inserts' \in Seq(Inserted)
  BY <1>2, <1>5, AppendedIs
<1>7. PICK v \in Nat : v = Len(inserts')
  BY <1>6, LenProperties
<1>8. InsertLeaves(AdvanceCache(cache, ticks), Insert(cache, ticks, key, v, ttl), ticks, key, live)
  BY <1>1, <1>2, InsertIs
<1> QED
  BY <1>1, <1>3, <1>4, <1>5, <1>6, <1>7, <1>8

LEMMA CacheTypeStep == CacheType /\ [Next]_vars => CacheType'
<1> SUFFICES ASSUME CacheType, [Next]_vars PROVE CacheType'
  OBVIOUS
<1>1. ticks \in Nat \ {0} /\ ticks \in 1..MaxTick /\ cache \in Caches(ticks) /\ inserts \in Seq(Inserted)
  BY Clock DEF CacheType
<1>2. CASE UNCHANGED <<cache, inserts>> /\ ticks' \in 1..MaxTick /\ ticks <= ticks'
  <2>1. ticks' \in Nat
    BY <1>2, Bounds
  <2>2. cache \in Caches(ticks')
    BY <1>1, <1>2, <2>1, CachesLater
  <2> QED
    BY <1>2, <2>2 DEF CacheType
<1>3. ASSUME NEW key \in CacheKeys, NEW ttl \in CacheTtls, InsertObject(key, ttl) PROVE CacheType'
  <2>1. UNCHANGED ticks /\ inserts' \in Seq(Inserted)
    BY <1>3, InsertObjectIs
  <2>2. cache' \in Caches(ticks) /\ cache'.current_ticks = ticks
    <3>1. PICK live : InsertLeaves(AdvanceCache(cache, ticks), cache', ticks, key, live)
      BY <1>3, InsertObjectIs
    <3> QED
      BY <3>1 DEF InsertLeaves
  <2> QED
    BY <1>1, <2>1, <2>2 DEF CacheType
<1>4. CASE Lookup
  <2>1. UNCHANGED <<ticks, inserts>> /\ cache' = AdvanceCache(cache, ticks)
    BY <1>4 DEF Lookup
  <2>2. cache' \in Caches(ticks) /\ cache'.current_ticks = ticks
    BY <1>1, <2>1, AdvanceCacheIs DEF AdvanceLeaves
  <2> QED
    BY <1>1, <2>1, <2>2 DEF CacheType
<1>5. CASE ClearObjects
  <2>1. UNCHANGED ticks /\ inserts' = <<>> /\ cache' = ClearCache(cache)
    BY <1>5 DEF ClearObjects
  <2>2. cache' \in Caches(ticks) /\ DOMAIN cache'.cache = {}
    BY <1>1, <2>1, ClearCacheIs
  <2> QED
    BY <1>1, <2>1, <2>2, EmptySeq DEF CacheType
<1> QED
  BY <1>1, <1>2, <1>3, <1>4, <1>5, CacheCases

LEMMA CacheAlways == Spec => []CacheType
  BY CacheInit, CacheTypeStep, PTL DEF Spec

LEMMA EndStep == CacheType /\ KeysEnd(cache, inserts) /\ [Next]_vars => KeysEnd(cache, inserts)'
<1> SUFFICES ASSUME CacheType, KeysEnd(cache, inserts), [Next]_vars PROVE KeysEnd(cache', inserts')
  BY DEF KeysEnd, Ahead
<1>1. /\ ticks \in Nat /\ ticks \in 1..MaxTick /\ cache \in Caches(ticks) /\ inserts \in Seq(Inserted)
      /\ cache.current_ticks = 0 => inserts = <<>>
  BY Clock DEF CacheType
<1>2. PICK a \in Caches(ticks) : a = AdvanceCache(cache, ticks) /\ a.current_ticks = ticks
  BY <1>1, AdvanceCacheIs DEF AdvanceLeaves
<1>3. KeysEnd(a, inserts)
  BY <1>1, <1>2, EndsByAdvance
<1>4. ASSUME NEW key \in CacheKeys, NEW ttl \in CacheTtls, InsertObject(key, ttl) PROVE KeysEnd(cache', inserts')
  <2>1. PICK live \in Nat, e \in Inserted :
             /\ live = IF ttl = 0 THEN CacheDuration ELSE ttl
             /\ e = [key |-> key, at |-> ticks, ttl |-> live] /\ inserts' = Append(inserts, e)
             /\ InsertLeaves(a, cache', ticks, key, live)
    BY <1>2, <1>4, InsertObjectIs
  <2> QED
    BY <1>1, <1>2, <1>3, <2>1, EndsByInsert
<1>5. CASE Lookup
  BY <1>2, <1>3, <1>5 DEF Lookup
<1>6. CASE ClearObjects
  <2>1. inserts' = <<>> /\ \A b \in CacheSlots : cache'.buckets[b] = {}
    BY <1>1, <1>6, ClearCacheIs DEF ClearObjects
  <2> QED
    BY <2>1 DEF KeysEnd
<1>7. CASE UNCHANGED <<cache, inserts>>
  BY <1>7
<1> QED
  BY <1>1, <1>4, <1>5, <1>6, <1>7, CacheCases

\* Insert and Advance with buckets of any width and any number: a key that was inserted
\* and is no longer found has outlived one of its insertions, up to the bucket interval.
THEOREM NotEarlyCorrect == Spec => []CacheNotEarly
<1>1. KeysEnd(cache, inserts) => CacheNotEarly
  BY DEF KeysEnd, CacheNotEarly, Until
<1> QED
  BY <1>1, EndStep, CacheInit, CacheAlways, PTL DEF Spec

\* The types: the ring index stays inside the ring, the free list below its limit, and
\* at most one more function than the bound is ever posted.
THEOREM TypeCorrect == Spec => []TypeOK
<1>1. DgramInv /\ CacheType => TypeOK
  <2> SUFFICES ASSUME DgramInv, CacheType PROVE TypeOK
    OBVIOUS
  <2>1. PICK t \in Nat : t = ticks /\ pq \in PQs(t) /\ cache \in Caches(t)
    BY Clock DEF DgramInv, DgramType, CacheType
  <2>2. Keys(pq) \subseteq QueueKeys /\ Len(pq.free) <= MaxFree
    BY <2>1, PQFields
  <2>3. \A k \in Keys(pq) : pq.queues[k].bucket_index \in Slots
    BY <2>1, PQDomains, TQFields
  <2>4. cache.bucket_index \in CacheSlots /\ DOMAIN cache.cache \subseteq CacheKeys
    BY <2>1, CacheFields
  <2>5. posted \in 0..(MaxPosted + 1)
    BY Bounds DEF DgramInv, DgramType, Counted
  <2> QED
    BY <2>2, <2>3, <2>4, <2>5 DEF TypeOK, DgramInv, DgramType
<1> QED
  BY <1>1, DgramAlways, CacheAlways, PTL

=============================================================================
