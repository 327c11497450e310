--------------------------- MODULE RxStreamProofs ---------------------------
(***************************************************************************)
(* Proofs about the receive path: types, the order of delivery and the     *)
(* account of every buffer, for any streams, limits and bounds.            *)
(***************************************************************************)
EXTENDS RxStream, SequenceTheorems, FiniteSetTheorems, TLAPS

\* What SafeQueue::Push leaves in the queue: a sequence that ends with the
\* new element, shifted by one when the oldest made room for it.
LEMMA PushFacts ==
    ASSUME NEW S, NEW q \in Seq(S), NEW x \in S, NEW lim \in Nat
    PROVE  /\ Push(q, x, lim) \in Seq(S)
           /\ Full(q, lim) =>
                /\ Len(q) > 0 /\ Len(Push(q, x, lim)) = Len(q)
                /\ Push(q, x, lim)[Len(q)] = x
                /\ \A i \in 1..Len(q) - 1 : Push(q, x, lim)[i] = q[i + 1]
           /\ ~Full(q, lim) =>
                /\ Len(Push(q, x, lim)) = Len(q) + 1
                /\ Push(q, x, lim)[Len(q) + 1] = x
                /\ \A i \in 1..Len(q) : Push(q, x, lim)[i] = q[i]
<1>1. CASE Full(q, lim)
  <2>1. q # <<>> /\ Len(q) \in Nat /\ Len(q) > 0
    BY <1>1 DEF Full
  <2>2. /\ Tail(q) \in Seq(S) /\ Len(Tail(q)) = Len(q) - 1
        /\ \A i \in 1..Len(Tail(q)) : Tail(q)[i] = q[i + 1]
    BY <2>1
  <2>3. Push(q, x, lim) = Append(Tail(q), x)
    BY <1>1 DEF Push
  <2>4. /\ Append(Tail(q), x) \in Seq(S)
        /\ Len(Append(Tail(q), x)) = Len(Tail(q)) + 1
        /\ Append(Tail(q), x)[Len(Tail(q)) + 1] = x
        /\ \A i \in 1..Len(Tail(q)) : Append(Tail(q), x)[i] = Tail(q)[i]
    BY <2>2
  <2>5. QED
    BY <1>1, <2>1, <2>2, <2>3, <2>4
<1>2. CASE ~Full(q, lim)
  BY <1>2 DEF Push
<1>3. QED
  BY <1>1, <1>2

\* The rest of a non-empty queue.
LEMMA TailFacts ==
    ASSUME NEW S, NEW q \in Seq(S), q # <<>>
    PROVE  /\ Tail(q) \in Seq(S) /\ Len(q) \in Nat /\ Len(q) > 0
           /\ Len(Tail(q)) = Len(q) - 1 /\ Head(q) = q[1] /\ q[1] \in S
           /\ \A i \in 1..Len(q) - 1 : Tail(q)[i] = q[i + 1]
OBVIOUS

\* Blame keeps the type of cause and takes nothing away.
LEMMA BlameFacts ==
    ASSUME NEW f \in [Chan -> SUBSET Cause], NEW c \in Chan, NEW w \in Cause
    PROVE  /\ Blame(f, c, w) \in [Chan -> SUBSET Cause]
           /\ \A x \in Chan : f[x] \subseteq Blame(f, c, w)[x]
           /\ w \in Blame(f, c, w)[c]
BY DEF Blame

\* A notification queue that slides only adds a cause.
LEMMA DroppedFacts ==
    ASSUME TypeOK, NEW f \in [Chan -> SUBSET Cause]
    PROVE  /\ Dropped(f) \in [Chan -> SUBSET Cause]
           /\ \A x \in Chan : f[x] \subseteq Dropped(f)[x]
<1>1. CASE Full(notify, NotifyLimit)
  <2>1. notify \in Seq(Note) /\ notify # <<>>
    BY <1>1 DEF TypeOK, Full
  <2>2. Head(notify) \in Note
    BY <2>1
  <2>3. Head(notify).ch \in Chan /\ "notify" \in Cause
    BY <2>2 DEF Note, Cause
  <2>4. QED
    BY <1>1, <2>3, BlameFacts DEF Dropped
<1>2. CASE ~Full(notify, NotifyLimit)
  BY <1>2 DEF Dropped
<1>3. QED
  BY <1>1, <1>2

\* The invariant holds initially.
LEMMA InitInv == Init => RxInv
<1> SUFFICES ASSUME Init PROVE RxInv
  OBVIOUS
<1>1. TypeOK
  BY LimitAssumption DEF Init, TypeOK, Idle, Cause
<1>2. QueueInv /\ CountInv
  BY DEF Init, QueueInv, CountInv, Ordered, Counted
<1>3. WorkInv
  BY DEF Init, WorkInv, Idle
<1>4. QED
  BY <1>1, <1>2, <1>3 DEF RxInv

-----------------------------------------------------------------------------
(* Facts about the queues, whatever the channel. *)

\* A queue of numbers, as a function on its positions.
IsNums(q) == Len(q) \in Nat /\ \A i \in 1..Len(q) : q[i] \in Nat

\* The buffers of a queue are such numbers.
LEMMA SeqFacts ==
    ASSUME NEW M \in Nat, NEW q \in Seq(1..M)
    PROVE  IsNums(q) /\ (q # <<>> => Len(q) > 0)
<1>1. Len(q) \in Nat /\ (q # <<>> => Len(q) > 0)
  OBVIOUS
<1>2. \A i \in 1..Len(q) : q[i] \in 1..M
  OBVIOUS
<1>3. QED
  BY <1>1, <1>2 DEF IsNums

\* p is q with x pushed and the first k elements, none or one, gone.
Pushed(p, q, x, k) ==
    /\ k \in {0, 1} /\ k <= Len(q) /\ Len(p) = Len(q) + 1 - k
    /\ p[Len(p)] = x /\ \A i \in 1..Len(p) - 1 : p[i] = q[i + k]

\* SafeQueue::Push as such a shift: by one exactly when the queue is full.
LEMMA PushShape ==
    ASSUME NEW M \in Nat, NEW q \in Seq(1..M), NEW x \in 1..M, NEW lim \in Nat
    PROVE  /\ Push(q, x, lim) \in Seq(1..M)
           /\ Full(q, lim) => Pushed(Push(q, x, lim), q, x, 1)
           /\ ~Full(q, lim) => Pushed(Push(q, x, lim), q, x, 0)
<1>1. PICK p : p = Push(q, x, lim)
  OBVIOUS
<1>2. PICK S : S = 1..M
  OBVIOUS
<1>3. q \in Seq(S) /\ x \in S
  BY <1>2
<1>4. /\ Push(q, x, lim) \in Seq(S)
      /\ Full(q, lim) =>
           /\ Len(q) > 0 /\ Len(Push(q, x, lim)) = Len(q)
           /\ Push(q, x, lim)[Len(q)] = x
           /\ \A i \in 1..Len(q) - 1 : Push(q, x, lim)[i] = q[i + 1]
      /\ ~Full(q, lim) =>
           /\ Len(Push(q, x, lim)) = Len(q) + 1
           /\ Push(q, x, lim)[Len(q) + 1] = x
           /\ \A i \in 1..Len(q) : Push(q, x, lim)[i] = q[i]
  BY <1>3, PushFacts
<1>5. PICK l \in Nat : l = Len(q)
  BY SeqFacts DEF IsNums
<1>6. CASE Full(q, lim)
  BY <1>1, <1>2, <1>4, <1>5, <1>6 DEF Pushed
<1>7. CASE ~Full(q, lim)
  BY <1>1, <1>2, <1>4, <1>5, <1>7 DEF Pushed
<1>8. QED
  BY <1>6, <1>7

\* A new buffer keeps the order, slide or not.
LEMMA PushOrdered ==
    ASSUME NEW d, NEW q, NEW p, NEW n \in Nat, NEW k, IsNums(d), IsNums(q),
           Pushed(p, q, n + 1, k), Ordered(d, q, n)
    PROVE  Ordered(d, p, n + 1)
<1>1. PICK ld \in Nat, lq \in Nat : ld = Len(d) /\ lq = Len(q)
  BY DEF IsNums
<1>2. k \in {0, 1} /\ Len(p) = lq + 1 - k /\ k <= lq /\ Len(p) \in Nat
  BY <1>1 DEF Pushed
<1>3. \A i \in 1..Len(p) :
         \/ i = Len(p) /\ p[i] = n + 1
         \/ i < Len(p) /\ i + k \in 1..lq /\ p[i] = q[i + k]
  <2> SUFFICES ASSUME NEW i \in 1..Len(p)
               PROVE  \/ i = Len(p) /\ p[i] = n + 1
                      \/ i < Len(p) /\ i + k \in 1..lq /\ p[i] = q[i + k]
    OBVIOUS
  <2>1. CASE i = Len(p)
    BY <2>1 DEF Pushed
  <2>2. CASE i < Len(p)
    <3>1. i + k \in 1..lq /\ i \in 1..Len(p) - 1
      BY <1>2, <2>2
    <3>2. QED
      BY <2>2, <3>1 DEF Pushed
  <2>3. QED
    BY <1>2, <2>1, <2>2
<1>4. /\ \A i \in 1..ld : d[i] \in Nat /\ d[i] <= n
      /\ \A i \in 1..lq : q[i] \in Nat /\ q[i] <= n
      /\ \A i, j \in 1..lq : i < j => q[i] < q[j]
      /\ \A i \in 1..ld, j \in 1..lq : d[i] < q[j]
  BY <1>1 DEF Ordered, IsNums
<1>5. \A i \in 1..Len(p) : p[i] \in Nat /\ p[i] <= n + 1
  BY <1>3, <1>4
<1>6. \A i, j \in 1..Len(p) : i < j => p[i] < p[j]
  <2> SUFFICES ASSUME NEW i \in 1..Len(p), NEW j \in 1..Len(p), i < j
               PROVE  p[i] < p[j]
    OBVIOUS
  <2>1. i + k \in 1..lq /\ p[i] = q[i + k] /\ q[i + k] \in Nat /\ q[i + k] <= n
    BY <1>2, <1>3, <1>4
  <2>2. CASE p[j] = n + 1
    BY <2>1, <2>2
  <2>3. CASE j + k \in 1..lq /\ p[j] = q[j + k]
    BY <1>2, <1>4, <2>1, <2>3
  <2>4. QED
    BY <1>3, <2>2, <2>3
<1>7. \A i \in 1..ld, j \in 1..Len(p) : d[i] < p[j]
  BY <1>3, <1>4
<1>8. \A i \in 1..ld : d[i] <= n + 1
  BY <1>4
<1>9. QED
  BY <1>1, <1>5, <1>6, <1>7, <1>8 DEF Ordered

\* A new buffer keeps the account, as long as nothing is pushed out.
LEMMA PushCounted ==
    ASSUME NEW d, NEW q, NEW p, NEW n \in Nat, IsNums(d), IsNums(q),
           Pushed(p, q, n + 1, 0), Counted(d, q, n)
    PROVE  Counted(d, p, n + 1)
<1>1. PICK ld \in Nat, lq \in Nat : ld = Len(d) /\ lq = Len(q)
  BY DEF IsNums
<1>2. /\ Len(p) = lq + 1 /\ p[lq + 1] = n + 1
      /\ \A i \in 1..lq : p[i] = q[i]
  BY <1>1 DEF Pushed
<1>3. ld + lq = n
  BY <1>1 DEF Counted
<1>4. \A i \in 1..lq : q[i] = ld + i
  BY <1>1 DEF Counted
<1>5. \A i \in 1..Len(p) : p[i] = ld + i
  BY <1>2, <1>3, <1>4
<1>6. QED
  BY <1>1, <1>2, <1>3, <1>5 DEF Counted

\* The buffer at hand stays ahead of the queue when a buffer is added, and
\* in front of it when nothing is pushed out.
LEMMA PushAtHand ==
    ASSUME NEW d, NEW q, NEW p, NEW n \in Nat, NEW k, IsNums(q),
           Pushed(p, q, n + 1, k), Ordered(d, q, n),
           NEW b \in Nat, AtHand(b, d, q), Len(q) > 0
    PROVE  /\ AtHand(b, d, p)
           /\ k = 0 => p[1] = q[1]
<1>1. PICK lq \in Nat : lq = Len(q)
  BY DEF IsNums
<1>2. k \in {0, 1} /\ Len(p) = lq + 1 - k /\ k <= lq /\ lq > 0
  BY <1>1 DEF Pushed
<1>3. 1 \in 1..lq /\ q[1] \in Nat /\ q[1] <= n
  BY <1>1, <1>2 DEF Ordered, IsNums
<1>4. \/ p[1] = n + 1 /\ lq = 1 /\ k = 1
      \/ 1 + k \in 1..lq /\ p[1] = q[1 + k]
  BY <1>1, <1>2 DEF Pushed
<1>5. b <= p[1] /\ (k = 0 => p[1] = q[1])
  <2>1. b <= q[1]
    BY DEF AtHand
  <2>2. CASE p[1] = n + 1 /\ lq = 1 /\ k = 1
    BY <1>3, <2>1, <2>2
  <2>3. CASE 1 + k \in 1..lq /\ p[1] = q[1 + k]
    <3>1. k = 1 => 2 \in 1..lq /\ p[1] = q[2] /\ q[2] \in Nat /\ q[1] < q[2]
      BY <1>1, <1>3, <2>3 DEF Ordered, IsNums
    <3>2. k = 0 => p[1] = q[1]
      BY <2>3
    <3>3. QED
      BY <1>2, <1>3, <2>1, <3>1, <3>2
  <2>4. QED
    BY <1>4, <2>2, <2>3
<1>6. p # <<>>
  <2>1. Len(p) # 0
    BY <1>2
  <2>2. QED
    BY <2>1
<1>7. QED
  BY <1>5, <1>6 DEF AtHand

\* t is q without its first element, e is d with b appended.
Taken(t, e, d, q, b) ==
    /\ Len(q) > 0 /\ Len(t) = Len(q) - 1 /\ Len(e) = Len(d) + 1
    /\ \A i \in 1..Len(t) : t[i] = q[i + 1]
    /\ \A i \in 1..Len(d) : e[i] = d[i]
    /\ e[Len(d) + 1] = b

\* PopFront and the hand-over have this shape.
LEMMA TakenShape ==
    ASSUME NEW M \in Nat, NEW d \in Seq(1..M), NEW q \in Seq(1..M), q # <<>>,
           NEW b \in 1..M
    PROVE  /\ Tail(q) \in Seq(1..M) /\ Append(d, b) \in Seq(1..M)
           /\ Taken(Tail(q), Append(d, b), d, q, b)
<1>1. PICK S : S = 1..M
  OBVIOUS
<1>2. /\ Tail(q) \in Seq(S) /\ Len(q) > 0 /\ Len(Tail(q)) = Len(q) - 1
      /\ \A i \in 1..Len(q) - 1 : Tail(q)[i] = q[i + 1]
  BY <1>1, TailFacts
<1>3. /\ Append(d, b) \in Seq(S) /\ Len(Append(d, b)) = Len(d) + 1
      /\ Append(d, b)[Len(d) + 1] = b
      /\ \A i \in 1..Len(d) : Append(d, b)[i] = d[i]
  BY <1>1
<1>4. QED
  BY <1>1, <1>2, <1>3 DEF Taken

\* The buffer at hand is handed over, or not, and the front of the queue is
\* taken out.
LEMMA TakeOrdered ==
    ASSUME NEW d, NEW q, NEW t, NEW e, NEW n \in Nat, NEW b \in Nat, IsNums(d),
           IsNums(q), Taken(t, e, d, q, b), Ordered(d, q, n), AtHand(b, d, q)
    PROVE  Ordered(d, t, n) /\ Ordered(e, t, n)
<1>1. PICK ld \in Nat, lq \in Nat : ld = Len(d) /\ lq = Len(q)
  BY DEF IsNums
<1>2. lq > 0 /\ Len(t) = lq - 1 /\ Len(e) = ld + 1
  BY <1>1 DEF Taken
<1>3. /\ \A i \in 1..ld : d[i] \in Nat /\ d[i] <= n /\ d[i] < b
      /\ \A i \in 1..lq : q[i] \in Nat /\ q[i] <= n
      /\ \A i, j \in 1..ld : i < j => d[i] < d[j]
      /\ \A i, j \in 1..lq : i < j => q[i] < q[j]
      /\ \A i \in 1..ld, j \in 1..lq : d[i] < q[j]
      /\ b <= q[1]
  BY <1>1 DEF Ordered, IsNums, AtHand
<1>4. \A i \in 1..Len(t) : i + 1 \in 1..lq /\ t[i] = q[i + 1]
  BY <1>2 DEF Taken
<1>5. \A i \in 1..Len(e) : \/ i = ld + 1 /\ e[i] = b
                           \/ i \in 1..ld /\ e[i] = d[i]
  BY <1>1, <1>2 DEF Taken
<1>6. \A i \in 1..Len(t) : t[i] \in Nat /\ t[i] <= n /\ b < t[i]
  <2> SUFFICES ASSUME NEW i \in 1..Len(t) PROVE t[i] \in Nat /\ t[i] <= n /\ b < t[i]
    OBVIOUS
  <2>1. i + 1 \in 1..lq /\ 1 \in 1..lq /\ 1 < i + 1 /\ t[i] = q[i + 1]
    BY <1>2, <1>4
  <2>2. q[1] < q[i + 1]
    BY <1>3, <2>1
  <2>3. QED
    BY <1>3, <2>1, <2>2
<1>7. \A i, j \in 1..Len(t) : i < j => t[i] < t[j]
  <2> SUFFICES ASSUME NEW i \in 1..Len(t), NEW j \in 1..Len(t), i < j
               PROVE  t[i] < t[j]
    OBVIOUS
  <2>1. /\ i + 1 \in 1..lq /\ t[i] = q[i + 1] /\ j + 1 \in 1..lq /\ t[j] = q[j + 1]
        /\ i + 1 < j + 1
    BY <1>2, <1>4
  <2>2. QED
    BY <1>3, <2>1
<1>8. \A i \in 1..ld, j \in 1..Len(t) : d[i] < t[j]
  BY <1>3, <1>4
<1>9. Ordered(d, t, n)
  BY <1>1, <1>3, <1>6, <1>7, <1>8 DEF Ordered
<1>10. b <= n
  <2>1. 1 \in 1..lq
    BY <1>2
  <2>2. QED
    BY <1>3, <2>1
<1>11. \A i, j \in 1..Len(e) : i < j => e[i] < e[j]
  <2> SUFFICES ASSUME NEW i \in 1..Len(e), NEW j \in 1..Len(e), i < j
               PROVE  e[i] < e[j]
    OBVIOUS
  <2>1. i \in 1..ld /\ e[i] = d[i]
    BY <1>2, <1>5
  <2>2. QED
    BY <1>3, <1>5, <2>1
<1>12. \A i \in 1..Len(e), j \in 1..Len(t) : e[i] < t[j]
  BY <1>5, <1>6, <1>8
<1>13. \A i \in 1..Len(e) : e[i] <= n
  BY <1>3, <1>5, <1>10
<1>14. Ordered(e, t, n)
  BY <1>6, <1>7, <1>11, <1>12, <1>13 DEF Ordered
<1>15. QED
  BY <1>9, <1>14

\* Handing over the front of the queue keeps the account.
LEMMA TakeCounted ==
    ASSUME NEW d, NEW q, NEW t, NEW e, NEW n \in Nat, IsNums(d), IsNums(q),
           Taken(t, e, d, q, q[1]), Counted(d, q, n)
    PROVE  Counted(e, t, n)
<1>1. PICK ld \in Nat, lq \in Nat : ld = Len(d) /\ lq = Len(q)
  BY DEF IsNums
<1>2. lq > 0 /\ Len(t) = lq - 1 /\ Len(e) = ld + 1
  BY <1>1 DEF Taken
<1>3. /\ ld + lq = n
      /\ \A i \in 1..ld : d[i] = i
      /\ \A i \in 1..lq : q[i] = ld + i
  BY <1>1 DEF Counted
<1>4. \A i \in 1..Len(t) : i + 1 \in 1..lq /\ t[i] = q[i + 1]
  BY <1>2 DEF Taken
<1>5. \A i \in 1..Len(e) : \/ i = ld + 1 /\ e[i] = q[1]
                           \/ i \in 1..ld /\ e[i] = d[i]
  BY <1>1, <1>2 DEF Taken
<1>6. Len(e) + Len(t) = n
  BY <1>2, <1>3
<1>7. \A i \in 1..Len(e) : e[i] = i
  BY <1>2, <1>3, <1>5
<1>8. \A i \in 1..Len(t) : t[i] = Len(e) + i
  BY <1>2, <1>3, <1>4
<1>9. QED
  BY <1>6, <1>7, <1>8 DEF Counted

\* Position by position is the same as the concatenation.
LEMMA CountedConcat ==
    ASSUME NEW M \in Nat, NEW d \in Seq(1..M), NEW q \in Seq(1..M), NEW n \in Nat,
           Counted(d, q, n)
    PROVE  d \o q = [i \in 1..n |-> i]
<1>1. /\ d \o q \in Seq(1..M) /\ Len(d \o q) = Len(d) + Len(q)
      /\ \A i \in 1..Len(d) + Len(q) :
            (d \o q)[i] = IF i <= Len(d) THEN d[i] ELSE q[i - Len(d)]
  BY ConcatProperties
<1>2. Len(d) \in Nat /\ Len(q) \in Nat /\ Len(d \o q) = n
  BY <1>1, SeqFacts DEF Counted, IsNums
<1>3. \A i \in 1..n : (d \o q)[i] = i
  <2> SUFFICES ASSUME NEW i \in 1..n PROVE (d \o q)[i] = i
    OBVIOUS
  <2>1. CASE i <= Len(d)
    BY <1>1, <1>2, <2>1 DEF Counted
  <2>2. CASE ~(i <= Len(d))
    <3>1. i - Len(d) \in 1..Len(q) /\ (d \o q)[i] = q[i - Len(d)]
      BY <1>1, <1>2, <2>2 DEF Counted
    <3>2. q[i - Len(d)] = Len(d) + (i - Len(d))
      BY <3>1 DEF Counted
    <3>3. QED
      BY <1>2, <3>1, <3>2
  <2>3. QED
    BY <2>1, <2>2
<1>4. PICK c : c = d \o q
  OBVIOUS
<1>5. c \in [1..n -> 1..M]
  <2>1. c \in Seq(1..M) /\ Len(c) = n
    BY <1>1, <1>2, <1>4
  <2>2. QED
    BY <2>1
<1>6. \A i \in 1..n : c[i] = i
  BY <1>3, <1>4
<1>7. c = [i \in 1..n |-> i]
  BY <1>5, <1>6
<1>8. QED
  BY <1>4, <1>7

-----------------------------------------------------------------------------
(* The steps. *)

\* What OnRecvBytes does to the queue, the count and the causes of ch.
LEMMA RecvEffect ==
    ASSUME TypeOK, NEW ch \in Chan, NEW late \in BOOLEAN, OnRecvBytes(ch, late), ~late
    PROVE  LET q == Push(rxq[ch], nrecv[ch] + 1, QueueLimit) IN
           /\ rxq' = [rxq EXCEPT ![ch] = q]
           /\ nrecv' = [nrecv EXCEPT ![ch] = nrecv[ch] + 1]
           /\ nrecv[ch] + 1 \in 1..MaxBuf
           /\ cause' \in [Chan -> SUBSET Cause]
           /\ \A x \in Chan : cause[x] \subseteq cause'[x]
           /\ Full(rxq[ch], QueueLimit) => cause'[ch] # {}
           /\ notify' \in Seq(Note)
           /\ cb' = cb /\ delivered' = delivered
<1> DEFINE q == Push(rxq[ch], nrecv[ch] + 1, QueueLimit)
           slid == IF Full(rxq[ch], QueueLimit) THEN Blame(cause, ch, "slide") ELSE cause
<1>1. /\ rxq' = [rxq EXCEPT ![ch] = q] /\ nrecv' = [nrecv EXCEPT ![ch] = nrecv[ch] + 1]
      /\ cb' = cb /\ delivered' = delivered
  BY DEF OnRecvBytes
<1>2. nrecv[ch] + 1 \in 1..MaxBuf
  BY LimitAssumption, SMTT(30) DEF OnRecvBytes, TypeOK
<1>3. cause \in [Chan -> SUBSET Cause] /\ "slide" \in Cause
  BY DEF TypeOK, Cause
<1>4. /\ slid \in [Chan -> SUBSET Cause] /\ \A x \in Chan : cause[x] \subseteq slid[x]
      /\ Full(rxq[ch], QueueLimit) => slid[ch] # {}
  BY <1>3, BlameFacts
<1>5. CASE Notifies(ch, q)
  <2>1. notify' = Push(notify, Recv(ch), NotifyLimit) /\ cause' = Dropped(slid)
    BY <1>5 DEF OnRecvBytes
  <2>2. Recv(ch) \in Note /\ notify \in Seq(Note) /\ NotifyLimit \in Nat
    BY LimitAssumption DEF Recv, Note, TypeOK
  <2>3. notify' \in Seq(Note)
    BY <2>1, <2>2, PushFacts
  <2>4. cause' \in [Chan -> SUBSET Cause] /\ \A x \in Chan : slid[x] \subseteq cause'[x]
    BY <1>4, <2>1, DroppedFacts
  <2>5. Full(rxq[ch], QueueLimit) => cause'[ch] # {}
    BY <1>4, <2>4
  <2>6. \A x \in Chan : cause[x] \subseteq cause'[x]
    BY <1>4, <2>4
  <2>7. QED
    BY <1>1, <1>2, <2>3, <2>4, <2>5, <2>6
<1>6. CASE ~Notifies(ch, q)
  <2>1. notify' = notify /\ cause' = slid
    BY <1>6 DEF OnRecvBytes
  <2>2. QED
    BY <1>1, <1>2, <1>4, <2>1 DEF TypeOK
<1>7. QED
  BY <1>5, <1>6

\* A new buffer keeps the order, the account and the buffer at hand.
LEMMA RecvStep ==
    ASSUME RxInv, NEW ch \in Chan, NEW late \in BOOLEAN, OnRecvBytes(ch, late), ~late
    PROVE  /\ QueueInv' /\ WorkInv' /\ CountInv'
           /\ rxq' \in [Chan -> Seq(1..MaxBuf)] /\ nrecv' \in [Chan -> 0..MaxBuf]
<1>1. PICK n \in Nat : n = nrecv[ch]
  BY DEF RxInv, TypeOK
<1>2. PICK q : q = rxq[ch]
  OBVIOUS
<1>3. PICK p : p = Push(q, n + 1, QueueLimit)
  OBVIOUS
<1>4. /\ rxq' = [rxq EXCEPT ![ch] = p] /\ nrecv' = [nrecv EXCEPT ![ch] = n + 1]
      /\ n + 1 \in 1..MaxBuf /\ \A x \in Chan : cause[x] \subseteq cause'[x]
      /\ Full(q, QueueLimit) => cause'[ch] # {}
      /\ cb' = cb /\ delivered' = delivered
  BY RecvEffect, <1>1, <1>2, <1>3 DEF RxInv
<1>5. /\ rxq \in [Chan -> Seq(1..MaxBuf)] /\ nrecv \in [Chan -> 0..MaxBuf]
      /\ q \in Seq(1..MaxBuf) /\ delivered[ch] \in Seq(1..MaxBuf)
      /\ QueueLimit \in Nat /\ MaxBuf \in Nat
  BY <1>2, LimitAssumption DEF RxInv, TypeOK
<1>6. \A x \in Chan : x # ch => rxq'[x] = rxq[x] /\ nrecv'[x] = nrecv[x]
  BY <1>4, <1>5
<1>7. rxq'[ch] = p /\ nrecv'[ch] = n + 1
  BY <1>4, <1>5
<1>8. /\ p \in Seq(1..MaxBuf)
      /\ Full(q, QueueLimit) => Pushed(p, q, n + 1, 1)
      /\ ~Full(q, QueueLimit) => Pushed(p, q, n + 1, 0)
  BY <1>3, <1>4, <1>5, PushShape
<1>9. IsNums(q) /\ IsNums(delivered[ch]) /\ (q # <<>> => Len(q) > 0)
  BY <1>5, SeqFacts
<1>10. Ordered(delivered[ch], q, n)
  BY <1>1, <1>2 DEF RxInv, QueueInv
<1>11. QueueInv'
  <2>1. Ordered(delivered[ch], p, n + 1)
    BY <1>8, <1>9, <1>10, PushOrdered
  <2>2. ASSUME NEW x \in Chan PROVE Ordered(delivered[x], rxq'[x], nrecv'[x])
    <3>1. CASE x = ch
      BY <1>7, <2>1, <3>1
    <3>2. CASE x # ch
      BY <1>6, <3>2 DEF RxInv, QueueInv
    <3>3. QED
      BY <3>1, <3>2
  <2>3. QED
    BY <1>4, <2>2 DEF QueueInv
<1>12. CountInv'
  <2>1. ASSUME NEW x \in Chan, cause'[x] = {}
        PROVE  Counted(delivered[x], rxq'[x], nrecv'[x])
    <3>1. cause[x] = {}
      BY <1>4, <2>1
    <3>2. Counted(delivered[x], rxq[x], nrecv[x])
      BY <3>1 DEF RxInv, CountInv
    <3>3. CASE x = ch
      <4>1. ~Full(q, QueueLimit)
        BY <1>4, <2>1, <3>3
      <4>2. Counted(delivered[ch], q, n)
        BY <1>1, <1>2, <3>2, <3>3
      <4>3. Counted(delivered[ch], p, n + 1)
        BY <1>8, <1>9, <4>1, <4>2, PushCounted
      <4>4. QED
        BY <1>7, <3>3, <4>3
    <3>4. CASE x # ch
      BY <1>6, <3>2, <3>4
    <3>5. QED
      BY <3>3, <3>4
  <2>2. QED
    BY <1>4, <2>1 DEF CountInv
<1>13. WorkInv'
  <2>1. ASSUME cb.pc = "work"
        PROVE  /\ AtHand(cb.b, delivered[cb.ch], rxq'[cb.ch])
               /\ cause'[cb.ch] = {} => cb.b = rxq'[cb.ch][1]
    <3>1. /\ cb.ch \in Chan /\ AtHand(cb.b, delivered[cb.ch], rxq[cb.ch])
          /\ cause[cb.ch] = {} => cb.b = rxq[cb.ch][1]
      BY <2>1 DEF RxInv, WorkInv
    <3>2. PICK b \in Nat : b = cb.b
      BY DEF RxInv, TypeOK
    <3>3. CASE cb.ch = ch
      <4>1. AtHand(b, delivered[ch], q) /\ q # <<>>
        BY <1>2, <3>1, <3>2, <3>3 DEF AtHand
      <4>2. CASE Full(q, QueueLimit)
        <5>1. AtHand(b, delivered[ch], p)
          BY <1>8, <1>9, <1>10, <4>1, <4>2, PushAtHand
        <5>2. QED
          BY <1>4, <1>7, <3>2, <3>3, <4>2, <5>1
      <4>3. CASE ~Full(q, QueueLimit)
        <5>1. AtHand(b, delivered[ch], p) /\ p[1] = q[1]
          BY <1>8, <1>9, <1>10, <4>1, <4>3, PushAtHand
        <5>2. cause'[ch] = {} => b = q[1]
          BY <1>2, <1>4, <3>1, <3>2, <3>3
        <5>3. QED
          BY <1>7, <3>2, <3>3, <5>1, <5>2
      <4>4. QED
        BY <4>2, <4>3
    <3>4. CASE cb.ch # ch
      BY <1>4, <1>6, <3>1, <3>4
    <3>5. QED
      BY <3>3, <3>4
  <2>2. QED
    BY <1>4, <2>1 DEF WorkInv, RxInv
<1>14. rxq' \in [Chan -> Seq(1..MaxBuf)] /\ nrecv' \in [Chan -> 0..MaxBuf]
  BY <1>4, <1>5, <1>8
<1>15. QED
  BY <1>11, <1>12, <1>13, <1>14

\* A step that leaves the queues, the deliveries and the notifier's place
\* alone may add causes.
LEMMA FrameStep ==
    ASSUME RxInv, UNCHANGED <<rxq, delivered, nrecv, cb>>,
           \A x \in Chan : cause[x] \subseteq cause'[x]
    PROVE  QueueInv' /\ WorkInv' /\ CountInv'
<1>1. QueueInv'
  BY DEF RxInv, QueueInv
<1>2. ASSUME NEW x \in Chan, cause'[x] = {} PROVE cause[x] = {}
  BY <1>2
<1>3. CountInv'
  BY <1>2 DEF RxInv, CountInv
<1>4. WorkInv'
  BY <1>2 DEF RxInv, WorkInv
<1>5. QED
  BY <1>1, <1>3, <1>4

\* The notifier goes to its loop head or becomes idle; the queues stay.
LEMMA PlaceStep ==
    ASSUME RxInv, UNCHANGED <<rxq, delivered, nrecv>>,
           \A x \in Chan : cause[x] \subseteq cause'[x],
           cb'.pc \in {"idle", "front"}, cb'.pc = "front" => cb'.ch \in Chan
    PROVE  QueueInv' /\ WorkInv' /\ CountInv'
<1>1. QueueInv'
  BY DEF RxInv, QueueInv
<1>2. ASSUME NEW x \in Chan, cause'[x] = {} PROVE cause[x] = {}
  BY <1>2
<1>3. CountInv'
  BY <1>2 DEF RxInv, CountInv
<1>4. WorkInv'
  BY DEF WorkInv
<1>5. QED
  BY <1>1, <1>3, <1>4

\* PopFront with the buffer b at hand, handed over or not.
LEMMA TakeStep ==
    ASSUME RxInv, cb.pc # "idle", NEW b \in 1..MaxBuf,
           AtHand(b, delivered[cb.ch], rxq[cb.ch]),
           cause[cb.ch] = {} => b = rxq[cb.ch][1],
           NEW h \in BOOLEAN, NEW i \in 0..LoopMax, Take(cb.ch, b, i, h),
           ~h => cause'[cb.ch] # {}, nrecv' = nrecv,
           \A x \in Chan : cause[x] \subseteq cause'[x]
    PROVE  /\ QueueInv' /\ WorkInv' /\ CountInv'
           /\ rxq' \in [Chan -> Seq(1..MaxBuf)] /\ delivered' \in [Chan -> Seq(1..MaxBuf)]
           /\ cb' \in [pc : {"idle", "front", "work"}, ch : Chan \cup {None},
                       i : 0..LoopMax, b : 0..MaxBuf]
<1>1. PICK ch \in Chan : ch = cb.ch
  BY DEF RxInv, WorkInv
<1> DEFINE q == rxq[ch]
           d == delivered[ch]
           n == nrecv[ch]
           t == Tail(q)
           e == Append(d, b)
<1>2. q = rxq[ch] /\ d = delivered[ch] /\ n = nrecv[ch] /\ n \in Nat
  BY DEF RxInv, TypeOK
<1>3. t = Tail(q) /\ e = Append(d, b)
  OBVIOUS
<1> HIDE DEF q, d, n, t, e
<1>4. /\ rxq \in [Chan -> Seq(1..MaxBuf)] /\ delivered \in [Chan -> Seq(1..MaxBuf)]
      /\ q \in Seq(1..MaxBuf) /\ d \in Seq(1..MaxBuf) /\ MaxBuf \in Nat
  BY <1>2, LimitAssumption DEF RxInv, TypeOK
<1>5. /\ rxq' = [rxq EXCEPT ![ch] = t]
      /\ delivered' = IF h THEN [delivered EXCEPT ![ch] = e] ELSE delivered
      /\ cb' = [cb EXCEPT !.pc = "front", !.i = i]
  BY <1>1, <1>2, <1>3 DEF Take
<1>6. AtHand(b, d, q) /\ q # <<>> /\ (cause[ch] = {} => b = q[1])
  BY <1>1, <1>2 DEF AtHand
<1>7. t \in Seq(1..MaxBuf) /\ e \in Seq(1..MaxBuf) /\ Taken(t, e, d, q, b)
  BY <1>3, <1>4, <1>6, TakenShape
<1>8. IsNums(q) /\ IsNums(d) /\ b \in Nat /\ n \in Nat
  BY <1>2, <1>4, SeqFacts
<1>9. Ordered(d, q, n)
  BY <1>2 DEF RxInv, QueueInv
<1>10. Ordered(d, t, n) /\ Ordered(e, t, n)
  BY <1>6, <1>7, <1>8, <1>9, TakeOrdered
<1>11. /\ rxq'[ch] = t /\ delivered'[ch] = IF h THEN e ELSE d
       /\ \A x \in Chan : x # ch => rxq'[x] = rxq[x] /\ delivered'[x] = delivered[x]
  BY <1>2, <1>4, <1>5
<1>12. QueueInv'
  <2>1. ASSUME NEW x \in Chan PROVE Ordered(delivered'[x], rxq'[x], nrecv[x])
    <3>1. CASE x = ch
      BY <1>2, <1>10, <1>11, <3>1
    <3>2. CASE x # ch
      BY <1>11, <3>2 DEF RxInv, QueueInv
    <3>3. QED
      BY <3>1, <3>2
  <2>2. QED
    BY <2>1 DEF QueueInv
<1>13. CountInv'
  <2>1. ASSUME NEW x \in Chan, cause'[x] = {}
        PROVE  Counted(delivered'[x], rxq'[x], nrecv[x])
    <3>1. cause[x] = {}
      BY <2>1
    <3>2. Counted(delivered[x], rxq[x], nrecv[x])
      BY <3>1 DEF RxInv, CountInv
    <3>3. CASE x = ch
      <4>1. h /\ b = q[1]
        BY <1>1, <1>6, <2>1, <3>1, <3>3
      <4>2. Counted(d, q, n) /\ Taken(t, e, d, q, q[1])
        BY <1>2, <1>7, <3>2, <3>3, <4>1
      <4>3. Counted(e, t, n)
        BY <1>8, <4>2, TakeCounted
      <4>4. QED
        BY <1>2, <1>11, <3>3, <4>1, <4>3
    <3>4. CASE x # ch
      BY <1>11, <3>2, <3>4
    <3>5. QED
      BY <3>3, <3>4
  <2>2. QED
    BY <2>1 DEF CountInv
<1>14. cb'.pc = "front" /\ cb'.ch = ch
  BY <1>1, <1>5 DEF RxInv, TypeOK
<1>15. WorkInv'
  BY <1>14 DEF WorkInv
<1>16. rxq' \in [Chan -> Seq(1..MaxBuf)] /\ delivered' \in [Chan -> Seq(1..MaxBuf)]
  BY <1>4, <1>5, <1>7
<1>17. cb' \in [pc : {"idle", "front", "work"}, ch : Chan \cup {None},
                i : 0..LoopMax, b : 0..MaxBuf]
  BY <1>5 DEF RxInv, TypeOK
<1>18. QED
  BY <1>12, <1>13, <1>15, <1>16, <1>17

\* Every step keeps the invariant.
LEMMA NextInv == RxInv /\ [Next]_vars => RxInv'
<1> SUFFICES ASSUME RxInv, [Next]_vars PROVE RxInv'
  OBVIOUS
<1> DEFINE Same == \A x \in Chan : cause[x] \subseteq cause'[x]
<1>0. TypeOK /\ WorkInv
  BY DEF RxInv
<1>1. ASSUME NEW ch \in Chan, NEW late \in BOOLEAN, OnRecvBytes(ch, late) PROVE RxInv'
  <2>1. CASE late
    <3>1. TypeOK'
      BY <1>0, <1>1, <2>1 DEF OnRecvBytes, TypeOK, subVars
    <3>2. UNCHANGED <<rxq, delivered, nrecv, cb, cause>>
      BY <1>1, <2>1 DEF OnRecvBytes
    <3>3. QED
      BY <3>1, <3>2, FrameStep DEF RxInv
  <2>2. CASE ~late
    <3>1. /\ QueueInv' /\ WorkInv' /\ CountInv'
          /\ rxq' \in [Chan -> Seq(1..MaxBuf)] /\ nrecv' \in [Chan -> 0..MaxBuf]
      BY <1>1, <2>2, RecvStep
    <3>2. cause' \in [Chan -> SUBSET Cause] /\ notify' \in Seq(Note)
      BY <1>0, <1>1, <2>2, RecvEffect
    <3>3. TypeOK'
      BY <1>0, <1>1, <3>1, <3>2 DEF OnRecvBytes, TypeOK, subVars
    <3>4. QED
      BY <3>1, <3>3 DEF RxInv
  <2>3. QED
    BY <2>1, <2>2
<1>2. ASSUME NEW ch \in Chan, StreamEnded(ch) PROVE RxInv'
  <2>1. /\ cause' \in [Chan -> SUBSET Cause] /\ notify' \in Seq(Note)
        /\ closed' \in [Chan -> BOOLEAN] /\ Same
    <3>1. CASE present[ch]
      <4>1. notify' = Push(notify, ClosedNote(ch), NotifyLimit) /\ cause' = Dropped(cause)
        BY <1>2, <3>1 DEF StreamEnded
      <4>2. ClosedNote(ch) \in Note /\ notify \in Seq(Note) /\ NotifyLimit \in Nat
        BY <1>0, LimitAssumption DEF ClosedNote, Note, TypeOK
      <4>3. notify' \in Seq(Note)
        BY <4>1, <4>2, PushFacts
      <4>4. cause \in [Chan -> SUBSET Cause] /\ closed' \in [Chan -> BOOLEAN]
        BY <1>0, <1>2, <3>1 DEF TypeOK, StreamEnded
      <4>5. QED
        BY <1>0, <4>1, <4>3, <4>4, DroppedFacts
    <3>2. CASE ~present[ch]
      BY <1>0, <1>2, <3>2 DEF StreamEnded, TypeOK
    <3>3. QED
      BY <3>1, <3>2
  <2>2. TypeOK'
    BY <1>0, <1>2, <2>1 DEF StreamEnded, TypeOK, subVars
  <2>3. UNCHANGED <<rxq, delivered, nrecv, cb>>
    BY <1>2 DEF StreamEnded
  <2>4. QED
    BY <2>1, <2>2, <2>3, FrameStep DEF RxInv
<1>3. CASE RemoveClosedStreams
  <2>1. TypeOK'
    BY <1>0, <1>3 DEF RemoveClosedStreams, TypeOK, subVars
  <2>2. UNCHANGED <<rxq, delivered, nrecv, cb, cause>>
    BY <1>3 DEF RemoveClosedStreams
  <2>3. QED
    BY <2>1, <2>2, FrameStep DEF RxInv
<1>4. CASE Close
  <2>1. TypeOK'
    BY <1>0, <1>4 DEF Close, TypeOK, subVars
  <2>2. UNCHANGED <<rxq, delivered, nrecv, cb, cause>>
    BY <1>4 DEF Close
  <2>3. QED
    BY <2>1, <2>2, FrameStep DEF RxInv
<1>5. ASSUME NEW ch \in Chan, Register(ch) \/ Unregister(ch) PROVE RxInv'
  <2>1. TypeOK'
    BY <1>0, <1>5 DEF Register, Unregister, TypeOK, bufVars
  <2>2. UNCHANGED <<rxq, delivered, nrecv, cb, cause>>
    BY <1>5 DEF Register, Unregister
  <2>3. QED
    BY <2>1, <2>2, FrameStep DEF RxInv
<1>6. CASE TakeRecv
  <2>1. PICK ch : ch = Head(notify).ch
    OBVIOUS
  <2>2. notify' \in Seq(Note) /\ ch \in Chan
    <3>1. notify \in Seq(Note) /\ notify # <<>> /\ notify' = Tail(notify)
      BY <1>0, <1>6 DEF TakeRecv, TypeOK
    <3>2. Head(notify) \in Note /\ Tail(notify) \in Seq(Note)
      BY <3>1
    <3>3. QED
      BY <2>1, <3>1, <3>2 DEF Note
  <2>3. UNCHANGED <<rxq, delivered, nrecv>>
    BY <1>6 DEF TakeRecv
  <2>4. CASE conn = "open" /\ present[ch]
    <3>1. cb' = [pc |-> "front", ch |-> ch, i |-> 0, b |-> 0] /\ UNCHANGED <<conn, cause>>
      BY <1>6, <2>1, <2>4 DEF TakeRecv
    <3>2. cb' \in [pc : {"idle", "front", "work"}, ch : Chan \cup {None},
                   i : 0..LoopMax, b : 0..MaxBuf]
      BY <2>2, <3>1, LimitAssumption
    <3>3. TypeOK'
      BY <1>0, <1>6, <2>2, <3>1, <3>2 DEF TakeRecv, TypeOK, bufVars, subVars
    <3>4. cb'.pc = "front" /\ cb'.ch \in Chan
      BY <2>2, <3>1
    <3>5. QED
      BY <2>3, <3>1, <3>3, <3>4, PlaceStep DEF RxInv
  <2>5. CASE ~(conn = "open" /\ present[ch])
    <3>1. /\ conn' \in {"open", "closed", "crashed"}
          /\ cause' = Blame(cause, ch, "removed") /\ cb' = cb
      BY <1>0, <1>6, <2>1, <2>5 DEF TakeRecv, TypeOK
    <3>2. cause' \in [Chan -> SUBSET Cause] /\ Same
      <4>1. cause \in [Chan -> SUBSET Cause] /\ "removed" \in Cause
        BY <1>0 DEF TypeOK, Cause
      <4>2. QED
        BY <2>2, <3>1, <4>1, BlameFacts
    <3>3. TypeOK'
      BY <1>0, <1>6, <2>2, <3>1, <3>2 DEF TakeRecv, TypeOK, bufVars, subVars
    <3>4. QED
      BY <2>3, <3>1, <3>2, <3>3, FrameStep DEF RxInv
  <2>6. QED
    BY <2>4, <2>5
<1>7. CASE TakeClosed
  <2>1. notify' \in Seq(Note)
    <3>1. notify \in Seq(Note) /\ notify # <<>> /\ notify' = Tail(notify)
      BY <1>0, <1>7 DEF TakeClosed, TypeOK
    <3>2. QED
      BY <3>1
  <2>2. conn' \in {"open", "closed", "crashed"} /\ done' \in [Chan -> BOOLEAN]
    BY <1>0, <1>7 DEF TakeClosed, TypeOK
  <2>3. TypeOK'
    BY <1>0, <1>7, <2>1, <2>2 DEF TakeClosed, TypeOK, bufVars, subVars
  <2>4. UNCHANGED <<rxq, delivered, nrecv, cb, cause>>
    BY <1>7 DEF TakeClosed
  <2>5. QED
    BY <2>3, <2>4, FrameStep DEF RxInv
<1>8. CASE EndLoop \/ WorkUnbound
  <2>1. cb' = Idle /\ UNCHANGED <<rxq, delivered, nrecv, cause>>
    BY <1>8 DEF EndLoop, WorkUnbound
  <2>2. cb' \in [pc : {"idle", "front", "work"}, ch : Chan \cup {None},
                 i : 0..LoopMax, b : 0..MaxBuf] /\ cb'.pc = "idle"
    BY <2>1, LimitAssumption DEF Idle
  <2>3. TypeOK'
    BY <1>0, <1>8, <2>2 DEF EndLoop, WorkUnbound, TypeOK, bufVars, subVars
  <2>4. QED
    BY <2>1, <2>2, <2>3, PlaceStep DEF RxInv
<1>9. CASE ReadFront
  <2>1. PICK ch \in Strm : ch = cb.ch
    BY <1>9 DEF ReadFront
  <2>2. /\ rxq[ch] # <<>> /\ cb.i < LoopMax /\ ch \in Chan
        /\ cb' = [cb EXCEPT !.pc = "work", !.b = Head(rxq[ch])]
    BY <1>0, <1>9, <2>1, LimitAssumption DEF ReadFront, LoopOver, Chan, TypeOK
  <2>3. /\ rxq[ch] \in Seq(1..MaxBuf) /\ Head(rxq[ch]) = rxq[ch][1]
        /\ rxq[ch][1] \in 1..MaxBuf /\ Len(rxq[ch]) > 0 /\ Len(rxq[ch]) \in Nat
    <3>1. rxq[ch] \in Seq(1..MaxBuf)
      BY <1>0, <2>2 DEF TypeOK
    <3>2. QED
      BY <2>2, <3>1, TailFacts
  <2>4. /\ cb' \in [pc : {"idle", "front", "work"}, ch : Chan \cup {None},
                    i : 0..LoopMax, b : 0..MaxBuf]
        /\ cb'.pc = "work" /\ cb'.ch = ch /\ cb'.i = cb.i /\ cb'.b = rxq[ch][1]
    <3>1. cb \in [pc : {"idle", "front", "work"}, ch : Chan \cup {None},
                 i : 0..LoopMax, b : 0..MaxBuf]
      BY <1>0 DEF TypeOK
    <3>2. PICK b \in 0..MaxBuf : b = rxq[ch][1]
      BY <2>3, LimitAssumption
    <3>3. cb' = [cb EXCEPT !.pc = "work", !.b = b]
      BY <2>2, <2>3, <3>2
    <3>4. QED
      BY <2>1, <3>1, <3>2, <3>3
  <2>5. TypeOK'
    BY <1>0, <1>9, <2>4 DEF ReadFront, TypeOK, bufVars, subVars
  <2>6. AtHand(rxq[ch][1], delivered[ch], rxq[ch])
    <3>1. Ordered(delivered[ch], rxq[ch], nrecv[ch])
      BY <2>2 DEF RxInv, QueueInv
    <3>2. 1 \in 1..Len(rxq[ch])
      BY <2>3
    <3>3. \A i \in 1..Len(delivered[ch]) : delivered[ch][i] < rxq[ch][1]
      BY <3>1, <3>2 DEF Ordered
    <3>4. QED
      BY <2>2, <2>3, <3>3 DEF AtHand
  <2>7. UNCHANGED <<rxq, delivered, nrecv, cause>>
    BY <1>9 DEF ReadFront
  <2>8. WorkInv'
    BY <2>2, <2>4, <2>6, <2>7 DEF WorkInv
  <2>9. QueueInv' /\ CountInv'
    BY <2>7 DEF RxInv, QueueInv, CountInv
  <2>10. QED
    BY <2>5, <2>8, <2>9 DEF RxInv
<1>10. CASE ReadDgram
  <2>1. PICK ch \in Chan : ch = cb.ch
    BY <1>10 DEF ReadDgram, Chan
  <2>2. /\ rxq[ch] # <<>> /\ cb.i < LoopMax /\ cb.pc = "front" /\ known[ch] \in BOOLEAN
        /\ cb.i + 1 \in 0..LoopMax
    BY <1>0, <1>10, <2>1, LimitAssumption, SMTT(30) DEF ReadDgram, LoopOver, TypeOK
  <2>3. /\ Head(rxq[ch]) = rxq[ch][1] /\ rxq[ch][1] \in 1..MaxBuf
        /\ Len(rxq[ch]) > 0 /\ Len(rxq[ch]) \in Nat
    <3>1. rxq[ch] \in Seq(1..MaxBuf)
      BY <1>0, <2>1 DEF TypeOK
    <3>2. QED
      BY <2>2, <3>1, TailFacts
  <2>4. AtHand(rxq[ch][1], delivered[ch], rxq[ch])
    <3>1. Ordered(delivered[ch], rxq[ch], nrecv[ch])
      BY DEF RxInv, QueueInv
    <3>2. 1 \in 1..Len(rxq[ch])
      BY <2>3
    <3>3. \A i \in 1..Len(delivered[ch]) : delivered[ch][i] < rxq[ch][1]
      BY <3>1, <3>2 DEF Ordered
    <3>4. QED
      BY <2>2, <2>3, <3>3 DEF AtHand
  <2>5. /\ cause' \in [Chan -> SUBSET Cause] /\ Same
        /\ ~known[ch] => cause'[ch] # {}
    <3>1. cause \in [Chan -> SUBSET Cause] /\ "unknown" \in Cause
      BY <1>0 DEF TypeOK, Cause
    <3>2. cause' = IF known[ch] THEN cause ELSE Blame(cause, ch, "unknown")
      BY <1>10, <2>1 DEF ReadDgram
    <3>3. CASE known[ch]
      BY <3>1, <3>2, <3>3
    <3>4. CASE ~known[ch]
      <4>1. cause' = Blame(cause, ch, "unknown")
        BY <3>2, <3>4
      <4>2. QED
        BY <3>1, <4>1, BlameFacts
    <3>5. QED
      BY <3>3, <3>4
  <2>6. Take(cb.ch, rxq[ch][1], cb.i + 1, known[ch]) /\ nrecv' = nrecv
    BY <1>10, <2>1, <2>3 DEF ReadDgram
  <2>7. /\ QueueInv' /\ WorkInv' /\ CountInv'
        /\ rxq' \in [Chan -> Seq(1..MaxBuf)] /\ delivered' \in [Chan -> Seq(1..MaxBuf)]
        /\ cb' \in [pc : {"idle", "front", "work"}, ch : Chan \cup {None},
                    i : 0..LoopMax, b : 0..MaxBuf]
    BY <2>1, <2>2, <2>3, <2>4, <2>5, <2>6, TakeStep
  <2>8. TypeOK'
    BY <1>0, <1>10, <2>5, <2>7 DEF ReadDgram, TypeOK, bufVars, subVars
  <2>9. QED
    BY <2>7, <2>8 DEF RxInv
<1>11. ASSUME NEW partial \in BOOLEAN, WorkCtrl(partial) PROVE RxInv'
  <2>1. PICK i \in 0..LoopMax : Take(cb.ch, cb.b, i, TRUE)
    <3>1. cb.i + 1 \in 0..LoopMax /\ LoopMax - 3 \in 0..LoopMax
      BY <1>0, <1>11, LimitAssumption DEF WorkCtrl, WorkInv, TypeOK
    <3>2. QED
      BY <1>11, <3>1 DEF WorkCtrl
  <2>2. /\ cb.b \in 1..MaxBuf /\ AtHand(cb.b, delivered[cb.ch], rxq[cb.ch])
        /\ cause[cb.ch] = {} => cb.b = rxq[cb.ch][1]
        /\ cb.pc = "work"
    BY <1>0, <1>11, LimitAssumption DEF WorkCtrl, WorkInv, AtHand, TypeOK
  <2>3. nrecv' = nrecv /\ cause' = cause
    BY <1>11 DEF WorkCtrl
  <2>4. /\ QueueInv' /\ WorkInv' /\ CountInv'
        /\ rxq' \in [Chan -> Seq(1..MaxBuf)] /\ delivered' \in [Chan -> Seq(1..MaxBuf)]
        /\ cb' \in [pc : {"idle", "front", "work"}, ch : Chan \cup {None},
                    i : 0..LoopMax, b : 0..MaxBuf]
    BY <2>1, <2>2, <2>3, TakeStep
  <2>5. TypeOK'
    BY <1>0, <1>11, <2>4 DEF WorkCtrl, TypeOK, bufVars, subVars
  <2>6. QED
    BY <2>4, <2>5 DEF RxInv
<1>12. CASE WorkNewKnown
  <2>1. /\ cb.b \in 1..MaxBuf /\ AtHand(cb.b, delivered[cb.ch], rxq[cb.ch])
        /\ cause[cb.ch] = {} => cb.b = rxq[cb.ch][1]
        /\ cb.pc = "work" /\ cb.i + 1 \in 0..LoopMax
    BY <1>0, <1>12, LimitAssumption DEF WorkNewKnown, WorkInv, AtHand, TypeOK
  <2>2. nrecv' = nrecv /\ cause' = cause /\ Take(cb.ch, cb.b, cb.i + 1, TRUE)
    BY <1>12 DEF WorkNewKnown
  <2>3. /\ QueueInv' /\ WorkInv' /\ CountInv'
        /\ rxq' \in [Chan -> Seq(1..MaxBuf)] /\ delivered' \in [Chan -> Seq(1..MaxBuf)]
        /\ cb' \in [pc : {"idle", "front", "work"}, ch : Chan \cup {None},
                    i : 0..LoopMax, b : 0..MaxBuf]
    BY <2>1, <2>2, TakeStep
  <2>4. TypeOK'
    BY <1>0, <1>12, <2>3 DEF WorkNewKnown, TypeOK, bufVars, subVars
  <2>5. QED
    BY <2>3, <2>4 DEF RxInv
<1>13. CASE WorkNewUnknown
  <2>1. cb' = Idle /\ UNCHANGED <<rxq, delivered, nrecv>>
    BY <1>13 DEF WorkNewUnknown
  <2>2. cb' \in [pc : {"idle", "front", "work"}, ch : Chan \cup {None},
                 i : 0..LoopMax, b : 0..MaxBuf] /\ cb'.pc = "idle"
    BY <2>1, LimitAssumption DEF Idle
  <2>3. cause' \in [Chan -> SUBSET Cause] /\ Same
    <3>1. cause \in [Chan -> SUBSET Cause] /\ "unknown" \in Cause /\ cb.ch \in Chan
      BY <1>0, <1>13 DEF TypeOK, Cause, WorkNewUnknown, WorkInv
    <3>2. cause' = Blame(cause, cb.ch, "unknown")
      BY <1>13 DEF WorkNewUnknown
    <3>3. QED
      BY <3>1, <3>2, BlameFacts
  <2>4. TypeOK'
    <3>1. isNew' \in [Chan -> BOOLEAN] /\ expiry' \in [Chan -> BOOLEAN]
      <4>1. isNew \in [Chan -> BOOLEAN] /\ expiry \in [Chan -> BOOLEAN]
        BY <1>0 DEF TypeOK
      <4>2. PICK v \in BOOLEAN : v <=> cb.ch \in Sub
        OBVIOUS
      <4>3. isNew' = [isNew EXCEPT ![cb.ch] = v] /\ expiry' = [expiry EXCEPT ![cb.ch] = FALSE]
        BY <1>13, <4>2 DEF WorkNewUnknown
      <4>4. QED
        BY <4>1, <4>3
    <3>2. QED
      BY <1>0, <1>13, <2>2, <2>3, <3>1 DEF WorkNewUnknown, TypeOK, subVars
  <2>5. QED
    BY <2>1, <2>2, <2>3, <2>4, PlaceStep DEF RxInv
<1>131. CASE WorkNewThrows
  <2>1. cb' = Idle /\ UNCHANGED <<rxq, delivered, nrecv>>
    BY <1>131 DEF WorkNewThrows
  <2>2. cb' \in [pc : {"idle", "front", "work"}, ch : Chan \cup {None},
                 i : 0..LoopMax, b : 0..MaxBuf] /\ cb'.pc = "idle"
    BY <2>1, LimitAssumption DEF Idle
  <2>3. cause' \in [Chan -> SUBSET Cause] /\ Same
    <3>1. cause \in [Chan -> SUBSET Cause] /\ "threw" \in Cause /\ cb.ch \in Chan
      BY <1>0, <1>131 DEF TypeOK, Cause, WorkNewThrows, WorkInv
    <3>2. cause' = Blame(cause, cb.ch, "threw")
      BY <1>131 DEF WorkNewThrows
    <3>3. QED
      BY <3>1, <3>2, BlameFacts
  <2>4. TypeOK'
    <3>1. /\ isNew' \in [Chan -> BOOLEAN] /\ bound' \in [Chan -> BOOLEAN]
          /\ refused' \in [Chan -> 0..MaxBuf]
      BY <1>0, <1>131 DEF WorkNewThrows, TypeOK
    <3>2. QED
      BY <1>0, <1>131, <2>2, <2>3, <3>1 DEF WorkNewThrows, TypeOK, bufVars, subVars
  <2>5. QED
    BY <2>1, <2>2, <2>3, <2>4, PlaceStep DEF RxInv
<1>14. CASE WorkBound
  <2>1. PICK ch \in Chan : ch = cb.ch
    BY <1>0, <1>14 DEF WorkBound, WorkInv
  <2>2. /\ cb.b \in 1..MaxBuf /\ AtHand(cb.b, delivered[ch], rxq[ch])
        /\ cause[ch] = {} => cb.b = rxq[ch][1]
        /\ cb.pc = "work" /\ cb.i + 1 \in 0..LoopMax /\ alive[ch] \in BOOLEAN
    <3>1. cb.pc = "work" /\ cb.i < LoopMax /\ AtHand(cb.b, delivered[cb.ch], rxq[cb.ch])
          /\ (cause[cb.ch] = {} => cb.b = rxq[cb.ch][1])
      BY <1>0, <1>14 DEF WorkBound, WorkInv
    <3>2. cb.b \in 1..MaxBuf /\ cb.i + 1 \in 0..LoopMax
      BY <1>0, <3>1, LimitAssumption, SMTT(30) DEF AtHand, TypeOK
    <3>3. alive[ch] \in BOOLEAN
      BY <1>0 DEF TypeOK
    <3>4. QED
      BY <2>1, <3>1, <3>2, <3>3
  <2>3. /\ cause' \in [Chan -> SUBSET Cause] /\ Same
        /\ ~alive[ch] => cause'[ch] # {}
    <3>1. cause \in [Chan -> SUBSET Cause] /\ "dead" \in Cause
      BY <1>0 DEF TypeOK, Cause
    <3>2. cause' = IF alive[ch] THEN cause ELSE Blame(cause, ch, "dead")
      BY <1>14, <2>1 DEF WorkBound
    <3>3. CASE alive[ch]
      BY <3>1, <3>2, <3>3
    <3>4. CASE ~alive[ch]
      <4>1. cause' = Blame(cause, ch, "dead")
        BY <3>2, <3>4
      <4>2. QED
        BY <3>1, <4>1, BlameFacts
    <3>5. QED
      BY <3>3, <3>4
  <2>4. Take(cb.ch, cb.b, cb.i + 1, alive[ch]) /\ nrecv' = nrecv
    BY <1>14, <2>1 DEF WorkBound
  <2>5. /\ QueueInv' /\ WorkInv' /\ CountInv'
        /\ rxq' \in [Chan -> Seq(1..MaxBuf)] /\ delivered' \in [Chan -> Seq(1..MaxBuf)]
        /\ cb' \in [pc : {"idle", "front", "work"}, ch : Chan \cup {None},
                    i : 0..LoopMax, b : 0..MaxBuf]
    BY <2>1, <2>2, <2>3, <2>4, TakeStep
  <2>6. TypeOK'
    BY <1>0, <1>14, <2>3, <2>5 DEF WorkBound, TypeOK, bufVars, subVars
  <2>7. QED
    BY <2>5, <2>6 DEF RxInv
<1>15. CASE UNCHANGED vars
  <2>1. TypeOK'
    BY <1>0, <1>15 DEF TypeOK, vars, bufVars, subVars
  <2>2. UNCHANGED <<rxq, delivered, nrecv, cb, cause>>
    BY <1>15 DEF vars
  <2>3. QED
    BY <2>1, <2>2, FrameStep DEF RxInv
<1>16. QED
  BY <1>1, <1>2, <1>3, <1>4, <1>5, <1>6, <1>7, <1>8, <1>9, <1>10, <1>11, <1>12,
     <1>13, <1>131, <1>14, <1>15 DEF Next, Picoquic, CbNotifier, Session, Quiet

\* The invariant holds in every state of the receive path.
THEOREM Invariance == Spec => []RxInv
<1>1. QED
  BY InitInv, NextInv, PTL DEF Spec

\* Every variable of the receive path keeps its type, in particular the
\* loop counter of OnRecvStream never passes kReadLoopMaxPerStream.
THEOREM TypeCorrect == Spec => []TypeOK
<1>1. RxInv => TypeOK
  BY DEF RxInv
<1>2. QED
  BY <1>1, Invariance, PTL

\* OnRecvStream and OnRecvDgram hand the buffers of a channel over in the
\* order they were received, none twice, whatever slides or is lost.
THEOREM OrderCorrect == Spec => []InOrder
<1>1. RxInv => InOrder
  BY DEF RxInv, QueueInv, InOrder, Ordered
<1>2. QED
  BY <1>1, Invariance, PTL

\* Nothing is lost by the read loop itself: without a slide, a removed
\* stream or a missing handler, delivered and queued buffers are exactly
\* those received.
THEOREM AccountCorrect == Spec => []Accounted
<1>1. ASSUME RxInv PROVE Accounted
  <2> SUFFICES ASSUME NEW ch \in Chan, cause[ch] = {}
               PROVE  delivered[ch] \o rxq[ch] = [i \in 1..nrecv[ch] |-> i]
    BY DEF Accounted
  <2>1. Counted(delivered[ch], rxq[ch], nrecv[ch])
    BY <1>1 DEF RxInv, CountInv
  <2>2. /\ delivered[ch] \in Seq(1..MaxBuf) /\ rxq[ch] \in Seq(1..MaxBuf)
        /\ nrecv[ch] \in Nat /\ MaxBuf \in Nat
    BY <1>1, LimitAssumption DEF RxInv, TypeOK
  <2>3. QED
    BY <2>1, <2>2, CountedConcat, ZenonT(40)
<1>2. QED
  BY <1>1, Invariance, PTL

-----------------------------------------------------------------------------
(* The end of a stream: where its notification stands among the others.     *)

\* No r comes after c in q; r is not in q.
After(q, c, r) == \A i, j \in 1..Len(q) : i < j /\ q[i] = c => q[j] # r
Absent(q, r) == \A i \in 1..Len(q) : q[i] # r

\* The notifier is in no stream while it is idle; the end of a stream is
\* queued behind all its data, once the peer has ended it, and after it was
\* reported nothing of the stream is queued or in hand; a stream that is no
\* longer new and has no handler was unknown.
EndOf(ch) ==
    /\ After(notify, ClosedNote(ch), Recv(ch))
    /\ ~Absent(notify, ClosedNote(ch)) => ended[ch]
    /\ done[ch] => ended[ch] /\ cb.ch # ch /\ Absent(notify, Recv(ch))
EndInv ==
    /\ cb.pc = "idle" => cb.ch = None
    /\ \A ch \in Strm : EndOf(ch)
UnboundInv == \A ch \in Uni : ~isNew[ch] /\ ~bound[ch] => "unknown" \in cause[ch]

\* The two notifications of a stream differ, and those of two streams.
LEMMA NoteFacts ==
    ASSUME NEW c \in Chan, NEW d \in Chan
    PROVE  /\ Recv(c) \in Note /\ ClosedNote(c) \in Note /\ Recv(c) # ClosedNote(d)
           /\ c # d => Recv(c) # Recv(d) /\ ClosedNote(c) # ClosedNote(d)
           /\ Recv(c).ch = c /\ ClosedNote(c).ch = c
<1>1. Recv(c).fn = "recv" /\ ClosedNote(d).fn = "closed"
  BY DEF Recv, ClosedNote
<1>2. Recv(c).ch = c /\ Recv(d).ch = d /\ ClosedNote(c).ch = c /\ ClosedNote(d).ch = d
  BY DEF Recv, ClosedNote
<1>3. Recv(c) \in Note /\ ClosedNote(c) \in Note
  BY DEF Recv, ClosedNote, Note
<1>4. QED
  BY <1>1, <1>2, <1>3

\* A notification is the one or the other.
LEMMA NoteKinds ==
    ASSUME NEW n \in Note
    PROVE  /\ n.ch \in Chan
           /\ n.fn = "recv" => n = Recv(n.ch)
           /\ n.fn = "closed" => n = ClosedNote(n.ch)
BY DEF Note, Recv, ClosedNote

\* SafeQueue::Push on any queue as a shift by k.
LEMMA NotePush ==
    ASSUME NEW q \in Seq(Note), NEW x \in Note, NEW lim \in Nat
    PROVE  \E k \in {0, 1} : /\ Pushed(Push(q, x, lim), q, x, k)
                             /\ k = 1 <=> Full(q, lim)
<1>1. PICK p : p = Push(q, x, lim)
  OBVIOUS
<1>2. Len(q) \in Nat
  OBVIOUS
<1>3. CASE Full(q, lim)
  <2>1. /\ Len(q) > 0 /\ Len(p) = Len(q) /\ p[Len(q)] = x
        /\ \A i \in 1..Len(q) - 1 : p[i] = q[i + 1]
    BY <1>1, <1>3, PushFacts
  <2>2. Pushed(p, q, x, 1)
    BY <1>2, <2>1 DEF Pushed
  <2>3. QED
    BY <1>1, <1>3, <2>2
<1>4. CASE ~Full(q, lim)
  <2>1. /\ Len(p) = Len(q) + 1 /\ p[Len(q) + 1] = x
        /\ \A i \in 1..Len(q) : p[i] = q[i]
    BY <1>1, <1>4, PushFacts
  <2>2. Pushed(p, q, x, 0)
    BY <1>2, <2>1 DEF Pushed
  <2>3. QED
    BY <1>1, <1>4, <2>2
<1>5. QED
  BY <1>3, <1>4

\* What such a shift leaves absent, and in order.
LEMMA PushedNotes ==
    ASSUME NEW p, NEW q, NEW x, NEW k \in {0, 1}, Pushed(p, q, x, k), Len(q) \in Nat,
           NEW c, NEW r
    PROVE  /\ Absent(q, r) /\ x # r => Absent(p, r)
           /\ After(q, c, r) /\ (x # r \/ Absent(q, c)) => After(p, c, r)
<1>1. /\ k \in Nat /\ k <= Len(q) /\ Len(p) = Len(q) + 1 - k /\ Len(p) \in Nat
      /\ p[Len(p)] = x /\ \A i \in 1..Len(p) - 1 : p[i] = q[i + k]
  BY DEF Pushed
<1>2. \A i \in 1..Len(p) : i = Len(p) \/ (i \in 1..Len(p) - 1 /\ i + k \in 1..Len(q))
  BY <1>1
<1>3. ASSUME Absent(q, r), x # r PROVE Absent(p, r)
  BY <1>1, <1>2, <1>3 DEF Absent
<1>4. ASSUME After(q, c, r), x # r \/ Absent(q, c) PROVE After(p, c, r)
  <2> SUFFICES ASSUME NEW i \in 1..Len(p), NEW j \in 1..Len(p), i < j, p[i] = c
               PROVE  p[j] # r
    BY DEF After
  <2>1. i \in 1..Len(p) - 1 /\ i + k \in 1..Len(q) /\ q[i + k] = c
    BY <1>1, <1>2
  <2>2. CASE j = Len(p)
    BY <1>1, <1>4, <2>1, <2>2 DEF Absent
  <2>3. CASE j # Len(p)
    <3>1. j + k \in 1..Len(q) /\ p[j] = q[j + k] /\ i + k < j + k
      BY <1>1, <1>2, <2>3
    <3>2. QED
      BY <1>4, <2>1, <3>1 DEF After
  <2>4. QED
    BY <2>2, <2>3
<1>5. QED
  BY <1>3, <1>4

\* The rest of a queue keeps both; behind the head c there is no r.
LEMMA TailNotes ==
    ASSUME NEW q \in Seq(Note), q # <<>>, NEW c, NEW r
    PROVE  /\ Absent(q, r) => Absent(Tail(q), r)
           /\ After(q, c, r) => After(Tail(q), c, r)
           /\ After(q, c, r) /\ Head(q) = c => Absent(Tail(q), r)
<1>1. PICK t : t = Tail(q)
  OBVIOUS
<1>2. /\ Len(q) \in Nat /\ Len(q) > 0 /\ Len(t) = Len(q) - 1 /\ Head(q) = q[1]
      /\ \A i \in 1..Len(q) - 1 : t[i] = q[i + 1]
  BY <1>1, TailFacts
<1>3. \A i \in 1..Len(t) : i \in 1..Len(q) - 1 /\ i + 1 \in 1..Len(q) /\ 1 < i + 1
  BY <1>2
<1>4. Absent(q, r) => Absent(t, r)
  BY <1>2, <1>3 DEF Absent
<1>5. After(q, c, r) => After(t, c, r)
  <2> SUFFICES ASSUME After(q, c, r), NEW i \in 1..Len(t), NEW j \in 1..Len(t),
                      i < j, t[i] = c
               PROVE  t[j] # r
    BY DEF After
  <2>1. /\ i + 1 \in 1..Len(q) /\ j + 1 \in 1..Len(q) /\ i + 1 < j + 1
        /\ t[i] = q[i + 1] /\ t[j] = q[j + 1]
    BY <1>2, <1>3
  <2>2. QED
    BY <2>1 DEF After
<1>6. ASSUME After(q, c, r), Head(q) = c PROVE Absent(t, r)
  <2>1. 1 \in 1..Len(q) /\ q[1] = c
    BY <1>2, <1>6
  <2>2. QED
    BY <1>2, <1>3, <1>6, <2>1 DEF After, Absent
<1>7. QED
  BY <1>1, <1>4, <1>5, <1>6

\* A step that leaves the notifications and the ends alone, and in which the
\* notifier stays where it is or becomes idle.
LEMMA EndFrame ==
    ASSUME EndInv, UNCHANGED <<notify, ended, done>>, cb'.ch \in {cb.ch, None},
           cb'.pc = "idle" => cb'.ch = None
    PROVE  EndInv'
<1>1. ASSUME NEW ch \in Strm PROVE EndOf(ch)'
  <2>1. EndOf(ch) /\ ch # None
    BY ChanAssumption DEF EndInv, Chan
  <2>2. QED
    BY <2>1 DEF EndOf
<1>2. QED
  BY <1>1 DEF EndInv

\* A notification for c is queued: of data while the stream has not ended,
\* or of its end.
LEMMA EndPush ==
    ASSUME TypeOK, EndInv, NEW c \in Chan, NEW x \in {Recv(c), ClosedNote(c)},
           notify' = Push(notify, x, NotifyLimit), cb' = cb, done' = done,
           x = Recv(c) => ~ended[c] /\ ended' = ended,
           x = ClosedNote(c) => ended' = [ended EXCEPT ![c] = TRUE]
    PROVE  EndInv'
<1>1. /\ notify \in Seq(Note) /\ x \in Note /\ NotifyLimit \in Nat /\ Len(notify) \in Nat
      /\ ended \in [Chan -> BOOLEAN]
  BY NoteFacts, LimitAssumption DEF TypeOK
<1>2. PICK k \in {0, 1} : Pushed(notify', notify, x, k)
  BY <1>1, NotePush
<1>3. ASSUME NEW ch \in Strm PROVE EndOf(ch)'
  <2>0. EndOf(ch) /\ ch \in Chan
    BY DEF EndInv, Chan
  <2>1. ended[ch] => ended'[ch]
    BY <1>1, <2>0
  <2>2. x = ClosedNote(ch) => ended'[ch]
    BY <1>1, <2>0, NoteFacts
  <2>3. x = Recv(ch) => ~ended[ch]
    BY <2>0, NoteFacts
  <2>4. x # Recv(ch) \/ Absent(notify, ClosedNote(ch))
    BY <2>0, <2>3 DEF EndOf
  <2>5. After(notify', ClosedNote(ch), Recv(ch))
    BY <1>1, <1>2, <2>0, <2>4, PushedNotes DEF EndOf
  <2>6. ASSUME ~Absent(notify', ClosedNote(ch)) PROVE ended'[ch]
    <3>1. ~Absent(notify, ClosedNote(ch)) \/ x = ClosedNote(ch)
      BY <1>1, <1>2, <2>6, PushedNotes
    <3>2. QED
      BY <2>0, <2>1, <2>2, <3>1 DEF EndOf
  <2>7. ASSUME done[ch] PROVE ended'[ch] /\ cb.ch # ch /\ Absent(notify', Recv(ch))
    <3>1. ended[ch] /\ cb.ch # ch /\ Absent(notify, Recv(ch))
      BY <2>0, <2>7 DEF EndOf
    <3>2. Absent(notify', Recv(ch))
      BY <1>1, <1>2, <2>3, <3>1, PushedNotes
    <3>3. QED
      BY <2>1, <3>1, <3>2
  <2>8. QED
    BY <2>5, <2>6, <2>7 DEF EndOf
<1>4. QED
  BY <1>3 DEF EndInv

\* A notification of data is taken; the notifier enters its stream or not.
LEMMA EndTakeRecv == TypeOK /\ EndInv /\ TakeRecv => EndInv'
<1> SUFFICES ASSUME TypeOK, EndInv, TakeRecv PROVE EndInv'
  OBVIOUS
<1>1. PICK n \in Note : n = Head(notify)
  BY DEF TypeOK, TakeRecv
<1>2. n.ch \in Chan /\ n = Recv(n.ch)
  BY <1>1, NoteKinds DEF TakeRecv
<1>3. /\ notify \in Seq(Note) /\ notify # <<>> /\ notify' = Tail(notify)
      /\ ended' = ended /\ done' = done /\ cb.pc = "idle"
  BY DEF TypeOK, TakeRecv
<1>4. cb' = cb \/ cb' = [pc |-> "front", ch |-> n.ch, i |-> 0, b |-> 0]
  BY <1>1 DEF TakeRecv
<1>5. cb'.ch \in {None, n.ch} /\ (cb'.pc = "idle" => cb'.ch = None)
  BY <1>3, <1>4 DEF EndInv
<1>6. ASSUME NEW ch \in Strm PROVE EndOf(ch)'
  <2>1. EndOf(ch) /\ ch # None /\ ch \in Chan
    BY ChanAssumption DEF EndInv, Chan
  <2>2. /\ After(notify', ClosedNote(ch), Recv(ch))
        /\ Absent(notify, ClosedNote(ch)) => Absent(notify', ClosedNote(ch))
        /\ Absent(notify, Recv(ch)) => Absent(notify', Recv(ch))
    BY <1>3, <2>1, TailNotes DEF EndOf
  <2>3. n.ch = ch => ~Absent(notify, Recv(ch))
    <3>1. 1 \in 1..Len(notify) /\ notify[1] = n
      BY <1>1, <1>3, TailFacts
    <3>2. QED
      BY <1>2, <3>1 DEF Absent
  <2>4. QED
    BY <1>3, <1>5, <2>1, <2>2, <2>3 DEF EndOf
<1>7. QED
  BY <1>5, <1>6 DEF EndInv

\* The end of a stream is taken, by an idle notifier.
LEMMA EndTakeClosed == TypeOK /\ EndInv /\ TakeClosed => EndInv'
<1> SUFFICES ASSUME TypeOK, EndInv, TakeClosed PROVE EndInv'
  OBVIOUS
<1>1. PICK n \in Note : n = Head(notify)
  BY DEF TypeOK, TakeClosed
<1>2. n.ch \in Chan /\ n = ClosedNote(n.ch)
  BY <1>1, NoteKinds DEF TakeClosed
<1>3. /\ notify \in Seq(Note) /\ notify # <<>> /\ notify' = Tail(notify)
      /\ ended' = ended /\ cb' = cb /\ cb.pc = "idle" /\ cb.ch = None
      /\ done' = [done EXCEPT ![n.ch] = TRUE] /\ done \in [Chan -> BOOLEAN]
  BY <1>1 DEF TypeOK, TakeClosed, EndInv
<1>4. ASSUME NEW ch \in Strm PROVE EndOf(ch)'
  <2>1. EndOf(ch) /\ ch # None /\ ch \in Chan
    BY ChanAssumption DEF EndInv, Chan
  <2>2. /\ After(notify', ClosedNote(ch), Recv(ch))
        /\ Absent(notify, ClosedNote(ch)) => Absent(notify', ClosedNote(ch))
        /\ Absent(notify, Recv(ch)) => Absent(notify', Recv(ch))
        /\ n = ClosedNote(ch) => Absent(notify', Recv(ch))
    BY <1>1, <1>3, <2>1, TailNotes DEF EndOf
  <2>3. n = ClosedNote(ch) => ended[ch]
    <3>1. 1 \in 1..Len(notify) /\ notify[1] = n
      BY <1>1, <1>3, TailFacts
    <3>2. QED
      BY <2>1, <3>1 DEF Absent, EndOf
  <2>4. done'[ch] => done[ch] \/ n = ClosedNote(ch)
    BY <1>2, <1>3, <2>1
  <2>5. QED
    BY <1>3, <2>1, <2>2, <2>3, <2>4 DEF EndOf
<1>5. QED
  BY <1>3, <1>4 DEF EndInv

\* Every step keeps the order of data and end.
LEMMA EndNext == RxInv /\ EndInv /\ [Next]_vars => EndInv'
<1> SUFFICES ASSUME RxInv, EndInv, [Next]_vars PROVE EndInv'
  OBVIOUS
<1>0. TypeOK /\ WorkInv
  BY DEF RxInv
<1>1. ASSUME NEW ch \in Chan, NEW late \in BOOLEAN, OnRecvBytes(ch, late) PROVE EndInv'
  <2>1. /\ UNCHANGED <<ended, done, cb>> /\ ~ended[ch]
        /\ notify' = notify \/ notify' = Push(notify, Recv(ch), NotifyLimit)
    BY <1>1 DEF OnRecvBytes
  <2>2. CASE notify' = notify
    BY <2>1, <2>2, EndFrame DEF EndInv
  <2>3. CASE notify' = Push(notify, Recv(ch), NotifyLimit)
    <3>1. Recv(ch) # ClosedNote(ch)
      BY NoteFacts
    <3>2. PICK x \in {Recv(ch), ClosedNote(ch)} : x = Recv(ch)
      OBVIOUS
    <3>3. QED
      BY <1>0, <2>1, <2>3, <3>1, <3>2, EndPush
  <2>4. QED
    BY <2>1, <2>2, <2>3
<1>2. ASSUME NEW ch \in Chan, StreamEnded(ch) PROVE EndInv'
  <2>1. /\ UNCHANGED <<done, cb>> /\ ended' = [ended EXCEPT ![ch] = TRUE]
        /\ notify' = notify \/ notify' = Push(notify, ClosedNote(ch), NotifyLimit)
    BY <1>2 DEF StreamEnded
  <2>2. CASE notify' = notify
    <3>1. ASSUME NEW c \in Strm PROVE EndOf(c)'
      <4>1. EndOf(c) /\ c \in Chan
        BY DEF EndInv, Chan
      <4>2. ended[c] => ended'[c]
        BY <1>0, <2>1, <4>1 DEF TypeOK
      <4>3. QED
        BY <2>1, <2>2, <4>1, <4>2 DEF EndOf
    <3>2. QED
      BY <2>1, <3>1 DEF EndInv
  <2>3. CASE notify' = Push(notify, ClosedNote(ch), NotifyLimit)
    <3>1. Recv(ch) # ClosedNote(ch)
      BY NoteFacts
    <3>2. PICK x \in {Recv(ch), ClosedNote(ch)} : x = ClosedNote(ch)
      OBVIOUS
    <3>3. QED
      BY <1>0, <2>1, <2>3, <3>1, <3>2, EndPush
  <2>4. QED
    BY <2>1, <2>2, <2>3
<1>3. CASE RemoveClosedStreams \/ Close \/ UNCHANGED vars
  <2>1. UNCHANGED <<notify, ended, done, cb>>
    BY <1>3 DEF RemoveClosedStreams, Close, vars
  <2>2. QED
    BY <2>1, EndFrame DEF EndInv
<1>4. ASSUME NEW ch \in Chan, Register(ch) \/ Unregister(ch) PROVE EndInv'
  <2>1. UNCHANGED <<notify, ended, done, cb>>
    BY <1>4 DEF Register, Unregister
  <2>2. QED
    BY <2>1, EndFrame DEF EndInv
<1>5. CASE TakeRecv
  BY <1>0, <1>5, EndTakeRecv
<1>6. CASE TakeClosed
  BY <1>0, <1>6, EndTakeClosed
<1>7. CASE EndLoop \/ WorkUnbound \/ WorkNewUnknown \/ WorkNewThrows
  <2>1. UNCHANGED <<notify, ended, done>> /\ cb' = Idle
    BY <1>7 DEF EndLoop, WorkUnbound, WorkNewUnknown, WorkNewThrows
  <2>2. cb'.ch = None
    BY <2>1 DEF Idle
  <2>3. QED
    BY <2>1, <2>2, EndFrame
<1>8. CASE ReadFront
  <2>1. UNCHANGED <<notify, ended, done>> /\ cb' = [cb EXCEPT !.pc = "work", !.b = Head(rxq[cb.ch])]
    BY <1>8 DEF ReadFront
  <2>2. cb'.ch = cb.ch /\ cb'.pc = "work"
    BY <1>0, <2>1 DEF TypeOK
  <2>3. QED
    BY <2>1, <2>2, EndFrame
<1>9. ASSUME NEW b, NEW i, NEW h, Take(cb.ch, b, i, h), UNCHANGED <<notify, ended, done>>
      PROVE  EndInv'
  <2>1. cb' = [cb EXCEPT !.pc = "front", !.i = i]
    BY <1>9 DEF Take
  <2>2. cb'.ch = cb.ch /\ cb'.pc = "front"
    BY <1>0, <2>1 DEF TypeOK
  <2>3. QED
    BY <1>9, <2>2, EndFrame
<1>10. CASE ReadDgram \/ WorkNewKnown \/ WorkBound
  BY <1>9, <1>10 DEF ReadDgram, WorkNewKnown, WorkBound
<1>11. ASSUME NEW partial \in BOOLEAN, WorkCtrl(partial) PROVE EndInv'
  BY <1>9, <1>11 DEF WorkCtrl
<1>12. QED
  BY <1>1, <1>2, <1>3, <1>4, <1>5, <1>6, <1>7, <1>8, <1>10, <1>11
     DEF Next, Picoquic, CbNotifier, Session, Quiet

\* The order of data and end holds initially, and so always.
LEMMA EndInit == Init => EndInv
<1> SUFFICES ASSUME Init PROVE EndInv
  OBVIOUS
<1>1. Len(notify) = 0 /\ cb.ch = None
  BY DEF Init, Idle
<1>2. ASSUME NEW ch \in Strm PROVE EndOf(ch)
  <2>1. ~done[ch]
    BY DEF Init, Chan
  <2>2. QED
    BY <1>1, <2>1 DEF EndOf, After, Absent
<1>3. QED
  BY <1>1, <1>2 DEF EndInv

LEMMA EndInvariance == Spec => [](RxInv /\ EndInv)
<1>1. QED
  BY InitInv, NextInv, EndInit, EndNext, PTL DEF Spec

\* Once the end of a stream was reported, no step receives or delivers
\* anything of it.
LEMMA ClosedStays ==
    ASSUME RxInv, EndInv, [Next]_vars
    PROVE  \A ch \in Strm : done[ch] => delivered'[ch] = delivered[ch] /\ nrecv'[ch] = nrecv[ch]
<1> SUFFICES ASSUME NEW ch \in Strm, done[ch]
             PROVE  delivered'[ch] = delivered[ch] /\ nrecv'[ch] = nrecv[ch]
  OBVIOUS
<1>1. /\ cb.ch # ch /\ ended[ch] /\ ch \in Chan /\ delivered \in [Chan -> Seq(1..MaxBuf)]
      /\ nrecv \in [Chan -> 0..MaxBuf]
  BY DEF RxInv, TypeOK, EndInv, EndOf, Chan
<1>2. delivered'[ch] = delivered[ch]
  <2>1. ASSUME NEW b, NEW i, NEW h, Take(cb.ch, b, i, h) PROVE delivered'[ch] = delivered[ch]
    BY <1>1, <2>1 DEF Take
  <2>2. QED
    BY <2>1 DEF Next, Picoquic, CbNotifier, Session, Quiet, vars, OnRecvBytes,
       StreamEnded, RemoveClosedStreams, Close, Register, Unregister, TakeRecv, TakeClosed,
       EndLoop, ReadFront, ReadDgram, WorkCtrl, WorkNewKnown, WorkNewThrows, WorkNewUnknown,
       WorkBound, WorkUnbound
<1>3. nrecv'[ch] = nrecv[ch]
  <2>1. ASSUME NEW c \in Chan, NEW late \in BOOLEAN, OnRecvBytes(c, late)
        PROVE  nrecv'[ch] = nrecv[ch]
    BY <1>1, <2>1 DEF OnRecvBytes
  <2>2. QED
    BY <2>1 DEF Next, Picoquic, CbNotifier, Session, Quiet, vars,
       StreamEnded, RemoveClosedStreams, Close, Register, Unregister, TakeRecv, TakeClosed,
       EndLoop, ReadFront, ReadDgram, WorkCtrl, WorkNewKnown, WorkNewThrows, WorkNewUnknown,
       WorkBound, WorkUnbound
<1>4. QED
  BY <1>2, <1>3

\* After OnStreamClosed has run for a stream, neither a notification queued
\* before nor a buffer left in its queue reaches the handler: no step
\* delivers anything of that stream.
THEOREM ClosedIsLast == Spec => NothingAfterClosed
<1>1. RxInv /\ EndInv /\ [Next]_vars
        => [\A ch \in Strm : done[ch] => delivered'[ch] = delivered[ch]]_vars
  BY ClosedStays
<1>2. QED
  BY <1>1, EndInvariance, PTL DEF Spec, NothingAfterClosed

-----------------------------------------------------------------------------
(* How many notifications a stream has on the way. *)

\* Where x stands in q.
Places(q, x) == {i \in 1..Len(q) : q[i] = x}

\* Positions shifted by at most one, all of them found in T.
LEMMA ShiftCount ==
    ASSUME NEW S \in SUBSET Nat, NEW T \in SUBSET Nat, IsFiniteSet(T), NEW k \in {0, 1},
           \A i \in S : i - k \in T
    PROVE  IsFiniteSet(S) /\ Cardinality(S) <= Cardinality(T)
<1> DEFINE f == [i \in S |-> i - k]
<1>1. f \in [S -> T]
  OBVIOUS
<1>2. \A i, j \in S : f[i] = f[j] => i = j
  OBVIOUS
<1>3. f \in Injection(S, T)
  BY <1>1, <1>2 DEF Injection, IsInjective
<1>4. QED
  BY <1>3, FS_Injection

\* The places are a finite set of numbers.
LEMMA PlacesFinite ==
    ASSUME NEW q, Len(q) \in Nat, NEW x
    PROVE  /\ IsFiniteSet(Places(q, x)) /\ Places(q, x) \in SUBSET Nat
           /\ Cardinality(Places(q, x)) \in Nat
           /\ Absent(q, x) => Cardinality(Places(q, x)) = 0
<1>1. IsFiniteSet(1..Len(q))
  BY FS_Interval
<1>2. Places(q, x) \in SUBSET (1..Len(q))
  BY DEF Places
<1>3. IsFiniteSet(Places(q, x))
  BY <1>1, <1>2, FS_Subset
<1>4. Absent(q, x) => Places(q, x) = {}
  BY DEF Absent, Places
<1>5. QED
  BY <1>2, <1>3, <1>4, FS_CardinalityType, FS_EmptySet

\* A push adds the place of x; a slide takes the place of the first away.
LEMMA PushCount ==
    ASSUME NEW p, NEW q, NEW x, NEW k \in {0, 1}, Pushed(p, q, x, k), Len(q) \in Nat, NEW r,
           k = 1 => q[1] # r
    PROVE  /\ Cardinality(Places(q, r)) <= Cardinality(Places(p, r))
           /\ x = r => Cardinality(Places(q, r)) + 1 <= Cardinality(Places(p, r))
<1>1. /\ k \in Nat /\ k <= Len(q) /\ Len(p) = Len(q) + 1 - k /\ Len(p) \in Nat
      /\ p[Len(p)] = x /\ \A i \in 1..Len(p) - 1 : p[i] = q[i + k] /\ Len(p) \in 1..Len(p)
  BY DEF Pushed
<1> DEFINE P == Places(p, r)
           Q == Places(q, r)
           R == P \ {Len(p)}
<1>2. /\ IsFiniteSet(P) /\ IsFiniteSet(Q) /\ P \in SUBSET Nat /\ Q \in SUBSET Nat
      /\ Cardinality(P) \in Nat /\ Cardinality(Q) \in Nat
  BY <1>1, PlacesFinite
<1>3. IsFiniteSet(R) /\ R \in SUBSET Nat
      /\ Cardinality(R) = IF Len(p) \in P THEN Cardinality(P) - 1 ELSE Cardinality(P)
  BY <1>2, FS_RemoveElement
<1>4. ASSUME NEW i \in Q PROVE i - k \in R
  <2>1. i \in 1..Len(q) /\ q[i] = r
    BY DEF Places
  <2>0. k = 1 => i # 1
    BY <2>1
  <2>2. i - k \in 1..Len(p) - 1
    BY <1>1, <2>0, <2>1
  <2>3. p[i - k] = q[(i - k) + k] /\ (i - k) + k = i
    BY <1>1, <2>1, <2>2
  <2>4. i - k \in 1..Len(p) /\ p[i - k] = r /\ i - k # Len(p)
    BY <1>1, <2>1, <2>2, <2>3
  <2>5. QED
    BY <2>4 DEF Places
<1>5. Cardinality(Q) <= Cardinality(R)
  <2> HIDE DEF Q, R
  <2>1. QED
    BY <1>2, <1>3, <1>4, ShiftCount
<1>6. x = r => Len(p) \in P
  BY <1>1 DEF Places
<1> HIDE DEF P, Q, R
<1>7. Cardinality(Q) <= Cardinality(P) /\ (x = r => Cardinality(Q) + 1 <= Cardinality(P))
  BY <1>2, <1>3, <1>5, <1>6
<1>8. QED
  BY <1>7 DEF P, Q

\* Taking the first notification takes at most its own place away.
LEMMA TailCount ==
    ASSUME NEW q \in Seq(Note), q # <<>>, NEW r
    PROVE  /\ Cardinality(Places(q, r)) <= Cardinality(Places(Tail(q), r)) + 1
           /\ Head(q) # r => Cardinality(Places(q, r)) <= Cardinality(Places(Tail(q), r))
<1>1. PICK t : t = Tail(q)
  OBVIOUS
<1>2. /\ Len(q) \in Nat /\ Len(q) > 0 /\ Len(t) = Len(q) - 1 /\ Head(q) = q[1]
      /\ \A i \in 1..Len(q) - 1 : t[i] = q[i + 1]
  BY <1>1, TailFacts
<1> DEFINE P == Places(t, r)
           Q == Places(q, r)
           R == Q \ {1}
<1>3. /\ IsFiniteSet(P) /\ IsFiniteSet(Q) /\ P \in SUBSET Nat /\ Q \in SUBSET Nat
      /\ Cardinality(P) \in Nat /\ Cardinality(Q) \in Nat
  BY <1>2, PlacesFinite
<1>4. IsFiniteSet(R) /\ R \in SUBSET Nat
      /\ Cardinality(R) = IF 1 \in Q THEN Cardinality(Q) - 1 ELSE Cardinality(Q)
  BY <1>3, FS_RemoveElement
<1>5. ASSUME NEW i \in R PROVE i - 1 \in P
  <2>1. i \in 1..Len(q) /\ q[i] = r /\ i # 1
    BY DEF Places
  <2>2. i - 1 \in 1..Len(q) - 1 /\ i - 1 \in 1..Len(t)
    BY <1>2, <2>1
  <2>3. t[i - 1] = q[(i - 1) + 1] /\ (i - 1) + 1 = i
    BY <1>2, <2>1, <2>2
  <2>4. QED
    BY <2>1, <2>2, <2>3 DEF Places
<1>6. Cardinality(R) <= Cardinality(P)
  <2> HIDE DEF P, R
  <2>1. QED
    BY <1>3, <1>4, <1>5, ShiftCount
<1>7. 1 \in Q => Head(q) = r
  BY <1>2 DEF Places
<1> HIDE DEF P, Q, R
<1>8. Cardinality(Q) <= Cardinality(P) + 1 /\ (Head(q) # r => Cardinality(Q) <= Cardinality(P))
  BY <1>3, <1>4, <1>6, <1>7
<1>9. QED
  BY <1>1, <1>8 DEF P, Q

\* The turn of the notifier that has not taken a buffer yet.
Bonus(c, ch) == IF c.ch = ch /\ c.i = 0 THEN 1 ELSE 0

\* No notification was lost, the stream was known and there, and its handler did not throw.
Clean(why) == why \cap {"notify", "unknown", "removed", "threw"} = {}

\* UniNotified for one stream, and for any values of the variables it reads.
Covered(why, q, notes, c, ch) ==
    Clean(why) => Len(q) <= Cardinality(Places(notes, Recv(ch))) + Bonus(c, ch)
NotifiedInv ==
    /\ \A ch \in Uni : Covered(cause[ch], rxq[ch], notify, cb, ch)
    /\ UnboundInv

\* What the arithmetic below needs of the queues.
LEMMA UniFacts ==
    ASSUME TypeOK, NEW ch \in Uni
    PROVE  /\ ch \in Chan /\ ch \in Strm /\ ch \notin Ctrl /\ ch \notin Dgram
           /\ Len(rxq[ch]) \in Nat /\ rxq[ch] \in Seq(1..MaxBuf)
           /\ notify \in Seq(Note) /\ Len(notify) \in Nat
           /\ Cardinality(Places(notify, Recv(ch))) \in Nat
           /\ Bonus(cb, ch) \in {0, 1} /\ ch # None
<1>1. ch \in Chan /\ ch \in Strm /\ ch \notin Ctrl /\ ch \notin Dgram /\ ch # None
  BY ChanAssumption DEF Chan, Strm
<1>2. /\ rxq[ch] \in Seq(1..MaxBuf) /\ Len(rxq[ch]) \in Nat
      /\ notify \in Seq(Note) /\ Len(notify) \in Nat
  BY <1>1 DEF TypeOK
<1>3. Cardinality(Places(notify, Recv(ch))) \in Nat
  BY <1>2, PlacesFinite
<1>4. Bonus(cb, ch) \in {0, 1}
  BY DEF Bonus
<1>5. QED
  BY <1>1, <1>2, <1>3, <1>4

\* Causes only grow: clean after a step is clean before it.
LEMMA CleanBack ==
    ASSUME NEW w, NEW v, w \subseteq v, Clean(v)
    PROVE  Clean(w)
BY DEF Clean

\* The notification that slides out of the queue leaves a cause.
LEMMA DroppedHead ==
    ASSUME TypeOK, NEW f \in [Chan -> SUBSET Cause], NEW ch \in Chan,
           Full(notify, NotifyLimit), notify[1] = Recv(ch)
    PROVE  "notify" \in Dropped(f)[ch]
<1>1. notify \in Seq(Note) /\ notify # <<>>
  BY DEF TypeOK, Full
<1>2. Head(notify) = Recv(ch)
  BY <1>1, TailFacts
<1>3. Head(notify).ch = ch
  BY <1>2, NoteFacts
<1>4. "notify" \in Cause
  BY DEF Cause
<1>5. QED
  BY <1>3, <1>4, BlameFacts DEF Dropped

\* A notification is queued and no place of ch lost, or ch has a cause.
LEMMA NotifiedPush ==
    ASSUME TypeOK, NEW ch \in Uni, NEW x \in Note, notify' = Push(notify, x, NotifyLimit),
           NEW f \in [Chan -> SUBSET Cause], cause' = Dropped(f), Clean(cause'[ch])
    PROVE  LET a == Cardinality(Places(notify, Recv(ch)))
               b == Cardinality(Places(notify', Recv(ch)))
           IN  a \in Nat /\ b \in Nat /\ a <= b /\ (x = Recv(ch) => a + 1 <= b)
<1>1. ch \in Chan /\ notify \in Seq(Note) /\ Len(notify) \in Nat /\ NotifyLimit \in Nat
  BY UniFacts, LimitAssumption
<1>2. PICK k \in {0, 1} : Pushed(notify', notify, x, k) /\ (k = 1 <=> Full(notify, NotifyLimit))
  BY <1>1, NotePush
<1>3. k = 1 => notify[1] # Recv(ch)
  BY <1>1, <1>2, DroppedHead DEF Clean
<1>4. Len(notify') \in Nat
  BY <1>1, <1>2 DEF Pushed
<1>5. QED
  BY <1>1, <1>2, <1>3, <1>4, PushCount, PlacesFinite

\* A step that leaves the queue of ch, the notifications and the notifier
\* alone.
LEMMA CoveredFrame ==
    ASSUME NEW ch, Covered(cause[ch], rxq[ch], notify, cb, ch),
           rxq'[ch] = rxq[ch], UNCHANGED <<notify, cb>>, cause[ch] \subseteq cause'[ch]
    PROVE  Covered(cause'[ch], rxq'[ch], notify', cb', ch)
BY CleanBack DEF Covered

\* A buffer is received.
LEMMA RecvCovered ==
    ASSUME TypeOK, NotifiedInv, NEW c \in Chan, NEW late \in BOOLEAN, OnRecvBytes(c, late),
           NEW ch \in Uni
    PROVE  Covered(cause'[ch], rxq'[ch], notify', cb', ch)
<1> DEFINE q == Push(rxq[c], nrecv[c] + 1, QueueLimit)
           slid == IF Full(rxq[c], QueueLimit) THEN Blame(cause, c, "slide") ELSE cause
<1>0. Covered(cause[ch], rxq[ch], notify, cb, ch) /\ cb' = cb
  BY DEF NotifiedInv, OnRecvBytes
<1>1. CASE late
  BY <1>0, <1>1, CoveredFrame DEF OnRecvBytes
<1>2. CASE ~late
  <2>1. /\ rxq' = [rxq EXCEPT ![c] = q] /\ \A x \in Chan : cause[x] \subseteq cause'[x]
        /\ nrecv[c] + 1 \in 1..MaxBuf
    BY <1>2, RecvEffect
  <2>2. cause \in [Chan -> SUBSET Cause] /\ "slide" \in Cause /\ rxq \in [Chan -> Seq(1..MaxBuf)]
    BY DEF TypeOK, Cause
  <2>3. slid \in [Chan -> SUBSET Cause]
    BY <2>2, BlameFacts
  <2>4. ch \in Chan
    BY UniFacts
  <2>5. CASE Notifies(c, q)
    <3>1. notify' = Push(notify, Recv(c), NotifyLimit) /\ cause' = Dropped(slid)
      BY <1>2, <2>5 DEF OnRecvBytes
    <3> HIDE DEF slid
    <3> SUFFICES ASSUME Clean(cause'[ch])
                 PROVE  Len(rxq'[ch]) <= Cardinality(Places(notify', Recv(ch))) + Bonus(cb', ch)
      BY DEF Covered
    <3>2. Clean(cause[ch])
      BY <2>1, <2>4, CleanBack
    <3>3. PICK n : n = Len(rxq[ch])
      OBVIOUS
    <3>4. PICK a : a = Cardinality(Places(notify, Recv(ch)))
      OBVIOUS
    <3>5. PICK b : b = Cardinality(Places(notify', Recv(ch)))
      OBVIOUS
    <3>6. PICK e : e = Bonus(cb, ch)
      OBVIOUS
    <3>7. Recv(c) \in Note /\ (c # ch => Recv(c) # Recv(ch))
      BY <2>4, NoteFacts
    <3>8. a \in Nat /\ b \in Nat /\ a <= b /\ (c = ch => a + 1 <= b)
      BY <2>3, <3>1, <3>4, <3>5, <3>7, NotifiedPush
    <3>9. n \in Nat /\ e \in {0, 1} /\ n <= a + e
      BY <1>0, <3>2, <3>3, <3>4, <3>6, UniFacts DEF Covered
    <3>10. CASE c = ch
      <4>1. rxq'[ch] = q /\ rxq[ch] \in Seq(1..MaxBuf)
        BY <2>1, <2>2, <2>4, <3>10
      <4>2. QueueLimit \in Nat
        BY LimitAssumption
      <4>3. Len(q) = n \/ Len(q) = n + 1
        <5>1. PICK p : p = rxq[ch]
          OBVIOUS
        <5>2. PICK v \in 1..MaxBuf : v = nrecv[c] + 1
          BY <2>1
        <5>3. Len(Push(p, v, QueueLimit)) = Len(p) \/ Len(Push(p, v, QueueLimit)) = Len(p) + 1
          <6>1. PICK S : S = 1..MaxBuf
            OBVIOUS
          <6>2. p \in Seq(S) /\ v \in S
            BY <4>1, <5>1, <6>1
          <6>3. QED
            BY <4>2, <6>2, PushFacts
        <5>4. QED
          BY <3>3, <3>10, <5>1, <5>2, <5>3
      <4> HIDE DEF q
      <4>4. Len(rxq'[ch]) <= b + e
        BY <3>8, <3>9, <3>10, <4>1, <4>3
      <4>5. QED
        BY <1>0, <3>5, <3>6, <4>4
    <3>11. CASE c # ch
      <4>1. Len(rxq'[ch]) = n
        BY <2>1, <2>2, <2>4, <3>3, <3>11
      <4>2. n <= b + e
        BY <3>8, <3>9
      <4>3. QED
        BY <1>0, <3>5, <3>6, <4>1, <4>2
    <3>12. QED
      BY <3>10, <3>11
  <2>6. CASE ~Notifies(c, q)
    <3>1. notify' = notify /\ c # ch
      BY <1>2, <2>6 DEF OnRecvBytes, Notifies
    <3>2. rxq'[ch] = rxq[ch]
      BY <2>1, <2>2, <2>4, <3>1
    <3>3. QED
      BY <1>0, <2>1, <2>4, <3>1, <3>2, CoveredFrame
  <2>7. QED
    BY <2>5, <2>6
<1>3. QED
  BY <1>1, <1>2

\* A step of the notifier inside the loop of another channel, or one that
\* leaves the queue of ch and the number of its turn alone.
LEMMA CoveredKept ==
    ASSUME NEW ch, Covered(cause[ch], rxq[ch], notify, cb, ch),
           rxq'[ch] = rxq[ch], notify' = notify, cause[ch] \subseteq cause'[ch],
           Bonus(cb', ch) = Bonus(cb, ch)
    PROVE  Covered(cause'[ch], rxq'[ch], notify', cb', ch)
BY CleanBack DEF Covered

\* PopFront: one buffer less, and the turn is no longer the first.
LEMMA CoveredTake ==
    ASSUME RxInv, NotifiedInv, NEW ch \in Uni, NEW b, NEW i, NEW h, Take(cb.ch, b, i, h),
           cb.ch \in Chan, rxq[cb.ch] # <<>>, notify' = notify,
           cause[ch] \subseteq cause'[ch]
    PROVE  Covered(cause'[ch], rxq'[ch], notify', cb', ch)
<1>0. TypeOK /\ Covered(cause[ch], rxq[ch], notify, cb, ch)
  BY DEF RxInv, NotifiedInv
<1>1. /\ rxq' = [rxq EXCEPT ![cb.ch] = Tail(rxq[cb.ch])]
      /\ cb' = [cb EXCEPT !.pc = "front", !.i = i] /\ rxq \in [Chan -> Seq(1..MaxBuf)]
  BY <1>0 DEF Take, TypeOK
<1>2. cb'.ch = cb.ch /\ ch \in Chan
  BY <1>0, <1>1, UniFacts DEF TypeOK
<1>3. CASE cb.ch # ch
  <2>1. rxq'[ch] = rxq[ch] /\ Bonus(cb', ch) = Bonus(cb, ch)
    BY <1>1, <1>2, <1>3 DEF Bonus
  <2>2. QED
    BY <1>0, <2>1, CoveredKept
<1>4. CASE cb.ch = ch
  <2> SUFFICES ASSUME Clean(cause'[ch])
               PROVE  Len(rxq'[ch]) <= Cardinality(Places(notify, Recv(ch))) + Bonus(cb', ch)
    BY DEF Covered
  <2>1. PICK n : n = Len(rxq[ch])
    OBVIOUS
  <2>2. PICK a : a = Cardinality(Places(notify, Recv(ch)))
    OBVIOUS
  <2>3. n \in Nat /\ a \in Nat /\ n <= a + 1
    <3>1. Clean(cause[ch])
      BY CleanBack
    <3>2. n \in Nat /\ a \in Nat /\ Bonus(cb, ch) \in {0, 1} /\ n <= a + Bonus(cb, ch)
      BY <1>0, <2>1, <2>2, <3>1, UniFacts DEF Covered
    <3>3. PICK e \in {0, 1} : e = Bonus(cb, ch)
      BY <3>2
    <3>4. QED
      BY <3>2, <3>3
  <2>4. Len(rxq'[ch]) = n - 1
    <3>1. PICK q \in Seq(1..MaxBuf) : q = rxq[ch]
      BY <1>0, UniFacts
    <3>2. rxq'[ch] = Tail(q) /\ q # <<>>
      BY <1>1, <1>2, <1>4, <3>1
    <3>3. QED
      BY <2>1, <3>1, <3>2, TailFacts
  <2>5. PICK e \in {0, 1} : e = Bonus(cb', ch)
    BY DEF Bonus
  <2>6. n - 1 <= a + e
    BY <2>3, <2>5
  <2>7. QED
    BY <2>2, <2>4, <2>5, <2>6
<1>5. QED
  BY <1>3, <1>4

\* A notification of data is taken: its place becomes the notifier's turn.
LEMMA CoveredTakeRecv ==
    ASSUME TypeOK, EndInv, NotifiedInv, NEW ch \in Uni, TakeRecv
    PROVE  Covered(cause'[ch], rxq'[ch], notify', cb', ch)
<1>1. /\ notify \in Seq(Note) /\ notify # <<>> /\ notify' = Tail(notify) /\ rxq' = rxq
      /\ cb.ch = None /\ Covered(cause[ch], rxq[ch], notify, cb, ch)
  BY DEF TypeOK, TakeRecv, EndInv, NotifiedInv
<1>2. PICK m \in Note : m = Head(notify)
  BY <1>1
<1>3. m.ch \in Chan /\ m = Recv(m.ch)
  BY <1>2, NoteKinds DEF TakeRecv
<1>4. PICK n : n = Len(rxq[ch])
  OBVIOUS
<1>5. PICK a : a = Cardinality(Places(notify, Recv(ch)))
  OBVIOUS
<1>6. PICK b : b = Cardinality(Places(notify', Recv(ch)))
  OBVIOUS
<1>7. ch \in Chan /\ ch # None /\ n \in Nat /\ a \in Nat /\ Bonus(cb, ch) = 0
  BY <1>1, <1>4, <1>5, UniFacts DEF Bonus
<1>8. b \in Nat /\ a <= b + 1 /\ (m # Recv(ch) => a <= b)
  <2>1. Len(notify') \in Nat
    BY <1>1
  <2>2. QED
    BY <1>1, <1>2, <1>5, <1>6, <2>1, TailCount, PlacesFinite
<1>9. CASE conn = "open" /\ present[m.ch]
  <2>1. cb' = [pc |-> "front", ch |-> m.ch, i |-> 0, b |-> 0] /\ cause' = cause
    BY <1>2, <1>9 DEF TakeRecv
  <2> SUFFICES ASSUME Clean(cause[ch]) PROVE n <= b + Bonus(cb', ch)
    BY <1>1, <1>4, <1>6, <2>1 DEF Covered
  <2>2. n <= a
    BY <1>1, <1>4, <1>5, <1>7 DEF Covered
  <2>3. CASE m.ch = ch
    <3>1. Bonus(cb', ch) = 1
      BY <2>1, <2>3 DEF Bonus
    <3>2. n <= b + 1
      BY <1>7, <1>8, <2>2
    <3>3. QED
      BY <3>1, <3>2
  <2>4. CASE m.ch # ch
    <3>1. Bonus(cb', ch) = 0
      BY <2>1, <2>4 DEF Bonus
    <3>2. m # Recv(ch)
      BY <1>3, <1>7, <2>4, NoteFacts
    <3>3. n <= b + 0
      BY <1>7, <1>8, <2>2, <3>2
    <3>4. QED
      BY <3>1, <3>3
  <2>5. QED
    BY <2>3, <2>4
<1>10. CASE ~(conn = "open" /\ present[m.ch])
  <2>1. cb' = cb /\ cause' = Blame(cause, m.ch, "removed")
    BY <1>2, <1>10 DEF TakeRecv
  <2>2. cause \in [Chan -> SUBSET Cause] /\ "removed" \in Cause
    BY DEF TypeOK, Cause
  <2> SUFFICES ASSUME Clean(cause'[ch]) PROVE n <= b + Bonus(cb, ch)
    BY <1>1, <1>4, <1>6, <2>1 DEF Covered
  <2>3. Clean(cause[ch])
    BY <1>3, <1>7, <2>1, <2>2, BlameFacts, CleanBack
  <2>4. m.ch # ch
    BY <1>3, <2>1, <2>2, BlameFacts DEF Clean
  <2>5. m # Recv(ch)
    BY <1>3, <1>7, <2>4, NoteFacts
  <2>6. n <= a
    BY <1>1, <1>4, <1>5, <1>7, <2>3 DEF Covered
  <2>7. n <= b + 0
    BY <1>7, <1>8, <2>5, <2>6
  <2>8. QED
    BY <1>7, <2>7
<1>11. QED
  BY <1>9, <1>10

\* The loop ends: in its first turn only when the queue is empty.
LEMMA CoveredEndLoop ==
    ASSUME TypeOK, NotifiedInv, NEW ch \in Uni, EndLoop
    PROVE  Covered(cause'[ch], rxq'[ch], notify', cb', ch)
<1>1. UNCHANGED <<rxq, notify, cause>> /\ cb' = Idle /\ Covered(cause[ch], rxq[ch], notify, cb, ch)
  BY DEF EndLoop, NotifiedInv
<1>2. Bonus(cb', ch) = 0
  BY <1>1, UniFacts DEF Idle, Bonus
<1>3. CASE Bonus(cb, ch) = 0
  BY <1>1, <1>2, <1>3, CoveredKept
<1>4. CASE Bonus(cb, ch) # 0
  <2>1. cb.ch = ch /\ cb.i = 0
    BY <1>4 DEF Bonus
  <2>2. rxq[ch] = <<>>
    BY <2>1, UniFacts, LimitAssumption DEF EndLoop, LoopOver
  <2>3. Len(rxq[ch]) = 0
    BY <2>2
  <2>4. PICK a \in Nat : a = Cardinality(Places(notify, Recv(ch)))
    BY UniFacts
  <2>5. 0 <= a + 0
    BY <2>4
  <2>6. QED
    BY <1>1, <1>2, <2>3, <2>4, <2>5 DEF Covered
<1>5. QED
  BY <1>3, <1>4

\* The end of a stream is queued, or taken: the places of data stay.
LEMMA CoveredEnds ==
    ASSUME TypeOK, NotifiedInv, NEW ch \in Uni,
           TakeClosed \/ \E c \in Chan : StreamEnded(c)
    PROVE  Covered(cause'[ch], rxq'[ch], notify', cb', ch)
<1>0. Covered(cause[ch], rxq[ch], notify, cb, ch) /\ cause \in [Chan -> SUBSET Cause]
  BY DEF NotifiedInv, TypeOK
<1>1. UNCHANGED <<rxq, cb>>
  BY DEF TakeClosed, StreamEnded
<1>2. CASE TakeClosed
  <2>1. notify \in Seq(Note) /\ notify # <<>> /\ notify' = Tail(notify) /\ cause' = cause
    BY <1>2 DEF TypeOK, TakeClosed
  <2>2. PICK m \in Note : m = Head(notify)
    BY <2>1
  <2>3. m # Recv(ch)
    <3>1. m.ch \in Chan /\ m = ClosedNote(m.ch) /\ ch \in Chan
      BY <1>2, <2>2, NoteKinds, UniFacts DEF TakeClosed
    <3>2. QED
      BY <3>1, NoteFacts
  <2>4. PICK a : a = Cardinality(Places(notify, Recv(ch)))
    OBVIOUS
  <2>5. PICK b : b = Cardinality(Places(notify', Recv(ch)))
    OBVIOUS
  <2>6. a \in Nat /\ b \in Nat /\ a <= b
    <3>1. Len(notify') \in Nat
      BY <2>1
    <3>2. QED
      BY <2>1, <2>2, <2>3, <2>4, <2>5, <3>1, TailCount, PlacesFinite, UniFacts
  <2>7. PICK n \in Nat, e \in {0, 1} : n = Len(rxq[ch]) /\ e = Bonus(cb, ch)
    BY UniFacts
  <2>8. Clean(cause[ch]) => n <= a + e
    BY <1>0, <2>4, <2>7 DEF Covered
  <2>9. Clean(cause[ch]) => n <= b + e
    BY <2>6, <2>7, <2>8
  <2>10. QED
    BY <1>1, <2>1, <2>5, <2>7, <2>9 DEF Covered
<1>3. ASSUME NEW c \in Chan, StreamEnded(c) PROVE Covered(cause'[ch], rxq'[ch], notify', cb', ch)
  <2>1. CASE present[c]
    <3>1. notify' = Push(notify, ClosedNote(c), NotifyLimit) /\ cause' = Dropped(cause)
      BY <1>3, <2>1 DEF StreamEnded
    <3> SUFFICES ASSUME Clean(cause'[ch])
                 PROVE  Len(rxq[ch]) <= Cardinality(Places(notify', Recv(ch))) + Bonus(cb, ch)
      BY <1>1 DEF Covered
    <3>2. PICK a : a = Cardinality(Places(notify, Recv(ch)))
      OBVIOUS
    <3>3. PICK b : b = Cardinality(Places(notify', Recv(ch)))
      OBVIOUS
    <3>4. ch \in Chan /\ ClosedNote(c) \in Note
      BY NoteFacts, UniFacts
    <3>5. a \in Nat /\ b \in Nat /\ a <= b
      BY <1>0, <3>1, <3>2, <3>3, <3>4, NotifiedPush
    <3>6. PICK n \in Nat, e \in {0, 1} : n = Len(rxq[ch]) /\ e = Bonus(cb, ch)
      BY UniFacts
    <3>7. Clean(cause[ch])
      BY <1>0, <3>1, <3>4, DroppedFacts, CleanBack
    <3>8. n <= a + e
      BY <1>0, <3>2, <3>6, <3>7 DEF Covered
    <3>9. n <= b + e
      BY <3>5, <3>6, <3>8
    <3>10. QED
      BY <3>3, <3>6, <3>9
  <2>2. CASE ~present[c]
    BY <1>0, <1>3, <2>2, CoveredFrame DEF StreamEnded
  <2>3. QED
    BY <2>1, <2>2
<1>4. QED
  BY <1>2, <1>3

\* No step takes a cause away.
LEMMA CausesGrow == RxInv /\ [Next]_vars => \A x \in Chan : cause[x] \subseteq cause'[x]
<1> SUFFICES ASSUME RxInv, [Next]_vars PROVE \A x \in Chan : cause[x] \subseteq cause'[x]
  OBVIOUS
<1>0. TypeOK /\ WorkInv /\ cause \in [Chan -> SUBSET Cause]
      /\ {"slide", "notify", "unknown", "removed", "dead", "threw"} \subseteq Cause
  BY DEF RxInv, TypeOK, Cause
<1>1. CASE cause' = cause
  BY <1>1
<1>2. ASSUME NEW ch \in Chan, NEW late \in BOOLEAN, OnRecvBytes(ch, late)
      PROVE  \A x \in Chan : cause[x] \subseteq cause'[x]
  <2>1. CASE late
    BY <1>2, <2>1 DEF OnRecvBytes
  <2>2. QED
    BY <1>0, <1>2, <2>1, RecvEffect
<1>3. ASSUME NEW ch \in Chan, StreamEnded(ch) PROVE \A x \in Chan : cause[x] \subseteq cause'[x]
  <2>1. cause' = cause \/ cause' = Dropped(cause)
    BY <1>3 DEF StreamEnded
  <2>2. QED
    BY <1>0, <2>1, DroppedFacts
<1>4. ASSUME NEW c \in Chan, NEW w \in Cause, cause' = Blame(cause, c, w)
      PROVE  \A x \in Chan : cause[x] \subseteq cause'[x]
  BY <1>0, <1>4, BlameFacts
<1>5. CASE TakeRecv
  <2>1. Head(notify).ch \in Chan
    <3>1. PICK m \in Note : m = Head(notify)
      BY <1>0, <1>5 DEF TypeOK, TakeRecv
    <3>2. QED
      BY <3>1, NoteKinds
  <2>2. QED
    BY <1>0, <1>4, <1>5, <2>1 DEF TakeRecv
<1>6. CASE ReadDgram \/ WorkNewThrows \/ WorkNewUnknown \/ WorkBound
  <2>1. cb.ch \in Chan
    BY <1>0, <1>6 DEF ReadDgram, WorkNewThrows, WorkNewUnknown, WorkBound, WorkInv
  <2>2. \/ cause' = cause \/ cause' = Blame(cause, cb.ch, "unknown")
        \/ cause' = Blame(cause, cb.ch, "dead") \/ cause' = Blame(cause, cb.ch, "threw")
    BY <1>6 DEF ReadDgram, WorkNewThrows, WorkNewUnknown, WorkBound
  <2>3. QED
    BY <1>0, <1>4, <2>1, <2>2
<1>7. QED
  BY <1>1, <1>2, <1>3, <1>5, <1>6 DEF Next, Picoquic, CbNotifier, Session, Quiet, vars,
     RemoveClosedStreams, Close, Register, Unregister, TakeClosed,
     EndLoop, ReadFront, WorkCtrl, WorkNewKnown, WorkUnbound

\* A stream loses its being new with its handler, or with a cause.
LEMMA UnboundNext == RxInv /\ UnboundInv /\ [Next]_vars => UnboundInv'
<1> SUFFICES ASSUME RxInv, UnboundInv, [Next]_vars PROVE UnboundInv'
  OBVIOUS
<1>0. /\ TypeOK /\ WorkInv /\ cause \in [Chan -> SUBSET Cause]
      /\ isNew \in [Chan -> BOOLEAN] /\ bound \in [Chan -> BOOLEAN]
      /\ \A x \in Chan : cause[x] \subseteq cause'[x]
      /\ Uni \subseteq Chan /\ "unknown" \in Cause
  BY CausesGrow DEF RxInv, TypeOK, Chan, Strm, Cause
<1>1. CASE UNCHANGED <<isNew, bound>>
  BY <1>0, <1>1 DEF UnboundInv
<1>2. CASE WorkNewKnown \/ WorkNewThrows
  <2>1. /\ isNew' = [isNew EXCEPT ![cb.ch] = FALSE] /\ bound' = [bound EXCEPT ![cb.ch] = TRUE]
    BY <1>2 DEF WorkNewKnown, WorkNewThrows
  <2>2. QED
    BY <1>0, <2>1 DEF UnboundInv
<1>3. CASE WorkNewUnknown
  <2>1. /\ isNew' = [isNew EXCEPT ![cb.ch] = cb.ch \in Sub] /\ bound' = bound
        /\ cause' = Blame(cause, cb.ch, "unknown") /\ cb.ch \in Chan
    BY <1>0, <1>3 DEF WorkNewUnknown
  <2>2. "unknown" \in cause'[cb.ch]
    BY <1>0, <2>1, BlameFacts
  <2>3. QED
    BY <1>0, <2>1, <2>2 DEF UnboundInv
<1>4. QED
  BY <1>1, <1>2, <1>3 DEF Next, Picoquic, CbNotifier, Session, Quiet, vars, OnRecvBytes,
     StreamEnded, RemoveClosedStreams, Close, Register, Unregister, TakeRecv, TakeClosed,
     EndLoop, ReadFront, ReadDgram, WorkCtrl, WorkBound, WorkUnbound, Take

\* Every step keeps a notification for every buffer.
LEMMA NotifiedNext == RxInv /\ EndInv /\ NotifiedInv /\ [Next]_vars => NotifiedInv'
<1> SUFFICES ASSUME RxInv, EndInv, NotifiedInv, [Next]_vars PROVE NotifiedInv'
  OBVIOUS
<1>0. TypeOK /\ WorkInv /\ UnboundInv /\ \A x \in Chan : cause[x] \subseteq cause'[x]
  BY CausesGrow DEF RxInv, NotifiedInv
<1> SUFFICES ASSUME NEW ch \in Uni PROVE Covered(cause'[ch], rxq'[ch], notify', cb', ch)
  BY <1>0, UnboundNext DEF NotifiedInv
<1>00. ch \in Chan /\ ch # None /\ Covered(cause[ch], rxq[ch], notify, cb, ch)
       /\ ch \notin Ctrl /\ ch \notin Dgram
  BY <1>0, UniFacts DEF NotifiedInv
<1> DEFINE Goal == Covered(cause'[ch], rxq'[ch], notify', cb', ch)
<1>1. ASSUME NEW c \in Chan, NEW late \in BOOLEAN, OnRecvBytes(c, late) PROVE Goal
  BY <1>0, <1>1, RecvCovered
<1>2. CASE TakeClosed \/ \E c \in Chan : StreamEnded(c)
  BY <1>0, <1>2, CoveredEnds
<1>3. CASE UNCHANGED <<rxq, notify, cb>>
  BY <1>0, <1>00, <1>3, CoveredFrame
<1>4. CASE TakeRecv
  BY <1>0, <1>4, CoveredTakeRecv
<1>5. CASE EndLoop
  BY <1>0, <1>5, CoveredEndLoop
<1>6. CASE ReadFront
  <2>1. UNCHANGED <<rxq, notify>> /\ cb' = [cb EXCEPT !.pc = "work", !.b = Head(rxq[cb.ch])]
    BY <1>6 DEF ReadFront
  <2>2. cb'.ch = cb.ch /\ cb'.i = cb.i
    BY <1>0, <2>1 DEF TypeOK
  <2>3. Bonus(cb', ch) = Bonus(cb, ch)
    BY <2>2 DEF Bonus
  <2>4. QED
    BY <1>0, <1>00, <2>1, <2>3, CoveredKept
<1>7. CASE ReadDgram \/ WorkNewKnown \/ WorkBound \/ \E partial \in BOOLEAN : WorkCtrl(partial)
  <2>1. cb.ch \in Chan /\ rxq[cb.ch] # <<>> /\ notify' = notify
    BY <1>0, <1>7 DEF ReadDgram, WorkNewKnown, WorkBound, WorkCtrl, WorkInv, AtHand, LoopOver
  <2>2. \E b, i, h : Take(cb.ch, b, i, h)
    BY <1>7 DEF ReadDgram, WorkNewKnown, WorkBound, WorkCtrl
  <2>3. QED
    BY <1>0, <1>00, <2>1, <2>2, CoveredTake
<1>8. CASE WorkNewUnknown \/ WorkNewThrows
  <2>1. /\ UNCHANGED <<rxq, notify>> /\ cb' = Idle
        /\ cause' = Blame(cause, cb.ch, "unknown") \/ cause' = Blame(cause, cb.ch, "threw")
        /\ cb.ch \in Chan /\ cause \in [Chan -> SUBSET Cause]
        /\ "unknown" \in Cause /\ "threw" \in Cause
    BY <1>0, <1>8 DEF WorkNewUnknown, WorkNewThrows, WorkInv, TypeOK, Cause
  <2>2. Bonus(cb', ch) = 0
    BY <1>00, <2>1 DEF Idle, Bonus
  <2>3. CASE cb.ch = ch
    <3>1. ~Clean(cause'[ch])
      BY <2>1, <2>3, BlameFacts DEF Clean
    <3>2. QED
      BY <3>1 DEF Covered
  <2>4. CASE cb.ch # ch
    <3>1. Bonus(cb, ch) = 0
      BY <2>4 DEF Bonus
    <3>2. QED
      BY <1>0, <1>00, <2>1, <2>2, <3>1, CoveredKept
  <2>5. QED
    BY <2>3, <2>4
<1>9. CASE WorkUnbound
  <2>1. /\ UNCHANGED <<rxq, notify, cause>> /\ cb' = Idle /\ cb.ch \in Uni
        /\ ~isNew[cb.ch] /\ ~bound[cb.ch]
    BY <1>9 DEF WorkUnbound
  <2>2. Bonus(cb', ch) = 0
    BY <1>00, <2>1 DEF Idle, Bonus
  <2>3. CASE cb.ch = ch
    <3>1. ~Clean(cause'[ch])
      BY <1>0, <2>1, <2>3 DEF Clean, UnboundInv
    <3>2. QED
      BY <3>1 DEF Covered
  <2>4. CASE cb.ch # ch
    <3>1. Bonus(cb, ch) = 0
      BY <2>4 DEF Bonus
    <3>2. QED
      BY <1>0, <1>00, <2>1, <2>2, <3>1, CoveredKept
  <2>5. QED
    BY <2>3, <2>4
<1>10. QED
  BY <1>1, <1>2, <1>3, <1>4, <1>5, <1>6, <1>7, <1>8, <1>9 DEF Next, Picoquic, CbNotifier,
     Session, Quiet, vars, RemoveClosedStreams, Close, Register, Unregister

\* The invariants of this part, together.
ReportInv == RxInv /\ EndInv /\ NotifiedInv

LEMMA NotifiedInit == Init => NotifiedInv
<1> SUFFICES ASSUME Init PROVE NotifiedInv
  OBVIOUS
<1>1. TypeOK
  BY InitInv DEF RxInv
<1>2. UnboundInv
  BY DEF Init, UnboundInv, Chan, Strm
<1>3. ASSUME NEW ch \in Uni PROVE Covered(cause[ch], rxq[ch], notify, cb, ch)
  <2>1. Len(rxq[ch]) = 0
    BY <1>1, UniFacts DEF Init
  <2>2. PICK a \in Nat, e \in {0, 1} :
            a = Cardinality(Places(notify, Recv(ch))) /\ e = Bonus(cb, ch)
    BY <1>1, UniFacts
  <2>3. 0 <= a + e
    BY <2>2
  <2>4. QED
    BY <2>1, <2>2, <2>3 DEF Covered
<1>4. QED
  BY <1>2, <1>3 DEF NotifiedInv

LEMMA ReportInvariance == Spec => []ReportInv
<1>1. Init => ReportInv
  BY InitInv, EndInit, NotifiedInit DEF ReportInv
<1>2. ReportInv /\ [Next]_vars => ReportInv'
  BY NextInv, EndNext, NotifiedNext DEF ReportInv
<1>3. QED
  BY <1>1, <1>2, PTL DEF Spec

\* Every buffer queued on a unidirectional stream has a notification of its
\* own in cbNotifyQueue_, or is what the running OnRecvStream is about to
\* take: the stream never waits for the next buffer to be woken.
THEOREM NotifiedCorrect == Spec => []UniNotified
<1>1. ASSUME NEW ch PROVE Pending(ch) = Places(notify, Recv(ch))
  BY DEF Pending, Places
<1>2. ASSUME ReportInv PROVE UniNotified
  <2> SUFFICES ASSUME NEW ch \in Uni, cause[ch] \cap {"notify", "unknown", "removed", "threw"} = {}
               PROVE  Len(rxq[ch]) <= Cardinality(Pending(ch))
                                      + (IF cb.ch = ch /\ cb.i = 0 THEN 1 ELSE 0)
    BY DEF UniNotified
  <2>1. Len(rxq[ch]) <= Cardinality(Places(notify, Recv(ch))) + Bonus(cb, ch)
    BY <1>2 DEF ReportInv, NotifiedInv, Covered, Clean
  <2>2. QED
    BY <1>1, <2>1 DEF Bonus
<1>3. QED
  BY <1>2, ReportInvariance, PTL

\* Taking the end of a stream: all its data was taken before.
LEMMA EndAfterData ==
    ASSUME ReportInv, TakeClosed, NEW ch \in Uni, Head(notify) = ClosedNote(ch), cause[ch] = {}
    PROVE  Len(delivered[ch]) = nrecv[ch]
<1>1. /\ TypeOK /\ notify \in Seq(Note) /\ notify # <<>> /\ cb.ch = None
      /\ After(notify, ClosedNote(ch), Recv(ch)) /\ ch \in Chan /\ ch # None
  <2>1. TypeOK
    BY DEF ReportInv, RxInv
  <2>2. QED
    BY <2>1, UniFacts DEF ReportInv, EndInv, EndOf, TakeClosed
<1>2. Absent(notify, Recv(ch))
  <2>1. Recv(ch) # ClosedNote(ch)
    BY <1>1, NoteFacts
  <2>2. PICK c : c = ClosedNote(ch)
    OBVIOUS
  <2>3. Len(notify) \in Nat /\ notify[1] = c /\ 1 \in 1..Len(notify)
    BY <1>1, <2>2, TailFacts
  <2>4. ASSUME NEW i \in 1..Len(notify) PROVE notify[i] # Recv(ch)
    <3>1. CASE i = 1
      BY <2>1, <2>2, <2>3, <3>1
    <3>2. CASE i # 1
      <4>1. 1 < i
        BY <2>3, <3>2
      <4>2. QED
        BY <1>1, <2>2, <2>3, <4>1 DEF After
    <3>3. QED
      BY <3>1, <3>2
  <2>5. QED
    BY <2>4 DEF Absent
<1>3. Cardinality(Places(notify, Recv(ch))) = 0
  BY <1>1, <1>2, PlacesFinite, UniFacts
<1>4. Bonus(cb, ch) = 0
  BY <1>1 DEF Bonus
<1>5. Clean(cause[ch]) /\ Covered(cause[ch], rxq[ch], notify, cb, ch)
  BY DEF Clean, ReportInv, NotifiedInv
<1>6. Len(rxq[ch]) <= 0 + 0
  BY <1>3, <1>4, <1>5 DEF Covered
<1>7. Len(rxq[ch]) \in Nat
  BY <1>1, UniFacts
<1>8. Counted(delivered[ch], rxq[ch], nrecv[ch]) /\ Len(delivered[ch]) \in Nat
  BY <1>1 DEF ReportInv, RxInv, CountInv, TypeOK
<1>9. Len(delivered[ch]) + Len(rxq[ch]) = nrecv[ch]
  BY <1>8 DEF Counted
<1>10. PICK m \in Nat, n \in Nat, k \in Nat :
           m = Len(delivered[ch]) /\ n = Len(rxq[ch]) /\ k = nrecv[ch]
  BY <1>1, <1>7, <1>8 DEF TypeOK
<1>11. n <= 0 + 0 /\ m + n = k
  BY <1>6, <1>9, <1>10
<1>12. m = k
  BY <1>11
<1>13. QED
  BY <1>10, <1>12

\* kDoneByFin after the last object: when OnStreamClosed runs for a
\* unidirectional stream that lost nothing, every buffer it received has
\* been handed over.
THEOREM AfterDataCorrect == Spec => []ClosedAfterData
<1>1. Init => ClosedAfterData
  BY DEF Init, ClosedAfterData, Chan, Strm
<1>2. ASSUME ReportInv, ClosedAfterData, [Next]_vars PROVE ClosedAfterData'
  <2> SUFFICES ASSUME NEW ch \in Uni, done'[ch], cause'[ch] = {}
               PROVE  Len(delivered'[ch]) = nrecv'[ch]
    BY DEF ClosedAfterData
  <2>1. RxInv /\ EndInv /\ TypeOK
    BY <1>2 DEF ReportInv, RxInv
  <2>2. ch \in Chan /\ ch \in Strm
    BY <2>1, UniFacts
  <2>3. cause[ch] = {}
    BY <1>2, <2>1, <2>2, CausesGrow
  <2>4. CASE done[ch]
    <3>1. delivered'[ch] = delivered[ch] /\ nrecv'[ch] = nrecv[ch]
      BY <1>2, <2>1, <2>2, <2>4, ClosedStays
    <3>2. QED
      BY <1>2, <2>3, <2>4, <3>1 DEF ClosedAfterData
  <2>5. CASE ~done[ch]
    <3>1. TakeClosed
      BY <1>2, <2>5 DEF Next, Picoquic, CbNotifier, Session, Quiet, vars, OnRecvBytes,
         StreamEnded, RemoveClosedStreams, Close, Register, Unregister, TakeRecv,
         EndLoop, ReadFront, ReadDgram, WorkCtrl, WorkNewKnown, WorkNewThrows, WorkNewUnknown,
         WorkBound, WorkUnbound
    <3>2. PICK m \in Note : m = Head(notify)
      BY <2>1, <3>1 DEF TypeOK, TakeClosed
    <3>3. m.ch \in Chan /\ m = ClosedNote(m.ch)
      BY <3>1, <3>2, NoteKinds DEF TakeClosed
    <3>4. done' = [done EXCEPT ![m.ch] = TRUE] /\ UNCHANGED <<delivered, nrecv>>
      BY <3>1, <3>2 DEF TakeClosed
    <3>5. m.ch = ch
      BY <2>1, <2>2, <2>5, <3>3, <3>4 DEF TypeOK
    <3>6. Len(delivered[ch]) = nrecv[ch]
      BY <1>2, <2>3, <3>1, <3>2, <3>3, <3>5, EndAfterData
    <3>7. QED
      BY <3>4, <3>6
  <2>6. QED
    BY <2>4, <2>5
<1>3. QED
  BY <1>1, <1>2, ReportInvariance, PTL DEF Spec

-----------------------------------------------------------------------------
(* The receive path implements Delivery. *)

\* The buffers in a queue, and the one the notifier has at hand.
Rng(q) == {q[i] : i \in 1..Len(q)}
Hand(c, ch) == IF c.pc = "work" /\ c.ch = ch THEN {c.b} ELSE {}

LEMMA WaitingIs ==
    /\ \A ch \in Chan : Waiting[ch] = Rng(rxq[ch]) \cup Hand(cb, ch)
    /\ \A ch \in Chan : Waiting'[ch] = Rng(rxq'[ch]) \cup Hand(cb', ch)
  BY DEF Waiting, Rng, Hand

\* A push adds the new buffer, and takes one away at most when the queue slides.
LEMMA PushRange ==
    ASSUME NEW p, NEW q, NEW x, NEW k, Len(q) \in Nat, Pushed(p, q, x, k)
    PROVE  Rng(p) \subseteq Rng(q) \cup {x} /\ (k = 0 => Rng(p) = Rng(q) \cup {x})
<1>0. PICK l \in Nat : l = Len(q)
  OBVIOUS
<1>1. /\ k \in {0, 1} /\ k <= l /\ Len(p) = l + 1 - k /\ p[l + 1 - k] = x
      /\ \A i \in 1..(l - k) : p[i] = q[i + k]
  BY <1>0 DEF Pushed
<1>2. ASSUME NEW i \in 1..(l + 1 - k) PROVE p[i] \in Rng(q) \cup {x}
  <2>1. CASE i = l + 1 - k
    BY <1>1, <2>1
  <2>2. CASE i # l + 1 - k
    <3>1. i \in 1..(l - k) /\ i + k \in 1..l
      BY <1>1, <2>2
    <3> QED
      BY <1>0, <1>1, <3>1 DEF Rng
  <2> QED
    BY <2>1, <2>2
<1>3. ASSUME k = 0, NEW i \in 1..l PROVE q[i] \in Rng(p)
  <2>1. p[i] = q[i] /\ i \in 1..Len(p)
    BY <1>1, <1>3
  <2> QED
    BY <2>1 DEF Rng
<1>4. k = 0 => x \in Rng(p)
  <2>1. k = 0 => l + 1 \in 1..Len(p) /\ p[l + 1] = x
    BY <1>1
  <2> QED
    BY <2>1 DEF Rng
<1>5. Rng(p) \subseteq Rng(q) \cup {x}
  BY <1>1, <1>2 DEF Rng
<1>6. k = 0 => Rng(q) \subseteq Rng(p)
  BY <1>0, <1>3 DEF Rng
<1> QED
  BY <1>4, <1>5, <1>6

\* What PopFront leaves is ahead of the buffer at hand.
LEMMA TailRange ==
    ASSUME NEW M \in Nat, NEW q \in Seq(1..M), q # <<>>, NEW b \in Nat, b <= q[1],
           \A i, j \in 1..Len(q) : i < j => q[i] < q[j]
    PROVE  /\ Rng(Tail(q)) \subseteq Rng(q) \ {b} /\ Rng(Tail(q)) = Rng(q) \ {q[1]}
           /\ q[1] \in Rng(q) /\ \A m \in Rng(q) : b <= m
<1>1. PICK l \in Nat : l = Len(q) /\ l > 0 /\ \A i \in 1..l : q[i] \in Nat
  BY SeqFacts DEF IsNums
<1>2. Len(Tail(q)) = l - 1 /\ \A i \in 1..(l - 1) : Tail(q)[i] = q[i + 1]
  BY <1>1, TailFacts
<1>3. \A i, j \in 1..l : i < j => q[i] < q[j]
  BY <1>1
<1>4. ASSUME NEW i \in 1..l PROVE b <= q[i] /\ q[i] \in Nat /\ (i # 1 => q[1] < q[i])
  <2>1. 1 \in 1..l /\ q[1] \in Nat /\ q[i] \in Nat /\ (i # 1 => 1 < i)
    BY <1>1
  <2>2. i # 1 => q[1] < q[i]
    BY <1>3, <2>1
  <2> QED
    BY <2>1, <2>2
<1>5. ASSUME NEW i \in 1..(l - 1) PROVE Tail(q)[i] \in Rng(q) /\ Tail(q)[i] # q[1] /\ Tail(q)[i] # b
  <2>1. i + 1 \in 1..l /\ i + 1 # 1 /\ Tail(q)[i] = q[i + 1]
    BY <1>2
  <2>2. PICK v \in Nat, w \in Nat : v = q[1] /\ w = q[i + 1]
    BY <1>1, <2>1
  <2>3. v < w /\ b <= v
    BY <1>4, <2>1, <2>2
  <2>4. w # v /\ w # b
    BY <2>3
  <2> QED
    BY <1>1, <2>1, <2>2, <2>4 DEF Rng
<1>6. ASSUME NEW i \in 1..l, i # 1 PROVE q[i] \in Rng(Tail(q))
  <2>1. i - 1 \in 1..(l - 1) /\ (i - 1) + 1 = i
    BY <1>6
  <2>2. Tail(q)[i - 1] = q[i]
    BY <1>2, <2>1
  <2> QED
    BY <1>2, <2>1, <2>2 DEF Rng
<1>7. q[1] \in Rng(q)
  BY <1>1 DEF Rng
<1>8. Rng(Tail(q)) \subseteq Rng(q) /\ q[1] \notin Rng(Tail(q)) /\ b \notin Rng(Tail(q))
  BY <1>2, <1>5 DEF Rng
<1>9. Rng(q) \ {q[1]} \subseteq Rng(Tail(q))
  <2>1. ASSUME NEW m \in Rng(q), m # q[1] PROVE m \in Rng(Tail(q))
    <3>1. PICK i \in 1..l : m = q[i]
      BY <1>1 DEF Rng
    <3> QED
      BY <1>6, <2>1, <3>1
  <2> QED
    BY <2>1
<1>10. \A m \in Rng(q) : b <= m
  BY <1>1, <1>4 DEF Rng
<1> QED
  BY <1>7, <1>8, <1>9, <1>10

\* The causes, as Delivery sees them.
Lossy == [ch \in Chan |-> cause[ch] # {}]
Over == [ch \in Chan |-> ch \in Strm /\ done[ch]]

LEMMA LossyIs ==
    ASSUME \A x \in Chan : cause[x] \subseteq cause'[x]
    PROVE  /\ \A x \in Chan : Lossy[x] => Lossy'[x]
           /\ \A x \in Chan : ~Lossy'[x] => cause'[x] = {}
  BY Zenon DEF Lossy

\* Steps that leave queues and buffer at hand alone.
LEMMA QuietStep ==
    ASSUME UNCHANGED <<rxq, cb, nrecv, delivered, refused, done, cause>>
    PROVE  UNCHANGED Promise!vars
  BY DEF Promise!vars, Waiting

\* Buffers are left alone, but for one at hand that its queue has lost.
LEMMA LoseStep ==
    ASSUME NEW ch \in Chan, UNCHANGED <<nrecv, delivered, refused, done>>,
           Waiting'[ch] \subseteq Waiting[ch], cause'[ch] = {} => Waiting'[ch] = Waiting[ch],
           \A x \in Chan \ {ch} : Waiting'[x] = Waiting[x],
           \A x \in Chan : cause[x] \subseteq cause'[x]
    PROVE  Promise!Next
<1>1. Waiting'[ch] \subseteq Waiting[ch] /\ (~Lossy'[ch] => Waiting'[ch] = Waiting[ch])
  BY LossyIs
<1>2. Over' = Over /\ \A x \in Chan : Lossy[x] => Lossy'[x]
  BY LossyIs DEF Over
<1> QED
  BY <1>1, <1>2, Zenon DEF Promise!Next, Promise!Lose, Promise!Remains, Lossy, Over

\* OnRecvBytes is an arrival.
LEMMA ArriveStep ==
    ASSUME RxInv, NEW ch \in Chan, NEW late \in BOOLEAN, OnRecvBytes(ch, late), ~late
    PROVE  Promise!Next
<1>0. TypeOK /\ MaxBuf \in Nat /\ QueueLimit \in Nat /\ rxq \in [Chan -> Seq(1..MaxBuf)]
  BY LimitAssumption DEF RxInv, TypeOK
<1>1. PICK p, q, n : p = Push(rxq[ch], nrecv[ch] + 1, QueueLimit) /\ q = rxq[ch] /\ n = nrecv[ch] + 1
  OBVIOUS
<1>2. /\ rxq' = [rxq EXCEPT ![ch] = p] /\ nrecv' = [nrecv EXCEPT ![ch] = nrecv[ch] + 1] /\ n \in 1..MaxBuf
      /\ \A x \in Chan : cause[x] \subseteq cause'[x]
      /\ Full(q, QueueLimit) => cause'[ch] # {}
      /\ cb' = cb /\ delivered' = delivered
  BY <1>0, <1>1, RecvEffect
<1>3. PICK k \in {0, 1} : Pushed(p, q, n, k) /\ (k = 1 => Full(q, QueueLimit)) /\ Len(q) \in Nat
  <2>1. q \in Seq(1..MaxBuf) /\ p = Push(q, n, QueueLimit)
    BY <1>0, <1>1
  <2>2. /\ Full(q, QueueLimit) => Pushed(p, q, n, 1)
        /\ ~Full(q, QueueLimit) => Pushed(p, q, n, 0)
    BY <1>0, <1>2, <2>1, PushShape
  <2> QED
    BY <1>0, <2>1, <2>2, SeqFacts DEF IsNums
<1>4. Rng(p) \subseteq Rng(q) \cup {n} /\ (k = 0 => Rng(p) = Rng(q) \cup {n})
  BY <1>3, PushRange
<1>5. /\ Waiting[ch] = Rng(q) \cup Hand(cb, ch) /\ Waiting'[ch] = Rng(p) \cup Hand(cb, ch)
      /\ \A x \in Chan \ {ch} : Waiting'[x] = Waiting[x]
  BY <1>0, <1>1, <1>2, WaitingIs
<1>6. Waiting'[ch] \subseteq Waiting[ch] \cup {n} /\ (~Lossy'[ch] => Waiting'[ch] = Waiting[ch] \cup {n})
  <2>1. ~Lossy'[ch] => k = 0
    BY <1>2, <1>3, LossyIs
  <2> QED
    BY <1>4, <1>5, <2>1
<1>7. Over' = Over /\ \A x \in Chan : Lossy[x] => Lossy'[x]
  BY <1>2, LossyIs DEF Over, OnRecvBytes
<1>8. \A x \in Chan \ {ch} : Waiting'[x] = Waiting[x]
  BY <1>5
<1>9. /\ Waiting'[ch] \subseteq Waiting[ch] \cup {nrecv[ch] + 1}
      /\ ~Lossy'[ch] => Waiting'[ch] = Waiting[ch] \cup {nrecv[ch] + 1}
  BY <1>1, <1>6
<1>10. nrecv' = [nrecv EXCEPT ![ch] = nrecv[ch] + 1] /\ delivered' = delivered /\ refused' = refused
  BY <1>2 DEF OnRecvBytes
<1> QED
  BY <1>7, <1>8, <1>9, <1>10, Zenon DEF Promise!Next, Promise!Arrive, Promise!Remains, Lossy, Over

\* PopFront with buffer b at hand: a delivery, or a loss.
LEMMA HandOverStep ==
    ASSUME RxInv, cb.pc # "idle", NEW ch \in Chan, ch = cb.ch, NEW b \in Nat,
           cb.pc = "work" => b = cb.b, cb.pc # "work" => b = rxq[ch][1],
           AtHand(b, delivered[ch], rxq[ch]), cause[ch] = {} => b = rxq[ch][1],
           ~(ch \in Strm /\ done[ch]), NEW i, NEW h \in BOOLEAN, Take(ch, b, i, h),
           ~h => cause'[ch] # {}, UNCHANGED <<nrecv, refused, done>>,
           \A x \in Chan : cause[x] \subseteq cause'[x]
    PROVE  Promise!Next
<1>0. /\ MaxBuf \in Nat /\ rxq \in [Chan -> Seq(1..MaxBuf)] /\ delivered \in [Chan -> Seq(1..MaxBuf)]
      /\ Ordered(delivered[ch], rxq[ch], nrecv[ch])
      /\ cb \in [pc : {"idle", "front", "work"}, ch : Chan \cup {None}, i : 0..LoopMax, b : 0..MaxBuf]
  BY LimitAssumption DEF RxInv, TypeOK, QueueInv
<1>1. PICK q : q = rxq[ch]
  OBVIOUS
<1>2. /\ q \in Seq(1..MaxBuf) /\ q # <<>> /\ b <= q[1] /\ \A j, k \in 1..Len(q) : j < k => q[j] < q[k]
  BY <1>0, <1>1 DEF AtHand, Ordered
<1>3. /\ Rng(Tail(q)) \subseteq Rng(q) \ {b} /\ Rng(Tail(q)) = Rng(q) \ {q[1]}
      /\ q[1] \in Rng(q) /\ \A m \in Rng(q) : b <= m
  BY <1>0, <1>2, TailRange
<1>4. /\ rxq' = [rxq EXCEPT ![ch] = Tail(q)] /\ cb'.pc = "front"
      /\ delivered' = IF h THEN [delivered EXCEPT ![ch] = Append(@, b)] ELSE delivered
  BY <1>0, <1>1 DEF Take
<1>5. Waiting[ch] = Rng(q) \cup {b}
  <2>1. CASE cb.pc = "work"
    BY <1>1, <2>1, WaitingIs DEF Hand
  <2>2. CASE cb.pc # "work"
    <3>1. Hand(cb, ch) = {}
      BY <2>2 DEF Hand
    <3> QED
      BY <1>1, <1>3, <2>2, <3>1, WaitingIs
  <2> QED
    BY <2>1, <2>2
<1>6. Waiting'[ch] = Rng(Tail(q)) /\ \A x \in Chan \ {ch} : Waiting'[x] = Waiting[x]
  <2>1. \A x \in Chan : Hand(cb', x) = {}
    BY <1>4 DEF Hand
  <2>2. \A x \in Chan \ {ch} : Hand(cb, x) = {}
    BY DEF Hand
  <2>3. rxq'[ch] = Tail(q) /\ \A x \in Chan \ {ch} : rxq'[x] = rxq[x]
    BY <1>0, <1>4
  <2>4. /\ \A x \in Chan : Waiting[x] = Rng(rxq[x]) \cup Hand(cb, x)
        /\ \A x \in Chan : Waiting'[x] = Rng(rxq'[x]) \cup Hand(cb', x)
    BY WaitingIs
  <2>5. Waiting'[ch] = Rng(Tail(q))
    BY <2>1, <2>3, <2>4
  <2>6. ASSUME NEW x \in Chan \ {ch} PROVE Waiting'[x] = Waiting[x]
    <3>1. Waiting[x] = Rng(rxq[x]) \cup {} /\ Waiting'[x] = Rng(rxq'[x]) \cup {}
      <4>1. x \in Chan /\ Hand(cb, x) = {} /\ Hand(cb', x) = {}
        BY <2>1, <2>2, <2>6
      <4> QED
        BY <2>4, <4>1
    <3>2. rxq'[x] = rxq[x]
      BY <2>3, <2>6
    <3> QED
      BY <3>1, <3>2
  <2> QED
    BY <2>5, <2>6
<1>7. CASE h
  <2>1. Waiting'[ch] \subseteq Waiting[ch] \ {b}
    BY <1>3, <1>5, <1>6
  <2>2. ~Lossy'[ch] => Waiting'[ch] = Waiting[ch] \ {b}
    <3>1. ~Lossy'[ch] => b = q[1]
      BY <1>1, LossyIs
    <3> QED
      BY <1>3, <1>5, <1>6, <3>1
  <2>3. b \in Waiting[ch] /\ \A m \in Waiting[ch] : b <= m
    BY <1>3, <1>5
  <2>4. ~Over[ch] /\ Over' = Over
    BY DEF Over
  <2>5. delivered' = [delivered EXCEPT ![ch] = Append(delivered[ch], b)] /\ UNCHANGED <<nrecv, refused>>
    BY <1>4, <1>7
  <2>6. /\ \A x \in Chan \ {ch} : Waiting'[x] = Waiting[x]
        /\ \A x \in Chan : Lossy[x] => Lossy'[x]
    BY <1>6, LossyIs
  <2>7. \E n \in Waiting[ch] :
          /\ \A m \in Waiting[ch] : n <= m
          /\ delivered' = [delivered EXCEPT ![ch] = Append(delivered[ch], n)]
          /\ Waiting'[ch] \subseteq Waiting[ch] \ {n}
          /\ ~Lossy'[ch] => Waiting'[ch] = Waiting[ch] \ {n}
          /\ \A x \in Chan \ {ch} : Waiting'[x] = Waiting[x]
          /\ \A x \in Chan : Lossy[x] => Lossy'[x]
    BY <2>1, <2>2, <2>3, <2>5, <2>6
  <2>8. Promise!HandOver(ch)
    BY <2>4, <2>5, <2>7, Zenon DEF Promise!HandOver, Promise!Remains, Lossy, Over
  <2> QED
    BY <2>8 DEF Promise!Next
<1>8. CASE ~h
  <2>1. Waiting'[ch] \subseteq Waiting[ch] /\ cause'[ch] # {} /\ delivered' = delivered
    BY <1>3, <1>4, <1>5, <1>6, <1>8
  <2> QED
    BY <1>6, <2>1, LoseStep
<1> QED
  BY <1>7, <1>8

\* The loop is left with a buffer at hand, which stays in its queue or was pushed out.
LEMMA LeaveShape ==
    ASSUME RxInv, cb.pc = "work", cb' = Idle, UNCHANGED <<rxq, nrecv, delivered, done>>,
           \A x \in Chan : cause[x] \subseteq cause'[x]
    PROVE  \E ch \in Chan :
             /\ ch = cb.ch /\ Waiting[ch] = Rng(rxq[ch]) \cup {cb.b}
             /\ AtHand(cb.b, delivered[ch], rxq[ch]) /\ rxq[ch] \in Seq(1..MaxBuf)
             /\ Waiting'[ch] \subseteq Waiting[ch] /\ (cause'[ch] = {} => Waiting'[ch] = Waiting[ch])
             /\ \A x \in Chan \ {ch} : Waiting'[x] = Waiting[x]
<1>1. PICK ch \in Chan : ch = cb.ch
  BY DEF RxInv, WorkInv
<1>2. /\ AtHand(cb.b, delivered[ch], rxq[ch]) /\ (cause[ch] = {} => cb.b = rxq[ch][1])
      /\ MaxBuf \in Nat /\ rxq[ch] \in Seq(1..MaxBuf)
  BY <1>1, LimitAssumption DEF RxInv, WorkInv, TypeOK
<1>3. rxq[ch][1] \in Rng(rxq[ch])
  <2>1. Len(rxq[ch]) \in Nat /\ Len(rxq[ch]) > 0
    BY <1>2, SeqFacts DEF AtHand, IsNums
  <2>2. 1 \in 1..Len(rxq[ch])
    BY <2>1
  <2> QED
    BY <2>2 DEF Rng
<1>4. cb'.pc = "idle" /\ \A x \in Chan : Hand(cb', x) = {}
  BY DEF Idle, Hand
<1>5. Hand(cb, ch) = {cb.b} /\ \A x \in Chan \ {ch} : Hand(cb, x) = {}
  BY <1>1 DEF Hand
<1>6. Waiting[ch] = Rng(rxq[ch]) \cup {cb.b} /\ Waiting'[ch] = Rng(rxq[ch])
  BY <1>4, <1>5, WaitingIs
<1>7. ASSUME NEW x \in Chan \ {ch} PROVE Waiting'[x] = Waiting[x]
  <2>1. x \in Chan /\ Hand(cb, x) = {} /\ Hand(cb', x) = {}
    BY <1>4, <1>5
  <2> QED
    BY <2>1, WaitingIs
<1>8. Waiting'[ch] \subseteq Waiting[ch] /\ (cause'[ch] = {} => Waiting'[ch] = Waiting[ch])
  <2>1. cause'[ch] = {} => cb.b \in Rng(rxq[ch])
    BY <1>2, <1>3
  <2> QED
    BY <1>6, <2>1
<1> QED
  BY <1>1, <1>2, <1>6, <1>7, <1>8

LEMMA LeaveStep ==
    ASSUME RxInv, cb.pc = "work", cb' = Idle, UNCHANGED <<rxq, nrecv, delivered, refused, done>>,
           \A x \in Chan : cause[x] \subseteq cause'[x]
    PROVE  Promise!Next
  BY LeaveShape, LoseStep

\* An exception broke the hand-over of a new stream's first buffer off.
LEMMA RefuseStep ==
    ASSUME RxInv, NEW ch \in Chan, ch = cb.ch, cb.pc = "work", cb' = Idle,
           UNCHANGED <<rxq, nrecv, delivered, done>>,
           \A x \in Chan : cause[x] \subseteq cause'[x],
           refused' = [refused EXCEPT ![ch] = cb.b], cause'[ch] # {},
           delivered[ch] = <<>>, refused[ch] = 0, ~(ch \in Strm /\ done[ch])
    PROVE  Promise!Next
<1>0. /\ Waiting[ch] = Rng(rxq[ch]) \cup {cb.b}
      /\ AtHand(cb.b, delivered[ch], rxq[ch]) /\ rxq[ch] \in Seq(1..MaxBuf)
      /\ Waiting'[ch] \subseteq Waiting[ch] /\ (cause'[ch] = {} => Waiting'[ch] = Waiting[ch])
      /\ \A x \in Chan \ {ch} : Waiting'[x] = Waiting[x]
  BY LeaveShape
<1>1. \E n \in Waiting[ch] :
        /\ \A m \in Waiting[ch] : n <= m
        /\ refused' = [refused EXCEPT ![ch] = n]
  <2>1. cb.b \in Waiting[ch]
    BY <1>0
  <2>2. ASSUME NEW m \in Waiting[ch] PROVE cb.b <= m
    <3>1. cb.b \in Nat /\ rxq[ch][1] \in Nat /\ cb.b <= rxq[ch][1]
      BY <1>0, LimitAssumption, SeqFacts, TailFacts, SMTT(40) DEF AtHand, RxInv, TypeOK
    <3>2. CASE m = cb.b
      BY <3>1, <3>2
    <3>3. CASE m \in Rng(rxq[ch])
      <4>1. PICK j \in 1..Len(rxq[ch]) : m = rxq[ch][j]
        BY <3>3 DEF Rng
      <4>2. m \in Nat /\ Len(rxq[ch]) \in Nat /\ 1 \in 1..Len(rxq[ch])
        BY <1>0, <4>1, LimitAssumption, SeqFacts DEF IsNums
      <4>3. j > 1 => rxq[ch][1] < rxq[ch][j]
        BY <4>1, <4>2 DEF RxInv, QueueInv, Ordered
      <4>4. CASE j = 1
        BY <3>1, <4>1, <4>4
      <4>5. CASE j # 1
        <5>1. rxq[ch][1] < m
          BY <4>1, <4>2, <4>3, <4>5
        <5> QED
          BY <3>1, <4>2, <5>1
      <4> QED
        BY <4>4, <4>5
    <3> QED
      BY <1>0, <3>2, <3>3
  <2> QED
    BY <2>1, <2>2
<1>2. Waiting'[ch] \subseteq Waiting[ch] /\ (~Lossy'[ch] => Waiting'[ch] = Waiting[ch])
  BY <1>0, LossyIs
<1>3. /\ Over' = Over /\ ~Over[ch] /\ Lossy'[ch]
      /\ \A x \in Chan : Lossy[x] => Lossy'[x]
      /\ \A x \in Chan \ {ch} : Waiting'[x] = Waiting[x]
  BY <1>0, LossyIs DEF Over
<1>4. Promise!Refuse(ch)
  BY <1>1, <1>2, <1>3, Zenon DEF Promise!Refuse, Promise!Remains, Lossy, Over
<1> QED
  BY <1>4 DEF Promise!Next

\* Nothing is at hand before or after, or the front of the queue is.
LEMMA PlaceWaiting ==
    ASSUME TypeOK, rxq' = rxq, cb.pc # "work",
           cb'.pc = "work" => /\ cb'.ch \in Chan /\ rxq[cb'.ch] # <<>> /\ cb'.b = rxq[cb'.ch][1]
    PROVE  Waiting' = Waiting
<1>1. ASSUME NEW x \in Chan PROVE Rng(rxq'[x]) \cup Hand(cb', x) = Rng(rxq[x]) \cup Hand(cb, x)
  <2>1. Hand(cb, x) = {}
    BY DEF Hand
  <2>2. CASE cb'.pc = "work" /\ cb'.ch = x
    <3>1. Hand(cb', x) = {rxq[x][1]} /\ rxq[x] # <<>>
      BY <2>2 DEF Hand
    <3>2. Len(rxq[x]) \in Nat /\ Len(rxq[x]) > 0
      BY <3>1, LimitAssumption, SeqFacts DEF IsNums, TypeOK
    <3>3. 1 \in 1..Len(rxq[x])
      BY <3>2
    <3>4. rxq[x][1] \in Rng(rxq[x])
      BY <3>3 DEF Rng
    <3> QED
      BY <2>1, <3>1, <3>4
  <2>3. CASE ~(cb'.pc = "work" /\ cb'.ch = x)
    <3>1. Hand(cb', x) = {}
      BY <2>3 DEF Hand
    <3> QED
      BY <2>1, <3>1
  <2> QED
    BY <2>2, <2>3
<1>2. /\ Waiting = [x \in Chan |-> Rng(rxq[x]) \cup Hand(cb, x)]
      /\ Waiting' = [x \in Chan |-> Rng(rxq'[x]) \cup Hand(cb', x)]
  BY DEF Waiting, Rng, Hand
<1> QED
  BY <1>1, <1>2

\* A stream that is still new has handed nothing over, and nothing was refused.
FreshInv == \A ch \in Uni : isNew[ch] => delivered[ch] = <<>> /\ refused[ch] = 0

LEMMA FreshInit == Init => FreshInv
  BY DEF Init, FreshInv, Chan, Strm

LEMMA FreshNext == RxInv /\ FreshInv /\ [Next]_vars => FreshInv'
<1> SUFFICES ASSUME RxInv, FreshInv, [Next]_vars, NEW ch \in Uni, isNew'[ch]
             PROVE  delivered'[ch] = <<>> /\ refused'[ch] = 0
  BY DEF FreshInv
<1>0. /\ TypeOK /\ WorkInv /\ ch \in Chan /\ ch \notin Ctrl /\ ch \notin Dgram
      /\ isNew \in [Chan -> BOOLEAN] /\ delivered \in [Chan -> Seq(1..MaxBuf)]
      /\ refused \in [Chan -> 0..MaxBuf]
  BY UniFacts DEF RxInv, TypeOK
<1>1. CASE UNCHANGED <<isNew, delivered, refused>>
  BY <1>1 DEF FreshInv
<1>2. ASSUME NEW b, NEW i, NEW h, Take(cb.ch, b, i, h), refused' = refused, cb.ch # ch,
             isNew'[ch] = isNew[ch]
      PROVE  delivered'[ch] = <<>> /\ refused'[ch] = 0
  BY <1>0, <1>2 DEF Take, FreshInv
<1>3. CASE ReadDgram
  BY <1>0, <1>2, <1>3 DEF ReadDgram
<1>4. ASSUME NEW partial \in BOOLEAN, WorkCtrl(partial)
      PROVE  delivered'[ch] = <<>> /\ refused'[ch] = 0
  BY <1>0, <1>2, <1>4 DEF WorkCtrl
<1>5. CASE WorkNewKnown
  <2>1. cb.ch # ch /\ isNew'[ch] = isNew[ch]
    BY <1>0, <1>5 DEF WorkNewKnown, WorkInv
  <2> QED
    BY <1>2, <1>5, <2>1 DEF WorkNewKnown
<1>6. CASE WorkBound
  <2>1. cb.ch # ch /\ isNew'[ch] = isNew[ch]
    BY <1>0, <1>6 DEF WorkBound
  <2> QED
    BY <1>2, <1>6, <2>1 DEF WorkBound
<1>7. CASE WorkNewThrows
  BY <1>0, <1>7 DEF WorkNewThrows, WorkInv, FreshInv
<1>8. CASE WorkNewUnknown
  <2>1. isNew[ch] /\ UNCHANGED <<delivered, refused>>
    BY <1>0, <1>8 DEF WorkNewUnknown, WorkInv
  <2> QED
    BY <2>1 DEF FreshInv
<1> QED
  BY <1>1, <1>3, <1>4, <1>5, <1>6, <1>7, <1>8 DEF Next, Picoquic, CbNotifier, Session, Quiet,
     vars, OnRecvBytes, StreamEnded, RemoveClosedStreams, Close, Register, Unregister, TakeRecv,
     TakeClosed, EndLoop, ReadFront, WorkUnbound

\* Every step of the receive path is one of Delivery, or invisible to it.
LEMMA DeliveryStep ==
    ASSUME RxInv, EndInv, FreshInv, [Next]_vars
    PROVE  [Promise!Next]_(Promise!vars)
<1>0. TypeOK /\ WorkInv /\ \A x \in Chan : cause[x] \subseteq cause'[x]
  BY CausesGrow DEF RxInv
<1>1. ASSUME NEW ch \in Chan, NEW late \in BOOLEAN, OnRecvBytes(ch, late)
      PROVE  [Promise!Next]_(Promise!vars)
  <2>1. CASE late
    <3>1. UNCHANGED <<rxq, cb, nrecv, delivered, refused, done, cause>>
      BY <1>1, <2>1 DEF OnRecvBytes
    <3> QED
      BY <3>1, QuietStep
  <2>2. CASE ~late
    BY <1>1, <2>2, ArriveStep
  <2> QED
    BY <2>1, <2>2
<1>2. ASSUME NEW ch \in Chan, StreamEnded(ch) PROVE [Promise!Next]_(Promise!vars)
  <2>1. UNCHANGED <<rxq, cb, nrecv, delivered, refused, done>>
    BY <1>2 DEF StreamEnded
  <2>2. Waiting' = Waiting
    BY <2>1 DEF Waiting
  <2> QED
    BY <1>0, <2>1, <2>2, LoseStep
<1>3. CASE RemoveClosedStreams \/ Close \/ UNCHANGED vars
  <2>1. UNCHANGED <<rxq, cb, nrecv, delivered, refused, done, cause>>
    BY <1>3 DEF RemoveClosedStreams, Close, vars
  <2> QED
    BY <2>1, QuietStep
<1>4. ASSUME NEW ch \in Chan, Register(ch) \/ Unregister(ch) PROVE [Promise!Next]_(Promise!vars)
  <2>1. UNCHANGED <<rxq, cb, nrecv, delivered, refused, done, cause>>
    BY <1>4 DEF Register, Unregister
  <2> QED
    BY <2>1, QuietStep
<1>5. CASE TakeRecv
  <2>1. PICK ch \in Chan : ch = Head(notify).ch
    <3>1. PICK m \in Note : m = Head(notify)
      BY <1>0, <1>5 DEF TypeOK, TakeRecv
    <3> QED
      BY <3>1, NoteKinds
  <2>2. UNCHANGED <<rxq, nrecv, delivered, refused, done>> /\ cb.pc = "idle" /\ cb'.pc \in {"idle", "front"}
    BY <1>5, <2>1 DEF TakeRecv
  <2>3. Waiting' = Waiting
    BY <1>0, <2>2, PlaceWaiting
  <2> QED
    BY <1>0, <2>1, <2>2, <2>3, LoseStep
<1>6. CASE TakeClosed
  <2>1. PICK ch \in Chan : ch = Head(notify).ch
    <3>1. PICK m \in Note : m = Head(notify)
      BY <1>0, <1>6 DEF TypeOK, TakeClosed
    <3> QED
      BY <3>1, NoteKinds
  <2>2. UNCHANGED <<rxq, cb, nrecv, delivered, refused, cause>> /\ done' = [done EXCEPT ![ch] = TRUE]
    BY <1>6, <2>1 DEF TakeClosed
  <2>3. Waiting' = Waiting /\ Lossy' = Lossy
    BY <2>2 DEF Waiting, Lossy
  <2>4. done \in [Chan -> BOOLEAN]
    BY <1>0 DEF TypeOK
  <2>5. CASE ch \in Strm
    <3>1. Over' = [Over EXCEPT ![ch] = TRUE]
      BY <2>2, <2>4, <2>5 DEF Over
    <3> QED
      BY <2>2, <2>3, <3>1, Zenon DEF Promise!Next, Promise!End, Promise!Remains, Lossy, Over
  <2>6. CASE ch \notin Strm
    <3>1. Over' = Over
      BY <2>2, <2>4, <2>6 DEF Over
    <3> QED
      BY <2>2, <2>3, <3>1 DEF Promise!vars, Lossy, Over
  <2> QED
    BY <2>5, <2>6
<1>7. CASE EndLoop \/ ReadFront
  <2>1. UNCHANGED <<rxq, nrecv, delivered, refused, done, cause>> /\ cb.pc = "front" /\ cb.ch \in Chan
    BY <1>0, <1>7 DEF EndLoop, ReadFront, WorkInv
  <2>2. cb'.pc = "work" => cb'.ch \in Chan /\ rxq[cb'.ch] # <<>> /\ cb'.b = rxq[cb'.ch][1]
    <3>1. CASE EndLoop
      BY <3>1 DEF EndLoop, Idle
    <3>2. CASE ReadFront
      <4>1. rxq[cb.ch] # <<>> /\ cb' = [cb EXCEPT !.pc = "work", !.b = Head(rxq[cb.ch])]
        BY <3>2 DEF ReadFront, LoopOver
      <4>2. Head(rxq[cb.ch]) = rxq[cb.ch][1]
        <5>1. rxq[cb.ch] \in Seq(1..MaxBuf)
          BY <1>0, <2>1 DEF TypeOK
        <5> QED
          BY <4>1, <5>1, TailFacts
      <4>3. cb'.ch = cb.ch /\ cb'.b = Head(rxq[cb.ch])
        BY <1>0, <4>1 DEF TypeOK
      <4> QED
        BY <2>1, <4>1, <4>2, <4>3
    <3> QED
      BY <1>7, <3>1, <3>2
  <2>3. Waiting' = Waiting
    BY <1>0, <2>1, <2>2, PlaceWaiting
  <2> QED
    BY <2>1, <2>3 DEF Promise!vars
<1>8. CASE WorkNewUnknown \/ WorkUnbound
  <2>1. cb.pc = "work" /\ cb' = Idle /\ UNCHANGED <<rxq, nrecv, delivered, refused, done>>
    BY <1>8 DEF WorkNewUnknown, WorkUnbound
  <2> QED
    BY <1>0, <2>1, LeaveStep
<1>81. CASE WorkNewThrows
  <2>1. /\ cb.pc = "work" /\ cb' = Idle /\ UNCHANGED <<rxq, nrecv, delivered, done>>
        /\ cb.ch \in Uni /\ isNew[cb.ch] /\ refused' = [refused EXCEPT ![cb.ch] = cb.b]
        /\ cause' = Blame(cause, cb.ch, "threw")
    BY <1>81 DEF WorkNewThrows
  <2>2. delivered[cb.ch] = <<>> /\ refused[cb.ch] = 0
    BY <2>1 DEF FreshInv
  <2>3. ~(cb.ch \in Strm /\ done[cb.ch])
    BY <2>1 DEF EndInv, EndOf
  <2>4. cause'[cb.ch] # {}
    <3>1. cause \in [Chan -> SUBSET Cause] /\ "threw" \in Cause /\ cb.ch \in Chan
      BY <1>0, <2>1 DEF TypeOK, Cause, WorkInv
    <3> QED
      BY <2>1, <3>1, BlameFacts
  <2> QED
    BY <1>0, <2>1, <2>2, <2>3, <2>4, RefuseStep DEF WorkInv
<1>9. CASE ReadDgram
  <2>1. PICK ch \in Chan : ch = cb.ch /\ ch \notin Strm
    BY <1>9, ChanAssumption DEF ReadDgram, Chan
  <2>2. /\ rxq[ch] # <<>> /\ cb.pc = "front" /\ known[ch] \in BOOLEAN
        /\ Take(cb.ch, Head(rxq[ch]), cb.i + 1, known[ch]) /\ UNCHANGED <<nrecv, refused, done>>
        /\ cause' = IF known[ch] THEN cause ELSE Blame(cause, ch, "unknown")
    BY <1>0, <1>9, <2>1 DEF ReadDgram, LoopOver, TypeOK
  <2>3. Ordered(delivered[ch], rxq[ch], nrecv[ch]) /\ rxq[ch] \in Seq(1..MaxBuf) /\ MaxBuf \in Nat
    BY <1>0, LimitAssumption DEF RxInv, QueueInv, TypeOK
  <2>4. PICK b \in Nat : b = rxq[ch][1] /\ b = Head(rxq[ch]) /\ b > 0
    BY <2>2, <2>3, TailFacts
  <2>5. AtHand(b, delivered[ch], rxq[ch])
    <3>1. 1 \in 1..Len(rxq[ch])
      BY <2>2, <2>3, TailFacts
    <3>2. \A i \in 1..Len(delivered[ch]) : delivered[ch][i] < rxq[ch][1]
      BY <2>3, <3>1 DEF Ordered
    <3> QED
      BY <2>2, <2>4, <3>2 DEF AtHand
  <2>6. ~known[ch] => cause'[ch] # {}
    <3>1. cause \in [Chan -> SUBSET Cause] /\ "unknown" \in Cause
      BY <1>0 DEF TypeOK, Cause
    <3> QED
      BY <2>2, <3>1, BlameFacts
  <2>7. Take(ch, b, cb.i + 1, known[ch])
    BY <2>1, <2>2, <2>4
  <2> QED
    BY <1>0, <2>1, <2>2, <2>4, <2>5, <2>6, <2>7, HandOverStep
<1>10. ASSUME NEW i, NEW h \in BOOLEAN, cb.pc = "work", Take(cb.ch, cb.b, i, h), ~h => cause'[cb.ch] # {},
              UNCHANGED <<nrecv, refused, done>>
       PROVE  Promise!Next
  <2>1. PICK ch \in Strm : ch = cb.ch /\ ch \in Chan
    BY <1>0, <1>10 DEF WorkInv, Chan
  <2>2. AtHand(cb.b, delivered[ch], rxq[ch]) /\ (cause[ch] = {} => cb.b = rxq[ch][1])
    BY <1>0, <1>10, <2>1 DEF WorkInv
  <2>3. ~done[ch]
    BY <2>1 DEF EndInv, EndOf
  <2>4. PICK b \in Nat : b = cb.b
    BY <1>0 DEF TypeOK
  <2>5. Take(ch, b, i, h) /\ AtHand(b, delivered[ch], rxq[ch]) /\ (cause[ch] = {} => b = rxq[ch][1])
    BY <1>10, <2>1, <2>2, <2>4
  <2> QED
    BY <1>0, <1>10, <2>1, <2>3, <2>4, <2>5, HandOverStep
<1>11. ASSUME NEW partial \in BOOLEAN, WorkCtrl(partial) PROVE Promise!Next
  BY <1>10, <1>11 DEF WorkCtrl
<1>12. CASE WorkNewKnown
  BY <1>10, <1>12 DEF WorkNewKnown
<1>13. CASE WorkBound
  <2>1. cb.ch \in Chan /\ cb.pc = "work" /\ Take(cb.ch, cb.b, cb.i + 1, alive[cb.ch]) /\ UNCHANGED <<nrecv, refused, done>>
        /\ cause' = IF alive[cb.ch] THEN cause ELSE Blame(cause, cb.ch, "dead")
    BY <1>0, <1>13 DEF WorkBound, WorkInv
  <2>2. alive[cb.ch] \in BOOLEAN /\ cause \in [Chan -> SUBSET Cause] /\ "dead" \in Cause
    BY <1>0, <2>1 DEF TypeOK, Cause
  <2>3. ~alive[cb.ch] => cause'[cb.ch] # {}
    BY <2>1, <2>2, BlameFacts
  <2> QED
    BY <1>10, <2>1, <2>2, <2>3
<1> QED
  BY <1>1, <1>2, <1>3, <1>4, <1>5, <1>6, <1>7, <1>8, <1>81, <1>9, <1>11, <1>12, <1>13
     DEF Next, Picoquic, CbNotifier, Session, Quiet

\* The receive path, with its queues that slide, its notifications and its read loop,
\* implements Delivery: the oldest buffer is handed to the decoder or handler first, each
\* at most once but for a first one whose StreamDataRecv threw, none after
\* OnStreamClosed, and none is lost without a cause.
THEOREM DeliveryCorrect == Spec => Delivers
<1>1. Init => Promise!Init
  <2>1. ASSUME Init PROVE Promise!Init
    <3>1. ASSUME NEW ch \in Chan PROVE Waiting[ch] = {}
      <4>1. rxq[ch] = <<>> /\ cb.pc = "idle"
        BY <2>1 DEF Init, Idle
      <4>2. Rng(<<>>) = {} /\ Hand(cb, ch) = {}
        BY <4>1 DEF Rng, Hand
      <4> QED
        BY <4>1, <4>2, WaitingIs
    <3>2. Waiting = [ch \in Chan |-> {}]
      <4>1. Waiting = [ch \in Chan |-> Waiting[ch]]
        BY DEF Waiting
      <4> QED
        BY <3>1, <4>1
    <3>3. Over = [ch \in Chan |-> FALSE] /\ Lossy = [ch \in Chan |-> FALSE]
      BY <2>1 DEF Init, Over, Lossy
    <3> QED
      BY <2>1, <3>2, <3>3 DEF Init, Promise!Init, Over, Lossy
  <2> QED
    BY <2>1
<1>2. RxInv /\ EndInv /\ FreshInv /\ [Next]_vars => [Promise!Next]_(Promise!vars)
  BY DeliveryStep
<1> QED
  BY <1>1, <1>2, EndInvariance, FreshInit, FreshNext, PTL DEF Spec, Delivers, Promise!Spec

=============================================================================
