--------------------------- MODULE TxStreamProofs ---------------------------
(***************************************************************************)
(* Proofs about the transmit path, for every number of contexts, streams,  *)
(* objects and ranks and every limit of the runner queue.                  *)
(***************************************************************************)
EXTENDS TxStream, WellFoundedInduction, SequenceTheorems, TLAPS

Queue == [Rank -> Seq(Object)]

\* A non-empty set of ranks or positions has a least element.
LEMMA LeastIn ==
    ASSUME NEW S, S \subseteq Nat, S # {}
    PROVE  Least(S) \in S /\ \A y \in S : Least(S) <= y
<1>1. PICK x \in S : \A y \in S : ~(<<y, x>> \in OpToRel(<, Nat))
  <2>1. IsWellFoundedOn(OpToRel(<, Nat), Nat)
    BY NatLessThanWellFounded
  <2> QED BY <2>1, WFMin
<1>2. \A y \in S : x <= y
  <2> SUFFICES ASSUME NEW y \in S, ~(x <= y)
               PROVE  <<y, x>> \in OpToRel(<, Nat)
    BY <1>1
  <2>1. y < x /\ <<y, x>> \in Nat \X Nat
    OBVIOUS
  <2> QED BY <2>1, Zenon DEF OpToRel
<1> QED BY <1>2 DEF Least

\* What PriorityQueue::Front and PopFront return and leave behind; without
\* a value the queue is empty afterwards.
LEMMA LookType ==
    ASSUME NEW q \in Queue
    PROVE  /\ Look(q).obj \in Object \cup {None}
           /\ Look(q).expired \in BOOLEAN
           /\ Look(q).front \in Queue
           /\ Look(q).pop \in Queue
           /\ Look(q).obj = None => Look(q).pop = NoQueue /\ Look(q).front = NoQueue
<1>1. CASE HitRanks(q) = {}
  BY <1>1, EmptySeq DEF Look, NoQueue, Queue, Empty
<1>2. CASE HitRanks(q) # {}
  <2> DEFINE r == Least(HitRanks(q))
             i == Least(LiveAt(q, r))
  <2>1. r \in Rank /\ LiveAt(q, r) # {}
    BY <1>2, LeastIn, RankAssumption DEF HitRanks
  <2>2. q[r] \in Seq(Object)
    BY <2>1 DEF Queue
  <2>3. i \in 1..Len(q[r]) /\ q[r][i] \in Object
    <3>1. LiveAt(q, r) \subseteq Nat
      BY <2>2 DEF LiveAt
    <3>2. i \in LiveAt(q, r)
      BY <2>1, <3>1, LeastIn
    <3>3. i \in 1..Len(q[r])
      BY <3>2 DEF LiveAt
    <3> HIDE DEF i, r
    <3> QED BY <2>2, <3>3, ElementOfSeq
  <2>4. q[r] # <<>> /\ Tail(q[r]) \in Seq(Object)
    BY <2>2, <2>3
  <2>5. q[r][i] # None
    BY <2>3, CtxAssumption
  <2> HIDE DEF r, i
  <2>6. \A x \in Rank : q[x] \in Seq(Object)
    BY DEF Queue
  <2>7. /\ Look(q).obj = q[r][i]
        /\ Look(q).expired = (i > 1)
        /\ Look(q).front = [x \in Rank |-> IF x < r \/ (x = r /\ i > 1)
                                        THEN <<>> ELSE q[x]]
        /\ Look(q).pop   = [x \in Rank |-> IF x < r \/ (x = r /\ i > 1)
                                        THEN <<>>
                                        ELSE IF x = r THEN Tail(q[x])
                                        ELSE q[x]]
    BY <1>2 DEF Look, r, i
  <2>8. Look(q).front \in Queue /\ Look(q).pop \in Queue
    BY <2>4, <2>6, <2>7 DEF Queue
  <2> QED BY <2>3, <2>5, <2>7, <2>8
<1> QED BY <1>1, <1>2

\* PriorityQueue::Pop leaves a queue.
LEMMA PopAnyType ==
    ASSUME NEW q \in Queue
    PROVE  PopAny(q) \in Queue
<1>1. CASE Empty(q)
  BY <1>1 DEF PopAny
<1>2. CASE ~Empty(q)
  <2> DEFINE R == {x \in Rank : q[x] # <<>>}
  <2>1. R # {}
    BY <1>2 DEF Empty, NoQueue, Queue
  <2>2. Least(R) \in R
    BY <2>1, LeastIn, RankAssumption
  <2>3. q[Least(R)] \in Seq(Object) /\ q[Least(R)] # <<>>
    BY <2>2 DEF Queue
  <2>4. Tail(q[Least(R)]) \in Seq(Object)
    BY <2>3
  <2> QED BY <1>2, <2>2, <2>4 DEF PopAny, Queue
<1> QED BY <1>1, <1>2

-----------------------------------------------------------------------------
(* The runner queue. *)

\* RunPqFunction posts its function; another one is lost only when the
\* queue slides.
LEMMA RunPq ==
    ASSUME NEW f \in Function, runner \in Seq(Function), slid \in BOOLEAN,
           RunPqFunction(f)
    PROVE  /\ runner' \in Seq(Function) /\ slid' \in BOOLEAN
           /\ \A c : f = MarkFn(c) => Posted(c)'
           /\ \A c : Posted(c) \/ slid => Posted(c)' \/ slid'
<1> DEFINE base == IF Full THEN Tail(runner) ELSE runner
<1>1. base \in Seq(Function)
  BY DEF Full
<1>2. runner' = Append(base, f)
  BY DEF RunPqFunction
<1>3. slid' = (slid \/ Full) /\ Full \in BOOLEAN
  BY DEF RunPqFunction, Full
<1>4. ~Full => base = runner
  OBVIOUS
<1> HIDE DEF base
<1>5. /\ runner' \in Seq(Function) /\ Len(runner') = Len(base) + 1
      /\ runner'[Len(base) + 1] = f /\ Len(base) + 1 \in 1..Len(runner')
      /\ \A i \in 1..Len(base) : runner'[i] = base[i] /\ i \in 1..Len(runner')
  BY <1>1, <1>2
<1>6. \A c : f = MarkFn(c) => Posted(c)'
  BY <1>5 DEF Posted, MarkFn
<1>7. ASSUME NEW c, Posted(c), ~Full
      PROVE  Posted(c)'
  BY <1>4, <1>5, <1>7 DEF Posted, MarkFn
<1> QED BY <1>3, <1>5, <1>6, <1>7

\* PqRunner takes the function in front; the others stay posted.
LEMMA RunnerTail ==
    ASSUME runner \in Seq(Function), runner # <<>>, runner' = Tail(runner)
    PROVE  /\ runner' \in Seq(Function) /\ Head(runner) \in Function
           /\ \A c : Posted(c) /\ Head(runner) # MarkFn(c) => Posted(c)'
<1>1. /\ Len(runner') = Len(runner) - 1 /\ runner[1] = Head(runner)
      /\ \A i \in 1..Len(runner') : runner'[i] = runner[i + 1]
      /\ runner' \in Seq(Function) /\ Head(runner) \in Function
  BY HeadTailProperties
<1>2. ASSUME NEW c, Posted(c), Head(runner) # MarkFn(c)
      PROVE  Posted(c)'
  <2>1. PICK i \in 1..Len(runner) : runner[i] = MarkFn(c)
    BY <1>2 DEF Posted
  <2>2. i - 1 \in 1..Len(runner') /\ runner'[i - 1] = MarkFn(c)
    BY <1>1, <1>2, <2>1
  <2> QED BY <2>2 DEF Posted, MarkFn
<1> QED BY <1>1, <1>2

-----------------------------------------------------------------------------
(* Type correctness. *)

StreamRec == [st : {"free", "open", "fin", "reset"}, ctx : Ctx \cup {None},
              active : BOOLEAN, data : Seq(Chunk)]

\* CloseStream keeps the type of the streams.
LEMMA ClosedType ==
    ASSUME NEW st \in [Stream -> StreamRec], NEW s \in Stream \cup {None},
           NEW how \in {"fin", "reset"}
    PROVE  Closed(st, s, how) \in [Stream -> StreamRec]
BY DEF Closed, StreamRec

\* CreateStream keeps the type of the streams.
LEMMA OpenedType ==
    ASSUME NEW st \in [Stream -> StreamRec], NEW s \in Stream, NEW c \in Ctx
    PROVE  Opened(st, s, c) \in [Stream -> StreamRec]
BY EmptySeq DEF Opened, FreeStream, StreamRec

\* The updates the callbacks make to a stream keep its type.
LEMMA StreamRecType ==
    ASSUME NEW x \in StreamRec, NEW c \in Ctx \cup {None}, NEW b \in BOOLEAN,
           NEW d \in Seq(Chunk)
    PROVE  /\ [x EXCEPT !.active = b] \in StreamRec
           /\ [x EXCEPT !.ctx = c] \in StreamRec
           /\ [x EXCEPT !.active = b, !.ctx = c] \in StreamRec
           /\ [x EXCEPT !.active = b, !.data = d] \in StreamRec
BY DEF StreamRec

\* DeleteDataContextInternal keeps the types.
LEMMA EraseType ==
    ASSUME TypeOK, NEW c \in Ctx, NEW st \in [Stream -> StreamRec], Erase(c, st)
    PROVE  /\ strm' \in [Stream -> StreamRec] /\ live' \in [Ctx -> BOOLEAN]
           /\ cur' \in [Ctx -> Stream \cup {None}]
           /\ txobj' \in [Ctx -> Object \cup {None}] /\ off' \in [Ctx -> 0..ObjLen]
<1>1. strm' \in [Stream -> StreamRec]
  BY ClosedType DEF Erase, TypeOK
<1> QED BY <1>1, BoundAssumption DEF Erase, TypeOK

\* The two functions that are posted.
LEMMA FnType ==
    ASSUME NEW c \in Ctx, NEW d \in BOOLEAN
    PROVE  MarkFn(c) \in Function /\ DeleteFn(c, d) \in Function
BY DEF MarkFn, DeleteFn, Function

\* Enqueue keeps the types, for a header and for an object.
LEMMA EnqueueType ==
    ASSUME TypeOK, NEW c \in Ctx, NEW q \in Queue, NEW r \in Rank,
           NEW o \in Object, Enqueue(c, q, r, o),
           epoch' \in [Ctx -> Nat], epRank' \in [Ctx -> Rank \cup {None}]
    PROVE  TypeOK'
<1>1. runner' \in Seq(Function) /\ slid' \in BOOLEAN
  <2>1. CASE mark[c]
    BY <2>1 DEF TypeOK, Enqueue
  <2>2. CASE ~mark[c]
    <3>1. RunPqFunction(MarkFn(c))
      BY <2>2 DEF Enqueue
    <3> QED BY <3>1, FnType, RunPq DEF TypeOK
  <2> QED BY <2>1, <2>2
<1>2. txq' \in [Ctx -> [Rank -> Seq(Object)]]
  <2>1. Append(q[r], o) \in Seq(Object)
    BY DEF Queue
  <2>2. [q EXCEPT ![r] = Append(q[r], o)] \in [Rank -> Seq(Object)]
    BY <2>1 DEF Queue
  <2> QED BY <2>2 DEF TypeOK, Enqueue
<1>3. nobj' \in 0..MaxObj
  BY BoundAssumption DEF TypeOK, Enqueue
<1> QED BY <1>1, <1>2, <1>3 DEF TypeOK, Enqueue

\* Every step keeps the types.
LEMMA TypeStep ==
    ASSUME IInv, [Next]_vars
    PROVE  TypeOK'
<1> USE BoundAssumption
<1>t. TypeOK
  BY DEF IInv
<1>q. \A c \in Ctx : txq[c] \in Queue
  BY <1>t DEF TypeOK, Queue
<1>s. strm \in [Stream -> StreamRec]
  BY <1>t DEF TypeOK, StreamRec
<1>0. 0 \in 0..ObjLen
  OBVIOUS
<1>1. ASSUME NEW c \in Ctx, CreateDataContext(c)
      PROVE  TypeOK'
  <2>1. runner' \in Seq(Function) /\ slid' \in BOOLEAN
    BY <1>t, <1>1, FnType, RunPq DEF TypeOK, CreateDataContext
  <2>2. nstrm + 1 \in Stream /\ nstrm' \in 0..MaxStream
    BY <1>t, <1>1 DEF TypeOK, CreateDataContext, Stream
  <2>3. strm' \in [Stream -> StreamRec]
    BY <1>s, <1>1, <2>2, OpenedType DEF CreateDataContext
  <2> QED BY <1>t, <1>1, <2>1, <2>2, <2>3 DEF TypeOK, CreateDataContext, StreamRec
<1>2. ASSUME NEW c \in Ctx, NEW r \in Rank, NEW how \in {"fin", "reset"},
             EnqueueHeader(c, r, how)
      PROVE  TypeOK'
  <2>1. NoQueue \in Queue
    BY EmptySeq DEF NoQueue, Queue
  <2>2. [id |-> nobj + 1, ep |-> epoch[c] + 1, act |-> how, len |-> 1, exp |-> FALSE]
          \in Object
    BY <1>t, <1>2 DEF TypeOK, EnqueueHeader, Enqueue, Object, Action
  <2>3. epoch' \in [Ctx -> Nat] /\ epRank' \in [Ctx -> Rank \cup {None}]
    BY <1>t, <1>2, RankAssumption, SMTT(30) DEF TypeOK, EnqueueHeader
  <2> QED BY <1>t, <1>2, <2>1, <2>2, <2>3, EnqueueType DEF EnqueueHeader
<1>3. ASSUME NEW c \in Ctx, NEW r \in Rank, NEW n \in 1..ObjLen,
             EnqueueObject(c, r, n)
      PROVE  TypeOK'
  <2>1. [id |-> nobj + 1, ep |-> epoch[c], act |-> "none", len |-> n, exp |-> FALSE]
          \in Object
    BY <1>t, <1>3 DEF TypeOK, EnqueueObject, Enqueue, Object, Action
  <2>2. epoch' \in [Ctx -> Nat] /\ epRank' \in [Ctx -> Rank \cup {None}]
    BY <1>t, <1>3, RankAssumption DEF TypeOK, EnqueueObject
  <2> QED BY <1>t, <1>q, <1>3, <2>1, <2>2, EnqueueType DEF EnqueueObject
<1>4. ASSUME NEW c \in Ctx, NEW d \in BOOLEAN, DeleteDataContext(c, d)
      PROVE  TypeOK'
  <2>1. runner' \in Seq(Function) /\ slid' \in BOOLEAN
    BY <1>t, <1>4, FnType, RunPq DEF TypeOK, DeleteDataContext
  <2> QED BY <1>t, <1>4, <2>1 DEF TypeOK, DeleteDataContext, ctxVars, pubVars
<1>5. CASE RunMark
  <2>1. runner' \in Seq(Function) /\ Head(runner) \in Function
    BY <1>t, <1>5, RunnerTail DEF TypeOK, RunMark, MarkStreamActive
  <2>2. Head(runner).ctx \in Ctx
    BY <2>1 DEF Function
  <2>3. strm' \in [Stream -> StreamRec]
    <3> DEFINE c == Head(runner).ctx
    <3>1. CASE live[c] /\ cur[c] # None
      <4>1. cur[c] \in Stream
        BY <1>t, <2>2, <3>1 DEF TypeOK
      <4>2. [strm[cur[c]] EXCEPT !.active = TRUE, !.ctx = c] \in StreamRec
        BY <1>s, <2>2, <4>1, StreamRecType, EmptySeq
      <4>3. strm' = [strm EXCEPT ![cur[c]] = [strm[cur[c]] EXCEPT !.active = TRUE, !.ctx = c]]
        BY <1>5, <3>1 DEF RunMark, MarkStreamActive
      <4> QED BY <1>s, <4>2, <4>3
    <3>2. CASE ~(live[c] /\ cur[c] # None)
      BY <1>s, <1>5, <3>2 DEF RunMark, MarkStreamActive
    <3> QED BY <3>1, <3>2
  <2>4. mark' \in [Ctx -> BOOLEAN]
    BY <1>t, <1>5, <2>2 DEF TypeOK, RunMark, MarkStreamActive
  <2> QED BY <1>t, <1>5, <2>1, <2>3, <2>4 DEF TypeOK, RunMark, MarkStreamActive, pubVars, StreamRec
<1>6. CASE RunDelete
  <2>1. runner' \in Seq(Function) /\ Head(runner) \in Function
    BY <1>t, <1>6, RunnerTail DEF TypeOK, RunDelete
  <2>2. Head(runner).ctx \in Ctx
    BY <2>1 DEF Function
  <2> DEFINE c == Head(runner).ctx
  <2>3. CASE ~live[c] \/ (Head(runner).doe /\ ~Empty(txq[c]))
    BY <1>t, <1>6, <2>1, <2>2, <2>3 DEF TypeOK, RunDelete, pubVars
  <2>4. CASE live[c] /\ ~(Head(runner).doe /\ ~Empty(txq[c]))
    <3>1. Erase(c, strm) /\ doe' = doe
      BY <1>6, <2>4 DEF RunDelete
    <3> QED BY <1>t, <1>s, <1>6, <2>1, <2>2, <3>1, EraseType
            DEF TypeOK, RunDelete, pubVars, StreamRec
  <2> QED BY <2>3, <2>4
<1>7. ASSUME NEW s \in Stream, PrepareToSend(s)
      PROVE  TypeOK'
  <2> DEFINE c == strm[s].ctx
  <2>1. strm' \in [Stream -> StreamRec]
    BY <1>s, <1>7, ZenonT(40) DEF PrepareToSend, StreamRec
  <2>2. c \in Ctx \cup {None}
    BY <1>s DEF StreamRec
  <2>3. txq' \in [Ctx -> [Rank -> Seq(Object)]]
    BY <1>t, <1>q, <1>7, <2>2, LookType DEF TypeOK, PrepareToSend, Queue
  <2>4. ASSUME c # None, NEW p \in PcSet, NEW a \in Action
        PROVE  [pc |-> p, ctx |-> c, s |-> s, act |-> a, still |-> FALSE] \in
                 [pc : PcSet, ctx : Ctx \cup {None}, s : 0..MaxStream, act : Action,
                  still : BOOLEAN]
    <3>1. s \in 0..MaxStream
      BY DEF Stream
    <3> QED BY <2>2, <2>4, <3>1
  <2>5. ASSUME c # None
        PROVE  (IF Look(txq[c]).obj = None THEN "none" ELSE Look(txq[c]).obj.act) \in Action
    BY <1>q, <2>2, <2>5, LookType DEF Object, Action
  <2>6. pq' \in [pc : PcSet, ctx : Ctx \cup {None}, s : 0..MaxStream, act : Action,
                  still : BOOLEAN]
    <3>1. "pop" \in PcSet /\ "discard" \in PcSet /\ "none" \in Action
      BY DEF PcSet, Action
    <3>2. CASE c = None
      BY <1>t, <1>7, <3>2 DEF TypeOK, PrepareToSend
    <3>3. CASE c # None /\ ~discard[c]
      BY <1>7, <2>4, <3>1, <3>3 DEF PrepareToSend
    <3>4. CASE c # None /\ discard[c]
      <4> DEFINE a == IF Look(txq[c]).obj = None THEN "none" ELSE Look(txq[c]).obj.act
      <4>1. a \in Action
        BY <2>5, <3>4
      <4>2. pq' = [pc |-> "discard", ctx |-> c, s |-> s, act |-> a, still |-> FALSE]
        BY <1>7, <3>4 DEF PrepareToSend
      <4> HIDE DEF a, c
      <4> QED BY <2>4, <3>1, <3>4, <4>1, <4>2
    <3> QED BY <3>2, <3>3, <3>4
  <2> QED BY <1>t, <1>7, <2>1, <2>3, <2>6 DEF TypeOK, PrepareToSend, pubVars, StreamRec
<1>p. pq.pc # "idle" => pq.ctx \in Ctx
  BY <1>t DEF IInv, CallbackInv, TypeOK
<1>i. Idle \in [pc : PcSet, ctx : Ctx \cup {None}, s : 0..MaxStream, act : Action,
                 still : BOOLEAN]
  BY DEF Idle, PcSet, Action
<1>8. CASE DiscardStep
  <2> DEFINE c == pq.ctx
  <2>1. c \in Ctx
    BY <1>p, <1>8 DEF DiscardStep
  <2>2. CASE pq.act # "none" /\ congested
    <3>1. /\ txq' = [txq EXCEPT ![c] = PopAny(@)] /\ pq' = Idle
          /\ UNCHANGED <<mark, discard, txobj, off>>
          /\ \/ UNCHANGED <<runner, slid>>
             \/ RunPqFunction(MarkFn(c))
      BY <1>8, <2>2 DEF DiscardStep
    <3>2. txq' \in [Ctx -> [Rank -> Seq(Object)]]
      BY <1>t, <1>q, <2>1, <3>1, PopAnyType DEF TypeOK, Queue
    <3>3. runner' \in Seq(Function) /\ slid' \in BOOLEAN
      BY <1>t, <2>1, <3>1, FnType, RunPq DEF TypeOK
    <3> QED BY <1>t, <1>i, <1>8, <3>1, <3>2, <3>3 DEF TypeOK, DiscardStep, pubVars
  <2>3. CASE ~(pq.act # "none" /\ congested)
    <3>1. pq' \in [pc : PcSet, ctx : Ctx \cup {None}, s : 0..MaxStream, act : Action,
                    still : BOOLEAN]
      BY <1>t, <1>8, <2>3 DEF TypeOK, DiscardStep, PcSet
    <3>2. /\ mark' = [mark EXCEPT ![c] = FALSE]
          /\ discard' = [discard EXCEPT ![c] = ~(pq.act # "none")]
          /\ txobj' = [txobj EXCEPT ![c] = IF pq.act # "none" THEN None ELSE @]
          /\ off' = [off EXCEPT ![c] = IF pq.act # "none" THEN 0 ELSE @]
          /\ UNCHANGED <<txq, runner, slid>>
      BY <1>8, <2>3 DEF DiscardStep
    <3>3. /\ mark' \in [Ctx -> BOOLEAN] /\ discard' \in [Ctx -> BOOLEAN]
          /\ txobj' \in [Ctx -> Object \cup {None}] /\ off' \in [Ctx -> 0..ObjLen]
      BY <1>t, <2>1, <3>2 DEF TypeOK
    <3> QED BY <1>t, <1>8, <3>1, <3>2, <3>3 DEF TypeOK, DiscardStep, pubVars
  <2> QED BY <2>2, <2>3
<1>9. CASE PopNothing
  <2> DEFINE c == pq.ctx
             f == Look(txq[c])
  <2>1. c \in Ctx /\ f.pop \in Queue /\ f.expired \in BOOLEAN
    BY <1>p, <1>q, <1>9, LookType DEF PopNothing
  <2>2. /\ txq' = [txq EXCEPT ![c] = f.pop]
        /\ discard' = [discard EXCEPT ![c] = @ \/ f.expired]
        /\ pq' = Idle
        /\ UNCHANGED <<open, mark, doe, runner, slid, nstrm, congested, pubVars>>
        /\ \/ Erase(c, strm)
           \/ UNCHANGED <<strm, live, cur, txobj, off>>
    BY <1>9 DEF PopNothing, Return
  <2> HIDE DEF c, f
  <2>3. /\ strm' \in [Stream -> StreamRec] /\ live' \in [Ctx -> BOOLEAN]
        /\ cur' \in [Ctx -> Stream \cup {None}]
        /\ txobj' \in [Ctx -> Object \cup {None}] /\ off' \in [Ctx -> 0..ObjLen]
    BY <1>t, <1>s, <2>1, <2>2, EraseType DEF TypeOK
  <2> QED BY <1>t, <1>i, <2>1, <2>2, <2>3 DEF TypeOK, pubVars, StreamRec, Queue
<1>10. CASE PopReplace
  <2> DEFINE c == pq.ctx
             f == Look(txq[c])
             st == Opened(Closed(strm, cur[c], f.obj.act), nstrm + 1, c)
  <2>1. c \in Ctx /\ f.pop \in Queue /\ f.obj \in Object /\ nstrm + 1 \in Stream
    BY <1>p, <1>q, <1>t, <1>10, LookType DEF PopReplace, Replaces, TypeOK, Stream
  <2>2. f.obj.act \in {"fin", "reset"}
    BY <1>10, <2>1 DEF PopReplace, Replaces, Object, Action
  <2>3. st \in [Stream -> StreamRec] /\ Closed(st, nstrm + 1, "fin") \in [Stream -> StreamRec]
    BY <1>t, <1>s, <2>1, <2>2, ClosedType, OpenedType DEF TypeOK
  <2>4. runner' \in Seq(Function) /\ slid' \in BOOLEAN
    BY <1>t, <1>10, <2>1, FnType, RunPq DEF TypeOK, PopReplace
  <2>5. nstrm' \in 0..MaxStream
    BY <1>t, <1>10 DEF TypeOK, PopReplace
  <2>6. strm' = st \/ strm' = Closed(st, nstrm + 1, "fin")
    BY <1>10 DEF PopReplace, Replaces
  <2>7. /\ live' \in [Ctx -> BOOLEAN] /\ cur' \in [Ctx -> Stream \cup {None}]
        /\ txobj' \in [Ctx -> Object \cup {None}] /\ off' \in [Ctx -> 0..ObjLen]
    <3>1. \/ /\ live' = [live EXCEPT ![c] = FALSE] /\ cur' = [cur EXCEPT ![c] = None]
             /\ UNCHANGED <<txobj, off>>
          \/ /\ cur' = [cur EXCEPT ![c] = nstrm + 1] /\ UNCHANGED live
             /\ txobj' = [txobj EXCEPT ![c] = f.obj] /\ off' = [off EXCEPT ![c] = 0]
      BY <1>10 DEF PopReplace, Replaces
    <3> HIDE DEF c, f
    <3>2. live' \in [Ctx -> BOOLEAN]
      BY <1>t, <2>1, <3>1 DEF TypeOK
    <3>3. cur' \in [Ctx -> Stream \cup {None}]
      BY <1>t, <2>1, <3>1 DEF TypeOK
    <3>4. txobj' \in [Ctx -> Object \cup {None}]
      BY <1>t, <2>1, <3>1 DEF TypeOK
    <3>5. off' \in [Ctx -> 0..ObjLen]
      BY <1>t, <1>0, <2>1, <3>1 DEF TypeOK
    <3> QED BY <3>2, <3>3, <3>4, <3>5
  <2>8. /\ txq' \in [Ctx -> [Rank -> Seq(Object)]] /\ discard' \in [Ctx -> BOOLEAN]
        /\ mark' \in [Ctx -> BOOLEAN] /\ pq' = Idle
    BY <1>t, <1>10, <2>1 DEF TypeOK, PopReplace, Queue
  <2> QED BY <1>t, <1>i, <1>10, <2>3, <2>4, <2>5, <2>6, <2>7, <2>8
          DEF TypeOK, PopReplace, pubVars, StreamRec
<1>11. CASE PopObject
  <2> DEFINE c == pq.ctx
             f == Look(txq[c])
  <2>1. c \in Ctx /\ f.pop \in Queue /\ f.obj \in Object \cup {None}
    BY <1>p, <1>q, <1>11, LookType DEF PopObject
  <2>2. /\ txq' \in [Ctx -> [Rank -> Seq(Object)]]
        /\ txobj' \in [Ctx -> Object \cup {None}] /\ off' \in [Ctx -> 0..ObjLen]
    <3>1. \/ UNCHANGED <<txq, txobj, off>>
          \/ /\ txq' = [txq EXCEPT ![c] = f.pop] /\ txobj' = [txobj EXCEPT ![c] = f.obj]
             /\ off' = [off EXCEPT ![c] = 0]
      BY <1>11 DEF PopObject
    <3> HIDE DEF c, f
    <3>2. txq' \in [Ctx -> [Rank -> Seq(Object)]]
      BY <1>t, <2>1, <3>1 DEF TypeOK, Queue
    <3>3. txobj' \in [Ctx -> Object \cup {None}]
      BY <1>t, <2>1, <3>1 DEF TypeOK
    <3>4. off' \in [Ctx -> 0..ObjLen]
      BY <1>t, <1>0, <2>1, <3>1 DEF TypeOK
    <3> QED BY <3>2, <3>3, <3>4
  <2> QED BY <1>t, <1>11, <2>2 DEF TypeOK, PopObject, PcSet, pubVars
<1>12. CASE DecideStill
  BY <1>t, <1>12 DEF TypeOK, DecideStill, More, PcSet, ctxVars, pubVars
<1>13. CASE ProvideBytes
  <2> DEFINE c == pq.ctx
             o == txobj[c]
             chunk == [id |-> o.id, ep |-> o.ep, part |-> off[c] + 1,
                       last |-> off[c] + 1 = o.len,
                       hdr |-> o.act # "none", disc |-> discard[c]]
             st == [strm EXCEPT ![pq.s] = [@ EXCEPT !.active = pq.still,
                                      !.data = Append(strm[pq.s].data, chunk)]]
  <2>1. c \in Ctx /\ o \in Object /\ off[c] \in Nat /\ off[c] < o.len /\ pq.s \in Stream
    BY <1>p, <1>t, <1>13 DEF ProvideBytes, Done, TypeOK, IInv, CallbackInv, Stream
  <2>2. o.len \in 1..ObjLen /\ chunk \in Chunk
    BY <1>t, <2>1 DEF TypeOK, Object, Chunk
  <2>3. st \in [Stream -> StreamRec]
    <3> HIDE DEF chunk
    <3>1. strm[pq.s] \in StreamRec /\ pq.still \in BOOLEAN
      BY <1>t, <1>s, <2>1 DEF TypeOK
    <3>2. Append(strm[pq.s].data, chunk) \in Seq(Chunk)
      BY <2>2, <3>1 DEF StreamRec
    <3>3. [strm[pq.s] EXCEPT !.active = pq.still, !.data = Append(strm[pq.s].data, chunk)]
             \in StreamRec
      BY <3>1, <3>2, StreamRecType
    <3> QED BY <1>s, <2>1, <3>3
  <2>4. /\ pq' = Idle
        /\ UNCHANGED <<open, mark, discard, doe, txq, runner, slid, nstrm, congested, pubVars>>
        /\ \/ Erase(c, st)
           \/ /\ strm' = st
              /\ txobj' = [txobj EXCEPT ![c] = IF off[c] + 1 = o.len THEN None ELSE @]
              /\ off' = [off EXCEPT ![c] = IF off[c] + 1 = o.len THEN 0 ELSE @ + 1]
              /\ UNCHANGED <<live, cur>>
    BY <1>13 DEF ProvideBytes, Done
  <2> HIDE DEF c, o, st
  <2>5. /\ strm' \in [Stream -> StreamRec] /\ live' \in [Ctx -> BOOLEAN]
        /\ cur' \in [Ctx -> Stream \cup {None}]
        /\ txobj' \in [Ctx -> Object \cup {None}] /\ off' \in [Ctx -> 0..ObjLen]
    <3>1. CASE Erase(c, st)
      BY <1>t, <2>1, <2>3, <3>1, EraseType
    <3>2. CASE ~Erase(c, st)
      <4>1. off[c] + 1 # o.len => off[c] + 1 \in 0..ObjLen
        BY <2>1, <2>2
      <4>2. off' \in [Ctx -> 0..ObjLen]
        BY <1>t, <2>1, <2>4, <3>2, <4>1 DEF TypeOK
      <4>3. txobj' \in [Ctx -> Object \cup {None}]
        BY <1>t, <2>1, <2>4, <3>2, ZenonT(40) DEF TypeOK
      <4> QED BY <1>t, <2>3, <2>4, <3>2, <4>2, <4>3 DEF TypeOK
    <3> QED BY <3>1, <3>2
  <2> QED BY <1>t, <1>i, <2>4, <2>5 DEF TypeOK, pubVars, StreamRec
<1>14. CASE Close
  BY <1>t, <1>14 DEF TypeOK, Close, pubVars
<1>15. CASE CheckConnsForCongestion
  <2>1. discard' \in [Ctx -> BOOLEAN] /\ congested' \in BOOLEAN
    BY <1>t, <1>15 DEF TypeOK, CheckConnsForCongestion
  <2> QED BY <1>t, <1>15, <2>1 DEF TypeOK, CheckConnsForCongestion, pubVars
<1>16. ASSUME NEW c \in Ctx, PeerClosed(c)
       PROVE  TypeOK'
  <2>1. cur[c] \in Stream
    BY <1>t, <1>16 DEF TypeOK, PeerClosed
  <2>2. [strm[cur[c]] EXCEPT !.ctx = None] \in StreamRec
    BY <1>s, <2>1, StreamRecType, EmptySeq
  <2>3. strm' \in [Stream -> StreamRec]
    BY <1>s, <1>16, <2>2 DEF PeerClosed
  <2> QED BY <1>t, <1>16, <2>3 DEF TypeOK, PeerClosed, pubVars, StreamRec
<1>17. ASSUME NEW c \in Ctx, NEW r \in Rank, NEW i \in 1..Len(txq[c][r]),
              Expire(c, r, i)
       PROVE  TypeOK'
  <2>1. txq[c][r] \in Seq(Object) /\ txq[c][r][i] \in Object
    BY <1>t, ElementOfSeq DEF TypeOK
  <2>2. [txq[c][r][i] EXCEPT !.exp = TRUE] \in Object
    BY <2>1 DEF Object
  <2>3. [txq[c][r] EXCEPT ![i] = [txq[c][r][i] EXCEPT !.exp = TRUE]] \in Seq(Object)
    BY <2>1, <2>2, ExceptSeq
  <2>4. Aged(txq[c], r, i) \in [Rank -> Seq(Object)]
    BY <1>q, <2>3 DEF Aged, Queue
  <2>5. txq' \in [Ctx -> [Rank -> Seq(Object)]]
    BY <1>t, <1>17, <2>4 DEF TypeOK, Expire
  <2> QED BY <1>t, <1>17, <2>5 DEF TypeOK, Expire, pubVars
<1>18. CASE UNCHANGED vars
  BY <1>t, <1>18 DEF TypeOK, vars, ctxVars, pubVars
<1> QED
  BY <1>1, <1>2, <1>3, <1>4, <1>5, <1>6, <1>7, <1>8, <1>9, <1>10, <1>11, <1>12, <1>13,
     <1>14, <1>15, <1>16, <1>17, <1>18
     DEF Next, App, Runner, Callback, Environment

-----------------------------------------------------------------------------
(* mark_stream_active stands for a queued post. *)

\* The flag stays honest when it is raised only with a post and no post is
\* lost.
LEMMA MarkKept ==
    ASSUME MarkFlagHonest,
           \A c \in Ctx : live'[c] /\ mark'[c] => (live[c] /\ mark[c]) \/ Posted(c)',
           \A c \in Ctx : Posted(c) \/ slid => Posted(c)' \/ slid'
    PROVE  MarkFlagHonest'
BY DEF MarkFlagHonest

\* A step that leaves the runner queue alone loses no post.
LEMMA SamePosts ==
    ASSUME UNCHANGED <<runner, slid>>
    PROVE  \A c \in Ctx : Posted(c) \/ slid => Posted(c)' \/ slid'
BY DEF Posted, MarkFn

\* Deleting a context brings no other one to life.
LEMMA ErasedMark ==
    ASSUME TypeOK, NEW c \in Ctx, NEW st, Erase(c, st)
    PROVE  \A d \in Ctx : live'[d] => live[d]
BY DEF Erase, TypeOK

\* Enqueue posts MarkStreamActive when it raises the flag.
LEMMA EnqueueMark ==
    ASSUME TypeOK, NEW c \in Ctx, NEW q, NEW r, NEW o, Enqueue(c, q, r, o)
    PROVE  /\ \A d \in Ctx : live'[d] /\ mark'[d] => (live[d] /\ mark[d]) \/ Posted(d)'
           /\ \A d \in Ctx : Posted(d) \/ slid => Posted(d)' \/ slid'
           /\ ~mark[c] => Posted(c)'
<1>1. CASE mark[c]
  BY <1>1, SamePosts DEF Enqueue, TypeOK
<1>2. CASE ~mark[c]
  <2>1. Posted(c)' /\ \A d \in Ctx : Posted(d) \/ slid => Posted(d)' \/ slid'
    BY <1>2, FnType, RunPq DEF Enqueue, TypeOK
  <2> QED BY <1>2, <2>1 DEF Enqueue, TypeOK
<1> QED BY <1>1, <1>2

\* Every step keeps mark_stream_active honest.
LEMMA MarkStep ==
    ASSUME IInv, [Next]_vars
    PROVE  MarkFlagHonest'
<1>t. TypeOK /\ MarkFlagHonest
  BY DEF IInv
<1>p. pq.pc # "idle" => pq.ctx \in Ctx
  BY DEF IInv, CallbackInv, TypeOK
<1>1. ASSUME NEW c \in Ctx, CreateDataContext(c)
      PROVE  MarkFlagHonest'
  <2>1. Posted(c)' /\ \A d \in Ctx : Posted(d) \/ slid => Posted(d)' \/ slid'
    BY <1>t, <1>1, FnType, RunPq DEF CreateDataContext, TypeOK
  <2>2. \A d \in Ctx : d # c => live'[d] = live[d] /\ mark'[d] = mark[d]
    BY <1>t, <1>1 DEF CreateDataContext, TypeOK
  <2> QED BY <1>t, <2>1, <2>2, MarkKept
<1>2. ASSUME NEW c \in Ctx, NEW q, NEW r, NEW o, Enqueue(c, q, r, o)
      PROVE  MarkFlagHonest'
  BY <1>t, <1>2, EnqueueMark, MarkKept
<1>3. ASSUME NEW c \in Ctx, NEW d \in BOOLEAN, DeleteDataContext(c, d)
      PROVE  MarkFlagHonest'
  <2>1. \A e \in Ctx : Posted(e) \/ slid => Posted(e)' \/ slid'
    BY <1>t, <1>3, FnType, RunPq DEF DeleteDataContext, TypeOK
  <2> QED BY <1>t, <1>3, <2>1, MarkKept DEF DeleteDataContext, ctxVars
<1>4. CASE RunMark
  <2> DEFINE c == Head(runner).ctx
  <2>1. c \in Ctx /\ \A d \in Ctx : Posted(d) /\ d # c => Posted(d)'
    <3>1. c \in Ctx
      BY <1>t, <1>4, RunnerTail DEF RunMark, MarkStreamActive, TypeOK, Function
    <3>2. \A d : d # c => Head(runner) # MarkFn(d)
      BY DEF MarkFn
    <3>3. \A d : Posted(d) /\ Head(runner) # MarkFn(d) => Posted(d)'
      BY <1>t, <1>4, RunnerTail DEF RunMark, MarkStreamActive, TypeOK
    <3> QED BY <3>1, <3>2, <3>3
  <2>2. ASSUME NEW d \in Ctx, live'[d], mark'[d]
        PROVE  Posted(d)' \/ slid'
    <3>1. d # c /\ live[d] /\ mark[d] /\ slid' = slid
      BY <1>t, <1>4, <2>1, <2>2 DEF RunMark, MarkStreamActive, TypeOK
    <3> QED BY <1>t, <2>1, <3>1 DEF MarkFlagHonest
  <2> QED BY <2>2 DEF MarkFlagHonest
<1>5. CASE RunDelete
  <2>1. \A d \in Ctx : Posted(d) \/ slid => Posted(d)' \/ slid'
    <3>1. \A d : Head(runner) # MarkFn(d)
      BY <1>5 DEF RunDelete, MarkFn
    <3>2. slid' = slid /\ \A d : Posted(d) /\ Head(runner) # MarkFn(d) => Posted(d)'
      BY <1>t, <1>5, RunnerTail DEF RunDelete, TypeOK
    <3> QED BY <3>1, <3>2
  <2>2. Head(runner).ctx \in Ctx
    BY <1>t, <1>5, RunnerTail DEF RunDelete, TypeOK, Function
  <2>3. \A d \in Ctx : live'[d] => live[d]
    BY <1>t, <1>5, <2>2, ErasedMark DEF RunDelete
  <2> QED BY <1>t, <1>5, <2>1, <2>3, MarkKept DEF RunDelete
<1>6. CASE DiscardStep
  <2>1. \A d \in Ctx : Posted(d) \/ slid => Posted(d)' \/ slid'
    BY <1>t, <1>p, <1>6, FnType, RunPq, SamePosts DEF DiscardStep, TypeOK
  <2>2. \A d \in Ctx : live'[d] /\ mark'[d] => live[d] /\ mark[d]
    BY <1>t, <1>6 DEF DiscardStep, TypeOK
  <2> QED BY <1>t, <2>1, <2>2, MarkKept
<1>7. CASE PopNothing \/ ProvideBytes
  <2>1. pq.ctx \in Ctx /\ UNCHANGED <<runner, slid, mark>>
    BY <1>p, <1>7 DEF PopNothing, ProvideBytes
  <2>2. \A d \in Ctx : live'[d] => live[d]
    BY <1>t, <1>7, <2>1, ErasedMark DEF PopNothing, Return, ProvideBytes, Done
  <2> QED BY <1>t, <2>1, <2>2, SamePosts, MarkKept
<1>8. CASE PopReplace
  <2>1. \A d \in Ctx : Posted(d) \/ slid => Posted(d)' \/ slid'
    BY <1>t, <1>p, <1>8, FnType, RunPq DEF PopReplace, Replaces, TypeOK
  <2>2. \A d \in Ctx : live'[d] /\ mark'[d] => live[d] /\ mark[d]
    BY <1>t, <1>8 DEF PopReplace, Replaces, TypeOK
  <2> QED BY <1>t, <2>1, <2>2, MarkKept
<1>9. CASE Close
  BY <1>9 DEF Close, MarkFlagHonest
<1>10. ASSUME UNCHANGED <<live, mark, runner, slid>>
       PROVE  MarkFlagHonest'
  BY <1>t, <1>10, SamePosts, MarkKept
<1>11. ASSUME NEW s \in Stream, PrepareToSend(s)
       PROVE  MarkFlagHonest'
  BY <1>10, <1>11 DEF PrepareToSend
<1>12. CASE PopObject \/ DecideStill \/ CheckConnsForCongestion
  BY <1>10, <1>12 DEF PopObject, DecideStill, CheckConnsForCongestion, ctxVars
<1>13. ASSUME NEW c \in Ctx, PeerClosed(c)
       PROVE  MarkFlagHonest'
  BY <1>10, <1>13 DEF PeerClosed
<1>14. ASSUME NEW c \in Ctx, NEW r, NEW i, Expire(c, r, i)
       PROVE  MarkFlagHonest'
  BY <1>10, <1>14 DEF Expire
<1>15. CASE UNCHANGED vars
  BY <1>10, <1>15 DEF vars, ctxVars
<1> QED
  BY <1>1, <1>2, <1>3, <1>4, <1>5, <1>6, <1>7, <1>8, <1>9, <1>11, <1>12, <1>13, <1>14, <1>15
     DEF Next, App, Runner, Callback, Environment, EnqueueHeader, EnqueueObject

-----------------------------------------------------------------------------
(* The links between contexts and streams, as a predicate on values. *)

Linked(o, l, cu, st, n) ==
    /\ \A s \in Stream : s > n => st[s] = FreeStream
    /\ \A c \in Ctx : cu[c] # None => cu[c] <= n
    /\ ~o => \A c \in Ctx : ~l[c]
    /\ o => \A c \in Ctx :
          /\ ~l[c] => cu[c] = None
          /\ cu[c] # None => st[cu[c]].ctx = c /\ st[cu[c]].st = "open"
    /\ o => \A s \in Stream : st[s].ctx # None =>
          l[st[s].ctx] /\ cu[st[s].ctx] = s /\ st[s].st = "open"

\* Linked is LinkInv and LinkedAlive as a predicate of the variables, so
\* that it can be used for the states inside a step.
LEMMA LinkedIsInv ==
    /\ LinkInv /\ LinkedAlive <=> Linked(open, live, cur, strm, nstrm)
    /\ LinkInv' /\ LinkedAlive' <=> Linked(open', live', cur', strm', nstrm')
BY DEF Linked, LinkInv, LinkedAlive

\* A stream may change its activity and its data while it stays linked.
LEMMA LinkedSame ==
    ASSUME NEW o \in BOOLEAN, NEW l, NEW cu \in [Ctx -> Stream \cup {None}], NEW n \in Nat,
           NEW st \in [Stream -> StreamRec], NEW st2 \in [Stream -> StreamRec],
           Linked(o, l, cu, st, n),
           \A s \in Stream : st2[s].ctx = st[s].ctx /\ st2[s].st = st[s].st,
           \A s \in Stream : s > n => st2[s] = st[s]
    PROVE  Linked(o, l, cu, st2, n)
BY DEF Linked

\* Closing the current stream of c unlinks it.
LEMMA LinkedClosed ==
    ASSUME NEW o \in BOOLEAN, NEW l \in [Ctx -> BOOLEAN], NEW n \in 0..MaxStream,
           NEW cu \in [Ctx -> Stream \cup {None}], NEW st \in [Stream -> StreamRec],
           NEW c \in Ctx, NEW how \in {"fin", "reset"},
           Linked(o, l, cu, st, n)
    PROVE  /\ Linked(o, l, [cu EXCEPT ![c] = None], Closed(st, cu[c], how), n)
           /\ Linked(o, [l EXCEPT ![c] = FALSE], [cu EXCEPT ![c] = None],
                     Closed(st, cu[c], how), n)
<1> DEFINE cu2 == [cu EXCEPT ![c] = None]
           st2 == Closed(st, cu[c], how)
<1>1. \A d \in Ctx : cu2[d] = IF d = c THEN None ELSE cu[d]
  OBVIOUS
<1>2. \A s \in Stream : s # cu[c] => st2[s] = st[s]
  BY DEF Closed
<1>3. \A s \in Stream : s = cu[c] => st2[s].ctx = None
  BY CtxAssumption DEF Closed, StreamRec, Stream
<1>4. \A d \in Ctx : [l EXCEPT ![c] = FALSE][d] = (d # c /\ l[d])
  OBVIOUS
<1>5. \A s \in Stream : s \in Nat
  BY DEF Stream
<1> HIDE DEF cu2, st2
<1>6. \A d \in Ctx : cu[d] # None => cu[d] \in Stream
  OBVIOUS
<1>7. /\ \A s \in Stream : s > n => st2[s] = FreeStream
      /\ \A d \in Ctx : cu2[d] # None => cu2[d] <= n
  <2>1. ASSUME NEW s \in Stream, s > n
        PROVE  s # cu[c]
    BY <1>5, <1>6, <2>1, CtxAssumption DEF Linked
  <2> QED BY <1>1, <1>2, <2>1 DEF Linked
<1>8. ASSUME o, NEW d \in Ctx, cu2[d] # None
      PROVE  st2[cu2[d]].ctx = d /\ st2[cu2[d]].st = "open"
  BY <1>1, <1>2, <1>6, <1>8 DEF Linked
<1>9. ASSUME o, NEW s \in Stream, st2[s].ctx # None
      PROVE  /\ l[st2[s].ctx] /\ cu2[st2[s].ctx] = s /\ st2[s].st = "open"
             /\ st2[s].ctx # c
  <2>1. s # cu[c] /\ st2[s] = st[s] /\ st[s].ctx \in Ctx
    BY <1>2, <1>3, <1>9 DEF StreamRec
  <2> QED BY <1>1, <1>9, <2>1 DEF Linked
<1>10. \A s \in Stream : st2[s].ctx # None => st2[s].ctx \in Ctx
  BY <1>2, <1>3 DEF StreamRec
<1>11. /\ o => \A d \in Ctx : ~l[d] => cu2[d] = None
       /\ ~o => \A d \in Ctx : ~l[d]
  BY <1>1 DEF Linked
<1> QED BY <1>1, <1>4, <1>7, <1>8, <1>9, <1>10, <1>11 DEF Linked, cu2, st2

\* A context without a stream is linked to a new one.
LEMMA LinkedOpened ==
    ASSUME NEW o \in BOOLEAN, NEW l \in [Ctx -> BOOLEAN], NEW n \in Nat,
           n + 1 \in Stream, NEW cu \in [Ctx -> Stream \cup {None}],
           NEW st \in [Stream -> StreamRec], NEW c \in Ctx,
           Linked(o, l, cu, st, n), cu[c] = None,
           NEW l2 \in [Ctx -> BOOLEAN],
           \A d \in Ctx : d # c => l2[d] = l[d],
           o => l2[c], ~o => ~l2[c]
    PROVE  Linked(o, l2, [cu EXCEPT ![c] = n + 1], Opened(st, n + 1, c), n + 1)
<1> DEFINE cu2 == [cu EXCEPT ![c] = n + 1]
           st2 == Opened(st, n + 1, c)
<1>1. \A d \in Ctx : cu2[d] = IF d = c THEN n + 1 ELSE cu[d]
  OBVIOUS
<1>2. \A s \in Stream : s # n + 1 => st2[s] = st[s]
  BY DEF Opened
<1>3. st2[n + 1].ctx = c /\ st2[n + 1].st = "open"
  BY DEF Opened, FreeStream
<1>4. \A s \in Stream : s \in Nat
  BY DEF Stream
<1>5. \A d \in Ctx : cu[d] # None => cu[d] \in Stream /\ cu[d] <= n
  BY DEF Linked
<1>6. n + 1 # None /\ c # None
  BY CtxAssumption
<1> HIDE DEF cu2, st2
<1>7. ASSUME o, NEW s \in Stream, st2[s].ctx # None
      PROVE  /\ l2[st2[s].ctx] /\ cu2[st2[s].ctx] = s /\ st2[s].st = "open"
  <2>1. CASE s = n + 1
    BY <1>1, <1>3, <1>7, <2>1
  <2>2. CASE s # n + 1
    <3>1. st2[s] = st[s] /\ st[s].ctx \in Ctx
      BY <1>2, <1>7, <2>2 DEF StreamRec
    <3>2. l[st[s].ctx] /\ cu[st[s].ctx] = s /\ st[s].st = "open"
      BY <1>7, <3>1 DEF Linked
    <3>3. st[s].ctx # c
      BY <3>2, <1>4, CtxAssumption
    <3> QED BY <1>1, <3>1, <3>2, <3>3
  <2> QED BY <2>1, <2>2
<1>8. ASSUME NEW s \in Stream, s > n + 1
      PROVE  st2[s] = FreeStream
  BY <1>2, <1>4, <1>8 DEF Linked
<1>9. \A d \in Ctx : cu2[d] # None => cu2[d] <= n + 1
  BY <1>1, <1>4, <1>5
<1>10. ASSUME o, NEW d \in Ctx, cu2[d] # None
       PROVE  st2[cu2[d]].ctx = d /\ st2[cu2[d]].st = "open"
  <2>1. CASE d = c
    BY <1>1, <1>3, <2>1
  <2>2. CASE d # c
    <3>1. cu2[d] = cu[d] /\ cu[d] \in Stream /\ cu[d] <= n
      BY <1>1, <1>5, <1>10, <2>2
    <3>2. st2[cu[d]] = st[cu[d]]
      BY <1>2, <1>4, <3>1
    <3> QED BY <1>10, <3>1, <3>2 DEF Linked
  <2> QED BY <2>1, <2>2
<1>11. /\ o => \A d \in Ctx : ~l2[d] => cu2[d] = None
       /\ ~o => \A d \in Ctx : ~l2[d]
  BY <1>1 DEF Linked
<1> QED BY <1>7, <1>8, <1>9, <1>10, <1>11 DEF Linked, cu2, st2

\* Every step keeps streams and contexts linked to each other.
LEMMA LinkStep ==
    ASSUME IInv, [Next]_vars
    PROVE  LinkedAlive' /\ LinkInv'
<1> SUFFICES Linked(open', live', cur', strm', nstrm')
  BY LinkedIsInv
<1>t. TypeOK
  BY DEF IInv
<1>s. strm \in [Stream -> StreamRec] /\ strm' \in [Stream -> StreamRec]
  BY <1>t, TypeStep DEF TypeOK, StreamRec
<1>l. Linked(open, live, cur, strm, nstrm)
  BY LinkedIsInv DEF IInv
<1>v. /\ open \in BOOLEAN /\ live \in [Ctx -> BOOLEAN] /\ nstrm \in 0..MaxStream
      /\ cur \in [Ctx -> Stream \cup {None}] /\ nstrm \in Nat
  BY <1>t, BoundAssumption DEF TypeOK
<1>p. pq.pc # "idle" => /\ pq.ctx \in Ctx /\ pq.s \in 1..nstrm /\ pq.s \in Stream
                        /\ open => live[pq.ctx]
  BY <1>v, BoundAssumption DEF IInv, CallbackInv, TypeOK, Stream
<1>1. ASSUME NEW c \in Ctx, CreateDataContext(c)
      PROVE  Linked(open', live', cur', strm', nstrm')
  <2>1. nstrm + 1 \in Stream
    BY <1>v, <1>1, BoundAssumption DEF CreateDataContext, Stream
  <2>2. [live EXCEPT ![c] = TRUE] \in [Ctx -> BOOLEAN]
    BY <1>v
  <2> QED BY <1>v, <1>s, <1>l, <1>1, <2>1, <2>2, LinkedOpened DEF CreateDataContext
<1>2. ASSUME NEW c \in Ctx, NEW st \in [Stream -> StreamRec], Erase(c, st),
             UNCHANGED <<open, nstrm>>, Linked(open, live, cur, st, nstrm)
      PROVE  Linked(open', live', cur', strm', nstrm')
  BY <1>v, <1>2, LinkedClosed DEF Erase
<1>3. CASE RunMark
  <2> DEFINE c == Head(runner).ctx
  <2>1. c \in Ctx
    BY <1>t, <1>3, RunnerTail DEF RunMark, MarkStreamActive, TypeOK, Function
  <2>2. UNCHANGED <<open, live, cur, nstrm>>
    BY <1>3 DEF RunMark, MarkStreamActive
  <2>3. CASE live[c] /\ cur[c] # None
    <3>1. open /\ cur[c] \in Stream /\ cur[c] <= nstrm /\ strm[cur[c]].ctx = c
      BY <1>l, <1>v, <2>1, <2>3 DEF Linked
    <3>2. strm' = [strm EXCEPT ![cur[c]] = [strm[cur[c]] EXCEPT !.active = TRUE, !.ctx = c]]
      BY <1>3, <2>3 DEF RunMark, MarkStreamActive
    <3>3. \A s \in Stream : strm'[s].ctx = strm[s].ctx /\ strm'[s].st = strm[s].st
      BY <1>s, <3>1, <3>2 DEF StreamRec
    <3>4. \A s \in Stream : s > nstrm => strm'[s] = strm[s]
      BY <1>s, <1>v, <3>1, <3>2 DEF Stream
    <3> QED BY <1>l, <1>s, <1>v, <2>2, <3>3, <3>4, LinkedSame
  <2>4. CASE ~(live[c] /\ cur[c] # None)
    BY <1>l, <1>3, <2>2, <2>4 DEF RunMark, MarkStreamActive
  <2> QED BY <2>3, <2>4
<1>4. CASE RunDelete
  <2>1. Head(runner).ctx \in Ctx
    BY <1>t, <1>4, RunnerTail DEF RunDelete, TypeOK, Function
  <2>2. CASE Erase(Head(runner).ctx, strm)
    BY <1>s, <1>l, <1>2, <1>4, <2>1, <2>2 DEF RunDelete
  <2>3. CASE UNCHANGED <<live, cur, strm>>
    BY <1>l, <1>4, <2>3 DEF RunDelete
  <2> QED BY <1>4, <2>2, <2>3 DEF RunDelete
<1>5. CASE PopNothing
  <2>1. CASE Erase(pq.ctx, strm)
    BY <1>s, <1>l, <1>p, <1>2, <1>5, <2>1 DEF PopNothing
  <2>2. CASE UNCHANGED <<live, cur, strm>>
    BY <1>l, <1>5, <2>2 DEF PopNothing
  <2> QED BY <1>5, <2>1, <2>2 DEF PopNothing, Return
<1>6. CASE ProvideBytes
  <2> DEFINE chunk == [id |-> txobj[pq.ctx].id, ep |-> txobj[pq.ctx].ep,
                       part |-> off[pq.ctx] + 1, last |-> off[pq.ctx] + 1 = txobj[pq.ctx].len,
                       hdr |-> txobj[pq.ctx].act # "none", disc |-> discard[pq.ctx]]
             x == [strm[pq.s] EXCEPT !.active = pq.still, !.data = Append(strm[pq.s].data, chunk)]
             st == [strm EXCEPT ![pq.s] = x]
  <2>1. /\ UNCHANGED <<open, nstrm>>
        /\ Erase(pq.ctx, st) \/ (strm' = st /\ UNCHANGED <<live, cur>>)
    BY <1>6 DEF ProvideBytes, Done
  <2>2. x \in StreamRec /\ x.ctx = strm[pq.s].ctx /\ x.st = strm[pq.s].st
    <3>1. strm[pq.s] \in StreamRec /\ pq.still \in BOOLEAN
      BY <1>t, <1>s, <1>p, <1>6 DEF TypeOK, ProvideBytes
    <3>2. chunk \in Chunk
      <4>1. /\ txobj[pq.ctx] \in Object /\ off[pq.ctx] \in Nat
            /\ off[pq.ctx] < txobj[pq.ctx].len /\ discard[pq.ctx] \in BOOLEAN
        BY <1>t, <1>p, <1>6 DEF IInv, CallbackInv, TypeOK, ProvideBytes
      <4> QED BY <4>1, BoundAssumption DEF Object, Chunk
    <3> HIDE DEF chunk
    <3>3. Append(strm[pq.s].data, chunk) \in Seq(Chunk)
      BY <3>1, <3>2 DEF StreamRec
    <3> QED BY <3>1, <3>3, StreamRecType, ZenonT(40) DEF StreamRec
  <2> HIDE DEF x
  <2>3. pq.s \in Stream /\ pq.s <= nstrm /\ pq.s \in Nat /\ pq.ctx \in Ctx
    BY <1>p, <1>v, <1>6 DEF ProvideBytes, Done
  <2>4. st \in [Stream -> StreamRec]
    BY <1>s, <2>2, <2>3
  <2>5. \A s \in Stream : st[s].ctx = strm[s].ctx /\ st[s].st = strm[s].st
    BY <1>s, <2>2, <2>3
  <2>6. \A s \in Stream : s > nstrm => st[s] = strm[s]
    BY <1>s, <1>v, <2>3 DEF Stream
  <2> HIDE DEF st
  <2>7. Linked(open, live, cur, st, nstrm)
    BY <1>s, <1>v, <1>l, <2>4, <2>5, <2>6, LinkedSame
  <2> QED BY <1>2, <2>1, <2>3, <2>4, <2>7
<1>7. CASE PopReplace
  <2> DEFINE c == pq.ctx
             how == Look(txq[c]).obj.act
             st1 == Closed(strm, cur[c], how)
             cu1 == [cur EXCEPT ![c] = None]
             st2 == Opened(st1, nstrm + 1, c)
             cu2 == [cu1 EXCEPT ![c] = nstrm + 1]
  <2>1. c \in Ctx /\ how \in {"fin", "reset"} /\ nstrm + 1 \in Stream
        /\ (open => live[c]) /\ nstrm + 1 \in 0..MaxStream
    <3>1. c \in Ctx /\ txq[c] \in Queue /\ Look(txq[c]).obj # None /\ how # "none"
      BY <1>t, <1>p, <1>7 DEF PopReplace, Replaces, TypeOK, Queue
    <3>2. Look(txq[c]).obj \in Object
      BY <3>1, LookType
    <3>3. how \in {"fin", "reset"}
      BY <3>1, <3>2 DEF Object, Action
    <3> QED BY <1>p, <1>v, <1>7, <3>1, <3>3, BoundAssumption DEF PopReplace, Replaces, Stream
  <2>2. st1 \in [Stream -> StreamRec] /\ st2 \in [Stream -> StreamRec]
    BY <1>s, <1>v, <2>1, ClosedType, OpenedType
  <2>3. cu1 \in [Ctx -> Stream \cup {None}] /\ cu1[c] = None
        /\ cu2 \in [Ctx -> Stream \cup {None}] /\ cu2[c] = nstrm + 1
    BY <1>v, <2>1
  <2>4. /\ cu2 = [cur EXCEPT ![c] = nstrm + 1]
        /\ [cu2 EXCEPT ![c] = None] = [cur EXCEPT ![c] = None]
    BY <1>v, <2>1
  <2>5. Linked(open, live, cu1, st1, nstrm)
    BY <1>s, <1>v, <1>l, <2>1, LinkedClosed
  <2>6. ~open => ~live[c]
    BY <1>l, <2>1 DEF Linked
  <2>e. /\ UNCHANGED open /\ nstrm' = nstrm + 1
        /\ \/ /\ strm' = Closed(st2, nstrm + 1, "fin") /\ live' = [live EXCEPT ![c] = FALSE]
              /\ cur' = [cur EXCEPT ![c] = None]
           \/ /\ strm' = st2 /\ cur' = [cur EXCEPT ![c] = nstrm + 1] /\ UNCHANGED live
    BY <1>7 DEF PopReplace, Replaces
  <2> HIDE DEF c, how, st1, cu1
  <2>7. Linked(open, live, cu2, st2, nstrm + 1)
    BY <1>v, <2>1, <2>2, <2>3, <2>5, <2>6, LinkedOpened
  <2> HIDE DEF st2, cu2
  <2>8. Linked(open, [live EXCEPT ![c] = FALSE], [cu2 EXCEPT ![c] = None],
               Closed(st2, nstrm + 1, "fin"), nstrm + 1)
    BY <1>v, <2>1, <2>2, <2>3, <2>7, LinkedClosed
  <2> QED BY <2>4, <2>7, <2>8, <2>e
<1>8. CASE Close
  BY <1>l, <1>8 DEF Close, Linked
<1>9. ASSUME NEW c \in Ctx, PeerClosed(c)
      PROVE  Linked(open', live', cur', strm', nstrm')
  <2>1. open /\ UNCHANGED <<open, live, nstrm>> /\ cur[c] \in Stream /\ cur[c] <= nstrm
    BY <1>v, <1>l, <1>9 DEF PeerClosed, Linked
  <2>2. \A d \in Ctx : cur'[d] = IF d = c THEN None ELSE cur[d]
    BY <1>v, <1>9 DEF PeerClosed
  <2>3. \A s \in Stream : IF s = cur[c] THEN strm'[s].ctx = None ELSE strm'[s] = strm[s]
    BY <1>s, <1>9 DEF PeerClosed, StreamRec
  <2>4. /\ \A s \in Stream : s > nstrm' => strm'[s] = FreeStream
        /\ \A d \in Ctx : cur'[d] # None => cur'[d] <= nstrm'
    BY <1>l, <1>v, <2>1, <2>2, <2>3 DEF Linked, Stream
  <2>5. ASSUME NEW d \in Ctx, cur'[d] # None
        PROVE  strm'[cur'[d]].ctx = d /\ strm'[cur'[d]].st = "open"
    BY <1>l, <1>v, <2>1, <2>2, <2>3, <2>5 DEF Linked
  <2>6. ASSUME NEW s \in Stream, strm'[s].ctx # None
        PROVE  /\ live'[strm'[s].ctx] /\ cur'[strm'[s].ctx] = s /\ strm'[s].st = "open"
    <3>1. s # cur[c] /\ strm'[s] = strm[s] /\ strm[s].ctx \in Ctx
      BY <1>s, <2>3, <2>6 DEF StreamRec
    <3> QED BY <1>l, <2>1, <2>2, <2>6, <3>1 DEF Linked
  <2>7. \A d \in Ctx : ~live'[d] => cur'[d] = None
    BY <1>l, <2>1, <2>2 DEF Linked
  <2> QED BY <2>1, <2>4, <2>5, <2>6, <2>7 DEF Linked
<1>10. ASSUME NEW s \in Stream, PrepareToSend(s)
       PROVE  Linked(open', live', cur', strm', nstrm')
  <2>1. UNCHANGED <<open, live, cur, nstrm>> /\ s <= nstrm
    BY <1>10 DEF PrepareToSend
  <2>2. \A x \in Stream : strm'[x].ctx = strm[x].ctx /\ strm'[x].st = strm[x].st
    BY <1>s, <1>10 DEF PrepareToSend, StreamRec
  <2>3. \A x \in Stream : x > nstrm => strm'[x] = strm[x]
    BY <1>s, <1>v, <1>10, <2>1 DEF PrepareToSend, Stream
  <2> QED BY <1>l, <1>s, <1>v, <2>1, <2>2, <2>3, LinkedSame
<1>11. ASSUME UNCHANGED <<open, live, cur, strm, nstrm>>
       PROVE  Linked(open', live', cur', strm', nstrm')
  BY <1>l, <1>11
<1>12. ASSUME NEW c \in Ctx, NEW q, NEW r, NEW o, Enqueue(c, q, r, o)
       PROVE  Linked(open', live', cur', strm', nstrm')
  BY <1>11, <1>12 DEF Enqueue
<1>13. ASSUME NEW c \in Ctx, NEW d \in BOOLEAN, DeleteDataContext(c, d)
       PROVE  Linked(open', live', cur', strm', nstrm')
  BY <1>11, <1>13 DEF DeleteDataContext, ctxVars
<1>14. CASE DiscardStep \/ PopObject \/ DecideStill \/ CheckConnsForCongestion
  BY <1>11, <1>14 DEF DiscardStep, PopObject, DecideStill, CheckConnsForCongestion, ctxVars
<1>15. ASSUME NEW c \in Ctx, NEW r, NEW i, Expire(c, r, i)
       PROVE  Linked(open', live', cur', strm', nstrm')
  BY <1>11, <1>15 DEF Expire
<1>16. CASE UNCHANGED vars
  BY <1>11, <1>16 DEF vars, ctxVars
<1> QED
  BY <1>1, <1>3, <1>4, <1>5, <1>6, <1>7, <1>8, <1>9, <1>10, <1>12, <1>13, <1>14, <1>15, <1>16
     DEF Next, App, Runner, Callback, Environment, EnqueueHeader, EnqueueObject

-----------------------------------------------------------------------------
(* The callback in progress. *)

OffsetOK == \A c \in Ctx : txobj[c] # None => off[c] < txobj[c].len

\* Outside a callback only the offsets matter.
LEMMA CallbackIdle ==
    ASSUME pq' = Idle, OffsetOK'
    PROVE  CallbackInv'
BY DEF Idle, CallbackInv, OffsetOK

\* A step that leaves the callback and the context it works on alone.
LEMMA CallbackKept ==
    ASSUME CallbackInv, UNCHANGED pq, OffsetOK', open' => open,
           pq.pc # "idle" =>
              /\ nstrm' >= nstrm /\ nstrm' \in Nat /\ nstrm \in Nat
              /\ open' => live'[pq.ctx] = live[pq.ctx] /\ cur'[pq.ctx] = cur[pq.ctx]
              /\ discard'[pq.ctx] = discard[pq.ctx]
              /\ txobj'[pq.ctx] = txobj[pq.ctx] /\ off'[pq.ctx] = off[pq.ctx]
              /\ Empty(txq[pq.ctx]) \/ mark[pq.ctx] => Empty(txq'[pq.ctx]) \/ mark'[pq.ctx]
    PROVE  CallbackInv'
BY DEF CallbackInv, OffsetOK

\* Deleting a context resets its offset.
LEMMA EraseOffset ==
    ASSUME TypeOK, OffsetOK, NEW c \in Ctx, NEW st, Erase(c, st)
    PROVE  OffsetOK'
BY DEF Erase, OffsetOK, TypeOK

\* Every step keeps what a callback in progress relies on.
LEMMA CallbackStep ==
    ASSUME IInv, [Next]_vars
    PROVE  CallbackInv'
<1>t. TypeOK /\ CallbackInv /\ OffsetOK /\ nstrm \in Nat
  BY BoundAssumption DEF IInv, CallbackInv, OffsetOK, TypeOK
<1>p. pq.pc # "idle" => pq.ctx \in Ctx
  BY DEF IInv, CallbackInv, TypeOK
<1>1. ASSUME NEW c \in Ctx, CreateDataContext(c)
      PROVE  CallbackInv'
  <2>1. pq.pc # "idle" => pq.ctx # c
    BY <1>t, <1>1 DEF CallbackInv, CreateDataContext
  <2>2. \A d \in Ctx : d # c => live'[d] = live[d] /\ cur'[d] = cur[d] /\ mark'[d] = mark[d]
    BY <1>t, <1>1 DEF TypeOK, CreateDataContext
  <2>3. UNCHANGED <<open, pq, discard, txobj, off, txq>> /\ nstrm' = nstrm + 1
    BY <1>1 DEF CreateDataContext
  <2>4. OffsetOK'
    BY <1>t, <2>3 DEF OffsetOK
  <2> QED BY <1>t, <1>p, <2>1, <2>2, <2>3, <2>4, CallbackKept
<1>2. ASSUME NEW c \in Ctx, NEW q, NEW r, NEW o, Enqueue(c, q, r, o)
      PROVE  CallbackInv'
  <2>1. UNCHANGED <<open, live, cur, pq, discard, txobj, off, nstrm>>
    BY <1>2 DEF Enqueue
  <2>2. \A d \in Ctx : Empty(txq[d]) \/ mark[d] => Empty(txq'[d]) \/ mark'[d]
    BY <1>t, <1>2 DEF Enqueue, TypeOK
  <2>3. OffsetOK'
    BY <1>t, <2>1 DEF OffsetOK
  <2> QED BY <1>t, <1>p, <2>1, <2>2, <2>3, CallbackKept
<1>3. CASE RunMark
  BY <1>t, <1>3, CallbackKept DEF RunMark, MarkStreamActive, OffsetOK
<1>4. CASE RunDelete
  <2>1. Head(runner).ctx \in Ctx
    BY <1>t, <1>4, RunnerTail DEF RunDelete, TypeOK, Function
  <2>2. OffsetOK'
    <3>1. CASE Erase(Head(runner).ctx, strm)
      BY <1>t, <2>1, <3>1, EraseOffset
    <3>2. CASE UNCHANGED <<txobj, off>>
      BY <1>t, <3>2 DEF OffsetOK
    <3> QED BY <1>4, <3>1, <3>2 DEF RunDelete
  <2> QED BY <1>t, <1>4, <2>2, CallbackKept DEF RunDelete
<1>5. ASSUME NEW s \in Stream, PrepareToSend(s)
      PROVE  CallbackInv'
  <2> DEFINE c == strm[s].ctx
  <2>1. UNCHANGED <<open, live, cur, mark, discard, txobj, off, nstrm>> /\ open /\ s <= nstrm
        /\ pq.pc = "idle"
    BY <1>5 DEF PrepareToSend
  <2>2. OffsetOK'
    BY <1>t, <2>1 DEF OffsetOK
  <2>3. CASE c = None
    BY <1>t, <1>5, <2>1, <2>2, <2>3, CallbackKept DEF PrepareToSend
  <2>4. CASE c # None
    <3>1. live[c] /\ cur[c] = s /\ s \in 1..nstrm
      BY <1>t, <2>1, <2>4 DEF IInv, LinkedAlive, Stream
    <3>2. /\ pq'.pc = "pop" \/ (pq'.pc = "discard" /\ discard[c])
          /\ pq'.ctx = c /\ pq'.s = s
      BY <1>5, <2>4 DEF PrepareToSend
    <3> HIDE DEF c
    <3> QED BY <2>1, <2>2, <2>4, <3>1, <3>2 DEF CallbackInv, OffsetOK
  <2> QED BY <2>3, <2>4
<1>6. CASE DiscardStep
  <2> DEFINE c == pq.ctx
  <2>1. c \in Ctx
    BY <1>p, <1>6 DEF DiscardStep
  <2>2. CASE pq.act # "none" /\ congested
    <3>1. pq' = Idle /\ UNCHANGED <<txobj, off>>
      BY <1>6, <2>2 DEF DiscardStep
    <3> QED BY <1>t, <3>1, CallbackIdle DEF OffsetOK
  <2>3. CASE ~(pq.act # "none" /\ congested)
    <3>1. /\ pq' = [pq EXCEPT !.pc = "pop"] /\ UNCHANGED <<open, live, cur, nstrm>>
          /\ txobj' = [txobj EXCEPT ![c] = IF pq.act # "none" THEN None ELSE @]
          /\ off' = [off EXCEPT ![c] = IF pq.act # "none" THEN 0 ELSE @]
      BY <1>6, <2>3 DEF DiscardStep
    <3>2. pq'.pc = "pop" /\ pq'.ctx = pq.ctx /\ pq'.s = pq.s /\ pq.pc # "idle"
      BY <1>t, <1>6, <3>1 DEF TypeOK, DiscardStep
    <3>3. OffsetOK'
      BY <1>t, <2>1, <3>1 DEF TypeOK, OffsetOK
    <3> QED BY <1>t, <3>1, <3>2, <3>3 DEF CallbackInv, OffsetOK
  <2> QED BY <2>2, <2>3
<1>7. CASE PopNothing
  <2>1. pq' = Idle /\ pq.ctx \in Ctx
    BY <1>p, <1>7 DEF PopNothing, Return
  <2>2. CASE Erase(pq.ctx, strm)
    BY <1>t, <2>1, <2>2, EraseOffset, CallbackIdle
  <2>3. CASE UNCHANGED <<txobj, off>>
    BY <1>t, <2>1, <2>3, CallbackIdle DEF OffsetOK
  <2> QED BY <1>7, <2>2, <2>3 DEF PopNothing, Return
<1>f. \A c \in Ctx : /\ Look(txq[c]).obj \in Object \cup {None}
                     /\ Look(txq[c]).obj # None => Look(txq[c]).obj.len > 0
  <2>1. \A c \in Ctx : Look(txq[c]).obj \in Object \cup {None}
    BY <1>t, LookType DEF TypeOK, Queue
  <2>2. \A o \in Object : o.len > 0
    BY BoundAssumption DEF Object
  <2> QED BY <2>1, <2>2
<1>8. CASE PopReplace
  <2>1. pq' = Idle /\ pq.ctx \in Ctx
    BY <1>p, <1>8 DEF PopReplace, Replaces
  <2>2. \/ UNCHANGED <<txobj, off>>
        \/ /\ txobj' = [txobj EXCEPT ![pq.ctx] = Look(txq[pq.ctx]).obj]
           /\ off' = [off EXCEPT ![pq.ctx] = 0]
    BY <1>8 DEF PopReplace, Replaces
  <2>3. OffsetOK'
    BY <1>t, <1>f, <2>1, <2>2 DEF TypeOK, OffsetOK
  <2> QED BY <2>1, <2>3, CallbackIdle
<1>9. CASE PopObject
  <2> DEFINE c == pq.ctx
  <2>1. c \in Ctx
    BY <1>p, <1>9 DEF PopObject
  <2>2. \/ txobj[c] # None /\ UNCHANGED <<txobj, off>>
        \/ /\ txobj' = [txobj EXCEPT ![c] = Look(txq[c]).obj] /\ Look(txq[c]).obj # None
           /\ off' = [off EXCEPT ![c] = 0]
    BY <1>9 DEF PopObject
  <2>3. OffsetOK' /\ txobj'[c] # None
    BY <1>t, <1>f, <2>1, <2>2 DEF TypeOK, OffsetOK
  <2>4. /\ UNCHANGED <<open, live, cur, nstrm>> /\ pq.pc # "idle"
        /\ pq'.pc = "write" /\ pq'.ctx = c /\ pq'.s = pq.s
    BY <1>t, <1>9 DEF TypeOK, PopObject
  <2> HIDE DEF c
  <2> QED BY <1>t, <2>3, <2>4 DEF CallbackInv, OffsetOK, c
<1>10. CASE DecideStill
  <2> DEFINE c == pq.ctx
  <2>1. /\ UNCHANGED <<open, live, cur, nstrm, txobj, off, txq, mark>> /\ pq.pc = "write"
        /\ pq'.pc = "provide" /\ pq'.ctx = c /\ pq'.s = pq.s
        /\ pq'.still = (off[c] + 1 < txobj[c].len \/ ~Empty(txq[c]))
    BY <1>t, <1>10 DEF TypeOK, DecideStill, More, ctxVars
  <2>2. c \in Ctx /\ txobj[c] # None /\ off[c] < txobj[c].len
    BY <1>t, <1>p, <2>1 DEF CallbackInv
  <2>3. off[c] \in Nat /\ txobj[c].len \in Nat
    BY <1>t, <2>2 DEF TypeOK, Object
  <2>4. ~pq'.still => off[c] + 1 = txobj[c].len /\ Empty(txq[c])
    <3>1. ~pq'.still => ~(off[c] + 1 < txobj[c].len) /\ Empty(txq[c])
      BY <2>1, Zenon
    <3>2. ~(off[c] + 1 < txobj[c].len) => off[c] + 1 = txobj[c].len
      BY <2>2, <2>3
    <3> QED BY <3>1, <3>2
  <2> HIDE DEF c
  <2> QED BY <1>t, <2>1, <2>2, <2>4 DEF CallbackInv, OffsetOK, c
<1>11. CASE ProvideBytes
  <2> DEFINE c == pq.ctx
  <2>1. pq' = Idle /\ c \in Ctx /\ txobj[c] # None /\ off[c] < txobj[c].len
    BY <1>t, <1>p, <1>11 DEF ProvideBytes, Done, CallbackInv
  <2>2. CASE \E st : Erase(c, st)
    BY <1>t, <2>1, <2>2, EraseOffset, CallbackIdle
  <2>3. CASE /\ txobj' = [txobj EXCEPT ![c] = IF off[c] + 1 = txobj[c].len THEN None ELSE @]
             /\ off' = [off EXCEPT ![c] = IF off[c] + 1 = txobj[c].len THEN 0 ELSE @ + 1]
    <3>1. off[c] \in Nat /\ txobj[c].len \in Nat
      BY <1>t, <2>1 DEF TypeOK, Object
    <3>2. OffsetOK'
      BY <1>t, <2>1, <2>3, <3>1 DEF TypeOK, OffsetOK
    <3> QED BY <2>1, <3>2, CallbackIdle
  <2> QED BY <1>11, <2>2, <2>3 DEF ProvideBytes, Done
<1>12. CASE Close
  <2>1. OffsetOK'
    BY <1>t, <1>12 DEF Close, OffsetOK
  <2>2. ~open' /\ UNCHANGED <<mark, discard, txobj, off, nstrm, pq, txq>>
    BY <1>12 DEF Close
  <2> QED BY <1>t, <2>1, <2>2, CallbackKept
<1>13. CASE CheckConnsForCongestion
  <2>1. OffsetOK'
    BY <1>t, <1>13 DEF CheckConnsForCongestion, OffsetOK
  <2> QED BY <1>t, <1>13, <2>1, CallbackKept DEF CheckConnsForCongestion
<1>14. ASSUME NEW c \in Ctx, PeerClosed(c)
       PROVE  CallbackInv'
  <2>1. OffsetOK'
    BY <1>t, <1>14 DEF PeerClosed, OffsetOK
  <2> QED BY <1>t, <1>14, <2>1, CallbackKept DEF PeerClosed
<1>15. ASSUME NEW c \in Ctx, NEW r \in Rank, NEW i \in 1..Len(txq[c][r]), Expire(c, r, i)
       PROVE  CallbackInv'
  <2>1. OffsetOK'
    BY <1>t, <1>15 DEF Expire, OffsetOK
  <2>2. ~Empty(txq[c])
    <3>1. NoQueue[r] = <<>>
      BY DEF NoQueue
    <3> QED BY <1>15, <3>1 DEF Empty
  <2>3. \A d \in Ctx : Empty(txq[d]) => Empty(txq'[d])
    BY <1>t, <1>15, <2>2 DEF TypeOK, Expire
  <2>4. UNCHANGED <<open, live, cur, mark, discard, txobj, off, nstrm, pq>>
    BY <1>15 DEF Expire
  <2> QED BY <1>t, <1>p, <2>1, <2>3, <2>4, CallbackKept
<1>16. ASSUME UNCHANGED <<open, live, cur, mark, discard, txobj, off, nstrm, pq, txq>>
       PROVE  CallbackInv'
  BY <1>t, <1>16 DEF CallbackInv
<1>17. ASSUME NEW c \in Ctx, NEW d \in BOOLEAN, DeleteDataContext(c, d)
       PROVE  CallbackInv'
  BY <1>16, <1>17 DEF DeleteDataContext, ctxVars
<1>18. CASE UNCHANGED vars
  BY <1>16, <1>18 DEF vars, ctxVars
<1> QED
  BY <1>1, <1>2, <1>3, <1>4, <1>5, <1>6, <1>7, <1>8, <1>9, <1>10, <1>11, <1>12, <1>13,
     <1>14, <1>15, <1>17, <1>18
     DEF Next, App, Runner, Callback, Environment, EnqueueHeader, EnqueueObject

-----------------------------------------------------------------------------
(* No lost wake-up. *)

Needs(c) == live[c] /\ cur[c] # None /\ pq.ctx # c /\ (~Empty(txq[c]) \/ txobj[c] # None)
Awake(c) == strm[cur[c]].active \/ Posted(c) \/ slid \/ discard[c]

\* While the flag is honest, discard mode alone is as good as "discard mode
\* with the flag down".
LEMMA AwakeIsPending ==
    /\ IInv => \A c \in Ctx : Needs(c) => Awake(c)
    /\ MarkFlagHonest' /\ (\A c \in Ctx : Needs(c)' => Awake(c)') => WakeupPending'
BY DEF IInv, Needs, Awake, WakeupPending, MarkFlagHonest

\* A context the step does not concern.
LEMMA AwakeKept ==
    ASSUME NEW c \in Ctx, Needs(c) => Awake(c), Needs(c)' => Needs(c),
           Needs(c)' => cur'[c] = cur[c],
           Needs(c)' /\ strm[cur[c]].active => strm'[cur[c]].active,
           discard[c] => discard'[c],
           Posted(c) \/ slid => Posted(c)' \/ slid'
    PROVE  Needs(c)' => Awake(c)'
BY DEF Awake

\* CloseStream does not change which streams are active.
LEMMA ClosedActive ==
    ASSUME NEW st \in [Stream -> StreamRec], NEW x \in Stream \cup {None},
           NEW how \in {"fin", "reset"}, NEW s \in Stream
    PROVE  Closed(st, x, how)[s].active = st[s].active
BY DEF Closed, StreamRec

\* Two live contexts have different streams.
LEMMA CurDistinct ==
    ASSUME IInv, NEW c \in Ctx, NEW d \in Ctx, c # d, open, cur[d] # None
    PROVE  cur[c] # cur[d]
BY DEF IInv, LinkInv

\* Every step keeps a wake-up pending for a context with work.
LEMMA WakeStep ==
    ASSUME IInv, [Next]_vars
    PROVE  WakeupPending'
<1>m. MarkFlagHonest'
  BY MarkStep
<1> SUFFICES \A d \in Ctx : Needs(d)' => Awake(d)'
  BY <1>m, AwakeIsPending
<1>t. TypeOK /\ CallbackInv /\ MarkFlagHonest
  BY DEF IInv
<1>s. strm \in [Stream -> StreamRec] /\ cur \in [Ctx -> Stream \cup {None}]
  BY <1>t DEF TypeOK, StreamRec
<1>w. \A d \in Ctx : Needs(d) => Awake(d)
  BY AwakeIsPending
<1>p. /\ pq.pc # "idle" => pq.ctx \in Ctx
      /\ \A d \in Ctx : pq.pc = "idle" => pq.ctx # d
  BY <1>t, CtxAssumption DEF CallbackInv, TypeOK
<1>o. \A d \in Ctx : live[d] => open
  BY DEF IInv, LinkInv
<1>k. \A d \in Ctx : cur[d] # None => cur[d] \in Stream /\ cur[d] <= nstrm /\ cur[d] # nstrm + 1
  <2>1. nstrm \in Nat
    BY <1>t, BoundAssumption DEF TypeOK
  <2> QED BY <1>s, <2>1 DEF IInv, LinkInv, Stream
<1>i. Idle.ctx = None /\ \A d \in Ctx : d # None
  BY CtxAssumption DEF Idle
<1>1. ASSUME NEW c \in Ctx, CreateDataContext(c), NEW d \in Ctx
      PROVE  Needs(d)' => Awake(d)'
  <2>1. Posted(c)' /\ (Posted(d) \/ slid => Posted(d)' \/ slid')
    BY <1>t, <1>1, FnType, RunPq DEF CreateDataContext, TypeOK
  <2>2. CASE d = c
    BY <2>1, <2>2 DEF Awake
  <2>3. CASE d # c
    <3>1. live'[d] = live[d] /\ cur'[d] = cur[d] /\ UNCHANGED <<txq, txobj, discard, pq>>
      BY <1>t, <1>1, <2>3 DEF TypeOK, CreateDataContext
    <3>2. Needs(d)' => strm'[cur[d]] = strm[cur[d]]
      BY <1>s, <1>k, <1>1, <3>1 DEF CreateDataContext, Opened, Needs
    <3> QED BY <1>w, <2>1, <3>1, <3>2, AwakeKept DEF Needs
  <2> QED BY <2>2, <2>3
<1>2. ASSUME NEW c \in Ctx, NEW q, NEW r, NEW o, Enqueue(c, q, r, o), NEW d \in Ctx
      PROVE  Needs(d)' => Awake(d)'
  <2>1. /\ Posted(d) \/ slid => Posted(d)' \/ slid'
        /\ ~mark[c] => Posted(c)'
    BY <1>t, <1>2, EnqueueMark
  <2>2. CASE d = c
    <3>1. live[c]
      BY <1>2 DEF Enqueue
    <3>2. mark[c] => Posted(c) \/ slid
      BY <1>t, <3>1 DEF MarkFlagHonest
    <3> QED BY <2>1, <2>2, <3>2 DEF Awake
  <2>3. CASE d # c
    <3>1. txq'[d] = txq[d] /\ UNCHANGED <<live, cur, txobj, discard, pq, strm>>
      BY <1>t, <1>2, <2>3 DEF TypeOK, Enqueue
    <3> QED BY <1>w, <2>1, <3>1, AwakeKept DEF Needs
  <2> QED BY <2>2, <2>3
<1>3. ASSUME NEW c \in Ctx, NEW b \in BOOLEAN, DeleteDataContext(c, b), NEW d \in Ctx
      PROVE  Needs(d)' => Awake(d)'
  <2>1. Posted(d) \/ slid => Posted(d)' \/ slid'
    BY <1>t, <1>3, FnType, RunPq DEF DeleteDataContext, TypeOK
  <2>2. UNCHANGED <<live, cur, txq, txobj, discard, pq, strm>>
    BY <1>3 DEF DeleteDataContext, ctxVars
  <2> QED BY <1>w, <2>1, <2>2, AwakeKept DEF Needs
<1>4. ASSUME RunMark, NEW d \in Ctx
      PROVE  Needs(d)' => Awake(d)'
  <2> DEFINE c == Head(runner).ctx
  <2>1. c \in Ctx /\ (Posted(d) /\ d # c => Posted(d)') /\ slid' = slid
    <3>1. c \in Ctx
      BY <1>t, <1>4, RunnerTail DEF RunMark, MarkStreamActive, TypeOK, Function
    <3>2. d # c => Head(runner) # MarkFn(d)
      BY DEF MarkFn
    <3>3. Posted(d) /\ Head(runner) # MarkFn(d) => Posted(d)'
      BY <1>t, <1>4, RunnerTail DEF RunMark, MarkStreamActive, TypeOK
    <3> QED BY <1>4, <3>1, <3>2, <3>3 DEF RunMark, MarkStreamActive
  <2>2. UNCHANGED <<live, cur, txq, txobj, discard, pq>>
    BY <1>4 DEF RunMark, MarkStreamActive
  <2>3. CASE d = c
    <3> SUFFICES ASSUME Needs(d)'
                 PROVE  strm'[cur'[d]].active
      BY DEF Awake
    <3>1. live[c] /\ cur[c] # None /\ cur[c] \in Stream
      BY <1>s, <2>1, <2>2, <2>3 DEF Needs
    <3>2. strm' = [strm EXCEPT ![cur[c]] = [strm[cur[c]] EXCEPT !.active = TRUE, !.ctx = c]]
      BY <1>4, <3>1 DEF RunMark, MarkStreamActive
    <3> QED BY <1>s, <2>2, <2>3, <3>1, <3>2 DEF StreamRec
  <2>4. CASE d # c
    <3>1. Needs(d)' => strm'[cur[d]] = strm[cur[d]]
      BY <1>s, <1>o, <1>4, <2>1, <2>2, <2>4, CurDistinct DEF RunMark, MarkStreamActive, Needs
    <3> QED BY <1>w, <2>1, <2>2, <2>4, <3>1, AwakeKept DEF Needs
  <2> QED BY <2>3, <2>4
<1>e. ASSUME NEW c \in Ctx, NEW st \in [Stream -> StreamRec], Erase(c, st), NEW d \in Ctx
      PROVE  /\ ~live'[c]
             /\ d # c => live'[d] = live[d] /\ cur'[d] = cur[d] /\ txobj'[d] = txobj[d]
             /\ \A x \in Stream : strm'[x].active = st[x].active
  <2>1. \A x \in Stream : strm'[x].active = st[x].active
    BY <1>s, <1>e, ClosedActive DEF Erase
  <2> QED BY <1>t, <1>e, <2>1 DEF Erase, TypeOK
<1>5. ASSUME RunDelete, NEW d \in Ctx
      PROVE  Needs(d)' => Awake(d)'
  <2> DEFINE c == Head(runner).ctx
  <2>1. c \in Ctx /\ (Posted(d) \/ slid => Posted(d)' \/ slid')
    <3>1. Head(runner) # MarkFn(d)
      BY <1>5 DEF RunDelete, MarkFn
    <3>2. c \in Ctx
      BY <1>t, <1>5, RunnerTail DEF RunDelete, TypeOK, Function
    <3>3. slid' = slid /\ (Posted(d) /\ Head(runner) # MarkFn(d) => Posted(d)')
      BY <1>t, <1>5, RunnerTail DEF RunDelete, TypeOK
    <3> QED BY <3>1, <3>2, <3>3
  <2>2. UNCHANGED <<txq, discard, pq>>
    BY <1>5 DEF RunDelete
  <2>3. CASE UNCHANGED <<live, cur, txobj, strm>>
    BY <1>w, <2>1, <2>2, <2>3, AwakeKept DEF Needs
  <2>4. CASE Erase(c, strm)
    <3>1. CASE d = c
      BY <1>s, <1>e, <2>1, <2>4, <3>1 DEF Needs
    <3>2. CASE d # c
      <4>1. live'[d] = live[d] /\ cur'[d] = cur[d] /\ txobj'[d] = txobj[d]
        BY <1>s, <1>e, <2>1, <2>4, <3>2
      <4>2. \A x \in Stream : strm'[x].active = strm[x].active
        BY <1>s, <1>e, <2>1, <2>4
      <4>3. Needs(d)' => cur[d] \in Stream
        BY <1>k, <4>1 DEF Needs
      <4> QED BY <1>w, <2>1, <2>2, <4>1, <4>2, <4>3, AwakeKept DEF Needs
    <3> QED BY <3>1, <3>2
  <2> QED BY <1>5, <2>3, <2>4 DEF RunDelete
<1>6. ASSUME NEW s \in Stream, PrepareToSend(s), NEW d \in Ctx
      PROVE  Needs(d)' => Awake(d)'
  <2> DEFINE c == strm[s].ctx
  <2>1. UNCHANGED <<open, live, cur, mark, discard, txobj, runner, slid>> /\ pq.pc = "idle"
    BY <1>6 DEF PrepareToSend
  <2>2. d # c => txq'[d] = txq[d]
    BY <1>t, <1>6 DEF PrepareToSend, TypeOK
  <2>3. d = c => ~Needs(d)'
    BY <1>i, <1>6 DEF PrepareToSend, Needs
  <2>4. d # c /\ live[d] /\ cur[d] # None => cur[d] # s
    BY <1>o DEF IInv, LinkInv
  <2>5. d # c /\ live[d] /\ cur[d] # None => strm'[cur[d]] = strm[cur[d]]
    BY <1>s, <1>6, <2>4 DEF PrepareToSend
  <2>6. Posted(d) \/ slid => Posted(d)' \/ slid'
    BY <2>1, SamePosts
  <2> HIDE DEF c
  <2>7. d # c /\ Needs(d)' => Needs(d)
    BY <1>p, <2>1, <2>2 DEF Needs
  <2>8. CASE d = c
    BY <2>3, <2>8
  <2>9. CASE d # c
    <3>1. Needs(d)' /\ strm[cur[d]].active => strm'[cur[d]].active
      BY <2>5, <2>7, <2>9 DEF Needs
    <3> QED BY <1>w, <2>1, <2>6, <2>7, <2>9, <3>1, AwakeKept
  <2> QED BY <2>8, <2>9
<1>7. ASSUME DiscardStep, NEW d \in Ctx
      PROVE  Needs(d)' => Awake(d)'
  <2> DEFINE c == pq.ctx
  <2>1. c \in Ctx /\ discard[c] /\ UNCHANGED <<live, cur, strm>>
    BY <1>t, <1>p, <1>7 DEF DiscardStep, CallbackInv
  <2>2. Posted(d) \/ slid => Posted(d)' \/ slid'
    BY <1>t, <1>7, <2>1, FnType, RunPq, SamePosts DEF DiscardStep, TypeOK
  <2>3. CASE d = c
    <3>1. pq'.ctx = c \/ discard' = discard
      BY <1>t, <1>7 DEF DiscardStep, TypeOK
    <3> QED BY <2>1, <2>3, <3>1 DEF Needs, Awake
  <2>4. CASE d # c
    <3>1. txq'[d] = txq[d] /\ txobj'[d] = txobj[d] /\ discard'[d] = discard[d]
      BY <1>t, <1>7, <2>4 DEF DiscardStep, TypeOK
    <3> QED BY <1>w, <2>1, <2>2, <2>4, <3>1, AwakeKept DEF Needs
  <2> QED BY <2>3, <2>4
<1>8. ASSUME PopNothing, NEW d \in Ctx
      PROVE  Needs(d)' => Awake(d)'
  <2> DEFINE c == pq.ctx
             f == Look(txq[c])
  <2>1. c \in Ctx /\ txobj[c] = None /\ txq[c] \in Queue
    BY <1>t, <1>p, <1>8 DEF PopNothing, TypeOK, Queue
  <2>2. /\ f.obj = None \/ f.expired
        /\ txq' = [txq EXCEPT ![c] = f.pop]
        /\ discard' = [discard EXCEPT ![c] = discard[c] \/ f.expired]
        /\ UNCHANGED <<runner, slid>>
        /\ Erase(c, strm) \/ UNCHANGED <<strm, live, cur, txobj>>
    BY <1>8 DEF PopNothing, Return
  <2>3. f.obj = None => Empty(f.pop)
    BY <2>1, LookType DEF Empty
  <2>4. Posted(d) \/ slid => Posted(d)' \/ slid'
    BY <2>2, SamePosts
  <2> HIDE DEF f
  <2>5. CASE d = c
    <3>1. CASE Erase(c, strm)
      BY <1>s, <1>e, <2>1, <2>5, <3>1 DEF Needs
    <3>2. CASE UNCHANGED <<strm, live, cur, txobj>>
      <4>1. CASE f.expired
        <5>1. discard'[d]
          BY <1>t, <2>1, <2>2, <2>5, <4>1 DEF TypeOK
        <5> QED BY <5>1 DEF Awake
      <4>2. CASE ~f.expired
        <5>1. Empty(txq'[d]) /\ txobj'[d] = None
          BY <1>t, <2>1, <2>2, <2>3, <2>5, <3>2, <4>2 DEF TypeOK
        <5> QED BY <5>1 DEF Needs
      <4> QED BY <4>1, <4>2
    <3> QED BY <2>2, <3>1, <3>2
  <2>6. CASE d # c
    <3>1. txq'[d] = txq[d] /\ discard'[d] = discard[d]
      BY <1>t, <2>2, <2>6 DEF TypeOK
    <3>2. live'[d] = live[d] /\ cur'[d] = cur[d] /\ txobj'[d] = txobj[d]
      BY <1>s, <1>e, <2>1, <2>2, <2>6
    <3>3. \A x \in Stream : strm'[x].active = strm[x].active
      BY <1>s, <1>e, <2>1, <2>2
    <3>4. Needs(d)' => Needs(d) /\ cur[d] \in Stream
      BY <1>k, <2>6, <3>1, <3>2 DEF Needs
    <3> QED BY <1>w, <2>4, <3>1, <3>2, <3>3, <3>4, AwakeKept
  <2> QED BY <2>5, <2>6
<1>9. ASSUME PopReplace, NEW d \in Ctx
      PROVE  Needs(d)' => Awake(d)'
  <2> DEFINE c == pq.ctx
             how == Look(txq[c]).obj.act
             st1 == Closed(strm, cur[c], how)
             st2 == Opened(st1, nstrm + 1, c)
  <2>1. c \in Ctx /\ how \in {"fin", "reset"} /\ nstrm + 1 \in Stream
    <3>1. c \in Ctx /\ txq[c] \in Queue /\ Look(txq[c]).obj # None /\ how # "none"
      BY <1>t, <1>p, <1>9 DEF PopReplace, Replaces, TypeOK, Queue
    <3>2. Look(txq[c]).obj \in Object
      BY <3>1, LookType
    <3>3. how \in {"fin", "reset"}
      BY <3>1, <3>2 DEF Object, Action
    <3> QED BY <1>t, <1>9, <3>1, <3>3, BoundAssumption DEF PopReplace, Replaces, TypeOK, Stream
  <2>2. (d = c => Posted(d)') /\ (Posted(d) \/ slid => Posted(d)' \/ slid')
    BY <1>t, <1>9, <2>1, FnType, RunPq DEF PopReplace, Replaces, TypeOK
  <2>3. st1 \in [Stream -> StreamRec] /\ st2 \in [Stream -> StreamRec]
    BY <1>s, <2>1, ClosedType, OpenedType
  <2>4. \A x \in Stream : st1[x].active = strm[x].active
    BY <1>s, <2>1, ClosedActive
  <2>5. \A x \in Stream : x # nstrm + 1 => st2[x] = st1[x]
    BY <2>3 DEF Opened
  <2>6. /\ strm' = st2 \/ strm' = Closed(st2, nstrm + 1, "fin")
        /\ d # c => /\ live'[d] = live[d] /\ cur'[d] = cur[d] /\ txobj'[d] = txobj[d]
                    /\ txq'[d] = txq[d] /\ discard'[d] = discard[d]
    BY <1>t, <1>9 DEF PopReplace, Replaces, TypeOK
  <2> HIDE DEF c, how, st1, st2
  <2>7. \A x \in Stream : strm'[x].active = st2[x].active
    BY <2>1, <2>3, <2>6, ClosedActive
  <2>8. CASE d = c
    BY <2>2, <2>8 DEF Awake
  <2>9. CASE d # c
    <3>1. Needs(d)' => Needs(d)
      BY <2>6, <2>9 DEF Needs, c
    <3>2. Needs(d) => strm'[cur[d]].active = strm[cur[d]].active
      BY <1>k, <2>4, <2>5, <2>7 DEF Needs
    <3> QED BY <1>w, <2>2, <2>6, <2>9, <3>1, <3>2, AwakeKept
  <2> QED BY <2>8, <2>9
<1>10. ASSUME PopObject \/ DecideStill, NEW d \in Ctx
       PROVE  Needs(d)' => Awake(d)'
  <2>1. pq'.ctx = pq.ctx /\ UNCHANGED <<live, cur, discard, strm, runner, slid>>
    BY <1>t, <1>10 DEF PopObject, DecideStill, TypeOK, ctxVars
  <2>2. d # pq.ctx => txq'[d] = txq[d] /\ txobj'[d] = txobj[d]
    BY <1>t, <1>10 DEF PopObject, DecideStill, TypeOK, ctxVars
  <2>3. Posted(d) \/ slid => Posted(d)' \/ slid'
    BY <2>1, SamePosts
  <2> QED BY <1>w, <2>1, <2>2, <2>3, AwakeKept DEF Needs
<1>11. ASSUME ProvideBytes, NEW d \in Ctx
       PROVE  Needs(d)' => Awake(d)'
  <2> DEFINE c == pq.ctx
             o == txobj[c]
             chunk == [id |-> o.id, ep |-> o.ep, part |-> off[c] + 1,
                       last |-> off[c] + 1 = o.len,
                       hdr |-> o.act # "none", disc |-> discard[c]]
             x == [strm[pq.s] EXCEPT !.active = pq.still,
                                     !.data = Append(strm[pq.s].data, chunk)]
             st == [strm EXCEPT ![pq.s] = x]
  <2>1. /\ UNCHANGED <<discard, txq, runner, slid, mark>>
        /\ \/ Erase(c, st)
           \/ /\ strm' = st /\ UNCHANGED <<live, cur>>
              /\ txobj' = [txobj EXCEPT ![c] = IF off[c] + 1 = o.len THEN None ELSE o]
    BY <1>11 DEF ProvideBytes, Done
  <2>2. /\ c \in Ctx /\ o \in Object /\ off[c] \in Nat /\ off[c] < o.len
        /\ pq.s \in Stream /\ pq.still \in BOOLEAN /\ discard[c] \in BOOLEAN
    BY <1>t, <1>p, <1>11, BoundAssumption DEF ProvideBytes, Done, CallbackInv, TypeOK, Stream
  <2>3. live[c] => cur[c] = pq.s
    BY <1>t, <1>o, <1>11, <2>2 DEF ProvideBytes, Done, CallbackInv
  <2>4. ~pq.still => off[c] + 1 = o.len /\ (Empty(txq[c]) \/ mark[c])
    BY <1>t, <1>11 DEF ProvideBytes, Done, CallbackInv
  <2>5. x \in StreamRec /\ x.active = pq.still
    <3>1. chunk \in Chunk
      BY <2>2, BoundAssumption DEF Object, Chunk
    <3> HIDE DEF chunk
    <3>2. strm[pq.s] \in StreamRec
      BY <1>s, <2>2
    <3>3. Append(strm[pq.s].data, chunk) \in Seq(Chunk)
      BY <3>1, <3>2 DEF StreamRec
    <3> QED BY <2>2, <3>2, <3>3, StreamRecType DEF StreamRec
  <2> HIDE DEF x
  <2>6. /\ st \in [Stream -> StreamRec] /\ st[pq.s].active = pq.still
        /\ \A y \in Stream : y # pq.s => st[y] = strm[y]
    BY <1>s, <2>2, <2>5
  <2>7. Posted(d) \/ slid => Posted(d)' \/ slid'
    BY <2>1, SamePosts
  <2> HIDE DEF st, c, o
  <2>8. CASE d = c
    <3>1. CASE Erase(c, st)
      BY <1>e, <2>2, <2>6, <2>8, <3>1 DEF Needs
    <3>2. CASE ~Erase(c, st)
      <4>1. /\ strm' = st /\ UNCHANGED <<live, cur>>
            /\ txobj'[c] = IF off[c] + 1 = o.len THEN None ELSE o
        BY <1>t, <2>1, <2>2, <3>2 DEF TypeOK
      <4>2. SUFFICES ASSUME Needs(d)'
                     PROVE  Awake(d)'
        OBVIOUS
      <4>3. live[d] /\ cur'[d] = pq.s
        BY <2>3, <2>8, <4>1, <4>2 DEF Needs
      <4>4. CASE pq.still
        BY <2>6, <4>1, <4>3, <4>4 DEF Awake
      <4>5. CASE ~pq.still
        <5>1. mark[d]
          BY <2>1, <2>4, <2>8, <4>1, <4>2, <4>5 DEF Needs
        <5>2. Posted(d) \/ slid
          BY <1>t, <4>3, <5>1 DEF MarkFlagHonest
        <5> QED BY <2>7, <5>2 DEF Awake
      <4> QED BY <4>4, <4>5
    <3> QED BY <3>1, <3>2
  <2>9. CASE d # c
    <3>1. live'[d] = live[d] /\ cur'[d] = cur[d] /\ txobj'[d] = txobj[d]
      BY <1>t, <1>e, <2>1, <2>2, <2>6, <2>9 DEF TypeOK
    <3>2. \A y \in Stream : strm'[y].active = st[y].active
      BY <1>e, <2>1, <2>2, <2>6
    <3>3. Needs(d)' => Needs(d)
      BY <2>1, <2>9, <3>1 DEF Needs, c
    <3>4. Needs(d) => cur[d] \in Stream /\ cur[d] # pq.s
      <4>1. CASE live[d] /\ cur[d] # None
        <5>1. open /\ live[c] /\ cur[c] = pq.s
          BY <1>t, <1>o, <1>11, <4>1 DEF ProvideBytes, Done, CallbackInv, c
        <5> QED BY <1>k, <2>2, <2>9, <4>1, <5>1, CurDistinct
      <4> QED BY <4>1 DEF Needs
    <3> QED BY <1>w, <2>1, <2>6, <2>7, <3>1, <3>2, <3>3, <3>4, AwakeKept
  <2> QED BY <2>8, <2>9
<1>12. ASSUME Close, NEW d \in Ctx
       PROVE  Needs(d)' => Awake(d)'
  BY <1>12 DEF Close, Needs
<1>13. ASSUME CheckConnsForCongestion, NEW d \in Ctx
       PROVE  Needs(d)' => Awake(d)'
  <2>1. UNCHANGED <<live, cur, txq, txobj, strm, pq, runner, slid>>
    BY <1>13 DEF CheckConnsForCongestion
  <2>2. discard[d] => discard'[d]
    BY <1>t, <1>13 DEF CheckConnsForCongestion, TypeOK
  <2> QED BY <1>w, <2>1, <2>2, SamePosts, AwakeKept DEF Needs
<1>14. ASSUME NEW c \in Ctx, PeerClosed(c), NEW d \in Ctx
       PROVE  Needs(d)' => Awake(d)'
  <2>1. UNCHANGED <<live, txq, txobj, discard, pq, runner, slid>>
    BY <1>14 DEF PeerClosed
  <2>2. IF d = c THEN cur'[d] = None ELSE cur'[d] = cur[d]
    BY <1>s, <1>14 DEF PeerClosed
  <2>3. \A x \in Stream : strm'[x].active = strm[x].active
    BY <1>s, <1>14 DEF PeerClosed, StreamRec
  <2>4. Needs(d)' => Needs(d) /\ cur[d] \in Stream /\ cur'[d] = cur[d]
    BY <1>k, <2>1, <2>2 DEF Needs
  <2> QED BY <1>w, <2>1, <2>3, <2>4, SamePosts, AwakeKept
<1>15. ASSUME NEW c \in Ctx, NEW r \in Rank, NEW i \in 1..Len(txq[c][r]), Expire(c, r, i),
              NEW d \in Ctx
       PROVE  Needs(d)' => Awake(d)'
  <2>1. UNCHANGED <<live, cur, txobj, discard, strm, pq, runner, slid>>
    BY <1>15 DEF Expire
  <2>2. ~Empty(txq[c])
    <3>1. NoQueue[r] = <<>>
      BY DEF NoQueue
    <3> QED BY <1>15, <3>1 DEF Empty
  <2>3. Empty(txq[d]) => Empty(txq'[d])
    BY <1>t, <1>15, <2>2 DEF TypeOK, Expire
  <2> QED BY <1>w, <2>1, <2>3, SamePosts, AwakeKept DEF Needs
<1>16. ASSUME UNCHANGED vars, NEW d \in Ctx
       PROVE  Needs(d)' => Awake(d)'
  BY <1>w, <1>16, SamePosts, AwakeKept DEF Needs, vars, ctxVars
<1> QED
  BY <1>1, <1>2, <1>3, <1>4, <1>5, <1>6, <1>7, <1>8, <1>9, <1>10, <1>11, <1>12, <1>13,
     <1>14, <1>15, <1>16
     DEF Next, App, Runner, Callback, Environment, EnqueueHeader, EnqueueObject

-----------------------------------------------------------------------------
\* The invariant holds initially.
LEMMA InitIInv ==
    Init => IInv
<1> SUFFICES ASSUME Init PROVE IInv
  OBVIOUS
<1> USE BoundAssumption, CtxAssumption
<1>1. NoQueue \in Queue
  BY EmptySeq DEF NoQueue, Queue
<1>2. FreeStream \in StreamRec
  BY EmptySeq DEF FreeStream, StreamRec
<1>3. Idle \in [pc : PcSet, ctx : Ctx \cup {None}, s : 0..MaxStream, act : Action,
                 still : BOOLEAN]
  BY DEF Idle, PcSet, Action
<1>4. TypeOK
  <2>1. /\ strm \in [Stream -> StreamRec] /\ txq \in [Ctx -> Queue]
    BY <1>1, <1>2 DEF Init
  <2>2. runner \in Seq(Function) /\ nstrm \in 0..MaxStream /\ nobj \in 0..MaxObj
    BY EmptySeq DEF Init
  <2>3. off \in [Ctx -> 0..ObjLen] /\ epoch \in [Ctx -> Nat] /\ epRank \in [Ctx -> Rank \cup {None}]
    BY DEF Init
  <2>4. pq \in [pc : PcSet, ctx : Ctx \cup {None}, s : 0..MaxStream, act : Action,
                still : BOOLEAN]
    BY <1>3 DEF Init
  <2>5. /\ live \in [Ctx -> BOOLEAN] /\ mark \in [Ctx -> BOOLEAN]
        /\ discard \in [Ctx -> BOOLEAN] /\ doe \in [Ctx -> BOOLEAN]
        /\ cur \in [Ctx -> Stream \cup {None}] /\ txobj \in [Ctx -> Object \cup {None}]
        /\ open \in BOOLEAN /\ slid \in BOOLEAN /\ congested \in BOOLEAN
    BY DEF Init
  <2> QED BY <2>1, <2>2, <2>3, <2>4, <2>5 DEF TypeOK, Queue, StreamRec
<1>5. MarkFlagHonest /\ WakeupPending
  BY DEF Init, MarkFlagHonest, WakeupPending
<1>6. LinkedAlive /\ LinkInv
  BY DEF Init, LinkedAlive, LinkInv, FreeStream
<1>7. CallbackInv
  BY DEF Init, CallbackInv, Idle
<1> QED BY <1>4, <1>5, <1>6, <1>7 DEF IInv

\* The inductive invariant holds in every reachable state of the transmit
\* path, whatever the constants.
THEOREM Invariance == Spec => []IInv
<1>1. IInv /\ [Next]_vars => IInv'
  BY TypeStep, MarkStep, LinkStep, CallbackStep, WakeStep DEF IInv
<1> QED BY <1>1, InitIInv, PTL DEF Spec

\* Every variable of the transmit path keeps its type.
THEOREM TypeCorrect == Spec => []TypeOK
BY Invariance, PTL DEF IInv

\* mark_stream_active never suppresses a wake-up that is not queued, unless
\* the runner queue slid.
THEOREM MarkFlagCorrect == Spec => []MarkFlagHonest
BY Invariance, PTL DEF IInv

\* A context with something to send never waits without a wake-up on its
\* way (Enqueue, MarkStreamActive and SendStreamBytes together).
THEOREM WakeupCorrect == Spec => []WakeupPending
BY Invariance, PTL DEF IInv

\* The pointers picoquic keeps always lead to a context whose current stream
\* they are on (CreateStream, CloseStream, DeleteDataContextInternal).
THEOREM LinkCorrect == Spec => []LinkedAlive
BY Invariance, PTL DEF IInv

-----------------------------------------------------------------------------
\* The data context SendStreamBytes works on exists until it returns or the
\* connection is closed: everything that erases a single context runs on the
\* picoquic thread, between two callbacks or at the end of one.
THEOREM AliveCorrect == Spec => []ContextAlive
<1>1. IInv => ContextAlive
  BY DEF IInv, CallbackInv, ContextAlive
<1> QED BY <1>1, Invariance, PTL

-----------------------------------------------------------------------------
(* What a stream carries.  Without MixedRanks the objects of an epoch wait   *)
(* in one rank, so that the queue of a context is a single sequence.         *)

\* The objects of q in its only rank r, none before the first was enqueued.
At(q, r) == IF r = None THEN <<>> ELSE q[r]
Single(q, r) == q \in Queue /\ r \in Rank \cup {None} /\ \A x \in Rank : x # r => q[x] = <<>>

\* Such a queue is empty when its rank is.
LEMMA SingleFacts ==
    ASSUME NEW q, NEW r, Single(q, r)
    PROVE  At(q, r) \in Seq(Object) /\ (Empty(q) <=> At(q, r) = <<>>)
<1>1. None \notin Rank
  BY RankAssumption, CtxAssumption
<1>2. At(q, r) \in Seq(Object)
  BY <1>1, EmptySeq DEF At, Single, Queue
<1>3. ASSUME At(q, r) = <<>> PROVE \A x \in Rank : q[x] = <<>>
  BY <1>1, <1>3 DEF At, Single
<1>4. At(q, r) = <<>> => Empty(q)
  BY <1>3 DEF Empty, NoQueue, Single, Queue
<1>5. Empty(q) => At(q, r) = <<>>
  BY DEF Empty, NoQueue, At, Single
<1> QED BY <1>2, <1>4, <1>5

\* A queue without objects has any rank.
LEMMA NoQueueSingle ==
    ASSUME NEW r \in Rank \cup {None}
    PROVE  Single(NoQueue, r) /\ At(NoQueue, r) = <<>> /\ NoQueue \in Queue
BY EmptySeq, RankAssumption, CtxAssumption DEF Single, NoQueue, Queue, At

\* PriorityQueue::Front and PopFront on one rank: nothing alive, the first
\* object, or a later one and the queue emptied.
LookMissed(q, r) ==
    /\ Look(q).obj = None /\ (Look(q).expired <=> At(q, r) # <<>>)
    /\ Look(q).front = NoQueue /\ Look(q).pop = NoQueue
LookFirst(q, r) ==
    /\ At(q, r) # <<>> /\ Look(q).obj = At(q, r)[1] /\ ~Look(q).expired
    /\ Look(q).front = q /\ Single(Look(q).pop, r) /\ At(Look(q).pop, r) = Tail(At(q, r))
LookLater(q, r) ==
    /\ \E i \in 2..Len(At(q, r)) : Look(q).obj = At(q, r)[i]
    /\ Look(q).expired /\ Look(q).front = NoQueue /\ Look(q).pop = NoQueue

LEMMA LookSingle ==
    ASSUME NEW q, NEW r, Single(q, r)
    PROVE  LookMissed(q, r) \/ LookFirst(q, r) \/ LookLater(q, r)
<1>1. CASE HitRanks(q) = {}
  <2>1. /\ Look(q).obj = None /\ Look(q).expired = ~Empty(q)
        /\ Look(q).front = NoQueue /\ Look(q).pop = NoQueue
    BY <1>1 DEF Look
  <2> QED BY <2>1, SingleFacts DEF LookMissed
<1>2. CASE HitRanks(q) # {}
  <2>1. ASSUME NEW x \in HitRanks(q) PROVE x = r
    <3>1. x \in Rank /\ LiveAt(q, x) # {}
      BY DEF HitRanks
    <3>2. q[x] # <<>>
      BY <3>1 DEF LiveAt
    <3> QED BY <3>1, <3>2 DEF Single
  <2>2. HitRanks(q) \subseteq Nat
    BY RankAssumption DEF HitRanks
  <2>3. Least(HitRanks(q)) = r /\ r \in HitRanks(q)
    BY <1>2, <2>1, <2>2, LeastIn
  <2>4. r \in Rank /\ LiveAt(q, r) # {} /\ r # None
    BY <2>3, RankAssumption, CtxAssumption DEF HitRanks
  <2>5. q[r] \in Seq(Object) /\ At(q, r) = q[r]
    BY <2>4 DEF Single, Queue, At
  <2>6. PICK i : i = Least(LiveAt(q, r))
    OBVIOUS
  <2>7. i \in 1..Len(q[r]) /\ Len(q[r]) \in Nat
    <3>1. LiveAt(q, r) \subseteq Nat
      BY <2>5 DEF LiveAt
    <3>2. i \in LiveAt(q, r)
      BY <2>4, <2>6, <3>1, LeastIn
    <3> QED BY <2>5, <3>2 DEF LiveAt
  <2>8. /\ Look(q).obj = q[r][i]
        /\ Look(q).expired = (i > 1)
        /\ Look(q).front = [x \in Rank |-> IF x < r \/ (x = r /\ i > 1)
                                        THEN <<>> ELSE q[x]]
        /\ Look(q).pop   = [x \in Rank |-> IF x < r \/ (x = r /\ i > 1)
                                        THEN <<>>
                                        ELSE IF x = r THEN Tail(q[x])
                                        ELSE q[x]]
    BY <1>2, <2>3, <2>6 DEF Look
  <2>9. \A x \in Rank : x < r => x # r
    BY <2>4, RankAssumption
  <2>10. CASE i = 1
    <3>1. ~(i > 1)
      BY <2>10
    <3>2. Look(q).front = [x \in Rank |-> q[x]]
      BY <2>8, <2>9, <3>1 DEF Single
    <3>3. Look(q).front = q
      BY <3>2 DEF Single, Queue
    <3>4. Look(q).pop = [x \in Rank |-> IF x = r THEN Tail(q[x]) ELSE q[x]]
      BY <2>8, <2>9, <3>1 DEF Single
    <3>5. Look(q).pop \in Queue
      BY LookType DEF Single
    <3>6. Single(Look(q).pop, r) /\ At(Look(q).pop, r) = Tail(q[r])
      BY <2>4, <3>4, <3>5 DEF Single, At
    <3>7. q[r] # <<>>
      BY <2>7
    <3> QED BY <2>5, <2>8, <2>10, <3>1, <3>3, <3>6, <3>7 DEF LookFirst
  <2>11. CASE i # 1
    <3>1. i > 1 /\ i \in 2..Len(q[r])
      BY <2>7, <2>11
    <3>2. \A x \in Rank : x # r => q[x] = <<>>
      BY DEF Single
    <3>3. Look(q).front = NoQueue
      BY <2>8, <3>1, <3>2 DEF NoQueue
    <3>4. Look(q).pop = NoQueue
      BY <2>8, <3>1, <3>2 DEF NoQueue
    <3> QED BY <2>5, <2>8, <3>1, <3>3, <3>4 DEF LookLater
  <2> QED BY <2>10, <2>11
<1> QED BY <1>1, <1>2

\* PriorityQueue::Pop on one rank.
LEMMA PopSingle ==
    ASSUME NEW q, NEW r, Single(q, r), ~Empty(q)
    PROVE  Single(PopAny(q), r) /\ At(PopAny(q), r) = Tail(At(q, r))
<1> DEFINE R == {x \in Rank : q[x] # <<>>}
<1>1. R = {r} /\ r \in Rank /\ r # None
  <2>1. At(q, r) # <<>>
    BY SingleFacts
  <2>2. r # None /\ q[r] # <<>> /\ r \in Rank
    BY <2>1 DEF At, Single
  <2> QED BY <2>2 DEF Single
<1>2. Least(R) = r
  <2>1. R \subseteq Nat /\ R # {}
    BY <1>1, RankAssumption
  <2>2. Least(R) \in R
    BY <2>1, LeastIn
  <2> QED BY <1>1, <2>2
<1>3. PopAny(q) = [q EXCEPT ![r] = Tail(q[r])]
  BY <1>2 DEF PopAny
<1>4. PopAny(q) \in Queue
  BY PopAnyType DEF Single
<1> QED BY <1>1, <1>3, <1>4 DEF Single, At, Queue

\* A sequence of objects or chunks, as a function on its positions.
IsIds(s) == Len(s) \in Nat /\ \A i \in 1..Len(s) : s[i].id \in Nat

\* The objects s that wait on a context: all of epoch e, numbered in order
\* up to n, only the first may be a header.
Elems(s, e, n) ==
    /\ \A i \in 1..Len(s) : s[i].ep = e /\ s[i].id <= n /\ (s[i].act # "none" => i = 1)
    /\ \A i, j \in 1..Len(s) : i < j => s[i].id < s[j].id

\* A header is in front of them.
Fronted(s) == Len(s) > 0 /\ s[1].act # "none"

\* The stream with data d was opened by the header of epoch e, which o, the
\* object under way, is when nothing is written yet.
Opens(o, d, e) == IF Len(d) = 0 THEN o # None /\ o.act # "none" /\ o.ep = e
                  ELSE d[1].hdr /\ d[1].ep = e

\* What was written comes before the object under way, at offset k, and
\* both before what waits.
Above(o, k, s, d, n) ==
    /\ \A j \in 1..Len(d) : d[j].id <= n /\ \A i \in 1..Len(s) : d[j].id < s[i].id
    /\ o # None =>
         /\ o.id <= n /\ \A i \in 1..Len(s) : o.id < s[i].id
         /\ \A j \in 1..Len(d) : d[j].id <= o.id /\ (k = 0 => d[j].id < o.id)

\* The end of what was written: the object under way, or the end of one,
\* except in discard mode (w) or before a new stream (f).
Ends(o, k, w, f, d) ==
    /\ o # None /\ k > 0 =>
         /\ Len(d) > 0 /\ d[Len(d)].id = o.id /\ d[Len(d)].part = k /\ ~d[Len(d)].last
    /\ o # None /\ k = 0 /\ ~w => Len(d) = 0 \/ d[Len(d)].last
    /\ o = None /\ ~w /\ ~f => Len(d) = 0 \/ d[Len(d)].last

\* Outside discard mode the stream belongs to the epoch of the object under
\* way and, unless the next header is in front, to the current epoch e.
Belongs(o, w, f, d, e) ==
    ~w => /\ o # None => Opens(o, d, o.ep)
          /\ ~f /\ e # 1 => Opens(o, d, e)

\* EpochPure and WholeInOrder for one stream.
PureData(d) ==
    \A i \in 1..Len(d) : d[i].disc \/ (d[i].ep = d[1].ep /\ (d[1].hdr \/ d[1].ep = 1))
Follows(a, b) ==
    /\ a.last => b.part = 1 /\ b.id > a.id
    /\ ~a.last => (b.id = a.id /\ b.part = a.part + 1) \/ (b.disc /\ b.part = 1)
WholeData(d) == \A i \in 1..Len(d) - 1 : Follows(d[i], d[i + 1])

\* A context with its current stream.
CtxOK(c, s, e, o, k, w, d, n) ==
    /\ Above(o, k, s, d, n)
    /\ Ends(o, k, w, Fronted(s), d)
    /\ c \notin BiDir => Belongs(o, w, Fronted(s), d, e)
    /\ c \in BiDir => \A i \in 1..Len(d) : d[i].ep = 1

\* A context by itself: the object under way o, the objects s that wait.
OwnOK(c, s, e, o, n) ==
    /\ Elems(s, e, n)
    /\ e = 0 \/ (c \notin BiDir /\ e = 1) => Len(s) = 0 /\ o = None
    /\ c \in BiDir => /\ e \in {0, 1} /\ \A i \in 1..Len(s) : s[i].act = "none"
                      /\ o # None => o.act = "none" /\ o.ep = 1

Waiting(c) == At(txq[c], epRank[c])
Own(c) ==
    /\ Single(txq[c], epRank[c])
    /\ OwnOK(c, Waiting(c), epoch[c], txobj[c], nobj)
    /\ epoch[c] = 0 => ~live[c]
Now(c) ==
    cur[c] # None => CtxOK(c, Waiting(c), epoch[c], txobj[c], off[c], discard[c],
                           strm[cur[c]].data, nobj)

\* Every stream is well written, no two contexts share one, and the callback
\* in progress is on the current stream of its context, in front of the
\* header it saw.
Written == \A s \in Stream : PureData(strm[s].data) /\ WholeData(strm[s].data)
Apart == \A b, c \in Ctx : b # c /\ cur[b] # None => cur[b] # cur[c]
AtWork ==
    /\ pq.pc # "idle" => cur[pq.ctx] = pq.s
    /\ pq.pc = "discard" /\ pq.act # "none" => Fronted(Waiting(pq.ctx))
WireInv == Written /\ Apart /\ AtWork /\ \A c \in Ctx : Own(c) /\ Now(c)

\* The types of the pieces.
LEMMA IdsFacts ==
    ASSUME NEW S \in {Object, Chunk}, NEW s \in Seq(S)
    PROVE  IsIds(s) /\ (Len(s) = 0 <=> s = <<>>)
<1>1. \A x \in S : x.id \in 1..MaxObj
  <2>1. CASE S = Object
    BY <2>1 DEF Object
  <2>2. CASE S = Chunk
    BY <2>2 DEF Chunk
  <2> QED BY <2>1, <2>2
<1>2. \A i \in 1..Len(s) : s[i] \in S
  BY ElementOfSeq
<1>3. Len(s) \in Nat /\ (Len(s) = 0 <=> s = <<>>)
  OBVIOUS
<1> QED BY <1>1, <1>2, <1>3, BoundAssumption DEF IsIds

\* Tail and Append by positions.
IsTail(t, s) == Len(t) = Len(s) - 1 /\ \A i \in 1..Len(t) : t[i] = s[i + 1]
IsAppend(t, s, x) ==
    Len(t) = Len(s) + 1 /\ t[Len(s) + 1] = x /\ \A i \in 1..Len(s) : t[i] = s[i]

LEMMA TailShape ==
    ASSUME NEW S, NEW s \in Seq(S), s # <<>>
    PROVE  Tail(s) \in Seq(S) /\ IsTail(Tail(s), s) /\ Len(s) > 0 /\ s[1] \in S
<1>1. Len(Tail(s)) = Len(s) - 1 /\ Tail(s) \in Seq(S) /\ Len(s) \in Nat /\ Len(s) > 0
      /\ \A i \in 1..Len(Tail(s)) : Tail(s)[i] = s[i + 1]
  BY HeadTailProperties
<1>2. s[1] \in S
  BY <1>1, ElementOfSeq
<1> QED BY <1>1, <1>2 DEF IsTail

LEMMA AppendShape ==
    ASSUME NEW S, NEW s \in Seq(S), NEW x \in S
    PROVE  Append(s, x) \in Seq(S) /\ IsAppend(Append(s, x), s, x)
<1>1. /\ Append(s, x) \in Seq(S) /\ Len(Append(s, x)) = Len(s) + 1
      /\ Append(s, x)[Len(s) + 1] = x /\ \A i \in 1..Len(s) : Append(s, x)[i] = s[i]
  OBVIOUS
<1> QED BY <1>1 DEF IsAppend

-----------------------------------------------------------------------------
(* How the predicates follow the operations. *)

\* The first object leaves the queue.
LEMMA ElemsTail ==
    ASSUME NEW s, NEW t, NEW e, NEW n, IsIds(s), Len(s) > 0, IsTail(t, s), Elems(s, e, n)
    PROVE  /\ Elems(t, e, n) /\ \A i \in 1..Len(t) : t[i].act = "none" /\ s[1].id < t[i].id
           /\ IsIds(t) /\ ~Fronted(t)
<1>1. Len(s) \in Nat /\ Len(t) \in Nat
  BY DEF IsIds, IsTail
<1>2. \A i \in 1..Len(t) : i + 1 \in 1..Len(s) /\ t[i] = s[i + 1] /\ 1 < i + 1 /\ i + 1 # 1
  BY <1>1 DEF IsTail
<1>3. 1 \in 1..Len(s)
  BY <1>1
<1>4. \A i \in 1..Len(t) : /\ t[i].ep = e /\ t[i].id <= n /\ t[i].act = "none"
                           /\ s[1].id < t[i].id /\ t[i].id \in Nat
  BY <1>2, <1>3 DEF Elems, IsIds
<1>5. ASSUME NEW i \in 1..Len(t), NEW j \in 1..Len(t), i < j PROVE t[i].id < t[j].id
  <2>1. i + 1 < j + 1
    BY <1>1, <1>5
  <2> QED BY <1>2, <2>1 DEF Elems
<1>6. Elems(t, e, n)
  BY <1>4, <1>5 DEF Elems
<1>7. ~Fronted(t)
  BY <1>1, <1>4 DEF Fronted
<1> QED BY <1>1, <1>4, <1>6, <1>7 DEF IsIds

\* An object of the same epoch, with the next number, comes last.
LEMMA ElemsAppend ==
    ASSUME NEW s, NEW t, NEW x, NEW e, NEW n \in Nat, IsIds(s), IsAppend(t, s, x),
           Elems(s, e, n), x.id = n + 1, x.ep = e, x.act = "none" \/ Len(s) = 0
    PROVE  /\ Elems(t, e, n + 1)
           /\ Len(s) > 0 => (Fronted(t) <=> Fronted(s))
           /\ Len(s) = 0 => (Fronted(t) <=> x.act # "none")
<1>1. PICK m \in Nat : m = Len(s)
  BY DEF IsIds
<1>2. Len(t) = m + 1 /\ t[m + 1] = x /\ \A i \in 1..m : t[i] = s[i]
  BY <1>1 DEF IsAppend
<1>3. \A i \in 1..m : /\ s[i].id \in Nat /\ s[i].id <= n /\ s[i].ep = e
                      /\ s[i].act # "none" => i = 1
  BY <1>1 DEF IsIds, Elems
<1>4. \A i \in 1..m : /\ t[i].id \in Nat /\ t[i].id <= n /\ t[i].ep = e
                      /\ t[i].act # "none" => i = 1
  BY <1>2, <1>3
<1>5. \A i \in 1..Len(t) : t[i].ep = e /\ t[i].id <= n + 1 /\ (t[i].act # "none" => i = 1)
  <2> SUFFICES ASSUME NEW i \in 1..Len(t)
               PROVE  t[i].ep = e /\ t[i].id <= n + 1 /\ (t[i].act # "none" => i = 1)
    OBVIOUS
  <2>1. CASE i \in 1..m
    BY <1>4, <2>1
  <2>2. CASE i = m + 1
    <3>1. t[i] = x
      BY <1>2, <2>2
    <3>2. x.act # "none" => i = 1
      BY <1>1, <2>2
    <3> QED BY <3>1, <3>2
  <2> QED BY <1>2, <2>1, <2>2
<1>6. ASSUME NEW i \in 1..Len(t), NEW j \in 1..Len(t), i < j PROVE t[i].id < t[j].id
  <2>1. i \in 1..m
    BY <1>2, <1>6
  <2>2. CASE j \in 1..m
    <3>1. s[i].id < s[j].id
      BY <1>1, <1>6, <2>1, <2>2 DEF Elems
    <3> QED BY <1>2, <2>1, <2>2, <3>1
  <2>3. CASE j = m + 1
    <3>1. t[j].id = n + 1
      BY <1>2, <2>3
    <3> QED BY <1>4, <2>1, <3>1
  <2> QED BY <1>2, <2>2, <2>3
<1>7. Elems(t, e, n + 1)
  BY <1>5, <1>6 DEF Elems
<1>8. Len(t) > 0 /\ (Len(s) > 0 => t[1] = s[1]) /\ (Len(s) = 0 => t[1] = x)
  BY <1>1, <1>2
<1> QED BY <1>7, <1>8 DEF Fronted

\* More objects were numbered, on another context.
LEMMA LaterCtx ==
    ASSUME NEW c, NEW s, NEW e, NEW o, NEW k, NEW w, NEW d, NEW n \in Nat,
           IsIds(s), IsIds(d), o # None => o.id \in Nat
    PROVE  /\ CtxOK(c, s, e, o, k, w, d, n) => CtxOK(c, s, e, o, k, w, d, n + 1)
           /\ OwnOK(c, s, e, o, n) => OwnOK(c, s, e, o, n + 1)
<1>1. Above(o, k, s, d, n) => Above(o, k, s, d, n + 1)
  <2>1. Above(o, k, s, d, n) => \A j \in 1..Len(d) : d[j].id <= n + 1
    BY DEF Above, IsIds
  <2>2. Above(o, k, s, d, n) /\ o # None => o.id <= n + 1
    BY DEF Above
  <2> QED BY <2>1, <2>2 DEF Above
<1>2. Elems(s, e, n) => Elems(s, e, n + 1)
  <2>1. Elems(s, e, n) => \A i \in 1..Len(s) : s[i].id <= n + 1
    BY DEF Elems, IsIds
  <2> QED BY <2>1 DEF Elems
<1> QED BY <1>1, <1>2 DEF CtxOK, OwnOK

\* Enqueue appends an object of the epoch to the queue s.
LEMMA AppendCtx ==
    ASSUME NEW c, NEW s, NEW t, NEW x, NEW e, NEW o, NEW k, NEW w, NEW d, NEW n \in Nat,
           IsIds(s), IsIds(d), o # None => o.id \in Nat, IsAppend(t, s, x), Elems(s, e, n),
           x.id = n + 1, x.ep = e, x.act = "none", CtxOK(c, s, e, o, k, w, d, n)
    PROVE  CtxOK(c, t, e, o, k, w, d, n + 1)
<1>1. Fronted(t) <=> Fronted(s)
  <2>1. Len(s) > 0 => (Fronted(t) <=> Fronted(s))
    BY ElemsAppend
  <2>2. Len(s) = 0 => ~Fronted(t)
    BY ElemsAppend
  <2>3. Len(s) = 0 => ~Fronted(s)
    BY DEF Fronted
  <2>4. Len(s) > 0 \/ Len(s) = 0
    BY DEF IsIds
  <2> QED BY <2>1, <2>2, <2>3, <2>4
<1>2. CtxOK(c, s, e, o, k, w, d, n + 1) /\ Above(o, k, s, d, n)
  BY LaterCtx DEF CtxOK
<1>3. PICK m \in Nat : m = Len(s)
  BY DEF IsIds
<1>4. \A i \in 1..Len(t) : (i \in 1..m /\ t[i] = s[i]) \/ t[i] = x
  BY <1>3 DEF IsAppend
<1>5. \A j \in 1..Len(d) : d[j].id < n + 1
  BY <1>2 DEF Above, IsIds
<1>6. o # None => o.id < n + 1
  BY <1>2 DEF Above
<1>7. Above(o, k, t, d, n + 1)
  <2>1. ASSUME NEW i \in 1..Len(t), NEW j \in 1..Len(d) PROVE d[j].id < t[i].id
    BY <1>2, <1>3, <1>4, <1>5 DEF Above
  <2>2. ASSUME NEW i \in 1..Len(t), o # None PROVE o.id < t[i].id
    BY <1>2, <1>3, <1>4, <1>6, <2>2 DEF Above
  <2> QED BY <1>2, <2>1, <2>2 DEF Above, CtxOK
<1>e. /\ Ends(o, k, w, Fronted(s), d) => Ends(o, k, w, Fronted(t), d)
      /\ Belongs(o, w, Fronted(s), d, e) => Belongs(o, w, Fronted(t), d, e)
  BY <1>1 DEF Ends, Belongs
<1> QED BY <1>2, <1>7, <1>e DEF CtxOK

\* A header replaces the queue and begins the next epoch.
LEMMA HeaderCtx ==
    ASSUME NEW c, c \notin BiDir, NEW s, NEW t, NEW x, NEW e, NEW o, NEW k, NEW w, NEW d,
           NEW n \in Nat, IsIds(s), IsIds(d), o # None => o.id \in Nat, Len(t) = 1, t[1] = x,
           x.id = n + 1, x.act # "none", CtxOK(c, s, e, o, k, w, d, n)
    PROVE  CtxOK(c, t, e + 1, o, k, w, d, n + 1)
<1>1. Fronted(t)
  BY DEF Fronted
<1>2. CtxOK(c, s, e, o, k, w, d, n + 1) /\ Above(o, k, s, d, n)
  BY LaterCtx DEF CtxOK
<1>3. \A i \in 1..Len(t) : t[i].id = n + 1
  OBVIOUS
<1>4. \A j \in 1..Len(d) : d[j].id < n + 1
  BY <1>2 DEF Above, IsIds
<1>5. o # None => o.id < n + 1
  BY <1>2 DEF Above
<1>6. Above(o, k, t, d, n + 1)
  BY <1>2, <1>3, <1>4, <1>5 DEF Above, CtxOK
<1>7. Ends(o, k, w, Fronted(t), d)
  BY <1>1, <1>2 DEF CtxOK, Ends
<1>8. Belongs(o, w, Fronted(t), d, e + 1)
  BY <1>1, <1>2 DEF CtxOK, Belongs
<1> QED BY <1>6, <1>7, <1>8 DEF CtxOK

\* Objects leave the queue in discard mode, or it begins.
LEMMA DiscardCtx ==
    ASSUME NEW c, NEW s, NEW t, NEW e, NEW o, NEW k, NEW w, NEW d, NEW n,
           \A i \in 1..Len(t) : \E j \in 1..Len(s) : t[i].id = s[j].id,
           NEW v, v = TRUE, CtxOK(c, s, e, o, k, w, d, n)
    PROVE  CtxOK(c, t, e, o, k, v, d, n)
<1>1. Above(o, k, t, d, n)
  BY DEF CtxOK, Above
<1>2. Ends(o, k, v, Fronted(t), d)
  BY DEF CtxOK, Ends
<1>3. Belongs(o, v, Fronted(t), d, e)
  BY DEF Belongs
<1> QED BY <1>1, <1>2, <1>3 DEF CtxOK

\* Objects age: all but exp stays.
SameObjs(t, s) ==
    Len(t) = Len(s) /\ \A i \in 1..Len(s) : /\ t[i].id = s[i].id /\ t[i].ep = s[i].ep
                                            /\ t[i].act = s[i].act
LEMMA AgedCtx ==
    ASSUME NEW c, NEW s, NEW t, NEW e, NEW o, NEW k, NEW w, NEW d, NEW n,
           SameObjs(t, s), IsIds(s)
    PROVE  /\ CtxOK(c, s, e, o, k, w, d, n) => CtxOK(c, t, e, o, k, w, d, n)
           /\ OwnOK(c, s, e, o, n) => OwnOK(c, t, e, o, n)
           /\ Fronted(s) => Fronted(t)
<1>1. Fronted(t) <=> Fronted(s)
  <2>1. Len(s) > 0 => t[1].act = s[1].act
    BY DEF SameObjs, IsIds
  <2> QED BY <2>1 DEF Fronted, SameObjs
<1>2. Above(o, k, s, d, n) => Above(o, k, t, d, n)
  BY DEF Above, SameObjs
<1>3. Elems(s, e, n) => Elems(t, e, n)
  BY DEF Elems, SameObjs
<1>4. (\A i \in 1..Len(s) : s[i].act = "none") => \A i \in 1..Len(t) : t[i].act = "none"
  BY DEF SameObjs
<1>5. Len(s) = 0 => Len(t) = 0
  BY DEF SameObjs
<1>e. /\ Ends(o, k, w, Fronted(s), d) => Ends(o, k, w, Fronted(t), d)
      /\ Belongs(o, w, Fronted(s), d, e) => Belongs(o, w, Fronted(t), d, e)
  BY <1>1 DEF Ends, Belongs
<1>6. CtxOK(c, s, e, o, k, w, d, n) => CtxOK(c, t, e, o, k, w, d, n)
  BY <1>2, <1>e DEF CtxOK
<1>7. OwnOK(c, s, e, o, n) => OwnOK(c, t, e, o, n)
  BY <1>3, <1>4, <1>5 DEF OwnOK
<1> QED BY <1>1, <1>6, <1>7

\* Discard mode ends in front of a header: what was under way is dropped.
LEMMA ResumeCtx ==
    ASSUME NEW c, NEW s, NEW e, NEW o, NEW k, NEW w, NEW d, NEW n,
           NEW v, v = FALSE, Fronted(s), CtxOK(c, s, e, o, k, w, d, n)
    PROVE  CtxOK(c, s, e, None, 0, v, d, n)
BY DEF CtxOK, Above, Ends, Belongs

\* PopFront takes the first object, for the current stream.
LEMMA PopCtx ==
    ASSUME NEW c, NEW s, NEW t, NEW e, NEW k, NEW w, NEW d, NEW n, IsIds(s), IsIds(d),
           Len(s) > 0, IsTail(t, s), s[1] # None, s[1].act = "none",
           CtxOK(c, s, e, None, k, w, d, n), OwnOK(c, s, e, None, n)
    PROVE  CtxOK(c, t, e, s[1], 0, w, d, n)
<1>1. Elems(s, e, n) /\ (c \notin BiDir => e # 1) /\ 1 \in 1..Len(s)
  BY DEF OwnOK, IsIds
<1>2. s[1].id <= n /\ s[1].ep = e
  BY <1>1 DEF Elems
<1>3. \A i \in 1..Len(t) : s[1].id < t[i].id /\ i + 1 \in 1..Len(s) /\ t[i] = s[i + 1]
  <2>1. \A i \in 1..Len(t) : s[1].id < t[i].id
    BY <1>1, ElemsTail
  <2> QED BY <2>1 DEF IsTail, IsIds
<1>4. ~Fronted(s) /\ ~Fronted(t)
  BY <1>1, ElemsTail DEF Fronted
<1>5. Above(s[1], 0, t, d, n)
  <2>1. /\ \A j \in 1..Len(d) : d[j].id <= n /\ \A i \in 1..Len(s) : d[j].id < s[i].id
    BY DEF CtxOK, Above
  <2>2. \A j \in 1..Len(d) : d[j].id < s[1].id /\ d[j].id <= s[1].id
    BY <1>1, <2>1 DEF IsIds
  <2>3. \A j \in 1..Len(d) : \A i \in 1..Len(t) : d[j].id < t[i].id
    BY <1>3, <2>1
  <2> QED BY <1>2, <1>3, <2>1, <2>2, <2>3 DEF Above
<1>6. Ends(s[1], 0, w, Fronted(t), d)
  BY <1>4 DEF CtxOK, Ends
<1>7. ASSUME c \notin BiDir PROVE Belongs(s[1], w, Fronted(t), d, e)
  <2>1. ~w => Opens(None, d, e)
    BY <1>1, <1>4, <1>7 DEF CtxOK, Belongs
  <2>2. ~w => Opens(s[1], d, e)
    BY <2>1 DEF Opens
  <2> QED BY <1>2, <2>2 DEF Belongs
<1> QED BY <1>5, <1>6, <1>7 DEF CtxOK

\* PopFront takes a header: it waits for the callback of the new stream.
LEMMA ReplaceCtx ==
    ASSUME NEW c, NEW s, NEW t, NEW e, NEW d, NEW n, IsIds(s), Len(s) > 0,
           IsTail(t, s), s[1] # None, s[1].act # "none", Len(d) = 0, Elems(s, e, n),
           NEW v, v = FALSE
    PROVE  CtxOK(c, t, e, s[1], 0, v, d, n)
<1>1. s[1].ep = e /\ s[1].id <= n
  BY DEF Elems, IsIds
<1>2. \A i \in 1..Len(t) : s[1].id < t[i].id
  BY ElemsTail
<1>3. Above(s[1], 0, t, d, n) /\ Ends(s[1], 0, v, Fronted(t), d)
  BY <1>1, <1>2 DEF Above, Ends
<1>4. Belongs(s[1], v, Fronted(t), d, e)
  BY <1>1 DEF Belongs, Opens
<1>5. \A i \in 1..Len(d) : d[i].ep = 1
  OBVIOUS
<1> QED BY <1>3, <1>4, <1>5 DEF CtxOK

\* The queue after the first object.
LEMMA PopOwn ==
    ASSUME NEW c, NEW s, NEW t, NEW e, NEW n, NEW o, IsIds(s), Len(s) > 0, IsTail(t, s),
           OwnOK(c, s, e, o, n)
    PROVE  OwnOK(c, t, e, o, n) /\ OwnOK(c, t, e, s[1], n)
<1>1. Elems(s, e, n) /\ 1 \in 1..Len(s) /\ ~(e = 0 \/ (c \notin BiDir /\ e = 1))
  BY DEF OwnOK, IsIds
<1>2. Elems(t, e, n) /\ \A i \in 1..Len(t) : t[i].act = "none"
  BY <1>1, ElemsTail
<1>3. s[1].ep = e /\ (c \in BiDir => s[1].act = "none" /\ e = 1)
  BY <1>1 DEF OwnOK, Elems
<1> QED BY <1>1, <1>2, <1>3 DEF OwnOK

\* A chunk of the object under way is written.
LEMMA WriteCtx ==
    ASSUME NEW c, NEW s, NEW e, NEW o, NEW k \in Nat, NEW w \in BOOLEAN, NEW d, NEW n,
           NEW b, NEW ch, IsIds(s), IsIds(d), o # None, o.id \in Nat, o.len \in Nat, k < o.len,
           ch.id = o.id, ch.ep = o.ep, ch.part = k + 1, ch.last <=> k + 1 = o.len,
           ch.hdr <=> o.act # "none", ch.disc <=> w, IsAppend(b, d, ch),
           CtxOK(c, s, e, o, k, w, d, n), OwnOK(c, s, e, o, n), PureData(d), WholeData(d)
    PROVE  /\ PureData(b) /\ WholeData(b)
           /\ k + 1 = o.len => CtxOK(c, s, e, None, 0, w, b, n)
           /\ k + 1 # o.len => CtxOK(c, s, e, o, k + 1, w, b, n)
<1>1. PICK m \in Nat : m = Len(d)
  BY DEF IsIds
<1>2. Len(b) = m + 1 /\ b[m + 1] = ch /\ \A i \in 1..m : b[i] = d[i]
  BY <1>1 DEF IsAppend
<1>3. Above(o, k, s, d, n) /\ Ends(o, k, w, Fronted(s), d)
  BY DEF CtxOK
<1>4. \A j \in 1..Len(b) : (j \in 1..m /\ b[j] = d[j]) \/ (j = m + 1 /\ b[j] = ch)
  BY <1>2
<1>5. \A j \in 1..Len(b) : /\ b[j].id <= n /\ b[j].id <= o.id
                           /\ \A i \in 1..Len(s) : b[j].id < s[i].id
  BY <1>1, <1>3, <1>4, SMTT(30) DEF Above
<1>6. Above(None, 0, s, b, n) /\ Above(o, k + 1, s, b, n)
  <2>1. k + 1 # 0
    OBVIOUS
  <2> QED BY <1>3, <1>5, <2>1 DEF Above
<1>7. k + 1 = o.len => Ends(None, 0, w, Fronted(s), b)
  BY <1>2 DEF Ends
<1>8. k + 1 # o.len => Ends(o, k + 1, w, Fronted(s), b)
  BY <1>2 DEF Ends
<1>9. ASSUME NEW x, Opens(o, d, x) PROVE b[1].hdr /\ b[1].ep = x
  <2>1. CASE m = 0
    BY <1>1, <1>2, <1>9, <2>1 DEF Opens
  <2>2. CASE m # 0
    <3>1. 1 \in 1..m
      BY <2>2
    <3> QED BY <1>1, <1>2, <1>9, <2>2, <3>1 DEF Opens
  <2> QED BY <2>1, <2>2
<1>10. Len(b) # 0
  BY <1>2
<1>11. ASSUME c \notin BiDir, NEW p
       PROVE  Belongs(p, w, Fronted(s), b, e) \/ ~(p = None \/ p = o)
  <2>1. ~w => /\ Opens(o, d, o.ep)
              /\ ~Fronted(s) /\ e # 1 => Opens(o, d, e)
    BY <1>11 DEF CtxOK, Belongs
  <2>2. ~w => b[1].hdr /\ b[1].ep = o.ep
    BY <1>9, <2>1
  <2>3. ~w /\ ~Fronted(s) /\ e # 1 => b[1].hdr /\ b[1].ep = e
    BY <1>9, <2>1
  <2> QED BY <1>10, <2>2, <2>3 DEF Belongs, Opens
<1>12. c \in BiDir => o.ep = 1 /\ \A i \in 1..Len(b) : b[i].ep = 1
  BY <1>1, <1>4 DEF CtxOK, OwnOK
<1>13. PureData(b)
  <2> SUFFICES ASSUME NEW i \in 1..Len(b), ~b[i].disc
               PROVE  b[i].ep = b[1].ep /\ (b[1].hdr \/ b[1].ep = 1)
    BY DEF PureData
  <2>1. CASE i \in 1..m
    <3>1. 1 \in 1..m /\ b[1] = d[1] /\ b[i] = d[i]
      BY <1>2, <2>1
    <3> QED BY <1>1, <2>1, <3>1 DEF PureData
  <2>2. CASE i = m + 1 /\ c \in BiDir
    <3>1. 1 \in 1..Len(b)
      BY <1>2
    <3> QED BY <1>12, <2>2, <3>1
  <2>3. CASE i = m + 1 /\ c \notin BiDir
    <3>1. ~w /\ b[i].ep = o.ep
      BY <1>2, <2>3
    <3>2. Opens(o, d, o.ep)
      BY <2>3, <3>1 DEF CtxOK, Belongs
    <3> QED BY <1>9, <3>1, <3>2
  <2> QED BY <1>2, <2>1, <2>2, <2>3
<1>14. WholeData(b)
  <2> SUFFICES ASSUME NEW i \in 1..Len(b) - 1 PROVE Follows(b[i], b[i + 1])
    BY DEF WholeData
  <2>1. i \in 1..m
    BY <1>2
  <2>2. CASE i # m
    <3>1. i \in 1..Len(d) - 1 /\ i + 1 \in 1..m
      BY <1>1, <2>1, <2>2
    <3> QED BY <1>2, <2>1, <3>1 DEF WholeData
  <2>3. CASE i = m
    <3>1. b[i] = d[m] /\ b[i + 1] = ch /\ m \in 1..Len(d) /\ Len(d) > 0
      BY <1>1, <1>2, <2>1, <2>3
    <3>2. CASE k > 0
      <4>1. d[m].id = o.id /\ d[m].part = k /\ ~d[m].last
        BY <1>1, <1>3, <3>2 DEF Ends
      <4> QED BY <3>1, <4>1 DEF Follows
    <3>3. CASE k = 0
      <4>1. ch.part = 1 /\ d[m].id < ch.id /\ d[m].id \in Nat
        BY <1>3, <3>1, <3>3 DEF Above, IsIds
      <4>2. ~w => d[m].last
        BY <1>1, <1>3, <3>1, <3>3 DEF Ends
      <4>3. ch.id > d[m].id
        BY <4>1
      <4> QED BY <3>1, <4>1, <4>2, <4>3 DEF Follows
    <3> QED BY <3>2, <3>3
  <2> QED BY <2>2, <2>3
<1>15. k + 1 = o.len => CtxOK(c, s, e, None, 0, w, b, n)
  BY <1>6, <1>7, <1>11, <1>12 DEF CtxOK
<1>16. k + 1 # o.len => CtxOK(c, s, e, o, k + 1, w, b, n)
  BY <1>6, <1>8, <1>11, <1>12 DEF CtxOK
<1> QED BY <1>13, <1>14, <1>15, <1>16

-----------------------------------------------------------------------------
(* The steps. *)

\* The pieces of a context have the types that the lemmas ask for.
LEMMA PieceTypes ==
    ASSUME IInv, NEW c \in Ctx, Own(c)
    PROVE  /\ Waiting(c) \in Seq(Object) /\ IsIds(Waiting(c))
           /\ (Len(Waiting(c)) = 0 <=> Waiting(c) = <<>>)
           /\ (txobj[c] # None => txobj[c] \in Object /\ txobj[c].id \in Nat)
           /\ cur[c] # None => cur[c] \in Stream /\ IsIds(strm[cur[c]].data)
           /\ nobj \in Nat /\ epoch[c] \in Nat /\ off[c] \in Nat /\ discard[c] \in BOOLEAN
<1>t. TypeOK
  BY DEF IInv
<1>1. Waiting(c) \in Seq(Object)
  BY SingleFacts DEF Own, Waiting
<1>2. IsIds(Waiting(c)) /\ (Len(Waiting(c)) = 0 <=> Waiting(c) = <<>>)
  BY <1>1, IdsFacts
<1>3. txobj[c] # None => txobj[c] \in Object
  BY <1>t DEF TypeOK
<1>4. txobj[c] # None => txobj[c].id \in Nat
  BY <1>3, BoundAssumption DEF Object
<1>5. cur[c] # None => cur[c] \in Stream /\ strm[cur[c]].data \in Seq(Chunk)
  BY <1>t DEF TypeOK
<1>6. cur[c] # None => IsIds(strm[cur[c]].data)
  BY <1>5, IdsFacts
<1>7. nobj \in Nat /\ epoch[c] \in Nat /\ off[c] \in Nat /\ discard[c] \in BOOLEAN
  BY <1>t, BoundAssumption DEF TypeOK
<1> QED BY <1>1, <1>2, <1>3, <1>4, <1>5, <1>6, <1>7

\* A context the step leaves alone, but for its stream going away.
SameCtx(c) ==
    /\ txq'[c] = txq[c] /\ epRank'[c] = epRank[c] /\ epoch'[c] = epoch[c]
    /\ txobj'[c] = txobj[c] /\ off'[c] = off[c] /\ discard'[c] = discard[c]
    /\ nobj' \in {nobj, nobj + 1} /\ (live'[c] => live[c]) /\ cur'[c] \in {cur[c], None}
    /\ cur[c] # None => strm'[cur[c]].data = strm[cur[c]].data

LEMMA CtxKept ==
    ASSUME IInv, NEW c \in Ctx, Own(c), Now(c), SameCtx(c)
    PROVE  Own(c)' /\ Now(c)'
<1> DEFINE s == Waiting(c)
           d == strm[cur[c]].data
<1>1. Waiting(c)' = s
  BY DEF SameCtx, Waiting
<1>2. PICK m \in Nat : m = nobj
  BY PieceTypes
<1>3. OwnOK(c, s, epoch[c], txobj[c], m) => OwnOK(c, s, epoch[c], txobj[c], m + 1)
  <2>1. IsIds(s) /\ (txobj[c] # None => txobj[c].id \in Nat)
    BY PieceTypes
  <2>2. IsIds(<<>>)
    BY EmptySeq, IdsFacts
  <2> HIDE DEF s
  <2> QED BY <2>1, <2>2, LaterCtx
<1>4. ASSUME cur[c] # None
      PROVE  CtxOK(c, s, epoch[c], txobj[c], off[c], discard[c], d, m)
               => CtxOK(c, s, epoch[c], txobj[c], off[c], discard[c], d, m + 1)
  <2>1. IsIds(s) /\ (txobj[c] # None => txobj[c].id \in Nat) /\ IsIds(d)
    BY <1>4, PieceTypes
  <2> HIDE DEF s, d
  <2> QED BY <2>1, LaterCtx
<1>5. OwnOK(c, s, epoch[c], txobj[c], nobj')
  BY <1>2, <1>3 DEF Own, SameCtx
<1>6. Own(c)'
  BY <1>1, <1>5 DEF Own, SameCtx
<1>7. ASSUME cur'[c] # None
      PROVE  CtxOK(c, s, epoch[c], txobj[c], off[c], discard[c], d, nobj')
  <2>1. cur[c] # None /\ CtxOK(c, s, epoch[c], txobj[c], off[c], discard[c], d, nobj)
    BY <1>7 DEF Now, SameCtx
  <2> QED BY <1>2, <1>4, <2>1 DEF SameCtx
<1>8. Now(c)'
  BY <1>1, <1>7 DEF Now, SameCtx
<1> QED BY <1>6, <1>8

\* A queue without objects, or nothing under way, is no obstacle.
LEMMA OwnNone ==
    ASSUME NEW c, NEW s, NEW t, NEW e, NEW o, NEW n, OwnOK(c, s, e, o, n), Len(t) = 0
    PROVE  OwnOK(c, s, e, None, n) /\ OwnOK(c, t, e, o, n) /\ OwnOK(c, t, e, None, n)
<1>1. Elems(t, e, n) /\ \A i \in 1..Len(t) : t[i].act = "none"
  BY DEF Elems
<1> QED BY <1>1 DEF OwnOK

\* The data of a stream is not touched by opening and closing.
LEMMA ClosedData ==
    ASSUME NEW st \in [Stream -> StreamRec], NEW x \in Stream \cup {None}, NEW how
    PROVE  \A s \in Stream : Closed(st, x, how)[s].data = st[s].data
BY DEF Closed, StreamRec

LEMMA OpenedData ==
    ASSUME NEW st \in [Stream -> StreamRec], NEW x \in Stream, NEW c, st[x].data = <<>>
    PROVE  \A s \in Stream : Opened(st, x, c)[s].data = st[s].data
BY DEF Opened, StreamRec, FreeStream

\* Only ProvideBytes writes.
LEMMA DataSame ==
    ASSUME IInv, [Next]_vars, ~ProvideBytes
    PROVE  \A s \in Stream : strm'[s].data = strm[s].data
<1>t. TypeOK /\ strm \in [Stream -> StreamRec] /\ LinkInv
  BY DEF IInv, TypeOK, StreamRec
<1>n. nstrm < MaxStream =>
        nstrm + 1 \in Stream /\ strm[nstrm + 1].data = <<>> /\ strm[nstrm + 1] = FreeStream
  <2>1. ASSUME nstrm < MaxStream PROVE nstrm + 1 \in Stream /\ nstrm + 1 > nstrm
    BY <1>t, <2>1, BoundAssumption DEF TypeOK, Stream
  <2>2. nstrm < MaxStream => strm[nstrm + 1] = FreeStream
    BY <1>t, <2>1 DEF LinkInv
  <2> QED BY <2>1, <2>2 DEF FreeStream
<1>c. \A c \in Ctx : cur[c] \in Stream \cup {None}
  BY <1>t DEF TypeOK
<1>1. ASSUME NEW c \in Ctx, CreateDataContext(c) PROVE \A s \in Stream : strm'[s].data = strm[s].data
  BY <1>1, <1>t, <1>n, OpenedData DEF CreateDataContext
<1>2. CASE UNCHANGED strm
  BY <1>2
<1>3. ASSUME RunMark PROVE \A s \in Stream : strm'[s].data = strm[s].data
  <2> DEFINE h == Head(runner).ctx
  <2>1. \/ strm' = strm
        \/ strm' = [strm EXCEPT ![cur[h]] = [strm[cur[h]] EXCEPT !.active = TRUE, !.ctx = h]]
    BY <1>3 DEF RunMark, MarkStreamActive
  <2>2. ASSUME NEW s \in Stream
        PROVE  [strm[s] EXCEPT !.active = TRUE, !.ctx = h].data = strm[s].data
    BY <1>t DEF StreamRec
  <2>3. ASSUME NEW s \in Stream PROVE strm'[s].data = strm[s].data
    <3>1. CASE strm'[s] = strm[s]
      BY <3>1
    <3>2. CASE strm'[s] = [strm[s] EXCEPT !.active = TRUE, !.ctx = h]
      BY <2>2, <3>2
    <3>3. \/ strm'[s] = strm[s]
          \/ strm'[s] = [strm[s] EXCEPT !.active = TRUE, !.ctx = h]
      BY <1>t, <2>1
    <3> QED BY <3>1, <3>2, <3>3
  <2> QED BY <2>3
<1>4. ASSUME RunDelete PROVE \A s \in Stream : strm'[s].data = strm[s].data
  <2>1. Head(runner).ctx \in Ctx
    <3>1. Head(runner) \in Function
      BY <1>4, <1>t DEF RunDelete, TypeOK
    <3> QED BY <3>1 DEF Function
  <2>2. strm' = strm \/ strm' = Closed(strm, cur[Head(runner).ctx], "fin")
    BY <1>4 DEF RunDelete, Erase
  <2> QED BY <1>t, <1>c, <2>1, <2>2, ClosedData
<1>5. ASSUME NEW c \in Ctx, PeerClosed(c) PROVE \A s \in Stream : strm'[s].data = strm[s].data
  BY <1>5, <1>t DEF PeerClosed, StreamRec
<1>6. ASSUME NEW x \in Stream, PrepareToSend(x)
      PROVE  \A s \in Stream : strm'[s].data = strm[s].data
  BY <1>6, <1>t DEF PrepareToSend, StreamRec
<1>p. pq.pc # "idle" => pq.ctx \in Ctx
  BY <1>t DEF IInv, CallbackInv, TypeOK
<1>7. ASSUME PopNothing PROVE \A s \in Stream : strm'[s].data = strm[s].data
  <2>1. pq.ctx \in Ctx
    BY <1>7, <1>p DEF PopNothing
  <2>2. strm' = strm \/ strm' = Closed(strm, cur[pq.ctx], "fin")
    BY <1>7 DEF PopNothing, Return, Erase
  <2> QED BY <1>t, <1>c, <2>1, <2>2, ClosedData
<1>8. ASSUME PopReplace PROVE \A s \in Stream : strm'[s].data = strm[s].data
  <2> DEFINE how == Look(txq[pq.ctx]).obj.act
             st1 == Closed(strm, cur[pq.ctx], how)
             st2 == Opened(st1, nstrm + 1, pq.ctx)
  <2>1. pq.ctx \in Ctx /\ nstrm < MaxStream
    BY <1>8, <1>p DEF PopReplace
  <2>2. how \in {"fin", "reset"}
    <3>1. txq[pq.ctx] \in Queue
      BY <1>t, <2>1 DEF TypeOK, Queue
    <3>2. Look(txq[pq.ctx]).obj \in Object
      BY <1>8, <3>1, LookType DEF PopReplace
    <3> QED BY <1>8, <3>2 DEF PopReplace, Replaces, Object, Action
  <2>3. /\ st1 \in [Stream -> StreamRec]
        /\ \A s \in Stream : st1[s].data = strm[s].data
    BY <1>t, <1>c, <2>1, <2>2, ClosedData, ClosedType
  <2>4. /\ st2 \in [Stream -> StreamRec]
        /\ \A s \in Stream : st2[s].data = strm[s].data
    <3> HIDE DEF st1
    <3> QED BY <1>n, <2>1, <2>3, OpenedData, OpenedType
  <2>5. strm' = st2 \/ strm' = Closed(st2, nstrm + 1, "fin")
    BY <1>8 DEF PopReplace
  <2> HIDE DEF st2
  <2> QED BY <1>n, <2>1, <2>4, <2>5, ClosedData
<1> QED
  BY <1>1, <1>2, <1>3, <1>4, <1>5, <1>6, <1>7, <1>8, ZenonT(40)
     DEF Next, App, Runner, Callback, Environment, vars, EnqueueHeader, EnqueueObject, Enqueue,
         DeleteDataContext, Close, CheckConnsForCongestion, Expire, DiscardStep, PopObject,
         DecideStill

\* A stream belongs to one context: streams are only taken from the new
\* ones or given up.
LEMMA CurMoves ==
    ASSUME IInv, [Next]_vars
    PROVE  \/ \A c \in Ctx : cur'[c] \in {cur[c], None}
           \/ \E x \in Ctx : /\ cur'[x] = nstrm + 1
                             /\ \A c \in Ctx : c # x => cur'[c] = cur[c]
<1>t. TypeOK
  BY DEF IInv
<1>p. pq.pc # "idle" => pq.ctx \in Ctx
  BY <1>t DEF IInv, CallbackInv, TypeOK
<1>c. cur \in [Ctx -> Stream \cup {None}]
  BY <1>t DEF TypeOK
<1>1. CASE \E c \in Ctx : CreateDataContext(c)
  BY <1>1, <1>c DEF CreateDataContext
<1>2. CASE UNCHANGED cur
  BY <1>2
<1>3. CASE RunDelete
  BY <1>3, <1>c DEF RunDelete, Erase
<1>4. CASE \E c \in Ctx : PeerClosed(c)
  BY <1>4, <1>c DEF PeerClosed
<1>5. CASE PopNothing
  BY <1>5, <1>c DEF PopNothing, Return, Erase
<1>6. CASE PopReplace
  <2>1. pq.ctx \in Ctx
    BY <1>6, <1>p DEF PopReplace
  <2>2. \/ cur' = [cur EXCEPT ![pq.ctx] = None]
        \/ cur' = [cur EXCEPT ![pq.ctx] = nstrm + 1]
    BY <1>6 DEF PopReplace
  <2> QED BY <1>c, <2>1, <2>2
<1>7. CASE ProvideBytes
  BY <1>7, <1>c DEF ProvideBytes, Erase
<1> QED
  BY <1>1, <1>2, <1>3, <1>4, <1>5, <1>6, <1>7
     DEF Next, App, Runner, Callback, Environment, vars, ctxVars, EnqueueHeader, EnqueueObject,
         Enqueue, DeleteDataContext, Close, RunMark, CheckConnsForCongestion, Expire, DiscardStep,
         PopObject, DecideStill, PrepareToSend

LEMMA ApartStep ==
    ASSUME IInv, Apart, [Next]_vars
    PROVE  Apart'
<1>1. \A c \in Ctx : cur[c] # None => cur[c] <= nstrm /\ cur[c] \in Nat
  BY DEF IInv, TypeOK, LinkInv, Stream
<1>2. nstrm \in Nat
  BY BoundAssumption DEF IInv, TypeOK
<1>3. CASE \A c \in Ctx : cur'[c] \in {cur[c], None}
  BY <1>3 DEF Apart
<1>4. CASE \E x \in Ctx : cur'[x] = nstrm + 1 /\ \A c \in Ctx : c # x => cur'[c] = cur[c]
  <2>1. PICK x \in Ctx : cur'[x] = nstrm + 1 /\ \A c \in Ctx : c # x => cur'[c] = cur[c]
    BY <1>4
  <2>2. \A c \in Ctx : cur[c] # nstrm + 1
    BY <1>1, <1>2, CtxAssumption
  <2> QED BY <2>1, <2>2 DEF Apart
<1> QED BY <1>3, <1>4, CurMoves

\* CreateDataContext: the first stream of a context is empty.
LEMMA CreateWire ==
    ASSUME IInv, NEW c \in Ctx, CreateDataContext(c), Own(c),
           \A s \in Stream : strm'[s].data = strm[s].data
    PROVE  Own(c)' /\ Now(c)'
<1>t. TypeOK /\ LinkInv
  BY DEF IInv
<1>1. Waiting(c)' = Waiting(c) /\ Len(Waiting(c)) = 0 /\ txobj[c] = None
  BY DEF CreateDataContext, Own, OwnOK, Waiting
<1>2. /\ epoch'[c] = 1 /\ cur'[c] = nstrm + 1 /\ txobj'[c] = txobj[c] /\ nobj' = nobj
      /\ txq'[c] = txq[c] /\ epRank'[c] = epRank[c]
  BY <1>t DEF CreateDataContext, TypeOK
<1>3. Elems(Waiting(c), 1, nobj) /\ \A i \in 1..Len(Waiting(c)) : Waiting(c)[i].act = "none"
  BY <1>1 DEF Elems
<1>4. OwnOK(c, Waiting(c), 1, None, nobj)
  BY <1>1, <1>3 DEF OwnOK
<1>5. Own(c)'
  BY <1>1, <1>2, <1>4 DEF Own
<1>6. nstrm + 1 \in Stream /\ nstrm + 1 > nstrm
  BY <1>t, BoundAssumption DEF CreateDataContext, TypeOK, Stream
<1>7. strm[nstrm + 1] = FreeStream
  BY <1>t, <1>6 DEF LinkInv
<1>8. strm'[nstrm + 1].data = <<>>
  BY <1>6, <1>7 DEF FreeStream
<1>9. ASSUME NEW d, Len(d) = 0 PROVE CtxOK(c, Waiting(c), 1, None, off'[c], discard'[c], d, nobj)
  <2>1. \A j \in 1..Len(d) : FALSE
    BY <1>9
  <2> QED BY <1>9, <2>1 DEF CtxOK, Above, Ends, Belongs
<1>10. Now(c)'
  BY <1>1, <1>2, <1>8, <1>9 DEF Now
<1> QED BY <1>5, <1>10

\* Enqueue of a header: the queue is the header.
LEMMA HeaderWire ==
    ASSUME IInv, NEW c \in Ctx, NEW r \in Rank, NEW how \in {"fin", "reset"},
           EnqueueHeader(c, r, how), Own(c), Now(c)
    PROVE  Own(c)' /\ Now(c)' /\ Fronted(Waiting(c)')
<1> DEFINE x == [id |-> nobj + 1, ep |-> epoch[c] + 1, act |-> how, len |-> 1, exp |-> FALSE]
           s == Waiting(c)
           t == <<x>>
           q == [NoQueue EXCEPT ![r] = Append(NoQueue[r], x)]
<1>t. TypeOK /\ nobj \in Nat /\ epoch[c] \in Nat
  BY PieceTypes DEF IInv
<1>1. r # None /\ NoQueue[r] = <<>>
  BY RankAssumption, CtxAssumption DEF NoQueue
<1>2. /\ txq'[c] = q /\ epRank'[c] = r /\ epoch'[c] = epoch[c] + 1 /\ nobj' = nobj + 1
      /\ cur'[c] = cur[c] /\ txobj'[c] = txobj[c] /\ off'[c] = off[c]
      /\ discard'[c] = discard[c] /\ live'[c] /\ live[c] /\ strm' = strm /\ c \notin BiDir
  BY <1>t DEF EnqueueHeader, Enqueue, TypeOK
<1>3. q[r] = t /\ \A y \in Rank : y # r => q[y] = <<>>
  <2>1. Append(<<>>, x) = t
    OBVIOUS
  <2>2. q[r] = Append(<<>>, x) /\ \A y \in Rank : y # r => q[y] = <<>>
    <3> HIDE DEF x, t
    <3> QED BY <1>1 DEF NoQueue
  <2> QED BY <2>1, <2>2
<1>4. Waiting(c)' = t
  BY <1>1, <1>2, <1>3 DEF Waiting, At
<1>5. txq'[c] \in Queue
  BY TypeStep DEF TypeOK, Queue, Next, App
<1>6. Single(txq'[c], epRank'[c])
  BY <1>2, <1>3, <1>5 DEF Single
<1>7. epoch[c] # 0
  BY <1>2 DEF Own
<1>8. Len(t) = 1 /\ t[1] = x /\ x.id = nobj + 1 /\ x.act # "none" /\ x.ep = epoch[c] + 1
  OBVIOUS
<1>9. Elems(t, epoch[c] + 1, nobj + 1)
  BY <1>8, <1>t DEF Elems
<1>10. OwnOK(c, t, epoch[c] + 1, txobj[c], nobj + 1)
  BY <1>2, <1>7, <1>9, <1>t DEF OwnOK
<1>11. Own(c)'
  BY <1>2, <1>4, <1>6, <1>7, <1>10, <1>t DEF Own
<1>12. Fronted(t)
  BY <1>8 DEF Fronted
<1>13. ASSUME cur[c] # None
       PROVE  CtxOK(c, t, epoch[c] + 1, txobj[c], off[c], discard[c], strm[cur[c]].data, nobj + 1)
  <2>1. CtxOK(c, s, epoch[c], txobj[c], off[c], discard[c], strm[cur[c]].data, nobj)
    BY <1>13 DEF Now
  <2>2. IsIds(s) /\ IsIds(strm[cur[c]].data) /\ (txobj[c] # None => txobj[c].id \in Nat)
    BY <1>13, PieceTypes
  <2> HIDE DEF s, t, x
  <2> QED BY <1>2, <1>8, <1>t, <2>1, <2>2, HeaderCtx
<1>14. Now(c)'
  BY <1>2, <1>4, <1>13 DEF Now
<1> QED BY <1>4, <1>11, <1>12, <1>14

\* Enqueue of an object: one more at the end of the same rank.
LEMMA ObjectWire ==
    ASSUME IInv, ~MixedRanks, NEW c \in Ctx, NEW r \in Rank, NEW l \in 1..ObjLen,
           EnqueueObject(c, r, l), Own(c), Now(c)
    PROVE  Own(c)' /\ Now(c)' /\ (Fronted(Waiting(c)) => Fronted(Waiting(c)'))
<1> DEFINE x == [id |-> nobj + 1, ep |-> epoch[c], act |-> "none", len |-> l, exp |-> FALSE]
           s == Waiting(c)
           t == Append(s, x)
           q == [txq[c] EXCEPT ![r] = Append(txq[c][r], x)]
<1>t. TypeOK /\ nobj \in Nat /\ epoch[c] \in Nat
  BY PieceTypes DEF IInv
<1>1. r # None /\ epRank[c] \in {None, r} /\ Single(txq[c], epRank[c])
  BY RankAssumption, CtxAssumption DEF EnqueueObject, Own
<1>2. txq[c][r] = s
  BY <1>1 DEF Waiting, At, Single
<1>3. /\ txq'[c] = q /\ epRank'[c] = r /\ epoch'[c] = epoch[c] /\ nobj' = nobj + 1
      /\ cur'[c] = cur[c] /\ txobj'[c] = txobj[c] /\ off'[c] = off[c]
      /\ discard'[c] = discard[c] /\ live'[c] /\ live[c] /\ strm' = strm
      /\ (c \in BiDir \/ epoch[c] > 1) /\ nobj < MaxObj
  BY <1>t DEF EnqueueObject, Enqueue, TypeOK
<1>4. txq[c] \in Queue /\ \A y \in Rank : y # r => txq[c][y] = <<>>
  BY <1>1, RankAssumption, CtxAssumption DEF Single
<1>5. q[r] = t /\ \A y \in Rank : y # r => q[y] = <<>>
  BY <1>2, <1>4 DEF Queue
<1>6. Waiting(c)' = t
  BY <1>1, <1>3, <1>5 DEF Waiting, At
<1>7. txq'[c] \in Queue
  BY TypeStep DEF TypeOK, Queue, Next, App
<1>8. Single(txq'[c], epRank'[c])
  BY <1>3, <1>5, <1>7 DEF Single
<1>9. epoch[c] # 0 /\ ~(c \notin BiDir /\ epoch[c] = 1)
  BY <1>3, <1>t DEF Own
<1>10. x \in Object
  BY <1>3, <1>t, BoundAssumption DEF Object, Action
<1>11. IsAppend(t, s, x)
  BY <1>10, PieceTypes, AppendShape
<1>12. x.id = nobj + 1 /\ x.ep = epoch[c] /\ x.act = "none"
  OBVIOUS
<1>13. IsIds(s) /\ (txobj[c] # None => txobj[c].id \in Nat) /\ OwnOK(c, s, epoch[c], txobj[c], nobj)
  BY PieceTypes DEF Own
<1> HIDE DEF x, s, t
<1>14. Elems(s, epoch[c], nobj)
  BY <1>13 DEF OwnOK
<1>15. Elems(t, epoch[c], nobj + 1) /\ (Len(s) > 0 => (Fronted(t) <=> Fronted(s)))
  BY <1>11, <1>12, <1>13, <1>14, <1>t, ElemsAppend
<1>16. ASSUME c \in BiDir, NEW i \in 1..Len(t) PROVE t[i].act = "none"
  <2>1. (i \in 1..Len(s) /\ t[i] = s[i]) \/ t[i] = x
    BY <1>11, <1>13 DEF IsAppend, IsIds
  <2> QED BY <1>12, <1>13, <1>16, <2>1 DEF OwnOK
<1>17. OwnOK(c, t, epoch[c], txobj[c], nobj + 1)
  BY <1>9, <1>13, <1>15, <1>16 DEF OwnOK
<1>18. Own(c)'
  BY <1>3, <1>6, <1>8, <1>9, <1>17 DEF Own
<1>19. ASSUME cur[c] # None
       PROVE  CtxOK(c, t, epoch[c], txobj[c], off[c], discard[c], strm[cur[c]].data, nobj + 1)
  <2>1. CtxOK(c, s, epoch[c], txobj[c], off[c], discard[c], strm[cur[c]].data, nobj)
    BY <1>19 DEF Now, s
  <2>2. IsIds(strm[cur[c]].data)
    BY <1>19, PieceTypes
  <2> QED BY <1>11, <1>12, <1>13, <1>14, <1>t, <2>1, <2>2, AppendCtx
<1>20. Now(c)'
  BY <1>3, <1>6, <1>19 DEF Now
<1>21. Fronted(s) => Fronted(t)
  BY <1>15 DEF Fronted
<1> QED BY <1>6, <1>18, <1>20, <1>21 DEF s

\* Time passes for an object of the only rank.
LEMMA ExpireWire ==
    ASSUME IInv, NEW c \in Ctx, NEW r \in Rank, NEW i \in 1..Len(txq[c][r]), Expire(c, r, i),
           Own(c), Now(c)
    PROVE  Own(c)' /\ Now(c)' /\ (Fronted(Waiting(c)) => Fronted(Waiting(c)'))
<1> DEFINE s == Waiting(c)
           x == [s[i] EXCEPT !.exp = TRUE]
           t == [s EXCEPT ![i] = x]
<1>t. TypeOK
  BY DEF IInv
<1>1. Single(txq[c], epRank[c]) /\ txq[c][r] # <<>>
  BY DEF Own
<1>2. epRank[c] = r /\ r # None /\ txq[c] \in Queue
  BY <1>1, RankAssumption, CtxAssumption DEF Single
<1>3. s = txq[c][r] /\ s \in Seq(Object) /\ i \in 1..Len(s)
  BY <1>2 DEF Waiting, At, Queue
<1>4. /\ UNCHANGED <<epRank, epoch, txobj, off, discard, strm, cur, live, nobj>>
      /\ txq'[c] = [txq[c] EXCEPT ![r] = t]
  BY <1>t, <1>3 DEF Expire, Aged, pubVars, TypeOK
<1>5. txq'[c] \in Queue
  BY TypeStep DEF TypeOK, Queue, Next, Environment
<1>6. Single(txq'[c], epRank'[c]) /\ Waiting(c)' = t
  BY <1>1, <1>2, <1>4, <1>5 DEF Single, Waiting, At, Queue
<1>7. s[i] \in Object
  BY <1>3, ElementOfSeq
<1>8. x.id = s[i].id /\ x.ep = s[i].ep /\ x.act = s[i].act
  BY <1>7 DEF Object
<1>9. SameObjs(t, s)
  <2>1. Len(t) = Len(s) /\ \A j \in 1..Len(s) : t[j] = IF j = i THEN x ELSE s[j]
    <3> HIDE DEF x
    <3> QED BY <1>3
  <2> HIDE DEF x, t
  <2> QED BY <1>8, <2>1 DEF SameObjs
<1>10. IsIds(s) /\ OwnOK(c, s, epoch[c], txobj[c], nobj)
  BY PieceTypes DEF Own
<1>11. cur[c] # None =>
         CtxOK(c, s, epoch[c], txobj[c], off[c], discard[c], strm[cur[c]].data, nobj)
  BY DEF Now
<1> HIDE DEF s, t, x
<1>12. /\ OwnOK(c, t, epoch[c], txobj[c], nobj)
       /\ Fronted(s) => Fronted(t)
       /\ cur[c] # None =>
            CtxOK(c, t, epoch[c], txobj[c], off[c], discard[c], strm[cur[c]].data, nobj)
  BY <1>9, <1>10, <1>11, AgedCtx
<1>13. Own(c)'
  BY <1>4, <1>6, <1>12 DEF Own
<1>14. Now(c)'
  BY <1>4, <1>6, <1>12 DEF Now
<1> QED BY <1>6, <1>12, <1>13, <1>14 DEF s

\* What Front and PopFront leave is a queue of the same rank.
LEMMA LookKeeps ==
    ASSUME NEW q, NEW r, Single(q, r), At(q, r) \in Seq(Object)
    PROVE  /\ Single(Look(q).front, r) /\ Single(Look(q).pop, r)
           /\ ~LookFirst(q, r) => At(Look(q).front, r) = <<>> /\ At(Look(q).pop, r) = <<>>
           /\ LookFirst(q, r) => At(Look(q).front, r) = At(q, r)
<1>1. r \in Rank \cup {None}
  BY DEF Single
<1>2. Single(NoQueue, r) /\ At(NoQueue, r) = <<>>
  BY <1>1, NoQueueSingle
<1> QED BY <1>2, LookSingle DEF LookMissed, LookFirst, LookLater

\* The action Front shows is that of the object in front.
LEMMA LookAct ==
    ASSUME NEW q, NEW r, Single(q, r), NEW e, NEW n, Elems(At(q, r), e, n),
           Look(q).obj # None, Look(q).obj.act # "none"
    PROVE  Look(q).front = q /\ Fronted(At(q, r))
<1>1. At(q, r) \in Seq(Object)
  BY SingleFacts
<1>2. ~LookMissed(q, r)
  BY DEF LookMissed
<1>3. ~LookLater(q, r)
  BY <1>1 DEF LookLater, Elems
<1>4. LookFirst(q, r)
  BY <1>2, <1>3, LookSingle
<1>5. Len(At(q, r)) > 0
  BY <1>1, <1>4 DEF LookFirst
<1> QED BY <1>4, <1>5 DEF LookFirst, Fronted

\* The queue is emptied in discard mode, or discard mode begins so.
LEMMA ClearCtx ==
    ASSUME NEW c, NEW s, NEW t, NEW e, NEW o, NEW k, NEW w, NEW d, NEW n, Len(t) = 0,
           NEW v, v = TRUE, CtxOK(c, s, e, o, k, w, d, n)
    PROVE  CtxOK(c, t, e, o, k, v, d, n)
<1>1. Above(o, k, t, d, n)
  BY DEF CtxOK, Above
<1>2. Ends(o, k, v, Fronted(t), d)
  BY DEF CtxOK, Ends
<1>3. Belongs(o, v, Fronted(t), d, e)
  BY DEF Belongs
<1> QED BY <1>1, <1>2, <1>3 DEF CtxOK

\* The callback of a stream, up to the first unlock.
LEMMA PrepareWire ==
    ASSUME IInv, NEW x \in Stream, PrepareToSend(x), NEW c \in Ctx, c = strm[x].ctx,
           Own(c), Now(c), \A s \in Stream : strm'[s].data = strm[s].data
    PROVE  /\ Own(c)' /\ Now(c)'
           /\ pq'.ctx = c /\ pq'.s = x
           /\ pq'.pc = "discard" /\ pq'.act # "none" => Fronted(Waiting(c)')
<1> DEFINE s == Waiting(c)
           f == Look(txq[c])
<1>t. TypeOK /\ c # None
  BY CtxAssumption DEF IInv
<1>1. /\ UNCHANGED <<epRank, epoch, txobj, off, discard, cur, live, nobj>>
      /\ txq'[c] = txq[c] \/ (discard[c] /\ txq'[c] = f.front)
  BY <1>t DEF PrepareToSend, pubVars, TypeOK
<1>2. Single(txq[c], epRank[c]) /\ s \in Seq(Object) /\ OwnOK(c, s, epoch[c], txobj[c], nobj)
  BY PieceTypes DEF Own
<1>3. /\ Single(f.front, epRank[c])
      /\ At(f.front, epRank[c]) = s \/ At(f.front, epRank[c]) = <<>>
  BY <1>2, LookKeeps DEF Waiting
<1>4. /\ Single(txq'[c], epRank[c])
      /\ Waiting(c)' = s \/ (discard[c] /\ Waiting(c)' = <<>>)
  BY <1>1, <1>2, <1>3 DEF Waiting
<1>5. Len(<<>>) = 0 /\ \A i \in 1..Len(<<>>) : FALSE
  OBVIOUS
<1>6. OwnOK(c, <<>>, epoch[c], txobj[c], nobj)
  BY <1>2, <1>5, OwnNone
<1>7. Own(c)'
  BY <1>1, <1>2, <1>4, <1>6 DEF Own
<1>8. discard[c] \in BOOLEAN /\ (cur[c] # None => cur[c] \in Stream)
  BY PieceTypes
<1>9. ASSUME cur[c] # None, discard[c]
      PROVE  CtxOK(c, <<>>, epoch[c], txobj[c], off[c], discard[c], strm[cur[c]].data, nobj)
  <2>1. CtxOK(c, s, epoch[c], txobj[c], off[c], discard[c], strm[cur[c]].data, nobj)
    BY <1>9 DEF Now
  <2> DEFINE t == <<>>
             v == discard[c]
             d == strm[cur[c]].data
  <2>2. Len(t) = 0 /\ v = TRUE /\ CtxOK(c, s, epoch[c], txobj[c], off[c], v, d, nobj)
    BY <1>8, <1>9, <2>1
  <2> HIDE DEF s, t, v, d
  <2>3. CtxOK(c, t, epoch[c], txobj[c], off[c], v, d, nobj)
    BY <2>2, ClearCtx
  <2> QED BY <2>3 DEF t, v, d
<1>10. Now(c)'
  <2> SUFFICES ASSUME cur[c] # None
               PROVE  CtxOK(c, Waiting(c)', epoch[c], txobj[c], off[c], discard[c],
                            strm[cur[c]].data, nobj)
    BY <1>1, <1>8 DEF Now
  <2>1. CASE Waiting(c)' = s
    BY <2>1 DEF Now
  <2>2. CASE discard[c] /\ Waiting(c)' = <<>>
    BY <1>9, <1>8, <2>2
  <2> QED BY <1>4, <2>1, <2>2
<1>11. pq'.ctx = c /\ pq'.s = x
  BY <1>t DEF PrepareToSend
<1>12. ASSUME pq'.pc = "discard", pq'.act # "none" PROVE Fronted(Waiting(c)')
  <2>1. txq'[c] = f.front /\ f.obj # None /\ f.obj.act # "none"
    BY <1>t, <1>12 DEF PrepareToSend, TypeOK
  <2>2. f.front = txq[c] /\ Fronted(s)
    BY <1>2, <2>1, LookAct DEF OwnOK, Waiting
  <2> QED BY <1>1, <2>1, <2>2 DEF Waiting
<1> QED BY <1>7, <1>10, <1>11, <1>12

\* SendStreamBytes in discard mode: the object in front is dropped, or the
\* header in front ends the discarding, or it goes on.
LEMMA DiscardWire ==
    ASSUME IInv, DiscardStep, NEW c \in Ctx, c = pq.ctx, Own(c), Now(c), AtWork,
           \A s \in Stream : strm'[s].data = strm[s].data
    PROVE  Own(c)' /\ Now(c)'
<1> DEFINE s == Waiting(c)
           d == strm[cur[c]].data
<1>t. TypeOK /\ discard[c] = TRUE
  BY DEF IInv, CallbackInv, DiscardStep, TypeOK
<1>1. /\ Single(txq[c], epRank[c]) /\ s \in Seq(Object) /\ IsIds(s)
      /\ OwnOK(c, s, epoch[c], txobj[c], nobj)
      /\ cur[c] # None => cur[c] \in Stream /\ CtxOK(c, s, epoch[c], txobj[c], off[c], discard[c], d, nobj)
  BY PieceTypes DEF Own, Now
<1>2. UNCHANGED <<epRank, epoch, cur, live, nobj>>
  BY DEF DiscardStep, pubVars
<1>3. (cur[c] # None => strm'[cur[c]].data = d) /\ (epoch[c] = 0 => ~live[c])
  BY <1>1 DEF Own
<1>4. CASE pq.act # "none" /\ congested
  <2> DEFINE t == Tail(s)
             v == discard[c]
  <2>1. /\ txq'[c] = PopAny(txq[c]) /\ txobj'[c] = txobj[c] /\ off'[c] = off[c]
        /\ discard'[c] = v
    BY <1>t, <1>4 DEF DiscardStep, TypeOK
  <2>2. s # <<>>
    BY <1>4, <1>t DEF AtWork, DiscardStep, Fronted
  <2>3. ~Empty(txq[c])
    BY <1>1, <2>2, SingleFacts DEF Waiting
  <2>4. Single(txq'[c], epRank[c]) /\ Waiting(c)' = t
    BY <1>1, <1>2, <2>1, <2>3, PopSingle DEF Waiting
  <2>5. IsTail(t, s) /\ Len(s) > 0
    BY <1>1, <2>2, TailShape
  <2>6. v = TRUE
    BY <1>t
  <2> HIDE DEF s, t, d, v
  <2>7. OwnOK(c, t, epoch[c], txobj[c], nobj)
    BY <1>1, <2>5, PopOwn
  <2>8. \A i \in 1..Len(t) : \E j \in 1..Len(s) : t[i].id = s[j].id
    BY <1>1, <2>5 DEF IsTail, IsIds
  <2>9. cur[c] # None => CtxOK(c, t, epoch[c], txobj[c], off[c], v, d, nobj)
    BY <1>1, <2>6, <2>8, DiscardCtx
  <2>10. Own(c)'
    BY <1>2, <1>3, <2>1, <2>4, <2>7 DEF Own
  <2>11. Now(c)'
    BY <1>2, <1>3, <2>1, <2>4, <2>9 DEF Now
  <2> QED BY <2>10, <2>11
<1>5. CASE pq.act # "none" /\ ~congested
  <2> DEFINE v == discard'[c]
  <2>1. txq'[c] = txq[c] /\ txobj'[c] = None /\ off'[c] = 0 /\ v = FALSE
    BY <1>t, <1>5 DEF DiscardStep, TypeOK
  <2>2. Fronted(s) /\ Waiting(c)' = s
    BY <1>2, <1>5, <2>1 DEF AtWork, DiscardStep, Waiting
  <2> HIDE DEF s, d, v
  <2>3. OwnOK(c, s, epoch[c], None, nobj)
    BY <1>1 DEF OwnOK
  <2>4. cur[c] # None => CtxOK(c, s, epoch[c], None, 0, v, d, nobj)
    BY <1>1, <2>1, <2>2, ResumeCtx
  <2>5. Own(c)'
    BY <1>1, <1>2, <1>3, <2>1, <2>2, <2>3 DEF Own
  <2>6. Now(c)'
    BY <1>2, <1>3, <2>1, <2>2, <2>4 DEF Now, v
  <2> QED BY <2>5, <2>6
<1>6. CASE pq.act = "none"
  <2>1. /\ txq'[c] = txq[c] /\ txobj'[c] = txobj[c] /\ off'[c] = off[c] /\ discard'[c] = TRUE
    BY <1>t, <1>6 DEF DiscardStep, TypeOK
  <2>2. SameCtx(c)
    BY <1>t, <1>2, <1>3, <2>1 DEF SameCtx
  <2> QED BY <2>2, CtxKept
<1> QED BY <1>4, <1>5, <1>6

\* PopFront found nothing to send: the queue is empty, and in discard mode
\* unless it was.
LEMMA NothingWire ==
    ASSUME IInv, PopNothing, NEW c \in Ctx, c = pq.ctx, Own(c), Now(c),
           \A s \in Stream : strm'[s].data = strm[s].data
    PROVE  Own(c)' /\ Now(c)'
<1> DEFINE s == Waiting(c)
           f == Look(txq[c])
           d == strm[cur[c]].data
           v == discard'[c]
           t == <<>>
<1>t. TypeOK
  BY DEF IInv
<1>1. /\ Single(txq[c], epRank[c]) /\ s \in Seq(Object) /\ OwnOK(c, s, epoch[c], txobj[c], nobj)
      /\ cur[c] # None => cur[c] \in Stream /\ CtxOK(c, s, epoch[c], txobj[c], off[c], discard[c], d, nobj)
  BY PieceTypes DEF Own, Now
<1>2. /\ UNCHANGED <<epRank, epoch, nobj>> /\ txobj[c] = None /\ txobj'[c] = None
      /\ txq'[c] = f.pop /\ v = (discard[c] \/ f.expired) /\ (live'[c] => live[c])
      /\ \/ cur'[c] = None
         \/ cur'[c] = cur[c] /\ off'[c] = off[c]
  BY <1>t DEF PopNothing, Return, Erase, pubVars, TypeOK
<1>3. (cur[c] # None => strm'[cur[c]].data = d) /\ (epoch[c] = 0 => ~live'[c])
  BY <1>1, <1>2 DEF Own
<1>4. ~LookFirst(txq[c], epRank[c])
  <2>1. ASSUME s # <<>> PROVE s[1] # None
    <3>1. s[1] \in Object
      BY <1>1, <2>1, TailShape
    <3> QED BY <3>1, CtxAssumption
  <2>2. f.obj = None \/ f.expired
    BY DEF PopNothing
  <2> QED BY <2>1, <2>2 DEF LookFirst, Waiting
<1>5. Single(txq'[c], epRank[c]) /\ Waiting(c)' = t
  BY <1>1, <1>2, <1>4, LookKeeps DEF Waiting
<1>6. s = t \/ f.expired
  BY <1>1, <1>4, LookSingle DEF LookMissed, LookLater, Waiting
<1>7. Len(t) = 0 /\ discard[c] \in BOOLEAN /\ v \in BOOLEAN
  BY <1>t, TypeStep DEF TypeOK, Next, Callback
<1>8. (v = TRUE) \/ (s = t /\ v = discard[c])
  BY <1>2, <1>6, <1>7
<1> HIDE DEF s, t, d, v, f
<1>9. OwnOK(c, t, epoch[c], None, nobj)
  BY <1>1, <1>7, OwnNone
<1>10. Own(c)'
  BY <1>2, <1>3, <1>5, <1>9 DEF Own
<1>11. cur[c] # None => CtxOK(c, t, epoch[c], txobj[c], off[c], v, d, nobj)
  <2>1. CASE v = TRUE
    BY <1>1, <1>7, <2>1, ClearCtx
  <2>2. CASE s = t /\ v = discard[c]
    BY <1>1, <2>2
  <2> QED BY <1>8, <2>1, <2>2
<1>12. Now(c)'
  BY <1>2, <1>3, <1>5, <1>11 DEF Now, v
<1> QED BY <1>10, <1>12

\* PopFront found an object: it is the first of the queue.
LEMMA FoundFirst ==
    ASSUME IInv, NEW c \in Ctx, Own(c), Look(txq[c]).obj # None, ~Look(txq[c]).expired
    PROVE  /\ Look(txq[c]).obj = Waiting(c)[1] /\ Waiting(c)[1] # None
           /\ Single(Look(txq[c]).pop, epRank[c])
           /\ At(Look(txq[c]).pop, epRank[c]) = Tail(Waiting(c))
           /\ IsTail(Tail(Waiting(c)), Waiting(c)) /\ Len(Waiting(c)) > 0
           /\ Waiting(c)[1] \in Object
<1>1. Single(txq[c], epRank[c]) /\ Waiting(c) \in Seq(Object)
  BY PieceTypes DEF Own
<1>2. LookFirst(txq[c], epRank[c])
  BY <1>1, LookSingle DEF LookMissed, LookLater
<1>3. Waiting(c) # <<>>
  BY <1>2 DEF LookFirst, Waiting
<1>4. /\ IsTail(Tail(Waiting(c)), Waiting(c)) /\ Len(Waiting(c)) > 0
      /\ Waiting(c)[1] \in Object
  BY <1>1, <1>3, TailShape
<1>5. Waiting(c)[1] # None
  BY <1>4, CtxAssumption
<1> QED BY <1>2, <1>4, <1>5 DEF LookFirst, Waiting

\* PopFront took a header: it opens the new stream, unless the context is
\* gone with it.
LEMMA ReplaceWire ==
    ASSUME IInv, PopReplace, NEW c \in Ctx, c = pq.ctx, Own(c),
           \A s \in Stream : strm'[s].data = strm[s].data
    PROVE  Own(c)' /\ Now(c)'
<1> DEFINE s == Waiting(c)
           t == Tail(s)
           f == Look(txq[c])
           o == s[1]
           d == strm'[nstrm + 1].data
           v == discard'[c]
<1>t. TypeOK /\ LinkInv
  BY DEF IInv
<1>1. f.obj # None /\ ~f.expired /\ Replaces(f.obj) /\ nstrm < MaxStream
  BY DEF PopReplace
<1>2. /\ f.obj = o /\ o # None /\ Single(f.pop, epRank[c]) /\ At(f.pop, epRank[c]) = t
      /\ IsTail(t, s) /\ Len(s) > 0
  BY <1>1, FoundFirst
<1>3. /\ UNCHANGED <<epRank, epoch, nobj>> /\ txq'[c] = f.pop /\ v = FALSE
      /\ \/ cur'[c] = None /\ txobj'[c] = txobj[c] /\ ~live'[c]
         \/ cur'[c] = nstrm + 1 /\ txobj'[c] = o /\ off'[c] = 0 /\ live'[c] = live[c]
  BY <1>t, <1>2 DEF PopReplace, pubVars, TypeOK
<1>4. Single(txq'[c], epRank[c]) /\ Waiting(c)' = t
  BY <1>2, <1>3 DEF Waiting
<1>5. IsIds(s) /\ OwnOK(c, s, epoch[c], txobj[c], nobj) /\ (epoch[c] = 0 => ~live[c])
  BY PieceTypes DEF Own
<1>6. o.act # "none"
  BY <1>1, <1>2 DEF Replaces
<1>7. Len(d) = 0
  <2>1. nstrm + 1 \in Stream /\ nstrm + 1 > nstrm
    BY <1>t, <1>1, BoundAssumption DEF TypeOK, Stream
  <2>2. strm[nstrm + 1] = FreeStream
    BY <1>t, <2>1 DEF LinkInv
  <2> QED BY <2>1, <2>2 DEF FreeStream
<1> HIDE DEF s, t, f, d, v
<1>8. OwnOK(c, t, epoch[c], txobj[c], nobj) /\ OwnOK(c, t, epoch[c], o, nobj)
  BY <1>2, <1>5, PopOwn
<1>9. Own(c)'
  BY <1>3, <1>4, <1>5, <1>8 DEF Own
<1>10. Elems(s, epoch[c], nobj)
  BY <1>5 DEF OwnOK
<1>11. CtxOK(c, t, epoch[c], o, 0, v, d, nobj)
  BY <1>2, <1>3, <1>5, <1>6, <1>7, <1>10, ReplaceCtx
<1>12. Now(c)'
  BY <1>3, <1>4, <1>11 DEF Now, v, d
<1> QED BY <1>9, <1>12

\* PopFront took an object for the current stream.
LEMMA ObjectTakenWire ==
    ASSUME IInv, PopObject, NEW c \in Ctx, c = pq.ctx, txobj[c] = None, Own(c), Now(c)
    PROVE  Own(c)' /\ Now(c)'
<1> DEFINE s == Waiting(c)
           t == Tail(s)
           f == Look(txq[c])
           o == s[1]
           d == strm[cur[c]].data
<1>t. TypeOK
  BY DEF IInv
<1>1. f.obj # None /\ ~f.expired /\ ~Replaces(f.obj)
  BY DEF PopObject
<1>2. /\ f.obj = o /\ o # None /\ Single(f.pop, epRank[c]) /\ At(f.pop, epRank[c]) = t
      /\ IsTail(t, s) /\ Len(s) > 0
  BY <1>1, FoundFirst
<1>3. /\ UNCHANGED <<epRank, epoch, nobj, cur, live, strm, discard>> /\ txq'[c] = f.pop
      /\ txobj'[c] = o /\ off'[c] = 0
  BY <1>t, <1>2 DEF PopObject, pubVars, TypeOK
<1>4. Single(txq'[c], epRank[c]) /\ Waiting(c)' = t
  BY <1>2, <1>3 DEF Waiting
<1>5. IsIds(s) /\ OwnOK(c, s, epoch[c], None, nobj) /\ (epoch[c] = 0 => ~live[c])
  BY PieceTypes DEF Own
<1>6. o.act = "none"
  BY <1>1, <1>2 DEF Replaces
<1>7. cur[c] # None => IsIds(d) /\ CtxOK(c, s, epoch[c], None, off[c], discard[c], d, nobj)
  BY PieceTypes DEF Now
<1> HIDE DEF s, t, f, d
<1>8. OwnOK(c, t, epoch[c], o, nobj)
  BY <1>2, <1>5, PopOwn
<1>9. cur[c] # None => CtxOK(c, t, epoch[c], o, 0, discard[c], d, nobj)
  BY <1>2, <1>5, <1>6, <1>7, PopCtx
<1>10. Own(c)'
  BY <1>3, <1>4, <1>5, <1>8 DEF Own
<1>11. Now(c)'
  BY <1>3, <1>4, <1>9 DEF Now, d
<1> QED BY <1>10, <1>11

\* The bytes are handed to picoquic.
LEMMA ProvideWire ==
    ASSUME IInv, ProvideBytes, NEW c \in Ctx, c = pq.ctx, cur[c] = pq.s, Own(c), Now(c),
           PureData(strm[pq.s].data), WholeData(strm[pq.s].data)
    PROVE  /\ Own(c)' /\ Now(c)'
           /\ PureData(strm'[pq.s].data) /\ WholeData(strm'[pq.s].data)
           /\ \A x \in Stream : x # pq.s => strm'[x].data = strm[x].data
<1> DEFINE s == Waiting(c)
           o == txobj[c]
           k == off[c]
           w == discard[c]
           d == strm[pq.s].data
           ch == [id |-> o.id, ep |-> o.ep, part |-> off[c] + 1, last |-> off[c] + 1 = o.len,
                  hdr |-> o.act # "none", disc |-> discard[c]]
           b == Append(d, ch)
           st == [strm EXCEPT ![pq.s] = [strm[pq.s] EXCEPT !.active = pq.still, !.data = b]]
<1>t. TypeOK /\ CallbackInv /\ strm \in [Stream -> StreamRec]
  BY DEF IInv, TypeOK, StreamRec
<1>1. pq.s \in Stream /\ pq.s # None /\ cur[c] # None
  BY <1>t, BoundAssumption, CtxAssumption DEF ProvideBytes, CallbackInv, TypeOK, Stream
<1>2. /\ s \in Seq(Object) /\ IsIds(s) /\ IsIds(d) /\ OwnOK(c, s, epoch[c], o, nobj)
      /\ CtxOK(c, s, epoch[c], o, k, w, d, nobj) /\ k \in Nat /\ w \in BOOLEAN
  BY <1>1, PieceTypes DEF Own, Now
<1>3. o # None /\ o \in Object /\ o.id \in Nat /\ k < o.len
  BY <1>t, PieceTypes DEF ProvideBytes, CallbackInv
<1>4. /\ o.id \in 1..MaxObj /\ o.ep \in Nat /\ o.len \in 1..ObjLen /\ o.len \in Nat
      /\ (o.act # "none") \in BOOLEAN
  BY <1>3, BoundAssumption DEF Object
<1>5. k + 1 \in 1..ObjLen
  BY <1>2, <1>3, <1>4, BoundAssumption, SMTT(30)
<1>6. ch \in Chunk
  BY <1>2, <1>4, <1>5 DEF Chunk
<1>7. d \in Seq(Chunk)
  BY <1>t, <1>1 DEF TypeOK
<1>8. b \in Seq(Chunk) /\ IsAppend(b, d, ch)
  BY <1>6, <1>7, AppendShape
<1>9. /\ ch.id = o.id /\ ch.ep = o.ep /\ ch.part = k + 1 /\ (ch.last <=> k + 1 = o.len)
      /\ (ch.hdr <=> o.act # "none") /\ (ch.disc <=> w)
  OBVIOUS
<1>10. /\ UNCHANGED <<epRank, epoch, nobj, discard>> /\ txq'[c] = txq[c]
       /\ \/ strm' = Closed(st, cur[c], "fin") /\ cur'[c] = None /\ txobj'[c] = None /\ ~live'[c]
          \/ /\ strm' = st /\ cur'[c] = cur[c] /\ live'[c] = live[c]
             /\ txobj'[c] = (IF k + 1 = o.len THEN None ELSE o)
             /\ off'[c] = (IF k + 1 = o.len THEN 0 ELSE k + 1)
  BY <1>t DEF ProvideBytes, Erase, Done, pubVars, TypeOK
<1>11. Waiting(c)' = s
  BY <1>10 DEF Waiting
<1>12. st[pq.s].data = b /\ st \in [Stream -> StreamRec] /\ \A x \in Stream : x # pq.s => st[x] = strm[x]
  <2>1. pq.still \in BOOLEAN /\ strm[pq.s] \in StreamRec
    BY <1>t, <1>1 DEF TypeOK
  <2>2. [strm[pq.s] EXCEPT !.active = pq.still, !.data = b] \in StreamRec
    <3> HIDE DEF b
    <3> QED BY <1>8, <2>1 DEF StreamRec
  <2>3. [strm[pq.s] EXCEPT !.active = pq.still, !.data = b].data = b
    <3> HIDE DEF b
    <3> QED BY <2>1 DEF StreamRec
  <2> HIDE DEF b
  <2> QED BY <1>t, <1>1, <2>2, <2>3
<1> HIDE DEF s, o, k, w, d, ch, b, st
<1>13. strm'[pq.s].data = b /\ \A x \in Stream : x # pq.s => strm'[x].data = strm[x].data
  BY <1>1, <1>10, <1>12, ClosedData
<1>14. /\ PureData(b) /\ WholeData(b)
       /\ k + 1 = o.len => CtxOK(c, s, epoch[c], None, 0, w, b, nobj)
       /\ k + 1 # o.len => CtxOK(c, s, epoch[c], o, k + 1, w, b, nobj)
  <2>1. PureData(d) /\ WholeData(d)
    BY DEF d
  <2> QED BY <1>2, <1>3, <1>4, <1>8, <1>9, <2>1, WriteCtx, ZenonT(40)
<1>15. OwnOK(c, s, epoch[c], None, nobj) /\ OwnOK(c, s, epoch[c], o, nobj)
  BY <1>2 DEF OwnOK
<1>16. Own(c)'
  BY <1>10, <1>11, <1>15 DEF Own
<1>17. Now(c)'
  <2> SUFFICES ASSUME cur'[c] # None
               PROVE  CtxOK(c, s, epoch[c], txobj'[c], off'[c], w, b, nobj)
    BY <1>10, <1>11, <1>13 DEF Now, w
  <2> QED BY <1>10, <1>14
<1> QED BY <1>13, <1>14, <1>16, <1>17

-----------------------------------------------------------------------------
\* Every step keeps every context in order.
LEMMA CtxStep ==
    ASSUME ~MixedRanks, IInv, WireInv, [Next]_vars, NEW b \in Ctx
    PROVE  Own(b)' /\ Now(b)'
<1>t. TypeOK
  BY DEF IInv
<1>i. Own(b) /\ Now(b)
  BY DEF WireInv
<1>d. ~ProvideBytes => \A s \in Stream : strm'[s].data = strm[s].data
  BY DataSame
<1>c. cur[b] # None => cur[b] \in Stream
  BY <1>t DEF TypeOK
<1>p. pq.pc # "idle" => pq.ctx \in Ctx
  BY <1>t DEF IInv, CallbackInv, TypeOK
<1>s. ASSUME ~ProvideBytes, txq'[b] = txq[b], epRank'[b] = epRank[b], epoch'[b] = epoch[b],
             txobj'[b] = txobj[b], off'[b] = off[b], discard'[b] = discard[b],
             nobj' \in {nobj, nobj + 1}, live'[b] => live[b], cur'[b] \in {cur[b], None}
      PROVE  Own(b)' /\ Now(b)'
  <2>1. SameCtx(b)
    BY <1>s, <1>d, <1>c DEF SameCtx
  <2> QED BY <1>i, <2>1, CtxKept
<1>e. ASSUME NEW c \in Ctx, Erase(c, strm), UNCHANGED <<txq, epRank, epoch, nobj, discard>>,
             ~ProvideBytes
      PROVE  Own(b)' /\ Now(b)'
  <2>1. CASE b = c
    <3>1. cur'[b] = None /\ txobj'[b] = None /\ ~live'[b] /\ Waiting(b)' = Waiting(b)
      BY <1>t, <1>e, <2>1 DEF Erase, TypeOK, Waiting
    <3>2. OwnOK(b, Waiting(b), epoch[b], None, nobj)
      BY <1>i DEF Own, OwnOK
    <3> QED BY <1>i, <1>e, <3>1, <3>2 DEF Own, Now
  <2>2. CASE b # c
    <3>1. /\ cur'[b] = cur[b] /\ txobj'[b] = txobj[b] /\ off'[b] = off[b] /\ live'[b] = live[b]
      BY <1>t, <1>e, <2>2 DEF Erase, TypeOK
    <3> QED BY <1>e, <1>s, <3>1
  <2> QED BY <2>1, <2>2
<1>1. ASSUME ProvideBytes PROVE Own(b)' /\ Now(b)'
  <2>1. /\ pq.ctx \in Ctx /\ cur[pq.ctx] = pq.s /\ pq.s \in Stream /\ Own(pq.ctx) /\ Now(pq.ctx)
        /\ PureData(strm[pq.s].data) /\ WholeData(strm[pq.s].data)
    <3>1. pq.pc # "idle"
      BY <1>1 DEF ProvideBytes
    <3>2. pq.s \in Stream
      BY <1>t, <3>1, BoundAssumption DEF IInv, CallbackInv, TypeOK, Stream
    <3> QED BY <1>p, <3>1, <3>2 DEF WireInv, AtWork, Written
  <2>2. CASE b = pq.ctx
    BY <1>1, <2>1, <2>2, ProvideWire
  <2>3. CASE b # pq.ctx
    <3>1. \A x \in Stream : x # pq.s => strm'[x].data = strm[x].data
      BY <1>1, <2>1, ProvideWire
    <3>2. cur[b] # None => cur[b] # pq.s
      BY <2>1, <2>3 DEF WireInv, Apart
    <3>3. /\ cur'[b] = cur[b] /\ txobj'[b] = txobj[b] /\ off'[b] = off[b] /\ live'[b] = live[b]
          /\ UNCHANGED <<txq, epRank, epoch, discard, nobj>>
      BY <1>1, <1>t, <2>1, <2>3 DEF ProvideBytes, Erase, TypeOK, pubVars
    <3>4. SameCtx(b)
      BY <1>c, <3>1, <3>2, <3>3 DEF SameCtx
    <3> QED BY <1>i, <3>4, CtxKept
  <2> QED BY <2>2, <2>3
<1> SUFFICES ASSUME ~ProvideBytes PROVE Own(b)' /\ Now(b)'
  BY <1>1
<1>2. ASSUME NEW c \in Ctx, CreateDataContext(c) PROVE Own(b)' /\ Now(b)'
  <2>1. CASE b = c
    BY <1>2, <1>i, <1>d, <2>1, CreateWire
  <2>2. CASE b # c
    <3>1. /\ cur'[b] = cur[b] /\ epoch'[b] = epoch[b] /\ live'[b] = live[b]
          /\ UNCHANGED <<txq, epRank, txobj, off, discard, nobj>>
      BY <1>2, <1>t, <2>2 DEF CreateDataContext, TypeOK
    <3> QED BY <1>s, <3>1
  <2> QED BY <2>1, <2>2
<1>3. ASSUME NEW c \in Ctx, NEW r \in Rank, NEW how \in {"fin", "reset"}, EnqueueHeader(c, r, how)
      PROVE  Own(b)' /\ Now(b)'
  <2>1. CASE b = c
    BY <1>3, <1>i, <2>1, HeaderWire
  <2>2. CASE b # c
    <3>1. /\ txq'[b] = txq[b] /\ epoch'[b] = epoch[b] /\ epRank'[b] = epRank[b]
          /\ UNCHANGED <<live, cur, txobj, off, discard>> /\ nobj' = nobj + 1
      BY <1>3, <1>t, <2>2 DEF EnqueueHeader, Enqueue, TypeOK
    <3> QED BY <1>s, <3>1
  <2> QED BY <2>1, <2>2
<1>4. ASSUME NEW c \in Ctx, NEW r \in Rank, NEW l \in 1..ObjLen, EnqueueObject(c, r, l)
      PROVE  Own(b)' /\ Now(b)'
  <2>1. CASE b = c
    BY <1>4, <1>i, <2>1, ObjectWire
  <2>2. CASE b # c
    <3>1. /\ txq'[b] = txq[b] /\ epoch'[b] = epoch[b] /\ epRank'[b] = epRank[b]
          /\ UNCHANGED <<live, cur, txobj, off, discard>> /\ nobj' = nobj + 1
      BY <1>4, <1>t, <2>2 DEF EnqueueObject, Enqueue, TypeOK
    <3> QED BY <1>s, <3>1
  <2> QED BY <2>1, <2>2
<1>5. ASSUME NEW c \in Ctx, NEW d \in BOOLEAN, DeleteDataContext(c, d) PROVE Own(b)' /\ Now(b)'
  BY <1>5, <1>s DEF DeleteDataContext, ctxVars, pubVars
<1>6. ASSUME RunMark PROVE Own(b)' /\ Now(b)'
  BY <1>6, <1>s DEF RunMark, pubVars
<1>7. ASSUME RunDelete PROVE Own(b)' /\ Now(b)'
  <2>1. Head(runner).ctx \in Ctx
    <3>1. Head(runner) \in Function
      BY <1>7, <1>t DEF RunDelete, TypeOK
    <3> QED BY <3>1 DEF Function
  <2>2. UNCHANGED <<txq, epRank, epoch, nobj, discard>>
    BY <1>7 DEF RunDelete, pubVars
  <2>3. Erase(Head(runner).ctx, strm) \/ UNCHANGED <<live, cur, txobj, off>>
    BY <1>7 DEF RunDelete
  <2> QED BY <1>e, <1>s, <2>1, <2>2, <2>3
<1>8. ASSUME NEW x \in Stream, PrepareToSend(x) PROVE Own(b)' /\ Now(b)'
  <2>1. UNCHANGED <<epRank, epoch, nobj, discard, live, cur, txobj, off>>
    BY <1>8 DEF PrepareToSend, pubVars
  <2>2. CASE b = strm[x].ctx
    BY <1>8, <1>i, <1>d, <2>2, PrepareWire
  <2>3. CASE b # strm[x].ctx
    <3>1. txq'[b] = txq[b]
      BY <1>8, <1>t, <2>3 DEF PrepareToSend, TypeOK
    <3> QED BY <1>s, <2>1, <3>1
  <2> QED BY <2>2, <2>3
<1>9. ASSUME DiscardStep PROVE Own(b)' /\ Now(b)'
  <2>1. pq.ctx \in Ctx /\ AtWork
    BY <1>9, <1>p DEF DiscardStep, WireInv
  <2>2. CASE b = pq.ctx
    BY <1>9, <1>i, <1>d, <2>1, <2>2, DiscardWire
  <2>3. CASE b # pq.ctx
    <3>1. /\ txq'[b] = txq[b] /\ txobj'[b] = txobj[b] /\ off'[b] = off[b]
          /\ discard'[b] = discard[b] /\ UNCHANGED <<epRank, epoch, nobj, live, cur>>
      BY <1>9, <1>t, <2>1, <2>3 DEF DiscardStep, TypeOK, pubVars
    <3> QED BY <1>s, <3>1
  <2> QED BY <2>2, <2>3
<1>10. ASSUME PopNothing PROVE Own(b)' /\ Now(b)'
  <2>1. pq.ctx \in Ctx
    BY <1>10, <1>p DEF PopNothing
  <2>2. CASE b = pq.ctx
    BY <1>10, <1>i, <1>d, <2>1, <2>2, NothingWire
  <2>3. CASE b # pq.ctx
    <3>1. /\ txq'[b] = txq[b] /\ txobj'[b] = txobj[b] /\ off'[b] = off[b]
          /\ discard'[b] = discard[b] /\ cur'[b] = cur[b] /\ live'[b] = live[b]
          /\ UNCHANGED <<epRank, epoch, nobj>>
      BY <1>10, <1>t, <2>1, <2>3 DEF PopNothing, Return, Erase, TypeOK, pubVars
    <3> QED BY <1>s, <3>1
  <2> QED BY <2>2, <2>3
<1>11. ASSUME PopReplace PROVE Own(b)' /\ Now(b)'
  <2>1. pq.ctx \in Ctx
    BY <1>11, <1>p DEF PopReplace
  <2>2. CASE b = pq.ctx
    BY <1>11, <1>i, <1>d, <2>1, <2>2, ReplaceWire
  <2>3. CASE b # pq.ctx
    <3>1. /\ txq'[b] = txq[b] /\ txobj'[b] = txobj[b] /\ off'[b] = off[b]
          /\ discard'[b] = discard[b] /\ cur'[b] = cur[b] /\ live'[b] = live[b]
          /\ UNCHANGED <<epRank, epoch, nobj>>
      BY <1>11, <1>t, <2>1, <2>3 DEF PopReplace, TypeOK, pubVars
    <3> QED BY <1>s, <3>1
  <2> QED BY <2>2, <2>3
<1>12. ASSUME PopObject PROVE Own(b)' /\ Now(b)'
  <2>1. pq.ctx \in Ctx
    BY <1>12, <1>p DEF PopObject
  <2>2. UNCHANGED <<epRank, epoch, nobj, live, cur, discard>>
    BY <1>12 DEF PopObject, pubVars
  <2>3. CASE b = pq.ctx /\ txobj[b] = None
    BY <1>12, <1>i, <2>1, <2>3, ObjectTakenWire
  <2>4. CASE b # pq.ctx \/ txobj[b] # None
    <3>1. txq'[b] = txq[b] /\ txobj'[b] = txobj[b] /\ off'[b] = off[b]
      BY <1>12, <1>t, <2>1, <2>4 DEF PopObject, TypeOK
    <3> QED BY <1>s, <2>2, <3>1
  <2> QED BY <2>3, <2>4
<1>13. ASSUME DecideStill PROVE Own(b)' /\ Now(b)'
  BY <1>13, <1>s DEF DecideStill, ctxVars, pubVars
<1>14. ASSUME Close PROVE Own(b)' /\ Now(b)'
  BY <1>14, <1>s DEF Close, pubVars
<1>15. ASSUME CheckConnsForCongestion PROVE Own(b)' /\ Now(b)'
  <2>1. UNCHANGED <<epRank, epoch, nobj, live, cur, txq, txobj, off>>
    BY <1>15 DEF CheckConnsForCongestion, pubVars
  <2>2. discard'[b] = discard[b] \/ discard'[b] = TRUE
    BY <1>15, <1>t DEF CheckConnsForCongestion, TypeOK
  <2>3. CASE discard'[b] = discard[b]
    BY <1>s, <2>1, <2>3
  <2>4. CASE discard'[b] = TRUE
    <3> DEFINE v == discard'[b]
               s == Waiting(b)
               d == strm[cur[b]].data
    <3>1. v = TRUE /\ \A i \in 1..Len(s) : \E j \in 1..Len(s) : s[i].id = s[j].id
      BY <2>4
    <3>2. /\ cur[b] # None => /\ CtxOK(b, s, epoch[b], txobj[b], off[b], discard[b], d, nobj)
                              /\ strm'[cur[b]].data = d
          /\ Waiting(b)' = s
      BY <1>i, <1>c, <1>d, <2>1 DEF Now, Waiting
    <3> HIDE DEF v, s, d
    <3>3. cur[b] # None => CtxOK(b, s, epoch[b], txobj[b], off[b], v, d, nobj)
      BY <3>1, <3>2, DiscardCtx
    <3>4. Now(b)'
      BY <2>1, <3>2, <3>3 DEF Now, v
    <3>5. Own(b)'
      BY <1>i, <2>1, <3>2 DEF Own, s
    <3> QED BY <3>4, <3>5
  <2> QED BY <2>2, <2>3, <2>4
<1>16. ASSUME NEW c \in Ctx, PeerClosed(c) PROVE Own(b)' /\ Now(b)'
  BY <1>16, <1>s, <1>t DEF PeerClosed, pubVars, TypeOK
<1>17. ASSUME NEW c \in Ctx, NEW r \in Rank, NEW i \in 1..Len(txq[c][r]), Expire(c, r, i)
       PROVE  Own(b)' /\ Now(b)'
  <2>1. CASE b = c
    BY <1>17, <1>i, <2>1, ExpireWire
  <2>2. CASE b # c
    BY <1>17, <1>s, <1>t, <2>2 DEF Expire, pubVars, TypeOK
  <2> QED BY <2>1, <2>2
<1>18. ASSUME UNCHANGED vars PROVE Own(b)' /\ Now(b)'
  BY <1>18, <1>s DEF vars, ctxVars, pubVars
<1> QED
  BY <1>2, <1>3, <1>4, <1>5, <1>6, <1>7, <1>8, <1>9, <1>10, <1>11, <1>12, <1>13, <1>14, <1>15,
     <1>16, <1>17, <1>18 DEF Next, App, Runner, Callback, Environment

\* Every step keeps the callback on the current stream of its context, and
\* a header it saw in front of the queue.
LEMMA WorkStep ==
    ASSUME ~MixedRanks, IInv, WireInv, [Next]_vars
    PROVE  AtWork'
<1>t. TypeOK
  BY DEF IInv
<1>p. pq.pc # "idle" => pq.ctx \in Ctx /\ pq.s \in Nat /\ Own(pq.ctx) /\ Now(pq.ctx)
  BY <1>t, BoundAssumption DEF IInv, CallbackInv, TypeOK, WireInv
<1>w. AtWork
  BY DEF WireInv
<1>s. ASSUME pq' = pq,
             pq.pc # "idle" => cur'[pq.ctx] = cur[pq.ctx] /\ Waiting(pq.ctx)' = Waiting(pq.ctx)
      PROVE  AtWork'
  BY <1>s, <1>w DEF AtWork, Waiting
<1>f. ASSUME pq' = pq, cur' = cur,
             pq.pc # "idle" => (Fronted(Waiting(pq.ctx)) => Fronted(At(txq'[pq.ctx], epRank'[pq.ctx])))
      PROVE  AtWork'
  BY <1>f, <1>w DEF AtWork, Waiting
<1>m. ASSUME pq'.pc # "discard", pq'.pc # "idle" =>
               /\ pq.pc # "idle" /\ pq'.ctx = pq.ctx /\ pq'.s = pq.s /\ cur'[pq.ctx] = cur[pq.ctx]
      PROVE  AtWork'
  BY <1>m, <1>w DEF AtWork
<1>q. pq \in [pc : PcSet, ctx : Ctx \cup {None}, s : 0..MaxStream, act : Action, still : BOOLEAN]
  BY <1>t DEF TypeOK
<1>1. ASSUME NEW c \in Ctx, CreateDataContext(c) PROVE AtWork'
  <2>1. /\ cur[c] = None /\ cur' = [cur EXCEPT ![c] = nstrm + 1]
        /\ UNCHANGED <<txq, epRank, pq>>
    BY <1>1 DEF CreateDataContext
  <2>2. pq.pc # "idle" => cur[pq.ctx] # None
    BY <1>p, <1>w, CtxAssumption DEF AtWork
  <2>3. pq.pc # "idle" => cur'[pq.ctx] = cur[pq.ctx]
    BY <1>t, <1>p, <2>1, <2>2 DEF TypeOK
  <2> QED BY <1>s, <2>1, <2>3 DEF Waiting
<1>2. ASSUME NEW c \in Ctx, NEW r \in Rank, NEW how \in {"fin", "reset"}, EnqueueHeader(c, r, how)
      PROVE  AtWork'
  <2>1. UNCHANGED <<pq, cur>>
    BY <1>2 DEF EnqueueHeader, Enqueue
  <2>2. CASE pq.pc # "idle" /\ c = pq.ctx
    <3>1. Fronted(Waiting(c)')
      BY <1>2, <1>p, <2>2, HeaderWire
    <3> QED BY <1>f, <2>1, <2>2, <3>1 DEF Waiting
  <2>3. CASE pq.pc # "idle" => c # pq.ctx
    <3>1. pq.pc # "idle" => txq'[pq.ctx] = txq[pq.ctx] /\ epRank'[pq.ctx] = epRank[pq.ctx]
      BY <1>2, <1>t, <1>p, <2>3 DEF EnqueueHeader, Enqueue, TypeOK
    <3> QED BY <1>f, <2>1, <3>1 DEF Waiting
  <2> QED BY <2>2, <2>3
<1>3. ASSUME NEW c \in Ctx, NEW r \in Rank, NEW l \in 1..ObjLen, EnqueueObject(c, r, l)
      PROVE  AtWork'
  <2>1. UNCHANGED <<pq, cur>>
    BY <1>3 DEF EnqueueObject, Enqueue
  <2>2. CASE pq.pc # "idle" /\ c = pq.ctx
    <3>1. Fronted(Waiting(c)) => Fronted(Waiting(c)')
      BY <1>3, <1>p, <2>2, ObjectWire
    <3> QED BY <1>f, <2>1, <2>2, <3>1 DEF Waiting
  <2>3. CASE pq.pc # "idle" => c # pq.ctx
    <3>1. pq.pc # "idle" => txq'[pq.ctx] = txq[pq.ctx] /\ epRank'[pq.ctx] = epRank[pq.ctx]
      BY <1>3, <1>t, <1>p, <2>3 DEF EnqueueObject, Enqueue, TypeOK
    <3> QED BY <1>f, <2>1, <3>1 DEF Waiting
  <2> QED BY <2>2, <2>3
<1>4. ASSUME NEW c \in Ctx, NEW r \in Rank, NEW i \in 1..Len(txq[c][r]), Expire(c, r, i)
      PROVE  AtWork'
  <2>1. UNCHANGED <<pq, cur, epRank>>
    BY <1>4 DEF Expire, pubVars
  <2>2. CASE pq.pc # "idle" /\ c = pq.ctx
    <3>1. Fronted(Waiting(c)) => Fronted(Waiting(c)')
      BY <1>4, <1>p, <2>2, ExpireWire
    <3> QED BY <1>f, <2>1, <2>2, <3>1 DEF Waiting
  <2>3. CASE pq.pc # "idle" => c # pq.ctx
    <3>1. pq.pc # "idle" => txq'[pq.ctx] = txq[pq.ctx]
      BY <1>4, <1>t, <1>p, <2>3 DEF Expire, TypeOK
    <3> QED BY <1>f, <2>1, <3>1 DEF Waiting
  <2> QED BY <2>2, <2>3
<1>5. CASE UNCHANGED <<pq, cur, txq, epRank>>
  BY <1>5, <1>s DEF Waiting
<1>6. CASE pq.pc = "idle" /\ pq' = pq
  BY <1>6, <1>m
<1>7. CASE pq' = Idle
  BY <1>7, <1>m DEF Idle
<1>8. ASSUME DiscardStep \/ PopObject \/ DecideStill, pq' # Idle PROVE AtWork'
  <2>1. pq.pc # "idle" /\ cur' = cur
    BY <1>8 DEF DiscardStep, PopObject, DecideStill, ctxVars
  <2>2. /\ pq'.ctx = pq.ctx /\ pq'.s = pq.s /\ pq'.pc # "discard"
    BY <1>8, <1>q DEF DiscardStep, PopObject, DecideStill
  <2> QED BY <1>m, <2>1, <2>2
<1>9. ASSUME NEW x \in Stream, PrepareToSend(x) PROVE AtWork'
  <2>1. CASE strm[x].ctx = None
    BY <1>9, <1>6, <2>1 DEF PrepareToSend
  <2>2. CASE strm[x].ctx # None
    <3>1. PICK c \in Ctx : c = strm[x].ctx
      BY <1>t, <2>2 DEF TypeOK
    <3>2. cur[c] = x /\ Own(c) /\ Now(c) /\ cur' = cur
      BY <1>9, <2>2, <3>1 DEF PrepareToSend, IInv, LinkedAlive, WireInv
    <3>3. ~ProvideBytes
      BY <1>9 DEF PrepareToSend, ProvideBytes
    <3>4. \A s \in Stream : strm'[s].data = strm[s].data
      BY <3>3, DataSame
    <3>5. /\ pq'.ctx = c /\ pq'.s = x
          /\ pq'.pc = "discard" /\ pq'.act # "none" => Fronted(Waiting(c)')
      BY <1>9, <3>1, <3>2, <3>4, PrepareWire
    <3> QED BY <3>2, <3>5 DEF AtWork, Waiting
  <2> QED BY <2>1, <2>2
<1> QED
  BY <1>1, <1>2, <1>3, <1>4, <1>5, <1>6, <1>7, <1>8, <1>9
     DEF Next, App, Runner, Callback, Environment, vars, ctxVars, pubVars, DeleteDataContext, Close,
         RunMark, RunDelete, CheckConnsForCongestion, PeerClosed, PopNothing, Return, PopReplace,
         ProvideBytes

\* Every step keeps the streams well written.
LEMMA WrittenStep ==
    ASSUME IInv, WireInv, [Next]_vars
    PROVE  Written'
<1>1. CASE ~ProvideBytes
  BY <1>1, DataSame DEF Written, WireInv
<1>2. CASE ProvideBytes
  <2>1. pq.pc # "idle" /\ pq.ctx \in Ctx /\ pq.s \in Stream
    BY <1>2, BoundAssumption DEF ProvideBytes, IInv, CallbackInv, TypeOK, Stream
  <2>2. /\ cur[pq.ctx] = pq.s /\ Own(pq.ctx) /\ Now(pq.ctx)
        /\ PureData(strm[pq.s].data) /\ WholeData(strm[pq.s].data)
    BY <2>1 DEF WireInv, AtWork, Written
  <2>3. /\ PureData(strm'[pq.s].data) /\ WholeData(strm'[pq.s].data)
        /\ \A x \in Stream : x # pq.s => strm'[x].data = strm[x].data
    BY <1>2, <2>1, <2>2, ProvideWire
  <2> QED BY <2>3 DEF Written, WireInv
<1> QED BY <1>1, <1>2

LEMMA InitWire ==
    Init => WireInv
<1> SUFFICES ASSUME Init PROVE WireInv
  OBVIOUS
<1>1. Written
  <2>1. \A s \in Stream : Len(strm[s].data) = 0
    BY DEF Init, FreeStream
  <2> QED BY <2>1 DEF Written, PureData, WholeData
<1>2. Apart /\ AtWork
  BY DEF Init, Apart, AtWork, Idle
<1>3. ASSUME NEW c \in Ctx PROVE Own(c) /\ Now(c)
  <2>1. /\ txq[c] = NoQueue /\ epRank[c] = None /\ epoch[c] = 0 /\ txobj[c] = None
        /\ ~live[c] /\ cur[c] = None /\ nobj = 0
    BY DEF Init
  <2>2. Single(txq[c], epRank[c]) /\ Waiting(c) = <<>>
    BY <2>1, NoQueueSingle DEF Waiting
  <2>3. Len(Waiting(c)) = 0
    BY <2>2
  <2>4. OwnOK(c, Waiting(c), 0, None, 0)
    BY <2>3 DEF OwnOK, Elems
  <2> QED BY <2>1, <2>2, <2>4 DEF Own, Now
<1> QED BY <1>1, <1>2, <1>3 DEF WireInv

\* When the objects of an epoch share a rank, a stream carries whole objects
\* in the order they were enqueued, all of the epoch whose header opened it:
\* Enqueue, PopFront, StreamActionCheck and SendStreamBytes together, with
\* every interleaving of the threads, expiry, discard mode and any bounds.
THEOREM OneStreamCorrect ==
    ASSUME ~MixedRanks
    PROVE  Spec => []OnOneStream
<1>1. IInv /\ WireInv /\ [Next]_vars => WireInv'
  <2> SUFFICES ASSUME IInv, WireInv, [Next]_vars PROVE WireInv'
    OBVIOUS
  <2>1. Written' /\ Apart' /\ AtWork'
    BY WrittenStep, ApartStep, WorkStep DEF WireInv
  <2>2. \A c \in Ctx : Own(c)' /\ Now(c)'
    BY CtxStep
  <2> QED BY <2>1, <2>2 DEF WireInv
<1>2. IInv /\ WireInv => OnOneStream
  <2> SUFFICES ASSUME IInv, WireInv PROVE OnOneStream
    OBVIOUS
  <2>1. EpochPure
    BY DEF WireInv, Written, PureData, EpochPure
  <2>2. WholeInOrder
    BY DEF WireInv, Written, WholeData, Follows, WholeInOrder
  <2> QED BY <2>1, <2>2 DEF OnOneStream
<1> QED BY <1>1, <1>2, InitWire, Invariance, PTL DEF Spec

=============================================================================
