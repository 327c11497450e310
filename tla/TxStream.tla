------------------------------ MODULE TxStream ------------------------------
(***************************************************************************)
(* The transmit side of PicoQuicTransport (src/transport_picoquic.cpp):    *)
(* application threads enqueue objects on data contexts, the picoquic      *)
(* thread runs the posted functions (PqRunner) and is called back by       *)
(* picoquic to write bytes on the streams it believes to be active         *)
(* (SendStreamBytes).                                                      *)
(*                                                                         *)
(* An object is abstracted to its identity, the epoch it belongs to, its   *)
(* length in chunks (a chunk is what one callback can take) and the stream *)
(* action it carries.  An epoch is what one stream header opens: a         *)
(* subgroup of a track, or a fetch response.  Every caller in src/ that    *)
(* asks for a new stream also clears the queue and enqueues the header     *)
(* first, so header and objects of an epoch arrive in this order.          *)
(***************************************************************************)
EXTENDS Naturals, Sequences, FiniteSets

CONSTANTS
    Ctx,          \* data context ids of one connection
    BiDir,        \* the ones on a bidirectional stream (the control stream)
    None,         \* nullopt / nullptr
    Rank,         \* (priority, group id) pairs, in the order they are served
    MixedRanks,   \* may the objects of one epoch differ in rank?
    ObjLen,       \* an object takes 1..ObjLen callbacks to be written
    RunnerLimit,  \* callback_queue_size, the limit of picoquic_runner_queue_
    UseResetWait, \* use_reset_wait_strategy
    MaxObj,       \* bound: objects enqueued
    MaxStream     \* bound: streams created

ASSUME RankAssumption == Rank \subseteq Nat /\ Rank # {}
ASSUME BoundAssumption ==
    /\ ObjLen \in Nat \ {0} /\ RunnerLimit \in Nat \ {0}
    /\ MaxObj \in Nat /\ MaxStream \in Nat
    /\ MixedRanks \in BOOLEAN /\ UseResetWait \in BOOLEAN

VARIABLES
    open,       \* conn_context_ holds the connection
    live,       \* live[c]: c is in active_data_contexts
    cur,        \* current_stream_id
    mark,       \* mark_stream_active
    discard,    \* tx_reset_wait_discard
    doe,        \* delete_on_empty
    txq,        \* tx_data, as a sequence of objects per rank
    txobj,      \* stream_tx_object
    off,        \* stream_tx_object_offset, in chunks
    runner,     \* picoquic_runner_queue_
    slid,       \* has the runner queue dropped a function at its limit?
    strm,       \* picoquic's streams (external)
    nstrm,      \* number of streams created
    pq,         \* where the picoquic thread is inside SendStreamBytes
    congested,  \* is_congested
    epoch,      \* epoch of the last header enqueued on a context
    epRank,     \* rank of the last object enqueued in that epoch
    nobj        \* objects enqueued so far

ctxVars == <<live, cur, mark, discard, doe, txq, txobj, off>>
pubVars == <<epoch, epRank, nobj>>
vars == <<open, ctxVars, runner, slid, strm, nstrm, pq, congested, pubVars>>

Stream == 1..MaxStream
Action == {"none", "fin", "reset"}
Object == [id : 1..MaxObj, ep : Nat, act : Action, len : 1..ObjLen,
           exp : BOOLEAN]
\* A chunk on the wire; disc records that it was taken in discard mode.
Chunk == [id : 1..MaxObj, ep : Nat, part : 1..ObjLen, last : BOOLEAN,
          hdr : BOOLEAN, disc : BOOLEAN]
Function == [fn : {"mark", "delete"}, ctx : Ctx, doe : BOOLEAN]
PcSet == {"idle", "discard", "pop", "write", "provide"}

ASSUME CtxAssumption == BiDir \subseteq Ctx /\ None \notin Ctx \cup Nat \cup Object

MarkFn(c) == [fn |-> "mark", ctx |-> c, doe |-> FALSE]
DeleteFn(c, d) == [fn |-> "delete", ctx |-> c, doe |-> d]

NoQueue == [r \in Rank |-> <<>>]
FreeStream == [st |-> "free", ctx |-> None, active |-> FALSE, data |-> <<>>]
Idle == [pc |-> "idle", ctx |-> None, s |-> 0, act |-> "none", still |-> FALSE]

-----------------------------------------------------------------------------
(* The transmit queue: PriorityQueue over one TimeQueue per rank. *)

Empty(q) == q = NoQueue

\* Positions of the objects of rank r that have not expired.
LiveAt(q, r) == {i \in 1..Len(q[r]) : ~q[r][i].exp}
HitRanks(q) == {r \in Rank : LiveAt(q, r) # {}}
Least(S) == CHOOSE x \in S : \A y \in S : x <= y

\* What Front() and PopFront() look at: the first rank with a live object,
\* after dropping the ranks in front of it.  A rank whose first object has
\* expired is dropped whole.  expired tells that objects were skipped in the
\* rank visited last.
Look(q) ==
    IF HitRanks(q) # {}
    THEN LET r == Least(HitRanks(q))
             i == Least(LiveAt(q, r))
         IN  [obj |-> q[r][i], expired |-> i > 1,
              front |-> [x \in Rank |-> IF x < r \/ (x = r /\ i > 1)
                                        THEN <<>> ELSE q[x]],
              pop   |-> [x \in Rank |-> IF x < r \/ (x = r /\ i > 1)
                                        THEN <<>>
                                        ELSE IF x = r THEN Tail(q[x])
                                        ELSE q[x]]]
    ELSE [obj |-> None, expired |-> ~Empty(q), front |-> NoQueue, pop |-> NoQueue]

\* Pop() takes the first object of the first rank, expired or not.
PopAny(q) ==
    IF Empty(q) THEN q
    ELSE LET r == Least({x \in Rank : q[x] # <<>>})
         IN  [q EXCEPT ![r] = Tail(q[r])]

-----------------------------------------------------------------------------
(* Helpers shared by the operations. *)

\* SafeQueue::Push: at the limit the oldest element makes room.
Full == runner # <<>> /\ Len(runner) >= RunnerLimit
RunPqFunction(f) ==
    /\ runner' = Append(IF Full THEN Tail(runner) ELSE runner, f)
    /\ slid' = (slid \/ Full)

\* Mutant: CloseStream forgets to unlink the context.
ClosedKeepsLink(st, s, how) ==
    IF s = None THEN st ELSE [st EXCEPT ![s] = [@ EXCEPT !.st = how]]

\* CloseStream: unlink the context; FIN or RESET the current stream.
Closed(st, s, how) ==
    IF s = None THEN st
    ELSE [st EXCEPT ![s] = [@ EXCEPT !.st = how, !.ctx = None]]
\* CreateStream: the next local stream id, linked to the context at once.
Opened(st, s, c) == [st EXCEPT ![s] = [FreeStream EXCEPT !.st = "open", !.ctx = c]]

\* Mutant: only a reset replaces the stream.
ReplacesOnReset(o) == o.act = "reset"

\* StreamActionCheck: does the object ask for a new stream?
Replaces(o) == o.act # "none"

\* Mutant: MarkStreamActive leaves mark_stream_active set.
MarkStreamActiveKeepsFlag(c) ==
    /\ UNCHANGED mark
    /\ strm' = IF live[c] /\ cur[c] # None
               THEN [strm EXCEPT ![cur[c]] = [@ EXCEPT !.active = TRUE, !.ctx = c]]
               ELSE strm

\* MarkStreamActive: nothing for a context that is gone.
MarkStreamActive(c) ==
    IF live[c]
    THEN /\ mark' = [mark EXCEPT ![c] = FALSE]
         /\ strm' = IF cur[c] = None THEN strm
                    ELSE [strm EXCEPT ![cur[c]] = [@ EXCEPT !.active = TRUE, !.ctx = c]]
    ELSE UNCHANGED <<mark, strm>>

\* DeleteDataContextInternal(c, FALSE), q being what is left in tx_data.
Erase(c, st) ==
    /\ strm' = Closed(st, cur[c], "fin")
    /\ live' = [live EXCEPT ![c] = FALSE]
    /\ cur' = [cur EXCEPT ![c] = None]
    /\ txobj' = [txobj EXCEPT ![c] = None]
    /\ off' = [off EXCEPT ![c] = 0]

-----------------------------------------------------------------------------
(* Application threads. *)

CreateDataContext(c) ==
    /\ open /\ ~live[c] /\ cur[c] = None /\ epoch[c] = 0 /\ nstrm < MaxStream
    /\ nstrm' = nstrm + 1
    /\ live' = [live EXCEPT ![c] = TRUE]
    /\ cur' = [cur EXCEPT ![c] = nstrm + 1]
    /\ mark' = [mark EXCEPT ![c] = TRUE]
    /\ strm' = Opened(strm, nstrm + 1, c)
    /\ RunPqFunction(MarkFn(c))
    /\ epoch' = [epoch EXCEPT ![c] = 1]
    /\ UNCHANGED <<open, discard, doe, txq, txobj, off, pq, congested, epRank, nobj>>

\* Enqueue(): the caller holds state_mutex_ throughout.  A header asks for a
\* new stream and clears the queue; an object does neither.
Enqueue(c, q, r, o) ==
    /\ open /\ live[c] /\ nobj < MaxObj
    /\ nobj' = nobj + 1
    /\ txq' = [txq EXCEPT ![c] = [q EXCEPT ![r] = Append(q[r], o)]]
    /\ mark' = [mark EXCEPT ![c] = TRUE]
    /\ IF mark[c] THEN UNCHANGED <<runner, slid>> ELSE RunPqFunction(MarkFn(c))
    /\ UNCHANGED <<open, live, cur, discard, doe, txobj, off, strm, nstrm, pq, congested>>

EnqueueHeader(c, r, how) ==
    /\ c \notin BiDir
    /\ Enqueue(c, NoQueue, r, [id |-> nobj + 1, ep |-> epoch[c] + 1, act |-> how,
                               len |-> 1, exp |-> FALSE])
    /\ epoch' = [epoch EXCEPT ![c] = @ + 1]
    /\ epRank' = [epRank EXCEPT ![c] = r]

EnqueueObject(c, r, n) ==
    /\ c \in BiDir \/ epoch[c] > 1
    /\ MixedRanks \/ epRank[c] \in {None, r}
    /\ Enqueue(c, txq[c], r, [id |-> nobj + 1, ep |-> epoch[c], act |-> "none",
                              len |-> n, exp |-> FALSE])
    /\ epRank' = [epRank EXCEPT ![c] = r]
    /\ UNCHANGED epoch

\* Mutant: the context is deleted on the thread of the caller.
DeleteDataContextNow(c, d) ==
    /\ live[c] /\ Erase(c, strm)
    /\ UNCHANGED <<open, mark, discard, doe, txq, runner, slid, nstrm, pq, congested, pubVars>>

\* Each caller in src/ deletes a context once.
DeleteDataContext(c, d) ==
    /\ live[c] /\ ~doe[c]
    /\ \A i \in 1..Len(runner) : runner[i].fn = "delete" => runner[i].ctx # c
    /\ RunPqFunction(DeleteFn(c, d))
    /\ UNCHANGED <<open, ctxVars, strm, nstrm, pq, congested, pubVars>>

\* Close() erases the connection context with all its data contexts.  The
\* picoquic thread calls it between callbacks, the notifier thread
\* (CloseConnection) and the application at any time: a callback in progress
\* then goes on with what was the context.
Close ==
    /\ open
    /\ open' = FALSE
    /\ live' = [c \in Ctx |-> FALSE]
    /\ UNCHANGED <<cur, mark, discard, doe, txq, txobj, off, runner, slid, strm,
                   nstrm, pq, congested, pubVars>>

-----------------------------------------------------------------------------
(* The picoquic thread between two callbacks. *)

\* PqRunner takes one function.
RunMark ==
    /\ pq.pc = "idle" /\ runner # <<>> /\ Head(runner).fn = "mark"
    /\ runner' = Tail(runner)
    /\ MarkStreamActive(Head(runner).ctx)
    /\ UNCHANGED <<open, live, cur, discard, doe, txq, txobj, off, slid, nstrm, pq,
                   congested, pubVars>>

RunDelete ==
    /\ pq.pc = "idle" /\ runner # <<>> /\ Head(runner).fn = "delete"
    /\ runner' = Tail(runner)
    /\ LET c == Head(runner).ctx IN
         IF ~live[c]
         THEN UNCHANGED <<live, cur, txobj, off, strm, doe>>
         ELSE IF Head(runner).doe /\ ~Empty(txq[c])
         THEN doe' = [doe EXCEPT ![c] = TRUE] /\ UNCHANGED <<live, cur, txobj, off, strm>>
         ELSE Erase(c, strm) /\ UNCHANGED doe
    /\ UNCHANGED <<open, mark, discard, txq, slid, nstrm, pq, congested, pubVars>>

\* CheckConnsForCongestion: a congested connection may put one of its
\* contexts in discard mode (use_reset_wait_strategy); it is declared
\* uncongested after a run of good checks.
CheckConnsForCongestion ==
    /\ open /\ pq.pc = "idle"
    /\ \/ /\ congested' = TRUE
          /\ discard' \in {discard} \cup
                {[discard EXCEPT ![c] = TRUE] :
                    c \in {x \in Ctx \ BiDir : UseResetWait /\ live[x]}}
       \/ congested /\ congested' = FALSE /\ UNCHANGED discard
    /\ UNCHANGED <<open, live, cur, mark, doe, txq, txobj, off, runner, slid, strm,
                   nstrm, pq, pubVars>>

\* The peer ends its side of a bidirectional stream (FIN or RESET).
PeerClosed(c) ==
    /\ open /\ pq.pc = "idle" /\ c \in BiDir /\ live[c] /\ cur[c] # None
    /\ strm' = [strm EXCEPT ![cur[c]] = [@ EXCEPT !.ctx = None]]
    /\ cur' = [cur EXCEPT ![c] = None]
    /\ UNCHANGED <<open, live, mark, discard, doe, txq, txobj, off, runner, slid,
                   nstrm, pq, congested, pubVars>>

Aged(q, r, i) == [q EXCEPT ![r] = [q[r] EXCEPT ![i] = [q[r][i] EXCEPT !.exp = TRUE]]]

\* Time passes: some queued object outlives its ttl.
Expire(c, r, i) ==
    /\ live[c] /\ i \in 1..Len(txq[c][r]) /\ ~txq[c][r][i].exp
    /\ txq' = [txq EXCEPT ![c] = Aged(@, r, i)]
    /\ UNCHANGED <<open, live, cur, mark, discard, doe, txobj, off, runner, slid, strm,
                   nstrm, pq, congested, pubVars>>

-----------------------------------------------------------------------------
(* The picoquic thread inside picoquic_callback_prepare_to_send.  Only parts *)
(* of SendStreamBytes hold state_mutex_, so Enqueue interleaves.  A stream   *)
(* stays active only if the callback says so (external).                     *)

PrepareToSend(s) ==
    /\ open /\ pq.pc = "idle" /\ s <= nstrm /\ strm[s].active
    /\ strm' = [strm EXCEPT ![s] = [@ EXCEPT !.active = FALSE]]
    /\ LET c == strm[s].ctx
           f == Look(txq[c])
           at(p, a) == [pc |-> p, ctx |-> c, s |-> s, act |-> a, still |-> FALSE]
       IN  IF c = None THEN UNCHANGED <<pq, txq>>
           ELSE IF ~discard[c] THEN pq' = at("pop", "none") /\ UNCHANGED txq
           ELSE /\ pq' = at("discard", IF f.obj = None THEN "none" ELSE f.obj.act)
                /\ txq' = [txq EXCEPT ![c] = f.front]
    /\ UNCHANGED <<open, live, cur, mark, discard, doe, txobj, off, runner, slid, nstrm,
                   congested, pubVars>>

\* tx_reset_wait_discard is set: look at the action of the object in front.
DiscardStep ==
    /\ pq.pc = "discard"
    /\ LET c == pq.ctx
           replaces == pq.act # "none"
       IN  IF replaces /\ congested
           THEN /\ txq' = [txq EXCEPT ![c] = PopAny(@)]
                /\ IF Empty(PopAny(txq[c])) THEN UNCHANGED <<runner, slid>>
                   ELSE RunPqFunction(MarkFn(c))
                /\ pq' = Idle
                /\ UNCHANGED <<mark, discard, txobj, off>>
           ELSE /\ mark' = [mark EXCEPT ![c] = FALSE]
                /\ discard' = [discard EXCEPT ![c] = ~replaces]
                /\ txobj' = [txobj EXCEPT ![c] = IF replaces THEN None ELSE @]
                /\ off' = [off EXCEPT ![c] = IF replaces THEN 0 ELSE @]
                /\ pq' = [pq EXCEPT !.pc = "pop"]
                /\ UNCHANGED <<txq, runner, slid>>
    /\ UNCHANGED <<open, live, cur, doe, strm, nstrm, congested, pubVars>>

\* Leaving the callback: the deferred check of delete_on_empty.
Return(c, q, st) ==
    /\ pq' = Idle
    /\ IF Empty(q) /\ doe[c] THEN Erase(c, st)
       ELSE strm' = st /\ UNCHANGED <<live, cur, txobj, off>>

\* Nothing is being sent: PopFront found expired objects (no answer to
\* picoquic), or nothing (an Enqueue between PopFront and the answer posts a
\* wake-up of its own, so that one step stands for both).
PopNothing ==
    /\ pq.pc = "pop" /\ txobj[pq.ctx] = None
    /\ LET c == pq.ctx
           f == Look(txq[c])
       IN  /\ f.obj = None \/ f.expired
           /\ txq' = [txq EXCEPT ![c] = f.pop]
           /\ discard' = [discard EXCEPT ![c] = @ \/ f.expired]
           /\ Return(c, f.pop, strm)
    /\ UNCHANGED <<open, mark, doe, runner, slid, nstrm, congested, pubVars>>

\* PopFront found an object that replaces the stream (StreamActionCheck):
\* it waits in stream_tx_object for the callback of the new stream.
PopReplace ==
    /\ pq.pc = "pop" /\ txobj[pq.ctx] = None /\ nstrm < MaxStream
    /\ LET c == pq.ctx
           f == Look(txq[c])
           how == f.obj.act
           st == Opened(Closed(strm, cur[c], how), nstrm + 1, c)
       IN  /\ f.obj # None /\ ~f.expired /\ Replaces(f.obj)
           /\ txq' = [txq EXCEPT ![c] = f.pop]
           /\ nstrm' = nstrm + 1
           /\ discard' = [discard EXCEPT ![c] = FALSE]
           /\ mark' = [mark EXCEPT ![c] = FALSE]
           /\ RunPqFunction(MarkFn(c))
           /\ pq' = Idle
           /\ IF Empty(f.pop) /\ doe[c]
              THEN /\ strm' = Closed(st, nstrm + 1, "fin")
                   /\ live' = [live EXCEPT ![c] = FALSE]
                   /\ cur' = [cur EXCEPT ![c] = None]
                   /\ UNCHANGED <<txobj, off>>
              ELSE /\ strm' = st
                   /\ cur' = [cur EXCEPT ![c] = nstrm + 1]
                   /\ txobj' = [txobj EXCEPT ![c] = f.obj]
                   /\ off' = [off EXCEPT ![c] = 0]
                   /\ UNCHANGED live
    /\ UNCHANGED <<open, doe, congested, pubVars>>

\* PopFront found an object for the current stream, or one is under way.
PopObject ==
    /\ pq.pc = "pop"
    /\ LET c == pq.ctx
           f == Look(txq[c])
       IN  IF txobj[c] # None THEN UNCHANGED <<txq, txobj, off>>
           ELSE /\ f.obj # None /\ ~f.expired /\ ~Replaces(f.obj)
                /\ txq' = [txq EXCEPT ![c] = f.pop]
                /\ txobj' = [txobj EXCEPT ![c] = f.obj]
                /\ off' = [off EXCEPT ![c] = 0]
    /\ pq' = [pq EXCEPT !.pc = "write"]
    /\ UNCHANGED <<open, live, cur, mark, discard, doe, runner, slid, strm, nstrm,
                   congested, pubVars>>

\* Mutant: the answer ignores the queue.
MoreOfObject(c) == off[c] + 1 < txobj[c].len
\* is_still_active: bytes of this object, or objects, are left.
More(c) == off[c] + 1 < txobj[c].len \/ ~Empty(txq[c])
\* This write ends the object.
Done(c) == off[c] + 1 = txobj[c].len

\* Decide whether there is more to send...
DecideStill ==
    /\ pq.pc = "write"
    /\ pq' = [pq EXCEPT !.pc = "provide", !.still = More(pq.ctx)]
    /\ UNCHANGED <<open, ctxVars, runner, slid, strm, nstrm, congested, pubVars>>

\* ... and hand the bytes and that answer to picoquic, which has a buffer for
\* any length up to the one it called back with (external).
ProvideBytes ==
    /\ pq.pc = "provide"
    /\ LET c == pq.ctx
           o == txobj[c]
           chunk == [id |-> o.id, ep |-> o.ep, part |-> off[c] + 1,
                     last |-> off[c] + 1 = o.len, hdr |-> o.act # "none",
                     disc |-> discard[c]]
           st == [strm EXCEPT ![pq.s] = [@ EXCEPT !.active = pq.still,
                                    !.data = Append(strm[pq.s].data, chunk)]]
       IN  /\ pq' = Idle
           /\ IF Empty(txq[c]) /\ doe[c] THEN Erase(c, st)
              ELSE /\ strm' = st
                   /\ txobj' = [txobj EXCEPT ![c] = IF Done(c) THEN None ELSE @]
                   /\ off' = [off EXCEPT ![c] = IF Done(c) THEN 0 ELSE @ + 1]
                   /\ UNCHANGED <<live, cur>>
    /\ UNCHANGED <<open, mark, discard, doe, txq, runner, slid, nstrm, congested, pubVars>>

-----------------------------------------------------------------------------
Init ==
    /\ open = TRUE /\ runner = <<>> /\ slid = FALSE /\ pq = Idle
    /\ live = [c \in Ctx |-> FALSE] /\ cur = [c \in Ctx |-> None]
    /\ mark = [c \in Ctx |-> FALSE] /\ discard = [c \in Ctx |-> FALSE]
    /\ doe = [c \in Ctx |-> FALSE] /\ txq = [c \in Ctx |-> NoQueue]
    /\ txobj = [c \in Ctx |-> None] /\ off = [c \in Ctx |-> 0]
    /\ strm = [s \in Stream |-> FreeStream] /\ nstrm = 0
    /\ congested = FALSE /\ nobj = 0
    /\ epoch = [c \in Ctx |-> 0] /\ epRank = [c \in Ctx |-> None]

App == \E c \in Ctx :
    \/ CreateDataContext(c)
    \/ \E r \in Rank : \E how \in {"fin", "reset"} : EnqueueHeader(c, r, how)
    \/ \E r \in Rank, n \in 1..ObjLen : EnqueueObject(c, r, n)
    \/ \E d \in BOOLEAN : DeleteDataContext(c, d)

Runner == RunMark \/ RunDelete

Callback ==
    \/ \E s \in Stream : PrepareToSend(s)
    \/ DiscardStep \/ PopNothing \/ PopReplace \/ PopObject \/ DecideStill \/ ProvideBytes

Environment ==
    \/ Close \/ CheckConnsForCongestion
    \/ \E c \in Ctx : PeerClosed(c)
    \/ \E c \in Ctx, r \in Rank : \E i \in 1..Len(txq[c][r]) : Expire(c, r, i)

Next == App \/ Runner \/ Callback \/ Environment

Spec == Init /\ [][Next]_vars

\* The picoquic thread is woken for every posted function and calls back
\* for every active stream.
Fairness == WF_vars(Runner) /\ WF_vars(Callback)
FairSpec == Spec /\ Fairness

-----------------------------------------------------------------------------
(* Properties. *)

\* Types; in particular an object under way never counts past its length
\* (stream_tx_object_offset) and no stream beyond the created ones is named.
TypeOK ==
    /\ open \in BOOLEAN /\ slid \in BOOLEAN /\ congested \in BOOLEAN
    /\ live \in [Ctx -> BOOLEAN] /\ mark \in [Ctx -> BOOLEAN]
    /\ discard \in [Ctx -> BOOLEAN] /\ doe \in [Ctx -> BOOLEAN]
    /\ cur \in [Ctx -> Stream \cup {None}]
    /\ txq \in [Ctx -> [Rank -> Seq(Object)]]
    /\ txobj \in [Ctx -> Object \cup {None}] /\ off \in [Ctx -> 0..ObjLen]
    /\ runner \in Seq(Function)
    /\ strm \in [Stream -> [st : {"free", "open", "fin", "reset"}, ctx : Ctx \cup {None},
                           active : BOOLEAN, data : Seq(Chunk)]]
    /\ nstrm \in 0..MaxStream /\ nobj \in 0..MaxObj
    /\ pq \in [pc : PcSet, ctx : Ctx \cup {None}, s : 0..MaxStream, act : Action,
              still : BOOLEAN]
    /\ epoch \in [Ctx -> Nat] /\ epRank \in [Ctx -> Rank \cup {None}]

Posted(c) == \E i \in 1..Len(runner) : runner[i] = MarkFn(c)

\* mark_stream_active suppresses further posts, so while it is set the post
\* it stands for must still be queued (Enqueue, MarkStreamActive); only a
\* runner queue that slid at its limit can break the promise.
MarkFlagHonest == \A c \in Ctx : live[c] /\ mark[c] => Posted(c) \/ slid

\* No lost wake-up: a context with bytes to send that the picoquic thread is
\* not working on has an active stream or a wake-up on its way.  The stall
\* left by an expired object (SendStreamBytes returns without answering
\* picoquic) is in discard mode with the flag down, so that the next
\* Enqueue posts again.
WakeupPending ==
    \A c \in Ctx :
        live[c] /\ cur[c] # None /\ pq.ctx # c /\ (~Empty(txq[c]) \/ txobj[c] # None)
          => strm[cur[c]].active \/ Posted(c) \/ slid \/ (discard[c] /\ ~mark[c])

\* The pointer picoquic keeps for a stream is to a context that exists and
\* whose current stream it is (DeleteDataContext runs on the picoquic
\* thread, CloseStream unlinks).
LinkedAlive ==
    open => \A s \in Stream : strm[s].ctx # None =>
                /\ live[strm[s].ctx] /\ cur[strm[s].ctx] = s /\ strm[s].st = "open"

\* The links and the callback in progress, as the proofs need them: a
\* context is linked exactly to its current stream, and the picoquic thread
\* is called back on the current stream of the context it works on.
LinkInv ==
    /\ \A s \in Stream : s > nstrm => strm[s] = FreeStream
    /\ \A c \in Ctx : cur[c] # None => cur[c] <= nstrm
    /\ ~open => \A c \in Ctx : ~live[c]
    /\ open => \A c \in Ctx :
          /\ ~live[c] => cur[c] = None
          /\ cur[c] # None => /\ strm[cur[c]].ctx = c /\ strm[cur[c]].st = "open"

CallbackInv ==
    /\ pq.pc = "idle" <=> pq.ctx = None
    /\ pq.pc # "idle" => /\ pq.s \in 1..nstrm
                         /\ open => live[pq.ctx] /\ cur[pq.ctx] = pq.s
    /\ pq.pc = "discard" => discard[pq.ctx]
    /\ pq.pc \in {"write", "provide"} => txobj[pq.ctx] # None
    /\ pq.pc = "provide" /\ ~pq.still =>
          /\ off[pq.ctx] + 1 = txobj[pq.ctx].len
          /\ Empty(txq[pq.ctx]) \/ mark[pq.ctx]
    /\ \A c \in Ctx : txobj[c] # None => off[c] < txobj[c].len

IInv == TypeOK /\ MarkFlagHonest /\ LinkedAlive /\ LinkInv /\ CallbackInv /\ WakeupPending

\* Outside discard mode the bytes of an epoch only go on the stream its own
\* header opened.
EpochPure ==
    \A s \in Stream : \A i \in 1..Len(strm[s].data) :
        LET d == strm[s].data IN
        d[i].disc \/ (d[i].ep = d[1].ep /\ (d[1].hdr \/ d[1].ep = 1))

\* On a stream, an object is written completely, in order, before the next.
WholeInOrder ==
    \A s \in Stream : \A i \in 1..Len(strm[s].data) - 1 :
        LET d == strm[s].data IN
        IF d[i].last THEN d[i + 1].part = 1 /\ d[i + 1].id > d[i].id
        ELSE \/ d[i + 1].id = d[i].id /\ d[i + 1].part = d[i].part + 1
             \/ d[i + 1].disc /\ d[i + 1].part = 1

\* What a stream carries: whole objects, in order, all of the epoch its header began.
OnOneStream == EpochPure /\ WholeInOrder

\* The picoquic thread works on a data context that exists, whatever is
\* deleted meanwhile (DeleteDataContext, delete_on_empty), unless another
\* thread has closed the connection under it.
ContextAlive == pq.pc # "idle" => live[pq.ctx] \/ ~open

\* What is queued on a context with a stream is eventually taken: written,
\* expired or cleared, unless the context or its stream goes away, or it is
\* in discard mode.
Drains ==
    \A c \in Ctx :
        (live[c] /\ ~Empty(txq[c])) ~>
            (Empty(txq[c]) \/ ~live[c] \/ cur[c] = None \/ discard[c] \/ slid)

-----------------------------------------------------------------------------
(* What the documentation says and the code does not do, beyond what the    *)
(* runs show; the README describes the counterexamples.                     *)

\* "Drop TX objects till next reset/new stream": nothing is written in
\* discard mode.
DiscardDrops ==
    \A s \in Stream : \A i \in 1..Len(strm[s].data) : ~strm[s].data[i].disc

\* "closed by FIN (graceful)": a stream closed by FIN ends at an object
\* boundary.
FinWhole ==
    \A s \in Stream : LET d == strm[s].data IN
        strm[s].st = "fin" /\ d # <<>> => d[Len(d)].last

\* state_mutex_ "Used for stream/context/state updates": no thread closes the
\* connection the picoquic thread is working for.
NotClosedUnder == pq.pc # "idle" => open

\* "Data enqueued will be transmitted when available": no stall at all.
NeverStalls ==
    \A c \in Ctx :
        live[c] /\ cur[c] # None /\ pq.ctx # c /\ (~Empty(txq[c]) \/ txobj[c] # None)
          => strm[cur[c]].active \/ Posted(c)
=============================================================================
