------------------------------ MODULE RxStream ------------------------------
(***************************************************************************)
(* The receive side.  The picoquic thread (PqEventCb, OnRecvStreamBytes,   *)
(* OnRecvDatagram, RemoveClosedStreams in src/transport_picoquic.cpp)      *)
(* fills one SafeQueue per stream and posts notifications; the notifier    *)
(* thread (CbNotifier) runs them: Transport::OnRecvStream, OnRecvDgram and *)
(* OnStreamClosed in src/transport.cpp take the buffers out and hand them  *)
(* to the control message decoder or to the track handler.                 *)
(*                                                                         *)
(* A channel is a receive stream, or the datagram queue of the connection. *)
(* The buffers of a channel are numbered in the order they were received;  *)
(* their bytes matter in two ways only, both chosen when they are read:    *)
(* does a control buffer end inside a message, and is the track alias or   *)
(* request id in a stream header known.                                    *)
(***************************************************************************)
EXTENDS Naturals, Sequences, FiniteSets

CONSTANTS
    Sub,          \* unidirectional streams that start with a subgroup header
    Fetch,        \* unidirectional streams that start with a fetch header
    Ctrl,         \* bidirectional streams
    Dgram,        \* the datagram queue
    None,         \* no channel
    QueueLimit,   \* time_queue_rx_size
    NotifyLimit,  \* callback_queue_size, the limit of cbNotifyQueue_
    NotifyBelow,  \* the 10 of "data_queue.Size() < 10"
    LoopMax,      \* kReadLoopMaxPerStream
    MayClose,     \* may the connection be closed?
    MaxBuf        \* bound: buffers received on a channel

Uni == Sub \cup Fetch
Strm == Uni \cup Ctrl
Chan == Strm \cup Dgram

ASSUME ChanAssumption == None \notin Chan /\ Sub \cap Fetch = {}
                         /\ Uni \cap Ctrl = {} /\ Strm \cap Dgram = {}
ASSUME LimitAssumption ==
    /\ QueueLimit \in Nat \ {0} /\ NotifyLimit \in Nat \ {0}
    /\ NotifyBelow \in Nat \ {0} /\ LoopMax \in Nat /\ LoopMax >= 4
    /\ MayClose \in BOOLEAN /\ MaxBuf \in Nat

VARIABLES
    conn,       \* conn_context_ holds the connection: "open", "closed"; "crashed"
    present,    \* rx_stream_buffer holds the stream
    closed,     \* RxStreamBuffer::closed
    checked,    \* RxStreamBuffer::checked_once
    rxq,        \* StreamRxContext::data_queue, dgram_rx_data
    isNew,      \* StreamRxContext::is_new
    bound,      \* StreamRxContext::caller_any holds a value
    expiry,     \* StreamRxContext::unknown_expiry_tick_ms is not zero
    notify,     \* cbNotifyQueue_
    cb,         \* where the notifier thread is inside OnRecvStream, OnRecvDgram
    known,      \* the alias or request id of the channel is in the session's maps
    alive,      \* the weak pointer to the track handler can be locked
    ended,      \* the peer has ended the stream (external)
    nrecv,      \* buffers received so far
    delivered,  \* buffers handed over and taken out of the queue, in order
    refused,    \* the buffer whose hand-over an exception broke off, 0 if none
    done,       \* OnStreamClosed has been run for the stream
    seen,       \* a check of RemoveClosedStreams has seen the stream closed
    cause       \* why buffers of a channel may have been lost or left behind

bufVars == <<present, closed, checked, expiry, seen>>
subVars == <<known, alive>>
vars == <<conn, bufVars, rxq, isNew, bound, notify, cb, subVars, ended, nrecv,
          delivered, refused, done, cause>>

Cause == {"slide", "notify", "unknown", "removed", "dead", "threw"}
Note == [fn : {"recv", "closed"}, ch : Chan]
Idle == [pc |-> "idle", ch |-> None, i |-> 0, b |-> 0]

Recv(ch) == [fn |-> "recv", ch |-> ch]
ClosedNote(ch) == [fn |-> "closed", ch |-> ch]

Blame(f, ch, why) == [f EXCEPT ![ch] = @ \cup {why}]

-----------------------------------------------------------------------------
(* The picoquic thread. *)

\* SafeQueue::Push: at the limit the oldest element makes room.
Full(q, limit) == q # <<>> /\ Len(q) >= limit
Push(q, x, limit) == Append(IF Full(q, limit) THEN Tail(q) ELSE q, x)

\* The channel whose notification is dropped when cbNotifyQueue_ slides.
Dropped(f) == IF Full(notify, NotifyLimit) THEN Blame(f, Head(notify).ch, "notify")
              ELSE f

\* Mutants: a unidirectional stream is notified like a bidirectional one;
\* only the buffers of a new stream are notified.
NotifiesSparsely(ch, q) == Len(q) < NotifyBelow
NotifiesNewOnly(ch, q) == isNew[ch]

\* Is a notification posted for a buffer, q being the queue with it?
Notifies(ch, q) == ch \in Uni \/ Len(q) < NotifyBelow

\* OnRecvStreamBytes, OnRecvDatagram.  late: the unknown stream has outlived
\* its expiry.
OnRecvBytes(ch, late) ==
    LET q == Push(rxq[ch], nrecv[ch] + 1, QueueLimit) IN
    /\ conn = "open" /\ ~ended[ch] /\ nrecv[ch] < MaxBuf
    /\ late => expiry[ch]
    /\ present' = [present EXCEPT ![ch] = TRUE]
    /\ closed' = [closed EXCEPT ![ch] = @ \/ late]
    /\ IF late THEN UNCHANGED <<rxq, nrecv, notify, cause>>
       ELSE /\ rxq' = [rxq EXCEPT ![ch] = q]
            /\ nrecv' = [nrecv EXCEPT ![ch] = @ + 1]
            /\ LET slid == IF Full(rxq[ch], QueueLimit)
                           THEN Blame(cause, ch, "slide") ELSE cause
               IN  IF Notifies(ch, q)
                   THEN /\ notify' = Push(notify, Recv(ch), NotifyLimit)
                        /\ cause' = Dropped(slid)
                   ELSE UNCHANGED notify /\ cause' = slid
    /\ UNCHANGED <<conn, checked, expiry, seen, isNew, bound, cb, subVars, ended,
                   delivered, refused, done>>

\* Mutant: OnStreamClosed runs at once, ahead of the notifications.
StreamEndedNow(ch) ==
    /\ conn = "open" /\ ch \in Strm /\ ~ended[ch]
    /\ ended' = [ended EXCEPT ![ch] = TRUE]
    /\ closed' = [closed EXCEPT ![ch] = present[ch]]
    /\ done' = [done EXCEPT ![ch] = present[ch]]
    /\ UNCHANGED <<conn, present, checked, expiry, seen, rxq, isNew, bound, notify, cb,
                   subVars, nrecv, delivered, refused, cause>>

\* FIN (without data: the data of a FIN goes through OnRecvBytes first) or
\* RESET.
StreamEnded(ch) ==
    /\ conn = "open" /\ ch \in Strm /\ ~ended[ch]
    /\ ended' = [ended EXCEPT ![ch] = TRUE]
    /\ IF present[ch]
       THEN /\ closed' = [closed EXCEPT ![ch] = TRUE]
            /\ notify' = Push(notify, ClosedNote(ch), NotifyLimit)
            /\ cause' = Dropped(cause)
       ELSE UNCHANGED <<closed, notify, cause>>
    /\ UNCHANGED <<conn, present, checked, expiry, seen, rxq, isNew, bound, cb, subVars,
                   nrecv, delivered, refused, done>>

\* Mutant: unread data keeps a closed stream.
RemovableEmpty(ch) == present[ch] /\ closed[ch] /\ rxq[ch] = <<>>

\* RemoveClosedStreams: which streams go.
Removable(ch) == present[ch] /\ closed[ch] /\ (rxq[ch] = <<>> \/ checked[ch])

RemoveClosedStreams ==
    /\ conn = "open" /\ \E ch \in Strm : present[ch]
    /\ present' = [ch \in Chan |-> present[ch] /\ ~(ch \in Strm /\ Removable(ch))]
    /\ checked' = [ch \in Chan |-> checked[ch] \/ (ch \in Strm /\ present[ch])]
    /\ seen' = [ch \in Chan |-> seen[ch] \/ (present[ch] /\ closed[ch])]
    /\ UNCHANGED <<conn, closed, expiry, rxq, isNew, bound, notify, cb, subVars, ended,
                   nrecv, delivered, refused, done, cause>>

\* Close: the connection context goes with its stream buffers; pending
\* notifications stay.
Close ==
    /\ MayClose /\ conn = "open"
    /\ conn' = "closed"
    /\ present' = [ch \in Chan |-> FALSE]
    /\ UNCHANGED <<closed, checked, expiry, seen, rxq, isNew, bound, notify, cb, subVars,
                   ended, nrecv, delivered, refused, done, cause>>

-----------------------------------------------------------------------------
(* The session, on any thread: a subscription enters the maps when its      *)
(* received track alias is known (SUBSCRIBE_OK, or before), a fetch when the *)
(* application asks for it.  Both leave them when the application ends them; *)
(* the handler dies when its owner drops it as well.                        *)

Register(ch) ==
    /\ conn # "crashed" /\ ch \in Uni \cup Dgram /\ ~known[ch] /\ alive[ch]
    /\ known' = [known EXCEPT ![ch] = TRUE]
    /\ UNCHANGED <<conn, bufVars, rxq, isNew, bound, notify, cb, alive, ended, nrecv,
                   delivered, refused, done, cause>>

Unregister(ch) ==
    /\ conn # "crashed" /\ known[ch]
    /\ known' = [known EXCEPT ![ch] = FALSE]
    /\ alive' \in {alive, [alive EXCEPT ![ch] = FALSE]}
    /\ UNCHANGED <<conn, bufVars, rxq, isNew, bound, notify, cb, ended, nrecv, delivered,
                   refused, done, cause>>

-----------------------------------------------------------------------------
(* The notifier thread. *)

\* OnRecvStream starts: GetStreamRxContext throws for a stream or connection
\* that is gone, and CbNotifier ignores the exception.  The posted function
\* reads the connection context it has a pointer to: one that was erased
\* may crash.
TakeRecv ==
    /\ conn # "crashed" /\ cb.pc = "idle" /\ notify # <<>> /\ Head(notify).fn = "recv"
    /\ notify' = Tail(notify)
    /\ LET ch == Head(notify).ch IN
         IF conn = "open" /\ present[ch]
         THEN /\ cb' = [pc |-> "front", ch |-> ch, i |-> 0, b |-> 0]
              /\ UNCHANGED <<conn, cause>>
         ELSE /\ conn' \in IF conn = "closed" THEN {conn, "crashed"} ELSE {conn}
              /\ cause' = Blame(cause, ch, "removed")
              /\ UNCHANGED cb
    /\ UNCHANGED <<bufVars, rxq, isNew, bound, subVars, ended, nrecv, delivered, refused, done>>

\* OnStreamClosed: the cast of an unset caller_any throws; a handler that is
\* gone is dereferenced.
TakeClosed ==
    /\ conn # "crashed" /\ cb.pc = "idle" /\ notify # <<>> /\ Head(notify).fn = "closed"
    /\ notify' = Tail(notify)
    /\ LET ch == Head(notify).ch IN
         /\ conn' = IF bound[ch] /\ ~alive[ch] THEN "crashed" ELSE conn
         /\ done' = [done EXCEPT ![ch] = TRUE]
    /\ UNCHANGED <<bufVars, rxq, isNew, bound, cb, subVars, ended, nrecv, delivered, refused,
                   cause>>

\* The read loop ends: Empty(), or kReadLoopMaxPerStream turns; Dequeue
\* finds nothing once the connection is gone.
LoopOver == rxq[cb.ch] = <<>> \/ cb.i >= LoopMax \/ (cb.ch \in Dgram /\ conn # "open")

EndLoop ==
    /\ cb.pc = "front" /\ LoopOver
    /\ cb' = Idle
    /\ UNCHANGED <<conn, bufVars, rxq, isNew, bound, notify, subVars, ended, nrecv,
                   delivered, refused, done, cause>>

\* Front(); the buffer is taken out of the queue by a later PopFront().
ReadFront ==
    /\ cb.pc = "front" /\ ~LoopOver /\ cb.ch \in Strm
    /\ cb' = [cb EXCEPT !.pc = "work", !.b = Head(rxq[cb.ch])]
    /\ UNCHANGED <<conn, bufVars, rxq, isNew, bound, notify, subVars, ended, nrecv,
                   delivered, refused, done, cause>>

\* Mutant: the first buffer a notification finds stays in the queue.
TakeAgain(ch, b, i, handover) ==
    /\ rxq' = [rxq EXCEPT ![ch] = IF cb.i = 0 THEN @ ELSE Tail(@)]
    /\ delivered' = IF handover THEN [delivered EXCEPT ![ch] = Append(@, b)] ELSE delivered
    /\ cb' = [cb EXCEPT !.pc = "front", !.i = i]

\* PopFront, and the delivery of buffer b.
Take(ch, b, i, handover) ==
    /\ rxq' = [rxq EXCEPT ![ch] = Tail(@)]
    /\ delivered' = IF handover THEN [delivered EXCEPT ![ch] = Append(@, b)] ELSE delivered
    /\ cb' = [cb EXCEPT !.pc = "front", !.i = i]

\* OnRecvDgram: Dequeue, then DgramDataRecv if the alias is known.
ReadDgram ==
    /\ cb.pc = "front" /\ ~LoopOver /\ cb.ch \in Dgram
    /\ Take(cb.ch, Head(rxq[cb.ch]), cb.i + 1, known[cb.ch])
    /\ cause' = IF known[cb.ch] THEN cause ELSE Blame(cause, cb.ch, "unknown")
    /\ UNCHANGED <<conn, bufVars, isNew, bound, notify, subVars, ended, nrecv, refused, done>>

\* Control stream: a buffer that ends inside a message (partial) sets the
\* loop counter to LoopMax - 4.
WorkCtrl(partial) ==
    /\ cb.pc = "work" /\ cb.ch \in Ctrl
    /\ Take(cb.ch, cb.b, IF partial THEN LoopMax - 3 ELSE cb.i + 1, TRUE)
    /\ UNCHANGED <<conn, bufVars, isNew, bound, notify, subVars, ended, nrecv, refused, done,
                   cause>>

\* The first buffer of a unidirectional stream, OnRecvSubgroup and
\* OnRecvFetch, when the handler is known ...
WorkNewKnown ==
    /\ cb.pc = "work" /\ cb.ch \in Uni /\ isNew[cb.ch] /\ known[cb.ch]
    /\ isNew' = [isNew EXCEPT ![cb.ch] = FALSE]
    /\ bound' = [bound EXCEPT ![cb.ch] = TRUE]
    /\ Take(cb.ch, cb.b, cb.i + 1, TRUE)
    /\ UNCHANGED <<conn, bufVars, notify, subVars, ended, nrecv, refused, done, cause>>

\* ... StreamDataRecv throws: the stream is no longer new and has its handler, PopFront
\* is skipped, and CbNotifier ignores the exception.  The buffer is handed over again,
\* by WorkBound, when the next one is notified ...
WorkNewThrows ==
    /\ cb.pc = "work" /\ cb.ch \in Uni /\ isNew[cb.ch] /\ known[cb.ch]
    /\ isNew' = [isNew EXCEPT ![cb.ch] = FALSE]
    /\ bound' = [bound EXCEPT ![cb.ch] = TRUE]
    /\ refused' = [refused EXCEPT ![cb.ch] = cb.b]
    /\ cause' = Blame(cause, cb.ch, "threw")
    /\ cb' = Idle
    /\ UNCHANGED <<conn, bufVars, rxq, notify, subVars, ended, nrecv, delivered, done>>

\* ... and when it is not: the buffer stays, unknown_expiry_tick_ms is set
\* and then cleared; a fetch stream is no longer new.
WorkNewUnknown ==
    /\ cb.pc = "work" /\ cb.ch \in Uni /\ isNew[cb.ch] /\ ~known[cb.ch]
    /\ isNew' = [isNew EXCEPT ![cb.ch] = cb.ch \in Sub]
    /\ expiry' = [expiry EXCEPT ![cb.ch] = FALSE]
    /\ cause' = Blame(cause, cb.ch, "unknown")
    /\ cb' = Idle
    /\ UNCHANGED <<conn, present, closed, checked, seen, rxq, bound, notify, subVars, ended,
                   nrecv, delivered, refused, done>>

\* A later buffer: it is given to the handler if there still is one.
WorkBound ==
    /\ cb.pc = "work" /\ cb.ch \in Uni /\ ~isNew[cb.ch] /\ bound[cb.ch]
    /\ Take(cb.ch, cb.b, cb.i + 1, alive[cb.ch])
    /\ cause' = IF alive[cb.ch] THEN cause ELSE Blame(cause, cb.ch, "dead")
    /\ UNCHANGED <<conn, bufVars, isNew, bound, notify, subVars, ended, nrecv, refused, done>>

\* A fetch stream whose request was unknown: the loop turns without effect.
WorkUnbound ==
    /\ cb.pc = "work" /\ cb.ch \in Uni /\ ~isNew[cb.ch] /\ ~bound[cb.ch]
    /\ cb' = Idle
    /\ UNCHANGED <<conn, bufVars, rxq, isNew, bound, notify, subVars, ended, nrecv,
                   delivered, refused, done, cause>>

-----------------------------------------------------------------------------
Init ==
    /\ conn = "open" /\ notify = <<>> /\ cb = Idle
    /\ present = [ch \in Chan |-> FALSE] /\ closed = [ch \in Chan |-> FALSE]
    /\ checked = [ch \in Chan |-> FALSE] /\ expiry = [ch \in Chan |-> FALSE]
    /\ seen = [ch \in Chan |-> FALSE] /\ ended = [ch \in Chan |-> FALSE]
    /\ rxq = [ch \in Chan |-> <<>>] /\ delivered = [ch \in Chan |-> <<>>]
    /\ isNew = [ch \in Chan |-> TRUE] /\ bound = [ch \in Chan |-> FALSE]
    /\ known = [ch \in Chan |-> FALSE] /\ alive = [ch \in Chan |-> TRUE]
    /\ nrecv = [ch \in Chan |-> 0] /\ refused = [ch \in Chan |-> 0]
    /\ done = [ch \in Chan |-> FALSE] /\ cause = [ch \in Chan |-> {}]

Picoquic ==
    \/ \E ch \in Chan, late \in BOOLEAN : OnRecvBytes(ch, late)
    \/ \E ch \in Chan : StreamEnded(ch)
    \/ RemoveClosedStreams
    \/ Close

CbNotifier ==
    \/ TakeRecv \/ TakeClosed \/ EndLoop \/ ReadFront \/ ReadDgram
    \/ \E partial \in BOOLEAN : WorkCtrl(partial)
    \/ WorkNewKnown \/ WorkNewThrows \/ WorkNewUnknown \/ WorkBound \/ WorkUnbound

Session == \E ch \in Chan : Register(ch) \/ Unregister(ch)

\* Everything has ended and the notifier thread waits, or the program has
\* crashed.
Quiet ==
    /\ \/ conn = "crashed"
       \/ /\ notify = <<>> /\ cb.pc = "idle"
          /\ conn # "open" \/ \A ch \in Chan : ended[ch] \/ nrecv[ch] = MaxBuf
    /\ UNCHANGED vars

Next == Picoquic \/ CbNotifier \/ Session \/ Quiet

Spec == Init /\ [][Next]_vars

\* The notifier thread runs while there are notifications; the check of the
\* picoquic loop comes every kMetricsIntervalUs.
Fairness == WF_vars(CbNotifier) /\ WF_vars(RemoveClosedStreams)
FairSpec == Spec /\ Fairness

-----------------------------------------------------------------------------
(* Properties. *)

\* Types; in particular the read loop counter stays within LoopMax and the
\* buffers in the queues are received ones.
TypeOK ==
    /\ conn \in {"open", "closed", "crashed"}
    /\ present \in [Chan -> BOOLEAN] /\ closed \in [Chan -> BOOLEAN]
    /\ checked \in [Chan -> BOOLEAN] /\ expiry \in [Chan -> BOOLEAN]
    /\ seen \in [Chan -> BOOLEAN] /\ ended \in [Chan -> BOOLEAN]
    /\ isNew \in [Chan -> BOOLEAN] /\ bound \in [Chan -> BOOLEAN]
    /\ known \in [Chan -> BOOLEAN] /\ alive \in [Chan -> BOOLEAN]
    /\ done \in [Chan -> BOOLEAN]
    /\ rxq \in [Chan -> Seq(1..MaxBuf)] /\ delivered \in [Chan -> Seq(1..MaxBuf)]
    /\ nrecv \in [Chan -> 0..MaxBuf] /\ refused \in [Chan -> 0..MaxBuf]
    /\ cause \in [Chan -> SUBSET Cause]
    /\ notify \in Seq(Note)
    /\ cb \in [pc : {"idle", "front", "work"}, ch : Chan \cup {None}, i : 0..LoopMax,
              b : 0..MaxBuf]

\* Buffers are handed over and taken out in the order they were received, none twice,
\* even when the queue slides between Front and PopFront.
InOrder ==
    \A ch \in Chan : \A i, j \in 1..Len(delivered[ch]) :
        i < j => delivered[ch][i] < delivered[ch][j]

\* Nothing is lost without a cause: unless a queue slid, or the handler was
\* unknown, gone or threw, what was handed over and what is queued is exactly what
\* was received.
Accounted ==
    \A ch \in Chan : cause[ch] = {} =>
        delivered[ch] \o rxq[ch] = [i \in 1..nrecv[ch] |-> i]

\* What the proofs need besides.  The queue q of a channel ascends and is
\* ahead of what was delivered, d; n buffers were received.
Ordered(d, q, n) ==
    /\ \A i, j \in 1..Len(d) : i < j => d[i] < d[j]
    /\ \A i, j \in 1..Len(q) : i < j => q[i] < q[j]
    /\ \A i \in 1..Len(d), j \in 1..Len(q) : d[i] < q[j]
    /\ \A i \in 1..Len(d) : d[i] <= n
    /\ \A i \in 1..Len(q) : q[i] <= n

\* Accounted, position by position.
Counted(d, q, n) ==
    /\ Len(d) + Len(q) = n
    /\ \A i \in 1..Len(d) : d[i] = i
    /\ \A i \in 1..Len(q) : q[i] = Len(d) + i

\* The buffer b at hand is ahead of what was delivered, and in front of the
\* queue unless it was pushed out of it.
AtHand(b, d, q) ==
    q # <<>> /\ b > 0 /\ b <= q[1] /\ \A i \in 1..Len(d) : d[i] < b

QueueInv == \A ch \in Chan : Ordered(delivered[ch], rxq[ch], nrecv[ch])

CountInv == \A ch \in Chan : cause[ch] = {} => Counted(delivered[ch], rxq[ch], nrecv[ch])

WorkInv ==
    /\ cb.pc # "idle" => cb.ch \in Chan
    /\ cb.pc = "work" =>
          /\ cb.ch \in Strm /\ cb.i < LoopMax
          /\ AtHand(cb.b, delivered[cb.ch], rxq[cb.ch])
          /\ cause[cb.ch] = {} => cb.b = rxq[cb.ch][1]

RxInv == TypeOK /\ QueueInv /\ WorkInv /\ CountInv

Pending(ch) == {i \in 1..Len(notify) : notify[i] = Recv(ch)}

\* Every queued buffer of a unidirectional stream has a notification of its
\* own on the way, so the stream never waits for the next buffer.  Excepted are streams
\* that lost a notification, found no handler or no context, or whose handler threw on
\* the first buffer (WorkNewThrows), which then waits for the next one.
UniNotified ==
    \A ch \in Uni : cause[ch] \cap {"notify", "unknown", "removed", "threw"} = {} =>
        Len(rxq[ch]) <= Cardinality(Pending(ch)) + (IF cb.ch = ch /\ cb.i = 0 THEN 1 ELSE 0)

\* The end of a unidirectional stream is reported after all its data has
\* been handed over (fetch: kDoneByFin after the last object).
ClosedAfterData ==
    \A ch \in Uni : done[ch] /\ cause[ch] = {} => Len(delivered[ch]) = nrecv[ch]

\* Nothing reaches the handler after the end of its stream was reported.
NothingAfterClosed ==
    [][\A ch \in Strm : done[ch] => delivered'[ch] = delivered[ch]]_vars

\* The buffers that may still be handed over: those in the queue, and the one Front has
\* returned, which may have been pushed out of it since.
Waiting ==
    [ch \in Chan |-> {rxq[ch][i] : i \in 1..Len(rxq[ch])}
                        \cup IF cb.pc = "work" /\ cb.ch = ch THEN {cb.b} ELSE {}]

Promise == INSTANCE Delivery WITH
    waiting <- Waiting, over <- [ch \in Chan |-> ch \in Strm /\ done[ch]],
    lossy <- [ch \in Chan |-> cause[ch] # {}]

\* The queues, notifications and the read loop together implement Delivery: with Front
\* and PopFront apart, queues that slide in between, and streams that end or are removed
\* meanwhile, the oldest buffer is handed over first, each at most once, none after the
\* end, and none is lost without a cause.  The one buffer that may be handed over twice is
\* the first that reached a handler, when the handler broke it off by an exception.
Delivers == Promise!Spec

\* Received data is handed over, unless there is a cause.
Handed ==
    \A ch \in Uni : rxq[ch] # <<>> ~> (rxq[ch] = <<>> \/ cause[ch] # {} \/ conn # "open")

\* A closed stream is removed, read or not: nothing leaks.
Reclaimed == \A ch \in Strm : (closed[ch] /\ present[ch]) ~> (~present[ch] \/ conn # "open")

\* "callback notification that data has been received and should be
\* processed": received data is being processed or will be.
DataProcessed ==
    \A ch \in Ctrl \cup Dgram : rxq[ch] # <<>> /\ cause[ch] = {} =>
        Pending(ch) # {} \/ cb.ch = ch

\* "set an expiry for how long we'll keep the stream": an unknown stream has
\* an expiry.
UnknownExpires ==
    \A ch \in Sub : cb.pc = "idle" /\ isNew[ch] /\ "unknown" \in cause[ch] => expiry[ch]

-----------------------------------------------------------------------------
(* What the documentation says and the code does not do, beyond what the    *)
(* runs show; the README describes the counterexamples.                     *)

\* "True if closed and checked once to close": a stream that is removed with
\* unread data was found closed by an earlier check.
ClosedGrace ==
    [][conn' = "open" => \A ch \in Strm :
         present[ch] /\ ~present'[ch] /\ rxq[ch] # <<>> => seen[ch]]_vars

\* The handler whose status OnStreamClosed reads exists.
HandlerAlive ==
    \A ch \in Strm : notify # <<>> /\ notify[1] = ClosedNote(ch) /\ bound[ch] => alive[ch]

\* The connection context that a posted function reads exists.
PostedAlive ==
    \A ch \in Chan : conn # "crashed" /\ notify # <<>> /\ notify[1] = Recv(ch) => conn = "open"
=============================================================================
