---------------------------- MODULE ConnectProofs ----------------------------
(***************************************************************************)
(* Proofs about Connect, for every set of clients.                         *)
(*                                                                         *)
(* The queue of a client's notifier holds at most two callbacks, and which *)
(* ones follows from the status of the session (InTime); a client whose    *)
(* callbacks were ahead of Transport::Start never says CLIENT_SETUP, and   *)
(* has nothing but its end to come (Overtaken).  The server's              *)
(* queue holds a connection's callbacks in the order new, CLIENT_SETUP,    *)
(* end, each at most once (ServerInv).                                     *)
(***************************************************************************)
EXTENDS Connect, SequenceTheorems, TLAPS

\* Queues of none, one and two callbacks.
Zero == <<>>
One(x) == <<x>>
Two(x, y) == <<x, y>>

\* What is queued for a client that is connecting, waits for SERVER_SETUP, is ready,
\* and is not connected any more.
Connecting(c) ==
    /\ hello[c] = "none"
    /\ \/ nq[c] = Zero /\ ctx[c] /\ cnx[c] = "handshake"
       \/ nq[c] = One("kReady") /\ ctx[c] /\ cnx[c] = "ready"
       \/ /\ ~ctx[c] /\ cnx[c] = "closed"
          /\ \E r \in Reasons : nq[c] = One(r) \/ nq[c] = Two("kReady", r)

Pending(c) ==
    \/ nq[c] = Zero /\ ctx[c] /\ cnx[c] = "ready" /\ hello[c] # "none"
    \/ nq[c] = One("SERVER_SETUP") /\ ctx[c] /\ cnx[c] = "ready" /\ hello[c] # "none" /\ answer[c] = "received"
    \/ /\ ~ctx[c] /\ cnx[c] = "closed"
       /\ \E r \in Reasons : nq[c] = One(r) \/ (nq[c] = Two("SERVER_SETUP", r) /\ answer[c] = "received")

Ready(c) ==
    /\ answer[c] = "received"
    /\ \/ nq[c] = Zero /\ ctx[c] /\ cnx[c] = "ready"
       \/ ~ctx[c] /\ cnx[c] = "closed" /\ \E r \in Reasons : nq[c] = One(r)

NotConnected(c) == nq[c] = Zero /\ ~ctx[c] /\ cnx[c] = "closed" /\ entry[c] # "known"

\* The session of a client whose application has not let go of it.
InTime(c) ==
    /\ app[c] \in {"new", "starting", "returned"} => status[c] = "kNotReady"
    /\ app[c] = "new" => start[c] = "none"
    /\ start[c] # "done" =>
          nq[c] = Zero /\ ~ctx[c] /\ cnx[c] = "none" /\ status[c] \in {"kNotReady", "kFailedToConnect"}
    /\ app[c] \in {"starting", "failed"} /\ start[c] = "done" => Connecting(c)
    /\ app[c] = "returned" => start[c] = "done" /\ Connecting(c)
    /\ app[c] = "running" =>
          /\ start[c] = "done"
          /\ \/ status[c] = "kConnecting" /\ Connecting(c) /\ entry[c] = "known"
             \/ status[c] = "kPendingServerSetup" /\ Pending(c)
             \/ status[c] = "kReady" /\ Ready(c)
             \/ status[c] = "kNotConnected" /\ NotConnected(c)

\* The session of a client with a callback that was ahead of Transport::Start.
Overtaken(c) ==
    /\ app[c] # "new" /\ start[c] = "done" /\ hello[c] = "none"
    /\ \/ nq[c] = Zero /\ cnx[c] = "ready"
       \/ nq[c] = Zero /\ cnx[c] = "closed" /\ ~ctx[c]
       \/ ~ctx[c] /\ cnx[c] = "closed" /\ \E r \in Reasons : nq[c] = One(r)

ClientInv(c) ==
    /\ app[c] \in {"new", "starting", "returned", "failed"} => entry[c] # "known" /\ hello[c] = "none"
    /\ early[c] => Overtaken(c)
    /\ ~early[c] => InTime(c)

\* A client that has been given up or stopped keeps the status it had.
StoppedInv(c) ==
    /\ status[c] = "kReady" => answer[c] = "received"
    /\ status[c] = "kPendingServerSetup" => hello[c] # "none" \/ ~ctx[c] \/ early[c]
    /\ app[c] = "failed" /\ ~early[c] => status[c] = "kFailedToConnect"

Of(c, what) == {i \in DOMAIN snq : snq[i][1] = c /\ snq[i][2] = what}
Ending(c) == {i \in DOMAIN snq : snq[i][1] = c /\ snq[i][2] \in Reasons}

ServerInv(c) ==
    /\ answer[c] # "none" => hello[c] = "received" /\ (sentry[c] = "setup" \/ sctx[c] = "closed")
    /\ \A i \in Of(c, "CLIENT_SETUP") : hello[c] = "received" /\ answer[c] = "none"
    /\ \A i, j \in Of(c, "CLIENT_SETUP") : i = j
    /\ \A i \in Of(c, "new") : sentry[c] \in {"none", "blank"} /\ answer[c] = "none"
    /\ \A i \in Of(c, "new"), j \in DOMAIN snq : snq[j][1] = c => i <= j
    /\ \A i \in Ending(c) : sctx[c] = "closed"
    /\ \A i \in Ending(c), j \in DOMAIN snq : snq[j][1] = c => j <= i
    /\ sctx[c] = "none" => sentry[c] = "none" /\ hello[c] # "received" /\ \A i \in DOMAIN snq : snq[i][1] # c
    /\ sctx[c] = "closed" => Ending(c) # {} \/ (sentry[c] \in {"none", "blank"} /\ \A i \in DOMAIN snq : snq[i][1] # c)

IInv == TypeOK /\ \A c \in Clients : ClientInv(c) /\ StoppedInv(c) /\ ServerInv(c)

-----------------------------------------------------------------------------
(* Queues. *)

Items == {"kReady", "SERVER_SETUP"} \cup Reasons
ServerItems == {"new", "CLIENT_SETUP"} \cup Reasons

\* What Append, Head and Tail make of the short queues.
LEMMA Short ==
    ASSUME NEW x \in Items, NEW y \in Items
    PROVE  /\ Append(Zero, x) = One(x) /\ Append(One(x), y) = Two(x, y)
           /\ Head(One(x)) = x /\ Tail(One(x)) = Zero
           /\ Head(Two(x, y)) = x /\ Tail(Two(x, y)) = One(y)
<1>1. Append(<<>>, x) = <<x>>
  OBVIOUS
<1>2. Append(<<x>>, y) = <<x, y>>
  <2>1. <<x>> \in Seq(Items) /\ <<x, y>> \in Seq(Items) /\ Append(<<x>>, y) \in Seq(Items)
    OBVIOUS
  <2>2. Len(Append(<<x>>, y)) = 2 /\ Append(<<x>>, y)[1] = x /\ Append(<<x>>, y)[2] = y
    BY <2>1, AppendProperties
  <2>3. Len(<<x, y>>) = 2 /\ <<x, y>>[1] = x /\ <<x, y>>[2] = y
    OBVIOUS
  <2>4. \A i \in 1..2 : Append(<<x>>, y)[i] = <<x, y>>[i]
    <3>1. \A i \in 1..2 : i = 1 \/ i = 2
      OBVIOUS
    <3> QED
      BY <2>2, <2>3, <3>1
  <2>5. \A i \in 1..Len(Append(<<x>>, y)) : Append(<<x>>, y)[i] = <<x, y>>[i]
    BY <2>2, <2>4
  <2> QED
    BY <2>1, <2>2, <2>3, <2>5, SeqEqual, Zenon
<1>3. Head(<<x>>) = x /\ Tail(<<x>>) = <<>>
  OBVIOUS
<1>4. Head(<<x, y>>) = x
  OBVIOUS
<1>5. Tail(<<x, y>>) = <<y>>
  OBVIOUS
<1> QED
  BY <1>1, <1>2, <1>3, <1>4, <1>5 DEF Zero, One, Two

\* A short queue that is not empty is not Zero, and a queue tells its callbacks.
LEMMA Distinct ==
    ASSUME NEW x, NEW y
    PROVE  Zero # One(x) /\ Zero # Two(x, y) /\ (\A z : One(z) # Two(x, y))
BY DEF Zero, One, Two

-----------------------------------------------------------------------------
(* Types. *)

LEMMA TypeInit == Init => TypeOK
BY DEF Init, TypeOK, Reasons

\* A step of the client's application thread.
LEMMA TypeApplication ==
    ASSUME TypeOK, NEW c \in Clients, Application(c) \/ Waits(c)
    PROVE  TypeOK'
<1>1. CASE Start(c)
  <2>1. /\ app' \in [Clients -> {"new", "starting", "returned", "running", "stopping", "joined", "failed"}]
        /\ start' \in [Clients -> {"none", "posted", "running", "done", "failed"}]
        /\ loop' \in [Clients -> BOOLEAN]
    <3>1. CASE app' = [app EXCEPT ![c] = "starting"] /\ start' = [start EXCEPT ![c] = "posted"] /\ loop' = [loop EXCEPT ![c] = TRUE]
      BY <3>1 DEF TypeOK
    <3>2. CASE app' = [app EXCEPT ![c] = "failed"] /\ start' = start /\ loop' = [loop EXCEPT ![c] = FALSE]
      BY <3>2 DEF TypeOK
    <3> QED
      BY <1>1, <3>1, <3>2 DEF Start, ClientLoop
  <2>2. CASE status' = status
    BY <1>1, <2>1, <2>2 DEF TypeOK, Start, serverVars
  <2>3. CASE status' = [status EXCEPT ![c] = "kFailedToConnect"]
    BY <1>1, <2>1, <2>3 DEF TypeOK, Start, serverVars
  <2> QED
    BY <1>1, <2>2, <2>3 DEF Start, Set
<1>2. CASE Shutdown(c)
  BY <1>2 DEF TypeOK, Shutdown, serverVars
<1>3. CASE StartClient(c)
  <2>1. CASE app' = [app EXCEPT ![c] = "returned"] /\ UNCHANGED <<tstatus, status>>
    BY <1>3, <2>1 DEF TypeOK, StartClient, serverVars
  <2>2. CASE /\ app' = [app EXCEPT ![c] = "failed"] /\ tstatus' = [tstatus EXCEPT ![c] = "kDisconnected"]
             /\ status' = [status EXCEPT ![c] = "kFailedToConnect"]
    BY <1>3, <2>2 DEF TypeOK, StartClient, serverVars
  <2> QED
    BY <1>3, <2>1, <2>2 DEF StartClient, Set
<1>4. CASE Started(c)
  BY <1>4 DEF TypeOK, Started, Set, serverVars
<1>5. CASE Joined(c)
  BY <1>5 DEF TypeOK, Joined, serverVars
<1>6. CASE TouchEntry(c)
  BY <1>6 DEF TypeOK, TouchEntry, serverVars
<1> QED
  BY <1>1, <1>2, <1>3, <1>4, <1>5, <1>6 DEF Application, Waits

\* A callback is queued.
LEMMA TypeNotify ==
    ASSUME TypeOK, NEW c \in Clients, NEW x \in Items
    PROVE  [nq EXCEPT ![c] = Append(@, x)] \in [Clients -> Seq(Items)]
BY DEF TypeOK, Items

LEMMA TypeClose ==
    ASSUME TypeOK, NEW c \in Clients, NEW r \in Reasons, Close(c, r)
    PROVE  /\ nq' \in [Clients -> Seq(Items)]
           /\ ctx' \in [Clients -> BOOLEAN]
           /\ tstatus' \in [Clients -> {"kConnecting", "kReady", "kDisconnected", "kShuttingDown", "kShutdown"}]
           /\ cnx' \in [Clients -> {"none", "handshake", "ready", "closed"}]
<1>1. r \in Items
  BY DEF Items
<1>2. nq' \in [Clients -> Seq(Items)]
  <2>1. nq \in [Clients -> Seq(Items)]
    BY DEF TypeOK, Items
  <2> QED
    BY <1>1, <2>1, TypeNotify, ZenonT(40) DEF Close, Notify
<1>3. tstatus' \in [Clients -> {"kConnecting", "kReady", "kDisconnected", "kShuttingDown", "kShutdown"}]
  <2>1. tstatus \in [Clients -> {"kConnecting", "kReady", "kDisconnected", "kShuttingDown", "kShutdown"}]
    BY DEF TypeOK
  <2>2. tstatus' = tstatus \/ tstatus' = [tstatus EXCEPT ![c] = "kShutdown"]
    BY DEF Close
  <2> QED
    BY <2>1, <2>2
<1>4. ctx' \in [Clients -> BOOLEAN] /\ cnx' \in [Clients -> {"none", "handshake", "ready", "closed"}]
  BY DEF TypeOK, Close
<1> QED
  BY <1>2, <1>3, <1>4

\* A step of the client's packet loop, or a callback of picoquic's.
LEMMA TypeLoop ==
    ASSUME TypeOK, NEW c \in Clients, PacketLoop(c) \/ Network(c) \/ CloseConnection(c)
    PROVE  TypeOK'
<1>1. CASE RunStart(c)
  BY <1>1 DEF TypeOK, RunStart, serverVars
<1>2. CASE StartDone(c)
  <2>1. PICK v \in BOOLEAN : wild' = [wild EXCEPT ![c] = v]
    BY <1>2, Zenon DEF StartDone
  <2>2. wild' \in [Clients -> BOOLEAN]
    BY <2>1 DEF TypeOK
  <2> QED
    <3>1. CASE start' = [start EXCEPT ![c] = "failed"] /\ UNCHANGED <<cnx, ctx>>
      BY <1>2, <2>2, <3>1 DEF TypeOK, StartDone, serverVars
    <3>2. CASE /\ start' = [start EXCEPT ![c] = "done"] /\ cnx' = [cnx EXCEPT ![c] = "handshake"]
               /\ ctx' = [ctx EXCEPT ![c] = TRUE]
      BY <1>2, <2>2, <3>2 DEF TypeOK, StartDone, serverVars
    <3> QED
      BY <1>2, <3>1, <3>2 DEF StartDone, CreateConnContext
<1>3. CASE TimeCheck(c)
  <2>1. CASE loop' = [loop EXCEPT ![c] = FALSE] /\ UNCHANGED <<tstatus, cnx, ctx, nq>>
    BY <1>3, <2>1 DEF TypeOK, TimeCheck, serverVars
  <2>2. CASE /\ ctx' = [ctx EXCEPT ![c] = FALSE] /\ cnx' = [cnx EXCEPT ![c] = "closed"]
             /\ nq' = (IF ctx[c] THEN [nq EXCEPT ![c] = Append(@, "kDisconnected")] ELSE nq)
             /\ tstatus' = [tstatus EXCEPT ![c] = "kShutdown"] /\ UNCHANGED loop
    <3>1. "kDisconnected" \in Items /\ nq \in [Clients -> Seq(Items)]
      BY DEF TypeOK, Items, Reasons
    <3>2. nq' \in [Clients -> Seq(Items)]
      <4>1. CASE ctx[c]
        BY <2>2, <3>1, <4>1, TypeNotify
      <4>2. CASE ~ctx[c]
        BY <2>2, <3>1, <4>2
      <4> QED
        BY <4>1, <4>2
    <3> QED
      BY <1>3, <2>2, <3>2 DEF TypeOK, TimeCheck, Items, serverVars
  <2> QED
    BY <1>3, <2>1, <2>2 DEF TimeCheck
<1>4. CASE RecvAnswer(c)
  <2>1. nq' \in [Clients -> Seq(Items)]
    BY <1>4, TypeNotify DEF RecvAnswer, Notify, Items
  <2> QED
    BY <1>4, <2>1 DEF TypeOK, RecvAnswer, Items, serverVars
<1>5. CASE CallbackReady(c)
  <2>1. nq' \in [Clients -> Seq(Items)]
    BY <1>5, TypeNotify DEF CallbackReady, Notify, Items
  <2> QED
    BY <1>5, <2>1 DEF TypeOK, CallbackReady, Items, serverVars
<1>6. ASSUME NEW r \in Reasons, CallbackClose(c, r) PROVE TypeOK'
  <2>1. Close(c, r)
    BY <1>6 DEF CallbackClose
  <2> QED
    BY <1>6, <2>1, TypeClose DEF TypeOK, CallbackClose, Items, serverVars
<1>7. CASE CloseConnection(c)
  <2>1. Close(c, "kDisconnected") /\ "kDisconnected" \in Reasons
    BY <1>7 DEF CloseConnection, Reasons
  <2> QED
    BY <1>7, <2>1, TypeClose DEF TypeOK, CloseConnection, Items, serverVars
<1> QED
  BY <1>1, <1>2, <1>3, <1>4, <1>5, <1>6, <1>7 DEF PacketLoop, Network

\* A callback the client's notifier runs.
LEMMA TypeNotifier ==
    ASSUME TypeOK, NEW c \in Clients, Notifier(c)
    PROVE  TypeOK'
<1>e. ASSUME NEW x, Notified(c, x) PROVE early' \in [Clients -> BOOLEAN]
  <2>1. PICK v \in BOOLEAN : early' = [early EXCEPT ![c] = v]
    BY <1>e, Zenon DEF Notified, TypeOK
  <2> QED
    BY <2>1 DEF TypeOK
<1>1. ASSUME NEW x \in Items, Notified(c, x) PROVE nq' \in [Clients -> Seq(Items)]
  <2>1. nq \in [Clients -> Seq(Items)] /\ nq[c] # <<>>
    BY <1>1 DEF TypeOK, Items, Notified
  <2>2. Tail(nq[c]) \in Seq(Items)
    BY <2>1, HeadTailProperties
  <2> QED
    BY <1>1, <2>1, <2>2 DEF Notified
<1>2. CASE OnReady(c)
  <2>1. nq' \in [Clients -> Seq(Items)]
    BY <1>1, <1>2 DEF OnReady, Items
  <2>2. early' \in [Clients -> BOOLEAN]
    BY <1>e, <1>2 DEF OnReady
  <2> QED
    BY <1>2, <2>1, <2>2 DEF TypeOK, OnReady, Notified, Set, SendClientSetup, Items, serverVars
<1>3. CASE ServerSetup(c)
  <2>1. nq' \in [Clients -> Seq(Items)]
    BY <1>1, <1>3 DEF ServerSetup, Items
  <2>2. early' \in [Clients -> BOOLEAN]
    BY <1>e, <1>3 DEF ServerSetup
  <2> QED
    BY <1>3, <2>1, <2>2 DEF TypeOK, ServerSetup, Notified, Set, Items, serverVars
<1>4. ASSUME NEW r \in Reasons, OnClosed(c, r) PROVE TypeOK'
  <2>1. nq' \in [Clients -> Seq(Items)]
    BY <1>1, <1>4 DEF OnClosed, Items
  <2>2. early' \in [Clients -> BOOLEAN]
    BY <1>e, <1>4 DEF OnClosed
  <2> QED
    BY <1>4, <2>1, <2>2 DEF TypeOK, OnClosed, Notified, Set, Items, serverVars
<1> QED
  BY <1>2, <1>3, <1>4 DEF Notifier

\* What the notifier's next callback does at the server.
LEMMA ServerEffect ==
    ASSUME ServerNotified, NEW c \in Clients, NEW w, Head(snq) = <<c, w>>
    PROVE  /\ w = "new" => sentry' = [sentry EXCEPT ![c] = "known"] /\ answer' = answer
           /\ w = "CLIENT_SETUP" /\ sctx[c] = "open" =>
                  sentry' = [sentry EXCEPT ![c] = "setup"] /\ answer' = [answer EXCEPT ![c] = "sent"]
           /\ w = "CLIENT_SETUP" /\ sctx[c] # "open" => sentry' = sentry /\ answer' = answer
           /\ w \in Reasons => sentry' = [sentry EXCEPT ![c] = "none"] /\ answer' = answer
<1>1. Head(snq)[1] = c /\ Head(snq)[2] = w
  OBVIOUS
<1>2. CASE w = "new"
  BY <1>1, <1>2 DEF ServerNotified, NewConnection, Reasons
<1>3. CASE w = "CLIENT_SETUP"
  BY <1>1, <1>3 DEF ServerNotified, SendServerSetup, Reasons
<1>4. CASE w \in Reasons
  BY <1>1, <1>4 DEF ServerNotified, Reasons
<1> QED
  BY <1>2, <1>3, <1>4 DEF Reasons

\* A step of the server.
LEMMA TypeServer ==
    ASSUME TypeOK, (\E c \in Clients : ServerLoop(c)) \/ ServerNotified
    PROVE  TypeOK'
<1>1. ASSUME NEW c \in Clients, Accept(c) PROVE TypeOK'
  BY <1>1 DEF TypeOK, Accept, clientVars
<1>2. ASSUME NEW c \in Clients, RecvHello(c) PROVE TypeOK'
  BY <1>2 DEF TypeOK, RecvHello, clientVars
<1>3. ASSUME NEW c \in Clients, NEW r \in Reasons, ServerClose(c, r) PROVE TypeOK'
  BY <1>3 DEF TypeOK, ServerClose, clientVars
<1>4. CASE ServerNotified
  <2>1. snq \in Seq(Clients \X ServerItems) /\ snq # <<>>
    BY <1>4 DEF TypeOK, ServerItems, ServerNotified
  <2>2. Head(snq) \in Clients \X ServerItems /\ Tail(snq) \in Seq(Clients \X ServerItems)
    BY <2>1, HeadTailProperties
  <2>3. PICK c \in Clients, w \in ServerItems : Head(snq) = <<c, w>>
    BY <2>2
  <2>4. sentry' \in [Clients -> {"none", "blank", "known", "setup"}] /\ answer' \in [Clients -> {"none", "sent", "received"}]
    <3>1. sentry \in [Clients -> {"none", "blank", "known", "setup"}] /\ answer \in [Clients -> {"none", "sent", "received"}]
      BY DEF TypeOK
    <3>2. w = "new" \/ w = "CLIENT_SETUP" \/ w \in Reasons
      BY DEF ServerItems
    <3> QED
      BY <1>4, <2>3, <3>1, <3>2, ServerEffect
  <2> QED
    BY <1>4, <2>2, <2>4 DEF TypeOK, ServerNotified, ServerItems, clientVars
<1>5. ASSUME NEW c \in Clients, ServerTouchEntry(c) PROVE TypeOK'
  BY <1>5 DEF TypeOK, ServerTouchEntry, clientVars
<1> QED
  BY <1>1, <1>2, <1>3, <1>4, <1>5 DEF ServerLoop

LEMMA TypeNext == TypeOK /\ [Next]_vars => TypeOK'
<1> SUFFICES ASSUME TypeOK, [Next]_vars PROVE TypeOK'
  OBVIOUS
<1>1. CASE UNCHANGED vars
  BY <1>1 DEF TypeOK, vars, clientVars, serverVars
<1>2. CASE Next
  BY <1>2, TypeApplication, TypeLoop, TypeNotifier, TypeServer DEF Next
<1> QED
  BY <1>1, <1>2

-----------------------------------------------------------------------------
(* The client's side of the invariant. *)

\* The types of the functions, without what the queues hold.
Plain ==
    /\ \E Q : nq \in [Clients -> Q]
    /\ app \in [Clients -> {"new", "starting", "returned", "running", "stopping", "joined", "failed"}]
    /\ start \in [Clients -> {"none", "posted", "running", "done", "failed"}]
    /\ ctx \in [Clients -> BOOLEAN]
    /\ cnx \in [Clients -> {"none", "handshake", "ready", "closed"}]
    /\ status \in [Clients -> {"kNotReady", "kConnecting", "kPendingServerSetup", "kReady",
                               "kNotConnected", "kFailedToConnect"}]
    /\ entry \in [Clients -> {"none", "blank", "known"}]
    /\ early \in [Clients -> BOOLEAN]
    /\ hello \in [Clients -> {"none", "sent", "received"}]
    /\ answer \in [Clients -> {"none", "sent", "received"}]
    /\ sctx \in [Clients -> {"none", "open", "closed"}]
    /\ sentry \in [Clients -> {"none", "blank", "known", "setup"}]

LEMMA PlainTypes == TypeOK => Plain
BY DEF TypeOK, Plain

\* What a step leaves alone of a client, as far as its invariants see it.
Same(d) ==
    /\ app'[d] = app[d] /\ start'[d] = start[d] /\ status'[d] = status[d]
    /\ nq'[d] = nq[d] /\ ctx'[d] = ctx[d] /\ cnx'[d] = cnx[d] /\ entry'[d] = entry[d]
    /\ early'[d] = early[d]
    /\ hello'[d] = "none" <=> hello[d] = "none"
    /\ answer[d] = "received" => answer'[d] = "received"

LEMMA ClientFrame ==
    ASSUME NEW d, Same(d), ClientInv(d), StoppedInv(d)
    PROVE  ClientInv(d)' /\ StoppedInv(d)'
<1>1. Connecting(d) => Connecting(d)'
  BY DEF Same, Connecting
<1>2. Pending(d) => Pending(d)'
  BY DEF Same, Pending
<1>3. Ready(d) => Ready(d)'
  BY DEF Same, Ready
<1>4. NotConnected(d) => NotConnected(d)'
  BY DEF Same, NotConnected
<1>5. ClientInv(d)'
  <2>1. InTime(d) => InTime(d)'
    BY <1>1, <1>2, <1>3, <1>4 DEF Same, InTime
  <2>2. Overtaken(d) => Overtaken(d)'
    BY DEF Same, Overtaken
  <2> QED
    BY <2>1, <2>2 DEF Same, ClientInv
<1>6. StoppedInv(d)'
  BY DEF Same, StoppedInv
<1> QED
  BY <1>5, <1>6

\* A step that leaves the connection and its queue alone.
LEMMA OvertakenFrame ==
    ASSUME NEW c, Overtaken(c), app'[c] # "new", start'[c] = "done", hello'[c] = hello[c],
           nq'[c] = nq[c], cnx'[c] = cnx[c], ctx'[c] = ctx[c]
    PROVE  Overtaken(c)'
BY DEF Overtaken

LEMMA ConnectingFrame ==
    ASSUME NEW c, Connecting(c), hello'[c] = hello[c], nq'[c] = nq[c], cnx'[c] = cnx[c], ctx'[c] = ctx[c]
    PROVE  Connecting(c)'
BY DEF Connecting

LEMMA ClientApplication ==
    ASSUME Plain, NEW c \in Clients, Application(c) \/ Waits(c), ClientInv(c), StoppedInv(c)
    PROVE  ClientInv(c)' /\ StoppedInv(c)' /\ \A d \in Clients \ {c} : Same(d)
<1>1. CASE Start(c)
  <2>1. ~early[c] /\ InTime(c)
    BY <1>1 DEF Start, ClientInv, Overtaken
  <2>2. InTime(c)' /\ StoppedInv(c)'
    BY <1>1, <2>1 DEF Plain, Start, ClientLoop, Set, serverVars, InTime, StoppedInv
  <2>3. ClientInv(c)'
    BY <1>1, <2>1, <2>2 DEF Start, Plain, ClientInv, serverVars
  <2>4. \A d \in Clients \ {c} : Same(d)
    BY <1>1 DEF Plain, Start, ClientLoop, Set, serverVars, Same
  <2> QED
    BY <2>2, <2>3, <2>4
<1>2. CASE Shutdown(c)
  <2>1. /\ app'[c] = "stopping" /\ start'[c] = start[c] /\ hello'[c] = hello[c] /\ nq'[c] = nq[c]
        /\ cnx'[c] = cnx[c] /\ ctx'[c] = ctx[c] /\ early'[c] = early[c] /\ status'[c] = status[c]
        /\ answer'[c] = answer[c]
    BY <1>2 DEF Plain, Shutdown
  <2>2. early[c] => Overtaken(c)'
    BY <2>1, OvertakenFrame DEF ClientInv, Overtaken
  <2>3. ~early[c] => InTime(c)'
    BY <2>1 DEF ClientInv, InTime
  <2>4. ClientInv(c)' /\ StoppedInv(c)'
    BY <2>1, <2>2, <2>3 DEF ClientInv, StoppedInv
  <2>5. \A d \in Clients \ {c} : Same(d)
    BY <1>2 DEF Plain, Shutdown, serverVars, Same
  <2> QED
    BY <2>4, <2>5
<1>3. CASE StartClient(c)
  <2>1. /\ start'[c] = start[c] /\ hello'[c] = hello[c] /\ nq'[c] = nq[c] /\ entry'[c] = entry[c]
        /\ cnx'[c] = cnx[c] /\ ctx'[c] = ctx[c] /\ early'[c] = early[c]
        /\ answer'[c] = answer[c] /\ app[c] = "starting"
    BY <1>3 DEF Plain, StartClient, serverVars
  <2>2. \/ start[c] = "done" /\ app'[c] = "returned" /\ status'[c] = status[c]
        \/ start[c] # "done" /\ app'[c] = "failed" /\ status'[c] = "kFailedToConnect"
    BY <1>3 DEF Plain, StartClient, Set
  <2>3. early[c] => Overtaken(c)'
    BY <2>1, <2>2, OvertakenFrame DEF ClientInv, Overtaken
  <2>4. ~early[c] => InTime(c)'
    BY <2>1, <2>2, ConnectingFrame DEF ClientInv, InTime
  <2>5. ClientInv(c)' /\ StoppedInv(c)'
    BY <2>1, <2>2, <2>3, <2>4 DEF ClientInv, StoppedInv
  <2>6. \A d \in Clients \ {c} : Same(d)
    BY <1>3 DEF Plain, StartClient, Set, serverVars, Same
  <2> QED
    BY <2>5, <2>6
<1>4. CASE Started(c)
  <2>1. /\ start'[c] = start[c] /\ hello'[c] = hello[c] /\ nq'[c] = nq[c] /\ entry'[c] = "known"
        /\ cnx'[c] = cnx[c] /\ ctx'[c] = ctx[c] /\ early'[c] = early[c] /\ answer'[c] = answer[c]
        /\ app[c] = "returned" /\ app'[c] = "running" /\ status'[c] = "kConnecting"
    BY <1>4 DEF Plain, Started, Set, serverVars
  <2>2. early[c] => Overtaken(c)'
    BY <2>1, OvertakenFrame DEF ClientInv, Overtaken
  <2>3. ~early[c] => InTime(c)'
    BY <2>1, ConnectingFrame DEF ClientInv, InTime
  <2>4. ClientInv(c)' /\ StoppedInv(c)'
    BY <2>1, <2>2, <2>3 DEF ClientInv, StoppedInv
  <2>5. \A d \in Clients \ {c} : Same(d)
    BY <1>4 DEF Plain, Started, Set, serverVars, Same
  <2> QED
    BY <2>4, <2>5
<1>5. CASE Joined(c)
  <2>1. /\ start'[c] = start[c] /\ hello'[c] = hello[c] /\ nq'[c] = nq[c] /\ status'[c] = status[c]
        /\ cnx'[c] = cnx[c] /\ ctx'[c] = ctx[c] /\ early'[c] = early[c] /\ answer'[c] = answer[c]
        /\ app'[c] = "joined"
    BY <1>5 DEF Plain, Joined, serverVars
  <2>2. early[c] => Overtaken(c)'
    BY <2>1, OvertakenFrame DEF ClientInv, Overtaken
  <2>3. ~early[c] => InTime(c)'
    BY <2>1 DEF ClientInv, InTime
  <2>4. ClientInv(c)' /\ StoppedInv(c)'
    BY <2>1, <2>2, <2>3 DEF ClientInv, StoppedInv
  <2>5. \A d \in Clients \ {c} : Same(d)
    BY <1>5 DEF Plain, Joined, serverVars, Same
  <2> QED
    BY <2>4, <2>5
<1>6. CASE TouchEntry(c)
  <2>1. /\ start' = start /\ hello' = hello /\ nq' = nq /\ status' = status /\ app' = app
        /\ cnx' = cnx /\ ctx' = ctx /\ early' = early /\ answer' = answer
        /\ entry'[c] = "known" <=> entry[c] = "known"
    BY <1>6 DEF Plain, TouchEntry, serverVars
  <2>2. early[c] => Overtaken(c)'
    BY <2>1 DEF ClientInv, Overtaken
  <2>3. ~early[c] => InTime(c)'
    BY <2>1 DEF ClientInv, InTime, Connecting, Pending, Ready, NotConnected
  <2>4. ClientInv(c)' /\ StoppedInv(c)'
    BY <2>1, <2>2, <2>3 DEF ClientInv, StoppedInv
  <2>5. \A d \in Clients \ {c} : Same(d)
    BY <1>6 DEF Plain, TouchEntry, serverVars, Same
  <2> QED
    BY <2>4, <2>5
<1> QED
  BY <1>1, <1>2, <1>3, <1>4, <1>5, <1>6 DEF Application, Waits

\* A connection that ends: its end goes behind what is queued, once.
LEMMA ClientEnds ==
    ASSUME Plain, NEW c \in Clients, ClientInv(c), StoppedInv(c), cnx[c] # "none",
           NEW r \in Reasons, nq'[c] = IF ctx[c] THEN Append(nq[c], r) ELSE nq[c],
           ctx'[c] = FALSE, cnx'[c] = "closed",
           UNCHANGED <<app, start, status, entry, early, hello, answer>>
    PROVE  ClientInv(c)' /\ StoppedInv(c)'
<1>1. r \in Items /\ "kReady" \in Items /\ "SERVER_SETUP" \in Items
  BY DEF Items
<1>2. /\ Append(Zero, r) = One(r)
      /\ Append(One("kReady"), r) = Two("kReady", r)
      /\ Append(One("SERVER_SETUP"), r) = Two("SERVER_SETUP", r)
  BY <1>1, Short
<1>3. Connecting(c) => Connecting(c)'
  BY <1>2 DEF Connecting
<1>4. Pending(c) => Pending(c)'
  BY <1>2 DEF Pending
<1>5. Ready(c) => Ready(c)'
  BY <1>2 DEF Ready
<1>6. NotConnected(c) => NotConnected(c)'
  BY DEF NotConnected
<1>7. ClientInv(c)'
  <2>1. InTime(c) => InTime(c)'
    BY <1>3, <1>4, <1>5, <1>6 DEF InTime
  <2>2. Overtaken(c) => Overtaken(c)'
    BY <1>2 DEF Overtaken
  <2> QED
    BY <2>1, <2>2 DEF ClientInv
<1>8. StoppedInv(c)'
  BY DEF StoppedInv
<1> QED
  BY <1>7, <1>8

LEMMA ClientLoops ==
    ASSUME Plain, NEW c \in Clients, PacketLoop(c) \/ Network(c) \/ CloseConnection(c),
           ClientInv(c), StoppedInv(c), ServerInv(c)
    PROVE  ClientInv(c)' /\ StoppedInv(c)' /\ \A d \in Clients \ {c} : Same(d)
<1>1. CASE RunStart(c)
  <2>1. /\ start[c] = "posted" /\ start'[c] = "running"
        /\ UNCHANGED <<app, nq, cnx, ctx, status, entry, early, hello, answer>>
    BY <1>1 DEF Plain, RunStart
  <2>2. ~early[c] /\ InTime(c)
    BY <2>1 DEF ClientInv, Overtaken
  <2>3. ClientInv(c)' /\ StoppedInv(c)'
    BY <2>1, <2>2 DEF ClientInv, InTime, StoppedInv
  <2>4. \A d \in Clients \ {c} : Same(d)
    BY <1>1 DEF Plain, RunStart, serverVars, Same
  <2> QED
    BY <2>3, <2>4
<1>2. CASE StartDone(c)
  <2>1. \A d \in Clients \ {c} : Same(d)
    BY <1>2 DEF Plain, StartDone, CreateConnContext, Same
  <2>2. start[c] = "running" /\ UNCHANGED <<app, nq, status, entry, early, hello, answer>>
    BY <1>2 DEF StartDone
  <2>3. /\ ~early[c] /\ InTime(c) /\ nq[c] = Zero /\ ~ctx[c] /\ cnx[c] = "none"
        /\ app[c] \in {"starting", "failed", "stopping", "joined"}
        /\ status[c] \in {"kNotReady", "kFailedToConnect"}
    BY <2>2 DEF ClientInv, Overtaken, InTime, Plain
  <2>4. CASE start'[c] = "failed" /\ UNCHANGED <<cnx, ctx>>
    BY <2>1, <2>2, <2>3, <2>4 DEF ClientInv, InTime, StoppedInv
  <2>5. CASE start'[c] = "done" /\ cnx'[c] = "handshake" /\ ctx'[c] = TRUE
    <3>1. app[c] \in {"starting", "failed"} => Connecting(c)'
      BY <2>2, <2>3, <2>5 DEF ClientInv, Connecting
    <3>2. InTime(c)'
      BY <2>2, <2>3, <2>5, <3>1 DEF InTime
    <3> QED
      BY <2>1, <2>2, <2>3, <2>5, <3>2 DEF ClientInv, StoppedInv
  <2>6. \/ start' = [start EXCEPT ![c] = "failed"] /\ UNCHANGED <<cnx, ctx>>
        \/ /\ start' = [start EXCEPT ![c] = "done"] /\ cnx' = [cnx EXCEPT ![c] = "handshake"]
           /\ ctx' = [ctx EXCEPT ![c] = TRUE]
    BY <1>2 DEF StartDone, CreateConnContext
  <2>7. \/ start'[c] = "failed" /\ UNCHANGED <<cnx, ctx>>
        \/ start'[c] = "done" /\ cnx'[c] = "handshake" /\ ctx'[c] = TRUE
    <3>1. start \in [Clients -> {"none", "posted", "running", "done", "failed"}] /\ ctx \in [Clients -> BOOLEAN]
          /\ cnx \in [Clients -> {"none", "handshake", "ready", "closed"}]
      BY DEF Plain
    <3>2. CASE start' = [start EXCEPT ![c] = "failed"] /\ UNCHANGED <<cnx, ctx>>
      BY <3>1, <3>2
    <3>3. CASE /\ start' = [start EXCEPT ![c] = "done"] /\ cnx' = [cnx EXCEPT ![c] = "handshake"]
               /\ ctx' = [ctx EXCEPT ![c] = TRUE]
      BY <3>1, <3>3
    <3> QED
      BY <2>6, <3>2, <3>3
  <2> QED
    BY <2>4, <2>5, <2>7
<1>3. CASE TimeCheck(c)
  <2>1. \A d \in Clients \ {c} : Same(d)
    BY <1>3 DEF Plain, TimeCheck, Same
  <2>2. CASE UNCHANGED <<cnx, ctx, nq>>
    <3>1. Same(c)
      BY <1>3, <2>2 DEF TimeCheck, Same
    <3> QED
      BY <2>1, <3>1, ClientFrame
  <2>3. CASE /\ cnx[c] # "none" /\ ctx' = [ctx EXCEPT ![c] = FALSE] /\ cnx' = [cnx EXCEPT ![c] = "closed"]
             /\ nq' = IF ctx[c] THEN [nq EXCEPT ![c] = Append(@, "kDisconnected")] ELSE nq
    <3>1. /\ nq'[c] = IF ctx[c] THEN Append(nq[c], "kDisconnected") ELSE nq[c]
          /\ ctx'[c] = FALSE /\ cnx'[c] = "closed"
      BY <2>3 DEF Plain
    <3>2. UNCHANGED <<app, start, status, entry, early, hello, answer>> /\ "kDisconnected" \in Reasons
      BY <1>3 DEF TimeCheck, Reasons
    <3> QED
      BY <2>1, <2>3, <3>1, <3>2, ClientEnds
  <2> QED
    BY <1>3, <2>2, <2>3 DEF TimeCheck
<1>4. CASE RecvAnswer(c)
  <2>1. "SERVER_SETUP" \in Items
    BY DEF Items
  <2>2. Append(Zero, "SERVER_SETUP") = One("SERVER_SETUP")
    BY <2>1, Short
  <2>3. /\ nq'[c] = Append(nq[c], "SERVER_SETUP") /\ answer[c] = "sent" /\ answer'[c] = "received" /\ ctx[c]
        /\ hello[c] = "received"
        /\ UNCHANGED <<app, start, cnx, ctx, status, entry, early, hello>>
    BY <1>4 DEF Plain, RecvAnswer, Notify, ServerInv
  <2>4. Pending(c) => Pending(c)'
    BY <2>2, <2>3 DEF Pending
  <2>5. ~Connecting(c) /\ ~Ready(c) /\ ~NotConnected(c)
    BY <2>3 DEF Connecting, Ready, NotConnected
  <2>6. ClientInv(c)' /\ StoppedInv(c)'
    <3>1. ~early[c] /\ InTime(c)
      BY <2>3 DEF ClientInv, Overtaken
    <3>2. InTime(c)'
      BY <2>3, <2>4, <2>5, <3>1 DEF InTime
    <3> QED
      BY <2>3, <3>1, <3>2 DEF ClientInv, StoppedInv
  <2>7. \A d \in Clients \ {c} : Same(d)
    BY <1>4 DEF Plain, RecvAnswer, Notify, Same
  <2> QED
    BY <2>6, <2>7
<1>5. CASE CallbackReady(c)
  <2>1. "kReady" \in Items
    BY DEF Items
  <2>2. Append(Zero, "kReady") = One("kReady")
    BY <2>1, Short
  <2>3. /\ nq'[c] = Append(nq[c], "kReady") /\ cnx[c] = "handshake" /\ cnx'[c] = "ready"
        /\ UNCHANGED <<app, start, ctx, status, entry, early, hello, answer>>
    BY <1>5 DEF Plain, CallbackReady, Notify
  <2>4. Connecting(c) => Connecting(c)'
    BY <2>2, <2>3 DEF Connecting
  <2>5. ~Pending(c) /\ ~Ready(c) /\ ~NotConnected(c)
    BY <2>3 DEF Pending, Ready, NotConnected
  <2>6. ClientInv(c)' /\ StoppedInv(c)'
    <3>1. ~early[c] /\ InTime(c)
      BY <2>3 DEF ClientInv, Overtaken
    <3>2. InTime(c)'
      BY <2>3, <2>4, <2>5, <3>1 DEF InTime
    <3> QED
      BY <2>3, <3>1, <3>2 DEF ClientInv, StoppedInv
  <2>7. \A d \in Clients \ {c} : Same(d)
    BY <1>5 DEF Plain, CallbackReady, Notify, Same
  <2> QED
    BY <2>6, <2>7
<1>6. ASSUME NEW r \in Reasons, Close(c, r), cnx[c] # "none",
             UNCHANGED <<app, start, status, entry, early, hello, answer>>
      PROVE  ClientInv(c)' /\ StoppedInv(c)' /\ \A d \in Clients \ {c} : Same(d)
  <2>1. /\ nq'[c] = IF ctx[c] THEN Append(nq[c], r) ELSE nq[c]
        /\ ctx'[c] = FALSE /\ cnx'[c] = "closed"
    <3>1. ctx'[c] = FALSE /\ cnx'[c] = "closed"
      BY <1>6 DEF Plain, Close
    <3>2. CASE ctx[c]
      BY <1>6, <3>1, <3>2 DEF Plain, Close, Notify
    <3>3. CASE ~ctx[c]
      BY <1>6, <3>1, <3>3 DEF Plain, Close
    <3> QED
      BY <3>2, <3>3
  <2>2. \A d \in Clients \ {c} : Same(d)
    BY <1>6 DEF Plain, Close, Notify, Same
  <2> QED
    BY <1>6, <2>1, <2>2, ClientEnds
<1>7. ASSUME NEW r \in Reasons, CallbackClose(c, r)
      PROVE  ClientInv(c)' /\ StoppedInv(c)' /\ \A d \in Clients \ {c} : Same(d)
  BY <1>6, <1>7 DEF CallbackClose
<1>8. CASE CloseConnection(c)
  BY <1>6, <1>8 DEF CloseConnection, Reasons
<1> QED
  BY <1>1, <1>2, <1>3, <1>4, <1>5, <1>7, <1>8 DEF PacketLoop, Network

\* What the heads and tails of the short queues are.
Heads ==
    /\ Head(One("kReady")) = "kReady" /\ Tail(One("kReady")) = Zero
    /\ Head(One("SERVER_SETUP")) = "SERVER_SETUP" /\ Tail(One("SERVER_SETUP")) = Zero
    /\ \A r \in Reasons :
        /\ Head(One(r)) = r /\ Tail(One(r)) = Zero
        /\ Head(Two("kReady", r)) = "kReady" /\ Tail(Two("kReady", r)) = One(r)
        /\ Head(Two("SERVER_SETUP", r)) = "SERVER_SETUP" /\ Tail(Two("SERVER_SETUP", r)) = One(r)

LEMMA ShortHeads == Heads
<1>1. "kReady" \in Items /\ "SERVER_SETUP" \in Items /\ \A r \in Reasons : r \in Items
  BY DEF Items
<1> QED
  BY <1>1, Short DEF Heads

\* A callback that is ahead of Transport::Start leaves nothing but the end to come.
LEMMA Overtaking ==
    ASSUME Plain, NEW c \in Clients, NEW x, Notified(c, x), ClientInv(c), early'[c], hello'[c] = hello[c]
    PROVE  Overtaken(c)'
<1>1. /\ app[c] \in {"starting", "returned", "running", "failed"} /\ nq[c] # Zero /\ Head(nq[c]) = x
      /\ nq'[c] = Tail(nq[c]) /\ UNCHANGED <<app, start, cnx, ctx>>
      /\ early[c] \/ app[c] # "running"
  BY DEF Notified, Plain, Zero
<1>2. CASE early[c]
  <2>1. PICK r \in Reasons : nq[c] = One(r)
    BY <1>1, <1>2 DEF ClientInv, Overtaken
  <2>2. nq'[c] = Zero /\ ~ctx[c] /\ cnx[c] = "closed"
    BY <1>1, <1>2, <2>1, ShortHeads, Distinct DEF Heads, ClientInv, Overtaken
  <2> QED
    BY <1>1, <1>2, <2>2 DEF ClientInv, Overtaken
<1>3. CASE ~early[c]
  <2>1. start[c] = "done" /\ Connecting(c) /\ app[c] # "new"
    BY <1>1, <1>3 DEF ClientInv, InTime
  <2>2. CASE nq[c] = One("kReady") /\ ctx[c] /\ cnx[c] = "ready"
    BY <1>1, <2>1, <2>2, ShortHeads DEF Heads, Connecting, Overtaken
  <2>3. ASSUME NEW r \in Reasons, ~ctx[c], cnx[c] = "closed", nq[c] = One(r) \/ nq[c] = Two("kReady", r)
        PROVE  Overtaken(c)'
    <3>1. nq'[c] = Zero \/ nq'[c] = One(r)
      BY <1>1, <2>3, ShortHeads DEF Heads
    <3> QED
      BY <1>1, <2>1, <2>3, <3>1 DEF Connecting, Overtaken
  <2> QED
    BY <1>1, <2>1, <2>2, <2>3 DEF Connecting
<1> QED
  BY <1>2, <1>3

\* SERVER_SETUP comes to a client that has said CLIENT_SETUP.
LEMMA SetupInTime ==
    ASSUME Plain, NEW c \in Clients, Notified(c, "SERVER_SETUP"), ClientInv(c)
    PROVE  ~early[c] /\ app[c] = "running"
<1>1. /\ app[c] \in {"starting", "returned", "running", "failed"}
      /\ nq[c] # Zero /\ Head(nq[c]) = "SERVER_SETUP"
  BY DEF Notified, Zero
<1>2. \A r \in Reasons : nq[c] # One(r) /\ nq[c] # Two("kReady", r)
  BY <1>1, ShortHeads DEF Heads, Reasons
<1>3. nq[c] # One("kReady")
  BY <1>1, ShortHeads DEF Heads
<1>4. ~Overtaken(c) /\ ~Connecting(c)
  BY <1>1, <1>2, <1>3 DEF Overtaken, Connecting
<1> QED
  BY <1>1, <1>4 DEF ClientInv, InTime

\* The callback of a ready connection finds the client connecting.
LEMMA ReadyFirst ==
    ASSUME Plain, NEW c \in Clients, OnReady(c), ClientInv(c), ~early[c], app[c] = "running"
    PROVE  status[c] = "kConnecting" /\ Connecting(c) /\ entry[c] = "known"
<1>1. \A r \in Reasons : Head(One(r)) = r /\ Head(Two("SERVER_SETUP", r)) = "SERVER_SETUP"
  BY ShortHeads DEF Heads
<1>2. Head(One("SERVER_SETUP")) = "SERVER_SETUP"
  BY ShortHeads DEF Heads
<1>3. nq[c] # Zero /\ Head(nq[c]) = "kReady"
  BY DEF OnReady, Notified, Zero
<1> QED
  BY <1>1, <1>2, <1>3 DEF ClientInv, InTime, Pending, Ready, NotConnected, Reasons

\* No CLIENT_SETUP has gone out when that callback comes.
LEMMA ReadyUnsaid ==
    ASSUME Plain, NEW c \in Clients, OnReady(c), ClientInv(c)
    PROVE  hello[c] = "none"
<1>1. app[c] \in {"starting", "returned", "running", "failed"}
  BY DEF OnReady, Notified
<1>2. CASE ~early[c] /\ app[c] = "running"
  BY <1>2, ReadyFirst DEF Connecting
<1> QED
  BY <1>1, <1>2 DEF ClientInv, Overtaken

\* SERVER_SETUP finds the client waiting for it.
LEMMA SetupPending ==
    ASSUME Plain, NEW c \in Clients, ServerSetup(c), ClientInv(c)
    PROVE  status[c] = "kPendingServerSetup" /\ Pending(c)
<1>1. \A r \in Reasons : Head(One(r)) = r /\ Head(Two("kReady", r)) = "kReady"
  BY ShortHeads DEF Heads
<1>2. Head(One("kReady")) = "kReady"
  BY ShortHeads DEF Heads
<1>3. nq[c] # Zero /\ Head(nq[c]) = "SERVER_SETUP" /\ ~early[c] /\ app[c] = "running"
  BY SetupInTime DEF ServerSetup, Notified, Zero
<1> QED
  BY <1>1, <1>2, <1>3 DEF ClientInv, InTime, Connecting, Ready, NotConnected, Reasons

LEMMA ClientNotifier ==
    ASSUME Plain, NEW c \in Clients, Notifier(c), ClientInv(c), StoppedInv(c)
    PROVE  ClientInv(c)' /\ StoppedInv(c)' /\ \A d \in Clients \ {c} : Same(d)
<1>1. ASSUME NEW x, Notified(c, x)
      PROVE  /\ app[c] \in {"starting", "returned", "running", "failed"}
             /\ nq[c] # Zero /\ Head(nq[c]) = x /\ nq'[c] = Tail(nq[c])
             /\ UNCHANGED <<app, start, cnx, ctx>>
  BY <1>1 DEF Notified, Plain, Zero
<1>2. ASSUME NEW x, Notified(c, x) PROVE early'[c] <=> (early[c] \/ app[c] # "running")
  BY <1>2, Zenon DEF Notified, Plain
<1>3. CASE OnReady(c)
  <2>1. /\ app[c] \in {"starting", "returned", "running", "failed"}
        /\ nq[c] # Zero /\ Head(nq[c]) = "kReady" /\ nq'[c] = Tail(nq[c])
        /\ UNCHANGED <<app, start, cnx, ctx, answer>>
    BY <1>1, <1>3 DEF OnReady
  <2>2. early'[c] <=> (early[c] \/ app[c] # "running")
    BY <1>2, <1>3 DEF OnReady
  <2>3. status'[c] = "kPendingServerSetup" /\ (entry'[c] = "known" <=> entry[c] = "known")
    BY <1>3 DEF OnReady, Set, Plain
  <2>4. ClientInv(c)' /\ StoppedInv(c)'
    <3>1. CASE ~early[c] /\ app[c] = "running"
      <4>1. Connecting(c) /\ entry[c] = "known"
        BY <1>3, <3>1, ReadyFirst
      <4>2. ctx[c] => hello'[c] # "none"
        BY <1>3, <4>1 DEF OnReady, SendClientSetup, Plain
      <4>3. Pending(c)'
        BY <2>1, <4>1, <4>2, ShortHeads DEF Heads, Connecting, Pending, Reasons
      <4>4. start[c] = "done" /\ ~early'[c]
        BY <2>2, <3>1 DEF ClientInv, InTime
      <4>5. InTime(c)'
        BY <2>1, <2>3, <3>1, <4>3, <4>4 DEF InTime
      <4> QED
        BY <2>1, <2>3, <3>1, <4>2, <4>4, <4>5 DEF ClientInv, StoppedInv
    <3>2. CASE early[c] \/ app[c] # "running"
      <4>1. hello'[c] = hello[c]
        <5>1. CASE app[c] # "running"
          <6>1. entry[c] # "known"
            BY <2>1, <5>1 DEF ClientInv
          <6> QED
            BY <1>3, <6>1 DEF OnReady, SendClientSetup
        <5>2. CASE early[c]
          <6>1. PICK r \in Reasons : nq[c] = One(r)
            BY <2>1, <5>2 DEF ClientInv, Overtaken
          <6>2. Head(nq[c]) = r
            BY <6>1, ShortHeads DEF Heads
          <6> QED
            BY <2>1, <6>2 DEF Reasons
        <5> QED
          BY <3>2, <5>1, <5>2
      <4>2. Overtaken(c)'
        BY <1>3, <2>2, <3>2, <4>1, Overtaking DEF OnReady
      <4>3. early'[c]
        BY <2>2, <3>2
      <4> QED
        BY <2>1, <2>3, <4>1, <4>2, <4>3 DEF ClientInv, StoppedInv
    <3> QED
      BY <3>1, <3>2
  <2>5. \A d \in Clients \ {c} : Same(d)
    BY <1>3 DEF OnReady, Notified, Set, SendClientSetup, Plain, Same
  <2> QED
    BY <2>4, <2>5
<1>4. CASE ServerSetup(c)
  <2>1. /\ app[c] = "running" /\ ~early[c] /\ nq[c] # Zero /\ Head(nq[c]) = "SERVER_SETUP"
        /\ nq'[c] = Tail(nq[c]) /\ UNCHANGED <<app, start, cnx, ctx, answer, hello, entry>>
    BY <1>1, <1>4, SetupInTime DEF ServerSetup
  <2>2. status[c] = "kPendingServerSetup" /\ Pending(c) /\ start[c] = "done"
    BY <1>4, <2>1, SetupPending DEF ClientInv, InTime
  <2>3. IF ctx[c] THEN status'[c] = "kReady" ELSE status'[c] = "kPendingServerSetup"
    BY <1>4, <2>2 DEF ServerSetup, Set, Plain
  <2>4. IF ctx[c] THEN Ready(c)' ELSE Pending(c)'
    BY <2>1, <2>2, ShortHeads DEF Heads, Pending, Ready, Reasons
  <2>5. ~early'[c]
    BY <1>2, <1>4, <2>1 DEF ServerSetup
  <2>6. InTime(c)'
    BY <2>1, <2>2, <2>3, <2>4 DEF InTime
  <2>7. ClientInv(c)' /\ StoppedInv(c)'
    BY <2>1, <2>3, <2>4, <2>5, <2>6 DEF ClientInv, StoppedInv, Ready
  <2>8. \A d \in Clients \ {c} : Same(d)
    BY <1>4 DEF ServerSetup, Notified, Set, Plain, Same
  <2> QED
    BY <2>7, <2>8
<1>5. ASSUME NEW r \in Reasons, OnClosed(c, r)
      PROVE  ClientInv(c)' /\ StoppedInv(c)' /\ \A d \in Clients \ {c} : Same(d)
  <2>1. /\ app[c] \in {"starting", "returned", "running", "failed"}
        /\ nq[c] # Zero /\ Head(nq[c]) = r /\ nq'[c] = Tail(nq[c])
        /\ UNCHANGED <<app, start, cnx, ctx, hello, answer>>
    BY <1>1, <1>5 DEF OnClosed
  <2>2. early'[c] <=> (early[c] \/ app[c] # "running")
    BY <1>2, <1>5 DEF OnClosed
  <2>3. status'[c] = "kNotConnected" /\ entry'[c] = "none"
    BY <1>5 DEF OnClosed, Set, Plain
  <2>4. nq[c] # One("kReady") /\ nq[c] # One("SERVER_SETUP")
    BY <2>1, ShortHeads DEF Heads, Reasons
  <2>5. \A q \in Reasons : nq[c] # Two("kReady", q) /\ nq[c] # Two("SERVER_SETUP", q)
    BY <2>1, ShortHeads DEF Heads, Reasons
  <2>6. start[c] = "done" /\ ~ctx[c] /\ cnx[c] = "closed" /\ \E q \in Reasons : nq[c] = One(q)
    <3>1. CASE early[c]
      BY <2>1, <3>1 DEF ClientInv, Overtaken
    <3>2. CASE ~early[c]
      BY <2>1, <2>4, <2>5, <3>2 DEF ClientInv, InTime, Connecting, Pending, Ready, NotConnected
    <3> QED
      BY <3>1, <3>2
  <2>7. nq'[c] = Zero
    BY <2>1, <2>6, ShortHeads DEF Heads
  <2>8. ClientInv(c)' /\ StoppedInv(c)'
    <3>1. CASE ~early[c] /\ app[c] = "running"
      <4>1. ~early'[c] /\ InTime(c)'
        BY <2>1, <2>2, <2>3, <2>6, <2>7, <3>1 DEF InTime, NotConnected
      <4> QED
        BY <2>1, <2>3, <3>1, <4>1 DEF ClientInv, StoppedInv
    <3>2. CASE early[c] \/ app[c] # "running"
      <4>1. early'[c]
        BY <2>2, <3>2
      <4>2. Overtaken(c)'
        BY <1>5, <2>1, <2>6, <4>1, Overtaking DEF OnClosed
      <4> QED
        BY <2>1, <2>3, <4>1, <4>2 DEF ClientInv, StoppedInv
    <3> QED
      BY <3>1, <3>2
  <2>9. \A d \in Clients \ {c} : Same(d)
    BY <1>5 DEF OnClosed, Notified, Set, Plain, Same
  <2> QED
    BY <2>8, <2>9
<1> QED
  BY <1>3, <1>4, <1>5 DEF Notifier

-----------------------------------------------------------------------------
(* The server's side of the invariant. *)

\* The server's queue as a function.
Queue(n) == DOMAIN snq = 1..n /\ \A i \in 1..n : snq[i][1] \in Clients /\ snq[i][2] \in ServerItems

LEMMA ServerFrame ==
    ASSUME NEW d, UNCHANGED snq, sctx'[d] = sctx[d], sentry'[d] = sentry[d],
           answer'[d] = "none" <=> answer[d] = "none", hello'[d] = "received" <=> hello[d] = "received",
           ServerInv(d)
    PROVE  ServerInv(d)'
BY DEF ServerInv, Of, Ending

\* A step of a client leaves the server's invariant alone.
LEMMA ServerClientStep ==
    ASSUME Plain, NEW c \in Clients, NEW d \in Clients,
           ClientInv(c), ServerInv(c), ServerInv(d),
           Application(c) \/ Waits(c) \/ PacketLoop(c) \/ Network(c) \/ CloseConnection(c) \/ Notifier(c)
    PROVE  ServerInv(d)'
<1>1. UNCHANGED serverVars
  BY DEF Application, Waits, PacketLoop, Network, Notifier, Start, Shutdown, TouchEntry, StartClient, Started, Joined,
         RunStart, StartDone, TimeCheck, RecvAnswer, CallbackReady, CallbackClose, CloseConnection,
         OnReady, ServerSetup, OnClosed, Notified
<1>2. CASE RecvAnswer(c)
  BY <1>1, <1>2, ServerFrame DEF RecvAnswer, Plain, serverVars
<1>3. CASE OnReady(c)
  <2>1. hello[c] = "none" /\ UNCHANGED answer
    BY <1>3, ReadyUnsaid DEF OnReady
  <2>2. hello'[d] = "received" <=> hello[d] = "received"
    BY <1>3, <2>1 DEF OnReady, SendClientSetup, Plain
  <2> QED
    BY <1>1, <2>1, <2>2, ServerFrame DEF serverVars
<1>4. CASE ~RecvAnswer(c) /\ ~OnReady(c)
  <2>1. UNCHANGED <<hello, answer>>
    BY <1>4 DEF Application, Waits, PacketLoop, Network, Notifier, Start, Shutdown, TouchEntry, StartClient, Started, Joined,
         RunStart, StartDone, TimeCheck, CallbackReady, CallbackClose, CloseConnection, ServerSetup, OnClosed
  <2> QED
    BY <1>1, <2>1, ServerFrame DEF serverVars
<1> QED
  BY <1>2, <1>3, <1>4

\* What an item at the end does to the queue.
LEMMA QueueAppend ==
    ASSUME TypeOK, NEW c \in Clients, NEW w \in ServerItems, snq' = Append(snq, <<c, w>>)
    PROVE  \E n \in Nat : /\ Queue(n) /\ DOMAIN snq' = 1..(n + 1)
                          /\ \A i \in 1..n : snq'[i] = snq[i]
                          /\ snq'[n + 1][1] = c /\ snq'[n + 1][2] = w
<1>1. snq \in Seq(Clients \X ServerItems) /\ <<c, w>> \in Clients \X ServerItems
  BY DEF TypeOK, ServerItems
<1>2. PICK n \in Nat : n = Len(snq)
  BY <1>1
<1>3. DOMAIN snq = 1..n /\ \A i \in 1..n : snq[i] \in Clients \X ServerItems
  BY <1>1, <1>2
<1>4. /\ snq' \in Seq(Clients \X ServerItems) /\ Len(snq') = n + 1
      /\ \A i \in 1..n : snq'[i] = snq[i]
      /\ snq'[n + 1] = <<c, w>>
  BY <1>1, <1>2, AppendProperties
<1>5. DOMAIN snq' = 1..(n + 1)
  BY <1>4
<1>6. Queue(n)
  BY <1>3 DEF Queue
<1> QED
  BY <1>4, <1>5, <1>6

\* What taking the first item does to the queue.
LEMMA QueueTail ==
    ASSUME TypeOK, snq # <<>>, snq' = Tail(snq)
    PROVE  \E n \in Nat : /\ Queue(n + 1) /\ DOMAIN snq' = 1..n
                          /\ \A i \in 1..n : snq'[i] = snq[i + 1]
                          /\ Head(snq) = <<snq[1][1], snq[1][2]>>
<1>1. snq \in Seq(Clients \X ServerItems)
  BY DEF TypeOK, ServerItems
<1>2. PICK l \in Nat : l = Len(snq)
  BY <1>1
<1>3. l # 0
  BY <1>1, <1>2, EmptySeq
<1>4. PICK n \in Nat : n + 1 = l
  <2>1. l - 1 \in Nat /\ (l - 1) + 1 = l
    BY <1>3
  <2> QED
    BY <2>1
<1>5. DOMAIN snq = 1..(n + 1) /\ \A i \in 1..(n + 1) : snq[i] \in Clients \X ServerItems
  BY <1>1, <1>2, <1>4
<1>6. /\ snq' \in Seq(Clients \X ServerItems) /\ Len(snq') = n
      /\ \A i \in 1..n : snq'[i] = snq[i + 1]
  <2>1. /\ Tail(snq) \in Seq(Clients \X ServerItems)
        /\ Len(Tail(snq)) = Len(snq) - 1
        /\ \A i \in 1..Len(Tail(snq)) : Tail(snq)[i] = snq[i + 1]
    BY <1>1, HeadTailProperties
  <2>2. Len(Tail(snq)) = n
    <3>1. l - 1 = n
      BY <1>4
    <3> QED
      BY <1>2, <2>1, <3>1
  <2> QED
    BY <2>1, <2>2
<1>7. Head(snq) = snq[1] /\ snq[1] \in Clients \X ServerItems
  BY <1>1, <1>5
<1>8. DOMAIN snq' = 1..n
  BY <1>6
<1>9. Queue(n + 1)
  BY <1>5 DEF Queue
<1> QED
  BY <1>6, <1>7, <1>8, <1>9

\* The items of a client other than c are untouched by an item of c's.
LEMMA AppendOther ==
    ASSUME NEW n \in Nat, Queue(n), DOMAIN snq' = 1..(n + 1), \A i \in 1..n : snq'[i] = snq[i],
           NEW c, NEW d, snq'[n + 1][1] = c, d # c,
           sctx'[d] = sctx[d], sentry'[d] = sentry[d], answer'[d] = answer[d], hello'[d] = hello[d],
           ServerInv(d)
    PROVE  ServerInv(d)'
<1>1. \A i \in 1..(n + 1) : i \in 1..n \/ i = n + 1
  OBVIOUS
<1>2. \A i \in DOMAIN snq' : snq'[i][1] = d => i \in DOMAIN snq /\ snq'[i] = snq[i]
  BY <1>1 DEF Queue
<1>3. \A i \in DOMAIN snq : i \in DOMAIN snq' /\ snq'[i] = snq[i]
  BY DEF Queue
<1>4. \A w : Of(d, w)' = Of(d, w)
  BY <1>2, <1>3 DEF Of
<1>5. Ending(d)' = Ending(d)
  BY <1>2, <1>3 DEF Ending
<1> QED
  BY <1>2, <1>3, <1>4, <1>5 DEF ServerInv

LEMMA ServerLoops ==
    ASSUME TypeOK, NEW c \in Clients, NEW d \in Clients, ServerLoop(c), ServerInv(d)
    PROVE  ServerInv(d)' /\ Same(d)
<1>1. Plain
  BY PlainTypes
<1>2. ASSUME NEW w \in ServerItems, snq' = Append(snq, <<c, w>>), d # c,
             sctx'[d] = sctx[d], sentry'[d] = sentry[d], answer'[d] = answer[d], hello'[d] = hello[d]
      PROVE  ServerInv(d)'
  <2>1. PICK n \in Nat : /\ Queue(n) /\ DOMAIN snq' = 1..(n + 1)
                         /\ \A i \in 1..n : snq'[i] = snq[i]
                         /\ snq'[n + 1][1] = c
    BY <1>2, QueueAppend
  <2> QED
    BY <1>2, <2>1, AppendOther
<1>3. CASE Accept(c)
  <2>1. Same(d)
    BY <1>3 DEF Accept, clientVars, Same
  <2>2. "new" \in ServerItems /\ snq' = Append(snq, <<c, "new">>) /\ UNCHANGED <<hello, answer, sentry>>
    BY <1>3 DEF Accept, ServerItems
  <2>3. CASE d # c
    BY <1>1, <1>2, <1>3, <2>1, <2>2, <2>3 DEF Accept, Plain
  <2>4. CASE d = c
    <3>1. PICK n \in Nat : /\ Queue(n) /\ DOMAIN snq' = 1..(n + 1)
                           /\ \A i \in 1..n : snq'[i] = snq[i]
                           /\ snq'[n + 1][1] = c /\ snq'[n + 1][2] = "new"
      BY <2>2, QueueAppend
    <3>2. sctx[c] = "none" /\ sctx'[c] = "open"
      BY <1>1, <1>3 DEF Accept, Plain
    <3>3. /\ sentry[c] = "none" /\ hello[c] # "received" /\ answer[c] = "none"
          /\ \A i \in 1..n : snq[i][1] # c
      BY <2>4, <3>1, <3>2 DEF ServerInv, Queue
    <3>4. \A i \in 1..(n + 1) : snq'[i][1] = c => i = n + 1
      BY <3>1, <3>3
    <3>5. Of(c, "new")' = {n + 1} /\ Of(c, "CLIENT_SETUP")' = {} /\ Ending(c)' = {}
      BY <3>1, <3>4 DEF Of, Ending, Reasons
    <3> QED
      BY <2>1, <2>2, <2>4, <3>1, <3>2, <3>3, <3>4, <3>5 DEF ServerInv
  <2> QED
    BY <2>3, <2>4
<1>4. CASE RecvHello(c)
  <2>1. Same(d)
    BY <1>1, <1>4 DEF RecvHello, clientVars, Same, Plain
  <2>2. "CLIENT_SETUP" \in ServerItems /\ snq' = Append(snq, <<c, "CLIENT_SETUP">>) /\ UNCHANGED <<sctx, answer, sentry>>
    BY <1>4 DEF RecvHello, ServerItems
  <2>3. CASE d # c
    BY <1>1, <1>2, <1>4, <2>1, <2>2, <2>3 DEF RecvHello, Plain
  <2>4. CASE d = c
    <3>1. PICK n \in Nat : /\ Queue(n) /\ DOMAIN snq' = 1..(n + 1)
                           /\ \A i \in 1..n : snq'[i] = snq[i]
                           /\ snq'[n + 1][1] = c /\ snq'[n + 1][2] = "CLIENT_SETUP"
      BY <2>2, QueueAppend
    <3>2. sctx[c] = "open" /\ hello[c] = "sent" /\ hello'[c] = "received"
      BY <1>1, <1>4 DEF RecvHello, Plain
    <3>3. answer[c] = "none" /\ Of(c, "CLIENT_SETUP") = {} /\ Ending(c) = {}
      BY <2>4, <3>2 DEF ServerInv
    <3>4. \A i \in 1..(n + 1) : i \in 1..n \/ i = n + 1
      OBVIOUS
    <3>5. Of(c, "new")' = Of(c, "new") /\ Of(c, "CLIENT_SETUP")' = {n + 1} /\ Ending(c)' = {}
      BY <3>1, <3>3, <3>4 DEF Of, Ending, Queue, Reasons
    <3>6. \A i \in Of(c, "new")', j \in DOMAIN snq' : snq'[j][1] = c => i <= j
      <4>1. \A i \in Of(c, "new")', j \in 1..n : snq[j][1] = c => i <= j
        BY <2>4, <3>1, <3>5 DEF ServerInv, Queue
      <4>2. \A i \in Of(c, "new")' : i <= n + 1
        BY <3>1, <3>5 DEF Of, Queue
      <4> QED
        BY <3>1, <3>4, <4>1, <4>2
    <3> QED
      BY <2>1, <2>2, <2>4, <3>2, <3>3, <3>5, <3>6 DEF ServerInv
  <2> QED
    BY <2>3, <2>4
<1>5. ASSUME NEW r \in Reasons, ServerClose(c, r) PROVE ServerInv(d)' /\ Same(d)
  <2>1. Same(d)
    BY <1>5 DEF ServerClose, clientVars, Same
  <2>2. r \in ServerItems /\ snq' = Append(snq, <<c, r>>) /\ UNCHANGED <<hello, answer, sentry>>
    BY <1>5 DEF ServerClose, ServerItems
  <2>3. CASE d # c
    BY <1>1, <1>2, <1>5, <2>1, <2>2, <2>3 DEF ServerClose, Plain
  <2>4. CASE d = c
    <3>1. PICK n \in Nat : /\ Queue(n) /\ DOMAIN snq' = 1..(n + 1)
                           /\ \A i \in 1..n : snq'[i] = snq[i]
                           /\ snq'[n + 1][1] = c /\ snq'[n + 1][2] = r
      BY <2>2, QueueAppend
    <3>2. sctx[c] = "open" /\ sctx'[c] = "closed"
      BY <1>1, <1>5 DEF ServerClose, Plain
    <3>3. Ending(c) = {}
      BY <2>4, <3>2 DEF ServerInv
    <3>4. \A i \in 1..(n + 1) : i \in 1..n \/ i = n + 1
      OBVIOUS
    <3>5. /\ Of(c, "new")' = Of(c, "new") /\ Of(c, "CLIENT_SETUP")' = Of(c, "CLIENT_SETUP")
          /\ Ending(c)' = {n + 1}
      BY <3>1, <3>3, <3>4 DEF Of, Ending, Queue, Reasons
    <3>6. \A i \in Of(c, "new")', j \in DOMAIN snq' : snq'[j][1] = c => i <= j
      <4>1. \A i \in Of(c, "new")', j \in 1..n : snq[j][1] = c => i <= j
        BY <2>4, <3>1, <3>5 DEF ServerInv, Queue
      <4>2. \A i \in Of(c, "new")' : i <= n + 1
        BY <3>1, <3>5 DEF Of, Queue
      <4> QED
        BY <3>1, <3>4, <4>1, <4>2
    <3>7. \A i \in Ending(c)', j \in DOMAIN snq' : snq'[j][1] = c => j <= i
      BY <3>1, <3>5
    <3> QED
      BY <2>1, <2>2, <2>4, <3>2, <3>5, <3>6, <3>7 DEF ServerInv
  <2> QED
    BY <2>3, <2>4
<1>6. CASE ServerTouchEntry(c)
  <2>1. Same(d)
    BY <1>6 DEF ServerTouchEntry, clientVars, Same
  <2>2. /\ UNCHANGED <<snq, sctx, hello, answer>>
        /\ sentry'[d] = sentry[d] \/ (sctx[d] # "none" /\ sentry[d] = "none" /\ sentry'[d] = "blank")
    BY <1>1, <1>6 DEF ServerTouchEntry, Plain
  <2>3. (\A w : Of(d, w)' = Of(d, w)) /\ Ending(d)' = Ending(d)
    BY <2>2 DEF Of, Ending
  <2>4. ServerInv(d)'
    BY <2>2, <2>3 DEF ServerInv
  <2> QED
    BY <2>1, <2>4
<1> QED
  BY <1>3, <1>4, <1>5, <1>6 DEF ServerLoop

LEMMA ServerCallback ==
    ASSUME TypeOK, NEW d \in Clients, ServerNotified, \A x \in Clients : ServerInv(x)
    PROVE  ServerInv(d)' /\ Same(d)
<1>1. snq # <<>> /\ snq' = Tail(snq) /\ UNCHANGED <<clientVars, hello, sctx>>
  BY DEF ServerNotified
<1>2. PICK n \in Nat : /\ Queue(n + 1) /\ DOMAIN snq' = 1..n
                       /\ \A i \in 1..n : snq'[i] = snq[i + 1]
                       /\ Head(snq) = <<snq[1][1], snq[1][2]>>
  BY <1>1, QueueTail
<1>c. PICK c \in Clients : c = snq[1][1]
  BY <1>2 DEF Queue
<1>w. PICK w \in ServerItems : w = snq[1][2]
  BY <1>2 DEF Queue
<1>3. DOMAIN snq = 1..(n + 1) /\ 1 \in 1..(n + 1) /\ snq[1][1] = c /\ snq[1][2] = w
  BY <1>2, <1>c, <1>w DEF Queue
<1>4. \A i \in 1..n : i + 1 \in 1..(n + 1)
  OBVIOUS
<1>5. \A i \in 1..(n + 1) : i = 1 \/ (i - 1 \in 1..n /\ (i - 1) + 1 = i)
  OBVIOUS
<1>6. Plain
  BY PlainTypes
<1>7. /\ w = "new" => sentry' = [sentry EXCEPT ![c] = "known"] /\ answer' = answer
      /\ w = "CLIENT_SETUP" /\ sctx[c] = "open" =>
             sentry' = [sentry EXCEPT ![c] = "setup"] /\ answer' = [answer EXCEPT ![c] = "sent"]
      /\ w = "CLIENT_SETUP" /\ sctx[c] # "open" => sentry' = sentry /\ answer' = answer
      /\ w \in Reasons => sentry' = [sentry EXCEPT ![c] = "none"] /\ answer' = answer
  BY <1>2, <1>3, ServerEffect
<1>8. w = "new" \/ w = "CLIENT_SETUP" \/ w \in Reasons
  BY <1>3 DEF ServerItems
<1>9. ServerInv(c) /\ sctx[c] # "none"
  BY <1>3 DEF ServerInv
<1>10. \A x, v : \A i \in Of(x, v)' : i \in 1..n /\ i + 1 \in Of(x, v)
  BY <1>2, <1>3, <1>4 DEF Of
<1>11. \A x : \A i \in Ending(x)' : i \in 1..n /\ i + 1 \in Ending(x)
  BY <1>2, <1>3, <1>4 DEF Ending
<1>12. \A x : \A i \in Ending(x) : i = 1 \/ i - 1 \in Ending(x)'
  BY <1>2, <1>3, <1>5 DEF Ending
<1>13. \A x : (\A i \in DOMAIN snq : snq[i][1] # x) => (\A i \in DOMAIN snq' : snq'[i][1] # x)
  BY <1>2, <1>3, <1>4
<1>14. (\A i \in Of(d, "new"), j \in DOMAIN snq : snq[j][1] = d => i <= j)
         => (\A i \in Of(d, "new")', j \in DOMAIN snq' : snq'[j][1] = d => i <= j)
  <2> SUFFICES ASSUME \A i \in Of(d, "new"), j \in DOMAIN snq : snq[j][1] = d => i <= j,
                      NEW i \in Of(d, "new")', NEW j \in DOMAIN snq', snq'[j][1] = d
               PROVE  i <= j
    OBVIOUS
  <2>1. i \in 1..n /\ i + 1 \in Of(d, "new")
    BY <1>10
  <2>2. j \in 1..n /\ j + 1 \in DOMAIN snq /\ snq[j + 1][1] = d
    BY <1>2, <1>3, <1>4
  <2>3. i + 1 <= j + 1
    BY <2>1, <2>2
  <2> QED
    BY <2>1, <2>2, <2>3
<1>15. (\A i \in Ending(d), j \in DOMAIN snq : snq[j][1] = d => j <= i)
         => (\A i \in Ending(d)', j \in DOMAIN snq' : snq'[j][1] = d => j <= i)
  <2> SUFFICES ASSUME \A i \in Ending(d), j \in DOMAIN snq : snq[j][1] = d => j <= i,
                      NEW i \in Ending(d)', NEW j \in DOMAIN snq', snq'[j][1] = d
               PROVE  j <= i
    OBVIOUS
  <2>1. i \in 1..n /\ i + 1 \in Ending(d)
    BY <1>11
  <2>2. j \in 1..n /\ j + 1 \in DOMAIN snq /\ snq[j + 1][1] = d
    BY <1>2, <1>3, <1>4
  <2>3. j + 1 <= i + 1
    BY <2>1, <2>2
  <2> QED
    BY <2>1, <2>2, <2>3
<1>16. (\A i, j \in Of(d, "CLIENT_SETUP") : i = j) => (\A i, j \in Of(d, "CLIENT_SETUP")' : i = j)
  <2> SUFFICES ASSUME \A i, j \in Of(d, "CLIENT_SETUP") : i = j,
                      NEW i \in Of(d, "CLIENT_SETUP")', NEW j \in Of(d, "CLIENT_SETUP")'
               PROVE  i = j
    OBVIOUS
  <2>1. i \in 1..n /\ j \in 1..n /\ i + 1 = j + 1
    BY <1>10
  <2> QED
    BY <2>1
<1>17. ServerInv(d)'
  <2>1. CASE d # c
    <3>1. sentry'[d] = sentry[d] /\ answer'[d] = answer[d]
      BY <1>6, <1>7, <1>8, <2>1 DEF Plain
    <3>2. Ending(d) # {} => Ending(d)' # {}
      BY <1>3, <1>12, <2>1 DEF Ending
    <3> QED
      BY <1>1, <1>10, <1>11, <1>13, <1>14, <1>15, <1>16, <3>1, <3>2 DEF ServerInv
  <2>2. CASE d = c /\ w = "new"
    <3>1. 1 \in Of(c, "new")
      BY <1>3, <2>2 DEF Of
    <3>2. \A i \in Of(c, "new") : i = 1
      BY <1>3, <1>9, <3>1 DEF ServerInv, Of
    <3>3. Of(c, "new")' = {}
      BY <1>10, <3>2
    <3>4. sentry'[c] = "known" /\ answer' = answer /\ answer[c] = "none"
      BY <1>6, <1>7, <1>9, <1>3, <2>2, <3>1 DEF Plain, ServerInv
    <3>5. 1 \notin Ending(c)
      BY <1>3, <2>2 DEF Ending, Reasons
    <3>6. sctx[c] = "closed" => Ending(c)' # {}
      <4>1. sctx[c] = "closed" => Ending(c) # {}
        BY <1>3, <1>9 DEF ServerInv
      <4> QED
        BY <1>12, <3>5, <4>1
    <3> QED
      BY <1>1, <1>9, <1>10, <1>11, <1>14, <1>15, <1>16, <2>2, <3>3, <3>4, <3>6 DEF ServerInv
  <2>3. CASE d = c /\ w = "CLIENT_SETUP"
    <3>1. 1 \in Of(c, "CLIENT_SETUP") /\ 1 \notin Ending(c) /\ 1 \notin Of(c, "new")
      BY <1>3, <2>3 DEF Of, Ending, Reasons
    <3>2. Of(c, "CLIENT_SETUP")' = {}
      <4>1. \A i \in Of(c, "CLIENT_SETUP") : i = 1
        BY <1>9, <3>1 DEF ServerInv
      <4> QED
        BY <1>10, <4>1
    <3>3. Of(c, "new") = {}
      <4>1. \A i \in Of(c, "new") : i \in 1..(n + 1) /\ i <= 1
        BY <1>3, <1>9 DEF ServerInv, Of
      <4>2. \A i \in Of(c, "new") : i = 1
        BY <4>1
      <4> QED
        BY <3>1, <4>2
    <3>4. Of(c, "new")' = {}
      BY <1>10, <3>3
    <3>5. hello[c] = "received" /\ answer[c] = "none"
      BY <1>9, <3>1 DEF ServerInv
    <3>6. sctx[c] = "closed" => Ending(c)' # {}
      <4>1. sctx[c] = "closed" => Ending(c) # {}
        BY <1>3, <1>9 DEF ServerInv
      <4> QED
        BY <1>12, <3>1, <4>1
    <3>7. CASE sctx[c] = "open"
      <4>1. sentry'[c] = "setup" /\ answer'[c] = "sent"
        BY <1>3, <1>6, <1>7, <2>3, <3>7 DEF Plain
      <4> QED
        BY <1>1, <1>9, <1>11, <1>15, <2>3, <3>2, <3>4, <3>5, <3>7, <4>1 DEF ServerInv
    <3>8. CASE sctx[c] = "closed"
      <4>1. sentry' = sentry /\ answer' = answer
        BY <1>7, <2>3, <3>8
      <4> QED
        BY <1>1, <1>9, <1>11, <1>15, <2>3, <3>2, <3>4, <3>5, <3>6, <3>8, <4>1 DEF ServerInv
    <3> QED
      BY <1>3, <1>6, <1>9, <3>7, <3>8 DEF Plain
  <2>4. CASE d = c /\ w \in Reasons
    <3>1. 1 \in Ending(c)
      BY <1>3, <2>4 DEF Ending
    <3>2. \A j \in 1..(n + 1) : snq[j][1] = c => j = 1
      BY <1>3, <1>9, <3>1 DEF ServerInv
    <3>3. \A j \in DOMAIN snq' : snq'[j][1] # c
      <4> SUFFICES ASSUME NEW j \in 1..n, snq[j + 1][1] = c PROVE FALSE
        BY <1>2
      <4>1. j + 1 = 1
        BY <1>4, <3>2
      <4> QED
        BY <4>1
    <3>4. (\A v : Of(c, v)' = {}) /\ Ending(c)' = {}
      BY <3>3 DEF Of, Ending
    <3>5. sentry'[c] = "none" /\ answer' = answer /\ sctx[c] = "closed"
      BY <1>3, <1>6, <1>7, <1>9, <2>4, <3>1 DEF Plain, ServerInv
    <3> QED
      BY <1>1, <1>9, <2>4, <3>3, <3>4, <3>5 DEF ServerInv
  <2> QED
    BY <1>8, <2>1, <2>2, <2>3, <2>4
<1>18. Same(d)
  <2>1. answer[d] = "received" => answer'[d] = "received"
    <3>1. answer' = answer \/ (w = "CLIENT_SETUP" /\ answer' = [answer EXCEPT ![c] = "sent"])
      BY <1>7, <1>8
    <3>2. w = "CLIENT_SETUP" => answer[c] = "none"
      <4>1. w = "CLIENT_SETUP" => 1 \in Of(c, "CLIENT_SETUP")
        BY <1>3 DEF Of
      <4> QED
        BY <1>9, <4>1 DEF ServerInv
    <3> QED
      BY <1>6, <3>1, <3>2 DEF Plain
  <2> QED
    BY <1>1, <2>1 DEF Same, clientVars
<1> QED
  BY <1>17, <1>18

-----------------------------------------------------------------------------
(* The theorems. *)

LEMMA InvInit == Init => IInv
<1> SUFFICES ASSUME Init PROVE IInv
  OBVIOUS
<1>1. TypeOK
  BY TypeInit
<1>2. snq = <<>> /\ DOMAIN snq = {}
  BY DEF Init
<1> SUFFICES ASSUME NEW c \in Clients PROVE ClientInv(c) /\ StoppedInv(c) /\ ServerInv(c)
  BY <1>1 DEF IInv
<1>3. ClientInv(c) /\ StoppedInv(c)
  BY DEF Init, ClientInv, InTime, StoppedInv, Zero
<1>4. ServerInv(c)
  BY <1>2 DEF Init, ServerInv, Of, Ending
<1> QED
  BY <1>3, <1>4

LEMMA InvNext ==
    ASSUME IInv, [Next]_vars
    PROVE  IInv'
<1>1. TypeOK' /\ Plain
  BY TypeNext, PlainTypes DEF IInv
<1> SUFFICES ASSUME NEW d \in Clients PROVE ClientInv(d)' /\ StoppedInv(d)' /\ ServerInv(d)'
  BY <1>1 DEF IInv
<1>2. TypeOK /\ ClientInv(d) /\ StoppedInv(d) /\ ServerInv(d) /\ \A x \in Clients : ServerInv(x)
  BY DEF IInv
<1>3. CASE UNCHANGED vars
  <2>1. Same(d)
    BY <1>3 DEF vars, clientVars, Same
  <2> QED
    BY <1>2, <1>3, <2>1, ClientFrame, ServerFrame DEF vars, serverVars
<1>4. CASE ServerNotified
  BY <1>2, <1>4, ServerCallback, ClientFrame
<1>5. ASSUME NEW c \in Clients, ServerLoop(c) PROVE ClientInv(d)' /\ StoppedInv(d)' /\ ServerInv(d)'
  BY <1>2, <1>5, ServerLoops, ClientFrame
<1>6. ASSUME NEW c \in Clients,
             Application(c) \/ Waits(c) \/ PacketLoop(c) \/ Network(c) \/ CloseConnection(c) \/ Notifier(c)
      PROVE  ClientInv(d)' /\ StoppedInv(d)' /\ ServerInv(d)'
  <2>1. ClientInv(c) /\ StoppedInv(c) /\ ServerInv(c)
    BY DEF IInv
  <2>2. ServerInv(d)'
    BY <1>1, <1>2, <1>6, <2>1, ServerClientStep
  <2>3. ClientInv(c)' /\ StoppedInv(c)' /\ \A x \in Clients \ {c} : Same(x)
    BY <1>1, <1>6, <2>1, ClientApplication, ClientLoops, ClientNotifier
  <2>4. CASE d # c
    BY <1>2, <2>2, <2>3, <2>4, ClientFrame
  <2> QED
    BY <2>2, <2>3, <2>4
<1> QED
  BY <1>3, <1>4, <1>5, <1>6 DEF Next

\* Every variable of a session keeps its type, whatever the notifiers do.
THEOREM TypeCorrect == Spec => []TypeOK
BY TypeInit, TypeNext, PTL DEF Spec

LEMMA Invariant == Spec => []IInv
<1>1. IInv /\ [Next]_vars => IInv'
  BY InvNext
<1> QED
  BY InvInit, <1>1, PTL DEF Spec

\* A ready client has a server that has set the session up or has closed it.
THEOREM ReadyIsAgreed == Spec => []ReadyAgreed
<1>1. IInv => ReadyAgreed
  BY DEF IInv, StoppedInv, ServerInv, ReadyAgreed
<1> QED
  BY <1>1, Invariant, PTL

\* CLIENT_SETUP has gone out wherever SERVER_SETUP is waited for, unless OnConnection-
\* Status was ahead of Transport::Start or the connection is gone.
THEOREM PendingIsAsked == Spec => []PendingAsked
<1>1. IInv => PendingAsked
  BY DEF IInv, StoppedInv, PendingAsked
<1> QED
  BY <1>1, Invariant, PTL

\* Entries of connections_ that have a handle go with their connections, at both ends.
THEOREM NoZombies == Spec => []NoZombie
<1>1. ASSUME IInv PROVE NoZombie
  <2>1. ASSUME NEW c \in Clients, entry[c] = "known", app[c] = "running", ~early[c], ~ctx[c] PROVE Closing(nq[c])
    <3>1. ClientInv(c)
      BY <1>1 DEF IInv
    <3>2. PICK r \in Reasons : nq[c] = One(r) \/ nq[c] = Two("kReady", r) \/ nq[c] = Two("SERVER_SETUP", r)
      BY <2>1, <3>1 DEF ClientInv, InTime, Connecting, Pending, Ready, NotConnected
    <3>3. /\ 1 \in DOMAIN <<r>> /\ <<r>>[1] = r
          /\ \A x : 2 \in DOMAIN <<x, r>> /\ <<x, r>>[2] = r
      OBVIOUS
    <3> QED
      BY <3>2, <3>3 DEF Closing, One, Two
  <2>2. ASSUME NEW c \in Clients, sentry[c] \in {"known", "setup"}, sctx[c] # "open"
        PROVE  \E i \in DOMAIN snq : snq[i][1] = c /\ snq[i][2] \in Reasons
    <3>1. ServerInv(c) /\ sctx[c] \in {"none", "open", "closed"}
      BY <1>1 DEF IInv, TypeOK
    <3> QED
      BY <2>2, <3>1 DEF ServerInv, Ending
  <2> QED
    BY <2>1, <2>2 DEF NoZombie
<1> QED
  BY <1>1, Invariant, PTL

\* The statuses of every client follow Session: the detailed life of a connection, with
\* its threads and its queue, implements the one the application is promised.
THEOREM Refinement == Spec => Implements
<1>1. Init => Abstract!Init
  BY DEF Init, Abstract!Init, seen
<1>2. ASSUME IInv, [Next]_vars PROVE [Abstract!Next]_seen
  <2>1. Plain /\ \A c \in Clients : ClientInv(c) /\ StoppedInv(c)
    BY <1>2, PlainTypes DEF IInv
  <2>2. ASSUME NEW c \in Clients, NEW x, seen' = [seen EXCEPT ![c] = x], x \in Abstract!Steps[seen[c]]
        PROVE  Abstract!Next
    BY <2>2 DEF Abstract!Next
  <2>3. /\ "kPendingServerSetup" \in Abstract!Steps["kConnecting"]
        /\ "kNotConnected" \in Abstract!Steps["kConnecting"]
        /\ "kReady" \in Abstract!Steps["kPendingServerSetup"]
        /\ "kNotConnected" \in Abstract!Steps["kPendingServerSetup"]
        /\ "kNotConnected" \in Abstract!Steps["kReady"]
        /\ "kConnecting" \in Abstract!Steps["kNotReady"]
        /\ "kFailedToConnect" \in Abstract!Steps["kNotReady"]
        /\ "kOvertaken" \in Abstract!Steps["kNotReady"]
        /\ "kOvertaken" \in Abstract!Steps["kFailedToConnect"]
    BY DEF Abstract!Steps
  <2>s. ASSUME UNCHANGED <<status, early>> PROVE UNCHANGED seen
    BY <2>s DEF seen
  <2>c. ASSUME NEW c \in Clients, NEW x, Set(c, x), early' = early
        PROVE  seen' = IF early[c] THEN seen ELSE [seen EXCEPT ![c] = x]
    BY <2>c, <2>1 DEF seen, Set, Plain
  <2>e. ASSUME NEW c \in Clients, NEW x, early' = [early EXCEPT ![c] = TRUE], status' = status \/ Set(c, x)
        PROVE  seen' = [seen EXCEPT ![c] = "kOvertaken"]
    <3>1. \A d \in Clients : d # c => status'[d] = status[d] /\ early'[d] = early[d]
      BY <2>e, <2>1 DEF Set, Plain
    <3>2. early'[c]
      BY <2>e, <2>1 DEF Plain
    <3> QED
      BY <3>1, <3>2 DEF seen
  <2>4. CASE UNCHANGED vars
    BY <2>4, <2>s DEF vars, clientVars
  <2>5. CASE ServerNotified
    BY <2>5, <2>s DEF ServerNotified, clientVars
  <2>6. ASSUME NEW c \in Clients, ServerLoop(c) PROVE UNCHANGED seen
    BY <2>6, <2>s DEF ServerLoop, Accept, RecvHello, ServerClose, ServerTouchEntry, clientVars
  <2>7. ASSUME NEW c \in Clients, PacketLoop(c) \/ Network(c) \/ CloseConnection(c) PROVE UNCHANGED seen
    BY <2>7, <2>s DEF PacketLoop, Network, RunStart, StartDone, TimeCheck, RecvAnswer, CallbackReady, CallbackClose,
                CloseConnection
  <2>8. ASSUME NEW c \in Clients, Application(c) \/ Waits(c) PROVE UNCHANGED seen \/ Abstract!Next
    <3>1. app[c] \in {"new", "starting", "returned"} /\ ~early[c] => status[c] = "kNotReady"
      BY <2>1 DEF ClientInv, InTime
    <3>2. /\ UNCHANGED early
          /\ \/ UNCHANGED status
             \/ /\ app[c] \in {"new", "starting", "returned"}
                /\ Set(c, "kConnecting") \/ Set(c, "kFailedToConnect")
      BY <2>8 DEF Application, Waits, Start, Shutdown, TouchEntry, StartClient, Started, Joined
    <3>3. CASE UNCHANGED status
      BY <2>s, <3>2, <3>3
    <3>4. ASSUME NEW x \in {"kConnecting", "kFailedToConnect"}, Set(c, x), app[c] \in {"new", "starting", "returned"}
          PROVE  UNCHANGED seen \/ Abstract!Next
      <4>1. CASE early[c]
        BY <2>c, <3>2, <3>4, <4>1
      <4>2. CASE ~early[c]
        <5>1. seen[c] = "kNotReady"
          BY <3>1, <3>4, <4>2 DEF seen
        <5>2. seen' = [seen EXCEPT ![c] = x]
          BY <2>c, <3>2, <3>4, <4>2
        <5> QED
          BY <2>2, <2>3, <5>1, <5>2
      <4> QED
        BY <4>1, <4>2
    <3> QED
      BY <3>2, <3>3, <3>4
  <2>9. ASSUME NEW c \in Clients, Notifier(c) PROVE UNCHANGED seen \/ Abstract!Next
    <3>1. PICK x : Notified(c, x)
      BY <2>9 DEF Notifier, OnReady, ServerSetup, OnClosed
    <3>2. \/ Set(c, "kPendingServerSetup") /\ OnReady(c)
          \/ ServerSetup(c) /\ status' = status
          \/ ServerSetup(c) /\ Set(c, "kReady")
          \/ \E r \in Reasons : OnClosed(c, r) /\ Set(c, "kNotConnected")
      BY <2>9 DEF Notifier, OnReady, ServerSetup, OnClosed
    <3>3. CASE early[c] \/ app[c] # "running"
      <4>1. early' = [early EXCEPT ![c] = TRUE]
        BY <3>1, <3>3, Zenon DEF Notified
      <4>2. seen' = [seen EXCEPT ![c] = "kOvertaken"]
        BY <2>e, <3>2, <4>1
      <4>3. CASE early[c]
        <5>1. seen[c] = "kOvertaken"
          BY <4>3 DEF seen
        <5> QED
          BY <4>2, <5>1 DEF seen
      <4>4. CASE ~early[c]
        <5>1. app[c] \in {"starting", "returned", "failed"}
          BY <3>1, <3>3, <4>4 DEF Notified
        <5>2. seen[c] \in {"kNotReady", "kFailedToConnect"}
          BY <2>1, <4>4, <5>1 DEF seen, ClientInv, InTime, StoppedInv
        <5> QED
          BY <2>2, <2>3, <4>2, <5>2
      <4> QED
        BY <4>3, <4>4
    <3>4. CASE ~early[c] /\ app[c] = "running"
      <4>1. early' = early
        BY <2>1, <3>1, <3>4 DEF Notified, Plain
      <4>2. seen[c] = status[c]
        BY <3>4 DEF seen
      <4>3. CASE OnReady(c)
        <5>1. status[c] = "kConnecting" /\ Set(c, "kPendingServerSetup")
          BY <2>1, <3>4, <4>3, ReadyFirst DEF OnReady
        <5>2. seen' = [seen EXCEPT ![c] = "kPendingServerSetup"]
          BY <2>c, <3>4, <4>1, <5>1
        <5> QED
          BY <2>2, <2>3, <4>2, <5>1, <5>2
      <4>4. CASE ServerSetup(c) /\ status' = status
        BY <2>s, <4>1, <4>4
      <4>5. CASE ServerSetup(c) /\ Set(c, "kReady")
        <5>1. status[c] = "kPendingServerSetup"
          BY <2>1, <4>5, SetupPending
        <5>2. seen' = [seen EXCEPT ![c] = "kReady"]
          BY <2>c, <3>4, <4>1, <4>5
        <5> QED
          BY <2>2, <2>3, <4>2, <5>1, <5>2
      <4>6. ASSUME NEW r \in Reasons, OnClosed(c, r), Set(c, "kNotConnected") PROVE Abstract!Next
        <5>1. status[c] \in {"kConnecting", "kPendingServerSetup", "kReady"}
          BY <2>1, <3>4, <4>6 DEF OnClosed, Notified, ClientInv, InTime, NotConnected, Zero
        <5>2. seen' = [seen EXCEPT ![c] = "kNotConnected"]
          BY <2>c, <3>4, <4>1, <4>6
        <5> QED
          BY <2>2, <2>3, <4>2, <5>1, <5>2
      <4> QED
        BY <3>2, <4>3, <4>4, <4>5, <4>6
    <3> QED
      BY <3>3, <3>4
  <2> QED
    BY <1>2, <2>4, <2>5, <2>6, <2>7, <2>8, <2>9 DEF Next
<1>3. IInv /\ [Next]_vars => [Abstract!Next]_seen
  BY <1>2
<1> QED
  BY <1>1, <1>3, Invariant, PTL DEF Spec, Implements, Abstract!Spec
=============================================================================
