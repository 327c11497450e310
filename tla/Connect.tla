------------------------------- MODULE Connect -------------------------------
(***************************************************************************)
(* The life of a session: clients and one server.                          *)
(*                                                                         *)
(* A client has three threads: the application (Client::Connect, and the   *)
(* destructor that shuts the transport down), the picoquic packet loop     *)
(* (PqRunner, PqEventCb, PqLoopCb) and the notifier, which takes callbacks *)
(* out of cbNotifyQueue_ and runs Transport::OnConnectionStatus and the    *)
(* control messages.  The server has the packet loop and the notifier, and *)
(* is told of every client by the same queue.                              *)
(*                                                                         *)
(* A connection is one client's; QUIC carries CLIENT_SETUP and             *)
(* SERVER_SETUP in order and loses them when the connection closes.        *)
(***************************************************************************)
EXTENDS Naturals, Sequences, FiniteSets

CONSTANTS
    Clients,
    SlowStart   \* StartClient may time out while its function runs

ASSUME ConnectAssumption == SlowStart \in BOOLEAN

Reasons == {"kIdleTimeout", "kRemoteRequestClose", "kDisconnected"}

VARIABLES
    app,      \* the application thread of a client
    start,    \* the function StartClient has posted: "none", "posted", "running", "done", "failed"
    wild,     \* the function wrote to StartClient's variables after it had returned
    tstatus,  \* transportStatus_
    loop,     \* the packet loop runs
    cnx,      \* the client's connection in picoquic
    ctx,      \* conn_context_ has the connection
    nq,       \* cbNotifyQueue_
    status,   \* Transport::status_
    entry,    \* connections_: "none", "blank" (its handle not set), "known"
    early,    \* history: a callback ran without Transport::Start having stored the handle
    hello,    \* CLIENT_SETUP: "none", "sent", "received"
    answer,   \* SERVER_SETUP: likewise
    sctx,     \* the server's conn_context_: "none", "open", "closed"
    sentry,   \* the server's connections_: "none", "blank", "known", "setup"
    snq       \* the server's cbNotifyQueue_

clientVars == <<app, start, wild, tstatus, loop, cnx, ctx, nq, status, entry, early>>
serverVars == <<sctx, sentry, snq>>
vars == <<clientVars, hello, answer, serverVars>>

Init ==
    /\ app = [c \in Clients |-> "new"]
    /\ start = [c \in Clients |-> "none"]
    /\ wild = [c \in Clients |-> FALSE]
    /\ tstatus = [c \in Clients |-> "kConnecting"]
    /\ loop = [c \in Clients |-> FALSE]
    /\ cnx = [c \in Clients |-> "none"]
    /\ ctx = [c \in Clients |-> FALSE]
    /\ nq = [c \in Clients |-> <<>>]
    /\ status = [c \in Clients |-> "kNotReady"]
    /\ entry = [c \in Clients |-> "none"]
    /\ early = [c \in Clients |-> FALSE]
    /\ hello = [c \in Clients |-> "none"]
    /\ answer = [c \in Clients |-> "none"]
    /\ sctx = [c \in Clients |-> "none"]
    /\ sentry = [c \in Clients |-> "none"]
    /\ snq = <<>>

Notify(c, what) == nq' = [nq EXCEPT ![c] = Append(@, what)]
Set(c, s) == status' = [status EXCEPT ![c] = s]

-----------------------------------------------------------------------------
(* The client's application thread. *)

\* The network thread: it runs, or picoquic has not started it.
ClientLoop(c, runs) == loop' = [loop EXCEPT ![c] = runs]

\* Transport::Start up to the wait in StartClient: the loop runs and the function that
\* makes the connection is posted.
Start(c) ==
    /\ app[c] = "new"
    /\ \/ /\ ClientLoop(c, TRUE)
          /\ app' = [app EXCEPT ![c] = "starting"]
          /\ start' = [start EXCEPT ![c] = "posted"]
          /\ UNCHANGED status
       \/ /\ ClientLoop(c, FALSE)
          /\ app' = [app EXCEPT ![c] = "failed"]
          /\ Set(c, "kFailedToConnect")
          /\ UNCHANGED start
    /\ UNCHANGED <<wild, tstatus, cnx, ctx, nq, entry, early, hello, answer, serverVars>>

\* The wait ends: the function has given an id, or an error, or it took too long.
StartClient(c) ==
    /\ app[c] = "starting"
    /\ start[c] \in {"done", "failed"} \/ SlowStart
    /\ IF start[c] = "done"
       THEN /\ app' = [app EXCEPT ![c] = "returned"]
            /\ UNCHANGED <<tstatus, status>>
       ELSE /\ app' = [app EXCEPT ![c] = "failed"]
            /\ tstatus' = [tstatus EXCEPT ![c] = "kDisconnected"]
            /\ Set(c, "kFailedToConnect")
    /\ UNCHANGED <<start, wild, loop, cnx, ctx, nq, entry, early, hello, answer, serverVars>>

\* The rest of Transport::Start.
Started(c) ==
    /\ app[c] = "returned"
    /\ app' = [app EXCEPT ![c] = "running"]
    /\ Set(c, "kConnecting")
    /\ entry' = [entry EXCEPT ![c] = "known"]
    /\ UNCHANGED <<start, wild, tstatus, loop, cnx, ctx, nq, early, hello, answer, serverVars>>

\* ~PicoQuicTransport and Shutdown, of a client that runs or whose start has failed.
Shutdown(c) ==
    /\ app[c] \in {"running", "failed"}
    /\ app' = [app EXCEPT ![c] = "stopping"]
    /\ tstatus' = [tstatus EXCEPT ![c] = "kShuttingDown"]
    /\ UNCHANGED <<start, wild, loop, cnx, ctx, nq, status, entry, early, hello, answer, serverVars>>

\* connections_[conn_id]: the entry is made when it is missing.  UnsubscribeTrack does
\* it at any time, the metrics while the packet loop has the connection.
TouchEntry(c) ==
    /\ app[c] = "running" \/ (loop[c] /\ ctx[c])
    /\ entry' = [entry EXCEPT ![c] = IF @ = "none" THEN "blank" ELSE @]
    /\ UNCHANGED <<app, start, wild, tstatus, loop, cnx, ctx, nq, status, early, hello, answer, serverVars>>

\* The network thread has ended and the others are joined.
Joined(c) ==
    /\ app[c] = "stopping" /\ ~loop[c]
    /\ app' = [app EXCEPT ![c] = "joined"]
    /\ UNCHANGED <<start, wild, tstatus, loop, cnx, ctx, nq, status, entry, early, hello, answer, serverVars>>

-----------------------------------------------------------------------------
(* The client's packet loop. *)

\* PqRunner takes the function of StartClient, which may take its time.
RunStart(c) ==
    /\ loop[c] /\ start[c] = "posted" /\ tstatus[c] # "kDisconnected"
    /\ start' = [start EXCEPT ![c] = "running"]
    /\ UNCHANGED <<app, wild, tstatus, loop, cnx, ctx, nq, status, entry, early, hello, answer, serverVars>>

CreateConnContext(c) == ctx' = [ctx EXCEPT ![c] = TRUE]

\* It makes the connection, and writes the id, or an error, for the caller.
StartDone(c) ==
    /\ start[c] = "running"
    /\ wild' = [wild EXCEPT ![c] = app[c] # "starting"]
    /\ \/ /\ start' = [start EXCEPT ![c] = "failed"]
          /\ UNCHANGED <<cnx, ctx>>
       \/ /\ start' = [start EXCEPT ![c] = "done"]
          /\ cnx' = [cnx EXCEPT ![c] = "handshake"]
          /\ CreateConnContext(c)
    /\ UNCHANGED <<app, tstatus, loop, nq, status, entry, early, hello, answer, serverVars>>

\* The end of the connection is told to the notifier, and the client stops its loop.
Close(c, reason) ==
    /\ ctx' = [ctx EXCEPT ![c] = FALSE]
    /\ IF ctx[c]
       THEN /\ Notify(c, reason)
            /\ tstatus' = [tstatus EXCEPT ![c] = "kShutdown"]
       ELSE UNCHANGED <<nq, tstatus>>
    /\ cnx' = [cnx EXCEPT ![c] = "closed"]

\* picoquic_callback_ready.
CallbackReady(c) ==
    /\ loop[c] /\ cnx[c] = "handshake"
    /\ cnx' = [cnx EXCEPT ![c] = "ready"]
    /\ tstatus' = [tstatus EXCEPT ![c] = "kReady"]
    /\ Notify(c, "kReady")
    /\ UNCHANGED <<app, start, wild, loop, ctx, status, entry, early, hello, answer, serverVars>>

\* picoquic_callback_close, and application_close: the peer's end, or an idle timeout.
CallbackClose(c, reason) ==
    /\ loop[c] /\ cnx[c] \in {"handshake", "ready"}
    /\ Close(c, reason)
    /\ UNCHANGED <<app, start, wild, loop, status, entry, early, hello, answer, serverVars>>

\* A control message that breaks the protocol: CloseConnection on the notifier thread.
CloseConnection(c) ==
    /\ app[c] = "running" /\ cnx[c] = "ready" /\ ctx[c] /\ entry[c] = "known"
    /\ Close(c, "kDisconnected")
    /\ UNCHANGED <<app, start, wild, loop, status, entry, early, hello, answer, serverVars>>

\* Mutant: the connections are not closed first.
TimeCheckAbrupt(c) ==
    /\ loop[c] /\ start[c] # "running"
    /\ tstatus[c] \in {"kDisconnected", "kShutdown"}
    /\ loop' = [loop EXCEPT ![c] = FALSE]
    /\ UNCHANGED <<app, start, wild, tstatus, cnx, ctx, nq, status, entry, early, hello, answer, serverVars>>

\* PqLoopCb: the loop ends once the transport is shut down, and on the way there it
\* closes the connections.
TimeCheck(c) ==
    /\ loop[c] /\ start[c] # "running"
    /\ \/ /\ tstatus[c] \in {"kDisconnected", "kShutdown"} \/ (tstatus[c] = "kShuttingDown" /\ cnx[c] = "none")
          /\ loop' = [loop EXCEPT ![c] = FALSE]
          /\ UNCHANGED <<tstatus, cnx, ctx, nq>>
       \/ /\ tstatus[c] = "kShuttingDown" /\ cnx[c] # "none"
          /\ ctx' = [ctx EXCEPT ![c] = FALSE]
          /\ nq' = IF ctx[c] THEN [nq EXCEPT ![c] = Append(@, "kDisconnected")] ELSE nq
          /\ cnx' = [cnx EXCEPT ![c] = "closed"]
          /\ tstatus' = [tstatus EXCEPT ![c] = "kShutdown"]
          /\ UNCHANGED loop
    /\ UNCHANGED <<app, start, wild, status, entry, early, hello, answer, serverVars>>

-----------------------------------------------------------------------------
(* The client's notifier. *)

\* It ends with Shutdown, and may be ahead of the application in Transport::Start.
Notified(c, what) ==
    /\ nq[c] # <<>> /\ Head(nq[c]) = what
    /\ app[c] \in {"starting", "returned", "running", "failed"}
    /\ nq' = [nq EXCEPT ![c] = Tail(@)]
    /\ early' = [early EXCEPT ![c] = @ \/ app[c] # "running"]
    /\ UNCHANGED <<app, start, wild, tstatus, loop, cnx, ctx, serverVars>>

\* Mutant: only for an entry that was not there before.
SendClientSetupNew(c) ==
    hello' = IF entry[c] = "none" /\ ctx[c] THEN [hello EXCEPT ![c] = "sent"] ELSE hello

\* CLIENT_SETUP.  It is lost when the entry has no connection handle yet, or the
\* connection is gone.
SendClientSetup(c) ==
    hello' = IF entry[c] = "known" /\ ctx[c] THEN [hello EXCEPT ![c] = "sent"] ELSE hello

\* Mutant: the session is called ready without SERVER_SETUP.
OnReadyAtOnce(c) ==
    /\ Notified(c, "kReady")
    /\ Set(c, "kReady")
    /\ entry' = [entry EXCEPT ![c] = IF @ = "none" THEN "blank" ELSE @]
    /\ SendClientSetup(c)
    /\ UNCHANGED answer

\* OnConnectionStatus(kReady): the control stream, CLIENT_SETUP.
OnReady(c) ==
    /\ Notified(c, "kReady")
    /\ Set(c, "kPendingServerSetup")
    /\ entry' = [entry EXCEPT ![c] = IF @ = "none" THEN "blank" ELSE @]
    /\ SendClientSetup(c)
    /\ UNCHANGED answer

\* Mutant: the entry of a connection that has ended stays.
OnClosedKept(c, reason) ==
    /\ Notified(c, reason)
    /\ Set(c, "kNotConnected")
    /\ UNCHANGED <<entry, hello, answer>>

\* Mutant: the status goes back to connecting.
OnClosedAgain(c, reason) ==
    /\ Notified(c, reason)
    /\ Set(c, "kConnecting")
    /\ entry' = [entry EXCEPT ![c] = "none"]
    /\ UNCHANGED <<hello, answer>>

\* OnConnectionStatus of an end.
OnClosed(c, reason) ==
    /\ Notified(c, reason)
    /\ Set(c, "kNotConnected")
    /\ entry' = [entry EXCEPT ![c] = "none"]
    /\ UNCHANGED <<hello, answer>>

\* Mutant: the status is not set.
ServerSetupSilent(c) == Notified(c, "SERVER_SETUP") /\ UNCHANGED <<status, entry, hello, answer>>

\* SERVER_SETUP, unless its stream went with the connection.
ServerSetup(c) ==
    /\ Notified(c, "SERVER_SETUP")
    /\ IF ctx[c] THEN Set(c, "kReady") ELSE UNCHANGED status
    /\ UNCHANGED <<entry, hello, answer>>

-----------------------------------------------------------------------------
(* The server. *)

\* picoquic_callback_ready: CreateConnContext, OnNewConnection.
Accept(c) ==
    /\ sctx[c] = "none" /\ cnx[c] = "ready"
    /\ sctx' = [sctx EXCEPT ![c] = "open"]
    /\ snq' = Append(snq, <<c, "new">>)
    /\ UNCHANGED <<clientVars, hello, answer, sentry>>

\* Data on the control stream.
RecvHello(c) ==
    /\ sctx[c] = "open" /\ hello[c] = "sent"
    /\ hello' = [hello EXCEPT ![c] = "received"]
    /\ snq' = Append(snq, <<c, "CLIENT_SETUP">>)
    /\ UNCHANGED <<clientVars, answer, sctx, sentry>>

\* The connection closes on the server's side, for the client's end or a timeout.
ServerClose(c, reason) ==
    /\ sctx[c] = "open"
    /\ cnx[c] = "closed" \/ reason = "kIdleTimeout"
    /\ sctx' = [sctx EXCEPT ![c] = "closed"]
    /\ snq' = Append(snq, <<c, reason>>)
    /\ UNCHANGED <<clientVars, hello, answer, sentry>>

\* Transport::OnNewConnection.
NewConnection(c) == sentry' = [sentry EXCEPT ![c] = "known"]

\* The same with UnsubscribeTrack and the metrics of the server.
ServerTouchEntry(c) ==
    /\ sctx[c] # "none"
    /\ sentry' = [sentry EXCEPT ![c] = IF @ = "none" THEN "blank" ELSE @]
    /\ UNCHANGED <<clientVars, hello, answer, sctx, snq>>

SendServerSetup(c) == answer' = [answer EXCEPT ![c] = "sent"]

\* The notifier's next callback.
ServerNotified ==
    /\ snq # <<>>
    /\ snq' = Tail(snq)
    /\ LET c == Head(snq)[1]
           what == Head(snq)[2]
       IN  CASE what = "new" ->
                  NewConnection(c) /\ UNCHANGED answer
             [] what = "CLIENT_SETUP" ->
                  IF sctx[c] = "open"
                  THEN /\ sentry' = [sentry EXCEPT ![c] = "setup"]
                       /\ SendServerSetup(c)
                  ELSE UNCHANGED <<sentry, answer>>
             [] what \in Reasons ->
                  sentry' = [sentry EXCEPT ![c] = "none"] /\ UNCHANGED answer
    /\ UNCHANGED <<clientVars, hello, sctx>>

\* SERVER_SETUP arrives at the client.
RecvAnswer(c) ==
    /\ answer[c] = "sent" /\ ctx[c] /\ loop[c]
    /\ answer' = [answer EXCEPT ![c] = "received"]
    /\ Notify(c, "SERVER_SETUP")
    /\ UNCHANGED <<app, start, wild, tstatus, loop, cnx, ctx, status, entry, early, hello, serverVars>>

-----------------------------------------------------------------------------
Application(c) == Start(c) \/ Shutdown(c) \/ TouchEntry(c)
Waits(c) == StartClient(c) \/ Started(c) \/ Joined(c)
PacketLoop(c) == RunStart(c) \/ StartDone(c) \/ TimeCheck(c) \/ RecvAnswer(c)
Network(c) == CallbackReady(c) \/ \E r \in Reasons : CallbackClose(c, r)
Notifier(c) == OnReady(c) \/ ServerSetup(c) \/ \E r \in Reasons : OnClosed(c, r)
ServerLoop(c) == Accept(c) \/ RecvHello(c) \/ ServerTouchEntry(c) \/ \E r \in Reasons : ServerClose(c, r)

Next ==
    \/ \E c \in Clients :
        Application(c) \/ Waits(c) \/ PacketLoop(c) \/ Network(c) \/ CloseConnection(c) \/ Notifier(c) \/ ServerLoop(c)
    \/ ServerNotified

Spec == Init /\ [][Next]_vars

\* A handshake ends, one way or the other, and a connection the server has dropped ends.
Ends(c) == (cnx[c] = "handshake" \/ sctx[c] = "closed") /\ Network(c)

\* Threads run and packet loops turn; only the application, the peer's will to close and
\* the timeouts of a connection that works may stay away.
Fairness ==
    /\ \A c \in Clients :
        /\ WF_vars(Waits(c)) /\ WF_vars(PacketLoop(c)) /\ WF_vars(Notifier(c)) /\ WF_vars(Ends(c))
        /\ WF_vars(Accept(c)) /\ WF_vars(RecvHello(c))
    /\ WF_vars(ServerNotified)

FairSpec == Spec /\ Fairness

-----------------------------------------------------------------------------
(* Properties. *)

Closing(q) == \E i \in DOMAIN q : q[i] \in Reasons

\* Type invariant.
TypeOK ==
    /\ app \in [Clients -> {"new", "starting", "returned", "running", "stopping", "joined", "failed"}]
    /\ start \in [Clients -> {"none", "posted", "running", "done", "failed"}]
    /\ wild \in [Clients -> BOOLEAN] /\ loop \in [Clients -> BOOLEAN] /\ ctx \in [Clients -> BOOLEAN]
    /\ tstatus \in [Clients -> {"kConnecting", "kReady", "kDisconnected", "kShuttingDown", "kShutdown"}]
    /\ cnx \in [Clients -> {"none", "handshake", "ready", "closed"}]
    /\ nq \in [Clients -> Seq({"kReady", "SERVER_SETUP"} \cup Reasons)]
    /\ status \in [Clients -> {"kNotReady", "kConnecting", "kPendingServerSetup", "kReady",
                               "kNotConnected", "kFailedToConnect"}]
    /\ entry \in [Clients -> {"none", "blank", "known"}] /\ early \in [Clients -> BOOLEAN]
    /\ hello \in [Clients -> {"none", "sent", "received"}]
    /\ answer \in [Clients -> {"none", "sent", "received"}]
    /\ sctx \in [Clients -> {"none", "open", "closed"}]
    /\ sentry \in [Clients -> {"none", "blank", "known", "setup"}]
    /\ snq \in Seq(Clients \X ({"new", "CLIENT_SETUP"} \cup Reasons))

\* A client that calls itself ready has a server that has set the session up, or has
\* closed it since.
ReadyAgreed == \A c \in Clients : status[c] = "kReady" => sentry[c] = "setup" \/ sctx[c] = "closed"

\* A client that waits for SERVER_SETUP has sent CLIENT_SETUP, or its connection is gone,
\* or OnConnectionStatus was ahead of Transport::Start and has lost it.
PendingAsked ==
    \A c \in Clients : status[c] = "kPendingServerSetup" => hello[c] # "none" \/ ~ctx[c] \/ early[c]

\* No entry of connections_ that has its handle outlives its connection, on either side:
\* its end is queued.  A client whose callbacks were ahead of Transport::Start may have
\* one; blank ones are made again by connections_[conn_id] and stay.
NoZombie ==
    /\ \A c \in Clients : entry[c] = "known" /\ app[c] = "running" /\ ~early[c] => ctx[c] \/ Closing(nq[c])
    /\ \A c \in Clients : sentry[c] \in {"known", "setup"} =>
           sctx[c] = "open" \/ \E i \in DOMAIN snq : snq[i][1] = c /\ snq[i][2] \in Reasons

\* The function StartClient posts does not write to variables that are gone.
NoWildWrite == \A c \in Clients : ~wild[c]

seen == [c \in Clients |-> IF early[c] THEN "kOvertaken" ELSE status[c]]

Abstract == INSTANCE Session WITH Clients <- Clients, status <- seen

\* The statuses the application sees (Transport::status_) follow Session: OnConnection-
\* Status and SERVER_SETUP set them in one order, and none comes back, unless a callback
\* was ahead of Transport::Start.
Implements == Abstract!Spec

\* The destructor of the client's transport comes to an end, unless CallbackReady has
\* written kReady over its kShuttingDown.
Stops == \A c \in Clients : app[c] = "stopping" ~> app[c] = "joined" \/ tstatus[c] = "kReady"

\* A client that has started becomes ready, or is told that it is not connected, unless
\* a callback was ahead of Transport::Start.
Connects ==
    \A c \in Clients :
        app[c] = "running" ~> status[c] \in {"kReady", "kNotConnected"} \/ app[c] # "running" \/ early[c]
=============================================================================
