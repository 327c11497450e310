---------------------------- MODULE Subscriber ----------------------------
(***************************************************************************)
(* The subscribing side of one client connection: SubscribeTrack, Fetch-   *)
(* Track and their counterparts in transport.cpp, the replies handled by   *)
(* Client::ProcessCtrlMessage, and the loss of the connection.             *)
(*                                                                         *)
(* Application threads run the API, the notifier thread the replies.       *)
(* UnsubscribeTrack takes the lock only for its second half, and Pause,    *)
(* Resume and RequestNewGroup never take it: each is cut in two.  Client:: *)
(* ProcessCtrlMessage takes none either: the API may run between its find  *)
(* and what it does through the iterator, which is a step of its own.      *)
(*                                                                         *)
(* The server is external.  It gets what is sent at once and answers when  *)
(* it likes; its answers wait in toClient, in order.  The stream that      *)
(* carries the objects of a fetch is another QUIC stream, so its end may   *)
(* come before the answer.                                                 *)
(***************************************************************************)
EXTENDS Integers, Sequences, FiniteSets

CONSTANTS
    Subs,      \* SubscribeTrackHandlers, each of its own track
    Joining,   \* those that were given a joining fetch
    Absolute,  \* those with an absolute filter
    Fetches,   \* FetchTrackHandlers
    None,      \* nullopt, or no entry
    Overlap,   \* do several application threads use the connection?
    Again,     \* may a handler be subscribed that is subscribed already?
    MayClose,  \* may the connection be lost?
    MaxReq,    \* bound: request ids 0 .. MaxReq - 1, for 0, 2, 4, ...
    MaxTo      \* bound: answers under way

ASSUME SubscriberAssumption ==
    /\ Joining \subseteq Subs /\ Absolute \subseteq Subs /\ Subs \cap Fetches = {}
    /\ None \notin Subs \cup Fetches \cup Nat
    /\ Overlap \in BOOLEAN /\ Again \in BOOLEAN /\ MayClose \in BOOLEAN /\ MaxReq \in Nat /\ MaxTo \in Nat

Handlers == Subs \cup Fetches
Req == 0 .. MaxReq - 1

Status == {"kOk", "kNotConnected", "kError", "kNotSubscribed", "kPendingResponse",
           "kPaused", "kDoneByFin", "kDoneByReset"}
Removable == {"kOk", "kDoneByFin", "kDoneByReset"}

Idle == [op |-> "idle", h |-> None, rid |-> None]
NoReply == [type |-> "none", h |-> None, req |-> None]

VARIABLES
    ctx,        \* the entry of connections_: open, swept by OnConnectionStatus,
                \* none, or blank, as operator[] creates it
    status,     \* status_ of a handler
    reqId,      \* request_id_
    alias,      \* received_track_alias_: has it one?  Its value is the track
    subTracks,  \* sub_tracks_by_request_id
    joins,      \* the ids in it that belong to a JoiningFetchHandler
    byAlias,    \* sub_by_recv_track_alias: the handlers found through it
    nextReq,    \* next_request_id
    call,       \* the API call that runs outside the lock
    reply,      \* the answer the notifier thread handles, with the entry it found
    crashed,    \* an undefined access or std::terminate has ended the process
    peer,       \* the server's view of a request
    toClient,   \* its answers under way
    silent,     \* history: status a subscription had when it was dropped unsaid
    ghost,      \* history: handlers that claim kOk without a subscription
    stray       \* history: handlers entered by alias after their request was erased

conVars == <<ctx, nextReq, crashed>>
handlerVars == <<status, reqId, alias>>
mapVars == <<subTracks, joins, byAlias>>
peerVars == <<peer, toClient>>
histVars == <<silent, ghost, stray>>
vars == <<conVars, handlerVars, mapVars, call, reply, peerVars, histVars>>

\* Types; in particular a map by request id leads to handlers only, and an answer under
\* way names a request that can have been made.
TypeOK ==
    /\ ctx \in {"open", "swept", "none", "blank"}
    /\ status \in [Handlers -> Status]
    /\ reqId \in [Handlers -> Req \cup {None}]
    /\ alias \in [Subs -> BOOLEAN]
    /\ subTracks \in [Req -> Handlers \cup {None}]
    /\ joins \subseteq Req
    /\ byAlias \subseteq Subs
    /\ nextReq \in 0 .. MaxReq
    /\ call \in [op : {"idle", "unsub", "update"}, h : Subs \cup {None}, rid : Req \cup {None}]
    /\ reply \in [type : {"none", "SubscribeOk", "Aliased", "SubscribeError", "PublishDone", "FetchOk",
                          "FetchError"}, h : Handlers \cup {None}, req : Req \cup {None}]
    /\ crashed \in BOOLEAN
    /\ peer \in [Req -> {"none", "sub", "subOk", "fetch", "fetchOk", "status", "over"}]
    /\ toClient \in Seq([type : {"SubscribeOk", "SubscribeError", "PublishDone", "FetchOk",
                                 "FetchError", "TrackStatusResponse"}, req : Req])
    /\ silent \in [Req -> Status \cup {None}]
    /\ ghost \subseteq Subs /\ stray \subseteq Subs

Init ==
    /\ ctx = "open" /\ nextReq = 0 /\ crashed = FALSE
    /\ status = [h \in Handlers |-> "kNotSubscribed"]
    /\ reqId = [h \in Handlers |-> None]
    /\ alias = [h \in Subs |-> FALSE]
    /\ subTracks = [r \in Req |-> None] /\ joins = {} /\ byAlias = {}
    /\ call = Idle /\ reply = NoReply
    /\ peer = [r \in Req |-> "none"] /\ toClient = <<>>
    /\ silent = [r \in Req |-> None] /\ ghost = {} /\ stray = {}

Registered(h) == \E r \in Req : subTracks[r] = h

\* The server holds the subscription of h, or its PUBLISH_DONE is under way or is
\* being handled.
Held(h) ==
    /\ ctx = "open" /\ Registered(h) /\ h \in byAlias
    /\ \/ peer[reqId[h]] = "subOk"
       \/ \E i \in DOMAIN toClient : toClient[i] = [type |-> "PublishDone", req |-> reqId[h]]
       \/ reply.type = "PublishDone" /\ reply.req = reqId[h]
AppFree == call = Idle \/ Overlap
Answer(t, r) == toClient' = Append(toClient, [type |-> t, req |-> r])

\* GetNextRequestId, n times.
Requested(n) == nextReq + n <= MaxReq /\ nextReq' = nextReq + n

\* What a message makes of the server's view p.  SendCtrlMsg reaches nobody on a
\* connection that is not open: Enqueue fails and the exception is swallowed.  So is
\* the one SendSubscribe throws for an absolute filter.
SendCtrlMsg(p, r, v) == IF ctx = "open" THEN [p EXCEPT ![r] = v] ELSE p
SendSubscribe(p, h, r) == IF h \in Absolute THEN p ELSE SendCtrlMsg(p, r, "sub")
SendJoiningFetch(p, r) == SendCtrlMsg(p, r, "fetch")
SendFetch(p, r) == SendCtrlMsg(p, r, "fetch")
\* Mutant: UNSUBSCRIBE is not sent.
SendUnsubscribeLost(p, r) == p

SendUnsubscribe(p, r) == SendCtrlMsg(p, r, "over")
SendFetchCancel(p, r) == SendCtrlMsg(p, r, "over")
SendTrackStatus(p, r) == SendCtrlMsg(p, r, "status")

\* The server answers SUBSCRIBE_ERROR, under the id u of the update, when it does
\* not know the subscription r.
SendSubscribeUpdate(u, r) ==
    IF ctx = "open" /\ peer[r] \notin {"sub", "subOk"}
    THEN Len(toClient) < MaxTo /\ Answer("SubscribeError", u)
    ELSE UNCHANGED toClient

(***************************************************************************)
(* The API.                                                                *)
(***************************************************************************)
\* A handler is used by one thread at a time.
SubscribeTrack(h) ==
    /\ AppFree /\ (Again \/ ~Registered(h)) /\ call.h # h
    /\ ctx # "none"
    /\ IF h \in Joining
       THEN /\ Requested(2)
            /\ peer' = SendJoiningFetch(SendSubscribe(peer, h, nextReq), nextReq + 1)
            /\ joins' = joins \cup {nextReq + 1}
       ELSE Requested(1) /\ peer' = SendSubscribe(peer, h, nextReq) /\ UNCHANGED joins
    /\ reqId' = [reqId EXCEPT ![h] = nextReq]
    /\ subTracks' = [subTracks EXCEPT ![nextReq] = h]
    /\ UNCHANGED <<ctx, crashed, status, alias, byAlias, call, reply, toClient, silent, ghost, stray>>

\* UnsubscribeTrack as far as the lock of RemoveSubscribeTrack.
UnsubscribeTrack(h) ==
    /\ call = Idle /\ reqId[h] # None
    /\ ctx' = IF ctx = "none" THEN "blank" ELSE ctx
    /\ call' = [op |-> "unsub", h |-> h, rid |-> reqId[h]]
    /\ IF status[h] \in Removable
       THEN /\ status' = [status EXCEPT ![h] = "kNotSubscribed"]
            /\ peer' = SendUnsubscribe(peer, reqId[h])
            /\ UNCHANGED silent
       ELSE /\ silent' = [silent EXCEPT ![reqId[h]] = status[h]]
            /\ UNCHANGED <<status, peer>>
    /\ UNCHANGED <<nextReq, crashed, reqId, alias, mapVars, reply, toClient, ghost, stray>>

\* Mutant: the handler stays in sub_by_recv_track_alias.
EraseKeepsAlias(h) ==
    /\ subTracks' = IF reqId[h] = None THEN subTracks ELSE [subTracks EXCEPT ![reqId[h]] = None]
    /\ UNCHANGED byAlias

Erase(h) ==
    /\ subTracks' = IF reqId[h] = None THEN subTracks ELSE [subTracks EXCEPT ![reqId[h]] = None]
    /\ byAlias' = IF alias[h] THEN byAlias \ {h} ELSE byAlias

\* Its second half.  The reference to the context may be dangling by now.
UnsubscribeEnd ==
    /\ call.op = "unsub"
    /\ call' = Idle
    /\ IF ctx = "none" THEN crashed' \in BOOLEAN /\ UNCHANGED mapVars
                       ELSE Erase(call.h) /\ UNCHANGED <<joins, crashed>>
    /\ ghost' = IF status[call.h] = "kOk" THEN ghost \cup {call.h} ELSE ghost
    /\ UNCHANGED <<ctx, nextReq, handlerVars, reply, peerVars, silent, stray>>

UpdateTrackSubscription(h) ==
    /\ AppFree
    /\ ctx # "none" /\ reqId[h] # None
    /\ Requested(1) /\ SendSubscribeUpdate(nextReq, reqId[h])
    /\ UNCHANGED <<ctx, crashed, handlerVars, mapVars, call, reply, peer, silent, ghost, stray>>

\* Pause, Resume and RequestNewGroup: the new status, connections_.at, and the
\* first half of GetNextRequestId.  All are noexcept: at() of a connection that
\* is gone ends the process.
UpdateBegin(h, guard, new) ==
    /\ call = Idle /\ reqId[h] # None
    /\ guard
    /\ status' = [status EXCEPT ![h] = new]
    /\ IF ctx = "none" THEN crashed' = TRUE /\ UNCHANGED call
                       ELSE call' = [op |-> "update", h |-> h, rid |-> nextReq] /\ UNCHANGED crashed
    /\ nextReq < MaxReq
    /\ ghost' = IF new = "kOk" /\ ~Held(h) THEN ghost \cup {h} ELSE ghost
    /\ UNCHANGED <<ctx, nextReq, reqId, alias, mapVars, reply, peerVars, silent, stray>>

Pause(h) == UpdateBegin(h, status[h] \notin {"kPaused", "kNotConnected"}, "kPaused")
Resume(h) == UpdateBegin(h, status[h] = "kPaused", "kOk")
RequestNewGroup(h) == UpdateBegin(h, status[h] = "kOk", "kOk")

\* The second half: the id that was read goes out, the counter moves on from
\* whatever it is now.
UpdateEnd ==
    /\ call.op = "update"
    /\ call' = Idle
    /\ IF ctx = "none"
       THEN crashed' \in BOOLEAN /\ UNCHANGED <<nextReq, toClient>>
       ELSE /\ UNCHANGED crashed
            /\ nextReq < MaxReq /\ nextReq' = nextReq + 1
            /\ SendSubscribeUpdate(call.rid, reqId[call.h])
    /\ UNCHANGED <<ctx, handlerVars, mapVars, reply, peer, silent, ghost, stray>>

FetchTrack(f) ==
    /\ AppFree /\ (Again \/ ~Registered(f))
    /\ ctx # "none"
    /\ Requested(1) /\ peer' = SendFetch(peer, nextReq)
    /\ reqId' = [reqId EXCEPT ![f] = nextReq]
    /\ status' = [status EXCEPT ![f] = "kPendingResponse"]
    /\ subTracks' = [subTracks EXCEPT ![nextReq] = f]
    /\ UNCHANGED <<ctx, crashed, alias, joins, byAlias, call, reply, toClient, silent, ghost, stray>>

CancelFetchTrack(f) ==
    /\ AppFree
    /\ ctx # "none" /\ reqId[f] # None
    /\ subTracks' = [subTracks EXCEPT ![reqId[f]] = None]
    /\ reqId' = [reqId EXCEPT ![f] = None]
    /\ IF status[f] \in {"kDoneByFin", "kDoneByReset"}
       THEN UNCHANGED <<status, peer>>
       ELSE /\ peer' = SendFetchCancel(peer, reqId[f])
            /\ status' = [status EXCEPT ![f] = "kNotConnected"]
    /\ UNCHANGED <<ctx, nextReq, crashed, alias, joins, byAlias, call, reply, toClient, histVars>>

\* The id it returns is all that the client keeps of the question.
RequestTrackStatus ==
    /\ AppFree
    /\ ctx # "none"
    /\ Requested(1) /\ peer' = SendTrackStatus(peer, nextReq)
    /\ UNCHANGED <<ctx, crashed, handlerVars, mapVars, call, reply, toClient, silent, ghost, stray>>

(***************************************************************************)
(* Client::ProcessCtrlMessage.  First the find: an answer for an id that   *)
(* is not in the map is logged and dropped, TRACK_STATUS_OK and TRACK_-    *)
(* STATUS_ERROR go to a callback of the application, and FETCH_ERROR of a  *)
(* joining fetch removes its entry.                                        *)
(***************************************************************************)
Wanted(t) ==
    CASE t \in {"SubscribeOk", "SubscribeError", "PublishDone"} -> Subs
      [] t \in {"FetchOk", "FetchError"} -> Fetches
      [] OTHER -> {}

ProcessCtrlMessage ==
    /\ ctx = "open" /\ reply = NoReply /\ toClient # <<>>
    /\ toClient' = Tail(toClient)
    /\ LET m == Head(toClient)
           h == subTracks[m.req]
       IN  /\ reply' = IF h \in Wanted(m.type) THEN [type |-> m.type, h |-> h, req |-> m.req] ELSE NoReply
           /\ joins' = IF m.type = "FetchError" THEN joins \ {m.req} ELSE joins
    /\ UNCHANGED <<conVars, handlerVars, subTracks, byAlias, call, peer, histVars>>

\* What follows goes through the iterator.  When the entry was erased meanwhile this
\* is undefined: the process may end, or go on with the handler the node still names.
Gone == subTracks[reply.req] # reply.h
Through == IF Gone THEN crashed' \in BOOLEAN ELSE UNCHANGED crashed

\* SUBSCRIBE_OK as far as the entry by alias.
SubscribeOk ==
    /\ reply.type = "SubscribeOk"
    /\ Through
    /\ alias' = [alias EXCEPT ![reply.h] = TRUE]
    /\ byAlias' = byAlias \cup {reply.h}
    /\ stray' = IF Gone THEN stray \cup {reply.h} ELSE stray \ {reply.h}
    /\ reply' = [reply EXCEPT !.type = "Aliased"]
    /\ UNCHANGED <<ctx, nextReq, status, reqId, subTracks, joins, call, peerVars, silent, ghost>>

\* And its status.
SubscribeOkEnd ==
    /\ reply.type = "Aliased"
    /\ Through
    /\ status' = [status EXCEPT ![reply.h] = "kOk"]
    /\ ghost' = IF Gone \/ (call.op = "unsub" /\ call.h = reply.h)
                THEN ghost \cup {reply.h} ELSE ghost \ {reply.h}
    /\ reply' = NoReply
    /\ UNCHANGED <<ctx, nextReq, reqId, alias, mapVars, call, peerVars, silent, stray>>

\* RemoveSubscribeTrack erases under the id the handler has now.
SubscribeError ==
    /\ reply.type = "SubscribeError"
    /\ Through
    /\ status' = [status EXCEPT ![reply.h] = "kError"]
    /\ Erase(reply.h)
    /\ silent' = IF reqId[reply.h] # reply.req THEN [silent EXCEPT ![reqId[reply.h]] = "kError"] ELSE silent
    /\ reply' = NoReply
    /\ UNCHANGED <<ctx, nextReq, reqId, alias, joins, call, peerVars, ghost, stray>>

\* The rest of a reply that only sets the status.
Told(t, new) ==
    /\ reply.type = t
    /\ Through
    /\ status' = [status EXCEPT ![reply.h] = new]
    /\ reply' = NoReply
    /\ UNCHANGED <<ctx, nextReq, reqId, alias, joins, byAlias, call, peerVars, histVars>>

\* Mutant: the handler is not told.
PublishDoneIgnored ==
    /\ reply.type = "PublishDone"
    /\ reply' = NoReply
    /\ UNCHANGED <<conVars, handlerVars, mapVars, call, peerVars, histVars>>

PublishDone == Told("PublishDone", "kNotSubscribed") /\ UNCHANGED subTracks
FetchOk == Told("FetchOk", "kOk") /\ UNCHANGED subTracks
FetchError ==
    /\ Told("FetchError", "kError")
    /\ subTracks' = [subTracks EXCEPT ![reply.req] = IF Gone THEN @ ELSE None]

\* OnStreamClosed for the stream of a fetch.
FetchStreamClosed(f) ==
    /\ ctx = "open" /\ reply = NoReply
    /\ \E r \in Req : subTracks[r] = f /\ peer[r] \in {"fetch", "fetchOk"}
    /\ status[f] \notin {"kDoneByFin", "kDoneByReset"}
    /\ \E s \in {"kDoneByFin", "kDoneByReset"} : status' = [status EXCEPT ![f] = s]
    /\ UNCHANGED <<conVars, reqId, alias, mapVars, call, reply, peerVars, histVars>>

(***************************************************************************)
(* OnConnectionStatus when the connection is lost: RemoveAllTracksFor-     *)
(* ConnectionClose, then, under the lock, the erasure.  connection_handle_ *)
(* of a fetch handler is never set, so whether it is told is left open.    *)
(***************************************************************************)
ConnectionLost ==
    /\ MayClose /\ ctx = "open" /\ reply = NoReply
    /\ ctx' = "swept"
    /\ \E told \in SUBSET {f \in Fetches : Registered(f)} :
         status' = [h \in Handlers |->
                      CASE h \in Subs /\ Registered(h) -> "kNotConnected"
                        [] h \in told -> "kNotConnected"
                        [] h \in Fetches \ told /\ Registered(h) /\ status[h] \in Removable ->
                             "kNotSubscribed"
                        [] OTHER -> status[h]]
    /\ subTracks' = [r \in Req |-> None] /\ joins' = {} /\ byAlias' = {}
    /\ peer' = [r \in Req |-> IF peer[r] = "none" THEN "none" ELSE "over"]
    /\ toClient' = <<>>
    /\ UNCHANGED <<nextReq, crashed, reqId, alias, call, reply, histVars>>

\* The erasure takes with it whatever was entered since.
ConnectionErased ==
    /\ ctx = "swept"
    /\ ctx' = "none"
    /\ subTracks' = [r \in Req |-> None] /\ joins' = {} /\ byAlias' = {}
    /\ UNCHANGED <<nextReq, crashed, handlerVars, call, reply, peerVars, histVars>>

\* A posted OnRecvStream or a metrics sample that runs afterwards looks the
\* connection up with operator[].
LateNotify ==
    /\ ctx = "none"
    /\ ctx' = "blank"
    /\ UNCHANGED <<nextReq, crashed, handlerVars, mapVars, call, reply, peerVars, histVars>>

(***************************************************************************)
(* The server.                                                             *)
(***************************************************************************)
PeerAnswers(r, ok) ==
    /\ ctx = "open" /\ Len(toClient) < MaxTo
    /\ \/ /\ peer[r] = "sub"
          /\ peer' = [peer EXCEPT ![r] = IF ok THEN "subOk" ELSE "over"]
          /\ Answer(IF ok THEN "SubscribeOk" ELSE "SubscribeError", r)
       \/ /\ peer[r] = "fetch"
          /\ peer' = [peer EXCEPT ![r] = IF ok THEN "fetchOk" ELSE "over"]
          /\ Answer(IF ok THEN "FetchOk" ELSE "FetchError", r)
       \/ /\ peer[r] = "status" /\ ok
          /\ peer' = [peer EXCEPT ![r] = "over"]
          /\ Answer("TrackStatusResponse", r)
    /\ UNCHANGED <<conVars, handlerVars, mapVars, call, reply, histVars>>

PeerEnds(r) ==
    /\ ctx = "open" /\ Len(toClient) < MaxTo
    /\ peer[r] = "subOk"
    /\ peer' = [peer EXCEPT ![r] = "over"]
    /\ Answer("PublishDone", r)
    /\ UNCHANGED <<conVars, handlerVars, mapVars, call, reply, histVars>>

Next ==
    /\ ~crashed
    /\ \/ \E h \in Subs : \/ SubscribeTrack(h) \/ UnsubscribeTrack(h)
                          \/ UpdateTrackSubscription(h)
                          \/ Pause(h) \/ Resume(h) \/ RequestNewGroup(h)
       \/ \E f \in Fetches : FetchTrack(f) \/ CancelFetchTrack(f) \/ FetchStreamClosed(f)
       \/ UnsubscribeEnd \/ UpdateEnd \/ RequestTrackStatus
       \/ ProcessCtrlMessage
       \/ SubscribeOk \/ SubscribeOkEnd \/ SubscribeError \/ PublishDone \/ FetchOk \/ FetchError
       \/ ConnectionLost \/ ConnectionErased \/ LateNotify
       \/ \E r \in Req : PeerAnswers(r, TRUE) \/ PeerAnswers(r, FALSE) \/ PeerEnds(r)

Spec == Init /\ [][Next]_vars

(***************************************************************************)
(* Properties.                                                             *)
(***************************************************************************)

\* The two maps agree: a handler that objects are routed to by alias is one that
\* the replies find by request id, under the id it holds itself.  RemoveSubscribe-
\* Track, SUBSCRIBE_ERROR and the loss of the connection clear both.  The exceptions
\* are in stray: UnsubscribeTrack erased the request between the find of SUBSCRIBE_OK
\* and its entry by alias.
MapsAgree ==
    /\ \A h \in byAlias \ stray : alias[h] /\ subTracks[reqId[h]] = h
    /\ \A r \in Req : subTracks[r] # None => reqId[subTracks[r]] = r

\* A handler in status kOk has a subscription that the server holds and whose
\* objects reach it, or the server's PUBLISH_DONE is under way.  The exceptions are
\* the two that ghost records: Resume and RequestNewGroup make a handler kOk that has
\* no subscription, and SUBSCRIBE_OK sets kOk inside or after UnsubscribeTrack.
OkIsServed == \A h \in Subs : status[h] = "kOk" /\ h \notin ghost => Held(h)

\* A request the server still serves is known to the client, which can end it; the
\* only ones that are not are those UnsubscribeTrack dropped in a status for which
\* it sends no UNSUBSCRIBE, or a SUBSCRIBE_ERROR of an earlier request took with it.
NoOrphan ==
    \A r \in Req : peer[r] = "subOk" /\ subTracks[r] = None =>
        silent[r] \in Status \ Removable

\* A fetch that ended stays ended until it is cancelled, or the connection lost.
DoneStays ==
    [][\A f \in Fetches : status[f] \in {"kDoneByFin", "kDoneByReset"} =>
          status'[f] \notin {"kOk", "kError"}]_vars
=============================================================================
