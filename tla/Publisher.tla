----------------------------- MODULE Publisher -----------------------------
(***************************************************************************)
(* The publishing side of one client connection: PublishTrack and Unpub-   *)
(* lishTrack in transport.cpp, what Client::ProcessCtrlMessage does with   *)
(* the server's requests and answers, and the fetches a client serves.     *)
(*                                                                         *)
(* A track is published in one of two flows.  The tracks of Announce share *)
(* a namespace that is announced (PUBLISH_NAMESPACE) and wait for a        *)
(* SUBSCRIBE; each other track has a namespace of its own and is offered   *)
(* with PUBLISH.                                                           *)
(*                                                                         *)
(* PublishTrack (first track of a namespace) and UnpublishTrack give up    *)
(* the lock in the middle to call StatusChanged, so each is cut there.     *)
(* The notifier thread, which runs ProcessCtrlMessage, takes no lock: the  *)
(* API may run between the find of SUBSCRIBE and the answer it gives, so   *)
(* SUBSCRIBE is cut there too.  The other messages find a handler and set  *)
(* its status at once.                                                     *)
(*                                                                         *)
(* The server is external.  It sees what is sent at once; its messages     *)
(* wait in toClient, in order.                                             *)
(***************************************************************************)
EXTENDS Integers, Sequences, FiniteSets

CONSTANTS
    Tracks,    \* PublishTrackHandlers, each of its own track
    Announce,  \* those with use_announce_
    None,      \* nullopt, no entry, or data context 0
    MayClose,  \* may the connection be lost?
    MaxReq,    \* bound: calls of PublishTrack, one request id each
    MaxPeer,   \* bound: requests of the server
    MaxTo      \* bound: messages under way

ASSUME PublisherAssumption ==
    /\ Announce \subseteq Tracks /\ None \notin Tracks \cup Nat
    /\ MayClose \in BOOLEAN
    /\ MaxReq \in Nat /\ MaxPeer \in Nat /\ MaxTo \in Nat

Own == 0 .. MaxReq - 1
Theirs == MaxReq .. MaxReq + MaxPeer - 1
Ids == Own \cup Theirs

Status == {"kOk", "kNotConnected", "kNotAnnounced", "kPendingAnnounceResponse", "kNoSubscribers",
           "kSubscriptionUpdated", "kNewGroupRequested", "kPendingPublishOk", "kPaused"}
Subscribed == {"kOk", "kSubscriptionUpdated", "kNewGroupRequested", "kPaused"}

Idle == [op |-> "idle", t |-> None]
NoOffer == [req |-> None, t |-> None]

VARIABLES
    ctx,      \* the entry of connections_: open, swept by OnConnectionStatus, or none
    nextReq,  \* next_request_id
    status,   \* publish_status_ of a handler
    reqId,    \* request_id_
    dctx,     \* publish_data_ctx_id_, named after the request id of the PublishTrack
    byReq,    \* pub_tracks_by_request_id
    nsByReq,  \* pub_tracks_ns_by_request_id: the ids that lead to the announced namespace
    byName,   \* the tracks in pub_tracks_by_name
    byCtx,    \* pub_tracks_by_data_ctx_id
    recvReq,  \* recv_req_id
    live,     \* data contexts of the QUIC transport
    call,     \* the API call that has given up the lock
    offer,    \* the SUBSCRIBE the notifier thread is about to accept, with its handler
    crashed,  \* an undefined access has ended the process
    peer,     \* the server's view of a request
    peerTrack,  \* the track a request of the server names
    nextPeer, \* the server's next request id
    toClient, \* its messages under way
    fetch,    \* what the queue got for a fetch of the server's, once it is bound
    sentFirst,  \* sent_first_header_ of its PublishFetchHandler
    unsure,   \* history: tracks whose status came from another track or another request
    unsaid    \* history: requests whose track was unpublished without PUBLISH_DONE,
              \* or that were accepted for a track that is not published any more

conVars == <<ctx, nextReq, crashed>>
handlerVars == <<status, reqId, dctx>>
mapVars == <<byReq, nsByReq, byName, byCtx, recvReq>>
peerVars == <<peer, peerTrack, nextPeer, toClient>>
fetchVars == <<fetch, sentFirst>>
histVars == <<unsure, unsaid>>
vars == <<conVars, handlerVars, mapVars, live, call, offer, peerVars, fetchVars, histVars>>

MsgType == {"PublishNamespaceOk", "PublishNamespaceError", "PublishOk", "PublishError", "Subscribe",
            "Pause", "Resume", "NewGroup", "Unsubscribe", "Fetch", "FetchCancel", "TrackStatus"}

\* Types; in particular the client's request ids and the server's never mix in
\* byCtx and fetch.
TypeOK ==
    /\ ctx \in {"open", "swept", "none"} /\ nextReq \in 0 .. MaxReq /\ crashed \in BOOLEAN
    /\ status \in [Tracks -> Status]
    /\ reqId \in [Tracks -> Ids \cup {None}]
    /\ dctx \in [Tracks -> Own \cup {None}]
    /\ byReq \in [Ids -> Tracks \cup {None}]
    /\ nsByReq \subseteq Ids /\ byName \subseteq Tracks
    /\ byCtx \in [Own -> Tracks \cup {None}]
    /\ recvReq \in [Ids -> Tracks \cup {None}]
    /\ live \subseteq Own
    /\ call \in [op : {"idle", "publish", "unpublish"}, t : Tracks \cup {None}]
    /\ offer \in [req : Theirs \cup {None}, t : Tracks \cup {None}]
    /\ peer \in [Ids -> {"none", "ns", "nsOk", "pub", "pubOk", "sub", "subOk", "fetch", "status", "over"}]
    /\ peerTrack \in [Ids -> Tracks \cup {None}]
    /\ nextPeer \in MaxReq .. MaxReq + MaxPeer
    /\ toClient \in Seq([type : MsgType, req : Ids])
    /\ fetch \in [Theirs -> {"unbound", "empty", "objects", "headless"}]
    /\ sentFirst \in [Theirs -> BOOLEAN]
    /\ unsure \subseteq Tracks /\ unsaid \subseteq Ids

Init ==
    /\ ctx = "open" /\ nextReq = 0 /\ crashed = FALSE
    /\ status = [t \in Tracks |-> "kNotAnnounced"]
    /\ reqId = [t \in Tracks |-> None] /\ dctx = [t \in Tracks |-> None]
    /\ byReq = [r \in Ids |-> None] /\ nsByReq = {} /\ byName = {}
    /\ byCtx = [r \in Own |-> None] /\ recvReq = [r \in Ids |-> None]
    /\ live = {} /\ call = Idle /\ offer = NoOffer
    /\ peer = [r \in Ids |-> "none"] /\ peerTrack = [r \in Ids |-> None]
    /\ nextPeer = MaxReq /\ toClient = <<>>
    /\ fetch = [s \in Theirs |-> "unbound"] /\ sentFirst = [s \in Theirs |-> FALSE]
    /\ unsure = {} /\ unsaid = {}

\* Requests on which the server counts on objects of t.
HeldBy(t) == {r \in Ids : peer[r] \in {"subOk", "pubOk"} /\ peerTrack[r] = t}

(***************************************************************************)
(* The API.  A message that is sent changes the server's view p.           *)
(***************************************************************************)
\* The server takes no announcement under an id of its own.
SendPublishNamespace(p, r) == IF ctx = "open" /\ r \in Own THEN [p EXCEPT ![r] = "ns"] ELSE p
SendPublish(p, r) == IF ctx = "open" THEN [p EXCEPT ![r] = "pub"] ELSE p
\* Mutant: PUBLISH_DONE only for what was offered with PUBLISH.
SendPublishDoneOwn(p, r) ==
    IF ctx = "open" /\ p[r] \in {"pub", "pubOk"} THEN [p EXCEPT ![r] = "over"] ELSE p
SendPublishDone(p, r) ==
    IF ctx = "open" /\ p[r] \in {"pub", "pubOk", "subOk"} THEN [p EXCEPT ![r] = "over"] ELSE p
SendPublishNamespaceDone(p) ==
    IF ctx = "open" THEN [r \in Ids |-> IF p[r] \in {"ns", "nsOk"} THEN "over" ELSE p[r]] ELSE p

\* Mutant: the data context does not lead to the handler.
PublishedUnmapped(t, r, c) ==
    /\ dctx' = [dctx EXCEPT ![t] = c] /\ live' = live \cup {c}
    /\ byReq' = [byReq EXCEPT ![r] = t]
    /\ byName' = byName \cup {t}
    /\ UNCHANGED byCtx

\* The end of PublishTrack: the data context c and the entries in the maps.
Published(t, r, c) ==
    /\ dctx' = [dctx EXCEPT ![t] = c] /\ live' = live \cup {c}
    /\ byReq' = [byReq EXCEPT ![r] = t]
    /\ byName' = byName \cup {t}
    /\ byCtx' = [byCtx EXCEPT ![c] = t]

PublishTrack(t) ==
    /\ call = Idle /\ ctx # "none" /\ nextReq < MaxReq
    /\ t \notin byName
    /\ nextReq' = nextReq + 1
    /\ reqId' = [reqId EXCEPT ![t] = nextReq]
    /\ \/ /\ t \in Announce /\ byName \cap Announce = {}
          /\ status' = [status EXCEPT ![t] = "kPendingAnnounceResponse"]
          /\ call' = [op |-> "publish", t |-> t]
          /\ UNCHANGED <<dctx, mapVars, live, peer, peerTrack, unsure>>
       \/ /\ t \in Announce /\ byName \cap Announce # {}
          /\ \E b \in byName \cap Announce : status' = [status EXCEPT ![t] = status[b]]
          /\ unsure' = unsure \cup {t}
          /\ peer' = SendPublishNamespace(peer, nextReq)
          /\ Published(t, nextReq, nextReq)
          /\ UNCHANGED <<nsByReq, recvReq, call, peerTrack>>
       \/ /\ t \notin Announce
          /\ status' = [status EXCEPT ![t] = "kPendingPublishOk"]
          /\ recvReq' = [recvReq EXCEPT ![nextReq] = t]
          /\ peer' = SendPublish(peer, nextReq)
          /\ peerTrack' = [peerTrack EXCEPT ![nextReq] = t]
          /\ Published(t, nextReq, nextReq)
          /\ UNCHANGED <<nsByReq, call, unsure>>
    /\ UNCHANGED <<ctx, crashed, offer, nextPeer, toClient, fetchVars, unsaid>>

\* The iterator into connections_ was kept over the unlock, and the request id of a
\* handler that was published before is taken away when the connection is swept, or
\* replaced by a SUBSCRIBE that found it when it was.
PublishEnd ==
    /\ call.op = "publish"
    /\ call' = Idle
    /\ LET t == call.t
           r == reqId[t]
       IN  IF ctx = "none" \/ r = None
           THEN crashed' \in BOOLEAN /\ UNCHANGED <<dctx, mapVars, live, peer>>
           ELSE /\ peer' = SendPublishNamespace(peer, r)
                /\ nsByReq' = nsByReq \cup {r}
                /\ Published(t, r, nextReq - 1)
                /\ UNCHANGED <<recvReq, crashed>>
    /\ UNCHANGED <<offer, ctx, nextReq, status, reqId, peerTrack, nextPeer, toClient, fetchVars, histVars>>

\* Mutant: the announcement of the track is not forgotten.
ForgetTrackOnly(r) == byReq' = [byReq EXCEPT ![r] = None] /\ UNCHANGED nsByReq

\* Neither the track nor its announcement is found by the request id any more.
Forget(r) == byReq' = [byReq EXCEPT ![r] = None] /\ nsByReq' = nsByReq \ {r}

\* UnpublishTrack up to the status change.  recv_req_id is keyed by request id and
\* erased by a track hash, so nothing leaves it.
UnpublishTrack(t) ==
    /\ call = Idle /\ ctx # "none"
    /\ t \in byName /\ reqId[t] # None
    /\ Forget(reqId[t])
    /\ peer' = IF status[t] = "kOk" THEN SendPublishDone(peer, reqId[t]) ELSE peer
    /\ unsaid' = IF status[t] = "kOk" THEN unsaid
                 ELSE unsaid \cup {r \in Ids : peerTrack[r] = t /\ peer[r] \in {"pub", "pubOk", "subOk"}}
    /\ dctx' = [dctx EXCEPT ![t] = None]
    /\ status' = [status EXCEPT ![t] = "kNotAnnounced"]
    /\ call' = [op |-> "unpublish", t |-> t]
    /\ UNCHANGED <<conVars, reqId, byName, byCtx, recvReq, live, offer, peerTrack, nextPeer, toClient,
                   fetchVars, unsure>>

UnpublishEnd ==
    /\ call.op = "unpublish"
    /\ call' = Idle
    /\ IF ctx # "open"
       THEN crashed' \in BOOLEAN /\ UNCHANGED <<byName, live, peer>>
       ELSE /\ byName' = byName \ {call.t}
            /\ peer' = IF call.t \in Announce /\ byName \cap Announce = {call.t}
                       THEN SendPublishNamespaceDone(peer) ELSE peer
            /\ live' = live \ {dctx[call.t]}
            /\ UNCHANGED crashed
    /\ UNCHANGED <<ctx, nextReq, handlerVars, byReq, nsByReq, byCtx, recvReq, offer, peerTrack, nextPeer,
                   toClient, fetchVars, histVars>>

(***************************************************************************)
(* Client::ProcessCtrlMessage.                                             *)
(***************************************************************************)
Receives(t) ==
    /\ ctx = "open" /\ offer = NoOffer /\ toClient # <<>> /\ Head(toClient).type = t
    /\ toClient' = Tail(toClient)
Id == Head(toClient).req
SetStatus(t, s) == status' = IF t \in byName THEN [status EXCEPT ![t] = s] ELSE status

\* History: the handler found through recv_req_id, when the message is not about its
\* current request, or about one that is over.
Misled(over) == {t \in {recvReq[Id]} \ {None} : over \/ reqId[t] # Id}

\* Mutant: a track that is subscribed to loses its status.
AnnouncedAll(t) == "kNoSubscribers"

\* The status of a track whose namespace has been accepted.
Announced(t) == IF status[t] = "kOk" THEN "kOk" ELSE "kNoSubscribers"

\* find of pub_tracks_by_name is not checked: without the namespace it is end().
PublishNamespaceOk ==
    /\ Receives("PublishNamespaceOk")
    /\ IF Id \notin nsByReq
       THEN UNCHANGED <<status, nsByReq, crashed, unsure>>
       ELSE /\ nsByReq' = nsByReq \ {Id}
            /\ status' = [t \in Tracks |-> IF t \in byName \cap Announce THEN Announced(t) ELSE status[t]]
            /\ unsure' = unsure \cup {t \in byName \cap Announce : status[t] \in Subscribed \ {"kOk"}}
            /\ IF byName \cap Announce = {} THEN crashed' = TRUE ELSE UNCHANGED crashed
    /\ UNCHANGED <<ctx, nextReq, reqId, dctx, byReq, byName, byCtx, recvReq, live, call, offer, peer,
                   peerTrack, nextPeer, fetchVars, unsaid>>

\* PUBLISH_NAMESPACE_ERROR is only logged; PUBLISH_ERROR has no case at all, so the
\* handler goes on waiting.
Ignored ==
    /\ \/ Receives("PublishNamespaceError") \/ Receives("PublishError")
    /\ UNCHANGED <<conVars, handlerVars, mapVars, live, call, offer, peer, peerTrack, nextPeer, fetchVars,
                   histVars>>

PublishOk ==
    /\ Receives("PublishOk")
    /\ status' = IF byReq[Id] = None THEN status ELSE [status EXCEPT ![byReq[Id]] = "kOk"]
    /\ UNCHANGED <<conVars, reqId, dctx, mapVars, live, call, offer, peer, peerTrack, nextPeer, fetchVars,
                   histVars>>

\* SUBSCRIBE as far as GetPubTrackHandler: SUBSCRIBE_ERROR when the track is not
\* published.
Subscribe ==
    /\ Receives("Subscribe")
    /\ recvReq' = [recvReq EXCEPT ![Id] = peerTrack[Id]]
    /\ IF peerTrack[Id] \in byName
       THEN offer' = [req |-> Id, t |-> peerTrack[Id]] /\ UNCHANGED peer
       ELSE peer' = [peer EXCEPT ![Id] = "over"] /\ UNCHANGED offer
    /\ UNCHANGED <<conVars, handlerVars, byReq, nsByReq, byName, byCtx, live, call, peerTrack, nextPeer,
                   fetchVars, histVars>>

ResolveSubscribe(r) == peer' = [peer EXCEPT ![r] = "subOk"]

\* The rest of it, with the handler that was found: the answer, its request id and its
\* status.  UnpublishTrack may have begun or ended in between.
SubscribeEnd ==
    /\ offer # NoOffer
    /\ LET t == offer.t
           late == t \notin byName \/ call = [op |-> "unpublish", t |-> t]
       IN  /\ ResolveSubscribe(offer.req)
           /\ reqId' = [reqId EXCEPT ![t] = offer.req]
           /\ status' = [status EXCEPT ![t] = "kOk"]
           /\ unsaid' = IF late THEN unsaid \cup {offer.req} ELSE unsaid
           /\ unsure' = IF late THEN unsure \cup {t} ELSE unsure \ {t}
    /\ offer' = NoOffer
    /\ UNCHANGED <<conVars, dctx, mapVars, live, call, peerTrack, nextPeer, toClient, fetchVars>>

\* TRACK_STATUS_OK or TRACK_STATUS_ERROR: either way the question is answered.
ResolveTrackStatus == peer' = [peer EXCEPT ![Id] = "over"]

\* TRACK_STATUS goes to a callback of the application, which answers or lets it be.
TrackStatus ==
    /\ Receives("TrackStatus")
    /\ ResolveTrackStatus \/ UNCHANGED peer
    /\ UNCHANGED <<conVars, handlerVars, mapVars, live, call, offer, peerTrack, nextPeer, fetchVars, histVars>>

\* forward 0 pauses; a new group request may be refused as stale; otherwise updated.
SubscribeUpdate ==
    /\ \/ Receives("Pause") /\ (IF recvReq[Id] = None THEN UNCHANGED status
                                ELSE SetStatus(recvReq[Id], "kPaused"))
       \/ Receives("Resume") /\ (IF recvReq[Id] = None THEN UNCHANGED status
                                 ELSE SetStatus(recvReq[Id], "kSubscriptionUpdated"))
       \/ Receives("NewGroup") /\ (\/ UNCHANGED status
                                   \/ recvReq[Id] # None /\ SetStatus(recvReq[Id], "kNewGroupRequested"))
    /\ unsure' = unsure \cup Misled(peer[Id] = "over")
    /\ UNCHANGED <<conVars, reqId, dctx, mapVars, live, call, offer, peer, peerTrack, nextPeer, fetchVars,
                   unsaid>>

Unsubscribe ==
    /\ Receives("Unsubscribe")
    /\ IF recvReq[Id] = None THEN UNCHANGED status ELSE SetStatus(recvReq[Id], "kNoSubscribers")
    /\ unsure' = unsure \cup Misled(FALSE)
    /\ UNCHANGED <<conVars, reqId, dctx, mapVars, live, call, offer, peer, peerTrack, nextPeer, fetchVars,
                   unsaid>>

(***************************************************************************)
(* Fetches.  The application binds a PublishFetchHandler from its callback *)
(* or refuses (ResolveFetch); a joining fetch must name a known request.   *)
(***************************************************************************)
BindFetchTrack(s) == fetch' = [fetch EXCEPT ![s] = "empty"]
ResolveFetch(s, ok) == peer' = [peer EXCEPT ![s] = IF ok THEN @ ELSE "over"]

Fetch ==
    /\ Receives("Fetch")
    /\ \/ ResolveFetch(Id, FALSE) /\ UNCHANGED fetch
       \/ ResolveFetch(Id, TRUE) /\ BindFetchTrack(Id)
    /\ UNCHANGED <<conVars, handlerVars, mapVars, live, call, offer, peerTrack, nextPeer, sentFirst, histVars>>

\* The header and the object, or the object alone, added to what the queue got.
EnqueueFetchObject(got, header) ==
    IF got = "unbound" \/ ctx # "open" THEN got
    ELSE IF header THEN "objects"
    ELSE IF got = "empty" THEN "headless" ELSE got

\* Mutant: is_stream_header_needed is read after the flag was set.
PublishFetchObjectLate(s) ==
    /\ fetch[s] # "unbound" \/ sentFirst[s]
    /\ sentFirst' = [sentFirst EXCEPT ![s] = TRUE]
    /\ fetch' = [fetch EXCEPT ![s] = EnqueueFetchObject(@, ~sentFirst'[s])]
    /\ UNCHANGED <<conVars, handlerVars, mapVars, live, call, offer, peerVars, histVars>>

\* PublishFetchHandler::PublishObject: the flag is set before anything is queued.
PublishFetchObject(s) ==
    /\ fetch[s] # "unbound" \/ sentFirst[s]
    /\ sentFirst' = [sentFirst EXCEPT ![s] = TRUE]
    /\ fetch' = [fetch EXCEPT ![s] = EnqueueFetchObject(@, ~sentFirst[s])]
    /\ UNCHANGED <<conVars, handlerVars, mapVars, live, call, offer, peerVars, histVars>>

UnbindFetchTrack(s) ==
    /\ ctx # "none" /\ fetch[s] # "unbound"
    /\ fetch' = [fetch EXCEPT ![s] = "unbound"]
    /\ UNCHANGED <<conVars, handlerVars, mapVars, live, call, offer, peerVars, sentFirst, histVars>>

\* FETCH_CANCEL looks among the client's own requests, finds nothing there, and
\* calls the application back, which unbinds.
FetchCancel ==
    /\ Receives("FetchCancel")
    /\ fetch' = [fetch EXCEPT ![Id] = "unbound"]
    /\ UNCHANGED <<conVars, handlerVars, mapVars, live, call, offer, peer, peerTrack, nextPeer, sentFirst,
                   histVars>>

(***************************************************************************)
(* The loss of the connection, as in Subscriber.                           *)
(***************************************************************************)
ConnectionLost ==
    /\ MayClose /\ ctx = "open" /\ offer = NoOffer
    /\ ctx' = "swept"
    /\ LET lost == {byCtx[r] : r \in Own} \ {None}
       IN  /\ status' = [t \in Tracks |-> IF t \in lost THEN "kNotConnected" ELSE status[t]]
           /\ reqId' = [t \in Tracks |-> IF t \in lost THEN None ELSE reqId[t]]
    /\ byCtx' = [r \in Own |-> None] /\ byName' = {} /\ recvReq' = [r \in Ids |-> None]
    /\ live' = {} /\ toClient' = <<>>
    /\ peer' = [r \in Ids |-> IF peer[r] = "none" THEN "none" ELSE "over"]
    /\ UNCHANGED <<nextReq, crashed, dctx, byReq, nsByReq, call, offer, peerTrack, nextPeer, fetchVars, histVars>>

ConnectionErased ==
    /\ ctx = "swept"
    /\ ctx' = "none"
    /\ byReq' = [r \in Ids |-> None] /\ nsByReq' = {} /\ byName' = {}
    /\ byCtx' = [r \in Own |-> None] /\ recvReq' = [r \in Ids |-> None]
    /\ live' = {} /\ fetch' = [s \in Theirs |-> "unbound"]
    /\ UNCHANGED <<nextReq, crashed, handlerVars, call, offer, peerVars, sentFirst, histVars>>

(***************************************************************************)
(* The server: answers, and requests of its own.                           *)
(***************************************************************************)
Sends(t, r) ==
    /\ ctx = "open" /\ Len(toClient) < MaxTo
    /\ toClient' = Append(toClient, [type |-> t, req |-> r])
PeerOnly == UNCHANGED <<conVars, handlerVars, mapVars, live, call, offer, fetchVars, histVars>>

PeerAnswers(r, ok) ==
    /\ \/ peer[r] = "ns" /\ Sends(IF ok THEN "PublishNamespaceOk" ELSE "PublishNamespaceError", r)
       \/ peer[r] = "pub" /\ Sends(IF ok THEN "PublishOk" ELSE "PublishError", r)
    /\ peer' = [peer EXCEPT ![r] = IF ok THEN (IF @ = "ns" THEN "nsOk" ELSE "pubOk") ELSE "over"]
    /\ UNCHANGED <<peerTrack, nextPeer>> /\ PeerOnly

\* One subscription per track, and only under a namespace that is announced.
PeerSubscribes(t) ==
    /\ nextPeer \in Theirs
    /\ t \in Announce
    /\ \E r \in Own : peer[r] \in {"ns", "nsOk"}
    /\ \A r \in Theirs : ~(peerTrack[r] = t /\ peer[r] \in {"sub", "subOk"})
    /\ Sends("Subscribe", nextPeer)
    /\ peer' = [peer EXCEPT ![nextPeer] = "sub"]
    /\ peerTrack' = [peerTrack EXCEPT ![nextPeer] = t]
    /\ nextPeer' = nextPeer + 1
    /\ PeerOnly

PeerUpdates(r, type) ==
    /\ peer[r] \in {"subOk", "pubOk"}
    /\ Sends(type, r)
    /\ peer' = IF type = "Unsubscribe" THEN [peer EXCEPT ![r] = "over"] ELSE peer
    /\ UNCHANGED <<peerTrack, nextPeer>> /\ PeerOnly

PeerFetches ==
    /\ nextPeer \in Theirs
    /\ \E type \in {"Fetch", "TrackStatus"} :
         /\ Sends(type, nextPeer)
         /\ peer' = [peer EXCEPT ![nextPeer] = IF type = "Fetch" THEN "fetch" ELSE "status"]
    /\ nextPeer' = nextPeer + 1
    /\ UNCHANGED peerTrack /\ PeerOnly

PeerCancels(r) ==
    /\ peer[r] = "fetch"
    /\ Sends("FetchCancel", r)
    /\ peer' = [peer EXCEPT ![r] = "over"]
    /\ UNCHANGED <<peerTrack, nextPeer>> /\ PeerOnly

Next ==
    /\ ~crashed
    /\ \/ \E t \in Tracks : PublishTrack(t) \/ UnpublishTrack(t) \/ PeerSubscribes(t)
       \/ PublishEnd \/ UnpublishEnd
       \/ PublishNamespaceOk \/ Ignored \/ PublishOk \/ Subscribe \/ SubscribeEnd \/ SubscribeUpdate \/ Unsubscribe
       \/ TrackStatus \/ Fetch \/ FetchCancel \/ \E s \in Theirs : PublishFetchObject(s) \/ UnbindFetchTrack(s)
       \/ ConnectionLost \/ ConnectionErased
       \/ \E r \in Own : PeerAnswers(r, TRUE) \/ PeerAnswers(r, FALSE)
       \/ \E r \in Ids : PeerCancels(r) \/ \E u \in {"Pause", "Resume", "NewGroup", "Unsubscribe"} :
                                               PeerUpdates(r, u)
       \/ PeerFetches

Spec == Init /\ [][Next]_vars

(***************************************************************************)
(* Properties.                                                             *)
(***************************************************************************)
UnderWay(t, type) == \E i \in DOMAIN toClient : toClient[i].type = type /\ peerTrack[toClient[i].req] = t

\* A track the server receives, and that is not being unpublished, is in a status in
\* which the client knows that it has a subscriber.  Late answers do not take kOk away
\* from it; a message about an earlier request of the track may, as recv_req_id still
\* knows that one, and the answer to the announcement does when the track has been
\* paused or updated meanwhile.
HeldIsKnown ==
    \A t \in byName :
        /\ HeldBy(t) \ unsaid # {} /\ ~UnderWay(t, "PublishOk") /\ t \notin unsure
        /\ call # [op |-> "unpublish", t |-> t]
        => status[t] \in Subscribed

\* A track the client may publish on has a subscriber at the server, or the message
\* that takes it away is under way.  The exceptions are a track that took over the
\* status of another one of its namespace, one that got an update of a request that
\* had ended, which recv_req_id still knows, and one whose SUBSCRIBE was accepted when
\* it was being unpublished.
UsableIsHeld ==
    \A t \in byName : status[t] \in Subscribed =>
        \/ HeldBy(t) # {} \/ t \in unsure
        \/ UnderWay(t, "Unsubscribe")

\* The client and the server agree on who is subscribed, in both directions.
StatusAgrees == HeldIsKnown /\ UsableIsHeld

\* Whoever still counts on a track that was unpublished was told so with PUBLISH_DONE,
\* except for the requests UnpublishTrack finds in a status other than kOk and a
\* SUBSCRIBE that found the handler before UnpublishTrack ended and is accepted after
\* it began.
EndIsTold == \A t \in Tracks \ byName : ctx = "open" => HeldBy(t) \subseteq unsaid

\* A published track has a data context of its own, alive and mapped back to it.
ContextHeld ==
    \A t \in byName : ctx = "open" /\ call # [op |-> "unpublish", t |-> t] =>
        dctx[t] \in live /\ byCtx[dctx[t]] = t

\* An announcement that is not answered yet, and whose track still carries its request
\* id, finds its namespace: PUBLISH_NAMESPACE_OK does not look at the result of find.
\* A SUBSCRIBE that comes first replaces the request id, and UnpublishTrack then leaves
\* the announcement behind.
NamespaceFound ==
    \A t \in Announce : ctx = "open" /\ reqId[t] \in nsByReq => byName \cap Announce # {}

\* What the transmit queue gets for a fetch begins with the header that names it,
\* although PublishFetchHandler sets its flag whether or not anything can be queued, and
\* FETCH, FETCH_CANCEL and the loss of the connection bind and unbind it in between.
\* Whether the header leaves the queue is not said: it has a lifetime like any object.
HeaderFirst == \A s \in Theirs : fetch[s] # "headless"
=============================================================================
