------------------------------- MODULE Relay -------------------------------
(***************************************************************************)
(* The relay: Server::ProcessCtrlMessage and what it calls in server.cpp   *)
(* and transport.cpp, with the callbacks of the example server, whose maps *)
(* (qserver_vars) decide who is subscribed to whom.                        *)
(*                                                                         *)
(* Everything here runs on the notifier thread, one message at a time, so  *)
(* an action is a whole message.  The clients are external: they send what *)
(* they like, with fresh request ids.  All tracks are of one namespace; a  *)
(* publisher announces that namespace, or a prefix of it (Wide).  The      *)
(* subscribers of namespaces ask for the tracks' own.                      *)
(*                                                                         *)
(* A request of the relay to a publisher is named <<t, p, k>>: the k-th    *)
(* SubscribeTrackHandler for track t at connection p, made either for an   *)
(* announced namespace or for a PUBLISH of p's.                            *)
(***************************************************************************)
EXTENDS Integers, FiniteSets

CONSTANTS
    Tracks,
    Subs, Pubs,  \* connections that subscribe, and that announce or publish
    Wide,        \* the publishers that announce a prefix of the tracks' namespace
    None,        \* no entry in a map
    Null,        \* an entry that operator[] made: a null handler
    OneSub,      \* a connection has at most one SUBSCRIBE of a track
    Mixed,       \* may a connection announce and PUBLISH the same track?
    MaxReq,      \* bound: requests of one subscriber
    MaxUp,       \* bound: handlers for one track
    MaxLost      \* bound: connections that end

ASSUME RelayAssumption ==
    /\ IsFiniteSet(Tracks) /\ IsFiniteSet(Pubs) /\ Wide \subseteq Pubs
    /\ None \notin Nat \cup Pubs \cup {"handler"} /\ Null \notin Nat \cup {"handler"} /\ None # Null
    /\ OneSub \in BOOLEAN /\ Mixed \in BOOLEAN /\ MaxReq \in Nat /\ MaxUp \in Nat
    /\ MaxLost \in Nat

Conns == Subs \cup Pubs
\* The namespace p announces.
Ns(p) == IF p \in Wide THEN "prefix" ELSE "full"
Req == 1 .. MaxReq
Up == Tracks \X Pubs \X (1 .. MaxUp)
Info == Subs \X Req \X Tracks
HStatus == {"kOk", "kNotConnected", "kError", "kNotSubscribed", "kPaused"}
PStatus == {"kOk", "kNoSubscribers", "kPaused", "kNewGroupRequested"} \* kSubscriptionUpdated is kOk here

VARIABLES
    annOn,     \* announce_active: connections that announced their namespace
    annTracks, \* and the tracks each has been asked for
    subs,      \* subscribes: the handler of a subscriber of a track
    aliasReq,  \* subscribe_alias_req_id
    active,    \* subscribe_active
    pubSubs,   \* pub_subscribes: the number of the handler for a track at a publisher
    byReqId,   \* pub_subscribes_by_req_id: the handlers that PUBLISH made
    nsSubs,    \* subscribe_namespaces
    newGroup,  \* track_aliases_new_group_request
    up,        \* the SubscribeTrackHandlers of the relay, as the library sees them
    open,      \* connections that are open
    nextId,    \* next request id of a subscriber, and of the relay towards it
    recvReq,   \* recv_req_id
    pubTrk,    \* pub_tracks_by_name: status of the PublishTrackHandler, by connection and track
    offers,    \* pub_by_request_id: PUBLISH sent to a subscriber of the namespace
    known,     \* <<c, n>>: subscriber c was told of namespace n, and not that it is gone
    crashed    \* a null handler was used

subMaps == <<subs, aliasReq, active>>
pubMaps == <<annOn, annTracks, pubSubs, byReqId>>
mapVars == <<subMaps, pubMaps, nsSubs, newGroup>>
vars == <<mapVars, up, open, nextId, recvReq, pubTrk, offers, known, crashed>>

\* st is status_, reg an entry in sub_tracks_by_request_id, peer the publisher's view;
\* silent records that it was dropped without UNSUBSCRIBE.
Handler == [made : BOOLEAN, init : BOOLEAN, st : HStatus, reg : BOOLEAN,
            peer : {"none", "asked", "ok", "paused", "ended", "over"}, silent : BOOLEAN]
NoHandler == [made |-> FALSE, init |-> FALSE, st |-> "kNotSubscribed", reg |-> FALSE,
              peer |-> "none", silent |-> FALSE]

\* Types of the server's maps and of the example's.
TypeOK ==
    /\ annOn \subseteq Pubs /\ annTracks \in [Pubs -> SUBSET Tracks]
    /\ subs \in [Tracks -> [Subs -> {None, Null, "handler"}]]
    /\ aliasReq \subseteq Info /\ active \subseteq Info
    /\ pubSubs \in [Tracks -> [Pubs -> (1 .. MaxUp) \cup {None, Null}]]
    /\ byReqId \subseteq Up /\ nsSubs \subseteq Subs /\ newGroup \subseteq Tracks
    /\ up \in [Up -> Handler]
    /\ open \subseteq Conns
    /\ nextId \in [Subs -> 1 .. MaxReq + 1]
    /\ recvReq \subseteq Info /\ offers \subseteq Info
    /\ pubTrk \in [Subs -> [Tracks -> PStatus \cup {None}]]
    /\ known \subseteq Subs \X {"full", "prefix"}
    /\ crashed \in BOOLEAN

Init ==
    /\ annOn = {} /\ annTracks = [p \in Pubs |-> {}]
    /\ subs = [t \in Tracks |-> [c \in Subs |-> None]]
    /\ aliasReq = {} /\ active = {}
    /\ pubSubs = [t \in Tracks |-> [p \in Pubs |-> None]]
    /\ byReqId = {} /\ nsSubs = {} /\ newGroup = {}
    /\ up = [u \in Up |-> NoHandler]
    /\ open = Conns
    /\ nextId = [c \in Subs |-> 1]
    /\ recvReq = {} /\ offers = {}
    /\ pubTrk = [c \in Subs |-> [t \in Tracks |-> None]]
    /\ known = {}
    /\ crashed = FALSE

(***************************************************************************)
(* Handlers.                                                               *)
(***************************************************************************)
Made(u, t, p) == Cardinality({k \in 1 .. MaxUp : u[<<t, p, k>>].made})
Room(t, P) == Cardinality({x \in Up : x[1] = t /\ up[x].made}) + Cardinality(P) <= MaxUp

\* SubscribeTrack at each of P, by announcement or for a PUBLISH.  A connection
\* that is gone is not found: the handler is made and nothing else happens.
SubscribeTrack(u, t, P, init) ==
    [x \in Up |-> IF x[1] = t /\ x[2] \in P /\ x[3] = Made(u, t, x[2]) + 1
                  THEN [made |-> TRUE, init |-> init, st |-> "kNotSubscribed", reg |-> x[2] \in open,
                        peer |-> IF x[2] \in open THEN "asked" ELSE "none",
                        silent |-> FALSE]
                  ELSE u[x]]

\* Mutant: no UNSUBSCRIBE goes out.
UnsubscribeTrackUnsent(u, X) ==
    [x \in Up |-> IF x \in X THEN [u[x] EXCEPT !.st = "kNotSubscribed", !.reg = FALSE] ELSE u[x]]

\* UnsubscribeTrack for the set X: UNSUBSCRIBE goes out only in status kOk.
UnsubscribeTrack(u, X) ==
    [x \in Up |-> IF x \notin X THEN u[x]
                  ELSE IF u[x].st = "kOk"
                       THEN [u[x] EXCEPT !.st = "kNotSubscribed", !.reg = FALSE,
                                         !.peer = IF ~u[x].init /\ @ \in {"asked", "ok", "paused"}
                                                  THEN "over" ELSE @]
                       ELSE [u[x] EXCEPT !.reg = FALSE, !.silent = TRUE]]

\* The handlers pub_subscribes leads to for t.
HandlersOf(t) == {x \in Up : x[1] = t /\ pubSubs[t][x[2]] = x[3]}
NullAt(t) == \E p \in Pubs : pubSubs[t][p] = Null

\* Pause and Resume: the status and the forward flag of the SUBSCRIBE_UPDATE.
Pause(u, X) ==
    [x \in Up |-> IF x \in X /\ u[x].init /\ u[x].st \notin {"kPaused", "kNotConnected"}
                  THEN [u[x] EXCEPT !.st = "kPaused", !.peer = IF @ = "ok" THEN "paused" ELSE @]
                  ELSE u[x]]
Resume(u, X) ==
    [x \in Up |-> IF x \in X /\ u[x].init /\ u[x].st = "kPaused"
                  THEN [u[x] EXCEPT !.st = "kOk", !.peer = IF @ = "paused" THEN "ok" ELSE @]
                  ELSE u[x]]

(***************************************************************************)
(* Subscribers.                                                            *)
(***************************************************************************)
Subscribers(t) == {c \in Subs : subs[t][c] # None}

\* Mutant: a handler that is there keeps its status.
BindPublisherTrackKept(c, t) == pubTrk' = [pubTrk EXCEPT ![c][t] = IF @ = None THEN "kOk" ELSE @]
BindPublisherTrack(c, t) == pubTrk' = [pubTrk EXCEPT ![c][t] = "kOk"]

\* SubscribeReceived with BindPublisherTrack.  Where the announcement already has
\* the track, and a second has passed, the subscription upstream is refreshed; a
\* handler that is not there ends the loop, and leaves a null one.
SubscribeReceived(c, r, t) ==
    LET fresh == {p \in annOn : t \notin annTracks[p]}
        lost == {p \in annOn : t \in annTracks[p] /\ pubSubs[t][p] \in {None, Null}}
    IN  \E D \in SUBSET fresh, b \in lost \cup {None} :
          /\ b = None => D = fresh
          /\ Room(t, D)
          /\ subs' = [subs EXCEPT ![t][c] = "handler"]
          /\ aliasReq' = aliasReq \cup {<<c, r, t>>} /\ active' = active \cup {<<c, r, t>>}
          /\ annTracks' = [p \in Pubs |-> IF p \in D THEN annTracks[p] \cup {t} ELSE annTracks[p]]
          /\ pubSubs' = [pubSubs EXCEPT ![t] = [p \in Pubs |-> CASE p \in D -> Made(up, t, p) + 1
                                                                 [] p = b -> Null
                                                                 [] OTHER -> @[p]]]
          /\ up' = SubscribeTrack(Resume(up, HandlersOf(t)), t, D, FALSE)
          /\ BindPublisherTrack(c, t)
          /\ crashed' = NullAt(t)
          /\ UNCHANGED <<annOn, byReqId, nsSubs, newGroup>>

Subscribe(c, t) ==
    /\ c \in open /\ nextId[c] \in Req
    /\ OneSub => ~\E r \in Req : <<c, r, t>> \in aliasReq
    /\ nextId' = [nextId EXCEPT ![c] = @ + 1]
    /\ recvReq' = recvReq \cup {<<c, nextId[c], t>>}
    /\ SubscribeReceived(c, nextId[c], t)
    /\ UNCHANGED <<open, offers, known>>

\* The requests of c among the ids R, and those of them that find the handler: of
\* several for one track, the first takes it away.
Found(c, R) == {i \in aliasReq : i[1] = c /\ i[2] \in R}
First(I) == {i \in I : subs[i[3]][i[1]] = "handler" /\ \A j \in I : j[3] = i[3] => i[2] <= j[2]}

\* What becomes of the handler of c for track t.  A request that does not find it
\* leaves a null one.
HandlerLeft(c, t, I) ==
    CASE \E i \in I \ First(I) : i[3] = t -> Null
      [] \A i \in I : i[3] # t -> subs[t][c]
      [] OTHER -> None

\* Mutant: the subscriptions stay among the active ones.
LeftActive(c, I) ==
    /\ aliasReq' = aliasReq \ I /\ UNCHANGED active
    /\ subs' = [t \in Tracks |-> [d \in Subs |-> IF d = c THEN HandlerLeft(c, t, I) ELSE subs[t][d]]]
\* The maps without the subscriptions I of c.
Left(c, I) ==
    /\ aliasReq' = aliasReq \ I /\ active' = active \ First(I)
    /\ subs' = [t \in Tracks |-> [d \in Subs |-> IF d = c THEN HandlerLeft(c, t, I) ELSE subs[t][d]]]

\* Mutant: the publishers are let go with the first subscriber.
UnsubPubAlways(c, t) == TRUE
\* unsub_pub: no subscriber but c is left.
UnsubPub(c, t) == Subscribers(t) \subseteq {c}

\* UnsubscribeReceived for each of the ids R of c, on the handlers u.  The namespace
\* is looked up as it is, where SubscribeReceived took every one with the same prefix.
UnsubscribeReceived(u, c, R) ==
    LET I == Found(c, R)
        Unused == {t \in Tracks : (\E i \in First(I) : i[3] = t) /\ UnsubPub(c, t)}
        X == {x \in Up : x[1] \in Unused /\ x \in HandlersOf(x[1])}
        Held(t, p) == p \in annOn /\ Ns(p) = "full" /\ t \in annTracks[p]
    IN  /\ Left(c, I)
        /\ annTracks' = [p \in Pubs |-> {t \in annTracks[p] : ~(t \in Unused /\ Held(t, p))}]
        /\ pubSubs' = [t \in Tracks |-> [p \in Pubs |-> IF t \in Unused /\ Held(t, p) THEN None
                                                         ELSE pubSubs[t][p]]]
        /\ up' = UnsubscribeTrack(Pause(u, X), {x \in X : Held(x[1], x[2])})
        /\ crashed' = (\E t \in Unused : NullAt(t))
        /\ UNCHANGED <<annOn, byReqId, newGroup>>

Unsubscribe(c, r) ==
    /\ c \in open /\ r < nextId[c]
    /\ \E i \in recvReq : i[1] = c /\ i[2] = r
    /\ UnsubscribeReceived(up, c, {r})
    /\ pubTrk' = [pubTrk EXCEPT ![c] = [t \in Tracks |-> IF <<c, r, t>> \in recvReq /\ @[t] # None
                                                         THEN "kNoSubscribers" ELSE @[t]]]
    /\ recvReq' = {i \in recvReq : ~(i[1] = c /\ i[2] = r)}
    /\ UNCHANGED <<nsSubs, open, nextId, offers, known>>

\* MyPublishTrackHandler::StatusChanged: a request for a new group is kept until
\* the next object of the track can take it to the publisher.
StatusChanged(c, t, s) ==
    newGroup' = IF s = "kNewGroupRequested" /\ pubTrk[c][t] # s THEN newGroup \cup {t} ELSE newGroup

\* SUBSCRIBE_UPDATE: forward 0, a new group, or neither.
SubscribeUpdate(c, t, s) ==
    /\ c \in open /\ \E r \in Req : <<c, r, t>> \in recvReq
    /\ pubTrk[c][t] # None
    /\ pubTrk' = [pubTrk EXCEPT ![c][t] = s]
    /\ StatusChanged(c, t, s)
    /\ UNCHANGED <<subMaps, pubMaps, nsSubs, up, open, nextId, recvReq, offers, known, crashed>>

\* SUBSCRIBE_NAMESPACE_OK; the namespace, if announced, is passed on (a prefix of it is
\* dropped), and a PUBLISH for each of the handlers X: two for a track that two
\* connections publish.
ResolveSubscribeNamespace(c, X) ==
    /\ nextId[c] + Cardinality(X) <= MaxReq + 1
    /\ nextId' = [nextId EXCEPT ![c] = @ + Cardinality(X)]
    /\ \E f \in [X -> nextId[c] .. nextId[c] + Cardinality(X) - 1] :
         /\ \A x, y \in X : f[x] = f[y] => x = y
         /\ offers' = offers \cup {<<c, f[x], x[1]>> : x \in X}
    /\ known' = known \cup {<<c, Ns(p)>> : p \in annOn \ Wide}

\* Every handler that PUBLISH made is passed on.
SubscribeNamespaceReceived(c) ==
    /\ nsSubs' = nsSubs \cup {c}
    /\ ResolveSubscribeNamespace(c, {x \in Up : x \in HandlersOf(x[1]) /\ up[x].init})

SubscribeNamespace(c) ==
    /\ c \in open
    /\ SubscribeNamespaceReceived(c)
    /\ UNCHANGED <<subMaps, pubMaps, newGroup, up, open, recvReq, pubTrk, crashed>>

\* UNSUBSCRIBE_NAMESPACE finds the entry and leaves it.
UnsubscribeNamespace(c) ==
    /\ c \in open /\ c \in nsSubs
    /\ UNCHANGED vars

\* Mutant: a publisher that is paused is not counted.
TrackStatusReceivedActive(c, t) ==
    IF \E p \in Pubs \ {c} : pubSubs[t][p] # None /\ <<t, p, pubSubs[t][p]>> \in Up
                              /\ up[<<t, p, pubSubs[t][p]>>].peer # "paused"
    THEN "kOk" ELSE "kTrackDoesNotExist"

\* TRACK_STATUS changes nothing; the answer says whether pub_subscribes has an entry
\* of another connection.
TrackStatusReceived(c, t) ==
    IF \E p \in Pubs \ {c} : pubSubs[t][p] # None THEN "kOk" ELSE "kTrackDoesNotExist"

\* PUBLISH_OK from a subscriber of the namespace: a subscription.
PublishOk(c, r, t) ==
    /\ c \in open /\ <<c, r, t>> \in offers
    /\ OneSub => ~\E o \in Req : <<c, o, t>> \in aliasReq
    /\ offers' = offers \ {<<c, r, t>>}
    /\ recvReq' = recvReq \cup {<<c, r, t>>}
    /\ SubscribeReceived(c, r, t)
    /\ UNCHANGED <<open, nextId, known>>

(***************************************************************************)
(* Publishers.                                                             *)
(***************************************************************************)
\* Subscribers of the namespace whose connection is there are told.
ResolvePublishNamespace(p) == known' = known \cup ((nsSubs \cap open) \X {Ns(p)})

\* Passed on to the subscribers of the namespace, and every track with subscribers
\* is subscribed to.  A repeated PUBLISH_NAMESPACE gets no answer.
PublishNamespaceReceived(p) ==
    LET T == {t \in Tracks : \E i \in active : i[3] = t}
    IN  IF p \in annOn THEN UNCHANGED <<annOn, annTracks, pubSubs, up, known, crashed>>
        ELSE /\ \A t \in T : Room(t, {p})
             /\ annOn' = annOn \cup {p} /\ annTracks' = [annTracks EXCEPT ![p] = T]
             /\ pubSubs' = [t \in Tracks |-> IF t \in T THEN [pubSubs[t] EXCEPT ![p] = Made(up, t, p) + 1]
                                             ELSE pubSubs[t]]
             /\ up' = [x \in Up |-> IF x[1] \in T THEN SubscribeTrack(up, x[1], {p}, FALSE)[x] ELSE up[x]]
             /\ ResolvePublishNamespace(p)
             /\ \E first \in [T -> Subs] :
                  /\ \A t \in T : \E i \in active : i[1] = first[t] /\ i[3] = t
                  /\ crashed' = (\E t \in T : subs[t][first[t]] \in {None, Null})

PublishNamespace(p) ==
    /\ p \in open
    /\ Mixed \/ \A t \in Tracks : pubSubs[t][p] = None
    /\ PublishNamespaceReceived(p)
    /\ UNCHANGED <<subMaps, byReqId, nsSubs, newGroup, open, nextId, recvReq, pubTrk, offers>>

\* What was announced is forgotten, and the tracks of it unsubscribed.
PublishNamespaceDoneReceived(p) ==
    /\ up' = UnsubscribeTrack(up, {x \in Up : x[2] = p /\ x[1] \in annTracks[p] /\ x \in HandlersOf(x[1])})
    /\ annOn' = annOn \ {p} /\ annTracks' = [annTracks EXCEPT ![p] = {}]
    /\ pubSubs' = [t \in Tracks |-> IF t \in annTracks[p] THEN [pubSubs[t] EXCEPT ![p] = None] ELSE pubSubs[t]]

\* PUBLISH_NAMESPACE_DONE is passed on to every subscriber of the namespace, also
\* while another connection announces it.
PublishNamespaceDone(p) ==
    /\ p \in open /\ p \in annOn
    /\ PublishNamespaceDoneReceived(p)
    /\ known' = known \ (nsSubs \X {Ns(p)})
    /\ UNCHANGED <<subMaps, byReqId, nsSubs, newGroup, open, nextId, recvReq, pubTrk, offers, crashed>>

\* PUBLISH_OK.  The example names no subscribers to pass the PUBLISH on to.
ResolvePublish(u, x) == [u EXCEPT ![x].peer = IF @ = "asked" THEN "ok" ELSE @]

\* PublishReceived: a handler, PUBLISH_OK, and a pause when nobody is subscribed.
PublishReceived(p, t) ==
    LET x == <<t, p, Made(up, t, p) + 1>>
        u == ResolvePublish(SubscribeTrack(up, t, {p}, TRUE), x)
    IN  /\ pubSubs' = [pubSubs EXCEPT ![t][p] = x[3]] /\ byReqId' = byReqId \cup {x}
        /\ up' = IF Subscribers(t) = {} THEN Pause(u, {x}) ELSE u

\* PUBLISH of a track p is not publishing.
Publish(p, t) ==
    /\ p \in open /\ Room(t, {p})
    /\ ~\E x \in byReqId : x[1] = t /\ x[2] = p
    /\ Mixed \/ p \notin annOn
    /\ PublishReceived(p, t)
    /\ UNCHANGED <<subMaps, annOn, annTracks, nsSubs, newGroup, open, nextId, recvReq, pubTrk, offers, known, crashed>>

\* Only a handler that PUBLISH made is forgotten.
PublishDoneReceived(x) ==
    IF x \in byReqId
    THEN pubSubs' = [pubSubs EXCEPT ![x[1]][x[2]] = None] /\ byReqId' = byReqId \ {x}
    ELSE UNCHANGED <<pubSubs, byReqId>>

\* PUBLISH_DONE ends one handler.
PublishDone(x) ==
    /\ x[2] \in open /\ up[x].peer \in {"ok", "paused"}
    /\ up' = [up EXCEPT ![x] = [up[x] EXCEPT !.peer = "ended", !.st = IF up[x].reg THEN "kNotSubscribed" ELSE @]]
    /\ IF up[x].reg THEN PublishDoneReceived(x) ELSE UNCHANGED <<pubSubs, byReqId>>
    /\ UNCHANGED <<subMaps, annOn, annTracks, nsSubs, newGroup, open, nextId, recvReq, pubTrk, offers, known, crashed>>

SubscribeOk(x) ==
    /\ x[2] \in open /\ up[x].peer = "asked"
    /\ up' = [up EXCEPT ![x] = [up[x] EXCEPT !.peer = "ok", !.st = IF up[x].reg THEN "kOk" ELSE @]]
    /\ UNCHANGED <<mapVars, open, nextId, recvReq, pubTrk, offers, known, crashed>>

SubscribeError(x) ==
    /\ x[2] \in open /\ up[x].peer = "asked"
    /\ up' = [up EXCEPT ![x] = [up[x] EXCEPT !.peer = "ended", !.st = IF up[x].reg THEN "kError" ELSE @, !.reg = FALSE]]
    /\ UNCHANGED <<mapVars, open, nextId, recvReq, pubTrk, offers, known, crashed>>

\* An object of a publisher goes to every subscriber of the track, and a request
\* for a new group goes back.
ObjectReceived(x) ==
    /\ x[2] \in open /\ up[x].peer = "ok" /\ up[x].reg
    /\ newGroup' = IF Subscribers(x[1]) = {} THEN newGroup ELSE newGroup \ {x[1]}
    /\ crashed' = (\E c \in Subs : subs[x[1]][c] = Null)
    /\ UNCHANGED <<subMaps, pubMaps, nsSubs, up, open, nextId, recvReq, pubTrk, offers, known>>

(***************************************************************************)
(* A connection ends: RemoveAllTracksForConnectionClose, then the server's *)
(* ConnectionStatusChanged, which unsubscribes every request of it.  What  *)
(* it announced and published stays.                                       *)
(***************************************************************************)
RemoveAllTracks(u, c) ==
    [x \in Up |-> IF x[2] = c /\ u[x].made
                  THEN [u[x] EXCEPT !.st = IF u[x].reg THEN "kNotConnected" ELSE @,
                                    !.reg = FALSE, !.peer = "none"]
                  ELSE u[x]]

\* Mutant: the first subscription is passed over.
UnsubscribeAllButOne(u, c) ==
    LET ids == {i[2] : i \in {j \in aliasReq : j[1] = c}}
    IN  nsSubs' = nsSubs \ {c} /\ UnsubscribeReceived(u, c, {r \in ids : \E o \in ids : o < r})

\* ConnectionStatusChanged: the namespace is no longer subscribed to, nor anything else.
UnsubscribeAll(u, c) == nsSubs' = nsSubs \ {c} /\ UnsubscribeReceived(u, c, Req)

ConnectionLost(c) ==
    /\ c \in open /\ Cardinality(Conns \ open) < MaxLost
    /\ open' = open \ {c}
    /\ recvReq' = {i \in recvReq : i[1] # c}
    /\ offers' = {i \in offers : i[1] # c}
    /\ pubTrk' = IF c \in Subs THEN [pubTrk EXCEPT ![c] = [t \in Tracks |-> None]] ELSE pubTrk
    /\ known' = {k \in known : k[1] # c}
    /\ UnsubscribeAll(RemoveAllTracks(up, c), c)
    /\ UNCHANGED nextId

Next ==
    /\ ~crashed
    /\ \/ \E c \in Subs, t \in Tracks : \/ Subscribe(c, t)
                                        \/ \E s \in PStatus \ {"kNoSubscribers"} : SubscribeUpdate(c, t, s)
                                        \/ \E r \in Req : PublishOk(c, r, t)
       \/ \E c \in Subs, r \in Req : Unsubscribe(c, r)
       \/ \E c \in Subs : SubscribeNamespace(c) \/ UnsubscribeNamespace(c)
       \/ \E p \in Pubs : PublishNamespace(p) \/ PublishNamespaceDone(p)
       \/ \E p \in Pubs, t \in Tracks : Publish(p, t)
       \/ \E x \in Up : PublishDone(x) \/ SubscribeOk(x) \/ SubscribeError(x) \/ ObjectReceived(x)
       \/ \E c \in Conns : ConnectionLost(c)

Spec == Init /\ [][Next]_vars

(***************************************************************************)
(* Properties.                                                             *)
(***************************************************************************)
\* Every subscription the relay counts on when a namespace is announced has its
\* handler, so no null handler is ever used.
NoNull ==
    /\ ~crashed
    /\ \A i \in active : subs[i[3]][i[1]] = "handler"

\* Nothing of a subscriber whose connection has ended is left in the maps.  Of a
\* publisher what it announced and published is left.
GoneForgotten ==
    \A c \in Subs \ open :
        /\ c \notin nsSubs
        /\ \A t \in Tracks : subs[t][c] = None
        /\ \A i \in aliasReq \cup active : i[1] # c

\* A connected publisher that used PUBLISH sends exactly while somebody is
\* subscribed: Pause and Resume follow the subscribers.
PausedIffUnused ==
    \A t \in Tracks : \A x \in HandlersOf(t) :
        up[x].init /\ x[2] \in open => (up[x].peer = "paused" <=> Subscribers(t) = {})

\* While a track has subscribers, every connected publisher that announced its
\* namespace or a prefix of it has been asked for it, and has not been told to stop.
UpstreamAsked ==
    \A t \in Tracks, p \in annOn \cap open :
        Subscribers(t) # {} =>
            /\ t \in annTracks[p]
            /\ \E x \in HandlersOf(t) : x[2] = p /\ up[x].peer \in {"asked", "ok", "ended"}

\* A publisher is asked or sending only through a handler the relay still has,
\* unless it was let go before it had answered.
NoOrphan ==
    \A x \in Up : up[x].peer \in {"asked", "ok"} /\ ~up[x].silent => x \in HandlersOf(x[1])

\* A track is subscribed to upstream for the sake of somebody: without subscribers,
\* no announcement of its own namespace holds it.  One of a prefix is never let go.
UpstreamNeeded ==
    \A t \in Tracks : Subscribers(t) = {} => \A p \in Pubs \ Wide : t \notin annTracks[p]

\* Who is in subscribes is served: the publish handler that BindPublisherTrack made is
\* there, and no UNSUBSCRIBE of an earlier request has put it to kNoSubscribers since.
SubscriberServed ==
    \A t \in Tracks : \A c \in Subscribers(t) : pubTrk[c][t] \in PStatus \ {"kNoSubscribers"}

\* TRACK_STATUS finds every track that a connected publisher was asked for, sends, or
\* offers paused, and that it was not let go from before it had answered.
StatusFound ==
    \A x \in Up : up[x].peer \in {"asked", "ok", "paused"} /\ ~up[x].silent =>
        \A c \in Conns \ {x[2]} : TrackStatusReceived(c, x[1]) = "kOk"

\* A subscriber believes that a namespace is there only while announce_active has it:
\* of a connected publisher, or of a lost one, whose entry nothing removes.
NamespaceThere == \A k \in known : \E p \in annOn : Ns(p) = k[2]

\* Subscribers are up to date: those ConnectionStatusChanged saw end are forgotten, and
\* the others know of no namespace that every publisher of it has taken back with
\* PUBLISH_NAMESPACE_DONE.
SubscribersCurrent == GoneForgotten /\ NamespaceThere

\* Demand upstream follows demand downstream, in both flows and in both directions:
\* announced tracks are subscribed to exactly for the sake of somebody, and PUBLISHed
\* ones paused exactly when nobody is there.
UpstreamFollows == UpstreamAsked /\ UpstreamNeeded /\ PausedIffUnused
=============================================================================
