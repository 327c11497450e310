---------------------------- MODULE RelayProofs ----------------------------
(***************************************************************************)
(* The relay serves its subscribers: proofs about Relay for clients that   *)
(* subscribe to a track once at a time (OneSub) and publishers that either *)
(* announce a namespace or PUBLISH its tracks (~Mixed).  Without either    *)
(* of them the invariants are false.                                       *)
(***************************************************************************)
EXTENDS Relay, FiniteSetTheorems, TLAPS

\* The maps of subscriptions agree: active ones are those with an id, one for each
\* connection and track, and exactly they have a handler; all are of open connections.
Asked(c, t) == \E r \in Req : <<c, r, t>> \in aliasReq
SubsInv ==
    /\ active = aliasReq
    /\ \A t \in Tracks, c \in Subs : subs[t][c] = IF Asked(c, t) THEN "handler" ELSE None
    /\ \A c \in Subs, t \in Tracks, r \in Req, s \in Req :
          <<c, r, t>> \in aliasReq /\ <<c, s, t>> \in aliasReq => r = s
    /\ \A i \in aliasReq : i[1] \in open

\* Who is told of a namespace is one of its subscribers, and it is announced.
NamesInv ==
    /\ nsSubs \subseteq open /\ \A k \in known : k[1] \in nsSubs
    /\ \A k \in known : \E p \in annOn : Ns(p) = k[2]

\* Every entry of pub_subscribes is of an announced track that somebody wants, or that
\* a prefix holds, or of a PUBLISH, never of both.
Entry(t, p) ==
    /\ p \in annOn /\ Subscribers(t) # {} => t \in annTracks[p]
    /\ t \in annTracks[p] => p \in annOn
    /\ t \in annTracks[p] /\ p \notin Wide => Subscribers(t) # {}
    /\ pubSubs[t][p] # Null
    /\ pubSubs[t][p] # None <=> t \in annTracks[p] \/ <<t, p, pubSubs[t][p]>> \in byReqId
    /\ \A k \in 1 .. MaxUp : <<t, p, k>> \in byReqId => p \notin annOn /\ pubSubs[t][p] = k
EntriesInv == \A t \in Tracks, p \in Pubs : Entry(t, p)

\* A handler h that x names is in the state its publisher should see, o being the
\* connections that are open.
ByAnnounce(h, o, x) == ~h.init /\ (x[2] \in o => h.peer \in {"asked", "ok", "ended"})
ByPublish(h, o, x) ==
    /\ h.init
    /\ x[2] \in o => /\ h.reg /\ h.st # "kNotConnected" /\ h.peer \in {"ok", "paused"}
                     /\ h.peer = "paused" <=> h.st = "kPaused"
                     /\ h.peer = "paused" <=> Subscribers(x[1]) = {}
Wanted(h) == h.peer \in {"asked", "ok", "paused"} /\ ~h.silent
Good(h, o, x) ==
    /\ pubSubs[x[1]][x[2]] = x[3] /\ x[1] \in annTracks[x[2]] => ByAnnounce(h, o, x)
    /\ x \in byReqId => ByPublish(h, o, x)
    /\ Wanted(h) => pubSubs[x[1]][x[2]] = x[3]
HandlersInv == \A x \in Up : Good(up[x], open, x)

RelayInv == ~crashed /\ SubsInv /\ NamesInv /\ EntriesInv /\ HandlersInv

-----------------------------------------------------------------------------
(* Types.  A handler gets a number that the bound leaves room for. *)

LEMMA UpFinite == IsFiniteSet(Up)
<1>0. IsFiniteSet(1 .. MaxUp)
  BY RelayAssumption, FS_Interval
<1>1. IsFiniteSet(Tracks \X Pubs)
  BY RelayAssumption, FS_Product
<1>2. IsFiniteSet((Tracks \X Pubs) \X (1 .. MaxUp))
  BY <1>0, <1>1, FS_Product
<1> DEFINE W == (Tracks \X Pubs) \X (1 .. MaxUp)
           f == [w \in W |-> <<w[1][1], w[1][2], w[2]>>]
<1>3. \A x \in Up : \E w \in W : f[w] = x
  <2> SUFFICES ASSUME NEW x \in Up PROVE \E w \in W : f[w] = x
    OBVIOUS
  <2>1. PICK t \in Tracks, p \in Pubs, k \in 1 .. MaxUp : x = <<t, p, k>>
    BY DEF Up
  <2>2. <<<<t, p>>, k>> \in W /\ f[<<<<t, p>>, k>>] = <<t, p, k>>
    OBVIOUS
  <2> QED
    BY <2>1, <2>2
<1>4. \A w \in W : f[w] \in Up
  BY DEF Up
<1>5. f \in Surjection(W, Up)
  BY <1>3, <1>4 DEF Surjection
<1> HIDE DEF f, W
<1> QED
  BY <1>2, <1>5, FS_Surjection DEF W

LEMMA MadeType ==
    ASSUME NEW u, NEW t, NEW p
    PROVE  Made(u, t, p) \in Nat
<1>1. IsFiniteSet(1 .. MaxUp)
  BY RelayAssumption, FS_Interval
<1>2. IsFiniteSet({k \in 1 .. MaxUp : u[<<t, p, k>>].made})
  BY <1>1, FS_Subset
<1> QED
  BY <1>2, FS_CardinalityType DEF Made

LEMMA MadeRoom ==
    ASSUME NEW t \in Tracks, NEW P \in SUBSET Pubs, NEW p \in P, Room(t, P)
    PROVE  Made(up, t, p) + 1 \in 1 .. MaxUp
<1> DEFINE A == {k \in 1 .. MaxUp : up[<<t, p, k>>].made}
           B == {x \in Up : x[1] = t /\ up[x].made}
           f == [k \in A |-> <<t, p, k>>]
<1>1. IsFiniteSet(B) /\ IsFiniteSet(P)
  BY UpFinite, RelayAssumption, FS_Subset
<1>2. f \in Injection(A, B)
  <2>1. \A k \in A : f[k] \in B
    BY DEF Up
  <2>2. \A j, k \in A : f[j] = f[k] => j = k
    OBVIOUS
  <2> QED
    BY <2>1, <2>2 DEF Injection, IsInjective
<1>3. Cardinality(A) = Made(up, t, p) /\ Cardinality(B) + Cardinality(P) <= MaxUp
  BY DEF Made, Room
<1>4. Cardinality(P) \in Nat /\ Cardinality(P) # 0 /\ Cardinality(B) \in Nat
  BY <1>1, FS_CardinalityType, FS_EmptySet
<1> HIDE DEF A, B, f
<1>5. Cardinality(A) <= Cardinality(B)
  BY <1>1, <1>2, FS_Injection
<1>6. PICK a \in Nat, b \in Nat, n \in Nat : /\ a = Made(up, t, p) /\ b = Cardinality(B) /\ n = Cardinality(P)
                                             /\ a <= b /\ b + n <= MaxUp /\ n # 0
  BY <1>3, <1>4, <1>5, MadeType
<1>7. a + 1 \in 1 .. MaxUp
  BY <1>6, RelayAssumption
<1> QED
  BY <1>6, <1>7

\* The handlers.
LEMMA HandlerType ==
    ASSUME NEW u \in [Up -> Handler]
    PROVE  /\ \A t, P, b : b \in BOOLEAN => SubscribeTrack(u, t, P, b) \in [Up -> Handler]
           /\ \A X : UnsubscribeTrack(u, X) \in [Up -> Handler]
           /\ \A X : Pause(u, X) \in [Up -> Handler]
           /\ \A X : Resume(u, X) \in [Up -> Handler]
           /\ \A c : RemoveAllTracks(u, c) \in [Up -> Handler]
           /\ \A x \in Up : ResolvePublish(u, x) \in [Up -> Handler]
<1>1. ASSUME NEW t, NEW P, NEW b \in BOOLEAN PROVE SubscribeTrack(u, t, P, b) \in [Up -> Handler]
  BY DEF SubscribeTrack, Handler, HStatus
<1>2. ASSUME NEW X PROVE UnsubscribeTrack(u, X) \in [Up -> Handler]
  <2> SUFFICES ASSUME NEW x \in Up PROVE UnsubscribeTrack(u, X)[x] \in Handler
    BY DEF UnsubscribeTrack
  <2>1. u[x] \in Handler
    OBVIOUS
  <2> QED
    BY <2>1 DEF UnsubscribeTrack, Handler, HStatus
<1>3. ASSUME NEW X PROVE Pause(u, X) \in [Up -> Handler]
  BY ZenonT(40) DEF Pause, Handler, HStatus
<1>4. ASSUME NEW X PROVE Resume(u, X) \in [Up -> Handler]
  BY ZenonT(40) DEF Resume, Handler, HStatus
<1>5. ASSUME NEW c PROVE RemoveAllTracks(u, c) \in [Up -> Handler]
  BY ZenonT(40) DEF RemoveAllTracks, Handler, HStatus
<1>6. ASSUME NEW x \in Up PROVE ResolvePublish(u, x) \in [Up -> Handler]
  BY DEF ResolvePublish, Handler, HStatus
<1> QED
  BY <1>1, <1>2, <1>3, <1>4, <1>5, <1>6

LEMMA SubscribeType ==
    ASSUME TypeOK, NEW c \in Subs, NEW r \in Req, NEW t \in Tracks, SubscribeReceived(c, r, t)
    PROVE  /\ annOn' \subseteq Pubs /\ annTracks' \in [Pubs -> SUBSET Tracks]
           /\ subs' \in [Tracks -> [Subs -> {None, Null, "handler"}]]
           /\ aliasReq' \subseteq Info /\ active' \subseteq Info
           /\ pubSubs' \in [Tracks -> [Pubs -> (1 .. MaxUp) \cup {None, Null}]]
           /\ byReqId' \subseteq Up /\ nsSubs' \subseteq Subs /\ newGroup' \subseteq Tracks
           /\ up' \in [Up -> Handler] /\ crashed' \in BOOLEAN
           /\ pubTrk' \in [Subs -> [Tracks -> PStatus \cup {None}]]
<1>0. annOn \in SUBSET Pubs /\ <<c, r, t>> \in Info
  BY DEF TypeOK, Info
<1>1. PICK D \in SUBSET {p \in annOn : t \notin annTracks[p]},
           b \in {p \in annOn : t \in annTracks[p] /\ pubSubs[t][p] \in {None, Null}} \cup {None} :
        /\ Room(t, D)
        /\ annTracks' = [p \in Pubs |-> IF p \in D THEN annTracks[p] \cup {t} ELSE annTracks[p]]
        /\ pubSubs' = [pubSubs EXCEPT ![t] = [p \in Pubs |-> CASE p \in D -> Made(up, t, p) + 1
                                                               [] p = b -> Null
                                                               [] OTHER -> @[p]]]
        /\ up' = SubscribeTrack(Resume(up, HandlersOf(t)), t, D, FALSE)
  BY Zenon DEF SubscribeReceived
<1>d. D \in SUBSET Pubs
  BY <1>0
<1>2. \A p \in D : Made(up, t, p) + 1 \in 1 .. MaxUp
  BY <1>1, <1>d, MadeRoom
<1>3. annTracks' \in [Pubs -> SUBSET Tracks]
  BY <1>1 DEF TypeOK
<1>4. pubSubs' \in [Tracks -> [Pubs -> (1 .. MaxUp) \cup {None, Null}]]
  BY <1>1, <1>2 DEF TypeOK
<1>5. /\ subs' = [subs EXCEPT ![t][c] = "handler"]
      /\ aliasReq' = aliasReq \cup {<<c, r, t>>} /\ active' = active \cup {<<c, r, t>>}
      /\ UNCHANGED <<annOn, byReqId, nsSubs, newGroup>>
  BY DEF SubscribeReceived
<1>6. subs' \in [Tracks -> [Subs -> {None, Null, "handler"}]]
  BY <1>5 DEF TypeOK
<1>7. up' \in [Up -> Handler]
  BY <1>1, HandlerType DEF TypeOK
<1>8. crashed' \in BOOLEAN
  BY DEF SubscribeReceived, NullAt
<1>9. pubTrk' \in [Subs -> [Tracks -> PStatus \cup {None}]]
  BY DEF SubscribeReceived, BindPublisherTrack, TypeOK, PStatus
<1> QED
  BY <1>0, <1>3, <1>4, <1>5, <1>6, <1>7, <1>8, <1>9 DEF TypeOK

LEMMA UnsubscribeType ==
    ASSUME TypeOK, NEW u \in [Up -> Handler], NEW c, NEW R, UnsubscribeReceived(u, c, R)
    PROVE  /\ annOn' \subseteq Pubs /\ annTracks' \in [Pubs -> SUBSET Tracks]
           /\ subs' \in [Tracks -> [Subs -> {None, Null, "handler"}]]
           /\ aliasReq' \subseteq Info /\ active' \subseteq Info
           /\ pubSubs' \in [Tracks -> [Pubs -> (1 .. MaxUp) \cup {None, Null}]]
           /\ byReqId' \subseteq Up /\ newGroup' \subseteq Tracks
           /\ up' \in [Up -> Handler] /\ crashed' \in BOOLEAN
<1>1. ASSUME NEW I PROVE \A t \in Tracks, d \in Subs : d = c => HandlerLeft(c, t, I) \in {None, Null, "handler"}
  BY DEF HandlerLeft, TypeOK
<1>2. subs' \in [Tracks -> [Subs -> {None, Null, "handler"}]]
  <2>1. PICK I : subs' = [t \in Tracks |-> [d \in Subs |-> IF d = c THEN HandlerLeft(c, t, I) ELSE subs[t][d]]]
    BY DEF UnsubscribeReceived, Left
  <2> QED
    BY <1>1, <2>1 DEF TypeOK
<1>3. annTracks' \in [Pubs -> SUBSET Tracks]
  BY DEF UnsubscribeReceived, TypeOK
<1>4. pubSubs' \in [Tracks -> [Pubs -> (1 .. MaxUp) \cup {None, Null}]]
  BY DEF UnsubscribeReceived, TypeOK
<1>5. up' \in [Up -> Handler]
  <2>1. \E X, Y : up' = UnsubscribeTrack(Pause(u, X), Y)
    BY DEF UnsubscribeReceived
  <2> QED
    BY <2>1, HandlerType
<1>6. crashed' \in BOOLEAN
  BY DEF UnsubscribeReceived
<1>7. UNCHANGED <<annOn, byReqId, newGroup>> /\ aliasReq' \subseteq aliasReq /\ active' \subseteq active
  BY DEF UnsubscribeReceived, Left
<1> QED
  BY <1>2, <1>3, <1>4, <1>5, <1>6, <1>7 DEF TypeOK

LEMMA TypeInit == Init => TypeOK
<1> SUFFICES ASSUME Init PROVE TypeOK
  OBVIOUS
<1>1. up \in [Up -> Handler]
  BY DEF Init, NoHandler, Handler, HStatus
<1>2. nextId \in [Subs -> 1 .. MaxReq + 1]
  BY RelayAssumption DEF Init
<1> QED
  BY <1>1, <1>2 DEF Init, TypeOK

LEMMA TypeNext == TypeOK /\ [Next]_vars => TypeOK'
<1> SUFFICES ASSUME TypeOK, [Next]_vars PROVE TypeOK'
  OBVIOUS
<1>0. MaxReq \in Nat /\ MaxUp \in Nat
  BY RelayAssumption
<1>n. ASSUME NEW c \in Subs, nextId[c] \in Req PROVE [nextId EXCEPT ![c] = @ + 1] \in [Subs -> 1 .. MaxReq + 1]
  BY <1>0, <1>n DEF TypeOK, Req
<1>1. ASSUME NEW c \in Subs, NEW t \in Tracks, Subscribe(c, t) PROVE TypeOK'
  <2>1. nextId[c] \in Req /\ SubscribeReceived(c, nextId[c], t)
    BY <1>1 DEF Subscribe
  <2>2. nextId' \in [Subs -> 1 .. MaxReq + 1]
    BY <1>1, <1>n DEF Subscribe
  <2>3. recvReq' \subseteq Info
    BY <1>1, <2>1 DEF Subscribe, Info, TypeOK
  <2> QED
    BY <1>1, <2>1, <2>2, <2>3, SubscribeType DEF Subscribe, TypeOK
<1>2. ASSUME NEW c \in Subs, NEW t \in Tracks, NEW s \in PStatus, SubscribeUpdate(c, t, s) PROVE TypeOK'
  <2>1. newGroup' \subseteq Tracks
    BY <1>2 DEF SubscribeUpdate, StatusChanged, TypeOK
  <2>2. pubTrk' \in [Subs -> [Tracks -> PStatus \cup {None}]]
    BY <1>2 DEF SubscribeUpdate, TypeOK
  <2> QED
    BY <1>2, <2>1, <2>2 DEF SubscribeUpdate, TypeOK, subMaps, pubMaps
<1>3. ASSUME NEW c \in Subs, NEW t \in Tracks, NEW r \in Req, PublishOk(c, r, t) PROVE TypeOK'
  <2>1. SubscribeReceived(c, r, t) /\ recvReq' \subseteq Info /\ offers' \subseteq Info
    BY <1>3 DEF PublishOk, Info, TypeOK
  <2> QED
    BY <1>3, <2>1, SubscribeType DEF PublishOk, TypeOK
<1>4. ASSUME NEW c \in Subs, NEW r \in Req, Unsubscribe(c, r) PROVE TypeOK'
  <2>1. pubTrk' \in [Subs -> [Tracks -> PStatus \cup {None}]]
    BY <1>4 DEF Unsubscribe, TypeOK, PStatus
  <2>2. UnsubscribeReceived(up, c, {r}) /\ up \in [Up -> Handler] /\ recvReq' \subseteq recvReq
    BY <1>4 DEF Unsubscribe, TypeOK
  <2> QED
    BY <1>4, <2>1, <2>2, UnsubscribeType DEF Unsubscribe, TypeOK
<1>5. ASSUME NEW c \in Subs, SubscribeNamespace(c) PROVE TypeOK'
  <2> DEFINE X == {x \in Up : x \in HandlersOf(x[1]) /\ up[x].init}
  <2>1. ResolveSubscribeNamespace(c, X) /\ nsSubs' = nsSubs \cup {c}
    BY <1>5 DEF SubscribeNamespace, SubscribeNamespaceReceived
  <2>2. Cardinality(X) \in Nat /\ \A x \in X : x[1] \in Tracks
    <3>1. IsFiniteSet(X)
      BY UpFinite, FS_Subset
    <3> QED
      BY <3>1, FS_CardinalityType DEF Up
  <2> HIDE DEF X
  <2>3. PICK k \in Nat : k = Cardinality(X)
    BY <2>2
  <2>4. nextId[c] + k <= MaxReq + 1 /\ nextId' = [nextId EXCEPT ![c] = @ + k] /\ nextId[c] \in 1 .. MaxReq + 1
    BY <2>1, <2>3 DEF ResolveSubscribeNamespace, TypeOK
  <2>5. nextId' \in [Subs -> 1 .. MaxReq + 1]
    BY <1>0, <2>3, <2>4 DEF TypeOK
  <2>6. offers' \subseteq Info
    <3>1. PICK f \in [X -> nextId[c] .. nextId[c] + k - 1] : offers' = offers \cup {<<c, f[x], x[1]>> : x \in X}
      BY <2>1, <2>3 DEF ResolveSubscribeNamespace
    <3>2. \A n \in nextId[c] .. nextId[c] + k - 1 : n \in Req
      BY <1>0, <2>3, <2>4 DEF Req
    <3>3. \A x \in X : <<c, f[x], x[1]>> \in Info
      BY <2>2, <3>1, <3>2 DEF Info
    <3> QED
      BY <3>1, <3>3 DEF TypeOK
  <2>7. known' \subseteq Subs \X {"full", "prefix"}
    BY <2>1 DEF ResolveSubscribeNamespace, TypeOK, Ns
  <2> QED
    BY <1>5, <2>1, <2>5, <2>6, <2>7 DEF SubscribeNamespace, TypeOK, subMaps, pubMaps
<1>6. ASSUME NEW p \in Pubs, PublishNamespace(p) PROVE TypeOK'
  <2> DEFINE T == {t \in Tracks : \E i \in active : i[3] = t}
  <2>1. CASE p \in annOn
    BY <1>6, <2>1 DEF PublishNamespace, PublishNamespaceReceived, TypeOK, subMaps
  <2>2. CASE p \notin annOn
    <3>1. /\ \A t \in T : Room(t, {p})
          /\ annOn' = annOn \cup {p} /\ annTracks' = [annTracks EXCEPT ![p] = T]
          /\ pubSubs' = [t \in Tracks |-> IF t \in T THEN [pubSubs[t] EXCEPT ![p] = Made(up, t, p) + 1]
                                          ELSE pubSubs[t]]
          /\ up' = [x \in Up |-> IF x[1] \in T THEN SubscribeTrack(up, x[1], {p}, FALSE)[x] ELSE up[x]]
          /\ known' = known \cup ((nsSubs \cap open) \X {Ns(p)}) /\ crashed' \in BOOLEAN
      BY <1>6, <2>2 DEF PublishNamespace, PublishNamespaceReceived, ResolvePublishNamespace
    <3>2. \A t \in T : Made(up, t, p) + 1 \in 1 .. MaxUp
      BY <3>1, MadeRoom
    <3>t. T \subseteq Tracks
      OBVIOUS
    <3> HIDE DEF T
    <3>3. pubSubs' \in [Tracks -> [Pubs -> (1 .. MaxUp) \cup {None, Null}]]
      BY <3>1, <3>2 DEF TypeOK
    <3>4. up' \in [Up -> Handler]
      <4>1. \A x \in Up : SubscribeTrack(up, x[1], {p}, FALSE) \in [Up -> Handler]
        BY HandlerType DEF TypeOK
      <4> QED
        BY <3>1, <4>1 DEF TypeOK
    <3>5. annTracks' \in [Pubs -> SUBSET Tracks]
      BY <3>1, <3>t DEF TypeOK
    <3>6. known' \subseteq Subs \X {"full", "prefix"}
      BY <3>1 DEF TypeOK, Ns
    <3> QED
      BY <1>6, <3>1, <3>3, <3>4, <3>5, <3>6 DEF PublishNamespace, TypeOK, subMaps
  <2> QED
    BY <2>1, <2>2
<1>7. ASSUME NEW p \in Pubs, PublishNamespaceDone(p) PROVE TypeOK'
  <2>1. annOn' \subseteq annOn /\ annTracks' \in [Pubs -> SUBSET Tracks]
    BY <1>7 DEF PublishNamespaceDone, PublishNamespaceDoneReceived, TypeOK
  <2>2. pubSubs' \in [Tracks -> [Pubs -> (1 .. MaxUp) \cup {None, Null}]]
    BY <1>7 DEF PublishNamespaceDone, PublishNamespaceDoneReceived, TypeOK
  <2>3. up' \in [Up -> Handler]
    BY <1>7, HandlerType DEF PublishNamespaceDone, PublishNamespaceDoneReceived, TypeOK
  <2>4. known' \subseteq known
    BY <1>7 DEF PublishNamespaceDone
  <2> QED
    BY <1>7, <2>1, <2>2, <2>3, <2>4 DEF PublishNamespaceDone, TypeOK, subMaps
<1>8. ASSUME NEW p \in Pubs, NEW t \in Tracks, Publish(p, t) PROVE TypeOK'
  <2> DEFINE k == Made(up, t, p) + 1
  <2>1. k \in 1 .. MaxUp
    BY <1>8, MadeRoom DEF Publish
  <2> HIDE DEF k
  <2>2. <<t, p, k>> \in Up /\ <<t, p, k>>[3] = k
    BY <2>1 DEF Up
  <2> DEFINE u == ResolvePublish(SubscribeTrack(up, t, {p}, TRUE), <<t, p, k>>)
  <2>3. u \in [Up -> Handler]
    BY <2>2, HandlerType DEF TypeOK
  <2>4. /\ pubSubs' = [pubSubs EXCEPT ![t][p] = <<t, p, k>>[3]] /\ byReqId' = byReqId \cup {<<t, p, k>>}
        /\ up' = IF Subscribers(t) = {} THEN Pause(u, {<<t, p, k>>}) ELSE u
    BY <1>8 DEF Publish, PublishReceived, k
  <2> HIDE DEF u
  <2>5. up' \in [Up -> Handler]
    BY <2>3, <2>4, HandlerType
  <2>6. pubSubs' \in [Tracks -> [Pubs -> (1 .. MaxUp) \cup {None, Null}]]
    BY <2>1, <2>2, <2>4 DEF TypeOK
  <2> QED
    BY <1>8, <2>2, <2>4, <2>5, <2>6 DEF Publish, TypeOK, subMaps
<1>9. ASSUME NEW x \in Up, PublishDone(x) PROVE TypeOK'
  <2>1. up' \in [Up -> Handler]
    <3> DEFINE h == [up[x] EXCEPT !.peer = "ended", !.st = IF up[x].reg THEN "kNotSubscribed" ELSE @]
    <3>1. up[x] \in Handler
      BY DEF TypeOK
    <3>2. h \in Handler
      BY <3>1 DEF Handler, HStatus
    <3>3. up' = [up EXCEPT ![x] = h]
      BY <1>9 DEF PublishDone
    <3> HIDE DEF h
    <3> QED
      BY <3>2, <3>3 DEF TypeOK
  <2>0. pubSubs' = pubSubs \/ pubSubs' = [pubSubs EXCEPT ![x[1]][x[2]] = None]
    BY <1>9 DEF PublishDone, PublishDoneReceived
  <2>2. pubSubs' \in [Tracks -> [Pubs -> (1 .. MaxUp) \cup {None, Null}]]
    <3>1. PICK t \in Tracks, p \in Pubs : t = x[1] /\ p = x[2]
      BY DEF Up
    <3>2. [pubSubs EXCEPT ![t][p] = None] \in [Tracks -> [Pubs -> (1 .. MaxUp) \cup {None, Null}]]
      BY DEF TypeOK
    <3> QED
      BY <2>0, <3>1, <3>2 DEF TypeOK
  <2>3. byReqId' \subseteq byReqId
    BY <1>9 DEF PublishDone, PublishDoneReceived
  <2> QED
    BY <1>9, <2>1, <2>2, <2>3 DEF PublishDone, TypeOK, subMaps
<1>10. ASSUME NEW x \in Up, SubscribeOk(x) PROVE TypeOK'
  <2>1. up' \in [Up -> Handler]
    <3> DEFINE h == [up[x] EXCEPT !.peer = "ok", !.st = IF up[x].reg THEN "kOk" ELSE @]
    <3>1. up[x] \in Handler
      BY DEF TypeOK
    <3>2. h \in Handler
      BY <3>1 DEF Handler, HStatus
    <3>3. up' = [up EXCEPT ![x] = h]
      BY <1>10 DEF SubscribeOk
    <3> HIDE DEF h
    <3> QED
      BY <3>2, <3>3 DEF TypeOK
  <2> QED
    BY <1>10, <2>1 DEF SubscribeOk, TypeOK, mapVars, subMaps, pubMaps
<1>11. ASSUME NEW x \in Up, SubscribeError(x) PROVE TypeOK'
  <2>1. up' \in [Up -> Handler]
    <3> DEFINE h == [up[x] EXCEPT !.peer = "ended", !.st = IF up[x].reg THEN "kError" ELSE @, !.reg = FALSE]
    <3>1. up[x] \in Handler
      BY DEF TypeOK
    <3>2. h \in Handler
      BY <3>1 DEF Handler, HStatus
    <3>3. up' = [up EXCEPT ![x] = h]
      BY <1>11 DEF SubscribeError
    <3> HIDE DEF h
    <3> QED
      BY <3>2, <3>3 DEF TypeOK
  <2> QED
    BY <1>11, <2>1 DEF SubscribeError, TypeOK, mapVars, subMaps, pubMaps
<1>12. ASSUME NEW x \in Up, ObjectReceived(x) PROVE TypeOK'
  <2>1. newGroup' \subseteq newGroup /\ crashed' \in BOOLEAN
    BY <1>12 DEF ObjectReceived
  <2> QED
    BY <1>12, <2>1 DEF ObjectReceived, TypeOK, subMaps, pubMaps
<1>13. ASSUME NEW c \in Conns, ConnectionLost(c) PROVE TypeOK'
  <2>1. RemoveAllTracks(up, c) \in [Up -> Handler]
    BY HandlerType DEF TypeOK
  <2>2. UnsubscribeReceived(RemoveAllTracks(up, c), c, Req) /\ nsSubs' \subseteq nsSubs
    BY <1>13 DEF ConnectionLost, UnsubscribeAll
  <2>3. pubTrk' \in [Subs -> [Tracks -> PStatus \cup {None}]]
    BY <1>13 DEF ConnectionLost, TypeOK
  <2>4. open' \subseteq open /\ recvReq' \subseteq recvReq /\ offers' \subseteq offers /\ known' \subseteq known
    BY <1>13 DEF ConnectionLost
  <2> QED
    BY <1>13, <2>1, <2>2, <2>3, <2>4, UnsubscribeType DEF ConnectionLost, TypeOK
<1>14. CASE UNCHANGED vars
  BY <1>14 DEF vars, mapVars, subMaps, pubMaps, TypeOK
<1> QED
  BY <1>1, <1>2, <1>3, <1>4, <1>5, <1>6, <1>7, <1>8, <1>9, <1>10, <1>11, <1>12, <1>13, <1>14
  DEF Next, UnsubscribeNamespace

\* The maps of the server and of the example keep their types: in particular the
\* number of a handler stays within the bound that Room keeps.
THEOREM TypeCorrect == Spec => []TypeOK
<1> QED
  BY TypeInit, TypeNext, PTL DEF Spec

-----------------------------------------------------------------------------
(* The subscribers. *)

\* Constants are told apart.
LEMMA Apart ==
    /\ None # "handler" /\ Null # "handler" /\ None # Null /\ None \notin Pubs
    /\ None \notin 1 .. MaxUp /\ Null \notin 1 .. MaxUp
BY RelayAssumption

LEMMA Names ==
    ASSUME NEW x \in Up
    PROVE  \E t \in Tracks, p \in Pubs, k \in 1 .. MaxUp : x = <<t, p, k>> /\ x[1] = t /\ x[2] = p /\ x[3] = k
BY DEF Up

\* Who is subscribed is who has a request.
LEMMA WhoAsked ==
    ASSUME SubsInv, NEW t \in Tracks, NEW c \in Subs
    PROVE  c \in Subscribers(t) <=> Asked(c, t)
BY Apart DEF SubsInv, Subscribers

\* What SubscribeReceived does to the subscribers, whoever the publishers are.
LEMMA SubsAsk ==
    ASSUME TypeOK, SubsInv, OneSub, NEW c \in Subs, NEW r \in Req, NEW t \in Tracks, c \in open,
           ~\E o \in Req : <<c, o, t>> \in aliasReq, UNCHANGED open,
           subs' = [subs EXCEPT ![t][c] = "handler"],
           aliasReq' = aliasReq \cup {<<c, r, t>>}, active' = active \cup {<<c, r, t>>}
    PROVE  SubsInv'
<1>1. active' = aliasReq'
  BY DEF SubsInv
<1>2. ASSUME NEW s \in Tracks, NEW d \in Subs PROVE subs'[s][d] = IF Asked(d, s)' THEN "handler" ELSE None
  <2>1. CASE s = t /\ d = c
    <3>1. subs'[s][d] = "handler"
      BY <2>1 DEF TypeOK
    <3>2. Asked(d, s)'
      BY <2>1 DEF Asked
    <3> QED
      BY <3>1, <3>2
  <2>2. CASE ~(s = t /\ d = c)
    <3>1. subs'[s][d] = subs[s][d]
      BY <2>2 DEF TypeOK
    <3>2. \A o \in Req : <<d, o, s>> \in aliasReq' <=> <<d, o, s>> \in aliasReq
      BY <2>2
    <3>3. Asked(d, s)' <=> Asked(d, s)
      BY <3>2 DEF Asked
    <3> QED
      BY <3>1, <3>3 DEF SubsInv
  <2> QED
    BY <2>1, <2>2
<1>3. ASSUME NEW d \in Subs, NEW s \in Tracks, NEW a \in Req, NEW b \in Req,
             <<d, a, s>> \in aliasReq', <<d, b, s>> \in aliasReq' PROVE a = b
  BY <1>3 DEF SubsInv
<1>4. \A i \in aliasReq' : i[1] \in open'
  BY DEF SubsInv
<1> QED
  BY <1>1, <1>2, <1>3, <1>4 DEF SubsInv

\* The subscriptions that UnsubscribeReceived takes away, and the tracks that nobody
\* wants then.
Lost(c, R, t) == \E i \in Found(c, R) : i[3] = t
Unwanted(c, R) == {t \in Tracks : Lost(c, R, t) /\ Subscribers(t) \subseteq {c}}
Announced(x) == x[2] \in annOn /\ x[2] \notin Wide /\ x[1] \in annTracks[x[2]]
Lets(t, p) == p \in annOn /\ p \notin Wide /\ t \in annTracks[p]
Reached(T) == {x \in Up : x[1] \in T /\ pubSubs[x[1]][x[2]] = x[3]}

\* With one subscription for each connection and track, all that are found go.
LEMMA FirstIsAll ==
    ASSUME TypeOK, SubsInv, NEW c, NEW R
    PROVE  /\ First(Found(c, R)) = Found(c, R)
           /\ \A i \in Found(c, R) : /\ i[1] = c /\ c \in Subs /\ i[3] \in Tracks /\ c \in Subscribers(i[3])
                                     /\ i \in aliasReq /\ i[2] \in Req /\ i = <<c, i[2], i[3]>>
<1>1. ASSUME NEW i \in Found(c, R)
      PROVE  /\ i[1] = c /\ c \in Subs /\ i[3] \in Tracks /\ i[2] \in Req /\ i \in aliasReq /\ i = <<c, i[2], i[3]>>
             /\ Asked(c, i[3])
  <2>1. i \in aliasReq /\ i[1] = c
    BY DEF Found
  <2>2. PICK d \in Subs, r \in Req, t \in Tracks : i = <<d, r, t>>
    BY <2>1 DEF TypeOK, Info
  <2> QED
    BY <2>1, <2>2 DEF Asked
<1>2. ASSUME NEW i \in Found(c, R) PROVE i \in First(Found(c, R))
  <2>1. subs[i[3]][i[1]] = "handler"
    BY <1>1 DEF SubsInv
  <2>2. ASSUME NEW j \in Found(c, R), j[3] = i[3] PROVE i[2] <= j[2]
    <3>1. i[2] = j[2]
      BY <1>1, <2>2 DEF SubsInv
    <3>2. PICK n \in Nat : n = i[2] /\ n = j[2]
      BY <1>1, <3>1 DEF Req
    <3>3. n <= n
      OBVIOUS
    <3> QED
      BY <3>2, <3>3
  <2> QED
    BY <2>1, <2>2 DEF First
<1>3. First(Found(c, R)) \subseteq Found(c, R)
  BY DEF First
<1> QED
  BY <1>1, <1>2, <1>3, WhoAsked

\* UnsubscribeReceived as it works on such maps.
Forgets(u, c, R) ==
    /\ aliasReq' = aliasReq \ Found(c, R) /\ active' = aliasReq'
    /\ \A t \in Tracks, d \in Subs : subs'[t][d] = IF d = c /\ Lost(c, R, t) THEN None ELSE subs[t][d]
    /\ annTracks' = [p \in Pubs |-> {t \in annTracks[p] : ~(t \in Unwanted(c, R) /\ Lets(t, p))}]
    /\ \A t \in Tracks, p \in Pubs :
          pubSubs'[t][p] = IF t \in Unwanted(c, R) /\ Lets(t, p) THEN None ELSE pubSubs[t][p]
    /\ up' = UnsubscribeTrack(Pause(u, Reached(Unwanted(c, R))), {x \in Reached(Unwanted(c, R)) : Announced(x)})
    /\ crashed' = FALSE /\ UNCHANGED <<annOn, byReqId>>

LEMMA UnsubscribeEffect ==
    ASSUME TypeOK, SubsInv, EntriesInv, NEW u, NEW c, NEW R, UnsubscribeReceived(u, c, R)
    PROVE  Forgets(u, c, R)
<1> DEFINE I == Found(c, R)
           T == {t \in Tracks : (\E i \in First(I) : i[3] = t) /\ UnsubPub(c, t)}
           X == {x \in Up : x[1] \in T /\ x \in HandlersOf(x[1])}
<1>1. First(I) = I
  BY FirstIsAll
<1>2. T = Unwanted(c, R)
  BY <1>1 DEF Unwanted, Lost, UnsubPub
<1>3. X = Reached(Unwanted(c, R))
  BY <1>2 DEF Reached, HandlersOf
<1>4. /\ aliasReq' = aliasReq \ I /\ active' = active \ First(I)
      /\ subs' = [t \in Tracks |-> [d \in Subs |-> IF d = c THEN HandlerLeft(c, t, I) ELSE subs[t][d]]]
      /\ UNCHANGED <<annOn, byReqId>>
  BY DEF UnsubscribeReceived, Left
<1>5. ASSUME NEW t \in Tracks, NEW d \in Subs
      PROVE  subs'[t][d] = IF d = c /\ Lost(c, R, t) THEN None ELSE subs[t][d]
  <2>1. ~\E i \in I \ First(I) : i[3] = t
    BY <1>1
  <2>2. HandlerLeft(c, t, I) = IF Lost(c, R, t) THEN None ELSE subs[t][c]
    <3>1. (\A i \in I : i[3] # t) <=> ~Lost(c, R, t)
      BY DEF Lost
    <3> HIDE DEF I
    <3> QED
      BY <2>1, <3>1 DEF HandlerLeft
  <2> QED
    BY <1>4, <2>2
<1>n. \A p : Ns(p) = "full" <=> p \notin Wide
  BY DEF Ns
<1>6. /\ annTracks' = [p \in Pubs |-> {t \in annTracks[p] : ~(t \in T /\ Lets(t, p))}]
      /\ pubSubs' = [t \in Tracks |-> [p \in Pubs |-> IF t \in T /\ Lets(t, p) THEN None ELSE pubSubs[t][p]]]
      /\ crashed' = (\E t \in T : NullAt(t))
  BY <1>n DEF UnsubscribeReceived, Lets
<1>7. crashed' = FALSE
  BY <1>6 DEF NullAt, EntriesInv, Entry
<1>8. up' = UnsubscribeTrack(Pause(u, X), {x \in X : x[2] \in annOn /\ Ns(x[2]) = "full" /\ x[1] \in annTracks[x[2]]})
  BY DEF UnsubscribeReceived
<1>9. {x \in X : x[2] \in annOn /\ Ns(x[2]) = "full" /\ x[1] \in annTracks[x[2]]} = {x \in Reached(Unwanted(c, R)) : Announced(x)}
  BY <1>3, <1>n DEF Announced
<1> HIDE DEF T, X
<1>10. active' = aliasReq'
  BY <1>1, <1>4 DEF SubsInv
<1> QED
  BY <1>2, <1>3, <1>4, <1>5, <1>6, <1>7, <1>8, <1>9, <1>10 DEF Forgets

\* The tracks taken away lose their last subscriber, the others keep one or had none.
LEMMA UnwantedIs ==
    ASSUME TypeOK, SubsInv, EntriesInv, NEW u, NEW c, NEW R, UnsubscribeReceived(u, c, R), NEW t \in Tracks
    PROVE  /\ t \in Unwanted(c, R) => Subscribers(t) # {} /\ Subscribers(t)' = {}
           /\ t \notin Unwanted(c, R) => (Subscribers(t)' = {} <=> Subscribers(t) = {})
<1>f. Forgets(u, c, R)
  BY UnsubscribeEffect
<1>0. \A s \in Tracks, d \in Subs : subs'[s][d] = IF d = c /\ Lost(c, R, s) THEN None ELSE subs[s][d]
  BY <1>f DEF Forgets
<1>1. \A d \in Subs : d \in Subscribers(t)' <=> d \in Subscribers(t) /\ ~(d = c /\ Lost(c, R, t))
  BY <1>0 DEF Subscribers
<1>2. Subscribers(t) \subseteq Subs /\ Subscribers(t)' \subseteq Subs
  BY DEF Subscribers
<1>3. Lost(c, R, t) => c \in Subscribers(t) /\ c \in Subs
  BY FirstIsAll DEF Lost
<1>4. t \in Unwanted(c, R) <=> Lost(c, R, t) /\ Subscribers(t) \subseteq {c}
  BY DEF Unwanted
<1> QED
  BY <1>1, <1>2, <1>3, <1>4

LEMMA SubsLeave ==
    ASSUME TypeOK, SubsInv, EntriesInv, NEW u, NEW c, NEW R, UnsubscribeReceived(u, c, R),
           \/ UNCHANGED open
           \/ open' = open \ {c} /\ R = Req
    PROVE  SubsInv'
<1>1. aliasReq' = aliasReq \ Found(c, R) /\ active' = aliasReq'
  BY UnsubscribeEffect DEF Forgets
<1>f. Forgets(u, c, R)
  BY UnsubscribeEffect
<1>0. \A s \in Tracks, d \in Subs : subs'[s][d] = IF d = c /\ Lost(c, R, s) THEN None ELSE subs[s][d]
  BY <1>f DEF Forgets
<1>2. ASSUME NEW t \in Tracks, NEW d \in Subs PROVE subs'[t][d] = IF Asked(d, t)' THEN "handler" ELSE None
  <2>1. subs'[t][d] = IF d = c /\ Lost(c, R, t) THEN None ELSE subs[t][d]
    BY <1>0
  <2>2. CASE d = c /\ Lost(c, R, t)
    <3>1. PICK i \in Found(c, R) : i[3] = t
      BY <2>2 DEF Lost
    <3>2. i = <<c, i[2], t>> /\ i[2] \in R /\ i \in aliasReq /\ i[2] \in Req
      BY <3>1, FirstIsAll DEF Found
    <3>3. ASSUME NEW r \in Req, <<c, r, t>> \in aliasReq PROVE <<c, r, t>> \in Found(c, R)
      <4>1. r = i[2]
        BY <2>2, <3>2, <3>3 DEF SubsInv
      <4> QED
        BY <3>2, <4>1
    <3>4. ~Asked(c, t)'
      BY <1>1, <3>3 DEF Asked
    <3> QED
      BY <2>1, <2>2, <3>4
  <2>3. CASE ~(d = c /\ Lost(c, R, t))
    <3>1. ASSUME NEW r \in Req PROVE <<d, r, t>> \notin Found(c, R)
      BY <2>3 DEF Lost, Found
    <3>2. Asked(d, t)' <=> Asked(d, t)
      BY <1>1, <3>1 DEF Asked
    <3> QED
      BY <2>1, <2>3, <3>2 DEF SubsInv
  <2> QED
    BY <2>2, <2>3
<1>3. \A i \in aliasReq' : i[1] \in open'
  <2>1. CASE UNCHANGED open
    BY <1>1, <2>1 DEF SubsInv
  <2>2. CASE open' = open \ {c} /\ R = Req
    <3>1. ASSUME NEW i \in aliasReq, i[1] = c PROVE i \in Found(c, R)
      <4>1. i[2] \in Req
        BY DEF TypeOK, Info
      <4> QED
        BY <2>2, <3>1, <4>1 DEF Found
    <3> QED
      BY <1>1, <2>2, <3>1 DEF SubsInv
  <2> QED
    BY <2>1, <2>2
<1> QED
  BY <1>1, <1>2, <1>3 DEF SubsInv

-----------------------------------------------------------------------------
(* SUBSCRIBE. *)

Fresh(t) == {p \in annOn : t \notin annTracks[p]}

\* SubscribeReceived as it works on such maps: no announcement has lost its handler,
\* so the loop over them goes to its end.
Asks(c, r, t) ==
    /\ subs' = [subs EXCEPT ![t][c] = "handler"]
    /\ aliasReq' = aliasReq \cup {<<c, r, t>>} /\ active' = active \cup {<<c, r, t>>}
    /\ \A p \in Pubs : annTracks'[p] = IF p \in Fresh(t) THEN annTracks[p] \cup {t} ELSE annTracks[p]
    /\ \A s \in Tracks, p \in Pubs :
          pubSubs'[s][p] = IF s = t /\ p \in Fresh(t) THEN Made(up, t, p) + 1 ELSE pubSubs[s][p]
    /\ \A x \in Up : up'[x] = IF x[1] = t /\ x[2] \in Fresh(t) /\ x[3] = Made(up, t, x[2]) + 1
                              THEN [made |-> TRUE, init |-> FALSE, st |-> "kNotSubscribed", reg |-> x[2] \in open,
                                    peer |-> IF x[2] \in open THEN "asked" ELSE "none", silent |-> FALSE]
                              ELSE Resume(up, HandlersOf(t))[x]
    /\ \A p \in Fresh(t) : Made(up, t, p) + 1 \in 1 .. MaxUp
    /\ crashed' = FALSE /\ UNCHANGED <<annOn, byReqId, nsSubs>>

LEMMA SubscribeEffect ==
    ASSUME TypeOK, SubsInv, EntriesInv, NEW c \in Subs, NEW r \in Req, NEW t \in Tracks, SubscribeReceived(c, r, t)
    PROVE  Asks(c, r, t)
<1> DEFINE lost == {p \in annOn : t \in annTracks[p] /\ pubSubs[t][p] \in {None, Null}}
           R == Resume(up, HandlersOf(t))
<1>1. lost = {}
  BY DEF EntriesInv, Entry, TypeOK
<1>2. PICK D \in SUBSET Fresh(t), b \in lost \cup {None} :
         /\ b = None => D = Fresh(t)
         /\ Room(t, D)
         /\ subs' = [subs EXCEPT ![t][c] = "handler"]
         /\ aliasReq' = aliasReq \cup {<<c, r, t>>} /\ active' = active \cup {<<c, r, t>>}
         /\ annTracks' = [p \in Pubs |-> IF p \in D THEN annTracks[p] \cup {t} ELSE annTracks[p]]
         /\ pubSubs' = [pubSubs EXCEPT ![t] = [p \in Pubs |-> CASE p \in D -> Made(up, t, p) + 1
                                                                [] p = b -> Null
                                                                [] OTHER -> pubSubs[t][p]]]
         /\ up' = SubscribeTrack(R, t, D, FALSE)
         /\ crashed' = NullAt(t)
         /\ UNCHANGED <<annOn, byReqId, nsSubs, newGroup>>
  BY DEF SubscribeReceived, Fresh
<1>3. b = None /\ D = Fresh(t) /\ Fresh(t) \subseteq Pubs
  BY <1>1, <1>2 DEF Fresh, TypeOK
<1>4. crashed' = FALSE
  BY <1>2 DEF NullAt, EntriesInv, Entry
<1>5. ASSUME NEW s \in Tracks, NEW p \in Pubs
      PROVE  pubSubs'[s][p] = IF s = t /\ p \in Fresh(t) THEN Made(up, t, p) + 1 ELSE pubSubs[s][p]
  <2>1. None # p
    BY Apart
  <2>2. CASE s # t
    BY <1>2, <2>2 DEF TypeOK
  <2>3. CASE s = t
    <3>1. pubSubs'[t] = [q \in Pubs |-> CASE q \in D -> Made(up, t, q) + 1
                                           [] q = b -> Null
                                           [] OTHER -> pubSubs[t][q]]
      BY <1>2 DEF TypeOK
    <3>2. pubSubs'[t][p] = CASE p \in D -> Made(up, t, p) + 1 [] p = b -> Null [] OTHER -> pubSubs[t][p]
      BY <3>1
    <3> QED
      BY <1>3, <2>1, <2>3, <3>2
  <2> QED
    BY <2>2, <2>3
<1>6. \A x \in Up : R[x].made = up[x].made
  BY DEF Resume, TypeOK, Handler
<1>7. ASSUME NEW p \in Pubs PROVE Made(R, t, p) = Made(up, t, p)
  <2>1. \A k \in 1 .. MaxUp : R[<<t, p, k>>].made = up[<<t, p, k>>].made
    BY <1>6 DEF Up
  <2> HIDE DEF R
  <2>2. {k \in 1 .. MaxUp : R[<<t, p, k>>].made} = {k \in 1 .. MaxUp : up[<<t, p, k>>].made}
    BY <2>1
  <2> QED
    BY <2>2 DEF Made
<1>8. \A p \in Fresh(t) : Made(up, t, p) + 1 \in 1 .. MaxUp
  BY <1>2, <1>3, MadeRoom
<1> HIDE DEF R, lost
<1>9. ASSUME NEW x \in Up
      PROVE  up'[x] = IF x[1] = t /\ x[2] \in Fresh(t) /\ x[3] = Made(up, t, x[2]) + 1
                      THEN [made |-> TRUE, init |-> FALSE, st |-> "kNotSubscribed", reg |-> x[2] \in open,
                            peer |-> IF x[2] \in open THEN "asked" ELSE "none", silent |-> FALSE]
                      ELSE R[x]
  <2>1. x[2] \in Pubs
    BY DEF Up
  <2>2. Made(R, t, x[2]) = Made(up, t, x[2])
    BY <1>7, <2>1
  <2>3. up'[x] = IF x[1] = t /\ x[2] \in D /\ x[3] = Made(R, t, x[2]) + 1
                 THEN [made |-> TRUE, init |-> FALSE, st |-> "kNotSubscribed", reg |-> x[2] \in open,
                       peer |-> IF x[2] \in open THEN "asked" ELSE "none", silent |-> FALSE]
                 ELSE R[x]
    BY <1>2 DEF SubscribeTrack
  <2> QED
    BY <1>3, <2>2, <2>3
<1>10. \A p \in Pubs : annTracks'[p] = IF p \in Fresh(t) THEN annTracks[p] \cup {t} ELSE annTracks[p]
  BY <1>2, <1>3
<1> QED
  BY <1>2, <1>4, <1>5, <1>8, <1>9, <1>10 DEF Asks, R

LEMMA SubscribeWho ==
    ASSUME TypeOK, NEW c \in Subs, NEW r \in Req, NEW t \in Tracks, Asks(c, r, t), NEW s \in Tracks
    PROVE  Subscribers(s)' = IF s = t THEN Subscribers(t) \cup {c} ELSE Subscribers(s)
<1>1. \A d \in Subs : subs'[s][d] = IF s = t /\ d = c THEN "handler" ELSE subs[s][d]
  BY DEF Asks, TypeOK
<1> QED
  BY <1>1, Apart DEF Subscribers

LEMMA SubscribeEntries ==
    ASSUME TypeOK, EntriesInv, NEW c \in Subs, NEW r \in Req, NEW t \in Tracks, Asks(c, r, t)
    PROVE  EntriesInv'
<1> SUFFICES ASSUME NEW s \in Tracks, NEW p \in Pubs PROVE Entry(s, p)'
  BY DEF EntriesInv
<1>1. Entry(s, p)
  BY DEF EntriesInv
<1>2. annTracks'[p] = IF p \in Fresh(t) THEN annTracks[p] \cup {t} ELSE annTracks[p]
  BY DEF Asks
<1>3. pubSubs'[s][p] = IF s = t /\ p \in Fresh(t) THEN Made(up, t, p) + 1 ELSE pubSubs[s][p]
  BY DEF Asks
<1>4. annOn' = annOn /\ byReqId' = byReqId
  BY DEF Asks
<1>5. CASE s # t
  <2>1. s \in annTracks'[p] <=> s \in annTracks[p]
    BY <1>2, <1>5
  <2>2. pubSubs'[s][p] = pubSubs[s][p] /\ Subscribers(s)' = Subscribers(s)
    BY <1>3, <1>5, SubscribeWho
  <2> QED
    BY <1>1, <1>4, <2>1, <2>2 DEF Entry
<1>6. CASE s = t
  <2>1. Subscribers(s)' # {}
    BY <1>6, SubscribeWho
  <2>2. CASE p \in Fresh(t)
    <3>1. PICK n \in 1 .. MaxUp : n = Made(up, t, p) + 1
      BY <2>2 DEF Asks
    <3>2. pubSubs'[s][p] = n /\ n # None /\ n # Null
      BY <1>3, <1>6, <2>2, <3>1, Apart
    <3>3. p \in annOn /\ s \in annTracks'[p]
      BY <1>2, <1>6, <2>2 DEF Fresh
    <3>4. \A k \in 1 .. MaxUp : <<s, p, k>> \notin byReqId
      BY <1>1, <3>3 DEF Entry
    <3> QED
      BY <1>4, <2>1, <3>2, <3>3, <3>4 DEF Entry
  <2>3. CASE p \notin Fresh(t)
    <3>1. pubSubs'[s][p] = pubSubs[s][p] /\ annTracks'[p] = annTracks[p]
      BY <1>2, <1>3, <2>3
    <3>2. p \in annOn <=> s \in annTracks[p]
      BY <1>1, <1>6, <2>3 DEF Fresh, Entry
    <3> QED
      BY <1>1, <1>4, <2>1, <3>1, <3>2 DEF Entry
  <2> QED
    BY <2>2, <2>3
<1> QED
  BY <1>5, <1>6

LEMMA SubscribeHandlers ==
    ASSUME TypeOK, EntriesInv, HandlersInv, UNCHANGED open,
           NEW c \in Subs, NEW r \in Req, NEW t \in Tracks, Asks(c, r, t)
    PROVE  HandlersInv'
<1> SUFFICES ASSUME NEW s \in Tracks, NEW p \in Pubs, NEW k \in 1 .. MaxUp
             PROVE  Good(up[<<s, p, k>>], open, <<s, p, k>>)'
  BY Names DEF HandlersInv
<1> DEFINE x == <<s, p, k>>
           h == up[x]
<1>0. x \in Up /\ x[1] = s /\ x[2] = p /\ x[3] = k /\ h \in Handler
  BY DEF Up, TypeOK
<1>1. Entry(s, p) /\ Good(h, open, x)
  BY <1>0 DEF EntriesInv, HandlersInv
<1>2. annTracks'[p] = IF p \in Fresh(t) THEN annTracks[p] \cup {t} ELSE annTracks[p]
  BY DEF Asks
<1>3. pubSubs'[s][p] = IF s = t /\ p \in Fresh(t) THEN Made(up, t, p) + 1 ELSE pubSubs[s][p]
  BY DEF Asks
<1>4. annOn' = annOn /\ byReqId' = byReqId /\ open' = open
  BY DEF Asks
<1>5. up'[x] = IF s = t /\ p \in Fresh(t) /\ k = Made(up, t, p) + 1
               THEN [made |-> TRUE, init |-> FALSE, st |-> "kNotSubscribed", reg |-> p \in open,
                     peer |-> IF p \in open THEN "asked" ELSE "none", silent |-> FALSE]
               ELSE Resume(up, HandlersOf(t))[x]
  BY <1>0 DEF Asks
<1>6. Resume(up, HandlersOf(t))[x] = IF (s = t /\ pubSubs[t][p] = k) /\ h.init /\ h.st = "kPaused"
                                     THEN [h EXCEPT !.st = "kOk", !.peer = IF @ = "paused" THEN "ok" ELSE @]
                                     ELSE h
  BY <1>0 DEF Resume, HandlersOf
<1> HIDE DEF h
<1>7. CASE s # t
  <2>1. up'[x] = h
    BY <1>5, <1>6, <1>7
  <2>2. s \in annTracks'[p] <=> s \in annTracks[p]
    BY <1>2, <1>7
  <2>3. pubSubs'[s][p] = pubSubs[s][p] /\ Subscribers(s)' = Subscribers(s)
    BY <1>3, <1>7, SubscribeWho
  <2> QED
    BY <1>1, <1>4, <2>1, <2>2, <2>3 DEF Good, ByAnnounce, ByPublish, Wanted
<1>8. CASE s = t /\ p \in Fresh(t)
  <2>1. p \in annOn /\ t \notin annTracks[p] /\ x \notin byReqId
    BY <1>1, <1>8 DEF Fresh, Entry
  <2>2. pubSubs[s][p] = None
    <3>1. <<s, p, pubSubs[s][p]>> \notin byReqId
      <4>1. ASSUME <<s, p, pubSubs[s][p]>> \in byReqId PROVE pubSubs[s][p] \in 1 .. MaxUp
        BY <4>1 DEF TypeOK, Up
      <4> QED
        BY <1>1, <2>1, <4>1 DEF Entry
    <3> QED
      BY <1>1, <1>8, <2>1, <3>1 DEF Entry
  <2>3. pubSubs[s][p] # k
    BY <2>2, Apart
  <2>4. CASE k = Made(up, t, p) + 1
    <3>1. up'[x].init = FALSE /\ (p \in open => up'[x].peer = "asked")
      BY <1>5, <1>8, <2>4
    <3>2. pubSubs'[s][p] = k
      BY <1>3, <1>8, <2>4
    <3> QED
      BY <1>0, <1>4, <2>1, <3>1, <3>2 DEF Good, ByAnnounce
  <2>5. CASE k # Made(up, t, p) + 1
    <3>1. up'[x] = h
      BY <1>5, <1>6, <2>3, <2>5
    <3>2. ~Wanted(h)
      BY <1>1, <2>3 DEF Good
    <3>3. pubSubs'[s][p] # k
      BY <1>3, <1>8, <2>5
    <3> QED
      BY <1>0, <1>4, <2>1, <3>1, <3>2, <3>3 DEF Good, Wanted
  <2> QED
    BY <2>4, <2>5
<1>9. CASE s = t /\ p \notin Fresh(t)
  <2>1. pubSubs'[s][p] = pubSubs[s][p] /\ annTracks'[p] = annTracks[p]
    BY <1>2, <1>3, <1>9
  <2>2. Subscribers(s)' # {}
    BY <1>9, SubscribeWho
  <2>3. CASE pubSubs[s][p] = k /\ h.init /\ h.st = "kPaused"
    <3>1. /\ up'[x].init /\ up'[x].st = "kOk" /\ up'[x].reg = h.reg /\ up'[x].silent = h.silent
          /\ up'[x].peer = IF h.peer = "paused" THEN "ok" ELSE h.peer
      BY <1>0, <1>5, <1>6, <1>9, <2>3 DEF Handler
    <3>2. s \notin annTracks[p]
      BY <1>1, <2>3 DEF Good, ByAnnounce
    <3> QED
      BY <1>1, <1>4, <2>1, <2>2, <2>3, <3>1, <3>2 DEF Good, ByPublish, Wanted
  <2>4. CASE ~(pubSubs[s][p] = k /\ h.init /\ h.st = "kPaused")
    <3>1. up'[x] = h
      BY <1>5, <1>6, <1>9, <2>4
    <3>2. x \in byReqId /\ p \in open => h.peer # "paused"
      BY <1>0, <1>1, <2>4 DEF Good, ByPublish, Entry
    <3> QED
      BY <1>1, <1>4, <2>1, <2>2, <3>1, <3>2 DEF Good, ByAnnounce, ByPublish, Wanted
  <2> QED
    BY <2>3, <2>4
<1> QED
  BY <1>7, <1>8, <1>9

-----------------------------------------------------------------------------
(* UNSUBSCRIBE, and the end of a connection. *)

LEMMA LeaveEntries ==
    ASSUME TypeOK, SubsInv, EntriesInv, NEW u, NEW c, NEW R, UnsubscribeReceived(u, c, R)
    PROVE  EntriesInv'
<1> SUFFICES ASSUME NEW t \in Tracks, NEW p \in Pubs PROVE Entry(t, p)'
  BY DEF EntriesInv
<1>0. Forgets(u, c, R)
  BY UnsubscribeEffect
<1>1. Entry(t, p)
  BY DEF EntriesInv
<1>2. t \in annTracks'[p] <=> t \in annTracks[p] /\ ~(t \in Unwanted(c, R) /\ Lets(t, p))
  BY <1>0 DEF Forgets
<1>3. pubSubs'[t][p] = IF t \in Unwanted(c, R) /\ Lets(t, p) THEN None ELSE pubSubs[t][p]
  BY <1>0 DEF Forgets
<1>4. annOn' = annOn /\ byReqId' = byReqId
  BY <1>0 DEF Forgets
<1>5. CASE t \notin Unwanted(c, R)
  <2>1. Subscribers(t)' = {} <=> Subscribers(t) = {}
    BY <1>5, UnwantedIs
  <2>2. pubSubs'[t][p] = pubSubs[t][p] /\ (t \in annTracks'[p] <=> t \in annTracks[p])
    BY <1>2, <1>3, <1>5
  <2> QED
    BY <1>1, <1>4, <2>1, <2>2 DEF Entry
<1>6. CASE t \in Unwanted(c, R)
  <2>1. Subscribers(t)' = {}
    BY <1>6, UnwantedIs
  <2>2. CASE Lets(t, p)
    <3>1. p \in annOn /\ t \notin annTracks'[p]
      BY <1>2, <1>6, <2>2 DEF Lets
    <3>2. pubSubs'[t][p] = None
      BY <1>3, <1>6, <2>2
    <3>3. <<t, p, None>> \notin byReqId
      BY Apart DEF TypeOK, Up
    <3>4. \A k \in 1 .. MaxUp : <<t, p, k>> \notin byReqId
      BY <1>1, <3>1 DEF Entry
    <3> QED
      BY <1>4, <2>1, <3>1, <3>2, <3>3, <3>4, Apart DEF Entry
  <2>3. CASE ~Lets(t, p)
    <3>1. pubSubs'[t][p] = pubSubs[t][p] /\ (t \in annTracks'[p] <=> t \in annTracks[p])
      BY <1>2, <1>3, <2>3
    <3>2. t \in annTracks[p] => p \in Wide
      BY <1>1, <2>3 DEF Entry, Lets
    <3> QED
      BY <1>1, <1>4, <2>1, <3>1, <3>2 DEF Entry
  <2> QED
    BY <2>2, <2>3
<1> QED
  BY <1>5, <1>6

LEMMA LeaveHandlers ==
    ASSUME TypeOK, SubsInv, EntriesInv, NEW u \in [Up -> Handler], NEW c, NEW R, UnsubscribeReceived(u, c, R),
           \A x \in Up : Good(u[x], open', x)
    PROVE  HandlersInv'
<1> SUFFICES ASSUME NEW t \in Tracks, NEW p \in Pubs, NEW k \in 1 .. MaxUp
             PROVE  Good(up[<<t, p, k>>], open, <<t, p, k>>)'
  BY Names DEF HandlersInv
<1> DEFINE x == <<t, p, k>>
           h == u[x]
           U == Unwanted(c, R)
           v == Pause(u, Reached(U))
           g == v[x]
           o == open'
<1>0. x \in Up /\ x[1] = t /\ x[2] = p /\ x[3] = k /\ h \in Handler
  BY DEF Up
<1>f. Forgets(u, c, R)
  BY UnsubscribeEffect
<1>1. Entry(t, p) /\ Good(h, o, x)
  BY <1>0 DEF EntriesInv
<1>2. t \in annTracks'[p] <=> t \in annTracks[p] /\ ~(t \in U /\ Lets(t, p))
  BY <1>f DEF Forgets
<1>3. pubSubs'[t][p] = IF t \in U /\ Lets(t, p) THEN None ELSE pubSubs[t][p]
  BY <1>f DEF Forgets
<1>4. annOn' = annOn /\ byReqId' = byReqId
  BY <1>f DEF Forgets
<1>5. g = IF (t \in U /\ pubSubs[t][p] = k) /\ h.init /\ h.st \notin {"kPaused", "kNotConnected"}
          THEN [h EXCEPT !.st = "kPaused", !.peer = IF @ = "ok" THEN "paused" ELSE @]
          ELSE h
  BY <1>0 DEF Pause, Reached
<1>6. up'[x] = IF ~(t \in U /\ pubSubs[t][p] = k /\ Lets(t, p)) THEN g
               ELSE IF g.st = "kOk"
                    THEN [g EXCEPT !.st = "kNotSubscribed", !.reg = FALSE,
                                   !.peer = IF ~g.init /\ @ \in {"asked", "ok", "paused"} THEN "over" ELSE @]
                    ELSE [g EXCEPT !.reg = FALSE, !.silent = TRUE]
  <2>1. up' = UnsubscribeTrack(v, {y \in Reached(U) : Announced(y)})
    BY <1>f DEF Forgets
  <2> HIDE DEF v
  <2>2. x \in {y \in Reached(U) : Announced(y)} <=> t \in U /\ pubSubs[t][p] = k /\ Lets(t, p)
    BY <1>0 DEF Reached, Announced, Lets
  <2> QED
    BY <1>0, <2>1, <2>2 DEF UnsubscribeTrack
<1>7. /\ t \in U => Subscribers(t) # {} /\ Subscribers(t)' = {}
      /\ t \notin U => (Subscribers(t)' = {} <=> Subscribers(t) = {})
  BY UnwantedIs
<1> HIDE DEF h, g, U, v, o
<1>8. CASE t \notin U
  <2>1. up'[x] = h /\ pubSubs'[t][p] = pubSubs[t][p] /\ (t \in annTracks'[p] <=> t \in annTracks[p])
    BY <1>2, <1>3, <1>5, <1>6, <1>8
  <2> QED
    BY <1>1, <1>4, <1>7, <1>8, <2>1 DEF Good, ByAnnounce, ByPublish, Wanted, o
<1>9. CASE t \in U /\ pubSubs[t][p] # k
  <2>1. up'[x] = h /\ x \notin byReqId /\ ~Wanted(h)
    BY <1>0, <1>1, <1>5, <1>6, <1>9 DEF Entry, Good
  <2>2. pubSubs'[t][p] # k
    BY <1>3, <1>9, Apart
  <2> QED
    BY <1>0, <1>4, <2>1, <2>2 DEF Good, Wanted
<1>10. CASE t \in U /\ pubSubs[t][p] = k /\ Lets(t, p)
  <2>1. p \in annOn /\ x \notin byReqId
    BY <1>1, <1>10 DEF Entry, Lets
  <2>2. ~h.init
    BY <1>0, <1>1, <1>10 DEF Good, ByAnnounce, Lets
  <2>3. g = h
    BY <1>5, <2>2
  <2>4. up'[x].peer \notin {"asked", "ok", "paused"} \/ up'[x].silent
    BY <1>0, <1>6, <1>10, <2>1, <2>2, <2>3 DEF Handler
  <2>5. pubSubs'[t][p] # k
    BY <1>3, <1>10, <2>1, Apart
  <2> QED
    BY <1>0, <1>4, <2>1, <2>4, <2>5 DEF Good, Wanted
<1>11. CASE t \in U /\ pubSubs[t][p] = k /\ t \notin annTracks[p]
  <2>1. pubSubs'[t][p] = k /\ t \notin annTracks'[p] /\ up'[x] = g
    BY <1>2, <1>3, <1>6, <1>11 DEF Lets
  <2>2. x \in byReqId
    BY <1>1, <1>11, Apart DEF Entry
  <2>3. h.init /\ (p \in o => /\ h.reg /\ h.st # "kNotConnected" /\ h.peer = "ok" /\ h.st # "kPaused")
    BY <1>0, <1>1, <1>7, <1>11, <2>2 DEF Good, ByPublish
  <2>4. g.init /\ (p \in o => g.reg /\ g.st = "kPaused" /\ g.peer = "paused")
    BY <1>0, <1>5, <1>11, <2>3 DEF Handler
  <2> QED
    BY <1>0, <1>4, <1>7, <1>11, <2>1, <2>2, <2>4 DEF Good, ByPublish, o
<1>12. CASE t \in U /\ pubSubs[t][p] = k /\ t \in annTracks[p] /\ ~Lets(t, p)
  <2>1. pubSubs'[t][p] = k /\ t \in annTracks'[p] /\ up'[x] = g
    BY <1>2, <1>3, <1>6, <1>12
  <2>2. p \in annOn /\ x \notin byReqId
    BY <1>1, <1>12 DEF Entry
  <2>3. ~h.init
    BY <1>0, <1>1, <1>12 DEF Good, ByAnnounce
  <2>4. g = h
    BY <1>5, <2>3
  <2> QED
    BY <1>0, <1>1, <1>4, <1>12, <2>1, <2>2, <2>4 DEF Good, ByAnnounce, Wanted, o
<1> QED
  BY <1>8, <1>9, <1>10, <1>11, <1>12

\* A connection that ends takes its handlers' states with it.
LEMMA RemoveGood ==
    ASSUME TypeOK, HandlersInv, NEW c, NEW x \in Up
    PROVE  Good(RemoveAllTracks(up, c)[x], open \ {c}, x)
<1> DEFINE h == up[x]
           g == RemoveAllTracks(up, c)[x]
<1>1. h \in Handler /\ Good(h, open, x)
  BY DEF HandlersInv, TypeOK
<1>2. g = IF x[2] = c /\ h.made
          THEN [h EXCEPT !.st = IF h.reg THEN "kNotConnected" ELSE @, !.reg = FALSE, !.peer = "none"]
          ELSE h
  BY DEF RemoveAllTracks
<1> HIDE DEF h, g
<1>3. CASE x[2] = c /\ h.made
  <2>1. g.init = h.init /\ g.peer = "none"
    BY <1>1, <1>2, <1>3 DEF Handler
  <2> QED
    BY <1>1, <1>3, <2>1 DEF Good, ByAnnounce, ByPublish, Wanted, g
<1>4. CASE ~(x[2] = c /\ h.made)
  <2>1. g = h
    BY <1>2, <1>4
  <2>2. x[2] \in open \ {c} => x[2] \in open
    OBVIOUS
  <2> QED
    BY <1>1, <2>1, <2>2 DEF Good, ByAnnounce, ByPublish, g
<1> QED
  BY <1>3, <1>4

-----------------------------------------------------------------------------
(* The publishers. *)

\* SubscribeTrack makes one handler, and leaves the others.
NewHandler(b, p) ==
    [made |-> TRUE, init |-> b, st |-> "kNotSubscribed", reg |-> p \in open,
     peer |-> IF p \in open THEN "asked" ELSE "none", silent |-> FALSE]

LEMMA MakesOne ==
    ASSUME NEW t \in Tracks, NEW p \in Pubs
    PROVE  /\ \A s \in Tracks, q \in Pubs, k \in 1 .. MaxUp :
                SubscribeTrack(up, t, {p}, FALSE)[<<s, q, k>>] =
                  IF s = t /\ q = p /\ k = Made(up, t, p) + 1 THEN NewHandler(FALSE, p) ELSE up[<<s, q, k>>]
           /\ \A s \in Tracks, q \in Pubs, k \in 1 .. MaxUp :
                SubscribeTrack(up, t, {p}, TRUE)[<<s, q, k>>] =
                  IF s = t /\ q = p /\ k = Made(up, t, p) + 1 THEN NewHandler(TRUE, p) ELSE up[<<s, q, k>>]
<1> DEFINE v == SubscribeTrack(up, t, {p}, FALSE)
           w == SubscribeTrack(up, t, {p}, TRUE)
<1> SUFFICES ASSUME NEW s \in Tracks, NEW q \in Pubs, NEW k \in 1 .. MaxUp
             PROVE  /\ v[<<s, q, k>>] = IF s = t /\ q = p /\ k = Made(up, t, p) + 1 THEN NewHandler(FALSE, p)
                                       ELSE up[<<s, q, k>>]
                    /\ w[<<s, q, k>>] = IF s = t /\ q = p /\ k = Made(up, t, p) + 1 THEN NewHandler(TRUE, p)
                                       ELSE up[<<s, q, k>>]
  OBVIOUS
<1> DEFINE x == <<s, q, k>>
<1>1. x \in Up /\ x[1] = s /\ x[2] = q /\ x[3] = k
  BY DEF Up
<1> HIDE DEF x
<1>2. v[x] = IF x[1] = t /\ x[2] \in {p} /\ x[3] = Made(up, t, x[2]) + 1 THEN NewHandler(FALSE, x[2]) ELSE up[x]
  BY <1>1 DEF SubscribeTrack, NewHandler
<1>3. w[x] = IF x[1] = t /\ x[2] \in {p} /\ x[3] = Made(up, t, x[2]) + 1 THEN NewHandler(TRUE, x[2]) ELSE up[x]
  BY <1>1 DEF SubscribeTrack, NewHandler
<1> HIDE DEF v, w
<1>4. CASE q = p
  BY <1>1, <1>2, <1>3, <1>4 DEF x
<1>5. CASE q # p
  BY <1>1, <1>2, <1>3, <1>5 DEF x
<1> QED
  BY <1>4, <1>5

\* An announcement that is new.
LEMMA AnnounceNew ==
    ASSUME TypeOK, SubsInv, EntriesInv, HandlersInv, ~Mixed, NEW p \in Pubs, PublishNamespace(p), p \notin annOn
    PROVE  /\ EntriesInv' /\ HandlersInv' /\ crashed' = FALSE /\ annOn' = annOn \cup {p}
           /\ known' = known \cup ((nsSubs \cap open) \X {Ns(p)})
<1>m. \A t \in Tracks : \A s \in Tracks, q \in Pubs, k \in 1 .. MaxUp :
         SubscribeTrack(up, t, {p}, FALSE)[<<s, q, k>>] =
           IF s = t /\ q = p /\ k = Made(up, t, p) + 1 THEN NewHandler(FALSE, p) ELSE up[<<s, q, k>>]
  BY MakesOne
<1> DEFINE T == {t \in Tracks : \E i \in active : i[3] = t}
<1>1. /\ \A t \in T : Room(t, {p})
      /\ annOn' = annOn \cup {p} /\ annTracks' = [annTracks EXCEPT ![p] = T]
      /\ pubSubs' = [t \in Tracks |-> IF t \in T THEN [pubSubs[t] EXCEPT ![p] = Made(up, t, p) + 1]
                                      ELSE pubSubs[t]]
      /\ up' = [x \in Up |-> IF x[1] \in T THEN SubscribeTrack(up, x[1], {p}, FALSE)[x] ELSE up[x]]
      /\ known' = known \cup ((nsSubs \cap open) \X {Ns(p)})
      /\ \E first \in [T -> Subs] :
           /\ \A t \in T : \E i \in active : i[1] = first[t] /\ i[3] = t
           /\ crashed' = (\E t \in T : subs[t][first[t]] \in {None, Null})
  BY DEF PublishNamespace, PublishNamespaceReceived, ResolvePublishNamespace
<1>2. /\ \A t \in Tracks : pubSubs[t][p] = None
      /\ UNCHANGED <<subs, byReqId, open>>
  BY DEF PublishNamespace, subMaps
<1>3. \A t \in Tracks : t \in T <=> Subscribers(t) # {}
  <2> SUFFICES ASSUME NEW t \in Tracks PROVE t \in T <=> Subscribers(t) # {}
    OBVIOUS
  <2>1. ASSUME NEW i \in active, i[3] = t PROVE Subscribers(t) # {}
    <3>1. PICK c \in Subs, r \in Req, s \in Tracks : i = <<c, r, s>>
      BY <2>1 DEF TypeOK, Info
    <3>2. Asked(c, t)
      BY <2>1, <3>1 DEF Asked, SubsInv
    <3> QED
      BY <3>2, WhoAsked
  <2>2. ASSUME Subscribers(t) # {} PROVE t \in T
    <3>1. PICK c \in Subs : c \in Subscribers(t)
      BY <2>2 DEF Subscribers
    <3>2. PICK r \in Req : <<c, r, t>> \in active
      BY <3>1, WhoAsked DEF Asked, SubsInv
    <3>3. <<c, r, t>>[3] = t
      OBVIOUS
    <3> QED
      BY <3>2, <3>3
  <2> QED
    BY <2>1, <2>2
<1>4. crashed' = FALSE
  <2>1. PICK first \in [T -> Subs] :
           /\ \A t \in T : \E i \in active : i[1] = first[t] /\ i[3] = t
           /\ crashed' = (\E t \in T : subs[t][first[t]] \in {None, Null})
    BY <1>1
  <2>2. ASSUME NEW t \in T PROVE subs[t][first[t]] = "handler"
    <3>1. PICK i \in active : i[1] = first[t] /\ i[3] = t
      BY <2>1
    <3>2. PICK c \in Subs, r \in Req, s \in Tracks : i = <<c, r, s>>
      BY <3>1 DEF TypeOK, Info
    <3>3. c = first[t] /\ s = t
      BY <3>1, <3>2
    <3>4. Asked(c, s)
      BY <3>1, <3>2 DEF Asked, SubsInv
    <3> QED
      BY <3>3, <3>4 DEF SubsInv
  <2> QED
    BY <2>1, <2>2, Apart
<1> HIDE DEF T
<1>5. ASSUME NEW t \in Tracks PROVE Subscribers(t)' = Subscribers(t)
  BY <1>2 DEF Subscribers
<1>6. ASSUME NEW t \in Tracks, NEW q \in Pubs
      PROVE  /\ annTracks'[q] = IF q = p THEN T ELSE annTracks[q]
             /\ pubSubs'[t][q] = IF q = p /\ t \in T THEN Made(up, t, p) + 1 ELSE pubSubs[t][q]
  <2>1. annTracks'[q] = IF q = p THEN T ELSE annTracks[q]
    BY <1>1 DEF TypeOK
  <2>2. pubSubs'[t] = IF t \in T THEN [pubSubs[t] EXCEPT ![p] = Made(up, t, p) + 1] ELSE pubSubs[t]
    BY <1>1
  <2>3. pubSubs[t] \in [Pubs -> (1 .. MaxUp) \cup {None, Null}]
    BY DEF TypeOK
  <2> QED
    BY <2>1, <2>2, <2>3
<1>7. ASSUME NEW t \in Tracks, NEW k \in 1 .. MaxUp PROVE <<t, p, k>> \notin byReqId /\ pubSubs[t][p] # k
  BY <1>2, Apart DEF EntriesInv, Entry
<1>8. ASSUME NEW t \in Tracks, NEW q \in Pubs PROVE Entry(t, q)'
  <2>1. Entry(t, q) /\ (q \in annOn' <=> q \in annOn \/ q = p)
    BY <1>1 DEF EntriesInv
  <2>2. CASE q # p
    <3>1. annTracks'[q] = annTracks[q] /\ pubSubs'[t][q] = pubSubs[t][q] /\ (q \in annOn' <=> q \in annOn)
      BY <1>6, <2>1, <2>2
    <3> QED
      BY <1>2, <1>5, <2>1, <3>1 DEF Entry
  <2>3. CASE q = p /\ t \in T
    <3>1. PICK n \in 1 .. MaxUp : n = Made(up, t, p) + 1
      BY <1>1, <2>3, MadeRoom
    <3>2. pubSubs'[t][q] = n /\ n # None /\ n # Null /\ t \in annTracks'[q]
      BY <1>6, <2>3, <3>1, Apart
    <3> QED
      BY <1>2, <1>3, <1>5, <1>7, <2>1, <2>3, <3>2 DEF Entry
  <2>4. CASE q = p /\ t \notin T
    <3>1. pubSubs'[t][q] = None /\ t \notin annTracks'[q]
      BY <1>2, <1>6, <2>4
    <3>2. <<t, p, None>> \notin byReqId
      BY Apart DEF TypeOK, Up
    <3> QED
      BY <1>2, <1>3, <1>5, <1>7, <2>1, <2>4, <3>1, <3>2, Apart DEF Entry
  <2> QED
    BY <2>2, <2>3, <2>4
<1>9. ASSUME NEW t \in Tracks, NEW q \in Pubs, NEW k \in 1 .. MaxUp
      PROVE  Good(up[<<t, q, k>>], open, <<t, q, k>>)'
  <2> DEFINE x == <<t, q, k>>
             h == up[x]
  <2>0. x \in Up /\ x[1] = t /\ x[2] = q /\ x[3] = k
    BY DEF Up
  <2>1. Good(h, open, x)
    BY <2>0 DEF HandlersInv
  <2>2. up'[x] = IF t \in T THEN SubscribeTrack(up, t, {p}, FALSE)[x] ELSE h
    BY <1>1, <2>0
  <2>3. SubscribeTrack(up, t, {p}, FALSE)[x] = IF q = p /\ k = Made(up, t, p) + 1 THEN NewHandler(FALSE, p) ELSE h
    <3>1. SubscribeTrack(up, t, {p}, FALSE)[<<t, q, k>>] =
            IF t = t /\ q = p /\ k = Made(up, t, p) + 1 THEN NewHandler(FALSE, p) ELSE up[<<t, q, k>>]
      BY <1>m
    <3> QED
      BY <3>1
  <2> HIDE DEF h
  <2>4. CASE q # p
    <3>1. annTracks'[q] = annTracks[q] /\ pubSubs'[t][q] = pubSubs[t][q] /\ up'[x] = h
      BY <1>6, <2>2, <2>3, <2>4
    <3> QED
      BY <1>2, <1>5, <2>0, <2>1, <3>1 DEF Good, ByAnnounce, ByPublish, Wanted
  <2>5. CASE q = p /\ t \in T /\ k = Made(up, t, p) + 1
    <3>0. up'[x] = NewHandler(FALSE, p)
      BY <2>2, <2>3, <2>5
    <3>1. up'[x].init = FALSE /\ (p \in open => up'[x].peer = "asked")
      BY <3>0 DEF NewHandler
    <3>2. pubSubs'[t][q] = k
      BY <1>6, <2>5
    <3> QED
      BY <1>2, <1>7, <2>0, <2>5, <3>1, <3>2 DEF Good, ByAnnounce
  <2>6. CASE q = p /\ ~(t \in T /\ k = Made(up, t, p) + 1)
    <3>1. up'[x] = h /\ pubSubs'[t][q] # k
      BY <1>6, <1>7, <2>2, <2>3, <2>6, ZenonT(40)
    <3>2. ~Wanted(h)
      BY <1>7, <2>0, <2>1, <2>6 DEF Good
    <3> QED
      BY <1>2, <1>7, <2>0, <2>6, <3>1, <3>2 DEF Good, Wanted
  <2> QED
    BY <2>4, <2>5, <2>6
<1>10. HandlersInv'
  BY <1>9, Names DEF HandlersInv
<1> QED
  BY <1>1, <1>4, <1>8, <1>10 DEF EntriesInv

\* An announcement that is taken back.
LEMMA AnnounceDone ==
    ASSUME TypeOK, EntriesInv, HandlersInv, NEW p \in Pubs, PublishNamespaceDone(p)
    PROVE  EntriesInv' /\ HandlersInv'
<1> DEFINE X == {x \in Up : x[2] = p /\ x[1] \in annTracks[p] /\ x \in HandlersOf(x[1])}
<1>1. /\ up' = UnsubscribeTrack(up, X)
      /\ annOn' = annOn \ {p} /\ annTracks' = [annTracks EXCEPT ![p] = {}]
      /\ pubSubs' = [t \in Tracks |-> IF t \in annTracks[p] THEN [pubSubs[t] EXCEPT ![p] = None] ELSE pubSubs[t]]
      /\ UNCHANGED <<subs, byReqId, open>> /\ p \in annOn
  BY DEF PublishNamespaceDone, PublishNamespaceDoneReceived, subMaps
<1>2. ASSUME NEW t \in Tracks PROVE Subscribers(t)' = Subscribers(t)
  BY <1>1 DEF Subscribers
<1>3. ASSUME NEW t \in Tracks, NEW q \in Pubs
      PROVE  /\ annTracks'[q] = IF q = p THEN {} ELSE annTracks[q]
             /\ pubSubs'[t][q] = IF q = p /\ t \in annTracks[p] THEN None ELSE pubSubs[t][q]
  <2>1. annTracks'[q] = IF q = p THEN {} ELSE annTracks[q]
    BY <1>1 DEF TypeOK
  <2>2. pubSubs'[t] = IF t \in annTracks[p] THEN [pubSubs[t] EXCEPT ![p] = None] ELSE pubSubs[t]
    BY <1>1
  <2>3. pubSubs[t] \in [Pubs -> (1 .. MaxUp) \cup {None, Null}]
    BY DEF TypeOK
  <2> QED
    BY <2>1, <2>2, <2>3
<1>4. ASSUME NEW t \in Tracks, NEW k \in 1 .. MaxUp PROVE <<t, p, k>> \notin byReqId
  BY <1>1 DEF EntriesInv, Entry
<1>5. ASSUME NEW t \in Tracks PROVE pubSubs'[t][p] = None
  <2>1. CASE t \in annTracks[p]
    BY <1>3, <2>1
  <2>2. CASE t \notin annTracks[p]
    <3>1. Entry(t, p)
      BY DEF EntriesInv
    <3>2. ASSUME <<t, p, pubSubs[t][p]>> \in byReqId PROVE pubSubs[t][p] \in 1 .. MaxUp
      BY <3>2 DEF TypeOK, Up
    <3>3. pubSubs[t][p] = None
      BY <1>4, <2>2, <3>1, <3>2 DEF Entry
    <3> QED
      BY <1>3, <2>2, <3>3
  <2> QED
    BY <2>1, <2>2
<1>6. ASSUME NEW t \in Tracks, NEW q \in Pubs PROVE Entry(t, q)'
  <2>1. Entry(t, q)
    BY DEF EntriesInv
  <2>2. CASE q # p
    <3>1. annTracks'[q] = annTracks[q] /\ pubSubs'[t][q] = pubSubs[t][q] /\ (q \in annOn' <=> q \in annOn)
      BY <1>1, <1>3, <2>2
    <3> QED
      BY <1>1, <1>2, <2>1, <3>1 DEF Entry
  <2>3. CASE q = p
    <3>1. pubSubs'[t][q] = None /\ t \notin annTracks'[q] /\ q \notin annOn'
      BY <1>1, <1>3, <1>5, <2>3
    <3>2. <<t, p, None>> \notin byReqId
      BY Apart DEF TypeOK, Up
    <3> QED
      BY <1>1, <1>4, <2>3, <3>1, <3>2, Apart DEF Entry
  <2> QED
    BY <2>2, <2>3
<1>7. ASSUME NEW t \in Tracks, NEW q \in Pubs, NEW k \in 1 .. MaxUp
      PROVE  Good(up[<<t, q, k>>], open, <<t, q, k>>)'
  <2> DEFINE x == <<t, q, k>>
             h == up[x]
  <2>0. x \in Up /\ x[1] = t /\ x[2] = q /\ x[3] = k /\ h \in Handler
    BY DEF Up, TypeOK
  <2>1. Good(h, open, x) /\ Entry(t, q)
    BY <2>0 DEF HandlersInv, EntriesInv
  <2>2. x \in X <=> q = p /\ t \in annTracks[p] /\ pubSubs[t][q] = k
    BY <2>0 DEF HandlersOf
  <2> HIDE DEF X
  <2>3. up'[x] = IF x \notin X THEN h
                 ELSE IF h.st = "kOk"
                      THEN [h EXCEPT !.st = "kNotSubscribed", !.reg = FALSE,
                                     !.peer = IF ~h.init /\ @ \in {"asked", "ok", "paused"} THEN "over" ELSE @]
                      ELSE [h EXCEPT !.reg = FALSE, !.silent = TRUE]
    BY <1>1, <2>0 DEF UnsubscribeTrack
  <2> HIDE DEF h
  <2>4. CASE q # p
    <3>1. annTracks'[q] = annTracks[q] /\ pubSubs'[t][q] = pubSubs[t][q] /\ up'[x] = h
      BY <1>3, <2>2, <2>3, <2>4
    <3> QED
      BY <1>1, <1>2, <2>0, <2>1, <3>1 DEF Good, ByAnnounce, ByPublish, Wanted
  <2>5. CASE q = p
    <3>1. up'[x].peer \notin {"asked", "ok", "paused"} \/ up'[x].silent
      <4>1. CASE x \in X
        <5>1. ~h.init
          BY <2>0, <2>1, <2>2, <2>5, <4>1 DEF Good, ByAnnounce
        <5> QED
          BY <2>0, <2>3, <4>1, <5>1 DEF Handler
      <4>2. CASE x \notin X
        <5>1. pubSubs[t][q] # k
          <6>1. CASE t \in annTracks[p]
            BY <2>2, <2>5, <4>2, <6>1
          <6>2. CASE t \notin annTracks[p]
            BY <1>3, <1>5, <2>5, <6>2, Apart
          <6> QED
            BY <6>1, <6>2
        <5>2. ~Wanted(h) /\ up'[x] = h
          BY <2>0, <2>1, <2>3, <4>2, <5>1 DEF Good
        <5> QED
          BY <5>2 DEF Wanted
      <4> QED
        BY <4>1, <4>2
    <3>2. pubSubs'[t][q] # k /\ x \notin byReqId'
      BY <1>1, <1>4, <1>5, <2>5, Apart
    <3> QED
      BY <2>0, <3>1, <3>2 DEF Good, Wanted
  <2> QED
    BY <2>4, <2>5
<1>8. HandlersInv'
  BY <1>7, Names DEF HandlersInv
<1> QED
  BY <1>6, <1>8 DEF EntriesInv

\* PUBLISH: the handler is paused at once when nobody is subscribed.
LEMMA PublishNew ==
    ASSUME TypeOK, EntriesInv, HandlersInv, ~Mixed, NEW p \in Pubs, NEW t \in Tracks, Publish(p, t)
    PROVE  EntriesInv' /\ HandlersInv'
<1>m. \A s \in Tracks, q \in Pubs, k \in 1 .. MaxUp :
         SubscribeTrack(up, t, {p}, TRUE)[<<s, q, k>>] =
           IF s = t /\ q = p /\ k = Made(up, t, p) + 1 THEN NewHandler(TRUE, p) ELSE up[<<s, q, k>>]
  BY MakesOne
<1>0. PICK n \in 1 .. MaxUp : n = Made(up, t, p) + 1
  BY MadeRoom DEF Publish
<1> DEFINE z == <<t, p, n>>
           w == SubscribeTrack(up, t, {p}, TRUE)
           u == ResolvePublish(w, z)
           E == Subscribers(t) = {}
<1>1. /\ pubSubs' = [pubSubs EXCEPT ![t][p] = n] /\ byReqId' = byReqId \cup {z}
      /\ up' = IF E THEN Pause(u, {z}) ELSE u
      /\ UNCHANGED <<subs, annOn, annTracks, open>>
      /\ p \in open /\ p \notin annOn /\ ~\E x \in byReqId : x[1] = t /\ x[2] = p
  BY <1>0 DEF Publish, PublishReceived, subMaps
<1>2. ASSUME NEW s \in Tracks PROVE Subscribers(s)' = Subscribers(s)
  BY <1>1 DEF Subscribers
<1>3. ASSUME NEW s \in Tracks, NEW q \in Pubs
      PROVE  pubSubs'[s][q] = IF s = t /\ q = p THEN n ELSE pubSubs[s][q]
  BY <1>1 DEF TypeOK
<1>4. \A s \in Tracks : s \notin annTracks[p]
  BY <1>1 DEF EntriesInv, Entry
<1>5. \A k \in 1 .. MaxUp : <<t, p, k>> \notin byReqId
  BY <1>1
<1>6. pubSubs[t][p] = None
  <2>1. Entry(t, p)
    BY DEF EntriesInv
  <2>2. ASSUME <<t, p, pubSubs[t][p]>> \in byReqId PROVE pubSubs[t][p] \in 1 .. MaxUp
    BY <2>2 DEF TypeOK, Up
  <2> QED
    BY <1>4, <1>5, <2>1, <2>2 DEF Entry
<1>7. z \in Up /\ w \in [Up -> Handler] /\ u \in [Up -> Handler]
  BY HandlerType DEF Up, TypeOK
<1>8. ASSUME NEW s \in Tracks, NEW q \in Pubs PROVE Entry(s, q)'
  <2>1. Entry(s, q)
    BY DEF EntriesInv
  <2>2. CASE s = t /\ q = p
    <3>1. pubSubs'[s][q] = n /\ n # None /\ n # Null
      BY <1>3, <2>2, Apart
    <3>2. s \notin annTracks'[q] /\ q \notin annOn' /\ <<s, q, n>> \in byReqId'
      BY <1>1, <1>4, <2>2
    <3>3. \A k \in 1 .. MaxUp : <<s, q, k>> \in byReqId' => k = n
      BY <1>1, <1>5, <2>2
    <3> QED
      BY <3>1, <3>2, <3>3 DEF Entry
  <2>3. CASE ~(s = t /\ q = p)
    <3>1. pubSubs'[s][q] = pubSubs[s][q]
      BY <1>3, <2>3
    <3>2. \A k : <<s, q, k>> \in byReqId' <=> <<s, q, k>> \in byReqId
      BY <1>1, <2>3
    <3> QED
      BY <1>1, <1>2, <2>1, <3>1, <3>2 DEF Entry
  <2> QED
    BY <2>2, <2>3
<1>9. /\ w[z] = NewHandler(TRUE, p)
      /\ u[z] = [w[z] EXCEPT !.peer = IF @ = "asked" THEN "ok" ELSE @]
      /\ \A x \in Up : x # z => u[x] = w[x]
  <2>1. w[z] = NewHandler(TRUE, p)
    BY <1>0, MakesOne
  <2> HIDE DEF w, z
  <2> QED
    BY <1>7, <2>1 DEF ResolvePublish
<1>10. /\ u[z].init /\ u[z].reg /\ u[z].st = "kNotSubscribed" /\ u[z].peer = "ok" /\ ~u[z].silent
       /\ u[z] \in Handler
  <2>1. u[z] = [NewHandler(TRUE, p) EXCEPT !.peer = IF @ = "asked" THEN "ok" ELSE @]
    BY <1>9
  <2> HIDE DEF u
  <2> QED
    BY <1>1, <1>7, <2>1 DEF NewHandler
<1>11. /\ up'[z].init /\ up'[z].reg
       /\ IF E THEN up'[z].st = "kPaused" /\ up'[z].peer = "paused"
          ELSE up'[z].st = "kNotSubscribed" /\ up'[z].peer = "ok"
  <2>1. CASE E
    <3> HIDE DEF u, z
    <3>1. up'[z] = [u[z] EXCEPT !.st = "kPaused", !.peer = IF @ = "ok" THEN "paused" ELSE @]
      BY <1>1, <1>7, <1>10, <2>1 DEF Pause
    <3> QED
      BY <1>10, <2>1, <3>1 DEF Handler
  <2>2. CASE ~E
    BY <1>1, <1>10, <2>2
  <2> QED
    BY <2>1, <2>2
<1>12. \A x \in Up : x # z => up'[x] = w[x]
  <2> HIDE DEF u, w, z
  <2> QED
    BY <1>1, <1>9 DEF Pause
<1>13. ASSUME NEW s \in Tracks, NEW q \in Pubs, NEW k \in 1 .. MaxUp
       PROVE  Good(up[<<s, q, k>>], open, <<s, q, k>>)'
  <2> DEFINE x == <<s, q, k>>
             h == up[x]
  <2>0. x \in Up /\ x[1] = s /\ x[2] = q /\ x[3] = k
    BY DEF Up
  <2>1. Good(h, open, x)
    BY <2>0 DEF HandlersInv
  <2>2. CASE x = z
    <3>1. s = t /\ q = p /\ k = n
      BY <2>2
    <3>2. pubSubs'[s][q] = k /\ s \notin annTracks'[q]
      BY <1>1, <1>3, <1>4, <3>1
    <3>3. Subscribers(s)' = {} <=> E
      BY <1>2, <3>1
    <3> HIDE DEF E, z
    <3> QED
      BY <1>11, <2>0, <2>2, <3>2, <3>3 DEF Good, ByPublish
  <2>3. CASE x # z
    <3>1. ~(s = t /\ q = p /\ k = n)
      BY <2>3
    <3>2. w[x] = IF s = t /\ q = p /\ k = Made(up, t, p) + 1 THEN NewHandler(TRUE, p) ELSE up[<<s, q, k>>]
      BY <1>m
    <3> HIDE DEF w, u
    <3>3. up'[x] = h
      BY <1>0, <1>12, <2>0, <2>3, <3>1, <3>2
    <3> HIDE DEF h, z
    <3>4. CASE s = t /\ q = p
      <4>1. x \notin byReqId' /\ pubSubs[s][q] # k /\ pubSubs'[s][q] # k
        BY <1>1, <1>3, <1>5, <1>6, <2>3, <3>1, <3>4, Apart
      <4>2. ~Wanted(h)
        BY <2>0, <2>1, <4>1 DEF Good
      <4> QED
        BY <2>0, <3>3, <4>1, <4>2 DEF Good, Wanted
    <3>5. CASE ~(s = t /\ q = p)
      <4>1. pubSubs'[s][q] = pubSubs[s][q] /\ Subscribers(s)' = Subscribers(s) /\ (x \in byReqId' <=> x \in byReqId)
        BY <1>1, <1>2, <1>3, <2>3, <3>5
      <4> QED
        BY <1>1, <2>0, <2>1, <3>3, <4>1 DEF Good, ByAnnounce, ByPublish, Wanted
    <3> QED
      BY <3>4, <3>5
  <2> QED
    BY <2>2, <2>3
<1>14. HandlersInv'
  BY <1>13, Names DEF HandlersInv
<1> QED
  BY <1>8, <1>14 DEF EntriesInv

-----------------------------------------------------------------------------
(* The answers of the publishers. *)

\* PUBLISH_DONE.
LEMMA DoneKeeps ==
    ASSUME TypeOK, EntriesInv, HandlersInv, NEW z \in Up, PublishDone(z)
    PROVE  EntriesInv' /\ HandlersInv'
<1>0. PICK t \in Tracks, p \in Pubs, n \in 1 .. MaxUp : z = <<t, p, n>> /\ z[1] = t /\ z[2] = p /\ z[3] = n
  BY Names
<1> DEFINE g == up[z]
<1>1. /\ p \in open /\ g.peer \in {"ok", "paused"}
      /\ up' = [up EXCEPT ![z] = [g EXCEPT !.peer = "ended", !.st = IF g.reg THEN "kNotSubscribed" ELSE @]]
      /\ UNCHANGED <<subs, annOn, annTracks, open>>
  BY <1>0 DEF PublishDone, subMaps
<1>2. g \in Handler /\ Good(g, open, z) /\ Entry(t, p)
  BY <1>0 DEF TypeOK, HandlersInv, EntriesInv
<1>3. \A x \in Up : x # z => up'[x] = up[x]
  BY <1>1 DEF TypeOK
<1>4. up'[z].init = g.init /\ up'[z].peer = "ended"
  <2>1. up'[z] = [g EXCEPT !.peer = "ended", !.st = IF g.reg THEN "kNotSubscribed" ELSE @]
    BY <1>1 DEF TypeOK
  <2> HIDE DEF g
  <2> QED
    BY <1>2, <2>1 DEF Handler
<1> HIDE DEF g
<1>5. ASSUME NEW s \in Tracks PROVE Subscribers(s)' = Subscribers(s)
  BY <1>1 DEF Subscribers
<1>6. CASE z \in byReqId
  <2>1. g.reg
    BY <1>0, <1>1, <1>2, <1>6 DEF Good, ByPublish
  <2>2. pubSubs' = [pubSubs EXCEPT ![t][p] = None] /\ byReqId' = byReqId \ {z}
    BY <1>0, <1>6, <2>1 DEF PublishDone, PublishDoneReceived, g
  <2>3. ASSUME NEW s \in Tracks, NEW q \in Pubs
        PROVE  pubSubs'[s][q] = IF s = t /\ q = p THEN None ELSE pubSubs[s][q]
    BY <2>2 DEF TypeOK
  <2>4. pubSubs[t][p] = n /\ p \notin annOn /\ t \notin annTracks[p]
    BY <1>0, <1>2, <1>6 DEF Entry
  <2>5. \A k \in 1 .. MaxUp : <<t, p, k>> \notin byReqId'
    BY <1>0, <1>2, <2>2, <2>4 DEF Entry
  <2>6. ASSUME NEW s \in Tracks, NEW q \in Pubs PROVE Entry(s, q)'
    <3>1. Entry(s, q)
      BY DEF EntriesInv
    <3>2. CASE s = t /\ q = p
      <4>1. pubSubs'[s][q] = None
        BY <2>3, <3>2
      <4>2. <<t, p, None>> \notin byReqId'
        BY <2>2, Apart DEF TypeOK, Up
      <4> QED
        BY <1>1, <2>4, <2>5, <3>2, <4>1, <4>2, Apart DEF Entry
    <3>3. CASE ~(s = t /\ q = p)
      <4>1. pubSubs'[s][q] = pubSubs[s][q]
        BY <2>3, <3>3
      <4>2. \A k : <<s, q, k>> \in byReqId' <=> <<s, q, k>> \in byReqId
        BY <1>0, <2>2, <3>3
      <4> QED
        BY <1>1, <1>5, <3>1, <4>1, <4>2 DEF Entry
    <3> QED
      BY <3>2, <3>3
  <2>7. ASSUME NEW s \in Tracks, NEW q \in Pubs, NEW k \in 1 .. MaxUp
        PROVE  Good(up[<<s, q, k>>], open, <<s, q, k>>)'
    <3> DEFINE x == <<s, q, k>>
               h == up[x]
    <3>0. x \in Up /\ x[1] = s /\ x[2] = q /\ x[3] = k
      BY DEF Up
    <3>1. Good(h, open, x)
      BY <3>0 DEF HandlersInv
    <3> HIDE DEF h
    <3>2. CASE s = t /\ q = p
      <4>1. x \notin byReqId' /\ pubSubs'[s][q] # k
        BY <2>3, <2>5, <3>2, Apart
      <4>2. up'[x].peer \notin {"asked", "ok", "paused"} \/ up'[x].silent
        <5>1. CASE k = n
          BY <1>0, <1>4, <3>2, <5>1
        <5>2. CASE k # n
          <6>1. up'[x] = h
            BY <1>0, <1>3, <3>0, <3>2, <5>2 DEF h
          <6>2. ~Wanted(h)
            BY <2>4, <3>0, <3>1, <3>2, <5>2 DEF Good
          <6> QED
            BY <6>1, <6>2 DEF Wanted
        <5> QED
          BY <5>1, <5>2
      <4> QED
        BY <3>0, <4>1, <4>2 DEF Good, Wanted
    <3>3. CASE ~(s = t /\ q = p)
      <4>1. up'[x] = h
        BY <1>0, <1>3, <3>0, <3>3 DEF h
      <4>2. pubSubs'[s][q] = pubSubs[s][q] /\ (x \in byReqId' <=> x \in byReqId)
        BY <1>0, <2>2, <2>3, <3>3
      <4> QED
        BY <1>1, <1>5, <3>0, <3>1, <4>1, <4>2 DEF Good, ByAnnounce, ByPublish, Wanted
    <3> QED
      BY <3>2, <3>3
  <2>8. HandlersInv'
    BY <2>7, Names DEF HandlersInv
  <2> QED
    BY <2>6, <2>8 DEF EntriesInv
<1>7. CASE z \notin byReqId
  <2>1. UNCHANGED <<pubSubs, byReqId>>
    BY <1>7 DEF PublishDone, PublishDoneReceived
  <2>2. EntriesInv'
    BY <1>1, <1>5, <2>1 DEF EntriesInv, Entry
  <2>3. ASSUME NEW x \in Up PROVE Good(up[x], open, x)'
    <3>0. x[1] \in Tracks
      BY DEF Up
    <3>1. Good(up[x], open, x)
      BY DEF HandlersInv
    <3>2. CASE x # z
      <4>1. up'[x] = up[x]
        BY <1>3, <3>2
      <4> QED
        BY <1>1, <1>5, <2>1, <3>0, <3>1, <4>1 DEF Good, ByAnnounce, ByPublish, Wanted
    <3>3. CASE x = z
      BY <1>1, <1>4, <1>7, <2>1, <3>1, <3>3 DEF Good, ByAnnounce, Wanted, g
    <3> QED
      BY <3>2, <3>3
  <2> QED
    BY <2>2, <2>3 DEF HandlersInv
<1> QED
  BY <1>6, <1>7

\* SUBSCRIBE_OK and SUBSCRIBE_ERROR change one handler that waits for them.
LEMMA AnswerKeeps ==
    ASSUME TypeOK, EntriesInv, HandlersInv, NEW z \in Up, SubscribeOk(z) \/ SubscribeError(z)
    PROVE  EntriesInv' /\ HandlersInv'
<1> DEFINE g == up[z]
<1>1. /\ z[2] \in open /\ g.peer = "asked"
      /\ UNCHANGED <<subs, annOn, annTracks, pubSubs, byReqId, open>>
  BY DEF SubscribeOk, SubscribeError, mapVars, subMaps, pubMaps
<1>2. g \in Handler /\ Good(g, open, z)
  BY DEF TypeOK, HandlersInv
<1>3. /\ up'[z].init = g.init /\ up'[z].silent = g.silent /\ up'[z].peer \in {"ok", "ended"}
      /\ \A x \in Up : x # z => up'[x] = up[x]
  <2>1. CASE SubscribeOk(z)
    <3>1. up' = [up EXCEPT ![z] = [g EXCEPT !.peer = "ok", !.st = IF g.reg THEN "kOk" ELSE @]]
      BY <2>1 DEF SubscribeOk
    <3>2. up'[z] = [g EXCEPT !.peer = "ok", !.st = IF g.reg THEN "kOk" ELSE @]
      BY <3>1 DEF TypeOK
    <3> HIDE DEF g
    <3> QED
      BY <1>2, <3>1, <3>2 DEF TypeOK, Handler
  <2>2. CASE SubscribeError(z)
    <3>1. up' = [up EXCEPT ![z] = [g EXCEPT !.peer = "ended", !.st = IF g.reg THEN "kError" ELSE @, !.reg = FALSE]]
      BY <2>2 DEF SubscribeError
    <3>2. up'[z] = [g EXCEPT !.peer = "ended", !.st = IF g.reg THEN "kError" ELSE @, !.reg = FALSE]
      BY <3>1 DEF TypeOK
    <3> HIDE DEF g
    <3> QED
      BY <1>2, <3>1, <3>2 DEF TypeOK, Handler
  <2> QED
    BY <2>1, <2>2
<1> HIDE DEF g
<1>4. ASSUME NEW s \in Tracks PROVE Subscribers(s)' = Subscribers(s)
  BY <1>1 DEF Subscribers
<1>5. EntriesInv'
  BY <1>1, <1>4 DEF EntriesInv, Entry
<1>6. ASSUME NEW x \in Up PROVE Good(up[x], open, x)'
  <2>0. x[1] \in Tracks
    BY DEF Up
  <2>1. Good(up[x], open, x)
    BY DEF HandlersInv
  <2>2. CASE x # z
    <3>1. up'[x] = up[x]
      BY <1>3, <2>2
    <3> QED
      BY <1>1, <1>4, <2>0, <2>1, <3>1 DEF Good, ByAnnounce, ByPublish, Wanted
  <2>3. CASE x = z
    <3>1. z \notin byReqId
      BY <1>1, <1>2 DEF Good, ByPublish
    <3> QED
      BY <1>1, <1>2, <1>3, <2>3, <3>1 DEF Good, ByAnnounce, Wanted
  <2> QED
    BY <2>2, <2>3
<1> QED
  BY <1>5, <1>6 DEF HandlersInv

-----------------------------------------------------------------------------
(* The invariant and the theorems. *)

\* What the other messages leave alone.
LEMMA SameMaps ==
    ASSUME UNCHANGED <<subMaps, pubMaps, up, open>>
    PROVE  /\ SubsInv => SubsInv'
           /\ EntriesInv => EntriesInv'
           /\ HandlersInv => HandlersInv'
<1>0. UNCHANGED <<subs, aliasReq, active, annOn, annTracks, pubSubs, byReqId, up, open>>
  BY DEF subMaps, pubMaps
<1>1. \A t : Subscribers(t)' = Subscribers(t)
  BY <1>0 DEF Subscribers
<1>2. SubsInv => SubsInv'
  BY <1>0 DEF SubsInv, Asked
<1>3. EntriesInv => EntriesInv'
  BY <1>0, <1>1 DEF EntriesInv, Entry
<1>4. HandlersInv => HandlersInv'
  BY <1>0, <1>1 DEF HandlersInv, Good, ByAnnounce, ByPublish, Wanted
<1> QED
  BY <1>2, <1>3, <1>4

LEMMA SameSubs ==
    ASSUME SubsInv, UNCHANGED <<subMaps, open>>
    PROVE  SubsInv'
BY DEF SubsInv, Asked, subMaps

LEMMA RelayInit == Init => RelayInv
<1> SUFFICES ASSUME Init PROVE RelayInv
  OBVIOUS
<1>1. SubsInv
  BY DEF Init, SubsInv, Asked
<1>2. ASSUME NEW t \in Tracks PROVE Subscribers(t) = {}
  BY DEF Init, Subscribers
<1>3. NamesInv
  BY DEF Init, NamesInv
<1>4. EntriesInv
  BY <1>2, Apart DEF Init, EntriesInv, Entry
<1>5. ASSUME NEW t \in Tracks, NEW p \in Pubs, NEW k \in 1 .. MaxUp
      PROVE  Good(up[<<t, p, k>>], open, <<t, p, k>>)
  <2>1. <<t, p, k>> \in Up
    BY DEF Up
  <2>2. up[<<t, p, k>>].peer = "none" /\ pubSubs[t][p] # k /\ byReqId = {}
    BY <2>1, Apart DEF Init, NoHandler
  <2> QED
    BY <2>2 DEF Good, Wanted
<1>6. HandlersInv
  BY <1>5, Names DEF HandlersInv
<1> QED
  BY <1>1, <1>3, <1>4, <1>6 DEF RelayInv, Init

LEMMA RelayNext ==
    ASSUME OneSub, ~Mixed, TypeOK, RelayInv, [Next]_vars
    PROVE  RelayInv'
<1>0. ~crashed /\ SubsInv /\ NamesInv /\ EntriesInv /\ HandlersInv
  BY DEF RelayInv
<1>1. ASSUME NEW c \in Subs, NEW r \in Req, NEW t \in Tracks, SubscribeReceived(c, r, t), c \in open,
             ~\E o \in Req : <<c, o, t>> \in aliasReq, UNCHANGED <<open, known>>
      PROVE  RelayInv'
  <2>1. Asks(c, r, t)
    BY <1>0, <1>1, SubscribeEffect
  <2>2. SubsInv'
    BY <1>0, <1>1, <2>1, SubsAsk DEF Asks
  <2>3. EntriesInv' /\ HandlersInv'
    BY <1>0, <1>1, <2>1, SubscribeEntries, SubscribeHandlers
  <2>4. NamesInv' /\ ~crashed'
    BY <1>0, <1>1, <2>1 DEF NamesInv, Asks
  <2> QED
    BY <2>2, <2>3, <2>4 DEF RelayInv
<1>2. ASSUME NEW c \in Subs, NEW t \in Tracks, Subscribe(c, t) PROVE RelayInv'
  BY <1>1, <1>2 DEF Subscribe
<1>3. ASSUME NEW c \in Subs, NEW t \in Tracks, NEW r \in Req, PublishOk(c, r, t) PROVE RelayInv'
  BY <1>1, <1>3 DEF PublishOk
<1>4. ASSUME NEW c \in Subs, NEW r \in Req, Unsubscribe(c, r) PROVE RelayInv'
  <2>1. UnsubscribeReceived(up, c, {r}) /\ UNCHANGED <<nsSubs, open, known>>
    BY <1>4 DEF Unsubscribe
  <2>2. SubsInv'
    BY <1>0, <2>1, SubsLeave
  <2>3. EntriesInv'
    BY <1>0, <2>1, LeaveEntries
  <2>4. \A x \in Up : Good(up[x], open', x)
    BY <1>0, <2>1 DEF HandlersInv
  <2>5. up \in [Up -> Handler]
    BY DEF TypeOK
  <2>6. HandlersInv'
    BY <1>0, <2>1, <2>4, <2>5, LeaveHandlers
  <2>7. Forgets(up, c, {r})
    BY <1>0, <2>1, UnsubscribeEffect
  <2>8. ~crashed' /\ annOn' = annOn
    BY <2>7 DEF Forgets
  <2>9. NamesInv'
    BY <1>0, <2>1, <2>8 DEF NamesInv
  <2> QED
    BY <2>2, <2>3, <2>6, <2>8, <2>9 DEF RelayInv
<1>5. ASSUME NEW c \in Conns, ConnectionLost(c) PROVE RelayInv'
  <2> DEFINE v == RemoveAllTracks(up, c)
  <2>1. UnsubscribeReceived(v, c, Req) /\ open' = open \ {c} /\ known' = {k \in known : k[1] # c} /\ nsSubs' = nsSubs \ {c}
    BY <1>5 DEF ConnectionLost, UnsubscribeAll
  <2>4. \A x \in Up : Good(v[x], open', x)
    BY <1>0, <2>1, RemoveGood
  <2>5. v \in [Up -> Handler]
    BY HandlerType DEF TypeOK
  <2> HIDE DEF v
  <2>2. SubsInv'
    BY <1>0, <2>1, SubsLeave
  <2>3. EntriesInv'
    BY <1>0, <2>1, LeaveEntries
  <2>6. HandlersInv'
    BY <1>0, <2>1, <2>4, <2>5, LeaveHandlers
  <2>7. Forgets(v, c, Req)
    BY <1>0, <2>1, UnsubscribeEffect
  <2>8. ~crashed' /\ annOn' = annOn
    BY <2>7 DEF Forgets
  <2>9. NamesInv'
    BY <1>0, <2>1, <2>8 DEF NamesInv
  <2> QED
    BY <2>2, <2>3, <2>6, <2>8, <2>9 DEF RelayInv
<1>6. ASSUME NEW c \in Subs, NEW t \in Tracks, NEW s, SubscribeUpdate(c, t, s) PROVE RelayInv'
  <2>1. UNCHANGED <<subMaps, pubMaps, up, open>> /\ UNCHANGED <<nsSubs, known, crashed, annOn>>
    BY <1>6 DEF SubscribeUpdate, pubMaps
  <2> QED
    BY <1>0, <2>1, SameMaps DEF RelayInv, NamesInv
<1>7. ASSUME NEW c \in Subs, SubscribeNamespace(c) PROVE RelayInv'
  <2>1. UNCHANGED <<subMaps, pubMaps, up, open>> /\ UNCHANGED <<crashed, annOn>> /\ c \in open
    BY <1>7 DEF SubscribeNamespace, pubMaps
  <2>2. nsSubs' = nsSubs \cup {c} /\ known' = known \cup {<<c, Ns(p)>> : p \in annOn \ Wide}
    BY <1>7 DEF SubscribeNamespace, SubscribeNamespaceReceived, ResolveSubscribeNamespace
  <2>3. NamesInv'
    BY <1>0, <2>1, <2>2 DEF NamesInv
  <2> QED
    BY <1>0, <2>1, <2>3, SameMaps DEF RelayInv
<1>8. CASE UNCHANGED vars
  BY <1>0, <1>8, SameMaps DEF vars, mapVars, RelayInv, NamesInv, pubMaps
<1>9. ASSUME NEW p \in Pubs, PublishNamespace(p) PROVE RelayInv'
  <2>1. UNCHANGED <<subMaps, byReqId, nsSubs, open>>
    BY <1>9 DEF PublishNamespace
  <2>2. CASE p \in annOn
    <3>1. UNCHANGED <<annOn, annTracks, pubSubs, up, known, crashed>>
      BY <1>9, <2>2 DEF PublishNamespace, PublishNamespaceReceived
    <3> QED
      BY <1>0, <2>1, <3>1, SameMaps DEF RelayInv, NamesInv, pubMaps
  <2>3. CASE p \notin annOn
    <3>1. /\ EntriesInv' /\ HandlersInv' /\ crashed' = FALSE /\ annOn' = annOn \cup {p}
          /\ known' = known \cup ((nsSubs \cap open) \X {Ns(p)})
      BY <1>0, <1>9, <2>3, AnnounceNew
    <3>2. NamesInv'
      BY <1>0, <2>1, <3>1 DEF NamesInv
    <3> QED
      BY <1>0, <2>1, <3>1, <3>2, SameSubs DEF RelayInv
  <2> QED
    BY <2>2, <2>3
<1>10. ASSUME NEW p \in Pubs, PublishNamespaceDone(p) PROVE RelayInv'
  <2>1. UNCHANGED <<subMaps, nsSubs, open, crashed>> /\ known' = known \ (nsSubs \X {Ns(p)}) /\ annOn' = annOn \ {p}
    BY <1>10 DEF PublishNamespaceDone, PublishNamespaceDoneReceived
  <2>2. NamesInv'
    <3>1. ASSUME NEW k \in known' PROVE \E q \in annOn' : Ns(q) = k[2]
      <4>1. k \in known /\ k \notin nsSubs \X {Ns(p)} /\ k = <<k[1], k[2]>>
        BY <2>1 DEF TypeOK
      <4>2. k[1] \in nsSubs /\ \E q \in annOn : Ns(q) = k[2]
        BY <1>0, <4>1 DEF NamesInv
      <4>3. k[2] # Ns(p)
        BY <4>1, <4>2
      <4> QED
        BY <2>1, <4>2, <4>3
    <3> QED
      BY <1>0, <2>1, <3>1 DEF NamesInv
  <2>3. EntriesInv' /\ HandlersInv'
    BY <1>0, <1>10, AnnounceDone
  <2> QED
    BY <1>0, <2>1, <2>2, <2>3, SameSubs DEF RelayInv
<1>11. ASSUME NEW p \in Pubs, NEW t \in Tracks, Publish(p, t) PROVE RelayInv'
  <2>1. UNCHANGED <<subMaps, nsSubs, open, crashed, known, annOn>>
    BY <1>11 DEF Publish
  <2>2. EntriesInv' /\ HandlersInv'
    BY <1>0, <1>11, PublishNew
  <2> QED
    BY <1>0, <2>1, <2>2, SameSubs DEF RelayInv, NamesInv
<1>12. ASSUME NEW x \in Up, PublishDone(x) PROVE RelayInv'
  <2>1. UNCHANGED <<subMaps, nsSubs, open, crashed, known, annOn>>
    BY <1>12 DEF PublishDone
  <2>2. EntriesInv' /\ HandlersInv'
    BY <1>0, <1>12, DoneKeeps
  <2> QED
    BY <1>0, <2>1, <2>2, SameSubs DEF RelayInv, NamesInv
<1>13. ASSUME NEW x \in Up, SubscribeOk(x) \/ SubscribeError(x) PROVE RelayInv'
  <2>1. UNCHANGED <<subMaps, nsSubs, open, crashed, known, annOn>>
    BY <1>13 DEF SubscribeOk, SubscribeError, mapVars, pubMaps
  <2>2. EntriesInv' /\ HandlersInv'
    BY <1>0, <1>13, AnswerKeeps
  <2> QED
    BY <1>0, <2>1, <2>2, SameSubs DEF RelayInv, NamesInv
<1>14. ASSUME NEW x \in Up, ObjectReceived(x) PROVE RelayInv'
  <2>1. UNCHANGED <<subMaps, pubMaps, up, open>> /\ UNCHANGED <<nsSubs, known, annOn>>
    BY <1>14 DEF ObjectReceived, pubMaps
  <2>2. x[1] \in Tracks
    BY DEF Up
  <2>3. \A c \in Subs : subs[x[1]][c] # Null
    BY <1>0, <2>2, Apart DEF SubsInv
  <2>4. ~crashed'
    BY <1>14, <2>3 DEF ObjectReceived
  <2> QED
    BY <1>0, <2>1, <2>4, SameMaps DEF RelayInv, NamesInv
<1> QED
  BY <1>2, <1>3, <1>4, <1>5, <1>6, <1>7, <1>8, <1>9, <1>10, <1>11, <1>12, <1>13, <1>14 DEF Next, UnsubscribeNamespace

LEMMA RelayCorrect ==
    ASSUME OneSub, ~Mixed
    PROVE  Spec => [](TypeOK /\ RelayInv)
<1>1. Init => TypeOK /\ RelayInv
  BY TypeInit, RelayInit
<1>2. TypeOK /\ RelayInv /\ [Next]_vars => TypeOK' /\ RelayInv'
  BY TypeNext, RelayNext
<1> QED
  BY <1>1, <1>2, PTL DEF Spec

\* Every subscription that PUBLISH_NAMESPACE or an object meets in the maps has its
\* handler: the relay never uses the null one that operator[] would make.
THEOREM NullCorrect ==
    ASSUME OneSub, ~Mixed
    PROVE  Spec => []NoNull
<1>1. TypeOK /\ RelayInv => NoNull
  <2> SUFFICES ASSUME TypeOK, RelayInv, NEW i \in active PROVE subs[i[3]][i[1]] = "handler"
    BY DEF NoNull, RelayInv
  <2>1. PICK c \in Subs, r \in Req, t \in Tracks : i = <<c, r, t>>
    BY DEF TypeOK, Info
  <2>2. i[1] = c /\ i[3] = t /\ Asked(c, t)
    BY <2>1 DEF Asked, RelayInv, SubsInv
  <2> QED
    BY <2>2 DEF RelayInv, SubsInv
<1> QED
  BY <1>1, RelayCorrect, PTL

\* A subscriber whose connection ended is forgotten in every map, and the others know
\* of no namespace but those announce_active has.
THEOREM StaleCorrect ==
    ASSUME OneSub, ~Mixed
    PROVE  Spec => []SubscribersCurrent
<1>1. TypeOK /\ RelayInv => SubscribersCurrent
  <2> SUFFICES ASSUME TypeOK, RelayInv PROVE GoneForgotten /\ NamespaceThere
    BY DEF SubscribersCurrent
  <2>1. ASSUME NEW c \in Subs \ open
        PROVE  c \notin nsSubs /\ (\A t \in Tracks : subs[t][c] = None) /\ \A i \in aliasReq \cup active : i[1] # c
    <3>1. \A i \in aliasReq : i[1] # c
      BY <2>1 DEF RelayInv, SubsInv
    <3>2. \A r, t : <<c, r, t>> \notin aliasReq
      <4> SUFFICES ASSUME NEW r, NEW t, <<c, r, t>> \in aliasReq PROVE FALSE
        OBVIOUS
      <4>1. <<c, r, t>>[1] = c
        OBVIOUS
      <4> QED
        BY <3>1, <4>1
    <3>3. \A t \in Tracks : subs[t][c] = None
      BY <2>1, <3>2 DEF RelayInv, SubsInv, Asked
    <3> QED
      BY <2>1, <3>1, <3>3 DEF RelayInv, SubsInv, NamesInv
  <2>2. NamespaceThere
    BY DEF NamespaceThere, RelayInv, NamesInv
  <2> QED
    BY <2>1, <2>2 DEF GoneForgotten
<1> QED
  BY <1>1, RelayCorrect, PTL

\* A publisher that announced the tracks' namespace is asked for a track exactly while
\* somebody is subscribed to it, one that announced a prefix at least then, and one
\* that used PUBLISH is paused exactly while nobody is.
THEOREM FollowsCorrect ==
    ASSUME OneSub, ~Mixed
    PROVE  Spec => []UpstreamFollows
<1>1. TypeOK /\ RelayInv => UpstreamFollows
  <2> SUFFICES ASSUME TypeOK, RelayInv PROVE UpstreamAsked /\ UpstreamNeeded /\ PausedIffUnused
    BY DEF UpstreamFollows
  <2>0. EntriesInv /\ HandlersInv
    BY DEF RelayInv
  <2>1. ASSUME NEW t \in Tracks, NEW p \in annOn \cap open, Subscribers(t) # {}
        PROVE  t \in annTracks[p] /\ \E x \in HandlersOf(t) : x[2] = p /\ up[x].peer \in {"asked", "ok", "ended"}
    <3>0. p \in Pubs /\ p \in open
      BY DEF TypeOK
    <3>1. Entry(t, p)
      BY <2>0, <3>0 DEF EntriesInv
    <3>2. t \in annTracks[p] /\ pubSubs[t][p] # None /\ pubSubs[t][p] # Null
      BY <2>1, <3>1 DEF Entry
    <3>3. PICK k \in 1 .. MaxUp : pubSubs[t][p] = k
      BY <3>0, <3>2 DEF TypeOK
    <3> DEFINE x == <<t, p, k>>
    <3>4. x \in Up /\ x[1] = t /\ x[2] = p /\ x[3] = k
      BY <3>0 DEF Up
    <3>5. x \in HandlersOf(t)
      BY <3>3, <3>4 DEF HandlersOf
    <3>6. Good(up[x], open, x)
      BY <2>0, <3>4 DEF HandlersInv
    <3> HIDE DEF x
    <3>7. up[x].peer \in {"asked", "ok", "ended"}
      BY <3>0, <3>2, <3>3, <3>4, <3>6 DEF Good, ByAnnounce
    <3> QED
      BY <3>2, <3>4, <3>5, <3>7
  <2>2. UpstreamNeeded
    BY <2>0 DEF UpstreamNeeded, EntriesInv, Entry
  <2>3. ASSUME NEW t \in Tracks, NEW x \in HandlersOf(t), up[x].init, x[2] \in open
        PROVE  up[x].peer = "paused" <=> Subscribers(t) = {}
    <3>1. x \in Up /\ x[1] = t /\ pubSubs[t][x[2]] = x[3]
      BY DEF HandlersOf
    <3>2. PICK p \in Pubs, k \in 1 .. MaxUp : x = <<t, p, k>> /\ x[2] = p /\ x[3] = k
      BY <3>1, Names
    <3>3. Entry(t, p) /\ Good(up[x], open, x)
      BY <2>0, <3>1 DEF EntriesInv, HandlersInv
    <3>4. t \notin annTracks[p]
      BY <2>3, <3>1, <3>2, <3>3 DEF Good, ByAnnounce
    <3>5. x \in byReqId
      BY <3>1, <3>2, <3>3, <3>4, Apart DEF Entry
    <3> QED
      BY <2>3, <3>1, <3>3, <3>5 DEF Good, ByPublish
  <2> QED
    BY <2>1, <2>2, <2>3 DEF UpstreamAsked, PausedIffUnused
<1> QED
  BY <1>1, RelayCorrect, PTL

\* No publisher is left asked or sending without a handler of the relay's that could
\* still end it.
THEOREM OrphanCorrect ==
    ASSUME OneSub, ~Mixed
    PROVE  Spec => []NoOrphan
<1>1. TypeOK /\ RelayInv => NoOrphan
  <2> SUFFICES ASSUME TypeOK, RelayInv, NEW x \in Up, up[x].peer \in {"asked", "ok"}, ~up[x].silent
               PROVE  x \in HandlersOf(x[1])
    BY DEF NoOrphan
  <2>1. Good(up[x], open, x)
    BY DEF RelayInv, HandlersInv
  <2> QED
    BY <2>1 DEF Good, Wanted, HandlersOf
<1> QED
  BY <1>1, RelayCorrect, PTL

\* TRACK_STATUS finds every track that some connected publisher was asked for, sends
\* or offers.
THEOREM StatusCorrect ==
    ASSUME OneSub, ~Mixed
    PROVE  Spec => []StatusFound
<1>1. TypeOK /\ RelayInv => StatusFound
  <2> SUFFICES ASSUME TypeOK, RelayInv, NEW x \in Up, up[x].peer \in {"asked", "ok", "paused"}, ~up[x].silent,
                      NEW c \in Conns \ {x[2]}
               PROVE  TrackStatusReceived(c, x[1]) = "kOk"
    BY DEF StatusFound
  <2>1. Good(up[x], open, x)
    BY DEF RelayInv, HandlersInv
  <2>2. PICK t \in Tracks, p \in Pubs, k \in 1 .. MaxUp : x = <<t, p, k>> /\ x[1] = t /\ x[2] = p /\ x[3] = k
    BY Names
  <2>3. pubSubs[t][p] = k /\ k # None
    BY <2>1, <2>2, Apart DEF Good, Wanted
  <2>4. p \in Pubs \ {c} /\ pubSubs[t][p] # None
    BY <2>2, <2>3
  <2> QED
    BY <2>2, <2>4 DEF TrackStatusReceived
<1> QED
  BY <1>1, RelayCorrect, PTL

-----------------------------------------------------------------------------
(* The handlers that serve the subscribers. *)

\* The server and the example remember the same requests, so UNSUBSCRIBE never ends the
\* service of a subscriber who stays in subscribes.
ServedInv == recvReq = aliasReq /\ SubscriberServed

\* The subscribers and what serves them are left alone.
LEMMA ServedSame ==
    ASSUME ServedInv, UNCHANGED <<subs, aliasReq, recvReq, pubTrk>>
    PROVE  ServedInv'
BY DEF ServedInv, SubscriberServed, Subscribers

\* SUBSCRIBE, and PUBLISH_OK of a subscriber.
LEMMA ServedAsk ==
    ASSUME TypeOK, ServedInv, NEW c \in Subs, NEW r \in Req, NEW t \in Tracks, SubscribeReceived(c, r, t),
           recvReq' = recvReq \cup {<<c, r, t>>}
    PROVE  ServedInv'
<1>1. /\ subs' = [subs EXCEPT ![t][c] = "handler"] /\ aliasReq' = aliasReq \cup {<<c, r, t>>}
      /\ pubTrk' = [pubTrk EXCEPT ![c][t] = "kOk"]
  BY DEF SubscribeReceived, BindPublisherTrack
<1>2. ASSUME NEW s \in Tracks, NEW d \in Subs, subs'[s][d] # None
      PROVE  pubTrk'[d][s] \in PStatus \ {"kNoSubscribers"}
  <2>1. CASE s = t /\ d = c
    <3>1. pubTrk'[d][s] = "kOk"
      BY <1>1, <2>1 DEF TypeOK
    <3> QED
      BY <3>1 DEF PStatus
  <2>2. CASE ~(s = t /\ d = c)
    <3>1. subs'[s][d] = subs[s][d] /\ pubTrk'[d][s] = pubTrk[d][s]
      BY <1>1, <2>2 DEF TypeOK
    <3> QED
      BY <1>2, <3>1 DEF ServedInv, SubscriberServed, Subscribers
  <2> QED
    BY <2>1, <2>2
<1>3. SubscriberServed'
  BY <1>2 DEF SubscriberServed, Subscribers
<1>4. recvReq' = aliasReq'
  BY <1>1 DEF ServedInv
<1> QED
  BY <1>3, <1>4 DEF ServedInv

\* UNSUBSCRIBE, and the end of a connection: of a track that keeps its subscriber, no
\* request goes.
LEMMA ServedLeave ==
    ASSUME TypeOK, SubsInv, EntriesInv, ServedInv, NEW u, NEW c, NEW R, UnsubscribeReceived(u, c, R),
           recvReq' = {i \in recvReq : ~(i[1] = c /\ i[2] \in R)},
           \A t \in Tracks, d \in Subs :
               pubTrk'[d][t] = pubTrk[d][t] \/ (d = c /\ Lost(c, R, t)) \/ subs[t][d] = None
    PROVE  ServedInv'
<1>1. Forgets(u, c, R)
  BY UnsubscribeEffect
<1>2. aliasReq' = aliasReq \ Found(c, R)
  BY <1>1 DEF Forgets
<1>3. recvReq' = aliasReq'
  BY <1>2 DEF ServedInv, Found
<1>4. \A t \in Tracks, d \in Subs : subs'[t][d] = IF d = c /\ Lost(c, R, t) THEN None ELSE subs[t][d]
  BY <1>1 DEF Forgets
<1>5. ASSUME NEW t \in Tracks, NEW d \in Subs, subs'[t][d] # None
      PROVE  pubTrk'[d][t] \in PStatus \ {"kNoSubscribers"}
  <2>1. ~(d = c /\ Lost(c, R, t)) /\ subs[t][d] # None
    BY <1>4, <1>5
  <2>2. pubTrk'[d][t] = pubTrk[d][t]
    BY <2>1
  <2> QED
    BY <2>1, <2>2 DEF ServedInv, SubscriberServed, Subscribers
<1>6. SubscriberServed'
  BY <1>5 DEF SubscriberServed, Subscribers
<1> QED
  BY <1>3, <1>6 DEF ServedInv

LEMMA ServedInit == Init => ServedInv
BY DEF Init, ServedInv, SubscriberServed, Subscribers

LEMMA ServedNext ==
    ASSUME TypeOK, RelayInv, ServedInv, [Next]_vars
    PROVE  ServedInv'
<1>0. SubsInv /\ EntriesInv
  BY DEF RelayInv
<1>1. ASSUME NEW c \in Subs, NEW t \in Tracks, Subscribe(c, t) PROVE ServedInv'
  BY <1>1, ServedAsk DEF Subscribe
<1>2. ASSUME NEW c \in Subs, NEW t \in Tracks, NEW r \in Req, PublishOk(c, r, t) PROVE ServedInv'
  BY <1>2, ServedAsk DEF PublishOk
<1>3. ASSUME NEW c \in Subs, NEW r \in Req, Unsubscribe(c, r) PROVE ServedInv'
  <2>1. /\ UnsubscribeReceived(up, c, {r})
        /\ recvReq' = {i \in recvReq : ~(i[1] = c /\ i[2] = r)}
        /\ pubTrk' = [pubTrk EXCEPT ![c] = [t \in Tracks |-> IF <<c, r, t>> \in recvReq /\ pubTrk[c][t] # None
                                                             THEN "kNoSubscribers" ELSE pubTrk[c][t]]]
    BY <1>3 DEF Unsubscribe
  <2>2. ASSUME NEW t \in Tracks, NEW d \in Subs, pubTrk'[d][t] # pubTrk[d][t]
        PROVE  d = c /\ Lost(c, {r}, t)
    <3>1. d = c /\ <<c, r, t>> \in recvReq
      BY <2>1, <2>2 DEF TypeOK
    <3>2. <<c, r, t>> \in Found(c, {r})
      BY <3>1 DEF ServedInv, Found
    <3> QED
      BY <3>1, <3>2 DEF Lost
  <2>3. recvReq' = {i \in recvReq : ~(i[1] = c /\ i[2] \in {r})}
    BY <2>1
  <2> QED
    BY <1>0, <2>1, <2>2, <2>3, ServedLeave
<1>4. ASSUME NEW c \in Conns, ConnectionLost(c) PROVE ServedInv'
  <2> DEFINE v == RemoveAllTracks(up, c)
  <2>1. /\ UnsubscribeReceived(v, c, Req) /\ recvReq' = {i \in recvReq : i[1] # c}
        /\ pubTrk' = IF c \in Subs THEN [pubTrk EXCEPT ![c] = [t \in Tracks |-> None]] ELSE pubTrk
    BY <1>4 DEF ConnectionLost, UnsubscribeAll
  <2> HIDE DEF v
  <2>2. \A i \in recvReq : i[2] \in Req
    BY DEF TypeOK, Info
  <2>3. recvReq' = {i \in recvReq : ~(i[1] = c /\ i[2] \in Req)}
    BY <2>1, <2>2
  <2>4. ASSUME NEW t \in Tracks, NEW d \in Subs, pubTrk'[d][t] # pubTrk[d][t], subs[t][d] # None
        PROVE  d = c /\ Lost(c, Req, t)
    <3>1. d = c
      BY <2>1, <2>4 DEF TypeOK
    <3>2. PICK r \in Req : <<c, r, t>> \in aliasReq
      BY <1>0, <2>4, <3>1 DEF SubsInv, Asked
    <3>3. <<c, r, t>> \in Found(c, Req)
      BY <3>2 DEF Found
    <3> QED
      BY <3>1, <3>3 DEF Lost
  <2> QED
    BY <1>0, <2>1, <2>3, <2>4, ServedLeave
<1>5. ASSUME NEW c \in Subs, NEW t \in Tracks, NEW s \in PStatus \ {"kNoSubscribers"}, SubscribeUpdate(c, t, s)
      PROVE  ServedInv'
  <2>1. UNCHANGED <<subs, aliasReq, recvReq>> /\ pubTrk' = [pubTrk EXCEPT ![c][t] = s]
    BY <1>5 DEF SubscribeUpdate, subMaps
  <2>2. \A e \in Tracks, d \in Subs : pubTrk'[d][e] \in {pubTrk[d][e], s}
    BY <2>1 DEF TypeOK
  <2> QED
    BY <2>1, <2>2 DEF ServedInv, SubscriberServed, Subscribers
<1>6. ASSUME NEW c \in Subs, SubscribeNamespace(c) PROVE ServedInv'
  BY <1>6, ServedSame DEF SubscribeNamespace, subMaps
<1>7. CASE UNCHANGED vars
  BY <1>7, ServedSame DEF vars, mapVars, subMaps
<1>8. ASSUME NEW p \in Pubs, PublishNamespace(p) \/ PublishNamespaceDone(p) PROVE ServedInv'
  BY <1>8, ServedSame DEF PublishNamespace, PublishNamespaceDone, subMaps
<1>9. ASSUME NEW p \in Pubs, NEW t \in Tracks, Publish(p, t) PROVE ServedInv'
  BY <1>9, ServedSame DEF Publish, subMaps
<1>10. ASSUME NEW x \in Up, PublishDone(x) \/ SubscribeOk(x) \/ SubscribeError(x) \/ ObjectReceived(x)
       PROVE  ServedInv'
  BY <1>10, ServedSame DEF PublishDone, SubscribeOk, SubscribeError, ObjectReceived, mapVars, subMaps
<1> QED
  BY <1>1, <1>2, <1>3, <1>4, <1>5, <1>6, <1>7, <1>8, <1>9, <1>10 DEF Next, UnsubscribeNamespace

\* SUBSCRIBE, UNSUBSCRIBE and the end of a connection, at the server and in the example:
\* whoever is in subscribes has a publish handler, in a status in which objects go out.
THEOREM ServedCorrect ==
    ASSUME OneSub, ~Mixed
    PROVE  Spec => []SubscriberServed
<1>1. TypeOK /\ RelayInv /\ ServedInv /\ [Next]_vars => ServedInv'
  BY ServedNext
<1>2. ServedInv => SubscriberServed
  BY DEF ServedInv
<1> QED
  BY <1>1, <1>2, ServedInit, RelayCorrect, PTL DEF Spec

=============================================================================
