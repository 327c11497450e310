-------------------------- MODULE PublisherProofs ---------------------------
(***************************************************************************)
(* Proofs about Publisher, for all sets of tracks and all bounds.          *)
(*                                                                         *)
(* The maps of the connection agree with the requests the server knows     *)
(* (Requests, Handlers, Maps), a message under way is still about what the *)
(* server meant by it (Messages), and a request that the server counts on  *)
(* is the current request of its track unless the track was unpublished    *)
(* without a word (Told).  From these follow what the client believes of   *)
(* its subscribers (Knows, UsableIsHeld), the data context of a track      *)
(* (ContextHeld) and the namespace of an announcement (Found).             *)
(***************************************************************************)
EXTENDS Publisher, SequenceTheorems, TLAPS

OwnUsed == 0 .. nextReq - 1
TheirsUsed == MaxReq .. nextPeer - 1

Msgs == DOMAIN toClient
Unpublishing(t) == call = [op |-> "unpublish", t |-> t]

\* PUBLISH is sent for a track that is not announced, SUBSCRIBE for one that is, and
\* there is one subscription per track.
Requests ==
    /\ \A r \in Ids : peerTrack[r] # None =>
          \/ r \in OwnUsed /\ peerTrack[r] \notin Announce
          \/ r \in TheirsUsed /\ peerTrack[r] \in Announce
    /\ \A r \in Ids : peer[r] \in {"pub", "pubOk"} => r \in Own /\ peerTrack[r] # None
    /\ \A r \in Ids : peer[r] \in {"sub", "subOk"} => r \in Theirs /\ peerTrack[r] # None
    /\ ctx # "open" => toClient = <<>> /\ \A r \in Ids : peer[r] \in {"none", "over"}
    /\ \A r, s \in Ids :
          peer[r] \in {"sub", "subOk"} /\ peer[s] \in {"sub", "subOk"} /\ peerTrack[r] = peerTrack[s] => r = s

\* No two handlers have the same request id, and it is one of their own track.
Handlers ==
    /\ \A t \in Tracks : reqId[t] \in OwnUsed \cup TheirsUsed \cup {None}
    /\ \A t \in Tracks : dctx[t] \in OwnUsed \cup {None}
    /\ nsByReq \subseteq OwnUsed \cup TheirsUsed
    /\ \A t, u \in Tracks : reqId[t] = reqId[u] /\ reqId[t] # None => t = u
    /\ \A t \in Tracks : reqId[t] # None => peerTrack[reqId[t]] \in {None, t} /\ peer[reqId[t]] # "sub"
    /\ \A r \in nsByReq : peer[r] # "sub"

\* A call that has given up the lock.  The handler that PublishTrack left is as it was,
\* unless a SUBSCRIBE that had found it earlier is accepted meanwhile.
Calling ==
    /\ call.op = "publish" =>
         /\ call.t \in Announce \ byName
         /\ call.t \in unsure \/ (status[call.t] \notin Subscribed /\ reqId[call.t] \in Own \cup {None})
         /\ nextReq - 1 \in OwnUsed /\ \A u \in Tracks : dctx[u] # nextReq - 1
    /\ call.op = "unpublish" => call.t \in Tracks /\ dctx[call.t] = None

\* The maps lead to the track of the request.
Maps ==
    /\ \A r \in Ids : byReq[r] # None => r \in OwnUsed \cup TheirsUsed
    /\ \A r \in Ids : byReq[r] # None /\ peerTrack[r] # None => byReq[r] = peerTrack[r]
    /\ ctx = "open" => \A t \in byName \ Announce : ~Unpublishing(t) =>
          reqId[t] # None /\ byReq[reqId[t]] = t
    /\ \A r \in Ids : recvReq[r] \in {None, peerTrack[r]}
    /\ ctx = "open" => \A r \in Ids : peer[r] \in {"pub", "pubOk", "subOk"} => recvReq[r] = peerTrack[r]

Message == [type : MsgType, req : Ids]

\* What a message says of its request still holds.
MsgOk(m) ==
    /\ m.type = "Subscribe" => peer[m.req] = "sub"
    /\ m.type = "PublishOk" =>
          peerTrack[m.req] # None /\ m.req \in OwnUsed /\ peer[m.req] \in {"pubOk", "over"}
    /\ m.type \in {"Pause", "Resume", "NewGroup", "Unsubscribe"} =>
          peerTrack[m.req] # None /\ peer[m.req] \in {"pubOk", "subOk", "over"}
    /\ m.type = "Unsubscribe" => peer[m.req] = "over" /\ recvReq[m.req] = peerTrack[m.req]
    /\ m.type \in {"Fetch", "TrackStatus"} => m.req \in TheirsUsed /\ peerTrack[m.req] = None

\* An acceptance that is taken back is not the last word.
Standing(r) == peer[r] = "pubOk" \/ byReq[r] = None

Messages ==
    /\ \A i \in Msgs : MsgOk(toClient[i])
    /\ \A i \in Msgs : toClient[i].type = "PublishOk" =>
          \/ Standing(toClient[i].req)
          \/ \E j \in Msgs : j > i /\ toClient[j] = [type |-> "Unsubscribe", req |-> toClient[i].req]
    /\ \A i, j \in Msgs :
          toClient[i].type = "Subscribe" /\ toClient[i] = toClient[j] => i = j

\* The SUBSCRIBE that is about to be accepted still waits for its answer.
Offered ==
    offer # NoOffer =>
        /\ offer.req \in TheirsUsed /\ offer.t \in Announce
        /\ peer[offer.req] = "sub" /\ peerTrack[offer.req] = offer.t /\ recvReq[offer.req] = offer.t
        /\ \A i \in Msgs : toClient[i] # [type |-> "Subscribe", req |-> offer.req]

\* Requests that carry, or may come to carry, objects of t.
Ours(t) == {r \in Ids : peerTrack[r] = t /\ peer[r] \in {"pub", "pubOk", "subOk"}}

Told ==
    ctx = "open" => \A t \in Tracks :
        /\ Ours(t) \ unsaid \subseteq {reqId[t]}
        /\ t \notin byName \/ Unpublishing(t) => Ours(t) \subseteq unsaid

\* An announcement that is not answered leads to a track that is published.
Found ==
    ctx = "open" => \A t \in Announce : reqId[t] \in nsByReq => t \in byName /\ ~Unpublishing(t)

\* A handler whose current request is held knows it.
Knows ==
    \A t \in byName :
        /\ reqId[t] # None /\ peer[reqId[t]] \in {"subOk", "pubOk"}
        /\ \A i \in Msgs : toClient[i] # [type |-> "PublishOk", req |-> reqId[t]]
        /\ t \notin unsure /\ ~Unpublishing(t)
        => status[t] \in Subscribed

Agreement == Requests /\ Handlers /\ Calling /\ Maps /\ Messages /\ Told /\ Found /\ Offered
PubInv == Agreement /\ ContextHeld /\ Knows /\ UsableIsHeld

-----------------------------------------------------------------------------
(* Types. *)

LEMMA Constants ==
    /\ Announce \subseteq Tracks /\ None \notin Tracks /\ None \notin Nat
    /\ MaxReq \in Nat /\ MaxPeer \in Nat /\ MaxTo \in Nat
    /\ Ids \subseteq Nat /\ Own \subseteq Ids /\ Theirs \subseteq Ids /\ None \notin Ids /\ Own \cap Theirs = {}
<1>1. /\ Announce \subseteq Tracks /\ None \notin Tracks /\ None \notin Nat
      /\ MaxReq \in Nat /\ MaxPeer \in Nat /\ MaxTo \in Nat
  BY PublisherAssumption
<1> QED
  BY <1>1 DEF Ids, Own, Theirs

\* The ids that are in use, and the next ones.
LEMMA Used ==
    ASSUME TypeOK
    PROVE  /\ OwnUsed \subseteq Own /\ TheirsUsed \subseteq Theirs
           /\ nextReq \notin OwnUsed /\ nextPeer \notin TheirsUsed /\ nextReq \in Nat /\ nextPeer \in Nat
           /\ nextReq < MaxReq => nextReq \in Own /\ nextReq \notin TheirsUsed
           /\ nextPeer \in Theirs => nextPeer \notin OwnUsed
<1>1. MaxReq \in Nat /\ MaxPeer \in Nat /\ nextReq \in 0 .. MaxReq /\ nextPeer \in MaxReq .. MaxReq + MaxPeer
  BY Constants DEF TypeOK
<1> QED
  BY <1>1 DEF OwnUsed, TheirsUsed, Own, Theirs

LEMMA MessageTypes ==
    ASSUME TypeOK
    PROVE  /\ toClient \in Seq(Message) /\ Len(toClient) \in Nat /\ Msgs = 1 .. Len(toClient)
           /\ \A i \in Msgs : toClient[i] \in Message /\ toClient[i].req \in Ids
<1>1. toClient \in Seq(Message)
  BY DEF TypeOK, Message
<1>2. Msgs = 1 .. Len(toClient) /\ Len(toClient) \in Nat
  BY <1>1, LenProperties DEF Msgs
<1>3. \A i \in Msgs : toClient[i] \in Message
  BY <1>1, <1>2, ElementOfSeq
<1> QED
  BY <1>1, <1>2, <1>3 DEF Message

\* A message is taken from the front.
LEMMA PopIs ==
    ASSUME TypeOK, NEW ty, Receives(ty)
    PROVE  /\ ctx = "open" /\ 1 \in Msgs /\ toClient[1].type = ty /\ Id = toClient[1].req /\ Id \in Ids
           /\ toClient' \in Seq(Message) /\ Msgs' = 1 .. Len(toClient) - 1
           /\ \A i \in Msgs' : i + 1 \in Msgs /\ toClient'[i] = toClient[i + 1]
           /\ \A i \in Msgs : i > 1 => i - 1 \in Msgs' /\ toClient[i] = toClient'[i - 1]
<1>1. toClient # <<>> /\ toClient' = Tail(toClient) /\ Head(toClient).type = ty /\ ctx = "open"
  BY DEF Receives
<1>2. toClient \in Seq(Message) /\ Len(toClient) \in Nat /\ Msgs = 1 .. Len(toClient)
  BY MessageTypes
<1>3. /\ Tail(toClient) \in Seq(Message) /\ Len(Tail(toClient)) = Len(toClient) - 1
      /\ \A i \in 1 .. Len(toClient) - 1 : Tail(toClient)[i] = toClient[i + 1]
      /\ Head(toClient) = toClient[1] /\ Len(toClient) > 0
  BY <1>1, <1>2, HeadTailProperties, EmptySeq
<1>4. Msgs' = 1 .. Len(toClient) - 1
  BY <1>1, <1>2, <1>3, LenProperties DEF Msgs
<1>5. 1 \in Msgs /\ Id = toClient[1].req /\ Id \in Ids
  BY <1>2, <1>3, MessageTypes DEF Id
<1>6. \A i \in Msgs' : i + 1 \in Msgs /\ toClient'[i] = toClient[i + 1]
  BY <1>1, <1>2, <1>3, <1>4
<1>7. ASSUME NEW i \in Msgs, i > 1
      PROVE  i - 1 \in Msgs' /\ toClient[i] = toClient'[i - 1]
  <2>1. i - 1 \in Msgs' /\ (i - 1) + 1 = i
    BY <1>2, <1>4, <1>7
  <2> QED
    BY <1>6, <2>1
<1> QED
  BY <1>1, <1>3, <1>4, <1>5, <1>6, <1>7

\* A message is put at the end.
LEMMA AppendIs ==
    ASSUME TypeOK, NEW ty \in MsgType, NEW r \in Ids, Sends(ty, r)
    PROVE  /\ ctx = "open" /\ toClient' \in Seq(Message) /\ Msgs' = 1 .. Len(toClient) + 1
           /\ toClient'[Len(toClient) + 1] = [type |-> ty, req |-> r]
           /\ Len(toClient) + 1 \in Msgs' /\ Len(toClient) + 1 \notin Msgs
           /\ \A i \in Msgs : i \in Msgs' /\ toClient'[i] = toClient[i] /\ i < Len(toClient) + 1
           /\ \A i \in Msgs' : i \in Msgs \/ i = Len(toClient) + 1
<1> DEFINE m == [type |-> ty, req |-> r]
<1>1. ctx = "open" /\ toClient' = Append(toClient, m) /\ m \in Message
  BY DEF Sends, Message
<1> HIDE DEF m
<1>2. toClient \in Seq(Message) /\ Len(toClient) \in Nat /\ Msgs = 1 .. Len(toClient)
  BY MessageTypes
<1>3. /\ toClient' \in Seq(Message) /\ Len(toClient') = Len(toClient) + 1
      /\ toClient'[Len(toClient) + 1] = m /\ \A i \in 1 .. Len(toClient) : toClient'[i] = toClient[i]
  BY <1>1, <1>2, AppendProperties
<1>4. Msgs' = 1 .. Len(toClient) + 1
  BY <1>3, LenProperties DEF Msgs
<1> QED
  BY <1>1, <1>2, <1>3, <1>4 DEF m

-----------------------------------------------------------------------------
(* The messages under way, as one is taken, one is sent, or none. *)

LEMMA PopMessages ==
    ASSUME TypeOK, Messages, NEW ty, Receives(ty),
           \A m \in Message : MsgOk(m) /\ (\E i \in Msgs : i > 1 /\ toClient[i] = m) => MsgOk(m)',
           \A m \in Message : m.type = "PublishOk" /\ MsgOk(m) /\ Standing(m.req) => Standing(m.req)'
    PROVE  Messages'
<1>1. /\ \A i \in Msgs' : i + 1 \in Msgs /\ toClient'[i] = toClient[i + 1] /\ i \in Nat /\ i + 1 > 1
      /\ \A i \in Msgs : toClient[i] \in Message /\ i \in Nat
      /\ \A i \in Msgs : i > 1 => i - 1 \in Msgs' /\ toClient[i] = toClient'[i - 1]
  BY PopIs, MessageTypes
<1>2. \A i \in Msgs' : MsgOk(toClient[i + 1]) /\ toClient[i + 1] \in Message
  BY <1>1 DEF Messages
<1>3. \A i \in Msgs' : MsgOk(toClient[i])'
  <2> SUFFICES ASSUME NEW i \in Msgs' PROVE MsgOk(toClient[i])'
    OBVIOUS
  <2>1. PICK m \in Message : m = toClient[i + 1]
    BY <1>2
  <2>2. MsgOk(m)' /\ toClient'[i] = m
    BY <1>1, <1>2, <2>1
  <2> QED
    BY <2>2 DEF MsgOk, OwnUsed, TheirsUsed
<1>4. ASSUME NEW i \in Msgs', toClient'[i].type = "PublishOk"
      PROVE  \/ Standing(toClient[i].req)'
             \/ \E j \in Msgs' : j > i /\ toClient'[j] = [type |-> "Unsubscribe", req |-> toClient'[i].req]
  <2>1. PICK m \in Message : m = toClient[i + 1] /\ m = toClient'[i] /\ MsgOk(m) /\ m.type = "PublishOk"
    BY <1>1, <1>2, <1>4
  <2>2. CASE Standing(m.req)
    <3>1. Standing(m.req)'
      BY <2>1, <2>2
    <3> QED
      BY <2>1, <3>1 DEF Standing
  <2>3. CASE \E j \in Msgs : j > i + 1 /\ toClient[j] = [type |-> "Unsubscribe", req |-> m.req]
    <3>1. PICK j \in Msgs : j > i + 1 /\ toClient[j] = [type |-> "Unsubscribe", req |-> m.req]
      BY <2>3
    <3>2. j - 1 \in Msgs' /\ toClient'[j - 1] = toClient[j] /\ j - 1 > i
      BY <1>1, <3>1
    <3> QED
      BY <2>1, <3>1, <3>2
  <2>4. \/ Standing(toClient[i + 1].req)
        \/ \E j \in Msgs : j > i + 1 /\ toClient[j] = [type |-> "Unsubscribe", req |-> toClient[i + 1].req]
    BY <1>1, <2>1 DEF Messages
  <2> QED
    BY <2>1, <2>2, <2>3, <2>4
<1>5. ASSUME NEW i \in Msgs', NEW j \in Msgs', toClient'[i].type = "Subscribe", toClient'[i] = toClient'[j]
      PROVE  i = j
  <2>1. i + 1 = j + 1
    BY <1>1, <1>5 DEF Messages
  <2> QED
    BY <1>1, <2>1
<1> QED
  BY <1>3, <1>4, <1>5 DEF Messages

LEMMA SendMessages ==
    ASSUME TypeOK, Messages, NEW ty \in MsgType, NEW r \in Ids, Sends(ty, r),
           \A m \in Message : MsgOk(m) => MsgOk(m)',
           \A m \in Message : m = [type |-> ty, req |-> r] => MsgOk(m)',
           \A m \in Message : m.type = "PublishOk" /\ MsgOk(m) /\ Standing(m.req) =>
                Standing(m.req)' \/ (ty = "Unsubscribe" /\ m.req = r),
           ty = "PublishOk" => Standing(r)',
           ty = "Subscribe" => \A i \in Msgs : toClient[i] # [type |-> ty, req |-> r]
    PROVE  Messages'
<1> DEFINE N == Len(toClient) + 1
           new == [type |-> ty, req |-> r]
<1>1. /\ toClient'[N] = new /\ N \in Msgs' /\ N \notin Msgs /\ new \in Message
      /\ \A i \in Msgs : i \in Msgs' /\ toClient'[i] = toClient[i] /\ i < N
      /\ \A i \in Msgs' : i \in Msgs \/ i = N
      /\ \A i \in Msgs : toClient[i] \in Message
  BY AppendIs, MessageTypes DEF Message
<1>2. new.type = ty /\ new.req = r
  OBVIOUS
<1> HIDE DEF N, new
<1>3. \A i \in Msgs' : MsgOk(toClient[i])'
  <2> SUFFICES ASSUME NEW i \in Msgs' PROVE MsgOk(toClient[i])'
    OBVIOUS
  <2>1. PICK m \in Message : m = toClient'[i] /\ MsgOk(m)'
    BY <1>1 DEF Messages, new
  <2> QED
    BY <2>1 DEF MsgOk, OwnUsed, TheirsUsed
<1>4. ASSUME NEW i \in Msgs', toClient'[i].type = "PublishOk"
      PROVE  \/ Standing(toClient[i].req)'
             \/ \E j \in Msgs' : j > i /\ toClient'[j] = [type |-> "Unsubscribe", req |-> toClient'[i].req]
  <2>1. CASE i = N
    <3>1. ty = "PublishOk" /\ toClient'[i].req = r
      BY <1>1, <1>2, <1>4, <2>1
    <3> QED
      BY <3>1 DEF Standing
  <2>2. CASE i \in Msgs
    <3>1. PICK m \in Message : m = toClient[i] /\ m = toClient'[i] /\ MsgOk(m) /\ m.type = "PublishOk"
      BY <1>1, <1>4, <2>2 DEF Messages
    <3>2. CASE Standing(m.req) /\ Standing(m.req)'
      BY <3>1, <3>2 DEF Standing
    <3>3. CASE ty = "Unsubscribe" /\ m.req = r
      <4>1. N > i /\ toClient'[N] = [type |-> "Unsubscribe", req |-> m.req]
        BY <1>1, <2>2, <3>3, MessageTypes DEF new, N
      <4> QED
        BY <1>1, <3>1, <4>1
    <3>4. CASE \E j \in Msgs : j > i /\ toClient[j] = [type |-> "Unsubscribe", req |-> m.req]
      BY <1>1, <3>1, <3>4
    <3>5. \/ Standing(toClient[i].req)
          \/ \E j \in Msgs : j > i /\ toClient[j] = [type |-> "Unsubscribe", req |-> toClient[i].req]
      BY <2>2, <3>1 DEF Messages
    <3>6. Standing(m.req) => Standing(m.req)' \/ (ty = "Unsubscribe" /\ m.req = r)
      BY <3>1
    <3> QED
      BY <3>1, <3>2, <3>3, <3>4, <3>5, <3>6
  <2> QED
    BY <1>1, <2>1, <2>2
<1>5. ASSUME NEW i \in Msgs', NEW j \in Msgs', toClient'[i].type = "Subscribe", toClient'[i] = toClient'[j]
      PROVE  i = j
  BY <1>1, <1>2, <1>5 DEF Messages, new
<1> QED
  BY <1>3, <1>4, <1>5 DEF Messages

LEMMA KeepMessages ==
    ASSUME TypeOK, Messages, UNCHANGED toClient,
           \A m \in Message : MsgOk(m) /\ (\E i \in Msgs : toClient[i] = m) => MsgOk(m)',
           \A m \in Message : m.type = "PublishOk" /\ MsgOk(m) /\ Standing(m.req) => Standing(m.req)'
    PROVE  Messages'
<1>1. Msgs' = Msgs /\ \A i \in Msgs : toClient[i] \in Message
  BY MessageTypes DEF Msgs
<1>2. \A i \in Msgs : MsgOk(toClient[i])'
  <2> SUFFICES ASSUME NEW i \in Msgs PROVE MsgOk(toClient[i])'
    OBVIOUS
  <2>1. PICK m \in Message : m = toClient[i] /\ MsgOk(m)'
    BY <1>1 DEF Messages
  <2> QED
    BY <2>1 DEF MsgOk, OwnUsed, TheirsUsed
<1>3. \A i \in Msgs : toClient[i].type = "PublishOk" /\ Standing(toClient[i].req) => Standing(toClient[i].req)'
  <2> SUFFICES ASSUME NEW i \in Msgs, toClient[i].type = "PublishOk", Standing(toClient[i].req)
               PROVE  Standing(toClient[i].req)'
    OBVIOUS
  <2>1. PICK m \in Message : m = toClient[i] /\ Standing(m.req)'
    BY <1>1 DEF Messages
  <2> QED
    BY <2>1 DEF Standing
<1> QED
  BY <1>1, <1>2, <1>3 DEF Messages

-----------------------------------------------------------------------------
(* Types, action by action. *)

LEMMA TypeInit == Init => TypeOK
<1> SUFFICES ASSUME Init PROVE TypeOK
  OBVIOUS
<1>1. /\ byReq \in [Ids -> Tracks \cup {None}] /\ byCtx \in [Own -> Tracks \cup {None}]
      /\ recvReq \in [Ids -> Tracks \cup {None}] /\ reqId \in [Tracks -> Ids \cup {None}]
      /\ dctx \in [Tracks -> Own \cup {None}] /\ peerTrack \in [Ids -> Tracks \cup {None}]
  BY DEF Init
<1>2. /\ nextReq \in 0 .. MaxReq /\ nextPeer \in MaxReq .. MaxReq + MaxPeer
  BY Constants DEF Init
<1>3. /\ status \in [Tracks -> Status] /\ crashed \in BOOLEAN /\ sentFirst \in [Theirs -> BOOLEAN]
      /\ fetch \in [Theirs -> {"unbound", "empty", "objects", "headless"}]
  BY DEF Init, Status
<1>4. toClient \in Seq([type : MsgType, req : Ids])
  BY EmptySeq DEF Init
<1>5. call \in [op : {"idle", "publish", "unpublish"}, t : Tracks \cup {None}]
  BY DEF Init, Idle
<1>6. peer \in [Ids -> {"none", "ns", "nsOk", "pub", "pubOk", "sub", "subOk", "fetch", "status", "over"}]
  BY DEF Init
<1>7. offer \in [req : Theirs \cup {None}, t : Tracks \cup {None}]
  BY DEF Init, NoOffer
<1> QED
  BY <1>1, <1>2, <1>3, <1>4, <1>5, <1>6, <1>7 DEF Init, TypeOK

PeerStates == {"none", "ns", "nsOk", "pub", "pubOk", "sub", "subOk", "fetch", "status", "over"}

LEMMA TypePublishTrack ==
    ASSUME TypeOK, NEW t \in Tracks, PublishTrack(t)
    PROVE  TypeOK'
<1>1. nextReq \in Own /\ nextReq \in Ids /\ nextReq' \in 0 .. MaxReq
  BY Used, Constants DEF PublishTrack, TypeOK
<1>2. status' \in [Tracks -> Status]
  <2>1. \A b \in byName : b \in Tracks /\ status[b] \in Status
    BY DEF TypeOK
  <2>2. {"kPendingAnnounceResponse", "kPendingPublishOk"} \subseteq Status
    BY DEF Status
  <2>3. \E x \in Status : status' = [status EXCEPT ![t] = x]
    BY <2>1, <2>2, ZenonT(40) DEF PublishTrack
  <2> QED
    BY <2>3 DEF TypeOK
<1>3. peer' \in [Ids -> PeerStates] /\ peerTrack' \in [Ids -> Tracks \cup {None}]
  BY <1>1 DEF PublishTrack, TypeOK, SendPublishNamespace, SendPublish, PeerStates
<1>4. /\ dctx' \in [Tracks -> Own \cup {None}] /\ byReq' \in [Ids -> Tracks \cup {None}] /\ live' \subseteq Own
      /\ byCtx' \in [Own -> Tracks \cup {None}] /\ byName' \subseteq Tracks /\ nsByReq' \subseteq Ids
  <2>1. (UNCHANGED <<dctx, byReq, live, byCtx, byName>> \/ Published(t, nextReq, nextReq)) /\ UNCHANGED nsByReq
    BY DEF PublishTrack, mapVars
  <2>2. CASE Published(t, nextReq, nextReq)
    <3>1. dctx' \in [Tracks -> Own \cup {None}] /\ byReq' \in [Ids -> Tracks \cup {None}]
      BY <1>1, <2>2 DEF Published, TypeOK
    <3>2. byCtx' \in [Own -> Tracks \cup {None}]
      BY <1>1, <2>2 DEF Published, TypeOK
    <3>3. live' \subseteq Own /\ byName' \subseteq Tracks /\ nsByReq' \subseteq Ids
      BY <1>1, <2>1, <2>2 DEF Published, TypeOK
    <3> QED
      BY <3>1, <3>2, <3>3
  <2> QED
    BY <2>1, <2>2 DEF TypeOK
<1>5. recvReq' \in [Ids -> Tracks \cup {None}] /\ reqId' \in [Tracks -> Ids \cup {None}]
  BY <1>1 DEF PublishTrack, TypeOK, mapVars
<1>6. call' \in [op : {"idle", "publish", "unpublish"}, t : Tracks \cup {None}] /\ unsure' \subseteq Tracks
  BY DEF PublishTrack, TypeOK
<1>7. UNCHANGED <<ctx, crashed, offer, nextPeer, toClient, fetch, sentFirst, unsaid>>
  BY DEF PublishTrack, fetchVars
<1> QED
  BY <1>1, <1>2, <1>3, <1>4, <1>5, <1>6, <1>7 DEF TypeOK, PeerStates

LEMMA TypePublishEnd ==
    ASSUME TypeOK, Calling, PublishEnd
    PROVE  TypeOK'
<1> DEFINE t == call.t
           r == reqId[t]
           c == nextReq - 1
<1>1. t \in Tracks /\ r \in Ids \cup {None} /\ c \in Own
  BY Constants, Used DEF PublishEnd, Calling, TypeOK
<1>2. /\ call' = Idle /\ UNCHANGED <<offer, ctx, nextReq, status, reqId, recvReq, peerTrack, nextPeer, toClient,
                                     fetch, sentFirst, unsure, unsaid>>
      /\ crashed' \in BOOLEAN
  BY DEF PublishEnd, fetchVars, histVars, mapVars, TypeOK
<1>3. call' \in [op : {"idle", "publish", "unpublish"}, t : Tracks \cup {None}]
  BY <1>2 DEF Idle
<1>4. CASE ctx = "none" \/ r = None
  BY <1>2, <1>3, <1>4 DEF PublishEnd, TypeOK, mapVars
<1>5. CASE ~(ctx = "none" \/ r = None)
  <2>1. r \in Ids
    BY <1>1, <1>5
  <2>2. /\ peer' = SendPublishNamespace(peer, r) /\ nsByReq' = nsByReq \cup {r} /\ Published(t, r, c)
    BY <1>5 DEF PublishEnd
  <2> HIDE DEF t, r, c
  <2>3. peer' \in [Ids -> PeerStates]
    BY <2>1, <2>2 DEF SendPublishNamespace, TypeOK, PeerStates
  <2> QED
    BY <1>1, <1>2, <1>3, <2>1, <2>2, <2>3 DEF TypeOK, Published, PeerStates
<1> QED
  BY <1>4, <1>5

LEMMA TypeUnpublishTrack ==
    ASSUME TypeOK, NEW t \in Tracks, UnpublishTrack(t)
    PROVE  TypeOK'
<1>1. reqId[t] \in Ids
  BY DEF UnpublishTrack, TypeOK
<1>2. peer' \in [Ids -> PeerStates]
  BY <1>1 DEF UnpublishTrack, SendPublishDone, TypeOK, PeerStates
<1>3. /\ byReq' \in [Ids -> Tracks \cup {None}] /\ nsByReq' \subseteq Ids
      /\ dctx' \in [Tracks -> Own \cup {None}] /\ status' \in [Tracks -> Status]
  BY <1>1 DEF UnpublishTrack, Forget, TypeOK, Status
<1>4. unsaid' \subseteq Ids
  BY DEF UnpublishTrack, TypeOK
<1>5. call' \in [op : {"idle", "publish", "unpublish"}, t : Tracks \cup {None}]
  BY DEF UnpublishTrack
<1>6. UNCHANGED <<offer, ctx, nextReq, crashed, reqId, byName, byCtx, recvReq, live, peerTrack, nextPeer, toClient,
                  fetch, sentFirst, unsure>>
  BY DEF UnpublishTrack, conVars, fetchVars
<1> QED
  BY <1>2, <1>3, <1>4, <1>5, <1>6 DEF TypeOK, PeerStates

LEMMA TypeUnpublishEnd ==
    ASSUME TypeOK, UnpublishEnd
    PROVE  TypeOK'
<1>1. /\ call' = Idle /\ UNCHANGED <<offer, ctx, nextReq, status, reqId, dctx, byReq, nsByReq, byCtx, recvReq, peerTrack,
                                     nextPeer, toClient, fetch, sentFirst, unsure, unsaid>>
      /\ crashed' \in BOOLEAN /\ byName' \subseteq byName /\ live' \subseteq live
  BY DEF UnpublishEnd, handlerVars, fetchVars, histVars, TypeOK
<1>2. call' \in [op : {"idle", "publish", "unpublish"}, t : Tracks \cup {None}]
  BY <1>1 DEF Idle
<1>3. peer' \in [Ids -> PeerStates]
  BY DEF UnpublishEnd, SendPublishNamespaceDone, TypeOK, PeerStates
<1> QED
  BY <1>1, <1>2, <1>3 DEF TypeOK, PeerStates

\* Every action of ProcessCtrlMessage.
Handling ==
    \/ PublishNamespaceOk \/ Ignored \/ PublishOk \/ Subscribe \/ SubscribeUpdate \/ Unsubscribe
    \/ TrackStatus \/ Fetch \/ FetchCancel

LEMMA SubscribeTheirs ==
    ASSUME TypeOK, Messages, Requests, Subscribe
    PROVE  Id \in Theirs
<1>1. Receives("Subscribe")
  BY DEF Subscribe
<1> QED
  BY <1>1, PopIs DEF Messages, MsgOk, Requests

LEMMA TypeHandling ==
    ASSUME TypeOK, Messages, Requests, Handling
    PROVE  TypeOK'
<1>1. toClient' \in Seq([type : MsgType, req : Ids]) /\ Id \in Ids
  BY PopIs DEF Handling, PublishNamespaceOk, Ignored, PublishOk, Subscribe, SubscribeUpdate, Unsubscribe,
     TrackStatus, Fetch, FetchCancel, Message
<1>2. /\ UNCHANGED <<ctx, nextReq, dctx, byReq, byName, byCtx, live, call, peerTrack, nextPeer, sentFirst>>
      /\ crashed' \in BOOLEAN
  BY DEF Handling, PublishNamespaceOk, Ignored, PublishOk, Subscribe, SubscribeUpdate, Unsubscribe,
     TrackStatus, Fetch, FetchCancel, conVars, handlerVars, mapVars, fetchVars, TypeOK
<1>3. recvReq[Id] \in Tracks \cup {None} /\ peerTrack[Id] \in Tracks \cup {None} /\ byReq[Id] \in Tracks \cup {None}
  BY <1>1 DEF TypeOK
<1>4. status' \in [Tracks -> Status]
  <2>1. CASE PublishNamespaceOk
    <3>1. \A t \in Tracks : Announced(t) \in Status
      BY DEF Announced, Status
    <3> QED
      BY <2>1, <3>1 DEF PublishNamespaceOk, TypeOK
  <2>2. \A t, s : s \in Status /\ SetStatus(t, s) => status' \in [Tracks -> Status]
    BY DEF SetStatus, TypeOK
  <2>3. {"kOk", "kPaused", "kSubscriptionUpdated", "kNewGroupRequested", "kNoSubscribers"} \subseteq Status
    BY DEF Status
  <2>4. CASE PublishOk
    BY <2>3, <2>4 DEF PublishOk, TypeOK
  <2>5. CASE SubscribeUpdate \/ Unsubscribe
    BY <2>2, <2>3, <2>5 DEF SubscribeUpdate, Unsubscribe, TypeOK
  <2>6. CASE UNCHANGED status
    BY <2>6 DEF TypeOK
  <2> QED
    BY <2>1, <2>4, <2>5, <2>6 DEF Handling, Ignored, Subscribe, TrackStatus, Fetch, FetchCancel, handlerVars
<1>5. peer' \in [Ids -> PeerStates]
  BY <1>1, ZenonT(40) DEF Handling, PublishNamespaceOk, Ignored, PublishOk, Subscribe, SubscribeUpdate, Unsubscribe,
     TrackStatus, Fetch, FetchCancel, TypeOK, PeerStates, ResolveTrackStatus, ResolveFetch
<1>6. /\ reqId' \in [Tracks -> Ids \cup {None}] /\ recvReq' \in [Ids -> Tracks \cup {None}] /\ nsByReq' \subseteq Ids
  <2>1. CASE Subscribe
    BY <1>1, <1>3, <2>1 DEF Subscribe, handlerVars, TypeOK
  <2>2. CASE ~Subscribe
    BY <2>2 DEF Handling, PublishNamespaceOk, Ignored, PublishOk, SubscribeUpdate, Unsubscribe,
       TrackStatus, Fetch, FetchCancel, handlerVars, mapVars, TypeOK
  <2> QED
    BY <2>1, <2>2
<1>7. unsure' \subseteq Tracks /\ unsaid' \subseteq Ids
  <2>1. \A over : Misled(over) \subseteq Tracks
    BY <1>3 DEF Misled
  <2> QED
    BY <1>1, <2>1 DEF Handling, PublishNamespaceOk, Ignored, PublishOk, Subscribe, SubscribeUpdate, Unsubscribe,
       TrackStatus, Fetch, FetchCancel, histVars, TypeOK
<1>8. fetch' \in [Theirs -> {"unbound", "empty", "objects", "headless"}]
  BY DEF Handling, PublishNamespaceOk, Ignored, PublishOk, Subscribe, SubscribeUpdate, Unsubscribe,
     TrackStatus, Fetch, FetchCancel, fetchVars, BindFetchTrack, TypeOK
<1>9. offer' \in [req : Theirs \cup {None}, t : Tracks \cup {None}]
  <2>1. CASE Subscribe
    <3>1. Id \in Theirs
      BY <2>1, SubscribeTheirs
    <3> QED
      BY <1>3, <2>1, <3>1 DEF Subscribe, TypeOK
  <2>2. CASE ~Subscribe
    BY <2>2 DEF Handling, PublishNamespaceOk, Ignored, PublishOk, SubscribeUpdate, Unsubscribe,
       TrackStatus, Fetch, FetchCancel, TypeOK
  <2> QED
    BY <2>1, <2>2
<1> QED
  BY <1>1, <1>2, <1>4, <1>5, <1>6, <1>7, <1>8, <1>9 DEF TypeOK, PeerStates

LEMMA TypeSubscribeEnd ==
    ASSUME TypeOK, Offered, SubscribeEnd
    PROVE  TypeOK'
<1>1. /\ UNCHANGED <<conVars, dctx, mapVars, live, call, peerTrack, nextPeer, toClient, fetchVars>>
      /\ offer' = NoOffer
  BY DEF SubscribeEnd
<1>2. offer.req \in Ids /\ offer.t \in Tracks
  BY Used, Constants DEF SubscribeEnd, Offered
<1>3. reqId' \in [Tracks -> Ids \cup {None}] /\ peer' \in [Ids -> PeerStates]
  BY <1>2 DEF SubscribeEnd, ResolveSubscribe, TypeOK, PeerStates
<1>4. status' \in [Tracks -> Status]
  BY DEF SubscribeEnd, TypeOK, Status
<1>5. unsure' \subseteq Tracks /\ unsaid' \subseteq Ids
  BY <1>2 DEF SubscribeEnd, TypeOK
<1>6. offer' \in [req : Theirs \cup {None}, t : Tracks \cup {None}]
  BY <1>1 DEF NoOffer
<1> QED
  BY <1>1, <1>3, <1>4, <1>5, <1>6 DEF TypeOK, conVars, mapVars, fetchVars, PeerStates

LEMMA TypeFetch ==
    ASSUME TypeOK, NEW s \in Theirs, PublishFetchObject(s) \/ UnbindFetchTrack(s)
    PROVE  /\ TypeOK'
           /\ UNCHANGED <<conVars, handlerVars, mapVars, live, call, offer, peerVars, histVars>>
<1>1. UNCHANGED <<conVars, handlerVars, mapVars, live, call, offer, peerVars, histVars>>
  BY DEF PublishFetchObject, UnbindFetchTrack
<1>2. fetch' \in [Theirs -> {"unbound", "empty", "objects", "headless"}] /\ sentFirst' \in [Theirs -> BOOLEAN]
  <2>1. \A on \in {"unbound", "empty", "objects", "headless"}, h \in BOOLEAN :
           EnqueueFetchObject(on, h) \in {"unbound", "empty", "objects", "headless"}
    BY DEF EnqueueFetchObject
  <2>2. fetch[s] \in {"unbound", "empty", "objects", "headless"} /\ (~sentFirst[s]) \in BOOLEAN
    BY DEF TypeOK
  <2>3. EnqueueFetchObject(fetch[s], ~sentFirst[s]) \in {"unbound", "empty", "objects", "headless"}
    BY <2>1, <2>2
  <2>4. \E x \in {"unbound", "empty", "objects", "headless"} : fetch' = [fetch EXCEPT ![s] = x]
    BY <2>3, Zenon DEF PublishFetchObject, UnbindFetchTrack
  <2>5. fetch' \in [Theirs -> {"unbound", "empty", "objects", "headless"}]
    BY <2>4 DEF TypeOK
  <2>6. sentFirst' \in [Theirs -> BOOLEAN]
    BY DEF PublishFetchObject, UnbindFetchTrack, TypeOK
  <2> QED
    BY <2>5, <2>6
<1> QED
  BY <1>1, <1>2 DEF TypeOK, conVars, handlerVars, mapVars, peerVars, histVars

LEMMA TypeLost ==
    ASSUME TypeOK, ConnectionLost \/ ConnectionErased
    PROVE  TypeOK'
<1>1. CASE ConnectionLost
  <2>1. status' \in [Tracks -> Status] /\ reqId' \in [Tracks -> Ids \cup {None}]
    BY <1>1 DEF ConnectionLost, TypeOK, Status
  <2>2. peer' \in [Ids -> PeerStates]
    BY <1>1 DEF ConnectionLost, TypeOK, PeerStates
  <2>3. toClient' \in Seq([type : MsgType, req : Ids])
    BY <1>1, EmptySeq DEF ConnectionLost
  <2> QED
    BY <1>1, <2>1, <2>2, <2>3 DEF ConnectionLost, TypeOK, fetchVars, histVars, PeerStates
<1>2. CASE ConnectionErased
  BY <1>2 DEF ConnectionErased, TypeOK, handlerVars, peerVars, histVars
<1> QED
  BY <1>1, <1>2

\* Every action of the server.
Peer ==
    \/ \E t \in Tracks : PeerSubscribes(t)
    \/ \E r \in Own : PeerAnswers(r, TRUE) \/ PeerAnswers(r, FALSE)
    \/ \E r \in Ids : PeerCancels(r) \/ \E u \in {"Pause", "Resume", "NewGroup", "Unsubscribe"} : PeerUpdates(r, u)
    \/ PeerFetches

LEMMA TypePeer ==
    ASSUME TypeOK, Peer
    PROVE  TypeOK'
<1>1. UNCHANGED <<conVars, handlerVars, mapVars, live, call, offer, fetchVars, histVars>>
  BY DEF Peer, PeerSubscribes, PeerAnswers, PeerCancels, PeerUpdates, PeerFetches, PeerOnly
<1>2. toClient' \in Seq([type : MsgType, req : Ids])
  <2>1. \A ty \in MsgType, r \in Ids : Sends(ty, r) => toClient' \in Seq(Message)
    BY AppendIs
  <2>2. {"PublishNamespaceOk", "PublishNamespaceError", "PublishOk", "PublishError", "Subscribe",
         "Pause", "Resume", "NewGroup", "Unsubscribe", "Fetch", "FetchCancel", "TrackStatus"} \subseteq MsgType
    BY DEF MsgType
  <2> QED
    BY <2>1, <2>2, Constants DEF Peer, PeerSubscribes, PeerAnswers, PeerCancels, PeerUpdates, PeerFetches, Message
<1>3. peer' \in [Ids -> PeerStates]
  BY Constants DEF Peer, PeerSubscribes, PeerAnswers, PeerCancels, PeerUpdates, PeerFetches, TypeOK, PeerStates
<1>4. peerTrack' \in [Ids -> Tracks \cup {None}]
  BY Constants DEF Peer, PeerSubscribes, PeerAnswers, PeerCancels, PeerUpdates, PeerFetches, TypeOK
<1>5. nextPeer' \in MaxReq .. MaxReq + MaxPeer
  <2>1. nextPeer \in Theirs => nextPeer + 1 \in MaxReq .. MaxReq + MaxPeer
    BY Constants DEF Theirs
  <2> QED
    BY <2>1 DEF Peer, PeerSubscribes, PeerAnswers, PeerCancels, PeerUpdates, PeerFetches, TypeOK
<1> QED
  BY <1>1, <1>2, <1>3, <1>4, <1>5 DEF TypeOK, conVars, handlerVars, mapVars, fetchVars, histVars, PeerStates

-----------------------------------------------------------------------------
(* A message is handled that changes no request id and no map but nsByReq. *)

Held == {"subOk", "pubOk"}

LEMMA UsedUnchanged ==
    /\ (UNCHANGED nextReq => OwnUsed' = OwnUsed)
    /\ (UNCHANGED nextPeer => TheirsUsed' = TheirsUsed)
    /\ (UNCHANGED call => \A t : Unpublishing(t)' = Unpublishing(t))
BY DEF OwnUsed, TheirsUsed, Unpublishing

\* A step of another thread keeps what the SUBSCRIBE that is being handled has found.
LEMMA KeepOffered ==
    ASSUME TypeOK, Offered, UNCHANGED offer,
           \A r \in TheirsUsed : peer[r] = "sub" =>
               peer'[r] = "sub" /\ peerTrack'[r] = peerTrack[r] /\ recvReq'[r] = recvReq[r],
           TheirsUsed \subseteq TheirsUsed',
           \A i \in Msgs' : (\E j \in Msgs : toClient[j] = toClient'[i]) \/ toClient'[i].req \notin TheirsUsed
                             \/ toClient'[i].type # "Subscribe"
    PROVE  Offered'
<1> SUFFICES ASSUME offer # NoOffer
             PROVE  /\ offer.req \in TheirsUsed' /\ offer.t \in Announce
                    /\ peer'[offer.req] = "sub" /\ peerTrack'[offer.req] = offer.t /\ recvReq'[offer.req] = offer.t
                    /\ \A i \in Msgs' : toClient'[i] # [type |-> "Subscribe", req |-> offer.req]
  BY DEF Offered
<1>1. /\ offer.req \in TheirsUsed /\ offer.t \in Announce
      /\ peer[offer.req] = "sub" /\ peerTrack[offer.req] = offer.t /\ recvReq[offer.req] = offer.t
      /\ \A i \in Msgs : toClient[i] # [type |-> "Subscribe", req |-> offer.req]
  BY DEF Offered
<1>2. ASSUME NEW i \in Msgs', toClient'[i] = [type |-> "Subscribe", req |-> offer.req] PROVE FALSE
  <2>1. toClient'[i].req = offer.req /\ toClient'[i].type = "Subscribe"
    BY <1>2
  <2> QED
    BY <1>1, <1>2, <2>1
<1> QED
  BY <1>1, <1>2

\* The server's view changes at most for a fetch or a question about a track.
LEMMA PopAgreement ==
    ASSUME TypeOK, TypeOK', Agreement, ContextHeld, NEW ty, Receives(ty),
           UNCHANGED <<ctx, nextReq, dctx, byReq, byName, byCtx, live, call, peerTrack, nextPeer, reqId, recvReq, unsaid>>,
           UNCHANGED offer, nsByReq' \subseteq nsByReq, unsure \subseteq unsure',
           peer' = peer \/ (peerTrack[Id] = None /\ peer' = [peer EXCEPT ![Id] = "over"]),
           call.op = "publish" /\ status[call.t] \notin Subscribed => status'[call.t] \notin Subscribed
    PROVE  Agreement' /\ ContextHeld'
<1>1. Requests /\ Handlers /\ Calling /\ Maps /\ Messages /\ Told /\ Found /\ Offered
  BY DEF Agreement
<1>2. OwnUsed' = OwnUsed /\ TheirsUsed' = TheirsUsed /\ \A t : Unpublishing(t)' = Unpublishing(t)
  BY UsedUnchanged
<1>3. ctx = "open" /\ Id \in Ids
  BY PopIs
<1>4. \A r \in Ids : peer'[r] = peer[r] \/ (peerTrack[r] = None /\ peer'[r] = "over")
  BY <1>3 DEF TypeOK
<1>5. \A r \in Ids : peerTrack[r] # None => peer'[r] = peer[r]
  BY <1>4
<1>6. Requests'
  BY <1>1, <1>2, <1>3, <1>4, <1>5 DEF Requests
<1>7. Handlers'
  <2>1. \A t \in Tracks : reqId[t] # None => reqId[t] \in Ids
    BY DEF TypeOK
  <2>2. \A r \in nsByReq : r \in Ids
    BY DEF TypeOK
  <2>3. \A r \in Ids : peer[r] # "sub" => peer'[r] # "sub"
    BY <1>4
  <2> QED
    BY <1>1, <1>2, <2>1, <2>2, <2>3 DEF Handlers
<1>8. Calling'
  BY <1>1, <1>2 DEF Calling
<1>15. Offered'
  BY DEF Receives, Offered
<1>9. Maps'
  BY <1>1, <1>2, <1>4 DEF Maps
<1>10. \A m \in Message : MsgOk(m) => MsgOk(m)'
  <2> SUFFICES ASSUME NEW m \in Message, MsgOk(m) PROVE MsgOk(m)'
    OBVIOUS
  <2>1. m.req \in Ids
    BY DEF Message
  <2>2. m.type = "Subscribe" => peerTrack[m.req] # None
    BY <1>1, <2>1 DEF MsgOk, Requests
  <2> QED
    BY <1>2, <1>5, <2>1, <2>2 DEF MsgOk
<1>11. \A m \in Message : m.type = "PublishOk" /\ MsgOk(m) /\ Standing(m.req) => Standing(m.req)'
  BY <1>5 DEF Message, MsgOk, Standing
<1>12. Messages'
  BY <1>1, <1>10, <1>11, PopMessages
<1>13. Told'
  <2>1. \A t \in Tracks : Ours(t)' \subseteq Ours(t)
    BY <1>4, Constants DEF Ours
  <2> QED
    BY <1>1, <1>2, <2>1 DEF Told
<1>14. Found' /\ ContextHeld'
  BY <1>1, <1>2 DEF Found, ContextHeld, Unpublishing
<1> QED
  BY <1>6, <1>7, <1>8, <1>9, <1>12, <1>13, <1>14, <1>15 DEF Agreement

LEMMA PopKnows ==
    ASSUME TypeOK, Agreement, Knows, NEW ty, Receives(ty), UNCHANGED <<byName, reqId, call>>, unsure \subseteq unsure',
           \A r \in Ids : peer'[r] \in Held => peer[r] \in Held,
           \A t \in byName : status[t] \in Subscribed =>
              status'[t] \in Subscribed \/ t \in unsure' \/ (reqId[t] # None => peer'[reqId[t]] \notin Held),
           ty = "PublishOk" => \A t \in byName : reqId[t] = Id /\ ~Unpublishing(t) => status'[t] \in Subscribed
    PROVE  Knows'
<1> SUFFICES ASSUME NEW t \in byName, reqId[t] # None, peer'[reqId[t]] \in Held,
                    \A i \in Msgs' : toClient'[i] # [type |-> "PublishOk", req |-> reqId[t]],
                    t \notin unsure', ~Unpublishing(t)
             PROVE  status'[t] \in Subscribed
  BY UsedUnchanged DEF Knows, Held
<1>1. t \in Tracks /\ reqId[t] \in Ids
  BY DEF TypeOK
<1>2. peer[reqId[t]] \in Held /\ t \notin unsure
  BY <1>1
<1>3. CASE \A i \in Msgs : toClient[i] # [type |-> "PublishOk", req |-> reqId[t]]
  <2>1. status[t] \in Subscribed
    BY <1>2, <1>3 DEF Knows, Held
  <2> QED
    BY <2>1
<1>4. CASE \E i \in Msgs : toClient[i] = [type |-> "PublishOk", req |-> reqId[t]]
  <2>1. PICK i \in Msgs : toClient[i] = [type |-> "PublishOk", req |-> reqId[t]]
    BY <1>4
  <2>2. ~(i > 1)
    BY <2>1, PopIs
  <2>3. i = 1
    BY <2>2, MessageTypes
  <2>4. ty = "PublishOk" /\ Id = reqId[t]
    BY <2>1, <2>3, PopIs
  <2> QED
    BY <2>4
<1> QED
  BY <1>3, <1>4

LEMMA PopUsable ==
    ASSUME TypeOK, UsableIsHeld, NEW ty, Receives(ty), UNCHANGED <<byName, peerTrack>>, unsure \subseteq unsure',
           \A r \in Ids : peer[r] \in Held => peer'[r] \in Held,
           \A t \in byName : status'[t] \in Subscribed =>
              \/ status[t] \in Subscribed /\ (ty = "Unsubscribe" => peerTrack[Id] # t)
              \/ HeldBy(t)' # {} \/ t \in unsure' \/ UnderWay(t, "Unsubscribe")'
    PROVE  UsableIsHeld'
<1> SUFFICES ASSUME NEW t \in byName, status'[t] \in Subscribed
             PROVE  HeldBy(t)' # {} \/ t \in unsure' \/ UnderWay(t, "Unsubscribe")'
  BY DEF UsableIsHeld, HeldBy, UnderWay
<1>1. CASE status[t] \in Subscribed /\ (ty = "Unsubscribe" => peerTrack[Id] # t)
  <2>1. HeldBy(t) \subseteq HeldBy(t)'
    BY DEF HeldBy, Held
  <2>2. ASSUME UnderWay(t, "Unsubscribe")
        PROVE  UnderWay(t, "Unsubscribe")'
    <3>1. PICK i \in Msgs : toClient[i].type = "Unsubscribe" /\ peerTrack[toClient[i].req] = t
      BY <2>2 DEF UnderWay, Msgs
    <3>2. i # 1
      BY <1>1, <3>1, PopIs
    <3>3. i > 1
      BY <3>2, MessageTypes
    <3>4. i - 1 \in Msgs' /\ toClient'[i - 1] = toClient[i]
      BY <3>3, PopIs
    <3>5. \E j \in Msgs' : toClient'[j].type = "Unsubscribe" /\ peerTrack'[toClient'[j].req] = t
      BY <3>1, <3>4
    <3> QED
      BY <3>5 DEF UnderWay, Msgs
  <2> QED
    BY <1>1, <2>1, <2>2 DEF UsableIsHeld
<1> QED
  BY <1>1

LEMMA HandleIgnored ==
    ASSUME TypeOK, TypeOK', PubInv, Ignored \/ FetchCancel
    PROVE  PubInv'
<1>1. PICK ty \in MsgType \ {"PublishOk", "Unsubscribe"} : Receives(ty)
  BY DEF Ignored, FetchCancel, MsgType
<1>2. UNCHANGED <<conVars, handlerVars, mapVars, live, call, offer, peer, peerTrack, nextPeer, histVars>>
  BY DEF Ignored, FetchCancel
<1>3. Agreement /\ ContextHeld /\ Knows /\ UsableIsHeld
  BY DEF PubInv
<1>4. UNCHANGED <<ctx, nextReq, dctx, byReq, nsByReq, byName, byCtx, live, call, peer, peerTrack, nextPeer, reqId, recvReq,
                  offer, status, unsure, unsaid>>
  BY <1>2 DEF conVars, handlerVars, mapVars, histVars
<1>5. Agreement' /\ ContextHeld'
  BY <1>1, <1>3, <1>4, PopAgreement DEF Agreement, Calling
<1>6. Knows'
  BY <1>1, <1>3, <1>4, PopKnows
<1>7. UsableIsHeld'
  BY <1>1, <1>3, <1>4, PopUsable
<1> QED
  BY <1>5, <1>6, <1>7 DEF PubInv

LEMMA HandleQuestion ==
    ASSUME TypeOK, TypeOK', PubInv, Fetch \/ TrackStatus
    PROVE  PubInv'
<1>1. PICK ty \in {"Fetch", "TrackStatus"} : Receives(ty)
  BY DEF Fetch, TrackStatus
<1>2. UNCHANGED <<ctx, nextReq, dctx, byReq, nsByReq, byName, byCtx, live, call, peerTrack, nextPeer, reqId, recvReq,
                  offer, status, unsure, unsaid>>
  BY DEF Fetch, TrackStatus, conVars, handlerVars, mapVars, histVars
<1>3. Agreement /\ ContextHeld /\ Knows /\ UsableIsHeld
  BY DEF PubInv
<1>4. Id \in Ids /\ peerTrack[Id] = None
  BY <1>1, <1>3, PopIs DEF Agreement, Messages, MsgOk
<1>5. peer' = peer \/ peer' = [peer EXCEPT ![Id] = "over"]
  BY <1>4 DEF Fetch, TrackStatus, ResolveFetch, ResolveTrackStatus, TypeOK
<1>6. peer[Id] \notin Held
  BY <1>3, <1>4 DEF Agreement, Requests, Held
<1>7. \A r \in Ids : peer'[r] \in Held <=> peer[r] \in Held
  BY <1>4, <1>5, <1>6 DEF Held, TypeOK
<1>8. Agreement' /\ ContextHeld'
  BY <1>1, <1>2, <1>3, <1>4, <1>5, PopAgreement DEF Agreement, Calling
<1>9. Knows'
  BY <1>1, <1>2, <1>3, <1>7, PopKnows
<1>10. UsableIsHeld'
  BY <1>1, <1>2, <1>3, <1>7, PopUsable
<1> QED
  BY <1>8, <1>9, <1>10 DEF PubInv

LEMMA HandlePublishOk ==
    ASSUME TypeOK, TypeOK', PubInv, PublishOk
    PROVE  PubInv'
<1>1. Receives("PublishOk")
  BY DEF PublishOk
<1>2. UNCHANGED <<ctx, nextReq, dctx, byReq, nsByReq, byName, byCtx, live, call, peer, peerTrack, nextPeer, reqId, recvReq,
                  offer, unsure, unsaid>>
  BY DEF PublishOk, conVars, handlerVars, mapVars, histVars
<1>3. Agreement /\ ContextHeld /\ Knows /\ UsableIsHeld
  BY DEF PubInv
<1>4. /\ ctx = "open" /\ Id \in Ids /\ 1 \in Msgs /\ toClient[1].type = "PublishOk" /\ Id = toClient[1].req
      /\ peerTrack[Id] # None /\ Id \in OwnUsed /\ peer[Id] \in {"pubOk", "over"}
  BY <1>1, <1>3, PopIs DEF Agreement, Messages, MsgOk
<1>5. peerTrack[Id] \notin Announce
  BY <1>3, <1>4, Used, Constants DEF Agreement, Requests
<1>6. byReq[Id] \in {None, peerTrack[Id]}
  BY <1>3, <1>4 DEF Agreement, Maps
<1>7. \A t \in Tracks : status'[t] = IF t = byReq[Id] THEN "kOk" ELSE status[t]
  BY <1>4, Constants DEF PublishOk, TypeOK
<1>8. Agreement' /\ ContextHeld'
  <2>1. call.op = "publish" => call.t \in Announce
    BY <1>3 DEF Agreement, Calling
  <2>2. call.op = "publish" => status'[call.t] = status[call.t]
    BY <1>5, <1>6, <1>7, <2>1, Constants
  <2> QED
    BY <1>1, <1>2, <1>3, <2>1, <2>2, PopAgreement
<1>9. ASSUME NEW t \in byName, reqId[t] = Id, ~Unpublishing(t)
      PROVE  status'[t] \in Subscribed
  <2>1. t \in Tracks /\ reqId[t] # None
    BY <1>4, <1>9, Constants DEF TypeOK
  <2>2. t = peerTrack[Id]
    BY <1>3, <1>4, <1>9, <2>1 DEF Agreement, Handlers
  <2>3. byReq[Id] = t
    BY <1>3, <1>4, <1>5, <1>9, <2>2 DEF Agreement, Maps
  <2> QED
    BY <1>7, <2>1, <2>3 DEF Subscribed
<1>10. Knows'
  <2>1. \A t \in byName : status[t] \in Subscribed => status'[t] \in Subscribed
    BY <1>7 DEF Subscribed, TypeOK
  <2> QED
    BY <1>1, <1>2, <1>3, <1>9, <2>1, PopKnows
<1>11. ASSUME NEW t \in byName, t = byReq[Id]
       PROVE  HeldBy(t)' # {} \/ UnderWay(t, "Unsubscribe")'
  <2>1. t = peerTrack[Id] /\ t # None
    BY <1>6, <1>11, Constants DEF TypeOK
  <2>2. CASE peer[Id] = "pubOk"
    <3>1. Id \in HeldBy(t)
      BY <1>4, <2>1, <2>2 DEF HeldBy
    <3>2. HeldBy(t)' = HeldBy(t)
      BY <1>2 DEF HeldBy
    <3> QED
      BY <3>1, <3>2
  <2>3. CASE peer[Id] # "pubOk"
    <3>1. PICK j \in Msgs : j > 1 /\ toClient[j] = [type |-> "Unsubscribe", req |-> Id]
      BY <1>3, <1>4, <1>11, <2>1, <2>3 DEF Agreement, Messages, Standing
    <3>2. j - 1 \in Msgs' /\ toClient'[j - 1] = toClient[j]
      BY <1>1, <3>1, PopIs
    <3>3. toClient'[j - 1].type = "Unsubscribe" /\ peerTrack'[toClient'[j - 1].req] = t
      BY <1>2, <2>1, <3>1, <3>2
    <3> QED
      BY <3>2, <3>3 DEF UnderWay, Msgs
  <2> QED
    BY <2>2, <2>3
<1>12. UsableIsHeld'
  <2>1. \A t \in byName : t # byReq[Id] => status'[t] = status[t]
    BY <1>7 DEF TypeOK
  <2> QED
    BY <1>1, <1>2, <1>3, <1>11, <2>1, PopUsable
<1> QED
  BY <1>8, <1>10, <1>12 DEF PubInv

LEMMA HandleNamespaceOk ==
    ASSUME TypeOK, TypeOK', PubInv, PublishNamespaceOk
    PROVE  PubInv'
<1>1. Receives("PublishNamespaceOk")
  BY DEF PublishNamespaceOk
<1>2. UNCHANGED <<ctx, nextReq, dctx, byReq, byName, byCtx, live, call, peer, peerTrack, nextPeer, reqId, recvReq, unsaid,
                  offer>>
  BY DEF PublishNamespaceOk
<1>3. Agreement /\ ContextHeld /\ Knows /\ UsableIsHeld
  BY DEF PubInv
<1>4. /\ nsByReq' \subseteq nsByReq /\ unsure \subseteq unsure'
      /\ \A t \in Tracks : \/ status'[t] = status[t]
                           \/ /\ t \in byName /\ status'[t] \in {"kOk", "kNoSubscribers"}
                              /\ status'[t] = "kOk" => status[t] = "kOk"
                              /\ status[t] \in Subscribed => status'[t] = "kOk" \/ t \in unsure'
  <2>1. CASE Id \notin nsByReq
    BY <2>1 DEF PublishNamespaceOk
  <2>2. CASE Id \in nsByReq
    <3>1. /\ nsByReq' = nsByReq \ {Id}
          /\ \A t \in Tracks : status'[t] = IF t \in byName \cap Announce THEN Announced(t) ELSE status[t]
          /\ unsure' = unsure \cup {t \in byName \cap Announce : status[t] \in Subscribed \ {"kOk"}}
      BY <2>2 DEF PublishNamespaceOk
    <3> QED
      BY <3>1 DEF Announced, Subscribed
  <2> QED
    BY <2>1, <2>2
<1>5. Agreement' /\ ContextHeld'
  <2>1. call.op = "publish" => call.t \in Tracks /\ call.t \notin byName
    BY <1>3, Constants DEF Agreement, Calling
  <2>2. call.op = "publish" => status'[call.t] = status[call.t]
    BY <1>4, <2>1
  <2> QED
    BY <1>1, <1>2, <1>3, <1>4, <2>2, PopAgreement
<1>6. \A t \in byName : t \in Tracks
  BY DEF TypeOK
<1>7. Knows'
  <2>1. \A t \in byName : status[t] \in Subscribed => status'[t] \in Subscribed \/ t \in unsure'
    BY <1>4, <1>6 DEF Subscribed
  <2> QED
    BY <1>1, <1>2, <1>3, <1>4, <2>1, PopKnows
<1>8. UsableIsHeld'
  <2>1. \A t \in byName : status'[t] \in Subscribed => status[t] \in Subscribed
    BY <1>4, <1>6 DEF Subscribed
  <2> QED
    BY <1>1, <1>2, <1>3, <1>4, <2>1, PopUsable
<1> QED
  BY <1>5, <1>7, <1>8 DEF PubInv

\* A handler that recv_req_id leads to is that of the request's track.
LEMMA Misleads ==
    ASSUME TypeOK, Agreement, NEW over, Id \in Ids
    PROVE  /\ recvReq[Id] \in {None, peerTrack[Id]} /\ recvReq[Id] \in Tracks \cup {None}
           /\ recvReq[Id] # None /\ (over \/ reqId[recvReq[Id]] # Id) => recvReq[Id] \in Misled(over)
BY DEF Agreement, Maps, TypeOK, Misled

LEMMA HandleUpdate ==
    ASSUME TypeOK, TypeOK', PubInv, SubscribeUpdate
    PROVE  PubInv'
<1>1. PICK ty \in {"Pause", "Resume", "NewGroup"} : Receives(ty)
  BY DEF SubscribeUpdate
<1>2. UNCHANGED <<ctx, nextReq, dctx, byReq, nsByReq, byName, byCtx, live, call, peer, peerTrack, nextPeer, reqId, recvReq,
                  offer, unsaid>>
  BY DEF SubscribeUpdate, conVars, mapVars
<1>3. Agreement /\ ContextHeld /\ Knows /\ UsableIsHeld
  BY DEF PubInv
<1>4. Id \in Ids /\ peerTrack[Id] # None /\ peer[Id] \in {"pubOk", "subOk", "over"}
  BY <1>1, <1>3, PopIs DEF Agreement, Messages, MsgOk
<1>5. unsure' = unsure \cup Misled(peer[Id] = "over")
  BY DEF SubscribeUpdate
<1>6. \A t \in Tracks : status'[t] = status[t] \/ (t = recvReq[Id] /\ t \in byName /\ status'[t] \in Subscribed)
  <2>1. \A s \in Subscribed : SetStatus(recvReq[Id], s) =>
           \A t \in Tracks : status'[t] = status[t] \/ (t = recvReq[Id] /\ t \in byName /\ status'[t] \in Subscribed)
    BY DEF SetStatus, TypeOK
  <2>2. {"kPaused", "kSubscriptionUpdated", "kNewGroupRequested"} \subseteq Subscribed
    BY DEF Subscribed
  <2> QED
    BY <2>1, <2>2 DEF SubscribeUpdate
<1>7. Agreement' /\ ContextHeld'
  <2>1. call.op = "publish" => call.t \in Tracks /\ call.t \notin byName
    BY <1>3, Constants DEF Agreement, Calling
  <2>2. call.op = "publish" => status'[call.t] = status[call.t]
    BY <1>6, <2>1
  <2> QED
    BY <1>1, <1>2, <1>3, <1>5, <2>2, PopAgreement
<1>8. \A t \in byName : t \in Tracks
  BY DEF TypeOK
<1>9. Knows'
  <2>1. \A t \in byName : status[t] \in Subscribed => status'[t] \in Subscribed
    BY <1>6, <1>8
  <2> QED
    BY <1>1, <1>2, <1>3, <1>5, <2>1, PopKnows
<1>10. ASSUME NEW t \in byName, t = recvReq[Id]
       PROVE  HeldBy(t)' # {} \/ t \in unsure'
  <2>1. t = peerTrack[Id] /\ t # None
    BY <1>3, <1>4, <1>8, <1>10, Misleads, Constants
  <2>2. CASE peer[Id] = "over"
    BY <1>3, <1>4, <1>5, <1>10, <2>1, <2>2, Misleads
  <2>3. CASE peer[Id] # "over"
    <3>1. Id \in HeldBy(t)
      BY <1>4, <2>1, <2>3 DEF HeldBy
    <3>2. HeldBy(t)' = HeldBy(t)
      BY <1>2 DEF HeldBy
    <3> QED
      BY <3>1, <3>2
  <2> QED
    BY <2>2, <2>3
<1>11. UsableIsHeld'
  <2>1. \A t \in byName : t = recvReq[Id] \/ status'[t] = status[t]
    BY <1>6, <1>8
  <2> QED
    BY <1>1, <1>2, <1>3, <1>5, <1>10, <2>1, PopUsable
<1> QED
  BY <1>7, <1>9, <1>11 DEF PubInv

LEMMA HandleUnsubscribe ==
    ASSUME TypeOK, TypeOK', PubInv, Unsubscribe
    PROVE  PubInv'
<1>1. Receives("Unsubscribe")
  BY DEF Unsubscribe
<1>2. UNCHANGED <<ctx, nextReq, dctx, byReq, nsByReq, byName, byCtx, live, call, peer, peerTrack, nextPeer, reqId, recvReq,
                  offer, unsaid>>
  BY DEF Unsubscribe, conVars, mapVars
<1>3. Agreement /\ ContextHeld /\ Knows /\ UsableIsHeld
  BY DEF PubInv
<1>4. Id \in Ids /\ peerTrack[Id] # None /\ peer[Id] = "over" /\ recvReq[Id] = peerTrack[Id]
  BY <1>1, <1>3, PopIs DEF Agreement, Messages, MsgOk
<1>5. unsure' = unsure \cup Misled(FALSE)
  BY DEF Unsubscribe
<1>6. \A t \in Tracks : status'[t] = IF t = recvReq[Id] /\ t \in byName THEN "kNoSubscribers" ELSE status[t]
  BY <1>4 DEF Unsubscribe, SetStatus, TypeOK
<1>7. Agreement' /\ ContextHeld'
  <2>1. call.op = "publish" => call.t \in Tracks /\ call.t \notin byName
    BY <1>3, Constants DEF Agreement, Calling
  <2>2. call.op = "publish" => status'[call.t] = status[call.t]
    BY <1>6, <2>1
  <2> QED
    BY <1>1, <1>2, <1>3, <1>5, <2>2, PopAgreement
<1>8. \A t \in byName : t \in Tracks
  BY DEF TypeOK
<1>9. Knows'
  <2>1. \A t \in byName : t = recvReq[Id] => t \in unsure' \/ reqId[t] = Id
    BY <1>3, <1>4, <1>5, <1>8, Misleads, Constants
  <2>2. peer'[Id] \notin Held
    BY <1>2, <1>4 DEF Held
  <2>3. \A t \in byName : t # recvReq[Id] => status'[t] = status[t]
    BY <1>6, <1>8
  <2> QED
    BY <1>1, <1>2, <1>3, <1>5, <2>1, <2>2, <2>3, PopKnows
<1>10. UsableIsHeld'
  <2>1. \A t \in byName : status'[t] \in Subscribed => status[t] \in Subscribed /\ peerTrack[Id] # t
    BY <1>4, <1>6, <1>8 DEF Subscribed
  <2> QED
    BY <1>1, <1>2, <1>3, <1>5, <2>1, PopUsable
<1> QED
  BY <1>7, <1>9, <1>10 DEF PubInv

\* SUBSCRIBE finds a track, or is refused.
LEMMA HandleSubscribe ==
    ASSUME TypeOK, TypeOK', PubInv, Subscribe
    PROVE  PubInv'
<1> DEFINE u == peerTrack[Id]
<1>1. Receives("Subscribe") /\ offer = NoOffer
  BY DEF Subscribe, Receives
<1>2. UNCHANGED <<ctx, nextReq, dctx, byReq, nsByReq, byName, byCtx, live, call, peerTrack, nextPeer, reqId, status, unsure,
                  unsaid>>
  BY DEF Subscribe, conVars, handlerVars, histVars
<1>3. Requests /\ Handlers /\ Calling /\ Maps /\ Messages /\ Told /\ Found /\ ContextHeld /\ Knows /\ UsableIsHeld
  BY DEF PubInv, Agreement
<1>4. /\ Id \in Ids /\ peer[Id] = "sub" /\ 1 \in Msgs /\ toClient[1].type = "Subscribe" /\ Id = toClient[1].req
      /\ ctx = "open"
  BY <1>1, <1>3, PopIs DEF Messages, MsgOk
<1>5. Id \in Theirs /\ u # None
  BY <1>3, <1>4 DEF Requests
<1>6. Id \in TheirsUsed /\ u \in Announce /\ u \in Tracks /\ Id # None
  BY <1>3, <1>4, <1>5, Used, Constants DEF Requests
<1>7. /\ \A r \in Ids : peer'[r] = IF r = Id /\ u \notin byName THEN "over" ELSE peer[r]
      /\ \A r \in Ids : recvReq'[r] = IF r = Id THEN u ELSE recvReq[r]
  BY <1>4, <1>6 DEF Subscribe, TypeOK
<1>8. offer' = IF u \in byName THEN [req |-> Id, t |-> u] ELSE NoOffer
  BY <1>1 DEF Subscribe
<1>9. OwnUsed' = OwnUsed /\ TheirsUsed' = TheirsUsed /\ \A t : Unpublishing(t)' = Unpublishing(t)
  BY <1>2, UsedUnchanged
<1> HIDE DEF u
<1>10. \A r \in Ids : peer'[r] = peer[r] \/ (peer[r] = "sub" /\ peer'[r] = "over")
  BY <1>4, <1>7
<1>11. Requests'
  BY <1>2, <1>3, <1>4, <1>9, <1>10 DEF Requests
<1>12. Handlers'
  <2>1. \A t \in Tracks : reqId[t] # None => reqId[t] \in Ids
    BY DEF TypeOK
  <2>2. \A r \in nsByReq : r \in Ids
    BY DEF TypeOK
  <2> QED
    BY <1>2, <1>3, <1>9, <1>10, <2>1, <2>2 DEF Handlers
<1>13. Calling'
  BY <1>2, <1>3, <1>9 DEF Calling
<1>14. Maps'
  <2>1. \A r \in Ids : recvReq'[r] \in {None, peerTrack[r]}
    BY <1>3, <1>7 DEF Maps, u
  <2>2. \A r \in Ids : peer'[r] \in {"pub", "pubOk", "subOk"} => recvReq'[r] = peerTrack[r]
    BY <1>3, <1>4, <1>7, <1>10 DEF Maps, u
  <2> QED
    BY <1>2, <1>3, <1>9, <2>1, <2>2 DEF Maps
<1>15. \A i \in Msgs : i > 1 => toClient[i] # [type |-> "Subscribe", req |-> Id]
  <2> SUFFICES ASSUME NEW i \in Msgs, i > 1, toClient[i] = [type |-> "Subscribe", req |-> Id] PROVE FALSE
    OBVIOUS
  <2>1. toClient[1] \in Message
    BY <1>4, MessageTypes
  <2>2. toClient[1] = [type |-> "Subscribe", req |-> Id]
    BY <1>4, <2>1 DEF Message
  <2>3. toClient[1].type = "Subscribe" /\ toClient[1] = toClient[i]
    BY <1>4, <2>2
  <2>4. 1 = i
    BY <1>3, <1>4, <2>3 DEF Messages
  <2> QED
    BY <2>4
<1>16. Messages'
  <2>1. ASSUME NEW m \in Message, MsgOk(m), NEW i \in Msgs, i > 1, toClient[i] = m
        PROVE  MsgOk(m)'
    <3>1. m.req \in Ids /\ m = [type |-> m.type, req |-> m.req]
      BY DEF Message
    <3>2. m.type = "Subscribe" => m.req # Id
      BY <1>15, <2>1, <3>1
    <3>3. m.type \in {"PublishOk", "Pause", "Resume", "NewGroup", "Unsubscribe"} => m.req # Id
      BY <1>4, <2>1 DEF MsgOk
    <3> QED
      BY <1>2, <1>7, <1>9, <2>1, <3>1, <3>2, <3>3 DEF MsgOk
  <2>2. \A m \in Message : m.type = "PublishOk" /\ MsgOk(m) /\ Standing(m.req) => Standing(m.req)'
    BY <1>2, <1>4, <1>7 DEF Message, MsgOk, Standing
  <2> QED
    BY <1>1, <1>3, <2>1, <2>2, PopMessages
<1>17. \A t \in Tracks : Ours(t)' = Ours(t) /\ HeldBy(t)' = HeldBy(t)
  BY <1>2, <1>10 DEF Ours, HeldBy
<1>18. Told' /\ Found' /\ ContextHeld'
  BY <1>2, <1>3, <1>9, <1>17 DEF Told, Found, ContextHeld
<1>19. Offered'
  <2>1. CASE u \notin byName
    BY <1>8, <2>1 DEF Offered
  <2>2. CASE u \in byName
    <3>1. offer'.req = Id /\ offer'.t = u
      BY <1>8, <2>2
    <3>2. peer'[Id] = "sub" /\ peerTrack'[Id] = u /\ recvReq'[Id] = u
      BY <1>2, <1>4, <1>7, <2>2 DEF u
    <3>3. \A i \in Msgs' : toClient'[i] # [type |-> "Subscribe", req |-> Id]
      <4> SUFFICES ASSUME NEW i \in Msgs' PROVE toClient'[i] # [type |-> "Subscribe", req |-> Id]
        OBVIOUS
      <4>1. i + 1 \in Msgs /\ toClient'[i] = toClient[i + 1] /\ i + 1 > 1
        BY <1>1, PopIs, MessageTypes
      <4> QED
        BY <1>15, <4>1
    <3> QED
      BY <1>6, <1>9, <3>1, <3>2, <3>3 DEF Offered
  <2> QED
    BY <2>1, <2>2
<1>20. Knows'
  BY <1>1, <1>2, <1>3, <1>10, PopKnows DEF PubInv, Held
<1>21. UsableIsHeld'
  <2>1. \A r \in Ids : peer[r] \in Held => peer'[r] \in Held
    BY <1>10 DEF Held
  <2> QED
    BY <1>1, <1>2, <1>3, <2>1, PopUsable
<1> QED
  BY <1>11, <1>12, <1>13, <1>14, <1>16, <1>18, <1>19, <1>20, <1>21 DEF PubInv, Agreement

\* The SUBSCRIBE that was found is accepted: the request becomes the current one of its
\* track, whatever UnpublishTrack has done meanwhile.
LEMMA SubscribeEndStep ==
    ASSUME TypeOK, TypeOK', PubInv, SubscribeEnd
    PROVE  PubInv'
<1>0. PICK q, u : q = offer.req /\ u = offer.t
  OBVIOUS
<1>1. /\ UNCHANGED <<ctx, nextReq, dctx, byReq, nsByReq, byName, byCtx, recvReq, live, call, peerTrack, nextPeer, toClient>>
      /\ offer # NoOffer /\ offer' = NoOffer
  BY DEF SubscribeEnd, conVars, mapVars
<1>2. Requests /\ Handlers /\ Calling /\ Maps /\ Messages /\ Told /\ Found /\ ContextHeld /\ Knows /\ UsableIsHeld
      /\ Offered
  BY DEF PubInv, Agreement
<1>3. /\ q \in TheirsUsed /\ u \in Announce /\ peer[q] = "sub" /\ peerTrack[q] = u /\ recvReq[q] = u
      /\ \A i \in Msgs : toClient[i] # [type |-> "Subscribe", req |-> q]
  BY <1>0, <1>1, <1>2 DEF Offered
<1>4. q \in Ids /\ q \in Theirs /\ u \in Tracks /\ q # None /\ u # None
  BY <1>3, Used, Constants
<1>5. /\ \A r \in Ids : peer'[r] = IF r = q THEN "subOk" ELSE peer[r]
      /\ \A t \in Tracks : reqId'[t] = IF t = u THEN q ELSE reqId[t]
      /\ \A t \in Tracks : status'[t] = IF t = u THEN "kOk" ELSE status[t]
  BY <1>0, <1>4 DEF SubscribeEnd, ResolveSubscribe, TypeOK
<1>6. /\ u \notin byName \/ Unpublishing(u) => unsaid' = unsaid \cup {q} /\ unsure' = unsure \cup {u}
      /\ ~(u \notin byName \/ Unpublishing(u)) => unsaid' = unsaid /\ unsure' = unsure \ {u}
  BY <1>0 DEF SubscribeEnd, Unpublishing
<1>7. OwnUsed' = OwnUsed /\ TheirsUsed' = TheirsUsed /\ Msgs' = Msgs /\ \A t : Unpublishing(t)' = Unpublishing(t)
  BY <1>1, UsedUnchanged DEF Msgs
<1>8. ctx = "open"
  BY <1>2, <1>3, <1>4 DEF Requests
<1>9. Requests'
  <2>1. \A r \in Ids : peer'[r] \in {"pub", "pubOk"} => peer[r] \in {"pub", "pubOk"}
    BY <1>5
  <2>2. \A r \in Ids : peer'[r] \in {"sub", "subOk"} => peer[r] \in {"sub", "subOk"}
    BY <1>3, <1>5
  <2> QED
    BY <1>1, <1>2, <1>7, <1>8, <2>1, <2>2 DEF Requests
<1>10. \A t \in Tracks : reqId[t] # q
  BY <1>2, <1>3, <1>4 DEF Handlers
<1>11. Handlers'
  <2>1. \A s, t \in Tracks : reqId'[s] = reqId'[t] /\ reqId'[s] # None => s = t
    BY <1>2, <1>5, <1>10 DEF Handlers
  <2>2. \A t \in Tracks : reqId'[t] \in OwnUsed \cup TheirsUsed \cup {None}
    BY <1>2, <1>3, <1>5 DEF Handlers
  <2>3. \A t \in Tracks : reqId[t] # None => reqId[t] \in Ids
    BY DEF TypeOK
  <2>4. \A t \in Tracks : reqId'[t] # None => peerTrack[reqId'[t]] \in {None, t} /\ peer'[reqId'[t]] # "sub"
    BY <1>2, <1>3, <1>4, <1>5, <2>3 DEF Handlers
  <2>5. \A r \in nsByReq : peer'[r] # "sub" /\ r \in OwnUsed \cup TheirsUsed
    BY <1>2, <1>5 DEF Handlers, TypeOK
  <2>6. \A t \in Tracks : dctx[t] \in OwnUsed \cup {None}
    BY <1>2 DEF Handlers
  <2> QED
    BY <1>1, <1>7, <2>1, <2>2, <2>4, <2>5, <2>6 DEF Handlers
<1>12. Calling'
  <2>1. call.op = "publish" => /\ call.t \in Announce \ byName
                               /\ nextReq - 1 \in OwnUsed /\ \A v \in Tracks : dctx[v] # nextReq - 1
    BY <1>2 DEF Calling
  <2>2. call.op = "unpublish" => call.t \in Tracks /\ dctx[call.t] = None
    BY <1>2 DEF Calling
  <2>3. ASSUME call.op = "publish"
        PROVE  call.t \in unsure' \/ (status'[call.t] \notin Subscribed /\ reqId'[call.t] \in Own \cup {None})
    <3>1. call.t \in Tracks /\ call.t \notin byName
      BY <2>1, <2>3, Constants
    <3>2. CASE call.t = u
      BY <1>6, <3>1, <3>2
    <3>3. CASE call.t # u
      <4>1. status'[call.t] = status[call.t] /\ reqId'[call.t] = reqId[call.t]
        BY <1>5, <3>1, <3>3
      <4>2. call.t \in unsure => call.t \in unsure'
        BY <1>6, <3>3
      <4> QED
        BY <1>2, <2>3, <4>1, <4>2 DEF Calling
    <3> QED
      BY <3>2, <3>3
  <2> QED
    BY <1>1, <1>7, <2>1, <2>2, <2>3 DEF Calling
<1>13. Maps'
  <2>1. \A r \in Ids : peer'[r] \in {"pub", "pubOk", "subOk"} => recvReq[r] = peerTrack[r]
    BY <1>2, <1>3, <1>5, <1>8 DEF Maps
  <2>2. \A t \in byName \ Announce : reqId'[t] = reqId[t]
    BY <1>3, <1>5 DEF TypeOK
  <2> QED
    BY <1>1, <1>2, <1>7, <2>1, <2>2 DEF Maps
<1>14. Messages'
  <2>1. ASSUME NEW m \in Message, MsgOk(m), NEW i \in Msgs, toClient[i] = m
        PROVE  MsgOk(m)'
    <3>1. m.req \in Ids /\ m = [type |-> m.type, req |-> m.req]
      BY DEF Message
    <3>2. m.type = "Subscribe" => m.req # q
      BY <1>3, <2>1, <3>1
    <3>3. m.type \in {"PublishOk", "Pause", "Resume", "NewGroup", "Unsubscribe"} => m.req # q
      BY <1>3, <2>1 DEF MsgOk
    <3> QED
      BY <1>1, <1>5, <1>7, <2>1, <3>1, <3>2, <3>3 DEF MsgOk
  <2>2. \A m \in Message : m.type = "PublishOk" /\ MsgOk(m) /\ Standing(m.req) => Standing(m.req)'
    BY <1>1, <1>3, <1>5 DEF Message, MsgOk, Standing
  <2> QED
    BY <1>1, <1>2, <2>1, <2>2, KeepMessages
<1>15. \A t \in Tracks : t # u => Ours(t)' = Ours(t)
  BY <1>1, <1>3, <1>5 DEF Ours
<1>16. Ours(u) = {}
  <2> SUFFICES ASSUME NEW r \in Ours(u) PROVE FALSE
    OBVIOUS
  <2>1. r \in Ids /\ peerTrack[r] = u /\ peer[r] \in {"pub", "pubOk", "subOk"}
    BY DEF Ours
  <2>2. r \notin OwnUsed
    BY <1>2, <1>3, <1>4, <2>1, Used, Constants DEF Requests
  <2>3. peer[r] = "subOk"
    BY <1>2, <1>3, <1>4, <2>1, <2>2, Used, Constants DEF Requests
  <2> QED
    BY <1>2, <1>3, <1>4, <2>1, <2>3 DEF Requests
<1>17. Ours(u)' \subseteq {q}
  BY <1>1, <1>5, <1>16 DEF Ours
<1>18. Told'
  <2> SUFFICES ASSUME NEW t \in Tracks
               PROVE  /\ Ours(t)' \ unsaid' \subseteq {reqId'[t]}
                      /\ t \notin byName \/ Unpublishing(t) => Ours(t)' \subseteq unsaid'
    BY <1>1, <1>7 DEF Told
  <2>1. unsaid \subseteq unsaid'
    BY <1>6
  <2>2. CASE t # u
    BY <1>2, <1>5, <1>8, <1>15, <2>1, <2>2 DEF Told
  <2>3. CASE t = u
    BY <1>4, <1>5, <1>6, <1>17, <2>3
  <2> QED
    BY <2>2, <2>3
<1>19. Found'
  <2>1. q \notin nsByReq
    BY <1>2, <1>3 DEF Handlers
  <2>2. \A t \in Announce : reqId'[t] \in nsByReq => reqId[t] \in nsByReq
    BY <1>5, <2>1, Constants
  <2> QED
    BY <1>1, <1>2, <1>7, <2>2 DEF Found
<1>20. ContextHeld' /\ Offered'
  BY <1>1, <1>2 DEF ContextHeld, Offered
<1>21. Knows'
  <2> SUFFICES ASSUME NEW t \in byName, reqId'[t] # None, peer'[reqId'[t]] \in {"subOk", "pubOk"},
                      \A i \in Msgs : toClient[i] # [type |-> "PublishOk", req |-> reqId'[t]],
                      t \notin unsure', ~Unpublishing(t)
               PROVE  status'[t] \in Subscribed
    BY <1>1, <1>7 DEF Knows
  <2>1. t \in Tracks
    BY DEF TypeOK
  <2>2. CASE t = u
    BY <1>5, <2>1, <2>2 DEF Subscribed
  <2>3. CASE t # u
    <3>1. reqId'[t] = reqId[t] /\ status'[t] = status[t] /\ t \notin unsure
      BY <1>5, <1>6, <2>1, <2>3
    <3>2. reqId[t] \in Ids /\ reqId[t] # q
      BY <1>10, <2>1, <3>1 DEF TypeOK
    <3> QED
      BY <1>2, <1>5, <3>1, <3>2 DEF Knows
  <2> QED
    BY <2>2, <2>3
<1>22. UsableIsHeld'
  <2> SUFFICES ASSUME NEW t \in byName, status'[t] \in Subscribed
               PROVE  HeldBy(t)' # {} \/ t \in unsure' \/ UnderWay(t, "Unsubscribe")
    BY <1>1 DEF UsableIsHeld, UnderWay
  <2>1. t \in Tracks
    BY DEF TypeOK
  <2>2. CASE t = u
    <3>1. q \in HeldBy(t)'
      BY <1>1, <1>3, <1>4, <1>5, <2>2 DEF HeldBy
    <3> QED
      BY <3>1
  <2>3. CASE t # u
    <3>1. status'[t] = status[t] /\ HeldBy(t) \subseteq HeldBy(t)'
      BY <1>1, <1>3, <1>5, <2>1, <2>3 DEF HeldBy
    <3>2. t \in unsure => t \in unsure'
      BY <1>6, <2>3
    <3> QED
      BY <1>2, <3>1, <3>2 DEF UsableIsHeld
  <2> QED
    BY <2>2, <2>3
<1> QED
  BY <1>9, <1>11, <1>12, <1>13, <1>14, <1>18, <1>19, <1>20, <1>21, <1>22 DEF PubInv, Agreement

-----------------------------------------------------------------------------
(* The server. *)

\* It answers, updates, or takes back.
LEMMA PeerKeeps ==
    ASSUME TypeOK, TypeOK', PubInv, NEW ty \in MsgType, NEW r \in Ids, NEW x, Sends(ty, r), PeerOnly,
           UNCHANGED <<peerTrack, nextPeer>>, peer' = [peer EXCEPT ![r] = x],
           \/ peer[r] \in Held /\ x = peer[r] /\ ty \in {"Pause", "Resume", "NewGroup"}
           \/ peer[r] \in Held /\ x = "over" /\ ty = "Unsubscribe"
           \/ peer[r] = "pub" /\ x = "pubOk" /\ ty = "PublishOk"
           \/ /\ peer[r] \in {"pub", "ns", "fetch"} /\ x \in {"over", "nsOk"}
              /\ ty \in {"PublishNamespaceOk", "PublishNamespaceError", "PublishError", "FetchCancel"}
    PROVE  PubInv'
<1>1. /\ Requests /\ Handlers /\ Calling /\ Maps /\ Messages /\ Told /\ Found /\ Offered
      /\ ContextHeld /\ Knows /\ UsableIsHeld
  BY DEF PubInv, Agreement
<1>2. UNCHANGED <<ctx, nextReq, dctx, byReq, nsByReq, byName, byCtx, live, call, peerTrack, nextPeer, reqId, recvReq,
                  offer, status, unsure, unsaid>>
  BY DEF PeerOnly, conVars, handlerVars, mapVars, histVars
<1>3. OwnUsed' = OwnUsed /\ TheirsUsed' = TheirsUsed /\ \A t : Unpublishing(t)' = Unpublishing(t)
  BY <1>2, UsedUnchanged
<1>4. \A s \in Ids : peer'[s] = IF s = r THEN x ELSE peer[s]
  BY DEF TypeOK
<1>5. ctx = "open"
  BY AppendIs
<1>6. Requests'
  <2>1. \A s \in Ids : peer'[s] \in {"pub", "pubOk"} => peer[s] \in {"pub", "pubOk"}
    BY <1>4 DEF Held
  <2>2. \A s \in Ids : peer'[s] \in {"sub", "subOk"} => peer[s] \in {"sub", "subOk"}
    BY <1>4 DEF Held
  <2> QED
    BY <1>1, <1>2, <1>3, <1>5, <2>1, <2>2 DEF Requests
<1>7. Handlers' /\ Calling'
  <2>1. \A s \in Ids : peer'[s] = "sub" => peer[s] = "sub"
    BY <1>4 DEF Held
  <2>2. (\A t \in Tracks : reqId[t] # None => reqId[t] \in Ids) /\ \A s \in nsByReq : s \in Ids
    BY DEF TypeOK
  <2>3. Handlers'
    BY <1>1, <1>2, <1>3, <2>1, <2>2 DEF Handlers
  <2> QED
    BY <1>1, <1>2, <1>3, <2>3 DEF Calling
<1>14. Offered'
  <2>1. \A s \in TheirsUsed : peer[s] = "sub" => peer'[s] = "sub"
    BY <1>4, Used, Constants DEF Held
  <2>2. ty # "Subscribe"
    OBVIOUS
  <2>3. ASSUME NEW i \in Msgs'
        PROVE  (\E j \in Msgs : toClient[j] = toClient'[i]) \/ toClient'[i].type # "Subscribe"
    <3>1. (i \in Msgs /\ toClient'[i] = toClient[i]) \/ toClient'[i] = [type |-> ty, req |-> r]
      BY AppendIs
    <3> QED
      BY <2>2, <3>1
  <2> QED
    BY <1>1, <1>2, <1>3, <2>1, <2>3, KeepOffered
<1>8. Maps'
  <2>1. \A s \in Ids : peer'[s] \in {"pub", "pubOk", "subOk"} => peer[s] \in {"pub", "pubOk", "subOk"}
    BY <1>4 DEF Held
  <2> QED
    BY <1>1, <1>2, <1>3, <2>1 DEF Maps
<1>9. Messages'
  <2>1. \A m \in Message : MsgOk(m) => MsgOk(m)'
    BY <1>2, <1>3, <1>4 DEF MsgOk, Message, Held
  <2>2. peer[r] \in {"pub", "pubOk", "subOk"} => peerTrack[r] # None /\ recvReq[r] = peerTrack[r]
    BY <1>1, <1>5 DEF Requests, Maps
  <2>3. peer[r] = "pub" => r \in OwnUsed
    BY <1>1, Used, Constants DEF Requests
  <2>4. \A m \in Message : m = [type |-> ty, req |-> r] => MsgOk(m)'
    BY <1>2, <1>3, <1>4, <2>2, <2>3 DEF MsgOk, Held
  <2>5. \A m \in Message : m.type = "PublishOk" /\ MsgOk(m) /\ Standing(m.req) =>
           Standing(m.req)' \/ (ty = "Unsubscribe" /\ m.req = r)
    BY <1>2, <1>4 DEF Message, MsgOk, Standing, Held
  <2>6. ty = "PublishOk" => Standing(r)'
    BY <1>4 DEF Standing
  <2> QED
    BY <1>1, <2>1, <2>4, <2>5, <2>6, SendMessages
<1>10. Told'
  <2>1. \A t \in Tracks : Ours(t)' \subseteq Ours(t)
    BY <1>2, <1>4 DEF Ours, Held
  <2> QED
    BY <1>1, <1>2, <1>3, <2>1 DEF Told
<1>11. Found' /\ ContextHeld'
  BY <1>1, <1>2, <1>3 DEF Found, ContextHeld
<1>12. Knows'
  <2> SUFFICES ASSUME NEW t \in byName, reqId[t] # None, peer'[reqId[t]] \in {"subOk", "pubOk"},
                      \A i \in Msgs' : toClient'[i] # [type |-> "PublishOk", req |-> reqId[t]],
                      t \notin unsure, ~Unpublishing(t)
               PROVE  status[t] \in Subscribed
    BY <1>2, <1>3 DEF Knows
  <2>1. reqId[t] \in Ids
    BY DEF TypeOK
  <2>2. ~(ty = "PublishOk" /\ r = reqId[t])
    BY AppendIs
  <2>3. peer[reqId[t]] \in {"subOk", "pubOk"}
    BY <1>4, <2>1, <2>2 DEF Held
  <2>4. \A i \in Msgs : toClient[i] # [type |-> "PublishOk", req |-> reqId[t]]
    BY AppendIs
  <2> QED
    BY <1>1, <2>3, <2>4 DEF Knows
<1>13. UsableIsHeld'
  <2> SUFFICES ASSUME NEW t \in byName, status[t] \in Subscribed
               PROVE  HeldBy(t)' # {} \/ t \in unsure \/ UnderWay(t, "Unsubscribe")'
    BY <1>2 DEF UsableIsHeld, HeldBy, UnderWay
  <2>1. CASE ty = "Unsubscribe" /\ peerTrack[r] = t
    <3>1. PICK i \in Msgs' : toClient'[i] = [type |-> ty, req |-> r]
      BY AppendIs
    <3>2. toClient'[i].type = "Unsubscribe" /\ peerTrack'[toClient'[i].req] = t
      BY <1>2, <2>1, <3>1
    <3> QED
      BY <3>2 DEF UnderWay, Msgs
  <2>2. CASE ~(ty = "Unsubscribe" /\ peerTrack[r] = t)
    <3>1. HeldBy(t) \subseteq HeldBy(t)'
      BY <1>2, <1>4, <2>2 DEF HeldBy, Held
    <3>2. ASSUME UnderWay(t, "Unsubscribe") PROVE UnderWay(t, "Unsubscribe")'
      <4>1. PICK i \in Msgs : toClient[i].type = "Unsubscribe" /\ peerTrack[toClient[i].req] = t
        BY <3>2 DEF UnderWay, Msgs
      <4>2. \E j \in Msgs' : toClient'[j].type = "Unsubscribe" /\ peerTrack'[toClient'[j].req] = t
        BY <1>2, <4>1, AppendIs
      <4> QED
        BY <4>2 DEF UnderWay, Msgs
    <3> QED
      BY <1>1, <3>1, <3>2 DEF UsableIsHeld
  <2> QED
    BY <2>1, <2>2
<1> QED
  BY <1>6, <1>7, <1>8, <1>9, <1>10, <1>11, <1>12, <1>13, <1>14 DEF PubInv, Agreement

\* It asks with a request id of its own.
LEMMA PeerAsks ==
    ASSUME TypeOK, TypeOK', PubInv, PeerFetches \/ \E t \in Tracks : PeerSubscribes(t)
    PROVE  PubInv'
<1> DEFINE r == nextPeer
<1>1. /\ Requests /\ Handlers /\ Calling /\ Maps /\ Messages /\ Told /\ Found /\ Offered
      /\ ContextHeld /\ Knows /\ UsableIsHeld
  BY DEF PubInv, Agreement
<1>2. UNCHANGED <<ctx, nextReq, dctx, byReq, nsByReq, byName, byCtx, live, call, reqId, recvReq, status, unsure, unsaid,
                  offer>>
      /\ nextPeer' = nextPeer + 1 /\ r \in Theirs
  BY DEF PeerFetches, PeerSubscribes, PeerOnly, conVars, handlerVars, mapVars, histVars
<1>3. r \in Ids /\ r \notin TheirsUsed /\ r \notin OwnUsed /\ peerTrack[r] = None
  BY <1>1, <1>2, Used, Constants DEF Requests
<1>4. OwnUsed' = OwnUsed /\ TheirsUsed' = TheirsUsed \cup {r} /\ \A t : Unpublishing(t)' = Unpublishing(t)
  <2>1. TheirsUsed' = TheirsUsed \cup {r}
    BY <1>2, Constants DEF TheirsUsed, TypeOK
  <2> QED
    BY <1>2, <2>1, UsedUnchanged
<1>5. peer[r] \notin {"pub", "pubOk", "sub", "subOk"}
  BY <1>1, <1>3 DEF Requests
<1>6. PICK ty \in {"Fetch", "TrackStatus", "Subscribe"}, x \in {"fetch", "status", "sub"}, y \in Announce \cup {None} :
        /\ Sends(ty, r) /\ peer' = [peer EXCEPT ![r] = x] /\ (peerTrack' = [peerTrack EXCEPT ![r] = y])
        /\ ty = "Subscribe" <=> x = "sub"
        /\ y # None <=> x = "sub"
        /\ y # None => \A s \in Theirs : ~(peerTrack[s] = y /\ peer[s] \in {"sub", "subOk"})
  <2>1. CASE PeerFetches
    <3>1. PICK ty \in {"Fetch", "TrackStatus"} :
            Sends(ty, r) /\ peer' = [peer EXCEPT ![r] = IF ty = "Fetch" THEN "fetch" ELSE "status"]
      BY <2>1 DEF PeerFetches
    <3>2. peerTrack' = [peerTrack EXCEPT ![r] = None]
      BY <1>3, <2>1 DEF PeerFetches, TypeOK
    <3> QED
      BY <3>1, <3>2
  <2>2. ASSUME NEW t \in Tracks, PeerSubscribes(t)
        PROVE  /\ t \in Announce /\ t # None /\ Sends("Subscribe", r) /\ peer' = [peer EXCEPT ![r] = "sub"]
               /\ peerTrack' = [peerTrack EXCEPT ![r] = t]
               /\ \A s \in Theirs : ~(peerTrack[s] = t /\ peer[s] \in {"sub", "subOk"})
    BY <2>2, Constants DEF PeerSubscribes
  <2> QED
    BY <2>1, <2>2
<1>7. /\ \A s \in Ids : peer'[s] = IF s = r THEN x ELSE peer[s]
      /\ \A s \in Ids : peerTrack'[s] = IF s = r THEN y ELSE peerTrack[s]
  BY <1>6 DEF TypeOK
<1>8. ty \in MsgType /\ Sends(ty, r) /\ ctx = "open"
  BY <1>3, <1>6, AppendIs DEF MsgType
<1> HIDE DEF r
<1>9. Requests'
  <2>1. \A s \in Ids : peerTrack'[s] # None =>
          \/ s \in OwnUsed' /\ peerTrack'[s] \notin Announce
          \/ s \in TheirsUsed' /\ peerTrack'[s] \in Announce
    BY <1>1, <1>4, <1>7 DEF Requests
  <2>2. \A s \in Ids : peer'[s] \in {"pub", "pubOk"} => s \in Own /\ peerTrack'[s] # None
    BY <1>1, <1>3, <1>6, <1>7 DEF Requests
  <2>3. \A s \in Ids : peer'[s] \in {"sub", "subOk"} => s \in Theirs /\ peerTrack'[s] # None
    BY <1>1, <1>2, <1>6, <1>7 DEF Requests
  <2>4. ASSUME NEW s \in Ids, NEW u \in Ids, peer'[s] \in {"sub", "subOk"}, peer'[u] \in {"sub", "subOk"},
               peerTrack'[s] = peerTrack'[u]
        PROVE  s = u
    <3>1. CASE s # r /\ u # r
      BY <1>1, <1>7, <2>4, <3>1 DEF Requests
    <3>2. ASSUME NEW v \in Ids, v # r, peer'[v] \in {"sub", "subOk"}, x = "sub" PROVE peerTrack'[v] # y
      <4>1. v \in Theirs /\ peer[v] \in {"sub", "subOk"} /\ peerTrack'[v] = peerTrack[v]
        BY <1>1, <1>7, <3>2 DEF Requests
      <4> QED
        BY <1>6, <3>2, <4>1
    <3> QED
      BY <1>6, <1>7, <2>4, <3>1, <3>2
  <2> QED
    BY <1>2, <1>8, <2>1, <2>2, <2>3, <2>4 DEF Requests
<1>10. \A t \in Tracks : reqId[t] # r
  BY <1>1, <1>3, Constants DEF Handlers
<1>11. Handlers' /\ Calling'
  <2>1. \A t \in Tracks : reqId[t] # None => reqId[t] \in Ids /\ peer'[reqId[t]] = peer[reqId[t]]
    BY <1>7, <1>10 DEF TypeOK
  <2>2. \A s \in nsByReq : s \in Ids /\ peer'[s] = peer[s]
    BY <1>1, <1>3, <1>7 DEF TypeOK, Handlers
  <2>3. Handlers'
    BY <1>1, <1>2, <1>4, <1>7, <1>10, <2>1, <2>2 DEF Handlers
  <2> QED
    BY <1>1, <1>2, <1>4, <2>3 DEF Calling
<1>18. Offered'
  <2>1. \A s \in TheirsUsed : peer'[s] = peer[s] /\ peerTrack'[s] = peerTrack[s]
    BY <1>3, <1>7, Used, Constants
  <2>2. ASSUME NEW i \in Msgs'
        PROVE  (\E j \in Msgs : toClient[j] = toClient'[i]) \/ toClient'[i].req \notin TheirsUsed
    <3>1. (i \in Msgs /\ toClient'[i] = toClient[i]) \/ toClient'[i] = [type |-> ty, req |-> r]
      BY <1>3, <1>8, AppendIs
    <3> QED
      BY <1>3, <3>1
  <2> QED
    BY <1>1, <1>2, <1>4, <2>1, <2>2, KeepOffered
<1>12. Maps'
  <2>1. byReq[r] = None /\ recvReq[r] = None
    BY <1>1, <1>3 DEF Maps
  <2>2. \A t \in byName \ Announce : reqId[t] # r
    BY <1>10 DEF TypeOK
  <2>3. \A s \in Ids : peer'[s] \in {"pub", "pubOk", "subOk"} => s # r
    BY <1>6, <1>7
  <2> QED
    BY <1>1, <1>2, <1>4, <1>7, <2>1, <2>2, <2>3 DEF Maps
<1>13. Messages'
  <2>1. \A m \in Message : MsgOk(m) => MsgOk(m)'
    BY <1>2, <1>3, <1>4, <1>5, <1>7 DEF MsgOk, Message
  <2>2. \A m \in Message : m = [type |-> ty, req |-> r] => MsgOk(m)'
    BY <1>3, <1>4, <1>6, <1>7 DEF MsgOk
  <2>3. \A m \in Message : m.type = "PublishOk" /\ MsgOk(m) /\ Standing(m.req) => Standing(m.req)'
    BY <1>2, <1>3, <1>7 DEF Message, MsgOk, Standing
  <2>4. \A i \in Msgs : toClient[i] # [type |-> "Subscribe", req |-> r]
    BY <1>1, <1>5 DEF Messages, MsgOk
  <2> QED
    BY <1>1, <1>3, <1>6, <1>8, <2>1, <2>2, <2>3, <2>4, SendMessages
<1>14. \A t \in Tracks : Ours(t)' = Ours(t) /\ HeldBy(t)' = HeldBy(t)
  BY <1>5, <1>6, <1>7 DEF Ours, HeldBy
<1>15. Told' /\ Found' /\ ContextHeld'
  BY <1>1, <1>2, <1>4, <1>14 DEF Told, Found, ContextHeld
<1>16. Knows'
  <2> SUFFICES ASSUME NEW t \in byName, reqId[t] # None, peer'[reqId[t]] \in {"subOk", "pubOk"},
                      \A i \in Msgs' : toClient'[i] # [type |-> "PublishOk", req |-> reqId[t]],
                      t \notin unsure, ~Unpublishing(t)
               PROVE  status[t] \in Subscribed
    BY <1>2, <1>4 DEF Knows
  <2>1. reqId[t] \in Ids /\ reqId[t] # r
    BY <1>10 DEF TypeOK
  <2>2. \A i \in Msgs : toClient[i] # [type |-> "PublishOk", req |-> reqId[t]]
    BY <1>3, <1>8, AppendIs
  <2> QED
    BY <1>1, <1>7, <2>1, <2>2 DEF Knows
<1>17. UsableIsHeld'
  <2> SUFFICES ASSUME NEW t \in byName, UnderWay(t, "Unsubscribe")
               PROVE  UnderWay(t, "Unsubscribe")'
    <3>1. \A t \in byName : t \in Tracks
      BY DEF TypeOK
    <3> QED
      BY <1>1, <1>2, <1>14, <3>1 DEF UsableIsHeld
  <2>1. PICK i \in Msgs : toClient[i].type = "Unsubscribe" /\ peerTrack[toClient[i].req] = t
    BY DEF UnderWay, Msgs
  <2>2. i \in Msgs' /\ toClient'[i] = toClient[i] /\ toClient[i].req \in Ids
    BY <1>3, <1>8, AppendIs, MessageTypes
  <2>3. toClient[i].req # r
    BY <1>3, <2>1, Constants DEF TypeOK
  <2>4. toClient'[i].type = "Unsubscribe" /\ peerTrack'[toClient'[i].req] = t
    BY <1>7, <2>1, <2>2, <2>3
  <2> QED
    BY <2>2, <2>4 DEF UnderWay, Msgs
<1> QED
  BY <1>9, <1>11, <1>12, <1>13, <1>15, <1>16, <1>17, <1>18 DEF PubInv, Agreement

LEMMA PeerStep ==
    ASSUME TypeOK, TypeOK', PubInv, Peer
    PROVE  PubInv'
<1>1. ASSUME NEW r \in Own, NEW ok \in BOOLEAN, PeerAnswers(r, ok)
      PROVE  PubInv'
  <2>1. r \in Ids
    BY Constants
  <2>2. PeerOnly /\ UNCHANGED <<peerTrack, nextPeer>>
    BY <1>1 DEF PeerAnswers
  <2>3. CASE peer[r] = "ns"
    <3>1. PICK ty \in {"PublishNamespaceOk", "PublishNamespaceError"}, x \in {"over", "nsOk"} :
            Sends(ty, r) /\ peer' = [peer EXCEPT ![r] = x]
      BY <1>1, <2>3 DEF PeerAnswers
    <3> QED
      BY <2>1, <2>2, <2>3, <3>1, PeerKeeps DEF MsgType
  <2>4. CASE peer[r] = "pub" /\ ok
    <3>1. Sends("PublishOk", r) /\ peer' = [peer EXCEPT ![r] = "pubOk"]
      BY <1>1, <2>4 DEF PeerAnswers
    <3> QED
      BY <2>1, <2>2, <2>4, <3>1, PeerKeeps DEF MsgType
  <2>5. CASE peer[r] = "pub" /\ ~ok
    <3>1. Sends("PublishError", r) /\ peer' = [peer EXCEPT ![r] = "over"]
      BY <1>1, <2>5 DEF PeerAnswers
    <3> QED
      BY <2>1, <2>2, <2>5, <3>1, PeerKeeps DEF MsgType
  <2> QED
    BY <1>1, <2>3, <2>4, <2>5 DEF PeerAnswers
<1>2. ASSUME NEW r \in Ids, PeerCancels(r)
      PROVE  PubInv'
  <2>1. /\ peer[r] = "fetch" /\ Sends("FetchCancel", r) /\ peer' = [peer EXCEPT ![r] = "over"] /\ PeerOnly
        /\ UNCHANGED <<peerTrack, nextPeer>>
    BY <1>2 DEF PeerCancels
  <2> QED
    BY <2>1, PeerKeeps DEF MsgType
<1>3. ASSUME NEW r \in Ids, NEW u \in {"Pause", "Resume", "NewGroup", "Unsubscribe"}, PeerUpdates(r, u)
      PROVE  PubInv'
  <2>1. peer[r] \in Held /\ Sends(u, r) /\ PeerOnly /\ UNCHANGED <<peerTrack, nextPeer>> /\ u \in MsgType
    BY <1>3 DEF PeerUpdates, Held, MsgType
  <2>2. CASE u = "Unsubscribe"
    <3>1. peer' = [peer EXCEPT ![r] = "over"]
      BY <1>3, <2>2 DEF PeerUpdates
    <3> QED
      BY <2>1, <2>2, <3>1, PeerKeeps
  <2>3. CASE u # "Unsubscribe"
    <3>1. peer' = [peer EXCEPT ![r] = peer[r]]
      BY <1>3, <2>3 DEF PeerUpdates, TypeOK
    <3> QED
      BY <2>1, <2>3, <3>1, PeerKeeps
  <2> QED
    BY <2>2, <2>3
<1> QED
  BY <1>1, <1>2, <1>3, PeerAsks DEF Peer

-----------------------------------------------------------------------------
(* The API. *)

\* Whatever the branch: a new request id, which no map and no message knows.
LEMMA PublishTrackIs ==
    ASSUME TypeOK, PubInv, NEW t \in Tracks, PublishTrack(t)
    PROVE  LET r == nextReq IN
           /\ r \in Own /\ r \in Ids /\ r \notin OwnUsed /\ r \notin TheirsUsed /\ r # None
           /\ OwnUsed' = OwnUsed \cup {r} /\ TheirsUsed' = TheirsUsed
           /\ peerTrack[r] = None /\ byReq[r] = None /\ recvReq[r] = None
           /\ peer[r] \notin {"pub", "pubOk", "sub", "subOk"}
           /\ \A u \in Tracks : dctx[u] # r /\ reqId[u] # r
           /\ call = Idle /\ t \notin byName
           /\ UNCHANGED <<ctx, toClient, nsByReq, nextPeer, unsaid, offer>> /\ unsure \subseteq unsure'
           /\ \A u \in Tracks : reqId'[u] = IF u = t THEN r ELSE reqId[u]
           /\ \A u \in Tracks : u # t => status'[u] = status[u]
           /\ status'[t] \notin Subscribed \/ t \in unsure'
           /\ \A s \in Ids : s # r => /\ peer'[s] = peer[s] /\ peerTrack'[s] = peerTrack[s]
                                      /\ recvReq'[s] = recvReq[s] /\ byReq'[s] = byReq[s]
           /\ peerTrack'[r] = (IF t \in Announce THEN None ELSE t) /\ recvReq'[r] = peerTrack'[r]
           /\ \/ peer'[r] = peer[r]
              \/ ctx = "open" /\ peer'[r] = "ns"
              \/ ctx = "open" /\ peer'[r] = "pub" /\ t \notin Announce
           /\ byReq'[r] \in {None, t} /\ (t \notin Announce => byReq'[r] = t)
           /\ \/ /\ byName' = byName /\ call' = [op |-> "publish", t |-> t] /\ t \in Announce
                 /\ status'[t] \notin Subscribed /\ UNCHANGED <<dctx, live, byCtx>>
              \/ byName' = byName \cup {t} /\ call' = Idle /\ Published(t, r, r)
<1> DEFINE r == nextReq
<1>1. Requests /\ Handlers /\ Maps
  BY DEF PubInv, Agreement
<1>2. r \in Own /\ r \in Ids /\ r \notin OwnUsed /\ r \notin TheirsUsed /\ r # None
  BY Used, Constants DEF PublishTrack
<1>3. OwnUsed' = OwnUsed \cup {r} /\ TheirsUsed' = TheirsUsed
  <2>1. nextReq' = nextReq + 1 /\ UNCHANGED nextPeer /\ nextReq \in Nat
    BY Used DEF PublishTrack
  <2> QED
    BY <2>1 DEF OwnUsed, TheirsUsed
<1>4. peerTrack[r] = None /\ byReq[r] = None /\ recvReq[r] = None
  BY <1>1, <1>2 DEF Requests, Maps
<1>5. peer[r] \notin {"pub", "pubOk", "sub", "subOk"}
  BY <1>1, <1>2, <1>4 DEF Requests
<1>6. \A u \in Tracks : dctx[u] # r /\ reqId[u] # r
  BY <1>1, <1>2 DEF Handlers
<1>7. /\ call = Idle /\ t \notin byName
      /\ UNCHANGED <<ctx, toClient, nextPeer, unsaid, offer>>
      /\ \A u \in Tracks : reqId'[u] = IF u = t THEN r ELSE reqId[u]
  BY DEF PublishTrack, TypeOK
<1>8. CASE t \in Announce /\ byName \cap Announce = {}
  <2>1. /\ status' = [status EXCEPT ![t] = "kPendingAnnounceResponse"]
        /\ call' = [op |-> "publish", t |-> t]
        /\ UNCHANGED <<dctx, byReq, nsByReq, byName, byCtx, recvReq, live, peer, peerTrack, unsure>>
    BY <1>8 DEF PublishTrack, mapVars
  <2>2. /\ \A u \in Tracks : u # t => status'[u] = status[u]
        /\ status'[t] \notin Subscribed
    BY <2>1 DEF TypeOK, Subscribed
  <2> QED
    BY <1>2, <1>3, <1>4, <1>5, <1>6, <1>7, <1>8, <2>1, <2>2
<1>9. CASE t \in Announce /\ byName \cap Announce # {}
  <2>1. PICK b \in byName \cap Announce : status' = [status EXCEPT ![t] = status[b]]
    BY <1>9 DEF PublishTrack
  <2>2. /\ unsure' = unsure \cup {t} /\ peer' = SendPublishNamespace(peer, r) /\ Published(t, r, r)
        /\ UNCHANGED <<nsByReq, recvReq, call, peerTrack>>
    BY <1>9 DEF PublishTrack
  <2>3. \A u \in Tracks : u # t => status'[u] = status[u]
    BY <2>1 DEF TypeOK
  <2>4. \A s \in Ids : peer'[s] = IF s = r /\ ctx = "open" THEN "ns" ELSE peer[s]
    BY <1>2, <2>2 DEF SendPublishNamespace, TypeOK
  <2>5. \A s \in Ids : byReq'[s] = IF s = r THEN t ELSE byReq[s]
    BY <2>2 DEF Published, TypeOK
  <2>6. byName' = byName \cup {t}
    BY <2>2 DEF Published
  <2> QED
    BY <1>2, <1>3, <1>4, <1>5, <1>6, <1>7, <1>9, <2>2, <2>3, <2>4, <2>5, <2>6
<1>10. CASE t \notin Announce
  <2>1. /\ status' = [status EXCEPT ![t] = "kPendingPublishOk"]
        /\ recvReq' = [recvReq EXCEPT ![r] = t]
        /\ peer' = SendPublish(peer, r)
        /\ peerTrack' = [peerTrack EXCEPT ![r] = t]
        /\ Published(t, r, r)
        /\ UNCHANGED <<nsByReq, call, unsure>>
    BY <1>10 DEF PublishTrack
  <2>2. /\ \A u \in Tracks : u # t => status'[u] = status[u]
        /\ status'[t] \notin Subscribed
    BY <2>1 DEF TypeOK, Subscribed
  <2>3. \A s \in Ids : peer'[s] = IF s = r /\ ctx = "open" THEN "pub" ELSE peer[s]
    BY <2>1 DEF SendPublish, TypeOK
  <2>4. \A s \in Ids : byReq'[s] = IF s = r THEN t ELSE byReq[s]
    BY <2>1 DEF Published, TypeOK
  <2>5. \A s \in Ids : /\ peerTrack'[s] = IF s = r THEN t ELSE peerTrack[s]
                       /\ recvReq'[s] = IF s = r THEN t ELSE recvReq[s]
    BY <2>1 DEF TypeOK
  <2>6. byName' = byName \cup {t}
    BY <2>1 DEF Published
  <2> QED
    BY <1>2, <1>3, <1>4, <1>5, <1>6, <1>7, <1>10, <2>1, <2>2, <2>3, <2>4, <2>5, <2>6
<1> QED
  BY <1>8, <1>9, <1>10

LEMMA PublishTrackStep ==
    ASSUME TypeOK, TypeOK', PubInv, NEW t \in Tracks, PublishTrack(t)
    PROVE  PubInv'
<1>0. PICK r : r = nextReq
  OBVIOUS
<1>1. /\ Requests /\ Handlers /\ Calling /\ Maps /\ Messages /\ Told /\ Found /\ Offered
      /\ ContextHeld /\ Knows /\ UsableIsHeld
  BY DEF PubInv, Agreement
<1>2. /\ r \in Own /\ r \in Ids /\ r \notin OwnUsed /\ r \notin TheirsUsed /\ r # None
      /\ OwnUsed' = OwnUsed \cup {r} /\ TheirsUsed' = TheirsUsed
      /\ peerTrack[r] = None /\ byReq[r] = None /\ recvReq[r] = None
      /\ peer[r] \notin {"pub", "pubOk", "sub", "subOk"}
      /\ \A u \in Tracks : dctx[u] # r /\ reqId[u] # r
  BY <1>0, PublishTrackIs
<1>3. /\ call = Idle /\ t \notin byName
      /\ UNCHANGED <<ctx, toClient, nsByReq, nextPeer, unsaid, offer>> /\ unsure \subseteq unsure'
      /\ \A u \in Tracks : reqId'[u] = IF u = t THEN r ELSE reqId[u]
      /\ \A u \in Tracks : u # t => status'[u] = status[u]
      /\ status'[t] \notin Subscribed \/ t \in unsure'
  BY <1>0, PublishTrackIs
<1>4. /\ \A s \in Ids : s # r => /\ peer'[s] = peer[s] /\ peerTrack'[s] = peerTrack[s]
                                 /\ recvReq'[s] = recvReq[s] /\ byReq'[s] = byReq[s]
      /\ peerTrack'[r] = (IF t \in Announce THEN None ELSE t) /\ recvReq'[r] = peerTrack'[r]
      /\ \/ peer'[r] = peer[r]
         \/ ctx = "open" /\ peer'[r] = "ns"
         \/ ctx = "open" /\ peer'[r] = "pub" /\ t \notin Announce
      /\ byReq'[r] \in {None, t} /\ (t \notin Announce => byReq'[r] = t)
  BY <1>0, PublishTrackIs
<1>5. \/ /\ byName' = byName /\ call' = [op |-> "publish", t |-> t] /\ t \in Announce
         /\ status'[t] \notin Subscribed /\ UNCHANGED <<dctx, live, byCtx>>
      \/ byName' = byName \cup {t} /\ call' = Idle /\ Published(t, r, r)
  BY <1>0, PublishTrackIs
<1>6. \A u : ~Unpublishing(u) /\ ~Unpublishing(u)'
  BY <1>3, <1>5 DEF Unpublishing, Idle
<1>7. \A u \in byName : u \in Tracks /\ u # t
  BY <1>3 DEF TypeOK
<1>8. Requests'
  <2>1. \A s \in Ids : peerTrack'[s] # None =>
          \/ s \in OwnUsed' /\ peerTrack'[s] \notin Announce
          \/ s \in TheirsUsed' /\ peerTrack'[s] \in Announce
    BY <1>1, <1>2, <1>4 DEF Requests
  <2>2. \A s \in Ids : peer'[s] \in {"pub", "pubOk"} => s \in Own /\ peerTrack'[s] # None
    BY <1>1, <1>2, <1>4, Constants DEF Requests
  <2>3. \A s \in Ids : peer'[s] \in {"sub", "subOk"} => s # r
    BY <1>2, <1>4
  <2>4. ctx' # "open" => toClient' = <<>> /\ \A s \in Ids : peer'[s] \in {"none", "over"}
    BY <1>1, <1>2, <1>3, <1>4 DEF Requests
  <2> QED
    BY <1>1, <1>4, <2>1, <2>2, <2>3, <2>4 DEF Requests
<1>9. \A u \in Tracks : dctx'[u] \in OwnUsed' \cup {None} /\ (u # t => dctx'[u] = dctx[u])
  BY <1>1, <1>2, <1>5 DEF Handlers, Published, TypeOK
<1>10. Handlers'
  <2>1. \A u \in Tracks : reqId[u] # None => reqId[u] \in Ids
    BY DEF TypeOK
  <2>2. \A u \in Tracks : reqId'[u] # None => peerTrack'[reqId'[u]] \in {None, u} /\ peer'[reqId'[u]] # "sub"
    BY <1>1, <1>2, <1>3, <1>4, <2>1 DEF Handlers
  <2>3. \A u \in Tracks : reqId'[u] \in OwnUsed' \cup TheirsUsed' \cup {None}
    BY <1>1, <1>2, <1>3 DEF Handlers
  <2>4. \A u, v \in Tracks : reqId'[u] = reqId'[v] /\ reqId'[u] # None => u = v
    BY <1>1, <1>2, <1>3 DEF Handlers
  <2>5. nsByReq' \subseteq OwnUsed' \cup TheirsUsed'
    BY <1>1, <1>2, <1>3 DEF Handlers
  <2>6. \A s \in nsByReq : s \in Ids /\ s # r
    BY <1>1, <1>2 DEF Handlers, TypeOK
  <2>7. \A s \in nsByReq' : peer'[s] # "sub"
    BY <1>1, <1>3, <1>4, <2>6 DEF Handlers
  <2> QED
    BY <1>9, <2>2, <2>3, <2>4, <2>5, <2>7 DEF Handlers
<1>19. Offered'
  <2>1. \A s \in TheirsUsed : s \in Ids /\ s # r
    BY <1>2, Used, Constants
  <2>2. \A i \in Msgs' : \E j \in Msgs : toClient[j] = toClient'[i]
    BY <1>3 DEF Msgs
  <2> QED
    BY <1>1, <1>2, <1>3, <1>4, <2>1, <2>2, KeepOffered
<1>11. Calling'
  <2>1. CASE call' = Idle
    BY <2>1 DEF Calling, Idle
  <2>2. CASE /\ byName' = byName /\ call' = [op |-> "publish", t |-> t] /\ t \in Announce
             /\ status'[t] \notin Subscribed /\ UNCHANGED <<dctx, live, byCtx>>
    <3>1. call'.op = "publish" /\ call'.t = t
      BY <2>2
    <3>2. nextReq' - 1 = r
      BY <1>0, Used DEF PublishTrack
    <3>3. r \in OwnUsed' /\ (\A u \in Tracks : dctx'[u] # r) /\ t \in Announce \ byName'
      BY <1>2, <1>3, <2>2
    <3>4. status'[t] \notin Subscribed /\ reqId'[t] \in Own
      BY <1>2, <1>3, <2>2
    <3> QED
      BY <3>1, <3>2, <3>3, <3>4 DEF Calling
  <2> QED
    BY <1>5, <2>1, <2>2
<1>12. Maps'
  <2>1. \A s \in Ids : byReq'[s] # None => s \in OwnUsed' \cup TheirsUsed'
    BY <1>1, <1>2, <1>4 DEF Maps
  <2>2. \A s \in Ids : byReq'[s] # None /\ peerTrack'[s] # None => byReq'[s] = peerTrack'[s]
    BY <1>1, <1>4 DEF Maps
  <2>3. ASSUME ctx = "open", NEW u \in byName' \ Announce
        PROVE  reqId'[u] # None /\ byReq'[reqId'[u]] = u
    <3>1. CASE u = t
      BY <1>2, <1>3, <1>4, <2>3, <3>1
    <3>2. CASE u # t
      <4>1. u \in byName /\ u \in Tracks
        BY <1>5, <1>7, <2>3, <3>2
      <4>2. reqId[u] # None /\ byReq[reqId[u]] = u /\ reqId[u] \in Ids
        BY <1>1, <1>6, <2>3, <4>1 DEF Maps, TypeOK
      <4> QED
        BY <1>2, <1>3, <1>4, <3>2, <4>1, <4>2
    <3> QED
      BY <3>1, <3>2
  <2>4. \A s \in Ids : recvReq'[s] \in {None, peerTrack'[s]}
    BY <1>1, <1>4 DEF Maps
  <2>5. ctx = "open" => \A s \in Ids : peer'[s] \in {"pub", "pubOk", "subOk"} => recvReq'[s] = peerTrack'[s]
    BY <1>1, <1>4 DEF Maps
  <2> QED
    BY <1>3, <2>1, <2>2, <2>3, <2>4, <2>5 DEF Maps
<1>13. Messages'
  <2>1. \A m \in Message : MsgOk(m) => MsgOk(m)'
    BY <1>2, <1>4 DEF MsgOk, Message
  <2>2. \A m \in Message : m.type = "PublishOk" /\ MsgOk(m) /\ Standing(m.req) => Standing(m.req)'
    BY <1>2, <1>4 DEF Message, MsgOk, Standing
  <2> QED
    BY <1>1, <1>3, <2>1, <2>2, KeepMessages
<1>14. Told'
  <2>1. \A u \in Tracks : u # t => Ours(u)' = Ours(u)
    BY <1>2, <1>4, Constants, ZenonT(40) DEF Ours
  <2>2. Ours(t)' \subseteq Ours(t) \cup (IF t \in Announce THEN {} ELSE {r})
    BY <1>2, <1>4, Constants DEF Ours
  <2> SUFFICES ASSUME ctx = "open", NEW u \in Tracks
               PROVE  /\ Ours(u)' \ unsaid \subseteq {reqId'[u]}
                      /\ u \notin byName' => Ours(u)' \subseteq unsaid
    BY <1>3, <1>6 DEF Told
  <2>3. CASE u # t
    BY <1>1, <1>3, <1>5, <2>1, <2>3 DEF Told
  <2>4. CASE u = t
    <3>1. Ours(t) \subseteq unsaid
      BY <1>1, <1>3 DEF Told
    <3>2. t \notin byName' => t \in Announce
      BY <1>5
    <3> QED
      BY <1>3, <2>2, <2>4, <3>1, <3>2
  <2> QED
    BY <2>3, <2>4
<1>15. Found'
  <2>1. \A u \in Announce : reqId'[u] \in nsByReq => u # t /\ reqId[u] \in nsByReq
    BY <1>1, <1>2, <1>3, Constants DEF Handlers
  <2>2. byName \subseteq byName'
    BY <1>5
  <2> QED
    BY <1>1, <1>3, <1>6, <2>1, <2>2 DEF Found
<1>16. ContextHeld'
  <2> SUFFICES ASSUME NEW u \in byName', ctx = "open"
               PROVE  dctx'[u] \in live' /\ byCtx'[dctx'[u]] = u
    BY <1>3 DEF ContextHeld
  <2>1. CASE u = t
    <3>1. Published(t, r, r)
      BY <1>3, <1>5, <2>1
    <3> QED
      BY <1>2, <2>1, <3>1 DEF Published, TypeOK
  <2>2. CASE u # t
    <3>1. u \in byName /\ u \in Tracks
      BY <1>5, <1>7, <2>2
    <3>2. dctx[u] \in live /\ byCtx[dctx[u]] = u
      BY <1>1, <1>6, <3>1 DEF ContextHeld, Unpublishing
    <3>3. dctx'[u] = dctx[u] /\ dctx[u] # r /\ dctx[u] \in Own
      BY <1>2, <1>9, <2>2, <3>1, <3>2 DEF TypeOK
    <3> QED
      BY <1>5, <3>2, <3>3 DEF Published, TypeOK
  <2> QED
    BY <2>1, <2>2
<1>17. Knows'
  <2> SUFFICES ASSUME NEW u \in byName', reqId'[u] # None, peer'[reqId'[u]] \in {"subOk", "pubOk"},
                      \A i \in Msgs' : toClient'[i] # [type |-> "PublishOk", req |-> reqId'[u]],
                      u \notin unsure'
               PROVE  status'[u] \in Subscribed
    BY DEF Knows
  <2>1. u # t
    BY <1>2, <1>3, <1>4
  <2>2. u \in byName /\ u \in Tracks
    BY <1>5, <1>7, <2>1
  <2>3. reqId'[u] = reqId[u] /\ reqId[u] \in Ids /\ reqId[u] # r /\ status'[u] = status[u] /\ u \notin unsure
    BY <1>2, <1>3, <2>1, <2>2 DEF TypeOK
  <2>4. Msgs' = Msgs
    BY <1>3 DEF Msgs
  <2> QED
    BY <1>1, <1>3, <1>4, <1>6, <2>2, <2>3, <2>4 DEF Knows
<1>18. UsableIsHeld'
  <2> SUFFICES ASSUME NEW u \in byName', status'[u] \in Subscribed
               PROVE  HeldBy(u)' # {} \/ u \in unsure' \/ UnderWay(u, "Unsubscribe")'
    BY DEF UsableIsHeld
  <2>1. CASE u = t
    BY <1>3, <2>1
  <2>2. CASE u # t
    <3>1. u \in byName /\ u \in Tracks /\ status[u] \in Subscribed /\ u # None
      BY <1>3, <1>5, <1>7, <2>2, Constants
    <3>2. HeldBy(u) \subseteq HeldBy(u)'
      BY <1>2, <1>4 DEF HeldBy
    <3>3. ASSUME UnderWay(u, "Unsubscribe") PROVE UnderWay(u, "Unsubscribe")'
      <4>1. PICK i \in Msgs : toClient[i].type = "Unsubscribe" /\ peerTrack[toClient[i].req] = u
        BY <3>3 DEF UnderWay, Msgs
      <4>2. toClient[i].req \in Ids /\ toClient[i].req # r
        BY <1>2, <3>1, <4>1, MessageTypes
      <4> QED
        BY <1>3, <1>4, <4>1, <4>2 DEF UnderWay, Msgs
    <3> QED
      BY <1>1, <1>3, <3>1, <3>2, <3>3 DEF UsableIsHeld
  <2> QED
    BY <2>1, <2>2
<1> QED
  BY <1>8, <1>10, <1>11, <1>12, <1>13, <1>14, <1>15, <1>16, <1>17, <1>18, <1>19 DEF PubInv, Agreement

LEMMA PublishEndStep ==
    ASSUME TypeOK, TypeOK', PubInv, PublishEnd
    PROVE  PubInv'
<1>0. PICK t, r, c : t = call.t /\ r = reqId[t] /\ c = nextReq - 1
  OBVIOUS
<1>1. /\ Requests /\ Handlers /\ Calling /\ Maps /\ Messages /\ Told /\ Found /\ Offered
      /\ ContextHeld /\ Knows /\ UsableIsHeld
  BY DEF PubInv, Agreement
<1>2. /\ call' = Idle /\ call.op = "publish"
      /\ UNCHANGED <<ctx, nextReq, status, reqId, recvReq, peerTrack, nextPeer, toClient, unsure, unsaid,
                     offer>>
  BY DEF PublishEnd, histVars, mapVars
<1>3. /\ t \in Announce /\ t \in Tracks /\ t \notin byName
      /\ t \in unsure \/ (status[t] \notin Subscribed /\ r \in Own \cup {None})
      /\ c \in OwnUsed /\ c \in Own /\ \A u \in Tracks : dctx[u] # c
  BY <1>0, <1>1, <1>2, Constants, Used DEF Calling
<1>4. OwnUsed' = OwnUsed /\ TheirsUsed' = TheirsUsed
  BY <1>2, UsedUnchanged
<1>5. \A u : ~Unpublishing(u) /\ ~Unpublishing(u)'
  BY <1>2 DEF Unpublishing, Idle
<1>6. Calling' /\ Msgs' = Msgs
  BY <1>2 DEF Calling, Idle, Msgs
<1>7. CASE ctx = "none" \/ r = None
  <2>1. UNCHANGED <<dctx, byReq, nsByReq, byName, byCtx, live, peer>>
    BY <1>0, <1>7 DEF PublishEnd, mapVars
  <2>2. Requests' /\ Handlers' /\ Maps'
    BY <1>1, <1>2, <1>4, <1>5, <2>1 DEF Requests, Handlers, Maps
  <2>7. Offered'
    BY <1>1, <1>2, <1>4, <1>6, <2>1 DEF Offered
  <2>3. Messages'
    <3>1. \A m \in Message : MsgOk(m) => MsgOk(m)'
      BY <1>2, <1>4, <2>1 DEF MsgOk
    <3>2. \A m \in Message : Standing(m.req) => Standing(m.req)'
      BY <2>1 DEF Standing
    <3> QED
      BY <1>1, <1>2, <3>1, <3>2, KeepMessages
  <2>4. Told' /\ Found'
    BY <1>1, <1>2, <1>5, <2>1 DEF Told, Found, Ours
  <2>5. ContextHeld'
    BY <1>1, <1>2, <1>5, <2>1 DEF ContextHeld, Unpublishing
  <2>6. Knows' /\ UsableIsHeld'
    BY <1>1, <1>2, <1>5, <1>6, <2>1 DEF Knows, UsableIsHeld, HeldBy, UnderWay
  <2> QED
    BY <1>6, <2>2, <2>3, <2>4, <2>5, <2>6, <2>7 DEF PubInv, Agreement
<1>8. CASE ~(ctx = "none" \/ r = None)
  <2>1. /\ peer' = SendPublishNamespace(peer, r) /\ nsByReq' = nsByReq \cup {r} /\ Published(t, r, c)
    BY <1>0, <1>8 DEF PublishEnd
  <2>2. r \in OwnUsed \cup TheirsUsed /\ r \in Ids /\ r # None /\ peer[r] # "sub"
    BY <1>0, <1>1, <1>3, <1>8, Used, Constants DEF Handlers
  <2>3. peerTrack[r] \in {None, t} /\ (r \in Own => peerTrack[r] = None)
    <3>1. peerTrack[r] \in {None, t}
      BY <1>0, <1>1, <1>3, <1>8 DEF Handlers
    <3>2. r \in Own /\ peerTrack[r] # None => peerTrack[r] \notin Announce
      BY <1>1, <2>2, Used, Constants DEF Requests
    <3> QED
      BY <1>3, <3>1, <3>2
  <2>4. r \in Own => peer[r] \notin {"pub", "pubOk", "sub", "subOk"}
    BY <1>1, <2>2, <2>3 DEF Requests
  <2>5. \A s \in Ids : peer'[s] = IF s = r /\ r \in Own /\ ctx = "open" THEN "ns" ELSE peer[s]
    BY <2>1 DEF SendPublishNamespace, TypeOK
  <2>6. /\ \A s \in Ids : byReq'[s] = IF s = r THEN t ELSE byReq[s]
        /\ \A u \in Tracks : dctx'[u] = IF u = t THEN c ELSE dctx[u]
        /\ \A s \in Own : byCtx'[s] = IF s = c THEN t ELSE byCtx[s]
        /\ byName' = byName \cup {t} /\ live' = live \cup {c}
    BY <2>1 DEF Published, TypeOK
  <2>7. Requests'
    BY <1>1, <1>2, <1>4, <2>4, <2>5 DEF Requests
  <2>8. Handlers'
    <3>1. \A u \in Tracks : dctx'[u] \in OwnUsed \cup {None}
      BY <1>1, <1>3, <2>6 DEF Handlers
    <3>2. \A s \in Ids : peer[s] # "sub" => peer'[s] # "sub"
      BY <2>5
    <3>3. \A u \in Tracks : reqId[u] # None => reqId[u] \in Ids
      BY DEF TypeOK
    <3>4. \A s \in nsByReq' : s \in Ids /\ s \in OwnUsed \cup TheirsUsed /\ peer[s] # "sub"
      BY <1>1, <2>1, <2>2 DEF Handlers, TypeOK
    <3> QED
      BY <1>1, <1>2, <1>4, <3>1, <3>2, <3>3, <3>4 DEF Handlers
  <2>17. Offered'
    <3>1. \A s \in TheirsUsed : peer[s] = "sub" => peer'[s] = "sub"
      BY <2>4, <2>5, Used, Constants
    <3> QED
      BY <1>1, <1>2, <1>4, <1>6, <3>1, KeepOffered
  <2>9. Maps'
    <3>1. \A s \in Ids : byReq'[s] # None => s \in OwnUsed' \cup TheirsUsed'
      BY <1>1, <1>4, <2>2, <2>6 DEF Maps
    <3>2. \A s \in Ids : byReq'[s] # None /\ peerTrack[s] # None => byReq'[s] = peerTrack[s]
      BY <1>1, <2>3, <2>6 DEF Maps
    <3>3. ASSUME ctx = "open", NEW u \in byName' \ Announce
          PROVE  reqId[u] # None /\ byReq'[reqId[u]] = u
      <4>1. u \in byName /\ u # t /\ u \in Tracks
        BY <1>3, <2>6, <3>3 DEF TypeOK
      <4>2. reqId[u] # None /\ byReq[reqId[u]] = u /\ reqId[u] \in Ids
        BY <1>1, <1>5, <3>3, <4>1 DEF Maps, TypeOK
      <4>3. reqId[u] # r
        BY <1>0, <1>1, <1>3, <4>1, <4>2 DEF Handlers
      <4> QED
        BY <2>6, <4>2, <4>3
    <3>4. \A s \in Ids : peer'[s] \in {"pub", "pubOk", "subOk"} => peer[s] \in {"pub", "pubOk", "subOk"}
      BY <2>5
    <3> QED
      BY <1>1, <1>2, <3>1, <3>2, <3>3, <3>4 DEF Maps
  <2>10. Messages'
    <3>1. \A m \in Message : MsgOk(m) => MsgOk(m)'
      BY <1>2, <1>4, <2>3, <2>4, <2>5 DEF MsgOk, Message
    <3>2. \A m \in Message : m.type = "PublishOk" /\ MsgOk(m) /\ Standing(m.req) => Standing(m.req)'
      <4> SUFFICES ASSUME NEW m \in Message, m.type = "PublishOk", MsgOk(m), Standing(m.req) PROVE Standing(m.req)'
        OBVIOUS
      <4>1. m.req \in Own /\ m.req \in Ids /\ peerTrack[m.req] # None
        BY Used, Constants DEF MsgOk, Message
      <4>2. m.req # r
        BY <2>3, <4>1
      <4> QED
        BY <2>5, <2>6, <4>1, <4>2 DEF Standing
    <3> QED
      BY <1>1, <1>2, <3>1, <3>2, KeepMessages
  <2>11. \A u \in Tracks : Ours(u)' = Ours(u) /\ HeldBy(u)' = HeldBy(u)
    BY <1>2, <2>4, <2>5 DEF Ours, HeldBy
  <2>12. Told'
    BY <1>1, <1>2, <1>5, <2>6, <2>11 DEF Told
  <2>13. Found'
    <3>1. ASSUME NEW u \in Announce, reqId[u] \in nsByReq \cup {r}, ctx = "open"
          PROVE  u \in byName'
      <4>1. CASE reqId[u] = r
        <5>1. u = t
          BY <1>0, <1>1, <1>3, <1>8, <3>1, <4>1, Constants DEF Handlers
        <5> QED
          BY <2>6, <5>1
      <4> QED
        BY <1>1, <2>6, <3>1, <4>1 DEF Found
    <3> QED
      BY <1>2, <1>5, <2>1, <3>1 DEF Found
  <2>14. ContextHeld'
    <3> SUFFICES ASSUME NEW u \in byName', ctx = "open"
                 PROVE  dctx'[u] \in live' /\ byCtx'[dctx'[u]] = u
      BY <1>2 DEF ContextHeld
    <3>1. CASE u = t
      BY <1>3, <2>6, <3>1
    <3>2. CASE u # t
      <4>1. u \in byName /\ u \in Tracks
        BY <2>6, <3>2 DEF TypeOK
      <4>2. dctx[u] \in live /\ byCtx[dctx[u]] = u /\ dctx[u] \in Own
        BY <1>1, <1>5, <4>1 DEF ContextHeld, Unpublishing, TypeOK
      <4> QED
        BY <1>3, <2>6, <3>2, <4>1, <4>2
    <3> QED
      BY <3>1, <3>2
  <2>15. Knows'
    <3> SUFFICES ASSUME NEW u \in byName', reqId[u] # None, peer'[reqId[u]] \in {"subOk", "pubOk"},
                        \A i \in Msgs : toClient[i] # [type |-> "PublishOk", req |-> reqId[u]],
                        u \notin unsure
                 PROVE  status[u] \in Subscribed
      BY <1>2, <1>6 DEF Knows
    <3>1. u \in Tracks /\ reqId[u] \in Ids
      BY <1>3, <2>6 DEF TypeOK
    <3>2. peer[reqId[u]] \in {"subOk", "pubOk"}
      BY <2>5, <3>1
    <3>3. u # t
      <4>1. CASE r \in Own
        BY <1>0, <2>4, <3>2, <4>1
      <4>2. CASE r \notin Own
        BY <1>3, <2>2, <4>2
      <4> QED
        BY <4>1, <4>2
    <3> QED
      BY <1>1, <1>5, <2>6, <3>2, <3>3 DEF Knows
  <2>16. UsableIsHeld'
    <3>1. \A u \in byName' : u \in Tracks /\ (status[u] \in Subscribed => u \in byName \/ u \in unsure)
      BY <1>3, <2>6 DEF TypeOK
    <3>2. \A u : UnderWay(u, "Unsubscribe")' = UnderWay(u, "Unsubscribe")
      BY <1>2 DEF UnderWay
    <3> QED
      BY <1>1, <1>2, <2>11, <3>1, <3>2 DEF UsableIsHeld
  <2> QED
    BY <1>6, <2>7, <2>8, <2>9, <2>10, <2>12, <2>13, <2>14, <2>15, <2>16, <2>17 DEF PubInv, Agreement
<1> QED
  BY <1>7, <1>8

LEMMA UnpublishTrackStep ==
    ASSUME TypeOK, TypeOK', PubInv, NEW t \in Tracks, UnpublishTrack(t)
    PROVE  PubInv'
<1>0. PICK r : r = reqId[t]
  OBVIOUS
<1>1. /\ Requests /\ Handlers /\ Calling /\ Maps /\ Messages /\ Told /\ Found /\ Offered
      /\ ContextHeld /\ Knows /\ UsableIsHeld
  BY DEF PubInv, Agreement
<1>2. /\ call = Idle /\ call' = [op |-> "unpublish", t |-> t] /\ t \in byName /\ r # None /\ r \in Ids
      /\ UNCHANGED <<ctx, nextReq, reqId, byName, byCtx, recvReq, live, peerTrack, nextPeer, toClient, unsure, offer>>
  BY <1>0 DEF UnpublishTrack, conVars, TypeOK
<1>3. OwnUsed' = OwnUsed /\ TheirsUsed' = TheirsUsed /\ Msgs' = Msgs
  BY <1>2, UsedUnchanged DEF Msgs
<1>4. \A u : ~Unpublishing(u) /\ (Unpublishing(u)' <=> u = t)
  BY <1>2 DEF Unpublishing, Idle
<1>5. /\ \A s \in Ids : byReq'[s] = IF s = r THEN None ELSE byReq[s]
      /\ nsByReq' = nsByReq \ {r}
      /\ \A u \in Tracks : dctx'[u] = IF u = t THEN None ELSE dctx[u]
      /\ \A u \in Tracks : status'[u] = IF u = t THEN "kNotAnnounced" ELSE status[u]
  BY <1>0 DEF UnpublishTrack, Forget, TypeOK
<1>6. \A s \in Ids : \/ peer'[s] = peer[s]
                     \/ s = r /\ peer[s] \in {"pub", "pubOk", "subOk"} /\ peer'[s] = "over"
  BY <1>0 DEF UnpublishTrack, SendPublishDone, TypeOK
<1>7. peerTrack[r] \in {None, t} /\ \A u \in Tracks : reqId[u] = r => u = t
  BY <1>0, <1>1, <1>2 DEF Handlers
<1>8. Requests'
  BY <1>1, <1>2, <1>3, <1>6 DEF Requests
<1>9. Handlers'
  <2>1. \A s \in Ids : peer'[s] = "sub" => peer[s] = "sub"
    BY <1>6
  <2>2. (\A u \in Tracks : reqId[u] # None => reqId[u] \in Ids) /\ \A s \in nsByReq : s \in Ids
    BY DEF TypeOK
  <2> QED
    BY <1>1, <1>2, <1>3, <1>5, <2>1, <2>2 DEF Handlers
<1>18. Offered'
  <2>1. \A s \in TheirsUsed : peer[s] = "sub" => peer'[s] = "sub"
    BY <1>6, Used, Constants
  <2> QED
    BY <1>1, <1>2, <1>3, <2>1, KeepOffered
<1>10. Calling'
  <2>1. call'.op = "unpublish" /\ call'.t = t
    BY <1>2
  <2> QED
    BY <1>5, <2>1 DEF Calling
<1>11. Maps'
  <2>1. \A u \in byName \ Announce : u # t => reqId[u] # r /\ reqId[u] \in Ids \cup {None}
    BY <1>7 DEF TypeOK
  <2>2. \A s \in Ids : peer'[s] \in {"pub", "pubOk", "subOk"} => peer[s] \in {"pub", "pubOk", "subOk"}
    BY <1>6
  <2>3. ctx = "open" => \A u \in byName \ Announce : u # t => reqId[u] # None /\ byReq'[reqId[u]] = u
    BY <1>1, <1>4, <1>5, <2>1 DEF Maps
  <2>4. \A s \in Ids : byReq'[s] # None => byReq'[s] = byReq[s]
    BY <1>5
  <2> QED
    BY <1>1, <1>2, <1>3, <1>4, <2>2, <2>3, <2>4 DEF Maps
<1>12. Messages'
  <2>1. \A m \in Message : MsgOk(m) => MsgOk(m)'
    BY <1>2, <1>3, <1>6 DEF MsgOk, Message
  <2>2. \A m \in Message : m.type = "PublishOk" /\ MsgOk(m) /\ Standing(m.req) => Standing(m.req)'
    BY <1>5, <1>6 DEF Message, MsgOk, Standing
  <2> QED
    BY <1>1, <1>2, <2>1, <2>2, KeepMessages
<1>13. Told'
  <2> SUFFICES ASSUME ctx = "open", NEW u \in Tracks
               PROVE  /\ Ours(u)' \ unsaid' \subseteq {reqId[u]}
                      /\ u \notin byName \/ u = t => Ours(u)' \subseteq unsaid'
    BY <1>2, <1>4 DEF Told
  <2>1. Ours(u)' \subseteq Ours(u) /\ unsaid \subseteq unsaid'
    BY <1>2, <1>6 DEF Ours, UnpublishTrack
  <2>2. Ours(t)' \subseteq unsaid'
    <3>1. CASE status[t] = "kOk"
      <4>1. peer' = SendPublishDone(peer, r)
        BY <1>0, <3>1 DEF UnpublishTrack
      <4>2. peer'[r] \notin {"pub", "pubOk", "subOk"}
        BY <1>2, <4>1 DEF SendPublishDone, TypeOK
      <4>3. r \notin Ours(t)'
        BY <4>2 DEF Ours
      <4>4. Ours(t) \ unsaid \subseteq {r}
        BY <1>0, <1>1 DEF Told
      <4>5. Ours(t)' \subseteq Ours(t)
        BY <1>2, <1>6 DEF Ours
      <4> QED
        BY <2>1, <4>3, <4>4, <4>5
    <3>2. CASE status[t] # "kOk"
      <4>1. Ours(t)' \subseteq {s \in Ids : peerTrack[s] = t /\ peer[s] \in {"pub", "pubOk", "subOk"}}
        BY <1>2, <1>6 DEF Ours
      <4> QED
        BY <3>2, <4>1 DEF UnpublishTrack
    <3> QED
      BY <3>1, <3>2
  <2> QED
    BY <1>1, <2>1, <2>2 DEF Told
<1>14. Found'
  BY <1>0, <1>1, <1>2, <1>4, <1>5 DEF Found
<1>15. ContextHeld'
  <2> SUFFICES ASSUME NEW u \in byName, ctx = "open", u # t
               PROVE  dctx'[u] \in live /\ byCtx[dctx'[u]] = u
    BY <1>2 DEF ContextHeld
  <2>1. u \in Tracks
    BY DEF TypeOK
  <2> QED
    BY <1>1, <1>4, <1>5, <2>1 DEF ContextHeld, Unpublishing
<1>16. Knows'
  <2> SUFFICES ASSUME NEW u \in byName, reqId[u] # None, peer'[reqId[u]] \in {"subOk", "pubOk"},
                      \A i \in Msgs : toClient[i] # [type |-> "PublishOk", req |-> reqId[u]],
                      u \notin unsure, u # t
               PROVE  status'[u] \in Subscribed
    BY <1>2, <1>3, <1>4 DEF Knows
  <2>1. u \in Tracks /\ reqId[u] \in Ids
    BY DEF TypeOK
  <2>2. peer[reqId[u]] \in {"subOk", "pubOk"}
    BY <1>6, <2>1
  <2> QED
    BY <1>1, <1>4, <1>5, <2>1, <2>2 DEF Knows
<1>17. UsableIsHeld'
  <2> SUFFICES ASSUME NEW u \in byName, status'[u] \in Subscribed
               PROVE  HeldBy(u)' # {} \/ u \in unsure \/ UnderWay(u, "Unsubscribe")
    BY <1>2 DEF UsableIsHeld, UnderWay
  <2>1. u # t /\ u \in Tracks
    BY <1>5 DEF TypeOK, Subscribed
  <2>2. HeldBy(u) \subseteq HeldBy(u)'
    BY <1>2, <1>6, <1>7, <2>1, Constants DEF HeldBy
  <2> QED
    BY <1>1, <1>5, <2>1, <2>2 DEF UsableIsHeld
<1> QED
  BY <1>8, <1>9, <1>10, <1>11, <1>12, <1>13, <1>14, <1>15, <1>16, <1>17, <1>18 DEF PubInv, Agreement

LEMMA UnpublishEndStep ==
    ASSUME TypeOK, TypeOK', PubInv, UnpublishEnd
    PROVE  PubInv'
<1>0. PICK t : t = call.t
  OBVIOUS
<1>1. /\ Requests /\ Handlers /\ Calling /\ Maps /\ Messages /\ Told /\ Found /\ Offered
      /\ ContextHeld /\ Knows /\ UsableIsHeld
  BY DEF PubInv, Agreement
<1>2. /\ call' = Idle /\ call.op = "unpublish"
      /\ UNCHANGED <<ctx, nextReq, status, reqId, dctx, byReq, nsByReq, byCtx, recvReq, peerTrack, nextPeer, toClient,
                     unsure, unsaid, offer>>
  BY DEF UnpublishEnd, handlerVars, histVars
<1>3. OwnUsed' = OwnUsed /\ TheirsUsed' = TheirsUsed /\ Msgs' = Msgs /\ Calling'
  BY <1>2, UsedUnchanged DEF Msgs, Calling, Idle
<1>4. \A u : (Unpublishing(u) <=> u = t) /\ ~Unpublishing(u)'
  <2>1. call = [op |-> "unpublish", t |-> t]
    BY <1>0, <1>2 DEF TypeOK
  <2> QED
    BY <1>2, <2>1 DEF Unpublishing, Idle
<1>5. t \in Tracks /\ dctx[t] = None
  BY <1>0, <1>1, <1>2 DEF Calling
<1>6. live' = live
  <2>1. live' = live \/ live' = live \ {dctx[t]}
    BY <1>0 DEF UnpublishEnd
  <2>2. None \notin live
    BY Constants DEF TypeOK
  <2> QED
    BY <1>5, <2>1, <2>2
<1>7. \A s \in Ids : peer'[s] = peer[s] \/ (peer[s] \in {"ns", "nsOk"} /\ peer'[s] = "over")
  BY DEF UnpublishEnd, SendPublishNamespaceDone, TypeOK
<1>8. byName' \subseteq byName /\ (ctx = "open" => byName' = byName \ {t})
  BY <1>0 DEF UnpublishEnd
<1>9. Requests' /\ Handlers'
  <2>1. \A s \in Ids : peer'[s] = "sub" => peer[s] = "sub"
    BY <1>7
  <2>2. (\A u \in Tracks : reqId[u] # None => reqId[u] \in Ids) /\ \A s \in nsByReq : s \in Ids
    BY DEF TypeOK
  <2>3. Requests'
    BY <1>1, <1>2, <1>3, <1>7 DEF Requests
  <2>4. Handlers'
    BY <1>1, <1>2, <1>3, <2>1, <2>2 DEF Handlers
  <2> QED
    BY <2>3, <2>4
<1>18. Offered'
  <2>1. \A s \in TheirsUsed : peer[s] = "sub" => peer'[s] = "sub"
    BY <1>7, Used, Constants
  <2> QED
    BY <1>1, <1>2, <1>3, <2>1, KeepOffered
<1>10. Maps'
  <2>1. \A s \in Ids : peer'[s] \in {"pub", "pubOk", "subOk"} => peer[s] \in {"pub", "pubOk", "subOk"}
    BY <1>7
  <2> QED
    BY <1>1, <1>2, <1>3, <1>4, <1>8, <2>1 DEF Maps
<1>11. Messages'
  <2>1. \A m \in Message : MsgOk(m) => MsgOk(m)'
    BY <1>2, <1>3, <1>7 DEF MsgOk, Message
  <2>2. \A m \in Message : m.type = "PublishOk" /\ MsgOk(m) /\ Standing(m.req) => Standing(m.req)'
    BY <1>2, <1>7 DEF Message, MsgOk, Standing
  <2> QED
    BY <1>1, <1>2, <2>1, <2>2, KeepMessages
<1>12. \A u \in Tracks : Ours(u)' = Ours(u) /\ HeldBy(u)' = HeldBy(u)
  BY <1>2, <1>7 DEF Ours, HeldBy
<1>13. Told'
  BY <1>1, <1>2, <1>4, <1>8, <1>12 DEF Told
<1>14. Found'
  BY <1>1, <1>2, <1>4, <1>8 DEF Found
<1>15. ContextHeld'
  <2>1. \A u \in byName : ctx = "open" /\ u # t => dctx[u] \in live /\ byCtx[dctx[u]] = u
    BY <1>1, <1>4 DEF ContextHeld, Unpublishing
  <2> QED
    BY <1>2, <1>6, <1>8, <2>1 DEF ContextHeld
<1>16. Knows'
  <2> SUFFICES ASSUME NEW u \in byName', reqId[u] # None, peer'[reqId[u]] \in {"subOk", "pubOk"},
                      \A i \in Msgs : toClient[i] # [type |-> "PublishOk", req |-> reqId[u]],
                      u \notin unsure
               PROVE  status[u] \in Subscribed
    BY <1>2, <1>3 DEF Knows
  <2>1. u \in byName /\ u \in Tracks /\ reqId[u] \in Ids
    BY <1>8 DEF TypeOK
  <2>2. peer[reqId[u]] \in {"subOk", "pubOk"}
    BY <1>7, <2>1
  <2>3. ctx = "open"
    BY <1>1, <2>1, <2>2 DEF Requests
  <2>4. u # t
    BY <1>8, <2>3
  <2> QED
    BY <1>1, <1>4, <2>1, <2>2, <2>4 DEF Knows
<1>17. UsableIsHeld'
  <2>1. \A u : UnderWay(u, "Unsubscribe")' = UnderWay(u, "Unsubscribe")
    BY <1>2 DEF UnderWay
  <2>2. \A u \in byName' : u \in byName /\ u \in Tracks
    BY <1>8 DEF TypeOK
  <2> QED
    BY <1>1, <1>2, <1>12, <2>1, <2>2 DEF UsableIsHeld
<1> QED
  BY <1>3, <1>9, <1>10, <1>11, <1>13, <1>14, <1>15, <1>16, <1>17, <1>18 DEF PubInv, Agreement

\* With the connection every message and every view of the server is gone, and the
\* handlers of the data contexts lose their request ids.
LEMMA LostStep ==
    ASSUME TypeOK, TypeOK', PubInv, ConnectionLost \/ ConnectionErased
    PROVE  PubInv'
<1>1. Requests /\ Handlers /\ Calling /\ Maps /\ Offered
  BY DEF PubInv, Agreement
<1>2. /\ ctx' # "open" /\ byName' = {}
      /\ UNCHANGED <<nextReq, nextPeer, dctx, call, peerTrack, unsure, unsaid>>
      /\ \A r \in Ids : byReq'[r] \in {None, byReq[r]} /\ recvReq'[r] = None
      /\ nsByReq' \subseteq nsByReq
  BY DEF ConnectionLost, ConnectionErased, handlerVars, peerVars, histVars, TypeOK
<1>3. toClient' = <<>> /\ \A r \in Ids : peer'[r] \in {"none", "over"}
  BY <1>1 DEF ConnectionLost, ConnectionErased, peerVars, Requests, TypeOK
<1>4. \A t \in Tracks : /\ reqId'[t] \in {None, reqId[t]}
                        /\ status'[t] \in {"kNotConnected", status[t]}
  BY DEF ConnectionLost, ConnectionErased, handlerVars, TypeOK
<1>5. OwnUsed' = OwnUsed /\ TheirsUsed' = TheirsUsed
  BY <1>2, UsedUnchanged
<1>6. Msgs' = {}
  BY <1>3 DEF Msgs
<1>7. Requests'
  BY <1>1, <1>2, <1>3, <1>5 DEF Requests
<1>8. Handlers'
  <2>1. \A t \in Tracks : reqId'[t] # None => reqId'[t] = reqId[t] /\ reqId[t] \in Ids
    BY <1>4 DEF TypeOK
  <2>2. \A r \in nsByReq : r \in Ids
    BY DEF TypeOK
  <2> QED
    BY <1>1, <1>2, <1>3, <1>4, <1>5, <2>1, <2>2 DEF Handlers
<1>9. Calling'
  <2>1. \A t \in Announce : t \in Tracks
    BY Constants
  <2>2. \A t \in Tracks : status[t] \notin Subscribed => status'[t] \notin Subscribed
    BY <1>4 DEF Subscribed
  <2> QED
    BY <1>1, <1>2, <1>4, <1>5, <2>1, <2>2 DEF Calling
<1>10. Maps'
  BY <1>1, <1>2, <1>5 DEF Maps
<1>11. Messages'
  BY <1>6 DEF Messages
<1>13. Offered'
  <2>1. CASE ConnectionLost
    BY <2>1 DEF ConnectionLost, Offered
  <2>2. CASE ConnectionErased
    <3>1. ctx # "open" /\ UNCHANGED offer
      BY <2>2 DEF ConnectionErased
    <3>2. offer = NoOffer
      BY <1>1, <3>1, Used, Constants DEF Offered, Requests
    <3> QED
      BY <3>1, <3>2 DEF Offered
  <2> QED
    BY <2>1, <2>2
<1>12. Told' /\ Found' /\ ContextHeld' /\ Knows' /\ UsableIsHeld'
  BY <1>2 DEF Told, Found, ContextHeld, Knows, UsableIsHeld
<1> QED
  BY <1>7, <1>8, <1>9, <1>10, <1>11, <1>12, <1>13 DEF PubInv, Agreement

\* The fetches take no part in the agreement.
LEMMA FetchStep ==
    ASSUME PubInv, UNCHANGED <<conVars, handlerVars, mapVars, live, call, offer, peerVars, histVars>>
    PROVE  PubInv'
<1>1. UNCHANGED <<ctx, nextReq, status, reqId, dctx, byReq, nsByReq, byName, byCtx, recvReq, live, call, peer,
                  peerTrack, nextPeer, toClient, unsure, unsaid, offer>>
  BY DEF conVars, handlerVars, mapVars, peerVars, histVars
<1>2. /\ OwnUsed' = OwnUsed /\ TheirsUsed' = TheirsUsed /\ Msgs' = Msgs
      /\ \A t : Unpublishing(t)' = Unpublishing(t)
      /\ \A t : Ours(t)' = Ours(t) /\ HeldBy(t)' = HeldBy(t)
      /\ \A t, ty : UnderWay(t, ty)' = UnderWay(t, ty)
  BY <1>1 DEF OwnUsed, TheirsUsed, Msgs, Unpublishing, Ours, HeldBy, UnderWay
<1>3. Requests' /\ Handlers' /\ Calling' /\ Maps'
  BY <1>1, <1>2 DEF PubInv, Agreement, Requests, Handlers, Calling, Maps
<1>4. Messages'
  BY <1>1, <1>2 DEF PubInv, Agreement, Messages, MsgOk, Standing
<1>5. Told' /\ Found' /\ ContextHeld' /\ Knows' /\ UsableIsHeld'
  BY <1>1, <1>2 DEF PubInv, Agreement, Told, Found, ContextHeld, Knows, UsableIsHeld
<1>6. Offered'
  BY <1>1, <1>2 DEF PubInv, Agreement, Offered
<1> QED
  BY <1>3, <1>4, <1>5, <1>6 DEF PubInv, Agreement

LEMMA PubInit == Init => TypeOK /\ PubInv
<1> SUFFICES ASSUME Init PROVE TypeOK /\ PubInv
  OBVIOUS
<1>1. TypeOK
  BY TypeInit
<1>2. Requests
  BY DEF Init, Requests
<1>3. Handlers /\ Calling
  BY DEF Init, Handlers, Calling, Idle
<1>4. Maps
  BY Constants DEF Init, Maps
<1>5. Messages
  BY DEF Init, Messages, Msgs
<1>6. Told
  <2>1. \A t : Ours(t) = {}
    BY DEF Init, Ours
  <2> QED
    BY <2>1 DEF Told
<1>7. Found /\ ContextHeld /\ Knows /\ UsableIsHeld /\ Offered
  BY DEF Init, Found, ContextHeld, Knows, UsableIsHeld, Offered
<1> QED
  BY <1>1, <1>2, <1>3, <1>4, <1>5, <1>6, <1>7 DEF PubInv, Agreement

LEMMA PubStep == TypeOK /\ PubInv /\ [Next]_vars => (TypeOK /\ PubInv)'
<1> SUFFICES ASSUME TypeOK, PubInv, [Next]_vars PROVE TypeOK' /\ PubInv'
  OBVIOUS
<1>1. CASE \E t \in Tracks : PublishTrack(t)
  BY <1>1, TypePublishTrack, PublishTrackStep
<1>2. CASE PublishEnd
  <2>1. Calling
    BY DEF PubInv, Agreement
  <2> QED
    BY <1>2, <2>1, TypePublishEnd, PublishEndStep
<1>3. CASE \E t \in Tracks : UnpublishTrack(t)
  BY <1>3, TypeUnpublishTrack, UnpublishTrackStep
<1>4. CASE UnpublishEnd
  BY <1>4, TypeUnpublishEnd, UnpublishEndStep
<1>5. CASE Handling
  <2>1. TypeOK'
    BY <1>5, TypeHandling DEF PubInv, Agreement
  <2> QED
    BY <1>5, <2>1, HandleIgnored, HandleQuestion, HandlePublishOk, HandleNamespaceOk, HandleUpdate,
       HandleUnsubscribe, HandleSubscribe DEF Handling
<1>6. CASE Peer
  BY <1>6, TypePeer, PeerStep
<1>10. CASE SubscribeEnd
  <2>1. TypeOK'
    BY <1>10, TypeSubscribeEnd DEF PubInv, Agreement
  <2> QED
    BY <1>10, <2>1, SubscribeEndStep
<1>7. CASE \E s \in Theirs : PublishFetchObject(s) \/ UnbindFetchTrack(s)
  <2>1. PICK s \in Theirs : PublishFetchObject(s) \/ UnbindFetchTrack(s)
    BY <1>7
  <2> QED
    BY <2>1, TypeFetch, FetchStep
<1>8. CASE ConnectionLost \/ ConnectionErased
  BY <1>8, TypeLost, LostStep
<1>9. CASE UNCHANGED vars
  <2>1. UNCHANGED <<conVars, handlerVars, mapVars, live, call, offer, peerVars, fetchVars, histVars>>
    BY <1>9 DEF vars
  <2>2. TypeOK'
    BY <2>1 DEF TypeOK, conVars, handlerVars, mapVars, peerVars, fetchVars, histVars
  <2> QED
    BY <2>1, <2>2, FetchStep
<1> QED
  BY <1>1, <1>2, <1>3, <1>4, <1>5, <1>6, <1>7, <1>8, <1>9, <1>10 DEF Next, Handling, Peer

LEMMA PubAlways == Spec => [](TypeOK /\ PubInv)
  BY PubInit, PubStep, PTL DEF Spec

-----------------------------------------------------------------------------
(* Theorems. *)

\* Whatever the order of calls, messages and loss: PublishTrack, UnpublishTrack and
\* ProcessCtrlMessage keep the types, and request ids of the client never mix with
\* those of the server in the maps and in the data contexts.
THEOREM TypeCorrect == Spec => []TypeOK
  BY PubAlways, PTL

\* Between the end of PublishTrack and the start of UnpublishTrack a track has a data
\* context that is alive and that pub_tracks_by_data_ctx_id maps back to it.
THEOREM ContextCorrect == Spec => []ContextHeld
<1>1. TypeOK /\ PubInv => ContextHeld
  BY DEF PubInv
<1> QED
  BY <1>1, PubAlways, PTL

\* PUBLISH_NAMESPACE_OK, which takes the result of find unseen, finds the namespace of
\* every announcement whose track still carries its request id.
THEOREM FoundCorrect == Spec => []NamespaceFound
<1>1. TypeOK /\ PubInv => NamespaceFound
  BY DEF PubInv, Agreement, Found, NamespaceFound
<1> QED
  BY <1>1, PubAlways, PTL

\* Whoever counts on a track that is not published any more got PUBLISH_DONE, but for
\* what unsaid records: UnpublishTrack in a status other than kOk, and a SUBSCRIBE that
\* found the handler before UnpublishTrack ended and is accepted after it began.
THEOREM ToldCorrect == Spec => []EndIsTold
<1>1. ASSUME TypeOK, PubInv PROVE EndIsTold
  <2>1. \A t \in Tracks : HeldBy(t) \subseteq Ours(t)
    BY DEF HeldBy, Ours
  <2>2. Told
    BY <1>1 DEF PubInv, Agreement
  <2> QED
    BY <2>1, <2>2 DEF EndIsTold, Told
<1> QED
  BY <1>1, PubAlways, PTL

\* publish_status_ and the server agree on who is subscribed, in both directions,
\* outside the exceptions that the definitions name.
THEOREM StatusCorrect == Spec => []StatusAgrees
<1>1. ASSUME TypeOK, PubInv PROVE StatusAgrees
  <2>1. Requests /\ Told /\ Knows /\ Handlers /\ Messages /\ UsableIsHeld
    BY <1>1 DEF PubInv, Agreement
  <2>2. ASSUME NEW t \in byName, HeldBy(t) \ unsaid # {}, ~UnderWay(t, "PublishOk"), t \notin unsure,
               call # [op |-> "unpublish", t |-> t]
        PROVE  status[t] \in Subscribed
    <3>1. PICK r \in Ids : peer[r] \in {"subOk", "pubOk"} /\ peerTrack[r] = t /\ r \notin unsaid
      BY <2>2 DEF HeldBy
    <3>2. ctx = "open" /\ t \in Tracks
      BY <1>1, <2>1, <3>1 DEF Requests, TypeOK
    <3>3. reqId[t] = r
      BY <2>1, <3>1, <3>2 DEF Told, Ours
    <3>4. r # None
      BY <3>1, Constants
    <3>5. \A i \in Msgs : toClient[i] # [type |-> "PublishOk", req |-> r]
      <4> SUFFICES ASSUME NEW i \in Msgs, toClient[i] = [type |-> "PublishOk", req |-> r] PROVE FALSE
        OBVIOUS
      <4>1. toClient[i].type = "PublishOk" /\ peerTrack[toClient[i].req] = t
        BY <3>1
      <4> QED
        BY <2>2, <4>1 DEF UnderWay, Msgs
    <3> QED
      BY <2>1, <2>2, <3>1, <3>3, <3>4, <3>5 DEF Knows, Unpublishing
  <2>3. HeldIsKnown
    BY <2>2 DEF HeldIsKnown
  <2> QED
    BY <2>1, <2>3 DEF StatusAgrees
<1> QED
  BY <1>1, PubAlways, PTL

-----------------------------------------------------------------------------
(* The header of a fetch. *)

\* No handler has been bound to request s.
Untouched(s) == fetch[s] = "unbound" /\ ~sentFirst[s]

\* A FETCH under way is the only one of its request.
AskedOnce ==
    \A i \in Msgs : toClient[i].type = "Fetch" =>
        /\ toClient[i].req \in TheirsUsed /\ Untouched(toClient[i].req)
        /\ \A j \in Msgs : toClient[j].type = "Fetch" /\ toClient[j].req = toClient[i].req => j = i

\* A stream with nothing on it has a handler that will send the header, as long as
\* anything can be sent: without the connection the flag is set and nothing goes out.
Headed ==
    \A s \in Theirs :
        /\ fetch[s] # "headless" /\ (ctx = "open" /\ fetch[s] = "empty" => ~sentFirst[s])
        /\ s \notin TheirsUsed => Untouched(s)

HeaderInv == AskedOnce /\ Headed

LEMMA HeaderSame ==
    ASSUME HeaderInv, UNCHANGED <<toClient, nextPeer, fetch, sentFirst>>, ctx' = "open" => ctx = "open"
    PROVE  HeaderInv'
BY DEF HeaderInv, AskedOnce, Headed, Untouched, Msgs, TheirsUsed

\* A message is handled: FETCH binds a handler, FETCH_CANCEL lets one go.
LEMMA HeaderPop ==
    ASSUME TypeOK, HeaderInv, NEW ty, Receives(ty), UNCHANGED <<ctx, nextPeer, sentFirst>>,
           \/ UNCHANGED fetch
           \/ fetch' = [fetch EXCEPT ![Id] = "unbound"]
           \/ ty = "Fetch" /\ fetch' = [fetch EXCEPT ![Id] = "empty"]
    PROVE  HeaderInv'
<1>1. /\ 1 \in Msgs /\ toClient[1].type = ty /\ Id = toClient[1].req /\ Id \in Ids
      /\ \A i \in Msgs' : i + 1 \in Msgs /\ toClient'[i] = toClient[i + 1]
  BY PopIs
<1>2. Msgs' = 1 .. Len(toClient) - 1 /\ Len(toClient) \in Nat
  BY PopIs, MessageTypes
<1>3. TheirsUsed' = TheirsUsed
  BY DEF TheirsUsed
<1>4. fetch \in [Theirs -> {"unbound", "empty", "objects", "headless"}]
  BY DEF TypeOK
<1>5. ASSUME NEW s \in Theirs, fetch'[s] # fetch[s]
      PROVE  s = Id /\ (fetch'[s] = "unbound" \/ (fetch'[s] = "empty" /\ ty = "Fetch"))
  BY <1>4, <1>5
<1>6. ty = "Fetch" => Id \in TheirsUsed /\ Untouched(Id)
  BY <1>1 DEF HeaderInv, AskedOnce
<1>7. Headed'
  <2> SUFFICES ASSUME NEW s \in Theirs
               PROVE  /\ fetch'[s] # "headless" /\ (ctx' = "open" /\ fetch'[s] = "empty" => ~sentFirst'[s])
                      /\ s \notin TheirsUsed' => fetch'[s] = "unbound" /\ ~sentFirst'[s]
    BY DEF Headed, Untouched
  <2>1. /\ fetch[s] # "headless" /\ (ctx = "open" /\ fetch[s] = "empty" => ~sentFirst[s])
        /\ s \notin TheirsUsed => fetch[s] = "unbound" /\ ~sentFirst[s]
    BY DEF HeaderInv, Headed, Untouched
  <2>2. CASE fetch'[s] = fetch[s]
    BY <1>3, <2>1, <2>2
  <2>3. CASE fetch'[s] # fetch[s]
    BY <1>3, <1>5, <1>6, <2>1, <2>3 DEF Untouched
  <2> QED
    BY <2>2, <2>3
<1>8. ASSUME NEW i \in Msgs', toClient'[i].type = "Fetch"
      PROVE  /\ toClient'[i].req \in TheirsUsed'
             /\ fetch'[toClient'[i].req] = "unbound" /\ ~sentFirst'[toClient'[i].req]
             /\ \A j \in Msgs' : toClient'[j].type = "Fetch" /\ toClient'[j].req = toClient'[i].req => j = i
  <2>1. i \in Nat /\ i + 1 \in Msgs /\ toClient'[i] = toClient[i + 1] /\ i + 1 # 1
    BY <1>1, <1>2
  <2>2. PICK r : r = toClient[i + 1].req
    OBVIOUS
  <2>3. /\ r \in TheirsUsed /\ Untouched(r)
        /\ \A j \in Msgs : toClient[j].type = "Fetch" /\ toClient[j].req = r => j = i + 1
    BY <1>8, <2>1, <2>2 DEF HeaderInv, AskedOnce
  <2>4. r \in Theirs
    BY <2>3, Used
  <2>5. fetch'[r] = fetch[r] \/ fetch'[r] = "unbound"
    <3>1. ty = "Fetch" => r # Id
      BY <1>1, <2>1, <2>3
    <3> QED
      BY <1>5, <2>4, <3>1
  <2>6. Untouched(r)'
    BY <2>3, <2>5 DEF Untouched
  <2>7. ASSUME NEW j \in Msgs', toClient'[j].type = "Fetch", toClient'[j].req = r PROVE j = i
    <3>1. j + 1 \in Msgs /\ toClient'[j] = toClient[j + 1] /\ j \in Nat
      BY <1>1, <1>2
    <3>2. j + 1 = i + 1
      BY <2>3, <2>7, <3>1
    <3> QED
      BY <2>1, <3>1, <3>2
  <2>8. toClient'[i].req = r
    BY <2>1, <2>2
  <2> QED
    BY <1>3, <2>3, <2>6, <2>7, <2>8 DEF Untouched
<1>9. AskedOnce'
  BY <1>8 DEF AskedOnce, Untouched
<1> QED
  BY <1>7, <1>9 DEF HeaderInv

\* The server sends a message; FETCH takes the next request id.
LEMMA HeaderSend ==
    ASSUME TypeOK, HeaderInv, NEW ty \in MsgType, NEW r \in Ids, Sends(ty, r), UNCHANGED <<ctx, fetch, sentFirst>>,
           nextPeer' = nextPeer \/ nextPeer' = nextPeer + 1,
           ty = "Fetch" => r = nextPeer /\ r \in Theirs /\ nextPeer' = nextPeer + 1
    PROVE  HeaderInv'
<1>1. PICK n \in Nat : n = Len(toClient) + 1
  BY MessageTypes
<1>2. /\ toClient'[n] = [type |-> ty, req |-> r] /\ n \notin Msgs
      /\ \A i \in Msgs : i \in Msgs' /\ toClient'[i] = toClient[i]
      /\ \A i \in Msgs' : i \in Msgs \/ i = n
  BY <1>1, AppendIs
<1>3. TheirsUsed \subseteq TheirsUsed' /\ (nextPeer' = nextPeer + 1 => nextPeer \in TheirsUsed')
  <2>1. nextPeer \in MaxReq .. MaxReq + MaxPeer /\ MaxReq \in Nat
    BY Constants DEF TypeOK
  <2> QED
    BY <2>1 DEF TheirsUsed
<1>4. Headed'
  BY <1>3 DEF HeaderInv, Headed, Untouched
<1>5. ty = "Fetch" => Untouched(r) /\ r \notin TheirsUsed
  BY Used DEF HeaderInv, Headed
<1>6. ASSUME NEW i \in Msgs', toClient'[i].type = "Fetch"
      PROVE  toClient'[i].req \in TheirsUsed' /\ Untouched(toClient'[i].req)
  <2>1. CASE i \in Msgs
    BY <1>2, <1>3, <1>6, <2>1 DEF HeaderInv, AskedOnce
  <2>2. CASE i = n
    BY <1>2, <1>3, <1>5, <1>6, <2>2
  <2> QED
    BY <1>2, <2>1, <2>2
<1>7. ASSUME NEW i \in Msgs', NEW j \in Msgs', toClient'[i].type = "Fetch", toClient'[j].type = "Fetch",
             toClient'[j].req = toClient'[i].req
      PROVE  j = i
  <2>1. CASE i \in Msgs /\ j \in Msgs
    BY <1>2, <1>7, <2>1 DEF HeaderInv, AskedOnce
  <2>2. CASE i = n /\ j \in Msgs
    <3>1. toClient[j].type = "Fetch" /\ toClient[j].req = r /\ ty = "Fetch"
      BY <1>2, <1>7, <2>2
    <3> QED
      BY <1>5, <2>2, <3>1 DEF HeaderInv, AskedOnce
  <2>3. CASE j = n /\ i \in Msgs
    <3>1. toClient[i].type = "Fetch" /\ toClient[i].req = r /\ ty = "Fetch"
      BY <1>2, <1>7, <2>3
    <3> QED
      BY <1>5, <2>3, <3>1 DEF HeaderInv, AskedOnce
  <2> QED
    BY <1>2, <2>1, <2>2, <2>3
<1>8. ASSUME NEW s PROVE Untouched(s)' <=> Untouched(s)
  BY DEF Untouched
<1>9. AskedOnce'
  BY <1>6, <1>7, <1>8 DEF AskedOnce
<1> QED
  BY <1>4, <1>9 DEF HeaderInv

\* PublishObject and UnbindFetchTrack, on a request that is not under way any more.
LEMMA HeaderPublish ==
    ASSUME TypeOK, HeaderInv, NEW s \in Theirs, PublishFetchObject(s) \/ UnbindFetchTrack(s)
    PROVE  HeaderInv'
<1>1. UNCHANGED <<ctx, nextPeer, toClient>> /\ ~Untouched(s)
  BY DEF PublishFetchObject, UnbindFetchTrack, conVars, peerVars, Untouched
<1>2. Msgs' = Msgs /\ TheirsUsed' = TheirsUsed
  BY <1>1 DEF Msgs, TheirsUsed
<1>3. \A r \in Theirs : r # s => fetch'[r] = fetch[r] /\ sentFirst'[r] = sentFirst[r]
  BY DEF PublishFetchObject, UnbindFetchTrack, TypeOK
<1>4. \A r \in Theirs : Untouched(r) => Untouched(r)'
  BY <1>1, <1>3 DEF Untouched
<1>5. AskedOnce'
  BY <1>1, <1>2, <1>4, Used DEF HeaderInv, AskedOnce
<1>6. fetch'[s] # "headless" /\ (ctx = "open" /\ fetch'[s] = "empty" => ~sentFirst'[s])
  <2>1. CASE UnbindFetchTrack(s)
    BY <2>1 DEF UnbindFetchTrack, TypeOK
  <2>2. CASE PublishFetchObject(s)
    <3>1. fetch'[s] = EnqueueFetchObject(fetch[s], ~sentFirst[s])
      BY <2>2 DEF PublishFetchObject, TypeOK
    <3>2. fetch[s] # "headless" /\ (ctx = "open" /\ fetch[s] = "empty" => ~sentFirst[s])
      BY DEF HeaderInv, Headed
    <3>3. fetch[s] \in {"unbound", "empty", "objects", "headless"}
      BY DEF TypeOK
    <3>4. CASE fetch[s] = "unbound" \/ ctx # "open"
      BY <3>1, <3>2, <3>4 DEF EnqueueFetchObject
    <3>5. CASE fetch[s] # "unbound" /\ ctx = "open" /\ ~sentFirst[s]
      BY <3>1, <3>5 DEF EnqueueFetchObject
    <3>6. CASE fetch[s] # "unbound" /\ ctx = "open" /\ sentFirst[s]
      BY <3>1, <3>2, <3>3, <3>6 DEF EnqueueFetchObject
    <3> QED
      BY <3>4, <3>5, <3>6
  <2> QED
    BY <2>1, <2>2
<1>7. s \in TheirsUsed
  BY <1>1 DEF HeaderInv, Headed
<1>8. ASSUME NEW r \in Theirs
      PROVE  /\ fetch'[r] # "headless" /\ (ctx' = "open" /\ fetch'[r] = "empty" => ~sentFirst'[r])
             /\ r \notin TheirsUsed' => Untouched(r)'
  <2>1. CASE r = s
    BY <1>1, <1>2, <1>6, <1>7, <2>1
  <2>2. CASE r # s
    BY <1>1, <1>2, <1>3, <1>4, <2>2 DEF HeaderInv, Headed
  <2> QED
    BY <2>1, <2>2
<1> QED
  BY <1>5, <1>8 DEF HeaderInv, Headed

LEMMA HeaderStep == TypeOK /\ HeaderInv /\ [Next]_vars => HeaderInv'
<1> SUFFICES ASSUME TypeOK, HeaderInv, [Next]_vars PROVE HeaderInv'
  OBVIOUS
<1>1. CASE \/ \E t \in Tracks : PublishTrack(t) \/ UnpublishTrack(t)
           \/ PublishEnd \/ UnpublishEnd \/ SubscribeEnd \/ UNCHANGED vars
  <2>1. UNCHANGED <<ctx, toClient, nextPeer, fetch, sentFirst>>
    BY <1>1 DEF PublishTrack, UnpublishTrack, PublishEnd, UnpublishEnd, SubscribeEnd, vars, conVars, peerVars, fetchVars
  <2> QED
    BY <2>1, HeaderSame
<1>2. CASE Handling
  <2>1. UNCHANGED <<ctx, nextPeer, sentFirst>>
    BY <1>2 DEF Handling, PublishNamespaceOk, Ignored, PublishOk, Subscribe, SubscribeUpdate, Unsubscribe,
       TrackStatus, Fetch, FetchCancel, conVars, fetchVars
  <2>2. CASE Fetch
    <3>1. Receives("Fetch") /\ (UNCHANGED fetch \/ fetch' = [fetch EXCEPT ![Id] = "empty"])
      BY <2>2 DEF Fetch, BindFetchTrack
    <3> QED
      BY <2>1, <3>1, HeaderPop
  <2>3. CASE FetchCancel
    <3>1. Receives("FetchCancel") /\ fetch' = [fetch EXCEPT ![Id] = "unbound"]
      BY <2>3 DEF FetchCancel
    <3> QED
      BY <2>1, <3>1, HeaderPop
  <2>4. CASE PublishNamespaceOk \/ Ignored \/ PublishOk \/ Subscribe \/ SubscribeUpdate \/ Unsubscribe \/ TrackStatus
    <3>1. UNCHANGED fetch
      BY <2>4 DEF PublishNamespaceOk, Ignored, PublishOk, Subscribe, SubscribeUpdate, Unsubscribe, TrackStatus,
         fetchVars
    <3>2. \E ty : Receives(ty)
      BY <2>4 DEF PublishNamespaceOk, Ignored, PublishOk, Subscribe, SubscribeUpdate, Unsubscribe, TrackStatus
    <3> QED
      BY <2>1, <3>1, <3>2, HeaderPop
  <2> QED
    BY <1>2, <2>2, <2>3, <2>4 DEF Handling
<1>3. CASE Peer
  <2>1. UNCHANGED <<ctx, fetch, sentFirst>>
    BY <1>3 DEF Peer, PeerSubscribes, PeerAnswers, PeerCancels, PeerUpdates, PeerFetches, PeerOnly, conVars, fetchVars
  <2>2. CASE PeerFetches
    <3>1. PICK ty \in {"Fetch", "TrackStatus"} : Sends(ty, nextPeer)
      BY <2>2 DEF PeerFetches
    <3>2. nextPeer \in Theirs /\ nextPeer' = nextPeer + 1
      BY <2>2 DEF PeerFetches
    <3>3. ty \in MsgType /\ nextPeer \in Ids
      BY <3>2, Constants DEF MsgType
    <3> QED
      BY <2>1, <3>1, <3>2, <3>3, HeaderSend
  <2>3. CASE ~PeerFetches
    <3>1. PICK ty \in MsgType, r \in Ids : Sends(ty, r) /\ ty # "Fetch"
      BY <1>3, <2>3, Constants DEF Peer, PeerSubscribes, PeerAnswers, PeerCancels, PeerUpdates, MsgType
    <3>2. nextPeer' = nextPeer \/ nextPeer' = nextPeer + 1
      BY <1>3, <2>3 DEF Peer, PeerSubscribes, PeerAnswers, PeerCancels, PeerUpdates
    <3> QED
      BY <2>1, <3>1, <3>2, HeaderSend
  <2> QED
    BY <2>2, <2>3
<1>4. CASE \E s \in Theirs : PublishFetchObject(s) \/ UnbindFetchTrack(s)
  BY <1>4, HeaderPublish
<1>5. CASE ConnectionLost
  <2>1. toClient' = <<>> /\ ctx' = "swept" /\ UNCHANGED <<nextPeer, fetch, sentFirst>>
    BY <1>5 DEF ConnectionLost, fetchVars
  <2>2. Msgs' = {} /\ TheirsUsed' = TheirsUsed
    BY <2>1 DEF Msgs, TheirsUsed
  <2> QED
    BY <2>1, <2>2 DEF HeaderInv, AskedOnce, Headed, Untouched
<1>6. CASE ConnectionErased
  <2>1. ctx' = "none" /\ fetch' = [s \in Theirs |-> "unbound"] /\ UNCHANGED <<nextPeer, sentFirst, toClient>>
    BY <1>6 DEF ConnectionErased, peerVars
  <2>2. Msgs' = Msgs /\ TheirsUsed' = TheirsUsed /\ TheirsUsed \subseteq Theirs
    BY <2>1, Used DEF Msgs, TheirsUsed
  <2> QED
    BY <2>1, <2>2 DEF HeaderInv, AskedOnce, Headed, Untouched
<1> QED
  BY <1>1, <1>2, <1>3, <1>4, <1>5, <1>6 DEF Next, Handling, Peer

\* PublishFetchHandler::PublishObject and Bind, FETCH and FETCH_CANCEL: what the transmit
\* queue gets for a fetch begins with its header, though the flag is set before anything
\* is queued.
THEOREM HeaderCorrect == Spec => []HeaderFirst
<1>1. Init => HeaderInv
  BY DEF Init, HeaderInv, AskedOnce, Headed, Untouched, Msgs
<1>2. HeaderInv => HeaderFirst
  BY DEF HeaderInv, Headed, HeaderFirst
<1> QED
  BY <1>1, <1>2, HeaderStep, TypeCorrect, PTL DEF Spec

=============================================================================
