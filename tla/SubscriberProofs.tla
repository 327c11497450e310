-------------------------- MODULE SubscriberProofs --------------------------
(***************************************************************************)
(* Proofs about Subscriber, for all sets of handlers and all bounds.       *)
(*                                                                         *)
(* The maps agree because a request id is never given out twice to         *)
(* handlers (Fresh, OwnIds), which holds although GetNextRequestId is not  *)
(* atomic.  That the server holds no subscription the client has lost      *)
(* needs an application that uses the connection from one thread at a      *)
(* time.  Throughout, a handler is subscribed again only after it was      *)
(* unsubscribed (~Again).                                                  *)
(***************************************************************************)
EXTENDS Subscriber, SequenceTheorems, TLAPS

Msg == [type : {"SubscribeOk", "SubscribeError", "PublishDone", "FetchOk",
                "FetchError", "TrackStatusResponse"}, req : Req]
Calls == [op : {"idle", "unsub", "update"}, h : Subs \cup {None}, rid : Req \cup {None}]
Answers == [type : {"none", "SubscribeOk", "Aliased", "SubscribeError", "PublishDone", "FetchOk",
                    "FetchError"}, h : Handlers \cup {None}, req : Req \cup {None}]
Views == {"none", "sub", "subOk", "fetch", "fetchOk", "status", "over"}

\* The type invariant without the queue of answers.
Plain ==
    /\ ctx \in {"open", "swept", "none", "blank"}
    /\ status \in [Handlers -> Status]
    /\ reqId \in [Handlers -> Req \cup {None}]
    /\ alias \in [Subs -> BOOLEAN]
    /\ subTracks \in [Req -> Handlers \cup {None}]
    /\ joins \subseteq Req
    /\ byAlias \subseteq Subs
    /\ nextReq \in 0 .. MaxReq
    /\ call \in Calls
    /\ reply \in Answers
    /\ crashed \in BOOLEAN
    /\ peer \in [Req -> Views]
    /\ silent \in [Req -> Status \cup {None}]
    /\ ghost \subseteq Subs
    /\ stray \subseteq Subs

\* A call under way has a handler and an id.
CallOf == call.op # "idle" => call.h \in Subs /\ call.rid \in Req /\ reqId[call.h] \in Req

\* An answer that is being handled has found a handler of its kind.
ReplyOf ==
    \/ reply = NoReply
    \/ /\ reply.req \in Req
       /\ \/ reply.h \in Subs /\ reply.type \in {"SubscribeOk", "Aliased", "SubscribeError", "PublishDone"}
          \/ reply.h \in Fetches /\ reply.type \in {"FetchOk", "FetchError"}

LEMMA Splits == TypeOK <=> Plain /\ toClient \in Seq(Msg)
BY DEF TypeOK, Plain, Msg, Calls, Answers, Views

-----------------------------------------------------------------------------
(* Types. *)

LEMMA PlainInit == Init => Plain /\ CallOf /\ ReplyOf /\ toClient \in Seq(Msg)
<1> SUFFICES ASSUME Init PROVE Plain /\ CallOf /\ ReplyOf /\ toClient \in Seq(Msg)
  OBVIOUS
<1>1. 0 \in 0 .. MaxReq
  BY SubscriberAssumption
<1>2. call \in Calls /\ call.op = "idle"
  BY DEF Init, Idle, Calls
<1>r. reply \in Answers /\ ReplyOf
  BY DEF Init, NoReply, Answers, ReplyOf
<1>3. Plain
  <2>1. nextReq \in 0 .. MaxReq
    BY <1>1 DEF Init
  <2>2. status \in [Handlers -> Status] /\ peer \in [Req -> Views]
    BY DEF Init, Status, Views
  <2>3. /\ reqId \in [Handlers -> Req \cup {None}] /\ subTracks \in [Req -> Handlers \cup {None}]
        /\ silent \in [Req -> Status \cup {None}]
    BY DEF Init
  <2>4. alias \in [Subs -> BOOLEAN] /\ crashed \in BOOLEAN
    BY DEF Init
  <2> QED
    BY <1>2, <1>r, <2>1, <2>2, <2>3, <2>4 DEF Init, Plain
<1>4. toClient \in Seq(Msg)
  BY DEF Init
<1> QED
  BY <1>2, <1>r, <1>3, <1>4 DEF CallOf

\* What an answer, and its receipt, make of the queue.
LEMMA AnswerType ==
    ASSUME toClient \in Seq(Msg), NEW t \in {"SubscribeOk", "SubscribeError", "PublishDone", "FetchOk",
                                             "FetchError", "TrackStatusResponse"},
           NEW r \in Req, Answer(t, r)
    PROVE  toClient' \in Seq(Msg)
<1>1. [type |-> t, req |-> r] \in Msg
  BY DEF Msg
<1> QED
  BY <1>1, AppendProperties DEF Answer

LEMMA ReceiveType ==
    ASSUME toClient \in Seq(Msg), ProcessCtrlMessage
    PROVE  toClient' \in Seq(Msg) /\ Head(toClient) \in Msg /\ Head(toClient).req \in Req
<1>1. toClient # <<>> /\ toClient' = Tail(toClient)
  BY DEF ProcessCtrlMessage
<1>2. Head(toClient) \in Msg /\ Tail(toClient) \in Seq(Msg)
  BY <1>1, HeadTailProperties
<1> QED
  BY <1>1, <1>2 DEF Msg

\* The queue keeps its type.
LEMMA QueueNext ==
    ASSUME Plain, CallOf, toClient \in Seq(Msg), Next
    PROVE  toClient' \in Seq(Msg)
<1>1. ASSUME NEW u \in Req, NEW r, SendSubscribeUpdate(u, r) PROVE toClient' \in Seq(Msg)
  BY <1>1, AnswerType DEF SendSubscribeUpdate
<1>2. ASSUME NEW h \in Subs, UpdateTrackSubscription(h) PROVE toClient' \in Seq(Msg)
  <2>1. nextReq \in Req
    BY <1>2, SubscriberAssumption DEF UpdateTrackSubscription, Requested, Plain, Req
  <2> QED
    BY <1>1, <1>2, <2>1 DEF UpdateTrackSubscription
<1>3. CASE UpdateEnd
  <2>1. CASE ctx = "none"
    BY <1>3, <2>1 DEF UpdateEnd
  <2>2. CASE ctx # "none"
    BY <1>1, <1>3, <2>2 DEF UpdateEnd, CallOf
  <2> QED
    BY <2>1, <2>2
<1>4. ASSUME NEW r \in Req, NEW ok \in BOOLEAN, PeerAnswers(r, ok) PROVE toClient' \in Seq(Msg)
  BY <1>4, AnswerType DEF PeerAnswers
<1>5. ASSUME NEW r \in Req, PeerEnds(r) PROVE toClient' \in Seq(Msg)
  BY <1>5, AnswerType DEF PeerEnds
<1>6. CASE ProcessCtrlMessage
  BY <1>6, ReceiveType
<1>7. CASE SubscribeOk \/ SubscribeOkEnd \/ SubscribeError \/ PublishDone \/ FetchOk \/ FetchError
  BY <1>7 DEF SubscribeOk, SubscribeOkEnd, SubscribeError, PublishDone, FetchOk, FetchError, Told, peerVars
<1>8. ASSUME NEW h \in Subs,
             SubscribeTrack(h) \/ UnsubscribeTrack(h) \/ Pause(h) \/ Resume(h) \/ RequestNewGroup(h)
      PROVE  toClient' \in Seq(Msg)
  BY <1>8 DEF SubscribeTrack, UnsubscribeTrack, Pause, Resume, RequestNewGroup, UpdateBegin, peerVars
<1>9. ASSUME NEW f \in Fetches, FetchTrack(f) \/ CancelFetchTrack(f) \/ FetchStreamClosed(f)
      PROVE  toClient' \in Seq(Msg)
  BY <1>9 DEF FetchTrack, CancelFetchTrack, FetchStreamClosed, peerVars
<1>10. CASE UnsubscribeEnd \/ RequestTrackStatus \/ ConnectionLost \/ ConnectionErased \/ LateNotify
  <2>1. toClient' = toClient \/ toClient' = <<>>
    BY <1>10 DEF UnsubscribeEnd, RequestTrackStatus, ConnectionLost, ConnectionErased, LateNotify, peerVars
  <2>2. <<>> \in Seq(Msg)
    OBVIOUS
  <2> QED
    BY <2>1, <2>2
<1> QED
  BY <1>2, <1>3, <1>4, <1>5, <1>6, <1>7, <1>8, <1>9, <1>10 DEF Next

\* A request takes ids that exist.
LEMMA RequestedType ==
    ASSUME Plain, NEW n \in {1, 2}, Requested(n)
    PROVE  /\ nextReq' = nextReq + n /\ nextReq' \in 0 .. MaxReq
           /\ \A i \in 0 .. n - 1 : nextReq + i \in Req
<1>1. MaxReq \in Nat /\ nextReq \in 0 .. MaxReq /\ nextReq + n <= MaxReq /\ nextReq' = nextReq + n
  BY SubscriberAssumption DEF Plain, Requested
<1> QED
  BY <1>1 DEF Req

LEMMA SendType ==
    ASSUME NEW p \in [Req -> Views], NEW r, NEW v \in Views
    PROVE  SendCtrlMsg(p, r, v) \in [Req -> Views]
BY DEF SendCtrlMsg

\* A handler asks: SubscribeTrack, FetchTrack, RequestTrackStatus, UpdateTrackSubscription.
LEMMA PlainAsks ==
    ASSUME Plain, CallOf,
           \/ \E h \in Subs : SubscribeTrack(h) \/ UpdateTrackSubscription(h)
           \/ \E f \in Fetches : FetchTrack(f)
           \/ RequestTrackStatus
    PROVE  Plain' /\ CallOf'
<1>1. ASSUME NEW h \in Subs, SubscribeTrack(h) PROVE Plain' /\ CallOf'
  <2>1. h \in Handlers /\ call.h # h
    BY <1>1 DEF Handlers, SubscribeTrack
  <2>2. PICK n \in {1, 2} : Requested(n) /\ joins' \subseteq joins \cup {nextReq + n - 1}
    BY <1>1 DEF SubscribeTrack
  <2>3. /\ nextReq' \in 0 .. MaxReq /\ nextReq \in Req
        /\ nextReq + n - 1 \in Req /\ nextReq + 0 = nextReq
    <3>1. 0 \in 0 .. n - 1 /\ n - 1 \in 0 .. n - 1 /\ nextReq \in Int
      BY DEF Plain
    <3>2. nextReq' \in 0 .. MaxReq /\ nextReq + 0 \in Req /\ nextReq + (n - 1) \in Req
      BY <2>2, <3>1, RequestedType
    <3> QED
      BY <3>1, <3>2
  <2>4. peer' \in [Req -> Views]
    <3>1. "sub" \in Views /\ "fetch" \in Views /\ peer \in [Req -> Views]
      BY DEF Views, Plain
    <3>2. SendSubscribe(peer, h, nextReq) \in [Req -> Views]
      BY <3>1, SendType DEF SendSubscribe
    <3>3. SendJoiningFetch(SendSubscribe(peer, h, nextReq), nextReq + 1) \in [Req -> Views]
      BY <3>1, <3>2, SendType DEF SendJoiningFetch
    <3> QED
      BY <1>1, <3>2, <3>3 DEF SubscribeTrack
  <2>5. reqId' \in [Handlers -> Req \cup {None}] /\ subTracks' \in [Req -> Handlers \cup {None}]
    BY <1>1, <2>1, <2>3 DEF SubscribeTrack, Plain
  <2>6. joins' \subseteq Req
    BY <2>2, <2>3 DEF Plain
  <2>7. /\ UNCHANGED <<ctx, crashed, status, alias, byAlias, call, reply, silent, ghost, stray>>
        /\ reqId' = [reqId EXCEPT ![h] = nextReq]
    BY <1>1 DEF SubscribeTrack
  <2>8. CallOf'
    BY <2>1, <2>7 DEF CallOf, Plain
  <2> QED
    BY <2>3, <2>4, <2>5, <2>6, <2>7, <2>8 DEF Plain
<1>2. ASSUME NEW h \in Subs, UpdateTrackSubscription(h) PROVE Plain' /\ CallOf'
  <2>1. Requested(1) /\ UNCHANGED <<ctx, crashed, handlerVars, mapVars, call, reply, peer, silent, ghost, stray>>
    BY <1>2 DEF UpdateTrackSubscription
  <2>2. nextReq' \in 0 .. MaxReq
    BY <2>1, RequestedType
  <2> QED
    BY <2>1, <2>2 DEF Plain, CallOf, handlerVars, mapVars
<1>3. ASSUME NEW f \in Fetches, FetchTrack(f) PROVE Plain' /\ CallOf'
  <2>1. /\ Requested(1) /\ peer' = SendFetch(peer, nextReq)
        /\ reqId' = [reqId EXCEPT ![f] = nextReq]
        /\ status' = [status EXCEPT ![f] = "kPendingResponse"]
        /\ subTracks' = [subTracks EXCEPT ![nextReq] = f]
        /\ UNCHANGED <<ctx, crashed, alias, joins, byAlias, call, reply, silent, ghost, stray>>
    BY <1>3 DEF FetchTrack
  <2>2. nextReq' \in 0 .. MaxReq /\ nextReq \in Req /\ f \in Handlers /\ f \notin Subs
    <3>1. 0 \in 0 .. 1 - 1 /\ nextReq + 0 = nextReq
      BY DEF Plain
    <3>2. nextReq' \in 0 .. MaxReq /\ nextReq + 0 \in Req
      BY <2>1, <3>1, RequestedType
    <3> QED
      BY <3>1, <3>2, SubscriberAssumption DEF Handlers
  <2>3. peer' \in [Req -> Views]
    BY <2>1, SendType DEF SendFetch, Views, Plain
  <2>4. CallOf'
    BY <2>1, <2>2 DEF CallOf, Plain
  <2>5. /\ reqId' \in [Handlers -> Req \cup {None}] /\ subTracks' \in [Req -> Handlers \cup {None}]
        /\ status' \in [Handlers -> Status]
    BY <2>1, <2>2 DEF Plain, Status
  <2> QED
    BY <2>1, <2>2, <2>3, <2>4, <2>5 DEF Plain
<1>4. CASE RequestTrackStatus
  <2>1. /\ Requested(1) /\ peer' = SendTrackStatus(peer, nextReq)
        /\ UNCHANGED <<ctx, crashed, handlerVars, mapVars, call, reply, silent, ghost, stray>>
    BY <1>4 DEF RequestTrackStatus
  <2>2. nextReq' \in 0 .. MaxReq
    BY <2>1, RequestedType
  <2>3. peer' \in [Req -> Views]
    BY <2>1, SendType DEF SendTrackStatus, Views, Plain
  <2> QED
    BY <2>1, <2>2, <2>3 DEF Plain, CallOf, handlerVars, mapVars
<1> QED
  BY <1>1, <1>2, <1>3, <1>4

\* The calls in two halves, and the end of a fetch.
LEMMA PlainCalls ==
    ASSUME Plain, CallOf,
           \/ \E h \in Subs : UnsubscribeTrack(h) \/ Pause(h) \/ Resume(h) \/ RequestNewGroup(h)
           \/ UnsubscribeEnd \/ UpdateEnd
           \/ \E f \in Fetches : CancelFetchTrack(f) \/ FetchStreamClosed(f)
    PROVE  Plain' /\ CallOf'
<1>1. ASSUME NEW h \in Subs, UnsubscribeTrack(h) PROVE Plain' /\ CallOf'
  <2>1. h \in Handlers /\ reqId[h] \in Req
    BY <1>1 DEF Handlers, UnsubscribeTrack, Plain
  <2>2. call' = [op |-> "unsub", h |-> h, rid |-> reqId[h]] /\ ctx' \in {ctx, "blank"}
        /\ UNCHANGED <<nextReq, crashed, reqId, alias, mapVars, reply, ghost, stray>>
    BY <1>1 DEF UnsubscribeTrack
  <2>3. call' \in Calls /\ CallOf'
    BY <2>1, <2>2 DEF Calls, CallOf
  <2>4. status' \in [Handlers -> Status] /\ peer' \in [Req -> Views] /\ silent' \in [Req -> Status \cup {None}]
    <3>1. SendUnsubscribe(peer, reqId[h]) \in [Req -> Views]
      BY SendType DEF SendUnsubscribe, Views, Plain
    <3>2. CASE status[h] \in Removable
      BY <1>1, <3>1, <3>2 DEF UnsubscribeTrack, Plain, Status
    <3>3. CASE status[h] \notin Removable
      BY <1>1, <2>1, <3>3 DEF UnsubscribeTrack, Plain
    <3> QED
      BY <3>2, <3>3
  <2> QED
    BY <2>2, <2>3, <2>4 DEF Plain, mapVars
<1>2. CASE UnsubscribeEnd
  <2>1. call.h \in Subs /\ UNCHANGED <<ctx, nextReq, handlerVars, reply, peerVars, silent, stray>> /\ call' = Idle
    BY <1>2 DEF UnsubscribeEnd, CallOf
  <2>2. ghost' \subseteq Subs
    BY <1>2, <2>1 DEF UnsubscribeEnd, Plain
  <2>3. /\ subTracks' \in [Req -> Handlers \cup {None}] /\ joins' \subseteq Req /\ byAlias' \subseteq Subs
        /\ crashed' \in BOOLEAN
    BY <1>2 DEF UnsubscribeEnd, Erase, mapVars, Plain
  <2>4. call' \in Calls /\ call'.op = "idle"
    BY <2>1 DEF Idle, Calls
  <2> QED
    BY <2>1, <2>2, <2>3, <2>4 DEF Plain, CallOf, handlerVars, peerVars
<1>3. ASSUME NEW h \in Subs, NEW guard, NEW new \in Status, UpdateBegin(h, guard, new)
      PROVE  Plain' /\ CallOf'
  <2>1. nextReq \in Req /\ h \in Handlers /\ reqId[h] \in Req
    BY <1>3, SubscriberAssumption DEF UpdateBegin, Plain, Req, Handlers
  <2>2. /\ status' = [status EXCEPT ![h] = new]
        /\ UNCHANGED <<ctx, nextReq, reqId, alias, mapVars, reply, peer, silent, stray>>
    BY <1>3 DEF UpdateBegin, peerVars
  <2>3. CASE crashed' = TRUE /\ UNCHANGED call
    BY <1>3, <2>2, <2>3 DEF UpdateBegin, Plain, CallOf, mapVars
  <2>4. CASE call' = [op |-> "update", h |-> h, rid |-> nextReq] /\ UNCHANGED crashed
    <3>1. call' \in Calls /\ CallOf'
      BY <2>1, <2>2, <2>4 DEF Calls, CallOf
    <3> QED
      BY <1>3, <2>2, <2>4, <3>1 DEF UpdateBegin, Plain, mapVars
  <2> QED
    BY <1>3, <2>3, <2>4 DEF UpdateBegin
<1>4. ASSUME NEW h \in Subs, Pause(h) \/ Resume(h) \/ RequestNewGroup(h) PROVE Plain' /\ CallOf'
  BY <1>3, <1>4 DEF Pause, Resume, RequestNewGroup, Status
<1>5. CASE UpdateEnd
  <2>1. call.rid \in Req /\ UNCHANGED <<ctx, handlerVars, mapVars, reply, peer, silent, ghost, stray>> /\ call' = Idle
    BY <1>5 DEF UpdateEnd, CallOf
  <2>2. call' \in Calls /\ call'.op = "idle"
    BY <2>1 DEF Idle, Calls
  <2>3. crashed' \in BOOLEAN /\ nextReq' \in 0 .. MaxReq
    <3>1. CASE ctx = "none"
      BY <1>5, <3>1 DEF UpdateEnd, Plain
    <3>2. CASE ctx # "none"
      <4>1. MaxReq \in Nat /\ nextReq \in 0 .. MaxReq /\ nextReq < MaxReq /\ nextReq' = nextReq + 1 /\ UNCHANGED crashed
        BY <1>5, <3>2, SubscriberAssumption DEF UpdateEnd, Plain
      <4> QED
        BY <4>1 DEF Plain
    <3> QED
      BY <3>1, <3>2
  <2> QED
    BY <2>1, <2>2, <2>3 DEF Plain, CallOf, handlerVars, mapVars
<1>6. ASSUME NEW f \in Fetches, CancelFetchTrack(f) PROVE Plain' /\ CallOf'
  <2>1. /\ f \in Handlers /\ f \notin Subs
        /\ subTracks' = [subTracks EXCEPT ![reqId[f]] = None] /\ reqId' = [reqId EXCEPT ![f] = None]
        /\ UNCHANGED <<ctx, nextReq, crashed, alias, joins, byAlias, call, reply, histVars>>
    BY <1>6, SubscriberAssumption DEF CancelFetchTrack, Handlers
  <2>2. subTracks' \in [Req -> Handlers \cup {None}] /\ reqId' \in [Handlers -> Req \cup {None}] /\ CallOf'
    <3>1. subTracks' \in [Req -> Handlers \cup {None}] /\ reqId' \in [Handlers -> Req \cup {None}]
      BY <2>1 DEF Plain
    <3>2. \A h \in Subs : reqId'[h] = reqId[h]
      BY <2>1 DEF Plain, Handlers
    <3>3. CallOf'
      BY <2>1, <3>2 DEF CallOf
    <3> QED
      BY <3>1, <3>3
  <2>3. SendFetchCancel(peer, reqId[f]) \in [Req -> Views]
    BY SendType DEF SendFetchCancel, Views, Plain
  <2>4. status' \in [Handlers -> Status] /\ peer' \in [Req -> Views]
    <3>1. \/ UNCHANGED <<status, peer>>
          \/ peer' = SendFetchCancel(peer, reqId[f]) /\ status' = [status EXCEPT ![f] = "kNotConnected"]
      BY <1>6 DEF CancelFetchTrack
    <3> QED
      BY <2>3, <3>1 DEF Plain, Status
  <2> QED
    BY <2>1, <2>2, <2>4 DEF Plain, histVars
<1>7. ASSUME NEW f \in Fetches, FetchStreamClosed(f) PROVE Plain' /\ CallOf'
  <2>1. PICK s \in {"kDoneByFin", "kDoneByReset"} : status' = [status EXCEPT ![f] = s]
    BY <1>7 DEF FetchStreamClosed
  <2>2. status' \in [Handlers -> Status]
    BY <2>1 DEF Plain, Status
  <2> QED
    BY <1>7, <2>2 DEF FetchStreamClosed, Plain, CallOf, conVars, mapVars, peerVars, histVars
<1> QED
  BY <1>1, <1>2, <1>4, <1>5, <1>6, <1>7

\* The replies.
LEMMA PlainReplies ==
    ASSUME Plain, CallOf, ReplyOf, toClient \in Seq(Msg),
           \/ ProcessCtrlMessage
           \/ SubscribeOk \/ SubscribeOkEnd \/ SubscribeError \/ PublishDone \/ FetchOk \/ FetchError
    PROVE  Plain' /\ CallOf'
<1>1. UNCHANGED <<ctx, nextReq, reqId, call, peer>>
  BY DEF ProcessCtrlMessage, SubscribeOk, SubscribeOkEnd, SubscribeError, PublishDone, FetchOk, FetchError, Told,
         conVars, peerVars, handlerVars, histVars
<1>2. CallOf'
  BY <1>1 DEF CallOf
<1>n. NoReply \in Answers
  BY DEF NoReply, Answers
<1>3. CASE ProcessCtrlMessage
  <2>1. PICK m : m = Head(toClient) /\ m \in Msg /\ m.req \in Req
    BY <1>3, ReceiveType
  <2>2. PICK h : h = subTracks[m.req]
    OBVIOUS
  <2>3. /\ reply' = IF h \in Wanted(m.type) THEN [type |-> m.type, h |-> h, req |-> m.req] ELSE NoReply
        /\ joins' \subseteq joins
        /\ UNCHANGED <<conVars, handlerVars, subTracks, byAlias, histVars>>
    BY <1>3, <2>1, <2>2 DEF ProcessCtrlMessage
  <2>4. reply' \in Answers
    <3>1. CASE h \in Wanted(m.type)
      <4>1. /\ m.type \in {"SubscribeOk", "SubscribeError", "PublishDone", "FetchOk", "FetchError"}
            /\ h \in Handlers
        BY <3>1 DEF Wanted, Handlers
      <4> QED
        BY <2>1, <2>3, <3>1, <4>1 DEF Answers
    <3> QED
      BY <1>n, <2>3, <3>1
  <2> QED
    BY <1>1, <1>2, <2>3, <2>4 DEF Plain, conVars, handlerVars, histVars
<1>4. CASE SubscribeOk
  <2>0. reply.h \in Subs
    BY <1>4 DEF SubscribeOk, ReplyOf, NoReply
  <2>1. /\ alias' = [alias EXCEPT ![reply.h] = TRUE] /\ byAlias' = byAlias \cup {reply.h}
        /\ stray' \subseteq stray \cup {reply.h} /\ reply' = [reply EXCEPT !.type = "Aliased"]
        /\ crashed' \in {TRUE, FALSE, crashed} /\ UNCHANGED <<status, subTracks, joins, silent, ghost>>
    BY <1>4 DEF SubscribeOk, Through
  <2>2. reply' \in Answers
    BY <2>1 DEF Plain, Answers
  <2> QED
    BY <1>1, <1>2, <2>0, <2>1, <2>2 DEF Plain
<1>5. CASE SubscribeOkEnd
  <2>0. reply.h \in Subs
    BY <1>5 DEF SubscribeOkEnd, ReplyOf, NoReply
  <2>1. /\ status' = [status EXCEPT ![reply.h] = "kOk"]
        /\ ghost' \subseteq ghost \cup {reply.h} /\ reply' = NoReply
        /\ crashed' \in {TRUE, FALSE, crashed} /\ UNCHANGED <<alias, mapVars, silent, stray>>
    BY <1>5 DEF SubscribeOkEnd, Through
  <2> QED
    BY <1>1, <1>2, <1>n, <2>0, <2>1 DEF Plain, Status, mapVars
<1>6. CASE SubscribeError
  <2>1. /\ Erase(reply.h) /\ status' = [status EXCEPT ![reply.h] = "kError"] /\ reply' = NoReply
        /\ silent' = silent \/ silent' = [silent EXCEPT ![reqId[reply.h]] = "kError"]
        /\ crashed' \in {TRUE, FALSE, crashed} /\ UNCHANGED <<alias, joins, ghost, stray>>
    BY <1>6 DEF SubscribeError, Through
  <2>2. "kError" \in Status
    BY DEF Status
  <2>3. subTracks' \in [Req -> Handlers \cup {None}] /\ byAlias' \subseteq Subs
    BY <2>1 DEF Plain, Erase
  <2>4. status' \in [Handlers -> Status] /\ silent' \in [Req -> Status \cup {None}]
    BY <2>1, <2>2 DEF Plain
  <2> QED
    BY <1>1, <1>2, <1>n, <2>1, <2>3, <2>4 DEF Plain
<1>7. CASE PublishDone \/ FetchOk \/ FetchError
  <2>1. /\ \E v \in Status : status' = [status EXCEPT ![reply.h] = v]
        /\ \/ subTracks' = subTracks
           \/ subTracks' = [subTracks EXCEPT ![reply.req] = IF Gone THEN @ ELSE None]
        /\ reply' = NoReply /\ crashed' \in {TRUE, FALSE, crashed} /\ UNCHANGED <<alias, joins, byAlias, histVars>>
    BY <1>7 DEF PublishDone, FetchOk, FetchError, Told, Through, Status
  <2>2. subTracks' \in [Req -> Handlers \cup {None}] /\ status' \in [Handlers -> Status]
    BY <2>1 DEF Plain
  <2> QED
    BY <1>1, <1>2, <1>n, <2>1, <2>2 DEF Plain, histVars
<1> QED
  BY <1>3, <1>4, <1>5, <1>6, <1>7

\* Only the notifier thread changes what it handles.
LEMMA ReplyKept ==
    ASSUME
           \/ \E h \in Subs : \/ SubscribeTrack(h) \/ UnsubscribeTrack(h) \/ UpdateTrackSubscription(h)
                              \/ Pause(h) \/ Resume(h) \/ RequestNewGroup(h)
           \/ \E f \in Fetches : FetchTrack(f) \/ CancelFetchTrack(f) \/ FetchStreamClosed(f)
           \/ UnsubscribeEnd \/ UpdateEnd \/ RequestTrackStatus
           \/ ConnectionLost \/ ConnectionErased \/ LateNotify
           \/ \E r \in Req : PeerAnswers(r, TRUE) \/ PeerAnswers(r, FALSE) \/ PeerEnds(r)
    PROVE  UNCHANGED reply
BY DEF SubscribeTrack, UnsubscribeTrack, UpdateTrackSubscription, Pause, Resume, RequestNewGroup, UpdateBegin,
       FetchTrack, CancelFetchTrack, FetchStreamClosed, UnsubscribeEnd, UpdateEnd, RequestTrackStatus,
       ConnectionLost, ConnectionErased, LateNotify, PeerAnswers, PeerEnds

LEMMA ReplyNext ==
    ASSUME Plain, ReplyOf, toClient \in Seq(Msg), Next
    PROVE  ReplyOf'
<1>1. CASE UNCHANGED reply
  BY <1>1 DEF ReplyOf
<1>3. CASE ProcessCtrlMessage
  <2>1. PICK m : m = Head(toClient) /\ m \in Msg /\ m.req \in Req
    BY <1>3, ReceiveType
  <2>2. PICK h : h = subTracks[m.req]
    OBVIOUS
  <2>3. reply' = IF h \in Wanted(m.type) THEN [type |-> m.type, h |-> h, req |-> m.req] ELSE NoReply
    BY <1>3, <2>1, <2>2 DEF ProcessCtrlMessage
  <2>4. CASE h \in Wanted(m.type)
    <3>1. \/ h \in Subs /\ m.type \in {"SubscribeOk", "SubscribeError", "PublishDone"}
          \/ h \in Fetches /\ m.type \in {"FetchOk", "FetchError"}
      BY <2>4 DEF Wanted
    <3>2. reply'.h = h /\ reply'.type = m.type /\ reply'.req = m.req
      BY <2>3, <2>4
    <3> QED
      BY <2>1, <3>1, <3>2 DEF ReplyOf
  <2>5. CASE h \notin Wanted(m.type)
    BY <2>3, <2>5 DEF ReplyOf, NoReply
  <2> QED
    BY <2>4, <2>5
<1>4. CASE SubscribeOk
  <2>1. reply.h \in Subs /\ reply.req \in Req /\ reply' = [reply EXCEPT !.type = "Aliased"]
    BY <1>4 DEF SubscribeOk, ReplyOf, NoReply
  <2>2. reply'.h = reply.h /\ reply'.req = reply.req /\ reply'.type = "Aliased"
    BY <2>1 DEF Plain, Answers
  <2> QED
    BY <2>1, <2>2 DEF ReplyOf
<1>5. CASE SubscribeOkEnd \/ SubscribeError \/ PublishDone \/ FetchOk \/ FetchError
  BY <1>5 DEF SubscribeOkEnd, SubscribeError, PublishDone, FetchOk, FetchError, Told, ReplyOf, NoReply
<1> QED
  BY <1>1, <1>3, <1>4, <1>5, ReplyKept DEF Next

\* The loss of the connection, and the server.
LEMMA PlainOthers ==
    ASSUME Plain, CallOf,
           \/ ConnectionLost \/ ConnectionErased \/ LateNotify
           \/ \E r \in Req : PeerAnswers(r, TRUE) \/ PeerAnswers(r, FALSE) \/ PeerEnds(r)
    PROVE  Plain' /\ CallOf'
<1>1. CASE ConnectionLost
  <2>1. /\ ctx' = "swept" /\ subTracks' = [r \in Req |-> None] /\ joins' = {} /\ byAlias' = {}
        /\ peer' = [r \in Req |-> IF peer[r] = "none" THEN "none" ELSE "over"]
        /\ UNCHANGED <<nextReq, crashed, reqId, alias, call, reply, histVars>>
    BY <1>1 DEF ConnectionLost
  <2>2. peer' \in [Req -> Views]
    BY <2>1 DEF Views
  <2>3. PICK told : status' = [h \in Handlers |->
                      CASE h \in Subs /\ Registered(h) -> "kNotConnected"
                        [] h \in told -> "kNotConnected"
                        [] h \in Fetches \ told /\ Registered(h) /\ status[h] \in Removable ->
                             "kNotSubscribed"
                        [] OTHER -> status[h]]
    BY <1>1 DEF ConnectionLost
  <2>4. status' \in [Handlers -> Status]
    BY <2>3 DEF Plain, Status
  <2> QED
    BY <2>1, <2>2, <2>4 DEF Plain, CallOf, histVars
<1>2. CASE ConnectionErased
  BY <1>2 DEF ConnectionErased, Plain, CallOf, handlerVars, peerVars, histVars
<1>3. CASE LateNotify
  BY <1>3 DEF LateNotify, Plain, CallOf, handlerVars, mapVars, peerVars, histVars
<1>4. ASSUME NEW r \in Req, NEW ok \in BOOLEAN, PeerAnswers(r, ok) PROVE Plain' /\ CallOf'
  <2>1. \E v \in Views : peer' = [peer EXCEPT ![r] = v]
    BY <1>4 DEF PeerAnswers, Views
  <2> QED
    BY <1>4, <2>1 DEF PeerAnswers, Plain, CallOf, conVars, handlerVars, mapVars, histVars
<1>5. ASSUME NEW r \in Req, PeerEnds(r) PROVE Plain' /\ CallOf'
  <2>1. \E v \in Views : peer' = [peer EXCEPT ![r] = v]
    BY <1>5 DEF PeerEnds, Views
  <2> QED
    BY <1>5, <2>1 DEF PeerEnds, Plain, CallOf, conVars, handlerVars, mapVars, histVars
<1> QED
  BY <1>1, <1>2, <1>3, <1>4, <1>5

LEMMA TypeNext == TypeOK /\ CallOf /\ ReplyOf /\ [Next]_vars => TypeOK' /\ CallOf' /\ ReplyOf'
<1>0. TypeOK' <=> Plain' /\ toClient' \in Seq(Msg)
  BY DEF TypeOK, Plain, Msg, Calls, Answers, Views
<1> SUFFICES ASSUME Plain, CallOf, ReplyOf, toClient \in Seq(Msg), [Next]_vars
             PROVE  Plain' /\ CallOf' /\ ReplyOf' /\ toClient' \in Seq(Msg)
  BY <1>0, Splits
<1>1. CASE UNCHANGED vars
  BY <1>1 DEF vars, conVars, handlerVars, mapVars, peerVars, histVars, Plain, CallOf, ReplyOf
<1>2. CASE Next
  <2>1. toClient' \in Seq(Msg)
    BY <1>2, QueueNext
  <2>2. Plain' /\ CallOf'
    BY <1>2, PlainAsks, PlainCalls, PlainReplies, PlainOthers DEF Next
  <2>3. ReplyOf'
    BY <1>2, ReplyNext
  <2> QED
    BY <2>1, <2>2, <2>3
<1> QED
  BY <1>1, <1>2

\* Every variable of the subscribing side keeps its type.
THEOREM TypeCorrect == Spec => []TypeOK
<1>1. Init => TypeOK /\ CallOf /\ ReplyOf
  BY PlainInit, Splits
<1> QED
  BY <1>1, TypeNext, PTL DEF Spec

-----------------------------------------------------------------------------
(* The maps. *)

\* An id that has not been given out leads to no handler.
Fresh == \A r \in Req : r >= nextReq => subTracks[r] = None

\* An id belongs to one handler, and was given out.
OwnIds ==
    /\ \A h \in Handlers : reqId[h] # None => reqId[h] < nextReq
    /\ \A g, h \in Handlers : reqId[g] = reqId[h] /\ reqId[h] # None => g = h
    /\ \A h \in byAlias \ stray : reqId[h] # None

MapsInv == MapsAgree /\ Fresh /\ OwnIds

LEMMA MapsInit == Init => MapsInv
BY SubscriberAssumption DEF Init, MapsInv, MapsAgree, Fresh, OwnIds

\* Steps that leave the maps alone.
LEMMA MapsFrame ==
    ASSUME Plain, MapsInv, UNCHANGED <<subTracks, byAlias, stray, reqId, alias>>, nextReq' \in Int, nextReq <= nextReq'
    PROVE  MapsInv'
<1>1. nextReq \in Int /\ (\A r \in Req : r \in Int) /\ (\A h \in Handlers : reqId[h] # None => reqId[h] \in Int)
  BY SubscriberAssumption DEF Plain, Req
<1>2. Fresh'
  BY <1>1 DEF MapsInv, Fresh
<1>3. OwnIds'
  BY <1>1 DEF MapsInv, OwnIds
<1>4. MapsAgree'
  BY DEF MapsInv, MapsAgree
<1> QED
  BY <1>2, <1>3, <1>4 DEF MapsInv

\* A handler gets a new id.
LEMMA MapsAsk ==
    ASSUME Plain, MapsInv, NEW h \in Handlers, ~Registered(h), NEW n \in {1, 2}, Requested(n),
           reqId' = [reqId EXCEPT ![h] = nextReq], subTracks' = [subTracks EXCEPT ![nextReq] = h],
           UNCHANGED <<alias, byAlias, stray>>
    PROVE  MapsInv'
<1>1. nextReq \in Int /\ (\A r \in Req : r \in Int) /\ (\A g \in Handlers : reqId[g] # None => reqId[g] \in Req)
  BY SubscriberAssumption DEF Plain, Req
<1>2. nextReq' = nextReq + n /\ nextReq \in Req /\ None \notin Req /\ None \notin Handlers
  <2>1. 0 \in 0 .. n - 1 /\ nextReq + 0 = nextReq
    BY <1>1
  <2>2. nextReq' = nextReq + n /\ nextReq + 0 \in Req
    BY <2>1, RequestedType
  <2> QED
    BY <2>1, <2>2, SubscriberAssumption DEF Req, Handlers
<1>3. h \notin byAlias \ stray
  BY <1>1 DEF MapsInv, MapsAgree, OwnIds, Registered, Plain, Handlers
<1>4. /\ \A g \in Handlers : reqId'[g] = IF g = h THEN nextReq ELSE reqId[g]
      /\ \A r \in Req : subTracks'[r] = IF r = nextReq THEN h ELSE subTracks[r]
  BY <1>2 DEF Plain
<1>5. \A g \in Handlers : reqId[g] # None => reqId[g] < nextReq
  BY DEF MapsInv, OwnIds
<1>6. Fresh'
  BY <1>1, <1>2, <1>4 DEF MapsInv, Fresh
<1>7. OwnIds'
  <2>1. ASSUME NEW g \in Handlers, reqId'[g] # None PROVE reqId'[g] < nextReq'
    <3>1. nextReq < nextReq' /\ nextReq' \in Int
      BY <1>1, <1>2
    <3>2. CASE g = h
      BY <1>4, <3>1, <3>2
    <3>3. CASE g # h
      <4>1. reqId'[g] \in Int /\ reqId'[g] < nextReq
        BY <1>1, <1>4, <1>5, <2>1, <3>3
      <4> QED
        BY <1>1, <3>1, <4>1
    <3> QED
      BY <3>2, <3>3
  <2>2. \A g, k \in Handlers : reqId'[g] = reqId'[k] /\ reqId'[k] # None => g = k
    BY <1>1, <1>2, <1>4, <1>5 DEF MapsInv, OwnIds
  <2>3. \A g \in byAlias' \ stray' : reqId'[g] # None
    BY <1>3, <1>4 DEF MapsInv, OwnIds, Plain, Handlers
  <2> QED
    BY <2>1, <2>2, <2>3 DEF OwnIds
<1>8. MapsAgree'
  <2>1. ASSUME NEW g \in byAlias \ stray PROVE alias[g] /\ subTracks'[reqId'[g]] = g
    <3>1. g \in Handlers /\ g # h /\ reqId[g] \in Req /\ reqId[g] < nextReq /\ subTracks[reqId[g]] = g /\ alias[g]
      BY <1>1, <1>3, <1>5, <2>1 DEF MapsInv, MapsAgree, OwnIds, Plain, Handlers
    <3> QED
      BY <1>1, <1>4, <3>1
  <2>2. ASSUME NEW r \in Req, subTracks'[r] # None PROVE reqId'[subTracks'[r]] = r
    <3>1. CASE r = nextReq
      BY <1>4, <3>1
    <3>2. CASE r # nextReq
      <4>1. subTracks[r] \in Handlers /\ subTracks[r] # h /\ subTracks'[r] = subTracks[r] /\ reqId[subTracks[r]] = r
        BY <1>4, <2>2, <3>2 DEF MapsInv, MapsAgree, Plain, Registered
      <4> QED
        BY <1>4, <4>1
    <3> QED
      BY <3>1, <3>2
  <2> QED
    BY <2>1, <2>2 DEF MapsAgree
<1> QED
  BY <1>6, <1>7, <1>8 DEF MapsInv

\* A handler leaves both maps.
LEMMA MapsErase ==
    ASSUME Plain, MapsInv, NEW h \in Subs, Erase(h), UNCHANGED <<reqId, alias, nextReq, stray>>
    PROVE  MapsInv'
<1>1. byAlias' \ stray \subseteq (byAlias \ stray) \ {h}
  BY DEF Erase, MapsInv, MapsAgree
<1>2. /\ \A r \in Req : subTracks'[r] = subTracks[r] \/ (subTracks'[r] = None /\ r = reqId[h])
      /\ \A g \in Handlers : g # h /\ reqId[g] # None => reqId[g] # reqId[h] /\ reqId[g] \in Req
  BY DEF Erase, Plain, MapsInv, OwnIds, Handlers
<1>3. Fresh' /\ OwnIds'
  BY <1>1, <1>2 DEF MapsInv, Fresh, OwnIds
<1>4. ASSUME NEW g \in byAlias' \ stray PROVE alias[g] /\ subTracks'[reqId[g]] = g
  <2>1. g \in Handlers /\ g # h /\ reqId[g] # None /\ subTracks[reqId[g]] = g /\ alias[g]
    BY <1>1, <1>4 DEF MapsInv, MapsAgree, OwnIds, Plain, Handlers
  <2> QED
    BY <1>2, <2>1
<1>5. ASSUME NEW r \in Req, subTracks'[r] # None PROVE reqId[subTracks'[r]] = r
  BY <1>2, <1>5 DEF MapsInv, MapsAgree
<1> QED
  BY <1>3, <1>4, <1>5 DEF MapsInv, MapsAgree

LEMMA MapsNext ==
    ASSUME ~Again, Plain, CallOf, ReplyOf, toClient \in Seq(Msg), MapsInv, Next
    PROVE  MapsInv'
<1>1. nextReq \in Int /\ nextReq <= nextReq
  BY DEF Plain
<1>2. ASSUME NEW h \in Subs, SubscribeTrack(h) PROVE MapsInv'
  <2>1. h \in Handlers /\ \E n \in {1, 2} : Requested(n)
    BY <1>2 DEF SubscribeTrack, Handlers
  <2> QED
    BY <1>2, <2>1, MapsAsk DEF SubscribeTrack
<1>3. ASSUME NEW f \in Fetches, FetchTrack(f) PROVE MapsInv'
  BY <1>3, MapsAsk DEF FetchTrack, Handlers
<1>4. ASSUME NEW h \in Subs, UpdateTrackSubscription(h) PROVE MapsInv'
  <2>1. Requested(1) /\ UNCHANGED <<handlerVars, mapVars, stray>>
    BY <1>4 DEF UpdateTrackSubscription
  <2>2. nextReq' = nextReq + 1
    BY <2>1, RequestedType
  <2> QED
    BY <1>1, <2>1, <2>2, MapsFrame DEF handlerVars, mapVars
<1>5. CASE RequestTrackStatus
  <2>1. Requested(1) /\ UNCHANGED <<handlerVars, mapVars, stray>>
    BY <1>5 DEF RequestTrackStatus
  <2>2. nextReq' = nextReq + 1
    BY <2>1, RequestedType
  <2> QED
    BY <1>1, <2>1, <2>2, MapsFrame DEF handlerVars, mapVars
<1>6. CASE UpdateEnd
  <2>1. UNCHANGED <<handlerVars, mapVars, stray>> /\ (nextReq' = nextReq \/ nextReq' = nextReq + 1)
    BY <1>6 DEF UpdateEnd
  <2> QED
    BY <1>1, <2>1, MapsFrame DEF handlerVars, mapVars
<1>7. CASE UnsubscribeEnd
  <2>1. call.h \in Subs /\ UNCHANGED <<nextReq, handlerVars, stray>>
    BY <1>7 DEF UnsubscribeEnd, CallOf
  <2>2. CASE UNCHANGED mapVars
    BY <1>1, <2>1, <2>2, MapsFrame DEF handlerVars, mapVars
  <2>3. CASE Erase(call.h)
    BY <2>1, <2>3, MapsErase DEF handlerVars
  <2> QED
    BY <1>7, <2>2, <2>3 DEF UnsubscribeEnd
<1>8. ASSUME NEW h \in Subs, UnsubscribeTrack(h) \/ Pause(h) \/ Resume(h) \/ RequestNewGroup(h) PROVE MapsInv'
  <2>1. UNCHANGED <<nextReq, reqId, alias, mapVars, stray>>
    BY <1>8 DEF UnsubscribeTrack, Pause, Resume, RequestNewGroup, UpdateBegin
  <2> QED
    BY <1>1, <2>1, MapsFrame DEF mapVars
<1>9. ASSUME NEW f \in Fetches, CancelFetchTrack(f) PROVE MapsInv'
  <2>1. /\ f \in Handlers /\ f \notin byAlias /\ reqId[f] \in Req /\ f # None
        /\ subTracks' = [subTracks EXCEPT ![reqId[f]] = None] /\ reqId' = [reqId EXCEPT ![f] = None]
        /\ UNCHANGED <<nextReq, alias, byAlias, stray>>
    BY <1>9, SubscriberAssumption DEF CancelFetchTrack, Handlers, Plain, histVars
  <2>2. /\ \A r \in Req : subTracks'[r] = IF r = reqId[f] THEN None ELSE subTracks[r]
        /\ \A g \in Handlers : reqId'[g] = IF g = f THEN None ELSE reqId[g]
    BY <2>1 DEF Plain
  <2>3. Fresh' /\ OwnIds'
    BY <2>1, <2>2 DEF MapsInv, Fresh, OwnIds, Plain, Handlers
  <2>4. ASSUME NEW g \in byAlias \ stray PROVE alias[g] /\ subTracks'[reqId'[g]] = g
    <3>1. g \in Handlers /\ g # f /\ reqId[g] \in Req /\ subTracks[reqId[g]] = g /\ alias[g]
      BY <2>1, <2>4 DEF MapsInv, MapsAgree, OwnIds, Plain, Handlers
    <3>2. reqId[g] # reqId[f]
      BY <2>1, <3>1, SubscriberAssumption DEF MapsInv, OwnIds, Req
    <3> QED
      BY <2>2, <3>1, <3>2
  <2>5. ASSUME NEW r \in Req, subTracks'[r] # None PROVE reqId'[subTracks'[r]] = r
    <3>1. r # reqId[f] /\ subTracks[r] \in Handlers /\ reqId[subTracks[r]] = r /\ subTracks'[r] = subTracks[r]
      BY <2>2, <2>5 DEF MapsInv, MapsAgree, Plain
    <3> QED
      BY <2>2, <3>1
  <2> QED
    BY <2>1, <2>3, <2>4, <2>5 DEF MapsInv, MapsAgree
<1>10. ASSUME NEW f \in Fetches, FetchStreamClosed(f) PROVE MapsInv'
  BY <1>1, <1>10, MapsFrame DEF FetchStreamClosed, conVars, mapVars, histVars
<1>11. CASE SubscribeOk
  <2>1. PICK h \in Subs : h = reply.h
    BY <1>11 DEF SubscribeOk, ReplyOf, NoReply
  <2>2. PICK a \in Req : a = reply.req
    BY <1>11 DEF SubscribeOk, ReplyOf, NoReply
  <2>3. /\ alias' = [alias EXCEPT ![h] = TRUE] /\ byAlias' = byAlias \cup {h}
        /\ stray' = IF Gone THEN stray \cup {h} ELSE stray \ {h}
        /\ UNCHANGED <<subTracks, reqId, nextReq>>
    BY <1>11, <2>1 DEF SubscribeOk
  <2>4. ~Gone => h # None /\ reqId[h] = a /\ a # None /\ subTracks[a] = h
    BY <2>1, <2>2, SubscriberAssumption DEF Gone, MapsInv, MapsAgree, Req
  <2>5. ASSUME NEW g \in byAlias' \ stray' PROVE alias'[g] /\ subTracks[reqId[g]] = g /\ reqId[g] # None
    <3>1. CASE g = h
      BY <2>1, <2>3, <2>4, <2>5, <3>1 DEF Plain
    <3>2. CASE g # h
      <4>1. g \in byAlias \ stray
        BY <2>3, <2>5, <3>2
      <4> QED
        BY <2>3, <3>2, <4>1 DEF MapsInv, MapsAgree, OwnIds, Plain
    <3> QED
      BY <3>1, <3>2
  <2> QED
    BY <2>3, <2>5 DEF MapsInv, MapsAgree, Fresh, OwnIds
<1>12. CASE SubscribeError
  <2>1. UNCHANGED <<reqId, alias, nextReq, stray>>
    BY <1>12 DEF SubscribeError
  <2>2. reply.h \in Subs /\ Erase(reply.h)
    BY <1>12 DEF SubscribeError, ReplyOf, NoReply
  <2> QED
    BY <2>1, <2>2, MapsErase
<1>13. CASE ProcessCtrlMessage \/ SubscribeOkEnd \/ PublishDone \/ FetchOk
  <2>1. UNCHANGED <<nextReq, reqId, alias, subTracks, byAlias, stray>>
    BY <1>13 DEF ProcessCtrlMessage, SubscribeOkEnd, PublishDone, FetchOk, Told, conVars, handlerVars, mapVars, histVars
  <2> QED
    BY <1>1, <2>1, MapsFrame
<1>14. CASE FetchError
  <2>1. PICK a \in Req : a = reply.req
    BY <1>14 DEF FetchError, Told, ReplyOf, NoReply
  <2>2. PICK f \in Fetches : f = reply.h
    BY <1>14 DEF FetchError, Told, ReplyOf, NoReply
  <2>3. UNCHANGED <<alias, byAlias, reqId, nextReq, stray>>
        /\ subTracks' = [subTracks EXCEPT ![a] = IF Gone THEN @ ELSE None]
    BY <1>14, <2>1 DEF FetchError, Told, histVars
  <2>4. \A r \in Req : subTracks'[r] = IF r = a /\ subTracks[a] = f THEN None ELSE subTracks[r]
    BY <2>1, <2>2, <2>3 DEF Plain, Gone
  <2>5. Fresh' /\ OwnIds'
    BY <2>3, <2>4 DEF MapsInv, Fresh, OwnIds
  <2>6. ASSUME NEW g \in byAlias \ stray PROVE alias[g] /\ subTracks'[reqId[g]] = g
    <3>1. g \in Subs /\ reqId[g] \in Req /\ subTracks[reqId[g]] = g /\ alias[g]
      BY <2>6 DEF MapsInv, MapsAgree, OwnIds, Plain, Handlers
    <3>2. g # f
      BY <3>1, SubscriberAssumption
    <3> QED
      BY <2>4, <3>1, <3>2
  <2> QED
    BY <2>3, <2>4, <2>5, <2>6 DEF MapsInv, MapsAgree
<1>15. CASE ConnectionLost \/ ConnectionErased
  <2>1. subTracks' = [r \in Req |-> None] /\ byAlias' = {} /\ UNCHANGED <<nextReq, reqId>>
    BY <1>15 DEF ConnectionLost, ConnectionErased, handlerVars
  <2> QED
    BY <2>1 DEF MapsInv, MapsAgree, Fresh, OwnIds
<1>16. CASE LateNotify \/ \E r \in Req : PeerAnswers(r, TRUE) \/ PeerAnswers(r, FALSE) \/ PeerEnds(r)
  <2>1. UNCHANGED <<nextReq, handlerVars, mapVars, stray>>
    BY <1>16 DEF LateNotify, PeerAnswers, PeerEnds, conVars, histVars
  <2> QED
    BY <1>1, <2>1, MapsFrame DEF handlerVars, mapVars
<1> QED
  BY <1>2, <1>3, <1>4, <1>5, <1>6, <1>7, <1>8, <1>9, <1>10, <1>11, <1>12, <1>13, <1>14, <1>15, <1>16 DEF Next

\* The map by alias and the map by request id agree at every moment, whatever runs
\* between the find of an answer and what is done with it; the one exception is a
\* SUBSCRIBE_OK whose request UnsubscribeTrack erases in between.
THEOREM MapsAlwaysAgree == ~Again => (Spec => []MapsAgree)
<1> SUFFICES ASSUME ~Again PROVE Spec => []MapsAgree
  OBVIOUS
<1> DEFINE Inv == TypeOK /\ CallOf /\ ReplyOf /\ MapsInv
<1>1. Init => Inv
  BY PlainInit, Splits, MapsInit
<1>2. Inv /\ [Next]_vars => Inv'
  <2> SUFFICES ASSUME Inv, [Next]_vars PROVE Inv'
    OBVIOUS
  <2>1. TypeOK' /\ CallOf' /\ ReplyOf'
    BY TypeNext
  <2>2. CASE Next
    BY <2>1, <2>2, MapsNext, Splits
  <2>3. CASE UNCHANGED vars
    <3>1. nextReq \in Int /\ nextReq <= nextReq /\ Plain
      BY Splits DEF Plain
    <3> QED
      BY <2>1, <2>3, <3>1, MapsFrame DEF vars, conVars, handlerVars, mapVars, histVars
  <2> QED
    BY <2>2, <2>3
<1>3. Inv => MapsAgree
  BY DEF MapsInv
<1> QED
  BY <1>1, <1>2, <1>3, PTL DEF Spec

-----------------------------------------------------------------------------
(* Request ids. *)

\* A call that has read the counter will find it unchanged.
IdsInv == call.op = "update" => call.rid = nextReq

LEMMA IdsNext ==
    ASSUME ~Overlap, IdsInv, Next
    PROVE  IdsInv'
<1>1. ASSUME NEW h \in Subs, Pause(h) \/ Resume(h) \/ RequestNewGroup(h) PROVE IdsInv'
  <2>1. UNCHANGED nextReq /\ (call' = call \/ call' = [op |-> "update", h |-> h, rid |-> nextReq])
    BY <1>1 DEF Pause, Resume, RequestNewGroup, UpdateBegin
  <2> QED
    BY <2>1 DEF IdsInv
<1>2. CASE call'.op # "update"
  BY <1>2 DEF IdsInv
<1>3. ASSUME \/ \E h \in Subs : SubscribeTrack(h) \/ UpdateTrackSubscription(h) \/ UnsubscribeTrack(h)
             \/ \E f \in Fetches : FetchTrack(f)
             \/ RequestTrackStatus \/ UpdateEnd \/ UnsubscribeEnd
      PROVE  call'.op # "update"
  BY <1>3 DEF SubscribeTrack, UpdateTrackSubscription, UnsubscribeTrack, FetchTrack, RequestTrackStatus, UpdateEnd,
              UnsubscribeEnd, AppFree, Idle
<1>4. CASE UNCHANGED <<nextReq, call>>
  BY <1>4 DEF IdsInv
<1>5. ASSUME \/ \E f \in Fetches : CancelFetchTrack(f) \/ FetchStreamClosed(f)
             \/ ProcessCtrlMessage
             \/ SubscribeOk \/ SubscribeOkEnd \/ SubscribeError \/ PublishDone \/ FetchOk \/ FetchError
             \/ ConnectionLost \/ ConnectionErased \/ LateNotify
             \/ \E r \in Req : PeerAnswers(r, TRUE) \/ PeerAnswers(r, FALSE) \/ PeerEnds(r)
      PROVE  UNCHANGED <<nextReq, call>>
  BY <1>5 DEF CancelFetchTrack, FetchStreamClosed, ProcessCtrlMessage, SubscribeOk, SubscribeOkEnd, SubscribeError,
              PublishDone, FetchOk, FetchError, Told, ConnectionLost, ConnectionErased, LateNotify, PeerAnswers,
              PeerEnds, conVars
<1> QED
  BY <1>1, <1>2, <1>3, <1>4, <1>5 DEF Next

-----------------------------------------------------------------------------
(* What the server holds. *)

Served == {"sub", "subOk"}
Unsaid == Status \ Removable
Errors ==
    {toClient[i].req : i \in {j \in DOMAIN toClient : toClient[j].type = "SubscribeError"}}
      \cup {r \in Req : reply.type = "SubscribeError" /\ reply.req = r}

HeldInv ==
    /\ \A r \in Req : peer[r] \in Served /\ subTracks[r] = None => silent[r] \in Unsaid
    /\ \A r \in Req : r >= nextReq => peer[r] = "none"
    /\ ctx # "open" => \A r \in Req : peer[r] \notin Served
    /\ \A r \in Errors : r \in Req /\ r < nextReq /\ peer[r] \notin Served
    /\ \A f \in Fetches : reqId[f] # None => peer[reqId[f]] \notin Served
    /\ call.op = "unsub" => peer[reqId[call.h]] \notin Served \/ silent[reqId[call.h]] \in Unsaid

\* What a step must show: it makes the server serve at most a new id of a registered
\* handler, forgets no id that is served, unless that was recorded, and reports errors
\* only for ids that are not.
HeldStep ==
    /\ nextReq <= nextReq'
    /\ \A r \in Req : peer'[r] \in Served =>
           peer[r] \in Served \/ (ctx' = "open" /\ nextReq <= r /\ r < nextReq' /\ subTracks'[r] # None)
    /\ \A r \in Req : peer'[r] # "none" => peer[r] # "none" \/ r < nextReq'
    /\ \A r \in Req : subTracks'[r] = None =>
           subTracks[r] = None \/ peer[r] \notin Served \/ peer'[r] \notin Served \/ silent'[r] \in Unsaid
    /\ \A r \in Req : silent[r] \in Unsaid => silent'[r] \in Unsaid
    /\ ctx' # "open" => ctx # "open" \/ \A r \in Req : peer'[r] \notin Served
    /\ \A r \in Errors' : r \in Errors \/ (r \in Req /\ r < nextReq' /\ peer'[r] \notin Served)
    /\ \A f \in Fetches : reqId'[f] # None => reqId'[f] = reqId[f] \/ peer'[reqId'[f]] \notin Served
    /\ call'.op = "unsub" =>
           \/ call' = call /\ reqId'[call.h] = reqId[call.h]
           \/ peer'[reqId'[call'.h]] \notin Served \/ silent'[reqId'[call'.h]] \in Unsaid

LEMMA HeldFrame ==
    ASSUME Plain, Plain', CallOf, MapsInv, HeldInv, HeldStep
    PROVE  HeldInv'
<1>1. nextReq \in Int /\ nextReq' \in Int /\ (\A r \in Req : r \in Int) /\ None \notin Req
  BY SubscriberAssumption DEF Plain, Req
<1>2. \A r \in Req : peer'[r] \in Served /\ subTracks'[r] = None => silent'[r] \in Unsaid
  BY DEF HeldInv, HeldStep
<1>3. \A r \in Req : r >= nextReq' => peer'[r] = "none"
  BY <1>1 DEF HeldInv, HeldStep
<1>4. ctx' # "open" => \A r \in Req : peer'[r] \notin Served
  BY DEF HeldInv, HeldStep
<1>5. \A r \in Errors' : r \in Req /\ r < nextReq' /\ peer'[r] \notin Served
  <2> SUFFICES ASSUME NEW r \in Errors PROVE r \in Req /\ r < nextReq' /\ peer'[r] \notin Served
    BY DEF HeldStep
  <2>1. r \in Req /\ r < nextReq /\ peer[r] \notin Served
    BY DEF HeldInv
  <2> QED
    BY <1>1, <2>1 DEF HeldStep
<1>6. \A f \in Fetches : reqId'[f] # None => peer'[reqId'[f]] \notin Served
  <2> SUFFICES ASSUME NEW f \in Fetches, reqId[f] # None PROVE peer'[reqId[f]] \notin Served
    BY DEF HeldStep
  <2>1. reqId[f] \in Req /\ reqId[f] < nextReq /\ peer[reqId[f]] \notin Served
    BY DEF HeldInv, MapsInv, OwnIds, Plain, Handlers
  <2> QED
    BY <1>1, <2>1 DEF HeldStep
<1>7. call'.op = "unsub" => peer'[reqId'[call'.h]] \notin Served \/ silent'[reqId'[call'.h]] \in Unsaid
  <2> SUFFICES ASSUME call' = call, call.op = "unsub", reqId'[call.h] = reqId[call.h]
               PROVE  peer'[reqId[call.h]] \notin Served \/ silent'[reqId[call.h]] \in Unsaid
    BY DEF HeldStep
  <2>1. call.h \in Handlers /\ reqId[call.h] \in Req
    BY DEF CallOf, Handlers
  <2>2. reqId[call.h] < nextReq
    BY <1>1, <2>1 DEF MapsInv, OwnIds
  <2>3. peer[reqId[call.h]] \notin Served \/ silent[reqId[call.h]] \in Unsaid
    BY DEF HeldInv
  <2> QED
    BY <1>1, <2>1, <2>2, <2>3 DEF HeldStep
<1> QED
  BY <1>2, <1>3, <1>4, <1>5, <1>6, <1>7 DEF HeldInv

\* The errors under way after an answer, and after a receipt.
LEMMA ErrorsAnswer ==
    ASSUME toClient \in Seq(Msg), NEW t \in {"SubscribeOk", "SubscribeError", "PublishDone", "FetchOk",
                                             "FetchError", "TrackStatusResponse"},
           NEW r \in Req, Answer(t, r), UNCHANGED reply
    PROVE  \A e \in Errors' : e \in Errors \/ (t = "SubscribeError" /\ e = r)
<1> DEFINE m == [type |-> t, req |-> r]
<1>1. m \in Msg /\ m.type = t /\ m.req = r
  BY DEF Msg
<1>2. PICK n \in Nat : n = Len(toClient)
  OBVIOUS
<1>3. toClient' = Append(toClient, m)
  BY DEF Answer
<1>4. /\ DOMAIN toClient = 1 .. n /\ Len(toClient') = n + 1 /\ toClient' \in Seq(Msg)
      /\ (\A i \in 1 .. n : toClient'[i] = toClient[i]) /\ toClient'[n + 1] = m
  BY <1>1, <1>2, <1>3, AppendProperties
<1>5. DOMAIN toClient' = 1 .. n + 1
  BY <1>4
<1>6. \A i \in 1 .. n + 1 : i \in 1 .. n \/ i = n + 1
  OBVIOUS
<1> HIDE DEF m
<1> QED
  BY <1>1, <1>4, <1>5, <1>6 DEF Errors

LEMMA ErrorsReceive ==
    ASSUME toClient \in Seq(Msg), ProcessCtrlMessage
    PROVE  \A e \in Errors' : e \in Errors
<1>1. toClient # <<>> /\ toClient' = Tail(toClient)
  BY DEF ProcessCtrlMessage
<1>2. PICK l \in Nat : l = Len(toClient)
  OBVIOUS
<1>3. l # 0
  BY <1>1, <1>2, EmptySeq
<1>4. DOMAIN toClient = 1 .. l /\ Head(toClient) = toClient[1]
  BY <1>1, <1>2
<1>5. 1 \in 1 .. l
  BY <1>3
<1>6. /\ Len(toClient') = l - 1 /\ toClient' \in Seq(Msg)
      /\ \A i \in 1 .. l - 1 : toClient'[i] = toClient[i + 1]
  BY <1>1, <1>2, HeadTailProperties
<1>7. DOMAIN toClient' = 1 .. l - 1
  BY <1>6
<1>8. \A i \in 1 .. l - 1 : i + 1 \in 1 .. l
  BY <1>3
<1>9. ASSUME reply'.type = "SubscribeError" PROVE Head(toClient).type = "SubscribeError" /\ reply'.req = Head(toClient).req
  <2>1. PICK m : m = Head(toClient)
    OBVIOUS
  <2>2. \/ reply' = [type |-> m.type, h |-> subTracks[m.req], req |-> m.req]
        \/ reply' = NoReply
    BY <2>1 DEF ProcessCtrlMessage
  <2> QED
    BY <1>9, <2>1, <2>2 DEF NoReply
<1>10. ASSUME NEW i \in 1 .. l, toClient[i].type = "SubscribeError" PROVE toClient[i].req \in Errors
  BY <1>4, <1>10 DEF Errors
<1>11. ASSUME NEW e \in Errors' PROVE e \in Errors
  <2>1. CASE reply'.type = "SubscribeError" /\ reply'.req = e
    BY <1>4, <1>5, <1>9, <1>10, <2>1
  <2>2. ASSUME NEW i \in 1 .. l - 1, toClient'[i].type = "SubscribeError", e = toClient'[i].req PROVE e \in Errors
    BY <1>6, <1>8, <1>10, <2>2
  <2> QED
    BY <1>7, <1>11, <2>1, <2>2 DEF Errors
<1> QED
  BY <1>11

LEMMA ErrorsUpdate ==
    ASSUME Plain, toClient \in Seq(Msg), NEW u \in Req, NEW r, SendSubscribeUpdate(u, r), UNCHANGED reply
    PROVE  \A e \in Errors' : e \in Errors \/ e = u
<1>1. CASE UNCHANGED toClient
  BY <1>1 DEF Errors
<1>2. CASE Answer("SubscribeError", u)
  BY <1>2, ErrorsAnswer
<1> QED
  BY <1>1, <1>2 DEF SendSubscribeUpdate

LEMMA ErrorsSame == UNCHANGED <<toClient, reply>> => Errors' = Errors
BY DEF Errors
\* The server's view after a message.
LEMMA SendEffect ==
    ASSUME Plain, NEW p \in [Req -> Views], NEW a \in Req, NEW v
    PROVE  \A r \in Req : SendCtrlMsg(p, a, v)[r] = IF r = a /\ ctx = "open" THEN v ELSE p[r]
BY DEF SendCtrlMsg

LEMMA HeldAsks ==
    ASSUME ~Overlap, Plain, CallOf, MapsInv, HeldInv, IdsInv, toClient \in Seq(Msg),
           \/ \E h \in Subs : SubscribeTrack(h) \/ UpdateTrackSubscription(h)
           \/ \E f \in Fetches : FetchTrack(f)
           \/ RequestTrackStatus
    PROVE  HeldStep
<1>1. nextReq \in Int /\ (\A r \in Req : r \in Int) /\ None \notin Req /\ None \notin Handlers
  BY SubscriberAssumption DEF Plain, Req, Handlers
<1>2. /\ UNCHANGED <<ctx, silent, call, reply>> /\ call.op = "idle"
      /\ \A r \in Req : r >= nextReq => peer[r] = "none" /\ peer[r] \notin Served
  BY DEF SubscribeTrack, UpdateTrackSubscription, FetchTrack, RequestTrackStatus, AppFree, Idle, HeldInv, Served
<1>3. ASSUME NEW n \in {1, 2}, Requested(n)
      PROVE  /\ nextReq' = nextReq + n /\ nextReq <= nextReq' /\ nextReq < nextReq' /\ nextReq \in Req
             /\ nextReq' \in Int /\ \A i \in 0 .. n - 1 : nextReq + i \in Req
  <2>1. nextReq' = nextReq + n /\ \A i \in 0 .. n - 1 : nextReq + i \in Req
    BY <1>3, RequestedType
  <2>2. 0 \in 0 .. n - 1 /\ nextReq + 0 = nextReq /\ nextReq < nextReq + n /\ nextReq + n \in Int
    BY <1>1
  <2>3. nextReq <= nextReq + n
    BY <1>1
  <2> QED
    BY <2>1, <2>2, <2>3
<1>4. ASSUME NEW h \in Subs, SubscribeTrack(h) PROVE HeldStep
  <2>1. PICK n \in {1, 2} : Requested(n) /\ (h \in Joining => n = 2) /\ (h \notin Joining => n = 1)
    BY <1>4 DEF SubscribeTrack
  <2>2. /\ nextReq' = nextReq + n /\ nextReq <= nextReq' /\ nextReq < nextReq' /\ nextReq \in Req
        /\ nextReq' \in Int /\ \A i \in 0 .. n - 1 : nextReq + i \in Req
    BY <1>3, <2>1
  <2>3. \A r \in Req : SendSubscribe(peer, h, nextReq)[r] =
            IF r = nextReq /\ ctx = "open" /\ h \notin Absolute THEN "sub" ELSE peer[r]
    BY <2>2, SendEffect DEF SendSubscribe, Plain
  <2>4. \A r \in Req : \/ peer'[r] = peer[r]
                       \/ r = nextReq /\ ctx = "open" /\ peer'[r] = "sub"
                       \/ r = nextReq + 1 /\ n = 2 /\ peer'[r] = "fetch"
    <3>1. CASE h \notin Joining
      BY <1>4, <2>3, <3>1 DEF SubscribeTrack
    <3>2. CASE h \in Joining
      <4>1. n = 2 /\ nextReq + 1 \in Req
        BY <2>1, <2>2, <3>2
      <4>2. SendSubscribe(peer, h, nextReq) \in [Req -> Views]
        BY SendType DEF SendSubscribe, Plain, Views
      <4>3. \A r \in Req : SendJoiningFetch(SendSubscribe(peer, h, nextReq), nextReq + 1)[r] =
                IF r = nextReq + 1 /\ ctx = "open" THEN "fetch" ELSE SendSubscribe(peer, h, nextReq)[r]
        BY <4>1, <4>2, SendEffect DEF SendJoiningFetch
      <4> QED
        BY <1>4, <2>3, <3>2, <4>1, <4>3 DEF SubscribeTrack
    <3> QED
      BY <3>1, <3>2
  <2>5. /\ subTracks'[nextReq] = h /\ h # None /\ \A r \in Req : r # nextReq => subTracks'[r] = subTracks[r]
        /\ \A f \in Fetches : reqId'[f] = reqId[f]
    BY <1>1, <1>4, <2>2, SubscriberAssumption DEF SubscribeTrack, Plain, Handlers
  <2>6. Errors' = Errors
    BY <1>2, <1>4, ErrorsSame DEF SubscribeTrack
  <2>7. \A r \in Req : peer'[r] # "none" => peer[r] # "none" \/ r < nextReq'
    BY <1>1, <2>2, <2>4
  <2>8. \A r \in Req : peer'[r] \in Served =>
           peer[r] \in Served \/ (ctx' = "open" /\ nextReq <= r /\ r < nextReq' /\ subTracks'[r] # None)
    BY <1>1, <1>2, <2>2, <2>4, <2>5 DEF Served
  <2> QED
    BY <1>2, <2>2, <2>5, <2>6, <2>7, <2>8 DEF HeldStep
<1>5. ASSUME NEW h \in Subs, UpdateTrackSubscription(h) PROVE HeldStep
  <2>1. Requested(1) /\ UNCHANGED <<reqId, subTracks, peer>> /\ SendSubscribeUpdate(nextReq, reqId[h])
    BY <1>5 DEF UpdateTrackSubscription, handlerVars, mapVars
  <2>2. nextReq <= nextReq' /\ nextReq < nextReq' /\ nextReq \in Req
    BY <1>3, <2>1
  <2>3. \A e \in Errors' : e \in Errors \/ e = nextReq
    BY <1>2, <2>1, <2>2, ErrorsUpdate
  <2>4. peer'[nextReq] \notin Served
    BY <1>1, <1>2, <2>1, <2>2
  <2> QED
    BY <1>2, <2>1, <2>2, <2>3, <2>4 DEF HeldStep
<1>6. ASSUME NEW a \in {"fetch", "status"}, Requested(1), peer' = SendCtrlMsg(peer, nextReq, a)
      PROVE  /\ nextReq <= nextReq' /\ nextReq \in Req
             /\ \A r \in Req : peer'[r] \in Served => peer[r] \in Served
             /\ \A r \in Req : peer'[r] # "none" => peer[r] # "none" \/ r < nextReq'
             /\ peer'[nextReq] \notin Served
  <2>1. nextReq <= nextReq' /\ nextReq < nextReq' /\ nextReq \in Req
    BY <1>3, <1>6
  <2>2. \A r \in Req : peer'[r] = IF r = nextReq /\ ctx = "open" THEN a ELSE peer[r]
    BY <1>6, <2>1, SendEffect DEF Plain
  <2>3. peer[nextReq] \notin Served
    BY <1>1, <1>2, <2>1
  <2> QED
    BY <1>6, <2>1, <2>2, <2>3 DEF Served
<1>7. ASSUME NEW f \in Fetches, FetchTrack(f) PROVE HeldStep
  <2>1. /\ Requested(1) /\ peer' = SendCtrlMsg(peer, nextReq, "fetch")
        /\ reqId' = [reqId EXCEPT ![f] = nextReq] /\ subTracks' = [subTracks EXCEPT ![nextReq] = f]
        /\ UNCHANGED toClient
    BY <1>7 DEF FetchTrack, SendFetch
  <2>2. /\ nextReq <= nextReq' /\ nextReq \in Req
        /\ \A r \in Req : peer'[r] \in Served => peer[r] \in Served
        /\ \A r \in Req : peer'[r] # "none" => peer[r] # "none" \/ r < nextReq'
        /\ peer'[nextReq] \notin Served
    BY <1>6, <2>1
  <2>3. Errors' = Errors
    BY <1>2, <2>1, ErrorsSame
  <2>4. \A r \in Req : subTracks'[r] = None => subTracks[r] = None
    BY <1>1, <2>1, <2>2 DEF Plain, Handlers
  <2>5. \A g \in Fetches : reqId'[g] = reqId[g] \/ reqId'[g] = nextReq
    BY <2>1 DEF Plain, Handlers
  <2> QED
    BY <1>2, <2>2, <2>3, <2>4, <2>5 DEF HeldStep
<1>8. CASE RequestTrackStatus
  <2>1. /\ Requested(1) /\ peer' = SendCtrlMsg(peer, nextReq, "status")
        /\ UNCHANGED <<toClient, reqId, subTracks>>
    BY <1>8 DEF RequestTrackStatus, SendTrackStatus, handlerVars, mapVars
  <2>2. /\ nextReq <= nextReq' /\ nextReq \in Req
        /\ \A r \in Req : peer'[r] \in Served => peer[r] \in Served
        /\ \A r \in Req : peer'[r] # "none" => peer[r] # "none" \/ r < nextReq'
        /\ peer'[nextReq] \notin Served
    BY <1>6, <2>1
  <2>3. Errors' = Errors
    BY <1>2, <2>1, ErrorsSame
  <2> QED
    BY <1>2, <2>1, <2>2, <2>3 DEF HeldStep
<1> QED
  BY <1>4, <1>5, <1>7, <1>8

LEMMA HeldCalls ==
    ASSUME ~Overlap, Plain, CallOf, MapsInv, HeldInv, IdsInv, toClient \in Seq(Msg),
           \/ \E h \in Subs : UnsubscribeTrack(h) \/ Pause(h) \/ Resume(h) \/ RequestNewGroup(h)
           \/ UnsubscribeEnd \/ UpdateEnd
           \/ \E f \in Fetches : CancelFetchTrack(f) \/ FetchStreamClosed(f)
    PROVE  HeldStep
<1>1. nextReq \in Int /\ nextReq <= nextReq /\ (\A r \in Req : r \in Int) /\ None \notin Req /\ None \notin Handlers
  BY SubscriberAssumption DEF Plain, Req, Handlers
<1>r. UNCHANGED reply
  BY DEF UnsubscribeTrack, Pause, Resume, RequestNewGroup, UpdateBegin, UnsubscribeEnd, UpdateEnd, CancelFetchTrack,
         FetchStreamClosed
<1>2. ASSUME NEW h \in Subs, UnsubscribeTrack(h) PROVE HeldStep
  <2>1. /\ reqId[h] \in Req /\ ctx' \in {ctx, "blank"} /\ (ctx' # ctx => ctx # "open")
        /\ call' = [op |-> "unsub", h |-> h, rid |-> reqId[h]]
        /\ UNCHANGED <<nextReq, reqId, subTracks, toClient>>
    BY <1>2 DEF UnsubscribeTrack, Plain, Handlers, mapVars
  <2>2. Errors' = Errors
    BY <1>r, <2>1, ErrorsSame
  <2>3. /\ \A r \in Req : (peer'[r] \in Served => peer[r] \in Served) /\ (peer'[r] # "none" => peer[r] # "none" \/ r < nextReq)
        /\ \A r \in Req : silent[r] \in Unsaid => silent'[r] \in Unsaid
        /\ peer'[reqId[h]] \notin Served \/ silent'[reqId[h]] \in Unsaid
    <3>1. CASE status[h] \in Removable
      <4>1. peer' = SendCtrlMsg(peer, reqId[h], "over") /\ UNCHANGED silent
        BY <1>2, <3>1 DEF UnsubscribeTrack, SendUnsubscribe
      <4>2. \A r \in Req : peer'[r] = IF r = reqId[h] /\ ctx = "open" THEN "over" ELSE peer[r]
        BY <2>1, <4>1, SendEffect DEF Plain
      <4>3. reqId[h] < nextReq /\ (ctx # "open" => peer[reqId[h]] \notin Served)
        BY <1>1, <2>1 DEF HeldInv, MapsInv, OwnIds, Handlers
      <4> QED
        BY <2>1, <4>1, <4>2, <4>3 DEF Served
    <3>2. CASE status[h] \notin Removable
      <4>1. silent' = [silent EXCEPT ![reqId[h]] = status[h]] /\ UNCHANGED peer
        BY <1>2, <3>2 DEF UnsubscribeTrack
      <4>2. status[h] \in Unsaid
        BY <3>2 DEF Unsaid, Plain, Handlers
      <4> QED
        BY <2>1, <4>1, <4>2 DEF Plain
    <3> QED
      BY <3>1, <3>2
  <2>4. call'.h = h
    BY <2>1
  <2> QED
    BY <1>1, <2>1, <2>2, <2>3, <2>4 DEF HeldStep
<1>3. ASSUME NEW h \in Subs, Pause(h) \/ Resume(h) \/ RequestNewGroup(h) PROVE HeldStep
  <2>1. /\ UNCHANGED <<ctx, nextReq, reqId, subTracks, peer, toClient, silent>>
        /\ call' = call \/ call' = [op |-> "update", h |-> h, rid |-> nextReq]
    BY <1>3 DEF Pause, Resume, RequestNewGroup, UpdateBegin, mapVars, peerVars
  <2>2. call'.op = "unsub" => call' = call
    BY <2>1
  <2>3. Errors' = Errors
    BY <1>r, <2>1, ErrorsSame
  <2> QED
    BY <1>1, <2>1, <2>2, <2>3 DEF HeldStep
<1>4. CASE UnsubscribeEnd
  <2>1. /\ call.op = "unsub" /\ call'.op = "idle" /\ call.h \in Subs
        /\ UNCHANGED <<ctx, nextReq, reqId, peer, toClient, silent>>
    BY <1>4 DEF UnsubscribeEnd, Idle, CallOf, handlerVars, peerVars
  <2>2. Errors' = Errors
    BY <1>r, <2>1, ErrorsSame
  <2>3. \A r \in Req : subTracks'[r] = subTracks[r] \/ r = reqId[call.h]
    BY <1>4 DEF UnsubscribeEnd, Erase, mapVars, Plain
  <2>4. peer[reqId[call.h]] \notin Served \/ silent[reqId[call.h]] \in Unsaid
    BY <2>1 DEF HeldInv
  <2> QED
    BY <1>1, <2>1, <2>2, <2>3, <2>4 DEF HeldStep
<1>5. CASE UpdateEnd
  <2>1. /\ call.rid = nextReq /\ call.rid \in Req /\ call'.op = "idle"
        /\ UNCHANGED <<ctx, reqId, subTracks, peer, silent>>
    BY <1>5 DEF UpdateEnd, IdsInv, CallOf, Idle, handlerVars, mapVars
  <2>2. CASE UNCHANGED <<nextReq, toClient>>
    BY <1>1, <1>r, <2>1, <2>2, ErrorsSame DEF HeldStep
  <2>3. CASE nextReq' = nextReq + 1 /\ SendSubscribeUpdate(call.rid, reqId[call.h])
    <3>1. \A e \in Errors' : e \in Errors \/ e = nextReq
      BY <1>r, <2>1, <2>3, ErrorsUpdate
    <3>2. nextReq <= nextReq' /\ nextReq < nextReq' /\ nextReq \in Req
      BY <1>1, <2>1, <2>3
    <3>3. peer'[nextReq] \notin Served
      BY <1>1, <2>1 DEF HeldInv, Served
    <3> QED
      BY <2>1, <3>1, <3>2, <3>3 DEF HeldStep
  <2> QED
    BY <1>5, <2>2, <2>3 DEF UpdateEnd
<1>6. ASSUME NEW f \in Fetches, CancelFetchTrack(f) PROVE HeldStep
  <2>1. /\ reqId[f] \in Req /\ f \in Handlers
        /\ subTracks' = [subTracks EXCEPT ![reqId[f]] = None] /\ reqId' = [reqId EXCEPT ![f] = None]
        /\ UNCHANGED <<ctx, nextReq, call, toClient, silent>>
        /\ peer' = peer \/ peer' = SendCtrlMsg(peer, reqId[f], "over")
    BY <1>6 DEF CancelFetchTrack, SendFetchCancel, Plain, Handlers, histVars
  <2>2. Errors' = Errors
    BY <1>r, <2>1, ErrorsSame
  <2>3. peer[reqId[f]] \notin Served /\ reqId[f] < nextReq
    BY <1>1, <2>1 DEF HeldInv, MapsInv, OwnIds
  <2>4. \A r \in Req : peer'[r] = peer[r] \/ (r = reqId[f] /\ peer'[r] = "over")
    BY <2>1, SendEffect, SMTT(40) DEF Plain
  <2>5. /\ \A r \in Req : peer'[r] \in Served => peer[r] \in Served
        /\ \A r \in Req : peer'[r] # "none" => peer[r] # "none" \/ r < nextReq'
    BY <2>1, <2>3, <2>4 DEF Served
  <2>6. \A r \in Req : subTracks'[r] = subTracks[r] \/ r = reqId[f]
    BY <2>1 DEF Plain
  <2>7. \A g \in Handlers : g # f => reqId'[g] = reqId[g]
    BY <2>1 DEF Plain
  <2>8. \A g \in Fetches : reqId'[g] # None => reqId'[g] = reqId[g]
    BY <2>1 DEF Plain, Handlers
  <2>9. call.op = "unsub" => reqId'[call.h] = reqId[call.h]
    BY <2>7, SubscriberAssumption DEF CallOf, Handlers
  <2> QED
    BY <1>1, <2>1, <2>2, <2>3, <2>5, <2>6, <2>8, <2>9 DEF HeldStep
<1>7. ASSUME NEW f \in Fetches, FetchStreamClosed(f) PROVE HeldStep
  <2>1. UNCHANGED <<ctx, nextReq, call, reqId, subTracks, peer, toClient, silent>>
    BY <1>7 DEF FetchStreamClosed, conVars, mapVars, peerVars, histVars
  <2> QED
    BY <1>1, <1>r, <2>1, ErrorsSame DEF HeldStep
<1> QED
  BY <1>2, <1>3, <1>4, <1>5, <1>6, <1>7

LEMMA HeldReplies ==
    ASSUME Plain, CallOf, ReplyOf, MapsInv, HeldInv, toClient \in Seq(Msg),
           \/ ProcessCtrlMessage
           \/ SubscribeOk \/ SubscribeOkEnd \/ SubscribeError \/ PublishDone \/ FetchOk \/ FetchError
    PROVE  HeldStep
<1>1. nextReq \in Int /\ nextReq <= nextReq /\ None \notin Subs /\ None \notin Fetches /\ None \notin Req
  BY SubscriberAssumption DEF Plain, Req
<1>2. UNCHANGED <<ctx, nextReq, reqId, call, peer>>
  BY DEF ProcessCtrlMessage, SubscribeOk, SubscribeOkEnd, SubscribeError, PublishDone, FetchOk, FetchError, Told,
         conVars, peerVars, handlerVars
<1>3. \A e \in Errors' : e \in Errors
  <2>1. CASE ProcessCtrlMessage
    BY <2>1, ErrorsReceive
  <2>2. CASE UNCHANGED toClient /\ reply'.type # "SubscribeError"
    BY <2>2 DEF Errors
  <2>3. ASSUME SubscribeOk PROVE reply'.type = "Aliased"
    BY <2>3 DEF SubscribeOk, Plain, Answers
  <2>4. (UNCHANGED toClient /\ (SubscribeOk \/ reply'.type = "none")) \/ ProcessCtrlMessage
    BY DEF SubscribeOk, SubscribeOkEnd, SubscribeError, PublishDone, FetchOk, FetchError, Told, NoReply, peerVars
  <2> QED
    BY <2>1, <2>2, <2>3, <2>4
<1>4. ASSUME \A r \in Req : subTracks'[r] = subTracks[r] \/ peer[r] \notin Served \/ silent'[r] \in Unsaid,
             \A r \in Req : silent'[r] = silent[r] \/ silent'[r] \in Unsaid
      PROVE  HeldStep
  BY <1>1, <1>2, <1>3, <1>4 DEF HeldStep
<1>5. CASE ProcessCtrlMessage \/ SubscribeOk \/ SubscribeOkEnd \/ PublishDone \/ FetchOk
  <2>1. UNCHANGED <<subTracks, silent>>
    BY <1>5 DEF ProcessCtrlMessage, SubscribeOk, SubscribeOkEnd, PublishDone, FetchOk, Told, mapVars, histVars
  <2> QED
    BY <1>4, <2>1
<1>6. CASE SubscribeError
  <2>1. PICK a \in Req : a = reply.req
    BY <1>6 DEF SubscribeError, ReplyOf, NoReply
  <2>2. peer[a] \notin Served
    BY <1>6, <2>1 DEF SubscribeError, HeldInv, Errors
  <2>3. PICK h \in Subs : h = reply.h
    BY <1>6 DEF SubscribeError, ReplyOf, NoReply
  <2>4. Erase(h) /\ silent' = IF reqId[h] # a THEN [silent EXCEPT ![reqId[h]] = "kError"] ELSE silent
    BY <1>6, <2>1, <2>3 DEF SubscribeError
  <2>5. \A r \in Req : subTracks'[r] = subTracks[r] \/ r = reqId[h]
    BY <2>4 DEF Erase, Plain
  <2>6. "kError" \in Unsaid
    BY DEF Unsaid, Status, Removable
  <2>7. \A r \in Req : silent'[r] = silent[r] \/ silent'[r] \in Unsaid
    BY <2>4, <2>6 DEF Plain
  <2>8. reqId[h] # a /\ reqId[h] \in Req => silent'[reqId[h]] \in Unsaid
    BY <2>4, <2>6 DEF Plain
  <2> QED
    BY <1>4, <2>2, <2>5, <2>7, <2>8
<1>7. CASE FetchError
  <2>1. PICK a \in Req : a = reply.req
    BY <1>7 DEF FetchError, Told, ReplyOf, NoReply
  <2>2. PICK f \in Fetches : f = reply.h
    BY <1>7 DEF FetchError, Told, ReplyOf, NoReply
  <2>3. subTracks' = [subTracks EXCEPT ![a] = IF Gone THEN @ ELSE None] /\ UNCHANGED silent
    BY <1>7, <2>1 DEF FetchError, Told, histVars
  <2>4. ~Gone => reqId[f] = a
    BY <1>1, <2>1, <2>2 DEF Gone, MapsInv, MapsAgree
  <2>5. ~Gone => peer[a] \notin Served
    BY <1>1, <2>2, <2>4 DEF HeldInv
  <2>6. \A r \in Req : subTracks'[r] = subTracks[r] \/ (r = a /\ ~Gone)
    BY <2>3 DEF Plain
  <2> QED
    BY <1>4, <2>3, <2>5, <2>6
<1> QED
  BY <1>5, <1>6, <1>7

LEMMA HeldOthers ==
    ASSUME Plain, CallOf, MapsInv, HeldInv, toClient \in Seq(Msg),
           \/ ConnectionLost \/ ConnectionErased \/ LateNotify
           \/ \E r \in Req : PeerAnswers(r, TRUE) \/ PeerAnswers(r, FALSE) \/ PeerEnds(r)
    PROVE  HeldStep
<1>1. nextReq \in Int /\ nextReq <= nextReq /\ (\A r \in Req : r \in Int)
  BY SubscriberAssumption DEF Plain, Req
<1>2. UNCHANGED <<nextReq, reqId, call, silent, reply>>
  BY DEF ConnectionLost, ConnectionErased, LateNotify, PeerAnswers, PeerEnds, conVars, handlerVars, histVars
<1>3. CASE ConnectionLost
  <2>1. peer' = [r \in Req |-> IF peer[r] = "none" THEN "none" ELSE "over"] /\ toClient' = <<>>
    BY <1>3 DEF ConnectionLost
  <2>2. \A r \in Req : peer'[r] \notin Served /\ (peer'[r] # "none" => peer[r] # "none")
    BY <2>1 DEF Served
  <2>3. Errors' = {}
    BY <1>2, <1>3, <2>1 DEF Errors, ConnectionLost, NoReply
  <2> QED
    BY <1>1, <1>2, <2>2, <2>3 DEF HeldStep
<1>4. CASE ConnectionErased \/ LateNotify
  <2>1. ctx # "open" /\ UNCHANGED <<peer, toClient>>
    BY <1>4 DEF ConnectionErased, LateNotify, peerVars
  <2>2. \A r \in Req : peer[r] \notin Served
    BY <2>1 DEF HeldInv
  <2> QED
    BY <1>1, <1>2, <2>1, <2>2, ErrorsSame DEF HeldStep
<1>5. ASSUME NEW a \in Req, NEW v \in Views, peer' = [peer EXCEPT ![a] = v], peer[a] # "none",
             v \in Served => peer[a] \in Served,
             \A e \in Errors' : e \in Errors \/ (v \notin Served /\ e = a),
             UNCHANGED <<ctx, subTracks>>
      PROVE  HeldStep
  <2>1. \A r \in Req : peer'[r] = IF r = a THEN v ELSE peer[r]
    BY <1>5 DEF Plain
  <2>2. a < nextReq
    BY <1>1, <1>5 DEF HeldInv
  <2> QED
    BY <1>1, <1>2, <1>5, <2>1, <2>2 DEF HeldStep
<1>6. ASSUME NEW a \in Req, NEW ok \in BOOLEAN, PeerAnswers(a, ok) PROVE HeldStep
  <2>1. UNCHANGED <<ctx, subTracks>>
    BY <1>6 DEF PeerAnswers, conVars, mapVars
  <2>2. CASE peer[a] = "sub" /\ ok /\ peer' = [peer EXCEPT ![a] = "subOk"] /\ Answer("SubscribeOk", a)
    BY <1>2, <1>5, <2>1, <2>2, ErrorsAnswer DEF Served, Views
  <2>3. CASE peer[a] = "sub" /\ peer' = [peer EXCEPT ![a] = "over"] /\ Answer("SubscribeError", a)
    BY <1>2, <1>5, <2>1, <2>3, ErrorsAnswer DEF Served, Views
  <2>4. CASE peer[a] = "fetch" /\ peer' = [peer EXCEPT ![a] = "fetchOk"] /\ Answer("FetchOk", a)
    BY <1>2, <1>5, <2>1, <2>4, ErrorsAnswer DEF Served, Views
  <2>5. CASE peer[a] = "fetch" /\ peer' = [peer EXCEPT ![a] = "over"] /\ Answer("FetchError", a)
    BY <1>2, <1>5, <2>1, <2>5, ErrorsAnswer DEF Served, Views
  <2>6. CASE peer[a] = "status" /\ peer' = [peer EXCEPT ![a] = "over"] /\ Answer("TrackStatusResponse", a)
    BY <1>2, <1>5, <2>1, <2>6, ErrorsAnswer DEF Served, Views
  <2>7. CASE ok = TRUE
    BY <1>6, <2>2, <2>4, <2>6, <2>7 DEF PeerAnswers
  <2>8. CASE ok = FALSE
    BY <1>6, <2>3, <2>5, <2>8 DEF PeerAnswers
  <2> QED
    BY <2>7, <2>8
<1>7. ASSUME NEW a \in Req, PeerEnds(a) PROVE HeldStep
  <2>1. UNCHANGED <<ctx, subTracks>> /\ peer[a] = "subOk" /\ peer' = [peer EXCEPT ![a] = "over"] /\ Answer("PublishDone", a)
    BY <1>7 DEF PeerEnds, conVars, mapVars
  <2> QED
    BY <1>2, <1>5, <2>1, ErrorsAnswer DEF Served, Views
<1> QED
  BY <1>3, <1>4, <1>6, <1>7

LEMMA HeldInit == Init => IdsInv /\ HeldInv
<1> SUFFICES ASSUME Init PROVE IdsInv /\ HeldInv
  OBVIOUS
<1>1. IdsInv
  BY DEF Init, IdsInv, Idle
<1>2. Errors = {}
  BY DEF Init, Errors, NoReply
<1>3. \A r \in Req : peer[r] = "none"
  BY DEF Init
<1>4. call.op = "idle" /\ \A f \in Fetches : reqId[f] = None
  BY DEF Init, Idle, Handlers
<1> QED
  BY <1>1, <1>2, <1>3, <1>4 DEF HeldInv, Served, Init

\* The inductive invariant behind NoOrphan.
IInv == TypeOK /\ CallOf /\ ReplyOf /\ MapsInv /\ IdsInv /\ HeldInv

LEMMA IInvNext == ~Overlap /\ ~Again /\ IInv /\ [Next]_vars => IInv'
<1> SUFFICES ASSUME ~Overlap, ~Again, IInv, [Next]_vars PROVE IInv'
  OBVIOUS
<1>1. Plain /\ CallOf /\ ReplyOf /\ MapsInv /\ IdsInv /\ HeldInv /\ toClient \in Seq(Msg)
  BY Splits DEF IInv
<1>2. TypeOK' /\ CallOf' /\ ReplyOf'
  BY TypeNext DEF IInv
<1>3. Plain'
  BY <1>2 DEF TypeOK, Plain, Calls, Answers, Views
<1>4. CASE Next
  <2>1. HeldStep
    BY <1>1, <1>4, HeldAsks, HeldCalls, HeldReplies, HeldOthers DEF Next
  <2>2. HeldInv'
    BY <1>1, <1>3, <2>1, HeldFrame
  <2> QED
    BY <1>1, <1>2, <1>4, <2>2, MapsNext, IdsNext DEF IInv
<1>5. CASE UNCHANGED vars
  <2>1. UNCHANGED <<nextReq, ctx, call, reqId, alias, subTracks, byAlias, peer, toClient, reply, silent, stray>>
    BY <1>5 DEF vars, conVars, handlerVars, mapVars, peerVars, histVars
  <2>2. MapsInv'
    BY <1>1, <2>1 DEF MapsInv, MapsAgree, Fresh, OwnIds
  <2>3. IdsInv' /\ HeldInv'
    BY <1>1, <2>1, ErrorsSame DEF IdsInv, HeldInv
  <2> QED
    BY <1>2, <2>2, <2>3 DEF IInv
<1> QED
  BY <1>4, <1>5

\* While one thread of the application uses a connection, the server holds no
\* subscription that the client has lost, except the ones UnsubscribeTrack dropped in
\* a status for which it sends no UNSUBSCRIBE and the ones an old SUBSCRIBE_ERROR took.
THEOREM NoOrphans == ~Overlap /\ ~Again => (Spec => []NoOrphan)
<1> SUFFICES ASSUME ~Overlap, ~Again PROVE Spec => []NoOrphan
  OBVIOUS
<1>1. Init => IInv
  BY PlainInit, Splits, MapsInit, HeldInit DEF IInv
<1>2. IInv => NoOrphan
  BY DEF IInv, HeldInv, NoOrphan, Served, Unsaid
<1>3. IInv /\ [Next]_vars => IInv'
  BY IInvNext
<1> QED
  BY <1>1, <1>2, <1>3, PTL DEF Spec

-----------------------------------------------------------------------------
(* A handler that is kOk is served. *)

\* The PUBLISH_DONE of request r is under way; nobody waits for its SUBSCRIBE_OK.
Ending(r) == [type |-> "PublishDone", req |-> r]
Queued(r) == \E i \in DOMAIN toClient : toClient[i] = Ending(r)
Handled(r) == reply.type = "PublishDone" /\ reply.req = r
Ended(r) == Queued(r) \/ Handled(r)
LetGo(r) == subTracks[r] \notin Subs \/ (call.op = "unsub" /\ call.h = subTracks[r])

\* A SUBSCRIBE_OK under way is for a request that the server holds, has ended since,
\* or that the client is giving up.
Granted(i) ==
    LET r == toClient[i].req IN
    /\ r < nextReq
    /\ \/ peer[r] = "subOk" \/ LetGo(r)
       \/ \E j \in DOMAIN toClient : j > i /\ toClient[j] = Ending(r)
Accepting == reply.type \in {"SubscribeOk", "Aliased"}
OkInv ==
    /\ \A r \in Req : r >= nextReq => peer[r] = "none"
    /\ \A i \in DOMAIN toClient : toClient[i].type = "SubscribeOk" => Granted(i)
    /\ \A r \in Req : Accepting /\ reply.req = r =>
           r < nextReq /\ (peer[r] = "subOk" \/ LetGo(r) \/ Queued(r))
    /\ ctx # "open" => toClient = <<>> /\ reply = NoReply

\* What may happen to the queue in a step.
Added(m) == m \in Msg /\ toClient' = Append(toClient, m)
Taken == toClient # <<>> /\ toClient' = Tail(toClient)
Cleared == toClient' = <<>> /\ ~Accepting'

\* Where a SUBSCRIBE_OK that is being handled comes from.
Passing ==
    \/ ~Accepting'
    \/ Accepting /\ reply'.req = reply.req /\ (UNCHANGED toClient \/ \E m : Added(m))
    \/ Taken /\ Head(toClient).type = "SubscribeOk" /\ reply'.req = Head(toClient).req

\* Append and Tail by positions.
LEMMA AddedShape ==
    ASSUME toClient \in Seq(Msg), NEW m, Added(m)
    PROVE  \E n \in Nat : /\ DOMAIN toClient = 1 .. n /\ DOMAIN toClient' = 1 .. n + 1
                          /\ toClient'[n + 1] = m /\ \A i \in 1 .. n : toClient'[i] = toClient[i]
<1>1. PICK n \in Nat : n = Len(toClient)
  OBVIOUS
<1>2. /\ Len(toClient') = n + 1 /\ toClient' \in Seq(Msg)
      /\ (\A i \in 1 .. n : toClient'[i] = toClient[i]) /\ toClient'[n + 1] = m
  BY <1>1, AppendProperties DEF Added
<1>3. DOMAIN toClient = 1 .. n /\ DOMAIN toClient' = 1 .. n + 1
  BY <1>1, <1>2
<1> QED
  BY <1>2, <1>3

LEMMA TakenShape ==
    ASSUME toClient \in Seq(Msg), Taken
    PROVE  \E n \in Nat : /\ n > 0 /\ DOMAIN toClient = 1 .. n /\ DOMAIN toClient' = 1 .. n - 1
                          /\ Head(toClient) = toClient[1] /\ Head(toClient) \in Msg
                          /\ \A i \in 1 .. n - 1 : toClient'[i] = toClient[i + 1]
<1>1. PICK n \in Nat : n = Len(toClient)
  OBVIOUS
<1>2. n # 0
  BY <1>1, EmptySeq DEF Taken
<1>3. DOMAIN toClient = 1 .. n /\ Head(toClient) = toClient[1] /\ Head(toClient) \in Msg
  BY <1>1, HeadTailProperties DEF Taken
<1>4. /\ Len(toClient') = n - 1 /\ toClient' \in Seq(Msg)
      /\ \A i \in 1 .. n - 1 : toClient'[i] = toClient[i + 1]
  BY <1>1, HeadTailProperties DEF Taken
<1>5. DOMAIN toClient' = 1 .. n - 1
  BY <1>4
<1> QED
  BY <1>2, <1>3, <1>4, <1>5

\* PUBLISH_DONE stays under way until it is taken.
LEMMA QueuedKept ==
    ASSUME toClient \in Seq(Msg), NEW r, Queued(r)
    PROVE  /\ UNCHANGED toClient => Queued(r)'
           /\ (\E m : Added(m)) => Queued(r)'
           /\ Taken /\ Head(toClient) # Ending(r) => Queued(r)'
<1>1. UNCHANGED toClient => Queued(r)'
  BY DEF Queued
<1>2. ASSUME NEW m, Added(m) PROVE Queued(r)'
  <2>1. PICK n \in Nat : /\ DOMAIN toClient = 1 .. n /\ DOMAIN toClient' = 1 .. n + 1
                         /\ \A i \in 1 .. n : toClient'[i] = toClient[i]
    BY <1>2, AddedShape
  <2>2. PICK i \in 1 .. n : toClient[i] = Ending(r)
    BY <2>1 DEF Queued
  <2>3. i \in 1 .. n + 1 /\ toClient'[i] = Ending(r)
    BY <2>1, <2>2
  <2> QED
    BY <2>1, <2>3 DEF Queued, Ending
<1>3. ASSUME Taken, Head(toClient) # Ending(r) PROVE Queued(r)'
  <2>1. PICK n \in Nat : /\ n > 0 /\ DOMAIN toClient = 1 .. n /\ DOMAIN toClient' = 1 .. n - 1
                         /\ Head(toClient) = toClient[1]
                         /\ \A i \in 1 .. n - 1 : toClient'[i] = toClient[i + 1]
    BY <1>3, TakenShape
  <2>2. PICK i \in 1 .. n : toClient[i] = Ending(r)
    BY <2>1 DEF Queued
  <2>3. i # 1
    BY <1>3, <2>1, <2>2
  <2>4. PICK k \in 1 .. n - 1 : i = k + 1
    BY <2>2, <2>3
  <2>5. toClient'[k] = Ending(r)
    BY <2>1, <2>2, <2>4
  <2> QED
    BY <2>1, <2>5 DEF Queued, Ending
<1> QED
  BY <1>1, <1>2, <1>3

LEMMA QueuedAdded ==
    ASSUME toClient \in Seq(Msg), NEW r, Added(Ending(r))
    PROVE  Queued(r)'
<1>1. PICK n \in Nat : DOMAIN toClient' = 1 .. n + 1 /\ toClient'[n + 1] = Ending(r)
  BY AddedShape
<1>2. n + 1 \in 1 .. n + 1
  OBVIOUS
<1> QED
  BY <1>1, <1>2 DEF Queued, Ending

\* What a step must show of the answers under way.
OkStep ==
    /\ nextReq <= nextReq'
    /\ \A r \in Req : peer'[r] # "none" => peer[r] # "none" \/ r < nextReq'
    /\ \A r \in Req : r < nextReq /\ peer[r] = "subOk" =>
           peer'[r] = "subOk" \/ LetGo(r)' \/ Added(Ending(r)) \/ Cleared
    /\ \A r \in Req : r < nextReq /\ LetGo(r) => LetGo(r)' \/ Cleared
    /\ ctx' # "open" => Cleared /\ reply' = NoReply
    /\ \/ UNCHANGED toClient \/ (Taken /\ reply = NoReply) \/ Cleared
       \/ \E m \in Msg : /\ Added(m)
                         /\ m.type = "SubscribeOk" => m.req < nextReq' /\ peer'[m.req] = "subOk"

LEMMA OkFrame ==
    ASSUME Plain, Plain', ReplyOf', toClient \in Seq(Msg), OkInv, OkStep, Passing
    PROVE  OkInv'
<1>1. nextReq \in Int /\ nextReq' \in Int /\ (\A r \in Req : r \in Int)
  BY SubscriberAssumption DEF Plain, Req
<1>2. \A r \in Req : r >= nextReq' => peer'[r] = "none"
  BY <1>1 DEF OkInv, OkStep
<1>o. ctx' # "open" => toClient' = <<>> /\ reply' = NoReply
  BY DEF OkStep, Cleared
<1>3. \A i \in DOMAIN toClient : toClient[i].req \in Req
  <2>1. \A i \in DOMAIN toClient : toClient[i] \in Msg
    BY ElementOfSeq
  <2> QED
    BY <2>1 DEF Msg
\* The request of an answer that stays, at position k now.
<1>k. ASSUME toClient' # <<>>, NEW i \in DOMAIN toClient, NEW k \in DOMAIN toClient', toClient'[k] = toClient[i],
             toClient[i].type = "SubscribeOk",
             \A j \in DOMAIN toClient : j > i => \E l \in DOMAIN toClient' : l > k /\ toClient'[l] = toClient[j],
             \A r : Added(Ending(r)) => \E l \in DOMAIN toClient' : l > k /\ toClient'[l] = Ending(r)
      PROVE  Granted(k)'
  <2>1. PICK r \in Req : r = toClient[i].req /\ r = toClient'[k].req
    BY <1>3, <1>k
  <2>2. Granted(i)
    BY <1>k DEF OkInv
  <2>3. r < nextReq /\ r < nextReq'
    BY <1>1, <2>1, <2>2 DEF Granted, OkStep
  <2>4. CASE LetGo(r)
    BY <1>k, <2>1, <2>3, <2>4 DEF OkStep, Granted, Cleared
  <2>5. CASE peer[r] = "subOk"
    <3>1. peer'[r] = "subOk" \/ LetGo(r)' \/ Added(Ending(r))
      BY <1>k, <2>3, <2>5 DEF OkStep, Cleared
    <3>2. Added(Ending(r)) => \E l \in DOMAIN toClient' : l > k /\ toClient'[l] = Ending(r)
      BY <1>k
    <3> QED
      BY <2>1, <2>3, <3>1, <3>2 DEF Granted, Ending
  <2>6. CASE \E j \in DOMAIN toClient : j > i /\ toClient[j] = Ending(r)
    BY <1>k, <2>1, <2>3, <2>6 DEF Granted, Ending
  <2> QED
    BY <2>1, <2>2, <2>4, <2>5, <2>6 DEF Granted
\* The answer that is being handled.
<1>p. ASSUME NEW r \in Req, Accepting', reply'.req = r
      PROVE  r < nextReq' /\ (peer'[r] = "subOk" \/ LetGo(r)' \/ Queued(r)')
  <2>2. ~Cleared
    BY <1>p DEF Cleared
  <2>3. ASSUME r < nextReq, peer[r] = "subOk" PROVE peer'[r] = "subOk" \/ LetGo(r)' \/ Queued(r)'
    BY <2>2, <2>3, QueuedAdded DEF OkStep
  <2>4. ASSUME r < nextReq, LetGo(r) PROVE LetGo(r)'
    BY <2>2, <2>4 DEF OkStep
  <2>5. r < nextReq => r < nextReq'
    BY <1>1 DEF OkStep
  <2>6. ASSUME r < nextReq, peer[r] = "subOk" \/ LetGo(r) \/ Queued(r)'
        PROVE  r < nextReq' /\ (peer'[r] = "subOk" \/ LetGo(r)' \/ Queued(r)')
    BY <2>3, <2>4, <2>5, <2>6
  <2>7. CASE Accepting /\ reply'.req = reply.req /\ (UNCHANGED toClient \/ \E m : Added(m))
    <3>1. r < nextReq /\ (peer[r] = "subOk" \/ LetGo(r) \/ Queued(r))
      BY <1>p, <2>7 DEF OkInv
    <3>2. Queued(r) => Queued(r)'
      BY <2>7, QueuedKept
    <3> QED
      BY <2>6, <3>1, <3>2
  <2>8. CASE Taken /\ Head(toClient).type = "SubscribeOk" /\ reply'.req = Head(toClient).req
    <3>1. PICK n \in Nat : /\ n > 0 /\ DOMAIN toClient = 1 .. n /\ DOMAIN toClient' = 1 .. n - 1
                           /\ Head(toClient) = toClient[1]
                           /\ \A i \in 1 .. n - 1 : toClient'[i] = toClient[i + 1]
      BY <2>8, TakenShape
    <3>2. 1 \in DOMAIN toClient /\ toClient[1].type = "SubscribeOk" /\ toClient[1].req = r
      BY <1>p, <2>8, <3>1
    <3>3. Granted(1)
      BY <3>2 DEF OkInv
    <3>4. ASSUME NEW j \in DOMAIN toClient, j > 1, toClient[j] = Ending(r) PROVE Queued(r)'
      <4>1. j - 1 \in 1 .. n - 1 /\ (j - 1) + 1 = j
        BY <3>1, <3>4
      <4>2. toClient'[j - 1] = Ending(r) /\ j - 1 \in DOMAIN toClient'
        BY <3>1, <3>4, <4>1
      <4> QED
        BY <4>2 DEF Queued, Ending
    <3>5. r < nextReq /\ (peer[r] = "subOk" \/ LetGo(r) \/ Queued(r)')
      BY <3>2, <3>3, <3>4 DEF Granted
    <3> QED
      BY <2>6, <3>5
  <2> QED
    BY <1>p, <2>7, <2>8 DEF Passing
<1>4. CASE UNCHANGED toClient
  <2>1. ASSUME NEW r PROVE ~Added(Ending(r))
    <3> SUFFICES ASSUME Added(Ending(r)) PROVE FALSE
      OBVIOUS
    <3>1. PICK n \in Nat : DOMAIN toClient = 1 .. n /\ DOMAIN toClient' = 1 .. n + 1
      BY AddedShape
    <3>2. n + 1 \in 1 .. n
      BY <1>4, <3>1
    <3> QED
      BY <3>2
  <2>2. ASSUME NEW i \in DOMAIN toClient, toClient[i].type = "SubscribeOk" PROVE Granted(i)'
    <3>1. toClient' # <<>>
      BY <1>4, <2>2
    <3>2. i \in DOMAIN toClient' /\ toClient'[i] = toClient[i]
      BY <1>4
    <3>3. \A j \in DOMAIN toClient : j > i => \E l \in DOMAIN toClient' : l > i /\ toClient'[l] = toClient[j]
      BY <1>4
    <3> QED
      BY <1>k, <2>1, <2>2, <3>1, <3>2, <3>3
  <2> QED
    BY <1>2, <1>o, <1>p, <1>4, <2>2 DEF OkInv
<1>5. CASE Taken
  <2>1. PICK n \in Nat : /\ n > 0 /\ DOMAIN toClient = 1 .. n /\ DOMAIN toClient' = 1 .. n - 1
                         /\ \A i \in 1 .. n - 1 : toClient'[i] = toClient[i + 1]
    BY <1>5, TakenShape
  <2>2. ASSUME NEW r PROVE ~Added(Ending(r))
    <3> SUFFICES ASSUME Added(Ending(r)) PROVE FALSE
      OBVIOUS
    <3>1. PICK m \in Nat : DOMAIN toClient = 1 .. m /\ DOMAIN toClient' = 1 .. m + 1
      BY AddedShape
    <3>2. n \in 1 .. n /\ m + 1 \in 1 .. m + 1 /\ n \notin 1 .. n - 1 /\ m + 1 \notin 1 .. m
      BY <2>1
    <3>3. n \in 1 .. m /\ n \notin 1 .. m + 1
      BY <2>1, <3>1, <3>2
    <3> QED
      BY <3>3
  <2>3. ASSUME NEW k \in DOMAIN toClient', toClient'[k].type = "SubscribeOk" PROVE Granted(k)'
    <3>1. k \in 1 .. n - 1 /\ k + 1 \in DOMAIN toClient /\ toClient'[k] = toClient[k + 1] /\ toClient' # <<>>
      BY <2>1, <2>3
    <3>2. ASSUME NEW j \in DOMAIN toClient, j > k + 1
          PROVE  \E l \in DOMAIN toClient' : l > k /\ toClient'[l] = toClient[j]
      <4>1. j - 1 \in 1 .. n - 1 /\ j - 1 > k /\ (j - 1) + 1 = j
        BY <2>1, <3>1, <3>2
      <4> QED
        BY <2>1, <4>1
    <3> QED
      BY <1>k, <2>2, <2>3, <3>1, <3>2
  <2> QED
    BY <1>2, <1>o, <1>p, <2>3 DEF OkInv
<1>6. CASE Cleared
  BY <1>2, <1>o, <1>p, <1>6 DEF OkInv, Cleared
<1>7. ASSUME NEW m \in Msg, Added(m), m.type = "SubscribeOk" => m.req < nextReq' /\ peer'[m.req] = "subOk"
      PROVE  OkInv'
  <2>1. PICK n \in Nat : /\ DOMAIN toClient = 1 .. n /\ DOMAIN toClient' = 1 .. n + 1
                         /\ toClient'[n + 1] = m /\ \A i \in 1 .. n : toClient'[i] = toClient[i]
    BY <1>7, AddedShape
  <2>2. ASSUME NEW r, Added(Ending(r)) PROVE toClient'[n + 1] = Ending(r)
    <3>1. PICK b \in Nat : DOMAIN toClient' = 1 .. b + 1 /\ toClient'[b + 1] = Ending(r) /\ DOMAIN toClient = 1 .. b
      BY <2>2, AddedShape
    <3>2. n = b
      <4>1. n + 1 \in 1 .. b + 1 /\ b + 1 \in 1 .. n + 1
        BY <2>1, <3>1
      <4> QED
        BY <4>1
    <3> QED
      BY <3>1, <3>2
  <2>3. ASSUME NEW k \in 1 .. n, toClient'[k].type = "SubscribeOk" PROVE Granted(k)'
    <3>1. k \in DOMAIN toClient /\ k \in DOMAIN toClient' /\ toClient'[k] = toClient[k] /\ toClient' # <<>>
      BY <2>1
    <3>2. \A j \in DOMAIN toClient : j > k => \E l \in DOMAIN toClient' : l > k /\ toClient'[l] = toClient[j]
      BY <2>1
    <3>3. n + 1 \in DOMAIN toClient' /\ n + 1 > k
      BY <2>1
    <3> QED
      BY <1>k, <2>2, <2>3, <3>1, <3>2, <3>3
  <2>4. m.type = "SubscribeOk" => Granted(n + 1)'
    BY <1>7, <2>1 DEF Granted
  <2>5. \A k \in DOMAIN toClient' : k \in 1 .. n \/ k = n + 1
    BY <2>1
  <2> QED
    BY <1>2, <1>o, <1>p, <2>1, <2>3, <2>4, <2>5 DEF OkInv
<1> QED
  BY <1>4, <1>5, <1>6, <1>7 DEF OkStep

\* An answer is one of the messages.
LEMMA AnswerAdds ==
    ASSUME NEW t \in {"SubscribeOk", "SubscribeError", "PublishDone", "FetchOk", "FetchError",
                      "TrackStatusResponse"}, NEW r \in Req, Answer(t, r)
    PROVE  \E m \in Msg : Added(m) /\ m.type = t /\ m.req = r /\ m = [type |-> t, req |-> r]
<1>1. [type |-> t, req |-> r] \in Msg
  BY DEF Msg
<1> QED
  BY <1>1 DEF Answer, Added

\* Every step keeps the answers under way in order: the steps of the API, of the
\* connection and of the server.
LEMMA OkCalls ==
    ASSUME Plain, CallOf, MapsInv, OkInv, toClient \in Seq(Msg), UNCHANGED reply,
           \/ \E h \in Subs : \/ SubscribeTrack(h) \/ UnsubscribeTrack(h) \/ UpdateTrackSubscription(h)
                              \/ Pause(h) \/ Resume(h) \/ RequestNewGroup(h)
           \/ \E f \in Fetches : FetchTrack(f) \/ CancelFetchTrack(f) \/ FetchStreamClosed(f)
           \/ UnsubscribeEnd \/ UpdateEnd \/ RequestTrackStatus
           \/ ConnectionLost \/ ConnectionErased \/ LateNotify
           \/ \E r \in Req : PeerAnswers(r, TRUE) \/ PeerAnswers(r, FALSE) \/ PeerEnds(r)
    PROVE  OkStep
<1>1. nextReq \in Int /\ nextReq <= nextReq /\ (\A r \in Req : r \in Int) /\ None \notin Req /\ None \notin Handlers
      /\ None \notin Subs /\ Subs \subseteq Handlers /\ Fetches \subseteq Handlers
  BY SubscriberAssumption DEF Plain, Req, Handlers
<1>o. ctx # "open" => toClient = <<>> /\ reply' = NoReply /\ ~Accepting'
  BY DEF OkInv, Accepting, NoReply
<1>u. ASSUME NEW h \in Subs, NEW g \in Handlers, NEW r \in Req, reqId[h] = r, subTracks[r] = g PROVE g = h
  BY <1>1, <1>u DEF MapsInv, MapsAgree, OwnIds
\* Steps that leave the server and the queue alone, or answer an error.
<1>f. ASSUME UNCHANGED <<ctx, peer>>, nextReq <= nextReq', \A r \in Req : r < nextReq /\ LetGo(r) => LetGo(r)',
             UNCHANGED toClient \/ \E m \in Msg : Added(m) /\ m.type # "SubscribeOk",
             ctx # "open" => UNCHANGED toClient
      PROVE  OkStep
  BY <1>f, <1>o DEF OkStep, Cleared
<1>m. ASSUME UNCHANGED <<subTracks, call>> PROVE \A r \in Req : LetGo(r) => LetGo(r)'
  BY <1>m DEF LetGo
<1>n. ASSUME UNCHANGED subTracks, call.op # "unsub" PROVE \A r \in Req : LetGo(r) => LetGo(r)'
  BY <1>n DEF LetGo
\* A handler is taken out of the map.
<1>e. ASSUME UNCHANGED call, \A r \in Req : subTracks'[r] \in {subTracks[r], None}
      PROVE  \A r \in Req : LetGo(r) => LetGo(r)'
  BY <1>1, <1>e DEF LetGo
\* Requests under new ids.
<1>a. ASSUME NEW n \in {1, 2}, Requested(n), UNCHANGED <<ctx, call, toClient>>,
             \A r \in Req : peer'[r] = peer[r] \/ r \in nextReq .. nextReq + n - 1,
             \A r \in Req : subTracks'[r] = subTracks[r] \/ r = nextReq
      PROVE  OkStep
  <2>1. nextReq' = nextReq + n
    BY <1>a DEF Requested
  <2>2. \A r \in Req : r < nextReq => peer'[r] = peer[r] /\ subTracks'[r] = subTracks[r]
    BY <1>1, <1>a
  <2>3. \A r \in Req : peer'[r] # peer[r] => r < nextReq'
    BY <1>1, <1>a, <2>1
  <2>4. nextReq <= nextReq'
    BY <1>1, <2>1
  <2> QED
    BY <1>a, <1>o, <2>2, <2>3, <2>4 DEF OkStep, LetGo, Cleared
<1>2. ASSUME NEW h \in Subs, SubscribeTrack(h) PROVE OkStep
  <2>1. UNCHANGED <<ctx, call, toClient>> /\ subTracks' = [subTracks EXCEPT ![nextReq] = h]
    BY <1>2 DEF SubscribeTrack
  <2>2. \A r \in Req : subTracks'[r] = subTracks[r] \/ r = nextReq
    BY <2>1 DEF Plain
  <2>3. CASE Requested(1) /\ peer' = SendSubscribe(peer, h, nextReq)
    <3>1. \A r \in Req : peer'[r] = peer[r] \/ r \in nextReq .. nextReq + 1 - 1
      BY <1>1, <2>3 DEF SendSubscribe, SendCtrlMsg, Plain
    <3> QED
      BY <1>a, <2>1, <2>2, <2>3, <3>1
  <2>4. CASE Requested(2) /\ peer' = SendJoiningFetch(SendSubscribe(peer, h, nextReq), nextReq + 1)
    <3>1. \A r \in Req : peer'[r] = peer[r] \/ r = nextReq \/ r = nextReq + 1
      BY <2>4 DEF SendSubscribe, SendJoiningFetch, SendCtrlMsg, Plain
    <3>2. \A r \in Req : peer'[r] = peer[r] \/ r \in nextReq .. nextReq + 2 - 1
      BY <1>1, <3>1
    <3> QED
      BY <1>a, <2>1, <2>2, <2>4, <3>2
  <2> QED
    BY <1>2, <2>3, <2>4 DEF SubscribeTrack
<1>3. ASSUME NEW f \in Fetches, FetchTrack(f) PROVE OkStep
  <2>1. /\ UNCHANGED <<ctx, call, toClient>> /\ subTracks' = [subTracks EXCEPT ![nextReq] = f]
        /\ Requested(1) /\ peer' = SendFetch(peer, nextReq)
    BY <1>3 DEF FetchTrack
  <2>2. \A r \in Req : subTracks'[r] = subTracks[r] \/ r = nextReq
    BY <2>1 DEF Plain
  <2>3. \A r \in Req : peer'[r] = peer[r] \/ r \in nextReq .. nextReq + 1 - 1
    BY <1>1, <2>1 DEF SendFetch, SendCtrlMsg, Plain
  <2> QED
    BY <1>a, <2>1, <2>2, <2>3
<1>4. ASSUME RequestTrackStatus PROVE OkStep
  <2>1. /\ UNCHANGED <<ctx, call, toClient, subTracks>> /\ Requested(1) /\ peer' = SendTrackStatus(peer, nextReq)
    BY <1>4 DEF RequestTrackStatus, mapVars
  <2>3. \A r \in Req : peer'[r] = peer[r] \/ r \in nextReq .. nextReq + 1 - 1
    BY <1>1, <2>1 DEF SendTrackStatus, SendCtrlMsg, Plain
  <2> QED
    BY <1>a, <2>1, <2>3
\* A SUBSCRIBE_UPDATE that the server rejects.
<1>r. ASSUME NEW u \in Req, NEW x, SendSubscribeUpdate(u, x)
      PROVE  /\ UNCHANGED toClient \/ \E m \in Msg : Added(m) /\ m.type # "SubscribeOk"
             /\ ctx # "open" => UNCHANGED toClient
  <2>1. Answer("SubscribeError", u) => \E m \in Msg : Added(m) /\ m.type # "SubscribeOk"
    BY AnswerAdds
  <2> QED
    BY <1>r, <2>1 DEF SendSubscribeUpdate
<1>5. ASSUME NEW h \in Subs, UpdateTrackSubscription(h) PROVE OkStep
  <2>1. UNCHANGED <<ctx, peer, call, subTracks>> /\ Requested(1) /\ SendSubscribeUpdate(nextReq, reqId[h])
    BY <1>5 DEF UpdateTrackSubscription, mapVars
  <2>2. nextReq' = nextReq + 1 /\ nextReq \in Req
    BY <1>1, <2>1, SubscriberAssumption DEF Requested, Plain, Req
  <2>3. nextReq <= nextReq'
    BY <1>1, <2>2
  <2> QED
    BY <1>f, <1>m, <1>r, <2>1, <2>2, <2>3
<1>6. ASSUME UpdateEnd PROVE OkStep
  <2>1. UNCHANGED <<ctx, peer, subTracks>> /\ call.op # "unsub" /\ call.rid \in Req
    BY <1>6 DEF UpdateEnd, CallOf, mapVars
  <2>2. nextReq <= nextReq'
    BY <1>1, <1>6 DEF UpdateEnd
  <2>3. UNCHANGED toClient \/ SendSubscribeUpdate(call.rid, reqId[call.h])
    BY <1>6 DEF UpdateEnd
  <2> QED
    BY <1>f, <1>n, <1>r, <2>1, <2>2, <2>3
<1>7. ASSUME NEW h \in Subs, Pause(h) \/ Resume(h) \/ RequestNewGroup(h) PROVE OkStep
  <2>1. UNCHANGED <<ctx, peer, subTracks, nextReq, toClient>> /\ call = Idle
    BY <1>7 DEF Pause, Resume, RequestNewGroup, UpdateBegin, mapVars, peerVars
  <2>2. call.op # "unsub"
    BY <2>1 DEF Idle
  <2> QED
    BY <1>1, <1>f, <1>n, <2>1, <2>2
<1>8. ASSUME NEW h \in Subs, UnsubscribeTrack(h) PROVE OkStep
  <2>0. PICK x \in Req : x = reqId[h]
    BY <1>1, <1>8 DEF UnsubscribeTrack, Plain
  <2>1. /\ UNCHANGED <<subTracks, nextReq, toClient>> /\ call.op # "unsub"
        /\ call'.op = "unsub" /\ call'.h = h /\ (ctx' = "open" <=> ctx = "open")
    BY <1>8 DEF UnsubscribeTrack, mapVars, Idle
  <2>2. peer' = peer \/ peer' = SendUnsubscribe(peer, x)
    BY <1>8, <2>0 DEF UnsubscribeTrack
  <2>3. \A r \in Req : peer'[r] = peer[r] \/ r = x
    BY <2>2 DEF SendUnsubscribe, SendCtrlMsg, Plain
  <2>4. LetGo(x)'
    <3>1. subTracks[x] \in Handlers \cup {None}
      BY DEF Plain
    <3>2. subTracks[x] # None => subTracks[x] = h
      BY <1>u, <2>0, <3>1
    <3> QED
      BY <1>1, <2>1, <3>2 DEF LetGo
  <2>5. \A r \in Req : LetGo(r) => LetGo(r)'
    BY <1>n, <2>1
  <2>6. x < nextReq'
    BY <1>1, <2>0, <2>1 DEF MapsInv, OwnIds
  <2> QED
    BY <1>1, <1>o, <2>1, <2>3, <2>4, <2>5, <2>6 DEF OkStep, Cleared
<1>9. ASSUME UnsubscribeEnd PROVE OkStep
  <2>1. UNCHANGED <<ctx, peer, nextReq, toClient>> /\ call.op = "unsub" /\ call.h \in Subs
    BY <1>9 DEF UnsubscribeEnd, CallOf, peerVars
  <2>2. CASE ctx = "none"
    BY <1>1, <1>o, <2>1, <2>2 DEF OkStep, Cleared
  <2>3. CASE ctx # "none"
    <3>1. PICK x \in Req : x = reqId[call.h]
      BY <2>1 DEF CallOf
    <3>2. subTracks' = [subTracks EXCEPT ![x] = None]
      BY <1>1, <1>9, <2>3, <3>1 DEF UnsubscribeEnd, Erase
    <3>3. ASSUME NEW r \in Req, LetGo(r) PROVE LetGo(r)'
      <4>1. subTracks'[r] \notin Subs
        <5>1. CASE subTracks[r] \in Subs
          <6>1. subTracks[r] # None /\ call.h = subTracks[r]
            BY <1>1, <3>3, <5>1 DEF LetGo
          <6>2. reqId[subTracks[r]] = r
            BY <6>1 DEF MapsInv, MapsAgree
          <6>3. r = x
            BY <3>1, <6>1, <6>2
          <6> QED
            BY <1>1, <3>2, <6>3 DEF Plain
        <5>2. CASE subTracks[r] \notin Subs
          BY <1>1, <3>2, <5>2 DEF Plain
        <5> QED
          BY <5>1, <5>2
      <4> QED
        BY <4>1 DEF LetGo
    <3> QED
      BY <1>1, <1>f, <2>1, <3>3
  <2> QED
    BY <2>2, <2>3
<1>10. ASSUME NEW f \in Fetches, CancelFetchTrack(f) PROVE OkStep
  <2>0. PICK x \in Req : x = reqId[f]
    BY <1>1, <1>10 DEF CancelFetchTrack, Plain
  <2>1. UNCHANGED <<nextReq, toClient, call, ctx>> /\ subTracks' = [subTracks EXCEPT ![x] = None]
    BY <1>10, <2>0 DEF CancelFetchTrack
  <2>2. peer' = peer \/ peer' = SendFetchCancel(peer, x)
    BY <1>10, <2>0 DEF CancelFetchTrack
  <2>3. \A r \in Req : peer'[r] = peer[r] \/ r = x
    BY <2>2 DEF SendFetchCancel, SendCtrlMsg, Plain
  <2>4. subTracks'[x] = None /\ \A r \in Req : subTracks'[r] \in {subTracks[r], None}
    BY <2>1 DEF Plain
  <2>5. LetGo(x)'
    BY <1>1, <2>4 DEF LetGo
  <2>6. x < nextReq'
    BY <1>1, <2>0, <2>1 DEF MapsInv, OwnIds
  <2>7. \A r \in Req : LetGo(r) => LetGo(r)'
    BY <1>e, <2>1, <2>4
  <2> QED
    BY <1>1, <1>o, <2>1, <2>3, <2>5, <2>6, <2>7 DEF OkStep, Cleared
<1>11. ASSUME NEW f \in Fetches, FetchStreamClosed(f) PROVE OkStep
  <2>1. UNCHANGED <<nextReq, toClient, call, ctx, peer, subTracks>>
    BY <1>11 DEF FetchStreamClosed, conVars, mapVars, peerVars
  <2> QED
    BY <1>1, <1>f, <1>m, <2>1
<1>15. ASSUME ConnectionLost PROVE OkStep
  <2>1. /\ toClient' = <<>> /\ nextReq' = nextReq /\ reply = NoReply /\ ~Accepting'
        /\ peer' = [r \in Req |-> IF peer[r] = "none" THEN "none" ELSE "over"]
    BY <1>15 DEF ConnectionLost, Accepting, NoReply
  <2>2. \A r \in Req : peer'[r] # "none" => peer[r] # "none"
    BY <2>1
  <2> QED
    BY <1>1, <2>1, <2>2 DEF OkStep, Cleared
<1>16. ASSUME ConnectionErased \/ LateNotify PROVE OkStep
  <2>1. UNCHANGED <<nextReq, peer, toClient>> /\ ctx # "open"
    BY <1>16 DEF ConnectionErased, LateNotify, peerVars
  <2> QED
    BY <1>1, <1>o, <2>1 DEF OkStep, Cleared
\* The server.
<1>s. ASSUME NEW r \in Req, NEW v, NEW t \in {"SubscribeOk", "SubscribeError", "PublishDone", "FetchOk",
                                              "FetchError", "TrackStatusResponse"},
             UNCHANGED <<ctx, nextReq, call, subTracks>>, ctx = "open", peer[r] # "none",
             peer' = [peer EXCEPT ![r] = v], Answer(t, r),
             peer[r] = "subOk" => t = "PublishDone", t = "SubscribeOk" => v = "subOk"
      PROVE  OkStep
  <2>1. peer'[r] = v /\ \A x \in Req : peer'[x] = peer[x] \/ x = r
    BY <1>s DEF Plain
  <2>2. r < nextReq
    BY <1>1, <1>s DEF OkInv
  <2>3. PICK m \in Msg : Added(m) /\ m = [type |-> t, req |-> r]
    BY <1>s, AnswerAdds
  <2>4. m.type = t /\ m.req = r
    BY <2>3
  <2>5. peer[r] = "subOk" => Added(Ending(r))
    BY <1>s, <2>3 DEF Ending
  <2>6. \A x \in Req : LetGo(x) => LetGo(x)'
    BY <1>m, <1>s
  <2>7. m.type = "SubscribeOk" => m.req < nextReq' /\ peer'[m.req] = "subOk"
    BY <1>s, <2>1, <2>2, <2>4
  <2> QED
    BY <1>1, <1>s, <2>1, <2>2, <2>3, <2>5, <2>6, <2>7 DEF OkStep, Cleared
<1>17. ASSUME NEW r \in Req, NEW ok, ok = TRUE \/ ok = FALSE, PeerAnswers(r, ok) PROVE OkStep
  <2>1. UNCHANGED <<ctx, nextReq, call, subTracks>> /\ ctx = "open"
    BY <1>17 DEF PeerAnswers, conVars, mapVars
  <2>2. CASE /\ peer[r] = "sub" /\ peer' = [peer EXCEPT ![r] = IF ok THEN "subOk" ELSE "over"]
             /\ Answer(IF ok THEN "SubscribeOk" ELSE "SubscribeError", r)
    <3>1. \/ peer' = [peer EXCEPT ![r] = "subOk"] /\ Answer("SubscribeOk", r)
          \/ peer' = [peer EXCEPT ![r] = "over"] /\ Answer("SubscribeError", r)
      BY <1>17, <2>2
    <3> QED
      BY <1>s, <2>1, <2>2, <3>1
  <2>3. CASE /\ peer[r] = "fetch" /\ peer' = [peer EXCEPT ![r] = IF ok THEN "fetchOk" ELSE "over"]
             /\ Answer(IF ok THEN "FetchOk" ELSE "FetchError", r)
    <3>1. \/ peer' = [peer EXCEPT ![r] = "fetchOk"] /\ Answer("FetchOk", r)
          \/ peer' = [peer EXCEPT ![r] = "over"] /\ Answer("FetchError", r)
      BY <1>17, <2>3
    <3> QED
      BY <1>s, <2>1, <2>3, <3>1
  <2>4. CASE /\ peer[r] = "status" /\ peer' = [peer EXCEPT ![r] = "over"] /\ Answer("TrackStatusResponse", r)
    BY <1>s, <2>1, <2>4
  <2> QED
    BY <1>17, <2>2, <2>3, <2>4 DEF PeerAnswers
<1>18. ASSUME NEW r \in Req, PeerEnds(r) PROVE OkStep
  <2>1. /\ UNCHANGED <<ctx, nextReq, call, subTracks>> /\ ctx = "open" /\ peer[r] = "subOk"
        /\ peer' = [peer EXCEPT ![r] = "over"] /\ Answer("PublishDone", r)
    BY <1>18 DEF PeerEnds, conVars, mapVars
  <2> QED
    BY <1>s, <2>1
<1> QED
  BY <1>2, <1>3, <1>4, <1>5, <1>6, <1>7, <1>8, <1>9, <1>10, <1>11, <1>15, <1>16, <1>17, <1>18

\* And the steps of the notifier thread.
LEMMA OkReplies ==
    ASSUME Plain, ReplyOf, OkInv, toClient \in Seq(Msg),
           \/ ProcessCtrlMessage
           \/ SubscribeOk \/ SubscribeOkEnd \/ SubscribeError \/ PublishDone \/ FetchOk \/ FetchError
    PROVE  OkStep /\ Passing
<1>1. nextReq \in Int /\ nextReq <= nextReq /\ None \notin Subs
  BY SubscriberAssumption DEF Plain
<1>2. UNCHANGED <<nextReq, call, ctx, peer>>
  BY DEF ProcessCtrlMessage, SubscribeOk, SubscribeOkEnd, SubscribeError, PublishDone, FetchOk, FetchError, Told,
         conVars, peerVars
<1>3. ctx = "open"
  <2>1. CASE ProcessCtrlMessage
    BY <2>1 DEF ProcessCtrlMessage
  <2>2. CASE reply.type # "none"
    BY <2>2 DEF OkInv, NoReply
  <2> QED
    BY <2>1, <2>2 DEF SubscribeOk, SubscribeOkEnd, SubscribeError, PublishDone, FetchOk, FetchError, Told
<1>4. \A r \in Req : subTracks'[r] \in {subTracks[r], None}
  <2>1. CASE UNCHANGED subTracks
    BY <2>1
  <2>2. CASE SubscribeError
    BY <2>2 DEF SubscribeError, Erase, Plain
  <2>3. CASE FetchError
    BY <2>3 DEF FetchError, Plain
  <2> QED
    BY <2>1, <2>2, <2>3 DEF ProcessCtrlMessage, SubscribeOk, SubscribeOkEnd, PublishDone, FetchOk, mapVars
<1>5. \A r \in Req : LetGo(r) => LetGo(r)'
  BY <1>1, <1>2, <1>4 DEF LetGo
<1>6. CASE ProcessCtrlMessage
  <2>1. Taken /\ reply = NoReply
    BY <1>6 DEF ProcessCtrlMessage, Taken
  <2>2. PICK m : m = Head(toClient)
    OBVIOUS
  <2>3. reply' = NoReply \/ (m.type = reply'.type /\ reply'.req = m.req)
    BY <1>6, <2>2 DEF ProcessCtrlMessage
  <2>4. m \in Msg
    BY <1>6, <2>2, ReceiveType
  <2>5. Accepting' => m.type = "SubscribeOk" /\ reply'.req = m.req
    BY <2>3, <2>4 DEF Accepting, NoReply, Msg
  <2> QED
    BY <1>1, <1>2, <1>3, <1>5, <2>1, <2>2, <2>5 DEF OkStep, Passing
<1>7. CASE SubscribeOk \/ SubscribeOkEnd \/ SubscribeError \/ PublishDone \/ FetchOk \/ FetchError
  <2>1. UNCHANGED toClient
    BY <1>7 DEF SubscribeOk, SubscribeOkEnd, SubscribeError, PublishDone, FetchOk, FetchError, Told, peerVars
  <2>2. SubscribeOk => Accepting /\ reply'.req = reply.req
    BY DEF SubscribeOk, Accepting, Plain, Answers
  <2>3. SubscribeOk \/ ~Accepting'
    BY <1>7 DEF SubscribeOkEnd, SubscribeError, PublishDone, FetchOk, FetchError, Told, Accepting, NoReply
  <2> QED
    BY <1>1, <1>2, <1>3, <1>5, <2>1, <2>2, <2>3 DEF OkStep, Passing
<1> QED
  BY <1>6, <1>7

LEMMA OkNext ==
    ASSUME Plain, CallOf, ReplyOf, MapsInv, OkInv, toClient \in Seq(Msg), Next
    PROVE  OkStep /\ Passing
<1>1. CASE \/ ProcessCtrlMessage
           \/ SubscribeOk \/ SubscribeOkEnd \/ SubscribeError \/ PublishDone \/ FetchOk \/ FetchError
  BY <1>1, OkReplies
<1>2. CASE
           \/ \E h \in Subs : \/ SubscribeTrack(h) \/ UnsubscribeTrack(h) \/ UpdateTrackSubscription(h)
                              \/ Pause(h) \/ Resume(h) \/ RequestNewGroup(h)
           \/ \E f \in Fetches : FetchTrack(f) \/ CancelFetchTrack(f) \/ FetchStreamClosed(f)
           \/ UnsubscribeEnd \/ UpdateEnd \/ RequestTrackStatus
           \/ ConnectionLost \/ ConnectionErased \/ LateNotify
           \/ \E r \in Req : PeerAnswers(r, TRUE) \/ PeerAnswers(r, FALSE) \/ PeerEnds(r)
  <2>1. UNCHANGED reply
    BY <1>2, ReplyKept
  <2>2. OkStep
    BY <1>2, <2>1, OkCalls
  <2>3. UNCHANGED toClient \/ reply = NoReply \/ Cleared \/ \E m \in Msg : Added(m)
    BY <2>2 DEF OkStep
  <2>4. reply = NoReply => ~Accepting'
    BY <2>1 DEF Accepting, NoReply
  <2>5. Accepting' => Accepting
    BY <2>1 DEF Accepting
  <2> QED
    BY <2>1, <2>2, <2>3, <2>4, <2>5 DEF Passing, Cleared
<1> QED
  BY <1>1, <1>2 DEF Next

\* The request of an answer that is being handled still leads to the handler that was
\* found, or to none; once entered by alias the handler is there as long as its request.
FoundInv ==
    \A r \in Req : reply.req = r =>
        /\ r < nextReq /\ subTracks[r] \in {reply.h, None}
        /\ reply.type = "Aliased" /\ subTracks[r] = reply.h => reply.h \in byAlias

\* What a step of the others must show for it.
FoundStep ==
    /\ nextReq <= nextReq'
    /\ \A r \in Req : r < nextReq => subTracks'[r] \in {subTracks[r], None}
    /\ \A h \in Subs, r \in Req : r < nextReq /\ subTracks'[r] = h /\ h \in byAlias => h \in byAlias'

LEMMA FoundFrame ==
    ASSUME Plain, Plain', ReplyOf, FoundInv, FoundStep, UNCHANGED reply
    PROVE  FoundInv'
<1> SUFFICES ASSUME NEW r \in Req, reply.req = r
             PROVE  /\ r < nextReq' /\ subTracks'[r] \in {reply.h, None}
                    /\ reply.type = "Aliased" /\ subTracks'[r] = reply.h => reply.h \in byAlias'
  BY DEF FoundInv
<1>1. nextReq \in Int /\ nextReq' \in Int /\ r \in Int /\ None \notin Handlers /\ None \notin Req /\ Subs \subseteq Handlers
  BY SubscriberAssumption DEF Plain, Req, Handlers
<1>2. r < nextReq /\ subTracks[r] \in {reply.h, None} /\ (reply.type = "Aliased" /\ subTracks[r] = reply.h => reply.h \in byAlias)
  BY DEF FoundInv
<1>3. r < nextReq'
  BY <1>1, <1>2 DEF FoundStep
<1>4. subTracks'[r] \in {reply.h, None}
  BY <1>2 DEF FoundStep
<1>5. ASSUME reply.type = "Aliased", subTracks'[r] = reply.h PROVE reply.h \in byAlias'
  <2>1. reply.h \in Subs
    BY <1>5 DEF ReplyOf, NoReply
  <2>2. subTracks[r] = reply.h
    BY <1>1, <1>2, <1>5, <2>1 DEF FoundStep
  <2> QED
    BY <1>2, <1>5, <2>1, <2>2 DEF FoundStep
<1> QED
  BY <1>3, <1>4, <1>5

LEMMA FoundCalls ==
    ASSUME Plain, Plain', CallOf, ReplyOf, MapsInv, FoundInv, UNCHANGED reply,
           \/ \E h \in Subs : \/ SubscribeTrack(h) \/ UnsubscribeTrack(h) \/ UpdateTrackSubscription(h)
                              \/ Pause(h) \/ Resume(h) \/ RequestNewGroup(h)
           \/ \E f \in Fetches : FetchTrack(f) \/ CancelFetchTrack(f) \/ FetchStreamClosed(f)
           \/ UnsubscribeEnd \/ UpdateEnd \/ RequestTrackStatus
           \/ ConnectionLost \/ ConnectionErased \/ LateNotify
           \/ \E r \in Req : PeerAnswers(r, TRUE) \/ PeerAnswers(r, FALSE) \/ PeerEnds(r)
    PROVE  FoundInv'
<1>1. nextReq \in Int /\ nextReq <= nextReq /\ (\A r \in Req : r \in Int) /\ None \notin Subs /\ None \notin Handlers
  BY SubscriberAssumption DEF Plain, Req, Handlers
<1>a. ASSUME NEW n \in {1, 2}, Requested(n), UNCHANGED byAlias, NEW g \in Handlers,
             subTracks' = [subTracks EXCEPT ![nextReq] = g]
      PROVE  FoundStep
  <2>1. nextReq <= nextReq'
    BY <1>1, <1>a DEF Requested
  <2>2. \A r \in Req : r < nextReq => subTracks'[r] = subTracks[r]
    BY <1>1, <1>a DEF Plain
  <2> QED
    BY <1>a, <2>1, <2>2 DEF FoundStep
<1>u. ASSUME UNCHANGED <<subTracks, byAlias>>, nextReq <= nextReq' PROVE FoundStep
  BY <1>u DEF FoundStep
<1>2. ASSUME NEW h \in Subs, SubscribeTrack(h) PROVE FoundStep
  <2>1. h \in Handlers /\ (Requested(1) \/ Requested(2))
    BY <1>2 DEF SubscribeTrack, Handlers
  <2>2. UNCHANGED byAlias /\ subTracks' = [subTracks EXCEPT ![nextReq] = h]
    BY <1>2 DEF SubscribeTrack
  <2> QED
    BY <1>a, <2>1, <2>2
<1>3. ASSUME NEW f \in Fetches, FetchTrack(f) PROVE FoundStep
  <2>1. f \in Handlers /\ Requested(1) /\ UNCHANGED byAlias /\ subTracks' = [subTracks EXCEPT ![nextReq] = f]
    BY <1>3 DEF FetchTrack, Handlers
  <2> QED
    BY <1>a, <2>1
<1>4. ASSUME NEW f \in Fetches, CancelFetchTrack(f) PROVE FoundStep
  <2>1. UNCHANGED <<byAlias, nextReq>> /\ subTracks' = [subTracks EXCEPT ![reqId[f]] = None]
    BY <1>4 DEF CancelFetchTrack
  <2> QED
    BY <1>1, <2>1 DEF FoundStep, Plain
<1>5. ASSUME UnsubscribeEnd PROVE FoundStep
  <2>1. nextReq' = nextReq /\ call.h \in Subs /\ call.h \in Handlers
    BY <1>5 DEF UnsubscribeEnd, CallOf, Handlers
  <2>2. CASE UNCHANGED mapVars
    BY <1>1, <1>u, <2>1, <2>2 DEF mapVars
  <2>3. CASE Erase(call.h)
    <3>1. \A r \in Req : subTracks'[r] \in {subTracks[r], None}
      BY <2>3 DEF Erase, Plain
    <3>2. ASSUME NEW h \in Subs, NEW r \in Req, subTracks'[r] = h, h \in byAlias, h \notin byAlias' PROVE FALSE
      <4>1. h = call.h
        BY <2>3, <3>2 DEF Erase
      <4>2. subTracks[r] = h
        BY <1>1, <3>1, <3>2
      <4>3. reqId[h] = r
        BY <1>1, <4>2 DEF MapsInv, MapsAgree
      <4>4. subTracks'[r] = None
        BY <1>1, <2>3, <4>1, <4>3, SubscriberAssumption DEF Erase, Plain, Req
      <4> QED
        BY <1>1, <3>2, <4>4
    <3> QED
      BY <1>1, <2>1, <3>1, <3>2 DEF FoundStep
  <2> QED
    BY <1>5, <2>2, <2>3 DEF UnsubscribeEnd
<1>6. ASSUME ConnectionLost \/ ConnectionErased PROVE FoundStep
  <2>1. nextReq' = nextReq /\ subTracks' = [r \in Req |-> None]
    BY <1>6 DEF ConnectionLost, ConnectionErased
  <2> QED
    BY <1>1, <2>1 DEF FoundStep
<1>7. ASSUME NEW h \in Subs, UnsubscribeTrack(h) \/ UpdateTrackSubscription(h) \/ Pause(h) \/ Resume(h) \/ RequestNewGroup(h)
      PROVE  FoundStep
  <2>1. UNCHANGED <<subTracks, byAlias>>
    BY <1>7 DEF UnsubscribeTrack, UpdateTrackSubscription, Pause, Resume, RequestNewGroup, UpdateBegin, mapVars
  <2>2. nextReq' = nextReq \/ Requested(1)
    BY <1>7 DEF UnsubscribeTrack, UpdateTrackSubscription, Pause, Resume, RequestNewGroup, UpdateBegin
  <2> QED
    BY <1>1, <1>u, <2>1, <2>2 DEF Requested
<1>8. ASSUME UpdateEnd \/ RequestTrackStatus \/ LateNotify PROVE FoundStep
  <2>1. UNCHANGED <<subTracks, byAlias>>
    BY <1>8 DEF UpdateEnd, RequestTrackStatus, LateNotify, mapVars
  <2>2. nextReq' = nextReq \/ nextReq' = nextReq + 1
    BY <1>8 DEF UpdateEnd, RequestTrackStatus, LateNotify, Requested
  <2> QED
    BY <1>1, <1>u, <2>1, <2>2
<1>9. ASSUME NEW f \in Fetches, FetchStreamClosed(f) PROVE FoundStep
  BY <1>1, <1>u, <1>9 DEF FetchStreamClosed, conVars, mapVars
<1>10. ASSUME NEW r \in Req, PeerAnswers(r, TRUE) \/ PeerAnswers(r, FALSE) \/ PeerEnds(r) PROVE FoundStep
  BY <1>1, <1>u, <1>10 DEF PeerAnswers, PeerEnds, conVars, mapVars
<1>11. FoundStep
  BY <1>2, <1>3, <1>4, <1>5, <1>6, <1>7, <1>8, <1>9, <1>10
<1> QED
  BY <1>11, FoundFrame

LEMMA FoundReplies ==
    ASSUME Plain, Plain', ReplyOf, ReplyOf', MapsInv, FoundInv, toClient \in Seq(Msg),
           \/ ProcessCtrlMessage
           \/ SubscribeOk \/ SubscribeOkEnd \/ SubscribeError \/ PublishDone \/ FetchOk \/ FetchError
    PROVE  FoundInv'
<1>1. nextReq \in Int /\ nextReq <= nextReq /\ (\A r \in Req : r \in Int) /\ None \notin Req /\ None \notin Handlers
      /\ Subs \subseteq Handlers /\ Fetches \subseteq Handlers
  BY SubscriberAssumption DEF Plain, Req, Handlers
<1>2. CASE reply' = NoReply
  BY <1>1, <1>2 DEF FoundInv, NoReply
<1>3. CASE ProcessCtrlMessage /\ reply' # NoReply
  <2>1. PICK m : m = Head(toClient) /\ m \in Msg /\ m.req \in Req
    BY <1>3, ReceiveType
  <2>2. /\ reply' = [type |-> m.type, h |-> subTracks[m.req], req |-> m.req]
        /\ subTracks[m.req] \in Wanted(m.type) /\ UNCHANGED <<subTracks, nextReq>>
    BY <1>3, <2>1 DEF ProcessCtrlMessage, conVars
  <2>3. subTracks[m.req] # None
    BY <1>1, <2>2 DEF Wanted
  <2>4. m.req < nextReq
    BY <1>1, <2>1, <2>3 DEF MapsInv, Fresh
  <2>5. m.type # "Aliased"
    BY <2>1 DEF Msg
  <2> QED
    BY <2>2, <2>4, <2>5 DEF FoundInv
<1>4. CASE SubscribeOk
  <2>1. /\ UNCHANGED <<subTracks, nextReq>> /\ reply' = [reply EXCEPT !.type = "Aliased"]
        /\ byAlias' = byAlias \cup {reply.h}
    BY <1>4 DEF SubscribeOk
  <2>2. reply'.h = reply.h /\ reply'.req = reply.req
    BY <2>1 DEF Plain, Answers
  <2> QED
    BY <2>1, <2>2 DEF FoundInv
<1> QED
  BY <1>2, <1>3, <1>4 DEF SubscribeOkEnd, SubscribeError, PublishDone, FetchOk, FetchError, Told

\* A subscription that nobody touches stays served.
LEMMA ServedKept ==
    ASSUME toClient \in Seq(Msg), NEW h \in Subs, NEW r \in Req,
           ctx' = "open", h \in byAlias', reqId'[h] = r, subTracks'[r] = h,
           peer[r] = "subOk" \/ Ended(r),
           peer[r] = "subOk" => peer'[r] = "subOk" \/ Added(Ending(r)),
           Handled(r) => Handled(r)',
           UNCHANGED toClient \/ (\E m : Added(m)) \/ (Taken /\ (Head(toClient) # Ending(r) \/ Handled(r)'))
    PROVE  Held(h)'
<1>1. peer'[r] = "subOk" \/ Queued(r)' \/ Handled(r)'
  <2>1. CASE peer[r] = "subOk"
    BY <2>1, QueuedAdded
  <2>2. CASE Queued(r)
    BY <2>2, QueuedKept
  <2> QED
    BY <2>1, <2>2 DEF Ended
<1>2. Registered(h)'
  BY DEF Registered
<1> QED
  BY <1>1, <1>2 DEF Held, Queued, Handled, Ending

\* No step leaves a handler kOk that is no longer served, unless ghost says so: the
\* steps of the API, of the connection and of the server.
LEMMA ServedCalls ==
    ASSUME ~Again, Plain, CallOf, MapsInv, OkInv, toClient \in Seq(Msg), OkIsServed, UNCHANGED reply,
           \/ \E h \in Subs : \/ SubscribeTrack(h) \/ UnsubscribeTrack(h) \/ UpdateTrackSubscription(h)
                              \/ Pause(h) \/ Resume(h) \/ RequestNewGroup(h)
           \/ \E f \in Fetches : FetchTrack(f) \/ CancelFetchTrack(f) \/ FetchStreamClosed(f)
           \/ UnsubscribeEnd \/ UpdateEnd \/ RequestTrackStatus
           \/ ConnectionLost \/ ConnectionErased \/ LateNotify
           \/ \E r \in Req : PeerAnswers(r, TRUE) \/ PeerAnswers(r, FALSE) \/ PeerEnds(r)
    PROVE  OkIsServed'
<1> SUFFICES ASSUME NEW h \in Subs, status'[h] = "kOk", h \notin ghost'
             PROVE  Held(h)'
  BY DEF OkIsServed
<1>1. /\ nextReq \in Int /\ (\A r \in Req : r \in Int) /\ None \notin Req /\ None \notin Handlers
      /\ None \notin Subs /\ h \in Handlers /\ h \notin Fetches /\ Fetches \subseteq Handlers
      /\ Subs \subseteq Handlers
  BY SubscriberAssumption DEF Plain, Req, Handlers
\* What is known of a handler that was served before.
<1> DEFINE Mine(r) ==
              /\ r < nextReq /\ reqId[h] = r /\ subTracks[r] = h /\ ctx = "open" /\ h \in byAlias
              /\ Registered(h) /\ (peer[r] = "subOk" \/ Ended(r))
<1>2. ASSUME status[h] = "kOk", h \notin ghost PROVE \E r \in Req : Mine(r)
  <2>1. Held(h)
    BY <1>2 DEF OkIsServed
  <2>x. PICK x \in Req : subTracks[x] = h
    BY <2>1 DEF Held, Registered
  <2>y. reqId[h] = x
    BY <1>1, <2>x DEF MapsInv, MapsAgree
  <2>2. reqId[h] \in Req /\ reqId[h] < nextReq /\ subTracks[reqId[h]] = h
    BY <1>1, <2>x, <2>y DEF MapsInv, OwnIds
  <2> QED
    BY <2>1, <2>2 DEF Held, Ended, Queued, Handled, Ending
<1>3. ASSUME NEW r \in Req, Mine(r), NEW g \in Handlers, reqId[g] = r PROVE g = h
  BY <1>1, <1>3 DEF MapsInv, OwnIds
\* Steps that leave the handler, its entries and its status alone.
<1>k. ASSUME NEW r \in Req, Mine(r), UNCHANGED ctx, reqId'[h] = r, subTracks'[r] = h, h \in byAlias',
             peer[r] = "subOk" => peer'[r] = "subOk" \/ Added(Ending(r)),
             UNCHANGED toClient \/ (\E m : Added(m))
      PROVE  Held(h)'
  <2>1. Handled(r) => Handled(r)'
    BY DEF Handled
  <2> QED
    BY <1>k, <2>1, ServedKept
<1>4. ASSUME NEW g \in Subs, SubscribeTrack(g) PROVE Held(h)'
  <2>1. /\ UNCHANGED <<ctx, status, ghost, byAlias, toClient>> /\ ~Registered(g)
        /\ reqId' = [reqId EXCEPT ![g] = nextReq] /\ subTracks' = [subTracks EXCEPT ![nextReq] = g]
    BY <1>4 DEF SubscribeTrack
  <2>2. PICK r \in Req : Mine(r)
    BY <1>2, <2>1
  <2>3. h # g /\ r # nextReq /\ r # nextReq + 1
    BY <1>1, <2>1, <2>2
  <2>4. reqId'[h] = r /\ subTracks'[r] = h
    BY <1>1, <2>1, <2>2, <2>3 DEF Plain
  <2>5. peer'[r] = peer[r]
    BY <1>4, <2>3 DEF SubscribeTrack, SendSubscribe, SendJoiningFetch, SendCtrlMsg, Plain
  <2> QED
    BY <1>k, <2>1, <2>2, <2>4, <2>5
<1>5. ASSUME NEW g \in Subs, UnsubscribeTrack(g) PROVE Held(h)'
  <2>1. UNCHANGED <<reqId, subTracks, byAlias, toClient, ghost>> /\ (ctx = "open" => ctx' = ctx)
    BY <1>5 DEF UnsubscribeTrack, mapVars
  <2>2. h # g /\ status[h] = "kOk"
    BY <1>1, <1>5 DEF UnsubscribeTrack, Removable, Plain
  <2>3. PICK r \in Req : Mine(r)
    BY <1>2, <2>1, <2>2
  <2>4. r # reqId[g]
    BY <1>1, <1>3, <2>2, <2>3
  <2>5. peer'[r] = peer[r]
    BY <1>5, <2>4 DEF UnsubscribeTrack, SendUnsubscribe, SendCtrlMsg, Plain
  <2> QED
    BY <1>k, <2>1, <2>3, <2>5
<1>6. ASSUME UnsubscribeEnd PROVE Held(h)'
  <2>1. /\ UNCHANGED <<ctx, status, reqId, peer, toClient>> /\ call.op = "unsub" /\ call.h \in Subs
        /\ ghost' = IF status[call.h] = "kOk" THEN ghost \cup {call.h} ELSE ghost
    BY <1>6 DEF UnsubscribeEnd, CallOf, handlerVars, peerVars
  <2>2. h \notin ghost /\ h # call.h
    BY <2>1
  <2>3. PICK r \in Req : Mine(r)
    BY <1>2, <2>1, <2>2
  <2>4. r # reqId[call.h]
    BY <1>1, <1>3, <2>1, <2>2, <2>3
  <2>5. Erase(call.h)
    BY <1>6, <2>3 DEF UnsubscribeEnd
  <2>6. subTracks'[r] = h /\ h \in byAlias'
    BY <2>2, <2>3, <2>4, <2>5 DEF Erase, Plain
  <2> QED
    BY <1>k, <2>1, <2>3, <2>6
\* A SUBSCRIBE_UPDATE.
<1>r. ASSUME NEW u \in Req, NEW x, SendSubscribeUpdate(u, x) PROVE UNCHANGED toClient \/ \E m : Added(m)
  <2>1. Answer("SubscribeError", u) => \E m \in Msg : Added(m)
    BY AnswerAdds
  <2> QED
    BY <1>r, <2>1 DEF SendSubscribeUpdate
<1>7. ASSUME NEW g \in Subs, UpdateTrackSubscription(g) PROVE Held(h)'
  <2>1. /\ UNCHANGED <<ctx, peer, status, reqId, subTracks, byAlias, ghost>>
        /\ Requested(1) /\ SendSubscribeUpdate(nextReq, reqId[g])
    BY <1>7 DEF UpdateTrackSubscription, mapVars, handlerVars
  <2>2. nextReq \in Req
    BY <1>1, <2>1, SubscriberAssumption DEF Requested, Plain, Req
  <2>3. PICK r \in Req : Mine(r)
    BY <1>2, <2>1
  <2> QED
    BY <1>k, <1>r, <2>1, <2>2, <2>3
<1>8. ASSUME UpdateEnd PROVE Held(h)'
  <2>1. UNCHANGED <<ctx, peer, status, reqId, subTracks, byAlias, ghost>> /\ call.rid \in Req
    BY <1>8 DEF UpdateEnd, CallOf, mapVars, handlerVars
  <2>2. UNCHANGED toClient \/ SendSubscribeUpdate(call.rid, reqId[call.h])
    BY <1>8 DEF UpdateEnd
  <2>3. PICK r \in Req : Mine(r)
    BY <1>2, <2>1
  <2> QED
    BY <1>k, <1>r, <2>1, <2>2, <2>3
<1>9. ASSUME NEW g \in Subs, Pause(g) \/ Resume(g) \/ RequestNewGroup(g) PROVE Held(h)'
  <2>1. PICK new : /\ status' = [status EXCEPT ![g] = new]
                   /\ ghost' = IF new = "kOk" /\ ~Held(g) THEN ghost \cup {g} ELSE ghost
    BY <1>9 DEF Pause, Resume, RequestNewGroup, UpdateBegin
  <2>2. UNCHANGED <<ctx, reqId, subTracks, byAlias, peer, toClient>>
    BY <1>9 DEF Pause, Resume, RequestNewGroup, UpdateBegin, mapVars, peerVars
  <2>3. h \notin ghost
    BY <2>1
  <2>4. Held(h)
    <3>1. CASE h = g
      BY <1>1, <2>1, <3>1 DEF Plain
    <3>2. CASE h # g
      BY <1>1, <2>1, <2>3, <3>2 DEF Plain, OkIsServed
    <3> QED
      BY <3>1, <3>2
  <2> QED
    BY <2>2, <2>4 DEF Held, Registered
<1>10. ASSUME NEW f \in Fetches, FetchTrack(f) PROVE Held(h)'
  <2>1. /\ UNCHANGED <<ctx, ghost, byAlias, toClient>> /\ peer' = SendFetch(peer, nextReq)
        /\ reqId' = [reqId EXCEPT ![f] = nextReq] /\ subTracks' = [subTracks EXCEPT ![nextReq] = f]
        /\ status' = [status EXCEPT ![f] = "kPendingResponse"]
    BY <1>10 DEF FetchTrack
  <2>2. status[h] = "kOk" /\ h \notin ghost
    BY <1>1, <2>1 DEF Plain
  <2>3. PICK r \in Req : Mine(r)
    BY <1>2, <2>2
  <2>4. r # nextReq
    BY <1>1, <2>3
  <2>5. reqId'[h] = r /\ subTracks'[r] = h /\ peer'[r] = peer[r]
    BY <1>1, <2>1, <2>3, <2>4 DEF Plain, SendFetch, SendCtrlMsg
  <2> QED
    BY <1>k, <2>1, <2>3, <2>5
<1>11. ASSUME NEW f \in Fetches, CancelFetchTrack(f) PROVE Held(h)'
  <2>1. /\ UNCHANGED <<ctx, ghost, byAlias, toClient>> /\ subTracks' = [subTracks EXCEPT ![reqId[f]] = None]
        /\ reqId' = [reqId EXCEPT ![f] = None]
        /\ (peer' = peer \/ peer' = SendFetchCancel(peer, reqId[f]))
        /\ (status' = status \/ status' = [status EXCEPT ![f] = "kNotConnected"])
    BY <1>11 DEF CancelFetchTrack, histVars
  <2>2. status[h] = "kOk" /\ h \notin ghost
    BY <1>1, <2>1 DEF Plain
  <2>3. PICK r \in Req : Mine(r)
    BY <1>2, <2>2
  <2>4. r # reqId[f]
    BY <1>1, <1>3, <2>3
  <2>5. reqId'[h] = r /\ subTracks'[r] = h /\ peer'[r] = peer[r]
    BY <1>1, <2>1, <2>3, <2>4 DEF Plain, SendFetchCancel, SendCtrlMsg
  <2> QED
    BY <1>k, <2>1, <2>3, <2>5
<1>12. ASSUME RequestTrackStatus PROVE Held(h)'
  <2>1. UNCHANGED <<ctx, status, reqId, subTracks, ghost, byAlias, toClient>> /\ peer' = SendTrackStatus(peer, nextReq)
    BY <1>12 DEF RequestTrackStatus, handlerVars, mapVars
  <2>2. PICK r \in Req : Mine(r)
    BY <1>2, <2>1
  <2>3. r # nextReq
    BY <1>1, <2>2
  <2>4. peer'[r] = peer[r]
    BY <2>1, <2>3 DEF Plain, SendTrackStatus, SendCtrlMsg
  <2> QED
    BY <1>k, <2>1, <2>2, <2>4
<1>13. ASSUME NEW f \in Fetches, FetchStreamClosed(f) PROVE Held(h)'
  <2>1. /\ UNCHANGED <<ctx, reqId, subTracks, ghost, byAlias, toClient, peer>>
        /\ \E s : status' = [status EXCEPT ![f] = s]
    BY <1>13 DEF FetchStreamClosed, conVars, mapVars, peerVars, histVars
  <2>2. status[h] = "kOk"
    BY <1>1, <2>1 DEF Plain
  <2>3. PICK r \in Req : Mine(r)
    BY <1>2, <2>1, <2>2
  <2> QED
    BY <1>k, <2>1, <2>3
<1>18. ASSUME ConnectionLost PROVE Held(h)'
  <2>1. ghost' = ghost
    BY <1>18 DEF ConnectionLost, histVars
  <2>2. ~Registered(h) /\ status[h] = "kOk"
    BY <1>1, <1>18 DEF ConnectionLost
  <2> QED
    BY <1>2, <2>1, <2>2
<1>19. ASSUME ConnectionErased \/ LateNotify PROVE Held(h)'
  <2>1. UNCHANGED <<ghost, status>> /\ ctx # "open"
    BY <1>19 DEF ConnectionErased, LateNotify, histVars, handlerVars
  <2> QED
    BY <1>2, <2>1
\* The server.
<1>s. ASSUME NEW x \in Req, NEW v, NEW t \in {"SubscribeOk", "SubscribeError", "PublishDone", "FetchOk",
                                              "FetchError", "TrackStatusResponse"},
             UNCHANGED <<ctx, status, ghost, reqId, subTracks, byAlias>>,
             peer' = [peer EXCEPT ![x] = v], Answer(t, x), peer[x] = "subOk" => t = "PublishDone"
      PROVE  Held(h)'
  <2>1. PICK r \in Req : Mine(r)
    BY <1>2, <1>s
  <2>2. PICK m \in Msg : Added(m) /\ m = [type |-> t, req |-> x]
    BY <1>s, AnswerAdds
  <2>3. peer[r] = "subOk" => peer'[r] = "subOk" \/ Added(Ending(r))
    <3>1. CASE r = x
      BY <1>s, <2>2, <3>1 DEF Ending
    <3>2. CASE r # x
      BY <1>s, <3>2 DEF Plain
    <3> QED
      BY <3>1, <3>2
  <2> QED
    BY <1>k, <1>s, <2>1, <2>2, <2>3
<1>20. ASSUME NEW x \in Req, PeerAnswers(x, TRUE) \/ PeerAnswers(x, FALSE) PROVE Held(h)'
  <2>1. UNCHANGED <<ctx, status, ghost, reqId, subTracks, byAlias>>
    BY <1>20 DEF PeerAnswers, conVars, handlerVars, mapVars, histVars
  <2>2. CASE PeerAnswers(x, TRUE)
    <3>1. /\ peer[x] # "subOk"
          /\ \/ peer' = [peer EXCEPT ![x] = "subOk"] /\ Answer("SubscribeOk", x)
             \/ peer' = [peer EXCEPT ![x] = "fetchOk"] /\ Answer("FetchOk", x)
             \/ peer' = [peer EXCEPT ![x] = "over"] /\ Answer("TrackStatusResponse", x)
      BY <2>2 DEF PeerAnswers
    <3> QED
      BY <1>s, <2>1, <3>1
  <2>3. CASE PeerAnswers(x, FALSE)
    <3>1. /\ peer[x] # "subOk" /\ peer' = [peer EXCEPT ![x] = "over"]
          /\ Answer("SubscribeError", x) \/ Answer("FetchError", x)
      BY <2>3 DEF PeerAnswers
    <3> QED
      BY <1>s, <2>1, <3>1
  <2> QED
    BY <1>20, <2>2, <2>3
<1>21. ASSUME NEW x \in Req, PeerEnds(x) PROVE Held(h)'
  <2>1. /\ UNCHANGED <<ctx, status, ghost, reqId, subTracks, byAlias>>
        /\ peer' = [peer EXCEPT ![x] = "over"] /\ Answer("PublishDone", x)
    BY <1>21 DEF PeerEnds, conVars, handlerVars, mapVars, histVars
  <2> QED
    BY <1>s, <2>1
<1> QED
  BY <1>4, <1>5, <1>6, <1>7, <1>8, <1>9, <1>10, <1>11, <1>12, <1>13, <1>18, <1>19, <1>20, <1>21

\* And the steps of the notifier thread.
LEMMA ServedReplies ==
    ASSUME Plain, CallOf, ReplyOf, MapsInv, OkInv, FoundInv, toClient \in Seq(Msg), OkIsServed,
           \/ ProcessCtrlMessage
           \/ SubscribeOk \/ SubscribeOkEnd \/ SubscribeError \/ PublishDone \/ FetchOk \/ FetchError
    PROVE  OkIsServed'
<1> SUFFICES ASSUME NEW h \in Subs, status'[h] = "kOk", h \notin ghost'
             PROVE  Held(h)'
  BY DEF OkIsServed
<1>1. /\ nextReq \in Int /\ (\A r \in Req : r \in Int) /\ None \notin Req /\ None \notin Handlers
      /\ None \notin Subs /\ h \in Handlers /\ h \notin Fetches /\ Fetches \subseteq Handlers
      /\ Subs \subseteq Handlers
  BY SubscriberAssumption DEF Plain, Req, Handlers
<1> DEFINE Mine(r) ==
              /\ reqId[h] = r /\ subTracks[r] = h /\ ctx = "open" /\ h \in byAlias
              /\ (peer[r] = "subOk" \/ Ended(r))
<1>2. ASSUME status[h] = "kOk", h \notin ghost PROVE \E r \in Req : Mine(r)
  <2>1. Held(h)
    BY <1>2 DEF OkIsServed
  <2>x. PICK x \in Req : subTracks[x] = h
    BY <2>1 DEF Held, Registered
  <2>y. reqId[h] = x
    BY <1>1, <2>x DEF MapsInv, MapsAgree
  <2>2. reqId[h] \in Req /\ subTracks[reqId[h]] = h
    BY <2>x, <2>y
  <2> QED
    BY <2>1, <2>2 DEF Held, Ended, Queued, Handled, Ending
<1>3. ASSUME NEW r \in Req, Mine(r), NEW g \in Handlers, reqId[g] = r PROVE g = h
  BY <1>1, <1>3 DEF MapsInv, OwnIds
\* The steps that follow the find leave the queue and the server alone.
<1>k. ASSUME NEW r \in Req, Mine(r), UNCHANGED <<ctx, reqId, peer, toClient>>, subTracks'[r] = h, h \in byAlias',
             ~Handled(r)
      PROVE  Held(h)'
  BY <1>k, ServedKept
\* A PUBLISH_DONE that is being handled is that of the handler it found.
<1>h. ASSUME NEW r \in Req, Mine(r), Handled(r) PROVE reply.h = h
  BY <1>1, <1>h DEF FoundInv, Handled
<1>4. CASE ProcessCtrlMessage
  <2>1. UNCHANGED <<ctx, status, reqId, subTracks, byAlias, peer, ghost>> /\ Taken /\ reply = NoReply
    BY <1>4 DEF ProcessCtrlMessage, conVars, handlerVars, histVars, Taken
  <2>2. PICK r \in Req : Mine(r)
    BY <1>2, <2>1
  <2>3. ~Handled(r)
    BY <2>1 DEF Handled, NoReply
  <2>4. Head(toClient) = Ending(r) => Handled(r)'
    BY <1>4, <2>2 DEF ProcessCtrlMessage, Handled, Ending, Wanted
  <2> QED
    BY <2>1, <2>2, <2>3, <2>4, ServedKept
<1>5. CASE SubscribeOk
  <2>1. /\ UNCHANGED <<ctx, status, reqId, subTracks, peer, toClient, ghost>> /\ reply.type = "SubscribeOk"
        /\ byAlias \subseteq byAlias'
    BY <1>5 DEF SubscribeOk, peerVars
  <2>2. PICK r \in Req : Mine(r)
    BY <1>2, <2>1
  <2>3. ~Handled(r)
    BY <2>1 DEF Handled
  <2> QED
    BY <1>k, <2>1, <2>2, <2>3
<1>6. CASE SubscribeOkEnd
  <2>1. /\ UNCHANGED <<ctx, reqId, subTracks, byAlias, peer, toClient>> /\ reply.type = "Aliased"
        /\ status' = [status EXCEPT ![reply.h] = "kOk"]
        /\ ghost' = IF Gone \/ (call.op = "unsub" /\ call.h = reply.h)
                    THEN ghost \cup {reply.h} ELSE ghost \ {reply.h}
    BY <1>6 DEF SubscribeOkEnd, peerVars, mapVars
  <2>2. CASE h = reply.h
    <3>1. ~Gone /\ ~(call.op = "unsub" /\ call.h = h)
      BY <2>1, <2>2
    <3>2. PICK r \in Req : r = reply.req /\ subTracks[r] = h
      BY <2>1, <2>2, <3>1 DEF ReplyOf, NoReply, Gone
    <3>3. reqId[h] = r
      BY <1>1, <3>2 DEF MapsInv, MapsAgree
    <3>4. h \in byAlias
      BY <2>1, <2>2, <3>2 DEF FoundInv
    <3>5. peer[r] = "subOk" \/ LetGo(r) \/ Queued(r)
      BY <2>1, <3>2 DEF OkInv, Accepting
    <3>6. ~LetGo(r)
      BY <3>1, <3>2 DEF LetGo
    <3>7. ctx = "open"
      BY <2>1 DEF OkInv, NoReply
    <3>8. Mine(r)
      BY <3>2, <3>3, <3>4, <3>5, <3>6, <3>7 DEF Ended
    <3>9. ~Handled(r)
      BY <2>1 DEF Handled
    <3> QED
      BY <1>k, <2>1, <3>8, <3>9
  <2>3. CASE h # reply.h
    <3>1. status[h] = "kOk" /\ h \notin ghost
      BY <1>1, <2>1, <2>3 DEF Plain
    <3>2. PICK r \in Req : Mine(r)
      BY <1>2, <3>1
    <3>3. ~Handled(r)
      BY <2>1 DEF Handled
    <3> QED
      BY <1>k, <2>1, <3>2, <3>3
  <2> QED
    BY <2>2, <2>3
<1>7. CASE SubscribeError
  <2>1. /\ UNCHANGED <<ctx, reqId, peer, toClient, ghost>> /\ reply.type = "SubscribeError"
        /\ status' = [status EXCEPT ![reply.h] = "kError"] /\ Erase(reply.h)
    BY <1>7 DEF SubscribeError, peerVars
  <2>2. reply.h \in Subs /\ reply.h \in Handlers
    BY <1>1, <2>1 DEF ReplyOf, NoReply
  <2>3. h # reply.h /\ status[h] = "kOk"
    BY <1>1, <2>1, <2>2 DEF Plain
  <2>4. PICK r \in Req : Mine(r)
    BY <1>2, <2>1, <2>3
  <2>5. r # reqId[reply.h]
    BY <1>3, <2>2, <2>3, <2>4
  <2>6. subTracks'[r] = h /\ h \in byAlias'
    BY <2>1, <2>3, <2>4, <2>5 DEF Erase, Plain
  <2>7. ~Handled(r)
    BY <2>1 DEF Handled
  <2> QED
    BY <1>k, <2>1, <2>4, <2>6, <2>7
<1>8. CASE PublishDone
  <2>1. /\ UNCHANGED <<ctx, reqId, peer, toClient, ghost, subTracks, byAlias>>
        /\ status' = [status EXCEPT ![reply.h] = "kNotSubscribed"]
    BY <1>8 DEF PublishDone, Told, peerVars, histVars
  <2>2. h # reply.h /\ status[h] = "kOk"
    BY <1>1, <2>1 DEF Plain
  <2>3. PICK r \in Req : Mine(r)
    BY <1>2, <2>1, <2>2
  <2>4. ~Handled(r)
    BY <1>h, <2>2, <2>3
  <2> QED
    BY <1>k, <2>1, <2>3, <2>4
<1>9. CASE FetchOk \/ FetchError
  <2>1. /\ UNCHANGED <<ctx, reqId, peer, toClient, ghost, byAlias>> /\ reply.type \in {"FetchOk", "FetchError"}
        /\ \E new : status' = [status EXCEPT ![reply.h] = new]
    BY <1>9 DEF FetchOk, FetchError, Told, peerVars, histVars
  <2>2. reply.h \in Fetches
    BY <2>1 DEF ReplyOf, NoReply
  <2>3. h # reply.h /\ status[h] = "kOk"
    BY <1>1, <2>1, <2>2 DEF Plain
  <2>4. PICK r \in Req : Mine(r)
    BY <1>2, <2>1, <2>3
  <2>5. ~Handled(r)
    BY <2>1 DEF Handled
  <2>6. subTracks'[r] = h
    <3>1. CASE FetchOk
      BY <2>4, <3>1 DEF FetchOk
    <3>2. CASE FetchError
      BY <1>1, <2>3, <2>4, <3>2 DEF FetchError, Gone, Plain
    <3> QED
      BY <1>9, <3>1, <3>2
  <2> QED
    BY <1>k, <2>1, <2>4, <2>5, <2>6
<1> QED
  BY <1>4, <1>5, <1>6, <1>7, <1>8, <1>9

\* The invariant: answers come from requests of the handlers they find.
ServedInv == TypeOK /\ CallOf /\ ReplyOf /\ MapsInv /\ OkInv /\ FoundInv /\ OkIsServed

LEMMA ServedNext ==
    ASSUME ~Again, ServedInv, TypeOK', ReplyOf', Next
    PROVE  OkInv' /\ FoundInv' /\ OkIsServed'
<1>1. Plain /\ toClient \in Seq(Msg) /\ CallOf /\ ReplyOf /\ MapsInv /\ OkInv /\ FoundInv /\ OkIsServed
  BY Splits DEF ServedInv
<1>2. Plain'
  BY DEF TypeOK, Plain, Calls, Answers, Views
<1>3. OkInv'
  <2>1. OkStep /\ Passing
    BY <1>1, OkNext
  <2> QED
    BY <1>1, <1>2, <2>1, OkFrame
<1>4. CASE
           \/ ProcessCtrlMessage
           \/ SubscribeOk \/ SubscribeOkEnd \/ SubscribeError \/ PublishDone \/ FetchOk \/ FetchError
  BY <1>1, <1>2, <1>3, <1>4, FoundReplies, ServedReplies
<1>5. CASE
           \/ \E h \in Subs : \/ SubscribeTrack(h) \/ UnsubscribeTrack(h) \/ UpdateTrackSubscription(h)
                              \/ Pause(h) \/ Resume(h) \/ RequestNewGroup(h)
           \/ \E f \in Fetches : FetchTrack(f) \/ CancelFetchTrack(f) \/ FetchStreamClosed(f)
           \/ UnsubscribeEnd \/ UpdateEnd \/ RequestTrackStatus
           \/ ConnectionLost \/ ConnectionErased \/ LateNotify
           \/ \E r \in Req : PeerAnswers(r, TRUE) \/ PeerAnswers(r, FALSE) \/ PeerEnds(r)
  <2>1. UNCHANGED reply
    BY <1>5, ReplyKept
  <2>2. FoundInv'
    BY <1>1, <1>2, <1>5, <2>1, FoundCalls
  <2>3. OkIsServed'
    BY <1>1, <1>5, <2>1, ServedCalls
  <2> QED
    BY <1>3, <2>2, <2>3
<1> QED
  BY <1>4, <1>5 DEF Next

\* A handler whose status is kOk has a subscription that the server holds and whose
\* objects are routed to it, or the PUBLISH_DONE that will tell it is under way or in
\* hand, whatever runs between the find of an answer and what is done with it and with
\* any number of application threads.  The exceptions are in ghost: Resume and
\* RequestNewGroup without a subscription, and SUBSCRIBE_OK inside or after
\* UnsubscribeTrack.
THEOREM OkServedCorrect == ~Again => (Spec => []OkIsServed)
<1> SUFFICES ASSUME ~Again PROVE Spec => []OkIsServed
  OBVIOUS
<1>1. Init => ServedInv
  <2>1. ASSUME Init PROVE OkInv /\ FoundInv /\ OkIsServed
    <3>1. DOMAIN toClient = {} /\ reply.type = "none" /\ reply.req = None /\ None \notin Req
      BY <2>1, SubscriberAssumption DEF Init, NoReply, Req
    <3> QED
      BY <2>1, <3>1 DEF Init, OkInv, FoundInv, Accepting, OkIsServed, Handlers
  <2> QED
    BY <2>1, PlainInit, Splits, MapsInit DEF ServedInv
<1>2. ServedInv /\ [Next]_vars => ServedInv'
  <2> SUFFICES ASSUME ServedInv, [Next]_vars PROVE ServedInv'
    OBVIOUS
  <2>1. TypeOK' /\ CallOf' /\ ReplyOf'
    BY TypeNext DEF ServedInv
  <2>2. Plain /\ toClient \in Seq(Msg) /\ CallOf /\ ReplyOf /\ MapsInv
    BY Splits DEF ServedInv
  <2>3. CASE Next
    <3>1. MapsInv'
      BY <2>2, <2>3, MapsNext
    <3> QED
      BY <2>1, <2>3, <3>1, ServedNext DEF ServedInv
  <2>4. CASE UNCHANGED vars
    BY <2>1, <2>4 DEF ServedInv, vars, conVars, handlerVars, mapVars, peerVars, histVars,
       MapsInv, MapsAgree, Fresh, OwnIds, OkInv, FoundInv, Granted, LetGo, Queued, Accepting, OkIsServed, Held, Registered
  <2> QED
    BY <2>3, <2>4
<1>3. ServedInv => OkIsServed
  BY DEF ServedInv
<1> QED
  BY <1>1, <1>2, <1>3, PTL DEF Spec

=============================================================================
