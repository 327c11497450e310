---------------------------- MODULE TrackObjects ----------------------------
(***************************************************************************)
(* The objects of one track from PublishTrackHandler::PublishObject to     *)
(* SubscribeTrackHandler::ObjectReceived, in stream mode with explicit     *)
(* subgroup ids.  The publisher's thread runs PublishObject, its notifier  *)
(* thread changes the status of the handler as the subscriber's control    *)
(* messages come in.  An object travels as its distance from the previous  *)
(* object (object_delta) on the stream of its group and subgroup; the      *)
(* subscriber adds the distances up again.                                 *)
(*                                                                         *)
(* Transport and network are abstracted to what TxStream and RxStream show *)
(* of them: a stream keeps its order, different streams overtake each      *)
(* other, a new stream clears what was still queued for the one before,    *)
(* and an object that outlives its ttl is left out.  A received buffer     *)
(* completes some number of objects.                                       *)
(***************************************************************************)
EXTENDS Integers, Sequences

CONSTANTS
    Group, SubGroup, ObjId,  \* ids the application may use
    None,                    \* nullopt
    MayUpdate,     \* may the subscriber send a plain SUBSCRIBE_UPDATE?
    MayDrop,       \* may queued objects expire?
    MaxPerBuf,     \* objects that one received buffer may complete
    MaxPub,        \* bound: calls of PublishObject
    MaxStream      \* bound: streams

Ids == [g : Group, sg : SubGroup, o : ObjId]

ASSUME IdAssumption ==
    /\ Group \subseteq Nat /\ SubGroup \subseteq Nat /\ ObjId \subseteq Nat
    /\ None \notin Nat \cup Ids
ASSUME FlagAssumption ==
    /\ MayUpdate \in BOOLEAN /\ MayDrop \in BOOLEAN
    /\ MaxPerBuf \in Nat \ {0} /\ MaxPub \in Nat /\ MaxStream \in Nat

VARIABLES
    status,   \* publish_status_
    paused,   \* has the subscriber asked to pause, and not taken it back?
    latest,   \* latest_group_id_, latest_sub_group_id_, latest_object_id_
    pub,      \* the call of PublishObject in progress
    npub,     \* calls so far; an object is known by the number of its call
    wire,     \* streams: header and objects
    nstrm,    \* streams so far
    got,      \* objects of a stream the subscriber has received completely
    begun,    \* has the subscriber received the header of the stream?
    sub,      \* SubscribeTrackHandler
    recv      \* what ObjectReceived was called with

pubVars == <<status, paused, latest, pub, npub>>
wireVars == <<wire, nstrm>>
subVars == <<got, begun, sub, recv>>
vars == <<pubVars, wireVars, subVars>>

Stream == 1..MaxStream
NoCall == [pc |-> "idle", ids |-> None, hdr |-> FALSE, setOk |-> FALSE]
Sendable == {"ok", "new_group", "updated"}
Status == Sendable \cup {"paused", "no_subscribers"}

-----------------------------------------------------------------------------
(* The publisher. *)

\* A change of group or subgroup requires a new stream.
HeaderNeeded(ids) ==
    latest = None \/ latest.sg # ids.sg \/ latest.g # ids.g

\* Ids ascend.
InOrderOfGeneration(ids) ==
    latest # None => ids.g > latest.g \/ (ids.g = latest.g /\ ids.o > latest.o)

\* PublishObject as far as the switch on publish_status_.
PublishObject(ids) ==
    /\ pub.pc = "idle" /\ npub < MaxPub /\ InOrderOfGeneration(ids)
    /\ status \in Sendable
    /\ LET hdr == HeaderNeeded(ids) \/ status = "updated" IN
         pub' = [pc |-> "send", ids |-> ids, hdr |-> hdr,
                 setOk |-> status = "updated" \/ (status = "new_group" /\ hdr)]
    /\ npub' = npub + 1
    /\ UNCHANGED <<status, paused, latest, wireVars, subVars>>

\* The object is dropped: paused, or no subscribers.
PublishRefused(ids) ==
    /\ pub.pc = "idle" /\ npub < MaxPub /\ InOrderOfGeneration(ids)
    /\ status \notin Sendable
    /\ npub' = npub + 1
    /\ UNCHANGED <<status, paused, latest, pub, wireVars, subVars>>

\* object_id_delta: the ids skipped since the previous object; an id below
\* the previous one counts from 0.
ObjectDelta(ids) ==
    LET d == IF latest = None THEN ids.o + 1
             ELSE IF latest.o > ids.o THEN ids.o ELSE ids.o - latest.o
    IN  IF d > 0 THEN d - 1 ELSE 0

\* The rest of PublishObject: the header clears the transmit queue, which
\* cuts the stream before to what was already sent.
Send ==
    /\ pub.pc = "send"
    /\ LET ids == pub.ids
           obj == [n |-> npub, ids |-> ids, prev |-> latest, delta |-> ObjectDelta(ids)]
       IN  /\ IF pub.hdr
              THEN /\ nstrm < MaxStream
                   /\ nstrm' = nstrm + 1
                   /\ LET new == [g |-> ids.g, sg |-> ids.sg, objs |-> <<obj>>] IN
                      IF nstrm = 0 THEN wire' = [wire EXCEPT ![1] = new]
                      ELSE \E k \in got[nstrm]..Len(wire[nstrm].objs) :
                             wire' = [wire EXCEPT ![nstrm + 1] = new,
                                                  ![nstrm].objs = SubSeq(@, 1, k)]
              ELSE /\ wire' = [wire EXCEPT ![nstrm].objs = Append(@, obj)]
                   /\ UNCHANGED nstrm
           /\ latest' = ids
    /\ status' = IF pub.setOk THEN "ok" ELSE status
    /\ pub' = NoCall
    /\ UNCHANGED <<paused, npub, subVars>>

\* The publisher's notifier thread: SUBSCRIBE, SUBSCRIBE_UPDATE and
\* UNSUBSCRIBE set the status (a subscriber that comes back does so with the
\* same handler).
SetStatus(s) ==
    /\ s # status
    /\ \/ s = "ok" /\ status = "no_subscribers"
       \/ s = "paused" /\ status # "no_subscribers"
       \/ s = "new_group" /\ status # "no_subscribers"
       \/ s = "updated" /\ status # "no_subscribers" /\ MayUpdate
       \/ s = "no_subscribers"
    /\ status' = s
    /\ paused' = (s = "paused")
    /\ UNCHANGED <<latest, pub, npub, wireVars, subVars>>

\* An object outlives its ttl in the transmit queue.
Expire(s, i) ==
    /\ MayDrop /\ s = nstrm /\ i \in got[s] + 1..Len(wire[s].objs)
    /\ wire' = [wire EXCEPT ![s].objs = SubSeq(@, 1, i - 1) \o SubSeq(@, i + 1, Len(@))]
    /\ UNCHANGED <<pubVars, nstrm, subVars>>

-----------------------------------------------------------------------------
(* The subscriber. *)

\* Mutant: a buffer of an older stream is taken as well.
AcceptsAll(s) == TRUE
\* Data of an older stream than the current one is ignored.
Accepts(s) == s >= sub.cur

\* Mutant: the id goes on from the last group.
NextObjectIdGoesOn(obj, hdr) ==
    IF sub.next # None THEN sub.next + obj.delta ELSE obj.delta

\* The id of a decoded object, hdr being the header of its stream.
NextObjectId(obj, hdr) ==
    IF sub.next # None /\ sub.g = hdr.g /\ sub.sg = hdr.sg
    THEN sub.next + obj.delta ELSE obj.delta

\* stream_buffer_: the start of a stream clears it.
Buffered(s, new) == IF begun[s] THEN sub.buf \o new ELSE new

\* StreamDataRecv: one buffer, which completes k objects, yields at most one.
StreamDataRecv(s, k) ==
    /\ s <= nstrm /\ got[s] + k <= Len(wire[s].objs)
    /\ begun[s] => k > 0 \/ sub.buf # <<>>
    /\ got' = [got EXCEPT ![s] = @ + k]
    /\ begun' = [begun EXCEPT ![s] = TRUE]
    /\ LET buf == Buffered(s, SubSeq(wire[s].objs, got[s] + 1, got[s] + k))
           hdr == wire[s]
           id == NextObjectId(buf[1], hdr)
       IN  IF ~Accepts(s) THEN UNCHANGED <<sub, recv>>
           ELSE IF buf = <<>>
           THEN sub' = [sub EXCEPT !.cur = s, !.buf = buf] /\ UNCHANGED recv
           ELSE /\ sub' = [cur |-> s, buf |-> Tail(buf), next |-> id + 1,
                           g |-> hdr.g, sg |-> hdr.sg]
                /\ recv' = Append(recv, [n |-> buf[1].n, sent |-> buf[1].ids, prev |-> buf[1].prev,
                                         as |-> [g |-> hdr.g, sg |-> hdr.sg, o |-> id]])
    /\ UNCHANGED <<pubVars, wireVars>>

-----------------------------------------------------------------------------
Init ==
    /\ status = "no_subscribers" /\ paused = FALSE /\ latest = None /\ pub = NoCall
    /\ npub = 0 /\ nstrm = 0
    /\ wire = [s \in Stream |-> [g |-> 0, sg |-> 0, objs |-> <<>>]]
    /\ got = [s \in Stream |-> 0] /\ begun = [s \in Stream |-> FALSE]
    /\ sub = [cur |-> 0, buf |-> <<>>, next |-> None, g |-> 0, sg |-> 0]
    /\ recv = <<>>

Publisher == Send \/ \E ids \in Ids : PublishObject(ids) \/ PublishRefused(ids)
Notifier == \E s \in Status : SetStatus(s)
Network == \E s \in Stream :
    \/ \E i \in 1..MaxPub : Expire(s, i)
    \/ \E k \in 0..MaxPerBuf : StreamDataRecv(s, k)

Next == Publisher \/ Notifier \/ Network

Spec == Init /\ [][Next]_vars

-----------------------------------------------------------------------------
(* Properties. *)

Object == [n : Nat, ids : Ids, prev : Ids \cup {None}, delta : Nat]

\* Types; in particular a distance between object ids is never below zero.
TypeOK ==
    /\ status \in Status /\ paused \in BOOLEAN
    /\ latest \in Ids \cup {None}
    /\ pub \in [pc : {"idle", "send"}, ids : Ids \cup {None}, hdr : BOOLEAN, setOk : BOOLEAN]
    /\ npub \in 0..MaxPub /\ nstrm \in 0..MaxStream
    /\ wire \in [Stream -> [g : Nat, sg : Nat, objs : Seq(Object)]]
    /\ got \in [Stream -> Nat] /\ begun \in [Stream -> BOOLEAN]
    /\ sub \in [cur : 0..MaxStream, buf : Seq(Object), next : Nat \cup {None}, g : Nat, sg : Nat]
    /\ recv \in Seq([n : Nat, sent : Ids, prev : Ids \cup {None}, as : [g : Nat, sg : Nat, o : Nat]])

SameStream(a, b) == a.g = b.g /\ a.sg = b.sg

\* The objects received from j to i are of one subgroup, the first has id 0 and each
\* followed the one before it when it was published.
Unbroken(j, i) ==
    /\ recv[j].sent.o = 0
    /\ j = 1 \/ ~SameStream(recv[j].sent, recv[j - 1].sent)
    /\ \A k \in j + 1..i : recv[k].prev = recv[k - 1].sent /\ SameStream(recv[k].sent, recv[j].sent)

\* The ids the subscriber adds up from the deltas are those of the publisher, in every
\* subgroup that starts at 0 and as far as nothing of it is lost, whatever the pauses,
\* the updates and the streams that were given up.
IdsAgree ==
    \A i \in 1..Len(recv) :
        (\E j \in 1..i : Unbroken(j, i)) => recv[i].as = recv[i].sent

\* Whatever is lost or overtaken, objects are received in the order they were
\* published, none twice, and in their own group and subgroup.
PublishedOrder ==
    /\ \A i, j \in 1..Len(recv) : i < j => recv[i].n < recv[j].n
    /\ \A i \in 1..Len(recv) :
            recv[i].as.g = recv[i].sent.g /\ recv[i].as.sg = recv[i].sent.sg

-----------------------------------------------------------------------------
(* What the documentation says and the code does not do, beyond what the    *)
(* runs show; the README describes the counterexamples.                     *)

\* "Event notification to provide the caller the received full data object":
\* every completely received object of the current stream is handed over.
AllReceived ==
    \A s \in Stream : sub.cur = s /\ got[s] = Len(wire[s].objs) => sub.buf = <<>>

\* The subscriber is given the ids the publisher gave: "Application defined order of
\* generation".  A subgroup that does not start at 0 is given smaller ones.
IdsSame == \A i \in 1..Len(recv) : recv[i].as = recv[i].sent

\* A pause stays in force until the subscriber takes it back.
PauseRespected == paused => status = "paused"
=============================================================================
