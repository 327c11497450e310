------------------------- MODULE TrackObjectsProofs -------------------------
(***************************************************************************)
(* Proofs about TrackObjects, for all sets of ids and all bounds.          *)
(*                                                                         *)
(* What is on the streams is numbered in the order it was published        *)
(* (Numbered, Below), the subscriber's buffer is the end of what it got of *)
(* the current stream (Window), and everything it may still be given was   *)
(* published after what it has been given (Ahead).  The ids agree because  *)
(* every object carries the distance to the one published before it        *)
(* (Linked) and the subscriber goes on from the id it gave last (Follows). *)
(*                                                                         *)
(* Ids and distances travel as the numbers of StreamBuffer: the last       *)
(* section shows that these are read as they were written.                 *)
(***************************************************************************)
EXTENDS TrackObjects, StreamBuffer, SequenceTheorems, TLAPS

Received == [n : Nat, sent : Ids, prev : Ids \cup {None}, as : [g : Nat, sg : Nat, o : Nat]]
Calls == [pc : {"idle", "send"}, ids : Ids \cup {None}, hdr : BOOLEAN, setOk : BOOLEAN]

Objs(s) == wire[s].objs
Places(s) == 1 .. Len(Objs(s))

\* The number the next object on a stream will have.
Coming == IF pub.pc = "send" THEN npub ELSE npub + 1

\* Objects lie on the streams in the order of their numbers.
Numbered ==
    \A s, u \in Stream : \A i \in Places(s), j \in Places(u) :
        s < u \/ (s = u /\ i < j) => Objs(s)[i].n < Objs(u)[j].n

Below ==
    /\ \A s \in Stream : \A i \in Places(s) : Objs(s)[i].n < Coming
    /\ \A s \in Stream : s > nstrm => Objs(s) = <<>>
    /\ \A k \in 1 .. Len(recv) : recv[k].n < Coming

\* An object has the distance to the object published before it, and comes after it.
LinkedTo(prev, ids, delta) ==
    IF prev = None THEN delta = ids.o
    ELSE /\ ids.g > prev.g \/ (ids.g = prev.g /\ ids.o > prev.o)
         /\ ids.o > prev.o => delta = ids.o - prev.o - 1
         /\ ids.o = 0 => delta = 0

Linked ==
    \A s \in Stream : \A i \in Places(s) :
        LinkedTo(Objs(s)[i].prev, Objs(s)[i].ids, Objs(s)[i].delta)

\* A stream carries the objects of its group and subgroup, the last one those of the
\* object published last.
OwnGroup ==
    /\ \A s \in Stream : \A i \in Places(s) : SameStream(Objs(s)[i].ids, wire[s])
    /\ latest # None => nstrm > 0 /\ SameStream(latest, wire[nstrm])

\* A call under way is still in order, and what it found out about the stream holds.
CallInv ==
    pub.pc = "send" =>
        /\ pub.ids \in Ids /\ InOrderOfGeneration(pub.ids)
        /\ ~pub.hdr => latest # None /\ SameStream(latest, pub.ids)

\* The buffer is the end of what was got of the current stream, and newer streams have
\* not begun.
Window ==
    /\ \A s \in Stream : got[s] <= Len(Objs(s))
    /\ \A s \in Stream : s > sub.cur => ~begun[s] /\ got[s] = 0
    /\ sub.cur = 0 => sub.buf = <<>> /\ recv = <<>>
    /\ sub.cur \in Stream =>
         /\ begun[sub.cur] /\ sub.cur <= nstrm /\ Len(sub.buf) <= got[sub.cur]
         /\ \A i \in 1 .. Len(sub.buf) :
                sub.buf[i] = Objs(sub.cur)[got[sub.cur] - Len(sub.buf) + i]

\* What can still be given to the application.
Ahead ==
    \A s \in Stream : \A i \in Places(s) :
        s > sub.cur \/ (s = sub.cur /\ i > got[s] - Len(sub.buf)) =>
            \A k \in 1 .. Len(recv) : recv[k].n < Objs(s)[i].n

OrderInv == TypeOK /\ Numbered /\ Below /\ OwnGroup /\ CallInv /\ Window /\ Ahead /\ PublishedOrder

\* The subscriber goes on from the object it was given last.
Follows ==
    /\ recv = <<>> => sub.next = None
    /\ recv # <<>> => LET r == recv[Len(recv)] IN
                        sub.next = r.as.o + 1 /\ sub.g = r.as.g /\ sub.sg = r.as.sg

IdInv == Linked /\ Follows /\ IdsAgree

-----------------------------------------------------------------------------
(* Types. *)

LEMMA ConstTypes == /\ Group \subseteq Nat /\ SubGroup \subseteq Nat /\ ObjId \subseteq Nat /\ None \notin Nat
                   /\ MaxStream \in Nat /\ MaxPub \in Nat /\ MaxPerBuf \in Nat
                   /\ None \notin Ids
BY IdAssumption, FlagAssumption

\* Ids are natural numbers.
LEMMA IdsNat ==
    ASSUME NEW ids \in Ids
    PROVE  ids.g \in Nat /\ ids.sg \in Nat /\ ids.o \in Nat
BY ConstTypes DEF Ids

\* The distance is a natural number, and the one LinkedTo speaks of.
LEMMA DeltaIs ==
    ASSUME latest \in Ids \cup {None}, NEW ids \in Ids
    PROVE  /\ ObjectDelta(ids) \in Nat
           /\ InOrderOfGeneration(ids) => LinkedTo(latest, ids, ObjectDelta(ids))
<1>1. ids.o \in Nat
  BY IdsNat
<1>2. CASE latest = None
  BY <1>1, <1>2 DEF ObjectDelta, LinkedTo
<1>3. CASE latest # None
  <2>1. latest.o \in Nat
    BY <1>3, IdsNat
  <2> QED
    BY <1>1, <1>3, <2>1 DEF ObjectDelta, LinkedTo, InOrderOfGeneration
<1> QED
  BY <1>2, <1>3

LEMMA StreamType ==
    ASSUME TypeOK, NEW s \in Stream
    PROVE  /\ wire[s] \in [g : Nat, sg : Nat, objs : Seq(Object)]
           /\ Objs(s) \in Seq(Object) /\ Len(Objs(s)) \in Nat /\ got[s] \in Nat /\ begun[s] \in BOOLEAN
           /\ s \in Nat /\ wire[s].g \in Nat /\ wire[s].sg \in Nat
           /\ \A i \in Places(s) : Objs(s)[i] \in Object /\ Objs(s)[i].n \in Nat
<1>1. wire[s] \in [g : Nat, sg : Nat, objs : Seq(Object)] /\ got[s] \in Nat /\ begun[s] \in BOOLEAN /\ s \in Nat
  BY ConstTypes DEF TypeOK, Stream
<1>2. Objs(s) \in Seq(Object)
  BY <1>1 DEF Objs
<1>3. \A i \in Places(s) : Objs(s)[i] \in Object
  BY <1>2, ElementOfSeq DEF Places
<1> QED
  BY <1>1, <1>2, <1>3, LenProperties DEF Object

LEMMA SubType ==
    ASSUME TypeOK
    PROVE  /\ sub.cur \in Nat /\ sub.cur \in 0 .. MaxStream /\ sub.buf \in Seq(Object) /\ Len(sub.buf) \in Nat
           /\ sub.next \in Nat \cup {None} /\ sub.g \in Nat /\ sub.sg \in Nat
           /\ recv \in Seq(Received) /\ Len(recv) \in Nat
           /\ \A k \in 1 .. Len(recv) : recv[k] \in Received /\ recv[k].n \in Nat
<1>1. sub.cur \in 0 .. MaxStream /\ sub.buf \in Seq(Object) /\ sub.next \in Nat \cup {None} /\ sub.g \in Nat /\ sub.sg \in Nat
  BY DEF TypeOK
<1>2. recv \in Seq(Received)
  BY DEF TypeOK, Received
<1>3. \A k \in 1 .. Len(recv) : recv[k] \in Received
  BY <1>2, ElementOfSeq
<1>4. Len(sub.buf) \in Nat /\ Len(recv) \in Nat
  BY <1>1, <1>2, LenProperties
<1>5. sub.cur \in Nat
  BY <1>1, ConstTypes
<1>6. \A k \in 1 .. Len(recv) : recv[k].n \in Nat
  BY <1>3 DEF Received
<1> QED
  BY <1>1, <1>2, <1>3, <1>4, <1>5, <1>6

-----------------------------------------------------------------------------
(* What Send does. *)

\* The object the call under way puts on a stream.
NewObject == [n |-> npub, ids |-> pub.ids, prev |-> latest, delta |-> ObjectDelta(pub.ids)]

LEMMA NewObjectType ==
    ASSUME TypeOK, CallInv, pub.pc = "send"
    PROVE  NewObject \in Object /\ pub.ids \in Ids /\ npub \in Nat
<1>1. pub.ids \in Ids /\ npub \in Nat /\ latest \in Ids \cup {None}
  BY ConstTypes DEF CallInv, TypeOK
<1>2. ObjectDelta(pub.ids) \in Nat
  BY <1>1, DeltaIs
<1> QED
  BY <1>1, <1>2 DEF NewObject, Object

\* With a header: a stream of its own, and the one before is cut behind what was got.
LEMMA SendHeader ==
    ASSUME TypeOK, CallInv, Window, Send, pub.hdr
    PROVE  /\ nstrm + 1 \in Stream /\ nstrm' = nstrm + 1
           /\ wire'[nstrm + 1] = [g |-> pub.ids.g, sg |-> pub.ids.sg, objs |-> <<NewObject>>]
           /\ \A s \in Stream : s # nstrm /\ s # nstrm + 1 => wire'[s] = wire[s]
           /\ nstrm \in Stream => \E k \in got[nstrm] .. Len(Objs(nstrm)) :
                wire'[nstrm] = [wire[nstrm] EXCEPT !.objs = SubSeq(@, 1, k)]
           /\ DOMAIN wire' = Stream
<1>1. nstrm \in Nat /\ nstrm < MaxStream /\ nstrm' = nstrm + 1 /\ nstrm + 1 \in Stream
  <2>1. nstrm < MaxStream /\ nstrm' = nstrm + 1
    BY Zenon DEF Send
  <2>2. nstrm \in 0..MaxStream
    BY Zenon DEF TypeOK
  <2>3. MaxStream \in Nat
    BY ConstTypes, Zenon
  <2>4. PICK n \in Nat : n = nstrm
    BY <2>2, <2>3
  <2>5. n + 1 \in 1..MaxStream
    BY <2>1, <2>3, <2>4
  <2> QED
    BY <2>1, <2>4, <2>5 DEF Stream
<1> DEFINE new == [g |-> pub.ids.g, sg |-> pub.ids.sg, objs |-> <<NewObject>>]
<1>2. CASE nstrm = 0
  <2>1. wire' = [wire EXCEPT ![1] = new]
    BY <1>2 DEF Send, NewObject
  <2> QED
    BY <1>1, <1>2, <2>1, ConstTypes DEF TypeOK, Stream
<1>3. CASE nstrm # 0
  <2>1. PICK k \in got[nstrm] .. Len(wire[nstrm].objs) :
            wire' = [wire EXCEPT ![nstrm + 1] = new, ![nstrm].objs = SubSeq(@, 1, k)]
    BY <1>3 DEF Send, NewObject
  <2>2. nstrm \in Stream /\ nstrm # nstrm + 1
    BY <1>1, <1>3, ConstTypes DEF Stream
  <2> QED
    BY <1>1, <2>1, <2>2 DEF TypeOK, Objs
<1> QED
  BY <1>2, <1>3

\* Without: one more object on the last stream.
LEMMA SendObject ==
    ASSUME TypeOK, CallInv, OwnGroup, Send, ~pub.hdr
    PROVE  /\ nstrm \in Stream /\ nstrm' = nstrm /\ latest # None /\ SameStream(latest, pub.ids)
           /\ wire'[nstrm] = [wire[nstrm] EXCEPT !.objs = Append(@, NewObject)]
           /\ \A s \in Stream : s # nstrm => wire'[s] = wire[s]
           /\ DOMAIN wire' = Stream
<1>1. latest # None /\ SameStream(latest, pub.ids) /\ nstrm > 0
  BY DEF Send, CallInv, OwnGroup
<1>2. nstrm \in Stream
  BY <1>1, ConstTypes DEF TypeOK, Stream
<1>3. wire' = [wire EXCEPT ![nstrm].objs = Append(@, NewObject)] /\ nstrm' = nstrm
  BY DEF Send, NewObject
<1> QED
  BY <1>1, <1>2, <1>3 DEF TypeOK

\* The stream before, cut to its first k objects.
LEMMA CutIs ==
    ASSUME NEW o \in Seq(Object), NEW k \in 0 .. Len(o)
    PROVE  /\ SubSeq(o, 1, k) \in Seq(Object) /\ Len(SubSeq(o, 1, k)) = k
           /\ \A i \in 1 .. k : SubSeq(o, 1, k)[i] = o[i]
<1>1. \A i \in 1 .. k : o[i] \in Object
  BY ElementOfSeq
<1>2. Len(o) \in Nat /\ k \in Nat
  BY LenProperties
<1> QED
  BY <1>1, <1>2, SubSeqProperties


\* Types, action by action.
LEMMA TypeInit == Init => TypeOK
<1> SUFFICES ASSUME Init PROVE TypeOK
  OBVIOUS
<1>1. wire \in [Stream -> [g : Nat, sg : Nat, objs : Seq(Object)]]
  BY EmptySeq DEF Init
<1>2. sub \in [cur : 0 .. MaxStream, buf : Seq(Object), next : Nat \cup {None}, g : Nat, sg : Nat]
  BY EmptySeq, ConstTypes DEF Init
<1>3. pub \in [pc : {"idle", "send"}, ids : Ids \cup {None}, hdr : BOOLEAN, setOk : BOOLEAN]
  BY DEF Init, NoCall
<1>4. got \in [Stream -> Nat] /\ npub \in 0 .. MaxPub /\ nstrm \in 0 .. MaxStream
  BY ConstTypes DEF Init
<1>5. begun \in [Stream -> BOOLEAN] /\ paused \in BOOLEAN
  BY DEF Init
<1>6. recv \in Seq(Received)
  BY EmptySeq DEF Init
<1> QED
  BY <1>1, <1>2, <1>3, <1>4, <1>5, <1>6 DEF Init, TypeOK, Status, Received

LEMMA TypePublish ==
    ASSUME TypeOK, NEW ids \in Ids, PublishObject(ids) \/ PublishRefused(ids)
    PROVE  TypeOK'
<1>1. UNCHANGED <<status, paused, latest, wire, nstrm, got, begun, sub, recv>> /\ npub' \in 0 .. MaxPub
  BY ConstTypes DEF PublishObject, PublishRefused, wireVars, subVars, TypeOK
<1>2. pub' \in Calls
  <2>1. CASE PublishRefused(ids)
    BY <2>1 DEF PublishRefused, TypeOK, Calls
  <2>2. CASE PublishObject(ids)
    <3>1. (HeaderNeeded(ids) \/ status = "updated") \in BOOLEAN
      OBVIOUS
    <3>2. (status = "updated" \/ (status = "new_group" /\ (HeaderNeeded(ids) \/ status = "updated"))) \in BOOLEAN
      OBVIOUS
    <3> QED
      BY <2>2, <3>1, <3>2, Zenon DEF PublishObject, Calls
  <2> QED
    BY <2>1, <2>2
<1> QED
  BY <1>1, <1>2 DEF TypeOK, Calls

LEMMA HeaderType ==
    ASSUME NEW x \in Nat, NEW y \in Nat, NEW o \in Seq(Object)
    PROVE  [g |-> x, sg |-> y, objs |-> o] \in [g : Nat, sg : Nat, objs : Seq(Object)]
OBVIOUS

LEMMA WireTypeSend ==
    ASSUME TypeOK, CallInv, OwnGroup, Window, Send
    PROVE  wire' \in [Stream -> [g : Nat, sg : Nat, objs : Seq(Object)]]
<1>1. NewObject \in Object /\ pub.ids \in Ids
  BY NewObjectType DEF Send
<1>2. pub.ids.g \in Nat /\ pub.ids.sg \in Nat
  BY <1>1, IdsNat
<1>3. DOMAIN wire' = Stream /\ \E f : wire' = [s \in Stream |-> f[s]]
  <2>1. DOMAIN wire' = Stream
    BY SendHeader, SendObject
  <2>2. \/ \E n : wire' = [wire EXCEPT ![1] = n]
        \/ \E n, k : wire' = [wire EXCEPT ![nstrm + 1] = n, ![nstrm].objs = SubSeq(@, 1, k)]
        \/ wire' = [wire EXCEPT ![nstrm].objs = Append(@, NewObject)]
    BY DEF Send, NewObject
  <2>3. wire = [s \in Stream |-> wire[s]]
    BY DEF TypeOK
  <2>4. wire' = [s \in Stream |-> wire'[s]]
    BY <2>1, <2>2, <2>3
  <2> QED
    BY <2>1, <2>4
<1>4. ASSUME NEW s \in Stream
      PROVE  wire'[s] \in [g : Nat, sg : Nat, objs : Seq(Object)]
  <2>1. wire[s] \in [g : Nat, sg : Nat, objs : Seq(Object)] /\ Objs(s) \in Seq(Object) /\ got[s] \in Nat
    BY <1>4, StreamType
  <2>2. CASE pub.hdr
    <3>1. CASE s = nstrm + 1
      <4>1. <<NewObject>> \in Seq(Object)
        BY <1>1
      <4>2. wire'[s] = [g |-> pub.ids.g, sg |-> pub.ids.sg, objs |-> <<NewObject>>]
        BY <2>2, <3>1, SendHeader
      <4> QED
        BY <1>2, <4>1, <4>2, HeaderType
    <3>2. CASE s = nstrm
      <4>1. PICK k \in got[s] .. Len(Objs(s)) : wire'[s] = [wire[s] EXCEPT !.objs = SubSeq(@, 1, k)]
        BY <2>2, <3>2, SendHeader
      <4>2. k \in 0 .. Len(Objs(s))
        BY <2>1, <4>1, LenProperties
      <4>3. SubSeq(wire[s].objs, 1, k) \in Seq(Object)
        BY <2>1, <4>2, CutIs DEF Objs
      <4> QED
        BY <2>1, <4>1, <4>3
    <3> QED
      BY <2>1, <2>2, <3>1, <3>2, SendHeader
  <2>3. CASE ~pub.hdr
    <3>1. CASE s = nstrm
      <4>1. Append(wire[s].objs, NewObject) \in Seq(Object)
        BY <1>1, <2>1, AppendProperties DEF Objs
      <4> QED
        BY <2>1, <2>3, <3>1, <4>1, SendObject
    <3> QED
      BY <2>1, <2>3, <3>1, SendObject
  <2> QED
    BY <2>2, <2>3
<1> QED
  BY <1>3, <1>4

LEMMA TypeSend ==
    ASSUME TypeOK, CallInv, OwnGroup, Window, Send
    PROVE  TypeOK'
<1>1. wire' \in [Stream -> [g : Nat, sg : Nat, objs : Seq(Object)]]
  BY WireTypeSend
<1>2. pub.ids \in Ids /\ latest' = pub.ids /\ pub' = NoCall /\ status' \in {"ok", status}
      /\ UNCHANGED <<paused, npub, got, begun, sub, recv>>
  BY NewObjectType DEF Send, subVars
<1>3. nstrm' \in 0 .. MaxStream
  <2>1. CASE pub.hdr
    BY <2>1, SendHeader DEF Stream
  <2>2. CASE ~pub.hdr
    BY <2>2, SendObject DEF TypeOK
  <2> QED
    BY <2>1, <2>2
<1>4. pub' \in Calls
  BY <1>2 DEF NoCall, Calls
<1> QED
  BY <1>1, <1>2, <1>3, <1>4 DEF TypeOK, Status, Sendable, Calls

LEMMA TypeNotifier ==
    ASSUME TypeOK, NEW s \in Status, SetStatus(s)
    PROVE  TypeOK'
<1>1. UNCHANGED <<latest, pub, npub, wire, nstrm, got, begun, sub, recv>> /\ status' = s /\ paused' \in BOOLEAN
  BY DEF SetStatus, wireVars, subVars
<1> QED
  BY <1>1 DEF TypeOK


\* What Expire leaves of a sequence.
LEMMA ThinIs ==
    ASSUME NEW o \in Seq(Object), NEW i \in 1 .. Len(o)
    PROVE  LET t == SubSeq(o, 1, i - 1) \o SubSeq(o, i + 1, Len(o))
           IN  /\ t \in Seq(Object) /\ Len(t) = Len(o) - 1
               /\ \A m \in 1 .. Len(t) : t[m] = o[IF m < i THEN m ELSE m + 1]
<1> DEFINE a == SubSeq(o, 1, i - 1)
           b == SubSeq(o, i + 1, Len(o))
<1>1. Len(o) \in Nat /\ i \in Int
  BY LenProperties
<1>2. \A m \in 1 .. Len(o) : o[m] \in Object
  BY ElementOfSeq
<1>3. /\ a \in Seq(Object) /\ Len(a) = i - 1 /\ \A m \in 1 .. i - 1 : a[m] = o[m]
  <2>1. i - 1 \in 0 .. Len(o)
    BY <1>1
  <2> QED
    BY <2>1, CutIs
<1>4. /\ b \in Seq(Object) /\ Len(b) = Len(o) - i /\ \A m \in 1 .. Len(o) - i : b[m] = o[i + m]
  <2>1. \A m \in i + 1 .. Len(o) : o[m] \in Object
    BY <1>1, <1>2
  <2>2. i + 1 \in Int /\ Len(o) \in Int
    BY <1>1
  <2>3. /\ b \in Seq(Object) /\ Len(b) = IF i + 1 <= Len(o) THEN Len(o) - (i + 1) + 1 ELSE 0
        /\ \A m \in 1 .. Len(o) - (i + 1) + 1 : b[m] = o[(i + 1) + m - 1]
    BY <2>1, <2>2, SubSeqProperties
  <2>4. Len(b) = Len(o) - i
    BY <1>1, <2>3
  <2>5. \A m \in 1 .. Len(o) - i : b[m] = o[i + m]
    <3> SUFFICES ASSUME NEW m \in 1 .. Len(o) - i PROVE b[m] = o[i + m]
      OBVIOUS
    <3>1. m \in 1 .. Len(o) - (i + 1) + 1 /\ (i + 1) + m - 1 = i + m
      BY <1>1
    <3> QED
      BY <2>3, <3>1
  <2> QED
    BY <2>3, <2>4, <2>5
<1> HIDE DEF a, b
<1>5. /\ a \o b \in Seq(Object) /\ Len(a \o b) = Len(a) + Len(b)
      /\ \A m \in 1 .. Len(a) + Len(b) : (a \o b)[m] = IF m <= Len(a) THEN a[m] ELSE b[m - Len(a)]
  BY <1>3, <1>4, ConcatProperties
<1>6. Len(a \o b) = Len(o) - 1
  BY <1>1, <1>3, <1>4, <1>5
<1>7. ASSUME NEW m \in 1 .. Len(a \o b)
      PROVE  (a \o b)[m] = o[IF m < i THEN m ELSE m + 1]
  <2>1. m \in 1 .. Len(a) + Len(b) /\ Len(a) = i - 1 /\ Len(b) = Len(o) - i
    BY <1>3, <1>4, <1>5
  <2>2. CASE m < i
    <3>1. m <= Len(a) /\ m \in 1 .. i - 1
      BY <1>1, <2>1, <2>2
    <3> QED
      BY <1>3, <1>5, <2>1, <2>2, <3>1
  <2>3. CASE ~(m < i)
    <3>1. ~(m <= Len(a)) /\ m - Len(a) \in 1 .. Len(o) - i /\ i + (m - Len(a)) = m + 1
      BY <1>1, <2>1, <2>3
    <3>2. (a \o b)[m] = b[m - Len(a)]
      BY <1>5, <2>1, <3>1
    <3>3. b[m - Len(a)] = o[m + 1]
      BY <1>4, <3>1
    <3> QED
      BY <2>3, <3>2, <3>3
  <2> QED
    BY <2>2, <2>3
<1> QED
  BY <1>5, <1>6, <1>7 DEF a, b

\* Expire changes one stream.
LEMMA ExpireIs ==
    ASSUME TypeOK, NEW s \in Stream, NEW i \in 1 .. MaxPub, Expire(s, i)
    PROVE  /\ i \in Places(s) /\ i > got[s] /\ s = nstrm
           /\ wire' = [wire EXCEPT ![s].objs = SubSeq(@, 1, i - 1) \o SubSeq(@, i + 1, Len(@))]
           /\ wire'[s].objs \in Seq(Object) /\ Len(wire'[s].objs) = Len(Objs(s)) - 1
           /\ wire'[s].g = wire[s].g /\ wire'[s].sg = wire[s].sg
           /\ \A m \in 1 .. Len(wire'[s].objs) : wire'[s].objs[m] = Objs(s)[IF m < i THEN m ELSE m + 1]
           /\ \A u \in Stream : u # s => wire'[u] = wire[u]
           /\ wire' \in [Stream -> [g : Nat, sg : Nat, objs : Seq(Object)]]
           /\ UNCHANGED <<status, paused, latest, pub, npub, nstrm, got, begun, sub, recv>>
<1>1. /\ wire[s] \in [g : Nat, sg : Nat, objs : Seq(Object)] /\ Objs(s) \in Seq(Object)
      /\ Len(Objs(s)) \in Nat /\ got[s] \in Nat
  BY StreamType
<1>2. i \in Places(s) /\ i > got[s] /\ s = nstrm
  BY <1>1 DEF Expire, Places, Objs
<1>3. wire' = [wire EXCEPT ![s].objs = SubSeq(@, 1, i - 1) \o SubSeq(@, i + 1, Len(@))]
      /\ UNCHANGED <<status, paused, latest, pub, npub, nstrm, got, begun, sub, recv>>
  BY DEF Expire, pubVars, subVars
<1> DEFINE t == SubSeq(Objs(s), 1, i - 1) \o SubSeq(Objs(s), i + 1, Len(Objs(s)))
<1>4. wire'[s] = [wire[s] EXCEPT !.objs = t] /\ \A u \in Stream : u # s => wire'[u] = wire[u]
  BY <1>3 DEF TypeOK, Objs
<1>5. /\ t \in Seq(Object) /\ Len(t) = Len(Objs(s)) - 1
      /\ \A m \in 1 .. Len(t) : t[m] = Objs(s)[IF m < i THEN m ELSE m + 1]
  BY <1>1, <1>2, ThinIs DEF Places
<1> HIDE DEF t
<1>6. wire'[s].objs = t /\ wire'[s].g = wire[s].g /\ wire'[s].sg = wire[s].sg
  BY <1>1, <1>4
<1>7. wire' \in [Stream -> [g : Nat, sg : Nat, objs : Seq(Object)]]
  <2>1. wire'[s] \in [g : Nat, sg : Nat, objs : Seq(Object)]
    BY <1>1, <1>4, <1>5
  <2>2. wire' = [wire EXCEPT ![s] = wire'[s]]
    BY <1>3, <1>4 DEF TypeOK
  <2> QED
    BY <2>1, <2>2 DEF TypeOK
<1> QED
  BY <1>2, <1>3, <1>4, <1>5, <1>6, <1>7


-----------------------------------------------------------------------------
(* What StreamDataRecv does. *)

NewBuf(s, k) == Buffered(s, SubSeq(wire[s].objs, got[s] + 1, got[s] + k))
GivenId(s, k) == NextObjectId(NewBuf(s, k)[1], wire[s])
Given(s, k) ==
    LET o == NewBuf(s, k)[1]
    IN  [n |-> o.n, sent |-> o.ids, prev |-> o.prev,
         as |-> [g |-> wire[s].g, sg |-> wire[s].sg, o |-> GivenId(s, k)]]

\* A piece of a sequence.
LEMMA PieceOf ==
    ASSUME NEW o \in Seq(Object), NEW a \in Nat, NEW k \in Nat, a + k <= Len(o)
    PROVE  /\ SubSeq(o, a + 1, a + k) \in Seq(Object) /\ Len(SubSeq(o, a + 1, a + k)) = k
           /\ \A i \in 1 .. k : SubSeq(o, a + 1, a + k)[i] = o[a + i]
<1> DEFINE new == SubSeq(o, a + 1, a + k)
<1>1. Len(o) \in Nat
  BY LenProperties
<1>2. \A i \in a + 1 .. a + k : o[i] \in Object
  BY <1>1, ElementOfSeq
<1>3. a + 1 \in Int /\ a + k \in Int
  OBVIOUS
<1>4. /\ new \in Seq(Object) /\ Len(new) = IF a + 1 <= a + k THEN (a + k) - (a + 1) + 1 ELSE 0
      /\ \A i \in 1 .. (a + k) - (a + 1) + 1 : new[i] = o[(a + 1) + i - 1]
  BY <1>2, <1>3, SubSeqProperties
<1> HIDE DEF new
<1>5. Len(new) = k
  BY <1>4
<1>6. ASSUME NEW i \in 1 .. k PROVE new[i] = o[a + i]
  <2>1. i \in 1 .. (a + k) - (a + 1) + 1 /\ (a + 1) + i - 1 = a + i
    OBVIOUS
  <2> QED
    BY <1>4, <2>1
<1> QED
  BY <1>4, <1>5, <1>6 DEF new

\* The buffer then: the end of what has been got of the stream.
LEMMA NewBufIs ==
    ASSUME TypeOK, Window, NEW s \in Stream, NEW k \in Nat, got[s] + k <= Len(Objs(s)), s >= sub.cur
    PROVE  /\ NewBuf(s, k) \in Seq(Object)
           /\ Len(NewBuf(s, k)) = IF s = sub.cur THEN Len(sub.buf) + k ELSE k
           /\ s > sub.cur => got[s] = 0
           /\ Len(NewBuf(s, k)) \in Nat /\ Len(NewBuf(s, k)) <= got[s] + k
           /\ \A i \in 1 .. Len(NewBuf(s, k)) :
                 NewBuf(s, k)[i] = Objs(s)[got[s] + k - Len(NewBuf(s, k)) + i]
<1> DEFINE new == SubSeq(wire[s].objs, got[s] + 1, got[s] + k)
<1>1. new \in Seq(Object) /\ Len(new) = k /\ \A i \in 1 .. k : new[i] = Objs(s)[got[s] + i]
  <2>1. Objs(s) \in Seq(Object) /\ got[s] \in Nat
    BY StreamType
  <2> QED
    BY <2>1, PieceOf DEF Objs
<1>2. NewBuf(s, k) = IF begun[s] THEN sub.buf \o new ELSE new
  BY DEF NewBuf, Buffered
<1> HIDE DEF new
<1>3. Objs(s) \in Seq(Object) /\ Len(Objs(s)) \in Nat /\ got[s] \in Nat /\ begun[s] \in BOOLEAN /\ s \in Nat
  BY StreamType
<1>4. sub.cur \in Nat /\ sub.buf \in Seq(Object) /\ Len(sub.buf) \in Nat
  BY SubType
<1>5. CASE s > sub.cur
  <2>1. got[s] = 0 /\ NewBuf(s, k) = new /\ s # sub.cur
    BY <1>2, <1>3, <1>4, <1>5 DEF Window
  <2>2. \A i \in 1 .. k : got[s] + k - k + i = got[s] + i
    BY <1>3
  <2>3. k <= got[s] + k
    BY <2>1
  <2> QED
    BY <1>1, <2>1, <2>2, <2>3
<1>6. CASE s = sub.cur
  <2>1. /\ begun[s] /\ Len(sub.buf) <= got[s]
        /\ \A i \in 1 .. Len(sub.buf) : sub.buf[i] = Objs(s)[got[s] - Len(sub.buf) + i]
    BY <1>6 DEF Window
  <2>2. /\ NewBuf(s, k) \in Seq(Object) /\ Len(NewBuf(s, k)) = Len(sub.buf) + k
        /\ \A i \in 1 .. Len(sub.buf) + k :
              NewBuf(s, k)[i] = IF i <= Len(sub.buf) THEN sub.buf[i] ELSE new[i - Len(sub.buf)]
    <3>1. NewBuf(s, k) = sub.buf \o new
      BY <1>2, <2>1
    <3>2. sub.buf \in Seq(Object) /\ new \in Seq(Object) /\ Len(new) = k
      BY <1>1, <1>4
    <3>3. /\ sub.buf \o new \in Seq(Object) /\ Len(sub.buf \o new) = Len(sub.buf) + Len(new)
          /\ \A i \in 1 .. Len(sub.buf) + Len(new) :
                (sub.buf \o new)[i] = IF i <= Len(sub.buf) THEN sub.buf[i] ELSE new[i - Len(sub.buf)]
      BY <3>2, ConcatProperties
    <3> QED
      BY <3>1, <3>2, <3>3
  <2>3. ASSUME NEW i \in 1 .. Len(sub.buf) + k
        PROVE  NewBuf(s, k)[i] = Objs(s)[got[s] + k - (Len(sub.buf) + k) + i]
    <3>1. got[s] + k - (Len(sub.buf) + k) + i = got[s] - Len(sub.buf) + i
      BY <1>3, <1>4
    <3>2. CASE i <= Len(sub.buf)
      <4>1. i \in 1 .. Len(sub.buf)
        BY <1>4, <3>2
      <4> QED
        BY <2>1, <2>2, <3>1, <3>2, <4>1
    <3>3. CASE ~(i <= Len(sub.buf))
      <4>1. i - Len(sub.buf) \in 1 .. k /\ got[s] + (i - Len(sub.buf)) = got[s] - Len(sub.buf) + i
        BY <1>3, <1>4, <3>3
      <4>2. new[i - Len(sub.buf)] = Objs(s)[got[s] - Len(sub.buf) + i]
        BY <1>1, <4>1
      <4> QED
        BY <2>2, <3>1, <3>3, <4>2
    <3> QED
      BY <3>2, <3>3
  <2>4. Len(NewBuf(s, k)) \in Nat /\ Len(NewBuf(s, k)) <= got[s] + k
    BY <1>3, <1>4, <2>1, <2>2
  <2> QED
    BY <1>3, <1>4, <1>6, <2>2, <2>3, <2>4
<1> QED
  BY <1>3, <1>4, <1>5, <1>6

\* The step: what was got, and at most one object given.
LEMMA RecvIs ==
    ASSUME TypeOK, NEW s \in Stream, NEW k \in 0 .. MaxPerBuf, StreamDataRecv(s, k)
    PROVE  /\ k \in Nat /\ got[s] + k <= Len(Objs(s)) /\ s <= nstrm
           /\ got' = [got EXCEPT ![s] = @ + k] /\ begun' = [begun EXCEPT ![s] = TRUE]
           /\ UNCHANGED <<status, paused, latest, pub, npub, wire, nstrm>>
           /\ \/ s < sub.cur /\ UNCHANGED <<sub, recv>>
              \/ /\ s >= sub.cur /\ NewBuf(s, k) = <<>> /\ UNCHANGED recv
                 /\ sub' = [sub EXCEPT !.cur = s, !.buf = <<>>]
              \/ /\ s >= sub.cur /\ NewBuf(s, k) # <<>>
                 /\ sub' = [cur |-> s, buf |-> Tail(NewBuf(s, k)), next |-> GivenId(s, k) + 1,
                            g |-> wire[s].g, sg |-> wire[s].sg]
                 /\ recv' = Append(recv, Given(s, k))
<1>1. k \in Nat /\ s \in Nat /\ sub.cur \in Nat
  BY ConstTypes, StreamType, SubType
<1>2. /\ got[s] + k <= Len(Objs(s)) /\ s <= nstrm
      /\ got' = [got EXCEPT ![s] = @ + k] /\ begun' = [begun EXCEPT ![s] = TRUE]
      /\ UNCHANGED <<status, paused, latest, pub, npub, wire, nstrm>>
  BY DEF StreamDataRecv, Objs, pubVars, wireVars
<1>3. IF ~(s >= sub.cur) THEN UNCHANGED <<sub, recv>>
      ELSE IF NewBuf(s, k) = <<>>
      THEN sub' = [sub EXCEPT !.cur = s, !.buf = NewBuf(s, k)] /\ UNCHANGED recv
      ELSE /\ sub' = [cur |-> s, buf |-> Tail(NewBuf(s, k)), next |-> GivenId(s, k) + 1,
                      g |-> wire[s].g, sg |-> wire[s].sg]
           /\ recv' = Append(recv, Given(s, k))
  BY Zenon DEF StreamDataRecv, Accepts, NewBuf, GivenId, Given
<1>4. ~(s >= sub.cur) => s < sub.cur
  BY <1>1
<1> QED
  BY <1>1, <1>2, <1>3, <1>4

\* The object that is given is the first of the stream that is not given yet.
LEMMA GivenIs ==
    ASSUME TypeOK, Window, NEW s \in Stream, NEW k \in Nat, got[s] + k <= Len(Objs(s)), s >= sub.cur,
           NewBuf(s, k) # <<>>
    PROVE  /\ got[s] + k - Len(NewBuf(s, k)) + 1 \in Places(s)
           /\ NewBuf(s, k)[1] = Objs(s)[got[s] + k - Len(NewBuf(s, k)) + 1]
           /\ NewBuf(s, k)[1] \in Object
           /\ s = sub.cur => got[s] + k - Len(NewBuf(s, k)) + 1 > got[s] - Len(sub.buf)
           /\ GivenId(s, k) \in Nat /\ Given(s, k) \in Received
           /\ Tail(NewBuf(s, k)) \in Seq(Object) /\ Len(Tail(NewBuf(s, k))) = Len(NewBuf(s, k)) - 1
           /\ \A i \in 1 .. Len(NewBuf(s, k)) - 1 : Tail(NewBuf(s, k))[i] = NewBuf(s, k)[i + 1]
<1> DEFINE b == NewBuf(s, k)
<1>1. /\ b \in Seq(Object) /\ Len(b) = IF s = sub.cur THEN Len(sub.buf) + k ELSE k
      /\ Len(b) \in Nat /\ Len(b) <= got[s] + k
      /\ \A i \in 1 .. Len(b) : b[i] = Objs(s)[got[s] + k - Len(b) + i]
  BY NewBufIs
<1>2. b # <<>>
  OBVIOUS
<1>3. /\ Len(Objs(s)) \in Nat /\ got[s] \in Nat /\ s \in Nat /\ wire[s].g \in Nat /\ wire[s].sg \in Nat
      /\ \A i \in Places(s) : Objs(s)[i] \in Object
  BY StreamType
<1>4. sub.next \in Nat \cup {None} /\ Len(sub.buf) \in Nat
  BY SubType
<1>5. Len(b) >= 1
  BY <1>1, <1>2, EmptySeq
<1>6. Tail(b) \in Seq(Object) /\ Len(Tail(b)) = Len(b) - 1 /\ \A i \in 1 .. Len(Tail(b)) : Tail(b)[i] = b[i + 1]
  BY <1>1, <1>2, HeadTailProperties
<1> HIDE DEF b
<1>7. got[s] + k - Len(b) + 1 \in Places(s)
  <2>1. Len(b) \in Nat /\ Len(b) <= got[s] + k /\ Len(b) >= 1
    BY <1>1, <1>5
  <2>2. got[s] + k <= Len(Objs(s)) /\ Len(Objs(s)) \in Nat /\ got[s] \in Nat
    BY <1>3
  <2>3. got[s] + k - Len(b) + 1 \in 1 .. Len(Objs(s))
    BY <2>1, <2>2
  <2> QED
    BY <2>3 DEF Places
<1>8. 1 \in 1 .. Len(b)
  BY <1>1, <1>5
<1>9. b[1] = Objs(s)[got[s] + k - Len(b) + 1] /\ b[1] \in Object
  BY <1>1, <1>3, <1>7, <1>8
<1>10. s = sub.cur => got[s] + k - Len(b) + 1 > got[s] - Len(sub.buf)
  BY <1>1, <1>3, <1>4
<1>11. GivenId(s, k) \in Nat
  <2>1. b[1].delta \in Nat
    BY <1>9 DEF Object
  <2>2. sub.next # None => sub.next + b[1].delta \in Nat
    BY <1>4, <2>1
  <2> QED
    BY <2>1, <2>2 DEF GivenId, NextObjectId, b
<1>12. Given(s, k) \in Received
  <2>1. b[1].n \in Nat /\ b[1].ids \in Ids /\ b[1].prev \in Ids \cup {None}
    BY <1>9 DEF Object
  <2>2. [g |-> wire[s].g, sg |-> wire[s].sg, o |-> GivenId(s, k)] \in [g : Nat, sg : Nat, o : Nat]
    BY <1>3, <1>11
  <2>3. Given(s, k) = [n |-> b[1].n, sent |-> b[1].ids, prev |-> b[1].prev,
                       as |-> [g |-> wire[s].g, sg |-> wire[s].sg, o |-> GivenId(s, k)]]
    BY DEF Given, b
  <2> QED
    BY <2>1, <2>2, <2>3 DEF Received
<1> QED
  BY <1>6, <1>7, <1>9, <1>10, <1>11, <1>12 DEF b

LEMMA TypeRecv ==
    ASSUME TypeOK, Window, NEW s \in Stream, NEW k \in 0 .. MaxPerBuf, StreamDataRecv(s, k)
    PROVE  TypeOK'
<1>1. /\ k \in Nat /\ got[s] + k <= Len(Objs(s))
      /\ got' = [got EXCEPT ![s] = @ + k] /\ begun' = [begun EXCEPT ![s] = TRUE]
      /\ UNCHANGED <<status, paused, latest, pub, npub, wire, nstrm>>
  BY RecvIs
<1>2. got' \in [Stream -> Nat] /\ begun' \in [Stream -> BOOLEAN]
  <2>1. got[s] + k \in Nat
    BY <1>1, StreamType
  <2> QED
    BY <1>1, <2>1 DEF TypeOK
<1>3. s \in 0 .. MaxStream
  BY ConstTypes DEF Stream
<1> DEFINE Subs == [cur : 0 .. MaxStream, buf : Seq(Object), next : Nat \cup {None}, g : Nat, sg : Nat]
<1>4. sub' \in Subs /\ recv' \in Seq(Received)
  <2>1. sub \in Subs /\ recv \in Seq(Received)
    BY DEF TypeOK, Received
  <2>2. CASE UNCHANGED <<sub, recv>>
    BY <2>1, <2>2
  <2>3. CASE UNCHANGED recv /\ sub' = [sub EXCEPT !.cur = s, !.buf = <<>>]
    BY <1>3, <2>1, <2>3, EmptySeq
  <2>4. CASE /\ s >= sub.cur /\ NewBuf(s, k) # <<>>
             /\ sub' = [cur |-> s, buf |-> Tail(NewBuf(s, k)), next |-> GivenId(s, k) + 1,
                        g |-> wire[s].g, sg |-> wire[s].sg]
             /\ recv' = Append(recv, Given(s, k))
    <3>1. GivenId(s, k) \in Nat /\ Given(s, k) \in Received /\ Tail(NewBuf(s, k)) \in Seq(Object)
      BY <1>1, <2>4, GivenIs
    <3>2. GivenId(s, k) + 1 \in Nat /\ wire[s].g \in Nat /\ wire[s].sg \in Nat
      BY <3>1, StreamType
    <3>3. sub' \in Subs
      BY <1>3, <2>4, <3>1, <3>2
    <3>4. recv' \in Seq(Received)
      BY <2>1, <2>4, <3>1, AppendProperties
    <3> QED
      BY <3>3, <3>4
  <2> QED
    BY <2>2, <2>3, <2>4, RecvIs
<1> QED
  BY <1>1, <1>2, <1>4 DEF TypeOK, Received


-----------------------------------------------------------------------------
(* The order of publication. *)

Rest == Numbered /\ Below /\ OwnGroup /\ CallInv /\ Window /\ Ahead /\ PublishedOrder

LEMMA OrderInit == Init => OrderInv
<1> SUFFICES ASSUME Init PROVE OrderInv
  OBVIOUS
<1>1. TypeOK
  BY TypeInit
<1>2. \A s \in Stream : Objs(s) = <<>> /\ Places(s) = {}
  BY DEF Init, Objs, Places
<1>3. Numbered /\ Ahead
  BY <1>2 DEF Numbered, Ahead
<1>4. recv = <<>> /\ 1 .. Len(recv) = {}
  BY DEF Init
<1>5. Below /\ PublishedOrder
  BY <1>2, <1>4 DEF Below, PublishedOrder
<1>6. OwnGroup /\ CallInv
  BY <1>2 DEF OwnGroup, CallInv, Init, NoCall
<1>7. Window
  <2>1. \A s \in Stream : got[s] <= Len(Objs(s)) /\ ~begun[s] /\ got[s] = 0
    BY <1>2 DEF Init
  <2>2. sub.cur = 0 /\ sub.buf = <<>> /\ sub.cur \notin Stream
    BY DEF Init, Stream
  <2> QED
    BY <1>4, <2>1, <2>2 DEF Window
<1> QED
  BY <1>1, <1>3, <1>5, <1>6, <1>7 DEF OrderInv

\* Steps that leave the streams and the subscriber alone.
LEMMA Untouched ==
    ASSUME TypeOK, Numbered, Below, OwnGroup, Window, Ahead, PublishedOrder,
           UNCHANGED <<latest, wire, nstrm, got, begun, sub, recv>>, Coming' >= Coming, Coming' \in Nat
    PROVE  Numbered' /\ Below' /\ OwnGroup' /\ Window' /\ Ahead' /\ PublishedOrder'
<1>1. \A s : Objs(s)' = Objs(s) /\ Places(s)' = Places(s)
  BY DEF Objs, Places
<1>2. Numbered' /\ OwnGroup' /\ Window' /\ Ahead' /\ PublishedOrder'
  BY <1>1 DEF Numbered, OwnGroup, Window, Ahead, PublishedOrder, SameStream, Objs, Places
<1>3. Coming \in Nat
  BY ConstTypes DEF Coming, TypeOK
<1>4. \A s \in Stream : \A i \in Places(s) : Objs(s)[i].n \in Nat
  BY StreamType
<1>5. \A k \in 1 .. Len(recv) : recv[k].n \in Nat
  BY SubType
<1>6. \A n \in Nat : n < Coming => n < Coming'
  BY <1>3
<1>7. Below'
  BY <1>1, <1>4, <1>5, <1>6 DEF Below, Objs, Places
<1> QED
  BY <1>2, <1>7

LEMMA RestPublish ==
    ASSUME OrderInv, NEW ids \in Ids, PublishObject(ids) \/ PublishRefused(ids)
    PROVE  Rest'
<1>1. /\ UNCHANGED <<latest, wire, nstrm, got, begun, sub, recv>> /\ npub' = npub + 1 /\ pub.pc = "idle"
      /\ npub \in Nat
  BY ConstTypes DEF PublishObject, PublishRefused, wireVars, subVars, OrderInv, TypeOK
<1>2. Coming' >= Coming /\ Coming' \in Nat
  BY <1>1 DEF Coming
<1>3. CallInv'
  <2>1. CASE PublishRefused(ids)
    BY <1>1, <2>1 DEF PublishRefused, CallInv
  <2>2. CASE PublishObject(ids)
    <3>1. pub'.ids = ids /\ pub'.hdr = (HeaderNeeded(ids) \/ status = "updated") /\ InOrderOfGeneration(ids)
      BY <2>2 DEF PublishObject
    <3>2. ~HeaderNeeded(ids) => latest # None /\ SameStream(latest, ids)
      BY DEF HeaderNeeded, SameStream
    <3>3. InOrderOfGeneration(ids)'
      BY <1>1, <3>1 DEF InOrderOfGeneration
    <3>4. ~pub'.hdr => latest' # None /\ SameStream(latest', ids)
      BY <1>1, <3>1, <3>2
    <3> QED
      BY <3>1, <3>3, <3>4 DEF CallInv, SameStream, InOrderOfGeneration
  <2> QED
    BY <2>1, <2>2
<1> QED
  BY <1>1, <1>2, <1>3, Untouched DEF OrderInv, Rest

LEMMA RestNotifier ==
    ASSUME OrderInv, UNCHANGED <<latest, pub, npub, wire, nstrm, got, begun, sub, recv>>
    PROVE  Rest'
<1>1. Coming' = Coming /\ Coming \in Nat
  BY ConstTypes DEF Coming, OrderInv, TypeOK
<1>2. CallInv'
  BY DEF OrderInv, CallInv, InOrderOfGeneration, SameStream
<1>3. Coming' >= Coming /\ Coming' \in Nat
  BY <1>1
<1> QED
  BY <1>2, <1>3, Untouched DEF OrderInv, Rest


\* Send: every place holds what it held, or is the last place of the last stream and
\* holds the new object; what has been got stays.
LEMMA SendPlaces ==
    ASSUME OrderInv, Send
    PROVE  /\ nstrm' \in Stream /\ nstrm' >= nstrm
           /\ \A s \in Stream :
                /\ got[s] <= Len(wire'[s].objs) /\ Len(wire'[s].objs) \in Nat
                /\ s > nstrm' => wire'[s].objs = <<>>
                /\ \A i \in 1 .. Len(wire'[s].objs) :
                      \/ i \in Places(s) /\ wire'[s].objs[i] = Objs(s)[i] /\ SameStream(wire'[s], wire[s])
                      \/ /\ i \notin Places(s) /\ s = nstrm' /\ i = Len(wire'[s].objs)
                         /\ wire'[s].objs[i] = NewObject
           /\ SameStream(wire'[nstrm'], pub.ids)
<1>1. TypeOK /\ CallInv /\ OwnGroup /\ Window /\ Below /\ pub.pc = "send"
  BY DEF OrderInv, Send
<1>2. NewObject \in Object /\ nstrm \in Nat
  BY <1>1, NewObjectType, ConstTypes DEF TypeOK
<1>3. CASE pub.hdr
  <2>1. /\ nstrm + 1 \in Stream /\ nstrm' = nstrm + 1
        /\ wire'[nstrm + 1] = [g |-> pub.ids.g, sg |-> pub.ids.sg, objs |-> <<NewObject>>]
        /\ \A s \in Stream : s # nstrm /\ s # nstrm + 1 => wire'[s] = wire[s]
        /\ nstrm \in Stream => \E k \in got[nstrm] .. Len(Objs(nstrm)) :
                wire'[nstrm] = [wire[nstrm] EXCEPT !.objs = SubSeq(@, 1, k)]
    BY <1>1, <1>3, SendHeader
  <2>2. ASSUME NEW s \in Stream
        PROVE  /\ got[s] <= Len(wire'[s].objs) /\ Len(wire'[s].objs) \in Nat
               /\ s > nstrm' => wire'[s].objs = <<>>
               /\ \A i \in 1 .. Len(wire'[s].objs) :
                      \/ i \in Places(s) /\ wire'[s].objs[i] = Objs(s)[i] /\ SameStream(wire'[s], wire[s])
                      \/ /\ i \notin Places(s) /\ s = nstrm' /\ i = Len(wire'[s].objs)
                         /\ wire'[s].objs[i] = NewObject
    <3>1. Objs(s) \in Seq(Object) /\ Len(Objs(s)) \in Nat /\ got[s] \in Nat /\ s \in Nat
          /\ wire[s] \in [g : Nat, sg : Nat, objs : Seq(Object)]
      BY <1>1, StreamType
    <3>2. got[s] <= Len(Objs(s))
      BY <1>1 DEF Window
    <3>3. CASE s = nstrm + 1
      <4>1. Objs(s) = <<>>
        BY <1>1, <1>2, <3>3 DEF Below
      <4>2. wire'[s].objs = <<NewObject>>
        BY <2>1, <3>3
      <4>3. Len(wire'[s].objs) = 1 /\ wire'[s].objs[1] = NewObject
        BY <4>2
      <4>4. Len(Objs(s)) = 0 /\ got[s] = 0 /\ Places(s) = {}
        BY <3>1, <3>2, <4>1 DEF Places
      <4>5. s = nstrm' /\ ~(s > nstrm')
        BY <1>2, <2>1, <3>3
      <4>6. \A i \in 1 .. Len(wire'[s].objs) : i = Len(wire'[s].objs) /\ i \notin Places(s)
        BY <4>3, <4>4
      <4> QED
        BY <4>3, <4>4, <4>5, <4>6
    <3>4. CASE s = nstrm
      <4>1. PICK k \in got[s] .. Len(Objs(s)) : wire'[s] = [wire[s] EXCEPT !.objs = SubSeq(@, 1, k)]
        BY <2>1, <3>4
      <4>2. k \in 0 .. Len(Objs(s)) /\ k >= got[s]
        BY <3>1, <4>1
      <4>3. wire'[s].objs = SubSeq(Objs(s), 1, k) /\ SameStream(wire'[s], wire[s])
        BY <3>1, <4>1 DEF Objs, SameStream
      <4>4. Len(wire'[s].objs) = k /\ \A i \in 1 .. k : wire'[s].objs[i] = Objs(s)[i]
        BY <3>1, <4>2, <4>3, CutIs
      <4>5. \A i \in 1 .. k : i \in Places(s)
        BY <3>1, <4>2 DEF Places
      <4> QED
        BY <1>2, <2>1, <3>1, <3>4, <4>2, <4>3, <4>4, <4>5
    <3>5. CASE s # nstrm /\ s # nstrm + 1
      <4>1. wire'[s] = wire[s]
        BY <2>1, <3>5
      <4>2. s > nstrm' => s > nstrm
        BY <1>2, <2>1, <3>1
      <4> QED
        BY <1>1, <3>1, <3>2, <4>1, <4>2 DEF Below, Objs, Places, SameStream
    <3> QED
      BY <3>3, <3>4, <3>5
  <2>3. SameStream(wire'[nstrm'], pub.ids)
    BY <2>1 DEF SameStream
  <2> QED
    BY <1>2, <2>1, <2>2, <2>3
<1>4. CASE ~pub.hdr
  <2>1. /\ nstrm \in Stream /\ nstrm' = nstrm /\ latest # None /\ SameStream(latest, pub.ids)
        /\ wire'[nstrm] = [wire[nstrm] EXCEPT !.objs = Append(@, NewObject)]
        /\ \A s \in Stream : s # nstrm => wire'[s] = wire[s]
    BY <1>1, <1>4, SendObject
  <2>2. ASSUME NEW s \in Stream
        PROVE  /\ got[s] <= Len(wire'[s].objs) /\ Len(wire'[s].objs) \in Nat
               /\ s > nstrm' => wire'[s].objs = <<>>
               /\ \A i \in 1 .. Len(wire'[s].objs) :
                      \/ i \in Places(s) /\ wire'[s].objs[i] = Objs(s)[i] /\ SameStream(wire'[s], wire[s])
                      \/ /\ i \notin Places(s) /\ s = nstrm' /\ i = Len(wire'[s].objs)
                         /\ wire'[s].objs[i] = NewObject
    <3>1. Objs(s) \in Seq(Object) /\ Len(Objs(s)) \in Nat /\ got[s] \in Nat /\ s \in Nat
          /\ wire[s] \in [g : Nat, sg : Nat, objs : Seq(Object)]
      BY <1>1, StreamType
    <3>2. got[s] <= Len(Objs(s))
      BY <1>1 DEF Window
    <3>3. CASE s = nstrm
      <4>1. wire'[s].objs = Append(Objs(s), NewObject) /\ SameStream(wire'[s], wire[s])
        BY <2>1, <3>1, <3>3 DEF Objs, SameStream
      <4>2. /\ Len(wire'[s].objs) = Len(Objs(s)) + 1 /\ wire'[s].objs[Len(Objs(s)) + 1] = NewObject
            /\ \A i \in 1 .. Len(Objs(s)) : wire'[s].objs[i] = Objs(s)[i]
        BY <1>2, <3>1, <4>1, AppendProperties
      <4>3. \A i \in 1 .. Len(Objs(s)) + 1 : i \in Places(s) \/ (i \notin Places(s) /\ i = Len(Objs(s)) + 1)
        BY <3>1 DEF Places
      <4> QED
        BY <1>2, <2>1, <3>1, <3>2, <3>3, <4>1, <4>2, <4>3, SMTT(30) DEF Places
    <3>4. CASE s # nstrm
      <4>1. wire'[s] = wire[s]
        BY <2>1, <3>4
      <4> QED
        BY <1>1, <2>1, <3>1, <3>2, <4>1 DEF Below, Objs, Places, SameStream
    <3> QED
      BY <3>3, <3>4
  <2>3. SameStream(wire'[nstrm'], pub.ids)
    <3>1. SameStream(wire'[nstrm], wire[nstrm])
      <4>1. wire[nstrm] \in [g : Nat, sg : Nat, objs : Seq(Object)]
        BY <1>1, <2>1, StreamType
      <4> QED
        BY <2>1, <4>1 DEF SameStream
    <3>2. SameStream(latest, wire[nstrm])
      BY <1>1, <2>1 DEF OwnGroup
    <3> QED
      BY <2>1, <3>1, <3>2 DEF SameStream
  <2> QED
    BY <1>2, <2>1, <2>2, <2>3
<1> QED
  BY <1>3, <1>4

LEMMA RestSend ==
    ASSUME OrderInv, Send
    PROVE  Rest'
<1>1. TypeOK /\ Numbered /\ Below /\ OwnGroup /\ CallInv /\ Window /\ Ahead /\ PublishedOrder /\ pub.pc = "send"
  BY DEF OrderInv, Send
<1>2. /\ nstrm' \in Stream /\ nstrm' >= nstrm
      /\ \A s \in Stream :
            /\ got[s] <= Len(wire'[s].objs) /\ Len(wire'[s].objs) \in Nat
            /\ s > nstrm' => wire'[s].objs = <<>>
            /\ \A i \in 1 .. Len(wire'[s].objs) :
                  \/ i \in Places(s) /\ wire'[s].objs[i] = Objs(s)[i] /\ SameStream(wire'[s], wire[s])
                  \/ /\ i \notin Places(s) /\ s = nstrm' /\ i = Len(wire'[s].objs)
                     /\ wire'[s].objs[i] = NewObject
      /\ SameStream(wire'[nstrm'], pub.ids)
  BY SendPlaces
<1>3. /\ UNCHANGED <<paused, npub, got, begun, sub, recv>> /\ pub'.pc = "idle" /\ latest' = pub.ids
      /\ npub \in Nat /\ nstrm \in Nat
  BY <1>1, ConstTypes DEF Send, subVars, NoCall, TypeOK
<1>4. Coming = npub /\ Coming' = npub + 1 /\ NewObject.n = npub /\ NewObject.ids = pub.ids
  BY <1>1, <1>3 DEF Coming, NewObject
<1>5. \A s \in Stream : \A i \in Places(s) : Objs(s)[i].n \in Nat /\ Objs(s)[i].n < npub /\ s \in Nat
  BY <1>1, <1>4, StreamType DEF Below
<1>6. \A k \in 1 .. Len(recv) : recv[k].n \in Nat /\ recv[k].n < npub
  BY <1>1, <1>4, SubType DEF Below
<1>7. \A s \in Stream : s > nstrm => Places(s) = {}
  BY <1>1 DEF Below, Places
<1>8. Numbered'
  <2> SUFFICES ASSUME NEW s \in Stream, NEW u \in Stream,
                      NEW i \in 1 .. Len(wire'[s].objs), NEW j \in 1 .. Len(wire'[u].objs),
                      s < u \/ (s = u /\ i < j)
               PROVE  wire'[s].objs[i].n < wire'[u].objs[j].n
    BY DEF Numbered, Places, Objs
  <2>1. s \in Nat /\ u \in Nat /\ nstrm' \in Nat
    BY <1>2, ConstTypes DEF Stream
  <2>2. i \in Places(s) /\ wire'[s].objs[i] = Objs(s)[i]
    <3> SUFFICES ASSUME s = nstrm', i = Len(wire'[s].objs), i \notin Places(s) PROVE FALSE
      BY <1>2
    <3>1. CASE s < u
      <4>1. wire'[u].objs = <<>>
        BY <1>2, <2>1, <3>1
      <4> QED
        BY <4>1
    <3>2. CASE s = u /\ i < j
      BY <1>2, <3>2
    <3> QED
      BY <3>1, <3>2
  <2>3. CASE j \in Places(u) /\ wire'[u].objs[j] = Objs(u)[j]
    BY <1>1, <2>2, <2>3 DEF Numbered
  <2>4. CASE wire'[u].objs[j] = NewObject
    BY <1>4, <1>5, <2>2, <2>4
  <2> QED
    BY <1>2, <2>3, <2>4
<1>9. Below'
  <2>1. \A s \in Stream : \A i \in 1 .. Len(wire'[s].objs) : wire'[s].objs[i].n < npub + 1
    <3> SUFFICES ASSUME NEW s \in Stream, NEW i \in 1 .. Len(wire'[s].objs)
                 PROVE  wire'[s].objs[i].n < npub + 1
      OBVIOUS
    <3>1. CASE i \in Places(s) /\ wire'[s].objs[i] = Objs(s)[i]
      BY <1>3, <1>5, <3>1
    <3>2. CASE wire'[s].objs[i] = NewObject
      BY <1>3, <1>4, <3>2
    <3> QED
      BY <1>2, <3>1, <3>2
  <2>2. \A k \in 1 .. Len(recv') : recv'[k].n < npub + 1
    BY <1>3, <1>6
  <2>3. \A s \in Stream : s > nstrm' => wire'[s].objs = <<>>
    BY <1>2
  <2> QED
    BY <1>4, <2>1, <2>2, <2>3 DEF Below, Objs, Places
<1>10. OwnGroup'
  <2>1. \A s \in Stream : \A i \in 1 .. Len(wire'[s].objs) : SameStream(wire'[s].objs[i].ids, wire'[s])
    <3> SUFFICES ASSUME NEW s \in Stream, NEW i \in 1 .. Len(wire'[s].objs)
                 PROVE  SameStream(wire'[s].objs[i].ids, wire'[s])
      OBVIOUS
    <3>1. CASE i \in Places(s) /\ wire'[s].objs[i] = Objs(s)[i] /\ SameStream(wire'[s], wire[s])
      <4>1. SameStream(Objs(s)[i].ids, wire[s])
        BY <1>1, <3>1 DEF OwnGroup
      <4> QED
        BY <3>1, <4>1 DEF SameStream
    <3>2. CASE s = nstrm' /\ wire'[s].objs[i] = NewObject
      BY <1>2, <1>4, <3>2 DEF SameStream
    <3> QED
      BY <1>2, <3>1, <3>2
  <2>2. nstrm' > 0 /\ SameStream(latest', wire'[nstrm'])
    BY <1>2, <1>3, ConstTypes DEF Stream, SameStream
  <2> QED
    BY <2>1, <2>2 DEF OwnGroup, Objs, Places, SameStream
<1>11. CallInv'
  BY <1>3 DEF CallInv
<1>12. \A s \in Stream : \A i \in 1 .. got[s] : wire'[s].objs[i] = Objs(s)[i]
  <2> SUFFICES ASSUME NEW s \in Stream, NEW i \in 1 .. got[s] PROVE wire'[s].objs[i] = Objs(s)[i]
    OBVIOUS
  <2>1. got[s] \in Nat /\ Len(Objs(s)) \in Nat /\ got[s] <= Len(Objs(s)) /\ got[s] <= Len(wire'[s].objs)
        /\ Len(wire'[s].objs) \in Nat
    BY <1>1, <1>2, StreamType DEF Window
  <2>2. i \in Places(s) /\ i \in 1 .. Len(wire'[s].objs)
    BY <2>1 DEF Places
  <2> QED
    BY <1>2, <2>2
<1>13. Window'
  <2>1. sub.cur \in Stream => sub.cur <= nstrm'
    <3>1. sub.cur \in Nat /\ nstrm' \in Nat
      BY <1>1, <1>2, SubType, ConstTypes DEF Stream
    <3> QED
      BY <1>1, <1>2, <1>3, <3>1 DEF Window
  <2>2. ASSUME sub.cur \in Stream, NEW i \in 1 .. Len(sub.buf)
        PROVE  sub.buf[i] = wire'[sub.cur].objs[got[sub.cur] - Len(sub.buf) + i]
    <3>1. sub.buf[i] = Objs(sub.cur)[got[sub.cur] - Len(sub.buf) + i] /\ Len(sub.buf) <= got[sub.cur]
      BY <1>1, <2>2 DEF Window
    <3>2. got[sub.cur] - Len(sub.buf) + i \in 1 .. got[sub.cur]
      BY <1>1, <2>2, <3>1, StreamType, SubType, SMTT(30)
    <3> QED
      BY <1>12, <2>2, <3>1, <3>2
  <2> QED
    BY <1>1, <1>2, <1>3, <2>1, <2>2 DEF Window, Objs
<1>14. Ahead'
  <2> SUFFICES ASSUME NEW s \in Stream, NEW i \in 1 .. Len(wire'[s].objs),
                      s > sub.cur \/ (s = sub.cur /\ i > got[s] - Len(sub.buf)), NEW k \in 1 .. Len(recv)
               PROVE  recv[k].n < wire'[s].objs[i].n
    BY <1>3 DEF Ahead, Objs, Places
  <2>1. CASE i \in Places(s) /\ wire'[s].objs[i] = Objs(s)[i]
    BY <1>1, <2>1 DEF Ahead
  <2>2. CASE wire'[s].objs[i] = NewObject
    BY <1>4, <1>6, <2>2
  <2> QED
    BY <1>2, <2>1, <2>2
<1>15. PublishedOrder'
  BY <1>1, <1>3 DEF PublishedOrder
<1> QED
  BY <1>8, <1>9, <1>10, <1>11, <1>13, <1>14, <1>15 DEF Rest


\* Expire: the later places move up by one.
LEMMA RestExpire ==
    ASSUME OrderInv, NEW e \in Stream, NEW x \in 1 .. MaxPub, Expire(e, x)
    PROVE  Rest'
<1> DEFINE Old(s, i) == IF s = e /\ ~(i < x) THEN i + 1 ELSE i
<1>1. TypeOK /\ Numbered /\ Below /\ OwnGroup /\ CallInv /\ Window /\ Ahead /\ PublishedOrder
  BY DEF OrderInv
<1>2. /\ x \in Places(e) /\ x > got[e] /\ e = nstrm /\ Len(wire'[e].objs) = Len(Objs(e)) - 1
      /\ wire'[e].g = wire[e].g /\ wire'[e].sg = wire[e].sg
      /\ \A m \in 1 .. Len(wire'[e].objs) : wire'[e].objs[m] = Objs(e)[IF m < x THEN m ELSE m + 1]
      /\ \A u \in Stream : u # e => wire'[u] = wire[u]
      /\ UNCHANGED <<status, paused, latest, pub, npub, nstrm, got, begun, sub, recv>>
  BY <1>1, ExpireIs
<1>3. ASSUME NEW s \in Stream
      PROVE  /\ Len(Objs(s)) \in Nat /\ got[s] \in Nat /\ s \in Nat
             /\ Len(wire'[s].objs) = IF s = e THEN Len(Objs(s)) - 1 ELSE Len(Objs(s))
             /\ got[s] <= Len(wire'[s].objs) /\ Len(wire'[s].objs) \in Nat
             /\ SameStream(wire'[s], wire[s])
  <2>1. Len(Objs(s)) \in Nat /\ got[s] \in Nat /\ s \in Nat /\ got[s] <= Len(Objs(s))
    BY <1>1, StreamType DEF Window
  <2>2. CASE s = e
    <3>1. x \in 1 .. Len(Objs(e)) /\ x > got[e]
      BY <1>2 DEF Places
    <3> QED
      BY <1>2, <2>1, <2>2, <3>1 DEF SameStream
  <2>3. CASE s # e
    BY <1>2, <2>1, <2>3 DEF SameStream, Objs
  <2> QED
    BY <2>2, <2>3
<1>4. ASSUME NEW s \in Stream, NEW i \in 1 .. Len(wire'[s].objs)
      PROVE  /\ Old(s, i) \in Places(s) /\ wire'[s].objs[i] = Objs(s)[Old(s, i)] /\ Old(s, i) >= i
             /\ i <= got[s] => Old(s, i) = i
  <2>1. CASE s = e
    <3>1. x \in Nat /\ x > got[e] /\ i \in Nat
      BY <1>2, ConstTypes
    <3>2. Old(s, i) = IF i < x THEN i ELSE i + 1
      BY <2>1
    <3>3. wire'[s].objs[i] = Objs(s)[Old(s, i)]
      BY <1>2, <2>1, <3>2
    <3>4. Len(Objs(s)) \in Nat /\ Len(wire'[s].objs) = Len(Objs(s)) - 1 /\ got[s] \in Nat
      BY <1>3, <2>1
    <3>5. Old(s, i) \in 1 .. Len(Objs(s)) /\ Old(s, i) >= i
      BY <3>1, <3>2, <3>4
    <3>6. i <= got[s] => Old(s, i) = i
      BY <2>1, <3>1, <3>2, <3>4
    <3> QED
      BY <3>3, <3>5, <3>6 DEF Places
  <2>2. CASE s # e
    BY <1>2, <1>3, <2>2 DEF Places, Objs
  <2> QED
    BY <2>1, <2>2
<1>5. \A s \in Stream : \A i, j \in Nat : i < j => Old(s, i) < Old(s, j)
  BY ConstTypes
<1> HIDE DEF Old
<1>6. Numbered'
  <2> SUFFICES ASSUME NEW s \in Stream, NEW u \in Stream,
                      NEW i \in 1 .. Len(wire'[s].objs), NEW j \in 1 .. Len(wire'[u].objs),
                      s < u \/ (s = u /\ i < j)
               PROVE  wire'[s].objs[i].n < wire'[u].objs[j].n
    BY DEF Numbered, Places, Objs
  <2>1. s = u /\ i < j => Old(s, i) < Old(u, j)
    BY <1>3, <1>5
  <2> QED
    BY <1>1, <1>4, <2>1, SMTT(30) DEF Numbered
<1>7. Coming' = Coming
  BY <1>2 DEF Coming
<1>8. Below'
  <2>1. \A s \in Stream : s > nstrm' => wire'[s].objs = <<>>
    <3> SUFFICES ASSUME NEW s \in Stream, s > nstrm PROVE wire'[s].objs = <<>>
      BY <1>2
    <3>1. s # e
      BY <1>2, <1>3
    <3> QED
      BY <1>1, <1>2, <3>1 DEF Below, Objs
  <2>2. \A s \in Stream : \A i \in 1 .. Len(wire'[s].objs) : wire'[s].objs[i].n < Coming
    BY <1>1, <1>4 DEF Below
  <2> QED
    BY <1>1, <1>2, <1>7, <2>1, <2>2 DEF Below, Objs, Places
<1>9. OwnGroup'
  <2>1. \A s \in Stream : \A i \in 1 .. Len(wire'[s].objs) : SameStream(wire'[s].objs[i].ids, wire'[s])
    <3> SUFFICES ASSUME NEW s \in Stream, NEW i \in 1 .. Len(wire'[s].objs)
                 PROVE  SameStream(wire'[s].objs[i].ids, wire'[s])
      OBVIOUS
    <3>1. SameStream(Objs(s)[Old(s, i)].ids, wire[s]) /\ wire'[s].objs[i] = Objs(s)[Old(s, i)]
      BY <1>1, <1>4 DEF OwnGroup
    <3>2. SameStream(wire'[s], wire[s])
      BY <1>3
    <3> QED
      BY <3>1, <3>2 DEF SameStream
  <2>2. latest' # None => nstrm' > 0 /\ SameStream(latest', wire'[nstrm'])
    BY <1>1, <1>2, <1>3 DEF OwnGroup, SameStream
  <2> QED
    BY <2>1, <2>2 DEF OwnGroup, Objs, Places, SameStream
<1>10. CallInv'
  BY <1>1, <1>2 DEF CallInv, InOrderOfGeneration, SameStream
<1>11. Window'
  <2>1. ASSUME sub.cur \in Stream, NEW i \in 1 .. Len(sub.buf)
        PROVE  sub.buf[i] = wire'[sub.cur].objs[got[sub.cur] - Len(sub.buf) + i]
    <3>1. sub.buf[i] = Objs(sub.cur)[got[sub.cur] - Len(sub.buf) + i] /\ Len(sub.buf) <= got[sub.cur]
      BY <1>1, <2>1 DEF Window
    <3>2. /\ got[sub.cur] - Len(sub.buf) + i <= got[sub.cur]
          /\ got[sub.cur] - Len(sub.buf) + i \in 1 .. Len(wire'[sub.cur].objs)
      <4>1. Len(sub.buf) \in Nat
        BY <1>1, SubType
      <4>2. /\ got[sub.cur] \in Nat /\ got[sub.cur] <= Len(wire'[sub.cur].objs)
            /\ Len(wire'[sub.cur].objs) \in Nat /\ Len(sub.buf) <= got[sub.cur]
        BY <1>3, <2>1, <3>1
      <4> QED
        BY <2>1, <4>1, <4>2, SMTT(30)
    <3> QED
      BY <1>4, <2>1, <3>1, <3>2
  <2> QED
    BY <1>1, <1>2, <1>3, <2>1 DEF Window, Objs
<1>12. Ahead'
  <2> SUFFICES ASSUME NEW s \in Stream, NEW i \in 1 .. Len(wire'[s].objs),
                      s > sub.cur \/ (s = sub.cur /\ i > got[s] - Len(sub.buf)), NEW k \in 1 .. Len(recv)
               PROVE  recv[k].n < wire'[s].objs[i].n
    BY <1>2 DEF Ahead, Objs, Places
  <2>1. s = sub.cur => Old(s, i) > got[s] - Len(sub.buf)
    <3>1. Len(sub.buf) \in Nat /\ got[s] \in Nat /\ Old(s, i) >= i /\ Old(s, i) \in Nat /\ sub.cur \in Nat /\ s \in Nat
      BY <1>1, <1>3, <1>4, SubType, SMTT(30) DEF Places
    <3> QED
      BY <3>1, SMTT(30)
  <2> QED
    BY <1>1, <1>4, <2>1 DEF Ahead
<1>13. PublishedOrder'
  BY <1>1, <1>2 DEF PublishedOrder
<1> QED
  BY <1>6, <1>8, <1>9, <1>10, <1>11, <1>12, <1>13 DEF Rest

\* StreamDataRecv.
LEMMA RestRecv ==
    ASSUME OrderInv, NEW s \in Stream, NEW k \in 0 .. MaxPerBuf, StreamDataRecv(s, k)
    PROVE  Rest'
<1>1. TypeOK /\ Numbered /\ Below /\ OwnGroup /\ CallInv /\ Window /\ Ahead /\ PublishedOrder
  BY DEF OrderInv
<1>2. /\ k \in Nat /\ got[s] + k <= Len(Objs(s)) /\ s <= nstrm
      /\ got' = [got EXCEPT ![s] = @ + k] /\ begun' = [begun EXCEPT ![s] = TRUE]
      /\ UNCHANGED <<status, paused, latest, pub, npub, wire, nstrm>>
  BY <1>1, RecvIs
<1>3. /\ \A u \in Stream : got'[u] = (IF u = s THEN got[u] + k ELSE got[u])
      /\ \A u \in Stream : begun'[u] = (IF u = s THEN TRUE ELSE begun[u])
  BY <1>1, <1>2 DEF TypeOK
<1>4. \A u \in Stream : /\ Len(Objs(u)) \in Nat /\ got[u] \in Nat /\ u \in Nat /\ got[u] <= Len(Objs(u))
                        /\ \A i \in Places(u) : Objs(u)[i].n \in Nat
  BY <1>1, StreamType DEF Window
<1>5. sub.cur \in Nat /\ Len(sub.buf) \in Nat /\ (sub.cur = 0 \/ sub.cur \in Stream) /\ s # 0 /\ Len(recv) \in Nat
  BY <1>1, SubType, ConstTypes DEF Stream
<1>6. \A u : Objs(u)' = Objs(u) /\ Places(u)' = Places(u)
  BY <1>2 DEF Objs, Places
<1>7. Numbered' /\ OwnGroup' /\ CallInv' /\ Coming' = Coming
  BY <1>1, <1>2 DEF Numbered, OwnGroup, CallInv, Coming, SameStream, InOrderOfGeneration, Objs, Places
<1>8. \A u \in Stream : got'[u] <= Len(Objs(u))
  BY <1>2, <1>3, <1>4
<1>12. ASSUME s >= sub.cur, sub'.cur = s, Len(sub'.buf) <= got'[s],
              \A i \in 1 .. Len(sub'.buf) : sub'.buf[i] = Objs(s)[got'[s] - Len(sub'.buf) + i]
       PROVE  Window'
  <2>1. \A u \in Stream : got'[u] <= Len(Objs(u)')
    BY <1>6, <1>8
  <2>2. \A u \in Stream : u > sub'.cur => ~begun'[u] /\ got'[u] = 0
    <3> SUFFICES ASSUME NEW u \in Stream, u > s PROVE ~begun'[u] /\ got'[u] = 0
      BY <1>12
    <3>1. u > sub.cur /\ u # s
      BY <1>4, <1>5, <1>12
    <3> QED
      BY <1>1, <1>3, <3>1 DEF Window
  <2>3. sub'.cur # 0
    BY <1>5, <1>12
  <2>4. begun'[s] /\ s <= nstrm'
    BY <1>2, <1>3
  <2> QED
    BY <1>6, <1>12, <2>1, <2>2, <2>3, <2>4 DEF Window
<1>9. CASE s < sub.cur /\ UNCHANGED <<sub, recv>>
  <2>1. sub.cur \in Stream => sub.cur # s
    BY <1>4, <1>5, <1>9
  <2>2. \A u \in Stream : u > sub.cur => u # s
    BY <1>4, <1>5, <1>9
  <2>3. Window'
    BY <1>1, <1>2, <1>3, <1>6, <1>8, <1>9, <2>1, <2>2 DEF Window, Objs
  <2>4. Ahead'
    BY <1>1, <1>3, <1>9, <2>1, <2>2, <1>2 DEF Ahead, Objs, Places
  <2>5. Below' /\ PublishedOrder'
    BY <1>1, <1>2, <1>7, <1>9 DEF Below, PublishedOrder, Objs, Places
  <2> QED
    BY <1>7, <2>3, <2>4, <2>5 DEF Rest
<1>10. CASE s >= sub.cur /\ NewBuf(s, k) = <<>> /\ UNCHANGED recv /\ sub' = [sub EXCEPT !.cur = s, !.buf = <<>>]
  <2>1. sub'.cur = s /\ sub'.buf = <<>> /\ Len(sub'.buf) = 0
    BY <1>1, <1>10 DEF TypeOK
  <2>2. k = 0 /\ (s = sub.cur => Len(sub.buf) = 0)
    <3>1. Len(NewBuf(s, k)) = IF s = sub.cur THEN Len(sub.buf) + k ELSE k
      BY <1>1, <1>2, <1>10, NewBufIs
    <3>2. Len(NewBuf(s, k)) = 0
      BY <1>10
    <3>3. CASE s = sub.cur
      <4>1. Len(sub.buf) + k = 0
        BY <3>1, <3>2, <3>3
      <4> QED
        BY <1>2, <1>5, <4>1
    <3> QED
      BY <3>1, <3>2, <3>3
  <2>3. \A u \in Stream : u > s => u > sub.cur /\ u # s
    BY <1>4, <1>5, <1>10
  <2>4. Window'
    <3>1. 1 .. Len(sub'.buf) = {} /\ Len(sub'.buf) <= got'[s]
      BY <1>2, <1>3, <1>4, <2>1
    <3>2. \A i \in 1 .. Len(sub'.buf) : sub'.buf[i] = Objs(s)[got'[s] - Len(sub'.buf) + i]
      BY <3>1
    <3>3. s >= sub.cur
      BY <1>10
    <3>4. sub'.cur = s
      BY <2>1
    <3> QED
      BY <1>12, <3>1, <3>2, <3>3, <3>4
  <2>5. Ahead'
    <3> SUFFICES ASSUME NEW u \in Stream, NEW i \in Places(u), u > s \/ (u = s /\ i > got'[u] - 0),
                        NEW m \in 1 .. Len(recv)
                 PROVE  recv[m].n < Objs(u)[i].n
      BY <1>2, <1>10, <2>1 DEF Ahead, Objs, Places
    <3>1. u > sub.cur \/ (u = sub.cur /\ i > got[u] - Len(sub.buf))
      <4>1. CASE u > s
        BY <2>3, <4>1
      <4>2. CASE u = s /\ i > got'[u]
        BY <1>3, <1>4, <1>5, <1>10, <2>2, <4>2
      <4> QED
        BY <1>3, <1>4, <1>2, <4>1, <4>2
    <3> QED
      BY <1>1, <3>1 DEF Ahead
  <2>6. Below' /\ PublishedOrder'
    BY <1>1, <1>2, <1>7, <1>10 DEF Below, PublishedOrder, Objs, Places
  <2> QED
    BY <1>7, <2>4, <2>5, <2>6 DEF Rest
<1>11. CASE /\ s >= sub.cur /\ NewBuf(s, k) # <<>>
            /\ sub' = [cur |-> s, buf |-> Tail(NewBuf(s, k)), next |-> GivenId(s, k) + 1,
                       g |-> wire[s].g, sg |-> wire[s].sg]
            /\ recv' = Append(recv, Given(s, k))
  <2> DEFINE b == NewBuf(s, k)
             p == got[s] + k - Len(b) + 1
  <2>1. /\ Len(b) \in Nat /\ Len(b) <= got[s] + k
        /\ \A i \in 1 .. Len(b) : b[i] = Objs(s)[got[s] + k - Len(b) + i]
    BY <1>1, <1>2, <1>11, NewBufIs
  <2>2. /\ p \in Places(s) /\ b[1] = Objs(s)[p] /\ (s = sub.cur => p > got[s] - Len(sub.buf))
        /\ Given(s, k) \in Received /\ Len(Tail(b)) = Len(b) - 1
        /\ \A i \in 1 .. Len(b) - 1 : Tail(b)[i] = b[i + 1]
    BY <1>1, <1>2, <1>11, GivenIs
  <2>3. sub'.cur = s /\ sub'.buf = Tail(b)
    BY <1>11
  <2>4. /\ Given(s, k).n = Objs(s)[p].n /\ Given(s, k).sent = Objs(s)[p].ids
        /\ Given(s, k).as.g = wire[s].g /\ Given(s, k).as.sg = wire[s].sg
    BY <2>2 DEF Given
  <2>5. /\ Len(recv') = Len(recv) + 1 /\ recv'[Len(recv) + 1] = Given(s, k)
        /\ \A m \in 1 .. Len(recv) : recv'[m] = recv[m]
    BY <1>1, <1>11, <2>2, SubType, AppendProperties
  <2> HIDE DEF b
  <2>6. p = got'[s] - Len(sub'.buf) /\ p \in Nat
    <3>1. got'[s] = got[s] + k /\ got[s] \in Nat /\ Len(sub'.buf) = Len(b) - 1 /\ Len(b) \in Nat
      BY <1>3, <1>4, <2>1, <2>2, <2>3
    <3>2. p \in Nat
      BY <1>4, <2>2 DEF Places
    <3>3. k \in Nat /\ p = got[s] + k - Len(b) + 1
      BY <1>2
    <3> HIDE DEF p
    <3> QED
      BY <3>1, <3>2, <3>3
  <2> HIDE DEF p
  <2>7. \A u \in Stream : u > s => u > sub.cur /\ u # s
    BY <1>4, <1>5, <1>11
  <2>8. Window'
    <3>1. ASSUME NEW i \in 1 .. Len(sub'.buf)
          PROVE  sub'.buf[i] = Objs(s)[got'[s] - Len(sub'.buf) + i]
      <4>1. i \in 1 .. Len(b) - 1 /\ i + 1 \in 1 .. Len(b) /\ got[s] + k - Len(b) + (i + 1) = p + i
        BY <1>2, <1>4, <2>1, <2>2, <2>3, SMTT(30) DEF p
      <4>2. sub'.buf[i] = Objs(s)[p + i]
        BY <2>1, <2>2, <2>3, <4>1
      <4> QED
        BY <2>6, <4>2
    <3>2. Len(sub'.buf) <= got'[s]
      BY <1>2, <1>3, <1>4, <2>1, <2>2, <2>3
    <3> QED
      BY <1>12, <1>11, <2>3, <3>1, <3>2
  <2>9. \A m \in 1 .. Len(recv) : recv[m].n < Objs(s)[p].n
    <3>1. s > sub.cur \/ (s = sub.cur /\ p > got[s] - Len(sub.buf))
      BY <1>4, <1>5, <1>11, <2>2
    <3> QED
      BY <1>1, <2>2, <3>1 DEF Ahead
  <2>10. Ahead'
    <3> SUFFICES ASSUME NEW u \in Stream, NEW i \in Places(u), u > s \/ (u = s /\ i > p),
                        NEW m \in 1 .. Len(recv) + 1
                 PROVE  recv'[m].n < Objs(u)[i].n
      BY <1>2, <2>3, <2>5, <2>6 DEF Ahead, Objs, Places
    <3>1. Objs(s)[p].n < Objs(u)[i].n /\ Objs(s)[p].n \in Nat /\ Objs(u)[i].n \in Nat
      BY <1>1, <1>4, <2>2 DEF Numbered
    <3>2. CASE m = Len(recv) + 1
      BY <2>4, <2>5, <3>1, <3>2
    <3>3. CASE m # Len(recv) + 1
      <4>1. m \in 1 .. Len(recv) /\ recv[m].n \in Nat
        BY <1>1, <1>5, <3>3, SubType
      <4> QED
        BY <2>5, <2>9, <3>1, <4>1
    <3> QED
      BY <3>2, <3>3
  <2>11. Below'
    <3>1. \A m \in 1 .. Len(recv) + 1 : recv'[m].n < Coming
      <4>1. Objs(s)[p].n < Coming
        BY <1>1, <2>2 DEF Below
      <4>2. \A m \in 1 .. Len(recv) + 1 : m \in 1 .. Len(recv) \/ m = Len(recv) + 1
        BY <1>5
      <4> QED
        BY <1>1, <2>4, <2>5, <4>1, <4>2 DEF Below
    <3> QED
      BY <1>1, <1>2, <1>7, <2>5, <3>1 DEF Below, Objs, Places
  <2>12. PublishedOrder'
    <3>1. ASSUME NEW i \in 1 .. Len(recv) + 1, NEW j \in 1 .. Len(recv) + 1, i < j
          PROVE  recv'[i].n < recv'[j].n
      <4>1. i \in 1 .. Len(recv) /\ recv'[i] = recv[i]
        BY <1>5, <2>5, <3>1
      <4>2. CASE j = Len(recv) + 1
        BY <2>4, <2>5, <2>9, <4>1, <4>2
      <4>3. CASE j # Len(recv) + 1
        <5>1. j \in 1 .. Len(recv) /\ recv'[j] = recv[j]
          BY <1>5, <2>5, <4>3
        <5> QED
          BY <1>1, <3>1, <4>1, <5>1 DEF PublishedOrder
      <4> QED
        BY <4>2, <4>3
    <3>2. ASSUME NEW i \in 1 .. Len(recv) + 1
          PROVE  recv'[i].as.g = recv'[i].sent.g /\ recv'[i].as.sg = recv'[i].sent.sg
      <4>1. CASE i = Len(recv) + 1
        <5>1. SameStream(Objs(s)[p].ids, wire[s])
          BY <1>1, <2>2 DEF OwnGroup
        <5> QED
          BY <2>4, <2>5, <4>1, <5>1 DEF SameStream
      <4>2. CASE i # Len(recv) + 1
        <5>1. i \in 1 .. Len(recv) /\ recv'[i] = recv[i]
          BY <1>5, <2>5, <4>2
        <5> QED
          BY <1>1, <5>1 DEF PublishedOrder
      <4> QED
        BY <4>1, <4>2
    <3> QED
      BY <2>5, <3>1, <3>2 DEF PublishedOrder
  <2> QED
    BY <1>7, <2>8, <2>10, <2>11, <2>12 DEF Rest
<1> QED
  BY <1>1, <1>9, <1>10, <1>11, RecvIs

-----------------------------------------------------------------------------
(* The order is kept. *)

LEMMA TypeExpire ==
    ASSUME TypeOK, NEW s \in Stream, NEW i \in 1 .. MaxPub, Expire(s, i)
    PROVE  TypeOK'
<1>1. /\ wire' \in [Stream -> [g : Nat, sg : Nat, objs : Seq(Object)]]
      /\ UNCHANGED <<status, paused, latest, pub, npub, nstrm, got, begun, sub, recv>>
  BY ExpireIs
<1> QED
  BY <1>1 DEF TypeOK

LEMMA OrderNext == OrderInv /\ [Next]_vars => OrderInv'
<1> SUFFICES ASSUME OrderInv, [Next]_vars PROVE OrderInv'
  OBVIOUS
<1> SUFFICES TypeOK' /\ Rest'
  BY DEF OrderInv, Rest
<1>1. TypeOK /\ CallInv /\ OwnGroup /\ Window
  BY DEF OrderInv
<1>2. CASE Send
  BY <1>1, <1>2, TypeSend, RestSend
<1>3. ASSUME NEW ids \in Ids, PublishObject(ids) \/ PublishRefused(ids)
      PROVE  TypeOK' /\ Rest'
  BY <1>1, <1>3, TypePublish, RestPublish
<1>4. ASSUME NEW s \in Status, SetStatus(s)
      PROVE  TypeOK' /\ Rest'
  <2>1. UNCHANGED <<latest, pub, npub, wire, nstrm, got, begun, sub, recv>>
    BY <1>4 DEF SetStatus, wireVars, subVars
  <2> QED
    BY <1>1, <1>4, <2>1, TypeNotifier, RestNotifier
<1>5. ASSUME NEW s \in Stream, NEW i \in 1 .. MaxPub, Expire(s, i)
      PROVE  TypeOK' /\ Rest'
  BY <1>1, <1>5, TypeExpire, RestExpire
<1>6. ASSUME NEW s \in Stream, NEW k \in 0 .. MaxPerBuf, StreamDataRecv(s, k)
      PROVE  TypeOK' /\ Rest'
  BY <1>1, <1>6, TypeRecv, RestRecv
<1>7. CASE UNCHANGED vars
  <2>1. UNCHANGED <<status, paused, latest, pub, npub, wire, nstrm, got, begun, sub, recv>>
    BY <1>7 DEF vars, pubVars, wireVars, subVars
  <2>2. TypeOK'
    BY <1>1, <2>1 DEF TypeOK
  <2> QED
    BY <2>1, <2>2, RestNotifier
<1> QED
  BY <1>2, <1>3, <1>4, <1>5, <1>6, <1>7 DEF Next, Publisher, Notifier, Network

LEMMA OrderAlways == Spec => []OrderInv
<1>1. Init => OrderInv
  BY OrderInit
<1>2. OrderInv /\ [Next]_vars => OrderInv'
  BY OrderNext
<1> QED
  BY <1>1, <1>2, PTL DEF Spec

\* Types of PublishTrackHandler, of the streams and of SubscribeTrackHandler; in
\* particular the object id delta, computed in unsigned arithmetic, is never below zero.
THEOREM TypeCorrect == Spec => []TypeOK
<1>1. OrderInv => TypeOK
  BY DEF OrderInv
<1> QED
  BY <1>1, OrderAlways, PTL

\* ObjectReceived is called in the order of the calls of PublishObject, never twice for
\* one of them, and with the group and subgroup the publisher gave: for all ids, any
\* number of streams, of which later ones overtake and cut earlier ones, and any loss.
THEOREM OrderCorrect == Spec => []PublishedOrder
<1>1. OrderInv => PublishedOrder
  BY DEF OrderInv
<1> QED
  BY <1>1, OrderAlways, PTL

-----------------------------------------------------------------------------
(* The ids agree. *)

\* Every object keeps its distance.
LEMMA LinkedNext ==
    ASSUME OrderInv, Linked, [Next]_vars
    PROVE  Linked'
<1>1. CASE Send
  <2>1. InOrderOfGeneration(pub.ids) /\ pub.ids \in Ids /\ latest \in Ids \cup {None}
    BY <1>1 DEF Send, OrderInv, CallInv, TypeOK
  <2>2. LinkedTo(NewObject.prev, NewObject.ids, NewObject.delta)
    BY <2>1, DeltaIs DEF NewObject
  <2>3. \A s \in Stream : \A i \in 1 .. Len(wire'[s].objs) :
           (i \in Places(s) /\ wire'[s].objs[i] = Objs(s)[i]) \/ wire'[s].objs[i] = NewObject
    BY <1>1, SendPlaces
  <2> QED
    BY <2>2, <2>3 DEF Linked, Objs, Places
<1>2. ASSUME NEW e \in Stream, NEW x \in 1 .. MaxPub, Expire(e, x)
      PROVE  Linked'
  <2> SUFFICES ASSUME NEW s \in Stream, NEW i \in 1 .. Len(wire'[s].objs)
               PROVE  \E k \in Places(s) : wire'[s].objs[i] = Objs(s)[k]
    BY DEF Linked, Objs, Places
  <2>1. CASE s = e
    <3>1. /\ Len(wire'[s].objs) = Len(Objs(s)) - 1
          /\ wire'[s].objs[i] = Objs(s)[IF i < x THEN i ELSE i + 1]
      BY <1>2, <2>1, ExpireIs DEF OrderInv
    <3>2. Len(Objs(s)) \in Nat
      BY StreamType DEF OrderInv
    <3>3. (IF i < x THEN i ELSE i + 1) \in Places(s)
      BY <3>1, <3>2 DEF Places
    <3> QED
      BY <3>1, <3>3
  <2>2. CASE s # e
    <3>1. wire'[s] = wire[s]
      BY <1>2, <2>2, ExpireIs DEF OrderInv
    <3> QED
      BY <3>1 DEF Objs, Places
  <2> QED
    BY <2>1, <2>2
<1>3. CASE UNCHANGED wire
  BY <1>3 DEF Linked, Objs, Places
<1> QED
  BY <1>1, <1>2, <1>3 DEF Next, Publisher, Notifier, Network, PublishObject, PublishRefused,
     SetStatus, StreamDataRecv, vars, wireVars

\* What ObjectReceived is called with when the objects so far agree.
LEMMA GivenAgrees ==
    ASSUME OrderInv, IdInv, NEW s \in Stream, NEW k \in Nat, got[s] + k <= Len(Objs(s)), s >= sub.cur,
           NewBuf(s, k) # <<>>
    PROVE  LET r == Given(s, k) IN
           /\ r.sent \in Ids /\ r.as = [g |-> r.sent.g, sg |-> r.sent.sg, o |-> GivenId(s, k)]
           /\ r.sent.o = 0 /\ (recv = <<>> \/ ~SameStream(r.sent, recv[Len(recv)].sent)) => r.as = r.sent
           /\ (/\ recv # <<>> /\ recv[Len(recv)].as = recv[Len(recv)].sent
               /\ r.prev = recv[Len(recv)].sent /\ SameStream(r.sent, recv[Len(recv)].sent)) => r.as = r.sent
<1> DEFINE o == NewBuf(s, k)[1]
           r == Given(s, k)
           last == recv[Len(recv)]
<1>1. TypeOK /\ OwnGroup /\ Window /\ PublishedOrder
  BY DEF OrderInv
<1>2. PICK p \in Places(s) : o = Objs(s)[p]
  BY <1>1, GivenIs
<1>3. /\ o \in Object /\ SameStream(o.ids, wire[s]) /\ LinkedTo(o.prev, o.ids, o.delta)
  BY <1>1, <1>2, StreamType DEF OwnGroup, IdInv, Linked
<1>4. /\ r.sent = o.ids /\ r.prev = o.prev /\ r.as = [g |-> wire[s].g, sg |-> wire[s].sg, o |-> GivenId(s, k)]
      /\ GivenId(s, k) = IF sub.next # None /\ sub.g = wire[s].g /\ sub.sg = wire[s].sg
                         THEN sub.next + o.delta ELSE o.delta
  BY DEF Given, GivenId, NextObjectId
<1> HIDE DEF o, r
<1>5. o.ids \in Ids /\ o.delta \in Nat /\ o.prev \in Ids \cup {None}
  BY <1>3 DEF Object
<1>6. /\ r.sent \in Ids /\ r.as = [g |-> r.sent.g, sg |-> r.sent.sg, o |-> GivenId(s, k)]
  BY <1>3, <1>4, <1>5 DEF SameStream
<1>7. GivenId(s, k) = r.sent.o => r.as = r.sent
  BY <1>6 DEF Ids
<1>8. recv # <<>> => /\ last \in Received /\ sub.next = last.as.o + 1 /\ sub.next \in Nat /\ sub.next # None
                     /\ last.as.o \in Nat
                     /\ sub.g = last.sent.g /\ sub.sg = last.sent.sg
  <2> SUFFICES ASSUME recv # <<>>
               PROVE  /\ last \in Received /\ sub.next = last.as.o + 1 /\ sub.next \in Nat /\ sub.next # None
                      /\ last.as.o \in Nat
                      /\ sub.g = last.sent.g /\ sub.sg = last.sent.sg
    OBVIOUS
  <2>1. Len(recv) \in 1 .. Len(recv)
    <3>1. recv \in Seq(Received) /\ Len(recv) \in Nat
      BY <1>1, SubType
    <3> QED
      BY <3>1, EmptySeq
  <2>2. last \in Received
    BY <1>1, <2>1, SubType
  <2>3. last.as.o \in Nat
    BY <2>2 DEF Received
  <2>4. sub.next = last.as.o + 1 /\ sub.g = last.as.g /\ sub.sg = last.as.sg
    BY DEF IdInv, Follows
  <2>5. last.as.g = last.sent.g /\ last.as.sg = last.sent.sg
    BY <1>1, <2>1 DEF PublishedOrder
  <2> QED
    BY <2>2, <2>3, <2>4, <2>5, ConstTypes
<1>9. ASSUME r.sent.o = 0, recv = <<>> \/ ~SameStream(r.sent, last.sent)
      PROVE  r.as = r.sent
  <2>1. o.delta = 0
    BY <1>3, <1>4, <1>9 DEF LinkedTo
  <2>2. ~(sub.next # None /\ sub.g = wire[s].g /\ sub.sg = wire[s].sg)
    BY <1>3, <1>4, <1>8, <1>9 DEF SameStream, IdInv, Follows
  <2> QED
    BY <1>4, <1>7, <1>9, <2>1, <2>2
<1>10. ASSUME recv # <<>>, last.as = last.sent, r.prev = last.sent, SameStream(r.sent, last.sent)
       PROVE  r.as = r.sent
  <2>1. last.sent \in Ids
    BY <1>8, <1>10 DEF Received
  <2>2. o.prev # None /\ o.prev = last.sent
    BY <1>4, <1>10, <2>1, ConstTypes
  <2>3. o.ids.g = o.prev.g /\ o.ids.sg = o.prev.sg
    BY <1>4, <1>10, <2>2 DEF SameStream
  <2>4. o.ids.o \in Nat /\ o.ids.g \in Nat /\ o.prev.o \in Nat
    BY <1>5, <2>1, <2>2, IdsNat
  <2>5. o.ids.o > o.prev.o /\ o.delta = o.ids.o - o.prev.o - 1
    BY <1>3, <2>2, <2>3, <2>4 DEF LinkedTo
  <2>6. sub.next = o.prev.o + 1
    BY <1>8, <1>10, <2>2
  <2>7. GivenId(s, k) = sub.next + o.delta
    BY <1>3, <1>4, <1>8, <1>10, <2>2, <2>3 DEF SameStream
  <2>8. GivenId(s, k) = o.ids.o
    BY <1>5, <2>4, <2>5, <2>6, <2>7
  <2> QED
    BY <1>4, <1>7, <2>8
<1> QED
  BY <1>6, <1>9, <1>10 DEF o, r

\* The subscriber's state is that of the object it was given last, and the ids of an
\* unbroken run agree up to it.
LEMMA GivenNext ==
    ASSUME OrderInv, IdInv, [Next]_vars
    PROVE  Follows' /\ IdsAgree'
<1>1. TypeOK /\ Window
  BY DEF OrderInv
<1>2. CASE sub'.next = sub.next /\ sub'.g = sub.g /\ sub'.sg = sub.sg /\ UNCHANGED recv
  BY <1>2 DEF IdInv, Follows, IdsAgree, Unbroken, SameStream
<1>3. ASSUME NEW s \in Stream, NEW k \in 0 .. MaxPerBuf, StreamDataRecv(s, k)
      PROVE  Follows' /\ IdsAgree'
  <2>1. CASE s < sub.cur /\ UNCHANGED <<sub, recv>>
    BY <1>2, <2>1
  <2>2. CASE UNCHANGED recv /\ sub' = [sub EXCEPT !.cur = s, !.buf = <<>>]
    BY <1>1, <1>2, <2>2 DEF TypeOK
  <2>3. CASE /\ s >= sub.cur /\ NewBuf(s, k) # <<>>
             /\ sub' = [cur |-> s, buf |-> Tail(NewBuf(s, k)), next |-> GivenId(s, k) + 1,
                        g |-> wire[s].g, sg |-> wire[s].sg]
             /\ recv' = Append(recv, Given(s, k))
    <3> DEFINE r == Given(s, k)
               N == Len(recv)
    <3>1. k \in Nat /\ got[s] + k <= Len(Objs(s))
      BY <1>1, <1>3, RecvIs
    <3>2. r \in Received
      BY <1>1, <2>3, <3>1, GivenIs
    <3>3. /\ r.as = [g |-> r.sent.g, sg |-> r.sent.sg, o |-> GivenId(s, k)]
          /\ r.sent.o = 0 /\ (recv = <<>> \/ ~SameStream(r.sent, recv[N].sent)) => r.as = r.sent
          /\ (/\ recv # <<>> /\ recv[N].as = recv[N].sent
              /\ r.prev = recv[N].sent /\ SameStream(r.sent, recv[N].sent)) => r.as = r.sent
      BY <2>3, <3>1, GivenAgrees
    <3>4. r.as.g = wire[s].g /\ r.as.sg = wire[s].sg /\ r.as.o = GivenId(s, k)
      BY DEF Given
    <3> HIDE DEF r
    <3>5. recv \in Seq(Received) /\ N \in Nat
      BY <1>1, SubType
    <3>6. /\ Len(recv') = N + 1 /\ recv'[N + 1] = r /\ recv' # <<>>
          /\ \A m \in 1 .. N : recv'[m] = recv[m]
      BY <2>3, <3>2, <3>5, AppendProperties DEF r
    <3> HIDE DEF N
    <3>7. Follows'
      BY <2>3, <3>4, <3>6 DEF Follows
    <3>8. ASSUME NEW i \in 1 .. N + 1, NEW j \in 1 .. i, Unbroken(j, i)'
          PROVE  recv'[i].as = recv'[i].sent
      <4>1. CASE i # N + 1
        <5>1. i \in 1 .. N /\ j \in 1 .. N /\ \A m \in j .. i : m \in 1 .. N
          BY <3>5, <4>1
        <5>2. j # 1 => j - 1 \in 1 .. N
          BY <3>5, <5>1
        <5>3. \A m \in j + 1 .. i : m \in 1 .. N /\ m - 1 \in 1 .. N
          BY <3>5, <5>1
        <5>4. Unbroken(j, i)
          BY <3>6, <3>8, <5>1, <5>2, <5>3, SMTT(30) DEF Unbroken, SameStream
        <5> QED
          BY <3>6, <5>1, <5>4 DEF IdInv, IdsAgree, N
      <4>2. CASE i = N + 1 /\ j = i
        <5>1. r.sent.o = 0 /\ (N + 1 = 1 \/ ~SameStream(r.sent, recv'[(N + 1) - 1].sent))
          BY <3>6, <3>8, <4>2 DEF Unbroken, SameStream
        <5>2. (N + 1) - 1 = N /\ (N = 0 \/ N \in 1 .. N)
          BY <3>5
        <5>3. N = 0 => recv = <<>>
          BY <3>5, EmptySeq DEF N
        <5> QED
          BY <3>3, <3>5, <3>6, <4>2, <5>1, <5>2, <5>3
      <4>3. CASE i = N + 1 /\ j # i
        <5>1. N \in 1 .. N /\ j \in 1 .. N /\ i \in j + 1 .. i /\ i - 1 = N /\ recv # <<>>
          BY <3>5, <4>3, EmptySeq DEF N
        <5>2. \A m \in j + 1 .. N : m \in j + 1 .. i /\ m \in 1 .. N /\ m - 1 \in 1 .. N
          BY <3>5, <4>3
        <5>3. j # 1 => j - 1 \in 1 .. N
          BY <3>5, <5>1
        <5>4. Unbroken(j, N)
          BY <3>6, <3>8, <5>1, <5>2, <5>3 DEF Unbroken, SameStream
        <5>5. recv[N].as = recv[N].sent
          BY <5>1, <5>4 DEF IdInv, IdsAgree, N
        <5>6. r.prev = recv[N].sent /\ SameStream(r.sent, recv[j].sent)
          BY <3>6, <3>8, <4>3, <5>1 DEF Unbroken, SameStream
        <5>7. SameStream(recv[N].sent, recv[j].sent)
          <6>1. N = j \/ N \in j + 1 .. N
            BY <3>5, <5>1
          <6> QED
            BY <5>4, <6>1 DEF Unbroken, SameStream
        <5> QED
          BY <3>3, <3>6, <4>3, <5>1, <5>5, <5>6, <5>7 DEF SameStream
      <4> QED
        BY <4>1, <4>2, <4>3
    <3> QED
      BY <3>6, <3>7, <3>8 DEF IdsAgree
  <2> QED
    BY <1>1, <1>3, <2>1, <2>2, <2>3, RecvIs
<1> QED
  BY <1>2, <1>3 DEF Next, Publisher, Notifier, Network, PublishObject, PublishRefused,
     SetStatus, Send, Expire, vars, subVars

\* The ids that SubscribeTrackHandler adds up from the deltas are those given to
\* PublishObject, in every subgroup that starts at 0 and as far as nothing of it is lost.
THEOREM IdsCorrect == Spec => []IdsAgree
<1>1. Init => IdInv
  <2> SUFFICES ASSUME Init PROVE IdInv
    OBVIOUS
  <2>1. Len(recv) = 0 /\ \A s \in Stream : Places(s) = {}
    BY DEF Init, Places, Objs
  <2> QED
    BY <2>1 DEF Init, IdInv, Linked, Follows, IdsAgree
<1>2. OrderInv /\ IdInv /\ [Next]_vars => IdInv'
  BY LinkedNext, GivenNext DEF IdInv
<1>3. IdInv => IdsAgree
  BY DEF IdInv
<1> QED
  BY <1>1, <1>2, <1>3, OrderAlways, PTL DEF Spec

-----------------------------------------------------------------------------
(* The bytes of an id.  Ids, distances and lengths travel as UintVar; what  *)
(* was received of them so far may end anywhere.                            *)

\* The values below 2^62, which the constructor of UintVar accepts.
Encodable == {v \in Nat : (v \div 65536) \div 65536 < 1073741824}

LEMMA ByteIs == \A x \in Nat : x \in Byte <=> x < 256
BY SMT DEF Byte

\* The last three bytes of a number, and what is above them.
Above(x) == x \div 16777216
Third(x) == (x \div 65536) % 256
Second(x) == (x \div 256) % 256
Last1(x) == x % 256

DigitsOf(x, a, b, c, d) ==
    /\ a = Above(x) /\ b = Third(x) /\ c = Second(x) /\ d = Last1(x)
    /\ x = Word(a, b, c, d)

LEMMA Digits ==
    ASSUME NEW x \in Nat
    PROVE  \E a \in Nat, b \in Byte, c \in Byte, d \in Byte : DigitsOf(x, a, b, c, d)
<1>1. PICK p \in Nat, d \in Nat : p = x \div 256 /\ d = x % 256 /\ x = 256 * p + d /\ d < 256
  BY SMT
<1>2. PICK q \in Nat, c \in Nat : q = p \div 256 /\ c = p % 256 /\ p = 256 * q + c /\ c < 256
  BY SMT
<1>3. PICK a \in Nat, b \in Nat : a = q \div 256 /\ b = q % 256 /\ q = 256 * a + b /\ b < 256
  BY SMT
<1>4. q = x \div 65536
  BY <1>1, <1>2, SMT
<1>5. a = x \div 16777216
  BY <1>3, <1>4, SMT
<1>6. x = Word(a, b, c, d)
  BY <1>1, <1>2, <1>3, SMT DEF Word
<1>7. b \in Byte /\ c \in Byte /\ d \in Byte
  BY <1>1, <1>2, <1>3, ByteIs, SMT
<1>8. DigitsOf(x, a, b, c, d)
  BY <1>1, <1>2, <1>3, <1>4, <1>5, <1>6, SMT DEF DigitsOf, Above, Third, Second, Last1
<1> QED
  BY <1>7, <1>8, SMT

\* A number of eight bytes in two halves of four.
HalvesOf(x, h, l) ==
    /\ h = (x \div 65536) \div 65536 /\ x = 65536 * (65536 * h) + l
    /\ Above(l) = Above(x) % 256 /\ Above(l) < 256
    /\ Third(l) = Third(x) /\ Second(l) = Second(x) /\ Last1(l) = Last1(x)

LEMMA Halves ==
    ASSUME NEW x \in Nat
    PROVE  \E h \in Nat, l \in Nat : HalvesOf(x, h, l)
<1>1. PICK h \in Nat, l \in Nat : h = (x \div 65536) \div 65536 /\ x = 65536 * (65536 * h) + l /\ l < 4294967296
  BY SMTT(20)
<1>2. l % 256 = x % 256 /\ (l \div 256) % 256 = (x \div 256) % 256
  BY <1>1, SMTT(20)
<1>3. (l \div 65536) % 256 = (x \div 65536) % 256
  BY <1>1, SMTT(20)
<1>4. l \div 16777216 = (x \div 16777216) % 256 /\ l \div 16777216 < 256
  BY <1>1, SMTT(20)
<1>5. HalvesOf(x, h, l)
  BY <1>1, <1>2, <1>3, <1>4, SMT DEF HalvesOf, Above, Third, Second, Last1
<1> QED
  BY <1>5, SMT

LEMMA Tuples ==
    ASSUME NEW a \in Byte, NEW b \in Byte, NEW c \in Byte, NEW d \in Byte,
           NEW e \in Byte, NEW f \in Byte, NEW g \in Byte, NEW i \in Byte
    PROVE  /\ <<a>> \in Seq(Byte) /\ Len(<<a>>) = 1 /\ <<a>>[1] = a
           /\ <<a, b>> \in Seq(Byte) /\ Len(<<a, b>>) = 2 /\ <<a, b>>[1] = a
           /\ <<a, b, c, d>> \in Seq(Byte) /\ Len(<<a, b, c, d>>) = 4 /\ <<a, b, c, d>>[1] = a
           /\ <<a, b, c, d, e, f, g, i>> \in Seq(Byte)
           /\ Len(<<a, b, c, d, e, f, g, i>>) = 8 /\ <<a, b, c, d, e, f, g, i>>[1] = a
<1>1. <<a>> \in Seq(Byte) /\ Len(<<a>>) = 1 /\ <<a>>[1] = a
  BY SMT
<1>2. <<a, b>> \in Seq(Byte) /\ Len(<<a, b>>) = 2 /\ <<a, b>>[1] = a
  BY SMT
<1>3. <<a, b, c, d>> \in Seq(Byte) /\ Len(<<a, b, c, d>>) = 4 /\ <<a, b, c, d>>[1] = a
  BY SMT
<1>4. <<a, b, c, d, e, f, g, i>> \in Seq(Byte)
  BY SMT
<1>5. Len(<<a, b, c, d, e, f, g, i>>) = 8 /\ <<a, b, c, d, e, f, g, i>>[1] = a
  BY SMT
<1> QED
  BY <1>1, <1>2, <1>3, <1>4, <1>5, Zenon

\* What the constructor puts down, Size counts and Get adds up.
Encodes(b, v) ==
    /\ b \in Seq(Byte) /\ Len(b) \in {1, 2, 4, 8} /\ Size(b[1]) = Len(b) /\ Get(b) = v

LEMMA EncodesIs ==
    ASSUME NEW v \in Encodable
    PROVE  Encodes(UintVar(v), v)
<1>0. v \in Nat /\ (v \div 65536) \div 65536 < 1073741824
  BY SMT DEF Encodable
<1>1. CASE v < 64
  <2>1. UintVar(v) = <<v>> /\ v \in Byte
    BY <1>0, <1>1, ByteIs, SMT DEF UintVar
  <2>2. v % 64 = v /\ Size(v) = 1
    BY <1>0, <1>1, SMT DEF Size
  <2>3. Get(<<v>>) = v
    BY <2>2, SMT DEF Get
  <2>4. <<v>> \in Seq(Byte) /\ Len(<<v>>) = 1 /\ <<v>>[1] = v
    BY <2>1, Tuples, SMT
  <2> QED
    BY <2>1, <2>2, <2>3, <2>4, SMT DEF Encodes
<1>2. CASE v >= 64 /\ v < 16384
  <2>1. UintVar(v) = <<64 + v \div 256, v % 256>>
    BY <1>0, <1>2, SMT DEF UintVar
  <2>2. PICK a \in Nat, b \in Nat : a = v \div 256 /\ b = v % 256 /\ a < 64 /\ b < 256 /\ v = 256 * a + b
    BY <1>0, <1>2, SMT
  <2>3. PICK k \in Nat : k = 64 + a /\ k % 64 = a /\ Size(k) = 2 /\ k \in Byte /\ b \in Byte
    BY <2>2, ByteIs, SMT DEF Size
  <2>4. UintVar(v) = <<k, b>>
    BY <2>1, <2>2, <2>3, SMT
  <2>5. Get(<<k, b>>) = 256 * a + b
    BY <2>3, SMT DEF Get
  <2>6. <<k, b>> \in Seq(Byte) /\ Len(<<k, b>>) = 2 /\ <<k, b>>[1] = k
    BY <2>3, Tuples, SMT
  <2> QED
    <3>1. Get(<<k, b>>) = v
      BY <2>2, <2>5, SMT
    <3>2. Size(k) = 2
      BY <2>3, SMT
    <3> QED
      BY <2>4, <2>6, <3>1, <3>2, SMT DEF Encodes
<1>3. CASE v >= 16384 /\ v < 1073741824
  <2>1. UintVar(v) = <<128 + Above(v), Third(v), Second(v), Last1(v)>>
    BY <1>0, <1>3, SMT DEF UintVar, Above, Third, Second, Last1
  <2>2. PICK a \in Nat, b \in Byte, c \in Byte, d \in Byte : DigitsOf(v, a, b, c, d)
    BY <1>0, Digits, SMT
  <2>3. a < 64
    BY <1>0, <1>3, <2>2, SMT DEF DigitsOf, Above
  <2>4. PICK k \in Nat : k = 128 + a /\ k % 64 = a /\ Size(k) = 4 /\ k \in Byte
    BY <2>3, ByteIs, SMT DEF Size
  <2>5. UintVar(v) = <<k, b, c, d>>
    <3>1. a = Above(v) /\ b = Third(v) /\ c = Second(v) /\ d = Last1(v)
      BY <2>2, SMT DEF DigitsOf
    <3>2. k = 128 + Above(v)
      BY <2>4, <3>1, Zenon
    <3> QED
      BY <2>1, <3>1, <3>2, Zenon
  <2>6. Get(<<k, b, c, d>>) = Word(a, b, c, d)
    BY <2>4, SMT DEF Get
  <2>7. <<k, b, c, d>> \in Seq(Byte) /\ Len(<<k, b, c, d>>) = 4 /\ <<k, b, c, d>>[1] = k
    BY <2>4, Tuples, SMT
  <2>8. v = Word(a, b, c, d)
    BY <2>2, SMT DEF DigitsOf
  <2> QED
    BY <2>4, <2>5, <2>6, <2>7, <2>8, SMT DEF Encodes
<1>4. CASE v >= 1073741824
  <2>1. PICK h \in Nat, l \in Nat : HalvesOf(v, h, l)
    BY <1>0, Halves, SMT
  <2>2. UintVar(v) = <<192 + Above(h), Third(h), Second(h), Last1(h),
                       Above(v) % 256, Third(v), Second(v), Last1(v)>>
    <3>1. h = (v \div 65536) \div 65536
      BY <2>1, SMT DEF HalvesOf
    <3> QED
      BY <1>0, <1>4, <3>1, SMTT(20) DEF UintVar, Above, Third, Second, Last1
  <2>3. PICK a \in Nat, b \in Byte, c \in Byte, d \in Byte : DigitsOf(h, a, b, c, d)
    BY Digits, Zenon
  <2>4. PICK e \in Nat, f \in Byte, g \in Byte, i \in Byte : DigitsOf(l, e, f, g, i)
    BY Digits, Zenon
  <2>5. a < 64
    BY <1>0, <2>1, <2>3, SMT DEF HalvesOf, DigitsOf, Above
  <2>6. e \in Byte
    BY <2>1, <2>4, ByteIs, SMT DEF HalvesOf, DigitsOf
  <2>7. PICK k \in Nat : k = 192 + a /\ k % 64 = a /\ Size(k) = 8 /\ k \in Byte
    BY <2>5, ByteIs, SMT DEF Size
  <2>8. UintVar(v) = <<k, b, c, d, e, f, g, i>>
    <3>1. e = Above(v) % 256 /\ f = Third(v) /\ g = Second(v) /\ i = Last1(v)
      BY <2>1, <2>4, SMT DEF HalvesOf, DigitsOf
    <3>2. a = Above(h) /\ b = Third(h) /\ c = Second(h) /\ d = Last1(h)
      BY <2>3, SMT DEF DigitsOf
    <3>3. k = 192 + Above(h)
      BY <2>7, <3>2, Zenon
    <3> QED
      BY <2>2, <3>1, <3>2, <3>3, Zenon
  <2>9. v = 65536 * (65536 * Word(a, b, c, d)) + Word(e, f, g, i)
    BY <2>1, <2>3, <2>4, SMT DEF HalvesOf, DigitsOf
  <2>10. Get(<<k, b, c, d, e, f, g, i>>) = 65536 * (65536 * Word(a, b, c, d)) + Word(e, f, g, i)
    BY <2>7, SMT DEF Get
  <2>11. /\ <<k, b, c, d, e, f, g, i>> \in Seq(Byte)
         /\ Len(<<k, b, c, d, e, f, g, i>>) = 8 /\ <<k, b, c, d, e, f, g, i>>[1] = k
    BY <2>6, <2>7, Tuples, SMT
  <2> QED
    BY <2>7, <2>8, <2>9, <2>10, <2>11, SMT DEF Encodes
<1> QED
  BY <1>0, <1>1, <1>2, <1>3, <1>4, SMT

\* How many bytes a UintVar has survives the conversion to uint32_t.
LEMMA SizeKept == \A msb : Uint32(Size(msb)) = Size(msb)
<1>1. \A msb : Size(msb) \in {1, 2, 4, 8}
  BY SMT DEF Size
<1>2. \A n \in {1, 2, 4, 8} : Uint32(n) = n
  BY SMT DEF Uint32
<1> QED
  BY <1>1, <1>2, Zenon

\* A buffer that begins with b and goes on with rest, taken apart again.
LEMMA TakenApart ==
    ASSUME NEW S, NEW b \in Seq(S), NEW rest \in Seq(S), Uint32(Len(b)) = Len(b)
    PROVE  /\ Available(b \o rest, Len(b))
           /\ First(b \o rest, Len(b)) = b /\ Drop(b \o rest, Len(b)) = rest
           /\ b # <<>> => b \o rest # <<>> /\ Head(b \o rest) = b[1]
<1> DEFINE c == b \o rest  k == Len(b)
<1>1. /\ c \in Seq(S) /\ Len(c) = k + Len(rest) /\ k \in Nat /\ Len(rest) \in Nat
      /\ \A i \in 1 .. k + Len(rest) : c[i] = IF i <= k THEN b[i] ELSE rest[i - k]
  BY ConcatProperties, SMT
<1>2. \A i \in 1 .. Len(c) : c[i] \in S
  BY <1>1, SMT
<1>0. Uint32(k) = k
  OBVIOUS
<1> HIDE DEF c
<1>3. Available(c, k)
  BY <1>0, <1>1, SMT DEF Available
<1>4. First(c, k) = b
  <2>1. \A i \in 1 .. k : c[i] \in S
    BY <1>1, <1>2, SMT
  <2>2. /\ SubSeq(c, 1, k) \in Seq(S) /\ Len(SubSeq(c, 1, k)) = k
        /\ \A i \in 1 .. k : SubSeq(c, 1, k)[i] = c[i]
    BY <1>1, <2>1, SubSeqProperties, SMT
  <2>3. \A i \in 1 .. k : SubSeq(c, 1, k)[i] = b[i]
    BY <1>1, <2>2, SMT
  <2> QED
    BY <1>0, <2>2, <2>3, SeqEqual, SMT DEF First
<1>5. Drop(c, k) = rest
  <2>1. \A i \in (k + 1) .. Len(c) : c[i] \in S
    BY <1>1, <1>2, SMT
  <2>2. /\ SubSeq(c, k + 1, Len(c)) \in Seq(S) /\ Len(SubSeq(c, k + 1, Len(c))) = Len(rest)
        /\ \A i \in 1 .. Len(rest) : SubSeq(c, k + 1, Len(c))[i] = c[k + i]
    BY <1>1, <2>1, SubSeqProperties, SMT
  <2>3. \A i \in 1 .. Len(rest) : SubSeq(c, k + 1, Len(c))[i] = rest[i]
    <3> TAKE i \in 1 .. Len(rest)
    <3>1. k + i \in 1 .. k + Len(rest) /\ ~(k + i <= k) /\ (k + i) - k = i
      BY <1>1, SMT
    <3>2. c[k + i] = rest[i]
      BY <1>1, <3>1, Zenon
    <3> QED
      BY <2>2, <3>2, Zenon
  <2> QED
    <3> DEFINE d == SubSeq(c, k + 1, Len(c))
    <3>1. d \in Seq(S) /\ Len(d) = Len(rest) /\ \A i \in 1 .. Len(d) : d[i] = rest[i]
      BY <2>2, <2>3, Zenon
    <3> HIDE DEF d
    <3>2. d = rest
      BY <3>1, SeqEqual, SMT
    <3> QED
      BY <1>0, <3>2, Zenon DEF Drop, d
<1>6. ASSUME b # <<>> PROVE c # <<>> /\ Head(c) = b[1]
  <2>1. k > 0
    BY <1>1, <1>6, SMT
  <2> QED
    BY <1>1, <2>1, SMT
<1> QED
  BY <1>3, <1>4, <1>5, <1>6, SMT DEF c

\* A UintVar at the front of a buffer is read as the number it was built from, and
\* the bytes behind it are left: for every value the constructor accepts, in whichever
\* of its four lengths, and whatever follows (the constructor UintVar(uint64_t), Size
\* and Get, and StreamBuffer::ReadUintV).
THEOREM UintVarRead ==
    ASSUME NEW v \in Encodable, NEW rest \in Seq(Byte)
    PROVE  ReadUintV(UintVar(v) \o rest) = [v |-> v, n |-> Len(UintVar(v)), rest |-> rest]
<1> DEFINE b == UintVar(v)
<1>1. b \in Seq(Byte) /\ b # <<>> /\ Size(b[1]) = Len(b) /\ Get(b) = v
  BY EncodesIs, SMT DEF Encodes
<1>5. Uint32(Len(b)) = Len(b)
  BY <1>1, SizeKept, Zenon
<1> HIDE DEF b
<1>2. /\ Available(b \o rest, Len(b))
      /\ First(b \o rest, Len(b)) = b /\ Drop(b \o rest, Len(b)) = rest
      /\ b \o rest # <<>> /\ Head(b \o rest) = b[1]
  BY <1>1, <1>5, TakenApart, SMT
<1>3. ReadUint(b \o rest, Len(b)) = [v |-> v, n |-> Len(b), rest |-> rest]
  BY <1>1, <1>2, Zenon DEF ReadUint
<1>4. ReadUintV(b \o rest) = ReadUint(b \o rest, Len(b))
  BY <1>1, <1>2, Zenon DEF ReadUintV
<1> QED
  BY <1>3, <1>4, Zenon DEF b

\* Of a UintVar that has not arrived completely nothing is read and nothing taken off:
\* however it is cut, its first byte makes ReadUintV wait for the others.
THEOREM UintVarWaits ==
    ASSUME NEW v \in Encodable, NEW k \in 0 .. Len(UintVar(v)) - 1
    PROVE  ReadUintV(SubSeq(UintVar(v), 1, k)) = nullopt
<1> DEFINE b == UintVar(v)  p == SubSeq(b, 1, k)
<1>1. b \in Seq(Byte) /\ Len(b) \in Nat /\ Size(b[1]) = Len(b)
  BY EncodesIs, SMT DEF Encodes
<1>2. k \in Nat /\ k < Len(b)
  BY <1>1, SMT
<1> HIDE DEF b
<1>3. p \in Seq(Byte) /\ Len(p) = k /\ \A i \in 1 .. k : p[i] = b[i]
  <2>1. \A i \in 1 .. k : b[i] \in Byte
    BY <1>1, <1>2, SMT
  <2> QED
    BY <1>2, <2>1, SubSeqProperties, SMT
<1> HIDE DEF p
<1>4. CASE p = <<>>
  BY <1>4, Zenon DEF ReadUintV, p, b
<1>5. CASE p # <<>>
  <2>1. Head(p) = b[1]
    BY <1>2, <1>3, <1>5, SMT
  <2>4. Uint32(Len(b)) = Len(b)
    BY <1>1, SizeKept, Zenon
  <2>2. ~Available(p, Len(b))
    BY <1>1, <1>2, <1>3, <2>4, SMT DEF Available
  <2>3. ReadUintV(p) = ReadUint(p, Len(b))
    BY <1>1, <1>5, <2>1, Zenon DEF ReadUintV
  <2> QED
    BY <2>2, <2>3, Zenon DEF ReadUint, p, b
<1> QED
  BY <1>4, <1>5, Zenon

LEMMA ValueIsRead ==
    ASSUME NEW v \in Nat, NEW n \in Nat, NEW rest \in Seq(Byte)
    PROVE  [v |-> v, n |-> n, rest |-> rest] # nullopt
<1>1. [v |-> v, n |-> n, rest |-> rest] \in [v : Nat, n : Nat, rest : Seq(Byte)]
  BY Zenon
<1> QED
  BY <1>1, BufferAssumption, Zenon

\* A string of bytes behind its length is read whole, and nothing behind it: what
\* PushLengthBytes puts down, DecodeBytes takes off, the empty string included.  From
\* 2^32 bytes on it does not: the length is then cut to uint32_t between the test and
\* the read.
THEOREM BytesRead ==
    ASSUME NEW s \in Seq(Byte), Len(s) \in Encodable, Uint32(Len(s)) = Len(s), NEW rest \in Seq(Byte)
    PROVE  ReadBytes(ReadUintV(PushLengthBytes(s) \o rest)) = [v |-> s, rest |-> rest]
<1> DEFINE u == UintVar(Len(s))  r == [v |-> Len(s), n |-> Len(u), rest |-> s \o rest]
<1>1. u \in Seq(Byte) /\ Len(u) \in Nat /\ Len(s) \in Nat /\ s \o rest \in Seq(Byte)
  <2>1. u \in Seq(Byte)
    BY EncodesIs, Zenon DEF Encodes
  <2> QED
    BY <2>1, ConcatProperties, SMT
<1>2. ReadUintV(u \o (s \o rest)) = r
  BY <1>1, UintVarRead, Zenon
<1>3. PushLengthBytes(s) \o rest = u \o (s \o rest)
  BY <1>1, ConcatAssociative, SMTT(40) DEF PushLengthBytes
<1>4. r # nullopt
  BY <1>1, ValueIsRead, Zenon
<1>5. /\ ~(Len(s \o rest) < Len(s))
      /\ First(s \o rest, Len(s)) = s /\ Drop(s \o rest, Len(s)) = rest
  <2>1. Len(s \o rest) = Len(s) + Len(rest)
    BY ConcatProperties, Zenon
  <2> QED
    BY <2>1, TakenApart, SMT
<1>6. r.v = Len(s) /\ r.rest = s \o rest
  BY Zenon
<1> HIDE DEF r, u
<1>7. ReadBytes(r) = [v |-> s, rest |-> rest]
  BY <1>4, <1>5, <1>6, Zenon DEF ReadBytes
<1> QED
  BY <1>2, <1>3, <1>7, Zenon

\* Of a string that has not arrived completely nothing is taken off, wherever it ends:
\* inside its length, behind it or inside its bytes (DecodeBytes asks for both lengths
\* before it pops either).
THEOREM BytesWait ==
    ASSUME NEW s \in Seq(Byte), Len(s) \in Encodable,
           NEW k \in 0 .. Len(PushLengthBytes(s)) - 1
    PROVE  ReadBytes(ReadUintV(SubSeq(PushLengthBytes(s), 1, k))) = nullopt
<1> DEFINE u == UintVar(Len(s))  c == u \o s  l == Len(u)  p == SubSeq(c, 1, k)
<1>1. u \in Seq(Byte) /\ l \in Nat /\ Len(s) \in Nat
  <2>1. u \in Seq(Byte)
    BY EncodesIs, Zenon DEF Encodes
  <2> QED
    BY <2>1, SMT
<1> HIDE DEF u
<1>2. /\ c \in Seq(Byte) /\ Len(c) = l + Len(s)
      /\ \A i \in 1 .. l + Len(s) : c[i] = IF i <= l THEN u[i] ELSE s[i - l]
  BY <1>1, ConcatProperties, SMT
<1>3. PushLengthBytes(s) = c
  BY Zenon DEF PushLengthBytes, u
<1> HIDE DEF c
<1>4. k \in Nat /\ k < l + Len(s)
  <2>1. k \in 0 .. Len(c) - 1
    BY <1>3, Zenon
  <2> QED
    BY <1>1, <1>2, <2>1, SMT
<1>5. p \in Seq(Byte) /\ Len(p) = k /\ \A i \in 1 .. k : p[i] = c[i]
  <2>1. \A i \in 1 .. k : c[i] \in Byte
    BY <1>1, <1>2, <1>4, SMT
  <2> QED
    BY <1>4, <2>1, SubSeqProperties, SMT
<1> HIDE DEF p
<1>6. CASE k < l
  <2> DEFINE q == SubSeq(u, 1, k)
  <2>1. q \in Seq(Byte) /\ Len(q) = k /\ \A i \in 1 .. k : q[i] = u[i]
    <3>1. \A i \in 1 .. k : u[i] \in Byte
      BY <1>1, <1>4, <1>6, SMT
    <3> QED
      BY <1>4, <3>1, SubSeqProperties, SMT
  <2>2. ReadUintV(q) = nullopt
    <3>1. k \in 0 .. Len(u) - 1
      BY <1>1, <1>4, <1>6, SMT
    <3> QED
      BY <3>1, UintVarWaits, Zenon DEF u
  <2> HIDE DEF q
  <2>3. \A i \in 1 .. k : p[i] = q[i]
    <3> TAKE i \in 1 .. k
    <3>1. i \in 1 .. l + Len(s) /\ i <= l
      BY <1>1, <1>4, <1>6, SMT
    <3>2. c[i] = u[i]
      BY <1>2, <3>1, Zenon
    <3> QED
      BY <1>5, <2>1, <3>2, Zenon
  <2>4. p = q
    BY <1>5, <2>1, <2>3, SeqEqual, SMT
  <2>5. ReadBytes(ReadUintV(p)) = nullopt
    BY <2>2, <2>4, Zenon DEF ReadBytes
  <2> QED
    BY <1>3, <2>5, Zenon DEF p
<1>7. CASE ~(k < l)
  <2> DEFINE t == SubSeq(s, 1, k - l)  r == [v |-> Len(s), n |-> l, rest |-> t]
  <2>1. t \in Seq(Byte) /\ Len(t) = k - l /\ \A i \in 1 .. k - l : t[i] = s[i]
    <3>1. k - l \in Nat /\ k - l < Len(s)
      BY <1>1, <1>4, <1>7, SMT
    <3>2. \A i \in 1 .. k - l : s[i] \in Byte
      BY <1>1, <3>1, SMT
    <3> QED
      BY <3>1, <3>2, SubSeqProperties, SMT
  <2> HIDE DEF t
  <2>2. p = u \o t
    <3>1. /\ u \o t \in Seq(Byte) /\ Len(u \o t) = k
          /\ \A i \in 1 .. k : (u \o t)[i] = IF i <= l THEN u[i] ELSE t[i - l]
      <4>1. /\ u \o t \in Seq(Byte) /\ Len(u \o t) = l + Len(t)
            /\ \A i \in 1 .. l + Len(t) : (u \o t)[i] = IF i <= l THEN u[i] ELSE t[i - l]
        BY <1>1, <2>1, ConcatProperties, SMT
      <4>2. l + Len(t) = k
        BY <1>1, <1>4, <2>1, SMT
      <4> QED
        BY <4>1, <4>2, Zenon
    <3>2. \A i \in 1 .. k : p[i] = (u \o t)[i]
      <4> TAKE i \in 1 .. k
      <4>1. p[i] = IF i <= l THEN u[i] ELSE s[i - l]
        BY <1>1, <1>2, <1>4, <1>5, SMT
      <4>2. ~(i <= l) => t[i - l] = s[i - l]
        BY <1>1, <1>4, <2>1, SMT
      <4> QED
        BY <3>1, <4>1, <4>2, Zenon
    <3> QED
      BY <1>5, <3>1, <3>2, SeqEqual, SMT
  <2>3. ReadUintV(u \o t) = r
    BY <2>1, UintVarRead, Zenon DEF u
  <2>4. r # nullopt /\ r.v = Len(s) /\ r.rest = t
    <3>1. r # nullopt
      BY <1>1, <2>1, ValueIsRead, SMT
    <3> QED
      BY <3>1, Zenon
  <2>5. Len(t) < Len(s)
    BY <1>1, <1>4, <1>7, <2>1, SMT
  <2> HIDE DEF r
  <2>6. ReadBytes(r) = nullopt
    BY <2>4, <2>5, Zenon DEF ReadBytes
  <2> QED
    BY <1>3, <2>2, <2>3, <2>6, Zenon DEF p
<1> QED
  BY <1>6, <1>7, Zenon

=============================================================================
