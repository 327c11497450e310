-------------------------------- MODULE Wire --------------------------------
(***************************************************************************)
(* What travels as bytes: UintVar, Object and control message encoding,    *)
(* and the decoders that resume where a buffer ended.                      *)
(*                                                                         *)
(* One stream (or one datagram) is sent.  It is received in buffers of any *)
(* size, each of which is handed to the code once: StreamDataRecv of the   *)
(* subscribe, the fetch or the joining fetch handler, DgramDataRecv, or    *)
(* the control message loop of Transport::OnRecvStream.  After an          *)
(* exception the stream is not followed further here; what becomes of the  *)
(* buffer that was handed over is part of RxStream.                        *)
(*                                                                         *)
(* A byte is a number below 256.  A decoder is the list of its cases, as   *)
(* in FetchHeaderCases; its state is that of the message struct:           *)
(* current_pos, the fields so far and how far the extensions have been     *)
(* read.  A value under an even extension key is its number, not the eight *)
(* bytes of it.                                                            *)
(***************************************************************************)
EXTENDS Integers, Sequences, SequencesExt, FiniteSets, TLC, StreamBuffer

CONSTANTS
    Kinds,        \* what may be sent, see Encode
    HeaderTypes,  \* StreamHeaderTypes that may be sent
    Val,          \* values of ids
    Exts, Imms,   \* extensions and immutable extensions of an object
    MaxObjs       \* objects of a stream

kImmutable == 11

-----------------------------------------------------------------------------
(* Encoding. *)

KeyValuePair(kv) ==
    UintVar(kv[1]) \o IF kv[1] % 2 = 0 THEN UintVar(kv[2]) ELSE PushLengthBytes(kv[2])

KeyValuePairs(kvs) == FlattenSeq([i \in DOMAIN kvs |-> KeyValuePair(kvs[i])])

Present(e) == IF e = nullopt THEN <<>> ELSE e

\* Immutable extensions among the immutable ones: neither side takes them.
Nests(imm) == \E i \in DOMAIN Present(imm) : Present(imm)[i][1] = kImmutable

\* Mutable extensions, and the immutable ones as one value under their key.
Combined(ext, imm) ==
    LET e == Present(ext)
        low == SelectSeq(e, LAMBDA kv : kv[1] <= kImmutable)
        high == SelectSeq(e, LAMBDA kv : kv[1] > kImmutable)
    IN  IF Present(imm) = <<>> THEN e
        ELSE low \o <<<<kImmutable, KeyValuePairs(imm)>>>> \o high

SerializeExtensions(ext, imm) == PushLengthBytes(KeyValuePairs(Combined(ext, imm)))

Payload(o) ==
    IF o.payload = <<>> THEN <<0>> \o UintVar(o.status) ELSE PushLengthBytes(o.payload)

Varints(ids) == FlattenSeq([i \in DOMAIN ids |-> UintVar(ids[i])])

\* StreamHeaderProperties, DatagramHeaderProperties and DatagramStatusProperties.
MayContainExtensions(type) == type % 2 = 1
SubgroupIdType(type) ==
    CASE type \in {16, 17, 24, 25} -> "kIsZero"
      [] type \in {18, 19, 26, 27} -> "kSetFromFirstObject"
      [] type \in {20, 21, 28, 29} -> "kExplicit"
DatagramType(o) == (IF o.ext # nullopt \/ o.imm # nullopt THEN 1 ELSE 0)
DatagramStatusType(o) == 4 + (IF o.ext # nullopt \/ o.imm # nullopt THEN 1 ELSE 0)

FetchHeader(s) == UintVar(5) \o UintVar(s.alias)

StreamHeaderSubGroup(s) ==
    UintVar(s.type) \o UintVar(s.alias) \o UintVar(s.group)
        \o (IF SubgroupIdType(s.type) = "kExplicit" THEN UintVar(s.sub) ELSE <<>>) \o <<s.prio>>

StreamSubGroupObject(s, o) ==
    UintVar(o.delta) \o (IF MayContainExtensions(s.type) THEN SerializeExtensions(o.ext, o.imm) ELSE <<>>)
        \o Payload(o)

FetchObject(s, o) ==
    Varints(<<s.group, s.sub, o.id>>) \o <<s.prio>> \o SerializeExtensions(o.ext, o.imm) \o Payload(o)

DatagramExtensions(o) ==
    IF o.ext = nullopt /\ o.imm = nullopt THEN <<>> ELSE SerializeExtensions(o.ext, o.imm)

ObjectDatagram(s, o) ==
    Varints(<<DatagramType(o), s.alias, s.group, o.id>>) \o <<s.prio>> \o DatagramExtensions(o) \o o.payload

ObjectDatagramStatus(s, o) ==
    Varints(<<DatagramStatusType(o), s.alias, s.group, o.id>>) \o <<s.prio>>
        \o DatagramExtensions(o) \o UintVar(o.status)

ControlMessage(o) == UintVar(o.id) \o <<Len(o.payload) \div 256, Len(o.payload) % 256>> \o o.payload

Header(s) ==
    CASE s.kind = "subgroup" -> StreamHeaderSubGroup(s)
      [] s.kind \in {"fetch", "joining"} -> FetchHeader(s)
      [] OTHER -> <<>>

Encode(s, o) ==
    CASE s.kind = "subgroup" -> StreamSubGroupObject(s, o)
      [] s.kind \in {"fetch", "joining"} -> FetchObject(s, o)
      [] s.kind = "datagram" -> ObjectDatagram(s, o)
      [] s.kind = "status" -> ObjectDatagramStatus(s, o)
      [] s.kind = "control" -> ControlMessage(o)

-----------------------------------------------------------------------------
(* Decoding: operator>> of each message, one entry per case of its switch. *)

FetchHeaderCases          == <<"uint", "uint">>
StreamHeaderSubGroupCases == <<"uint", "uint", "uint", "subgroup", "byte">>
FetchObjectCases          == <<"uint", "uint", "uint", "byte", "ext", "len", "status", "payload">>
StreamSubGroupObjectCases == <<"uint", "streamExt", "len", "status", "payload">>
ObjectDatagramCases       == <<"uint", "uint", "uint", "uint", "byte", "typeExt", "rest">>
ObjectDatagramStatusCases == <<"uint", "uint", "uint", "uint", "byte", "typeExt", "code">>

\* A message struct as constructed.
Fresh == [pos |-> 1, vals |-> <<>>, len |-> 0, ext |-> nullopt, imm |-> nullopt,
          elen |-> nullopt, left |-> 0, tag |-> nullopt, payload |-> <<>>, status |-> 0,
          done |-> FALSE, threw |-> FALSE]

\* Where a decoder stands: its message, and the bytes it has not used.
At(m, b) == [m |-> m, b |-> b]

\* One key, or one value, of the extensions, u being the integer in front of b; the
\* same m and b when bytes are missing.
ParseTag(m, b, u) ==
    IF u = nullopt THEN At(m, b) ELSE At([m EXCEPT !.tag = u.v, !.left = @ - u.n], u.rest)

Kept(m, v, n) == [m EXCEPT !.ext = Append(@, <<m.tag, v>>), !.left = @ - n, !.tag = nullopt]

ParseField(m, b, d) ==
    IF d = nullopt THEN At(m, b) ELSE At(Kept(m, d.v, Len(d.v) + Len(UintVar(Len(d.v)))), d.rest)

ParseValue(m, b, u) ==
    IF m.tag % 2 = 1 THEN ParseField(m, b, ReadBytes(u))
    ELSE IF u = nullopt THEN At(m, b) ELSE At(Kept(m, u.v, u.n), u.rest)

ParseOne(m, b, u) == IF m.tag = nullopt THEN ParseTag(m, b, u) ELSE ParseValue(m, b, u)

\* extension_bytes_remaining, left here, is a size_t: it ends the loop at 0 only, and a
\* pair that is longer than what remains takes it below.
RECURSIVE ParsePairs(_, _)
ParsePairs(m, b) ==
    LET further(at) == IF at = At(m, b) THEN at ELSE ParsePairs(at.m, at.b)
    IN  IF m.left = 0 THEN At(m, b) ELSE further(ParseOne(m, b, ReadUintV(b)))

\* The immutable extensions are read out of the value that holds them, which stays
\* where it is.  The case is left when they end within a pair, and with an exception
\* when they nest.
ReadImmutable(m, blob) ==
    LET in == ParsePairs([Fresh EXCEPT !.ext = Present(m.imm), !.left = Len(blob)], blob).m
        read == [m EXCEPT !.imm = in.ext]
    IN  IF blob = <<>> THEN [m EXCEPT !.pos = @ + 1]
        ELSE IF in.left # 0 THEN read
        ELSE IF Nests(in.ext) THEN [read EXCEPT !.threw = TRUE] ELSE [read EXCEPT !.pos = @ + 1]
ParseImmutable(m) ==
    LET blobs == SelectSeq(Present(m.ext), LAMBDA kv : kv[1] = kImmutable)
    IN  IF blobs = <<>> THEN [m EXCEPT !.pos = @ + 1] ELSE ReadImmutable(m, Head(blobs)[2])

ExtensionsRead(at) == IF at.m.left # 0 THEN at ELSE At(ParseImmutable(at.m), at.b)

\* Mutant: the extensions start anew with every buffer.
ParseFromAnew(m, b) == ExtensionsRead(ParsePairs(IF m.elen > 0 THEN [m EXCEPT !.ext = <<>>] ELSE m, b))
\* ParseExtensions once it knows how many bytes they take.
ParseFrom(m, b) ==
    ExtensionsRead(ParsePairs(IF m.elen > 0 /\ m.ext = nullopt THEN [m EXCEPT !.ext = <<>>] ELSE m, b))

ParseExtensions(m, b, u) ==
    IF m.elen # nullopt THEN ParseFrom(m, b)
    ELSE IF u = nullopt THEN At(m, b) ELSE ParseFrom([m EXCEPT !.elen = u.v, !.left = u.v], u.rest)

HasExtensions(op, type, m) ==
    CASE op = "ext"       -> TRUE
      [] op = "streamExt" -> MayContainExtensions(type)
      [] op = "typeExt"   -> MayContainExtensions(m.vals[1])

\* One case of a switch, u being the integer in front of b.  A case that lacks bytes
\* leaves pos as it is.
Case(op, type, m, b, u) ==
    LET stay == At(m, b)
        next(v, rest) == At([m EXCEPT !.pos = @ + 1, !.vals = Append(@, v)], rest)
        skip == At([m EXCEPT !.pos = @ + 1], b)
        last(code) == At([m EXCEPT !.status = code, !.done = TRUE], u.rest)
    IN  CASE op = "uint" -> IF u = nullopt THEN stay ELSE next(u.v, u.rest)
          [] op = "byte" -> IF b = <<>> THEN stay ELSE next(Head(b), Tail(b))
          [] op = "subgroup" ->
               CASE SubgroupIdType(m.vals[1]) = "kIsZero" -> next(0, b)
                 [] SubgroupIdType(m.vals[1]) = "kSetFromFirstObject" -> next(nullopt, b)
                 [] OTHER -> IF u = nullopt THEN stay ELSE next(u.v, u.rest)
          [] op \in {"ext", "streamExt", "typeExt"} ->
               IF HasExtensions(op, type, m) THEN ParseExtensions(m, b, u) ELSE skip
          [] op = "len" -> IF u = nullopt THEN stay ELSE At([m EXCEPT !.pos = @ + 1, !.len = u.v], u.rest)
          [] op = "status" -> IF m.len > 0 THEN skip ELSE IF u = nullopt THEN stay ELSE last(u.v)
          [] op = "payload" ->
               IF ~Available(b, m.len) \/ First(b, m.len) = <<>> THEN stay
               ELSE At([m EXCEPT !.payload = First(b, m.len), !.done = TRUE], Drop(b, m.len))
          [] op = "rest" -> At([m EXCEPT !.payload = b, !.done = TRUE], <<>>)
          [] op = "code" -> IF u = nullopt THEN stay ELSE last(u.v)

\* operator>>: the cases from current_pos on, falling through.
RECURSIVE Parse(_, _, _, _)
Parse(prog, type, m, b) ==
    LET further(at) ==
            IF at.m.threw \/ (at.m.pos = m.pos /\ ~at.m.done) THEN at ELSE Parse(prog, type, at.m, at.b)
    IN  IF m.done THEN At(m, b)
        ELSE IF m.pos > Len(prog) THEN At([m EXCEPT !.done = TRUE], b)
        ELSE further(Case(prog[m.pos], type, m, b, ReadUintV(b)))

-----------------------------------------------------------------------------
(* The receiver. *)

VARIABLES
    s,       \* the stream: its kind and the fields of its header
    objs,    \* the objects, or the control messages, it carries
    wire,    \* their bytes: the header, then one part for each
    got,     \* how many bytes have been received
    buf,     \* stream_buffer_, or ctrl_msg_buffer
    hdr,     \* the header struct in the buffer's any
    obj,     \* the object struct in its anyB
    ctrl,    \* ctrl_msg_type_received
    next,    \* next_object_id_
    recv,    \* what was given to ObjectReceived, or to ProcessCtrlMessage
    failed,  \* an exception left StreamDataRecv
    extra,   \* whole objects received beyond one for each buffer
    torn     \* a joining fetch has given up an object it had read in part

vars == <<s, objs, wire, got, buf, hdr, obj, ctrl, next, recv, failed, extra, torn>>

Fetching == s.kind \in {"fetch", "joining"}

\* What the handlers pass to ObjectReceived.
Object(group, sub, id, prio, m) ==
    [group |-> group, sub |-> sub, id |-> id, prio |-> prio,
     ext |-> m.ext, imm |-> m.imm, payload |-> m.payload, status |-> m.status]

\* The object at the front of the buffer, if it is whole.  At most one is taken.
SubgroupRecv(h, r) ==
    LET id == r.m.vals[1] + (IF next = nullopt THEN 0 ELSE next)
    IN  /\ failed' = (r.m.threw \/ (r.m.done /\ h.vals[4] = nullopt))
        /\ IF r.m.done /\ h.vals[4] # nullopt
           THEN /\ recv' = Append(recv, Object(h.vals[3], h.vals[4], id, h.vals[5], r.m))
                /\ next' = id + 1
           ELSE UNCHANGED <<recv, next>>

FetchRecv(r) ==
    /\ recv' = IF r.m.done
               THEN Append(recv, Object(r.m.vals[1], r.m.vals[2], r.m.vals[3], r.m.vals[4], r.m))
               ELSE recv
    /\ failed' = r.m.threw
    /\ UNCHANGED next

\* StreamDataRecv: the header from the first buffer, then an object from every buffer.
\* A joining fetch begins each time with a new object, whatever it had of the last.
HeaderRead(data) ==
    IF got > 0 THEN At(hdr, buf \o data)
    ELSE Parse(IF Fetching THEN FetchHeaderCases ELSE StreamHeaderSubGroupCases, nullopt, Fresh, data)
ObjectRead(h) ==
    Parse(IF Fetching THEN FetchObjectCases ELSE StreamSubGroupObjectCases, h.m.vals[1],
          IF s.kind = "joining" THEN Fresh ELSE obj, h.b)

StreamDataRecv(data) ==
    \E h \in {HeaderRead(data)} : \E r \in {ObjectRead(h)} :
        /\ hdr' = h.m
        /\ buf' = r.b
        /\ obj' = IF r.m.done THEN Fresh ELSE r.m
        /\ IF Fetching THEN FetchRecv(r) ELSE SubgroupRecv(h.m, r)
        /\ UNCHANGED ctrl

\* The datagram message r has read, if it is whole.
DatagramRead(r) ==
    /\ buf' = r.b
    /\ obj' = r.m
    /\ recv' = IF r.m.done
               THEN Append(recv, Object(r.m.vals[3], 0, r.m.vals[4], r.m.vals[5], r.m))
               ELSE recv
    /\ failed' = r.m.threw
    /\ UNCHANGED <<hdr, ctrl, next>>

\* stream_buffer_ is cleared first.
DgramDataRecv(data) == DatagramRead(Parse(ObjectDatagramCases, nullopt, Fresh, data))

\* operator>> for ObjectDatagramStatus, over a buffer that fills up in parts, as its
\* test reads it: Transport::OnRecvDgram does not hand such datagrams on yet.
DgramStatusRead(data) == DatagramRead(Parse(ObjectDatagramStatusCases, nullopt, obj, buf \o data))

\* The loop over ctrl_msg_buffer: type, length, and the payload once it is whole.  It is
\* handed over with all that follows it in the buffer, and only it is taken off.
RECURSIVE CtrlMsgs(_, _, _)
CtrlMsgs(b, type, done) ==
    LET typed(u) == IF u = nullopt THEN [b |-> b, type |-> nullopt, done |-> done]
                    ELSE CtrlMsgs(u.rest, u.v, done)
        len == 256 * b[1] + b[2]
    IN  IF type = nullopt THEN typed(ReadUintV(b))
        ELSE IF ~Available(b, 2) \/ ~Available(b, 2 + len) THEN [b |-> b, type |-> type, done |-> done]
        ELSE CtrlMsgs(Drop(b, 2 + len), nullopt, Append(done, [type |-> type, payload |-> Drop(b, 2)]))

OnRecvStream(data) ==
    LET c == CtrlMsgs(buf \o data, ctrl, <<>>)
    IN  /\ buf' = c.b
        /\ ctrl' = c.type
        /\ recv' = recv \o c.done
        /\ UNCHANGED <<hdr, obj, next, failed>>

-----------------------------------------------------------------------------
(* What is sent, and in which buffers it arrives. *)

Streams ==
    [kind : Kinds \cap {"subgroup"}, type : HeaderTypes, alias : Val, group : Val, sub : Val, prio : {7}]
        \cup [kind : Kinds \ {"subgroup"}, type : {nullopt}, alias : Val, group : Val, sub : {0}, prio : {7}]

\* An object without a payload has a status instead.
Objects ==
    [id : Val, ext : Exts, imm : Imms, payload : {<<>>}, status : {3}]
        \cup [id : Val, ext : Exts, imm : Imms, payload : {<<133, 5>>}, status : {0}]

\* Only what a stream of its kind can say of an object is varied.
Carries(st, o) ==
    CASE st.kind = "status"   -> o.payload = <<>>
      [] st.kind = "datagram" -> o.payload # <<>>
      [] st.kind = "control"  -> o.ext = nullopt /\ o.imm = nullopt
      [] st.kind = "subgroup" -> MayContainExtensions(st.type) \/ (o.ext = nullopt /\ o.imm = nullopt)
      [] OTHER                -> TRUE

\* The first object is any, the others are all the same one; the ids grow.
Sent(st) ==
    LET any == {o \in Objects : Carries(st, o) /\ ~Nests(o.imm)}
        last == CHOOSE o \in any : o.payload # <<>> /\ o.imm = nullopt
        others(o, n) == [i \in 1..n |-> IF i = 1 THEN o ELSE [last EXCEPT !.id = o.id + 2 * i]]
    IN  IF st.kind \in {"datagram", "status"} THEN {<<o>> : o \in any}
        ELSE {others(o, n) : o \in any, n \in 1..MaxObjs}

\* The object id on a subgroup stream is the distance to the one expected next.
Delta(os, i) == IF i = 1 THEN os[1].id ELSE os[i].id - os[i - 1].id - 1

Part(st, os, i) == Encode(st, os[i] @@ [delta |-> Delta(os, i)])

Init ==
    /\ s \in Streams
    /\ objs \in Sent(s)
    /\ wire = <<Header(s)>> \o [i \in DOMAIN objs |-> Part(s, objs, i)]
    /\ got = 0 /\ buf = <<>> /\ hdr = Fresh /\ obj = Fresh /\ ctrl = nullopt
    /\ next = nullopt /\ recv = <<>> /\ failed = FALSE /\ extra = 0 /\ torn = FALSE

\* How many bytes the header and the first i objects take.
End(i) == Len(FlattenSeq(SubSeq(wire, 1, i + 1)))
Whole(n) == Cardinality({i \in DOMAIN objs : End(i) <= n})

\* One buffer arrives.  A stream's first buffer holds its header, and a datagram is one
\* buffer.
Recv(k) ==
    LET data == SubSeq(FlattenSeq(wire), got + 1, got + k)
        new == Whole(got + k) - Whole(got)
    IN  /\ ~failed
        /\ got = 0 => k >= End(0)
        /\ s.kind = "datagram" => k = End(Len(objs))
        /\ CASE s.kind \in {"subgroup", "fetch", "joining"} -> StreamDataRecv(data)
             [] s.kind = "datagram" -> DgramDataRecv(data)
             [] s.kind = "status" -> DgramStatusRead(data)
             [] s.kind = "control" -> OnRecvStream(data)
        /\ got' = got + k
        /\ extra' = IF s.kind = "control" \/ extra + new = 0 THEN 0 ELSE extra + new - 1
        /\ torn' = (torn \/ (s.kind = "joining" /\ obj # Fresh))
        /\ UNCHANGED <<s, objs, wire>>

Next == \E k \in 1..(End(Len(objs)) - got) : Recv(k)

Spec == Init /\ [][Next]_vars

-----------------------------------------------------------------------------
(* Properties. *)

\* Type invariant of the receive buffers.
TypeOK ==
    /\ \A i \in DOMAIN buf : buf[i] \in 0..255
    /\ got \in Nat /\ extra \in 0..MaxObjs /\ failed \in BOOLEAN /\ torn \in BOOLEAN
    /\ obj.pos \in 1..9
    /\ s.kind # "joining" => ~torn /\ obj.left >= 0

\* What the subscriber must be given for object o.
Expected(o) ==
    LET combined == Combined(o.ext, o.imm)
    IN  [group |-> s.group, sub |-> s.sub, id |-> o.id, prio |-> s.prio,
         ext |-> IF combined = <<>> THEN nullopt ELSE combined,
         imm |-> o.imm, payload |-> o.payload, status |-> o.status]

\* A control message arrives with its type, and in front of whatever follows it.
ExpectedMsg(o, msg) == msg.type = o.id /\ First(msg.payload, Len(o.payload)) = o.payload

\* Wherever the buffers are cut, what operator>> and the handlers give the subscriber
\* is what was sent, field by field and in order: a value, a key or an extension split
\* over two buffers is neither read twice nor dropped.
AnyCutDecoded ==
    /\ Len(recv) <= Len(objs)
    /\ \A i \in DOMAIN recv :
        IF s.kind = "control" THEN ExpectedMsg(objs[i], recv[i])
        ELSE recv[i] = IF s.kind = "subgroup" /\ SubgroupIdType(s.type) = "kIsZero"
                       THEN [Expected(objs[i]) EXCEPT !.sub = 0] ELSE Expected(objs[i])

\* The same, but for a joining fetch that lost an object it had read in part: there the
\* bytes that follow are taken for the beginning of an object
\* (joining_fetch_handler.cpp:29).
DecodedIsSent == ~torn => AnyCutDecoded

\* StreamDataRecv takes one object for each buffer and leaves no whole object waiting
\* beyond those that shared a buffer; the control loop leaves none.  A joining fetch
\* does so as long as it loses none it had read in part.
OneForEach == ~failed /\ ~torn => Whole(got) - Len(recv) = extra

\* A stream whose subgroup id is that of its first object is received like the others
\* (the code means to set it: subscribe_track_handler.cpp:84-90).
NoFailure == ~failed

\* A relay that publishes an object as it was received sends the bytes it received.
ReencodeSame ==
    \A i \in DOMAIN recv :
        s.kind \in {"subgroup", "fetch"} /\ (s.kind = "subgroup" => MayContainExtensions(s.type)) =>
            SerializeExtensions(recv[i].ext, recv[i].imm) = SerializeExtensions(objs[i].ext, objs[i].imm)
=============================================================================
