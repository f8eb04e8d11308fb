------------------------- MODULE CommandLinkProofs -------------------------
(***************************************************************************)
(* Proofs that a host's encoder, the line and a device's decoder implement *)
(* CommandChannel's safety, for every set of requests that are Sound,      *)
(* every stream, every choice of what a callback that aborts has done, and *)
(* every bound.                                                            *)
(*                                                                         *)
(* The encoder's part is EInv of EncoderProofs, the decoder's part Inv of  *)
(* CommandDecoderProofs.  LinkInv adds what lies between them: CutInv, what *)
(* the frame last begun on the line has to do with the request, and        *)
(* LineInv, which reads the line from the decoder's end to the host's.     *)
(***************************************************************************)
EXTENDS CommandLink, CommandRoundTripProofs

\* The device's decoder with the lemmas proved of it.
DP == INSTANCE CommandReportProofs WITH
    Headers <- {0}, Payload <- {0}, CallbackSets <- {CallbackNames},
    MaxFrame <- MaxFrame + 4, MaxWrite <- 1,
    state <- d_state, payload_index <- d_payload_index,
    opcode_length <- d_opcode_length, interface <- d_interface, opcode <- d_opcode,
    smallbuf <- d_smallbuf, byte_index <- d_byte_index, installed <- d_installed,
    status <- d_status, todo <- d_todo, frame <- d_frame, log <- d_log,
    ended <- d_ended, muted <- d_muted, cut <- d_cut, refused <- d_refused

\* What one item of the line does to the device: to the bytes of its frame, to
\* the number of commands it has called, and to whether the frame is closed.
\* A command is the next of those granted.
Step(x, g, body, done, closed, body2, done2, closed2) ==
    \/ x = START /\ body2 = << >> /\ done2 = done /\ ~closed2
    \/ /\ x \in Byte /\ ~closed
       /\ body2 = Append(body, x) /\ done2 = done /\ ~closed2
    \/ /\ x = END /\ ~closed
       /\ body2 = body /\ closed2
       /\ \/ CommandsOf(body) = << >> /\ done2 = done
          \/ /\ done < Len(g) /\ CommandsOf(body) = << g[done + 1] >>
             /\ done2 = done + 1

\* B, D and C are the frame, the number and the mark before each item of line
\* l and after the last one.
Reads(l, g, B, D, C) ==
    /\ B \in [1 .. Len(l) + 1 -> Seq(Byte)]
    /\ D \in [1 .. Len(l) + 1 -> Nat]
    /\ C \in [1 .. Len(l) + 1 -> BOOLEAN]
    /\ \A k \in 1 .. Len(l) :
          Step(l[k], g, B[k], D[k], C[k], B[k + 1], D[k + 1], C[k + 1])

\* A device whose frame is f, which has called n commands, comes to stand in
\* `body` and to have called `done` commands when it has read the line.
Leads(l, g, f, n, e, body, done, closed) ==
    \E B, D, C :
        /\ Reads(l, g, B, D, C)
        /\ B[1] = f /\ D[1] = n /\ C[1] = e
        /\ B[Len(l) + 1] = body /\ D[Len(l) + 1] = done /\ C[Len(l) + 1] = closed

\* Then it has called all those granted, and stands in the frame that is open.
Reading(l, g, f, n, e, isopen, bytes) ==
    \E body \in Seq(Byte), closed \in BOOLEAN :
        /\ Leads(l, g, f, n, e, body, Len(g), closed)
        /\ isopen => ~closed /\ body = bytes

Item == Byte \cup {START, END}

LineInv ==
    Reading(line, granted, d_frame, Len(carried), d_ended, cutting.open, cutting.bytes)

OnLine == line \in Seq(Item) /\ granted \in Seq(Callback) /\ LineInv

\* The frame last begun on the line is as much of the frame of a request as has
\* been put, or a stream's; and it is the one of the call in progress.
OfRequest ==
    /\ cutting.request \in Requests
    /\ \E n \in 0 .. Len(cutting.request.bytes) + 1 :
          cutting.bytes = SubSeq(FrameOf(cutting.request), 1, n)

OfStream ==
    /\ cutting.request.means = << >>
    /\ cutting.bytes = << >> \/ OpcodeOf(cutting.bytes[1]) = DATA

CutInv ==
    /\ DOMAIN cutting = {"open", "bytes", "request"}
    /\ cutting.open \in BOOLEAN /\ cutting.bytes \in Seq(Byte)
    /\ OfRequest \/ OfStream
    /\ pc \in {"header", "payload"} =>
          cutting.open /\ cutting.request = request /\ request \in Requests
    /\ pc = "header" => cutting.bytes = << >>
    /\ pc = "payload" => cutting.bytes = SubSeq(FrameOf(request), 1, sent + 1)
    /\ pc = "stream" => cutting.open /\ cutting.bytes = << >> /\ OfStream
    /\ streaming => cutting.open /\ cutting.bytes # << >> /\ OfStream

DeviceInv ==
    /\ DP!Inv
    /\ d_installed = CallbackNames
    /\ ~d_muted

LinkInv ==
    /\ calls \in 0 .. MaxCalls
    /\ owed \in Seq(Callback)
    /\ carried \in Seq(Callback)
    /\ DeviceInv
    /\ CutInv
    /\ OnLine

-----------------------------------------------------------------------------
(* Host and device read the same tables.  The device's decoder is an       *)
(* instance with constants and variables of its own; what depends on       *)
(* neither is the same in it as in the host's modules, and what depends    *)
(* on its variables the same in CommandDecoder and in its proofs.          *)

\* Opcodes: their payload lengths and the names of their callbacks.
LEMMA SameOpcodes ==
    /\ \A o : Device!OpcodeLength(o) = OpcodeLength(o) /\ DP!OpcodeLength(o) = OpcodeLength(o)
    /\ \A o : Device!CommandName(o) = CommandName(o) /\ DP!CommandName(o) = CommandName(o)
BY DEF OpcodeLength, Device!OpcodeLength, DP!OpcodeLength,
       CommandName, Device!CommandName, DP!CommandName,
       DATA, FREQUENCY, BANDWIDTH, TXPOWER, SF, CR, RADIO_STATE, RADIO_LOCK, DETECT,
       LEAVE, READY, Device!DATA, Device!FREQUENCY, Device!BANDWIDTH, Device!TXPOWER,
       Device!SF, Device!CR, Device!RADIO_STATE, Device!RADIO_LOCK, Device!DETECT,
       Device!LEAVE, Device!READY, DP!DATA, DP!FREQUENCY, DP!BANDWIDTH, DP!TXPOWER,
       DP!SF, DP!CR, DP!RADIO_STATE, DP!RADIO_LOCK, DP!DETECT, DP!LEAVE, DP!READY

\* The arguments of a command's callback.
LEMMA SameArgs ==
    \A i, o, w : /\ Device!CommandArgs(i, o, w) = CommandArgs(i, o, w)
                 /\ DP!CommandArgs(i, o, w) = CommandArgs(i, o, w)
BY DEF CommandArgs, Device!CommandArgs, DP!CommandArgs, Int8, Device!Int8, DP!Int8,
       DATA, FREQUENCY, BANDWIDTH, TXPOWER, SF, CR, RADIO_STATE, RADIO_LOCK, DETECT,
       LEAVE, READY, Device!DATA, Device!FREQUENCY, Device!BANDWIDTH, Device!TXPOWER,
       Device!SF, Device!CR, Device!RADIO_STATE, Device!RADIO_LOCK, Device!DETECT,
       Device!LEAVE, Device!READY, DP!DATA, DP!FREQUENCY, DP!BANDWIDTH, DP!TXPOWER,
       DP!SF, DP!CR, DP!RADIO_STATE, DP!RADIO_LOCK, DP!DETECT, DP!LEAVE, DP!READY

\* The values a command takes.
LEMMA SameValid ==
    \A o, w : /\ Device!ValidArgument(o, w) = ValidArgument(o, w)
              /\ DP!ValidArgument(o, w) = ValidArgument(o, w)
BY DEF ValidArgument, Device!ValidArgument, DP!ValidArgument,
       WordOfByte, Device!WordOfByte, DP!WordOfByte,
       RADIO_STATE, Device!RADIO_STATE, DP!RADIO_STATE, DETECT, Device!DETECT, DP!DETECT,
       RADIO_STATE_OFF, Device!RADIO_STATE_OFF, DP!RADIO_STATE_OFF,
       RADIO_STATE_ON, Device!RADIO_STATE_ON, DP!RADIO_STATE_ON,
       RADIO_STATE_ASK, Device!RADIO_STATE_ASK, DP!RADIO_STATE_ASK,
       DETECT_REQ, Device!DETECT_REQ, DP!DETECT_REQ

\* The names of the callbacks, and the types.
LEMMA SameNames ==
    /\ Device!CallbackNames = CallbackNames /\ DP!CallbackNames = CallbackNames
    /\ Device!CommandNames = CommandNames /\ DP!CommandNames = CommandNames
    /\ Device!Callback = Callback /\ DP!Callback = Callback
    /\ Device!Byte = Byte /\ DP!Byte = Byte
    /\ DP!Word = Word
    /\ DP!Status = Device!Status
BY DEF CallbackNames, Device!CallbackNames, DP!CallbackNames,
       CommandNames, Device!CommandNames, DP!CommandNames,
       Callback, Device!Callback, DP!Callback, Byte, Device!Byte, DP!Byte, Word, DP!Word,
       Device!Status, DP!Status, Device!INVALID_ARGUMENT, DP!INVALID_ARGUMENT,
       Device!OK, DP!OK

\* A call through a callback pointer, a header's nibbles, a payload's value,
\* and the statuses.
LEMMA SameCall ==
    /\ \A inst, n, args : /\ Device!Call(inst, n, args) = Call(inst, n, args)
                           /\ DP!Call(inst, n, args) = Call(inst, n, args)
    /\ \A b : Device!InterfaceOf(b) = InterfaceOf(b) /\ DP!InterfaceOf(b) = InterfaceOf(b)
    /\ \A b : Device!OpcodeOf(b) = OpcodeOf(b) /\ DP!OpcodeOf(b) = OpcodeOf(b)
    /\ \A f : DP!PayloadWord(f) = PayloadWord(f)
    /\ \A b, n : DP!BigEndian(b, n) = Device!BigEndian(b, n)
    /\ OK = Device!OK /\ OK = DP!OK
    /\ ABORTED = Device!ABORTED /\ ABORTED = DP!ABORTED
    /\ INVALID_LENGTH = Device!INVALID_LENGTH /\ INVALID_LENGTH = DP!INVALID_LENGTH
    /\ INVALID_ARGUMENT = Device!INVALID_ARGUMENT /\ INVALID_ARGUMENT = DP!INVALID_ARGUMENT
    /\ UNKNOWN_OPCODE = Device!UNKNOWN_OPCODE /\ UNKNOWN_OPCODE = DP!UNKNOWN_OPCODE
BY DEF Call, Device!Call, DP!Call, InterfaceOf, Device!InterfaceOf, DP!InterfaceOf,
       OpcodeOf, Device!OpcodeOf, DP!OpcodeOf, PayloadWord, DP!PayloadWord,
       Device!BigEndian, DP!BigEndian, Device!ShiftIn, DP!ShiftIn,
       Device!WordOfByte, DP!WordOfByte, OK, Device!OK, DP!OK,
       ABORTED, Device!ABORTED, DP!ABORTED,
       INVALID_LENGTH, Device!INVALID_LENGTH, DP!INVALID_LENGTH,
       INVALID_ARGUMENT, Device!INVALID_ARGUMENT, DP!INVALID_ARGUMENT,
       UNKNOWN_OPCODE, Device!UNKNOWN_OPCODE, DP!UNKNOWN_OPCODE

\* The meaning of a frame, and the command among its calls.
LEMMA SameFrame ==
    /\ \A f : DP!CommandsOf(f) = CommandsOf(f)
    /\ \A c : DP!CommandsAmong(c) = CommandsAmong(c)
<1>1. \A inst, f, e : DP!FixedCalls(inst, f, e) = FixedCalls(inst, f, e)
  <2> SUFFICES ASSUME NEW inst, NEW f, NEW e
               PROVE  DP!FixedCalls(inst, f, e) = FixedCalls(inst, f, e)
    OBVIOUS
  <2> DEFINE i == InterfaceOf(f[1])
             o == OpcodeOf(f[1])
             w == PayloadWord(f)
  <2>1. /\ DP!InterfaceOf(f[1]) = i /\ DP!OpcodeOf(f[1]) = o /\ DP!PayloadWord(f) = w
        /\ DP!OpcodeLength(o) = OpcodeLength(o) /\ DP!ValidArgument(o, w) = ValidArgument(o, w)
        /\ DP!CommandName(o) = CommandName(o) /\ DP!CommandArgs(i, o, w) = CommandArgs(i, o, w)
        /\ DP!INVALID_LENGTH = INVALID_LENGTH /\ DP!INVALID_ARGUMENT = INVALID_ARGUMENT
    BY SameCall, SameOpcodes, SameArgs, SameValid
  <2>2. \A name, args : DP!Call(inst, name, args) = Call(inst, name, args)
    BY SameCall
  <2> HIDE DEF i, o, w
  <2> QED BY <2>1, <2>2, SMTT(30) DEF DP!FixedCalls, FixedCalls, i, o, w
<1>2. \A inst, f, e, c : DP!StreamCalls(inst, f, e, c) = StreamCalls(inst, f, e, c)
  <2>1. \A inst, f, m : DP!StreamHead(inst, f, m) = StreamHead(inst, f, m)
    BY SameCall DEF DP!StreamHead, StreamHead, DP!StreamBytes, StreamBytes
  <2>2. DP!DATA = DATA BY DEF DP!DATA, DATA
  <2> QED BY <2>1, <2>2, SameCall DEF DP!StreamCalls, StreamCalls
<1>3. \A inst, f, e, c : DP!FrameCalls(inst, f, e, c) = FrameCalls(inst, f, e, c)
  BY <1>1, <1>2, SameCall, SameOpcodes DEF DP!FrameCalls, FrameCalls
<1>4. \A c : DP!CommandsAmong(c) = CommandsAmong(c)
  BY SameNames DEF DP!CommandsAmong, CommandsAmong
<1>5. \A f : DP!CommandsOf(f) = CommandsOf(f)
  BY <1>3, <1>4, SameNames DEF DP!CommandsOf, CommandsOf
<1> QED BY <1>4, <1>5

\* A put,
LEMMA SamePut ==
    ASSUME NEW b, DevicePut(b)
    PROVE  DP!PutByte(b)
<1> USE SameCall, SameOpcodes
<1>1. Device!PutUnknown(b) => DP!PutUnknown(b)
  BY DEF Device!PutUnknown, DP!PutUnknown, Device!Header, DP!Header, Device!Returns,
     DP!Returns
<1>2. \A v : Device!PutStream(b, v) => DP!PutStream(b, v)
  BY DEF Device!PutStream, DP!PutStream, Device!Header, DP!Header, Device!Returns,
     DP!Returns
<1>3. Device!PutFixed(b) => DP!PutFixed(b)
  BY DEF Device!PutFixed, DP!PutFixed, Device!Header, DP!Header, Device!Returns, DP!Returns
<1>4. Device!PutSmall(b) => DP!PutSmall(b)
  BY DEF Device!PutSmall, DP!PutSmall, Device!Returns, DP!Returns
<1>5. Device!PutTooMany(b) => DP!PutTooMany(b)
  BY DEF Device!PutTooMany, DP!PutTooMany, Device!Error, DP!Error, Device!Returns,
     DP!Returns
<1>6. Device!PutData(b) => DP!PutData(b)
  BY DEF Device!PutData, DP!PutData, Device!TxData, DP!TxData, Device!Returns, DP!Returns
<1>7. Device!PutDataAborted(b) => DP!PutDataAborted(b)
  BY DEF Device!PutDataAborted, DP!PutDataAborted, Device!TxData, DP!TxData,
     Device!Error, DP!Error, Device!Returns, DP!Returns
<1>8. Device!PutIgnored(b) => DP!PutIgnored(b)
  BY DEF Device!PutIgnored, DP!PutIgnored, Device!Returns, DP!Returns
<1> QED BY <1>1, <1>2, <1>3, <1>4, <1>5, <1>6, <1>7, <1>8 DEF DevicePut, DP!PutByte,
   Verdict, DP!Verdict

\* an end,
LEMMA SameEnd == Device!End => DP!End
<1> USE SameCall, SameOpcodes
<1>1. Device!EndFixed => DP!EndFixed
  BY SameArgs, SameValid DEF Device!EndFixed, DP!EndFixed, Device!Closes, DP!Closes,
     Device!Error, DP!Error, Device!Value, DP!Value, Device!Restarts, DP!Restarts
<1>2. Device!EndWrongLength => DP!EndWrongLength
  BY DEF Device!EndWrongLength, DP!EndWrongLength, Device!Closes, DP!Closes,
     Device!Error, DP!Error, Device!Restarts, DP!Restarts
<1>3. Device!EndStream => DP!EndStream
  BY DEF Device!EndStream, DP!EndStream, Device!Closes, DP!Closes, Device!TxEnd,
     DP!TxEnd, Device!Restarts, DP!Restarts
<1>4. Device!EndStreamAborted => DP!EndStreamAborted
  BY DEF Device!EndStreamAborted, DP!EndStreamAborted, Device!Closes, DP!Closes,
     Device!TxEnd, DP!TxEnd, Device!Error, DP!Error
<1>5. Device!EndNothing => DP!EndNothing
  BY DEF Device!EndNothing, DP!EndNothing, Device!Closes, DP!Closes, Device!Restarts,
     DP!Restarts
<1> QED BY <1>1, <1>2, <1>3, <1>4, <1>5 DEF Device!End, DP!End

\* and the rest of the decoder's steps.
LEMMA SameRest ==
    /\ \A n : Device!Write(n) => DP!Write(n)
    /\ Device!Start => DP!Start
    /\ Device!Init => DP!Init
    /\ DP!TypeOK => Device!TypeOK
    /\ Device!Made = DP!Made
<1>1. \A n : Device!Write(n) => DP!Write(n)
  BY DEF Device!Write, DP!Write, Device!decoder, DP!decoder, Device!history, DP!history
<1>2. Device!Start => DP!Start
  BY DEF Device!Start, DP!Start
<1>3. Device!Init => DP!Init
  BY SameCall DEF Device!Init, DP!Init
<1>4. DP!TypeOK => Device!TypeOK
  BY SameNames DEF Device!TypeOK, DP!TypeOK, Device!States, DP!States
<1>5. Device!Made = DP!Made
  BY DEF Device!Made, DP!Made
<1> QED BY <1>1, <1>2, <1>3, <1>4, <1>5

-----------------------------------------------------------------------------
(* The line, read item by item *)

\* No delimiter is a byte.
LEMMA Delimiters == START \notin Byte /\ END \notin Byte /\ START # END
BY DEF START, END, Byte

\* A step stays one when more commands are granted.
LEMMA StepGrows ==
    ASSUME NEW g \in Seq(Callback), NEW more \in Seq(Callback), NEW d \in Nat,
           NEW x, NEW b, NEW c, NEW bb, NEW dd, NEW cc, Step(x, g, b, d, c, bb, dd, cc)
    PROVE  Step(x, g \o more, b, d, c, bb, dd, cc)
<1>1. /\ Len(g) \in Nat /\ Len(more) \in Nat /\ Len(g \o more) = Len(g) + Len(more)
      /\ \A k \in 1 .. Len(g) : (g \o more)[k] = g[k]
  <2> HIDE DEF Callback
  <2>1. /\ Len(g) \in Nat /\ Len(more) \in Nat /\ Len(g \o more) = Len(g) + Len(more)
        /\ \A k \in 1 .. Len(g) + Len(more) :
              (g \o more)[k] = IF k <= Len(g) THEN g[k] ELSE more[k - Len(g)]
    BY LenProperties, ConcatProperties
  <2> QED
    BY <2>1
<1> DEFINE h == g \o more
<1> HIDE DEF h
<1>2. d < Len(g) => d < Len(h) /\ h[d + 1] = g[d + 1]
  BY <1>1 DEF h
<1> QED
  BY <1>2 DEF Step, h

\* An item put at the end of the line is one more step to read.
LEMMA ReadOn ==
    ASSUME NEW l \in Seq(Item), NEW x \in Item, NEW g \in Seq(Callback),
           NEW more \in Seq(Callback), NEW f, NEW n, NEW e, NEW b0, NEW d0, NEW c0,
           Leads(l, g, f, n, e, b0, d0, c0),
           NEW b \in Seq(Byte), NEW d \in Nat, NEW c \in BOOLEAN,
           Step(x, g \o more, b0, d0, c0, b, d, c)
    PROVE  Leads(Append(l, x), g \o more, f, n, e, b, d, c)
<1>0. PICK B, D, C :
        /\ Reads(l, g, B, D, C)
        /\ B[1] = f /\ D[1] = n /\ C[1] = e
        /\ B[Len(l) + 1] = b0 /\ D[Len(l) + 1] = d0 /\ C[Len(l) + 1] = c0
  BY DEF Leads
<1> DEFINE z == Len(l) + 1
           l2 == Append(l, x)
           B2 == [k \in 1 .. z + 1 |-> IF k <= z THEN B[k] ELSE b]
           D2 == [k \in 1 .. z + 1 |-> IF k <= z THEN D[k] ELSE d]
           C2 == [k \in 1 .. z + 1 |-> IF k <= z THEN C[k] ELSE c]
<1>1. Len(l) \in Nat /\ z \in Nat \ {0} /\ Len(l) = z - 1
  <2>1. Len(l) \in Nat
    <3> HIDE DEF Item
    <3> QED BY LenProperties
  <2> QED BY <2>1
<1>2. Len(l2) = z /\ l2[z] = x /\ \A k \in 1 .. z - 1 : l2[k] = l[k]
  <2> HIDE DEF Item
  <2> QED BY AppendProperties, <1>1
<1>3. /\ B \in [1 .. z -> Seq(Byte)] /\ D \in [1 .. z -> Nat] /\ C \in [1 .. z -> BOOLEAN]
      /\ \A k \in 1 .. z - 1 : Step(l[k], g, B[k], D[k], C[k], B[k + 1], D[k + 1], C[k + 1])
  BY <1>0, <1>1 DEF Reads
<1>s. Step(x, g \o more, B[z], D[z], C[z], b, d, c)
  BY <1>0
<1> HIDE DEF z, l2
<1>4. /\ B2 \in [1 .. z + 1 -> Seq(Byte)] /\ D2 \in [1 .. z + 1 -> Nat]
      /\ C2 \in [1 .. z + 1 -> BOOLEAN]
  <2> HIDE DEF Byte
  <2>1. B2 \in [1 .. z + 1 -> Seq(Byte)]
    BY <1>1, <1>3
  <2>2. D2 \in [1 .. z + 1 -> Nat]
    BY <1>1, <1>3
  <2>3. C2 \in [1 .. z + 1 -> BOOLEAN]
    <3>1. \A k \in 1 .. z + 1 : (IF k <= z THEN C[k] ELSE c) \in BOOLEAN
      BY <1>1, <1>3
    <3> QED BY <3>1
  <2> QED BY <2>1, <2>2, <2>3
<1>5. /\ \A k \in 1 .. z : B2[k] = B[k] /\ D2[k] = D[k] /\ C2[k] = C[k]
      /\ B2[z + 1] = b /\ D2[z + 1] = d /\ C2[z + 1] = c
  BY <1>1
<1> HIDE DEF B2, D2, C2
<1>6. ASSUME NEW k \in 1 .. z
      PROVE  Step(l2[k], g \o more, B2[k], D2[k], C2[k], B2[k + 1], D2[k + 1], C2[k + 1])
  <2>1. CASE k = z
    BY <1>1, <1>2, <1>5, <1>s, <2>1
  <2>2. CASE k # z
    <3>1. k \in 1 .. z - 1 /\ k + 1 \in 1 .. z
      BY <1>1, <2>2
    <3>2. Step(l2[k], g, B2[k], D2[k], C2[k], B2[k + 1], D2[k + 1], C2[k + 1])
      BY <1>2, <1>3, <1>5, <3>1
    <3>3. D2[k] \in Nat
      BY <1>1, <1>4
    <3> QED
      BY <3>2, <3>3, StepGrows
  <2> QED BY <2>1, <2>2
<1>7. Reads(l2, g \o more, B2, D2, C2)
  BY <1>2, <1>4, <1>6 DEF Reads
<1>8. B2[1] = f /\ D2[1] = n /\ C2[1] = e /\ Len(l2) + 1 = z + 1
  <2>1. 1 \in 1 .. z
    BY <1>1
  <2> QED BY <1>0, <1>2, <1>5, <2>1
<1>9. Leads(l2, g \o more, f, n, e, b, d, c)
  BY <1>5, <1>7, <1>8 DEF Leads
<1> QED BY <1>9 DEF l2

\* A delimiter that begins a frame,
LEMMA PutStart ==
    ASSUME NEW l \in Seq(Item), NEW g \in Seq(Callback), NEW f, NEW n, NEW e, NEW o, NEW b,
           Reading(l, g, f, n, e, o, b)
    PROVE  Reading(Append(l, START), g, f, n, e, TRUE, << >>)
<1>1. PICK body \in Seq(Byte), closed \in BOOLEAN :
            Leads(l, g, f, n, e, body, Len(g), closed)
  BY DEF Reading
<1>2. << >> \in Seq(Callback) /\ g \o << >> = g /\ Len(g) \in Nat
  <2> HIDE DEF Callback
  <2> QED BY ConcatEmptySeq, EmptySeq, LenProperties
<1>3. << >> \in Seq(Byte) /\ START \in Item /\ FALSE \in BOOLEAN
  BY DEF Item
<1>4. Step(START, g \o << >>, body, Len(g), closed, << >>, Len(g), FALSE)
  BY DEF Step
<1>5. Leads(Append(l, START), g \o << >>, f, n, e, << >>, Len(g), FALSE)
  BY <1>1, <1>2, <1>3, <1>4, ReadOn
<1> QED
  BY <1>2, <1>3, <1>5 DEF Reading

\* a byte of the frame that is open,
LEMMA PutOne ==
    ASSUME NEW l \in Seq(Item), NEW g \in Seq(Callback), NEW f, NEW n, NEW e,
           NEW b \in Seq(Byte), Reading(l, g, f, n, e, TRUE, b), NEW x \in Byte
    PROVE  Reading(Append(l, x), g, f, n, e, TRUE, Append(b, x))
<1>1. Leads(l, g, f, n, e, b, Len(g), FALSE)
  <2>1. PICK body \in Seq(Byte), closed \in BOOLEAN :
            Leads(l, g, f, n, e, body, Len(g), closed) /\ ~closed /\ body = b
    BY DEF Reading
  <2>2. closed = FALSE
    BY <2>1
  <2> QED
    BY <2>1, <2>2
<1>2. << >> \in Seq(Callback) /\ g \o << >> = g /\ Len(g) \in Nat
  <2> HIDE DEF Callback
  <2> QED BY ConcatEmptySeq, EmptySeq, LenProperties
<1>3. Append(b, x) \in Seq(Byte) /\ x \in Item /\ FALSE \in BOOLEAN
  BY DEF Item
<1>4. Step(x, g \o << >>, b, Len(g), FALSE, Append(b, x), Len(g), FALSE)
  BY DEF Step
<1>5. Leads(Append(l, x), g \o << >>, f, n, e, Append(b, x), Len(g), FALSE)
  BY <1>1, <1>2, <1>3, <1>4, ReadOn
<1> QED
  BY <1>2, <1>3, <1>5 DEF Reading

\* and a delimiter that ends it: the command the frame is, if it is one, is
\* granted at that moment.
LEMMA PutEnd ==
    ASSUME NEW l \in Seq(Item), NEW g \in Seq(Callback), NEW f, NEW n, NEW e,
           NEW b \in Seq(Byte), Reading(l, g, f, n, e, TRUE, b), NEW bytes,
           \/ CommandsOf(b) = << >>
           \/ \E c \in Callback : CommandsOf(b) = << c >>
    PROVE  Reading(Append(l, END), g \o CommandsOf(b), f, n, e, FALSE, bytes)
<1>1. Leads(l, g, f, n, e, b, Len(g), FALSE)
  <2>1. PICK body \in Seq(Byte), closed \in BOOLEAN :
            Leads(l, g, f, n, e, body, Len(g), closed) /\ ~closed /\ body = b
    BY DEF Reading
  <2>2. closed = FALSE
    BY <2>1
  <2> QED
    BY <2>1, <2>2
<1> DEFINE more == CommandsOf(b)
           z == Len(g \o more)
<1>2. /\ more \in Seq(Callback) /\ Len(g) \in Nat /\ z \in Nat
      /\ \/ more = << >> /\ z = Len(g)
         \/ more = << (g \o more)[Len(g) + 1] >> /\ z = Len(g) + 1
  <2>1. CASE more = << >>
    <3>1. << >> \in Seq(Callback) /\ g \o << >> = g /\ Len(g) \in Nat
      <4> HIDE DEF Callback
      <4> QED BY ConcatEmptySeq, EmptySeq, LenProperties
    <3> QED BY <2>1, <3>1
  <2>2. CASE \E c \in Callback : more = << c >>
    <3>1. PICK c \in Callback : more = << c >>
      BY <2>2
    <3> HIDE DEF Callback, more
    <3>2. more \in Seq(Callback) /\ Len(more) = 1 /\ more[1] = c
      BY <3>1
    <3>3. /\ Len(g) \in Nat /\ Len(g \o more) = Len(g) + Len(more)
          /\ \A k \in 1 .. Len(g) + Len(more) :
                (g \o more)[k] = IF k <= Len(g) THEN g[k] ELSE more[k - Len(g)]
      BY <3>2, LenProperties, ConcatProperties
    <3>4. (g \o more)[Len(g) + 1] = c
      <4>1. Len(g) + 1 \in 1 .. Len(g) + Len(more) /\ ~ (Len(g) + 1 <= Len(g))
            /\ (Len(g) + 1) - Len(g) = 1
        BY <3>2, <3>3
      <4> QED BY <3>2, <3>3, <4>1
    <3> QED BY <3>1, <3>2, <3>3, <3>4
  <2> QED BY <2>1, <2>2
<1>3. END \in Item /\ TRUE \in BOOLEAN /\ FALSE \in BOOLEAN
  BY DEF Item
<1> HIDE DEF more, z
<1>4. Step(END, g \o more, b, Len(g), FALSE, b, z, TRUE)
  BY <1>2 DEF Step, more, z
<1>5. Leads(Append(l, END), g \o more, f, n, e, b, z, TRUE)
  BY <1>1, <1>2, <1>3, <1>4, ReadOn
<1> QED
  BY <1>3, <1>5 DEF Reading, more, z

\* What the device takes off the line is the first step.
LEMMA Taken ==
    ASSUME NEW l \in Seq(Item), l # << >>, NEW g \in Seq(Callback), NEW f, NEW n, NEW e,
           NEW o, NEW b, Reading(l, g, f, n, e, o, b)
    PROVE  \E f2 \in Seq(Byte), n2 \in Nat, e2 \in BOOLEAN :
              /\ Step(Head(l), g, f, n, e, f2, n2, e2)
              /\ Reading(Tail(l), g, f2, n2, e2, o, b)
<1>0. PICK body \in Seq(Byte), closed \in BOOLEAN :
         /\ Leads(l, g, f, n, e, body, Len(g), closed)
         /\ o => ~closed /\ body = b
  BY DEF Reading
<1>1. PICK B, D, C :
        /\ Reads(l, g, B, D, C)
        /\ B[1] = f /\ D[1] = n /\ C[1] = e
        /\ B[Len(l) + 1] = body /\ D[Len(l) + 1] = Len(g) /\ C[Len(l) + 1] = closed
  BY <1>0 DEF Leads
<1> DEFINE m == Len(l)
           t == Tail(l)
           B2 == [k \in 1 .. m |-> B[k + 1]]
           D2 == [k \in 1 .. m |-> D[k + 1]]
           C2 == [k \in 1 .. m |-> C[k + 1]]
<1>2. /\ m \in Nat \ {0} /\ Len(t) = m - 1 /\ Head(l) = l[1]
      /\ \A k \in 1 .. m - 1 : t[k] = l[k + 1]
  <2>1. m \in Nat \ {0}
    <3> HIDE DEF Item
    <3> QED BY EmptySeq
  <2>2. Len(t) = m - 1 /\ \A k \in 1 .. Len(t) : t[k] = l[k + 1]
    <3> HIDE DEF Item
    <3> QED BY HeadTailProperties
  <2> QED BY <2>1, <2>2
<1>3. /\ B \in [1 .. m + 1 -> Seq(Byte)] /\ D \in [1 .. m + 1 -> Nat]
      /\ C \in [1 .. m + 1 -> BOOLEAN]
      /\ \A k \in 1 .. m : Step(l[k], g, B[k], D[k], C[k], B[k + 1], D[k + 1], C[k + 1])
  BY <1>1 DEF Reads
<1> HIDE DEF m, t
<1>4. /\ B2 \in [1 .. m -> Seq(Byte)] /\ D2 \in [1 .. m -> Nat] /\ C2 \in [1 .. m -> BOOLEAN]
  <2> HIDE DEF Byte
  <2>0. \A k \in 1 .. m : k + 1 \in 1 .. m + 1
    BY <1>2
  <2> QED BY <1>3, <2>0
<1>5. \A k \in 1 .. m : B2[k] = B[k + 1] /\ D2[k] = D[k + 1] /\ C2[k] = C[k + 1]
  OBVIOUS
<1> HIDE DEF B2, D2, C2
<1>6. ASSUME NEW k \in 1 .. m - 1
      PROVE  Step(t[k], g, B2[k], D2[k], C2[k], B2[k + 1], D2[k + 1], C2[k + 1])
  <2>1. k \in 1 .. m /\ k + 1 \in 1 .. m
    BY <1>2
  <2> QED BY <1>2, <1>3, <1>5, <2>1
<1>7. Reads(t, g, B2, D2, C2)
  <2>1. Len(t) + 1 = m
    BY <1>2
  <2> QED BY <1>2, <1>4, <1>6, <2>1 DEF Reads
<1>8. /\ B[2] \in Seq(Byte) /\ D[2] \in Nat /\ C[2] \in BOOLEAN
      /\ Step(Head(l), g, f, n, e, B[2], D[2], C[2])
  <2>1. 1 \in 1 .. m /\ 2 \in 1 .. m + 1 /\ 1 + 1 = 2
    BY <1>2
  <2> QED BY <1>1, <1>2, <1>3, <2>1
<1>9. Leads(t, g, B[2], D[2], C[2], body, Len(g), closed)
  <2>1. /\ B2[1] = B[2] /\ D2[1] = D[2] /\ C2[1] = C[2]
        /\ B2[m] = B[m + 1] /\ D2[m] = D[m + 1] /\ C2[m] = C[m + 1]
    <3>1. 1 \in 1 .. m /\ m \in 1 .. m /\ 1 + 1 = 2
      BY <1>2
    <3> QED BY <1>5, <3>1
  <2>2. Len(t) + 1 = m
    BY <1>2
  <2>3. B[m + 1] = body /\ D[m + 1] = Len(g) /\ C[m + 1] = closed
    BY <1>1 DEF m
  <2> QED BY <1>7, <2>1, <2>2, <2>3 DEF Leads
<1>10. Reading(t, g, B[2], D[2], C[2], o, b)
  BY <1>0, <1>9 DEF Reading
<1> QED
  BY <1>8, <1>10 DEF t

-----------------------------------------------------------------------------
(* What a delimited frame grants *)

Commands == UNION {{r.means[k] : k \in 1 .. Len(r.means)} : r \in Requests}

\* The decoder of the link satisfies what its module assumes.
LEMMA DecoderAssumptions ==
    /\ {0} \subseteq DP!Byte
    /\ {CallbackNames} \subseteq SUBSET DP!CallbackNames
    /\ MaxFrame + 4 \in Nat /\ 1 \in Nat
BY SameNames, LengthAssumption DEF Byte

\* No stream and no empty frame is a command.
LEMMA NoCommandInFrame ==
    ASSUME NEW f \in Seq(Byte), f = << >> \/ OpcodeOf(f[1]) = DATA
    PROVE  CommandsOf(f) = << >>
<1>1. f \in Seq(DP!Byte) /\ 0 \in Nat
  BY SameNames
<1>2. f = << >> \/ DP!OpcodeLength(DP!OpcodeOf(f[1])) = -1
  <2>1. OpcodeLength(DATA) = -1
    BY DEF OpcodeLength, DATA, FREQUENCY, BANDWIDTH, TXPOWER, SF, CR, RADIO_STATE,
           RADIO_LOCK, DETECT, LEAVE, READY
  <2>2. DP!OpcodeOf(f[1]) = OpcodeOf(f[1])
    BY SameCall
  <2>3. DP!OpcodeLength(OpcodeOf(f[1])) = OpcodeLength(OpcodeOf(f[1]))
    BY SameOpcodes
  <2> QED
    BY <2>1, <2>2, <2>3
<1>3. DP!CommandsOf(f) = << >>
  BY ONLY <1>1, <1>2, DecoderAssumptions, DP!NoCommandIn
<1> QED
  BY <1>3, SameFrame

\* No frame is more than one.
LEMMA OneCommandInFrame ==
    ASSUME NEW f \in Seq(Byte)
    PROVE  \/ CommandsOf(f) = << >>
           \/ \E c \in Callback : CommandsOf(f) = << c >>
<1>1. f \in Seq(DP!Byte)
  BY SameNames
<1>2. \/ DP!CommandsOf(f) = << >>
      \/ \E c \in DP!Callback : DP!CommandsOf(f) = << c >>
  BY ONLY <1>1, DecoderAssumptions, DP!OneCommand
<1> QED
  BY <1>2, SameFrame, SameNames

\* Of a single call, what is a command.
LEMMA SingleCommand ==
    ASSUME NEW inst, NEW name, NEW args
    PROVE  CommandsAmong(Call(inst, name, args))
             = IF name \in CommandNames THEN Call(inst, name, args) ELSE << >>
<1>1. DP!CommandsAmong(DP!Call(inst, name, args))
        = IF name \in DP!CommandNames THEN DP!Call(inst, name, args) ELSE << >>
  BY ONLY DecoderAssumptions, DP!SingleAmong
<1> QED
  BY <1>1, SameFrame, SameCall, SameNames

\* A frame cut short of its request's is shorter than that.
LEMMA CutShort ==
    ASSUME NEW f \in Seq(Byte), NEW n \in Nat, n <= Len(f)
    PROVE  /\ SubSeq(f, 1, n) \in Seq(Byte)
           /\ Len(SubSeq(f, 1, n)) = n
           /\ \A k \in 1 .. n : SubSeq(f, 1, n)[k] = f[k]
<1> HIDE DEF Byte
<1>1. \A k \in 1 .. n : f[k] \in Byte
  BY ElementOfSeq
<1>2. /\ SubSeq(f, 1, n) \in Seq(Byte)
      /\ Len(SubSeq(f, 1, n)) = IF 1 <= n THEN n - 1 + 1 ELSE 0
      /\ \A k \in 1 .. n - 1 + 1 : SubSeq(f, 1, n)[k] = f[1 + k - 1]
  BY <1>1, SubSeqProperties
<1>3. \A k \in 1 .. n : 1 + k - 1 = k
  OBVIOUS
<1> QED
  BY <1>2, <1>3

\* The command a frame is granted is the one its bytes are to the device,
\* which no frame cut short and no stream has.
LEMMA GrantedIsMeant ==
    ASSUME CutInv
    PROVE  /\ Granted = CommandsOf(cutting.bytes)
           /\ Granted # << >> => cutting.request \in Requests /\ Granted = cutting.request.means
<1> DEFINE r == cutting.request
<1>1. CASE OfStream
  <2>1. Granted = << >>
    BY <1>1 DEF OfStream, Granted
  <2>2. CommandsOf(cutting.bytes) = << >>
    BY <1>1, NoCommandInFrame DEF OfStream, CutInv
  <2> QED
    BY <2>1, <2>2
<1>2. CASE OfRequest
  <2>0. r \in Requests
    BY <1>2 DEF OfRequest
  <2>1. /\ FrameOf(r) \in Seq(Byte) /\ Len(r.bytes) \in Nat
        /\ Len(FrameOf(r)) = Len(r.bytes) + 1
    BY <2>0, RequestFrame
  <2>2. /\ CommandsOf(FrameOf(r)) = r.means
        /\ \A n \in 0 .. Len(r.bytes) : CommandsOf(SubSeq(FrameOf(r), 1, n)) = << >>
    BY <2>0, SoundAssumption DEF Sound
  <2>3. PICK n \in 0 .. Len(r.bytes) + 1 : cutting.bytes = SubSeq(FrameOf(r), 1, n)
    BY <1>2 DEF OfRequest
  <2>4. CASE n = Len(r.bytes) + 1
    <3>1. cutting.bytes = FrameOf(r)
      <4> HIDE DEF Byte
      <4> QED
        BY <2>1, <2>3, <2>4, SubSeqFull
    <3> QED
      BY <2>0, <2>2, <3>1 DEF Granted
  <2>5. CASE n # Len(r.bytes) + 1
    <3>1. n \in 0 .. Len(r.bytes) /\ n \in Nat /\ n < Len(FrameOf(r))
      BY <2>1, <2>5
    <3>2. Len(cutting.bytes) = n
      BY <2>1, <2>3, <3>1, CutShort
    <3>3. cutting.bytes # FrameOf(r)
      BY <3>1, <3>2
    <3> QED
      BY <2>2, <2>3, <3>1, <3>3 DEF Granted
  <2> QED
    BY <2>4, <2>5
<1> QED
  BY <1>1, <1>2 DEF CutInv

\* What may happen to the commands granted: nothing, or one more of them.
Grows == granted' = granted \/ \E c \in Commands : granted' = Append(granted, c)

\* Delimiting a frame grants the command it is, if it is one.
LEMMA DelimitedGrants ==
    ASSUME CutInv, granted \in Seq(Callback), granted' = granted \o Granted
    PROVE  granted' \in Seq(Callback) /\ Grows
<1>1. cutting.bytes \in Seq(Byte) /\ Granted = CommandsOf(cutting.bytes)
  BY GrantedIsMeant DEF CutInv
<1>2. CASE Granted = << >>
  <2>1. granted \o << >> = granted
    <3> HIDE DEF Callback
    <3> QED BY ConcatEmptySeq
  <2> QED
    BY <1>2, <2>1 DEF Grows
<1>3. CASE \E c \in Callback : Granted = << c >>
  <2>1. PICK c \in Callback : Granted = << c >>
    BY <1>3
  <2>2. cutting.request \in Requests /\ cutting.request.means = << c >>
    BY <2>1, GrantedIsMeant
  <2>3. c \in Commands
    <3>1. Len(<< c >>) = 1 /\ << c >>[1] = c
      OBVIOUS
    <3>2. 1 \in 1 .. Len(cutting.request.means) /\ c = cutting.request.means[1]
      BY <2>2, <3>1
    <3> DEFINE r == cutting.request
    <3>3. c \in {r.means[k] : k \in 1 .. Len(r.means)}
      BY <3>2
    <3>4. r \in Requests
      BY <2>2
    <3> HIDE DEF r
    <3> QED
      BY <3>3, <3>4 DEF Commands
  <2>4. granted \o << c >> = Append(granted, c) /\ Append(granted, c) \in Seq(Callback)
    <3> HIDE DEF Callback
    <3> QED BY AppendIsConcat, AppendProperties
  <2> QED
    BY <2>1, <2>3, <2>4 DEF Grows
<1> QED
  BY <1>1, <1>2, <1>3, OneCommandInFrame

-----------------------------------------------------------------------------
(* What the host writes to the line *)

DeviceWaits == UNCHANGED <<d_frame, d_ended, carried>>

\* Nothing written, nothing granted and the same frame open.
LEMMA NothingWritten ==
    ASSUME OnLine, DeviceWaits, UNCHANGED <<line, cutting, granted>>
    PROVE  OnLine' /\ Grows
BY DEF OnLine, DeviceWaits, LineInv, Grows

\* A frame begins, and may delimit the one it cuts short.
LEMMA StartWritten ==
    ASSUME OnLine, CutInv, DeviceWaits, NEW r, LineStart(r)
    PROVE  OnLine' /\ Grows
<1>0. /\ cutting'.open = TRUE /\ cutting'.bytes = << >>
      /\ d_frame' = d_frame /\ d_ended' = d_ended /\ Len(carried') = Len(carried)
      /\ line \in Seq(Item) /\ granted \in Seq(Callback)
      /\ START \in Item /\ END \in Item
  BY DEF LineStart, DeviceWaits, OnLine, Item
<1>r. Reading(line, granted, d_frame, Len(carried), d_ended, cutting.open, cutting.bytes)
  BY DEF OnLine, LineInv
<1>1. CASE line' = Append(line, START) /\ granted' = granted
  <2>1. Reading(line', granted', d_frame, Len(carried), d_ended, TRUE, << >>)
    BY <1>0, <1>1, <1>r, PutStart
  <2>2. line' \in Seq(Item)
    <3> HIDE DEF Item
    <3> QED BY <1>0, <1>1, AppendProperties
  <2> QED
    BY <1>0, <1>1, <2>1, <2>2 DEF OnLine, LineInv, Grows
<1>2. CASE cutting.open /\ line' = line \o <<END, START>> /\ granted' = granted \o Granted
  <2>1. /\ Granted = CommandsOf(cutting.bytes) /\ cutting.bytes \in Seq(Byte)
        /\ granted' \in Seq(Callback) /\ Grows
    BY <1>0, <1>2, GrantedIsMeant, DelimitedGrants DEF CutInv
  <2>2. cutting.open = TRUE
    BY <1>2 DEF CutInv
  <2>3. Reading(line, granted, d_frame, Len(carried), d_ended, TRUE, cutting.bytes)
    BY <1>r, <2>2
  <2>4. \/ CommandsOf(cutting.bytes) = << >>
        \/ \E c \in Callback : CommandsOf(cutting.bytes) = << c >>
    BY <2>1, OneCommandInFrame
  <2>5. Reading(Append(line, END), granted', d_frame, Len(carried), d_ended, FALSE, << >>)
    BY <1>0, <1>2, <2>1, <2>3, <2>4, PutEnd
  <2>6. /\ Append(line, END) \in Seq(Item) /\ line' \in Seq(Item)
        /\ line' = Append(Append(line, END), START)
    <3>1. <<END, START>> = <<END>> \o <<START>> /\ <<END>> \in Seq(Item) /\ <<START>> \in Seq(Item)
      BY <1>0
    <3> HIDE DEF Item
    <3>2. Append(line, END) \in Seq(Item) /\ Append(line, END) = line \o <<END>>
      BY <1>0, AppendProperties, AppendIsConcat
    <3>3. /\ Append(Append(line, END), START) \in Seq(Item)
          /\ Append(Append(line, END), START) = (line \o <<END>>) \o <<START>>
      <4> DEFINE l == Append(line, END)
      <4>1. l \in Seq(Item) /\ l = line \o <<END>> /\ START \in Item
        BY <1>0, <3>2
      <4> HIDE DEF l
      <4>2. Append(l, START) \in Seq(Item) /\ Append(l, START) = l \o <<START>>
        BY <4>1, AppendProperties, AppendIsConcat
      <4> QED
        BY <4>1, <4>2 DEF l
    <3>4. line \o (<<END>> \o <<START>>) = (line \o <<END>>) \o <<START>>
      BY <1>0, <3>1, ConcatAssociative
    <3> QED
      BY <1>2, <3>1, <3>2, <3>3, <3>4
  <2>7. Reading(line', granted', d_frame, Len(carried), d_ended, TRUE, << >>)
    BY <2>1, <2>5, <2>6, PutStart
  <2> QED
    BY <1>0, <2>1, <2>6, <2>7 DEF OnLine, LineInv
<1> QED
  BY <1>1, <1>2 DEF LineStart

\* A byte is put in the frame that is open.
LEMMA ByteWritten ==
    ASSUME OnLine, CutInv, DeviceWaits, cutting.open, NEW b \in Byte, LinePut(b)
    PROVE  OnLine' /\ Grows /\ cutting'.bytes = Append(cutting.bytes, b)
<1>0. /\ cutting'.bytes = Append(cutting.bytes, b) /\ cutting'.open = cutting.open
      /\ d_frame' = d_frame /\ d_ended' = d_ended /\ Len(carried') = Len(carried)
      /\ line' = Append(line, b) /\ granted' = granted
      /\ line \in Seq(Item) /\ granted \in Seq(Callback) /\ b \in Item
      /\ cutting.open = TRUE /\ cutting.bytes \in Seq(Byte)
  BY DEF LinePut, DeviceWaits, OnLine, Item, CutInv
<1>1. Reading(line, granted, d_frame, Len(carried), d_ended, TRUE, cutting.bytes)
  BY <1>0 DEF OnLine, LineInv
<1>2. Reading(line', granted', d_frame, Len(carried), d_ended, TRUE, Append(cutting.bytes, b))
  BY <1>0, <1>1, PutOne
<1>3. line' \in Seq(Item)
  <2> HIDE DEF Item
  <2> QED BY <1>0, AppendProperties
<1> QED
  BY <1>0, <1>2, <1>3 DEF OnLine, LineInv, Grows

\* The frame that is open is delimited.
LEMMA EndWritten ==
    ASSUME OnLine, CutInv, DeviceWaits, cutting.open, LineEnd
    PROVE  OnLine' /\ Grows
<1>0. /\ cutting'.open = FALSE /\ cutting'.bytes = cutting.bytes
      /\ d_frame' = d_frame /\ d_ended' = d_ended /\ Len(carried') = Len(carried)
      /\ line' = Append(line, END) /\ granted' = granted \o Granted
      /\ line \in Seq(Item) /\ granted \in Seq(Callback) /\ END \in Item
      /\ cutting.open = TRUE /\ cutting.bytes \in Seq(Byte)
  BY DEF LineEnd, DeviceWaits, OnLine, Item, CutInv
<1>1. Reading(line, granted, d_frame, Len(carried), d_ended, TRUE, cutting.bytes)
  BY <1>0 DEF OnLine, LineInv
<1>2. Granted = CommandsOf(cutting.bytes) /\ granted' \in Seq(Callback) /\ Grows
  BY <1>0, GrantedIsMeant, DelimitedGrants
<1>3. \/ CommandsOf(cutting.bytes) = << >>
      \/ \E c \in Callback : CommandsOf(cutting.bytes) = << c >>
  BY <1>0, OneCommandInFrame
<1>4. Reading(line', granted', d_frame, Len(carried), d_ended, FALSE, cutting.bytes)
  BY <1>0, <1>1, <1>2, <1>3, PutEnd
<1>5. line' \in Seq(Item)
  <2> HIDE DEF Item
  <2> QED BY <1>0, AppendProperties
<1> QED
  BY <1>0, <1>2, <1>4, <1>5 DEF OnLine, LineInv

-----------------------------------------------------------------------------
(* The host's calls *)

Hosted == EInv /\ CutInv /\ OnLine

\* A frame cut where it is given up: what is on the line stays as it is.
LEMMA GivenUp ==
    ASSUME CutInv, pc' = "none", ~streaming', cutting' = cutting
    PROVE  CutInv'
BY DEF CutInv, OfRequest, OfStream

\* A whole-frame call begins its frame.
LEMMA LSend ==
    ASSUME Hosted, DeviceWaits, NEW r \in Requests, NEW abort \in Verdict,
           Send(r, abort), Unless(abort, LineStart(r))
    PROVE  CutInv' /\ OnLine' /\ Grows
<1>1. /\ request' = r /\ ~streaming'
      /\ pc' \in {"none", "header"} /\ (abort => pc' = "none")
  BY DEF Hosted, EInv, Place, TypeOK, Send, Return
<1>2. CASE LineStart(r)
  <2>1. cutting' = [open |-> TRUE, bytes |-> << >>, request |-> r]
    BY <1>2 DEF LineStart
  <2>2. /\ DOMAIN cutting' = {"open", "bytes", "request"}
        /\ cutting'.open = TRUE /\ cutting'.bytes = << >> /\ cutting'.request = r
    BY <2>1
  <2>3. OfRequest'
    <3>1. 0 \in 0 .. Len(r.bytes) + 1
      BY RequestFrame
    <3>2. FrameOf(r) \in Seq(Byte) /\ Len(FrameOf(r)) \in Nat
      BY RequestFrame
    <3>3. SubSeq(FrameOf(r), 1, 0) = << >>
      <4> HIDE DEF Byte
      <4>1. SubSeq(FrameOf(r), 1, 0) \in Seq(Byte) /\ Len(SubSeq(FrameOf(r), 1, 0)) = 0
        BY <3>2, CutShort
      <4> QED
        BY <4>1, EmptySeq
    <3> QED
      BY <2>2, <3>1, <3>3 DEF OfRequest
  <2>4. << >> \in Seq(Byte)
    OBVIOUS
  <2>5. CutInv'
    BY <1>1, <2>2, <2>3, <2>4 DEF CutInv
  <2> QED
    BY <1>2, <2>5, StartWritten DEF Hosted
<1>3. CASE abort /\ UNCHANGED <<line, cutting, granted>>
  BY <1>1, <1>3, GivenUp, NothingWritten DEF Hosted
<1> QED
  BY <1>2, <1>3 DEF Unless

\* Its header is the first byte of the frame of its request,
LEMMA LSendHeader ==
    ASSUME Hosted, DeviceWaits, NEW abort \in Verdict, SendHeader(abort),
           Unless(abort, LinePut(HeaderByte(request.interface, request.opcode)))
    PROVE  CutInv' /\ OnLine' /\ Grows
<1> DEFINE h == HeaderByte(request.interface, request.opcode)
<1>1. /\ request' = request /\ ~streaming' /\ sent' = 0 /\ pc = "header"
      /\ pc' \in {"none", "payload"} /\ (abort => pc' = "none")
      /\ cutting.open = TRUE /\ cutting.request = request /\ request \in Requests
      /\ cutting.bytes = << >> /\ DOMAIN cutting = {"open", "bytes", "request"}
  BY DEF Hosted, EInv, Place, Progress, TypeOK, SendHeader, Return, CutInv
<1>2. h \in Byte
  BY HeaderByteType DEF Hosted, EInv, TypeOK
<1>3. CASE LinePut(h)
  <2>0. OnLine' /\ Grows /\ cutting'.bytes = Append(<< >>, h)
    <3> HIDE DEF h
    <3> QED BY <1>1, <1>2, <1>3, ByteWritten DEF Hosted
  <2>1. /\ DOMAIN cutting' = {"open", "bytes", "request"}
        /\ cutting'.open = TRUE /\ cutting'.request = request
    BY <1>1, <1>3 DEF LinePut
  <2>2. cutting'.bytes = SubSeq(FrameOf(request), 1, 1)
    <3> DEFINE f == FrameOf(request)
               s == SubSeq(f, 1, 1)
    <3>1. f \in Seq(Byte) /\ Len(f) = Len(request.bytes) + 1 /\ f[1] = h /\ Len(request.bytes) \in Nat
      BY FrameOfType DEF Hosted, EInv, TypeOK
    <3> HIDE DEF h, f
    <3>2. 1 \in Nat /\ 1 <= Len(f)
      BY <3>1
    <3>3. s \in Seq(Byte) /\ Len(s) = 1 /\ \A k \in 1 .. 1 : s[k] = f[k]
      BY <3>1, <3>2, CutShort
    <3> HIDE DEF s
    <3>4. Append(<< >>, h) = << h >> /\ << h >> \in Seq(Byte) /\ Len(<< h >>) = 1 /\ << h >>[1] = h
      BY <1>2
    <3>5. \A k \in 1 .. 1 : s[k] = << h >>[k]
      BY <3>1, <3>3, <3>4
    <3>6. << h >> = s
      <4>1. Len(s) = Len(<< h >>)
        BY <3>3, <3>4
      <4> QED
        BY <3>3, <3>4, <3>5, <4>1, SameSequence
    <3> QED
      BY <2>0, <3>4, <3>6 DEF f, s
  <2>3. OfRequest' /\ cutting'.bytes \in Seq(Byte)
    <3>1. 1 \in 0 .. Len(request.bytes) + 1 /\ FrameOf(request) \in Seq(Byte)
          /\ Len(FrameOf(request)) = Len(request.bytes) + 1
          /\ 1 \in Nat /\ 1 <= Len(FrameOf(request))
      BY <1>1, RequestFrame
    <3>2. OfRequest'
      BY <1>1, <2>1, <2>2, <3>1 DEF OfRequest
    <3> QED
      BY <2>2, <3>1, <3>2, CutShort
  <2>4. sent' + 1 = 1
    BY <1>1
  <2>5. CutInv'
    BY <1>1, <2>1, <2>2, <2>3, <2>4 DEF CutInv
  <2> QED
    BY <2>0, <2>5
<1>4. CASE abort /\ UNCHANGED <<line, cutting, granted>>
  BY <1>1, <1>4, GivenUp, NothingWritten DEF Hosted
<1> QED
  BY <1>3, <1>4 DEF Unless

\* and each byte of its payload the next one.
LEMMA LSendPayload ==
    ASSUME Hosted, DeviceWaits, NEW abort \in Verdict, SendPayload(abort),
           Unless(abort, LinePut(request.bytes[sent + 1]))
    PROVE  CutInv' /\ OnLine' /\ Grows
<1> DEFINE b == request.bytes[sent + 1]
           f == FrameOf(request)
<1>1. /\ request' = request /\ ~streaming' /\ sent' = sent + 1 /\ pc = "payload"
      /\ pc' \in {"none", "payload"} /\ (abort => pc' = "none")
      /\ cutting.open = TRUE /\ cutting.request = request /\ request \in Requests
      /\ cutting.bytes = SubSeq(f, 1, sent + 1)
      /\ DOMAIN cutting = {"open", "bytes", "request"}
  BY DEF Hosted, EInv, Place, TypeOK, SendPayload, Return, CutInv
<1>2. /\ f \in Seq(Byte) /\ Len(f) = Len(request.bytes) + 1 /\ Len(request.bytes) \in Nat
      /\ \A k \in 1 .. Len(request.bytes) : f[k + 1] = request.bytes[k]
      /\ request.bytes \in Seq(Byte)
      /\ sent \in Nat /\ sent + 1 \in 1 .. Len(request.bytes)
  <2>1. /\ f \in Seq(Byte) /\ Len(f) = Len(request.bytes) + 1 /\ Len(request.bytes) \in Nat
        /\ \A k \in 1 .. Len(request.bytes) : f[k + 1] = request.bytes[k]
    BY <1>1, RequestFrame
  <2>2. request.bytes \in Seq(Byte) /\ sent \in Nat /\ sent < Len(request.bytes)
    BY DEF Hosted, EInv, TypeOK, SendPayload
  <2> QED
    BY <2>1, <2>2
<1>3. b \in Byte /\ b = f[sent + 2]
  <2>1. sent + 1 + 1 = sent + 2
    BY <1>2
  <2> QED
    BY <1>2, <2>1, ElementType
<1> HIDE DEF b, f
<1>4. CASE LinePut(b)
  <2>0. OnLine' /\ Grows /\ cutting'.bytes = Append(cutting.bytes, b)
    BY <1>1, <1>3, <1>4, ByteWritten DEF Hosted
  <2>1. /\ DOMAIN cutting' = {"open", "bytes", "request"}
        /\ cutting'.open = TRUE /\ cutting'.request = request
    BY <1>1, <1>4 DEF LinePut
  <2> DEFINE s == SubSeq(f, 1, sent + 1)
             t == SubSeq(f, 1, sent + 2)
             a == Append(s, b)
  <2>2. /\ s \in Seq(Byte) /\ Len(s) = sent + 1 /\ \A k \in 1 .. sent + 1 : s[k] = f[k]
        /\ t \in Seq(Byte) /\ Len(t) = sent + 2 /\ \A k \in 1 .. sent + 2 : t[k] = f[k]
    <3>1. sent + 1 \in Nat /\ sent + 1 <= Len(f) /\ sent + 2 \in Nat /\ sent + 2 <= Len(f)
      BY <1>2
    <3> QED
      BY <1>2, <3>1, CutShort
  <2> HIDE DEF s, t
  <2>3. /\ a \in Seq(Byte) /\ Len(a) = Len(s) + 1 /\ a[Len(s) + 1] = b
        /\ \A k \in 1 .. Len(s) : a[k] = s[k]
    <3> HIDE DEF Byte
    <3> QED BY <1>3, <2>2, AppendProperties
  <2> HIDE DEF a
  <2>4. a = t
    <3>1. Len(a) = Len(t)
      BY <1>2, <2>2, <2>3
    <3>2. ASSUME NEW k \in 1 .. Len(a) PROVE a[k] = t[k]
      <4>1. CASE k = sent + 2
        BY <1>2, <1>3, <2>2, <2>3, <4>1
      <4>2. CASE k # sent + 2
        <5>1. k \in 1 .. sent + 1 /\ k \in 1 .. sent + 2
          BY <1>2, <2>2, <2>3, <4>2
        <5> QED
          BY <2>2, <2>3, <5>1
      <4> QED BY <4>1, <4>2
    <3> QED
      BY <2>2, <2>3, <3>1, <3>2, SameSequence
  <2>5. cutting'.bytes = t
    BY <1>1, <2>0, <2>4 DEF a, s
  <2>6. OfRequest'
    <3>1. sent + 2 \in 0 .. Len(request.bytes) + 1
      BY <1>2
    <3> QED
      BY <1>1, <2>1, <2>5, <3>1 DEF OfRequest, t, f
  <2>7. sent' + 1 = sent + 2
    BY <1>1, <1>2
  <2>8. CutInv'
    BY <1>1, <2>1, <2>2, <2>5, <2>6, <2>7 DEF CutInv, t, f
  <2> QED
    BY <2>0, <2>8
<1>5. CASE abort /\ UNCHANGED <<line, cutting, granted>>
  BY <1>1, <1>5, GivenUp, NothingWritten DEF Hosted
<1> QED
  BY <1>4, <1>5 DEF Unless, b

\* Delimiting a frame leaves its bytes what they are.
LEMMA Delimited ==
    ASSUME CutInv, pc' = "none", ~streaming', LineEnd
    PROVE  CutInv'
<1>1. /\ DOMAIN cutting' = {"open", "bytes", "request"} /\ cutting'.open = FALSE
      /\ cutting'.bytes = cutting.bytes /\ cutting'.request = cutting.request
  BY DEF LineEnd, CutInv
<1> QED
  BY <1>1 DEF CutInv, OfRequest, OfStream

\* Its end delimits the frame, whole.
LEMMA LSendEnd ==
    ASSUME Hosted, DeviceWaits, NEW abort \in Verdict, SendEnd(abort), Unless(abort, LineEnd)
    PROVE  CutInv' /\ OnLine' /\ Grows
<1>1. pc' = "none" /\ ~streaming' /\ cutting.open
  BY DEF Hosted, EInv, Place, SendEnd, Return, CutInv
<1> QED
  BY <1>1, GivenUp, NothingWritten, Delimited, EndWritten DEF Hosted, Unless

\* A stream's frame begins,
LEMMA LStreamStart ==
    ASSUME Hosted, DeviceWaits, NEW i \in Interfaces, NEW abort \in Verdict,
           StreamStart(i, abort), Unless(abort, LineStart(Request(i, DATA, << >>, << >>)))
    PROVE  CutInv' /\ OnLine' /\ Grows
<1> DEFINE r == Request(i, DATA, << >>, << >>)
<1>1. /\ ~streaming' /\ pc' \in {"none", "stream"} /\ (abort => pc' = "none")
  BY DEF Hosted, EInv, Place, TypeOK, StreamStart, Return
<1>2. CASE LineStart(r)
  <2>1. /\ DOMAIN cutting' = {"open", "bytes", "request"}
        /\ cutting'.open = TRUE /\ cutting'.bytes = << >>
        /\ cutting'.request.means = << >>
    BY <1>2 DEF LineStart, Request
  <2>2. << >> \in Seq(Byte)
    OBVIOUS
  <2>3. CutInv'
    BY <1>1, <2>1, <2>2 DEF CutInv, OfStream
  <2> QED
    BY <1>2, <2>3, StartWritten DEF Hosted
<1>3. CASE abort /\ UNCHANGED <<line, cutting, granted>>
  BY <1>1, <1>3, GivenUp, NothingWritten DEF Hosted
<1> QED
  BY <1>2, <1>3 DEF Unless

\* A byte of a stream leaves its frame a stream's.
LEMMA StreamPut ==
    ASSUME Hosted, DeviceWaits, cutting.open, OfStream, pc' = "none", NEW b \in Byte,
           cutting.bytes = << >> => OpcodeOf(b) = DATA, LinePut(b)
    PROVE  CutInv' /\ OnLine' /\ Grows
<1>1. /\ OnLine' /\ Grows /\ cutting'.bytes = Append(cutting.bytes, b)
  BY ByteWritten DEF Hosted
<1>2. /\ DOMAIN cutting' = {"open", "bytes", "request"}
      /\ cutting'.open = TRUE /\ cutting'.request = cutting.request
      /\ cutting.bytes \in Seq(Byte)
  BY DEF LinePut, CutInv, Hosted
<1> DEFINE s == cutting.bytes
           a == Append(s, b)
<1>3. /\ a \in Seq(Byte) /\ a # << >>
      /\ a[1] = IF s = << >> THEN b ELSE s[1]
  <2> HIDE DEF Byte
  <2>1. /\ a \in Seq(Byte) /\ Len(a) = Len(s) + 1 /\ a[Len(s) + 1] = b
        /\ \A k \in 1 .. Len(s) : a[k] = s[k]
    BY <1>2, AppendProperties
  <2>2. Len(s) \in Nat /\ (s = << >> <=> Len(s) = 0)
    BY <1>2, EmptySeq, LenProperties
  <2>3. a # << >>
    <3> HIDE DEF a, s
    <3>1. Len(<< >>) = 0
      OBVIOUS
    <3> QED
      BY <2>1, <2>2, <3>1
  <2>4. a[1] = IF s = << >> THEN b ELSE s[1]
    <3> HIDE DEF a, s
    <3>1. CASE s = << >>
      <4>1. Len(s) + 1 = 1
        BY <2>2, <3>1
      <4> QED
        BY <2>1, <3>1, <4>1
    <3>2. CASE s # << >>
      <4>1. 1 \in 1 .. Len(s)
        BY <2>2, <3>2
      <4> QED
        BY <2>1, <3>2, <4>1
    <3> QED
      BY <3>1, <3>2
  <2> QED
    BY <2>1, <2>3, <2>4
<1> HIDE DEF a, s
<1>4. OfStream'
  BY <1>1, <1>2, <1>3 DEF OfStream, a, s
<1>5. cutting'.bytes \in Seq(Byte) /\ cutting'.bytes # << >>
  BY <1>1, <1>3 DEF a, s
<1>6. CutInv'
  BY <1>2, <1>4, <1>5 DEF CutInv
<1> QED
  BY <1>1, <1>6

\* its header is put,
LEMMA LStreamHeader ==
    ASSUME Hosted, DeviceWaits, NEW abort \in Verdict, StreamHeader(abort),
           Unless(abort, LinePut(HeaderByte(request.interface, DATA)))
    PROVE  CutInv' /\ OnLine' /\ Grows
<1> DEFINE h == HeaderByte(request.interface, DATA)
<1>1. pc' = "none" /\ streaming' = ~abort /\ cutting.open /\ OfStream
  BY DEF StreamHeader, Return, Hosted, CutInv
<1>2. h \in Byte /\ OpcodeOf(h) = DATA
  <2>1. request.interface \in Byte
    BY DEF Hosted, EInv, TypeOK
  <2>2. DATA \in 0 .. 127 /\ DATA % 16 = DATA
    BY DEF DATA
  <2> QED
    BY <2>1, <2>2, HeaderByteType, HeaderSplit
<1> HIDE DEF h
<1>3. CASE LinePut(h)
  BY <1>1, <1>2, <1>3, StreamPut
<1>4. CASE abort /\ UNCHANGED <<line, cutting, granted>>
  BY <1>1, <1>4, GivenUp, NothingWritten DEF Hosted
<1> QED
  BY <1>3, <1>4 DEF Unless, h

\* its bytes follow, where a refused one leaves the stream open,
LEMMA LStreamData ==
    ASSUME Hosted, DeviceWaits, NEW b \in Payload, NEW abort \in Verdict,
           StreamData(b, abort), Unless(abort, LinePut(b))
    PROVE  CutInv' /\ OnLine' /\ Grows
<1>1. /\ pc' = "none" /\ streaming' = streaming /\ b \in Byte
      /\ cutting.open /\ OfStream /\ cutting.bytes # << >>
  BY StreamAssumption DEF StreamData, Return, Hosted, EInv, Place, CutInv
<1>2. CASE LinePut(b)
  BY <1>1, <1>2, StreamPut
<1>3. CASE abort /\ UNCHANGED <<line, cutting, granted>>
  <2>1. CutInv'
    BY <1>1, <1>3 DEF Hosted, CutInv, OfRequest, OfStream
  <2> QED
    BY <1>3, <2>1, NothingWritten DEF Hosted
<1> QED
  BY <1>2, <1>3 DEF Unless

\* and it is closed.
LEMMA LStreamEnd ==
    ASSUME Hosted, DeviceWaits, NEW abort \in Verdict, StreamEnd(abort), Unless(abort, LineEnd)
    PROVE  CutInv' /\ OnLine' /\ Grows
<1>1. pc' = "none" /\ ~streaming' /\ cutting.open
  BY DEF Hosted, EInv, Place, StreamEnd, Return, CutInv
<1> QED
  BY <1>1, GivenUp, NothingWritten, Delimited, EndWritten DEF Hosted, Unless

\* A refused call writes nothing.
LEMMA LRefused ==
    ASSUME Hosted, DeviceWaits, RefusedCalls
    PROVE  CutInv' /\ OnLine' /\ Grows
<1>1. /\ pc = "none" /\ pc' = "none" /\ streaming' = streaming
      /\ UNCHANGED <<line, cutting, granted>>
  BY DEF RefusedCalls, Busy, NotOpen, Refused, Return, history, link
<1>2. CutInv'
  BY <1>1 DEF Hosted, CutInv, OfRequest, OfStream
<1> QED
  BY <1>1, <1>2, NothingWritten DEF Hosted

-----------------------------------------------------------------------------
(* What the device takes off the line *)

\* What may happen to the commands carried out: nothing, or the next of those
\* granted joins them.
Carries ==
    \/ carried' = carried
    \/ /\ Len(carried) < Len(granted)
       /\ carried' = Append(carried, granted[Len(carried) + 1])

Received == DeviceInv /\ OnLine /\ carried \in Seq(Callback)

HostWaits == UNCHANGED <<cutting, granted>>

\* An item taken does to the device what the line's reading foresees.
LEMMA ItemTaken ==
    ASSUME Received, HostWaits, line # << >>, line' = Tail(line),
           d_ended' \in BOOLEAN,
           \A f2, n2, e2 :
              Step(Head(line), granted, d_frame, Len(carried), d_ended, f2, n2, e2) =>
                 /\ f2 = d_frame' /\ n2 = Len(carried') /\ (e2 <=> d_ended')
    PROVE  OnLine'
<1>1. /\ line \in Seq(Item) /\ granted \in Seq(Callback)
      /\ Reading(line, granted, d_frame, Len(carried), d_ended, cutting.open, cutting.bytes)
  BY DEF Received, OnLine, LineInv
<1>2. PICK f2 \in Seq(Byte), n2 \in Nat, e2 \in BOOLEAN :
         /\ Step(Head(line), granted, d_frame, Len(carried), d_ended, f2, n2, e2)
         /\ Reading(Tail(line), granted, f2, n2, e2, cutting.open, cutting.bytes)
  BY <1>1, Taken
<1>3. f2 = d_frame' /\ n2 = Len(carried') /\ e2 = d_ended'
  BY <1>2
<1>4. Tail(line) \in Seq(Item)
  <2> HIDE DEF Item
  <2> QED BY <1>1, HeadTailProperties
<1> QED
  BY <1>1, <1>2, <1>3, <1>4 DEF OnLine, LineInv, HostWaits

\* The step there is, for a byte and for an end: the frame is still open.
LEMMA ItemOnItsWay ==
    ASSUME Received, line # << >>
    PROVE  /\ Head(line) # START => ~d_ended
           /\ Head(line) = END => \/ CommandsOf(d_frame) = << >>
                                  \/ /\ Len(carried) < Len(granted)
                                     /\ CommandsOf(d_frame) = << granted[Len(carried) + 1] >>
<1>1. /\ line \in Seq(Item) /\ granted \in Seq(Callback)
      /\ Reading(line, granted, d_frame, Len(carried), d_ended, cutting.open, cutting.bytes)
  BY DEF Received, OnLine, LineInv
<1>2. PICK f2 \in Seq(Byte), n2 \in Nat, e2 \in BOOLEAN :
         Step(Head(line), granted, d_frame, Len(carried), d_ended, f2, n2, e2)
  BY <1>1, Taken
<1> QED
  BY <1>2, Delimiters DEF Step

\* The start of a frame,
LEMMA LStart ==
    ASSUME Received, HostWaits, line # << >>, Head(line) = START, Device!Start,
           line' = Tail(line), carried' = carried
    PROVE  Received' /\ Carries
<1>1. DP!Start /\ DP!Inv /\ d_installed = CallbackNames
  BY SameRest DEF Received, DeviceInv
<1>2. DP!Inv'
  BY ONLY <1>1, DecoderAssumptions, DP!StartInv
<1>3. d_frame' = << >> /\ d_ended' = FALSE /\ d_muted' = FALSE /\ d_installed' = d_installed
  BY ONLY <1>1, DecoderAssumptions, DP!StartFrame
<1>4. ASSUME NEW f2, NEW n2, NEW e2,
             Step(Head(line), granted, d_frame, Len(carried), d_ended, f2, n2, e2)
      PROVE  f2 = d_frame' /\ n2 = Len(carried') /\ (e2 <=> d_ended')
  BY <1>3, <1>4, Delimiters DEF Step
<1>5. OnLine'
  <2>1. d_ended' \in BOOLEAN
    BY <1>3
  <2> QED
    BY <1>4, <2>1, ItemTaken
<1> QED
  BY <1>1, <1>2, <1>3, <1>5 DEF Received, DeviceInv, Carries

\* the length of a write,
LEMMA LWrite ==
    ASSUME Received, HostWaits, Device!Write(1), line' = line, carried' = carried
    PROVE  Received' /\ Carries
<1>1. DP!Write(1) /\ DP!Inv /\ d_installed = CallbackNames /\ ~d_muted
  BY SameRest DEF Received, DeviceInv
<1>2. DP!Inv'
  BY ONLY <1>1, DecoderAssumptions, DP!WriteInv
<1>3. UNCHANGED <<d_frame, d_ended, d_muted, d_installed>>
  BY <1>1 DEF DP!Write, DP!decoder, DP!history
<1>4. OnLine'
  BY <1>3 DEF Received, OnLine, LineInv, HostWaits
<1> QED
  BY <1>1, <1>2, <1>3, <1>4 DEF Received, DeviceInv, Carries

\* a byte, which is no command yet,
LEMMA LPut ==
    ASSUME Received, HostWaits, line # << >>, Head(line) \in Byte, DevicePut(Head(line)),
           line' = Tail(line), carried' = carried \o CommandsAmong(Device!Made)
    PROVE  Received' /\ Carries
<1> DEFINE b == Head(line)
<1>1. /\ DP!PutByte(b) /\ DP!Inv /\ d_installed = CallbackNames /\ ~d_muted
      /\ b \in DP!Byte
  BY SamePut, SameNames DEF Received, DeviceInv
<1>2. ~d_ended
  BY Delimiters, ItemOnItsWay
<1> HIDE DEF b
<1>3. DP!Inv'
  BY ONLY <1>1, DecoderAssumptions, DP!PutByteInv
<1>4. /\ d_frame' = (IF d_ended THEN <<b>> ELSE Append(d_frame, b))
      /\ d_ended' = FALSE
      /\ d_muted' = (IF d_ended THEN d_state = "ABORT" ELSE d_muted)
      /\ d_installed' = d_installed
  BY ONLY <1>1, DecoderAssumptions, DP!PutFrame
<1>5. DP!CommandsAmong(DP!Made) = << >>
  BY ONLY <1>1, DecoderAssumptions, DP!PutIsCommandless
<1>6. carried' = carried
  <2>1. CommandsAmong(Device!Made) = << >>
    BY <1>5, SameRest, SameFrame
  <2>2. carried \in Seq(Callback)
    BY DEF Received
  <2> HIDE DEF Callback
  <2> QED
    BY <2>1, <2>2, ConcatEmptySeq
<1>7. ASSUME NEW f2, NEW n2, NEW e2,
             Step(Head(line), granted, d_frame, Len(carried), d_ended, f2, n2, e2)
      PROVE  f2 = d_frame' /\ n2 = Len(carried') /\ (e2 <=> d_ended')
  BY <1>2, <1>4, <1>6, <1>7, Delimiters DEF Step, b
<1>8. OnLine'
  <2>1. d_ended' \in BOOLEAN
    BY <1>4
  <2> QED
    BY <1>7, <2>1, ItemTaken
<1> QED
  BY <1>1, <1>2, <1>3, <1>4, <1>6, <1>8 DEF Received, DeviceInv, Carries

\* and the end, which carries out the command the frame is, the next granted.
LEMMA LEnd ==
    ASSUME Received, HostWaits, line # << >>, Head(line) = END, Device!End,
           line' = Tail(line), carried' = carried \o CommandsAmong(Device!Made)
    PROVE  Received' /\ Carries
<1>1. DP!End /\ DP!Inv /\ d_installed = CallbackNames /\ ~d_muted
  BY SameEnd DEF Received, DeviceInv
<1>2. /\ ~d_ended
      /\ \/ CommandsOf(d_frame) = << >>
         \/ /\ Len(carried) < Len(granted)
            /\ CommandsOf(d_frame) = << granted[Len(carried) + 1] >>
  BY Delimiters, ItemOnItsWay
<1>3. DP!Inv'
  BY ONLY <1>1, DecoderAssumptions, DP!EndInv
<1>4. /\ d_frame' = (IF d_ended THEN << >> ELSE d_frame)
      /\ d_ended' = TRUE
      /\ d_muted' = (IF d_ended THEN d_state = "ABORT" ELSE d_muted)
      /\ d_installed' = d_installed
  BY ONLY <1>1, DecoderAssumptions, DP!EndFrame
<1>5. CommandsAmong(Device!Made) = CommandsOf(d_frame)
  <2>1. d_installed = DP!CallbackNames
    BY <1>1, SameNames
  <2>2. DP!CommandsAmong(DP!Made) = DP!CommandsOf(d_frame)
    BY ONLY <1>1, <1>2, <2>1, DecoderAssumptions, DP!EndCarriesOut
  <2> QED
    BY <2>2, SameRest, SameFrame
<1>6. /\ carried \in Seq(Callback) /\ granted \in Seq(Callback)
      /\ Len(carried) \in Nat /\ Len(granted) \in Nat
  <2>1. carried \in Seq(Callback) /\ granted \in Seq(Callback)
    BY DEF Received, OnLine
  <2> HIDE DEF Callback
  <2> QED BY <2>1, LenProperties
<1>7. CASE CommandsOf(d_frame) = << >>
  <2>1. carried' = carried
    <3> HIDE DEF Callback
    <3> QED BY <1>5, <1>6, <1>7, ConcatEmptySeq
  <2>2. ASSUME NEW f2, NEW n2, NEW e2,
               Step(Head(line), granted, d_frame, Len(carried), d_ended, f2, n2, e2)
        PROVE  f2 = d_frame' /\ n2 = Len(carried') /\ (e2 <=> d_ended')
    BY <1>2, <1>4, <1>7, <2>1, <2>2, Delimiters DEF Step
  <2>3. d_ended' \in BOOLEAN
    BY <1>4
  <2>4. OnLine'
    BY <2>2, <2>3, ItemTaken
  <2> QED
    BY <1>1, <1>2, <1>3, <1>4, <1>6, <2>1, <2>4 DEF Received, DeviceInv, Carries
<1>8. CASE /\ Len(carried) < Len(granted)
           /\ CommandsOf(d_frame) = << granted[Len(carried) + 1] >>
  <2> DEFINE c == granted[Len(carried) + 1]
  <2>1. c \in Callback
    <3> HIDE DEF Callback
    <3>1. Len(carried) + 1 \in 1 .. Len(granted)
      BY <1>6, <1>8
    <3> QED BY <1>6, <3>1, ElementOfSeq
  <2>2. /\ carried' = Append(carried, c) /\ carried' \in Seq(Callback)
        /\ Len(carried') = Len(carried) + 1
    <3> HIDE DEF Callback, c
    <3>1. carried' = carried \o << c >>
      BY <1>5, <1>8 DEF c
    <3> QED
      BY <1>6, <2>1, <3>1, AppendIsConcat, AppendProperties
  <2>3. ASSUME NEW f2, NEW n2, NEW e2,
               Step(Head(line), granted, d_frame, Len(carried), d_ended, f2, n2, e2)
        PROVE  f2 = d_frame' /\ n2 = Len(carried') /\ (e2 <=> d_ended')
    <3>1. << c >> # << >>
      OBVIOUS
    <3> QED
      BY <1>2, <1>4, <1>8, <2>2, <2>3, <3>1, Delimiters DEF Step
  <2>4. d_ended' \in BOOLEAN
    BY <1>4
  <2>5. OnLine'
    BY <2>3, <2>4, ItemTaken
  <2> QED
    BY <1>1, <1>2, <1>3, <1>4, <1>8, <2>2, <2>5 DEF Received, DeviceInv, Carries
<1> QED
  BY <1>2, <1>7, <1>8

\* Whatever the device takes, it stays in step with the line.
LEMMA LReceive ==
    ASSUME Received, Receive
    PROVE  Received' /\ Carries
<1>1. HostWaits
  BY DEF Receive, HostWaits
<1> QED
  BY <1>1, LStart, LWrite, LPut, LEnd DEF Receive

-----------------------------------------------------------------------------
(* The link *)

\* A host's call changes the line and what is granted, nothing of the device.
LEMMA HostKeeps ==
    ASSUME LinkInv, EInv, Host
    PROVE  LinkInv' /\ Grows /\ carried' = carried
<1>1. /\ carried' = carried /\ UNCHANGED device /\ DeviceWaits
      /\ owed \in Seq(Callback) /\ calls \in 0 .. MaxCalls /\ Hosted
  BY DEF Host, device, DeviceWaits, LinkInv, Hosted
<1>2. DeviceInv'
  <2>1. DP!Inv /\ UNCHANGED DP!vars
    BY <1>1 DEF LinkInv, DeviceInv, device, DP!vars, DP!decoder, DP!history
  <2>2. DP!Inv'
    BY ONLY <2>1, DecoderAssumptions, DP!StutterInv
  <2> QED
    BY <1>1, <2>2 DEF LinkInv, DeviceInv, device
<1>3. ASSUME Begins \/ Continues PROVE calls' \in 0 .. MaxCalls
  BY <1>1, <1>3, MaxCallsAssumption DEF Begins, Continues
<1>4. ASSUME NEW abort \in Verdict, HostSteps(abort)
      PROVE  CutInv' /\ OnLine' /\ Grows /\ owed' \in Seq(Callback) /\ (Begins \/ Continues)
  <2>1. CASE \E r \in Requests :
                Begins /\ Send(r, abort) /\ Unless(abort, LineStart(r)) /\ owed' = owed
    BY <1>1, <2>1, LSend
  <2>2. CASE /\ Continues
             /\ SendHeader(abort) \/ SendPayload(abort)
             /\ Unless(abort, LinePut(IF pc = "header"
                                      THEN HeaderByte(request.interface, request.opcode)
                                      ELSE request.bytes[sent + 1]))
             /\ owed' = owed
    <3>1. CASE SendHeader(abort)
      <4>1. pc = "header"
        BY <3>1 DEF SendHeader
      <4>2. Unless(abort, LinePut(HeaderByte(request.interface, request.opcode)))
        BY <2>2, <4>1
      <4> QED
        BY <1>1, <2>2, <3>1, <4>2, LSendHeader
    <3>2. CASE SendPayload(abort)
      <4>1. pc # "header"
        BY <3>2 DEF SendPayload
      <4>2. Unless(abort, LinePut(request.bytes[sent + 1]))
        BY <2>2, <4>1
      <4> QED
        BY <1>1, <2>2, <3>2, <4>2, LSendPayload
    <3> QED
      BY <2>2, <3>1, <3>2
  <2>3. CASE /\ Continues
             /\ SendEnd(abort)
             /\ Unless(abort, LineEnd)
             /\ owed' = IF abort THEN owed ELSE owed \o request.means
    <3>1. CutInv' /\ OnLine' /\ Grows
      BY <1>1, <2>3, LSendEnd
    <3>2. request \in Requests
      BY <2>3 DEF LinkInv, CutInv, SendEnd
    <3>3. FrameOf(request) \in Seq(Byte) /\ CommandsOf(FrameOf(request)) = request.means
      BY <3>2, RequestFrame, SoundAssumption DEF Sound
    <3>4. request.means = << >> \/ \E c \in Callback : request.means = << c >>
      BY <3>3, OneCommandInFrame
    <3>5. request.means \in Seq(Callback)
      <4> HIDE DEF Callback
      <4>1. ASSUME NEW c \in Callback PROVE << c >> \in Seq(Callback)
        OBVIOUS
      <4>2. << >> \in Seq(Callback)
        OBVIOUS
      <4> QED
        BY <3>4, <4>1, <4>2
    <3>6. owed' \in Seq(Callback)
      <4> HIDE DEF Callback
      <4>1. owed \o request.means \in Seq(Callback)
        BY <1>1, <3>5, ConcatProperties
      <4> QED BY <1>1, <2>3, <4>1
    <3> QED
      BY <2>3, <3>1, <3>6
  <2> QED
    BY <1>4, <2>1, <2>2, <2>3 DEF HostSteps
<1>5. ASSUME NEW abort \in Verdict, StreamSteps(abort)
      PROVE  CutInv' /\ OnLine' /\ Grows /\ owed' \in Seq(Callback) /\ (Begins \/ Continues)
  BY <1>1, <1>5, LStreamStart, LStreamHeader, LStreamData, LStreamEnd DEF StreamSteps
<1>6. ASSUME RefusedCalls
      PROVE  CutInv' /\ OnLine' /\ Grows /\ owed' \in Seq(Callback) /\ (Begins \/ Continues)
  BY <1>1, <1>6, LRefused DEF RefusedCalls, link, Continues
<1>7. CutInv' /\ OnLine' /\ Grows /\ owed' \in Seq(Callback) /\ (Begins \/ Continues)
  BY <1>4, <1>5, <1>6 DEF Host
<1> QED
  BY <1>1, <1>2, <1>3, <1>7 DEF LinkInv

\* A step of the device carries out one command at most, the next granted.
LEMMA DeviceKeeps ==
    ASSUME LinkInv, Receive
    PROVE  LinkInv' /\ Carries /\ granted' = granted
<1>1. Received
  BY DEF LinkInv, Received
<1>2. Received' /\ Carries
  BY <1>1, LReceive
<1>3. /\ UNCHANGED <<cutting, calls, granted, owed>>
      /\ UNCHANGED <<pc, request, sent, streaming>>
  BY DEF Receive, host, vars, call, history
<1>4. CutInv'
  BY <1>3 DEF LinkInv, CutInv, OfRequest, OfStream
<1> QED
  BY <1>2, <1>3, <1>4 DEF LinkInv, Received

\* A link at rest stays as it is.
LEMMA LinkRests ==
    ASSUME LinkInv, UNCHANGED all
    PROVE  LinkInv'
<1>1. /\ UNCHANGED <<line, cutting, calls, granted, owed, carried>>
      /\ UNCHANGED <<pc, request, sent, streaming>>
      /\ UNCHANGED device
  BY DEF all, host, vars, call, history, link
<1>2. DeviceInv'
  <2>1. DP!Inv /\ UNCHANGED DP!vars
    BY <1>1 DEF LinkInv, DeviceInv, device, DP!vars, DP!decoder, DP!history
  <2>2. DP!Inv'
    BY ONLY <2>1, DecoderAssumptions, DP!StutterInv
  <2> QED
    BY <1>1, <2>2 DEF LinkInv, DeviceInv, device
<1>3. CutInv'
  BY <1>1 DEF LinkInv, CutInv, OfRequest, OfStream
<1>4. OnLine'
  BY <1>1 DEF LinkInv, OnLine, LineInv, device
<1> QED
  BY <1>1, <1>2, <1>3, <1>4 DEF LinkInv

\* The link starts with nothing on the line, granted, owed or carried out.
LEMMA LinkStarts == LinkInit => LinkInv
<1> SUFFICES ASSUME LinkInit PROVE LinkInv
  OBVIOUS
<1>1. Init /\ DP!Init
  BY SameRest DEF LinkInit
<1>2. DP!Inv
  BY ONLY <1>1, DecoderAssumptions, DP!InitInv
<1>3. d_installed = CallbackNames /\ d_frame = << >> /\ d_ended \in BOOLEAN /\ ~d_muted
  BY <1>1 DEF DP!Init
<1>4. /\ line = << >> /\ granted = << >> /\ owed = << >> /\ carried = << >>
      /\ calls = 0 /\ cutting = [open |-> FALSE, bytes |-> << >>, request |-> request]
      /\ pc = "none" /\ streaming = FALSE /\ request \in Requests
  BY <1>1 DEF LinkInit, Init
<1>5. /\ << >> \in Seq(Item) /\ << >> \in Seq(Callback) /\ << >> \in Seq(Byte)
      /\ Len(<< >>) = 0
  OBVIOUS
<1>6. CutInv
  <2>1. /\ DOMAIN cutting = {"open", "bytes", "request"} /\ cutting.open = FALSE
        /\ cutting.bytes = << >> /\ cutting.request = request
    BY <1>4
  <2>2. OfRequest
    <3>1. /\ FrameOf(request) \in Seq(Byte) /\ 0 \in Nat /\ 0 <= Len(FrameOf(request))
          /\ 0 \in 0 .. Len(request.bytes) + 1
      BY <1>4, RequestFrame
    <3>2. SubSeq(FrameOf(request), 1, 0) = << >>
      <4>1. /\ SubSeq(FrameOf(request), 1, 0) \in Seq(Byte)
            /\ Len(SubSeq(FrameOf(request), 1, 0)) = 0
        BY <3>1, CutShort
      <4> HIDE DEF Byte
      <4> QED
        BY <4>1, EmptySeq
    <3> QED
      BY <1>4, <2>1, <3>1, <3>2 DEF OfRequest
  <2> QED
    BY <1>4, <1>5, <2>1, <2>2 DEF CutInv
<1>7. LineInv
  <2> DEFINE B == [k \in 1 .. 1 |-> << >>]
             D == [k \in 1 .. 1 |-> 0]
             C == [k \in 1 .. 1 |-> d_ended]
  <2>1. /\ B \in [1 .. 1 -> Seq(Byte)] /\ D \in [1 .. 1 -> Nat] /\ C \in [1 .. 1 -> BOOLEAN]
        /\ B[1] = << >> /\ D[1] = 0 /\ C[1] = d_ended
    BY <1>3, <1>5
  <2> HIDE DEF B, D, C
  <2>2. Len(<< >>) + 1 = 1 /\ 1 .. Len(<< >>) = {}
    BY <1>5
  <2>3. Reads(<< >>, << >>, B, D, C)
    BY <2>1, <2>2 DEF Reads
  <2>4. Leads(<< >>, << >>, << >>, 0, d_ended, << >>, 0, d_ended)
    BY <2>1, <2>2, <2>3 DEF Leads
  <2>5. Reading(<< >>, << >>, << >>, 0, d_ended, FALSE, << >>)
    BY <1>3, <1>5, <2>4 DEF Reading
  <2> QED
    BY <1>3, <1>4, <1>5, <2>5 DEF LineInv
<1> QED
  BY <1>2, <1>3, <1>4, <1>5, <1>6, <1>7, MaxCallsAssumption DEF LinkInv, DeviceInv, OnLine

\* A link's encoder is an encoder: the line adds nothing to what it does.
LEMMA LinkHasEncoder == LinkSpec => []EInv
<1>1. LinkInit => Init
  BY DEF LinkInit
<1>2. ASSUME [LinkNext]_all PROVE [Next]_vars
  <2>1. CASE Host
    <3>1. ASSUME NEW abort \in Verdict, HostSteps(abort) PROVE Next
      BY <3>1 DEF HostSteps, Next
    <3>2. ASSUME NEW abort \in Verdict, StreamSteps(abort) PROVE Next
      BY <3>2 DEF StreamSteps, Next
    <3>3. ASSUME RefusedCalls PROVE Next
      BY <3>3 DEF RefusedCalls, Next
    <3> QED
      BY <2>1, <3>1, <3>2, <3>3 DEF Host
  <2>2. CASE Receive
    BY <2>2 DEF Receive, host
  <2>3. CASE UNCHANGED all
    BY <2>3 DEF all, host
  <2> QED
    BY <1>2, <2>1, <2>2, <2>3 DEF LinkNext
<1>3. LinkSpec => Spec
  BY <1>1, <1>2, PTL DEF LinkSpec, Spec
<1> QED
  BY <1>3, EncoderInvariance, PTL

\* LinkInv is an invariant of the link.
THEOREM LinkInvariance == LinkSpec => []LinkInv
<1>1. LinkInv /\ EInv /\ [LinkNext]_all => LinkInv'
  BY HostKeeps, DeviceKeeps, LinkRests DEF LinkNext
<1> QED
  BY <1>1, LinkStarts, LinkHasEncoder, PTL DEF LinkSpec

\* Both ends, the line and the histories keep their types.
THEOREM LinkTypeCorrect == LinkSpec => []LinkTypeOK
<1>1. LinkInv /\ EInv => LinkTypeOK
  <2> SUFFICES ASSUME LinkInv, EInv PROVE LinkTypeOK
    OBVIOUS
  <2>1. TypeOK
    BY DEF EInv
  <2>2. Device!TypeOK
    BY SameRest DEF LinkInv, DeviceInv, DP!Inv
  <2>3. /\ line \in Seq(Byte \cup {START, END})
        /\ cutting.open \in BOOLEAN /\ cutting.bytes \in Seq(Byte)
        /\ calls \in 0 .. MaxCalls
    BY DEF LinkInv, OnLine, Item, CutInv
  <2>4. /\ granted \in Seq(Device!Callback) /\ owed \in Seq(Device!Callback)
        /\ carried \in Seq(Device!Callback)
    BY SameNames DEF LinkInv, OnLine
  <2> QED
    BY <2>1, <2>2, <2>3, <2>4 DEF LinkTypeOK
<1> QED
  BY <1>1, LinkInvariance, LinkHasEncoder, PTL

\* The link implements the safety of the channel: whatever is carried out was
\* granted, once, in order, and nothing else is.
THEOREM LinkImplementsChannel ==
    LinkSpec => Channel!Init /\ [][Channel!Next]_(Channel!vars)
<1>1. LinkInit => Channel!Init
  BY DEF LinkInit, Channel!Init
<1>2. LinkInv /\ EInv /\ [LinkNext]_all => [Channel!Next]_(Channel!vars)
  <2>1. ASSUME LinkInv, EInv, Host PROVE [Channel!Next]_(Channel!vars)
    <3>1. Grows /\ carried' = carried
      BY <2>1, HostKeeps
    <3> QED
      BY <3>1 DEF Grows, Commands, Channel!Next, Channel!Accept, Channel!vars
  <2>2. ASSUME LinkInv, Receive PROVE [Channel!Next]_(Channel!vars)
    <3>1. Carries /\ granted' = granted
      BY <2>2, DeviceKeeps
    <3> QED
      BY <3>1 DEF Carries, Channel!Next, Channel!CarryOut, Channel!vars
  <2>3. ASSUME UNCHANGED all PROVE [Channel!Next]_(Channel!vars)
    BY <2>3 DEF all, link, Channel!vars
  <2> QED
    BY <2>1, <2>2, <2>3 DEF LinkNext
<1> QED
  BY <1>1, <1>2, LinkInvariance, LinkHasEncoder, PTL DEF LinkSpec

-----------------------------------------------------------------------------
(* What a caller is told OK for *)

\* Few that are among many are among more, and so is one that is added to both.
LEMMA WithinMore ==
    ASSUME NEW S, NEW few \in Seq(S), NEW many \in Seq(S), NEW c \in S,
           Within(few, many)
    PROVE  /\ Within(few, Append(many, c))
           /\ Within(Append(few, c), Append(many, c))
<1> DEFINE n == Len(few)
           m == Len(many)
           F == Append(few, c)
           M == Append(many, c)
<1>1. PICK at \in [1 .. n -> 1 .. m] :
          /\ \A j, k \in 1 .. n : j < k => at[j] < at[k]
          /\ \A k \in 1 .. n : few[k] = many[at[k]]
  BY DEF Within
<1>2. /\ n \in Nat /\ m \in Nat
      /\ Len(F) = n + 1 /\ F[n + 1] = c /\ \A k \in 1 .. n : F[k] = few[k]
      /\ Len(M) = m + 1 /\ M[m + 1] = c /\ \A k \in 1 .. m : M[k] = many[k]
  OBVIOUS
<1> HIDE DEF n, m, F, M
<1>3. Within(few, M)
  <2>1. at \in [1 .. n -> 1 .. m + 1]
    BY <1>1, <1>2
  <2>2. \A k \in 1 .. n : few[k] = M[at[k]]
    BY <1>1, <1>2
  <2> QED
    BY <1>1, <1>2, <2>1, <2>2 DEF Within, n
<1>4. Within(F, M)
  <2> DEFINE to == [k \in 1 .. n + 1 |-> IF k = n + 1 THEN m + 1 ELSE at[k]]
  <2>1. to \in [1 .. n + 1 -> 1 .. m + 1]
    BY <1>1, <1>2
  <2>2. ASSUME NEW j \in 1 .. n + 1, NEW k \in 1 .. n + 1, j < k PROVE to[j] < to[k]
    BY <1>1, <1>2, <2>2
  <2>3. ASSUME NEW k \in 1 .. n + 1 PROVE F[k] = M[to[k]]
    <3>1. CASE k = n + 1
      BY <1>2, <3>1
    <3>2. CASE k # n + 1
      <4>1. k \in 1 .. n /\ to[k] = at[k] /\ at[k] \in 1 .. m
        BY <1>1, <1>2, <3>2
      <4> QED
        BY <1>1, <1>2, <4>1
    <3> QED
      BY <3>1, <3>2
  <2> HIDE DEF to
  <2> QED
    BY <1>2, <2>1, <2>2, <2>3 DEF Within
<1> QED
  BY <1>3, <1>4 DEF F, M

\* Whatever is granted, those owed that were granted still are.
LEMMA OwedStays ==
    ASSUME OwedIsGranted, owed \in Seq(Callback), granted \in Seq(Callback),
           granted' \in Seq(Callback), owed' = owed, Grows
    PROVE  OwedIsGranted'
<1>1. CASE granted' = granted
  BY <1>1 DEF OwedIsGranted
<1>2. CASE \E c \in Commands : granted' = Append(granted, c)
  <2>1. PICK c \in Commands : granted' = Append(granted, c)
    BY <1>2
  <2>2. c \in Callback
    <3> HIDE DEF Callback
    <3>1. /\ granted'[Len(granted) + 1] = c
          /\ Len(granted') = Len(granted) + 1
      BY <2>1, AppendProperties
    <3>2. Len(granted) \in Nat
      BY LenProperties
    <3> QED
      BY <3>1, <3>2, ElementOfSeq
  <2> HIDE DEF Callback
  <2>3. Within(owed, Append(granted, c))
    BY <2>2, WithinMore DEF OwedIsGranted
  <2> QED
    BY <2>1, <2>3 DEF OwedIsGranted
<1> QED
  BY <1>1, <1>2 DEF Grows

\* The frame of a call that returns OK is whole when it is delimited.
LEMMA WholeAtEnd ==
    ASSUME CutInv, pc = "payload", sent = Len(request.bytes)
    PROVE  Granted = request.means /\ request \in Requests
<1>1. /\ cutting.request = request /\ request \in Requests
      /\ cutting.bytes = SubSeq(FrameOf(request), 1, sent + 1)
  BY DEF CutInv
<1>2. FrameOf(request) \in Seq(Byte) /\ Len(FrameOf(request)) = sent + 1
  BY <1>1, RequestFrame
<1>3. cutting.bytes = FrameOf(request)
  <2> HIDE DEF Byte
  <2> QED
    BY <1>1, <1>2, SubSeqFull
<1> QED
  BY <1>1, <1>3 DEF Granted

\* A call that returns OK is granted and owed alike.
LEMMA OwedAtEnd ==
    ASSUME LinkInv, OwedIsGranted, NEW abort \in Verdict, SendEnd(abort),
           Unless(abort, LineEnd), Grows, granted' \in Seq(Callback),
           owed' = IF abort THEN owed ELSE owed \o request.means
    PROVE  OwedIsGranted'
<1>0. CutInv /\ owed \in Seq(Callback) /\ granted \in Seq(Callback)
  BY DEF LinkInv, OnLine
<1>1. CASE abort
  BY <1>0, <1>1, OwedStays
<1>2. CASE ~abort
  <2>1. /\ granted' = granted \o Granted
        /\ owed' = owed \o request.means
    BY <1>2 DEF Unless, LineEnd
  <2>2. Granted = request.means /\ request \in Requests
    BY <1>0, WholeAtEnd DEF SendEnd
  <2>3. CommandsOf(FrameOf(request)) = request.means /\ FrameOf(request) \in Seq(Byte)
    BY <2>2, SoundAssumption, RequestFrame DEF Sound
  <2>4. CASE request.means = << >>
    <3> HIDE DEF Callback
    <3>1. owed' = owed /\ granted' = granted
      BY <1>0, <2>1, <2>2, <2>4, ConcatEmptySeq
    <3> QED
      BY <3>1 DEF OwedIsGranted
  <2>5. CASE \E c \in Callback : request.means = << c >>
    <3> HIDE DEF Callback
    <3>1. PICK c \in Callback : request.means = << c >>
      BY <2>5
    <3>2. owed' = Append(owed, c) /\ granted' = Append(granted, c)
      BY <1>0, <2>1, <2>2, <3>1, AppendIsConcat
    <3>3. Within(Append(owed, c), Append(granted, c))
      BY <1>0, WithinMore DEF OwedIsGranted
    <3> QED
      BY <3>2, <3>3 DEF OwedIsGranted
  <2> QED
    BY <2>3, <2>4, <2>5, OneCommandInFrame
<1> QED
  BY <1>1, <1>2

\* A caller is told OK for frames that are on the line whole and delimited, in
\* the order it was told: of every request, whatever a callback that aborts has
\* done before.
THEOREM OkIsGranted == LinkSpec => []OwedIsGranted
<1>1. LinkInit => OwedIsGranted
  <2> SUFFICES ASSUME LinkInit PROVE Within(<< >>, << >>)
    BY DEF LinkInit, OwedIsGranted
  <2> DEFINE at == [k \in {} |-> 0]
  <2>1. at \in [{} -> {}]
    OBVIOUS
  <2> HIDE DEF at
  <2>2. ASSUME NEW s, 1 .. Len(s) = {} PROVE Within(s, s)
    BY <2>1, <2>2 DEF Within
  <2>3. 1 .. Len(<< >>) = {}
    OBVIOUS
  <2> QED
    BY <2>2, <2>3
<1>2. LinkInv /\ EInv /\ OwedIsGranted /\ LinkInv' /\ [LinkNext]_all => OwedIsGranted'
  <2> SUFFICES ASSUME LinkInv, EInv, OwedIsGranted, LinkInv', [LinkNext]_all
               PROVE  OwedIsGranted'
    OBVIOUS
  <2>0. /\ owed \in Seq(Callback) /\ granted \in Seq(Callback)
        /\ granted' \in Seq(Callback)
    BY DEF LinkInv, OnLine
  <2>1. CASE Host
    <3>1. Grows
      BY <2>1, HostKeeps
    <3>2. ASSUME NEW abort \in Verdict, HostSteps(abort) PROVE OwedIsGranted'
      <4>1. CASE owed' = owed
        BY <2>0, <3>1, <4>1, OwedStays
      <4>2. CASE /\ SendEnd(abort) /\ Unless(abort, LineEnd)
                 /\ owed' = IF abort THEN owed ELSE owed \o request.means
        BY <2>0, <3>1, <4>2, OwedAtEnd
      <4> QED
        BY <3>2, <4>1, <4>2 DEF HostSteps
    <3>3. ASSUME owed' = owed PROVE OwedIsGranted'
      BY <2>0, <3>1, <3>3, OwedStays
    <3> QED
      BY <2>1, <3>2, <3>3 DEF Host, StreamSteps, RefusedCalls, link
  <2>2. CASE Receive \/ UNCHANGED all
    <3>1. owed' = owed /\ granted' = granted
      BY <2>2 DEF Receive, all, link
    <3> QED
      BY <3>1 DEF OwedIsGranted
  <2> QED
    BY <2>1, <2>2 DEF LinkNext
<1> QED
  BY <1>1, <1>2, LinkInvariance, LinkHasEncoder, PTL DEF LinkSpec

-----------------------------------------------------------------------------
(* The requests of command-encoder.c are sound *)

\* Each asks for the frame of one command, with the payload its opcode has.
LEMMA CommandLayout ==
    ASSUME NEW r \in CommandRequests
    PROVE  /\ r.interface \in Byte
           /\ r.opcode \in 0 .. 15
           /\ r.bytes \in Seq(Byte)
           /\ Len(r.bytes) = OpcodeLength(r.opcode)
           /\ OpcodeLength(r.opcode) \in 0 .. 4
           /\ \E name \in CommandNames : \E args : r.means = Means(name, args)
<1> DEFINE Laid == /\ r.interface \in Byte
                   /\ r.opcode \in 0 .. 15
                   /\ r.bytes \in Seq(Byte)
                   /\ Len(r.bytes) = OpcodeLength(r.opcode)
                   /\ OpcodeLength(r.opcode) \in 0 .. 4
                   /\ \E name \in CommandNames : \E args : r.means = Means(name, args)
<1>1. ASSUME NEW i \in Byte, NEW o \in {FREQUENCY, BANDWIDTH}, NEW w \in Word,
             NEW name \in CommandNames, r = SendWord(i, o, w, name)
      PROVE  Laid
  <2>1. /\ r.interface = i /\ r.opcode = o /\ r.bytes = WordBytes(w)
        /\ r.means = Means(name, <<OnWire(i), w[1], w[2], w[3], w[4]>>)
    BY <1>1 DEF SendWord, Request
  <2>2. WordBytes(w) \in Seq(Byte) /\ Len(WordBytes(w)) = 4
    <3>1. w[1] \in Byte /\ w[2] \in Byte /\ w[3] \in Byte /\ w[4] \in Byte
      BY DEF Word
    <3> QED
      BY <3>1 DEF WordBytes
  <2>3. o \in 0 .. 15 /\ OpcodeLength(o) = 4
    BY Tables
  <2> QED
    BY <2>1, <2>2, <2>3
<1>2. ASSUME NEW i \in Byte, NEW b \in Byte, NEW args, NEW name \in CommandNames,
             NEW o \in {TXPOWER, SF, CR, RADIO_STATE, DETECT, LEAVE, RADIO_LOCK},
             r = Request(i, o, <<b>>, Means(name, args))
      PROVE  Laid
  <2>1. /\ r.interface = i /\ r.opcode = o /\ r.bytes = <<b>>
        /\ r.means = Means(name, args)
    BY <1>2 DEF Request
  <2>2. <<b>> \in Seq(Byte) /\ Len(<<b>>) = 1
    OBVIOUS
  <2>3. o \in 0 .. 15 /\ OpcodeLength(o) = 1
    BY Tables
  <2> QED
    BY <2>1, <2>2, <2>3
<1>3. CASE r = Ready
  <2>1. /\ r.interface = 0 /\ r.opcode = READY /\ r.bytes = << >>
        /\ r.means = Means("ready", << >>)
    BY <1>3 DEF Ready, Request
  <2>2. READY \in 0 .. 15 /\ OpcodeLength(READY) = 0
    BY Tables
  <2>3. << >> \in Seq(Byte) /\ Len(<< >>) = 0 /\ 0 \in Byte /\ "ready" \in CommandNames
    BY DEF Byte, CommandNames
  <2> QED
    BY <2>1, <2>2, <2>3
<1> HIDE DEF Laid
<1>4. ASSUME NEW i \in Byte, NEW hz \in Word,
             r = SetFrequency(i, hz) \/ r = SetBandwidth(i, hz)
      PROVE  Laid
  BY <1>1, <1>4 DEF SetFrequency, SetBandwidth, CommandNames
<1>5. ASSUME NEW i \in Byte, NEW b \in Byte,
             \/ r = SetSpreadingFactor(i, b)
             \/ r = SetCodingRate(i, b)
             \/ r = SetRadioLock(i, b)
      PROVE  Laid
  BY <1>2, <1>5 DEF SetSpreadingFactor, SetCodingRate, SetRadioLock, SendByte, CommandNames
<1>6. ASSUME NEW i \in Byte, NEW dbm \in SignedByte, r = SetTxPower(i, dbm)
      PROVE  Laid
  <2>1. Uint8(dbm) \in Byte
    BY SignIsRead
  <2> QED
    BY <1>2, <1>6, <2>1 DEF SetTxPower, SendByte, CommandNames
<1>7. ASSUME NEW i \in Byte, NEW st \in {RADIO_STATE_OFF, RADIO_STATE_ON, RADIO_STATE_ASK},
             r = SetRadioState(i, st)
      PROVE  Laid
  <2>1. st \in Byte
    BY DEF Byte, RADIO_STATE_OFF, RADIO_STATE_ON, RADIO_STATE_ASK
  <2> QED
    BY <1>2, <1>7, <2>1 DEF SetRadioState, SendByte, CommandNames
<1>8. ASSUME r \in {Detect, Leave} PROVE Laid
  <2>1. DETECT_REQ \in Byte /\ 0 \in Byte
    BY DEF DETECT_REQ, Byte
  <2>2. "detect" \in CommandNames /\ "leave" \in CommandNames
    BY DEF CommandNames
  <2>3. CASE r = Detect
    <3>1. r = Request(0, DETECT, <<DETECT_REQ>>, Means("detect", << >>))
      BY <2>3 DEF Detect
    <3> QED
      BY <1>2, <2>1, <2>2, <3>1
  <2>4. CASE r = Leave
    <3>1. r = Request(0, LEAVE, <<0>>, Means("leave", << >>))
      BY <2>4 DEF Leave
    <3> QED
      BY <1>2, <2>1, <2>2, <3>1
  <2> QED
    BY <1>8, <2>3, <2>4
<1>9. Laid
  BY <1>3, <1>4, <1>5, <1>6, <1>7, <1>8 DEF CommandRequests, Laid
<1> QED
  BY <1>9 DEF Laid

\* What a command is, and that nothing shorter is one: the commands
\* command-encoder.c sends are sound, for every value of every argument.
THEOREM CommandsAreSound ==
    ASSUME NEW r \in CommandRequests
    PROVE  Sound(r)
<1> DEFINE f == FrameOf(r)
           o == r.opcode
<1>1. /\ r.interface \in Byte /\ o \in 0 .. 15 /\ o \in 0 .. 127 /\ r.bytes \in Seq(Byte)
      /\ Len(r.bytes) = OpcodeLength(o) /\ OpcodeLength(o) \in 0 .. 4
  BY CommandLayout
<1>2. /\ f \in Seq(Byte) /\ Len(f) = Len(r.bytes) + 1
      /\ f[1] = HeaderByte(r.interface, o)
  BY ONLY <1>1, FrameOfType
<1>3. OpcodeOf(f[1]) = o
  <2>1. o % 16 = o
    BY <1>1
  <2> HIDE DEF f, o
  <2>2. OpcodeOf(HeaderByte(r.interface, o)) = o % 16
    BY <1>1, HeaderSplit
  <2> QED
    BY <1>2, <2>1, <2>2
<1>4. CommandsOf(f) = r.means
  <2>0. PICK name \in CommandNames : \E args : r.means = Means(name, args)
    BY CommandLayout
  <2>1. PICK args : r.means = Means(name, args)
    BY <2>0
  <2>2. name \in CallbackNames
    BY DEF CallbackNames
  <2>3. r.means = Call(CallbackNames, name, args)
    BY <2>1, <2>2 DEF Means, Call
  <2>4. CommandsAmong(Call(CallbackNames, name, args)) = Call(CallbackNames, name, args)
    BY SingleCommand
  <2>5. FrameCalls(CallbackNames, f, TRUE, 0) = r.means
    BY CommandIsUnderstood
  <2> QED
    BY <2>3, <2>4, <2>5 DEF CommandsOf
<1>5. ASSUME NEW n \in 0 .. Len(r.bytes) PROVE CommandsOf(SubSeq(f, 1, n)) = << >>
  <2> DEFINE s == SubSeq(f, 1, n)
             read == FrameCalls(CallbackNames, s, TRUE, 0)
  <2>1. n \in Nat /\ n <= Len(f) /\ n <= OpcodeLength(o)
    BY <1>1, <1>2
  <2>2. s \in Seq(Byte) /\ Len(s) = n /\ \A k \in 1 .. n : s[k] = f[k]
    BY <1>2, <2>1, CutShort
  <2> HIDE DEF f, o, s
  <2>3. CASE n = 0
    <3>1. s = << >>
      <4> HIDE DEF Byte
      <4> QED BY <2>2, <2>3, EmptySeq
    <3> QED
      BY <2>2, <3>1, NoCommandInFrame DEF s
  <2>4. CASE n # 0
    <3>1. s # << >> /\ s[1] = f[1] /\ Len(s) - 1 <= 4 /\ Len(s) - 1 # OpcodeLength(o)
          /\ OpcodeLength(o) \notin {-1, -2}
      <4>1. Len(<< >>) = 0
        OBVIOUS
      <4>2. s # << >> /\ 1 \in 1 .. n
        BY <2>1, <2>2, <2>4, <4>1
      <4> QED
        BY <1>1, <2>1, <2>2, <4>2 DEF o
    <3>2. read = FixedCalls(CallbackNames, s, TRUE)
      BY <1>3, <3>1 DEF FrameCalls
    <3>3. FixedCalls(CallbackNames, s, TRUE)
            = Call(CallbackNames, "error",
                   <<InterfaceOf(s[1]), o, Len(s) - 1, INVALID_LENGTH>>)
      <4>1. Len(s) - 1 \in Int /\ ~ (Len(s) - 1 > 4)
        BY <2>1, <2>2, <3>1
      <4> QED
        BY <1>3, <3>1, <4>1 DEF FixedCalls
    <3>4. "error" \notin CommandNames
      BY DEF CommandNames
    <3> QED
      BY <3>2, <3>3, <3>4, SingleCommand DEF CommandsOf, s
  <2> QED
    BY <2>3, <2>4
<1> QED
  BY <1>4, <1>5 DEF Sound

=============================================================================
