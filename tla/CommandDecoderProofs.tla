------------------------ MODULE CommandDecoderProofs ------------------------
(***************************************************************************)
(* Proofs about CommandDecoder for every set of header and payload bytes,  *)
(* every choice of callbacks and every bound.                              *)
(*                                                                         *)
(* LogIsMeaning is not inductive: it says nothing of the variables the     *)
(* next callback is computed from.  Inv adds, for each state of the        *)
(* decoder, what its variables say about the bytes put so far.             *)
(***************************************************************************)
EXTENDS CommandDecoder, SequenceTheorems, TLAPS

\* A frame whose header is in, and what the decoder remembers of it.
Remembers ==
    /\ ~ended
    /\ ~muted
    /\ cut = 0
    /\ frame # << >>
    /\ interface = InterfaceOf(frame[1])
    /\ opcode = OpcodeOf(frame[1])
    /\ payload_index = Len(frame) - 1

WaitInv == (state = "WAIT_COMMAND" /\ ~ended) =>
    (frame = << >> /\ ~muted /\ log = << >>)

ReadInv == state = "READ_FIXED" =>
    /\ Remembers
    /\ opcode_length = OpcodeLength(opcode)
    /\ \A k \in 0 .. payload_index - 1 : smallbuf[k] = frame[k + 2]

StreamInv == state = "STREAM_DATA" =>
    /\ Remembers
    /\ OpcodeLength(opcode) = -1
    /\ byte_index = payload_index

\* Why the calls of an abandoned frame no longer depend on what follows.
Decided(f, c) ==
    /\ f # << >>
    /\ \/ OpcodeLength(OpcodeOf(f[1])) = -2
       \/ /\ OpcodeLength(OpcodeOf(f[1])) \notin {-1, -2}
          /\ Len(f) > 5
       \/ /\ OpcodeLength(OpcodeOf(f[1])) = -1
          /\ c \in 1 .. Len(f)

AbortInv == state = "ABORT" =>
    /\ (~ended /\ ~muted) => Decided(frame, cut)
    /\ ended => /\ ~muted
                /\ frame # << >>
                /\ OpcodeLength(OpcodeOf(frame[1])) = -1
                /\ cut = Len(frame) + 1

Inv ==
    /\ TypeOK
    /\ LogIsMeaning
    /\ WaitInv
    /\ ReadInv
    /\ StreamInv
    /\ AbortInv

-----------------------------------------------------------------------------
(* Lemmas about the frame format *)

\* A byte is an integer.
LEMMA ByteInt == \A x \in Byte : x \in Int
  BY DEF Byte

\* Concatenation of calls is associative.
LEMMA Regroup ==
    ASSUME NEW s \in Seq(Callback), NEW t \in Seq(Callback), NEW u \in Seq(Callback)
    PROVE  (s \o t) \o u = s \o (t \o u)
<1> HIDE DEF Callback
<1> QED
  BY ConcatAssociative

\* The two halves of a header byte are nibbles.
LEMMA HeaderNibbles ==
    ASSUME NEW b \in Byte
    PROVE  InterfaceOf(b) \in 0 .. 15 /\ OpcodeOf(b) \in 0 .. 15
  BY DEF Byte, InterfaceOf, OpcodeOf

\* The payload lengths rnode_proto_opcode_length can return; only DATA streams.
LEMMA LengthRange ==
    ASSUME NEW o \in 0 .. 15
    PROVE  /\ OpcodeLength(o) \in {-2, -1, 0, 1, 4}
           /\ OpcodeLength(o) = -1 <=> o = DATA
  BY DEF OpcodeLength, DATA, FREQUENCY, BANDWIDTH, TXPOWER, SF, CR, RADIO_STATE,
         RADIO_LOCK, DETECT, LEAVE, READY

\* Calling a callback that may be NULL extends the log by callbacks.
LEMMA CallType ==
    ASSUME NEW inst \in SUBSET CallbackNames, NEW name \in CallbackNames,
           NEW args \in Seq(Int)
    PROVE  Call(inst, name, args) \in Seq(Callback)
<1> DEFINE c == [cb |-> name, args |-> args]
<1>1. c \in Callback
  BY DEF Callback
<1> HIDE DEF c
<1>2. <<c>> \in Seq(Callback)
  BY <1>1
<1>3. << >> \in Seq(Callback)
  OBVIOUS
<1> QED
  BY <1>2, <1>3 DEF Call, c

\* The shifting loop of fixed_length_command computes the big-endian value of
\* the payload, whatever the scratch buffer holds beyond it.
LEMMA LoopIsPayload ==
    ASSUME NEW buf \in [0 .. 3 -> Byte], NEW f \in Seq(Byte),
           Len(f) - 1 \in {0, 1, 4},
           \A k \in 0 .. Len(f) - 2 : buf[k] = f[k + 2]
    PROVE  /\ BigEndian(buf, Len(f) - 1) = PayloadWord(f)
           /\ PayloadWord(f) \in Word
<1>1. CASE Len(f) = 1
  BY <1>1 DEF BigEndian, PayloadWord, ShiftIn, WordOfByte, Word, Byte
<1>2. CASE Len(f) = 2
  BY <1>2 DEF BigEndian, PayloadWord, ShiftIn, WordOfByte, Word, Byte
<1>3. CASE Len(f) = 5
  BY <1>3 DEF BigEndian, PayloadWord, ShiftIn, WordOfByte, Word, Byte
<1> QED
  BY <1>1, <1>2, <1>3

\* The calls of a stream are callbacks the program knows.
LEMMA StreamType ==
    ASSUME NEW inst \in SUBSET CallbackNames, NEW f \in Seq(Byte), f # << >>,
           NEW m \in Nat, m < Len(f)
    PROVE  /\ Call(inst, "tx_start", <<InterfaceOf(f[1])>>) \in Seq(Callback)
           /\ StreamBytes(inst, f, m) \in Seq(Callback)
           /\ StreamHead(inst, f, m) \in Seq(Callback)
<1> DEFINE i == InterfaceOf(f[1])
<1>1. i \in Int
  BY HeaderNibbles
<1>2. Call(inst, "tx_start", <<i>>) \in Seq(Callback)
  BY <1>1, CallType, <<i>> \in Seq(Int) DEF CallbackNames
<1>3. \A k \in 1 .. m : <<i, f[k + 1], k - 1>> \in Seq(Int)
  <2> SUFFICES ASSUME NEW k \in 1 .. m PROVE <<i, f[k + 1], k - 1>> \in Seq(Int)
    OBVIOUS
  <2>1. k + 1 \in 1 .. Len(f) /\ k - 1 \in Int
    OBVIOUS
  <2>2. f[k + 1] \in Byte
    BY <2>1
  <2>3. f[k + 1] \in Int
    BY <2>2, ByteInt
  <2> QED
    BY <1>1, <2>1, <2>3
<1>4. \A k \in 1 .. m : [cb |-> "tx_data", args |-> <<i, f[k + 1], k - 1>>] \in Callback
  BY <1>3 DEF Callback, CallbackNames
<1>5. StreamBytes(inst, f, m) \in Seq(Callback)
  <2> DEFINE c(k) == [cb |-> "tx_data", args |-> <<i, f[k + 1], k - 1>>]
  <2>1. \A k \in 1 .. m : c(k) \in Callback
    BY <1>4
  <2> HIDE DEF c
  <2>2. [k \in 1 .. m |-> c(k)] \in Seq(Callback)
    BY <2>1
  <2> QED
    BY <2>2 DEF StreamBytes, c
<1> QED
  BY <1>2, <1>5 DEF StreamHead

\* The callbacks of a stream so far do not change when another byte arrives,
LEMMA StreamPrefix ==
    ASSUME NEW inst \in SUBSET CallbackNames, NEW f \in Seq(Byte), f # << >>,
           NEW b \in Byte, NEW m \in Nat, m < Len(f)
    PROVE  StreamHead(inst, Append(f, b), m) = StreamHead(inst, f, m)
<1>1. Append(f, b)[1] = f[1]
  OBVIOUS
<1>2. \A k \in 1 .. m : Append(f, b)[k + 1] = f[k + 1]
  OBVIOUS
<1>3. StreamBytes(inst, Append(f, b), m) = StreamBytes(inst, f, m)
  BY <1>1, <1>2 DEF StreamBytes
<1> QED
  BY <1>1, <1>3 DEF StreamHead

\* and that byte adds one tx_data with the next index.
LEMMA StreamGrows ==
    ASSUME NEW inst \in SUBSET CallbackNames, NEW f \in Seq(Byte), f # << >>,
           NEW b \in Byte
    PROVE  StreamHead(inst, Append(f, b), Len(f)) =
             StreamHead(inst, f, Len(f) - 1)
               \o Call(inst, "tx_data", <<InterfaceOf(f[1]), b, Len(f) - 1>>)
<1> DEFINE g == Append(f, b)
           i == InterfaceOf(f[1])
           c(k) == [cb |-> "tx_data", args |-> <<i, g[k + 1], k - 1>>]
           n == Len(f) - 1
<1>1. n \in Nat /\ g \in Seq(Byte) /\ g[1] = f[1] /\ g[n + 2] = b
  OBVIOUS
<1>2. \A k \in 1 .. n : g[k + 1] = f[k + 1]
  OBVIOUS
<1>3. StreamHead(inst, g, n + 1)
        = Call(inst, "tx_start", <<i>>) \o StreamBytes(inst, g, n + 1)
  BY <1>1 DEF StreamHead
<1>4. StreamBytes(inst, g, n + 1)
        = StreamBytes(inst, f, n) \o Call(inst, "tx_data", <<i, b, n>>)
  <2>1. CASE "tx_data" \in inst
    <3>1. StreamBytes(inst, f, n) = [k \in 1 .. n |-> c(k)]
      BY <1>1, <1>2, <2>1 DEF StreamBytes
    <3>2. StreamBytes(inst, g, n + 1) = [k \in 1 .. n + 1 |-> c(k)]
      BY <1>1, <2>1 DEF StreamBytes
    <3>3. c(n + 1) = [cb |-> "tx_data", args |-> <<i, b, n>>]
      <4>1. g[(n + 1) + 1] = b /\ (n + 1) - 1 = n
        BY <1>1
      <4> QED
        BY <4>1
    <3>4. Call(inst, "tx_data", <<i, b, n>>) = << c(n + 1) >>
      BY <2>1, <3>3 DEF Call
    <3> HIDE DEF c, n, g
    <3>5. [k \in 1 .. n + 1 |-> c(k)] = [k \in 1 .. n |-> c(k)] \o << c(n + 1) >>
      BY <1>1
    <3> QED
      BY <3>1, <3>2, <3>4, <3>5
  <2>2. CASE "tx_data" \notin inst
    BY <2>2 DEF StreamBytes, Call
  <2> QED
    BY <2>1, <2>2
<1>5. Call(inst, "tx_data", <<i, b, n>>) \in Seq(Callback)
  <2>1. i \in Int
    BY HeaderNibbles
  <2>2. <<i, b, n>> \in Seq(Int)
    BY <1>1, <2>1 DEF Byte
  <2> QED
    BY <2>2, CallType DEF CallbackNames
<1>6. /\ Call(inst, "tx_start", <<i>>) \in Seq(Callback)
      /\ StreamBytes(inst, f, n) \in Seq(Callback)
  BY <1>1, StreamType, SMTT(30)
<1>7. Len(f) = n + 1
  BY <1>1
<1>8. (Call(inst, "tx_start", <<i>>) \o StreamBytes(inst, f, n))
         \o Call(inst, "tx_data", <<i, b, n>>)
      = Call(inst, "tx_start", <<i>>)
         \o (StreamBytes(inst, f, n) \o Call(inst, "tx_data", <<i, b, n>>))
  <2> HIDE DEF n, g, i
  <2> QED
    BY <1>5, <1>6, Regroup
<1>9. StreamHead(inst, f, n)
        = Call(inst, "tx_start", <<i>>) \o StreamBytes(inst, f, n)
  BY DEF StreamHead
<1> QED
  BY <1>3, <1>4, <1>7, <1>8, <1>9

-----------------------------------------------------------------------------
(* Lemmas about what a frame means *)

\* Once a frame is decided, neither another byte nor its end adds a call.
LEMMA DecidedStable ==
    ASSUME NEW inst \in SUBSET CallbackNames, NEW f \in Seq(Byte), NEW c \in Nat,
           Decided(f, c)
    PROVE  /\ FrameCalls(inst, f, TRUE, c) = FrameCalls(inst, f, FALSE, c)
           /\ \A b \in Byte :
                 /\ FrameCalls(inst, Append(f, b), FALSE, c) = FrameCalls(inst, f, FALSE, c)
                 /\ Decided(Append(f, b), c)
<1>1. f # << >> /\ Len(f) \in Nat /\ f[1] \in Byte
  BY DEF Decided
<1>2. FrameCalls(inst, f, TRUE, c) = FrameCalls(inst, f, FALSE, c)
  BY <1>1 DEF FrameCalls, FixedCalls, StreamCalls, Decided
<1>3. ASSUME NEW b \in Byte
      PROVE  /\ FrameCalls(inst, Append(f, b), FALSE, c) = FrameCalls(inst, f, FALSE, c)
             /\ Decided(Append(f, b), c)
  <2>1. /\ Append(f, b) # << >>
        /\ Append(f, b)[1] = f[1]
        /\ Len(Append(f, b)) = Len(f) + 1
    BY <1>1
  <2>2. Decided(Append(f, b), c)
    BY <1>1, <2>1 DEF Decided
  <2>3. CASE c \in 1 .. Len(f)
    <3>1. StreamHead(inst, Append(f, b), c - 1) = StreamHead(inst, f, c - 1)
      BY <1>1, <2>3, StreamPrefix
    <3> QED
      BY <1>1, <2>1, <2>3, <3>1 DEF FrameCalls, FixedCalls, StreamCalls, Decided
  <2>4. CASE c \notin 1 .. Len(f)
    BY <1>1, <2>1, <2>4, SMTT(30) DEF FrameCalls, FixedCalls, StreamCalls, Decided
  <2> QED
    BY <2>2, <2>3, <2>4
<1> QED
  BY <1>2, <1>3

\* While a fixed-length frame is open and fits the buffer, nothing is called.
LEMMA FixedOpen ==
    ASSUME NEW inst, NEW f, NEW e \in BOOLEAN, NEW c,
           f # << >>, Len(f) \in Nat, Len(f) <= 5, ~e,
           OpcodeLength(OpcodeOf(f[1])) \notin {-1, -2}
    PROVE  FrameCalls(inst, f, e, c) = << >>
<1>1. FrameCalls(inst, f, e, c) = FixedCalls(inst, f, e)
  BY DEF FrameCalls
<1>2. FixedCalls(inst, f, e) = << >>
  BY DEF FixedCalls
<1> QED
  BY <1>1, <1>2

\* The error callback's arguments are integers.
LEMMA ErrorType ==
    ASSUME NEW inst \in SUBSET CallbackNames, NEW i \in Int, NEW o \in Int,
           NEW index \in Int, NEW st \in Int
    PROVE  Call(inst, "error", <<i, o, index, st>>) \in Seq(Callback)
<1>1. <<i, o, index, st>> \in Seq(Int)
  OBVIOUS
<1> QED
  BY <1>1, CallType DEF CallbackNames

-----------------------------------------------------------------------------
(* The invariant *)

\* A freshly initialised decoder satisfies the invariant.
LEMMA InitInv == Init => Inv
<1> SUFFICES ASSUME Init PROVE Inv
  OBVIOUS
<1>1. TypeOK
  <2>1. interface \in 0 .. 15 /\ opcode \in 0 .. 15
    BY HeaderNibbles, HeadersAssumption DEF Init
  <2>2. smallbuf \in [0 .. 3 -> Byte] /\ installed \in SUBSET CallbackNames
    BY PayloadAssumption, CallbackSetsAssumption DEF Init
  <2>3. frame \in Seq(Byte) /\ log \in Seq(Callback)
    <3> HIDE DEF Callback, Byte
    <3> QED BY EmptySeq DEF Init
  <2>4. ended \in BOOLEAN /\ muted \in BOOLEAN /\ refused \in BOOLEAN
    BY DEF Init
  <2> QED
    BY <2>1, <2>2, <2>3, <2>4 DEF Init, TypeOK, States, Status, OK, INVALID_ARGUMENT
<1>2. LogIsMeaning
  BY DEF Init, LogIsMeaning, FrameCalls
<1> QED
  BY <1>1, <1>2 DEF Inv, Init, WaitInv, ReadInv, StreamInv, AbortInv

\* Types of what every put sets, whatever its branch.
LEMMA ReturnsType ==
    ASSUME TypeOK, NEW b \in Byte, NEW calls \in Seq(Callback), NEW st \in Status,
           Returns(b, calls, st)
    PROVE  /\ frame' \in Seq(Byte) /\ log' \in Seq(Callback)
           /\ ended' \in BOOLEAN /\ muted' \in BOOLEAN
           /\ status' \in Status /\ todo' \in Nat
           /\ installed' \in SUBSET CallbackNames
<1>1. frame' \in Seq(Byte)
  <2>1. <<b>> \in Seq(Byte) /\ Append(frame, b) \in Seq(Byte)
    BY DEF TypeOK
  <2> QED
    BY <2>1 DEF Returns
<1>2. log' \in Seq(Callback)
  <2>1. << >> \o calls \in Seq(Callback) /\ log \o calls \in Seq(Callback)
    <3> HIDE DEF Callback
    <3> QED BY EmptySeq, ConcatProperties DEF TypeOK
  <2> QED
    BY <2>1 DEF Returns
<1>3. ended' \in BOOLEAN
  BY DEF Returns
<1>4. muted' \in BOOLEAN
  <2>1. CASE ended
    BY <2>1 DEF Returns
  <2>2. CASE ~ended
    BY <2>2 DEF Returns, TypeOK
  <2> QED
    BY <2>1, <2>2
<1>5. status' \in Status /\ todo' \in Nat /\ installed' \in SUBSET CallbackNames
  BY DEF TypeOK, Returns, Status, OK
<1> QED
  BY <1>1, <1>2, <1>3, <1>4, <1>5

\* What a put of the first byte of a frame has in common, whatever its branch.
LEMMA HeaderStep ==
    ASSUME Inv, NEW b \in Byte, NEW calls \in Seq(Callback), NEW st \in Status,
           Header(b), Returns(b, calls, st)
    PROVE  /\ frame' = <<b>> /\ log' = calls /\ ~ended' /\ ~muted'
           /\ cut' = 0 /\ payload_index' = 0
           /\ interface' = InterfaceOf(frame'[1]) /\ opcode' = OpcodeOf(frame'[1])
           /\ interface' \in 0 .. 15 /\ opcode' \in 0 .. 15
           /\ smallbuf' = smallbuf /\ installed' = installed
           /\ status' \in Status /\ todo' \in Nat
<1>0. ended \/ (frame = << >> /\ ~muted /\ log = << >>)
  BY DEF Inv, WaitInv, Header
<1>1. frame' = <<b>>
  <2>1. Append(<< >>, b) = <<b>>
    OBVIOUS
  <2> QED
    BY <1>0, <2>1 DEF Returns
<1>m. ~muted'
  BY <1>0 DEF Returns, Header
<1>2. log' = calls
  <2>1. << >> \o calls = calls
    BY ConcatEmptySeq
  <2> QED
    BY <1>0, <2>1 DEF Returns
<1>3. status' \in Status /\ todo' \in Nat
  BY ReturnsType DEF Inv
<1>4. ~ended' /\ installed' = installed
  BY DEF Returns
<1>5. /\ cut' = 0 /\ payload_index' = 0 /\ smallbuf' = smallbuf
      /\ interface' = InterfaceOf(b) /\ opcode' = OpcodeOf(b)
  BY DEF Header
<1>6. frame'[1] = b
  BY <1>1
<1> QED
  BY <1>1, <1>m, <1>2, <1>3, <1>4, <1>5, <1>6, HeaderNibbles

\* put of a header no command has: the frame is decided at once.
LEMMA PutUnknownInv ==
    ASSUME Inv, NEW b \in Byte, PutUnknown(b)
    PROVE  Inv'
<1> DEFINE calls == Call(installed, "error",
                         <<InterfaceOf(b), OpcodeOf(b), 0, UNKNOWN_OPCODE>>)
<1>1. calls \in Seq(Callback)
  <2>1. InterfaceOf(b) \in Int /\ OpcodeOf(b) \in Int /\ 0 \in Int /\ UNKNOWN_OPCODE \in Int
    BY HeaderNibbles DEF UNKNOWN_OPCODE
  <2>2. installed \in SUBSET CallbackNames
    BY DEF Inv, TypeOK
  <2> QED
    BY <2>1, <2>2, ErrorType
<1>2. Header(b) /\ Returns(b, calls, UNKNOWN_OPCODE) /\ UNKNOWN_OPCODE \in Status
  BY DEF PutUnknown, UNKNOWN_OPCODE, Status, OK, INVALID_ARGUMENT
<1>3. /\ frame' = <<b>> /\ log' = calls /\ ~ended' /\ ~muted'
      /\ cut' = 0 /\ payload_index' = 0
      /\ interface' \in 0 .. 15 /\ opcode' \in 0 .. 15
      /\ smallbuf' = smallbuf /\ installed' = installed
      /\ status' \in Status /\ todo' \in Nat
  <2> HIDE DEF calls
  <2> QED BY <1>1, <1>2, HeaderStep
<1>4. frame' # << >> /\ frame'[1] = b
  BY <1>3
<1>5. TypeOK'
  <2>1. /\ state' \in States /\ state' # "READ_FIXED"
        /\ opcode_length' \in 0 .. 4 /\ byte_index' \in Nat
        /\ payload_index' \in Nat /\ cut' \in Nat
        /\ smallbuf' \in [0 .. 3 -> Byte]
    BY <1>3 DEF Inv, TypeOK, PutUnknown, States
  <2>2. refused' \in BOOLEAN
    BY DEF PutUnknown
  <2> HIDE DEF calls
  <2> QED
    BY <1>1, <1>2, <1>3, <2>1, <2>2, ReturnsType DEF Inv, TypeOK
<1>6. LogIsMeaning'
  BY <1>3, <1>4 DEF LogIsMeaning, FrameCalls, PutUnknown
<1>7. AbortInv'
  BY <1>3, <1>4 DEF AbortInv, Decided, PutUnknown
<1> QED
  BY <1>5, <1>6, <1>7 DEF Inv, WaitInv, ReadInv, StreamInv, PutUnknown

\* put of a DATA header opens a stream whose index starts at 0.
LEMMA PutStreamInv ==
    ASSUME Inv, NEW b \in Byte, NEW verdict \in Verdict, PutStream(b, verdict)
    PROVE  Inv'
<1> DEFINE calls == Call(installed, "tx_start", <<InterfaceOf(b)>>)
<1>1. calls \in Seq(Callback)
  <2>1. InterfaceOf(b) \in Int
    BY HeaderNibbles
  <2>2. <<InterfaceOf(b)>> \in Seq(Int) /\ installed \in SUBSET CallbackNames
    BY <2>1 DEF Inv, TypeOK
  <2> QED
    BY <2>2, CallType DEF CallbackNames
<1>2. Header(b) /\ Returns(b, calls, OK) /\ OK \in Status
  BY DEF PutStream, Status, OK, INVALID_ARGUMENT
<1>3. /\ frame' = <<b>> /\ log' = calls /\ ~ended' /\ ~muted'
      /\ cut' = 0 /\ payload_index' = 0
      /\ interface' = InterfaceOf(frame'[1]) /\ opcode' = OpcodeOf(frame'[1])
      /\ interface' \in 0 .. 15 /\ opcode' \in 0 .. 15
      /\ smallbuf' = smallbuf /\ installed' = installed
      /\ status' \in Status /\ todo' \in Nat
  <2> HIDE DEF calls
  <2> QED BY <1>1, <1>2, HeaderStep
<1>4. frame' # << >> /\ frame'[1] = b /\ Len(frame') = 1
  BY <1>3
<1>5. TypeOK'
  <2>1. /\ state' \in States /\ state' # "READ_FIXED"
        /\ opcode_length' \in 0 .. 4 /\ byte_index' \in Nat
        /\ payload_index' \in Nat /\ cut' \in Nat
        /\ smallbuf' \in [0 .. 3 -> Byte]
    BY <1>3 DEF Inv, TypeOK, PutStream, States
  <2>2. refused' \in BOOLEAN
    BY DEF PutStream, Verdict
  <2> HIDE DEF calls
  <2> QED
    BY <1>1, <1>2, <1>3, <2>1, <2>2, ReturnsType DEF Inv, TypeOK
<1>6. LogIsMeaning'
  <2>1. StreamBytes(installed, frame', 0) = << >>
    BY DEF StreamBytes
  <2>2. StreamHead(installed, frame', 0) = calls
    <3> HIDE DEF Callback
    <3> QED BY <1>1, <1>4, <2>1, ConcatEmptySeq DEF StreamHead
  <2> QED
    BY <1>3, <1>4, <2>2 DEF LogIsMeaning, FrameCalls, StreamCalls, PutStream
<1>7. StreamInv'
  BY <1>3, <1>4 DEF StreamInv, Remembers, PutStream
<1> QED
  BY <1>5, <1>6, <1>7 DEF Inv, WaitInv, ReadInv, AbortInv, PutStream

\* put of any other header calls nothing yet.
LEMMA PutFixedInv ==
    ASSUME Inv, NEW b \in Byte, PutFixed(b)
    PROVE  Inv'
<1>1. << >> \in Seq(Callback)
  OBVIOUS
<1>2. Header(b) /\ Returns(b, << >>, OK) /\ OK \in Status
  BY DEF PutFixed, Status, OK, INVALID_ARGUMENT
<1>3. /\ frame' = <<b>> /\ log' = << >> /\ ~ended' /\ ~muted'
      /\ cut' = 0 /\ payload_index' = 0
      /\ interface' = InterfaceOf(frame'[1]) /\ opcode' = OpcodeOf(frame'[1])
      /\ interface' \in 0 .. 15 /\ opcode' \in 0 .. 15
      /\ smallbuf' = smallbuf /\ installed' = installed
      /\ status' \in Status /\ todo' \in Nat
  BY <1>1, <1>2, HeaderStep
<1>4. frame' # << >> /\ frame'[1] = b /\ Len(frame') = 1
  BY <1>3
<1>5. TypeOK'
  <2>1. OpcodeLength(OpcodeOf(b)) \in 0 .. 4
    BY HeaderNibbles, LengthRange DEF PutFixed
  <2>2. /\ state' \in States /\ payload_index' \in 0 .. 4
        /\ opcode_length' \in 0 .. 4 /\ byte_index' \in Nat
        /\ payload_index' \in Nat /\ cut' \in Nat
        /\ smallbuf' \in [0 .. 3 -> Byte]
    BY <1>3, <2>1 DEF Inv, TypeOK, PutFixed, States
  <2>3. refused' \in BOOLEAN
    BY DEF PutFixed
  <2> QED
    BY <1>1, <1>2, <1>3, <2>2, <2>3, ReturnsType DEF Inv, TypeOK
<1>6. LogIsMeaning'
  BY <1>3, <1>4 DEF LogIsMeaning, FrameCalls, FixedCalls, PutFixed
<1>7. ReadInv'
  BY <1>3, <1>4 DEF ReadInv, Remembers, PutFixed
<1> QED
  BY <1>5, <1>6, <1>7 DEF Inv, WaitInv, StreamInv, AbortInv, PutFixed

\* What a put of a later byte of a frame has in common, whatever its branch.
LEMMA BodyStep ==
    ASSUME Inv, state \in {"READ_FIXED", "STREAM_DATA"},
           NEW b \in Byte, NEW calls, NEW st, Returns(b, calls, st)
    PROVE  /\ ~ended /\ ~muted /\ cut = 0 /\ ~ended' /\ ~muted' /\ installed' = installed
           /\ frame # << >> /\ frame \in Seq(Byte) /\ Len(frame) \in Nat
           /\ frame' = Append(frame, b) /\ frame' # << >> /\ frame'[1] = frame[1]
           /\ Len(frame') = Len(frame) + 1 /\ frame'[Len(frame) + 1] = b
           /\ \A k \in 1 .. Len(frame) : frame'[k] = frame[k]
           /\ log' = log \o calls
           /\ log = FrameCalls(installed, frame, ended, 0)
<1>1. Remembers
  BY DEF Inv, ReadInv, StreamInv
<1>2. /\ frame \in Seq(Byte) /\ frame # << >> /\ ~ended /\ ~muted /\ cut = 0
      /\ Len(frame) \in Nat
  BY <1>1 DEF Remembers, Inv, TypeOK
<1>3. frame' = Append(frame, b)
  BY <1>2 DEF Returns
<1>4. ~ended' /\ ~muted' /\ installed' = installed /\ log' = log \o calls
  BY <1>2 DEF Returns
<1>5. /\ frame' # << >> /\ frame'[1] = frame[1]
      /\ Len(frame') = Len(frame) + 1 /\ frame'[Len(frame) + 1] = b
      /\ \A k \in 1 .. Len(frame) : frame'[k] = frame[k]
  BY <1>2, <1>3
<1>6. log = FrameCalls(installed, frame, ended, 0)
  BY <1>2 DEF Inv, LogIsMeaning
<1> QED
  BY <1>2, <1>3, <1>4, <1>5, <1>6

\* put of a payload byte that fits: the scratch buffer mirrors the frame.
LEMMA PutSmallInv ==
    ASSUME Inv, NEW b \in Byte, PutSmall(b)
    PROVE  Inv'
<1>1. /\ state = "READ_FIXED" /\ Returns(b, << >>, OK) /\ OK \in Status
      /\ << >> \in Seq(Callback)
  BY DEF PutSmall, Status, OK, INVALID_ARGUMENT
<1>2. /\ ~ended' /\ ~muted' /\ cut = 0
      /\ frame # << >> /\ frame' # << >> /\ frame'[1] = frame[1]
      /\ Len(frame') = Len(frame) + 1 /\ frame'[Len(frame) + 1] = b
      /\ \A k \in 1 .. Len(frame) : frame'[k] = frame[k]
      /\ log' = log \o << >>
      /\ log = FrameCalls(installed, frame, ended, 0)
      /\ frame \in Seq(Byte) /\ Len(frame) \in Nat
  BY <1>1, BodyStep
<1>3. /\ Remembers /\ opcode \in 0 .. 15 /\ opcode_length \in 0 .. 4
      /\ opcode_length = OpcodeLength(opcode) /\ OpcodeLength(opcode) \notin {-1, -2}
      /\ payload_index \in 0 .. 3 /\ smallbuf \in [0 .. 3 -> Byte]
      /\ \A k \in 0 .. payload_index - 1 : smallbuf[k] = frame[k + 2]
  BY <1>1 DEF Inv, ReadInv, TypeOK, PutSmall
<1>4. smallbuf' \in [0 .. 3 -> Byte] /\ payload_index' = payload_index + 1
  BY <1>3 DEF PutSmall
<1>5. TypeOK'
  <2>1. /\ state' \in States /\ payload_index' \in 0 .. 4 /\ payload_index' \in Nat
        /\ opcode_length' \in 0 .. 4 /\ byte_index' \in Nat /\ cut' \in Nat
        /\ interface' \in 0 .. 15 /\ opcode' \in 0 .. 15
    BY <1>3, <1>4 DEF Inv, TypeOK, PutSmall, States
  <2>2. refused' \in BOOLEAN
    BY DEF PutSmall, Inv, TypeOK
  <2> QED
    BY <1>1, <1>4, <2>1, <2>2, ReturnsType DEF Inv, TypeOK
<1>6. LogIsMeaning'
  <2>0. ~ended /\ OpcodeLength(OpcodeOf(frame[1])) \notin {-1, -2}
    BY <1>3 DEF Remembers
  <2>k. Len(frame) <= 4
    <3>1. Len(frame) - 1 \in 0 .. 3
      BY <1>3 DEF Remembers
    <3> QED
      BY <1>2, <3>1
  <2>b. ended \in BOOLEAN /\ ended' \in BOOLEAN
    BY <1>5 DEF Inv, TypeOK
  <2>1. FrameCalls(installed, frame, ended, 0) = << >>
    <3>1. Len(frame) <= 5
      BY <1>2, <2>k
    <3> QED
      BY <1>2, <2>0, <2>b, <3>1, FixedOpen
  <2>2. FrameCalls(installed', frame', ended', cut') = << >>
    <3>1. Len(frame') \in Nat /\ Len(frame') <= 5
      BY <1>2, <2>k
    <3>2. OpcodeLength(OpcodeOf(frame'[1])) \notin {-1, -2}
      BY <1>2, <2>0
    <3> QED
      BY <1>2, <2>b, <3>1, <3>2, FixedOpen
  <2>3. << >> \o << >> = << >>
    OBVIOUS
  <2> QED
    BY <1>2, <2>1, <2>2, <2>3 DEF LogIsMeaning
<1>7. ReadInv'
  <2>1. Remembers'
    BY <1>2, <1>3, <1>4 DEF Remembers, PutSmall
  <2>2. \A k \in 0 .. payload_index' - 1 : smallbuf'[k] = frame'[k + 2]
    BY <1>2, <1>3, <1>4, SMTT(30) DEF Remembers, PutSmall
  <2> QED
    BY <1>3, <2>1, <2>2 DEF ReadInv, PutSmall
<1> QED
  BY <1>1, <1>5, <1>6, <1>7 DEF Inv, WaitInv, StreamInv, AbortInv, PutSmall

\* put of a fifth payload byte decides the frame.
LEMMA PutTooManyInv ==
    ASSUME Inv, NEW b \in Byte, PutTooMany(b)
    PROVE  Inv'
<1> DEFINE calls == Error(opcode, payload_index, INVALID_LENGTH)
<1>1. /\ state = "READ_FIXED" /\ Returns(b, calls, INVALID_LENGTH)
      /\ INVALID_LENGTH \in Status /\ INVALID_LENGTH \in Int
  BY DEF PutTooMany, Status, OK, INVALID_ARGUMENT, INVALID_LENGTH
<1>2. /\ Remembers /\ opcode \in 0 .. 15 /\ interface \in 0 .. 15
      /\ OpcodeLength(opcode) \notin {-1, -2} /\ payload_index = 4
      /\ installed \in SUBSET CallbackNames
  BY <1>1 DEF Inv, ReadInv, TypeOK, PutTooMany
<1>3. calls \in Seq(Callback)
  BY <1>1, <1>2, ErrorType DEF Error
<1>4. /\ ~ended /\ ~ended' /\ ~muted' /\ installed' = installed
      /\ frame # << >> /\ frame' # << >> /\ frame'[1] = frame[1]
      /\ Len(frame') = Len(frame) + 1 /\ frame \in Seq(Byte) /\ Len(frame) \in Nat
      /\ log' = log \o calls
      /\ log = FrameCalls(installed, frame, ended, 0)
  <2> HIDE DEF calls
  <2> QED BY <1>1, BodyStep
<1>f. /\ Len(frame) = 5 /\ Len(frame') = 6
      /\ OpcodeLength(OpcodeOf(frame[1])) \notin {-1, -2}
      /\ OpcodeLength(OpcodeOf(frame'[1])) \notin {-1, -2}
  <2>1. Len(frame) - 1 = 4 /\ OpcodeLength(OpcodeOf(frame[1])) \notin {-1, -2}
    BY <1>2 DEF Remembers
  <2>2. Len(frame) = 5
    BY <1>4, <2>1
  <2>3. Len(frame') = 6
    BY <1>4, <2>2
  <2>4. OpcodeLength(OpcodeOf(frame'[1])) \notin {-1, -2}
    BY <1>4, <2>1
  <2> QED
    BY <2>1, <2>2, <2>3, <2>4
<1>5. TypeOK'
  <2>1. /\ state' \in States /\ state' # "READ_FIXED" /\ payload_index' \in Nat
        /\ opcode_length' \in 0 .. 4 /\ byte_index' \in Nat /\ cut' \in Nat
        /\ interface' \in 0 .. 15 /\ opcode' \in 0 .. 15
        /\ smallbuf' \in [0 .. 3 -> Byte]
    BY DEF Inv, TypeOK, PutTooMany, States
  <2>2. refused' \in BOOLEAN
    BY DEF PutTooMany, Inv, TypeOK
  <2> HIDE DEF calls
  <2> QED
    BY <1>1, <1>3, <2>1, <2>2, ReturnsType DEF Inv, TypeOK
<1>6. LogIsMeaning'
  <2>1. FrameCalls(installed, frame, ended, 0) = << >>
    BY <1>f, <1>4 DEF FrameCalls, FixedCalls
  <2>2. calls = Call(installed, "error",
                     <<InterfaceOf(frame'[1]), OpcodeOf(frame'[1]), 4, INVALID_LENGTH>>)
    BY <1>2, <1>4 DEF Remembers, Error
  <2>4. FrameCalls(installed', frame', ended', cut') = calls
    <3> HIDE DEF calls
    <3> QED BY <1>f, <1>4, <2>2 DEF FrameCalls, FixedCalls
  <2>3. << >> \o calls = calls
    <3> HIDE DEF calls, Callback
    <3> QED BY <1>3, ConcatEmptySeq
  <2> QED
    BY <1>4, <2>1, <2>4, <2>3 DEF LogIsMeaning
<1>7. AbortInv'
  BY <1>f, <1>4 DEF AbortInv, Decided
<1> QED
  BY <1>5, <1>6, <1>7 DEF Inv, WaitInv, ReadInv, StreamInv, PutTooMany

\* What holds of every byte of a stream, aborted by tx_data or not.
LEMMA StreamStep ==
    ASSUME Inv, state = "STREAM_DATA", NEW b \in Byte
    PROVE  /\ Remembers /\ opcode = DATA /\ byte_index = Len(frame) - 1
           /\ Len(frame) \in Nat \ {0}
           /\ OpcodeLength(OpcodeOf(frame[1])) = -1
           /\ interface \in Int /\ opcode \in Int /\ payload_index \in Int
           /\ log = StreamHead(installed, frame, Len(frame) - 1)
           /\ TxData(b) \in Seq(Callback)
           /\ StreamHead(installed, Append(frame, b), Len(frame)) = log \o TxData(b)
<1>1. /\ Remembers /\ OpcodeLength(opcode) = -1 /\ byte_index = payload_index
      /\ frame \in Seq(Byte) /\ opcode \in 0 .. 15 /\ interface \in 0 .. 15
      /\ installed \in SUBSET CallbackNames
      /\ log = FrameCalls(installed, frame, ended, 0)
  BY DEF Inv, TypeOK, StreamInv, LogIsMeaning, Remembers
<1>2. opcode = DATA
  BY <1>1, LengthRange
<1>3. Len(frame) \in Nat \ {0}
  BY <1>1 DEF Remembers
<1>4. log = StreamHead(installed, frame, Len(frame) - 1)
  BY <1>1, <1>3 DEF FrameCalls, StreamCalls, Remembers
<1>5. TxData(b) = Call(installed, "tx_data", <<InterfaceOf(frame[1]), b, Len(frame) - 1>>)
  BY <1>1 DEF TxData, Remembers
<1>6. TxData(b) \in Seq(Callback)
  <2>1. <<interface, b, byte_index>> \in Seq(Int)
    BY <1>1, <1>3, ByteInt DEF Remembers
  <2> QED
    BY <1>1, <2>1, CallType DEF TxData, CallbackNames
<1>7. StreamHead(installed, Append(frame, b), Len(frame)) = log \o TxData(b)
  BY <1>1, <1>4, <1>5, StreamGrows DEF Remembers
<1>8. interface \in Int /\ opcode \in Int /\ payload_index \in Int
  BY <1>1, <1>3 DEF Remembers
<1>9. byte_index = Len(frame) - 1 /\ OpcodeLength(OpcodeOf(frame[1])) = -1
  BY <1>1 DEF Remembers
<1> QED
  BY <1>1, <1>2, <1>3, <1>4, <1>6, <1>7, <1>8, <1>9

\* put of a byte of a stream makes exactly one more tx_data call.
LEMMA PutDataInv ==
    ASSUME Inv, NEW b \in Byte, PutData(b)
    PROVE  Inv'
<1>1. state = "STREAM_DATA" /\ Returns(b, TxData(b), OK) /\ OK \in Status
  BY DEF PutData, Status, OK, INVALID_ARGUMENT
<1>2. /\ Remembers /\ byte_index = Len(frame) - 1 /\ Len(frame) \in Nat \ {0}
      /\ OpcodeLength(OpcodeOf(frame[1])) = -1
      /\ TxData(b) \in Seq(Callback)
      /\ StreamHead(installed, Append(frame, b), Len(frame)) = log \o TxData(b)
  BY <1>1, StreamStep
<1>3. /\ ~ended' /\ ~muted' /\ installed' = installed /\ cut = 0
      /\ frame' = Append(frame, b) /\ frame' # << >> /\ frame'[1] = frame[1]
      /\ Len(frame') = Len(frame) + 1
      /\ log' = log \o TxData(b)
  BY <1>1, BodyStep
<1>4. TypeOK'
  <2>1. /\ state' \in States /\ state' # "READ_FIXED" /\ payload_index' \in Nat
        /\ opcode_length' \in 0 .. 4 /\ byte_index' \in Nat /\ cut' \in Nat
        /\ interface' \in 0 .. 15 /\ opcode' \in 0 .. 15
        /\ smallbuf' \in [0 .. 3 -> Byte]
    BY <1>1 DEF Inv, TypeOK, PutData, States
  <2>2. refused' \in BOOLEAN
    BY DEF PutData, Inv, TypeOK
  <2> QED
    BY <1>1, <1>2, <2>1, <2>2, ReturnsType DEF Inv, TypeOK
<1>5. LogIsMeaning'
  BY <1>2, <1>3 DEF LogIsMeaning, FrameCalls, StreamCalls, PutData
<1>6. StreamInv'
  BY <1>1, <1>2, <1>3 DEF Inv, StreamInv, Remembers, PutData
<1> QED
  BY <1>1, <1>4, <1>5, <1>6 DEF Inv, WaitInv, ReadInv, AbortInv, PutData

\* put of a byte whose tx_data asks to abort cuts the stream there.
LEMMA PutDataAbortedInv ==
    ASSUME Inv, NEW b \in Byte, PutDataAborted(b)
    PROVE  Inv'
<1> DEFINE e == Error(opcode, payload_index, ABORTED)
           calls == TxData(b) \o e
<1>1. /\ state = "STREAM_DATA" /\ Returns(b, calls, ABORTED)
      /\ ABORTED \in Status /\ ABORTED \in Int
  BY DEF PutDataAborted, Status, OK, INVALID_ARGUMENT, ABORTED
<1>2. /\ Remembers /\ opcode = DATA /\ Len(frame) \in Nat \ {0}
      /\ OpcodeLength(OpcodeOf(frame[1])) = -1
      /\ interface \in Int /\ opcode \in Int /\ payload_index \in Int
      /\ TxData(b) \in Seq(Callback)
      /\ StreamHead(installed, Append(frame, b), Len(frame)) = log \o TxData(b)
  BY <1>1, StreamStep
<1>3. e \in Seq(Callback) /\ calls \in Seq(Callback)
  <2>1. e \in Seq(Callback)
    BY <1>1, <1>2, ErrorType DEF Error, Inv, TypeOK
  <2> HIDE DEF e, Callback
  <2> QED
    BY <1>2, <2>1, ConcatProperties
<1>4. /\ ~ended' /\ ~muted' /\ installed' = installed /\ cut = 0
      /\ frame' = Append(frame, b) /\ frame' # << >> /\ frame'[1] = frame[1]
      /\ Len(frame') = Len(frame) + 1
      /\ log' = log \o calls
  <2> HIDE DEF calls
  <2> QED BY <1>1, BodyStep
<1>5. cut' = Len(frame) + 1 /\ state' = "ABORT"
  BY DEF PutDataAborted
<1>6. TypeOK'
  <2>1. /\ state' \in States /\ state' # "READ_FIXED" /\ payload_index' \in Nat
        /\ opcode_length' \in 0 .. 4 /\ byte_index' \in Nat /\ cut' \in Nat
        /\ interface' \in 0 .. 15 /\ opcode' \in 0 .. 15
        /\ smallbuf' \in [0 .. 3 -> Byte]
    BY <1>2, <1>5 DEF Inv, TypeOK, PutDataAborted, States
  <2>2. refused' \in BOOLEAN
    BY DEF PutDataAborted, Inv, TypeOK
  <2> HIDE DEF calls
  <2> QED
    BY <1>1, <1>3, <2>1, <2>2, ReturnsType DEF Inv, TypeOK
<1>7. LogIsMeaning'
  <2>1. log' = (log \o TxData(b)) \o e
    BY <1>2, <1>3, <1>4, Regroup, ZenonT(60) DEF Inv, TypeOK
  <2>2. e = Call(installed, "error", <<InterfaceOf(frame[1]), DATA, cut' - 2, ABORTED>>)
    BY <1>2, <1>5 DEF Error, Remembers
  <2>3. /\ cut' \in 1 .. Len(frame') /\ cut' - 1 = Len(frame)
        /\ OpcodeLength(OpcodeOf(frame'[1])) = -1
    BY <1>2, <1>4, <1>5
  <2> HIDE DEF e
  <2>4. FrameCalls(installed', frame', ended', cut')
          = StreamHead(installed, frame', Len(frame)) \o e
    <3>1. FrameCalls(installed', frame', ended', cut')
            = StreamCalls(installed', frame', ended', cut')
      BY <1>4, <2>3 DEF FrameCalls
    <3>2. StreamCalls(installed', frame', ended', cut')
            = StreamHead(installed', frame', cut' - 1)
                \o Call(installed', "error",
                        <<InterfaceOf(frame'[1]), DATA, cut' - 2, ABORTED>>)
      BY <2>3, SMTT(30) DEF StreamCalls
    <3>3. Call(installed', "error",
               <<InterfaceOf(frame'[1]), DATA, cut' - 2, ABORTED>>) = e
      BY <1>4, <2>2
    <3> QED
      BY <1>4, <2>3, <3>1, <3>2, <3>3
  <2> QED
    BY <1>2, <1>4, <2>1, <2>4 DEF LogIsMeaning
<1>8. AbortInv'
  BY <1>2, <1>4, <1>5 DEF AbortInv, Decided
<1> QED
  BY <1>5, <1>6, <1>7, <1>8 DEF Inv, WaitInv, ReadInv, StreamInv

\* An aborted decoder ignores the byte, and the frame's meaning ignores it too.
LEMMA PutIgnoredInv ==
    ASSUME Inv, NEW b \in Byte, PutIgnored(b)
    PROVE  Inv'
<1>1. /\ state = "ABORT" /\ state' = "ABORT" /\ Returns(b, << >>, OK) /\ OK \in Status
      /\ << >> \in Seq(Callback)
  BY DEF PutIgnored, Status, OK, INVALID_ARGUMENT
<1>2. TypeOK'
  <2>1. /\ state' \in States /\ state' # "READ_FIXED" /\ payload_index' \in Nat
        /\ opcode_length' \in 0 .. 4 /\ byte_index' \in Nat
        /\ interface' \in 0 .. 15 /\ opcode' \in 0 .. 15
        /\ smallbuf' \in [0 .. 3 -> Byte]
    BY <1>1 DEF Inv, TypeOK, PutIgnored, States
  <2>2. cut' \in Nat
    BY DEF Inv, TypeOK, PutIgnored
  <2>3. refused' \in BOOLEAN
    BY DEF Inv, TypeOK, PutIgnored
  <2> QED
    BY <1>1, <2>1, <2>2, <2>3, ReturnsType DEF Inv, TypeOK
<1>3. LogIsMeaning' /\ AbortInv'
  <2>1. CASE ended
    <3>1. muted' /\ ~ended' /\ log' = << >> \o << >>
      BY <1>1, <2>1 DEF Returns
    <3> QED
      BY <3>1 DEF LogIsMeaning, AbortInv
  <2>2. CASE ~ended
    <3>1. /\ muted' = muted /\ ~ended' /\ cut' = cut /\ installed' = installed
          /\ frame' = Append(frame, b) /\ log' = log \o << >>
      BY <1>1, <2>2 DEF Returns, PutIgnored
    <3>2. log' = log
      <4> HIDE DEF Callback
      <4>1. log \in Seq(Callback)
        BY DEF Inv, TypeOK
      <4> QED
        BY <3>1, <4>1, ConcatEmptySeq
    <3>3. CASE muted
      BY <3>1, <3>2, <3>3 DEF LogIsMeaning, AbortInv, Inv
    <3>4. CASE ~muted
      <4>1. Decided(frame, cut)
        BY <1>1, <2>2, <3>4 DEF Inv, AbortInv
      <4>2. frame \in Seq(Byte) /\ cut \in Nat /\ installed \in SUBSET CallbackNames
        BY DEF Inv, TypeOK
      <4>3. /\ FrameCalls(installed, Append(frame, b), FALSE, cut)
                 = FrameCalls(installed, frame, FALSE, cut)
            /\ Decided(Append(frame, b), cut)
        BY <4>1, <4>2, DecidedStable
      <4>4. ended = FALSE /\ ended' = FALSE
        BY <1>1, <2>2 DEF Returns, Inv, TypeOK
      <4>5. log = FrameCalls(installed, frame, FALSE, cut)
        BY <3>4, <4>4 DEF Inv, LogIsMeaning
      <4>6. log' = FrameCalls(installed', frame', ended', cut')
        BY <3>1, <3>2, <4>3, <4>4, <4>5
      <4> QED
        BY <3>1, <3>4, <4>3, <4>6 DEF LogIsMeaning, AbortInv
    <3> QED
      BY <3>3, <3>4
  <2> QED
    BY <2>1, <2>2
<1> QED
  BY <1>1, <1>2, <1>3 DEF Inv, WaitInv, ReadInv, StreamInv

-----------------------------------------------------------------------------
(* write, start and end *)

\* Handing the decoder a buffer changes nothing but what is left of it.
LEMMA WriteInv ==
    ASSUME Inv, NEW n \in Nat, Write(n)
    PROVE  Inv'
BY DEF Inv, TypeOK, LogIsMeaning, WaitInv, ReadInv, StreamInv, AbortInv, Remembers,
       Write, decoder, history

\* start forgets the frame, whatever state it is in.
LEMMA StartInv ==
    ASSUME Inv, Start
    PROVE  Inv'
<1>1. TypeOK'
  <2>1. frame' \in Seq(Byte) /\ log' \in Seq(Callback)
    <3> HIDE DEF Callback, Byte
    <3> QED BY EmptySeq DEF Start
  <2>2. ended' \in BOOLEAN /\ muted' \in BOOLEAN /\ refused' \in BOOLEAN
    BY DEF Start
  <2> QED
    BY <2>1, <2>2 DEF Inv, Start, TypeOK, States
<1>2. LogIsMeaning'
  BY DEF Start, LogIsMeaning, FrameCalls
<1> QED
  BY <1>1, <1>2 DEF Inv, Start, WaitInv, ReadInv, StreamInv, AbortInv

\* What every end leaves in place, whatever its branch.
LEMMA ClosesType ==
    ASSUME Inv, NEW calls \in Seq(Callback), NEW st \in Status, Closes(calls, st),
           state' \in States \ {"READ_FIXED"}, payload_index' \in Nat, cut' \in Nat
    PROVE  TypeOK'
<1>1. frame' \in Seq(Byte)
  <2> HIDE DEF Byte
  <2> QED BY EmptySeq DEF Inv, TypeOK, Closes
<1>2. log' \in Seq(Callback)
  <2>1. << >> \o calls \in Seq(Callback) /\ log \o calls \in Seq(Callback)
    <3> HIDE DEF Callback
    <3> QED BY EmptySeq, ConcatProperties DEF Inv, TypeOK
  <2> QED
    BY <2>1 DEF Closes
<1>3. ended' \in BOOLEAN /\ refused' \in BOOLEAN
  BY DEF Inv, TypeOK, Closes
<1>4. muted' \in BOOLEAN
  <2>1. CASE ended
    BY <2>1 DEF Closes
  <2>2. CASE ~ended
    BY <2>2 DEF Closes, Inv, TypeOK
  <2> QED
    BY <2>1, <2>2
<1>5. /\ opcode_length' \in 0 .. 4 /\ interface' \in 0 .. 15 /\ opcode' \in 0 .. 15
      /\ smallbuf' \in [0 .. 3 -> Byte] /\ byte_index' \in Nat
      /\ installed' \in SUBSET CallbackNames /\ status' \in Status /\ todo' \in Nat
  BY DEF Inv, TypeOK, Closes
<1>6. state' \in States /\ state' # "READ_FIXED"
  OBVIOUS
<1> QED
  BY <1>1, <1>2, <1>3, <1>4, <1>5, <1>6 DEF TypeOK

\* What an end that closes a frame being decoded has in common.
LEMMA CloseStep ==
    ASSUME Inv, state \in {"READ_FIXED", "STREAM_DATA"},
           NEW calls, NEW st, Closes(calls, st)
    PROVE  /\ Remembers /\ ended' /\ ~muted' /\ installed' = installed
           /\ frame' = frame /\ frame # << >> /\ frame \in Seq(Byte) /\ Len(frame) \in Nat
           /\ log' = log \o calls
           /\ log = FrameCalls(installed, frame, ended, 0)
<1>1. Remembers
  BY DEF Inv, ReadInv, StreamInv
<1>2. /\ frame \in Seq(Byte) /\ frame # << >> /\ ~ended /\ ~muted /\ cut = 0
      /\ Len(frame) \in Nat
  BY <1>1 DEF Remembers, Inv, TypeOK
<1>3. ended' /\ ~muted' /\ installed' = installed /\ frame' = frame /\ log' = log \o calls
  BY <1>2 DEF Closes
<1>4. log = FrameCalls(installed, frame, ended, 0)
  BY <1>2 DEF Inv, LogIsMeaning
<1> QED
  BY <1>1, <1>2, <1>3, <1>4

\* The arguments of every command are integers.
LEMMA CommandType ==
    ASSUME NEW inst \in SUBSET CallbackNames, NEW i \in 0 .. 15, NEW o \in 0 .. 15,
           NEW w \in Word
    PROVE  Call(inst, CommandName(o), CommandArgs(i, o, w)) \in Seq(Callback)
<1>1. CommandName(o) \in CallbackNames
  BY DEF CommandName, CallbackNames, CommandNames
<1>2. /\ w[1] \in Int /\ w[2] \in Int /\ w[3] \in Int /\ w[4] \in Int /\ i \in Int
      /\ Int8(w) \in Int
  BY DEF Word, Byte, Int8
<1>3. /\ <<i, w[1], w[2], w[3], w[4]>> \in Seq(Int) /\ <<i, Int8(w)>> \in Seq(Int)
      /\ << >> \in Seq(Int) /\ <<i, w[4]>> \in Seq(Int)
  BY <1>2
<1>4. CommandArgs(i, o, w) \in Seq(Int)
  BY <1>3 DEF CommandArgs
<1> QED
  BY <1>1, <1>4, CallType

\* What a complete fixed-length frame of the right length leads to.
LEMMA FixedClosed ==
    ASSUME NEW inst, NEW f, NEW e \in BOOLEAN, e,
           Len(f) \in Nat, Len(f) <= 5, Len(f) - 1 = OpcodeLength(OpcodeOf(f[1]))
    PROVE  FixedCalls(inst, f, e) =
             LET i == InterfaceOf(f[1])
                 o == OpcodeOf(f[1])
                 w == PayloadWord(f)
             IN  IF ValidArgument(o, w)
                 THEN Call(inst, CommandName(o), CommandArgs(i, o, w))
                 ELSE Call(inst, "error", <<i, o, Len(f) - 1, INVALID_ARGUMENT>>)
<1> DEFINE valid == ValidArgument(OpcodeOf(f[1]), PayloadWord(f))
<1>1. CASE valid
  BY <1>1 DEF FixedCalls
<1>2. CASE ~valid
  BY <1>2 DEF FixedCalls
<1> QED
  BY <1>1, <1>2

\* While a fixed-length frame is being read, the decoder's variables are the
\* frame, and no call has been made.
LEMMA ReadStep ==
    ASSUME Inv, state = "READ_FIXED"
    PROVE  /\ log = << >> /\ interface = InterfaceOf(frame[1])
           /\ opcode = OpcodeOf(frame[1]) /\ payload_index = Len(frame) - 1
           /\ payload_index \in 0 .. 4 /\ Len(frame) \in Nat /\ Len(frame) <= 5
           /\ OpcodeLength(opcode) \notin {-1, -2}
           /\ opcode_length = OpcodeLength(opcode)
           /\ interface \in 0 .. 15 /\ opcode \in 0 .. 15
           /\ installed \in SUBSET CallbackNames
           /\ smallbuf \in [0 .. 3 -> Byte]
           /\ \A k \in 0 .. payload_index - 1 : smallbuf[k] = frame[k + 2]
<1>1. /\ Remembers /\ opcode_length = OpcodeLength(opcode)
      /\ payload_index \in 0 .. 4 /\ interface \in 0 .. 15 /\ opcode \in 0 .. 15
      /\ opcode_length \in 0 .. 4 /\ installed \in SUBSET CallbackNames
      /\ smallbuf \in [0 .. 3 -> Byte] /\ frame \in Seq(Byte)
      /\ \A k \in 0 .. payload_index - 1 : smallbuf[k] = frame[k + 2]
  BY DEF Inv, ReadInv, TypeOK
<1>2. /\ interface = InterfaceOf(frame[1]) /\ opcode = OpcodeOf(frame[1])
      /\ payload_index = Len(frame) - 1 /\ frame # << >> /\ ~ended /\ cut = 0 /\ ~muted
  BY <1>1 DEF Remembers
<1>3. Len(frame) \in Nat
  BY <1>1
<1>4. Len(frame) <= 5
  <2>1. payload_index \in 0 .. 4 /\ Len(frame) - 1 = payload_index
    BY <1>1, <1>2
  <2>2. Len(frame) = payload_index + 1
    BY <1>3, <2>1
  <2> QED
    BY <2>1, <2>2
<1>5. OpcodeLength(opcode) \notin {-1, -2}
  BY <1>1
<1>6. log = << >>
  <2>1. ended \in BOOLEAN
    BY DEF Inv, TypeOK
  <2>2. FrameCalls(installed, frame, ended, cut) = << >>
    BY <1>2, <1>3, <1>4, <1>5, <2>1, FixedOpen
  <2> QED
    BY <1>2, <2>2 DEF Inv, LogIsMeaning
<1> QED
  BY <1>1, <1>2, <1>3, <1>4, <1>5, <1>6

\* end of a frame of the right length: the loop over the scratch buffer yields
\* the value the frame spells out.
LEMMA EndFixedInv ==
    ASSUME Inv, EndFixed
    PROVE  Inv'
<1> DEFINE calls == IF ValidArgument(opcode, Value)
                    THEN Call(installed, CommandName(opcode),
                              CommandArgs(interface, opcode, Value))
                    ELSE Error(opcode, payload_index, INVALID_ARGUMENT)
<1>1. /\ state = "READ_FIXED" /\ payload_index = opcode_length
      /\ state' = "WAIT_COMMAND" /\ payload_index' = 0 /\ cut' = cut
      /\ Closes(calls, OK) /\ OK \in Status
  BY DEF EndFixed, Restarts, Status, OK, INVALID_ARGUMENT
<1>2. /\ log = << >> /\ interface = InterfaceOf(frame[1]) /\ opcode = OpcodeOf(frame[1])
      /\ payload_index = Len(frame) - 1 /\ Len(frame) \in Nat /\ Len(frame) <= 5
      /\ OpcodeLength(opcode) \notin {-1, -2} /\ opcode_length = OpcodeLength(opcode)
      /\ interface \in 0 .. 15 /\ opcode \in 0 .. 15
      /\ installed \in SUBSET CallbackNames /\ smallbuf \in [0 .. 3 -> Byte]
      /\ \A k \in 0 .. payload_index - 1 : smallbuf[k] = frame[k + 2]
  BY <1>1, ReadStep
<1>3. frame \in Seq(Byte)
  BY DEF Inv, TypeOK
<1>4. Value = PayloadWord(frame) /\ Value \in Word
  <2>1. Len(frame) - 1 \in {0, 1, 4}
    BY <1>1, <1>2, LengthRange
  <2>2. \A k \in 0 .. Len(frame) - 2 : smallbuf[k] = frame[k + 2]
    BY <1>2
  <2>3. /\ BigEndian(smallbuf, Len(frame) - 1) = PayloadWord(frame)
        /\ PayloadWord(frame) \in Word
    BY <1>2, <1>3, <2>1, <2>2, LoopIsPayload
  <2>4. opcode_length = Len(frame) - 1
    BY <1>1, <1>2
  <2> QED
    BY <2>3, <2>4 DEF Value
<1>5. calls \in Seq(Callback)
  <2>1. Call(installed, CommandName(opcode), CommandArgs(interface, opcode, Value))
          \in Seq(Callback)
    BY <1>2, <1>4, CommandType
  <2>2. Error(opcode, payload_index, INVALID_ARGUMENT) \in Seq(Callback)
    <3>1. interface \in Int /\ opcode \in Int /\ payload_index \in Int
          /\ INVALID_ARGUMENT \in Int
      BY <1>2 DEF INVALID_ARGUMENT
    <3> QED
      BY <1>2, <3>1, ErrorType DEF Error
  <2> QED
    BY <2>1, <2>2
<1>6. /\ ended' /\ ~muted' /\ installed' = installed /\ frame' = frame /\ frame # << >>
      /\ log' = log \o calls
  <2> HIDE DEF calls
  <2> QED BY <1>1, CloseStep
<1>7. TypeOK'
  <2>1. state' \in States \ {"READ_FIXED"} /\ payload_index' \in Nat /\ cut' \in Nat
    BY <1>1 DEF States, Inv, TypeOK
  <2> HIDE DEF calls
  <2> QED
    BY <1>1, <1>5, <2>1, ClosesType
<1>8. LogIsMeaning'
  <2>1. log' = calls
    <3> HIDE DEF calls, Callback
    <3> QED BY <1>2, <1>5, <1>6, ConcatEmptySeq
  <2>b. ended' \in BOOLEAN
    BY <1>7 DEF TypeOK
  <2>l. Len(frame) - 1 = OpcodeLength(OpcodeOf(frame[1]))
    BY <1>1, <1>2
  <2>2. FixedCalls(installed, frame, ended') = calls
    BY <1>2, <1>4, <1>6, <2>b, <2>l, FixedClosed DEF Error
  <2>3. FrameCalls(installed, frame, ended', cut') = FixedCalls(installed, frame, ended')
    BY <1>2, <1>6 DEF FrameCalls
  <2> QED
    BY <1>6, <2>1, <2>2, <2>3 DEF LogIsMeaning
<1> QED
  BY <1>1, <1>6, <1>7, <1>8 DEF Inv, WaitInv, ReadInv, StreamInv, AbortInv

\* end of a frame of the wrong length.
LEMMA EndWrongLengthInv ==
    ASSUME Inv, EndWrongLength
    PROVE  Inv'
<1> DEFINE calls == Error(opcode, payload_index, INVALID_LENGTH)
<1>1. /\ state = "READ_FIXED" /\ payload_index # opcode_length
      /\ state' = "WAIT_COMMAND" /\ payload_index' = 0 /\ cut' = cut
      /\ Closes(calls, INVALID_LENGTH)
      /\ INVALID_LENGTH \in Status /\ INVALID_LENGTH \in Int
  BY DEF EndWrongLength, Restarts, Status, OK, INVALID_ARGUMENT, INVALID_LENGTH
<1>2. /\ log = << >> /\ interface = InterfaceOf(frame[1]) /\ opcode = OpcodeOf(frame[1])
      /\ payload_index = Len(frame) - 1 /\ Len(frame) \in Nat /\ Len(frame) <= 5
      /\ OpcodeLength(opcode) \notin {-1, -2} /\ opcode_length = OpcodeLength(opcode)
      /\ interface \in 0 .. 15 /\ opcode \in 0 .. 15 /\ payload_index \in 0 .. 4
      /\ installed \in SUBSET CallbackNames
  BY <1>1, ReadStep
<1>5. calls \in Seq(Callback)
  <2>1. interface \in Int /\ opcode \in Int /\ payload_index \in Int
    BY <1>2
  <2> QED
    BY <1>1, <1>2, <2>1, ErrorType DEF Error
<1>6. /\ ended' /\ ~muted' /\ installed' = installed /\ frame' = frame /\ frame # << >>
      /\ log' = log \o calls
  <2> HIDE DEF calls
  <2> QED BY <1>1, CloseStep
<1>7. TypeOK'
  <2>1. state' \in States \ {"READ_FIXED"} /\ payload_index' \in Nat /\ cut' \in Nat
    BY <1>1 DEF States, Inv, TypeOK
  <2> HIDE DEF calls
  <2> QED
    BY <1>1, <1>5, <2>1, ClosesType
<1>8. LogIsMeaning'
  <2>1. log' = calls
    <3> HIDE DEF calls, Callback
    <3> QED BY <1>2, <1>5, <1>6, ConcatEmptySeq
  <2>2. FixedCalls(installed, frame, ended') = calls
    BY <1>1, <1>2, <1>6 DEF FixedCalls, Error
  <2>3. FrameCalls(installed, frame, ended', cut') = FixedCalls(installed, frame, ended')
    BY <1>2, <1>6 DEF FrameCalls
  <2> QED
    BY <1>6, <2>1, <2>2, <2>3 DEF LogIsMeaning
<1> QED
  BY <1>1, <1>6, <1>7, <1>8 DEF Inv, WaitInv, ReadInv, StreamInv, AbortInv

\* What holds of every end of a stream, refused by tx_end or not.
LEMMA EndStreamStep ==
    ASSUME Inv, state = "STREAM_DATA"
    PROVE  /\ log = StreamHead(installed, frame, Len(frame) - 1)
           /\ TxEnd = Call(installed, "tx_end", <<InterfaceOf(frame[1]), Len(frame) - 1>>)
           /\ TxEnd \in Seq(Callback)
           /\ opcode = DATA /\ payload_index = Len(frame) - 1 /\ Len(frame) \in Nat \ {0}
           /\ interface = InterfaceOf(frame[1])
           /\ interface \in Int /\ opcode \in Int /\ payload_index \in Int
           /\ OpcodeLength(OpcodeOf(frame[1])) = -1
           /\ installed \in SUBSET CallbackNames
<1>1. 0 \in Byte
  BY DEF Byte
<1>2. /\ Remembers /\ opcode = DATA /\ byte_index = Len(frame) - 1
      /\ Len(frame) \in Nat \ {0} /\ OpcodeLength(OpcodeOf(frame[1])) = -1
      /\ interface \in Int /\ opcode \in Int /\ payload_index \in Int
      /\ log = StreamHead(installed, frame, Len(frame) - 1)
  BY <1>1, StreamStep
<1>3. interface = InterfaceOf(frame[1]) /\ payload_index = Len(frame) - 1
  BY <1>2 DEF Remembers
<1>4. installed \in SUBSET CallbackNames
  BY DEF Inv, TypeOK
<1>5. TxEnd = Call(installed, "tx_end", <<InterfaceOf(frame[1]), Len(frame) - 1>>)
  BY <1>2, <1>3 DEF TxEnd
<1>6. TxEnd \in Seq(Callback)
  <2>1. <<interface, byte_index>> \in Seq(Int)
    BY <1>2
  <2> QED
    BY <1>4, <2>1, CallType DEF TxEnd, CallbackNames
<1> QED
  BY <1>2, <1>3, <1>4, <1>5, <1>6

\* end of a stream closes it with the number of its bytes.
LEMMA EndStreamInv ==
    ASSUME Inv, EndStream
    PROVE  Inv'
<1>1. /\ state = "STREAM_DATA" /\ Closes(TxEnd, OK) /\ OK \in Status
      /\ state' = "WAIT_COMMAND" /\ payload_index' = 0 /\ cut' = cut
  BY DEF EndStream, Restarts, Status, OK, INVALID_ARGUMENT
<1>2. /\ log = StreamHead(installed, frame, Len(frame) - 1)
      /\ TxEnd = Call(installed, "tx_end", <<InterfaceOf(frame[1]), Len(frame) - 1>>)
      /\ TxEnd \in Seq(Callback)
      /\ OpcodeLength(OpcodeOf(frame[1])) = -1
  BY <1>1, EndStreamStep
<1>3. /\ Remembers /\ ended' /\ ~muted' /\ installed' = installed
      /\ frame' = frame /\ frame # << >> /\ log' = log \o TxEnd
  BY <1>1, CloseStep
<1>4. TypeOK'
  <2>1. state' \in States \ {"READ_FIXED"} /\ payload_index' \in Nat /\ cut' \in Nat
    BY <1>1 DEF States, Inv, TypeOK
  <2> QED
    BY <1>1, <1>2, <2>1, ClosesType
<1>5. LogIsMeaning'
  <2>1. cut' = 0 /\ cut' \notin 1 .. Len(frame')
    BY <1>1, <1>3 DEF Remembers
  <2>2. StreamCalls(installed', frame', ended', cut')
          = StreamHead(installed, frame, Len(frame) - 1) \o TxEnd
    BY <1>2, <1>3, <2>1 DEF StreamCalls
  <2>3. FrameCalls(installed', frame', ended', cut')
          = StreamCalls(installed', frame', ended', cut')
    BY <1>2, <1>3 DEF FrameCalls
  <2> QED
    BY <1>2, <1>3, <2>2, <2>3 DEF LogIsMeaning
<1> QED
  BY <1>1, <1>3, <1>4, <1>5 DEF Inv, WaitInv, ReadInv, StreamInv, AbortInv

\* A refused end of a stream: reported once, and the decoder stays aborted.
LEMMA EndStreamAbortedInv ==
    ASSUME Inv, EndStreamAborted
    PROVE  Inv'
<1> DEFINE e == Error(opcode, payload_index, ABORTED)
           calls == TxEnd \o e
<1>1. /\ state = "STREAM_DATA" /\ Closes(calls, ABORTED)
      /\ ABORTED \in Status /\ ABORTED \in Int
      /\ state' = "ABORT" /\ payload_index' = payload_index /\ cut' = Len(frame) + 1
  BY DEF EndStreamAborted, Status, OK, INVALID_ARGUMENT, ABORTED
<1>2. /\ log = StreamHead(installed, frame, Len(frame) - 1)
      /\ TxEnd = Call(installed, "tx_end", <<InterfaceOf(frame[1]), Len(frame) - 1>>)
      /\ TxEnd \in Seq(Callback)
      /\ opcode = DATA /\ payload_index = Len(frame) - 1 /\ Len(frame) \in Nat \ {0}
      /\ interface = InterfaceOf(frame[1])
      /\ interface \in Int /\ opcode \in Int /\ payload_index \in Int
      /\ OpcodeLength(OpcodeOf(frame[1])) = -1
      /\ installed \in SUBSET CallbackNames
  BY <1>1, EndStreamStep
<1>3. e \in Seq(Callback) /\ calls \in Seq(Callback)
  <2>1. e \in Seq(Callback)
    BY <1>1, <1>2, ErrorType DEF Error
  <2> HIDE DEF e, Callback
  <2> QED
    BY <1>2, <2>1, ConcatProperties
<1>4. /\ ended' /\ ~muted' /\ installed' = installed
      /\ frame' = frame /\ frame # << >> /\ log' = log \o calls
  <2> HIDE DEF calls
  <2> QED BY <1>1, CloseStep
<1>5. TypeOK'
  <2>1. state' \in States \ {"READ_FIXED"} /\ payload_index' \in Nat /\ cut' \in Nat
    BY <1>1, <1>2 DEF States, Inv, TypeOK
  <2> HIDE DEF calls
  <2> QED
    BY <1>1, <1>3, <2>1, ClosesType
<1>6. LogIsMeaning'
  <2>1. log' = (log \o TxEnd) \o e
    <3>1. log \in Seq(Callback)
      BY DEF Inv, TypeOK
    <3>0. TxEnd \in Seq(Callback) /\ e \in Seq(Callback)
      BY <1>2, <1>3
    <3> HIDE DEF e, Callback
    <3>2. (log \o TxEnd) \o e = log \o (TxEnd \o e)
      BY ONLY <3>0, <3>1, Regroup
    <3> QED
      BY <1>4, <3>2
  <2>2. e = Call(installed, "error",
                 <<InterfaceOf(frame[1]), DATA, Len(frame) - 1, ABORTED>>)
    BY <1>2 DEF Error
  <2>3. cut' # 0 /\ cut' \notin 1 .. Len(frame)
    BY <1>1, <1>2
  <2> HIDE DEF e
  <2>4. StreamCalls(installed, frame, ended', cut')
          = (StreamHead(installed, frame, Len(frame) - 1) \o TxEnd) \o e
    BY <1>2, <2>2, <2>3 DEF StreamCalls
  <2>5. FrameCalls(installed, frame, ended', cut')
          = StreamCalls(installed, frame, ended', cut')
    BY <1>2, <1>4 DEF FrameCalls
  <2> QED
    BY <1>2, <1>4, <2>1, <2>4, <2>5 DEF LogIsMeaning
<1>7. AbortInv'
  BY <1>1, <1>2, <1>4 DEF AbortInv
<1> QED
  BY <1>1, <1>5, <1>6, <1>7 DEF Inv, WaitInv, ReadInv, StreamInv

\* end with no frame being decoded: an empty one, or one already given up on.
LEMMA EndNothingInv ==
    ASSUME Inv, EndNothing
    PROVE  Inv'
<1>1. /\ state \in {"WAIT_COMMAND", "ABORT"} /\ Closes(<< >>, ABORTED)
      /\ ABORTED \in Status /\ << >> \in Seq(Callback)
      /\ state' = "WAIT_COMMAND" /\ payload_index' = 0
  BY DEF EndNothing, Restarts, Status, OK, INVALID_ARGUMENT, ABORTED
<1>2. TypeOK'
  <2>1. state' \in States \ {"READ_FIXED"} /\ payload_index' \in Nat /\ cut' \in Nat
    BY <1>1 DEF States, Inv, TypeOK, EndNothing
  <2> QED
    BY <1>1, <2>1, ClosesType
<1>3. LogIsMeaning'
  <2>1. CASE ended
    <3>1. frame' = << >> /\ log' = << >> \o << >>
      BY <1>1, <2>1 DEF Closes
    <3> QED
      BY <3>1 DEF LogIsMeaning, FrameCalls
  <2>2. CASE ~ended
    <3>1. /\ frame' = frame /\ log' = log \o << >> /\ muted' = muted /\ cut' = cut
          /\ installed' = installed /\ ended'
      BY <1>1, <2>2 DEF Closes, EndNothing
    <3>2. log' = log
      <4> HIDE DEF Callback
      <4>1. log \in Seq(Callback)
        BY DEF Inv, TypeOK
      <4> QED
        BY <3>1, <4>1, ConcatEmptySeq
    <3>3. CASE muted
      BY <3>1, <3>2, <3>3 DEF LogIsMeaning, Inv
    <3>4. CASE ~muted /\ state = "WAIT_COMMAND"
      <4>1. frame = << >> /\ log = << >>
        BY <2>2, <3>4 DEF Inv, WaitInv
      <4> QED
        BY <3>1, <3>2, <4>1 DEF LogIsMeaning, FrameCalls
    <3>5. CASE ~muted /\ state = "ABORT"
      <4>1. Decided(frame, cut)
        BY <2>2, <3>5 DEF Inv, AbortInv
      <4>2. frame \in Seq(Byte) /\ cut \in Nat /\ installed \in SUBSET CallbackNames
        BY DEF Inv, TypeOK
      <4>3. FrameCalls(installed, frame, TRUE, cut) = FrameCalls(installed, frame, FALSE, cut)
        BY <4>1, <4>2, DecidedStable
      <4>4. ended = FALSE /\ ended' = TRUE
        BY <1>1, <2>2 DEF Closes, Inv, TypeOK
      <4>5. log = FrameCalls(installed, frame, FALSE, cut)
        BY <3>5, <4>4 DEF Inv, LogIsMeaning
      <4>6. log' = FrameCalls(installed', frame', ended', cut')
        BY <3>1, <3>2, <4>3, <4>4, <4>5
      <4> QED
        BY <3>1, <3>5, <4>6 DEF LogIsMeaning
    <3> QED
      BY <1>1, <3>3, <3>4, <3>5
  <2> QED
    BY <2>1, <2>2
<1>4. ended'
  BY <1>1 DEF Closes
<1> QED
  BY <1>1, <1>2, <1>3, <1>4 DEF Inv, WaitInv, ReadInv, StreamInv, AbortInv

-----------------------------------------------------------------------------
(* Theorems *)

\* The invariant holds in every reachable state: what is left in the decoder's
\* variables between two bytes is what the frame so far says, and no more.
THEOREM Invariance == Spec => []Inv
<1>1. Inv /\ [Next]_vars => Inv'
  <2> SUFFICES ASSUME Inv, [Next]_vars PROVE Inv'
    OBVIOUS
  <2>1. CASE UNCHANGED vars
    BY <2>1 DEF vars, decoder, history, Inv, TypeOK, LogIsMeaning, WaitInv, ReadInv,
                StreamInv, AbortInv, Remembers
  <2>2. ASSUME NEW n \in 1 .. MaxWrite, Write(n) PROVE Inv'
    BY <2>2, WriteInv, BoundsAssumption
  <2>3. ASSUME NEW b \in Headers,
               \/ PutUnknown(b)
               \/ \E verdict \in Verdict : PutStream(b, verdict)
               \/ PutFixed(b)
               \/ PutIgnored(b)
        PROVE  Inv'
    <3>1. b \in Byte
      BY HeadersAssumption
    <3> QED
      BY <2>3, <3>1, PutUnknownInv, PutStreamInv, PutFixedInv, PutIgnoredInv
  <2>4. ASSUME NEW b \in Payload,
               \/ PutSmall(b)
               \/ PutTooMany(b)
               \/ PutData(b)
               \/ PutDataAborted(b)
               \/ PutIgnored(b)
        PROVE  Inv'
    <3>1. b \in Byte
      BY PayloadAssumption
    <3> QED
      BY <2>4, <3>1, PutSmallInv, PutTooManyInv, PutDataInv, PutDataAbortedInv,
         PutIgnoredInv
  <2>5. CASE Put
    BY <2>3, <2>4, <2>5 DEF Put
  <2>6. CASE Start
    BY <2>6, StartInv
  <2>7. CASE End
    BY <2>7, EndFixedInv, EndWrongLengthInv, EndStreamInv, EndStreamAbortedInv,
       EndNothingInv DEF End
  <2> QED
    BY <2>1, <2>2, <2>5, <2>6, <2>7 DEF Next
<1> QED
  BY <1>1, InitInv, PTL DEF Spec

\* Type correctness, and no write past the end of smallbuf, for every stream of
\* bytes a host can send.
THEOREM TypeCorrect == Spec => []TypeOK
<1>1. Inv => TypeOK
  BY DEF Inv
<1> QED
  BY <1>1, Invariance, PTL

\* The decoder, which sees one byte at a time and keeps its variables from
\* frame to frame, makes exactly the calls the frame alone calls for.
THEOREM Meaning == Spec => []LogIsMeaning
<1>1. Inv => LogIsMeaning
  BY DEF Inv
<1> QED
  BY <1>1, Invariance, PTL

\* At most one frame is ignored, and only after a refused tx_end.
THEOREM Deafness == Spec => DeafForOneFrame
<1> DEFINE Deaf == /\ (muted' /\ ~muted) => (ended /\ cut = Len(frame) + 1)
                   /\ (muted /\ ended /\ ended # ended') => ~muted'
<1>1. Inv /\ [Next]_vars => [Deaf]_vars
  <2> SUFFICES ASSUME Inv, Next PROVE Deaf
    OBVIOUS
  <2>1. (ended /\ state = "ABORT") => (~muted /\ cut = Len(frame) + 1)
    BY DEF Inv, AbortInv
  <2>2. \/ muted' = (IF ended THEN state = "ABORT" ELSE muted)
        \/ ~muted'
        \/ muted' = muted /\ ended' = ended
    BY DEF Next, Put, End, PutUnknown, PutStream, PutFixed, PutIgnored, PutSmall,
           PutTooMany, PutData, PutDataAborted, EndFixed, EndWrongLength, EndStream,
           EndStreamAborted, EndNothing, Start, Write, Returns, Closes, history
  <2>3. CASE muted' = (IF ended THEN state = "ABORT" ELSE muted)
    BY <2>1, <2>3
  <2> QED
    BY <2>2, <2>3
<1> QED
  BY <1>1, Invariance, PTL DEF Spec, DeafForOneFrame

=============================================================================
