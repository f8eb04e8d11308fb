-------------------------- MODULE EventDecoderProofs --------------------------
(***************************************************************************)
(* Proofs about EventDecoder for every set of header and payload bytes,    *)
(* every choice of callbacks and every bound.                              *)
(*                                                                         *)
(* The argument is that of CommandDecoderProofs, and differs from it where *)
(* the decoders do: a payload is bounded by the length of its event, and   *)
(* byte_index is the number of a stream's bytes only when the stream has   *)
(* its start and its data callback, which is why the meaning of a frame is *)
(* proved for Complete receivers and the rest for all of them.             *)
(***************************************************************************)
EXTENDS EventDecoder, SequenceTheorems, TLAPS

\* A frame whose header is in, and what the decoder remembers of it.
Remembers ==
    /\ ~ended
    /\ ~muted
    /\ cut = 0
    /\ frame # << >>
    /\ interface = InterfaceOf(frame[1])
    /\ opcode = OpcodeOf(frame[1])
    /\ payload_index = Len(frame) - 1

WaitInv == (state = "WAIT_EVENT" /\ ~ended) =>
    (frame = << >> /\ ~muted /\ log = << >>)

ReadInv == state = "READ_FIXED" =>
    /\ Remembers
    /\ log = << >>
    /\ opcode_length = EventLength(opcode)
    /\ payload_index = 1 => smallbuf[0] = frame[2]

\* The counter counts this stream's bytes if both callbacks that move it exist.
StreamInv == state = "STREAM_DATA" =>
    /\ Remembers
    /\ EventLength(opcode) = -1
    /\ (StartOf(opcode) \in installed /\ DataOf(opcode) \in installed) =>
          byte_index = payload_index

\* Why the calls of an abandoned frame no longer depend on what follows.
Decided(f, c) ==
    /\ f # << >>
    /\ LET length == EventLength(OpcodeOf(f[1]))
       IN  \/ length = -2
           \/ length >= 0 /\ Len(f) - 1 > length
           \/ length = -1 /\ c \in 1 .. Len(f)

AbortInv == state = "ABORT" =>
    /\ (~ended /\ ~muted) => Decided(frame, cut)
    /\ ended => /\ ~muted
                /\ frame # << >>
                /\ EventLength(OpcodeOf(frame[1])) = -1
                /\ cut = Len(frame) + 1

EvInv ==
    /\ TypeOK
    /\ LogIsMeaning
    /\ NoSilentLoss
    /\ WaitInv
    /\ ReadInv
    /\ StreamInv
    /\ AbortInv

-----------------------------------------------------------------------------
(* Lemmas about the frame format *)

\* A byte is an integer.
LEMMA ByteInt == \A x \in Byte : x \in Int
  BY DEF Byte

\* Concatenation of calls is associative.
LEMMA Regroup ==
    ASSUME NEW s \in Seq(EventCallback), NEW t \in Seq(EventCallback),
           NEW u \in Seq(EventCallback)
    PROVE  (s \o t) \o u = s \o (t \o u)
<1> HIDE DEF EventCallback
<1> QED
  BY ConcatAssociative

\* The two halves of a header byte are nibbles.
LEMMA HeaderNibbles ==
    ASSUME NEW b \in Byte
    PROVE  InterfaceOf(b) \in 0 .. 15 /\ OpcodeOf(b) \in 0 .. 15
  BY DEF Byte, InterfaceOf, OpcodeOf

\* The payload lengths rnode_event_opcode_length can return.
LEMMA LengthRange == \A o : EventLength(o) \in {-2, -1, 0, 1}
  BY DEF EventLength

\* Calling a callback that may be NULL extends the log by callbacks.
LEMMA CallType ==
    ASSUME NEW inst, NEW name \in EventNames, NEW args \in Seq(Int)
    PROVE  Call(inst, name, args) \in Seq(EventCallback)
<1> DEFINE c == [cb |-> name, args |-> args]
<1>1. c \in EventCallback
  BY DEF EventCallback
<1> HIDE DEF c
<1>2. <<c>> \in Seq(EventCallback)
  BY <1>1
<1>3. << >> \in Seq(EventCallback)
  OBVIOUS
<1> QED
  BY <1>2, <1>3 DEF Call, c

\* The error callback's arguments are integers.
LEMMA ErrorType ==
    ASSUME NEW inst, NEW i \in Int, NEW o \in Int, NEW index \in Int, NEW st \in Int
    PROVE  Call(inst, "error", <<i, o, index, st>>) \in Seq(EventCallback)
<1>1. <<i, o, index, st>> \in Seq(Int)
  OBVIOUS
<1> QED
  BY <1>1, CallType DEF EventNames

\* The arguments of every fixed-length event are integers.
LEMMA EventCallType ==
    ASSUME NEW inst, NEW i \in 0 .. 15, NEW o, NEW w \in Word
    PROVE  EventCall(inst, i, o, w) \in Seq(EventCallback)
<1>1. w[4] \in Int /\ Int8(w) \in Int /\ i \in Int
  BY DEF Word, Byte, Int8
<1>2. <<i, Int8(w)>> \in Seq(Int) /\ <<i, w[4]>> \in Seq(Int) /\ << >> \in Seq(Int)
  BY <1>1
<1>3. /\ Call(inst, "rssi", <<i, Int8(w)>>) \in Seq(EventCallback)
      /\ Call(inst, "snr", <<i, Int8(w)>>) \in Seq(EventCallback)
      /\ Call(inst, "platform", <<i, w[4]>>) \in Seq(EventCallback)
      /\ Call(inst, "mcu", <<i, w[4]>>) \in Seq(EventCallback)
      /\ Call(inst, "blink", << >>) \in Seq(EventCallback)
  BY <1>2, CallType DEF EventNames
<1> QED
  BY <1>3 DEF EventCall

\* The shifting loop of fixed_length_event yields the one byte there is.
LEMMA LoopIsByte ==
    ASSUME NEW buf \in [0 .. 3 -> Byte], NEW n \in {0, 1}
    PROVE  /\ BigEndian(buf, n) = WordOfByte(IF n = 0 THEN 0 ELSE buf[0])
           /\ BigEndian(buf, n) \in Word
<1>1. CASE n = 0
  BY <1>1, SMTT(30) DEF BigEndian, ShiftIn, WordOfByte, Word, Byte
<1>2. CASE n = 1
  BY <1>2, SMTT(30) DEF BigEndian, ShiftIn, WordOfByte, Word, Byte
<1> QED
  BY <1>1, <1>2

\* The callbacks of either stream are callbacks the program knows.
LEMMA StreamNames ==
    ASSUME NEW o
    PROVE  /\ StartOf(o) \in EventNames
           /\ DataOf(o) \in EventNames
           /\ EndOf(o) \in EventNames
           /\ \E family \in {RxNames, TxNames} :
                 {StartOf(o), DataOf(o), EndOf(o)} = family
  BY DEF StartOf, DataOf, EndOf, EventNames, RxNames, TxNames

\* A stream of a Complete receiver has all its callbacks, or none.
LEMMA AllOrNone ==
    ASSUME NEW inst, Complete(inst), NEW o
    PROVE  \/ StartOf(o) \in inst /\ DataOf(o) \in inst /\ EndOf(o) \in inst
           \/ StartOf(o) \notin inst /\ DataOf(o) \notin inst /\ EndOf(o) \notin inst
<1>1. PICK family \in {RxNames, TxNames} : {StartOf(o), DataOf(o), EndOf(o)} = family
  BY StreamNames
<1>2. family \subseteq inst \/ family \cap inst = {}
  BY <1>1 DEF Complete
<1>3. StartOf(o) \in family /\ DataOf(o) \in family /\ EndOf(o) \in family
  BY <1>1
<1> QED
  BY <1>2, <1>3

\* What a stream has called for by its header and its first m bytes.
StreamHead(inst, f, m) ==
    Call(inst, StartOf(OpcodeOf(f[1])), <<InterfaceOf(f[1])>>) \o EventBytes(inst, f, m)

\* The calls of a stream are callbacks the program knows.
LEMMA StreamType ==
    ASSUME NEW inst, NEW f \in Seq(Byte), f # << >>, NEW m \in Nat, m < Len(f)
    PROVE  /\ Call(inst, StartOf(OpcodeOf(f[1])), <<InterfaceOf(f[1])>>)
                \in Seq(EventCallback)
           /\ EventBytes(inst, f, m) \in Seq(EventCallback)
           /\ StreamHead(inst, f, m) \in Seq(EventCallback)
<1> DEFINE i == InterfaceOf(f[1])
           name == DataOf(OpcodeOf(f[1]))
           start == Call(inst, StartOf(OpcodeOf(f[1])), <<i>>)
<1>1. i \in Int
  BY HeaderNibbles
<1>2. start \in Seq(EventCallback)
  BY <1>1, CallType, StreamNames, <<i>> \in Seq(Int)
<1>3. \A k \in 1 .. m : <<i, f[k + 1], k - 1>> \in Seq(Int)
  <2> SUFFICES ASSUME NEW k \in 1 .. m PROVE <<i, f[k + 1], k - 1>> \in Seq(Int)
    OBVIOUS
  <2>1. k + 1 \in 1 .. Len(f) /\ k - 1 \in Int
    OBVIOUS
  <2>2. f[k + 1] \in Byte
    BY <2>1
  <2>3. f[k + 1] \in Int
    BY <2>2, ByteInt
  <2> QED
    BY <1>1, <2>1, <2>3
<1>n. name \in EventNames
  BY StreamNames
<1>4. EventBytes(inst, f, m) \in Seq(EventCallback)
  <2> DEFINE c(k) == [cb |-> name, args |-> <<i, f[k + 1], k - 1>>]
  <2>1. \A k \in 1 .. m : c(k) \in EventCallback
    <3> HIDE DEF i, name
    <3> QED BY <1>3, <1>n DEF EventCallback
  <2>2. EventBytes(inst, f, m) = IF name \in inst THEN [k \in 1 .. m |-> c(k)] ELSE << >>
    BY DEF EventBytes
  <2> HIDE DEF c, name
  <2>3. [k \in 1 .. m |-> c(k)] \in Seq(EventCallback)
    BY <2>1
  <2>4. << >> \in Seq(EventCallback)
    OBVIOUS
  <2> QED
    BY <2>2, <2>3, <2>4
<1>5. StreamHead(inst, f, m) = start \o EventBytes(inst, f, m)
  BY DEF StreamHead
<1> HIDE DEF start, EventCallback
<1>6. start \o EventBytes(inst, f, m) \in Seq(EventCallback)
  BY <1>2, <1>4, ConcatProperties
<1> QED
  BY <1>2, <1>4, <1>5, <1>6 DEF start

\* The callbacks of a stream so far do not change when another byte arrives,
LEMMA StreamPrefix ==
    ASSUME NEW inst, NEW f \in Seq(Byte), f # << >>, NEW b \in Byte,
           NEW m \in Nat, m < Len(f)
    PROVE  StreamHead(inst, Append(f, b), m) = StreamHead(inst, f, m)
<1>1. Append(f, b)[1] = f[1]
  OBVIOUS
<1>2. \A k \in 1 .. m : Append(f, b)[k + 1] = f[k + 1]
  OBVIOUS
<1>3. EventBytes(inst, Append(f, b), m) = EventBytes(inst, f, m)
  BY <1>1, <1>2 DEF EventBytes
<1> QED
  BY <1>1, <1>3 DEF StreamHead

\* and that byte adds one data callback with the next index.
LEMMA StreamGrows ==
    ASSUME NEW inst, NEW f \in Seq(Byte), f # << >>, NEW b \in Byte
    PROVE  StreamHead(inst, Append(f, b), Len(f)) =
             StreamHead(inst, f, Len(f) - 1)
               \o Call(inst, DataOf(OpcodeOf(f[1])), <<InterfaceOf(f[1]), b, Len(f) - 1>>)
<1> DEFINE g == Append(f, b)
           i == InterfaceOf(f[1])
           name == DataOf(OpcodeOf(f[1]))
           start == Call(inst, StartOf(OpcodeOf(f[1])), <<i>>)
           c(k) == [cb |-> name, args |-> <<i, g[k + 1], k - 1>>]
           n == Len(f) - 1
<1>1. n \in Nat /\ g \in Seq(Byte) /\ g[1] = f[1] /\ g[n + 2] = b /\ Len(f) = n + 1
  OBVIOUS
<1>2. \A k \in 1 .. n : g[k + 1] = f[k + 1]
  OBVIOUS
<1>3. StreamHead(inst, g, n + 1) = start \o EventBytes(inst, g, n + 1)
  BY <1>1 DEF StreamHead
<1>4. EventBytes(inst, g, n + 1) = EventBytes(inst, f, n) \o Call(inst, name, <<i, b, n>>)
  <2>1. CASE name \in inst
    <3>1. EventBytes(inst, f, n) = [k \in 1 .. n |-> c(k)]
      BY <1>1, <1>2, <2>1 DEF EventBytes
    <3>2. EventBytes(inst, g, n + 1) = [k \in 1 .. n + 1 |-> c(k)]
      BY <1>1, <2>1 DEF EventBytes
    <3>3. c(n + 1) = [cb |-> name, args |-> <<i, b, n>>]
      <4>1. g[(n + 1) + 1] = b /\ (n + 1) - 1 = n
        BY <1>1
      <4> QED
        BY <4>1
    <3>4. Call(inst, name, <<i, b, n>>) = << c(n + 1) >>
      BY <2>1, <3>3 DEF Call
    <3> HIDE DEF c, n, g, name
    <3>5. [k \in 1 .. n + 1 |-> c(k)] = [k \in 1 .. n |-> c(k)] \o << c(n + 1) >>
      BY <1>1
    <3> QED
      BY <3>1, <3>2, <3>4, <3>5
  <2>2. CASE name \notin inst
    BY <2>2, <1>1 DEF EventBytes, Call
  <2> QED
    BY <2>1, <2>2
<1>5. Call(inst, name, <<i, b, n>>) \in Seq(EventCallback)
  <2>1. i \in Int
    BY HeaderNibbles
  <2>2. <<i, b, n>> \in Seq(Int)
    BY <1>1, <2>1, ByteInt
  <2> QED
    BY <2>2, CallType, StreamNames
<1>6. start \in Seq(EventCallback) /\ EventBytes(inst, f, n) \in Seq(EventCallback)
  BY <1>1, StreamType
<1>7. StreamHead(inst, f, n) = start \o EventBytes(inst, f, n)
  BY DEF StreamHead
<1> HIDE DEF n, g, i, name, start
<1>8. (start \o EventBytes(inst, f, n)) \o Call(inst, name, <<i, b, n>>)
      = start \o (EventBytes(inst, f, n) \o Call(inst, name, <<i, b, n>>))
  BY <1>5, <1>6, Regroup
<1>9. StreamHead(inst, g, n + 1)
        = StreamHead(inst, f, n) \o Call(inst, name, <<i, b, n>>)
  BY <1>3, <1>4, <1>7, <1>8
<1> QED
  BY <1>1, <1>9 DEF n, g, i, name

-----------------------------------------------------------------------------
(* Lemmas about what a frame means *)

\* What a stream calls for, by where it was cut and whether it has ended.
LEMMA StreamMeaning ==
    ASSUME NEW inst, NEW f, f # << >>, Len(f) \in Nat, NEW e, NEW c \in Nat,
           EventLength(OpcodeOf(f[1])) = -1
    PROVE  LET i == InterfaceOf(f[1])
               o == OpcodeOf(f[1])
               n == Len(f) - 1
               close == Call(inst, EndOf(o), <<i, n>>)
               error(k) == Call(inst, "error", <<i, o, k, ABORTED>>)
               calls == EventCalls(inst, f, e, c)
           IN  /\ c \in 1 .. Len(f) =>
                     calls = StreamHead(inst, f, c - 1) \o error(c - 2)
               /\ (c = 0 /\ ~e) => calls = StreamHead(inst, f, n)
               /\ (c = 0 /\ e) => calls = StreamHead(inst, f, n) \o close
               /\ c > Len(f) => calls = (StreamHead(inst, f, n) \o close) \o error(n)
<1> DEFINE i == InterfaceOf(f[1])
           o == OpcodeOf(f[1])
           n == Len(f) - 1
           close == Call(inst, EndOf(o), <<i, n>>)
           error(k) == Call(inst, "error", <<i, o, k, ABORTED>>)
<1>1. EventCalls(inst, f, e, c) = EventStreamCalls(inst, f, e, c)
  BY DEF EventCalls
<1>2. ASSUME c \in 1 .. Len(f)
      PROVE  EventStreamCalls(inst, f, e, c) = StreamHead(inst, f, c - 1) \o error(c - 2)
  <2>1. StreamHead(inst, f, c - 1)
          = Call(inst, StartOf(o), <<i>>) \o EventBytes(inst, f, c - 1)
    BY DEF StreamHead
  <2>2. EventStreamCalls(inst, f, e, c)
          = (Call(inst, StartOf(o), <<i>>) \o EventBytes(inst, f, c - 1)) \o error(c - 2)
    BY <1>2, SMTT(30) DEF EventStreamCalls
  <2> QED
    BY <2>1, <2>2
<1>3. ASSUME c = 0, ~e
      PROVE  EventStreamCalls(inst, f, e, c) = StreamHead(inst, f, n)
  <2>1. c \notin 1 .. Len(f)
    BY <1>3
  <2> QED
    BY <1>3, <2>1 DEF EventStreamCalls, StreamHead
<1>4. ASSUME c = 0, e
      PROVE  EventStreamCalls(inst, f, e, c) = StreamHead(inst, f, n) \o close
  <2>1. c \notin 1 .. Len(f)
    BY <1>4
  <2> QED
    BY <1>4, <2>1 DEF EventStreamCalls, StreamHead
<1>5. ASSUME c > Len(f)
      PROVE  EventStreamCalls(inst, f, e, c) = (StreamHead(inst, f, n) \o close) \o error(n)
  <2>1. c \notin 1 .. Len(f) /\ c # 0
    BY <1>5
  <2> QED
    BY <2>1 DEF EventStreamCalls, StreamHead
<1> QED
  BY <1>1, <1>2, <1>3, <1>4, <1>5

\* In particular, what a stream that is still open has called for.
LEMMA StreamOpen ==
    ASSUME NEW inst, NEW f, f # << >>, Len(f) \in Nat, NEW e, ~e,
           EventLength(OpcodeOf(f[1])) = -1
    PROVE  EventCalls(inst, f, e, 0) = StreamHead(inst, f, Len(f) - 1)
<1>1. 0 \in Nat
  OBVIOUS
<1> QED
  BY <1>1, StreamMeaning

\* A stream cut short is its start, its bytes before the cut, and an error.
LEMMA CutMeaning ==
    ASSUME NEW inst, NEW f, f # << >>, Len(f) \in Nat, NEW c \in 1 .. Len(f),
           EventLength(OpcodeOf(f[1])) = -1, NEW e
    PROVE  EventCalls(inst, f, e, c)
             = StreamHead(inst, f, c - 1)
                 \o Call(inst, "error", <<InterfaceOf(f[1]), OpcodeOf(f[1]), c - 2, ABORTED>>)
<1>1. c \in Nat
  OBVIOUS
<1> QED
  BY <1>1, StreamMeaning

\* What a frame of a fixed length calls for, by its length.
LEMMA FixedMeaning ==
    ASSUME NEW inst, NEW f, f # << >>, Len(f) \in Nat, NEW e, NEW c,
           EventLength(OpcodeOf(f[1])) >= 0
    PROVE  LET i == InterfaceOf(f[1])
               o == OpcodeOf(f[1])
               n == Len(f) - 1
               max == EventLength(o)
               error(k) == Call(inst, "error", <<i, o, k, INVALID_LENGTH>>)
               calls == EventCalls(inst, f, e, c)
           IN  /\ n > max => calls = error(max)
               /\ (n < max /\ e) => calls = error(n)
               /\ (n = max /\ e) =>
                     calls = EventCall(inst, i, o, WordOfByte(IF n = 0 THEN 0 ELSE f[2]))
               /\ (n <= max /\ ~e) => calls = << >>
<1>1. EventLength(OpcodeOf(f[1])) \in {0, 1}
  BY LengthRange
<1>2. EventCalls(inst, f, e, c) = EventFixedCalls(inst, f, e)
  BY <1>1 DEF EventCalls
<1> QED
  BY <1>1, <1>2 DEF EventFixedCalls

\* Once a frame is decided, neither another byte nor its end adds a call.
LEMMA DecidedStable ==
    ASSUME NEW inst, NEW f \in Seq(Byte), NEW c \in Nat, Decided(f, c)
    PROVE  /\ EventCalls(inst, f, TRUE, c) = EventCalls(inst, f, FALSE, c)
           /\ \A b \in Byte :
                 /\ EventCalls(inst, Append(f, b), FALSE, c) = EventCalls(inst, f, FALSE, c)
                 /\ Decided(Append(f, b), c)
<1> DEFINE length == EventLength(OpcodeOf(f[1]))
<1>1. f # << >> /\ Len(f) \in Nat
  BY DEF Decided
<1>2. ASSUME NEW b \in Byte
      PROVE  /\ Append(f, b) # << >>
             /\ Append(f, b)[1] = f[1]
             /\ Len(Append(f, b)) = Len(f) + 1
             /\ Decided(Append(f, b), c)
  <2>1. /\ Append(f, b) # << >>
        /\ Append(f, b)[1] = f[1]
        /\ Len(Append(f, b)) = Len(f) + 1
    BY <1>1
  <2>2. EventLength(OpcodeOf(f[1])) \in {-2, -1, 0, 1}
    BY LengthRange
  <2> QED
    BY <1>1, <2>1, <2>2 DEF Decided
<1>3. CASE length = -2
  <2>1. ASSUME NEW g, g # << >>, g[1] = f[1], NEW e
        PROVE  EventCalls(inst, g, e, c)
                 = Call(inst, "error", <<InterfaceOf(f[1]), OpcodeOf(f[1]), 0,
                                         UNKNOWN_OPCODE>>)
    <3>1. EventLength(OpcodeOf(g[1])) = -2
      BY <1>3, <2>1
    <3> QED
      BY <2>1, <3>1 DEF EventCalls
  <2> QED
    BY <1>1, <1>2, <2>1
<1>4. CASE length >= 0 /\ Len(f) - 1 > length
  <2>1. length \in {0, 1}
    BY <1>4, LengthRange
  <2>2. ASSUME NEW g, g # << >>, Len(g) \in Nat, Len(g) >= Len(f), g[1] = f[1], NEW e
        PROVE  EventCalls(inst, g, e, c)
                 = Call(inst, "error", <<InterfaceOf(f[1]), OpcodeOf(f[1]), length,
                                         INVALID_LENGTH>>)
    <3>1. Len(g) - 1 > EventLength(OpcodeOf(g[1])) /\ EventLength(OpcodeOf(g[1])) >= 0
      BY <1>1, <1>4, <2>1, <2>2
    <3>2. EventCalls(inst, g, e, c)
            = Call(inst, "error", <<InterfaceOf(g[1]), OpcodeOf(g[1]),
                                    EventLength(OpcodeOf(g[1])), INVALID_LENGTH>>)
      BY <2>2, <3>1, FixedMeaning, ZenonT(60)
    <3> QED
      BY <2>2, <3>2
  <2>3. ASSUME NEW b \in Byte
        PROVE  EventCalls(inst, Append(f, b), FALSE, c) = EventCalls(inst, f, FALSE, c)
    <3> DEFINE g == Append(f, b)
    <3>1. /\ Len(g) \in Nat /\ Len(g) >= Len(f) /\ g # << >> /\ g[1] = f[1]
          /\ Len(f) >= Len(f)
      BY <1>1, <1>2
    <3> HIDE DEF g
    <3>2. EventCalls(inst, g, FALSE, c) = EventCalls(inst, f, FALSE, c)
      BY <1>1, <2>2, <3>1
    <3> QED
      BY <3>2 DEF g
  <2>4. EventCalls(inst, f, TRUE, c) = EventCalls(inst, f, FALSE, c)
    <3>1. Len(f) >= Len(f)
      BY <1>1
    <3> QED
      BY <1>1, <2>2, <3>1
  <2> QED
    BY <1>2, <2>3, <2>4
<1>5. CASE length = -1 /\ c \in 1 .. Len(f)
  <2>1. \A e : EventCalls(inst, f, e, c)
                 = StreamHead(inst, f, c - 1)
                     \o Call(inst, "error", <<InterfaceOf(f[1]), OpcodeOf(f[1]), c - 2,
                                              ABORTED>>)
    BY <1>1, <1>5, CutMeaning
  <2>2. ASSUME NEW b \in Byte
        PROVE  EventCalls(inst, Append(f, b), FALSE, c) = EventCalls(inst, f, FALSE, c)
    <3>1. StreamHead(inst, Append(f, b), c - 1) = StreamHead(inst, f, c - 1)
      BY <1>1, <1>5, StreamPrefix
    <3> DEFINE g == Append(f, b)
    <3>2. /\ c \in 1 .. Len(g) /\ Len(g) \in Nat /\ g # << >> /\ g[1] = f[1]
          /\ EventLength(OpcodeOf(g[1])) = -1
      BY <1>1, <1>2, <1>5
    <3> HIDE DEF g
    <3>3. \A e : EventCalls(inst, g, e, c)
            = StreamHead(inst, g, c - 1)
                \o Call(inst, "error", <<InterfaceOf(g[1]), OpcodeOf(g[1]), c - 2, ABORTED>>)
      BY <3>2, CutMeaning
    <3> QED
      BY <2>1, <3>1, <3>2, <3>3 DEF g
  <2> QED
    BY <1>2, <2>1, <2>2
<1> QED
  BY <1>3, <1>4, <1>5 DEF Decided

\* A sequence of calls that error_cb was added to ends in it.
LEMMA LastIsError ==
    ASSUME NEW s \in Seq(EventCallback), NEW inst, "error" \in inst, NEW args \in Seq(Int)
    PROVE  LET t == s \o Call(inst, "error", args)
           IN  t # << >> /\ t[Len(t)].cb = "error"
<1> DEFINE c == [cb |-> "error", args |-> args]
           t == s \o Call(inst, "error", args)
<1>1. c \in EventCallback /\ c.cb = "error"
  BY DEF EventCallback, EventNames
<1>2. t = s \o << c >>
  BY DEF Call
<1> HIDE DEF c, EventCallback
<1>3. Len(s \o << c >>) = Len(s) + 1 /\ Len(s) \in Nat /\ (s \o << c >>)[Len(s) + 1] = c
  BY <1>1
<1>4. t # << >>
  BY <1>2, <1>3
<1> QED
  BY <1>1, <1>2, <1>3, <1>4

-----------------------------------------------------------------------------
(* The invariant: initialisation, and put of a header *)

\* The codes put and end return are status codes.
LEMMA StatusCodes ==
    /\ OK \in Status /\ ABORTED \in Status /\ INVALID_LENGTH \in Status
    /\ UNKNOWN_OPCODE \in Status
    /\ ABORTED \in Int /\ INVALID_LENGTH \in Int /\ UNKNOWN_OPCODE \in Int
  BY DEF Status, OK, ABORTED, INVALID_LENGTH, UNKNOWN_OPCODE, INVALID_ARGUMENT

\* A freshly initialised decoder satisfies the invariant.
LEMMA InitInv == Init => EvInv
<1> SUFFICES ASSUME Init PROVE EvInv
  OBVIOUS
<1>1. TypeOK
  <2>1. interface \in 0 .. 15 /\ opcode \in 0 .. 15
    BY HeaderNibbles, EventHeadersAssumption DEF Init
  <2>2. smallbuf \in [0 .. 3 -> Byte] /\ installed \in SUBSET EventNames
    BY EventPayloadAssumption, EventSinksAssumption DEF Init
  <2>3. frame \in Seq(Byte) /\ log \in Seq(EventCallback)
    <3> HIDE DEF EventCallback, Byte
    <3> QED BY EmptySeq DEF Init
  <2>4. ended \in BOOLEAN /\ muted \in BOOLEAN
    BY DEF Init
  <2> QED
    BY <2>1, <2>2, <2>3, <2>4, StatusCodes DEF Init, TypeOK
<1>2. LogIsMeaning
  BY DEF Init, LogIsMeaning, EventCalls
<1> QED
  BY <1>1, <1>2 DEF EvInv, Init, WaitInv, ReadInv, StreamInv, AbortInv, NoSilentLoss

\* Types of what every put sets, whatever its branch.
LEMMA ReturnsType ==
    ASSUME TypeOK, NEW b \in Byte, NEW calls \in Seq(EventCallback), NEW st \in Status,
           Returns(b, calls, st)
    PROVE  /\ frame' \in Seq(Byte) /\ log' \in Seq(EventCallback)
           /\ ended' \in BOOLEAN /\ muted' \in BOOLEAN
           /\ status' \in Status /\ todo' \in Nat
           /\ installed' \in SUBSET EventNames
<1>1. frame' \in Seq(Byte)
  <2>1. <<b>> \in Seq(Byte) /\ Append(frame, b) \in Seq(Byte)
    BY DEF TypeOK
  <2> QED
    BY <2>1 DEF Returns
<1>2. log' \in Seq(EventCallback)
  <2>1. << >> \o calls \in Seq(EventCallback) /\ log \o calls \in Seq(EventCallback)
    <3> HIDE DEF EventCallback
    <3> QED BY EmptySeq, ConcatProperties DEF TypeOK
  <2> QED
    BY <2>1 DEF Returns
<1>3. ended' \in BOOLEAN
  BY DEF Returns
<1>4. muted' \in BOOLEAN
  <2>1. CASE ended
    BY <2>1 DEF Returns
  <2>2. CASE ~ended
    BY <2>2 DEF Returns, TypeOK
  <2> QED
    BY <2>1, <2>2
<1>5. status' \in Status /\ todo' \in Nat /\ installed' \in SUBSET EventNames
  BY DEF TypeOK, Returns, Status, OK
<1> QED
  BY <1>1, <1>2, <1>3, <1>4, <1>5

\* What a put of the first byte of a frame has in common, whatever its branch.
LEMMA HeaderStep ==
    ASSUME EvInv, NEW b \in Byte, NEW calls \in Seq(EventCallback), NEW st \in Status,
           Header(b), Returns(b, calls, st)
    PROVE  /\ frame' = <<b>> /\ log' = calls /\ ~ended' /\ ~muted'
           /\ frame' # << >> /\ frame'[1] = b /\ Len(frame') = 1
           /\ cut' = 0 /\ payload_index' = 0
           /\ interface' = InterfaceOf(b) /\ opcode' = OpcodeOf(b)
           /\ interface' \in 0 .. 15 /\ opcode' \in 0 .. 15
           /\ smallbuf' = smallbuf /\ installed' = installed
<1>0. ended \/ (frame = << >> /\ ~muted /\ log = << >>)
  BY DEF EvInv, WaitInv, Header
<1>1. frame' = <<b>>
  <2>1. Append(<< >>, b) = <<b>>
    OBVIOUS
  <2> QED
    BY <1>0, <2>1 DEF Returns
<1>m. ~muted'
  BY <1>0 DEF Returns, Header
<1>2. log' = calls
  <2>1. << >> \o calls = calls
    BY ConcatEmptySeq
  <2> QED
    BY <1>0, <2>1 DEF Returns
<1>4. ~ended' /\ installed' = installed
  BY DEF Returns
<1>5. /\ cut' = 0 /\ payload_index' = 0 /\ smallbuf' = smallbuf
      /\ interface' = InterfaceOf(b) /\ opcode' = OpcodeOf(b)
  BY DEF Header
<1>6. frame' # << >> /\ frame'[1] = b /\ Len(frame') = 1
  BY <1>1
<1> QED
  BY <1>1, <1>m, <1>2, <1>4, <1>5, <1>6, HeaderNibbles

\* put of a header no event has: reported at once, and the frame is decided.
LEMMA PutUnknownInv ==
    ASSUME EvInv, NEW b \in Byte, PutUnknown(b)
    PROVE  EvInv'
<1> DEFINE args == <<InterfaceOf(b), OpcodeOf(b), 0, UNKNOWN_OPCODE>>
           calls == Call(installed, "error", args)
<1>0. args \in Seq(Int)
  BY HeaderNibbles, StatusCodes
<1>1. calls \in Seq(EventCallback)
  BY <1>0, CallType DEF EventNames
<1>2. /\ Header(b) /\ Returns(b, calls, UNKNOWN_OPCODE) /\ UNKNOWN_OPCODE \in Status
      /\ EventLength(OpcodeOf(b)) = -2 /\ state' = "ABORT"
  BY StatusCodes DEF PutUnknown
<1>3. /\ frame' = <<b>> /\ log' = calls /\ ~ended' /\ ~muted'
      /\ frame' # << >> /\ frame'[1] = b
      /\ cut' = 0 /\ payload_index' = 0
      /\ interface' \in 0 .. 15 /\ opcode' \in 0 .. 15
      /\ smallbuf' = smallbuf /\ installed' = installed
  <2> HIDE DEF calls
  <2> QED BY <1>1, <1>2, HeaderStep
<1>4. TypeOK'
  <2>1. /\ opcode_length' \in 0 .. 1 /\ byte_index' \in Nat
        /\ payload_index' \in Nat /\ cut' \in Nat
        /\ smallbuf' \in [0 .. 3 -> Byte]
    BY <1>3 DEF EvInv, TypeOK, PutUnknown
  <2> HIDE DEF calls
  <2> QED
    BY <1>1, <1>2, <1>3, <2>1, ReturnsType DEF EvInv, TypeOK
<1>5. LogIsMeaning'
  <2>1. EventCalls(installed', frame', ended', cut') = calls
    BY <1>2, <1>3 DEF EventCalls
  <2> QED
    BY <1>3, <2>1 DEF LogIsMeaning
<1>6. NoSilentLoss'
  <2>1. ASSUME "error" \in installed PROVE log' # << >> /\ log'[Len(log')].cb = "error"
    <3>1. << >> \in Seq(EventCallback)
      OBVIOUS
    <3>2. << >> \o calls = calls
      <4> HIDE DEF calls, EventCallback
      <4> QED BY <1>1, ConcatEmptySeq
    <3> HIDE DEF args
    <3> QED
      BY <1>0, <1>3, <2>1, <3>1, <3>2, LastIsError
  <2> QED
    BY <1>3, <2>1 DEF NoSilentLoss
<1>7. AbortInv'
  BY <1>2, <1>3 DEF AbortInv, Decided
<1> QED
  BY <1>2, <1>4, <1>5, <1>6, <1>7 DEF EvInv, WaitInv, ReadInv, StreamInv

\* put of a stream's header resets the counter only through a start callback.
LEMMA PutStreamInv ==
    ASSUME EvInv, NEW b \in Byte, PutStream(b)
    PROVE  EvInv'
<1> DEFINE calls == Call(installed, StartOf(OpcodeOf(b)), <<InterfaceOf(b)>>)
<1>1. calls \in Seq(EventCallback)
  <2>1. <<InterfaceOf(b)>> \in Seq(Int)
    BY HeaderNibbles
  <2> QED
    BY <2>1, CallType, StreamNames
<1>2. /\ Header(b) /\ Returns(b, calls, OK) /\ OK \in Status
      /\ EventLength(OpcodeOf(b)) = -1 /\ state' = "STREAM_DATA"
  BY StatusCodes DEF PutStream
<1>3. /\ frame' = <<b>> /\ log' = calls /\ ~ended' /\ ~muted'
      /\ frame' # << >> /\ frame'[1] = b /\ Len(frame') = 1
      /\ cut' = 0 /\ payload_index' = 0
      /\ interface' = InterfaceOf(b) /\ opcode' = OpcodeOf(b)
      /\ interface' \in 0 .. 15 /\ opcode' \in 0 .. 15
      /\ smallbuf' = smallbuf /\ installed' = installed
  <2> HIDE DEF calls
  <2> QED BY <1>1, <1>2, HeaderStep
<1>4. TypeOK'
  <2>1. /\ opcode_length' \in 0 .. 1 /\ byte_index' \in Nat
        /\ payload_index' \in Nat /\ cut' \in Nat
        /\ smallbuf' \in [0 .. 3 -> Byte]
    BY <1>3 DEF EvInv, TypeOK, PutStream
  <2> HIDE DEF calls
  <2> QED
    BY <1>1, <1>2, <1>3, <2>1, ReturnsType DEF EvInv, TypeOK
<1>5. LogIsMeaning'
  <2>1. EventBytes(installed, frame', 0) = << >>
    BY DEF EventBytes
  <2>2. StreamHead(installed, frame', 0) = calls
    <3> HIDE DEF EventCallback
    <3> QED BY <1>1, <1>3, <2>1, ConcatEmptySeq DEF StreamHead
  <2>3. EventCalls(installed', frame', ended', cut')
          = StreamHead(installed', frame', Len(frame') - 1)
    BY <1>2, <1>3, StreamMeaning, ZenonT(60)
  <2> QED
    BY <1>3, <2>2, <2>3 DEF LogIsMeaning
<1>6. StreamInv'
  BY <1>2, <1>3 DEF StreamInv, Remembers, PutStream
<1> QED
  BY <1>2, <1>4, <1>5, <1>6 DEF EvInv, WaitInv, ReadInv, AbortInv, NoSilentLoss

\* put of any other header calls nothing yet.
LEMMA PutFixedInv ==
    ASSUME EvInv, NEW b \in Byte, PutFixed(b)
    PROVE  EvInv'
<1>1. << >> \in Seq(EventCallback)
  OBVIOUS
<1>2. /\ Header(b) /\ Returns(b, << >>, OK) /\ OK \in Status
      /\ EventLength(OpcodeOf(b)) \in {0, 1} /\ state' = "READ_FIXED"
      /\ opcode_length' = EventLength(OpcodeOf(b))
  BY StatusCodes, LengthRange DEF PutFixed
<1>3. /\ frame' = <<b>> /\ log' = << >> /\ ~ended' /\ ~muted'
      /\ frame' # << >> /\ frame'[1] = b /\ Len(frame') = 1
      /\ cut' = 0 /\ payload_index' = 0
      /\ interface' = InterfaceOf(b) /\ opcode' = OpcodeOf(b)
      /\ interface' \in 0 .. 15 /\ opcode' \in 0 .. 15
      /\ smallbuf' = smallbuf /\ installed' = installed
  BY <1>1, <1>2, HeaderStep
<1>4. TypeOK'
  <2>1. /\ opcode_length' \in 0 .. 1 /\ byte_index' \in Nat
        /\ payload_index' \in Nat /\ payload_index' \in 0 .. opcode_length'
        /\ cut' \in Nat /\ smallbuf' \in [0 .. 3 -> Byte]
    BY <1>2, <1>3 DEF EvInv, TypeOK, PutFixed
  <2> QED
    BY <1>1, <1>2, <1>3, <2>1, ReturnsType DEF EvInv, TypeOK
<1>5. LogIsMeaning'
  <2>1. EventLength(OpcodeOf(frame'[1])) >= 0
        /\ Len(frame') - 1 <= EventLength(OpcodeOf(frame'[1]))
    BY <1>2, <1>3
  <2>2. EventCalls(installed', frame', ended', cut') = << >>
    BY <1>3, <2>1, FixedMeaning
  <2> QED
    BY <1>3, <2>2 DEF LogIsMeaning
<1>6. ReadInv'
  BY <1>2, <1>3 DEF ReadInv, Remembers
<1> QED
  BY <1>2, <1>4, <1>5, <1>6 DEF EvInv, WaitInv, StreamInv, AbortInv, NoSilentLoss

-----------------------------------------------------------------------------
(* The invariant: put of a later byte *)

\* What a put of a later byte of a frame has in common, whatever its branch.
LEMMA BodyStep ==
    ASSUME EvInv, state \in {"READ_FIXED", "STREAM_DATA"},
           NEW b \in Byte, NEW calls, NEW st, Returns(b, calls, st)
    PROVE  /\ Remembers /\ ~ended' /\ ~muted' /\ installed' = installed
           /\ frame # << >> /\ frame \in Seq(Byte) /\ Len(frame) \in Nat \ {0}
           /\ frame' = Append(frame, b) /\ frame' # << >> /\ frame'[1] = frame[1]
           /\ Len(frame') = Len(frame) + 1 /\ frame'[Len(frame) + 1] = b
           /\ \A k \in 1 .. Len(frame) : frame'[k] = frame[k]
           /\ log' = log \o calls /\ log \in Seq(EventCallback)
<1>1. Remembers
  BY DEF EvInv, ReadInv, StreamInv
<1>2. /\ frame \in Seq(Byte) /\ frame # << >> /\ ~ended /\ ~muted
      /\ log \in Seq(EventCallback)
  BY <1>1 DEF Remembers, EvInv, TypeOK
<1>3. frame' = Append(frame, b)
  BY <1>2 DEF Returns
<1>4. ~ended' /\ ~muted' /\ installed' = installed /\ log' = log \o calls
  BY <1>2 DEF Returns
<1>5. /\ frame' # << >> /\ frame'[1] = frame[1] /\ Len(frame) \in Nat \ {0}
      /\ Len(frame') = Len(frame) + 1 /\ frame'[Len(frame) + 1] = b
      /\ \A k \in 1 .. Len(frame) : frame'[k] = frame[k]
  BY <1>2, <1>3
<1> QED
  BY <1>1, <1>2, <1>3, <1>4, <1>5

\* While a fixed-length frame is being read, its variables are the frame's.
LEMMA ReadStep ==
    ASSUME EvInv, state = "READ_FIXED"
    PROVE  /\ log = << >> /\ Remembers
           /\ interface = InterfaceOf(frame[1]) /\ opcode = OpcodeOf(frame[1])
           /\ payload_index = Len(frame) - 1 /\ Len(frame) \in Nat \ {0}
           /\ opcode_length \in {0, 1} /\ payload_index \in 0 .. opcode_length
           /\ opcode_length = EventLength(OpcodeOf(frame[1]))
           /\ interface \in 0 .. 15 /\ opcode \in 0 .. 15
           /\ smallbuf \in [0 .. 3 -> Byte]
           /\ (payload_index = 1 => smallbuf[0] = frame[2])
<1>1. /\ Remembers /\ opcode_length = EventLength(opcode) /\ log = << >>
      /\ payload_index \in 0 .. opcode_length /\ opcode_length \in 0 .. 1
      /\ interface \in 0 .. 15 /\ opcode \in 0 .. 15 /\ frame \in Seq(Byte)
      /\ smallbuf \in [0 .. 3 -> Byte]
      /\ (payload_index = 1 => smallbuf[0] = frame[2])
  BY DEF EvInv, ReadInv, TypeOK
<1>2. /\ interface = InterfaceOf(frame[1]) /\ opcode = OpcodeOf(frame[1])
      /\ payload_index = Len(frame) - 1 /\ frame # << >>
  BY <1>1 DEF Remembers
<1>3. Len(frame) \in Nat \ {0} /\ opcode_length \in {0, 1}
  BY <1>1, <1>2
<1> QED
  BY <1>1, <1>2, <1>3

\* put of the one payload byte an event can have.
LEMMA PutSmallInv ==
    ASSUME EvInv, NEW b \in Byte, PutSmall(b)
    PROVE  EvInv'
<1>1. /\ state = "READ_FIXED" /\ state' = "READ_FIXED" /\ Returns(b, << >>, OK)
      /\ OK \in Status /\ << >> \in Seq(EventCallback)
      /\ payload_index < opcode_length /\ payload_index' = payload_index + 1
      /\ smallbuf' = [smallbuf EXCEPT ![payload_index] = b]
      /\ opcode_length' = opcode_length /\ interface' = interface /\ opcode' = opcode
      /\ byte_index' = byte_index /\ cut' = cut
  BY StatusCodes DEF PutSmall
<1>2. /\ Remembers /\ ~ended' /\ ~muted' /\ installed' = installed
      /\ frame # << >> /\ frame' # << >> /\ frame'[1] = frame[1]
      /\ Len(frame) \in Nat \ {0}
      /\ Len(frame') = Len(frame) + 1 /\ frame'[Len(frame) + 1] = b
      /\ log' = log \o << >>
  BY <1>1, BodyStep
<1>3. /\ log = << >>
      /\ interface = InterfaceOf(frame[1]) /\ opcode = OpcodeOf(frame[1])
      /\ payload_index = Len(frame) - 1
      /\ opcode_length \in {0, 1} /\ payload_index \in 0 .. opcode_length
      /\ opcode_length = EventLength(OpcodeOf(frame[1]))
      /\ interface \in 0 .. 15 /\ opcode \in 0 .. 15
      /\ smallbuf \in [0 .. 3 -> Byte]
  BY <1>1, ReadStep
<1>4. payload_index = 0 /\ opcode_length = 1 /\ payload_index' = 1 /\ Len(frame) = 1
  BY <1>1, <1>2, <1>3
<1>5. /\ smallbuf' \in [0 .. 3 -> Byte] /\ smallbuf'[0] = b /\ frame'[2] = b
      /\ Len(frame') = 2
  BY <1>1, <1>2, <1>3, <1>4
<1>6. log' = << >>
  <2>1. << >> \o << >> = << >>
    OBVIOUS
  <2> QED
    BY <1>2, <1>3, <2>1
<1>7. TypeOK'
  <2>1. /\ payload_index' \in Nat /\ payload_index' \in 0 .. opcode_length'
        /\ opcode_length' \in 0 .. 1 /\ byte_index' \in Nat /\ cut' \in Nat
        /\ interface' \in 0 .. 15 /\ opcode' \in 0 .. 15
    BY <1>1, <1>3, <1>4 DEF EvInv, TypeOK
  <2> QED
    BY <1>1, <1>5, <2>1, ReturnsType DEF EvInv, TypeOK
<1>8. LogIsMeaning'
  <2>1. EventLength(OpcodeOf(frame'[1])) >= 0
        /\ Len(frame') - 1 <= EventLength(OpcodeOf(frame'[1]))
        /\ Len(frame') \in Nat
    BY <1>2, <1>3, <1>4, <1>5
  <2>2. EventCalls(installed', frame', ended', cut') = << >>
    BY <1>2, <2>1, FixedMeaning
  <2> QED
    BY <1>2, <1>6, <2>2 DEF LogIsMeaning
<1>9. ReadInv'
  <2>1. Remembers'
    BY <1>1, <1>2, <1>3, <1>4, <1>5 DEF Remembers
  <2> QED
    BY <1>1, <1>2, <1>3, <1>5, <1>6, <2>1 DEF ReadInv
<1> QED
  BY <1>1, <1>7, <1>8, <1>9 DEF EvInv, WaitInv, StreamInv, AbortInv, NoSilentLoss

\* put of a byte beyond the event's length: reported, and the frame is decided.
LEMMA PutTooManyInv ==
    ASSUME EvInv, NEW b \in Byte, PutTooMany(b)
    PROVE  EvInv'
<1> DEFINE args == <<interface, opcode, payload_index, INVALID_LENGTH>>
           calls == Call(installed, "error", args)
<1>1. /\ state = "READ_FIXED" /\ state' = "ABORT" /\ Returns(b, calls, INVALID_LENGTH)
      /\ INVALID_LENGTH \in Status /\ INVALID_LENGTH \in Int
      /\ payload_index >= opcode_length /\ payload_index' = payload_index
      /\ opcode_length' = opcode_length /\ interface' = interface /\ opcode' = opcode
      /\ smallbuf' = smallbuf /\ byte_index' = byte_index /\ cut' = cut
  BY StatusCodes DEF PutTooMany, Error
<1>2. /\ log = << >>
      /\ interface = InterfaceOf(frame[1]) /\ opcode = OpcodeOf(frame[1])
      /\ payload_index = Len(frame) - 1
      /\ opcode_length \in {0, 1} /\ payload_index \in 0 .. opcode_length
      /\ opcode_length = EventLength(OpcodeOf(frame[1]))
      /\ interface \in 0 .. 15 /\ opcode \in 0 .. 15
      /\ smallbuf \in [0 .. 3 -> Byte]
  BY <1>1, ReadStep
<1>3. payload_index = EventLength(OpcodeOf(frame[1])) /\ payload_index \in {0, 1}
  BY <1>1, <1>2
<1>4. args \in Seq(Int)
  BY <1>1, <1>2, <1>3
<1>5. calls \in Seq(EventCallback)
  <2> HIDE DEF args
  <2> QED BY <1>4, CallType DEF EventNames
<1>6. /\ Remembers /\ ~ended' /\ ~muted' /\ installed' = installed
      /\ frame # << >> /\ frame' # << >> /\ frame'[1] = frame[1]
      /\ Len(frame) \in Nat \ {0}
      /\ Len(frame') = Len(frame) + 1 /\ log' = log \o calls
  <2> HIDE DEF calls
  <2> QED BY <1>1, BodyStep
<1>7. TypeOK'
  <2>1. /\ payload_index' \in Nat /\ opcode_length' \in 0 .. 1
        /\ byte_index' \in Nat /\ cut' \in Nat
        /\ interface' \in 0 .. 15 /\ opcode' \in 0 .. 15
    BY <1>1, <1>2 DEF EvInv, TypeOK
  <2> HIDE DEF calls
  <2> QED
    BY <1>1, <1>2, <1>5, <2>1, ReturnsType DEF EvInv, TypeOK
<1>8. /\ EventLength(OpcodeOf(frame'[1])) >= 0 /\ Len(frame') \in Nat
      /\ Len(frame') - 1 > EventLength(OpcodeOf(frame'[1]))
  BY <1>2, <1>3, <1>6
<1>9. LogIsMeaning'
  <2>1. EventCalls(installed', frame', ended', cut')
          = Call(installed', "error",
                 <<InterfaceOf(frame'[1]), OpcodeOf(frame'[1]),
                   EventLength(OpcodeOf(frame'[1])), INVALID_LENGTH>>)
    BY <1>6, <1>8, FixedMeaning, ZenonT(60)
  <2>2. EventCalls(installed', frame', ended', cut') = calls
    BY <1>2, <1>3, <1>6, <2>1
  <2>3. << >> \o calls = calls
    <3> HIDE DEF calls, EventCallback
    <3> QED BY <1>5, ConcatEmptySeq
  <2> HIDE DEF calls
  <2> QED
    BY <1>2, <1>6, <2>2, <2>3 DEF LogIsMeaning
<1>10. NoSilentLoss'
  <2>1. log \in Seq(EventCallback)
    BY DEF EvInv, TypeOK
  <2> HIDE DEF args
  <2> QED
    BY <1>4, <1>6, <2>1, LastIsError DEF NoSilentLoss
<1>11. AbortInv'
  BY <1>6, <1>8 DEF AbortInv, Decided
<1> QED
  BY <1>1, <1>7, <1>9, <1>10, <1>11 DEF EvInv, WaitInv, ReadInv, StreamInv

\* What holds of every byte of a stream, aborted by its callback or not.
LEMMA StreamStep ==
    ASSUME EvInv, state = "STREAM_DATA", NEW b \in Byte
    PROVE  /\ Remembers /\ Len(frame) \in Nat \ {0}
           /\ interface = InterfaceOf(frame[1]) /\ opcode = OpcodeOf(frame[1])
           /\ payload_index = Len(frame) - 1
           /\ EventLength(OpcodeOf(frame[1])) = -1
           /\ interface \in 0 .. 15 /\ opcode \in 0 .. 15
           /\ byte_index \in Nat /\ payload_index \in Nat
           /\ StreamData(b) \in Seq(EventCallback)
           /\ Complete(installed) =>
                 /\ log = StreamHead(installed, frame, Len(frame) - 1)
                 /\ StreamHead(installed, Append(frame, b), Len(frame))
                      = log \o StreamData(b)
<1>1. /\ Remembers /\ EventLength(opcode) = -1
      /\ frame \in Seq(Byte) /\ opcode \in 0 .. 15 /\ interface \in 0 .. 15
      /\ byte_index \in Nat /\ payload_index \in Nat
  BY DEF EvInv, TypeOK, StreamInv
<1>2. /\ interface = InterfaceOf(frame[1]) /\ opcode = OpcodeOf(frame[1])
      /\ payload_index = Len(frame) - 1 /\ frame # << >> /\ cut = 0 /\ ~ended /\ ~muted
  BY <1>1 DEF Remembers
<1>3. Len(frame) \in Nat \ {0}
  BY <1>1, <1>2
<1>4. StreamData(b) \in Seq(EventCallback)
  <2>1. <<interface, b, byte_index>> \in Seq(Int)
    BY <1>1, ByteInt
  <2> QED
    BY <2>1, CallType, StreamNames DEF StreamData
<1>5. ASSUME Complete(installed)
      PROVE  /\ log = StreamHead(installed, frame, Len(frame) - 1)
             /\ StreamHead(installed, Append(frame, b), Len(frame))
                  = log \o StreamData(b)
  <2>o. Len(frame) \in Nat /\ EventLength(OpcodeOf(frame[1])) = -1
    BY <1>1, <1>2
  <2>1. EventCalls(installed, frame, ended, cut)
          = StreamHead(installed, frame, Len(frame) - 1)
    BY <1>2, <2>o, StreamOpen
  <2>2. log = StreamHead(installed, frame, Len(frame) - 1)
    BY <1>2, <1>5, <2>1 DEF EvInv, LogIsMeaning
  <2>3. StreamData(b) = Call(installed, DataOf(opcode), <<interface, b, Len(frame) - 1>>)
    <3>1. CASE DataOf(opcode) \in installed
      <4>1. StartOf(opcode) \in installed
        BY <1>5, <3>1, AllOrNone
      <4>2. byte_index = Len(frame) - 1
        BY <1>2, <3>1, <4>1 DEF EvInv, StreamInv
      <4> QED
        BY <4>2 DEF StreamData
    <3>2. CASE DataOf(opcode) \notin installed
      BY <3>2 DEF StreamData, Call
    <3> QED
      BY <3>1, <3>2
  <2>4. StreamHead(installed, Append(frame, b), Len(frame)) =
          StreamHead(installed, frame, Len(frame) - 1)
            \o Call(installed, DataOf(OpcodeOf(frame[1])),
                    <<InterfaceOf(frame[1]), b, Len(frame) - 1>>)
    BY <1>1, <1>2, StreamGrows
  <2> QED
    BY <1>2, <2>2, <2>3, <2>4
<1> QED
  BY <1>1, <1>2, <1>3, <1>4, <1>5

\* put of a byte of a stream makes exactly one more data call.
LEMMA PutDataInv ==
    ASSUME EvInv, NEW b \in Byte, PutData(b)
    PROVE  EvInv'
<1>1. /\ state = "STREAM_DATA" /\ state' = "STREAM_DATA"
      /\ Returns(b, StreamData(b), OK) /\ OK \in Status
      /\ payload_index' = payload_index + 1
      /\ byte_index' = IF DataPresent THEN byte_index + 1 ELSE byte_index
      /\ opcode_length' = opcode_length /\ interface' = interface /\ opcode' = opcode
      /\ smallbuf' = smallbuf /\ cut' = cut
  BY StatusCodes DEF PutData
<1>2. /\ Remembers /\ Len(frame) \in Nat \ {0}
      /\ interface = InterfaceOf(frame[1]) /\ opcode = OpcodeOf(frame[1])
      /\ payload_index = Len(frame) - 1
      /\ EventLength(OpcodeOf(frame[1])) = -1
      /\ byte_index \in Nat /\ payload_index \in Nat
      /\ StreamData(b) \in Seq(EventCallback)
      /\ Complete(installed) =>
            StreamHead(installed, Append(frame, b), Len(frame)) = log \o StreamData(b)
  BY <1>1, StreamStep
<1>3. /\ ~ended' /\ ~muted' /\ installed' = installed
      /\ frame' = Append(frame, b) /\ frame' # << >> /\ frame'[1] = frame[1]
      /\ Len(frame') = Len(frame) + 1
      /\ log' = log \o StreamData(b)
  BY <1>1, BodyStep
<1>4. TypeOK'
  <2>1. /\ payload_index' \in Nat /\ byte_index' \in Nat
    BY <1>1, <1>2
  <2>2. /\ opcode_length' \in 0 .. 1 /\ cut' \in Nat
        /\ interface' \in 0 .. 15 /\ opcode' \in 0 .. 15
        /\ smallbuf' \in [0 .. 3 -> Byte]
    BY <1>1 DEF EvInv, TypeOK
  <2> QED
    BY <1>1, <1>2, <2>1, <2>2, ReturnsType DEF EvInv, TypeOK
<1>5. LogIsMeaning'
  <2>1. /\ cut' = 0 /\ EventLength(OpcodeOf(frame'[1])) = -1
        /\ Len(frame') \in Nat /\ Len(frame') - 1 = Len(frame)
    BY <1>1, <1>2, <1>3 DEF Remembers
  <2>2. EventCalls(installed', frame', ended', cut')
          = StreamHead(installed', frame', Len(frame') - 1)
    BY <1>3, <2>1, StreamOpen
  <2> QED
    BY <1>2, <1>3, <2>1, <2>2 DEF LogIsMeaning
<1>6. StreamInv'
  <2>1. Remembers'
    BY <1>1, <1>2, <1>3 DEF Remembers
  <2>2. (StartOf(opcode) \in installed /\ DataOf(opcode) \in installed) =>
            byte_index = payload_index
    BY <1>1 DEF EvInv, StreamInv
  <2>3. (StartOf(opcode') \in installed' /\ DataOf(opcode') \in installed') =>
            byte_index' = payload_index'
    BY <1>1, <1>3, <2>2 DEF DataPresent
  <2> QED
    BY <1>1, <1>2, <2>1, <2>3 DEF StreamInv
<1> QED
  BY <1>1, <1>4, <1>5, <1>6 DEF EvInv, WaitInv, ReadInv, AbortInv, NoSilentLoss

\* put of a byte whose data callback asks to abort cuts the stream there.
LEMMA PutDataAbortedInv ==
    ASSUME EvInv, NEW b \in Byte, PutDataAborted(b)
    PROVE  EvInv'
<1> DEFINE args == <<interface, opcode, payload_index, ABORTED>>
           e == Call(installed, "error", args)
           calls == StreamData(b) \o e
<1>1. /\ state = "STREAM_DATA" /\ state' = "ABORT" /\ Returns(b, calls, ABORTED)
      /\ ABORTED \in Status /\ ABORTED \in Int
      /\ byte_index' = byte_index + 1 /\ cut' = Len(frame) + 1
      /\ payload_index' = payload_index
      /\ opcode_length' = opcode_length /\ interface' = interface /\ opcode' = opcode
      /\ smallbuf' = smallbuf
  BY StatusCodes DEF PutDataAborted, Error
<1>2. /\ Len(frame) \in Nat \ {0}
      /\ interface = InterfaceOf(frame[1]) /\ opcode = OpcodeOf(frame[1])
      /\ payload_index = Len(frame) - 1
      /\ EventLength(OpcodeOf(frame[1])) = -1
      /\ interface \in 0 .. 15 /\ opcode \in 0 .. 15
      /\ byte_index \in Nat /\ payload_index \in Nat
      /\ StreamData(b) \in Seq(EventCallback)
      /\ Complete(installed) =>
            StreamHead(installed, Append(frame, b), Len(frame)) = log \o StreamData(b)
  BY <1>1, StreamStep
<1>3. args \in Seq(Int)
  BY <1>1, <1>2
<1>4. e \in Seq(EventCallback)
  <2> HIDE DEF args
  <2> QED BY <1>3, CallType DEF EventNames
<1>5. calls \in Seq(EventCallback)
  <2> HIDE DEF e, EventCallback
  <2> QED BY <1>2, <1>4, ConcatProperties
<1>6. /\ ~ended' /\ ~muted' /\ installed' = installed
      /\ frame' = Append(frame, b) /\ frame' # << >> /\ frame'[1] = frame[1]
      /\ Len(frame') = Len(frame) + 1
      /\ log' = log \o calls /\ log \in Seq(EventCallback)
  <2> HIDE DEF calls
  <2> QED BY <1>1, BodyStep
<1>7. log' = (log \o StreamData(b)) \o e
  <2>1. (log \o StreamData(b)) \o e = log \o (StreamData(b) \o e)
    <3> HIDE DEF e
    <3> QED BY <1>2, <1>4, <1>6, Regroup
  <2> QED
    BY <1>6, <2>1
<1>8. TypeOK'
  <2>1. /\ payload_index' \in Nat /\ byte_index' \in Nat /\ cut' \in Nat
    BY <1>1, <1>2
  <2>2. /\ opcode_length' \in 0 .. 1
        /\ interface' \in 0 .. 15 /\ opcode' \in 0 .. 15
        /\ smallbuf' \in [0 .. 3 -> Byte]
    BY <1>1 DEF EvInv, TypeOK
  <2> HIDE DEF calls
  <2> QED
    BY <1>1, <1>5, <2>1, <2>2, ReturnsType DEF EvInv, TypeOK
<1>9. LogIsMeaning'
  <2>1. /\ cut' \in 1 .. Len(frame') /\ cut' - 1 = Len(frame) /\ cut' - 2 = payload_index
        /\ EventLength(OpcodeOf(frame'[1])) = -1 /\ Len(frame') \in Nat /\ cut' \in Nat
    BY <1>1, <1>2, <1>6, SMTT(30)
  <2>2. EventCalls(installed', frame', ended', cut')
          = StreamHead(installed', frame', cut' - 1)
              \o Call(installed', "error",
                      <<InterfaceOf(frame'[1]), OpcodeOf(frame'[1]), cut' - 2, ABORTED>>)
    BY <1>6, <2>1, StreamMeaning, ZenonT(60)
  <2>3. Call(installed', "error",
             <<InterfaceOf(frame'[1]), OpcodeOf(frame'[1]), cut' - 2, ABORTED>>) = e
    BY <1>2, <1>6, <2>1
  <2> HIDE DEF e
  <2> QED
    BY <1>2, <1>6, <1>7, <2>1, <2>2, <2>3 DEF LogIsMeaning
<1>10. NoSilentLoss'
  <2>1. log \o StreamData(b) \in Seq(EventCallback)
    <3> HIDE DEF EventCallback
    <3> QED BY <1>2, <1>6, ConcatProperties
  <2> HIDE DEF args
  <2> QED
    BY <1>3, <1>6, <1>7, <2>1, LastIsError DEF NoSilentLoss
<1>11. AbortInv'
  BY <1>1, <1>2, <1>6, SMTT(30) DEF AbortInv, Decided
<1> QED
  BY <1>1, <1>8, <1>9, <1>10, <1>11 DEF EvInv, WaitInv, ReadInv, StreamInv

\* An aborted decoder ignores the byte, and the frame's meaning ignores it too.
LEMMA PutIgnoredInv ==
    ASSUME EvInv, NEW b \in Byte, PutIgnored(b)
    PROVE  EvInv'
<1>1. /\ state = "ABORT" /\ state' = "ABORT" /\ Returns(b, << >>, ABORTED)
      /\ ABORTED \in Status /\ << >> \in Seq(EventCallback)
      /\ cut' = IF ended THEN 0 ELSE cut
      /\ payload_index' = payload_index
      /\ opcode_length' = opcode_length /\ interface' = interface /\ opcode' = opcode
      /\ smallbuf' = smallbuf /\ byte_index' = byte_index
  BY StatusCodes DEF PutIgnored
<1>2. TypeOK'
  <2>1. /\ payload_index' \in Nat /\ byte_index' \in Nat /\ cut' \in Nat
        /\ opcode_length' \in 0 .. 1
        /\ interface' \in 0 .. 15 /\ opcode' \in 0 .. 15
        /\ smallbuf' \in [0 .. 3 -> Byte]
    BY <1>1 DEF EvInv, TypeOK
  <2> QED
    BY <1>1, <2>1, ReturnsType DEF EvInv, TypeOK
<1>3. LogIsMeaning' /\ AbortInv' /\ NoSilentLoss'
  <2>1. CASE ended
    <3>1. muted' /\ ~ended' /\ log' = << >> \o << >>
      BY <1>1, <2>1 DEF Returns
    <3> QED
      BY <3>1 DEF LogIsMeaning, AbortInv, NoSilentLoss
  <2>2. CASE ~ended
    <3>1. /\ muted' = muted /\ ~ended' /\ cut' = cut /\ installed' = installed
          /\ frame' = Append(frame, b) /\ log' = log \o << >>
      BY <1>1, <2>2 DEF Returns
    <3>2. log' = log
      <4> HIDE DEF EventCallback
      <4>1. log \in Seq(EventCallback)
        BY DEF EvInv, TypeOK
      <4> QED
        BY <3>1, <4>1, ConcatEmptySeq
    <3>n. NoSilentLoss'
      BY <1>1, <3>1, <3>2 DEF EvInv, NoSilentLoss
    <3>3. CASE muted
      BY <3>1, <3>2, <3>3, <3>n DEF LogIsMeaning, AbortInv, EvInv
    <3>4. CASE ~muted
      <4>1. Decided(frame, cut)
        BY <1>1, <2>2, <3>4 DEF EvInv, AbortInv
      <4>2. frame \in Seq(Byte) /\ cut \in Nat
        BY DEF EvInv, TypeOK
      <4>3. /\ EventCalls(installed, Append(frame, b), FALSE, cut)
                 = EventCalls(installed, frame, FALSE, cut)
            /\ Decided(Append(frame, b), cut)
        BY <4>1, <4>2, DecidedStable
      <4>4. ended = FALSE /\ ended' = FALSE
        BY <1>1, <2>2 DEF Returns, EvInv, TypeOK
      <4>5. Complete(installed) => log = EventCalls(installed, frame, FALSE, cut)
        BY <3>4, <4>4 DEF EvInv, LogIsMeaning
      <4>6. Complete(installed') => log' = EventCalls(installed', frame', ended', cut')
        BY <3>1, <3>2, <4>3, <4>4, <4>5
      <4> QED
        BY <3>1, <3>4, <3>n, <4>3, <4>6 DEF LogIsMeaning, AbortInv
    <3> QED
      BY <3>3, <3>4
  <2> QED
    BY <2>1, <2>2
<1> QED
  BY <1>1, <1>2, <1>3 DEF EvInv, WaitInv, ReadInv, StreamInv

-----------------------------------------------------------------------------
(* The invariant: write, start and end *)

\* Handing the decoder a buffer changes nothing but what is left of it.
LEMMA WriteInv ==
    ASSUME EvInv, NEW n \in Nat, Write(n)
    PROVE  EvInv'
BY DEF EvInv, TypeOK, LogIsMeaning, NoSilentLoss, WaitInv, ReadInv, StreamInv, AbortInv,
       Remembers, Write, decoder, history

\* start forgets the frame, whatever state it is in.
LEMMA StartInv ==
    ASSUME EvInv, Start
    PROVE  EvInv'
<1>1. TypeOK'
  <2>1. frame' \in Seq(Byte) /\ log' \in Seq(EventCallback)
    <3> HIDE DEF EventCallback, Byte
    <3> QED BY EmptySeq DEF Start
  <2>2. ended' \in BOOLEAN /\ muted' \in BOOLEAN
    BY DEF Start
  <2> QED
    BY <2>1, <2>2 DEF EvInv, Start, TypeOK
<1>2. LogIsMeaning'
  BY DEF Start, LogIsMeaning, EventCalls
<1> QED
  BY <1>1, <1>2 DEF EvInv, Start, WaitInv, ReadInv, StreamInv, AbortInv, NoSilentLoss

\* What every end leaves in place, whatever its branch.
LEMMA ClosesType ==
    ASSUME EvInv, NEW calls \in Seq(EventCallback), NEW st \in Status, Closes(calls, st),
           state' \in {"WAIT_EVENT", "ABORT"}, payload_index' \in Nat, cut' \in Nat
    PROVE  TypeOK'
<1>1. frame' \in Seq(Byte)
  <2> HIDE DEF Byte
  <2> QED BY EmptySeq DEF EvInv, TypeOK, Closes
<1>2. log' \in Seq(EventCallback)
  <2>1. << >> \o calls \in Seq(EventCallback) /\ log \o calls \in Seq(EventCallback)
    <3> HIDE DEF EventCallback
    <3> QED BY EmptySeq, ConcatProperties DEF EvInv, TypeOK
  <2> QED
    BY <2>1 DEF Closes
<1>3. ended' \in BOOLEAN
  BY DEF Closes
<1>4. muted' \in BOOLEAN
  <2>1. CASE ended
    BY <2>1 DEF Closes
  <2>2. CASE ~ended
    BY <2>2 DEF Closes, EvInv, TypeOK
  <2> QED
    BY <2>1, <2>2
<1>5. /\ opcode_length' \in 0 .. 1 /\ interface' \in 0 .. 15 /\ opcode' \in 0 .. 15
      /\ smallbuf' \in [0 .. 3 -> Byte] /\ byte_index' \in Nat
      /\ installed' \in SUBSET EventNames /\ status' \in Status /\ todo' \in Nat
  BY DEF EvInv, TypeOK, Closes
<1> QED
  BY <1>1, <1>2, <1>3, <1>4, <1>5 DEF TypeOK

\* What an end that closes a frame being decoded has in common.
LEMMA CloseStep ==
    ASSUME EvInv, state \in {"READ_FIXED", "STREAM_DATA"},
           NEW calls, NEW st, Closes(calls, st)
    PROVE  /\ Remembers /\ ended' /\ ~muted' /\ installed' = installed
           /\ frame' = frame /\ frame # << >> /\ frame \in Seq(Byte) /\ Len(frame) \in Nat
           /\ log' = log \o calls /\ log \in Seq(EventCallback)
<1>1. Remembers
  BY DEF EvInv, ReadInv, StreamInv
<1>2. /\ frame \in Seq(Byte) /\ frame # << >> /\ ~ended /\ ~muted
      /\ Len(frame) \in Nat /\ log \in Seq(EventCallback)
  BY <1>1 DEF Remembers, EvInv, TypeOK
<1>3. ended' /\ ~muted' /\ installed' = installed /\ frame' = frame /\ log' = log \o calls
  BY <1>2 DEF Closes
<1> QED
  BY <1>1, <1>2, <1>3

\* end of a frame of the right length: the loop over the scratch buffer yields
\* the byte the frame carries.
LEMMA EndFixedInv ==
    ASSUME EvInv, EndFixed
    PROVE  EvInv'
<1> DEFINE value == BigEndian(smallbuf, opcode_length)
           calls == EventCall(installed, interface, opcode, value)
<1>1. /\ state = "READ_FIXED" /\ state' = "WAIT_EVENT" /\ payload_index' = 0
      /\ payload_index = opcode_length /\ Closes(calls, OK) /\ OK \in Status
      /\ cut' = cut
  BY StatusCodes DEF EndFixed, Restarts
<1>2. /\ log = << >>
      /\ interface = InterfaceOf(frame[1]) /\ opcode = OpcodeOf(frame[1])
      /\ payload_index = Len(frame) - 1
      /\ opcode_length \in {0, 1}
      /\ opcode_length = EventLength(OpcodeOf(frame[1]))
      /\ interface \in 0 .. 15
      /\ smallbuf \in [0 .. 3 -> Byte]
      /\ (payload_index = 1 => smallbuf[0] = frame[2])
  BY <1>1, ReadStep
<1>3. /\ value = WordOfByte(IF Len(frame) - 1 = 0 THEN 0 ELSE frame[2])
      /\ value \in Word
  <2>1. value \in Word /\ value = WordOfByte(IF opcode_length = 0 THEN 0 ELSE smallbuf[0])
    BY <1>2, LoopIsByte
  <2>2. opcode_length # 0 => smallbuf[0] = frame[2]
    BY <1>1, <1>2
  <2>3. opcode_length = Len(frame) - 1
    BY <1>1, <1>2
  <2> QED
    BY <2>1, <2>2, <2>3
<1>4. calls \in Seq(EventCallback)
  <2> HIDE DEF value
  <2> QED BY <1>2, <1>3, EventCallType
<1>5. /\ ended' /\ ~muted' /\ installed' = installed /\ frame' = frame /\ frame # << >>
      /\ Len(frame) \in Nat /\ log' = log \o calls
  <2> HIDE DEF calls
  <2> QED BY <1>1, CloseStep
<1>6. TypeOK'
  <2>1. payload_index' \in Nat /\ cut' \in Nat
    BY <1>1 DEF EvInv, TypeOK
  <2> HIDE DEF calls
  <2> QED
    BY <1>1, <1>4, <2>1, ClosesType
<1>7. LogIsMeaning'
  <2>1. log' = calls
    <3> HIDE DEF calls, EventCallback
    <3> QED BY <1>2, <1>4, <1>5, ConcatEmptySeq
  <2>2. EventLength(OpcodeOf(frame[1])) >= 0
        /\ Len(frame) - 1 = EventLength(OpcodeOf(frame[1]))
    <3>1. opcode_length >= 0 /\ payload_index = opcode_length
      BY <1>1, <1>2
    <3> QED
      BY <1>2, <3>1
  <2>3. EventCalls(installed, frame, ended', cut')
          = EventCall(installed, InterfaceOf(frame[1]), OpcodeOf(frame[1]),
                      WordOfByte(IF Len(frame) - 1 = 0 THEN 0 ELSE frame[2]))
    BY <1>5, <2>2, FixedMeaning
  <2>4. EventCalls(installed, frame, ended', cut') = calls
    <3> HIDE DEF value
    <3> QED BY <1>2, <1>3, <2>3
  <2> HIDE DEF calls
  <2> QED
    BY <1>5, <2>1, <2>4 DEF LogIsMeaning
<1> QED
  BY <1>1, <1>5, <1>6, <1>7
     DEF EvInv, WaitInv, ReadInv, StreamInv, AbortInv, NoSilentLoss

\* end of a frame that is too short: reported.
LEMMA EndWrongLengthInv ==
    ASSUME EvInv, EndWrongLength
    PROVE  EvInv'
<1> DEFINE args == <<interface, opcode, payload_index, INVALID_LENGTH>>
           calls == Call(installed, "error", args)
<1>1. /\ state = "READ_FIXED" /\ state' = "WAIT_EVENT" /\ payload_index' = 0
      /\ payload_index # opcode_length /\ Closes(calls, INVALID_LENGTH)
      /\ INVALID_LENGTH \in Status /\ INVALID_LENGTH \in Int
      /\ cut' = cut
  BY StatusCodes DEF EndWrongLength, Restarts, Error
<1>2. /\ log = << >>
      /\ interface = InterfaceOf(frame[1]) /\ opcode = OpcodeOf(frame[1])
      /\ payload_index = Len(frame) - 1
      /\ opcode_length \in {0, 1} /\ payload_index \in 0 .. opcode_length
      /\ opcode_length = EventLength(OpcodeOf(frame[1]))
      /\ interface \in 0 .. 15 /\ opcode \in 0 .. 15
  BY <1>1, ReadStep
<1>3. args \in Seq(Int)
  BY <1>1, <1>2
<1>4. calls \in Seq(EventCallback)
  <2> HIDE DEF args
  <2> QED BY <1>3, CallType DEF EventNames
<1>5. /\ ended' /\ ~muted' /\ installed' = installed /\ frame' = frame /\ frame # << >>
      /\ Len(frame) \in Nat /\ log' = log \o calls
  <2> HIDE DEF calls
  <2> QED BY <1>1, CloseStep
<1>6. TypeOK'
  <2>1. payload_index' \in Nat /\ cut' \in Nat
    BY <1>1 DEF EvInv, TypeOK
  <2> HIDE DEF calls
  <2> QED
    BY <1>1, <1>4, <2>1, ClosesType
<1>7. LogIsMeaning'
  <2>1. log' = calls
    <3> HIDE DEF calls, EventCallback
    <3> QED BY <1>2, <1>4, <1>5, ConcatEmptySeq
  <2>2. EventLength(OpcodeOf(frame[1])) >= 0
        /\ Len(frame) - 1 < EventLength(OpcodeOf(frame[1]))
    <3>1. opcode_length >= 0 /\ payload_index < opcode_length
      BY <1>1, <1>2
    <3> QED
      BY <1>2, <3>1
  <2>3. EventCalls(installed, frame, ended', cut')
          = Call(installed, "error",
                 <<InterfaceOf(frame[1]), OpcodeOf(frame[1]), Len(frame) - 1,
                   INVALID_LENGTH>>)
    BY <1>5, <2>2, FixedMeaning
  <2>4. EventCalls(installed, frame, ended', cut') = calls
    BY <1>2, <2>3
  <2> HIDE DEF calls
  <2> QED
    BY <1>5, <2>1, <2>4 DEF LogIsMeaning
<1> QED
  BY <1>1, <1>5, <1>6, <1>7
     DEF EvInv, WaitInv, ReadInv, StreamInv, AbortInv, NoSilentLoss

\* What holds of every end of a stream, refused by its callback or not.
LEMMA EndStreamStep ==
    ASSUME EvInv, state = "STREAM_DATA"
    PROVE  /\ interface = InterfaceOf(frame[1]) /\ opcode = OpcodeOf(frame[1])
           /\ payload_index = Len(frame) - 1 /\ Len(frame) \in Nat \ {0}
           /\ EventLength(OpcodeOf(frame[1])) = -1
           /\ interface \in 0 .. 15 /\ opcode \in 0 .. 15 /\ payload_index \in Nat
           /\ StreamEnd \in Seq(EventCallback)
           /\ Complete(installed) =>
                 /\ log = StreamHead(installed, frame, Len(frame) - 1)
                 /\ StreamEnd = Call(installed, EndOf(OpcodeOf(frame[1])),
                                     <<InterfaceOf(frame[1]), Len(frame) - 1>>)
<1>1. 0 \in Byte
  BY DEF Byte
<1>2. /\ interface = InterfaceOf(frame[1]) /\ opcode = OpcodeOf(frame[1])
      /\ payload_index = Len(frame) - 1 /\ Len(frame) \in Nat \ {0}
      /\ EventLength(OpcodeOf(frame[1])) = -1
      /\ interface \in 0 .. 15 /\ opcode \in 0 .. 15 /\ payload_index \in Nat
      /\ byte_index \in Nat
      /\ Complete(installed) => log = StreamHead(installed, frame, Len(frame) - 1)
  BY <1>1, StreamStep
<1>3. StreamEnd \in Seq(EventCallback)
  <2>1. <<interface, byte_index>> \in Seq(Int)
    BY <1>2
  <2> QED
    BY <2>1, CallType, StreamNames DEF StreamEnd
<1>4. ASSUME Complete(installed)
      PROVE  StreamEnd = Call(installed, EndOf(opcode), <<interface, Len(frame) - 1>>)
  <2>1. CASE EndOf(opcode) \in installed
    <3>1. StartOf(opcode) \in installed /\ DataOf(opcode) \in installed
      BY <1>4, <2>1, AllOrNone
    <3>2. byte_index = Len(frame) - 1
      BY <1>2, <3>1 DEF EvInv, StreamInv
    <3> QED
      BY <3>2 DEF StreamEnd
  <2>2. CASE EndOf(opcode) \notin installed
    BY <2>2 DEF StreamEnd, Call
  <2> QED
    BY <2>1, <2>2
<1> QED
  BY <1>2, <1>3, <1>4

\* end of a stream closes it with the number of its bytes.
LEMMA EndStreamInv ==
    ASSUME EvInv, EndStream
    PROVE  EvInv'
<1>1. /\ state = "STREAM_DATA" /\ state' = "WAIT_EVENT" /\ payload_index' = 0
      /\ Closes(StreamEnd, OK) /\ OK \in Status /\ cut' = cut
  BY StatusCodes DEF EndStream, Restarts
<1>2. /\ EventLength(OpcodeOf(frame[1])) = -1
      /\ StreamEnd \in Seq(EventCallback)
      /\ Complete(installed) =>
            /\ log = StreamHead(installed, frame, Len(frame) - 1)
            /\ StreamEnd = Call(installed, EndOf(OpcodeOf(frame[1])),
                                <<InterfaceOf(frame[1]), Len(frame) - 1>>)
  BY <1>1, EndStreamStep
<1>3. /\ Remembers /\ ended' /\ ~muted' /\ installed' = installed /\ frame' = frame
      /\ frame # << >> /\ Len(frame) \in Nat /\ log' = log \o StreamEnd
  BY <1>1, CloseStep
<1>4. TypeOK'
  <2>1. payload_index' \in Nat /\ cut' \in Nat
    BY <1>1 DEF EvInv, TypeOK
  <2> QED
    BY <1>1, <1>2, <2>1, ClosesType
<1>5. LogIsMeaning'
  <2>1. cut' = 0 /\ cut' \in Nat
    BY <1>1, <1>3 DEF Remembers
  <2>2. EventCalls(installed, frame, ended', cut')
          = StreamHead(installed, frame, Len(frame) - 1)
              \o Call(installed, EndOf(OpcodeOf(frame[1])),
                      <<InterfaceOf(frame[1]), Len(frame) - 1>>)
    BY <1>2, <1>3, <2>1, StreamMeaning, ZenonT(60)
  <2> QED
    BY <1>2, <1>3, <2>2 DEF LogIsMeaning
<1> QED
  BY <1>1, <1>3, <1>4, <1>5
     DEF EvInv, WaitInv, ReadInv, StreamInv, AbortInv, NoSilentLoss

\* A refused end of a stream: reported once, and the decoder stays aborted.
LEMMA EndStreamAbortedInv ==
    ASSUME EvInv, EndStreamAborted
    PROVE  EvInv'
<1> DEFINE args == <<interface, opcode, payload_index, ABORTED>>
           e == Call(installed, "error", args)
           calls == StreamEnd \o e
<1>1. /\ state = "STREAM_DATA" /\ state' = "ABORT" /\ payload_index' = payload_index
      /\ Closes(calls, ABORTED) /\ ABORTED \in Status /\ ABORTED \in Int
      /\ cut' = Len(frame) + 1
  BY StatusCodes DEF EndStreamAborted, Error
<1>2. /\ interface = InterfaceOf(frame[1]) /\ opcode = OpcodeOf(frame[1])
      /\ payload_index = Len(frame) - 1 /\ Len(frame) \in Nat \ {0}
      /\ EventLength(OpcodeOf(frame[1])) = -1
      /\ interface \in 0 .. 15 /\ opcode \in 0 .. 15 /\ payload_index \in Nat
      /\ StreamEnd \in Seq(EventCallback)
      /\ Complete(installed) =>
            /\ log = StreamHead(installed, frame, Len(frame) - 1)
            /\ StreamEnd = Call(installed, EndOf(OpcodeOf(frame[1])),
                                <<InterfaceOf(frame[1]), Len(frame) - 1>>)
  BY <1>1, EndStreamStep
<1>3. args \in Seq(Int)
  BY <1>1, <1>2
<1>4. e \in Seq(EventCallback)
  <2> HIDE DEF args
  <2> QED BY <1>3, CallType DEF EventNames
<1>5. calls \in Seq(EventCallback)
  <2> HIDE DEF e, EventCallback
  <2> QED BY <1>2, <1>4, ConcatProperties
<1>6. /\ ended' /\ ~muted' /\ installed' = installed /\ frame' = frame
      /\ frame # << >> /\ Len(frame) \in Nat /\ log' = log \o calls
      /\ log \in Seq(EventCallback)
  <2> HIDE DEF calls
  <2> QED BY <1>1, CloseStep
<1>7. log' = (log \o StreamEnd) \o e
  <2>1. (log \o StreamEnd) \o e = log \o (StreamEnd \o e)
    <3>1. /\ log \in Seq(EventCallback) /\ StreamEnd \in Seq(EventCallback)
          /\ e \in Seq(EventCallback)
      BY <1>2, <1>4, <1>6
    <3> HIDE DEF e, EventCallback
    <3> QED
      BY ONLY <3>1, Regroup
  <2> QED
    BY <1>6, <2>1
<1>8. TypeOK'
  <2>1. payload_index' \in Nat /\ cut' \in Nat
    BY <1>1, <1>2
  <2> HIDE DEF calls
  <2> QED
    BY <1>1, <1>5, <2>1, ClosesType
<1>9. LogIsMeaning'
  <2>1. cut' > Len(frame) /\ cut' \in Nat
    BY <1>1, <1>2
  <2>2. EventCalls(installed, frame, ended', cut')
          = (StreamHead(installed, frame, Len(frame) - 1)
               \o Call(installed, EndOf(OpcodeOf(frame[1])),
                       <<InterfaceOf(frame[1]), Len(frame) - 1>>))
              \o Call(installed, "error",
                      <<InterfaceOf(frame[1]), OpcodeOf(frame[1]), Len(frame) - 1, ABORTED>>)
    BY <1>2, <1>6, <2>1, StreamMeaning, ZenonT(60)
  <2>3. Call(installed, "error",
             <<InterfaceOf(frame[1]), OpcodeOf(frame[1]), Len(frame) - 1, ABORTED>>) = e
    BY <1>2
  <2> HIDE DEF e
  <2> QED
    BY <1>2, <1>6, <1>7, <2>2, <2>3 DEF LogIsMeaning
<1>10. NoSilentLoss'
  <2>1. log \o StreamEnd \in Seq(EventCallback)
    <3> HIDE DEF EventCallback
    <3> QED BY <1>2, <1>6, ConcatProperties
  <2> HIDE DEF args
  <2> QED
    BY <1>3, <1>6, <1>7, <2>1, LastIsError DEF NoSilentLoss
<1>11. AbortInv'
  BY <1>1, <1>2, <1>6 DEF AbortInv
<1> QED
  BY <1>1, <1>8, <1>9, <1>10, <1>11 DEF EvInv, WaitInv, ReadInv, StreamInv

\* end with no frame being decoded: an empty one, or one already given up on.
LEMMA EndNothingInv ==
    ASSUME EvInv, EndNothing
    PROVE  EvInv'
<1>1. /\ state \in {"WAIT_EVENT", "ABORT"} /\ Closes(<< >>, ABORTED)
      /\ ABORTED \in Status /\ << >> \in Seq(EventCallback)
      /\ state' = "WAIT_EVENT" /\ payload_index' = 0
      /\ cut' = IF ended THEN 0 ELSE cut
  BY StatusCodes DEF EndNothing, Restarts
<1>2. TypeOK'
  <2>1. payload_index' \in Nat /\ cut' \in Nat
    BY <1>1 DEF EvInv, TypeOK
  <2> QED
    BY <1>1, <2>1, ClosesType
<1>3. LogIsMeaning'
  <2>1. CASE ended
    <3>1. frame' = << >> /\ log' = << >> \o << >>
      BY <1>1, <2>1 DEF Closes
    <3> QED
      BY <3>1 DEF LogIsMeaning, EventCalls
  <2>2. CASE ~ended
    <3>1. /\ frame' = frame /\ log' = log \o << >> /\ muted' = muted /\ cut' = cut
          /\ installed' = installed /\ ended'
      BY <1>1, <2>2 DEF Closes
    <3>2. log' = log
      <4> HIDE DEF EventCallback
      <4>1. log \in Seq(EventCallback)
        BY DEF EvInv, TypeOK
      <4> QED
        BY <3>1, <4>1, ConcatEmptySeq
    <3>3. CASE muted
      BY <3>1, <3>2, <3>3 DEF LogIsMeaning, EvInv
    <3>4. CASE ~muted /\ state = "WAIT_EVENT"
      <4>1. frame = << >> /\ log = << >>
        BY <2>2, <3>4 DEF EvInv, WaitInv
      <4> QED
        BY <3>1, <3>2, <4>1 DEF LogIsMeaning, EventCalls
    <3>5. CASE ~muted /\ state = "ABORT"
      <4>1. Decided(frame, cut)
        BY <2>2, <3>5 DEF EvInv, AbortInv
      <4>2. frame \in Seq(Byte) /\ cut \in Nat
        BY DEF EvInv, TypeOK
      <4>3. EventCalls(installed, frame, TRUE, cut) = EventCalls(installed, frame, FALSE, cut)
        BY <4>1, <4>2, DecidedStable
      <4>4. ended = FALSE /\ ended' = TRUE
        BY <1>1, <2>2 DEF Closes, EvInv, TypeOK
      <4>5. Complete(installed) => log = EventCalls(installed, frame, FALSE, cut)
        BY <3>5, <4>4 DEF EvInv, LogIsMeaning
      <4>6. Complete(installed') => log' = EventCalls(installed', frame', ended', cut')
        BY <3>1, <3>2, <4>3, <4>4, <4>5
      <4> QED
        BY <3>1, <3>5, <4>6 DEF LogIsMeaning
    <3> QED
      BY <1>1, <3>3, <3>4, <3>5
  <2> QED
    BY <2>1, <2>2
<1>4. ended'
  BY <1>1 DEF Closes
<1> QED
  BY <1>1, <1>2, <1>3, <1>4 DEF EvInv, WaitInv, ReadInv, StreamInv, AbortInv, NoSilentLoss

-----------------------------------------------------------------------------
(* Theorems *)

\* The invariant holds in every reachable state.
THEOREM EventInvariance == Spec => []EvInv
<1>1. EvInv /\ [Next]_vars => EvInv'
  <2> SUFFICES ASSUME EvInv, [Next]_vars PROVE EvInv'
    OBVIOUS
  <2>1. CASE UNCHANGED vars
    BY <2>1 DEF vars, decoder, history, EvInv, TypeOK, LogIsMeaning, NoSilentLoss, WaitInv,
                ReadInv, StreamInv, AbortInv, Remembers
  <2>2. ASSUME NEW n \in 1 .. MaxWrite, Write(n) PROVE EvInv'
    BY <2>2, WriteInv, EventBoundsAssumption
  <2>3. ASSUME NEW b \in Headers,
               \/ PutUnknown(b)
               \/ PutStream(b)
               \/ PutFixed(b)
               \/ PutIgnored(b)
        PROVE  EvInv'
    <3>1. b \in Byte
      BY EventHeadersAssumption
    <3> QED
      BY <2>3, <3>1, PutUnknownInv, PutStreamInv, PutFixedInv, PutIgnoredInv
  <2>4. ASSUME NEW b \in Payload,
               \/ PutSmall(b)
               \/ PutTooMany(b)
               \/ PutData(b)
               \/ PutDataAborted(b)
               \/ PutIgnored(b)
        PROVE  EvInv'
    <3>1. b \in Byte
      BY EventPayloadAssumption
    <3> QED
      BY <2>4, <3>1, PutSmallInv, PutTooManyInv, PutDataInv, PutDataAbortedInv,
         PutIgnoredInv
  <2>5. CASE Put
    BY <2>3, <2>4, <2>5 DEF Put
  <2>6. CASE Start
    BY <2>6, StartInv
  <2>7. CASE End
    BY <2>7, EndFixedInv, EndWrongLengthInv, EndStreamInv, EndStreamAbortedInv,
       EndNothingInv DEF End
  <2> QED
    BY <2>1, <2>2, <2>5, <2>6, <2>7 DEF Next
<1> QED
  BY <1>1, InitInv, PTL DEF Spec

\* Type correctness, and no write past the byte an event can carry, for every
\* stream of bytes a device can send.
THEOREM EventTypeCorrect == Spec => []TypeOK
<1>1. EvInv => TypeOK
  BY DEF EvInv
<1> QED
  BY <1>1, EventInvariance, PTL

\* With every callback of a stream or none of them, what the decoder calls for
\* a frame depends on that frame alone.
THEOREM EventMeaning == Spec => []LogIsMeaning
<1>1. EvInv => LogIsMeaning
  BY DEF EvInv
<1> QED
  BY <1>1, EventInvariance, PTL

\* Whatever callbacks are installed, bytes are discarded only after error_cb
\* was called for the frame they belong to, or for a refused end before it.
THEOREM EventLoudness == Spec => []NoSilentLoss
<1>1. EvInv => NoSilentLoss
  BY DEF EvInv
<1> QED
  BY <1>1, EventInvariance, PTL

\* At most one frame is ignored, and only after a refused end of a stream.
THEOREM EventDeafness == Spec => DeafForOneFrame
<1> DEFINE Deaf == /\ (muted' /\ ~muted) => (ended /\ cut = Len(frame) + 1)
                   /\ (muted /\ ended /\ ended # ended') => ~muted'
<1>1. EvInv /\ [Next]_vars => [Deaf]_vars
  <2> SUFFICES ASSUME EvInv, Next PROVE Deaf
    OBVIOUS
  <2>1. (ended /\ state = "ABORT") => (~muted /\ cut = Len(frame) + 1)
    BY DEF EvInv, AbortInv
  <2>2. \/ muted' = (IF ended THEN state = "ABORT" ELSE muted)
        \/ ~muted'
        \/ muted' = muted /\ ended' = ended
    BY DEF Next, Put, End, PutUnknown, PutStream, PutFixed, PutIgnored, PutSmall,
           PutTooMany, PutData, PutDataAborted, EndFixed, EndWrongLength, EndStream,
           EndStreamAborted, EndNothing, Start, Write, Returns, Closes, history
  <2>3. CASE muted' = (IF ended THEN state = "ABORT" ELSE muted)
    BY <2>1, <2>3
  <2> QED
    BY <2>2, <2>3
<1> QED
  BY <1>1, EventInvariance, PTL DEF Spec, DeafForOneFrame

=============================================================================
