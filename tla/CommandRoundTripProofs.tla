----------------------- MODULE CommandRoundTripProofs -----------------------
(***************************************************************************)
(* Proofs that the commands a host sends are the commands a radio reads,   *)
(* for every value of every argument.  EncoderProofs shows that a frame    *)
(* nobody aborted holds the bytes its callers asked for; here those bytes  *)
(* are read as CommandFrames says, the meaning that CommandDecoderProofs   *)
(* shows CommandDecoder to implement.                                      *)
(***************************************************************************)
EXTENDS CommandEncoder, EncoderProofs

\* The values of an int8_t.
SignedByte == -128 .. 127

\* Every request the functions of command-encoder.c can make, over the types
\* of their arguments.
CommandRequests ==
    { SetFrequency(i, hz) : i \in Byte, hz \in Word }
        \cup { SetBandwidth(i, hz) : i \in Byte, hz \in Word }
        \cup { SetTxPower(i, dbm) : i \in Byte, dbm \in SignedByte }
        \cup { SetSpreadingFactor(i, sf) : i \in Byte, sf \in Byte }
        \cup { SetCodingRate(i, cr) : i \in Byte, cr \in Byte }
        \cup { SetRadioState(i, st) : i \in Byte,
                  st \in {RADIO_STATE_OFF, RADIO_STATE_ON, RADIO_STATE_ASK} }
        \cup { SetRadioLock(i, lock) : i \in Byte, lock \in Byte }
        \cup { Detect, Ready, Leave }

-----------------------------------------------------------------------------
(* Lemmas about frames *)

\* A whole frame of the length its command has, with a payload its command
\* takes, is read as that command.
LEMMA FixedIsRead ==
    ASSUME NEW f, NEW i, NEW o \in 0 .. 15, NEW n \in 0 .. 4,
           Len(f) = n + 1, InterfaceOf(f[1]) = i, OpcodeOf(f[1]) = o,
           OpcodeLength(o) = n, ValidArgument(o, PayloadWord(f))
    PROVE  FrameCalls(CallbackNames, f, TRUE, 0)
             = Means(CommandName(o), CommandArgs(i, o, PayloadWord(f)))
<1> DEFINE w == PayloadWord(f)
<1>1. f # << >>
  OBVIOUS
<1>2. CommandName(o) \in CallbackNames
  BY DEF CommandName, CallbackNames, CommandNames
<1>3. FrameCalls(CallbackNames, f, TRUE, 0) = FixedCalls(CallbackNames, f, TRUE)
  <2>1. OpcodeLength(OpcodeOf(f[1])) # -1 /\ OpcodeLength(OpcodeOf(f[1])) # -2
    OBVIOUS
  <2> HIDE DEF w
  <2> QED
    BY <1>1, <2>1 DEF FrameCalls
<1>4. FixedCalls(CallbackNames, f, TRUE)
        = Call(CallbackNames, CommandName(o), CommandArgs(i, o, w))
  <2>1. Len(f) - 1 = n /\ n <= 4
    OBVIOUS
  <2> QED
    BY <2>1 DEF FixedCalls
<1> QED
  BY <1>2, <1>3, <1>4 DEF Call, Means

\* A four-byte payload is the word whose bytes were sent.
LEMMA WordIsRead ==
    ASSUME NEW r, r.interface \in Byte, r.opcode \in 0 .. 127,
           NEW w \in Word, r.bytes = WordBytes(w)
    PROVE  /\ Len(FrameOf(r)) = 5
           /\ FrameOf(r)[1] = HeaderByte(r.interface, r.opcode)
           /\ PayloadWord(FrameOf(r)) = w
<1>1. w[1] \in Byte /\ w[2] \in Byte /\ w[3] \in Byte /\ w[4] \in Byte
  BY DEF Word
<1>2. WordBytes(w) \in Seq(Byte) /\ Len(WordBytes(w)) = 4
  BY <1>1 DEF WordBytes
<1>3. \A k \in 1 .. 4 : WordBytes(w)[k] = w[k]
  BY DEF WordBytes
<1> DEFINE f == FrameOf(r)
<1>4. /\ Len(f) = 5
      /\ f[1] = HeaderByte(r.interface, r.opcode)
      /\ \A k \in 1 .. 4 : f[k + 1] = w[k]
  <2>1. r.interface \in Byte /\ r.opcode \in 0 .. 127 /\ r.bytes \in Seq(Byte)
        /\ Len(r.bytes) = 4 /\ \A k \in 1 .. 4 : r.bytes[k] = w[k]
    BY <1>2, <1>3
  <2>2. /\ Len(f) = Len(r.bytes) + 1
        /\ f[1] = HeaderByte(r.interface, r.opcode)
        /\ \A k \in 1 .. Len(r.bytes) : f[k + 1] = r.bytes[k]
    BY ONLY <2>1, FrameOfType
  <2> HIDE DEF f
  <2> QED
    BY <2>1, <2>2
<1> HIDE DEF f
<1>5. \A k \in 1 .. 4 : PayloadWord(f)[k] = f[k + 1]
  BY <1>4 DEF PayloadWord
<1>6. PayloadWord(f) = [k \in 1 .. 4 |-> PayloadWord(f)[k]]
  BY DEF PayloadWord
<1>7. w = [k \in 1 .. 4 |-> w[k]]
  BY DEF Word
<1>8. PayloadWord(f) = w
  BY <1>4, <1>5, <1>6, <1>7
<1> QED
  BY <1>4, <1>8 DEF f

\* A one-byte payload is that byte.
LEMMA ByteIsRead ==
    ASSUME NEW r, r.interface \in Byte, r.opcode \in 0 .. 127,
           NEW b \in Byte, r.bytes = <<b>>
    PROVE  /\ Len(FrameOf(r)) = 2
           /\ FrameOf(r)[1] = HeaderByte(r.interface, r.opcode)
           /\ PayloadWord(FrameOf(r)) = WordOfByte(b)
<1>1. <<b>> \in Seq(Byte) /\ Len(<<b>>) = 1 /\ <<b>>[1] = b
  OBVIOUS
<1> DEFINE f == FrameOf(r)
<1>2. /\ Len(f) = 2
      /\ f[1] = HeaderByte(r.interface, r.opcode)
      /\ f[2] = b
  <2>1. r.interface \in Byte /\ r.opcode \in 0 .. 127 /\ r.bytes \in Seq(Byte)
        /\ Len(r.bytes) = 1 /\ r.bytes[1] = b
    BY <1>1
  <2>2. /\ Len(f) = Len(r.bytes) + 1
        /\ f[1] = HeaderByte(r.interface, r.opcode)
        /\ \A k \in 1 .. Len(r.bytes) : f[k + 1] = r.bytes[k]
    BY ONLY <2>1, FrameOfType
  <2> HIDE DEF f
  <2>3. f[1 + 1] = r.bytes[1]
    BY <2>1, <2>2
  <2> QED
    BY <2>1, <2>2, <2>3
<1> HIDE DEF f
<1>3. PayloadWord(f) = [k \in 1 .. 4 |-> IF k = 4 THEN b ELSE 0]
  BY <1>2 DEF PayloadWord
<1>4. WordOfByte(b) = [k \in 1 .. 4 |-> IF k = 4 THEN b ELSE 0]
  BY DEF WordOfByte
<1> QED
  BY <1>2, <1>3, <1>4 DEF f

\* A byte that was an int8_t is read back with its sign.
LEMMA SignIsRead ==
    ASSUME NEW v \in SignedByte
    PROVE  Uint8(v) \in Byte /\ Int8(WordOfByte(Uint8(v))) = v
<1>1. v % 256 = IF v < 0 THEN v + 256 ELSE v
  BY DEF SignedByte
<1>2. WordOfByte(Uint8(v))[4] = v % 256
  BY DEF WordOfByte, Uint8
<1> QED
  BY <1>1, <1>2 DEF SignedByte, Byte, Uint8, Int8

-----------------------------------------------------------------------------
(* Lemmas about the requests of each kind *)

\* The rows of the protocol's tables: the payload length of each command with
\* a payload, the callback it leads to and the arguments of that callback.
LEMMA Tables ==
    /\ \A o \in {FREQUENCY, BANDWIDTH} :
          /\ o \in 0 .. 15
          /\ OpcodeLength(o) = 4
          /\ \A w : ValidArgument(o, w)
          /\ \A i, w : CommandArgs(i, o, w) = <<i, w[1], w[2], w[3], w[4]>>
    /\ \A o \in {TXPOWER, SF, CR, RADIO_STATE, DETECT, LEAVE, RADIO_LOCK} :
          /\ o \in 0 .. 15
          /\ OpcodeLength(o) = 1
    /\ \A o \in {SF, CR, RADIO_STATE, RADIO_LOCK} :
          \A i, w : CommandArgs(i, o, w) = <<i, w[4]>>
    /\ \A o \in {DETECT, LEAVE, READY} :
          \A i, w : CommandArgs(i, o, w) = << >>
    /\ \A i, w : CommandArgs(i, TXPOWER, w) = <<i, Int8(w)>>
    /\ \A o \in {TXPOWER, SF, CR, LEAVE, RADIO_LOCK, READY} : \A w : ValidArgument(o, w)
    /\ READY \in 0 .. 15 /\ OpcodeLength(READY) = 0
    /\ OpcodeLength(DATA) = -1
    /\ RADIO_STATE # DETECT
<1> USE DEF DATA, FREQUENCY, BANDWIDTH, TXPOWER, SF, CR, RADIO_STATE, RADIO_LOCK,
            DETECT, LEAVE, READY
<1>1. /\ \A o \in {FREQUENCY, BANDWIDTH} : OpcodeLength(o) = 4
      /\ \A o \in {TXPOWER, SF, CR, RADIO_STATE, DETECT, LEAVE, RADIO_LOCK} :
            OpcodeLength(o) = 1
      /\ OpcodeLength(READY) = 0
      /\ OpcodeLength(DATA) = -1
  BY DEF OpcodeLength
<1>2. /\ \A o \in {FREQUENCY, BANDWIDTH} :
            \A i, w : CommandArgs(i, o, w) = <<i, w[1], w[2], w[3], w[4]>>
      /\ \A i, w : CommandArgs(i, TXPOWER, w) = <<i, Int8(w)>>
  BY DEF CommandArgs
<1>3. /\ \A o \in {SF, CR, RADIO_STATE, RADIO_LOCK} :
            \A i, w : CommandArgs(i, o, w) = <<i, w[4]>>
      /\ \A o \in {DETECT, LEAVE, READY} : \A i, w : CommandArgs(i, o, w) = << >>
  BY DEF CommandArgs
<1>4. \A o \in {FREQUENCY, BANDWIDTH, TXPOWER, SF, CR, LEAVE, RADIO_LOCK, READY} :
         \A w : ValidArgument(o, w)
  BY DEF ValidArgument
<1> QED
  BY <1>1, <1>2, <1>3, <1>4

\* The callback of each command.
LEMMA Names ==
    /\ CommandName(FREQUENCY) = "set_frequency"
    /\ CommandName(BANDWIDTH) = "set_bandwidth"
    /\ CommandName(TXPOWER) = "set_txpower"
    /\ CommandName(SF) = "set_spreading_factor"
    /\ CommandName(CR) = "set_coding_rate"
    /\ CommandName(RADIO_STATE) = "set_radio_state"
    /\ CommandName(RADIO_LOCK) = "lock"
    /\ CommandName(DETECT) = "detect"
    /\ CommandName(LEAVE) = "leave"
    /\ CommandName(READY) = "ready"
BY DEF CommandName, DATA, FREQUENCY, BANDWIDTH, TXPOWER, SF, CR, RADIO_STATE,
       RADIO_LOCK, DETECT, LEAVE, READY

\* A command with a 32-bit argument arrives with that argument.
LEMMA WordCommand ==
    ASSUME NEW i \in Byte, NEW o \in {FREQUENCY, BANDWIDTH}, NEW w \in Word,
           NEW r, r = SendWord(i, o, w, CommandName(o))
    PROVE  FrameCalls(CallbackNames, FrameOf(r), TRUE, 0) = r.means
<1> DEFINE f == FrameOf(r)
<1>1. /\ r.interface = i /\ r.opcode = o /\ r.bytes = WordBytes(w)
      /\ r.means = Means(CommandName(o), <<OnWire(i), w[1], w[2], w[3], w[4]>>)
  BY DEF SendWord, Request
<1>2. /\ o \in 0 .. 15 /\ OpcodeLength(o) = 4 /\ ValidArgument(o, w)
      /\ CommandArgs(OnWire(i), o, w) = <<OnWire(i), w[1], w[2], w[3], w[4]>>
  BY Tables
<1>3. o \in 0 .. 127 /\ o % 16 = o
  BY <1>2
<1>4. Len(f) = 5 /\ f[1] = HeaderByte(i, o) /\ PayloadWord(f) = w
  BY <1>1, <1>3, WordIsRead
<1> HIDE DEF f
<1>5. InterfaceOf(f[1]) = OnWire(i) /\ OpcodeOf(f[1]) = o
  BY <1>3, <1>4, HeaderSplit DEF OnWire
<1>6. Len(f) = 4 + 1 /\ 4 \in 0 .. 4
  BY <1>4
<1>7. FrameCalls(CallbackNames, f, TRUE, 0)
        = Means(CommandName(o), CommandArgs(OnWire(i), o, w))
  BY <1>2, <1>4, <1>5, <1>6, FixedIsRead
<1> QED
  BY <1>1, <1>2, <1>7 DEF f

\* A command with a one-byte payload that it accepts is read as that command
\* with the arguments the byte stands for.
LEMMA ByteCommand ==
    ASSUME NEW r, r.interface \in Byte,
           r.opcode \in {TXPOWER, SF, CR, RADIO_STATE, DETECT, LEAVE, RADIO_LOCK},
           NEW b \in Byte, r.bytes = <<b>>,
           ValidArgument(r.opcode, WordOfByte(b))
    PROVE  FrameCalls(CallbackNames, FrameOf(r), TRUE, 0)
             = Means(CommandName(r.opcode),
                     CommandArgs(OnWire(r.interface), r.opcode, WordOfByte(b)))
<1> DEFINE f == FrameOf(r)
           w == WordOfByte(b)
           i == r.interface
           o == r.opcode
<1>1. o \in 0 .. 15 /\ OpcodeLength(o) = 1
  BY Tables
<1>2. o \in 0 .. 127 /\ o % 16 = o
  BY <1>1
<1>3. Len(f) = 2 /\ f[1] = HeaderByte(i, o) /\ PayloadWord(f) = w
  BY <1>2, ByteIsRead
<1>4. ValidArgument(o, w) /\ i \in Byte
  OBVIOUS
<1> HIDE DEF f, w, i, o
<1>5. InterfaceOf(f[1]) = OnWire(i) /\ OpcodeOf(f[1]) = o
  BY <1>2, <1>3, <1>4, HeaderSplit DEF OnWire
<1>6. Len(f) = 1 + 1 /\ 1 \in 0 .. 4
  BY <1>3
<1>7. FrameCalls(CallbackNames, f, TRUE, 0)
        = Means(CommandName(o), CommandArgs(OnWire(i), o, w))
  BY <1>1, <1>3, <1>4, <1>5, <1>6, FixedIsRead
<1> QED
  BY <1>7 DEF f, w, i, o

\* The same for the commands that take any byte and pass it on.
LEMMA PlainByteCommand ==
    ASSUME NEW i \in Byte, NEW b \in Byte, NEW o \in {SF, CR, RADIO_LOCK},
           NEW r, r = SendByte(i, o, b, CommandName(o), b)
    PROVE  FrameCalls(CallbackNames, FrameOf(r), TRUE, 0) = r.means
<1>1. /\ r.interface = i /\ r.opcode = o /\ r.bytes = <<b>>
      /\ r.means = Means(CommandName(o), <<OnWire(i), b>>)
  BY DEF SendByte, Request
<1>2. WordOfByte(b)[4] = b
  BY DEF WordOfByte
<1> DEFINE w == WordOfByte(b)
<1> HIDE DEF w
<1>3. ValidArgument(o, w) /\ CommandArgs(OnWire(i), o, w) = <<OnWire(i), w[4]>>
  BY Tables
<1>4. FrameCalls(CallbackNames, FrameOf(r), TRUE, 0)
        = Means(CommandName(o), CommandArgs(OnWire(i), o, w))
  BY <1>1, <1>3, ByteCommand DEF w
<1> QED
  BY <1>1, <1>2, <1>3, <1>4 DEF w

\* A signed power keeps its sign.
LEMMA PowerCommand ==
    ASSUME NEW i \in Byte, NEW dbm \in SignedByte, NEW r, r = SetTxPower(i, dbm)
    PROVE  FrameCalls(CallbackNames, FrameOf(r), TRUE, 0) = r.means
<1> DEFINE b == Uint8(dbm)
<1>1. /\ r.interface = i /\ r.opcode = TXPOWER /\ r.bytes = <<b>>
      /\ r.means = Means("set_txpower", <<OnWire(i), dbm>>)
  BY DEF SetTxPower, SendByte, Request
<1>2. b \in Byte /\ Int8(WordOfByte(b)) = dbm
  BY SignIsRead
<1> HIDE DEF b
<1> DEFINE w == WordOfByte(b)
<1>3. Int8(w) = dbm
  BY <1>2
<1> HIDE DEF w
<1>4. ValidArgument(TXPOWER, w) /\ CommandArgs(OnWire(i), TXPOWER, w) = <<OnWire(i), Int8(w)>>
  BY Tables
<1>5. FrameCalls(CallbackNames, FrameOf(r), TRUE, 0)
        = Means(CommandName(TXPOWER), CommandArgs(OnWire(i), TXPOWER, w))
  BY <1>1, <1>2, <1>4, ByteCommand DEF w
<1> QED
  BY <1>1, <1>3, <1>4, <1>5, Names

\* Each of the three radio states there are is accepted.
LEMMA RadioStateCommand ==
    ASSUME NEW i \in Byte,
           NEW st \in {RADIO_STATE_OFF, RADIO_STATE_ON, RADIO_STATE_ASK},
           NEW r, r = SetRadioState(i, st)
    PROVE  FrameCalls(CallbackNames, FrameOf(r), TRUE, 0) = r.means
<1>0. st \in Byte
  BY DEF Byte, RADIO_STATE_OFF, RADIO_STATE_ON, RADIO_STATE_ASK
<1>1. /\ r.interface = i /\ r.opcode = RADIO_STATE /\ r.bytes = <<st>>
      /\ r.means = Means("set_radio_state", <<OnWire(i), st>>)
  BY DEF SetRadioState, SendByte, Request
<1> DEFINE w == WordOfByte(st)
<1>2. ValidArgument(RADIO_STATE, w)
  BY Tables DEF ValidArgument
<1>3. w[4] = st
  BY DEF WordOfByte
<1> HIDE DEF w
<1>4. CommandArgs(OnWire(i), RADIO_STATE, w) = <<OnWire(i), w[4]>>
  BY Tables
<1>5. FrameCalls(CallbackNames, FrameOf(r), TRUE, 0)
        = Means(CommandName(RADIO_STATE), CommandArgs(OnWire(i), RADIO_STATE, w))
  BY <1>0, <1>1, <1>2, ByteCommand DEF w
<1> QED
  BY <1>1, <1>3, <1>4, <1>5, Names

\* detect and leave arrive without arguments.
LEMMA GlobalCommand ==
    ASSUME NEW o \in {DETECT, LEAVE}, NEW b \in Byte,
           o = DETECT => b = DETECT_REQ,
           NEW r, r = Request(0, o, <<b>>, Means(CommandName(o), << >>))
    PROVE  FrameCalls(CallbackNames, FrameOf(r), TRUE, 0) = r.means
<1>1. /\ r.interface = 0 /\ r.opcode = o /\ r.bytes = <<b>>
      /\ r.means = Means(CommandName(o), << >>)
  BY DEF Request
<1>2. 0 \in Byte
  BY DEF Byte
<1> DEFINE w == WordOfByte(b)
<1>3. ValidArgument(o, w)
  BY Tables DEF ValidArgument
<1> HIDE DEF w
<1>4. CommandArgs(OnWire(0), o, w) = << >>
  BY Tables
<1>5. FrameCalls(CallbackNames, FrameOf(r), TRUE, 0)
        = Means(CommandName(o), CommandArgs(OnWire(0), o, w))
  BY <1>1, <1>2, <1>3, ByteCommand DEF w
<1> QED
  BY <1>1, <1>4, <1>5

\* ready arrives although its frame is a header and nothing more.
LEMMA ReadyCommand == FrameCalls(CallbackNames, FrameOf(Ready), TRUE, 0) = Ready.means
<1> DEFINE f == FrameOf(Ready)
           h == HeaderByte(0, READY)
<1>1. /\ Ready.interface = 0 /\ Ready.opcode = READY /\ Ready.bytes = << >>
      /\ Ready.means = Means("ready", << >>)
  BY DEF Ready, Request
<1>2. READY \in 0 .. 15 /\ OpcodeLength(READY) = 0
  BY Tables
<1>3. READY \in 0 .. 127 /\ READY % 16 = READY /\ 0 \in Byte
  BY <1>2 DEF Byte
<1>4. f = <<h>>
  BY <1>1 DEF FrameOf
<1> HIDE DEF h
<1>5. Len(f) = 0 + 1 /\ f[1] = h /\ 0 \in 0 .. 4
  BY <1>4
<1> HIDE DEF f
<1>6. InterfaceOf(f[1]) = OnWire(0) /\ OpcodeOf(f[1]) = READY
  BY <1>3, <1>5, HeaderSplit DEF OnWire, h
<1>7. /\ ValidArgument(READY, PayloadWord(f))
      /\ CommandArgs(OnWire(0), READY, PayloadWord(f)) = << >>
  BY Tables
<1>8. FrameCalls(CallbackNames, f, TRUE, 0)
        = Means(CommandName(READY), CommandArgs(OnWire(0), READY, PayloadWord(f)))
  BY <1>2, <1>5, <1>6, <1>7, FixedIsRead
<1> QED
  BY <1>1, <1>7, <1>8, Names DEF f

\* Every command its functions can send is read as the call its sender meant.
LEMMA CommandIsUnderstood ==
    ASSUME NEW r \in CommandRequests
    PROVE  FrameCalls(CallbackNames, FrameOf(r), TRUE, 0) = r.means
<1>1. ASSUME NEW i \in Byte, NEW hz \in Word,
             r = SetFrequency(i, hz) \/ r = SetBandwidth(i, hz)
      PROVE  FrameCalls(CallbackNames, FrameOf(r), TRUE, 0) = r.means
  BY <1>1, WordCommand, Names DEF SetFrequency, SetBandwidth
<1>2. ASSUME NEW i \in Byte, NEW b \in Byte,
             \/ r = SetSpreadingFactor(i, b)
             \/ r = SetCodingRate(i, b)
             \/ r = SetRadioLock(i, b)
      PROVE  FrameCalls(CallbackNames, FrameOf(r), TRUE, 0) = r.means
  BY <1>2, PlainByteCommand, Names, ZenonT(60) DEF SetSpreadingFactor, SetCodingRate, SetRadioLock
<1>3. ASSUME NEW i \in Byte, NEW dbm \in SignedByte, r = SetTxPower(i, dbm)
      PROVE  FrameCalls(CallbackNames, FrameOf(r), TRUE, 0) = r.means
  BY <1>3, PowerCommand
<1>4. ASSUME NEW i \in Byte,
             NEW st \in {RADIO_STATE_OFF, RADIO_STATE_ON, RADIO_STATE_ASK},
             r = SetRadioState(i, st)
      PROVE  FrameCalls(CallbackNames, FrameOf(r), TRUE, 0) = r.means
  BY <1>4, RadioStateCommand
<1>5. CASE r \in {Detect, Leave}
  <2>1. DETECT_REQ \in Byte /\ 0 \in Byte /\ DETECT # LEAVE
    BY DEF DETECT_REQ, Byte, DETECT, LEAVE
  <2> QED
    BY <1>5, <2>1, GlobalCommand, Names DEF Detect, Leave
<1>6. CASE r = Ready
  BY <1>6, ReadyCommand
<1>7. \/ \E i \in Byte, hz \in Word : r = SetFrequency(i, hz) \/ r = SetBandwidth(i, hz)
      \/ \E i \in Byte, b \in Byte : \/ r = SetSpreadingFactor(i, b)
                                     \/ r = SetCodingRate(i, b)
                                     \/ r = SetRadioLock(i, b)
      \/ \E i \in Byte, dbm \in SignedByte : r = SetTxPower(i, dbm)
      \/ \E i \in Byte, st \in {RADIO_STATE_OFF, RADIO_STATE_ON, RADIO_STATE_ASK} :
            r = SetRadioState(i, st)
      \/ r \in {Detect, Leave}
      \/ r = Ready
  BY DEF CommandRequests
<1> QED
  BY <1>1, <1>2, <1>3, <1>4, <1>5, <1>6, <1>7

-----------------------------------------------------------------------------
(* Streams *)

\* The calls announce a stream to an interface, carry the n bytes that follow
\* the header of f, each with its place, and close it with their number.
IsStream(calls, to, f, n) ==
    /\ Len(calls) = n + 2
    /\ calls[1] = [cb |-> "tx_start", args |-> <<to>>]
    /\ \A k \in 1 .. n :
          calls[k + 1] = [cb |-> "tx_data", args |-> <<to, f[k + 1], k - 1>>]
    /\ calls[n + 2] = [cb |-> "tx_end", args |-> <<to, n>>]

\* So do the calls of every whole frame of DATA, whatever its bytes.
LEMMA StreamIsRead ==
    ASSUME NEW f \in Seq(Byte), f # << >>, OpcodeOf(f[1]) = DATA,
           InterfaceOf(f[1]) \in 0 .. 15
    PROVE  IsStream(FrameCalls(CallbackNames, f, TRUE, 0), InterfaceOf(f[1]), f, Len(f) - 1)
<1> DEFINE calls == FrameCalls(CallbackNames, f, TRUE, 0)
           to == InterfaceOf(f[1])
           n == Len(f) - 1
           start == [cb |-> "tx_start", args |-> <<to>>]
           datum(k) == [cb |-> "tx_data", args |-> <<to, f[k + 1], k - 1>>]
           bytes == [k \in 1 .. n |-> datum(k)]
           end == [cb |-> "tx_end", args |-> <<to, n>>]
<1>1. /\ {"tx_start", "tx_data", "tx_end"} \subseteq CallbackNames
      /\ OpcodeLength(DATA) = -1
      /\ n \in Nat
  <2>1. {"tx_start", "tx_data", "tx_end"} \subseteq CallbackNames
    BY DEF CallbackNames
  <2>2. OpcodeLength(DATA) = -1
    BY Tables
  <2>3. Len(f) \in Nat /\ Len(f) # 0
    BY EmptySeq, LenProperties
  <2> QED
    BY <2>1, <2>2, <2>3
<1>2. start \in Callback /\ end \in Callback
  <2>1. <<to>> \in Seq(Int) /\ <<to, n>> \in Seq(Int)
    BY <1>1
  <2> QED
    BY <1>1, <2>1 DEF Callback
<1>3. \A k \in 1 .. n : datum(k) \in Callback
  <2> SUFFICES ASSUME NEW k \in 1 .. n PROVE datum(k) \in Callback
    OBVIOUS
  <2>1. f[k + 1] \in Int /\ k - 1 \in Int
    <3>1. k + 1 \in 1 .. Len(f)
      BY <1>1
    <3>2. f[k + 1] \in Byte
      BY <3>1, ElementOfSeq
    <3>3. f[k + 1] \in Int
      BY <3>2, ByteInt
    <3>4. k \in Int
      BY <1>1
    <3> QED
      BY <3>3, <3>4
  <2>2. <<to, f[k + 1], k - 1>> \in Seq(Int)
    BY <2>1
  <2> QED
    BY <1>1, <2>2 DEF Callback
<1>4. calls = (<<start>> \o bytes) \o <<end>>
  <2>1. calls = StreamCalls(CallbackNames, f, TRUE, 0)
    BY <1>1 DEF FrameCalls
  <2>2. StreamCalls(CallbackNames, f, TRUE, 0)
          = StreamHead(CallbackNames, f, n) \o Call(CallbackNames, "tx_end", <<to, n>>)
    BY DEF StreamCalls
  <2>3. StreamHead(CallbackNames, f, n)
          = Call(CallbackNames, "tx_start", <<to>>) \o StreamBytes(CallbackNames, f, n)
    BY DEF StreamHead
  <2>4. StreamBytes(CallbackNames, f, n) = bytes
    BY <1>1 DEF StreamBytes
  <2>5. /\ Call(CallbackNames, "tx_start", <<to>>) = <<start>>
        /\ Call(CallbackNames, "tx_end", <<to, n>>) = <<end>>
    BY <1>1 DEF Call
  <2> QED
    BY <2>1, <2>2, <2>3, <2>4, <2>5
<1> HIDE DEF start, datum, end, Callback
<1>5. bytes \in Seq(Callback) /\ Len(bytes) = n /\ \A k \in 1 .. n : bytes[k] = datum(k)
  BY <1>1, <1>3
<1> HIDE DEF bytes
<1> DEFINE head == <<start>> \o bytes
<1>6. /\ head \in Seq(Callback)
      /\ Len(head) = n + 1
      /\ head[1] = start
      /\ \A k \in 1 .. n : head[k + 1] = datum(k)
  <2>1. <<start>> \in Seq(Callback) /\ Len(<<start>>) = 1 /\ <<start>>[1] = start
    BY <1>2
  <2> QED
    BY <1>1, <1>5, <2>1, ConcatProperties
<1> HIDE DEF head
<1>7. /\ Len(head \o <<end>>) = n + 2
      /\ (head \o <<end>>)[n + 2] = end
      /\ \A k \in 1 .. n + 1 : (head \o <<end>>)[k] = head[k]
  <2>1. <<end>> \in Seq(Callback) /\ Len(<<end>>) = 1 /\ <<end>>[1] = end
    BY <1>2
  <2> QED
    BY <1>1, <1>6, <2>1, ConcatProperties
<1>8. calls = head \o <<end>>
  BY <1>4 DEF head
<1> DEFINE all == head \o <<end>>
<1>9. /\ Len(all) = n + 2 /\ all[n + 2] = end
      /\ \A k \in 1 .. n + 1 : all[k] = head[k]
  BY <1>7
<1> HIDE DEF all
<1>10. all[1] = head[1] /\ \A k \in 1 .. n : all[k + 1] = head[k + 1]
  <2>1. 1 \in 1 .. n + 1 /\ \A k \in 1 .. n : k + 1 \in 1 .. n + 1
    BY <1>1
  <2> QED
    BY <1>9, <2>1
<1>11. all[1] = start /\ \A k \in 1 .. n : all[k + 1] = datum(k)
  BY <1>6, <1>10
<1> QED
  BY <1>8, <1>9, <1>11 DEF all, start, datum, end, IsStream

-----------------------------------------------------------------------------
\* If every request comes from the functions of command-encoder.c, then every
\* command that leaves whole is read as the call its sender meant: for every
\* frequency, bandwidth, power, interface and state, wherever callbacks aborted
\* the frames before it.
THEOREM CommandRoundTrip ==
    ASSUME Requests \subseteq CommandRequests
    PROVE  Spec => []DeliveredIsUnderstood
<1>1. EInv /\ Origin => DeliveredIsUnderstood
  <2> SUFFICES ASSUME EInv, Origin, pc = "none", wire # << >>, ~open, ~spoilt,
                      request.opcode # DATA
               PROVE  FrameCalls(CallbackNames, wire, TRUE, 0) = request.means
    BY DEF DeliveredIsUnderstood
  <2>1. request \in CommandRequests /\ wire = FrameOf(request)
    BY WireOrigin
  <2> QED
    BY <2>1, CommandIsUnderstood
<1> QED
  BY <1>1, EncoderInvariance, OriginInvariance, PTL

\* A stream that leaves whole is announced, carried and closed with the number
\* of its bytes, whatever the interface and the bytes.
THEOREM StreamRoundTrip == Spec => []StreamIsUnderstood
<1>1. EInv /\ Origin => StreamIsUnderstood
  <2> SUFFICES ASSUME EInv, Origin, pc = "none", wire # << >>, ~open, ~spoilt,
                      request.opcode = DATA
               PROVE  IsStream(FrameCalls(CallbackNames, wire, TRUE, 0),
                               OnWire(request.interface), asked, Len(asked) - 1)
    BY DEF StreamIsUnderstood, IsStream
  <2>1. /\ wire = asked /\ asked \in Seq(Byte) /\ request.interface \in Byte
        /\ asked[1] = HeaderByte(request.interface, DATA)
    BY WireOrigin
  <2>2. DATA \in 0 .. 127 /\ DATA % 16 = DATA
    BY DEF DATA
  <2>3. InterfaceOf(asked[1]) = OnWire(request.interface) /\ OpcodeOf(asked[1]) = DATA
    BY <2>1, <2>2, HeaderSplit, ZenonT(60) DEF OnWire
  <2>4. InterfaceOf(asked[1]) \in 0 .. 15
    <3>1. \A i \in Byte : i % 16 \in 0 .. 15
      BY DEF Byte
    <3> QED
      BY <2>1, <2>3, <3>1 DEF OnWire
  <2> QED
    BY <2>1, <2>3, <2>4, StreamIsRead
<1> QED
  BY <1>1, EncoderInvariance, OriginInvariance, PTL

=============================================================================
