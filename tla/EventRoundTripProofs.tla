------------------------ MODULE EventRoundTripProofs ------------------------
(***************************************************************************)
(* Proofs about what a host makes of the events a device sends, for every  *)
(* value of every argument and every payload: seven of them arrive as      *)
(* their sender meant, and the others, cut to the low nibble of their      *)
(* opcode, are never taken for a reading, a blink or an identification.    *)
(* EncoderProofs shows that a frame nobody aborted holds the bytes asked   *)
(* for; here they are read as EventFrames says, the meaning that           *)
(* EventDecoderProofs shows EventDecoder to implement.                     *)
(***************************************************************************)
EXTENDS EventEncoder, EncoderProofs

\* The values of an int8_t.
SignedByte == -128 .. 127

\* Every request the functions of event-encoder.c can make, over the types of
\* their arguments.
EventRequests ==
    { EventRssi(i, rssi) : i \in Byte, rssi \in SignedByte }
        \cup { EventSnr(i, snr) : i \in Byte, snr \in SignedByte }
        \cup { EventBlink(i) : i \in Byte }
        \cup { EventRandom(i, v) : i \in Byte, v \in Byte }
        \cup { EventPlatform(i, p) : i \in Byte, p \in Byte }
        \cup { EventMcu(i, m) : i \in Byte, m \in Byte }
        \cup { EventFwVersion(i, hi, lo) : i \in Byte, hi \in Byte, lo \in Byte }
        \cup { EventError(i, code) : i \in Byte, code \in Byte }
        \cup { EventRomRead(i, p) : i \in Byte, p \in Seq(Byte) }
        \cup { EventReset(i, p) : i \in Byte, p \in Seq(Byte) }
        \cup { EventInterfaces(i, p) : i \in Byte, p \in Seq(Byte) }
        \cup { EventStatRx(i, p) : i \in Byte, p \in Seq(Byte) }
        \cup { EventStatTx(i, p) : i \in Byte, p \in Seq(Byte) }

\* What a request becomes when its frame is read.
ReadAs(r) == EventCalls(EventNames, FrameOf(r), TRUE, 0)

-----------------------------------------------------------------------------
(* Lemmas about frames *)

\* The nibbles of the events' opcodes, and the payload lengths the decoder
\* expects for them.
LEMMA Nibbles ==
    /\ STAT_RX % 16 = EV_STAT_RX /\ STAT_TX % 16 = EV_STAT_TX
    /\ STAT_RSSI % 16 = EV_RSSI /\ STAT_SNR % 16 = EV_SNR /\ BLINK % 16 = EV_BLINK
    /\ PLATFORM % 16 = EV_PLATFORM /\ MCU % 16 = EV_MCU
    /\ RANDOM % 16 = EV_BLINK /\ FW_VERSION % 16 = EV_BLINK
    /\ ROM_READ % 16 = EV_STAT_RX /\ INTERFACES % 16 = EV_STAT_RX
    /\ EventLength(EV_STAT_RX) = -1 /\ EventLength(EV_STAT_TX) = -1
    /\ EventLength(EV_RSSI) = 1 /\ EventLength(EV_SNR) = 1
    /\ EventLength(EV_PLATFORM) = 1 /\ EventLength(EV_MCU) = 1
    /\ EventLength(EV_BLINK) = 0
    /\ EventLength(RESET % 16) = -2 /\ EventLength(ERROR % 16) = -2
<1> USE DEF STAT_RX, STAT_TX, STAT_RSSI, STAT_SNR, BLINK, PLATFORM, MCU, RANDOM,
            FW_VERSION, ROM_READ, INTERFACES, RESET, ERROR, EV_STAT_RX, EV_STAT_TX,
            EV_RSSI, EV_SNR, EV_PLATFORM, EV_MCU, EV_BLINK
<1>1. /\ STAT_RX % 16 = EV_STAT_RX /\ STAT_TX % 16 = EV_STAT_TX
      /\ STAT_RSSI % 16 = EV_RSSI /\ STAT_SNR % 16 = EV_SNR /\ BLINK % 16 = EV_BLINK
      /\ PLATFORM % 16 = EV_PLATFORM /\ MCU % 16 = EV_MCU
      /\ RANDOM % 16 = EV_BLINK /\ FW_VERSION % 16 = EV_BLINK
      /\ ROM_READ % 16 = EV_STAT_RX /\ INTERFACES % 16 = EV_STAT_RX
  OBVIOUS
<1>2. RESET % 16 = 5 /\ ERROR % 16 = 15
  OBVIOUS
<1>3. /\ EventLength(EV_STAT_RX) = -1 /\ EventLength(EV_STAT_TX) = -1
      /\ EventLength(EV_RSSI) = 1 /\ EventLength(EV_SNR) = 1
      /\ EventLength(EV_PLATFORM) = 1 /\ EventLength(EV_MCU) = 1
      /\ EventLength(EV_BLINK) = 0
      /\ EventLength(5) = -2 /\ EventLength(15) = -2
  BY DEF EventLength
<1> QED
  BY <1>1, <1>2, <1>3

\* The arguments of the events of one byte or none.
LEMMA EventTables ==
    ASSUME NEW i, NEW w
    PROVE  /\ EventCall(EventNames, i, EV_RSSI, w) = Means("rssi", <<i, Int8(w)>>)
           /\ EventCall(EventNames, i, EV_SNR, w) = Means("snr", <<i, Int8(w)>>)
           /\ EventCall(EventNames, i, EV_PLATFORM, w) = Means("platform", <<i, w[4]>>)
           /\ EventCall(EventNames, i, EV_MCU, w) = Means("mcu", <<i, w[4]>>)
           /\ EventCall(EventNames, i, EV_BLINK, w) = Means("blink", << >>)
<1>1. {"rssi", "snr", "blink", "platform", "mcu"} \subseteq EventNames
  BY DEF EventNames
<1>2. \A name \in EventNames : \A args :
         Call(EventNames, name, args) = Means(name, args)
  BY DEF Call, Means
<1>3. /\ EventCall(EventNames, i, EV_RSSI, w) = Call(EventNames, "rssi", <<i, Int8(w)>>)
      /\ EventCall(EventNames, i, EV_SNR, w) = Call(EventNames, "snr", <<i, Int8(w)>>)
      /\ EventCall(EventNames, i, EV_PLATFORM, w)
           = Call(EventNames, "platform", <<i, w[4]>>)
      /\ EventCall(EventNames, i, EV_MCU, w) = Call(EventNames, "mcu", <<i, w[4]>>)
      /\ EventCall(EventNames, i, EV_BLINK, w) = Call(EventNames, "blink", << >>)
  BY DEF EventCall, EV_RSSI, EV_SNR, EV_PLATFORM, EV_MCU, EV_BLINK
<1> QED
  BY <1>1, <1>2, <1>3

\* A byte that was an int8_t is read back with its sign.
LEMMA SignIsRead ==
    ASSUME NEW v \in SignedByte
    PROVE  Uint8(v) \in Byte /\ Int8(WordOfByte(Uint8(v))) = v
<1>1. v % 256 = IF v < 0 THEN v + 256 ELSE v
  BY DEF SignedByte
<1>2. WordOfByte(Uint8(v))[4] = v % 256
  BY DEF WordOfByte, Uint8
<1> QED
  BY <1>1, <1>2 DEF SignedByte, Byte, Uint8, Int8

\* A frame whose payload has the length its event has.
LEMMA FixedIsRead ==
    ASSUME NEW r \in Requests, NEW o, o = r.opcode % 16,
           NEW n \in {0, 1}, EventLength(o) = n, Len(r.bytes) = n
    PROVE  ReadAs(r) = EventCall(EventNames, OnWire(r.interface), o,
                          WordOfByte(IF n = 0 THEN 0 ELSE r.bytes[1]))
<1> DEFINE f == FrameOf(r)
           w == WordOfByte(IF n = 0 THEN 0 ELSE f[2])
<1>1. /\ f # << >> /\ InterfaceOf(f[1]) = OnWire(r.interface) /\ OpcodeOf(f[1]) = o
      /\ Len(f) - 1 = n
      /\ \A k \in 1 .. n : f[k + 1] = r.bytes[k]
  BY RequestFrame DEF OnWire
<1>2. n # 0 => f[2] = r.bytes[1]
  <2>1. n # 0 => f[1 + 1] = r.bytes[1]
    BY <1>1
  <2> QED
    BY <2>1
<1> HIDE DEF f
<1>3. EventLength(OpcodeOf(f[1])) # -1 /\ EventLength(OpcodeOf(f[1])) # -2
  BY <1>1
<1>4. EventCalls(EventNames, f, TRUE, 0) = EventFixedCalls(EventNames, f, TRUE)
  BY <1>1, <1>3 DEF EventCalls
<1>5. EventFixedCalls(EventNames, f, TRUE)
        = EventCall(EventNames, InterfaceOf(f[1]), OpcodeOf(f[1]),
                    WordOfByte(IF Len(f) - 1 = 0 THEN 0 ELSE f[2]))
  <2>1. Len(f) - 1 = EventLength(OpcodeOf(f[1])) /\ Len(f) - 1 \in Int
    BY <1>1
  <2> QED
    BY <2>1 DEF EventFixedCalls
<1> QED
  BY <1>1, <1>2, <1>4, <1>5 DEF ReadAs, f

\* A call of a callback that is there.
LEMMA CalledOnce ==
    ASSUME NEW name \in EventNames, NEW args
    PROVE  /\ Len(Call(EventNames, name, args)) = 1
           /\ Call(EventNames, name, args)[1].cb = name
<1> DEFINE c == [cb |-> name, args |-> args]
<1>1. c.cb = name
  OBVIOUS
<1>2. Call(EventNames, name, args) = <<c>>
  BY DEF Call
<1> HIDE DEF c
<1> QED
  BY <1>1, <1>2

\* A frame with a longer payload is only an error.
LEMMA LongIsError ==
    ASSUME NEW r \in Requests, NEW o, o = r.opcode % 16,
           NEW n \in {0, 1}, EventLength(o) = n, n < Len(r.bytes)
    PROVE  Len(ReadAs(r)) = 1 /\ ReadAs(r)[1].cb = "error"
<1> DEFINE f == FrameOf(r)
           args == <<InterfaceOf(f[1]), o, n, INVALID_LENGTH>>
<1>1. /\ f # << >> /\ OpcodeOf(f[1]) = o
      /\ Len(f) - 1 > n
      /\ Len(f) - 1 \in Int
  BY RequestFrame
<1> HIDE DEF f
<1>2. EventLength(OpcodeOf(f[1])) # -1 /\ EventLength(OpcodeOf(f[1])) # -2
  BY <1>1
<1>3. EventCalls(EventNames, f, TRUE, 0) = EventFixedCalls(EventNames, f, TRUE)
  BY <1>1, <1>2 DEF EventCalls
<1>4. EventFixedCalls(EventNames, f, TRUE) = Call(EventNames, "error", args)
  BY <1>1 DEF EventFixedCalls
<1> HIDE DEF args
<1>5. "error" \in EventNames
  BY DEF EventNames
<1>6. /\ Len(Call(EventNames, "error", args)) = 1
      /\ Call(EventNames, "error", args)[1].cb = "error"
  BY ONLY <1>5, CalledOnce
<1>7. ReadAs(r) = Call(EventNames, "error", args)
  BY <1>3, <1>4 DEF ReadAs, f
<1> QED
  BY <1>6, <1>7

\* So is a frame of an opcode the decoder does not know.
LEMMA UnknownIsError ==
    ASSUME NEW r \in Requests, EventLength(r.opcode % 16) = -2
    PROVE  Len(ReadAs(r)) = 1 /\ ReadAs(r)[1].cb = "error"
<1> DEFINE f == FrameOf(r)
           args == <<InterfaceOf(f[1]), OpcodeOf(f[1]), 0, UNKNOWN_OPCODE>>
<1>1. f # << >> /\ EventLength(OpcodeOf(f[1])) = -2
  <2>1. f # << >> /\ OpcodeOf(f[1]) = r.opcode % 16
    BY RequestFrame
  <2> HIDE DEF f
  <2> QED
    BY <2>1
<1> HIDE DEF f
<1>2. EventCalls(EventNames, f, TRUE, 0) = Call(EventNames, "error", args)
  BY <1>1 DEF EventCalls
<1> HIDE DEF args
<1>3. "error" \in EventNames
  BY DEF EventNames
<1>4. /\ Len(Call(EventNames, "error", args)) = 1
      /\ Call(EventNames, "error", args)[1].cb = "error"
  BY ONLY <1>3, CalledOnce
<1>5. ReadAs(r) = Call(EventNames, "error", args)
  BY <1>2 DEF ReadAs, f
<1> QED
  BY <1>4, <1>5

\* The stream callbacks are the decoder's.
LEMMA StreamNames ==
    /\ StartOf(EV_STAT_RX) = "stat_rx_start" /\ DataOf(EV_STAT_RX) = "stat_rx_data"
    /\ EndOf(EV_STAT_RX) = "stat_rx_end"
    /\ StartOf(EV_STAT_TX) = "stat_tx_start" /\ DataOf(EV_STAT_TX) = "stat_tx_data"
    /\ EndOf(EV_STAT_TX) = "stat_tx_end"
    /\ RxNames \cup TxNames \subseteq EventNames
BY DEF StartOf, DataOf, EndOf, EV_STAT_RX, EV_STAT_TX, RxNames, TxNames, EventNames

\* A whole stream is announced, carried and closed.
LEMMA StreamIsRead ==
    ASSUME NEW r \in Requests, NEW o \in {EV_STAT_RX, EV_STAT_TX}, o = r.opcode % 16
    PROVE  ReadAs(r) = StreamMeans(r.interface, r.bytes, StartOf(o), DataOf(o), EndOf(o))
<1> DEFINE f == FrameOf(r)
           p == r.bytes
           i == OnWire(r.interface)
<1>1. /\ f # << >> /\ InterfaceOf(f[1]) = i /\ OpcodeOf(f[1]) = o
      /\ Len(f) - 1 = Len(p) /\ Len(p) \in Nat
      /\ \A k \in 1 .. Len(p) : f[k + 1] = p[k]
  BY RequestFrame DEF OnWire
<1> HIDE DEF f, p, i
<1>2. {StartOf(o), DataOf(o), EndOf(o)} \subseteq EventNames
  BY StreamNames DEF RxNames, TxNames
<1>3. EventLength(o) = -1
  BY Nibbles
<1>4. EventCalls(EventNames, f, TRUE, 0) = EventStreamCalls(EventNames, f, TRUE, 0)
  BY <1>1, <1>3 DEF EventCalls
<1>5. EventStreamCalls(EventNames, f, TRUE, 0)
        = Call(EventNames, StartOf(o), <<i>>) \o EventBytes(EventNames, f, Len(p))
            \o Call(EventNames, EndOf(o), <<i, Len(p)>>)
  <2>1. EventStreamCalls(EventNames, f, TRUE, 0)
          = Call(EventNames, StartOf(OpcodeOf(f[1])), <<InterfaceOf(f[1])>>)
              \o EventBytes(EventNames, f, Len(f) - 1)
              \o Call(EventNames, EndOf(OpcodeOf(f[1])), <<InterfaceOf(f[1]), Len(f) - 1>>)
    <3>1. 0 \notin 1 .. Len(f)
      BY <1>1
    <3> QED
      BY ONLY <3>1 DEF EventStreamCalls
  <2> QED
    BY <1>1, <2>1
<1>6. EventBytes(EventNames, f, Len(p))
        = [k \in 1 .. Len(p) |-> [cb |-> DataOf(o), args |-> <<i, p[k], k - 1>>]]
  <2>1. EventBytes(EventNames, f, Len(p))
          = [k \in 1 .. Len(p) |-> [cb |-> DataOf(o), args |-> <<i, f[k + 1], k - 1>>]]
    BY <1>1, <1>2 DEF EventBytes
  <2> QED
    BY <1>1, <2>1
<1>7. /\ Call(EventNames, StartOf(o), <<i>>) = Means(StartOf(o), <<i>>)
      /\ Call(EventNames, EndOf(o), <<i, Len(p)>>) = Means(EndOf(o), <<i, Len(p)>>)
  BY <1>2 DEF Call, Means
<1> QED
  BY <1>4, <1>5, <1>6, <1>7 DEF ReadAs, StreamMeans, f, p, i

\* The calls of a stream are to that stream's callbacks.
LEMMA StreamCallbacks ==
    ASSUME NEW i, NEW p \in Seq(Byte), NEW names,
           NEW start \in names, NEW data \in names, NEW end \in names,
           NEW calls, calls = StreamMeans(i, p, start, data, end)
    PROVE  \A k \in 1 .. Len(calls) : calls[k].cb \in names
<1> DEFINE a == [cb |-> start, args |-> <<OnWire(i)>>]
           d(k) == [cb |-> data, args |-> <<OnWire(i), p[k], k - 1>>]
           z == [cb |-> end, args |-> <<OnWire(i), Len(p)>>]
           any == {a, z} \cup {d(k) : k \in 1 .. Len(p)}
           bytes == [k \in 1 .. Len(p) |-> d(k)]
<1>1. calls = <<a>> \o bytes \o <<z>>
  BY DEF StreamMeans, Means
<1>2. \A c \in any : c.cb \in names
  OBVIOUS
<1>3. a \in any /\ z \in any /\ \A k \in 1 .. Len(p) : d(k) \in any
  OBVIOUS
<1>4. Len(p) \in Nat
  OBVIOUS
<1> HIDE DEF a, d, z, any
<1>5. <<a>> \in Seq(any) /\ <<z>> \in Seq(any)
  BY <1>3
<1>6. bytes \in Seq(any)
  BY <1>3, <1>4
<1> HIDE DEF bytes
<1>7. <<a>> \o bytes \in Seq(any)
  BY <1>5, <1>6, ConcatProperties
<1>8. calls \in Seq(any)
  BY <1>1, <1>5, <1>7, ConcatProperties
<1> QED
  BY <1>2, <1>8, ElementOfSeq

-----------------------------------------------------------------------------
(* Lemmas about the requests of each kind *)

\* An event of one byte or none arrives with its arguments.
LEMMA PlainEvent ==
    ASSUME NEW r \in Requests, NEW i \in Byte, NEW b \in Byte,
           r \in {EventPlatform(i, b), EventMcu(i, b), EventBlink(i)}
    PROVE  ReadAs(r) = r.means
<1>1. WordOfByte(b)[4] = b
  BY DEF WordOfByte
<1>2. CASE r = EventBlink(i)
  <2>1. r.opcode = BLINK /\ Len(r.bytes) = 0 /\ r.means = Means("blink", << >>)
    BY <1>2 DEF EventBlink, Request
  <2>2. EV_BLINK = r.opcode % 16 /\ EventLength(EV_BLINK) = 0
    BY <2>1, Nibbles
  <2>3. ReadAs(r) = EventCall(EventNames, OnWire(r.interface), EV_BLINK, WordOfByte(0))
    BY <2>1, <2>2, FixedIsRead
  <2> QED
    BY <2>1, <2>3, EventTables
<1>3. CASE r = EventPlatform(i, b)
  <2>1. /\ r.interface = i /\ r.opcode = PLATFORM /\ Len(r.bytes) = 1 /\ r.bytes[1] = b
        /\ r.means = Means("platform", <<OnWire(i), b>>)
    BY <1>3 DEF EventPlatform, SendEventByte, Request
  <2>2. EV_PLATFORM = r.opcode % 16 /\ EventLength(EV_PLATFORM) = 1
    BY <2>1, Nibbles
  <2>3. ReadAs(r) = EventCall(EventNames, OnWire(i), EV_PLATFORM, WordOfByte(b))
    BY <2>1, <2>2, FixedIsRead
  <2> QED
    BY <1>1, <2>1, <2>3, EventTables, ZenonT(60)
<1>4. CASE r = EventMcu(i, b)
  <2>1. /\ r.interface = i /\ r.opcode = MCU /\ Len(r.bytes) = 1 /\ r.bytes[1] = b
        /\ r.means = Means("mcu", <<OnWire(i), b>>)
    BY <1>4 DEF EventMcu, SendEventByte, Request
  <2>2. EV_MCU = r.opcode % 16 /\ EventLength(EV_MCU) = 1
    BY <2>1, Nibbles
  <2>3. ReadAs(r) = EventCall(EventNames, OnWire(i), EV_MCU, WordOfByte(b))
    BY <2>1, <2>2, FixedIsRead
  <2> QED
    BY <1>1, <2>1, <2>3, EventTables, ZenonT(60)
<1> QED
  BY <1>2, <1>3, <1>4

\* A reading keeps its sign.
LEMMA Reading ==
    ASSUME NEW r \in Requests, NEW i \in Byte, NEW v \in SignedByte,
           r \in {EventRssi(i, v), EventSnr(i, v)}
    PROVE  ReadAs(r) = r.means
<1> DEFINE b == Uint8(v)
           w == WordOfByte(b)
<1>1. Int8(w) = v
  BY SignIsRead
<1>2. CASE r = EventRssi(i, v)
  <2>1. /\ r.interface = i /\ r.opcode = STAT_RSSI /\ Len(r.bytes) = 1 /\ r.bytes[1] = b
        /\ r.means = Means("rssi", <<OnWire(i), v>>)
    BY <1>2 DEF EventRssi, SendEventByte, Request
  <2>2. EV_RSSI = r.opcode % 16 /\ EventLength(EV_RSSI) = 1
    BY <2>1, Nibbles
  <2>3. ReadAs(r) = EventCall(EventNames, OnWire(i), EV_RSSI, w)
    BY <2>1, <2>2, FixedIsRead
  <2> HIDE DEF w
  <2> QED
    BY <1>1, <2>1, <2>3, EventTables
<1>3. CASE r = EventSnr(i, v)
  <2>1. /\ r.interface = i /\ r.opcode = STAT_SNR /\ Len(r.bytes) = 1 /\ r.bytes[1] = b
        /\ r.means = Means("snr", <<OnWire(i), v>>)
    BY <1>3 DEF EventSnr, SendEventByte, Request
  <2>2. EV_SNR = r.opcode % 16 /\ EventLength(EV_SNR) = 1
    BY <2>1, Nibbles
  <2>3. ReadAs(r) = EventCall(EventNames, OnWire(i), EV_SNR, w)
    BY <2>1, <2>2, FixedIsRead
  <2> HIDE DEF w
  <2> QED
    BY <1>1, <2>1, <2>3, EventTables
<1> QED
  BY <1>2, <1>3

\* A received or transmitted frame arrives as a stream, whatever its length.
LEMMA StatEvent ==
    ASSUME NEW r \in Requests, NEW i \in Byte, NEW p \in Seq(Byte),
           r \in {EventStatRx(i, p), EventStatTx(i, p)}
    PROVE  ReadAs(r) = r.means
<1>1. CASE r = EventStatRx(i, p)
  <2>1. /\ r.interface = i /\ r.opcode = STAT_RX /\ r.bytes = p
        /\ r.means = StreamMeans(i, p, "stat_rx_start", "stat_rx_data", "stat_rx_end")
    BY <1>1 DEF EventStatRx, Request
  <2>2. EV_STAT_RX = r.opcode % 16
    BY <2>1, Nibbles
  <2>3. ReadAs(r) = StreamMeans(r.interface, r.bytes, StartOf(EV_STAT_RX),
                                DataOf(EV_STAT_RX), EndOf(EV_STAT_RX))
    BY <2>2, StreamIsRead
  <2> QED
    BY <2>1, <2>3, StreamNames
<1>2. CASE r = EventStatTx(i, p)
  <2>1. /\ r.interface = i /\ r.opcode = STAT_TX /\ r.bytes = p
        /\ r.means = StreamMeans(i, p, "stat_tx_start", "stat_tx_data", "stat_tx_end")
    BY <1>2 DEF EventStatTx, Request
  <2>2. EV_STAT_TX = r.opcode % 16
    BY <2>1, Nibbles
  <2>3. ReadAs(r) = StreamMeans(r.interface, r.bytes, StartOf(EV_STAT_TX),
                                DataOf(EV_STAT_TX), EndOf(EV_STAT_TX))
    BY <2>2, StreamIsRead
  <2> QED
    BY <2>1, <2>3, StreamNames
<1> QED
  BY <1>1, <1>2

\* An event that shares its nibble with another, or with none, is read as an
\* error or as a received frame.
LEMMA OtherEvent ==
    ASSUME NEW r \in Requests, NEW i \in Byte, NEW b \in Byte, NEW c \in Byte,
           NEW p \in Seq(Byte),
           r \in {EventRandom(i, b), EventFwVersion(i, b, c), EventError(i, b),
                  EventReset(i, p), EventRomRead(i, p), EventInterfaces(i, p)}
    PROVE  \A k \in 1 .. Len(ReadAs(r)) : ReadAs(r)[k].cb \in {"error"} \cup RxNames
<1> DEFINE Goal == \A k \in 1 .. Len(ReadAs(r)) : ReadAs(r)[k].cb \in {"error"} \cup RxNames
<1>1. (Len(ReadAs(r)) = 1 /\ ReadAs(r)[1].cb = "error") => Goal
  OBVIOUS
<1>2. CASE r = EventRandom(i, b)
  <2>1. r.opcode = RANDOM /\ Len(r.bytes) = 1
    BY <1>2 DEF EventRandom, SendEventByte, Request
  <2>2. EV_BLINK = r.opcode % 16 /\ EventLength(EV_BLINK) = 0
    BY <2>1, Nibbles
  <2>3. 0 \in {0, 1} /\ 0 < Len(r.bytes)
    BY <2>1
  <2> QED
    BY <1>1, <2>2, <2>3, LongIsError
<1>3. CASE r = EventFwVersion(i, b, c)
  <2>1. r.opcode = FW_VERSION /\ Len(r.bytes) = 2
    BY <1>3 DEF EventFwVersion, Request
  <2>2. EV_BLINK = r.opcode % 16 /\ EventLength(EV_BLINK) = 0
    BY <2>1, Nibbles
  <2>3. 0 \in {0, 1} /\ 0 < Len(r.bytes)
    BY <2>1
  <2> QED
    BY <1>1, <2>2, <2>3, LongIsError
<1>4. CASE r \in {EventError(i, b), EventReset(i, p)}
  <2>1. r.opcode \in {ERROR, RESET}
    BY <1>4 DEF EventError, EventReset, Request
  <2>2. EventLength(r.opcode % 16) = -2
    BY <2>1, Nibbles
  <2> QED
    BY <1>1, <2>2, UnknownIsError
<1>5. CASE r \in {EventRomRead(i, p), EventInterfaces(i, p)}
  <2>1. r.opcode \in {ROM_READ, INTERFACES} /\ r.bytes = p
    BY <1>5 DEF EventRomRead, EventInterfaces, Request
  <2>2. EV_STAT_RX = r.opcode % 16
    BY <2>1, Nibbles
  <2>3. ReadAs(r) = StreamMeans(r.interface, r.bytes, StartOf(EV_STAT_RX),
                                DataOf(EV_STAT_RX), EndOf(EV_STAT_RX))
    BY <2>2, StreamIsRead
  <2>4. {StartOf(EV_STAT_RX), DataOf(EV_STAT_RX), EndOf(EV_STAT_RX)} \subseteq RxNames
    BY StreamNames DEF RxNames
  <2>5. \A k \in 1 .. Len(ReadAs(r)) : ReadAs(r)[k].cb \in RxNames
    BY <2>1, <2>3, <2>4, StreamCallbacks
  <2> QED
    BY <2>5
<1> QED
  BY <1>2, <1>3, <1>4, <1>5

\* Every event its functions can send is read as its sender meant, if it is
\* one of the seven, and otherwise as an error or a received frame.
LEMMA EventIsRead ==
    ASSUME NEW r \in Requests, r \in EventRequests
    PROVE  /\ r.opcode \in Decodable => ReadAs(r) = r.means
           /\ r.opcode \notin Decodable =>
                 \A k \in 1 .. Len(ReadAs(r)) : ReadAs(r)[k].cb \in {"error"} \cup RxNames
<1> DEFINE Faithful == ReadAs(r) = r.means
           Harmless == \A k \in 1 .. Len(ReadAs(r)) :
                          ReadAs(r)[k].cb \in {"error"} \cup RxNames
<1>1. ASSUME NEW i \in Byte, NEW v \in SignedByte, r \in {EventRssi(i, v), EventSnr(i, v)}
      PROVE  Faithful /\ r.opcode \in Decodable
  BY <1>1, Reading DEF EventRssi, EventSnr, SendEventByte, Request, Decodable
<1>2. ASSUME NEW i \in Byte, NEW b \in Byte,
             r \in {EventPlatform(i, b), EventMcu(i, b), EventBlink(i)}
      PROVE  Faithful /\ r.opcode \in Decodable
  BY <1>2, PlainEvent DEF EventPlatform, EventMcu, EventBlink, SendEventByte, Request,
                          Decodable
<1>3. ASSUME NEW i \in Byte, NEW p \in Seq(Byte), r \in {EventStatRx(i, p), EventStatTx(i, p)}
      PROVE  Faithful /\ r.opcode \in Decodable
  BY <1>3, StatEvent DEF EventStatRx, EventStatTx, Request, Decodable
<1>4. ASSUME NEW i \in Byte, NEW b \in Byte, NEW c \in Byte, NEW p \in Seq(Byte),
             r \in {EventRandom(i, b), EventFwVersion(i, b, c), EventError(i, b),
                    EventReset(i, p), EventRomRead(i, p), EventInterfaces(i, p)}
      PROVE  Harmless /\ r.opcode \notin Decodable
  <2>1. r.opcode \in {RANDOM, FW_VERSION, ERROR, RESET, ROM_READ, INTERFACES}
    BY <1>4 DEF EventRandom, EventFwVersion, EventError, EventReset, EventRomRead,
                EventInterfaces, SendEventByte, Request
  <2>2. r.opcode \notin Decodable
    BY <2>1 DEF Decodable, RANDOM, FW_VERSION, ERROR, RESET, ROM_READ, INTERFACES,
                STAT_RX, STAT_TX, STAT_RSSI, STAT_SNR, BLINK, PLATFORM, MCU
  <2> QED
    BY <1>4, <2>2, OtherEvent
<1> HIDE DEF Faithful, Harmless
<1>5. 0 \in Byte /\ << >> \in Seq(Byte)
  BY DEF Byte
<1>6. \/ \E i \in Byte, v \in SignedByte : r \in {EventRssi(i, v), EventSnr(i, v)}
      \/ \E i \in Byte, b \in Byte :
            r \in {EventPlatform(i, b), EventMcu(i, b), EventBlink(i)}
      \/ \E i \in Byte, p \in Seq(Byte) : r \in {EventStatRx(i, p), EventStatTx(i, p)}
      \/ \E i \in Byte, b \in Byte, c \in Byte, p \in Seq(Byte) :
            r \in {EventRandom(i, b), EventFwVersion(i, b, c), EventError(i, b),
                   EventReset(i, p), EventRomRead(i, p), EventInterfaces(i, p)}
  <2>1. \/ \E i \in Byte, v \in SignedByte : r = EventRssi(i, v) \/ r = EventSnr(i, v)
        \/ \E i \in Byte : r = EventBlink(i)
        \/ \E i \in Byte, b \in Byte : r = EventPlatform(i, b) \/ r = EventMcu(i, b)
        \/ \E i \in Byte, p \in Seq(Byte) : r = EventStatRx(i, p) \/ r = EventStatTx(i, p)
        \/ \E i \in Byte, b \in Byte : r = EventRandom(i, b) \/ r = EventError(i, b)
        \/ \E i \in Byte, b \in Byte, c \in Byte : r = EventFwVersion(i, b, c)
        \/ \E i \in Byte, p \in Seq(Byte) : \/ r = EventReset(i, p)
                                           \/ r = EventRomRead(i, p)
                                           \/ r = EventInterfaces(i, p)
    BY DEF EventRequests
  <2> QED
    BY <1>5, <2>1
<1>7. \/ Faithful /\ r.opcode \in Decodable
      \/ Harmless /\ r.opcode \notin Decodable
  BY <1>1, <1>2, <1>3, <1>4, <1>6
<1> QED
  BY <1>7 DEF Faithful, Harmless

-----------------------------------------------------------------------------
\* If every request comes from the functions of event-encoder.c, a reading, a
\* blink, an identification and a frame received or transmitted arrive as their
\* sender meant, for every value and every length of frame.
THEOREM EventRoundTrip ==
    ASSUME Requests \subseteq EventRequests
    PROVE  Spec => []EventIsUnderstood
<1>1. EInv /\ Origin => EventIsUnderstood
  <2> SUFFICES ASSUME EInv, Origin, pc = "none", wire # << >>, ~open, ~spoilt,
                      request.opcode \in Decodable
               PROVE  EventCalls(EventNames, wire, TRUE, 0) = request.means
    BY DEF EventIsUnderstood, Whole, Received
  <2>1. request.opcode # DATA
    BY DEF Decodable, STAT_RX, STAT_TX, STAT_RSSI, STAT_SNR, BLINK, PLATFORM, MCU, DATA
  <2>2. request \in Requests /\ request \in EventRequests /\ wire = FrameOf(request)
    BY <2>1, WireOrigin
  <2> QED
    BY <2>2, EventIsRead DEF ReadAs
<1> QED
  BY <1>1, EncoderInvariance, OriginInvariance, PTL

\* No other event of theirs is ever taken for one of those: not for any value,
\* nor for any payload the caller gives it.
THEOREM NoFalseReading ==
    ASSUME Requests \subseteq EventRequests
    PROVE  Spec => []NeverTakenForAReading
<1>1. EInv /\ Origin => NeverTakenForAReading
  <2> SUFFICES ASSUME EInv, Origin, pc = "none", wire # << >>, ~open, ~spoilt,
                      request.opcode \notin Decodable, request.opcode # DATA
               PROVE  \A k \in 1 .. Len(EventCalls(EventNames, wire, TRUE, 0)) :
                         EventCalls(EventNames, wire, TRUE, 0)[k].cb
                           \in {"error"} \cup RxNames
    BY DEF NeverTakenForAReading, Whole, Received
  <2>1. request \in Requests /\ request \in EventRequests /\ wire = FrameOf(request)
    BY WireOrigin
  <2> QED
    BY <2>1, EventIsRead DEF ReadAs
<1> QED
  BY <1>1, EncoderInvariance, OriginInvariance, PTL

=============================================================================
