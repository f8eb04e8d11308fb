---------------------------- MODULE EventFrames ----------------------------
(***************************************************************************)
(* What one event frame means, as a function of the whole frame: the       *)
(* callbacks a device's frame f must lead to.  An event's opcode has       *)
(* seven bits, its header carries four of them, so an event is known here  *)
(* by the low nibble of its opcode.                                        *)
(***************************************************************************)
EXTENDS RnodeProtocol

\* rnode_opcode_t, the opcodes a device sends
STAT_RX    == 33
STAT_TX    == 34
STAT_RSSI  == 35
STAT_SNR   == 36
BLINK      == 48
RANDOM     == 64
PLATFORM   == 72
MCU        == 73
FW_VERSION == 80
ROM_READ   == 81
RESET      == 85
INTERFACES == 113
ERROR      == 127

\* the low nibbles the decoder knows
EV_BLINK    == 0
EV_STAT_RX  == 1
EV_STAT_TX  == 2
EV_RSSI     == 3
EV_SNR      == 4
EV_PLATFORM == 8
EV_MCU      == 9

RxNames == { "stat_rx_start", "stat_rx_data", "stat_rx_end" }
TxNames == { "stat_tx_start", "stat_tx_data", "stat_tx_end" }
EventNames ==
    { "rssi", "snr", "blink", "random", "platform", "mcu", "fw_version", "error" }
        \cup RxNames \cup TxNames

EventCallback == [cb : EventNames, args : Seq(Int)]

\* Payload length by opcode: -1 is a stream, -2 an opcode no event has.
EventLength(o) ==
    CASE o \in {EV_STAT_RX, EV_STAT_TX} -> -1
      [] o \in {EV_RSSI, EV_SNR, EV_PLATFORM, EV_MCU} -> 1
      [] o = EV_BLINK -> 0
      [] OTHER -> -2

\* BLINK passes only the context; RSSI and SNR are signed.
EventCall(inst, i, o, w) ==
    CASE o = EV_RSSI     -> Call(inst, "rssi", <<i, Int8(w)>>)
      [] o = EV_SNR      -> Call(inst, "snr", <<i, Int8(w)>>)
      [] o = EV_PLATFORM -> Call(inst, "platform", <<i, w[4]>>)
      [] o = EV_MCU      -> Call(inst, "mcu", <<i, w[4]>>)
      [] OTHER           -> Call(inst, "blink", << >>)

\* the stream callbacks of an opcode
StartOf(o) == IF o = EV_STAT_RX THEN "stat_rx_start" ELSE "stat_tx_start"
DataOf(o)  == IF o = EV_STAT_RX THEN "stat_rx_data"  ELSE "stat_tx_data"
EndOf(o)   == IF o = EV_STAT_RX THEN "stat_rx_end"   ELSE "stat_tx_end"

\* The byte counter belongs to the stream's start callback: only a stream all
\* of whose callbacks are there, or none, means something on its own.
Complete(inst) ==
    \A family \in {RxNames, TxNames} :
        family \subseteq inst \/ family \cap inst = {}

EventBytes(inst, f, m) ==
    LET o == OpcodeOf(f[1])
    IN  IF DataOf(o) \in inst
        THEN [k \in 1 .. m |-> [cb |-> DataOf(o),
                                args |-> <<InterfaceOf(f[1]), f[k + 1], k - 1>>]]
        ELSE << >>

EventStreamCalls(inst, f, ended, cut) ==
    LET i == InterfaceOf(f[1])
        o == OpcodeOf(f[1])
        n == Len(f) - 1
        head(m) == Call(inst, StartOf(o), <<i>>) \o EventBytes(inst, f, m)
        error(k) == Call(inst, "error", <<i, o, k, ABORTED>>)
        close == Call(inst, EndOf(o), <<i, n>>)
    IN  CASE cut \in 1 .. Len(f)   -> head(cut - 1) \o error(cut - 2)
          [] cut = 0 /\ ~ended     -> head(n)
          [] cut = 0 /\ ended      -> head(n) \o close
          [] OTHER                 -> head(n) \o close \o error(n)

\* The byte that exceeds the event's length is reported as it comes.
EventFixedCalls(inst, f, ended) ==
    LET i == InterfaceOf(f[1])
        o == OpcodeOf(f[1])
        n == Len(f) - 1
        max == EventLength(o)
    IN  CASE n > max -> Call(inst, "error", <<i, o, max, INVALID_LENGTH>>)
          [] n < max /\ ended -> Call(inst, "error", <<i, o, n, INVALID_LENGTH>>)
          [] n = max /\ ended ->
                EventCall(inst, i, o, WordOfByte(IF n = 0 THEN 0 ELSE f[2]))
          [] OTHER -> << >>

EventCalls(inst, f, ended, cut) ==
    IF f = << >> THEN << >>
    ELSE LET o == OpcodeOf(f[1])
         IN  CASE EventLength(o) = -2 ->
                     Call(inst, "error", <<InterfaceOf(f[1]), o, 0, UNKNOWN_OPCODE>>)
               [] EventLength(o) = -1 -> EventStreamCalls(inst, f, ended, cut)
               [] OTHER -> EventFixedCalls(inst, f, ended)

=============================================================================
