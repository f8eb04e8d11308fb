--------------------------- MODULE CommandFrames ---------------------------
(***************************************************************************)
(* What one command frame means, as a function of the whole frame: the     *)
(* callbacks a host's frame f must lead to.  Nothing here keeps state: no  *)
(* scratch buffer, no counter, nothing left over from the frame before.    *)
(* CommandDecoder, which sees one byte at a time, is checked and proved    *)
(* against it.                                                             *)
(*                                                                         *)
(*   inst   the callbacks that are not NULL                                *)
(*   ended  has the end of the frame been announced?                       *)
(*   cut    0, or the number of bytes of f after which a transmit callback *)
(*          asked to abort (Len(f) + 1 when it was the end callback)       *)
(***************************************************************************)
EXTENDS RnodeProtocol

CommandNames ==
    { "detect", "set_frequency", "set_bandwidth", "set_txpower",
      "set_spreading_factor", "set_coding_rate", "set_radio_state",
      "ready", "lock", "leave" }

CallbackNames == CommandNames \cup { "tx_start", "tx_data", "tx_end", "error" }

Callback == [cb : CallbackNames, args : Seq(Int)]

\* Payload length by opcode: -1 is a stream, -2 an opcode no command has.
OpcodeLength(o) ==
    CASE o = DATA -> -1
      [] o \in {FREQUENCY, BANDWIDTH} -> 4
      [] o \in {TXPOWER, SF, CR, RADIO_STATE, DETECT, LEAVE, RADIO_LOCK} -> 1
      [] o = READY -> 0
      [] OTHER -> -2

\* RADIO_STATE and DETECT reject every value they do not name.
ValidArgument(o, w) ==
    /\ o = RADIO_STATE => w \in { WordOfByte(RADIO_STATE_OFF),
                                  WordOfByte(RADIO_STATE_ON),
                                  WordOfByte(RADIO_STATE_ASK) }
    /\ o = DETECT => w = WordOfByte(DETECT_REQ)

CommandName(o) ==
    CASE o = FREQUENCY   -> "set_frequency"
      [] o = BANDWIDTH   -> "set_bandwidth"
      [] o = TXPOWER     -> "set_txpower"
      [] o = SF          -> "set_spreading_factor"
      [] o = CR          -> "set_coding_rate"
      [] o = RADIO_STATE -> "set_radio_state"
      [] o = DETECT      -> "detect"
      [] o = LEAVE       -> "leave"
      [] o = READY       -> "ready"
      [] o = RADIO_LOCK  -> "lock"
      [] OTHER           -> "error"

\* DETECT, LEAVE and READY pass only the context; TXPOWER is signed.
CommandArgs(i, o, w) ==
    CASE o \in {FREQUENCY, BANDWIDTH}    -> <<i, w[1], w[2], w[3], w[4]>>
      [] o = TXPOWER                     -> <<i, Int8(w)>>
      [] o \in {DETECT, LEAVE, READY}    -> << >>
      [] OTHER                           -> <<i, w[4]>>

\* The payload of f as a 32-bit value: its bytes, right aligned.
PayloadWord(f) ==
    [k \in 1 .. 4 |-> IF k + Len(f) > 5 THEN f[k + Len(f) - 4] ELSE 0]

FixedCalls(inst, f, ended) ==
    LET i == InterfaceOf(f[1])
        o == OpcodeOf(f[1])
        n == Len(f) - 1
        w == PayloadWord(f)
    IN  CASE n > 4  -> Call(inst, "error", <<i, o, 4, INVALID_LENGTH>>)
          [] n <= 4 /\ ~ended -> << >>
          [] n <= 4 /\ ended /\ n # OpcodeLength(o) ->
                Call(inst, "error", <<i, o, n, INVALID_LENGTH>>)
          [] n <= 4 /\ ended /\ n = OpcodeLength(o) /\ ValidArgument(o, w) ->
                Call(inst, CommandName(o), CommandArgs(i, o, w))
          [] OTHER -> Call(inst, "error", <<i, o, n, INVALID_ARGUMENT>>)

\* One tx_data per byte, with the zero-based index of the byte.
StreamBytes(inst, f, m) ==
    IF "tx_data" \in inst
    THEN [k \in 1 .. m |-> [cb |-> "tx_data",
                            args |-> <<InterfaceOf(f[1]), f[k + 1], k - 1>>]]
    ELSE << >>

StreamHead(inst, f, m) ==
    Call(inst, "tx_start", <<InterfaceOf(f[1])>>) \o StreamBytes(inst, f, m)

StreamCalls(inst, f, ended, cut) ==
    LET i == InterfaceOf(f[1])
        n == Len(f) - 1
    IN  CASE cut \in 1 .. Len(f) ->
                StreamHead(inst, f, cut - 1)
                  \o Call(inst, "error", <<i, DATA, cut - 2, ABORTED>>)
          [] cut = 0 /\ ~ended -> StreamHead(inst, f, n)
          [] cut = 0 /\ ended  ->
                StreamHead(inst, f, n) \o Call(inst, "tx_end", <<i, n>>)
          [] OTHER ->
                (StreamHead(inst, f, n) \o Call(inst, "tx_end", <<i, n>>))
                  \o Call(inst, "error", <<i, DATA, n, ABORTED>>)

FrameCalls(inst, f, ended, cut) ==
    IF f = << >> THEN << >>
    ELSE LET o == OpcodeOf(f[1])
         IN  CASE OpcodeLength(o) = -2 ->
                     Call(inst, "error", <<InterfaceOf(f[1]), o, 0, UNKNOWN_OPCODE>>)
               [] OpcodeLength(o) = -1 -> StreamCalls(inst, f, ended, cut)
               [] OTHER -> FixedCalls(inst, f, ended)

\* The commands among the calls of one step or one frame: transmissions and
\* errors aside, there is never more than one, and never after the second call.
CommandsAmong(calls) ==
    LET at(k) == IF k \in DOMAIN calls /\ calls[k].cb \in CommandNames
                 THEN << calls[k] >> ELSE << >>
    IN  at(1) \o at(2)

\* The command a whole frame is, if it is one.
CommandsOf(f) == CommandsAmong(FrameCalls(CallbackNames, f, TRUE, 0))

=============================================================================
