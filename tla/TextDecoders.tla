---------------------------- MODULE TextDecoders ----------------------------
(***************************************************************************)
(* The text decoders: the two decoders with a callback in every place,     *)
(* each of which prints a line and answers OK.  A line is a tuple of what  *)
(* it tells its reader; wording and layout are left out.                   *)
(***************************************************************************)
EXTENDS CommandFrames, EventFrames

-----------------------------------------------------------------------------
(* pico_rnode_proto_command_decoder_text_t *)

\* every callback is installed: the error and the transmission callbacks too
CommandTextCallbacks == CallbackNames

RadioStateName(st) ==
    CASE st = RADIO_STATE_OFF -> "OFF"
      [] st = RADIO_STATE_ON  -> "ON"
      [] st = RADIO_STATE_ASK -> "ASK"
      [] OTHER                -> "UNKNOWN"

CommandOpcodeName(o) ==
    CASE o = DATA        -> "DATA"
      [] o = FREQUENCY   -> "FREQUENCY"
      [] o = BANDWIDTH   -> "BANDWIDTH"
      [] o = TXPOWER     -> "TXPOWER"
      [] o = SF          -> "SF"
      [] o = CR          -> "CR"
      [] o = RADIO_STATE -> "RADIO_STATE"
      [] o = DETECT      -> "DETECT"
      [] o = LEAVE       -> "LEAVE"
      [] o = READY       -> "READY"
      [] o = RADIO_LOCK  -> "RADIO_LOCK"
      [] OTHER           -> "UNKNOWN"

StatusName(st) ==
    CASE st = OK               -> "OK"
      [] st = ABORTED          -> "ABORTED"
      [] st = INVALID_LENGTH   -> "INVALID_LENGTH"
      [] st = UNKNOWN_OPCODE   -> "UNKNOWN_OPCODE"
      [] st = INVALID_ARGUMENT -> "INVALID_ARGUMENT"
      [] OTHER                 -> "UNKNOWN_ERROR"

CommandErrorText(args) ==
    <<"COMMAND ERROR", StatusName(args[4]), CommandOpcodeName(args[2])>> \o args

CommandWords ==
    [ tx_start |-> "COMMAND TX START", tx_data |-> "COMMAND TX DATA",
      tx_end |-> "COMMAND TX END", detect |-> "DETECT",
      set_frequency |-> "COMMAND FREQUENCY", set_bandwidth |-> "COMMAND BANDWIDTH",
      set_txpower |-> "COMMAND TXPOWER", set_spreading_factor |-> "COMMAND SF",
      set_coding_rate |-> "COMMAND CR", set_radio_state |-> "COMMAND RADIO_STATE",
      ready |-> "COMMAND READY", lock |-> "COMMAND LOCK", leave |-> "COMMAND LEAVE" ]

CommandText(call) ==
    CASE call.cb = "error" -> CommandErrorText(call.args)
      [] call.cb = "set_radio_state" ->
            <<CommandWords[call.cb], call.args[1], RadioStateName(call.args[2])>>
      [] OTHER -> <<CommandWords[call.cb]>> \o call.args

-----------------------------------------------------------------------------
(* pico_rnode_proto_event_decoder_text_t *)

EventTextCallbacks == EventNames

\* The table is of seven-bit opcodes; what it is asked is a header's nibble.
EventOpcodeName(o) ==
    CASE o = STAT_RX    -> "STAT_RX"
      [] o = STAT_TX    -> "STAT_TX"
      [] o = STAT_RSSI  -> "STAT_RSSI"
      [] o = STAT_SNR   -> "STAT_SNR"
      [] o = BLINK      -> "BLINK"
      [] o = RANDOM     -> "RANDOM"
      [] o = PLATFORM   -> "PLATFORM"
      [] o = MCU        -> "MCU"
      [] o = FW_VERSION -> "FW_VERSION"
      [] OTHER          -> "UNKNOWN"

\* The status is printed as a number.
EventErrorText(args) == <<"EVENT ERROR", EventOpcodeName(args[2])>> \o args

EventWords ==
    [ rssi |-> "EVENT RSSI", snr |-> "EVENT SNR", blink |-> "EVENT BLINK",
      random |-> "EVENT RANDOM", platform |-> "EVENT PLATFORM", mcu |-> "EVENT MCU",
      fw_version |-> "EVENT FW_VERSION",
      stat_rx_start |-> "EVENT STAT_RX START", stat_rx_data |-> "EVENT STAT_RX",
      stat_rx_end |-> "EVENT STAT_RX END", stat_tx_start |-> "EVENT STAT_TX START",
      stat_tx_data |-> "EVENT STAT_TX", stat_tx_end |-> "EVENT STAT_TX END" ]

EventText(call) ==
    IF call.cb = "error" THEN EventErrorText(call.args)
                         ELSE <<EventWords[call.cb]>> \o call.args

=============================================================================
