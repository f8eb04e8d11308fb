--------------------------- MODULE CommandEncoder ---------------------------
(***************************************************************************)
(* pico_rnode_proto_command_encoder_t: the commands a host sends, each a   *)
(* request to the encoder.  start, data and end are the encoder's own.     *)
(***************************************************************************)
EXTENDS Encoder, CommandFrames

Means(name, args) == << [cb |-> name, args |-> args] >>

\* A uint8_t interface above 15 loses its high bits on the wire.
OnWire(interface) == interface % 16

SendWord(interface, opcode, w, name) ==
    Request(interface, opcode, WordBytes(w),
            Means(name, <<OnWire(interface), w[1], w[2], w[3], w[4]>>))

SendByte(interface, opcode, b, name, v) ==
    Request(interface, opcode, <<b>>, Means(name, <<OnWire(interface), v>>))

SetFrequency(interface, hz) == SendWord(interface, FREQUENCY, hz, "set_frequency")
SetBandwidth(interface, hz) == SendWord(interface, BANDWIDTH, hz, "set_bandwidth")

SetTxPower(interface, dbm) ==
    SendByte(interface, TXPOWER, Uint8(dbm), "set_txpower", dbm)
SetSpreadingFactor(interface, sf) ==
    SendByte(interface, SF, sf, "set_spreading_factor", sf)
SetCodingRate(interface, cr) ==
    SendByte(interface, CR, cr, "set_coding_rate", cr)
SetRadioState(interface, st) ==
    SendByte(interface, RADIO_STATE, st, "set_radio_state", st)
SetRadioLock(interface, lock) ==
    SendByte(interface, RADIO_LOCK, lock, "lock", lock)

\* detect, ready and leave always go to interface 0 and carry no argument.
Detect == Request(0, DETECT, <<DETECT_REQ>>, Means("detect", << >>))
Ready  == Request(0, READY, << >>, Means("ready", << >>))
Leave  == Request(0, LEAVE, <<0>>, Means("leave", << >>))

\* Every command that leaves whole is, read as a frame, the call its sender
\* meant: the encoder's and the decoder's tables of opcodes, payload lengths,
\* byte orders and argument ranges agree.
DeliveredIsUnderstood ==
    (pc = "none" /\ wire # << >> /\ ~open /\ ~spoilt /\ request.opcode # DATA) =>
        FrameCalls(CallbackNames, wire, TRUE, 0) = request.means

\* Every stream that leaves whole is announced, carried and closed with the
\* number of bytes that were streamed.
StreamIsUnderstood ==
    (pc = "none" /\ wire # << >> /\ ~open /\ ~spoilt /\ request.opcode = DATA) =>
        LET n     == Len(asked) - 1
            to    == OnWire(request.interface)
            calls == FrameCalls(CallbackNames, wire, TRUE, 0)
        IN  /\ Len(calls) = n + 2
            /\ calls[1] = [cb |-> "tx_start", args |-> <<to>>]
            /\ \A k \in 1 .. n :
                  calls[k + 1] = [cb |-> "tx_data", args |-> <<to, asked[k + 1], k - 1>>]
            /\ calls[n + 2] = [cb |-> "tx_end", args |-> <<to, n>>]

=============================================================================
