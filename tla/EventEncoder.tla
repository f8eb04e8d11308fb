---------------------------- MODULE EventEncoder ----------------------------
(***************************************************************************)
(* pico_rnode_proto_event_encoder_t: the events a device sends, each a     *)
(* request to the encoder.  Only the low nibble of an event's opcode gets  *)
(* into the header, so the decoder may take one event for another.         *)
(***************************************************************************)
EXTENDS Encoder, EventFrames

Means(name, args) == << [cb |-> name, args |-> args] >>

\* A uint8_t interface above 15 loses its high bits on the wire.
OnWire(interface) == interface % 16

SendEventByte(interface, op, b, name, v) ==
    Request(interface, op, <<b>>, Means(name, <<OnWire(interface), v>>))

\* Events for which no decoder callback exists mean nothing to the receiver.
EventError(interface, code)  == Request(interface, ERROR, <<code>>, << >>)
EventRomRead(interface, p)   == Request(interface, ROM_READ, p, << >>)
EventReset(interface, p)     == Request(interface, RESET, p, << >>)
EventInterfaces(interface, p) == Request(interface, INTERFACES, p, << >>)

EventRssi(interface, rssi) ==
    SendEventByte(interface, STAT_RSSI, Uint8(rssi), "rssi", rssi)
EventSnr(interface, snr) ==
    SendEventByte(interface, STAT_SNR, Uint8(snr), "snr", snr)
EventRandom(interface, v)   == SendEventByte(interface, RANDOM, v, "random", v)
EventPlatform(interface, p) == SendEventByte(interface, PLATFORM, p, "platform", p)
EventMcu(interface, m)      == SendEventByte(interface, MCU, m, "mcu", m)

\* Mutant: sends the opcode without the version.
EventFwVersionEmpty(interface, hi, lo) ==
    Request(interface, FW_VERSION, << >>,
            Means("fw_version", <<OnWire(interface), hi, lo>>))

\* The 16-bit version goes out most significant byte first.
EventFwVersion(interface, hi, lo) ==
    Request(interface, FW_VERSION, <<hi, lo>>,
            Means("fw_version", <<OnWire(interface), hi, lo>>))

EventBlink(interface) == Request(interface, BLINK, << >>, Means("blink", << >>))

\* STAT_RX and STAT_TX, sent in one call, are streams to the decoder.
StreamMeans(interface, p, start, data, end) ==
    Means(start, <<OnWire(interface)>>)
        \o [k \in 1 .. Len(p) |-> [cb |-> data,
                                   args |-> <<OnWire(interface), p[k], k - 1>>]]
        \o Means(end, <<OnWire(interface), Len(p)>>)

EventStatRx(interface, p) ==
    Request(interface, STAT_RX, p,
            StreamMeans(interface, p, "stat_rx_start", "stat_rx_data", "stat_rx_end"))
EventStatTx(interface, p) ==
    Request(interface, STAT_TX, p,
            StreamMeans(interface, p, "stat_tx_start", "stat_tx_data", "stat_tx_end"))

-----------------------------------------------------------------------------
(* Properties *)

\* What the receiver makes of the frame the encoder has just finished.
Received == EventCalls(EventNames, wire, TRUE, 0)

Whole == pc = "none" /\ wire # << >> /\ ~open /\ ~spoilt

Decodable == {STAT_RX, STAT_TX, STAT_RSSI, STAT_SNR, BLINK, PLATFORM, MCU}

\* Seven of the events arrive as the callback their sender meant, with its
\* arguments: the two sides agree on their opcodes, lengths and signs.
EventIsUnderstood ==
    (Whole /\ request.opcode \in Decodable) => Received = request.means

\* None of the others, which share a nibble with one of the seven or with no
\* event at all, is ever taken for a BLINK, a reading or an identification.
NeverTakenForAReading ==
    (Whole /\ request.opcode \notin Decodable \cup {DATA}) =>
        \A k \in 1 .. Len(Received) :
            Received[k].cb \in {"error"} \cup RxNames

\* Documented of the random and fw_version callbacks (event-decoder.h:60 and
\* 87): they are invoked for RANDOM and for FW_VERSION notifications.
NotificationsArrive ==
    (Whole /\ request.opcode \in {RANDOM, FW_VERSION}) => Received = request.means

\* Documented of event_start (event-encoder.h:283): it encodes the start of a
\* receive data frame, whose bytes follow; a receiver should not reject it.
ReceiveFrameAccepted ==
    (Whole /\ request.opcode = DATA) =>
        \A k \in 1 .. Len(Received) : Received[k].cb # "error"

=============================================================================
