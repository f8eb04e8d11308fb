--------------------------- MODULE RnodeProtocol ---------------------------
(***************************************************************************)
(* The protocol vocabulary both directions share: opcodes, status codes,   *)
(* the header byte, and 32-bit values.                                     *)
(*                                                                         *)
(* A uint32_t is represented by its four bytes, most significant first, so *)
(* that its width is exact and shifting by eight bits moves the bytes.     *)
(***************************************************************************)
EXTENDS Integers, Sequences

Byte == 0 .. 255

\* rnode_opcode_t, the opcodes a host sends (the low nibble of a header)
DATA        == 0
FREQUENCY   == 1
BANDWIDTH   == 2
TXPOWER     == 3
SF          == 4
CR          == 5
RADIO_STATE == 6
RADIO_LOCK  == 7
DETECT      == 8
LEAVE       == 10
READY       == 15

\* payload values that RADIO_STATE and DETECT accept
RADIO_STATE_OFF == 0
RADIO_STATE_ON  == 1
RADIO_STATE_ASK == 255
DETECT_REQ      == 115

\* pico_rnode_proto_decoder_status_t and pico_rnode_proto_event_decoder_status_t
OK               == 0
ABORTED          == 1
INVALID_LENGTH   == 2
UNKNOWN_OPCODE   == 3
INVALID_ARGUMENT == 4
Status == OK .. INVALID_ARGUMENT

\* what a stream or a frame callback answers: TRUE asks to abort
Verdict == BOOLEAN

\* A call through a callback pointer, which a decoder makes unless it is NULL.
Call(inst, name, args) ==
    IF name \in inst THEN << [cb |-> name, args |-> args] >> ELSE << >>

\* the two halves of a header byte
InterfaceOf(b) == b \div 16
OpcodeOf(b)    == b % 16

Word == [1 .. 4 -> Byte]

WordOfByte(b) == <<0, 0, 0, b>>

\* value <<= 8; value |= b
ShiftIn(w, b) == <<w[2], w[3], w[4], b>>

\* Mutant: the first byte is taken for the least significant.
LittleEndian(buf, len) ==
    LET step(w, i) == IF i < len THEN ShiftIn(w, buf[len - 1 - i]) ELSE w
    IN  step(step(step(step(WordOfByte(0), 0), 1), 2), 3)

\* for (i = 0; i < len; i++) { value <<= 8; value |= buf[i]; }, len <= 4
BigEndian(buf, len) ==
    LET step(w, i) == IF i < len THEN ShiftIn(w, buf[i]) ELSE w
    IN  step(step(step(step(WordOfByte(0), 0), 1), 2), 3)

\* (int8_t)value
Int8(w) == IF w[4] < 128 THEN w[4] ELSE w[4] - 256

=============================================================================
