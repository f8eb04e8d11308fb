--------------------------- MODULE EncodedFrames ---------------------------
(***************************************************************************)
(* The bytes of an encoded frame.  A request is what a caller hands the    *)
(* encoder; its field means is the sequence of callbacks the caller wants  *)
(* the receiver's decoder to make of it.                                   *)
(***************************************************************************)
EXTENDS RnodeProtocol

\* pico_rnode_proto_encoder_status_t has OK and ABORTED in common with the
\* decoders' statuses.
FRAME_ERROR == 2

\* Mutant: the two nibbles change places.
HeaderByteSwapped(interface, opcode) == (opcode % 16) * 16 + (interface % 16)

\* (interface << 4) | (opcode & 0x0F), narrowed to a uint8_t
HeaderByte(interface, opcode) == (interface % 16) * 16 + (opcode % 16)

Request(interface, opcode, bytes, means) ==
    [interface |-> interface, opcode |-> opcode, bytes |-> bytes, means |-> means]

FrameOf(r) == <<HeaderByte(r.interface, r.opcode)>> \o r.bytes

\* Mutant: least significant byte first.
WordBytesReversed(w) == <<w[4], w[3], w[2], w[1]>>

\* bytes[0] = (word >> 24) & 0xFF; ...; bytes[3] = word & 0xFF
WordBytes(w) == <<w[1], w[2], w[3], w[4]>>

\* (uint8_t) of an int8_t
Uint8(v) == v % 256

=============================================================================
