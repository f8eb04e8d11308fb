--------------------------- MODULE CommandDecoder ---------------------------
(***************************************************************************)
(* pico_rnode_proto_command_decoder_t: the byte-at-a-time decoder of the   *)
(* commands a host sends.  One action per branch of put, one per branch of *)
(* end, and start; write is a loop of puts that stops at the first that    *)
(* fails.  Callbacks are calls out of the decoder: what each was given is  *)
(* recorded in log, and the stream callbacks' verdicts are free choices.   *)
(***************************************************************************)
EXTENDS CommandFrames, FiniteSets

CONSTANTS
    Headers,      \* bytes the host may send while the decoder waits for a header
    Payload,      \* bytes the host may send afterwards
    CallbackSets, \* choices of the callbacks init is given; the others are NULL
    MaxFrame,     \* bound: bytes put between two frame boundaries
    MaxWrite      \* bound: bytes of the buffer one write is given

ASSUME HeadersAssumption      == Headers \subseteq Byte
ASSUME PayloadAssumption      == Payload \subseteq Byte
ASSUME CallbackSetsAssumption == CallbackSets \subseteq SUBSET CallbackNames
ASSUME BoundsAssumption       == MaxFrame \in Nat /\ MaxWrite \in Nat

VARIABLES
    state,         \* decoder->state
    payload_index, \* decoder->payload_index
    opcode_length, \* decoder->opcode_length
    interface,     \* decoder->interface
    opcode,        \* decoder->opcode
    smallbuf,      \* decoder->smallbuf
    byte_index,    \* decoder->tx_stream.byte_index
    installed,     \* the callbacks that are not NULL
    status,        \* what the last put, write or end returned
    todo,          \* bytes the write in progress has not looked at yet
    frame,         \* history: bytes put since the last frame boundary
    log,           \* history: callbacks made since then
    ended,         \* history: the boundary was an end, and log includes its calls
    muted,         \* history: the frame began with the decoder still aborted
    cut,           \* history: see CommandFrames
    refused        \* history: tx_start of this frame asked to abort

decoder == <<state, payload_index, opcode_length, interface, opcode, smallbuf,
             byte_index, installed>>
history == <<frame, log, ended, muted, cut, refused>>
vars    == <<decoder, status, todo, history>>

States == {"WAIT_COMMAND", "READ_FIXED", "STREAM_DATA", "ABORT"}

-----------------------------------------------------------------------------
\* init leaves smallbuf, interface and opcode as it finds them.
Init ==
    /\ state = "WAIT_COMMAND"
    /\ payload_index = 0
    /\ opcode_length = 0
    /\ interface \in {InterfaceOf(b) : b \in Headers}
    /\ opcode \in {OpcodeOf(b) : b \in Headers}
    /\ smallbuf \in [0 .. 3 -> Payload]
    /\ byte_index = 0
    /\ installed \in CallbackSets
    /\ status = OK
    /\ todo = 0
    /\ frame = << >>
    /\ log = << >>
    /\ ended = FALSE
    /\ muted = FALSE
    /\ cut = 0
    /\ refused = FALSE

Error(o, index, st) == Call(installed, "error", <<interface, o, index, st>>)

\* What every put has in common: byte b joins the frame (the first after an
\* end opens a new one), calls are made, and st is returned to write, which
\* goes on only after OK.
Returns(b, calls, st) ==
    /\ todo > 0
    /\ frame' = (IF ended THEN <<b>> ELSE Append(frame, b))
    /\ log' = (IF ended THEN << >> ELSE log) \o calls
    /\ ended' = FALSE
    /\ muted' = (IF ended THEN state = "ABORT" ELSE muted)
    /\ status' = st
    /\ todo' = (IF st = OK THEN todo - 1 ELSE 0)
    /\ installed' = installed

-----------------------------------------------------------------------------
\* put, first byte of a frame
Header(b) ==
    /\ state = "WAIT_COMMAND"
    /\ interface' = InterfaceOf(b)
    /\ opcode' = OpcodeOf(b)
    /\ payload_index' = 0
    /\ cut' = 0
    /\ smallbuf' = smallbuf

PutUnknown(b) ==
    /\ Header(b)
    /\ OpcodeLength(OpcodeOf(b)) = -2
    /\ state' = "ABORT"
    /\ Returns(b, Call(installed, "error",
                       <<InterfaceOf(b), OpcodeOf(b), 0, UNKNOWN_OPCODE>>),
               UNKNOWN_OPCODE)
    /\ refused' = FALSE
    /\ UNCHANGED <<opcode_length, byte_index>>

\* Mutant: a stream that goes on counting where the last one stopped.
PutStreamKeepsIndex(b, verdict) ==
    /\ Header(b)
    /\ OpcodeLength(OpcodeOf(b)) = -1
    /\ state' = "STREAM_DATA"
    /\ Returns(b, Call(installed, "tx_start", <<InterfaceOf(b)>>), OK)
    /\ refused' = (verdict /\ "tx_start" \in installed)
    /\ UNCHANGED <<opcode_length, byte_index>>

\* The verdict of tx_start is dropped: the stream is opened whatever it says.
PutStream(b, verdict) ==
    /\ Header(b)
    /\ OpcodeLength(OpcodeOf(b)) = -1
    /\ state' = "STREAM_DATA"
    /\ byte_index' = 0
    /\ Returns(b, Call(installed, "tx_start", <<InterfaceOf(b)>>), OK)
    /\ refused' = (verdict /\ "tx_start" \in installed)
    /\ opcode_length' = opcode_length

PutFixed(b) ==
    /\ Header(b)
    /\ OpcodeLength(OpcodeOf(b)) \notin {-1, -2}
    /\ opcode_length' = OpcodeLength(OpcodeOf(b))
    /\ state' = "READ_FIXED"
    /\ Returns(b, << >>, OK)
    /\ refused' = FALSE
    /\ byte_index' = byte_index

-----------------------------------------------------------------------------
\* Mutant: the bound on the scratch buffer is off by one.
PutSmallOffByOne(b) ==
    /\ state = "READ_FIXED"
    /\ payload_index <= 4
    /\ smallbuf' = [smallbuf EXCEPT ![payload_index] = b]
    /\ payload_index' = payload_index + 1
    /\ Returns(b, << >>, OK)
    /\ UNCHANGED <<state, opcode_length, interface, opcode, byte_index, cut, refused>>

\* put, later bytes.  The bound is the buffer's size, not opcode_length.
PutSmall(b) ==
    /\ state = "READ_FIXED"
    /\ payload_index < 4
    /\ smallbuf' = [smallbuf EXCEPT ![payload_index] = b]
    /\ payload_index' = payload_index + 1
    /\ Returns(b, << >>, OK)
    /\ UNCHANGED <<state, opcode_length, interface, opcode, byte_index, cut, refused>>

\* Mutant: reports the byte too many but does not leave READ_FIXED.
PutTooManyGoesOn(b) ==
    /\ state = "READ_FIXED"
    /\ payload_index >= 4
    /\ Returns(b, Error(opcode, payload_index, INVALID_LENGTH), INVALID_LENGTH)
    /\ UNCHANGED <<state, payload_index, opcode_length, interface, opcode, smallbuf,
                   byte_index, cut, refused>>

PutTooMany(b) ==
    /\ state = "READ_FIXED"
    /\ payload_index >= 4
    /\ state' = "ABORT"
    /\ Returns(b, Error(opcode, payload_index, INVALID_LENGTH), INVALID_LENGTH)
    /\ UNCHANGED <<payload_index, opcode_length, interface, opcode, smallbuf,
                   byte_index, cut, refused>>

TxData(b) == Call(installed, "tx_data", <<interface, b, byte_index>>)

PutData(b) ==
    /\ state = "STREAM_DATA"
    /\ byte_index' = byte_index + 1
    /\ payload_index' = payload_index + 1
    /\ Returns(b, TxData(b), OK)
    /\ UNCHANGED <<state, opcode_length, interface, opcode, smallbuf, cut, refused>>

\* Mutant: gives up on the stream without calling error_cb.
PutDataAbortedSilently(b) ==
    /\ state = "STREAM_DATA"
    /\ "tx_data" \in installed
    /\ byte_index' = byte_index + 1
    /\ state' = "ABORT"
    /\ cut' = Len(frame) + 1
    /\ Returns(b, TxData(b), ABORTED)
    /\ UNCHANGED <<payload_index, opcode_length, interface, opcode, smallbuf, refused>>

PutDataAborted(b) ==
    /\ state = "STREAM_DATA"
    /\ "tx_data" \in installed
    /\ byte_index' = byte_index + 1
    /\ state' = "ABORT"
    /\ cut' = Len(frame) + 1
    /\ Returns(b, TxData(b) \o Error(opcode, payload_index, ABORTED), ABORTED)
    /\ UNCHANGED <<payload_index, opcode_length, interface, opcode, smallbuf, refused>>

\* No case of put's switch names ABORT: the byte is ignored and OK returned.
PutIgnored(b) ==
    /\ state = "ABORT"
    /\ Returns(b, << >>, OK)
    /\ cut' = (IF ended THEN 0 ELSE cut)
    /\ refused' = (~ended /\ refused)
    /\ UNCHANGED <<state, payload_index, opcode_length, interface, opcode,
                   smallbuf, byte_index>>

\* pico_rnode_proto_command_decoder_write is given a buffer of n bytes.  The
\* second conjunct is the bound on a frame's length, not a guard of the code.
Write(n) ==
    /\ todo = 0
    /\ n + (IF ended THEN 0 ELSE Len(frame)) <= MaxFrame
    /\ todo' = n
    /\ UNCHANGED <<decoder, status, history>>

-----------------------------------------------------------------------------
\* Mutant: an aborted decoder stays aborted.
StartKeepsAborted ==
    /\ todo = 0
    /\ state' = (IF state = "ABORT" THEN state ELSE "WAIT_COMMAND")
    /\ payload_index' = 0
    /\ frame' = << >>
    /\ log' = << >>
    /\ ended' = FALSE
    /\ muted' = FALSE
    /\ cut' = 0
    /\ refused' = FALSE
    /\ UNCHANGED <<opcode_length, interface, opcode, smallbuf, byte_index,
                   installed, status, todo>>

\* pico_rnode_proto_command_decoder_start
Start ==
    /\ todo = 0
    /\ state' = "WAIT_COMMAND"
    /\ payload_index' = 0
    /\ frame' = << >>
    /\ log' = << >>
    /\ ended' = FALSE
    /\ muted' = FALSE
    /\ cut' = 0
    /\ refused' = FALSE
    /\ UNCHANGED <<opcode_length, interface, opcode, smallbuf, byte_index,
                   installed, status, todo>>

\* What every branch of end has in common.  An end with nothing put since the
\* last one closes an empty frame.
Closes(calls, st) ==
    /\ todo = 0
    /\ ended' = TRUE
    /\ frame' = (IF ended THEN << >> ELSE frame)
    /\ log' = (IF ended THEN << >> ELSE log) \o calls
    /\ muted' = (IF ended THEN state = "ABORT" ELSE muted)
    /\ refused' = (~ended /\ refused)
    /\ status' = st
    /\ UNCHANGED <<opcode_length, interface, opcode, smallbuf, byte_index,
                   installed, todo>>

\* the call to start on the way out of end
Restarts == state' = "WAIT_COMMAND" /\ payload_index' = 0

Value == BigEndian(smallbuf, opcode_length)

\* fixed_length_command: the status it returns is dropped, end returns OK.
EndFixed ==
    /\ state = "READ_FIXED"
    /\ payload_index = opcode_length
    /\ Closes(IF ValidArgument(opcode, Value)
              THEN Call(installed, CommandName(opcode),
                        CommandArgs(interface, opcode, Value))
              ELSE Error(opcode, payload_index, INVALID_ARGUMENT),
              OK)
    /\ Restarts
    /\ cut' = cut

\* Mutant: the length of the payload is not checked.
EndWrongLengthUnchecked ==
    /\ state = "READ_FIXED"
    /\ payload_index # opcode_length
    /\ Closes(Call(installed, CommandName(opcode),
                   CommandArgs(interface, opcode, Value)), OK)
    /\ Restarts
    /\ cut' = cut

EndWrongLength ==
    /\ state = "READ_FIXED"
    /\ payload_index # opcode_length
    /\ Closes(Error(opcode, payload_index, INVALID_LENGTH), INVALID_LENGTH)
    /\ Restarts
    /\ cut' = cut

TxEnd == Call(installed, "tx_end", <<interface, byte_index>>)

EndStream ==
    /\ state = "STREAM_DATA"
    /\ Closes(TxEnd, OK)
    /\ Restarts
    /\ cut' = cut

\* The early return: start is not called and the decoder stays aborted.
EndStreamAborted ==
    /\ state = "STREAM_DATA"
    /\ "tx_end" \in installed
    /\ state' = "ABORT"
    /\ cut' = Len(frame) + 1
    /\ Closes(TxEnd \o Error(opcode, payload_index, ABORTED), ABORTED)
    /\ payload_index' = payload_index

\* Mutant: does not call start on the way out.
EndNothingStaysAborted ==
    /\ state \in {"WAIT_COMMAND", "ABORT"}
    /\ Closes(<< >>, ABORTED)
    /\ UNCHANGED <<state, payload_index>>
    /\ cut' = (IF ended THEN 0 ELSE cut)

EndNothing ==
    /\ state \in {"WAIT_COMMAND", "ABORT"}
    /\ Closes(<< >>, ABORTED)
    /\ Restarts
    /\ cut' = (IF ended THEN 0 ELSE cut)

-----------------------------------------------------------------------------
Put ==
    \/ \E b \in Headers :
          \/ PutUnknown(b)
          \/ \E verdict \in Verdict : PutStream(b, verdict)
          \/ PutFixed(b)
          \/ ended /\ PutIgnored(b)
    \/ \E b \in Payload :
          \/ PutSmall(b)
          \/ PutTooMany(b)
          \/ PutData(b)
          \/ PutDataAborted(b)
          \/ ~ended /\ PutIgnored(b)

End ==
    \/ EndFixed
    \/ EndWrongLength
    \/ EndStream
    \/ EndStreamAborted
    \/ EndNothing

Next ==
    \/ \E n \in 1 .. MaxWrite : Write(n)
    \/ Put
    \/ Start
    \/ End

Spec == Init /\ [][Next]_vars

\* The calls made by a put or an end.
Made == SubSeq(log', (IF ended THEN 0 ELSE Len(log)) + 1, Len(log'))

-----------------------------------------------------------------------------
(* Properties *)

\* Type correctness; and the scratch buffer is never indexed past its end.
TypeOK ==
    /\ state \in States
    /\ payload_index \in Nat
    /\ state = "READ_FIXED" => payload_index \in 0 .. 4
    /\ opcode_length \in 0 .. 4
    /\ interface \in 0 .. 15
    /\ opcode \in 0 .. 15
    /\ smallbuf \in [0 .. 3 -> Byte]
    /\ byte_index \in Nat
    /\ installed \in SUBSET CallbackNames
    /\ status \in Status
    /\ todo \in Nat
    /\ frame \in Seq(Byte)
    /\ log \in Seq(Callback)
    /\ ended \in BOOLEAN
    /\ muted \in BOOLEAN
    /\ cut \in Nat
    /\ refused \in BOOLEAN

\* The callbacks made for a frame are a function of that frame alone: neither
\* the bytes an earlier frame left in smallbuf, opcode_length or byte_index,
\* nor the way the bytes were split into writes, can show.
LogIsMeaning ==
    log = IF muted THEN << >> ELSE FrameCalls(installed, frame, ended, cut)

\* A frame is reported as failed at most once, and once it is, nothing more
\* is called for it, whatever else the host sends before the boundary.
ErrorIsLast ==
    \A k \in 1 .. Len(log) : log[k].cb = "error" => k = Len(log)

\* The decoder never gives up on a frame silently: while it discards bytes, or
\* is left aborted by end, its last call was error_cb.  The one frame lost
\* without a word is the one a refused tx_end leaves it deaf to.
NoSilentLoss ==
    (state = "ABORT" /\ ~muted /\ "error" \in installed) =>
        /\ log # << >>
        /\ log[Len(log)].cb = "error"

\* tx_end's length is the number of tx_data calls it closes, and their indices
\* count from 0: nothing is skipped, repeated or left over from before.
Is(name) == {k \in 1 .. Len(log) : log[k].cb = name}

TransmitAccounting ==
    ("tx_data" \in installed) =>
        /\ \A k, l \in Is("tx_data") :
              k < l => log[k].args[3] < log[l].args[3]
        /\ \A k \in Is("tx_data") : log[k].args[3] < Cardinality(Is("tx_data"))
        /\ \A k \in Is("tx_end") : log[k].args[2] = Cardinality(Is("tx_data"))

\* A refused tx_end costs one frame at most: a frame is only ever ignored from
\* its first byte when tx_end of the frame before it asked to abort and start
\* was not called, and the frame after an ignored one is decoded.
DeafForOneFrame ==
    [][/\ (muted' /\ ~muted) => (ended /\ cut = Len(frame) + 1)
       /\ (muted /\ ended /\ ended # ended') => ~muted']_vars

\* Documented of end (command-decoder.h:380): it returns INVALID_ARGUMENT when
\* the payload was invalid.
EndReportsInvalidArgument ==
    (ended /\ log # << >> /\ log[Len(log)].cb = "error"
           /\ log[Len(log)].args[4] = INVALID_ARGUMENT)
        => status = INVALID_ARGUMENT

\* Documented of stream start (stream.h:113) and of the ABORTED status
\* (command-decoder.h:31): a tx_start callback may ask to abort the frame.
RefusedStreamIsAborted ==
    refused => \A k \in 1 .. Len(log) : log[k].cb # "tx_data"

=============================================================================
