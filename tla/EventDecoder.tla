---------------------------- MODULE EventDecoder ----------------------------
(***************************************************************************)
(* pico_rnode_proto_event_decoder_t: the byte-at-a-time decoder of the     *)
(* events a device sends.  It is laid out as CommandDecoder is, and        *)
(* differs from it where the code does: a put while aborted returns        *)
(* ABORTED, the length of a fixed payload is bounded by opcode_length,     *)
(* and a stream's byte_index moves only with the callbacks that are there. *)
(***************************************************************************)
EXTENDS EventFrames

CONSTANTS
    Headers,      \* bytes the device may send while the decoder waits for a header
    Payload,      \* bytes the device may send afterwards
    CallbackSets, \* choices of the callbacks init is given; the others are NULL
    MaxFrame,     \* bound: bytes put between two frame boundaries
    MaxWrite      \* bound: bytes of the buffer one write is given

ASSUME EventHeadersAssumption == Headers \subseteq Byte
ASSUME EventPayloadAssumption == Payload \subseteq Byte
ASSUME EventSinksAssumption   == CallbackSets \subseteq SUBSET EventNames
ASSUME EventBoundsAssumption  == MaxFrame \in Nat /\ MaxWrite \in Nat

VARIABLES
    state,         \* decoder->state
    payload_index, \* decoder->payload_index
    opcode_length, \* decoder->opcode_length
    interface,     \* decoder->interface
    opcode,        \* decoder->opcode
    smallbuf,      \* decoder->smallbuf
    byte_index,    \* decoder->stream.byte_index
    installed,     \* the callbacks that are not NULL
    status,        \* what the last put, write or end returned
    todo,          \* bytes the write in progress has not looked at yet
    frame,         \* history: bytes put since the last frame boundary
    log,           \* history: callbacks made since then
    ended,         \* history: the boundary was an end, and log includes its calls
    muted,         \* history: the frame began with the decoder still aborted
    cut            \* history: 0, or where a stream callback asked to abort

decoder == <<state, payload_index, opcode_length, interface, opcode, smallbuf,
             byte_index, installed>>
history == <<frame, log, ended, muted, cut>>
vars    == <<decoder, status, todo, history>>

\* init leaves smallbuf, interface and opcode as it finds them.
Init ==
    /\ state = "WAIT_EVENT"
    /\ payload_index = 0
    /\ opcode_length = 0
    /\ interface \in {InterfaceOf(b) : b \in Headers}
    /\ opcode \in {OpcodeOf(b) : b \in Headers}
    /\ smallbuf \in {[k \in 0 .. 3 |-> b] : b \in Payload}
    /\ byte_index = 0
    /\ installed \in CallbackSets
    /\ status = OK
    /\ todo = 0
    /\ frame = << >>
    /\ log = << >>
    /\ ended = FALSE
    /\ muted = FALSE
    /\ cut = 0

Error(st) == Call(installed, "error", <<interface, opcode, payload_index, st>>)

\* What every put has in common, as in CommandDecoder.
Returns(b, calls, st) ==
    /\ todo > 0
    /\ frame' = (IF ended THEN <<b>> ELSE Append(frame, b))
    /\ log' = (IF ended THEN << >> ELSE log) \o calls
    /\ ended' = FALSE
    /\ muted' = (IF ended THEN state = "ABORT" ELSE muted)
    /\ status' = st
    /\ todo' = (IF st = OK THEN todo - 1 ELSE 0)
    /\ installed' = installed

-----------------------------------------------------------------------------
(* put, first byte of a frame *)

Header(b) ==
    /\ state = "WAIT_EVENT"
    /\ interface' = InterfaceOf(b)
    /\ opcode' = OpcodeOf(b)
    /\ payload_index' = 0
    /\ cut' = 0
    /\ smallbuf' = smallbuf

PutUnknown(b) ==
    /\ Header(b)
    /\ EventLength(OpcodeOf(b)) = -2
    /\ state' = "ABORT"
    /\ Returns(b, Call(installed, "error",
                       <<InterfaceOf(b), OpcodeOf(b), 0, UNKNOWN_OPCODE>>),
               UNKNOWN_OPCODE)
    /\ UNCHANGED <<opcode_length, byte_index>>

\* Mutant: the counter is never reset, not even by a stream's start callback.
PutStreamKeepsIndex(b) ==
    /\ Header(b)
    /\ EventLength(OpcodeOf(b)) = -1
    /\ opcode_length' = 0
    /\ state' = "STREAM_DATA"
    /\ byte_index' = byte_index
    /\ Returns(b, Call(installed, StartOf(OpcodeOf(b)), <<InterfaceOf(b)>>), OK)

\* select_stream_callbacks, then stream_start: without a start callback the
\* counter keeps its last value.  The callback's verdict is dropped.
PutStream(b) ==
    /\ Header(b)
    /\ EventLength(OpcodeOf(b)) = -1
    /\ opcode_length' = 0
    /\ state' = "STREAM_DATA"
    /\ byte_index' = (IF StartOf(OpcodeOf(b)) \in installed THEN 0 ELSE byte_index)
    /\ Returns(b, Call(installed, StartOf(OpcodeOf(b)), <<InterfaceOf(b)>>), OK)

PutFixed(b) ==
    /\ Header(b)
    /\ EventLength(OpcodeOf(b)) >= 0
    /\ opcode_length' = EventLength(OpcodeOf(b))
    /\ state' = "READ_FIXED"
    /\ Returns(b, << >>, OK)
    /\ byte_index' = byte_index

-----------------------------------------------------------------------------
(* put, later bytes *)

\* Mutant: the bound on the scratch buffer is off by one.
PutSmallOffByOne(b) ==
    /\ state = "READ_FIXED"
    /\ payload_index <= opcode_length
    /\ smallbuf' = [smallbuf EXCEPT ![payload_index] = b]
    /\ payload_index' = payload_index + 1
    /\ Returns(b, << >>, OK)
    /\ UNCHANGED <<state, opcode_length, interface, opcode, byte_index, cut>>

PutSmall(b) ==
    /\ state = "READ_FIXED"
    /\ payload_index < opcode_length
    /\ smallbuf' = [smallbuf EXCEPT ![payload_index] = b]
    /\ payload_index' = payload_index + 1
    /\ Returns(b, << >>, OK)
    /\ UNCHANGED <<state, opcode_length, interface, opcode, byte_index, cut>>

\* Mutant: gives up on the event without calling error_cb.
PutTooManySilently(b) ==
    /\ state = "READ_FIXED"
    /\ payload_index >= opcode_length
    /\ state' = "ABORT"
    /\ Returns(b, << >>, INVALID_LENGTH)
    /\ UNCHANGED <<payload_index, opcode_length, interface, opcode, smallbuf,
                   byte_index, cut>>

PutTooMany(b) ==
    /\ state = "READ_FIXED"
    /\ payload_index >= opcode_length
    /\ state' = "ABORT"
    /\ Returns(b, Error(INVALID_LENGTH), INVALID_LENGTH)
    /\ UNCHANGED <<payload_index, opcode_length, interface, opcode, smallbuf,
                   byte_index, cut>>

DataPresent == DataOf(opcode) \in installed

StreamData(b) == Call(installed, DataOf(opcode), <<interface, b, byte_index>>)

\* Without a data callback the bytes are not counted.
PutData(b) ==
    /\ state = "STREAM_DATA"
    /\ byte_index' = (IF DataPresent THEN byte_index + 1 ELSE byte_index)
    /\ payload_index' = payload_index + 1
    /\ Returns(b, StreamData(b), OK)
    /\ UNCHANGED <<state, opcode_length, interface, opcode, smallbuf, cut>>

PutDataAborted(b) ==
    /\ state = "STREAM_DATA"
    /\ DataPresent
    /\ byte_index' = byte_index + 1
    /\ state' = "ABORT"
    /\ cut' = Len(frame) + 1
    /\ Returns(b, StreamData(b) \o Error(ABORTED), ABORTED)
    /\ UNCHANGED <<payload_index, opcode_length, interface, opcode, smallbuf>>

\* The switch's default: ABORTED, so that a write stops here too.
PutIgnored(b) ==
    /\ state = "ABORT"
    /\ Returns(b, << >>, ABORTED)
    /\ cut' = (IF ended THEN 0 ELSE cut)
    /\ UNCHANGED <<state, payload_index, opcode_length, interface, opcode,
                   smallbuf, byte_index>>

\* The second conjunct is the bound on a frame's length, not a guard of the code.
Write(n) ==
    /\ todo = 0
    /\ n + (IF ended THEN 0 ELSE Len(frame)) <= MaxFrame
    /\ todo' = n
    /\ UNCHANGED <<decoder, status, history>>

-----------------------------------------------------------------------------
(* start and end *)

Start ==
    /\ todo = 0
    /\ state' = "WAIT_EVENT"
    /\ payload_index' = 0
    /\ frame' = << >>
    /\ log' = << >>
    /\ ended' = FALSE
    /\ muted' = FALSE
    /\ cut' = 0
    /\ UNCHANGED <<opcode_length, interface, opcode, smallbuf, byte_index,
                   installed, status, todo>>

Closes(calls, st) ==
    /\ todo = 0
    /\ ended' = TRUE
    /\ frame' = (IF ended THEN << >> ELSE frame)
    /\ log' = (IF ended THEN << >> ELSE log) \o calls
    /\ muted' = (IF ended THEN state = "ABORT" ELSE muted)
    /\ status' = st
    /\ UNCHANGED <<opcode_length, interface, opcode, smallbuf, byte_index,
                   installed, todo>>

\* the call to start on the way out of end
Restarts == state' = "WAIT_EVENT" /\ payload_index' = 0

\* fixed_length_event; its default case is out of reach, READ_FIXED being
\* entered only with an opcode it knows.
EndFixed ==
    /\ state = "READ_FIXED"
    /\ payload_index = opcode_length
    /\ Closes(EventCall(installed, interface, opcode,
                        BigEndian(smallbuf, opcode_length)), OK)
    /\ Restarts
    /\ cut' = cut

EndWrongLength ==
    /\ state = "READ_FIXED"
    /\ payload_index # opcode_length
    /\ Closes(Error(INVALID_LENGTH), INVALID_LENGTH)
    /\ Restarts
    /\ cut' = cut

StreamEnd == Call(installed, EndOf(opcode), <<interface, byte_index>>)

EndStream ==
    /\ state = "STREAM_DATA"
    /\ Closes(StreamEnd, OK)
    /\ Restarts
    /\ cut' = cut

\* The early return: start is not called and the decoder stays aborted.
EndStreamAborted ==
    /\ state = "STREAM_DATA"
    /\ EndOf(opcode) \in installed
    /\ state' = "ABORT"
    /\ cut' = Len(frame) + 1
    /\ Closes(StreamEnd \o Error(ABORTED), ABORTED)
    /\ payload_index' = payload_index

\* Mutant: does not call start on the way out.
EndNothingStaysAborted ==
    /\ state \in {"WAIT_EVENT", "ABORT"}
    /\ Closes(<< >>, ABORTED)
    /\ UNCHANGED <<state, payload_index>>
    /\ cut' = (IF ended THEN 0 ELSE cut)

EndNothing ==
    /\ state \in {"WAIT_EVENT", "ABORT"}
    /\ Closes(<< >>, ABORTED)
    /\ Restarts
    /\ cut' = (IF ended THEN 0 ELSE cut)

-----------------------------------------------------------------------------
Put ==
    \/ \E b \in Headers :
          \/ PutUnknown(b)
          \/ PutStream(b)
          \/ PutFixed(b)
          \/ ended /\ PutIgnored(b)
    \/ \E b \in Payload :
          \/ PutSmall(b)
          \/ PutTooMany(b)
          \/ PutData(b)
          \/ PutDataAborted(b)
          \/ ~ended /\ PutIgnored(b)

End ==
    \/ EndFixed
    \/ EndWrongLength
    \/ EndStream
    \/ EndStreamAborted
    \/ EndNothing

Next ==
    \/ \E n \in 1 .. MaxWrite : Write(n)
    \/ Put
    \/ Start
    \/ End

Spec == Init /\ [][Next]_vars

-----------------------------------------------------------------------------
(* Properties *)

\* Type correctness; and the scratch buffer is never written past the length
\* of the event being read.
TypeOK ==
    /\ state \in {"WAIT_EVENT", "READ_FIXED", "STREAM_DATA", "ABORT"}
    /\ payload_index \in Nat
    /\ state = "READ_FIXED" => payload_index \in 0 .. opcode_length
    /\ opcode_length \in 0 .. 1
    /\ interface \in 0 .. 15
    /\ opcode \in 0 .. 15
    /\ smallbuf \in [0 .. 3 -> Byte]
    /\ byte_index \in Nat
    /\ installed \subseteq EventNames
    /\ status \in Status
    /\ todo \in Nat
    /\ frame \in Seq(Byte)
    /\ log \in Seq(EventCallback)
    /\ ended \in BOOLEAN
    /\ muted \in BOOLEAN
    /\ cut \in Nat

\* The callbacks made for a frame are a function of that frame alone, provided
\* each of the two streams has all its callbacks or none: the counter the two
\* share, and the buffer, then never carry anything from one frame to another.
LogIsMeaning ==
    Complete(installed) =>
        log = IF muted THEN << >> ELSE EventCalls(installed, frame, ended, cut)

\* A frame is given up on loudly: while bytes are discarded, the last call for
\* the frame was error_cb.
NoSilentLoss ==
    (state = "ABORT" /\ ~muted /\ "error" \in installed) =>
        /\ log # << >>
        /\ log[Len(log)].cb = "error"

\* A refused stream end costs one frame at most: see CommandDecoder.
DeafForOneFrame ==
    [][/\ (muted' /\ ~muted) => (ended /\ cut = Len(frame) + 1)
       /\ (muted /\ ended /\ ended # ended') => ~muted']_vars

DataNames == {"stat_rx_data", "stat_tx_data"}

\* Documented of a stream's data callback (stream.h:42): byte_index counts from
\* zero within the current frame.
IndexWithinFrame ==
    \A k \in 1 .. Len(log) :
        log[k].cb \in DataNames => log[k].args[3] < Len(frame) - 1

=============================================================================
