------------------------------ MODULE Encoder ------------------------------
(***************************************************************************)
(* pico_rnode_proto_encoder_t and the frame helper inside it: how command  *)
(* and event frames leave.  A call runs over several steps, one for each   *)
(* callback it makes, so that the place where a callback asks to abort is  *)
(* a choice: the frame's start, its header, any byte of its payload or its *)
(* end.  Calls do not overlap: no callback calls the encoder back.         *)
(***************************************************************************)
EXTENDS EncodedFrames

CONSTANTS
    Requests,     \* frames the callers ask for: [interface, opcode, bytes, means]
    Interfaces,   \* interfaces a stream may be opened on
    Payload,      \* bytes a stream may carry
    CallbackSets, \* choices of the callbacks init is given; the others are NULL
    MaxFrame      \* bound: bytes of a streamed frame

ASSUME RequestsAssumption ==
    \A r \in Requests : /\ r.interface \in Byte
                        /\ r.opcode \in 0 .. 127
                        /\ r.bytes \in Seq(Byte)
ASSUME InterfacesAssumption == Interfaces \subseteq Byte
ASSUME StreamAssumption     == Payload \subseteq Byte
ASSUME SinksAssumption      == CallbackSets \subseteq SUBSET {"start", "put", "end"}
ASSUME LengthAssumption     == MaxFrame \in Nat

VARIABLES
    state,      \* encoder->state
    byte_index, \* encoder->frame.byte_index
    installed,  \* the callbacks that are not NULL
    status,     \* what the last call returned
    pc,         \* the next callback of the call in progress, "none" between calls
    request,    \* arguments of the last whole-frame call, or of the stream's start
    sent,       \* payload bytes the call in progress has put
    wire,       \* history: bytes handed to put_cb since the frame began
    asked,      \* history: bytes the callers have asked that frame to hold
    open,       \* history: the frame has begun and not ended
    spoilt,     \* history: a callback asked to abort it
    torn,       \* history: a frame began inside another that was not spoilt
    streaming   \* history: a start returned OK and no end has been called since

encoder == <<state, byte_index, installed>>
call    == <<status, pc, request, sent>>
history == <<wire, asked, open, spoilt, torn, streaming>>
vars    == <<encoder, call, history>>

Init ==
    /\ state = "IDLE"
    /\ byte_index = 0
    /\ installed \in CallbackSets
    /\ status = OK
    /\ pc = "none"
    /\ request \in Requests
    /\ sent = 0
    /\ wire = << >>
    /\ asked = << >>
    /\ open = FALSE
    /\ spoilt = FALSE
    /\ torn = FALSE
    /\ streaming = FALSE

\* A callback's answer: only one that is there can ask to abort.
Answer(name, abort) == abort => name \in installed

Return(st) == pc' = "none" /\ status' = st

-----------------------------------------------------------------------------
(* The frame helper *)

\* pico_rnode_proto_frame_start, for a frame that is to begin with `bytes`
FrameStart(bytes, abort) ==
    /\ Answer("start", abort)
    /\ byte_index' = 0
    /\ wire' = << >>
    /\ asked' = bytes
    /\ open' = ~abort
    /\ spoilt' = abort
    /\ torn' = (torn \/ (open /\ ~spoilt))
    /\ installed' = installed

\* pico_rnode_proto_frame_put_byte
FramePut(b, abort) ==
    /\ Answer("put", abort)
    /\ byte_index' = byte_index + 1
    /\ wire' = (IF "put" \in installed THEN Append(wire, b) ELSE wire)
    /\ spoilt' = (spoilt \/ abort)
    /\ UNCHANGED <<installed, open, torn>>

\* pico_rnode_proto_frame_end
FrameEnd(abort) ==
    /\ Answer("end", abort)
    /\ open' = FALSE
    /\ spoilt' = (spoilt \/ abort)
    /\ UNCHANGED <<installed, byte_index, wire, asked, torn>>

-----------------------------------------------------------------------------
(* pico_rnode_proto_encoder_send_command_and_bytes *)

Refused == UNCHANGED <<encoder, request, sent, history>> /\ Return(FRAME_ERROR)

Busy == pc = "none" /\ state = "TRANSMITTING" /\ Refused

\* Mutant: does not look whether a stream is open.
SendUnguarded(r, abort) ==
    /\ pc = "none"
    /\ FrameStart(FrameOf(r), abort)
    /\ request' = r
    /\ sent' = 0
    /\ streaming' = streaming
    /\ IF abort THEN Return(ABORTED) /\ state' = state
                ELSE pc' = "header" /\ state' = "TRANSMITTING" /\ status' = status

\* Mutant: the payload is sent from its second byte.
SendFromOne(r, abort) ==
    /\ pc = "none"
    /\ state = "IDLE"
    /\ FrameStart(FrameOf(r), abort)
    /\ request' = r
    /\ sent' = 1
    /\ streaming' = streaming
    /\ IF abort THEN Return(ABORTED) /\ state' = state
                ELSE pc' = "header" /\ state' = "TRANSMITTING" /\ status' = status

Send(r, abort) ==
    /\ pc = "none"
    /\ state = "IDLE"
    /\ FrameStart(FrameOf(r), abort)
    /\ request' = r
    /\ sent' = 0
    /\ streaming' = streaming
    /\ IF abort THEN Return(ABORTED) /\ state' = state
                ELSE pc' = "header" /\ state' = "TRANSMITTING" /\ status' = status

\* Mutant: a refused header is not noticed.
SendHeaderUnchecked(abort) ==
    /\ pc = "header"
    /\ FramePut(HeaderByte(request.interface, request.opcode), abort)
    /\ pc' = "payload" /\ state' = state /\ status' = status
    /\ UNCHANGED <<request, sent, asked, streaming>>

SendHeader(abort) ==
    /\ pc = "header"
    /\ FramePut(HeaderByte(request.interface, request.opcode), abort)
    /\ IF abort THEN Return(ABORTED) /\ state' = "IDLE"
                ELSE pc' = "payload" /\ state' = state /\ status' = status
    /\ UNCHANGED <<request, sent, asked, streaming>>

\* Mutant: a refused byte leaves the encoder waiting for the rest.
SendPayloadKeepsState(abort) ==
    /\ pc = "payload"
    /\ sent < Len(request.bytes)
    /\ FramePut(request.bytes[sent + 1], abort)
    /\ sent' = sent + 1
    /\ state' = state
    /\ IF abort THEN Return(ABORTED) ELSE pc' = pc /\ status' = status
    /\ UNCHANGED <<request, asked, streaming>>

SendPayload(abort) ==
    /\ pc = "payload"
    /\ sent < Len(request.bytes)
    /\ FramePut(request.bytes[sent + 1], abort)
    /\ sent' = sent + 1
    /\ IF abort THEN Return(ABORTED) /\ state' = "IDLE"
                ELSE pc' = pc /\ state' = state /\ status' = status
    /\ UNCHANGED <<request, asked, streaming>>

\* Mutant: the last byte of the payload is left out.
SendEndEarly(abort) ==
    /\ pc = "payload"
    /\ sent >= Len(request.bytes) - 1
    /\ FrameEnd(abort)
    /\ state' = "IDLE"
    /\ Return(IF abort THEN ABORTED ELSE OK)
    /\ UNCHANGED <<request, sent, streaming>>

SendEnd(abort) ==
    /\ pc = "payload"
    /\ sent = Len(request.bytes)
    /\ FrameEnd(abort)
    /\ state' = "IDLE"
    /\ Return(IF abort THEN ABORTED ELSE OK)
    /\ UNCHANGED <<request, sent, streaming>>

-----------------------------------------------------------------------------
(* pico_rnode_proto_encoder_start, _data and _end *)

StreamStart(interface, abort) ==
    /\ pc = "none"
    /\ state = "IDLE"
    /\ FrameStart(<<HeaderByte(interface, DATA)>>, abort)
    /\ request' = Request(interface, DATA, << >>, << >>)
    /\ sent' = 0
    /\ streaming' = streaming
    /\ IF abort THEN Return(ABORTED) /\ state' = state
                ELSE pc' = "stream" /\ state' = "TRANSMITTING" /\ status' = status

StreamHeader(abort) ==
    /\ pc = "stream"
    /\ FramePut(HeaderByte(request.interface, DATA), abort)
    /\ state' = (IF abort THEN "IDLE" ELSE state)
    /\ Return(IF abort THEN ABORTED ELSE OK)
    /\ streaming' = ~abort
    /\ UNCHANGED <<request, sent, asked>>

\* A refused byte does not close the stream.  MaxFrame is the model's bound.
StreamData(b, abort) ==
    /\ pc = "none"
    /\ state = "TRANSMITTING"
    /\ byte_index < MaxFrame
    /\ FramePut(b, abort)
    /\ asked' = Append(asked, b)
    /\ Return(IF abort THEN ABORTED ELSE OK)
    /\ UNCHANGED <<state, request, sent, streaming>>

StreamEnd(abort) ==
    /\ pc = "none"
    /\ state = "TRANSMITTING"
    /\ state' = "IDLE"
    /\ FrameEnd(abort)
    /\ Return(IF abort THEN ABORTED ELSE OK)
    /\ streaming' = FALSE
    /\ UNCHANGED <<request, sent>>

\* data or end with no stream open
NotOpen == pc = "none" /\ state # "TRANSMITTING" /\ Refused

-----------------------------------------------------------------------------
Next ==
    \/ \E abort \in Verdict :
          \/ \E r \in Requests : Send(r, abort)
          \/ SendHeader(abort)
          \/ SendPayload(abort)
          \/ SendEnd(abort)
          \/ \E interface \in Interfaces : StreamStart(interface, abort)
          \/ StreamHeader(abort)
          \/ \E b \in Payload : StreamData(b, abort)
          \/ StreamEnd(abort)
    \/ Busy
    \/ NotOpen

Spec == Init /\ [][Next]_vars

-----------------------------------------------------------------------------
(* Properties *)

TypeOK ==
    /\ state \in {"IDLE", "TRANSMITTING"}
    /\ byte_index \in Nat
    /\ installed \subseteq {"start", "put", "end"}
    /\ status \in {OK, ABORTED, FRAME_ERROR}
    /\ pc \in {"none", "header", "payload", "stream"}
    /\ request.interface \in Byte
    /\ request.opcode \in 0 .. 127
    /\ request.bytes \in Seq(Byte)
    /\ sent \in 0 .. Len(request.bytes)
    /\ wire \in Seq(Byte)
    /\ asked \in Seq(Byte)
    /\ open \in BOOLEAN
    /\ spoilt \in BOOLEAN
    /\ torn \in BOOLEAN
    /\ streaming \in BOOLEAN

\* A frame that reaches its end without a callback asking to abort carries
\* exactly the header and the bytes its callers asked for, in that order,
\* whether it was sent by one call or byte by byte.
WholeFrames ==
    (pc = "none" /\ ~open /\ ~spoilt /\ "put" \in installed) => wire = asked

\* No frame ever begins inside another: the receiver never sees a start in a
\* frame that nobody gave up on.
FramesNeverNest == ~torn

\* The encoder is never wedged: between calls it refuses new frames exactly
\* while a stream is open, however the calls before were cut short.
BusyWhileStreaming ==
    pc = "none" => /\ state = "TRANSMITTING" <=> streaming
                   /\ streaming => open

=============================================================================
