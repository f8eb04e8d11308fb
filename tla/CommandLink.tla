---------------------------- MODULE CommandLink ----------------------------
(***************************************************************************)
(* A host's command encoder and a device's command decoder, with a line    *)
(* between them that delimits frames as KISS does.  The encoder's          *)
(* callbacks put delimiters and bytes on the line; what comes off it is    *)
(* handed to the decoder as decoder_start, decoder_data and decoder_end of *)
(* the monitor do.                                                         *)
(*                                                                         *)
(* A callback that asks to abort may have done its work all the same.  The *)
(* frame it cuts short stays on the line without its end, and when the     *)
(* next one begins the line either drops it or takes it for ended.         *)
(***************************************************************************)
EXTENDS CommandEncoder

CONSTANT MaxCalls \* bound: frames the host begins

ASSUME MaxCallsAssumption == MaxCalls \in Nat

\* The line has all three callbacks.
ASSUME LineAssumption == CallbackSets = {{"start", "put", "end"}}

\* A frame that is the command its sender means, and no command when it is cut
\* short: what command-encoder.c sends (CommandRequests of
\* CommandRoundTripProofs), and what means nothing to the device.
Sound(r) ==
    /\ CommandsOf(FrameOf(r)) = r.means
    /\ \A n \in 0 .. Len(r.bytes) : CommandsOf(SubSeq(FrameOf(r), 1, n)) = << >>

ASSUME SoundAssumption == \A r \in Requests : Sound(r)

VARIABLES
    line,    \* what is on its way: delimiters and bytes
    cutting, \* the frame last begun on the line: [open, bytes, request]
    calls,   \* history: frames the host has begun
    granted, \* history: commands whose frame was delimited on the line, whole
    owed,    \* history: commands whose call returned OK
    carried, \* history: commands the device has called
    \* the device's decoder
    d_state, d_payload_index, d_opcode_length, d_interface, d_opcode, d_smallbuf,
    d_byte_index, d_installed, d_status, d_todo, d_frame, d_log, d_ended, d_muted,
    d_cut, d_refused

Device == INSTANCE CommandDecoder WITH
    Headers <- {0}, Payload <- {0}, CallbackSets <- {CallbackNames},
    MaxFrame <- MaxFrame + 4, MaxWrite <- 1,
    state <- d_state, payload_index <- d_payload_index,
    opcode_length <- d_opcode_length, interface <- d_interface, opcode <- d_opcode,
    smallbuf <- d_smallbuf, byte_index <- d_byte_index, installed <- d_installed,
    status <- d_status, todo <- d_todo, frame <- d_frame, log <- d_log,
    ended <- d_ended, muted <- d_muted, cut <- d_cut, refused <- d_refused

host == vars
device == <<d_state, d_payload_index, d_opcode_length, d_interface, d_opcode,
            d_smallbuf, d_byte_index, d_installed, d_status, d_todo, d_frame, d_log,
            d_ended, d_muted, d_cut, d_refused>>
link == <<line, cutting, calls, granted, owed, carried>>
all  == <<host, link, device>>

START == -1
END   == -2

LinkInit ==
    /\ Init
    /\ Device!Init
    /\ line = << >>
    /\ cutting = [open |-> FALSE, bytes |-> << >>, request |-> request]
    /\ calls = 0
    /\ granted = << >>
    /\ owed = << >>
    /\ carried = << >>

-----------------------------------------------------------------------------
(* The line, as the encoder's callbacks write to it *)

\* the command a frame delimited now is whole for, if it is
Granted == IF cutting.bytes = FrameOf(cutting.request) THEN cutting.request.means
           ELSE << >>

LineStart(r) ==
    /\ cutting' = [open |-> TRUE, bytes |-> << >>, request |-> r]
    /\ \/ /\ cutting.open
          /\ line' = line \o <<END, START>>
          /\ granted' = granted \o Granted
       \/ /\ line' = Append(line, START)
          /\ granted' = granted

LinePut(b) ==
    /\ line' = Append(line, b)
    /\ cutting' = [cutting EXCEPT !.bytes = Append(@, b)]
    /\ granted' = granted

LineEnd ==
    /\ line' = Append(line, END)
    /\ cutting' = [cutting EXCEPT !.open = FALSE]
    /\ granted' = granted \o Granted

\* what a callback that asks to abort may have done
Unless(abort, written) ==
    \/ written
    \/ abort /\ UNCHANGED <<line, cutting, granted>>

-----------------------------------------------------------------------------
(* The host's calls *)

\* one frame more is begun by this call
Begins == calls < MaxCalls /\ calls' = calls + 1

Continues == calls' = calls

HostSteps(abort) ==
    \/ \E r \in Requests :
          Begins /\ Send(r, abort) /\ Unless(abort, LineStart(r)) /\ owed' = owed
    \/ /\ Continues
       /\ SendHeader(abort) \/ SendPayload(abort)
       /\ Unless(abort, LinePut(IF pc = "header"
                                THEN HeaderByte(request.interface, request.opcode)
                                ELSE request.bytes[sent + 1]))
       /\ owed' = owed
    \/ /\ Continues
       /\ SendEnd(abort)
       /\ Unless(abort, LineEnd)
       /\ owed' = IF abort THEN owed ELSE owed \o request.means

StreamSteps(abort) ==
    /\ \/ \E interface \in Interfaces :
             /\ Begins
             /\ StreamStart(interface, abort)
             /\ Unless(abort, LineStart(Request(interface, DATA, << >>, << >>)))
       \/ /\ Continues
          /\ StreamHeader(abort)
          /\ Unless(abort, LinePut(HeaderByte(request.interface, DATA)))
       \/ \E b \in Payload :
             Continues /\ StreamData(b, abort) /\ Unless(abort, LinePut(b))
       \/ Continues /\ StreamEnd(abort) /\ Unless(abort, LineEnd)
    /\ owed' = owed

RefusedCalls ==
    /\ Busy \/ NotOpen
    /\ UNCHANGED link

Host ==
    /\ \/ \E abort \in Verdict : HostSteps(abort) \/ StreamSteps(abort)
       \/ RefusedCalls
    /\ carried' = carried
    /\ UNCHANGED device

-----------------------------------------------------------------------------
(* The device *)

\* A put is a write of one byte: its length first, then the byte.
DevicePut(b) ==
    \/ Device!PutUnknown(b)
    \/ \E verdict \in Verdict : Device!PutStream(b, verdict)
    \/ Device!PutFixed(b)
    \/ Device!PutSmall(b)
    \/ Device!PutTooMany(b)
    \/ Device!PutData(b)
    \/ Device!PutDataAborted(b)
    \/ Device!PutIgnored(b)

Receive ==
    /\ line # << >>
    /\ \/ /\ \/ Head(line) = START /\ Device!Start /\ line' = Tail(line)
             \/ Head(line) \in Byte /\ Device!Write(1) /\ line' = line
          /\ carried' = carried
       \/ /\ \/ Head(line) \in Byte /\ DevicePut(Head(line))
             \/ Head(line) = END /\ Device!End
          /\ line' = Tail(line)
          /\ carried' = carried \o CommandsAmong(Device!Made)
    /\ UNCHANGED <<host, cutting, calls, granted, owed>>

-----------------------------------------------------------------------------
LinkNext == Host \/ Receive

\* The device goes on reading; nothing makes a host call, or finish a stream.
LinkSpec == LinkInit /\ [][LinkNext]_all /\ WF_all(Receive)

-----------------------------------------------------------------------------
(* Properties *)

\* Type correctness of both ends and of the line between them.
LinkTypeOK ==
    /\ TypeOK
    /\ Device!TypeOK
    /\ line \in Seq(Byte \cup {START, END})
    /\ cutting.open \in BOOLEAN /\ cutting.bytes \in Seq(Byte)
    /\ calls \in 0 .. MaxCalls
    /\ granted \in Seq(Device!Callback)
    /\ owed \in Seq(Device!Callback)
    /\ carried \in Seq(Device!Callback)

\* Encoder, line and decoder together implement the channel, for the commands
\* whose frames are whole when they are delimited: a frame cut short anywhere,
\* a stream refused by either side or left open, an abandoned frame the line
\* delimits after all, none of them is carried out as a command, nor keeps a
\* later command from being carried out, once and in order.
Channel == INSTANCE CommandChannel WITH
    Commands <- UNION {{r.means[k] : k \in 1 .. Len(r.means)} : r \in Requests},
    accepted <- granted, done <- carried

ImplementsChannel == Channel!Spec

\* few are among many, in the same order.
Within(few, many) ==
    \E at \in [1 .. Len(few) -> 1 .. Len(many)] :
        /\ \A j, k \in 1 .. Len(few) : j < k => at[j] < at[k]
        /\ \A k \in 1 .. Len(few) : few[k] = many[at[k]]

\* A caller is told OK for a frame that is on the line whole and delimited, after
\* those it was told OK for before: nothing is reported sent that was cut short,
\* dropped by the line, or put there in another order.
OwedIsGranted == Within(owed, granted)

\* A caller told OK can rely on it: its command is eventually carried out,
\* after those it was told OK for before.
OkIsCarriedOut ==
    \A n \in 1 .. MaxCalls :
        (Len(owed) >= n) ~> (Len(owed) >= n /\ Within(SubSeq(owed, 1, n), carried))

=============================================================================
