------------------------------ MODULE Monitor ------------------------------
(***************************************************************************)
(* The monitor application: traffic between a host and a device passes     *)
(* through a proxy, whose callback records it and feeds it, byte by byte,  *)
(* to a KISS decoder per direction; the KISS decoders' callbacks drive the *)
(* command decoder and the event decoder, which print.  A recording can be *)
(* replayed by a later process through the same callbacks.                 *)
(*                                                                         *)
(* A protocol decoder appears here by what it is proved to implement: the  *)
(* calls it makes are the meaning of the bytes since its start, and the    *)
(* text callbacks never ask to abort (TextDecoders).                       *)
(*                                                                         *)
(* KISS, proxy and recording are libraries outside the repository.         *)
(***************************************************************************)
EXTENDS TextDecoders, SequencesExt

CONSTANTS
    Chunks,          \* what the proxy may hand over at once: [from, bytes]
    Arguments,       \* command lines of the first process
    MaxForwarded,    \* bound: chunks a session forwards
    MAX_FRAME_BYTES  \* size of a context's copy of the frame

ToDevice  == "H->D"
ToHost    == "H<-D"
Direction == {ToDevice, ToHost}

\* KISS-level symbols: the frame delimiter, and a byte KISS must reject
FEND   == -1
BAD    == -2
Symbol == Byte \cup {FEND, BAD}

ASSUME ChunksAssumption ==
    Chunks \subseteq [from : Direction, bytes : Seq(Symbol)]
ASSUME ArgumentsAssumption ==
    Arguments \subseteq [tty : BOOLEAN, record : BOOLEAN, replay : BOOLEAN]
ASSUME MonitorBoundsAssumption == MaxForwarded \in Nat /\ MAX_FRAME_BYTES \in Nat

VARIABLES
    args,      \* the command line: is there a device, a recording, a replay path?
    main,      \* where main is
    code,      \* what main returned, -1 until it does
    recording_enabled,
    stop,      \* the proxy has been requested to stop
    ctx,       \* per direction: frame_len, and the bytes its decoder was given
    kiss,      \* per direction: the KISS decoder is idle, in a frame, in a bad one
    todo,      \* the chunk in hand: [from, bytes still to be fed]
    file,      \* the recording: "none", "open" or "closed", and its entries
    cursor,    \* replay: entries read
    printed,   \* what this process printed: [from, text]
    taken,     \* history: per direction, the symbols KISS has been fed
    forwarded, \* history: the chunks the proxy forwarded
    lost,      \* history: the numbers of those the recorder failed to write
    signalled, \* history: a signal arrived while the proxy ran
    earlier    \* history: how the first process ended and what it had printed

process == <<args, main, code, recording_enabled, stop>>
decoding == <<ctx, kiss, todo, printed, taken>>
history == <<forwarded, lost, signalled, earlier>>
vars == <<process, decoding, file, cursor, history>>

-----------------------------------------------------------------------------
(* Start of a process: static contexts, decoders initialised *)

FreshContext == [d \in Direction |-> [frame_len |-> 0, heard |-> << >>]]

Init ==
    /\ args \in Arguments
    /\ main = "arguments"
    /\ code = -1
    /\ recording_enabled = FALSE
    /\ stop = FALSE
    /\ ctx = FreshContext
    /\ kiss = [d \in Direction |-> "idle"]
    /\ todo = [from |-> ToDevice, bytes |-> << >>]
    /\ file = [is |-> "none", entries |-> << >>]
    /\ cursor = 0
    /\ printed = << >>
    /\ taken = [d \in Direction |-> << >>]
    /\ forwarded = << >>
    /\ lost = {}
    /\ signalled = FALSE
    /\ earlier = [end |-> "none", printed |-> << >>]

Exit(c) == main' = "exit" /\ code' = c
Goto(place) == main' = place /\ code' = code

-----------------------------------------------------------------------------
(* What the decoders print *)

Meaning(d, f, ended) ==
    IF d = ToDevice THEN FrameCalls(CommandTextCallbacks, f, ended, 0)
                    ELSE EventCalls(EventTextCallbacks, f, ended, 0)

Line(d, text) == [from |-> d, text |-> text]

Lines(d, calls) ==
    [k \in 1 .. Len(calls) |->
        Line(d, IF d = ToDevice THEN CommandText(calls[k]) ELSE EventText(calls[k]))]

\* the calls of `after` that were not made before
New(before, after) == SubSeq(after, Len(before) + 1, Len(after))

-----------------------------------------------------------------------------
(* The callbacks of the KISS decoders; c is the context of direction d *)

\* Mutant: does not start the protocol decoder.
DecoderStartOfCopy(c) == [c EXCEPT !.frame_len = 0]

DecoderStart(c) == [frame_len |-> 0, heard |-> << >>]

\* Mutant: the copy is not bounded.
DecoderDataUnbounded(c, b) ==
    [frame_len |-> c.frame_len + 1, heard |-> Append(c.heard, b)]

DecoderData(c, b) ==
    [ frame_len |-> IF c.frame_len < MAX_FRAME_BYTES THEN c.frame_len + 1 ELSE c.frame_len,
      heard     |-> Append(c.heard, b) ]

DataLines(d, c, b) ==
    Lines(d, New(Meaning(d, c.heard, FALSE), Meaning(d, Append(c.heard, b), FALSE)))

\* Mutant: ends the protocol frame whatever the status of the KISS frame.
DecoderEndAlways(d, c, complete) ==
    Lines(d, New(Meaning(d, c.heard, FALSE), Meaning(d, c.heard, TRUE)))

\* Only a complete KISS frame ends the frame of the protocol decoder.
DecoderEnd(d, c, complete) ==
    IF complete
    THEN Lines(d, New(Meaning(d, c.heard, FALSE), Meaning(d, c.heard, TRUE)))
    ELSE << Line(d, <<"error">>) >>

DecoderError(d) == << Line(d, <<"decode error">>) >>

-----------------------------------------------------------------------------
(* pico_kiss_proto_decoder_put, for the next symbol of the chunk in hand: in *)
(* the callback of the proxy that runs, or in the loop of the replay         *)

KissPut(symbols, state, context, lines) ==
    LET d == todo.from
    IN  /\ main \in {"run", "replay"}
        /\ todo.bytes # << >>
        /\ Head(todo.bytes) \in symbols
        /\ todo' = [todo EXCEPT !.bytes = Tail(@)]
        /\ taken' = [taken EXCEPT ![d] = Append(@, Head(todo.bytes))]
        /\ kiss' = [kiss EXCEPT ![d] = state]
        /\ ctx' = [ctx EXCEPT ![d] = context]
        /\ printed' = printed \o lines
        /\ UNCHANGED <<process, file, cursor, history>>

KissByte ==
    LET d == todo.from
        c == IF kiss[d] = "idle" THEN DecoderStart(ctx[d]) ELSE ctx[d]
        b == Head(todo.bytes)
    IN  /\ kiss[d] # "bad"
        /\ KissPut(Byte, "frame", DecoderData(c, b), DataLines(d, c, b))

KissError ==
    LET d == todo.from
        c == IF kiss[d] = "idle" THEN DecoderStart(ctx[d]) ELSE ctx[d]
    IN  /\ kiss[d] # "bad"
        /\ KissPut({BAD}, "bad", c, DecoderError(d))

KissEnd ==
    LET d == todo.from
        complete == kiss[d] = "frame"
    IN  /\ kiss[d] # "idle"
        /\ KissPut({FEND}, "idle", ctx[d], DecoderEnd(d, ctx[d], complete))

KissSkip ==
    LET d == todo.from
    IN  \/ kiss[d] = "idle" /\ KissPut({FEND}, "idle", ctx[d], << >>)
        \/ kiss[d] = "bad"  /\ KissPut(Byte \cup {BAD}, "bad", ctx[d], << >>)

Feed == KissByte \/ KissError \/ KissEnd \/ KissSkip

-----------------------------------------------------------------------------
(* main: the arguments, a live session *)

CheckArguments ==
    /\ main = "arguments"
    /\ IF args.replay = args.tty THEN Exit(1)
       ELSE Goto(IF args.replay THEN "reader" ELSE "recorder")
    /\ UNCHANGED <<args, recording_enabled, stop, decoding, file, cursor, history>>

OpenRecording(ok) ==
    /\ main = "recorder"
    /\ IF ~args.record THEN Goto("proxy") /\ UNCHANGED <<recording_enabled, file>>
       ELSE IF ok THEN /\ Goto("proxy")
                       /\ recording_enabled' = TRUE
                       /\ file' = [is |-> "open", entries |-> << >>]
       ELSE Exit(1) /\ UNCHANGED <<recording_enabled, file>>
    /\ UNCHANGED <<args, stop, decoding, cursor, history>>

\* When the proxy cannot be initialised main returns and leaves the recording
\* open.  Whether init forgets an earlier request to stop is the library's choice.
InitProxy(ok) ==
    /\ main = "proxy"
    /\ IF ok THEN Goto("run") ELSE Exit(1)
    /\ stop' \in {stop, FALSE}
    /\ UNCHANGED <<args, recording_enabled, decoding, file, cursor, history>>

\* Mutant: says so, but does not request the stop.
SignalOnlyReported ==
    /\ main \in {"recorder", "proxy", "run", "close"}
    /\ stop' = stop
    /\ signalled' = (signalled \/ main = "run")
    /\ UNCHANGED <<args, main, code, recording_enabled, decoding, file, cursor,
                   forwarded, lost, earlier>>

\* proxy_signal_handler, at any step of a live session
Signal ==
    /\ main \in {"recorder", "proxy", "run", "close"}
    /\ stop' = TRUE
    /\ signalled' = (signalled \/ main = "run")
    /\ UNCHANGED <<args, main, code, recording_enabled, decoding, file, cursor,
                   forwarded, lost, earlier>>

\* Mutant: the two directions change places in the recording.
EntrySwapped(chunk) ==
    [chunk EXCEPT !.from = IF @ = ToDevice THEN ToHost ELSE ToDevice]

Entry(chunk) == [from |-> chunk.from, bytes |-> chunk.bytes]

\* Mutant: a chunk the recorder cannot write is not decoded either.
ForwardUnwritten(chunk, ok) ==
    /\ main = "run"
    /\ ~stop
    /\ todo.bytes = << >>
    /\ Len(forwarded) < MaxForwarded
    /\ todo' = [chunk EXCEPT !.bytes = IF recording_enabled /\ ~ok THEN << >> ELSE @]
    /\ forwarded' = Append(forwarded, chunk)
    /\ file' = (IF recording_enabled /\ ok
                THEN [file EXCEPT !.entries = Append(@, Entry(chunk))] ELSE file)
    /\ lost' = (IF recording_enabled /\ ~ok THEN lost \cup {Len(forwarded')} ELSE lost)
    /\ UNCHANGED <<process, ctx, kiss, printed, taken, cursor, signalled, earlier>>

\* Mutant: after a failed write nothing more is recorded.
ForwardOnceFailed(chunk, ok) ==
    /\ main = "run"
    /\ ~stop
    /\ todo.bytes = << >>
    /\ Len(forwarded) < MaxForwarded
    /\ todo' = chunk
    /\ forwarded' = Append(forwarded, chunk)
    /\ file' = (IF recording_enabled /\ ok /\ lost = {}
                THEN [file EXCEPT !.entries = Append(@, Entry(chunk))] ELSE file)
    /\ lost' = (IF recording_enabled /\ ~ok THEN lost \cup {Len(forwarded')} ELSE lost)
    /\ UNCHANGED <<process, ctx, kiss, printed, taken, cursor, signalled, earlier>>

\* proxy_data_cb: recorded first, decoded afterwards, byte by byte.  A chunk the
\* recorder cannot write is reported and decoded all the same, and the next one
\* is written again; that a failed write leaves no entry is taken of the library.
Forward(chunk, ok) ==
    /\ main = "run"
    /\ ~stop
    /\ todo.bytes = << >>
    /\ Len(forwarded) < MaxForwarded
    /\ todo' = chunk
    /\ forwarded' = Append(forwarded, chunk)
    /\ file' = (IF recording_enabled /\ ok
                THEN [file EXCEPT !.entries = Append(@, Entry(chunk))] ELSE file)
    /\ lost' = (IF recording_enabled /\ ~ok THEN lost \cup {Len(forwarded')} ELSE lost)
    /\ UNCHANGED <<process, ctx, kiss, printed, taken, cursor, signalled, earlier>>

\* pico_serial_proxy_run returns: it was asked to, or the device is gone.
RunReturns ==
    /\ main = "run"
    /\ todo.bytes = << >>
    /\ Goto("close")
    /\ UNCHANGED <<args, recording_enabled, stop, decoding, file, cursor, history>>

CloseRecording ==
    /\ main = "close"
    /\ Exit(0)
    /\ file' = (IF recording_enabled THEN [file EXCEPT !.is = "closed"] ELSE file)
    /\ UNCHANGED <<args, recording_enabled, stop, decoding, cursor, history>>

\* The process is killed: of its recording, what the library had not written out
\* yet is lost with it.
Killed ==
    /\ main \notin {"exit", "killed"}
    /\ Goto("killed")
    /\ \E kept \in 0 .. Len(file.entries) :
          /\ ~recording_enabled => kept = Len(file.entries)
          /\ file' = [file EXCEPT !.entries = SubSeq(@, 1, kept)]
    /\ UNCHANGED <<args, recording_enabled, stop, decoding, cursor, history>>

-----------------------------------------------------------------------------
(* main: a replay *)

\* A second process is started, to replay what the first one recorded.
Restart ==
    /\ main \in {"exit", "killed"}
    /\ earlier.end = "none"
    /\ earlier' = [end |-> IF code = 0 THEN "returned" ELSE "cut short", printed |-> printed]
    /\ args' = [tty |-> FALSE, record |-> FALSE, replay |-> TRUE]
    /\ main' = "arguments"
    /\ code' = -1
    /\ recording_enabled' = FALSE
    /\ stop' = FALSE
    /\ ctx' = FreshContext
    /\ kiss' = [d \in Direction |-> "idle"]
    /\ todo' = [todo EXCEPT !.bytes = << >>]
    /\ printed' = << >>
    /\ taken' = [d \in Direction |-> << >>]
    /\ signalled' = FALSE
    /\ UNCHANGED <<file, cursor, forwarded, lost>>

OpenReader(ok) ==
    /\ main = "reader"
    /\ ok => file.is # "none"
    /\ IF ok THEN Goto("replay") ELSE Exit(1)
    /\ UNCHANGED <<args, recording_enabled, stop, decoding, file, cursor, history>>

ReadEntry ==
    /\ main = "replay"
    /\ todo.bytes = << >>
    /\ cursor < Len(file.entries)
    /\ cursor' = cursor + 1
    /\ todo' = file.entries[cursor + 1]
    /\ UNCHANGED <<process, ctx, kiss, printed, taken, file, history>>

\* The end of the recording, or (rc < 0) a recording that cannot be read on.
ReadEnd(rc) ==
    /\ main = "replay"
    /\ todo.bytes = << >>
    /\ rc >= 0 => cursor = Len(file.entries)
    /\ Exit(IF rc < 0 THEN 1 ELSE 0)
    /\ UNCHANGED <<args, recording_enabled, stop, decoding, file, cursor, history>>

-----------------------------------------------------------------------------
Next ==
    \/ CheckArguments
    \/ \E ok \in BOOLEAN : OpenRecording(ok) \/ InitProxy(ok) \/ OpenReader(ok)
    \/ Signal
    \/ \E chunk \in Chunks, ok \in BOOLEAN : Forward(chunk, ok)
    \/ Feed
    \/ RunReturns
    \/ CloseRecording
    \/ Killed
    \/ Restart
    \/ ReadEntry
    \/ \E rc \in {-1, 1} : ReadEnd(rc)

\* main's own loops run on; the proxy is taken to return once it is asked to
\* stop.  Nothing makes a device send, a user signal or a disk fail.
Fairness ==
    /\ WF_vars(Feed)
    /\ WF_vars(stop /\ RunReturns)
    /\ WF_vars(CloseRecording)
    /\ WF_vars(ReadEntry \/ ReadEnd(1))

Spec == Init /\ [][Next]_vars /\ Fairness

-----------------------------------------------------------------------------
(* Properties *)

\* Type correctness; the copy of a frame is never written past its end.
TypeOK ==
    /\ args \in [tty : BOOLEAN, record : BOOLEAN, replay : BOOLEAN]
    /\ main \in {"arguments", "recorder", "proxy", "run", "close", "reader", "replay",
                 "exit", "killed"}
    /\ code \in -1 .. 1
    /\ recording_enabled \in BOOLEAN
    /\ stop \in BOOLEAN
    /\ ctx \in [Direction -> [frame_len : 0 .. MAX_FRAME_BYTES, heard : Seq(Byte)]]
    /\ kiss \in [Direction -> {"idle", "frame", "bad"}]
    /\ todo \in [from : Direction, bytes : Seq(Symbol)]
    /\ file.is \in {"none", "open", "closed"}
    /\ cursor \in 0 .. Len(file.entries)
    /\ lost \subseteq 1 .. Len(forwarded)
    /\ signalled \in BOOLEAN

\* A KISS frame, delimited or not yet, by itself: what it shows.
Shows(d, segment, delimited) ==
    LET bad   == \E k \in 1 .. Len(segment) : segment[k] = BAD
        first == CHOOSE k \in 1 .. Len(segment) :
                    segment[k] = BAD /\ \A j \in 1 .. k - 1 : segment[j] # BAD
    IN  IF bad
        THEN Lines(d, Meaning(d, SubSeq(segment, 1, first - 1), FALSE))
                \o << Line(d, <<"decode error">>) >>
                \o (IF delimited THEN << Line(d, <<"error">>) >> ELSE << >>)
        ELSE Lines(d, Meaning(d, segment, delimited))

\* What a symbol adds to the frame that is open, and to the lines of those before.
Hear(d, heard, s) ==
    IF s = FEND THEN [open |-> << >>, lines |-> heard.lines \o Shows(d, heard.open, TRUE)]
                ELSE [open |-> Append(heard.open, s), lines |-> heard.lines]

Heard(d, symbols) ==
    LET after[n \in 0 .. Len(symbols)] ==
            IF n = 0 THEN [open |-> << >>, lines |-> << >>]
                     ELSE Hear(d, after[n - 1], symbols[n])
    IN  after[Len(symbols)]

\* What all the traffic of one direction shows, frame after frame.
ShowsAll(d, symbols) ==
    Heard(d, symbols).lines \o Shows(d, Heard(d, symbols).open, FALSE)

\* The lines of one direction.
Of(d, lines) ==
    LET among[n \in 0 .. Len(lines)] ==
            IF n = 0 THEN << >>
            ELSE IF lines[n].from = d THEN Append(among[n - 1], lines[n])
            ELSE among[n - 1]
    IN  among[Len(lines)]

\* The symbols of one direction in chunks, in order.
Traffic(d, chunks) ==
    FlattenSeq([n \in 1 .. Len(chunks) |->
                   IF chunks[n].from = d THEN chunks[n].bytes ELSE << >>])

\* The chunks but those with these numbers, in order.
Without(chunks, numbers) ==
    FlattenSeq([n \in 1 .. Len(chunks) |->
                   IF n \in numbers THEN << >> ELSE << chunks[n] >>])

\* What is shown of a direction is a function of that direction's bytes alone:
\* of no other frame, of no chunk boundary, and not of the traffic of the other
\* direction in between.  A frame KISS rejects shows what its bytes before the
\* rejection say (the start and the bytes of a stream), and that it was rejected;
\* it is never ended as a command or an event.
EachDirectionByItself ==
    \A d \in Direction : Of(d, printed) = ShowsAll(d, taken[d])

\* A session that returned has shown every chunk it forwarded, those included
\* that the recorder failed to write; a replay that returned has shown every
\* entry of its recording, on both sides of the chunks that are missing from it.
EveryChunkIsShown ==
    (main = "exit" /\ code = 0) =>
        \A d \in Direction :
            Of(d, printed) =
                ShowsAll(d, Traffic(d, IF args.replay THEN file.entries ELSE forwarded))

\* When main returns from a session it recorded, the recording is closed and
\* exactly what was forwarded, in order, but for the chunks whose write failed:
\* a failed write costs the recording that chunk and none after it.
RecordingIsComplete ==
    (main = "exit" /\ code = 0 /\ args.record) =>
        /\ file.is = "closed"
        /\ file.entries = Without(forwarded, lost)

\* A replay of a recording without a failed write shows, in the same order, what
\* the session showed when it was recorded.  The recording of a session that was
\* killed may lack its last chunks, or hold one the session had not finished
\* showing; a replay of it still shows nothing else.
ReplayShowsTheSame ==
    (earlier.end # "none" /\ lost = {}) =>
        /\ IsPrefix(printed, earlier.printed) \/ IsPrefix(earlier.printed, printed)
        /\ earlier.end = "returned" => IsPrefix(printed, earlier.printed)
        /\ (main = "exit" /\ code = 0 /\ earlier.end = "returned") =>
              printed = earlier.printed

\* A signal that arrives while the proxy runs ends the session, whatever chunk
\* is in hand, and a replay comes to an end.
SessionsEnd ==
    /\ signalled ~> main \in {"exit", "killed", "arguments"}
    /\ main = "replay" ~> main \in {"exit", "killed"}

\* The event decoder's table calls an opcode by its name (event-decoder.c:5 to
\* 14); an error line about such an opcode shows that name.
EventErrorsAreNamed ==
    \A k \in 1 .. Len(printed) :
        LET t == printed[k].text
        IN  (t[1] = "EVENT ERROR" /\ EventLength(t[4]) # -2) => t[2] # "UNKNOWN"

=============================================================================
