# Verification of pico-rnode-protocol

TLA+ models, TLC runs and TLAPS proofs for the RNODE protocol library in
`src/` and the monitor application in `apps/monitor/`. Paths below are relative
to the repository.

## 1. The system

The library translates between frames of bytes and calls. A *host* sends
**commands** to a radio *device*; the device sends **events** back. A frame is a
header byte (interface in the high nibble, the low nibble of an opcode in the
low one) and a payload; framing itself (KISS) belongs to another library, which
announces the start, the bytes and the end of each frame.

| component | state | operations | works with |
|---|---|---|---|
| constants (`include/*-consts.h`) | none | | everything |
| stream helper (`src/*-stream.c`) | `byte_index`, three callbacks | start, data, end | called by both decoders; calls the receiver, which may answer ABORT |
| frame helper (`src/*-frame.c`) | `byte_index`, three callbacks | start, put_byte, end | called by the encoder; calls the framing layer, which may answer ABORT |
| encoder (`src/*-encoder.c`) | IDLE or TRANSMITTING, one frame | send_command_and_bytes/_word/_byte; start, data, end | used by the two encoders below |
| command encoder, event encoder | none of their own | one call per command or event; start, data, end | wrap the encoder |
| command decoder (`src/*-command-decoder.c`) | state, opcode, interface, `smallbuf[4]`, `payload_index`, `opcode_length`, a stream | init, start, put, write, end | calls one callback per command, three for a transmission, one for errors; NULL callbacks are skipped |
| event decoder (`src/*-event-decoder.c`) | the same, with one stream shared by STAT_RX and STAT_TX | the same | the same |
| text decoders (`src/*-decoder-text.c`) | output and prefix | one printing callback each | instances of the decoders whose callbacks never abort |
| monitor (`apps/monitor/src/main.c`) | per direction a frame context, a KISS decoder and a protocol decoder; a recorder; a stop request | proxy data callback, recording, replay, signals | proxy -> recorder, KISS decoder -> protocol decoder -> text |

What is hard:

* **sequence and partial failure** in the library: a callback may refuse at any
  byte, a frame may be cut or restarted anywhere, callers may call in any order,
  and every buffer, counter and flag outlives the frame it belongs to;
* **agreement**: opcodes, lengths, signs, byte order and argument ranges are
  written down once per direction and once per side;
* **two ends at work at once**: a device decodes a frame while its host is still
  sending it, has given it up, or has begun the next one;
* **the monitor's surroundings**: traffic of two directions arrives interleaved
  and in chunks that cut frames anywhere, KISS rejects frames half way, signals
  arrive at any step, a recording outlives its process, which may fail or be
  killed at any point.

`PROJECT.json` lists each hazard at its line with the properties that watch it.

What makes each component correct:

* decoder: the calls made for a frame depend on that frame only; a frame it
  gives up on is reported, once, and last; an abort costs at most one more frame;
* encoder: a frame nobody refuses carries exactly what was asked; frames do not
  nest; a refusal never leaves it unable to send;
* the two together: what is sent is what is understood; a command whose caller
  is told OK is carried out, once and in order, and a frame cut short is never
  carried out as something else;
* monitor: what it shows of a direction depends on that direction's bytes only;
  every chunk it forwards is shown, recorded or not; a recording lacks the chunks
  whose write failed and no other, and a replay shows what the session showed; a
  signal ends the session.

## 2. The modules

| module | models |
|---|---|
| `RnodeProtocol` | opcodes, statuses, the header's nibbles, 32-bit values as four bytes (so that the width is exact), calls through a pointer that may be NULL |
| `CommandFrames`, `EventFrames` | the **abstract specification** of a decoder: `FrameCalls(inst, f, ended, cut)`, the callbacks a whole frame `f` must lead to, as a function without state; and the tables (`OpcodeLength`, `ValidArgument`, ...) of the code |
| `CommandDecoder`, `EventDecoder` | the decoders, one action per branch of `put` and of `end`, plus `Write` and `Start` |
| `EncodedFrames` | bytes of an encoded frame; a request with the calls its sender means by it |
| `Encoder` | the encoder and the frame helper, one action per callback it makes |
| `CommandEncoder`, `EventEncoder` | the wrappers as requests, and the round trip through `CommandFrames` / `EventFrames` |
| `TextDecoders` | the text decoders: the callbacks they install, what each line tells, the tables of names |
| `Monitor` | the monitor: KISS callbacks, a live session and its recording, signals, failures, a later replay |
| `CommandChannel` | the **abstract specification** of a link: accepted commands are carried out, each once, in order |
| `CommandLink` | command encoder, line and command decoder composed, shown to implement `CommandChannel` |
| `CommandDecoderProofs`, `EventDecoderProofs`, `EncoderProofs`, `MonitorProofs` | inductive invariants of these components, and the theorems that follow from them |
| `CommandReportProofs` | what the command decoder reports and counts, from the meaning of its frames |
| `CommandRoundTripProofs`, `EventRoundTripProofs` | what is sent is what is understood, for every argument |
| `CommandLinkProofs` | the link implements the channel's safety, from the invariants of its two ends |
| `MC*` | small instances for TLC |

**Decoder state.** `state`, `payload_index`, `opcode_length`, `interface`,
`opcode`, `smallbuf` and `byte_index` are the fields of the struct (the last one
the stream's). `installed` is the set of callbacks that are not NULL, chosen
once by `init`, which leaves `smallbuf`, `interface` and `opcode` as they were:
they start arbitrary. `todo` is the rest of a `write` in progress: each put
action consumes one byte and the write goes on only after OK, as the loop in the
code does; a direct `put` is a write of one byte. `status` is what the last call
returned. The answers of stream callbacks are free choices, so that a refusal
may happen at every byte: `PutData` / `PutDataAborted`, `EndStream` /
`EndStreamAborted`. The others are history: the bytes of the frame, the calls
made for it (`log`), whether it has ended, whether it began while the decoder
was still aborted (`muted`), and where a callback refused it (`cut`).

**Encoder state.** `state` and `byte_index` are the code's. A call makes several
callbacks; `pc` says which comes next and `sent` how many payload bytes are out,
so an abort can fall between any two. Calls do not overlap because no callback
calls the encoder back. `wire`, `asked`, `open`, `spoilt`, `torn`, `streaming`
are history.

**Monitor.** `main` says where `main()` is (the argument check, opening the
recording, initialising and running the proxy, closing; or opening and reading a
recording), `code` is what it returned. Per direction, `ctx` is the frame
context: `frame_len`, and `heard`, the bytes given to its protocol decoder since
`decoder_start`. That decoder appears by its meaning: `DataLines` and
`DecoderEnd` print the calls `FrameCalls` or `EventCalls` adds for one more byte
or for the end. `CommandDecoderProofs` and `EventDecoderProofs` prove that the
decoders implement these meanings; both hold here because text decoders install
every callback and none of them aborts. `kiss` and the four
`Kiss*` actions are the external KISS decoder as the callbacks see it: start on a
frame's first byte, data, error, end with a status, while the proxy or the replay
runs: a process that was killed decodes nothing more. `todo` is the chunk that
`proxy_data_cb` or the replay loop is feeding, so that a signal or a kill can
fall between two bytes. `file` is the recording, which outlives the process, and
`cursor` how far it has been read. `Killed` may happen anywhere and may lose
entries the recording library had not written out; `Restart` then starts a second
process, which replays. A write may fail at any chunk; that a failed write leaves
no entry is taken of the library. `lost`, history, has the numbers of the chunks
whose write failed. Whether proxy initialisation forgets an earlier stop
request is the library's choice. The scan of the command line is reduced to which
of the three options are there, and the `fprintf` in the signal handler to an
atomic step.

**Link.** `CommandLink` EXTENDS the encoder's modules, adds an INSTANCE of
`CommandDecoder` on variables of its own (`d_*`) and a `line` of delimiters and
bytes between them. The encoder's start, put and end callbacks write to the line;
`Receive` takes one item off it as the monitor's callbacks do: start, a put
(a write of one byte, in the decoder's two steps), end. A callback that asks to
abort may have done its work or not (`Unless`). A frame given up on stays on the
line without its end; when the next one begins the line either drops it or takes
it for ended (`LineStart`). `granted`, the commands whose frame was whole when it
was delimited, and `carried`, the device's calls, are the `accepted` and `done` of
`CommandChannel`; `owed` holds the commands whose callers were told OK.

Choices: a direct mistake such as wrong byte order is visible because payload
bytes are real byte values; interfaces above 15 lose their high bits as in C;
`int8_t` values are sign-extended. Identifiers above 15 are outside the protocol
(`README.md:18`): the round trips include one and say that it arrives as its low
nibble, which is what the code does and nothing it promises. The `printf` wording is left out, and so is
the frame helper's `byte_index` overflow, which nothing reads.

## 3. The runs

| run | question | result |
|---|---|---|
| `command_decoder` | Are the calls made for any sequence of bytes, starts, ends and writes the meaning of each frame? | holds, 1.7 million states |
| `command_encoder` | Is a refusal at any point harmless, and is every command that leaves whole understood? | holds |
| `event_decoder` | As `command_decoder`, for events | holds, for receivers with all callbacks of a stream or none |
| `event_encoder` | Which events arrive as meant, and are the others harmless? | seven arrive; the others are reported as errors or taken for a STAT_RX stream |
| `monitor` | Does the monitor show each direction by itself, show and record every chunk, replay faithfully, and stop? | holds, 366,395 states |
| `command_link` | Do encoder, line and decoder implement the channel, and is OK a promise? | holds, 76,215 states |
| `monitor_event_names` | Does an error line name an event the decoder knows? | no: the table has seven-bit opcodes and is asked for a nibble |
| `command_end_status` | Does `end` return INVALID_ARGUMENT, as documented? | no: the status is dropped, OK is returned |
| `command_tx_start` | Does a refused `tx_start` abort the transmission? | no: its answer is ignored |
| `event_stream_index` | Does `byte_index` count from zero in each frame? | not without a start callback |
| `event_notifications` | Do RANDOM and FW_VERSION reach their callbacks? | never: their nibble is BLINK's |
| `event_receive_frame` | Is a frame opened with `event_start` accepted? | no: its bytes are too many for a BLINK |

The last six runs expect a violation; `PROJECT.json` quotes the line of
documentation each contradicts.

**Properties of the decoders.** `LogIsMeaning`: the byte-at-a-time decoder
implements the function of whole frames, so nothing an earlier frame left in
`smallbuf`, `opcode_length` or `byte_index` can show, nor the way bytes were
split into writes. `ErrorIsLast`: at most one error, and nothing after it.
`NoSilentLoss`: no frame is given up on without a call. `TransmitAccounting`: the
length given to `tx_end` is the number of `tx_data` calls, indexed from 0.
`DeafForOneFrame` (an action property): `end` returns early when `tx_end` refuses
and leaves the decoder aborted, so the next frame, if it comes without a start,
is ignored; only then, and only that one. In the event decoder `LogIsMeaning`
is conditional on `Complete`, each stream with all its callbacks or none: the
counter the two streams share is reset by a start callback alone.

**Properties of the encoders.** `WholeFrames`, `FramesNeverNest`,
`BusyWhileStreaming` (between calls the encoder refuses frames exactly while a
stream is open, however earlier calls were cut short), and the round trips:
`DeliveredIsUnderstood`, `StreamIsUnderstood`, `EventIsUnderstood`,
`NeverTakenForAReading`.

**Properties of the monitor.** `EachDirectionByItself` compares all that was
printed of a direction with a function of all symbols of that direction
(`ShowsAll`): neither a frame before, a chunk boundary nor the traffic of the
other direction can show, and of a frame KISS rejects only what its bytes said
before. `EveryChunkIsShown` compares what a session that returned has printed with
all the chunks it forwarded, and a replay with all its entries: a chunk the
recorder fails to write is decoded like any other. `RecordingIsComplete` is the
other half of that hazard: whatever writes fail, the closed file is what was
forwarded without the chunks whose write failed (`Without`), so no failure costs a
later chunk. `ReplayShowsTheSame` relates a session, its file and a later process,
across failed starts and kills; it speaks of recordings without a failed write,
since with a gap in it a frame may be cut short and run into a later one. `SessionsEnd` (liveness): a signal while
the proxy runs ends the session, and a replay comes to an end. `TypeOK` has the
bound of the frame copy.

**Properties of the link.** `ImplementsChannel` is the refinement
`LinkSpec => Channel!Spec`, fairness included: nothing but granted commands is
carried out, each once, in order, and eventually. `OkIsCarriedOut` (liveness): a
caller told OK has no other confirmation; its command reaches the device's
callback even when earlier frames were refused, abandoned or too long, and
whatever state they left the device's decoder in. `OwedIsGranted` is what it owes
to the host's side: OK is only said of frames that are on the line, whole and
delimited, in the order in which it is said.

**Bounds.** `MaxFrame` is the number of bytes between two boundaries: 6 for
commands, so that a frame can hold a header, a full four-byte payload, and the
byte too many; 5 for events, whose payloads are at most one byte. Streams have
no length at which their code changes. `MaxWrite = 2` is the
smallest write that can stop with bytes left over. Header values are one per row
of the opcode tables' behaviour (stream, four bytes, one byte with and without
an argument check, none, unknown); the two payload bytes 0x73 and 0xFF each pass
one of the argument checks and fail the other. Frames follow each other without
limit, so every state left over from one meets the next. In the encoder runs
`MaxFrame = 4` bounds streams; each wrapper has a request, with values that
exercise signs, byte order and an interface that does not fit. Callback sets
cover all callbacks, none of the optional ones, and no error callback.

In `monitor`, `MaxForwarded = 3` chunks of seven make up a session: the chunks
cut frames before and after a header, within a stream and within a frame that
goes bad, and three suffice to begin a frame, interrupt it with the other
direction, and end or spoil it. `MAX_FRAME_BYTES = 2` where the code has 2048, so
that frames of three bytes overflow the copy. The four argument sets are a
recorded and an unrecorded session and two that `main` refuses. In `command_link`
`MaxCalls = 2` frames are begun, with streams of up to `MaxFrame = 2` bytes: one
frame to go wrong and one to be affected by it; `decoder_start` clears the state
of the device at each frame, so that a third one meets nothing new. The requests
include two that mean nothing to the device, an unknown opcode and a payload of
five bytes. No run uses a state constraint or symmetry.

**Fairness.** Of the library alone none is assumed: every call returns, and the
code promises nothing about what callers do next. In `Monitor` the assumptions
are that `main`'s own loops run on (`Feed`, the replay loop, the close after the
proxy returns: straight-line code of one thread) and that
`pico_serial_proxy_run` returns once a stop was requested, which is what its
library is called for. In `CommandLink` the device goes on reading what is on the
line (`Receive`). Nothing makes a host call, or finish a stream it has opened,
makes a device send, a user signal or a disk fail.

Deadlock is checked in all runs of the library, `command_link` included: a
decoder or an encoder that no call could move would be reported. The monitor's
processes do end, so its runs have `CHECK_DEADLOCK FALSE`.

## 4. The proofs

Every theorem below holds for **all** values of the constants: sets of bytes,
requests and chunks, choices of callbacks, and bounds. The assumptions are those
named in the modules: headers and payloads are bytes, callbacks are among those
`init` takes, bounds are natural numbers, and for the link, whose line has all three
callbacks, every request is `Sound` (below).

| module | theorems |
|---|---|
| `CommandDecoderProofs` | `Invariance`, `TypeCorrect`, `Meaning` (`[]LogIsMeaning`), `Deafness` (`DeafForOneFrame`) |
| `CommandReportProofs` | `ErrorEndsTheFrame` (`[]ErrorIsLast`), `Loudness` (`[]NoSilentLoss`), `Accounting` (`[]TransmitAccounting`) |
| `EventDecoderProofs` | `EventInvariance`, `EventTypeCorrect`, `EventMeaning`, `EventLoudness`, `EventDeafness` |
| `EncoderProofs` | `EncoderInvariance`, `EncoderTypeCorrect`, `Wholeness`, `Nesting`, `NeverWedged`, `OriginInvariance` |
| `CommandRoundTripProofs` | `CommandRoundTrip` (`[]DeliveredIsUnderstood`), `StreamRoundTrip` (`[]StreamIsUnderstood`) |
| `EventRoundTripProofs` | `EventRoundTrip` (`[]EventIsUnderstood`), `NoFalseReading` (`[]NeverTakenForAReading`) |
| `MonitorProofs` | `MonitorInvariance`, `MonitorTypeCorrect`, `RecordingComplete` (`[]RecordingIsComplete`), `DirectionsByThemselves` (`[]EachDirectionByItself`), `EveryChunkShown` (`[]EveryChunkIsShown`), `ReplayTheSame` (`[]ReplayShowsTheSame`) |
| `CommandLinkProofs` | `CommandsAreSound`, `LinkInvariance`, `LinkTypeCorrect` (`[]LinkTypeOK`), `LinkImplementsChannel`, `OkIsGranted` (`[]OwedIsGranted`) |

Every invariant that a passing run checks is the property of one of them.

**Command decoder.** `LogIsMeaning` is not inductive: it compares calls already
made and says nothing of the variables the next call is computed from. `Inv`
adds, for each state of the decoder, what it remembers (`Remembers`: header
nibbles and count of the frame's bytes), that `smallbuf` holds the payload so far
in `READ_FIXED`, that `byte_index` counts it in `STREAM_DATA`, and what is final
in `ABORT`. One lemma per action shows it preserved; lemmas on `FrameCalls` say
how the meaning of a frame changes when a byte or its end is added, and that
`BigEndian` of the scratch buffer is the frame's `PayloadWord`.
`CommandReportProofs` needs no further invariant: since the calls made are the
meaning of the frame, it is enough to show of `FrameCalls` that an error can only
be its last call, that it numbers the bytes of a stream from 0, and that a frame
the decoder has given up on ends in an error.

**Event decoder.** The argument is the same, with two differences the code makes.
`byte_index` is reset by the start callback of a stream alone, so `StreamInv`
says what it counts only for `Complete` callbacks, the condition of
`LogIsMeaning`; and `NoSilentLoss` holds without that condition, so it is part
of the invariant `EvInv` and not derived from the meaning.

**Encoder and round trips.** `EInv` adds to the type invariant where a call
stands (`Place`: between calls the encoder is busy exactly while a stream is
open; within one its frame is open and unspoilt) and how much of the frame is out
(`Progress`: the bytes put are the first of those asked for). `Origin` adds which
request, or which stream, the bytes asked for belong to. With both, a frame that
left whole is `FrameOf` a request, and the round trips are statements about
`FrameCalls` and `EventCalls` of such frames. They assume that the requests are
among `CommandRequests` or `EventRequests`: what the functions of the two
encoders can send, over the whole of their argument types (`int8_t` for power,
RSSI and SNR, 32 bits for frequency and bandwidth, the three values
`rnode_radio_state_t` has, payloads of any length where the function takes one).
`StreamRoundTrip` assumes nothing of the requests. That the decoder's tables and
the encoder's lengths agree, that no header's nibble is mistaken for another's,
and that `BigEndian` undoes the encoder's four shifts are its lemmas.

**Monitor.** `TypeOK` needs to know that a replay never reads past the end of
what it replays, and `RecordingIsComplete` that closing comes last; both depend
on which steps a process can have taken. `Life` says so: only the second process
replays, only the first records, nothing is recorded before it opens its file.
`Recorded` relates file and history while a session runs: the file is `Without`
of what was forwarded and what was lost. `WithoutOneMore` and its like say what
`FlattenSeq` makes of one chunk more.

`EachDirectionByItself` compares what was printed a line at a time with a function
of all the traffic. `Hears` is its inductive part: between two symbols a decoder's
`kiss` and `ctx` are those of the frame the function has heard and not yet seen
end. A step then prints what the function adds for its symbol, because the calls a
frame makes only grow with its bytes and at its end (`CommandCallsGrow`,
`EventCallsGrow`: what was printed of half a frame is never taken back), because
what is printed of a rejected frame is what its first bytes said (`ShowsMore`), and
because each line names its direction, so that lines of one do not change what
there is of the other (`OfMore`).

`EveryChunkIsShown` follows from `EachDirectionByItself` and from what a decoder
has been fed: `Takes` says that the symbols a direction has taken, followed by
those in hand, are the traffic of the chunks forwarded (or of the entries read) in
that direction. `RunReturns` and `ReadEnd` need empty hands, so there nothing is
left over.

`ReplayShowsTheSame` speaks of two processes, one of which is gone. `Plays` says
that what a process has decoded and printed is `Play` of the symbols it has been
fed: of those it forwarded, but for what it still has in hand, in the first
(`Session`); of those it has read, which begin the same sequence, in the second
(`Replay`); and `Earlier` keeps how far the first had come. `FeedIsFed` shows that
each KISS step is one step of `Play`; `PlayGrows` that more symbols print more, so
the shorter of two runs over beginnings of one sequence is a beginning of the
longer (`PlaysAlike`). That a session which returned had nothing in hand, and a
replay which returned had read all, makes them equal.

`Heard`, `Of`, `Play` and `Flat` are recursive functions. Their existence, and what
they are of one element more, are proved from the one form of induction the
provers can instantiate: every set of numbers that is not empty has a least element
(`Least`, from `WFMin` of `WellFoundedInduction`, which speaks of a set and not of
an operator). `Recursion`, `RunOneMore` and `PrefixInduct` are the rules the rest
uses.

**Link.** `LinkImplementsChannel` is the refinement step by step: `LinkInit` is
the channel's `Init`, and every step of host or device is an `Accept`, a
`CarryOut` or a stutter (`Grows`, `Carries`). The invariant composes those of the
two ends, `EInv` and the decoder's `Inv` on the `d_*` variables, and adds two parts.
`CutInv` says what the frame last begun on the line has to do with the call in
progress: it is the first so many bytes of a request's frame, or a stream's.
`LineInv` reads the line from the device's end: whatever frame the device stands
in, taking the items one by one (`Step`: start empties its frame, a byte joins
it, an end closes it and carries out the next command granted, or none) it will
have carried out all of `granted` at the last item and stand in the frame the
host is writing. One lemma per host callback shows that what it writes adds a
step to the reading, one per action of the device that what it takes is the first
step. For the device this needs that no put calls a command and that an end that
is not ignored calls what the whole frame is (`PutIsCommandless`, `EndCarriesOut`
in `CommandReportProofs`); for the host, that a frame cut short is no command.
The latter is not true of arbitrary requests (see 5), so it is an assumption on
`Requests`, `Sound`; `CommandsAreSound` proves it of everything `command-encoder.c`
can send, and TLC evaluates it on the requests of the run. The lemmas `Same...`
say that the instance of the decoder has the host's tables.

`OkIsGranted` is about what a caller is told: `CutInv` has the frame whole when
`SendEnd` is reached, for whatever the line was refused before, so a call that
returns OK adds the same command to `owed` and to `granted`, while anything else
adds to `granted` alone (`WithinMore`). With `LinkImplementsChannel` this is all of
`OkIsCarriedOut` but that it happens: the device has carried out a beginning of
`granted`, and `owed` is among `granted` in order.

**Model-checked only**: liveness (`SessionsEnd`, `OkIsCarriedOut`, the fairness of
`ImplementsChannel`). It is out of the prover's reach, as is ENABLED.

## 5. Observations that are not findings

* `put` of the command decoder returns OK for bytes it ignores while aborted;
  the event decoder returns ABORTED. A `write` therefore stops in one and runs
  on in the other.
* With no data callback the event decoder counts no bytes and reports length 0
  at the end of the stream; the command decoder counts them.
* An abort between the start and the end of a frame calls no end callback: the
  framing layer must close the frame itself.
* ROM_READ and INTERFACES share a nibble with STAT_RX and arrive as one.
* A host told ABORTED may still see its command carried out: the callback that
  asked to abort may have done its work, and a frame left open may be delimited
  by the next one. This is why the link's promise is about OK and about frames
  that are whole, and why it is one-sided.
* A frame the encoder is asked to send byte by byte or with a payload of any
  length (`encoder_send_command_and_bytes`) can, cut short, be a valid command of
  the device: lengths are checked by the decoder alone.
* A signal between the installation of the handlers and the initialisation of the
  proxy is lost if that initialisation clears the stop request.
* When the proxy cannot be initialised `main` returns without closing the
  recording; the process ends there.

## 6. Not modelled, and what is left

Every safety property the passing runs check is proved; what is left is a proof of
the three liveness properties, with a prover that has ENABLED and fairness.

Not modelled, and why:

* the inside of KISS, serial proxy and serial recording: other repositories; they
  are external here, as `main.c` relies on them;
* the scan of the command line, help, lifecycle messages and wording: no state
  depends on them beyond which options are given;
* `write_all` and the `*_mon_*` wrappers of `main.c`: nothing calls them;
* a link for events: encoder and line are those of `CommandLink`, the decoder
  differs only in its tables, which `event_encoder` checks against the encoder's;
* tests and build files.
