------------------------- MODULE CommandReportProofs -------------------------
(***************************************************************************)
(* Proofs about what a receiver of commands can conclude from the calls it *)
(* gets: that the first error is the last call, that a frame given up on   *)
(* is reported, and that a stream's calls count its bytes.                 *)
(*                                                                         *)
(* Each is a property of the log alone.  By LogIsMeaning, proved in        *)
(* CommandDecoderProofs, the log is FrameCalls of the frame, so the        *)
(* lemmas here are about that operator: whatever frame, callbacks and cut  *)
(* it is given, its value is a possible start, a run of data calls and a   *)
(* short tail.                                                             *)
(*                                                                         *)
(* The last part is for CommandLinkProofs: which put or end calls a        *)
(* command, and which command it is.                                       *)
(***************************************************************************)
EXTENDS CommandDecoderProofs, FiniteSetTheorems

\* The calls that open a stream and bring its bytes: at most one tx_start, then
\* m tx_data with the indices from 0.
Opening(h, s, m) ==
    /\ h \in Seq(Callback)
    /\ s \in Nat
    /\ m \in Nat
    /\ Len(h) = s + m
    /\ \A k \in 1 .. Len(h) :
          /\ k <= s => h[k].cb = "tx_start"
          /\ k > s  => h[k].cb = "tx_data" /\ h[k].args[3] = k - s - 1

\* The calls that close one of n bytes: a tx_end, an error, or one and the other.
Closing(t, n) ==
    /\ t \in Seq(Callback)
    /\ \A k \in 1 .. Len(t) :
          /\ t[k].cb \in {"tx_end", "error"}
          /\ t[k].cb = "tx_end" => t[k].args[2] = n
          /\ t[k].cb = "error" => k = Len(t)

\* What the calls of any frame look like: m data calls in a row, numbered from
\* 0, m in the tx_end that closes them, and no call after an error.
WellFormed(inst, l) ==
    \E s, m \in Nat :
        /\ s + m <= Len(l)
        /\ \A k \in 1 .. Len(l) :
              /\ l[k].cb = "tx_data" <=> k \in s + 1 .. s + m
              /\ l[k].cb = "tx_data" => l[k].args[3] = k - s - 1
              /\ l[k].cb = "error" => k = Len(l)
              /\ (l[k].cb = "tx_end" /\ "tx_data" \in inst) => l[k].args[2] = m

-----------------------------------------------------------------------------
(* Lemmas about single calls and about concatenation *)

\* A call adds its callback to the log, or nothing when it is NULL.
LEMMA CallLength ==
    ASSUME NEW inst, NEW name, NEW args
    PROVE  /\ Len(Call(inst, name, args)) \in {0, 1}
           /\ name \in inst <=> Len(Call(inst, name, args)) = 1
           /\ \A k \in 1 .. Len(Call(inst, name, args)) :
                 /\ k = 1
                 /\ Call(inst, name, args)[k].cb = name
                 /\ Call(inst, name, args)[k].args = args
<1> DEFINE c == [cb |-> name, args |-> args]
<1>1. c.cb = name /\ c.args = args
  OBVIOUS
<1> HIDE DEF c
<1>2. CASE name \in inst
  <2>1. Call(inst, name, args) = << c >>
    BY <1>2 DEF Call, c
  <2> QED
    BY <1>1, <1>2, <2>1
<1>3. CASE name \notin inst
  <2>1. Call(inst, name, args) = << >>
    BY <1>3 DEF Call
  <2> QED
    BY <1>3, <2>1
<1> QED
  BY <1>2, <1>3

\* The calls of a concatenation are those of its parts, in order.
LEMMA Concatenated ==
    ASSUME NEW s \in Seq(Callback), NEW t \in Seq(Callback)
    PROVE  /\ s \o t \in Seq(Callback)
           /\ Len(s) \in Nat /\ Len(t) \in Nat
           /\ Len(s \o t) = Len(s) + Len(t)
           /\ \A k \in 1 .. Len(s) + Len(t) :
                 (s \o t)[k] = IF k <= Len(s) THEN s[k] ELSE t[k - Len(s)]
<1> HIDE DEF Callback
<1> QED
  BY ConcatProperties, LenProperties

\* A log of at most one call, not to a stream's callbacks, is well formed.
LEMMA SingleWellFormed ==
    ASSUME NEW inst, NEW name, NEW args,
           name \notin {"tx_data", "tx_end"}
    PROVE  WellFormed(inst, Call(inst, name, args))
<1> DEFINE l == Call(inst, name, args)
<1>1. /\ Len(l) \in {0, 1}
      /\ \A k \in 1 .. Len(l) : k = 1 /\ l[k].cb = name
  BY CallLength
<1> HIDE DEF l
<1>2. /\ 0 \in Nat /\ 0 + 0 <= Len(l)
      /\ \A k \in 1 .. Len(l) :
            /\ l[k].cb = "tx_data" <=> k \in 0 + 1 .. 0 + 0
            /\ l[k].cb = "tx_data" => l[k].args[3] = k - 0 - 1
            /\ l[k].cb = "error" => k = Len(l)
            /\ (l[k].cb = "tx_end" /\ "tx_data" \in inst) => l[k].args[2] = 0
  BY <1>1
<1> QED
  BY <1>2 DEF WellFormed, l

\* An opening and a closing that agree on the number of bytes are well formed.
LEMMA StreamWellFormed ==
    ASSUME NEW inst, NEW h, NEW s, NEW m, Opening(h, s, m), NEW t, NEW n, Closing(t, n),
           "tx_data" \in inst => m = n
    PROVE  WellFormed(inst, h \o t)
<1> DEFINE l == h \o t
<1>1. /\ h \in Seq(Callback) /\ t \in Seq(Callback) /\ s \in Nat /\ m \in Nat
      /\ Len(h) = s + m
  BY DEF Opening, Closing
<1>2. /\ Len(t) \in Nat /\ Len(l) = s + m + Len(t)
      /\ \A k \in 1 .. s + m + Len(t) :
            l[k] = IF k <= s + m THEN h[k] ELSE t[k - (s + m)]
  <2>1. /\ Len(t) \in Nat /\ Len(l) = Len(h) + Len(t)
        /\ \A k \in 1 .. Len(h) + Len(t) :
              l[k] = IF k <= Len(h) THEN h[k] ELSE t[k - Len(h)]
    BY <1>1, Concatenated
  <2> HIDE DEF l
  <2> QED
    BY <1>1, <2>1
<1> HIDE DEF l
<1>3. ASSUME NEW k \in 1 .. Len(l)
      PROVE  /\ l[k].cb = "tx_data" <=> k \in s + 1 .. s + m
             /\ l[k].cb = "tx_data" => l[k].args[3] = k - s - 1
             /\ l[k].cb = "error" => k = Len(l)
             /\ (l[k].cb = "tx_end" /\ "tx_data" \in inst) => l[k].args[2] = m
  <2>1. CASE k <= s + m
    <3>1. l[k] = h[k] /\ k \in 1 .. Len(h)
      BY <1>1, <1>2, <1>3, <2>1
    <3>2. /\ k <= s => l[k].cb = "tx_start"
          /\ k > s  => l[k].cb = "tx_data" /\ l[k].args[3] = k - s - 1
      BY <3>1 DEF Opening
    <3> QED
      BY <1>1, <2>1, <3>2
  <2>2. CASE k > s + m
    <3> DEFINE j == k - (s + m)
    <3>1. j \in 1 .. Len(t) /\ l[k] = t[j] /\ (j = Len(t) => k = Len(l))
      BY <1>1, <1>2, <1>3, <2>2
    <3> HIDE DEF j
    <3>2. /\ l[k].cb \in {"tx_end", "error"}
          /\ l[k].cb = "tx_end" => l[k].args[2] = n
          /\ l[k].cb = "error" => k = Len(l)
      BY <3>1 DEF Closing
    <3> QED
      BY <1>1, <2>2, <3>2
  <2> QED
    BY <1>1, <2>1, <2>2
<1>4. s + m <= Len(l)
  BY <1>1, <1>2
<1> QED
  BY <1>1, <1>3, <1>4 DEF WellFormed, l

-----------------------------------------------------------------------------
(* Lemmas about the calls of a frame *)

\* The start of a stream and its first m bytes are an opening.
LEMMA StreamOpening ==
    ASSUME NEW inst \in SUBSET CallbackNames, NEW f \in Seq(Byte), f # << >>,
           NEW m \in Nat, m < Len(f)
    PROVE  \E s \in Nat :
              Opening(StreamHead(inst, f, m), s, IF "tx_data" \in inst THEN m ELSE 0)
<1> DEFINE start == Call(inst, "tx_start", <<InterfaceOf(f[1])>>)
           bytes == StreamBytes(inst, f, m)
           s == Len(start)
           d == IF "tx_data" \in inst THEN m ELSE 0
           h == StreamHead(inst, f, m)
<1>1. start \in Seq(Callback) /\ bytes \in Seq(Callback)
  BY StreamType
<1>2. s \in {0, 1} /\ \A k \in 1 .. s : start[k].cb = "tx_start"
  BY CallLength
<1>3. /\ Len(bytes) = d /\ d \in Nat
      /\ \A k \in 1 .. d : bytes[k].cb = "tx_data" /\ bytes[k].args[3] = k - 1
  <2>1. CASE "tx_data" \in inst
    <3>1. bytes = [k \in 1 .. m |-> [cb |-> "tx_data",
                            args |-> <<InterfaceOf(f[1]), f[k + 1], k - 1>>]]
      BY <2>1 DEF StreamBytes
    <3>2. \A k \in 1 .. m : bytes[k].cb = "tx_data"
      BY <3>1
    <3>3. ASSUME NEW k \in 1 .. m
          PROVE  bytes[k].args[3] = k - 1
      <4>1. bytes[k].args = <<InterfaceOf(f[1]), f[k + 1], k - 1>>
        BY <3>1
      <4> HIDE DEF bytes
      <4> QED
        BY <4>1
    <3>4. Len(bytes) = m
      BY <1>1, <3>1
    <3> QED
      BY <2>1, <3>2, <3>3, <3>4
  <2>2. CASE "tx_data" \notin inst
    BY <2>2 DEF StreamBytes
  <2> QED
    BY <2>1, <2>2
<1>4. h = start \o bytes
  BY DEF StreamHead
<1> HIDE DEF start, bytes, h, d
<1>5. /\ h \in Seq(Callback) /\ Len(h) = s + d
      /\ \A k \in 1 .. s + d : h[k] = IF k <= s THEN start[k] ELSE bytes[k - s]
  BY <1>1, <1>3, <1>4, Concatenated
<1> HIDE DEF s
<1>6. ASSUME NEW k \in 1 .. Len(h)
      PROVE  /\ k <= s => h[k].cb = "tx_start"
             /\ k > s  => h[k].cb = "tx_data" /\ h[k].args[3] = k - s - 1
  <2>1. CASE k <= s
    BY <1>2, <1>3, <1>5, <2>1
  <2>2. CASE k > s
    <3>1. k - s \in 1 .. d /\ h[k] = bytes[k - s]
      BY <1>2, <1>3, <1>5, <2>2
    <3> QED
      BY <1>2, <1>3, <2>2, <3>1
  <2> QED
    BY <1>2, <2>1, <2>2
<1>7. Opening(h, s, d) /\ s \in Nat
  BY <1>2, <1>3, <1>5, <1>6 DEF Opening
<1> QED
  BY <1>7 DEF h, d

\* tx_end with n, an error, and one followed by the other close n bytes.
LEMMA StreamClosing ==
    ASSUME NEW inst \in SUBSET CallbackNames, NEW i \in Int, NEW o \in Int, NEW n \in Int,
           NEW k \in Int, NEW st \in Int
    PROVE  LET close == Call(inst, "tx_end", <<i, n>>)
               error == Call(inst, "error", <<i, o, k, st>>)
           IN  /\ close \in Seq(Callback) /\ error \in Seq(Callback)
               /\ Closing(<< >>, n)
               /\ Closing(close, n)
               /\ Closing(error, n)
               /\ Closing(close \o error, n)
<1> DEFINE close == Call(inst, "tx_end", <<i, n>>)
           error == Call(inst, "error", <<i, o, k, st>>)
<1>1. close \in Seq(Callback) /\ error \in Seq(Callback)
  <2>1. <<i, n>> \in Seq(Int)
    OBVIOUS
  <2> QED
    BY <2>1, CallType, ErrorType DEF CallbackNames
<1>2. /\ Len(close) \in {0, 1}
      /\ \A j \in 1 .. Len(close) : j = 1 /\ close[j].cb = "tx_end" /\ close[j].args[2] = n
  <2>1. <<i, n>>[2] = n
    OBVIOUS
  <2> QED
    BY <2>1, CallLength
<1>3. /\ Len(error) \in {0, 1}
      /\ \A j \in 1 .. Len(error) : j = 1 /\ error[j].cb = "error"
  BY CallLength
<1>4. Closing(<< >>, n)
  <2>1. << >> \in Seq(Callback)
    OBVIOUS
  <2> QED
    BY <2>1 DEF Closing
<1> HIDE DEF close, error
<1>5. Closing(close, n)
  BY <1>1, <1>2 DEF Closing
<1>6. Closing(error, n)
  BY <1>1, <1>3 DEF Closing
<1>7. Closing(close \o error, n)
  <2> DEFINE t == close \o error
  <2>1. /\ t \in Seq(Callback) /\ Len(t) = Len(close) + Len(error)
        /\ \A j \in 1 .. Len(close) + Len(error) :
              t[j] = IF j <= Len(close) THEN close[j] ELSE error[j - Len(close)]
    BY <1>1, Concatenated
  <2> HIDE DEF t
  <2>2. ASSUME NEW j \in 1 .. Len(t)
        PROVE  /\ t[j].cb \in {"tx_end", "error"}
               /\ t[j].cb = "tx_end" => t[j].args[2] = n
               /\ t[j].cb = "error" => j = Len(t)
    <3>1. CASE j <= Len(close)
      <4>1. j \in 1 .. Len(close) /\ t[j] = close[j]
        BY <1>2, <1>3, <2>1, <3>1
      <4> QED
        BY <1>2, <4>1
    <3>2. CASE j > Len(close)
      <4>1. j - Len(close) \in 1 .. Len(error) /\ t[j] = error[j - Len(close)]
        BY <1>2, <1>3, <2>1, <3>2
      <4>2. t[j].cb = "error" /\ j - Len(close) = 1 /\ Len(error) = 1
        BY <1>3, <4>1
      <4>3. j = Len(t)
        BY <1>2, <2>1, <4>2
      <4> QED
        BY <4>2, <4>3
    <3> QED
      BY <1>2, <3>1, <3>2
  <2> QED
    BY <2>1, <2>2 DEF Closing, t
<1> QED
  BY <1>1, <1>4, <1>5, <1>6, <1>7 DEF close, error

\* The calls of every frame are well formed, wherever it stands.
LEMMA FrameWellFormed ==
    ASSUME NEW inst \in SUBSET CallbackNames, NEW f \in Seq(Byte), NEW e \in BOOLEAN,
           NEW c \in Nat
    PROVE  WellFormed(inst, FrameCalls(inst, f, e, c))
<1> DEFINE i == InterfaceOf(f[1])
           o == OpcodeOf(f[1])
           n == Len(f) - 1
           close == Call(inst, "tx_end", <<i, n>>)
<1>0. WellFormed(inst, << >>)
  <2>1. /\ 0 \in Nat /\ 0 + 0 <= Len(<< >>)
        /\ \A k \in 1 .. Len(<< >>) : FALSE
    OBVIOUS
  <2> QED
    BY <2>1 DEF WellFormed
<1>1. CASE f = << >>
  BY <1>0, <1>1 DEF FrameCalls
<1>2. CASE f # << >> /\ OpcodeLength(o) = -2
  <2>1. FrameCalls(inst, f, e, c)
          = Call(inst, "error", <<i, o, 0, UNKNOWN_OPCODE>>)
    BY <1>2 DEF FrameCalls
  <2> QED
    BY <2>1, SingleWellFormed
<1>3. CASE f # << >> /\ OpcodeLength(o) \notin {-1, -2}
  <2>1. FrameCalls(inst, f, e, c) = FixedCalls(inst, f, e)
    BY <1>3 DEF FrameCalls
  <2>2. \/ FixedCalls(inst, f, e) = << >>
        \/ \E args : FixedCalls(inst, f, e) = Call(inst, "error", args)
        \/ \E args : FixedCalls(inst, f, e) = Call(inst, CommandName(o), args)
    BY DEF FixedCalls
  <2>3. CommandName(o) \notin {"tx_data", "tx_end"}
    BY DEF CommandName
  <2> QED
    BY <1>0, <2>1, <2>2, <2>3, SingleWellFormed
<1>4. CASE f # << >> /\ OpcodeLength(o) = -1
  <2>1. Len(f) \in Nat \ {0} /\ n \in Nat /\ n < Len(f) /\ i \in Int
    BY <1>4, HeaderNibbles
  <2>2. FrameCalls(inst, f, e, c) = StreamCalls(inst, f, e, c)
    BY <1>4 DEF FrameCalls
  <2>t. DATA \in Int /\ ABORTED \in Int
    BY DEF DATA, ABORTED
  <2>3. CASE c \in 1 .. Len(f)
    <3> DEFINE error == Call(inst, "error", <<i, DATA, c - 2, ABORTED>>)
               m == c - 1
    <3>1. StreamCalls(inst, f, e, c) = StreamHead(inst, f, m) \o error
      BY <2>3 DEF StreamCalls
    <3>2. m \in Nat /\ m < Len(f) /\ c - 2 \in Int
      BY <2>1, <2>3
    <3> HIDE DEF m
    <3>3. PICK s \in Nat :
            Opening(StreamHead(inst, f, m), s, IF "tx_data" \in inst THEN m ELSE 0)
      BY <1>4, <3>2, StreamOpening
    <3>4. m \in Int
      BY <3>2
    <3>5. Closing(error, m)
      BY <2>1, <2>t, <3>2, <3>4, StreamClosing
    <3> HIDE DEF error
    <3> QED
      BY <2>2, <3>1, <3>3, <3>5, StreamWellFormed
  <2>4. CASE c \notin 1 .. Len(f)
    <3> DEFINE error == Call(inst, "error", <<i, DATA, n, ABORTED>>)
               h == StreamHead(inst, f, n)
    <3>1. PICK s \in Nat : Opening(h, s, IF "tx_data" \in inst THEN n ELSE 0)
      BY <1>4, <2>1, StreamOpening
    <3>2. n \in Int
      BY <2>1
    <3>3. /\ close \in Seq(Callback) /\ error \in Seq(Callback)
          /\ Closing(<< >>, n) /\ Closing(close, n) /\ Closing(close \o error, n)
      BY <2>1, <2>t, <3>2, StreamClosing
    <3>4. h \in Seq(Callback)
      BY <3>1 DEF Opening
    <3>5. \/ StreamCalls(inst, f, e, c) = h
          \/ StreamCalls(inst, f, e, c) = h \o close
          \/ StreamCalls(inst, f, e, c) = (h \o close) \o error
      BY <2>4 DEF StreamCalls
    <3> HIDE DEF error, h, close, n
    <3>6. h = h \o << >>
      <4> HIDE DEF Callback
      <4> QED BY <3>4, ConcatEmptySeq
    <3>7. (h \o close) \o error = h \o (close \o error)
      BY <3>3, <3>4, Regroup
    <3>8. WellFormed(inst, h \o << >>) /\ WellFormed(inst, h \o close)
          /\ WellFormed(inst, h \o (close \o error))
      BY <3>1, <3>3, StreamWellFormed
    <3> QED
      BY <2>2, <3>5, <3>6, <3>7, <3>8
  <2> QED
    BY <2>3, <2>4
<1> QED
  BY <1>1, <1>2, <1>3, <1>4

\* A sequence of calls that error_cb was added to ends in it.
LEMMA LastIsError ==
    ASSUME NEW s \in Seq(Callback), NEW e \in Seq(Callback),
           Len(e) = 1, e[1].cb = "error"
    PROVE  s \o e # << >> /\ (s \o e)[Len(s \o e)].cb = "error"
<1> DEFINE t == s \o e
           n == Len(s)
<1>1. /\ t \in Seq(Callback) /\ Len(t) = n + 1 /\ n \in Nat
      /\ \A j \in 1 .. n + 1 : t[j] = IF j <= n THEN s[j] ELSE e[j - n]
  <2>1. /\ t \in Seq(Callback) /\ Len(t) = n + Len(e) /\ n \in Nat
        /\ \A j \in 1 .. n + Len(e) : t[j] = IF j <= n THEN s[j] ELSE e[j - n]
    BY Concatenated
  <2> HIDE DEF t, n
  <2> QED
    BY <2>1
<1> HIDE DEF t, n
<1>2. n + 1 \in 1 .. n + 1 /\ ~ (n + 1 <= n) /\ (n + 1) - n = 1
  BY <1>1
<1>3. t[n + 1] = e[1]
  BY <1>1, <1>2
<1>4. t # << >>
  BY <1>1
<1> QED
  BY <1>1, <1>3, <1>4 DEF t

\* The calls of a decided frame, and of one whose tx_end was refused, end in an error.
LEMMA DecidedIsLoud ==
    ASSUME NEW inst \in SUBSET CallbackNames, "error" \in inst,
           NEW f \in Seq(Byte), f # << >>, NEW e \in BOOLEAN, NEW c \in Nat,
           \/ Decided(f, c)
           \/ OpcodeLength(OpcodeOf(f[1])) = -1 /\ c = Len(f) + 1
    PROVE  \E s, t \in Seq(Callback) :
              /\ FrameCalls(inst, f, e, c) = s \o t
              /\ Len(t) = 1
              /\ t[1].cb = "error"
<1> DEFINE i == InterfaceOf(f[1])
           o == OpcodeOf(f[1])
           error(p, k, st) == Call(inst, "error", <<i, p, k, st>>)
<1>0. /\ Len(f) \in Nat \ {0} /\ i \in Int /\ o \in Int /\ << >> \in Seq(Callback)
      /\ DATA \in Int /\ ABORTED \in Int /\ UNKNOWN_OPCODE \in Int /\ INVALID_LENGTH \in Int
  BY HeaderNibbles DEF DATA, ABORTED, UNKNOWN_OPCODE, INVALID_LENGTH
<1>e. ASSUME NEW p \in Int, NEW k \in Int, NEW st \in Int
      PROVE  /\ error(p, k, st) \in Seq(Callback)
             /\ Len(error(p, k, st)) = 1
             /\ error(p, k, st)[1].cb = "error"
             /\ << >> \o error(p, k, st) = error(p, k, st)
  <2>1. error(p, k, st) \in Seq(Callback)
    BY <1>0, ErrorType
  <2>2. Len(error(p, k, st)) = 1 /\ error(p, k, st)[1].cb = "error"
    BY CallLength
  <2> HIDE DEF Callback, error
  <2>3. << >> \o error(p, k, st) = error(p, k, st)
    BY <2>1, ConcatEmptySeq
  <2> QED
    BY <2>1, <2>2, <2>3
<1>1. CASE OpcodeLength(o) = -2
  <2>1. FrameCalls(inst, f, e, c) = error(o, 0, UNKNOWN_OPCODE)
    BY <1>1 DEF FrameCalls
  <2>2. o \in Int /\ 0 \in Int /\ UNKNOWN_OPCODE \in Int
    BY <1>0
  <2> DEFINE t == error(o, 0, UNKNOWN_OPCODE)
  <2>3. t \in Seq(Callback) /\ Len(t) = 1 /\ t[1].cb = "error" /\ << >> \o t = t
    BY <1>e, <2>2, ZenonT(60)
  <2> HIDE DEF t
  <2> QED
    BY <1>0, <2>1, <2>3 DEF t
<1>2. CASE OpcodeLength(o) \notin {-1, -2} /\ Len(f) > 5
  <2>1. FrameCalls(inst, f, e, c) = error(o, 4, INVALID_LENGTH)
    <3>1. FrameCalls(inst, f, e, c) = FixedCalls(inst, f, e) /\ Len(f) - 1 > 4
      BY <1>0, <1>2 DEF FrameCalls
    <3> QED
      BY <3>1 DEF FixedCalls
  <2>2. 4 \in Int
    OBVIOUS
  <2> DEFINE t == error(o, 4, INVALID_LENGTH)
  <2>3. t \in Seq(Callback) /\ Len(t) = 1 /\ t[1].cb = "error" /\ << >> \o t = t
    BY <1>0, <1>e, <2>2
  <2> HIDE DEF t
  <2> QED
    BY <1>0, <2>1, <2>3 DEF t
<1>3. CASE OpcodeLength(o) = -1 /\ c \in 1 .. Len(f)
  <2> DEFINE h == StreamHead(inst, f, c - 1)
  <2>1. FrameCalls(inst, f, e, c) = h \o error(DATA, c - 2, ABORTED)
    BY <1>3 DEF FrameCalls, StreamCalls
  <2>2. c - 1 \in Nat /\ c - 1 < Len(f) /\ c - 2 \in Int
    BY <1>0, <1>3
  <2>3. h \in Seq(Callback)
    BY <2>2, StreamType
  <2> DEFINE t == error(DATA, c - 2, ABORTED)
  <2>4. t \in Seq(Callback) /\ Len(t) = 1 /\ t[1].cb = "error"
    BY <1>0, <1>e, <2>2, ZenonT(60)
  <2> HIDE DEF t, h
  <2> QED
    BY <2>1, <2>3, <2>4 DEF t
<1>4. CASE OpcodeLength(o) = -1 /\ c = Len(f) + 1
  <2> DEFINE n == Len(f) - 1
             h == StreamHead(inst, f, n)
             close == Call(inst, "tx_end", <<i, n>>)
  <2>1. c \notin 1 .. Len(f) /\ c # 0 /\ n \in Nat /\ n < Len(f) /\ n \in Int
    BY <1>0, <1>4
  <2>2. FrameCalls(inst, f, e, c) = (h \o close) \o error(DATA, n, ABORTED)
    BY <1>4, <2>1 DEF FrameCalls, StreamCalls
  <2>3. h \in Seq(Callback) /\ close \in Seq(Callback)
    BY <1>0, <2>1, StreamType, StreamClosing
  <2> DEFINE t == error(DATA, n, ABORTED)
  <2>4. t \in Seq(Callback) /\ Len(t) = 1 /\ t[1].cb = "error"
    BY <1>0, <1>e, <2>1
  <2> HIDE DEF t, h, close
  <2>5. h \o close \in Seq(Callback)
    BY <2>3, Concatenated
  <2> QED
    BY <2>2, <2>4, <2>5 DEF t
<1> QED
  BY <1>1, <1>2, <1>3, <1>4 DEF Decided

-----------------------------------------------------------------------------
(* Theorems *)

\* What the invariant says of the log.
LEMMA LogWellFormed == Inv => WellFormed(installed, log)
<1> SUFFICES ASSUME Inv PROVE WellFormed(installed, log)
  OBVIOUS
<1>1. /\ installed \in SUBSET CallbackNames /\ frame \in Seq(Byte) /\ ended \in BOOLEAN
      /\ cut \in Nat
  BY DEF Inv, TypeOK
<1>2. CASE muted
  <2>1. log = FrameCalls(installed, << >>, ended, cut)
    BY <1>2 DEF Inv, LogIsMeaning, FrameCalls
  <2>2. << >> \in Seq(Byte)
    OBVIOUS
  <2> QED
    BY <1>1, <2>1, <2>2, FrameWellFormed
<1>3. CASE ~muted
  BY <1>1, <1>3, FrameWellFormed DEF Inv, LogIsMeaning
<1> QED
  BY <1>2, <1>3

\* A receiver that is told of an error hears no more of that frame, whatever
\* bytes follow before the boundary, and is told once.
THEOREM ErrorEndsTheFrame == Spec => []ErrorIsLast
<1>1. Inv => ErrorIsLast
  BY LogWellFormed DEF WellFormed, ErrorIsLast
<1> QED
  BY <1>1, Invariance, PTL

\* The decoder discards bytes only after it has called error_cb for the frame
\* they belong to, or for the refused tx_end before it.
THEOREM Loudness == Spec => []NoSilentLoss
<1>1. Inv => NoSilentLoss
  <2> SUFFICES ASSUME Inv, state = "ABORT", ~muted, "error" \in installed
               PROVE  log # << >> /\ log[Len(log)].cb = "error"
    BY DEF NoSilentLoss
  <2>1. /\ installed \in SUBSET CallbackNames /\ frame \in Seq(Byte) /\ ended \in BOOLEAN
        /\ cut \in Nat
    BY DEF Inv, TypeOK
  <2>2. log = FrameCalls(installed, frame, ended, cut)
    BY DEF Inv, LogIsMeaning
  <2>3. /\ frame # << >>
        /\ \/ Decided(frame, cut)
           \/ OpcodeLength(OpcodeOf(frame[1])) = -1 /\ cut = Len(frame) + 1
    BY DEF Inv, AbortInv, Decided
  <2>4. PICK s, t \in Seq(Callback) :
          /\ FrameCalls(installed, frame, ended, cut) = s \o t
          /\ Len(t) = 1
          /\ t[1].cb = "error"
    BY <2>1, <2>3, DecidedIsLoud
  <2>5. s \o t # << >> /\ (s \o t)[Len(s \o t)].cb = "error"
    BY <2>4, LastIsError
  <2> QED
    BY <2>2, <2>4, <2>5
<1> QED
  BY <1>1, Invariance, PTL

\* The length a transmitter is given by tx_end is the number of bytes it was
\* given, each once and in order, whatever happened in the frames before.
THEOREM Accounting == Spec => []TransmitAccounting
<1>1. Inv => TransmitAccounting
  <2> SUFFICES ASSUME Inv, "tx_data" \in installed
               PROVE  /\ \A k, l \in Is("tx_data") :
                            k < l => log[k].args[3] < log[l].args[3]
                      /\ \A k \in Is("tx_data") :
                            log[k].args[3] < Cardinality(Is("tx_data"))
                      /\ \A k \in Is("tx_end") :
                            log[k].args[2] = Cardinality(Is("tx_data"))
    BY DEF TransmitAccounting
  <2>0. Len(log) \in Nat
    BY DEF Inv, TypeOK
  <2>1. PICK s, m \in Nat :
          /\ s + m <= Len(log)
          /\ \A k \in 1 .. Len(log) :
                /\ log[k].cb = "tx_data" <=> k \in s + 1 .. s + m
                /\ log[k].cb = "tx_data" => log[k].args[3] = k - s - 1
                /\ (log[k].cb = "tx_end" /\ "tx_data" \in installed)
                      => log[k].args[2] = m
    BY LogWellFormed, ZenonT(60) DEF WellFormed
  <2>2. Is("tx_data") = s + 1 .. s + m
    <3>1. \A k \in s + 1 .. s + m : k \in 1 .. Len(log)
      BY <2>0, <2>1
    <3> QED
      BY <2>1, <3>1 DEF Is
  <2>3. Cardinality(Is("tx_data")) = m
    <3>1. s + 1 \in Int /\ s + m \in Int
      OBVIOUS
    <3>2. Cardinality(s + 1 .. s + m)
            = IF s + 1 > s + m THEN 0 ELSE (s + m) - (s + 1) + 1
      BY <3>1, FS_Interval
    <3> QED
      BY <2>2, <3>2
  <2>4. \A k \in Is("tx_data") : k \in s + 1 .. s + m /\ log[k].args[3] = k - s - 1
    BY <2>1, <2>2 DEF Is
  <2>5. \A k \in Is("tx_end") : log[k].args[2] = m
    BY <2>1 DEF Is
  <2> QED
    BY <2>3, <2>4, <2>5
<1> QED
  BY <1>1, Invariance, PTL

-----------------------------------------------------------------------------
(* The commands among the calls of a whole frame *)

\* Calls none of which is a command.
Commandless(calls) ==
    /\ calls \in Seq(Callback)
    /\ \A k \in 1 .. Len(calls) : calls[k].cb \notin CommandNames

\* There is no command among such calls,
LEMMA NoneAmong ==
    ASSUME NEW calls, Commandless(calls)
    PROVE  CommandsAmong(calls) = << >>
<1>1. DOMAIN calls = 1 .. Len(calls) /\ Len(calls) \in Nat
  <2> HIDE DEF Callback
  <2> QED BY LenProperties DEF Commandless
<1>2. \A k \in {1, 2} : ~ (k \in DOMAIN calls /\ calls[k].cb \in CommandNames)
  BY <1>1 DEF Commandless
<1> QED
  BY <1>2 DEF CommandsAmong

\* and at most one among at most one call.
LEMMA OneAmong ==
    ASSUME NEW calls \in Seq(Callback), Len(calls) <= 1
    PROVE  \/ CommandsAmong(calls) = << >>
           \/ Len(calls) = 1 /\ CommandsAmong(calls) = << calls[1] >> /\ calls[1] \in Callback
<1>1. DOMAIN calls = 1 .. Len(calls) /\ Len(calls) \in Nat
  <2> HIDE DEF Callback
  <2> QED BY LenProperties
<1>2. 2 \notin DOMAIN calls
  BY <1>1
<1>3. CASE 1 \in DOMAIN calls /\ calls[1].cb \in CommandNames
  <2>1. Len(calls) = 1
    BY <1>1, <1>3
  <2>2. CommandsAmong(calls) = << calls[1] >> \o << >>
    BY <1>2, <1>3 DEF CommandsAmong
  <2>3. calls[1] \in Callback
    <3> HIDE DEF Callback
    <3> QED BY <1>1, <1>3, ElementOfSeq
  <2> HIDE DEF Callback
  <2>4. << calls[1] >> \in Seq(Callback)
    BY <2>3
  <2>5. << calls[1] >> \o << >> = << calls[1] >>
    BY <2>4, ConcatEmptySeq
  <2> QED
    BY <2>1, <2>2, <2>3, <2>5
<1>4. CASE ~ (1 \in DOMAIN calls /\ calls[1].cb \in CommandNames)
  BY <1>2, <1>4 DEF CommandsAmong
<1> QED
  BY <1>3, <1>4

\* Calls that are not commands, one after the other, are commandless too.
LEMMA CommandlessTogether ==
    ASSUME NEW s, NEW t, Commandless(s), Commandless(t)
    PROVE  Commandless(s \o t)
<1>1. s \in Seq(Callback) /\ t \in Seq(Callback)
  BY DEF Commandless
<1>2. /\ s \o t \in Seq(Callback) /\ Len(s) \in Nat /\ Len(t) \in Nat
      /\ Len(s \o t) = Len(s) + Len(t)
      /\ \A k \in 1 .. Len(s) + Len(t) :
            (s \o t)[k] = IF k <= Len(s) THEN s[k] ELSE t[k - Len(s)]
  BY <1>1, Concatenated
<1> DEFINE u == s \o t
<1> HIDE DEF u
<1>3. ASSUME NEW k \in 1 .. Len(s) + Len(t)
      PROVE  u[k].cb \notin CommandNames
  <2>1. CASE k <= Len(s)
    <3>1. u[k] = s[k] /\ k \in 1 .. Len(s)
      BY <1>2, <2>1 DEF u
    <3> QED
      BY <3>1 DEF Commandless
  <2>2. CASE ~ (k <= Len(s))
    <3> DEFINE j == k - Len(s)
    <3>1. u[k] = t[j] /\ j \in 1 .. Len(t)
      BY <1>2, <2>2 DEF u
    <3> HIDE DEF j
    <3> QED
      BY <3>1 DEF Commandless
  <2> QED
    BY <2>1, <2>2
<1> QED
  BY <1>2, <1>3 DEF Commandless, u

\* A call to a stream's callbacks or to error_cb, and no call, are commandless.
LEMMA CommandlessCall ==
    ASSUME NEW inst \in SUBSET CallbackNames,
           NEW name \in {"tx_start", "tx_data", "tx_end", "error"}, NEW args \in Seq(Int)
    PROVE  Commandless(Call(inst, name, args)) /\ Commandless(<< >>)
<1>1. name \in CallbackNames /\ name \notin CommandNames
  BY DEF CallbackNames, CommandNames
<1>2. Call(inst, name, args) \in Seq(Callback)
  BY <1>1, CallType
<1>3. \A k \in 1 .. Len(Call(inst, name, args)) : Call(inst, name, args)[k].cb = name
  BY CallLength
<1>4. << >> \in Seq(Callback)
  OBVIOUS
<1> QED
  BY <1>1, <1>2, <1>3, <1>4 DEF Commandless

\* The calls of a stream's bytes, and those that close it, are commandless.
LEMMA OpeningCommandless ==
    ASSUME NEW h, NEW s, NEW m, Opening(h, s, m)
    PROVE  Commandless(h)
<1>1. ASSUME NEW k \in 1 .. Len(h)
      PROVE  h[k].cb \in {"tx_start", "tx_data"}
  <2>1. k <= s \/ k > s
    BY DEF Opening
  <2> QED
    BY <2>1 DEF Opening
<1>2. h \in Seq(Callback) /\ "tx_start" \notin CommandNames /\ "tx_data" \notin CommandNames
  BY DEF Opening, CommandNames
<1> QED
  BY <1>1, <1>2 DEF Commandless

\* A whole frame is a command only when its length is that of a command: an
\* empty frame is none, nor is one that was given up on before its end, nor a
\* stream.
LEMMA NoCommandIn ==
    ASSUME NEW f \in Seq(Byte), NEW c \in Nat,
           \/ f = << >>
           \/ Decided(f, c)
           \/ OpcodeLength(OpcodeOf(f[1])) = -1
    PROVE  CommandsOf(f) = << >>
<1> DEFINE i == InterfaceOf(f[1])
           o == OpcodeOf(f[1])
           n == Len(f) - 1
           calls == FrameCalls(CallbackNames, f, TRUE, 0)
<1>0. UNKNOWN_OPCODE \in Int /\ INVALID_LENGTH \in Int /\ CallbackNames \in SUBSET CallbackNames
  BY DEF UNKNOWN_OPCODE, INVALID_LENGTH
<1>1. CASE f = << >>
  <2>1. calls = << >>
    BY <1>1 DEF FrameCalls
  <2>2. << >> \in Seq(Int)
    OBVIOUS
  <2>3. Commandless(<< >>)
    BY <1>0, <2>2, CommandlessCall
  <2> QED
    BY <2>1, <2>3, NoneAmong DEF CommandsOf
<1>2. CASE f # << >> /\ OpcodeLength(o) = -2
  <2>1. calls = Call(CallbackNames, "error", <<i, o, 0, UNKNOWN_OPCODE>>)
    BY <1>2 DEF FrameCalls
  <2>2. i \in Int /\ o \in Int
    <3>1. f[1] \in Byte
      BY <1>2
    <3> QED
      BY <3>1, HeaderNibbles
  <2>3. <<i, o, 0, UNKNOWN_OPCODE>> \in Seq(Int)
    BY <1>0, <2>2
  <2>4. Commandless(calls)
    BY <1>0, <2>1, <2>3, CommandlessCall
  <2> QED
    BY <2>4, NoneAmong DEF CommandsOf
<1>3. CASE f # << >> /\ OpcodeLength(o) \notin {-1, -2} /\ Len(f) > 5
  <2>1. calls = Call(CallbackNames, "error", <<i, o, 4, INVALID_LENGTH>>)
    <3>1. calls = FixedCalls(CallbackNames, f, TRUE)
      BY <1>3 DEF FrameCalls
    <3>2. Len(f) \in Nat /\ Len(f) - 1 > 4
      BY <1>3
    <3>3. FixedCalls(CallbackNames, f, TRUE)
            = Call(CallbackNames, "error", <<i, o, 4, INVALID_LENGTH>>)
      BY <3>2 DEF FixedCalls
    <3> QED
      BY ONLY <3>1, <3>3
  <2>2. i \in Int /\ o \in Int
    <3>1. f[1] \in Byte
      BY <1>3
    <3> QED
      BY <3>1, HeaderNibbles
  <2>3. <<i, o, 4, INVALID_LENGTH>> \in Seq(Int)
    BY <1>0, <2>2
  <2>4. Commandless(calls)
    BY <1>0, <2>1, <2>3, CommandlessCall
  <2> QED
    BY <2>4, NoneAmong DEF CommandsOf
<1>4. CASE f # << >> /\ OpcodeLength(o) = -1
  <2> DEFINE h == StreamHead(CallbackNames, f, n)
             t == Call(CallbackNames, "tx_end", <<i, n>>)
  <2>1. n \in Nat /\ n < Len(f)
    BY <1>4
  <2>2. calls = h \o t
    <3>1. calls = StreamCalls(CallbackNames, f, TRUE, 0)
      BY <1>4 DEF FrameCalls
    <3>2. StreamCalls(CallbackNames, f, TRUE, 0) = h \o t
      BY DEF StreamCalls
    <3> QED
      BY ONLY <3>1, <3>2
  <2>3. \E s \in Nat : Opening(h, s, IF "tx_data" \in CallbackNames THEN n ELSE 0)
    BY <1>0, <1>4, <2>1, StreamOpening
  <2>4. Commandless(h)
    <3> HIDE DEF h
    <3> QED BY <2>3, OpeningCommandless
  <2>5. Commandless(t)
    <3>1. i \in Int
      <4>1. f[1] \in Byte
        BY <1>4
      <4> QED
        BY <4>1, HeaderNibbles
    <3>2. <<i, n>> \in Seq(Int)
      BY <2>1, <3>1
    <3> QED
      BY <1>0, <3>2, CommandlessCall
  <2> HIDE DEF h, t
  <2> QED
    BY <2>2, <2>4, <2>5, CommandlessTogether, NoneAmong DEF CommandsOf
<1> QED
  BY <1>1, <1>2, <1>3, <1>4 DEF Decided

\* Of a single call, what is a command.
LEMMA SingleAmong ==
    ASSUME NEW inst, NEW name, NEW args
    PROVE  CommandsAmong(Call(inst, name, args))
             = IF name \in CommandNames THEN Call(inst, name, args) ELSE << >>
<1> DEFINE c == [cb |-> name, args |-> args]
           calls == Call(inst, name, args)
<1>1. c.cb = name
  OBVIOUS
<1> HIDE DEF c
<1>2. CASE name \in inst
  <2>1. calls = << c >>
    BY <1>2 DEF Call, c
  <2> HIDE DEF calls
  <2>2. DOMAIN calls = {1} /\ calls[1] = c
    BY <2>1
  <2>3. << c >> \o << >> = << c >> /\ << >> \o << >> = << >>
    OBVIOUS
  <2> QED
    BY <1>1, <2>1, <2>2, <2>3 DEF CommandsAmong, calls
<1>3. CASE name \notin inst
  <2>1. calls = << >> /\ DOMAIN << >> = {} /\ << >> \o << >> = << >>
    BY <1>3 DEF Call
  <2> QED
    BY <2>1 DEF CommandsAmong
<1> QED
  BY <1>2, <1>3

\* The payload of a frame of at most five bytes is a word.
LEMMA PayloadIsWord ==
    ASSUME NEW f \in Seq(Byte), Len(f) <= 5
    PROVE  PayloadWord(f) \in Word
<1>1. Len(f) \in Nat /\ 0 \in Byte
  BY DEF Byte
<1>2. \A k \in 1 .. 4 : k + Len(f) > 5 => f[k + Len(f) - 4] \in Byte
  <2> SUFFICES ASSUME NEW k \in 1 .. 4, k + Len(f) > 5
               PROVE  f[k + Len(f) - 4] \in Byte
    OBVIOUS
  <2>1. k + Len(f) - 4 \in 1 .. Len(f)
    BY <1>1
  <2> QED
    BY <2>1, ElementOfSeq
<1> QED
  BY <1>1, <1>2 DEF PayloadWord, Word

\* No frame is more than one command.
LEMMA OneCommand ==
    ASSUME NEW f \in Seq(Byte)
    PROVE  \/ CommandsOf(f) = << >>
           \/ \E c \in Callback : CommandsOf(f) = << c >>
<1> DEFINE i == InterfaceOf(f[1])
           o == OpcodeOf(f[1])
           calls == FrameCalls(CallbackNames, f, TRUE, 0)
           carried == Call(CallbackNames, CommandName(o), CommandArgs(i, o, PayloadWord(f)))
<1>0. 0 \in Nat /\ Len(f) \in Nat /\ CallbackNames \in SUBSET CallbackNames
  OBVIOUS
<1>1. CASE f = << >> \/ OpcodeLength(o) \in {-1, -2} \/ Len(f) > 5
  BY <1>0, <1>1, NoCommandIn DEF Decided
<1>2. CASE f # << >> /\ OpcodeLength(o) \notin {-1, -2} /\ Len(f) <= 5
  <2>1. calls = FixedCalls(CallbackNames, f, TRUE)
    BY <1>2 DEF FrameCalls
  <2>2. \/ \E args : FixedCalls(CallbackNames, f, TRUE) = Call(CallbackNames, "error", args)
        \/ FixedCalls(CallbackNames, f, TRUE) = carried
    BY <1>0, <1>2 DEF FixedCalls
  <2>3. CASE \E args : calls = Call(CallbackNames, "error", args)
    <3>1. "error" \notin CommandNames
      BY DEF CommandNames
    <3> QED
      BY <2>3, <3>1, SingleAmong DEF CommandsOf
  <2>4. CASE calls = carried
    <3>1. f[1] \in Byte
      BY <1>2
    <3>2. carried \in Seq(Callback)
      BY <1>0, <1>2, <3>1, HeaderNibbles, PayloadIsWord, CommandType
    <3>3. Len(carried) <= 1
      BY CallLength
    <3> HIDE DEF carried
    <3> QED
      BY <2>4, <3>2, <3>3, OneAmong DEF CommandsOf
  <2> HIDE DEF calls, carried
  <2> QED
    BY <2>1, <2>2, <2>3, <2>4
<1> QED
  BY <1>0, <1>1, <1>2
-----------------------------------------------------------------------------
(* The commands of a put and of an end *)

\* The calls a put or an end adds to the log are the ones it made.
LEMMA MadeIs ==
    ASSUME log \in Seq(Callback), NEW calls \in Seq(Callback),
           log' = (IF ended THEN << >> ELSE log) \o calls
    PROVE  Made = calls
<1> HIDE DEF Callback
<1>1. CASE ended
  <2>1. log' = calls /\ SubSeq(calls, 1, Len(calls)) = calls
    BY <1>1, ConcatEmptySeq, SubSeqFull
  <2>2. Made = SubSeq(log', 0 + 1, Len(log'))
    BY <1>1 DEF Made
  <2> QED
    BY <2>1, <2>2
<1>2. CASE ~ended
  <2> DEFINE n == Len(log)
             m == Len(calls)
             l == log \o calls
  <2>1. /\ n \in Nat /\ m \in Nat /\ Len(l) = n + m
        /\ l \in Seq(Callback)
        /\ \A k \in 1 .. n + m : l[k] = IF k <= n THEN log[k] ELSE calls[k - n]
    BY LenProperties, ConcatProperties
  <2>2. log' = l
    BY <1>2
  <2> HIDE DEF l, n, m
  <2>3. Made = SubSeq(l, n + 1, n + m)
    BY <1>2, <2>1, <2>2 DEF Made, n
  <2> DEFINE t == SubSeq(l, n + 1, n + m)
  <2>4. /\ t \in Seq(Callback) /\ Len(t) = m
        /\ \A k \in 1 .. m : t[k] = l[n + 1 + k - 1]
    <3>1. \A k \in n + 1 .. n + m : l[k] \in Callback
      BY <2>1, ElementOfSeq
    <3>2. /\ t \in Seq(Callback)
          /\ Len(t) = IF n + 1 <= n + m THEN (n + m) - (n + 1) + 1 ELSE 0
          /\ \A k \in 1 .. (n + m) - (n + 1) + 1 : t[k] = l[n + 1 + k - 1]
      <4>1. n + 1 \in Int /\ n + m \in Int
        BY <2>1
      <4> QED
        BY <3>1, <4>1, SubSeqProperties
    <3>3. (n + m) - (n + 1) + 1 = m /\ (n + 1 <= n + m \/ m = 0)
      BY <2>1
    <3> HIDE DEF t
    <3> QED
      BY <2>1, <3>2, <3>3
  <2> HIDE DEF t
  <2>5. ASSUME NEW k \in 1 .. m PROVE t[k] = calls[k]
    <3>1. k \in Int /\ n + 1 + k - 1 = n + k /\ n + k \in 1 .. n + m /\ ~ (n + k <= n) /\ (n + k) - n = k
      BY <2>1
    <3> QED
      BY <2>1, <2>4, <3>1
  <2>6. t = calls
    BY <2>4, <2>5, SeqEqual DEF m
  <2> QED
    BY <2>3, <2>6 DEF t
<1> QED
  BY <1>1, <1>2

\* A put of one byte, in any state.
PutByte(b) ==
    \/ PutUnknown(b)
    \/ \E verdict \in Verdict : PutStream(b, verdict)
    \/ PutFixed(b)
    \/ PutSmall(b)
    \/ PutTooMany(b)
    \/ PutData(b)
    \/ PutDataAborted(b)
    \/ PutIgnored(b)

\* A put makes no call to a command's callback.
LEMMA PutIsCommandless ==
    ASSUME Inv, NEW b \in Byte, PutByte(b)
    PROVE  CommandsAmong(Made) = << >>
<1>1. /\ installed \in SUBSET CallbackNames /\ interface \in Int /\ opcode \in Int
      /\ payload_index \in Int /\ byte_index \in Int /\ b \in Int /\ log \in Seq(Callback)
      /\ InterfaceOf(b) \in Int /\ OpcodeOf(b) \in Int
      /\ UNKNOWN_OPCODE \in Int /\ INVALID_LENGTH \in Int /\ ABORTED \in Int
  <2>1. /\ installed \in SUBSET CallbackNames /\ interface \in Int /\ opcode \in Int
        /\ payload_index \in Int /\ byte_index \in Int /\ log \in Seq(Callback)
    BY DEF Inv, TypeOK
  <2>2. b \in Int /\ InterfaceOf(b) \in Int /\ OpcodeOf(b) \in Int
    BY HeaderNibbles, ByteInt
  <2> QED
    BY <2>1, <2>2 DEF UNKNOWN_OPCODE, INVALID_LENGTH, ABORTED
<1>2. ASSUME NEW calls, Commandless(calls),
             log' = (IF ended THEN << >> ELSE log) \o calls
      PROVE  CommandsAmong(Made) = << >>
  <2>1. Made = calls
    BY <1>1, <1>2, MadeIs DEF Commandless
  <2> QED
    BY <1>2, <2>1, NoneAmong
<1>3. Commandless(<< >>)
  <2>1. << >> \in Seq(Int)
    OBVIOUS
  <2> QED
    BY <1>1, <2>1, CommandlessCall
<1>e. ASSUME NEW i \in Int, NEW o \in Int, NEW k \in Int, NEW st \in Int
      PROVE  Commandless(Call(installed, "error", <<i, o, k, st>>))
  <2>1. <<i, o, k, st>> \in Seq(Int)
    OBVIOUS
  <2> QED
    BY <1>1, <2>1, CommandlessCall
<1>d. Commandless(TxData(b))
  <2>1. <<interface, b, byte_index>> \in Seq(Int)
    BY <1>1
  <2> QED
    BY <1>1, <2>1, CommandlessCall DEF TxData
<1>4. CASE PutUnknown(b)
  <2>1. 0 \in Int
    OBVIOUS
  <2>2. Commandless(Call(installed, "error", <<InterfaceOf(b), OpcodeOf(b), 0, UNKNOWN_OPCODE>>))
    BY <1>1, <1>e, <2>1
  <2> QED
    BY <1>2, <1>4, <2>2 DEF PutUnknown, Returns
<1>5. CASE \E verdict \in Verdict : PutStream(b, verdict)
  <2>1. <<InterfaceOf(b)>> \in Seq(Int)
    BY <1>1
  <2>2. Commandless(Call(installed, "tx_start", <<InterfaceOf(b)>>))
    BY <1>1, <2>1, CommandlessCall
  <2> QED
    BY <1>2, <1>5, <2>2 DEF PutStream, Returns
<1>6. CASE PutFixed(b) \/ PutSmall(b) \/ PutIgnored(b)
  BY <1>2, <1>3, <1>6 DEF PutFixed, PutSmall, PutIgnored, Returns
<1>7. CASE PutTooMany(b)
  <2>1. Commandless(Error(opcode, payload_index, INVALID_LENGTH))
    BY <1>1, <1>e DEF Error
  <2> QED
    BY <1>2, <1>7, <2>1 DEF PutTooMany, Returns
<1>8. CASE PutData(b)
  BY <1>2, <1>8, <1>d DEF PutData, Returns
<1>9. CASE PutDataAborted(b)
  <2>1. Commandless(Error(opcode, payload_index, ABORTED))
    BY <1>1, <1>e DEF Error
  <2>2. Commandless(TxData(b) \o Error(opcode, payload_index, ABORTED))
    BY <1>d, <2>1, CommandlessTogether
  <2> QED
    BY <1>2, <1>9, <2>2 DEF PutDataAborted, Returns
<1> QED
  BY <1>4, <1>5, <1>6, <1>7, <1>8, <1>9 DEF PutByte

\* An end of a frame that is not ignored calls the command the frame is.
LEMMA EndCarriesOut ==
    ASSUME Inv, End, ~ended, ~muted, installed = CallbackNames
    PROVE  CommandsAmong(Made) = CommandsOf(frame)
<1>1. /\ frame \in Seq(Byte) /\ log \in Seq(Callback) /\ cut \in Nat /\ ended \in BOOLEAN
      /\ installed \in SUBSET CallbackNames
  BY DEF Inv, TypeOK
<1>2. CASE EndFixed \/ EndWrongLength
  <2>1. Inv'
    BY <1>2, EndFixedInv, EndWrongLengthInv
  <2>2. \E calls, st : Closes(calls, st)
    <3>1. CASE EndFixed
      BY <3>1 DEF EndFixed
    <3>2. CASE EndWrongLength
      BY <3>2 DEF EndWrongLength
    <3> QED
      BY <1>2, <3>1, <3>2
  <2>3. state = "READ_FIXED" /\ cut' = cut
    BY <1>2 DEF EndFixed, EndWrongLength
  <2>4. /\ ended' = TRUE /\ ~muted' /\ frame' = frame /\ installed' = installed
        /\ cut' = 0 /\ log = << >>
    <3>1. Remembers /\ log = << >>
      BY <2>3, ReadStep DEF Inv, ReadInv
    <3> QED
      BY <2>2, <2>3, <3>1 DEF Closes, Remembers
  <2>5. log' = FrameCalls(CallbackNames, frame, TRUE, 0)
    BY <2>1, <2>4 DEF Inv, LogIsMeaning
  <2>6. log' \in Seq(Callback)
    BY <2>1 DEF Inv, TypeOK
  <2>7. Made = log'
    <3>1. Made = SubSeq(log', 1, Len(log'))
      BY <2>4 DEF Made
    <3> HIDE DEF Callback
    <3> QED
      BY <2>6, <3>1, SubSeqFull
  <2> QED
    BY <2>5, <2>7 DEF CommandsOf
<1>3. ASSUME NEW calls, Commandless(calls), NEW st, Closes(calls, st),
             CommandsOf(frame) = << >>
      PROVE  CommandsAmong(Made) = CommandsOf(frame)
  <2>1. Made = calls
    BY <1>1, <1>3, MadeIs DEF Commandless, Closes
  <2> QED
    BY <1>3, <2>1, NoneAmong
<1>4. CASE EndStream \/ EndStreamAborted
  <2>1. state = "STREAM_DATA"
    BY <1>4 DEF EndStream, EndStreamAborted
  <2>2. /\ OpcodeLength(OpcodeOf(frame[1])) = -1
        /\ interface \in Int /\ opcode \in Int /\ payload_index \in Int /\ byte_index \in Int
    BY <2>1, EndStreamStep DEF Inv, TypeOK
  <2>3. CommandsOf(frame) = << >>
    BY <1>1, <2>2, NoCommandIn
  <2>4. Commandless(TxEnd)
    <3>1. <<interface, byte_index>> \in Seq(Int)
      BY <2>2
    <3> QED
      BY <1>1, <3>1, CommandlessCall DEF TxEnd
  <2>5. Commandless(Error(opcode, payload_index, ABORTED))
    <3>1. <<interface, opcode, payload_index, ABORTED>> \in Seq(Int)
      BY <2>2 DEF ABORTED
    <3> QED
      BY <1>1, <3>1, CommandlessCall DEF Error
  <2>6. Commandless(TxEnd \o Error(opcode, payload_index, ABORTED))
    BY <2>4, <2>5, CommandlessTogether
  <2> QED
    BY <1>3, <1>4, <2>3, <2>4, <2>6 DEF EndStream, EndStreamAborted
<1>5. CASE EndNothing
  <2>1. frame = << >> \/ Decided(frame, cut)
    BY <1>5 DEF EndNothing, Inv, WaitInv, AbortInv
  <2>2. CommandsOf(frame) = << >>
    BY <1>1, <2>1, NoCommandIn
  <2>3. Commandless(<< >>)
    <3>1. << >> \in Seq(Int)
      OBVIOUS
    <3> QED
      BY <1>1, <3>1, CommandlessCall
  <2> QED
    BY <1>3, <1>5, <2>2, <2>3 DEF EndNothing
<1> QED
  BY <1>2, <1>4, <1>5 DEF End

\* Every put keeps the invariant,
LEMMA PutByteInv ==
    ASSUME Inv, NEW b \in Byte, PutByte(b)
    PROVE  Inv'
BY PutUnknownInv, PutStreamInv, PutFixedInv, PutSmallInv, PutTooManyInv, PutDataInv,
   PutDataAbortedInv, PutIgnoredInv DEF PutByte

\* every end does,
LEMMA EndInv == ASSUME Inv, End PROVE Inv'
BY EndFixedInv, EndWrongLengthInv, EndStreamInv, EndStreamAbortedInv, EndNothingInv DEF End

\* and so does a decoder at rest.
LEMMA StutterInv == ASSUME Inv, UNCHANGED vars PROVE Inv'
BY DEF Inv, TypeOK, LogIsMeaning, WaitInv, ReadInv, StreamInv, AbortInv, Remembers,
       vars, decoder, history

\* What a put does to the frame, whatever its branch,
LEMMA PutFrame ==
    ASSUME NEW b, PutByte(b)
    PROVE  /\ frame' = (IF ended THEN <<b>> ELSE Append(frame, b))
           /\ ended' = FALSE
           /\ muted' = (IF ended THEN state = "ABORT" ELSE muted)
           /\ installed' = installed
<1>1. \E calls, st : Returns(b, calls, st)
  BY DEF PutByte, PutUnknown, PutStream, PutFixed, PutSmall, PutTooMany, PutData,
         PutDataAborted, PutIgnored
<1> QED
  BY <1>1 DEF Returns

\* what an end does,
LEMMA EndFrame ==
    ASSUME End
    PROVE  /\ frame' = (IF ended THEN << >> ELSE frame)
           /\ ended' = TRUE
           /\ muted' = (IF ended THEN state = "ABORT" ELSE muted)
           /\ installed' = installed
<1>1. \E calls, st : Closes(calls, st)
  BY DEF End, EndFixed, EndWrongLength, EndStream, EndStreamAborted, EndNothing
<1> QED
  BY <1>1 DEF Closes

\* and what a start does.
LEMMA StartFrame ==
    ASSUME Start
    PROVE  frame' = << >> /\ ended' = FALSE /\ muted' = FALSE /\ installed' = installed
BY DEF Start

=============================================================================
