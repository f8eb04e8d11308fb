--------------------------- MODULE EncoderProofs ---------------------------
(***************************************************************************)
(* Proofs about Encoder, for every set of requests, interfaces, payload    *)
(* bytes and callbacks, and every bound on the length of a stream.         *)
(***************************************************************************)
EXTENDS Encoder, SequenceTheorems, TLAPS

\* Where a call stands: only in the middle of a call, or while a stream is
\* open, is the encoder busy, and then its frame is open and no callback has
\* asked to abort it yet, unless it is a stream's.
Place ==
    /\ pc = "none" => /\ state = "TRANSMITTING" <=> streaming
                      /\ streaming => open
                      /\ open => (state = "TRANSMITTING" \/ spoilt)
    /\ pc # "none" => /\ state = "TRANSMITTING"
                      /\ open
                      /\ ~spoilt
                      /\ ~streaming

\* What of the frame is still to come: the bytes put so far are the first of
\* those asked for.
Progress ==
    /\ pc = "header" => /\ asked = FrameOf(request)
                        /\ wire = << >>
                        /\ sent = 0
    /\ pc = "payload" => /\ asked = FrameOf(request)
                         /\ "put" \in installed =>
                               /\ Len(wire) = sent + 1
                               /\ \A k \in 1 .. sent + 1 : wire[k] = asked[k]
    /\ pc = "stream" => /\ asked = <<HeaderByte(request.interface, DATA)>>
                        /\ wire = << >>
    /\ (pc = "none" /\ ~spoilt /\ "put" \in installed) => wire = asked

EInv == TypeOK /\ Place /\ Progress /\ ~torn

USE DEF OK, ABORTED, FRAME_ERROR, DATA

-----------------------------------------------------------------------------
\* A header is a byte, whatever the interface and the opcode.
LEMMA HeaderByteType ==
    ASSUME NEW interface \in Byte, NEW opcode \in 0 .. 127
    PROVE  HeaderByte(interface, opcode) \in Byte
<1>1. interface % 16 \in 0 .. 15
  BY DEF Byte
<1>2. opcode % 16 \in 0 .. 15
  OBVIOUS
<1> QED  BY <1>1, <1>2 DEF HeaderByte, Byte

\* A byte is an integer.
LEMMA ByteInt == \A x \in Byte : x \in Int
BY DEF Byte

\* A decoder splits a header into the interface and the opcode it was made of,
\* each cut to four bits.
LEMMA HeaderSplit ==
    ASSUME NEW i \in Byte, NEW o \in 0 .. 127
    PROVE  /\ InterfaceOf(HeaderByte(i, o)) = i % 16
           /\ OpcodeOf(HeaderByte(i, o)) = o % 16
           /\ i % 16 \in 0 .. 15
<1> DEFINE a == i % 16
           b == o % 16
<1>1. a \in 0 .. 15 /\ b \in 0 .. 15
  BY DEF Byte
<1>2. HeaderByte(i, o) = a * 16 + b
  BY DEF HeaderByte
<1> HIDE DEF a, b
<1>3. (a * 16 + b) \div 16 = a /\ (a * 16 + b) % 16 = b
  BY <1>1
<1> QED
  BY <1>1, <1>2, <1>3 DEF InterfaceOf, OpcodeOf, a, b

\* A frame is its header followed by its payload.
LEMMA FrameOfType ==
    ASSUME NEW r, r.interface \in Byte, r.opcode \in 0 .. 127, r.bytes \in Seq(Byte)
    PROVE  /\ FrameOf(r) \in Seq(Byte)
           /\ Len(FrameOf(r)) = Len(r.bytes) + 1
           /\ FrameOf(r)[1] = HeaderByte(r.interface, r.opcode)
           /\ \A k \in 1 .. Len(r.bytes) : FrameOf(r)[k + 1] = r.bytes[k]
<1> DEFINE h == HeaderByte(r.interface, r.opcode)
<1>1. h \in Byte
  BY HeaderByteType
<1> HIDE DEF h
<1>2. <<h>> \in Seq(Byte) /\ Len(<<h>>) = 1 /\ <<h>>[1] = h
  BY <1>1
<1>3. FrameOf(r) = <<h>> \o r.bytes
  BY DEF FrameOf, h
<1> QED  BY <1>2, <1>3 DEF h

\* Every request is one the encoder can send.
LEMMA RequestType ==
    ASSUME NEW r \in Requests
    PROVE  /\ r.interface \in Byte
           /\ r.opcode \in 0 .. 127
           /\ r.bytes \in Seq(Byte)
           /\ Len(r.bytes) \in Nat
           /\ FrameOf(r) \in Seq(Byte)
<1>1. r.interface \in Byte /\ r.opcode \in 0 .. 127 /\ r.bytes \in Seq(Byte)
  BY RequestsAssumption
<1>2. FrameOf(r) \in Seq(Byte)
  BY ONLY <1>1, FrameOfType
<1> QED  BY <1>1, <1>2

\* What a decoder finds in the frame of a request: the low nibbles of its
\* interface and opcode, and its payload.
LEMMA RequestFrame ==
    ASSUME NEW r \in Requests
    PROVE  /\ FrameOf(r) \in Seq(Byte)
           /\ FrameOf(r) # << >>
           /\ InterfaceOf(FrameOf(r)[1]) = r.interface % 16
           /\ r.interface % 16 \in 0 .. 15
           /\ OpcodeOf(FrameOf(r)[1]) = r.opcode % 16
           /\ Len(r.bytes) \in Nat
           /\ Len(FrameOf(r)) = Len(r.bytes) + 1
           /\ \A k \in 1 .. Len(r.bytes) : FrameOf(r)[k + 1] = r.bytes[k]
<1> DEFINE f == FrameOf(r)
<1>1. /\ r.interface \in Byte /\ r.opcode \in 0 .. 127 /\ r.bytes \in Seq(Byte)
      /\ Len(r.bytes) \in Nat
  BY RequestType
<1>2. /\ f \in Seq(Byte)
      /\ Len(f) = Len(r.bytes) + 1
      /\ f[1] = HeaderByte(r.interface, r.opcode)
      /\ \A k \in 1 .. Len(r.bytes) : f[k + 1] = r.bytes[k]
  BY ONLY <1>1, FrameOfType
<1> HIDE DEF f
<1>3. f # << >>
  BY <1>1, <1>2
<1>4. /\ InterfaceOf(f[1]) = r.interface % 16 /\ r.interface % 16 \in 0 .. 15
      /\ OpcodeOf(f[1]) = r.opcode % 16
  <2> DEFINE h == HeaderByte(r.interface, r.opcode)
  <2>1. /\ InterfaceOf(h) = r.interface % 16 /\ r.interface % 16 \in 0 .. 15
        /\ OpcodeOf(h) = r.opcode % 16
    BY ONLY <1>1, HeaderSplit
  <2> HIDE DEF h
  <2> QED
    BY <1>2, <2>1 DEF h
<1> QED
  BY <1>1, <1>2, <1>3, <1>4 DEF f

\* A byte handed to put_cb is appended to the bytes on the wire.
LEMMA PutByte ==
    ASSUME TypeOK, NEW b \in Byte, NEW abort \in Verdict, FramePut(b, abort)
    PROVE  /\ byte_index' \in Nat
           /\ wire' \in Seq(Byte)
           /\ spoilt' \in BOOLEAN
           /\ "put" \in installed => /\ wire' = Append(wire, b)
                                     /\ Len(wire') = Len(wire) + 1
                                     /\ wire'[Len(wire) + 1] = b
                                     /\ \A k \in 1 .. Len(wire) : wire'[k] = wire[k]
<1>1. byte_index' \in Nat
  BY DEF TypeOK, FramePut
<1>2. spoilt' \in BOOLEAN
  BY DEF TypeOK, FramePut, Verdict
<1>3. wire \in Seq(Byte)
  BY DEF TypeOK
<1>4. wire' = (IF "put" \in installed THEN Append(wire, b) ELSE wire)
  BY DEF FramePut
<1>5. /\ Append(wire, b) \in Seq(Byte)
      /\ Len(Append(wire, b)) = Len(wire) + 1
      /\ Append(wire, b)[Len(wire) + 1] = b
      /\ \A k \in 1 .. Len(wire) : Append(wire, b)[k] = wire[k]
  BY <1>3
<1> QED  BY <1>1, <1>2, <1>3, <1>4, <1>5

\* An element of a sequence of bytes is a byte.
LEMMA ElementType ==
    ASSUME NEW s \in Seq(Byte), NEW k \in 1 .. Len(s)
    PROVE  s[k] \in Byte
BY ElementOfSeq

\* Two sequences that agree everywhere are the same.
LEMMA SameSequence ==
    ASSUME NEW s \in Seq(Byte), NEW t \in Seq(Byte), Len(s) = Len(t),
           \A k \in 1 .. Len(s) : s[k] = t[k]
    PROVE  s = t
BY SeqEqual

-----------------------------------------------------------------------------
\* The encoder starts idle, with no frame.
LEMMA EInit == Init => EInv
<1> SUFFICES ASSUME Init PROVE EInv
  OBVIOUS
<1>1. TypeOK
  <2>1. installed \subseteq {"start", "put", "end"}
    BY SinksAssumption DEF Init
  <2>2. << >> \in Seq(Byte)
    OBVIOUS
  <2>3. /\ request.interface \in Byte
        /\ request.opcode \in 0 .. 127
        /\ request.bytes \in Seq(Byte)
        /\ Len(request.bytes) \in Nat
    BY RequestType DEF Init
  <2>4. sent \in 0 .. Len(request.bytes)
    BY <2>3 DEF Init
  <2> QED  BY <2>1, <2>2, <2>3, <2>4 DEF Init, TypeOK
<1> QED  BY <1>1 DEF Init, EInv, Place, Progress

\* A whole-frame call begins in an idle encoder.
LEMMA ESend ==
    ASSUME EInv, NEW r \in Requests, NEW abort \in Verdict, Send(r, abort)
    PROVE  EInv'
<1> USE DEF EInv, Send, FrameStart, Return, Verdict
<1>1. FrameOf(r) \in Seq(Byte) /\ << >> \in Seq(Byte)
  BY RequestType
<1>2. TypeOK'
  <2>1. r.interface \in Byte /\ r.opcode \in 0 .. 127 /\ r.bytes \in Seq(Byte)
        /\ Len(r.bytes) \in Nat
    BY RequestType
  <2>2. request' = r /\ sent' = 0 /\ asked' = FrameOf(r) /\ wire' = << >>
        /\ byte_index' = 0 /\ installed' = installed
    OBVIOUS
  <2>3. sent' \in 0 .. Len(r.bytes)
    BY <2>1, <2>2
  <2>4. open' \in BOOLEAN /\ spoilt' \in BOOLEAN /\ torn' \in BOOLEAN
        /\ streaming' \in BOOLEAN
    BY DEF TypeOK
  <2>5. /\ state' \in {"IDLE", "TRANSMITTING"}
        /\ pc' \in {"none", "header", "payload", "stream"}
        /\ status' \in {OK, ABORTED, FRAME_ERROR}
    BY DEF TypeOK
  <2> QED  BY <1>1, <2>1, <2>2, <2>3, <2>4, <2>5 DEF TypeOK
<1>3. Place'
  BY DEF Place, TypeOK
<1>4. Progress'
  BY DEF Progress
<1>5. ~torn'
  BY DEF Place, TypeOK
<1> QED  BY <1>2, <1>3, <1>4, <1>5

\* The header is the first byte of what was asked for.
LEMMA ESendHeader ==
    ASSUME EInv, NEW abort \in Verdict, SendHeader(abort)
    PROVE  EInv'
<1> DEFINE h == HeaderByte(request.interface, request.opcode)
<1>1. h \in Byte
  BY HeaderByteType DEF EInv, TypeOK
<1>2. FramePut(h, abort)
  BY DEF SendHeader
<1> HIDE DEF h
<1>3. /\ byte_index' \in Nat
      /\ wire' \in Seq(Byte)
      /\ spoilt' \in BOOLEAN
      /\ "put" \in installed => /\ Len(wire') = Len(wire) + 1
                                /\ wire'[Len(wire) + 1] = h
  BY <1>1, <1>2, PutByte DEF EInv
<1>4. asked = FrameOf(request) /\ FrameOf(request)[1] = h /\ wire = << >> /\ sent = 0
  BY FrameOfType DEF EInv, Progress, SendHeader, TypeOK, h
<1>5. TypeOK'
  BY <1>3 DEF EInv, TypeOK, SendHeader, FramePut, Return, Verdict
<1>6. Place' /\ ~torn'
  BY DEF EInv, Place, SendHeader, FramePut, Return, Verdict, TypeOK
<1>7. Progress'
  <2>1. CASE abort
    BY <2>1 DEF Progress, SendHeader, FramePut, Return
  <2>2. CASE ~abort
    <3>1. pc' = "payload" /\ asked' = FrameOf(request) /\ request' = request /\ sent' = 0
      BY <2>2, <1>4 DEF SendHeader
    <3>2. "put" \in installed' => Len(wire') = 1 /\ wire'[1] = asked'[1]
      BY <1>3, <1>4, <3>1 DEF SendHeader, FramePut
    <3> QED  BY <3>1, <3>2 DEF Progress
  <2> QED  BY <2>1, <2>2
<1> QED  BY <1>5, <1>6, <1>7 DEF EInv

\* Each payload byte extends the part of the frame that is on the wire.
LEMMA ESendPayload ==
    ASSUME EInv, NEW abort \in Verdict, SendPayload(abort)
    PROVE  EInv'
<1> DEFINE b == request.bytes[sent + 1]
<1>0. /\ request.bytes \in Seq(Byte)
      /\ Len(request.bytes) \in Nat
      /\ sent \in Nat
      /\ sent + 1 \in 1 .. Len(request.bytes)
  BY DEF EInv, TypeOK, SendPayload
<1>1. b \in Byte
  BY <1>0, ElementType
<1>2. FramePut(b, abort)
  BY DEF SendPayload
<1>3. asked = FrameOf(request) /\ FrameOf(request)[sent + 2] = b
  <2>1. \A k \in 1 .. Len(request.bytes) : FrameOf(request)[k + 1] = request.bytes[k]
    BY FrameOfType DEF EInv, TypeOK
  <2>2. FrameOf(request)[(sent + 1) + 1] = b
    BY <2>1, <1>0
  <2> QED  BY <2>2, <1>0 DEF EInv, Progress, SendPayload
<1> HIDE DEF b
<1>4. /\ byte_index' \in Nat
      /\ wire' \in Seq(Byte)
      /\ spoilt' \in BOOLEAN
      /\ "put" \in installed => /\ Len(wire') = Len(wire) + 1
                                /\ wire'[Len(wire) + 1] = b
                                /\ \A k \in 1 .. Len(wire) : wire'[k] = wire[k]
  BY <1>1, <1>2, PutByte DEF EInv
<1>5. TypeOK'
  BY <1>4 DEF EInv, TypeOK, SendPayload, FramePut, Return, Verdict
<1>6. Place' /\ ~torn'
  BY DEF EInv, Place, SendPayload, FramePut, Return, Verdict, TypeOK
<1>7. Progress'
  <2>1. CASE abort
    BY <2>1 DEF Progress, SendPayload, FramePut, Return
  <2>2. CASE ~abort
    <3>1. /\ pc' = "payload" /\ asked' = FrameOf(request) /\ request' = request
          /\ sent' = sent + 1 /\ sent \in Nat /\ installed' = installed
      BY <2>2, <1>3 DEF SendPayload, FramePut, EInv, TypeOK
    <3>2. ASSUME "put" \in installed
          PROVE  /\ Len(wire') = sent + 2
                 /\ \A k \in 1 .. sent + 2 : wire'[k] = asked[k]
      <4>1. Len(wire) = sent + 1 /\ \A k \in 1 .. sent + 1 : wire[k] = asked[k]
        BY <3>2 DEF EInv, Progress, SendPayload
      <4> QED  BY <4>1, <3>1, <3>2, <1>3, <1>4
    <3> QED  BY <3>1, <3>2, <1>3 DEF Progress
  <2> QED  BY <2>1, <2>2
<1> QED  BY <1>5, <1>6, <1>7 DEF EInv

\* A frame ends when every byte asked for is on the wire.
LEMMA ESendEnd ==
    ASSUME EInv, NEW abort \in Verdict, SendEnd(abort)
    PROVE  EInv'
<1>1. TypeOK'
  BY DEF EInv, TypeOK, SendEnd, FrameEnd, Return, Verdict
<1>2. Place' /\ ~torn'
  BY DEF EInv, Place, SendEnd, FrameEnd, Return, Verdict, TypeOK
<1>3. "put" \in installed => wire = asked
  <2> SUFFICES ASSUME "put" \in installed PROVE wire = asked
    OBVIOUS
  <2>1. asked \in Seq(Byte) /\ wire \in Seq(Byte) /\ Len(asked) = sent + 1
    BY FrameOfType DEF EInv, TypeOK, Progress, SendEnd
  <2>2. Len(wire) = sent + 1 /\ \A k \in 1 .. sent + 1 : wire[k] = asked[k]
    BY DEF EInv, Progress, SendEnd
  <2> QED  BY <2>1, <2>2, SameSequence
<1>4. Progress'
  BY <1>3 DEF Progress, SendEnd, FrameEnd, Return
<1> QED  BY <1>1, <1>2, <1>4 DEF EInv

-----------------------------------------------------------------------------
\* A stream begins in an idle encoder.
LEMMA EStreamStart ==
    ASSUME EInv, NEW interface \in Interfaces, NEW abort \in Verdict,
           StreamStart(interface, abort)
    PROVE  EInv'
<1> DEFINE h == HeaderByte(interface, DATA)
<1>0. DATA \in 0 .. 127 /\ interface \in Byte
  BY InterfacesAssumption
<1>1. interface \in Byte /\ h \in Byte
  BY <1>0, HeaderByteType
<1>2. /\ request'.interface = interface
      /\ request'.opcode = DATA
      /\ request'.bytes = << >>
  BY DEF StreamStart, Request
<1> HIDE DEF h
<1>3. asked' = <<h>> /\ <<h>> \in Seq(Byte) /\ << >> \in Seq(Byte)
  BY <1>1 DEF StreamStart, FrameStart, h
<1>4. TypeOK'
  <2>0. Len(<< >>) = 0 /\ << >> \in Seq(Byte)
    OBVIOUS
  <2>1. /\ request'.bytes \in Seq(Byte)
        /\ sent' \in 0 .. Len(request'.bytes)
        /\ request'.interface \in Byte
        /\ request'.opcode \in 0 .. 127
    <3>1. request'.bytes \in Seq(Byte) /\ Len(request'.bytes) = 0
      BY <2>0, <1>2
    <3>2. sent' = 0
      BY DEF StreamStart
    <3>3. request'.interface \in Byte /\ request'.opcode \in 0 .. 127
      BY <1>0, <1>2
    <3> QED  BY <3>1, <3>2, <3>3
  <2>2. wire' \in Seq(Byte) /\ asked' \in Seq(Byte) /\ byte_index' \in Nat
        /\ installed' = installed
    BY <1>3 DEF StreamStart, FrameStart
  <2>3. open' \in BOOLEAN /\ spoilt' \in BOOLEAN /\ torn' \in BOOLEAN
        /\ streaming' \in BOOLEAN
    BY DEF EInv, TypeOK, StreamStart, FrameStart, Verdict
  <2>4. /\ state' \in {"IDLE", "TRANSMITTING"}
        /\ pc' \in {"none", "header", "payload", "stream"}
        /\ status' \in {OK, ABORTED, FRAME_ERROR}
    BY DEF EInv, TypeOK, StreamStart, Return
  <2> QED  BY <2>1, <2>2, <2>3, <2>4 DEF EInv, TypeOK
<1>5. Place' /\ ~torn'
  BY DEF EInv, Place, StreamStart, FrameStart, Return, Verdict, TypeOK
<1>6. Progress'
  BY <1>2, <1>3 DEF Progress, StreamStart, FrameStart, Return, h
<1> QED  BY <1>4, <1>5, <1>6 DEF EInv

\* Its header is all that is asked of it so far.
LEMMA EStreamHeader ==
    ASSUME EInv, NEW abort \in Verdict, StreamHeader(abort)
    PROVE  EInv'
<1> DEFINE h == HeaderByte(request.interface, DATA)
<1>1. h \in Byte
  <2>1. DATA \in 0 .. 127 /\ request.interface \in Byte
    BY DEF EInv, TypeOK
  <2> QED  BY <2>1, HeaderByteType
<1>2. FramePut(h, abort) /\ asked = <<h>> /\ wire = << >>
  BY DEF StreamHeader, EInv, Progress
<1> HIDE DEF h
<1>3. /\ byte_index' \in Nat
      /\ wire' \in Seq(Byte)
      /\ spoilt' \in BOOLEAN
      /\ "put" \in installed => wire' = Append(wire, h)
  BY <1>1, <1>2, PutByte DEF EInv
<1>4. TypeOK'
  BY <1>3 DEF EInv, TypeOK, StreamHeader, FramePut, Return, Verdict
<1>5. Place' /\ ~torn'
  BY DEF EInv, Place, StreamHeader, FramePut, Return, Verdict, TypeOK
<1>6. "put" \in installed => wire' = asked
  BY <1>2, <1>3
<1>7. Progress'
  BY <1>6 DEF Progress, StreamHeader, FramePut, Return
<1> QED  BY <1>4, <1>5, <1>7 DEF EInv

\* A streamed byte is asked for and put in the same call.
LEMMA EStreamData ==
    ASSUME EInv, NEW b \in Payload, NEW abort \in Verdict, StreamData(b, abort)
    PROVE  EInv'
<1>1. b \in Byte /\ FramePut(b, abort) /\ asked' = Append(asked, b)
  BY StreamAssumption DEF StreamData
<1>2. /\ byte_index' \in Nat
      /\ wire' \in Seq(Byte)
      /\ spoilt' \in BOOLEAN
      /\ "put" \in installed => wire' = Append(wire, b)
  BY <1>1, PutByte DEF EInv
<1>3. TypeOK'
  BY <1>1, <1>2 DEF EInv, TypeOK, StreamData, FramePut, Return, Verdict
<1>4. Place' /\ ~torn'
  BY DEF EInv, Place, StreamData, FramePut, Return, Verdict, TypeOK
<1>5. Progress'
  BY <1>1, <1>2 DEF EInv, TypeOK, Progress, StreamData, FramePut, Return, Verdict
<1> QED  BY <1>3, <1>4, <1>5 DEF EInv

\* Ending a stream leaves the encoder idle, whatever end_cb answers.
LEMMA EStreamEnd ==
    ASSUME EInv, NEW abort \in Verdict, StreamEnd(abort)
    PROVE  EInv'
<1>1. TypeOK'
  BY DEF EInv, TypeOK, StreamEnd, FrameEnd, Return, Verdict
<1>2. Place' /\ ~torn'
  BY DEF EInv, Place, StreamEnd, FrameEnd, Return, Verdict, TypeOK
<1>3. Progress'
  BY DEF EInv, Progress, StreamEnd, FrameEnd, Return, Verdict, TypeOK
<1> QED  BY <1>1, <1>2, <1>3 DEF EInv

\* A refused call changes nothing but its answer.
LEMMA ERefused ==
    ASSUME EInv, Busy \/ NotOpen
    PROVE  EInv'
<1>0. /\ UNCHANGED <<state, byte_index, installed, request, sent>>
      /\ UNCHANGED <<wire, asked, open, spoilt, torn, streaming>>
      /\ pc = "none" /\ pc' = "none" /\ status' = FRAME_ERROR
  BY DEF Busy, NotOpen, Refused, Return, encoder, history
<1>1. TypeOK'
  BY <1>0 DEF EInv, TypeOK
<1>2. Place' /\ ~torn'
  BY <1>0 DEF EInv, Place
<1>3. Progress'
  BY <1>0 DEF EInv, Progress
<1> QED  BY <1>1, <1>2, <1>3 DEF EInv

\* Neither does a stuttering step.
LEMMA EStutter == ASSUME EInv, UNCHANGED vars PROVE EInv'
BY DEF EInv, TypeOK, Place, Progress, vars, encoder, call, history

-----------------------------------------------------------------------------
\* EInv is an invariant of the encoder.
THEOREM EncoderInvariance == Spec => []EInv
<1>1. EInv /\ [Next]_vars => EInv'
  <2> SUFFICES ASSUME EInv, [Next]_vars PROVE EInv'
    OBVIOUS
  <2>1. ASSUME NEW abort \in Verdict, NEW r \in Requests, Send(r, abort)
        PROVE  EInv'
    BY <2>1, ESend
  <2>2. ASSUME NEW abort \in Verdict, SendHeader(abort) PROVE EInv'
    BY <2>2, ESendHeader
  <2>3. ASSUME NEW abort \in Verdict, SendPayload(abort) PROVE EInv'
    BY <2>3, ESendPayload
  <2>4. ASSUME NEW abort \in Verdict, SendEnd(abort) PROVE EInv'
    BY <2>4, ESendEnd
  <2>5. ASSUME NEW abort \in Verdict, NEW interface \in Interfaces,
               StreamStart(interface, abort)
        PROVE  EInv'
    BY <2>5, EStreamStart
  <2>6. ASSUME NEW abort \in Verdict, StreamHeader(abort) PROVE EInv'
    BY <2>6, EStreamHeader
  <2>7. ASSUME NEW abort \in Verdict, NEW b \in Payload, StreamData(b, abort)
        PROVE  EInv'
    BY <2>7, EStreamData
  <2>8. ASSUME NEW abort \in Verdict, StreamEnd(abort) PROVE EInv'
    BY <2>8, EStreamEnd
  <2>9. CASE Busy \/ NotOpen
    BY <2>9, ERefused
  <2>10. CASE UNCHANGED vars
    BY <2>10, EStutter
  <2> QED
    BY <2>1, <2>2, <2>3, <2>4, <2>5, <2>6, <2>7, <2>8, <2>9, <2>10 DEF Next
<1> QED  BY <1>1, EInit, PTL DEF Spec

\* Every variable of the encoder keeps its type; in particular no call puts
\* more bytes than its payload has.
THEOREM EncoderTypeCorrect == Spec => []TypeOK
BY EncoderInvariance, PTL DEF EInv

\* A frame that nobody aborted carries exactly the bytes asked for.
THEOREM Wholeness == Spec => []WholeFrames
<1>1. EInv => WholeFrames
  BY DEF EInv, Progress, WholeFrames
<1> QED  BY <1>1, EncoderInvariance, PTL

\* No frame begins inside a frame that nobody gave up on.
THEOREM Nesting == Spec => []FramesNeverNest
<1>1. EInv => FramesNeverNest
  BY DEF EInv, FramesNeverNest
<1> QED  BY <1>1, EncoderInvariance, PTL

\* Between calls the encoder is busy exactly while a stream is open.
THEOREM NeverWedged == Spec => []BusyWhileStreaming
<1>1. EInv => BusyWhileStreaming
  BY DEF EInv, Place, BusyWhileStreaming
<1> QED  BY <1>1, EncoderInvariance, PTL

-----------------------------------------------------------------------------
\* Where the bytes asked for come from: a stream's start, which only bytes put
\* by data have followed, or the whole frame of a request; and nothing reaches
\* a put_cb that is NULL.
Origin ==
    /\ request.opcode # DATA => /\ request \in Requests
                                /\ asked \in {<< >>, FrameOf(request)}
    /\ asked # << >> => asked[1] = HeaderByte(request.interface, request.opcode)
    /\ (streaming \/ pc = "stream") => request.opcode = DATA /\ asked # << >>
    /\ "put" \notin installed => wire = << >>

\* No byte has been asked for when the encoder starts.
LEMMA OInit == Init => Origin
BY DEF Init, Origin

\* A whole-frame call asks for the frame of its request.
LEMMA OSend ==
    ASSUME EInv, Origin, NEW r \in Requests, NEW abort \in Verdict, Send(r, abort)
    PROVE  Origin'
<1>1. FrameOf(r)[1] = HeaderByte(r.interface, r.opcode)
  <2>1. r.interface \in Byte /\ r.opcode \in 0 .. 127 /\ r.bytes \in Seq(Byte)
    BY RequestsAssumption
  <2> QED  BY <2>1, FrameOfType
<1>2. request' = r /\ asked' = FrameOf(r) /\ wire' = << >> /\ pc' # "stream"
      /\ streaming' = streaming
  BY DEF Send, FrameStart, Return
<1>3. ~streaming
  BY DEF EInv, Place, Send
<1> QED  BY <1>1, <1>2, <1>3 DEF Origin

\* Putting the header or a payload byte asks for nothing.
LEMMA OSendByte ==
    ASSUME EInv, Origin, NEW abort \in Verdict,
           SendHeader(abort) \/ SendPayload(abort)
    PROVE  Origin'
<1>1. /\ UNCHANGED <<request, asked, streaming, installed>>
      /\ pc' # "stream"
      /\ "put" \notin installed => wire' = wire
  BY DEF SendHeader, SendPayload, FramePut, Return
<1> QED  BY <1>1 DEF Origin

\* Nor does ending a frame.
LEMMA OEnd ==
    ASSUME EInv, Origin, NEW abort \in Verdict, SendEnd(abort) \/ StreamEnd(abort)
    PROVE  Origin'
<1>1. /\ UNCHANGED <<request, asked, installed, wire>>
      /\ pc' # "stream"
      /\ streaming' => streaming
  BY DEF SendEnd, StreamEnd, FrameEnd, Return
<1> QED  BY <1>1 DEF Origin

\* A stream's start asks for its header.
LEMMA OStreamStart ==
    ASSUME EInv, Origin, NEW interface \in Interfaces, NEW abort \in Verdict,
           StreamStart(interface, abort)
    PROVE  Origin'
<1> DEFINE h == HeaderByte(interface, DATA)
<1>1. /\ request'.interface = interface
      /\ request'.opcode = DATA
  BY DEF StreamStart, Request
<1>2. asked' = <<h>> /\ wire' = << >> /\ installed' = installed
  BY DEF StreamStart, FrameStart
<1> HIDE DEF h
<1>3. asked'[1] = h /\ asked' # << >>
  BY <1>2
<1> QED  BY <1>1, <1>2, <1>3 DEF Origin, h

\* Its header asks for nothing more.
LEMMA OStreamHeader ==
    ASSUME EInv, Origin, NEW abort \in Verdict, StreamHeader(abort)
    PROVE  Origin'
<1>1. /\ UNCHANGED <<request, asked, installed>>
      /\ pc = "stream"
      /\ "put" \notin installed => wire' = wire
  BY DEF StreamHeader, FramePut
<1> QED  BY <1>1 DEF Origin

\* A streamed byte is only ever asked for after the header of a stream.
LEMMA OStreamData ==
    ASSUME EInv, Origin, NEW b \in Payload, NEW abort \in Verdict, StreamData(b, abort)
    PROVE  Origin'
<1>1. request.opcode = DATA /\ asked # << >>
  BY DEF EInv, Place, Origin, StreamData
<1>2. asked \in Seq(Byte) /\ b \in Byte
  BY StreamAssumption DEF EInv, TypeOK
<1>3. asked' = Append(asked, b)
  BY DEF StreamData
<1>4. asked' # << >> /\ asked'[1] = asked[1]
  BY <1>1, <1>2, <1>3
<1>5. /\ UNCHANGED <<request, installed, streaming>>
      /\ "put" \notin installed => wire' = wire
  BY DEF StreamData, FramePut
<1> QED  BY <1>1, <1>4, <1>5 DEF Origin

\* A refused call, and a stuttering step, change none of it.
LEMMA ORefused ==
    ASSUME Origin, Busy \/ NotOpen \/ UNCHANGED vars
    PROVE  Origin'
<1>1. /\ UNCHANGED <<request, asked, installed, wire, streaming>>
      /\ pc' = "none" \/ pc' = pc
  BY DEF Busy, NotOpen, Refused, Return, encoder, history, vars, call
<1> QED  BY <1>1 DEF Origin

\* The bytes on the wire can always be traced to the call that asked for them.
THEOREM OriginInvariance == Spec => []Origin
<1>1. EInv /\ Origin /\ [Next]_vars => Origin'
  <2> SUFFICES ASSUME EInv, Origin, [Next]_vars PROVE Origin'
    OBVIOUS
  <2>1. ASSUME NEW abort \in Verdict, NEW r \in Requests, Send(r, abort)
        PROVE  Origin'
    BY <2>1, OSend
  <2>2. ASSUME NEW abort \in Verdict, SendHeader(abort) \/ SendPayload(abort)
        PROVE  Origin'
    BY <2>2, OSendByte
  <2>3. ASSUME NEW abort \in Verdict, SendEnd(abort) \/ StreamEnd(abort)
        PROVE  Origin'
    BY <2>3, OEnd
  <2>4. ASSUME NEW abort \in Verdict, NEW interface \in Interfaces,
               StreamStart(interface, abort)
        PROVE  Origin'
    BY <2>4, OStreamStart
  <2>5. ASSUME NEW abort \in Verdict, StreamHeader(abort) PROVE Origin'
    BY <2>5, OStreamHeader
  <2>6. ASSUME NEW abort \in Verdict, NEW b \in Payload, StreamData(b, abort)
        PROVE  Origin'
    BY <2>6, OStreamData
  <2>7. CASE Busy \/ NotOpen \/ UNCHANGED vars
    BY <2>7, ORefused
  <2> QED
    BY <2>1, <2>2, <2>3, <2>4, <2>5, <2>6, <2>7 DEF Next
<1> QED  BY <1>1, OInit, EncoderInvariance, PTL DEF Spec

\* What a frame that was put whole is made of: it is the frame of the request,
\* or a stream's, a header followed by the bytes that were streamed.
LEMMA WireOrigin ==
    ASSUME EInv, Origin, pc = "none", wire # << >>, ~open, ~spoilt
    PROVE  /\ wire = asked
           /\ request.interface \in Byte
           /\ asked \in Seq(Byte)
           /\ asked[1] = HeaderByte(request.interface, request.opcode)
           /\ request.opcode # DATA => request \in Requests /\ wire = FrameOf(request)
<1>1. "put" \in installed
  BY DEF Origin
<1>2. wire = asked
  BY <1>1 DEF EInv, Progress
<1> QED  BY <1>2 DEF Origin, EInv, TypeOK

=============================================================================
