------------------------- MODULE FramedStreamProofs -------------------------
(***************************************************************************)
(* What the assembler does to every stream of bytes, proved for every      *)
(* buffer size and every CRC: its verdicts are right, what it hands out is *)
(* a slice of the stream, it skips nothing but noise, it misses no         *)
(* well-formed frame that begins where it hunts, and on a line of frames   *)
(* only damage puts it out of step.                                        *)
(***************************************************************************)
EXTENDS FramedStream, FrameSync, SequenceTheorems, TLAPS

-----------------------------------------------------------------------------
(* What one call of feed() does                                              *)

\* The candidate b completes, rejects or extends.
Grown(b) == Append(buf, b)

\* feed() skips noise, extends the candidate, or ends it with a verdict that its
\* bytes justify.
LEMMA FeedShape ==
  ASSUME AsmOK, NEW b \in Byte, NEW outCap \in Nat, Feed(b, outCap)
  PROVE  \/ /\ status' = "NeedMore" /\ buf = <<>> /\ buf' = <<>> /\ b # Preamble
            /\ out' = out
         \/ /\ status' = "NeedMore" /\ buf' = Grown(b) /\ Grown(b)[1] = Preamble
            /\ out' = out
         \/ /\ status' = "Overflow" /\ buf' = <<>> /\ buf # <<>> /\ buf[1] = Preamble
            /\ Len(buf) = 2 /\ PayloadLen(buf[2], b) + 6 > BufSize
            /\ out' = out
         \/ /\ buf' = <<>> /\ Len(buf) \in 3..(BufSize - 1) /\ buf[1] = Preamble
            /\ Len(buf) + 1 = PayloadLen(buf[2], buf[3]) + 6
            /\ Len(buf) + 1 <= BufSize
            /\ \/ status' = "BadCrc" /\ ~ CrcOk(Grown(b)) /\ out' = out
               \/ /\ status' = "Overflow" /\ CrcOk(Grown(b)) /\ out' = out
                  /\ outCap < Len(buf) + 1
               \/ status' = "Ok" /\ CrcOk(Grown(b)) /\ out' = Grown(b)
<1>1. CASE SkipByte(b)
  BY <1>1 DEF SkipByte, AsmOK
<1>2. CASE StartCandidate(b)
  <2>1. buf = <<>> /\ buf' = <<b>> /\ status' = "NeedMore" /\ out' = out /\ b = Preamble
    BY <1>2 DEF StartCandidate, AsmOK
  <2>2. Grown(b) = <<b>> /\ Grown(b)[1] = b
    BY <2>1 DEF Grown
  <2> QED BY <2>1, <2>2
<1>3. CASE ReadLengthHigh(b) \/ ReadLengthLow(b) \/ ReadBody(b)
  <2>1. buf' = Grown(b) /\ status' = "NeedMore" /\ out' = out /\ phase # 0
    BY <1>3 DEF ReadLengthHigh, ReadLengthLow, ReadBody, Grown
  <2>2. buf \in Seq(Byte) /\ Len(buf) > 0 /\ buf[1] = Preamble
    BY <2>1 DEF AsmOK
  <2>3. Grown(b)[1] = buf[1]
    BY <2>2 DEF Grown
  <2> QED BY <2>1, <2>2, <2>3
<1>4. CASE RejectLength(b)
  <2>1. ~ (phase # 0 /\ Len(buf) >= BufSize)
    BY BufSizeAssumption DEF AsmOK
  <2>2. phase = 2 /\ PayloadLen(buf[2], b) + 6 > BufSize
    BY <1>4, <2>1 DEF RejectLength
  <2>3. buf \in Seq(Byte) /\ Len(buf) = 2 /\ buf[1] = Preamble
    BY <2>2 DEF AsmOK
  <2>4. buf' = <<>> /\ status' = "Overflow" /\ out' = out
    BY <1>4 DEF RejectLength, Reset
  <2>5. buf # <<>>
    BY <2>3
  <2> QED BY <2>2, <2>3, <2>4, <2>5
<1>5. CASE RejectCrc(b) \/ RejectRoom(b, outCap) \/ Deliver(b, outCap)
  <2>1. phase = 3 /\ Len(buf) + 1 >= expected /\ buf' = <<>>
    BY <1>5 DEF RejectCrc, RejectRoom, Deliver, Completes, Reset
  <2>2. /\ Len(buf) \in 3..(expected - 1) /\ expected <= BufSize /\ buf[1] = Preamble
        /\ expected = PayloadLen(buf[2], buf[3]) + 6
    BY <2>1 DEF AsmOK
  <2>3. /\ Len(buf) \in 3..(BufSize - 1)
        /\ Len(buf) + 1 = PayloadLen(buf[2], buf[3]) + 6 /\ Len(buf) + 1 <= BufSize
    BY <2>1, <2>2, BufSizeAssumption DEF AsmOK
  <2>4. \/ status' = "BadCrc" /\ ~ CrcOk(Grown(b)) /\ out' = out
        \/ /\ status' = "Overflow" /\ CrcOk(Grown(b)) /\ out' = out
           /\ outCap < expected
        \/ status' = "Ok" /\ CrcOk(Grown(b)) /\ out' = Grown(b)
    BY <1>5 DEF RejectCrc, RejectRoom, Deliver, Grown
  <2>5. expected = Len(buf) + 1
    BY <2>1, <2>2 DEF AsmOK
  <2> QED BY <2>1, <2>2, <2>3, <2>4, <2>5
<1> QED BY <1>1, <1>2, <1>3, <1>4, <1>5 DEF Feed

\* The length field stays within ten bits.
LEMMA PayloadLenType ==
  ASSUME NEW b1 \in Byte, NEW b2 \in Byte
  PROVE  PayloadLen(b1, b2) \in Nat /\ PayloadLen(b1, b2) <= 1023
BY DEF PayloadLen, Byte

\* A candidate extended by a byte.
LEMMA GrownFacts ==
  ASSUME buf \in Seq(Byte), NEW b \in Byte
  PROVE  /\ Grown(b) \in Seq(Byte) /\ Len(Grown(b)) = Len(buf) + 1
         /\ \A k \in 1..Len(buf) : Grown(b)[k] = buf[k]
         /\ Grown(b)[Len(buf) + 1] = b
BY DEF Grown

\* The members of the assembler keep agreeing with each other.
LEMMA AsmStep ==
  ASSUME AsmOK, NEW b \in Byte, NEW outCap \in Nat, Feed(b, outCap)
  PROVE  AsmOK'
<1>0. buf \in Seq(Byte) /\ out \in Seq(Byte) /\ Len(buf) \in Nat
  BY DEF AsmOK
<1>1. CASE SkipByte(b)
  BY <1>1 DEF SkipByte, ASMStatus, AsmOK
<1>2. CASE StartCandidate(b)
  <2>1. buf' = <<b>> /\ phase' = 1 /\ UNCHANGED <<expected, out>> /\ b = Preamble
        /\ status' = "NeedMore"
    BY <1>2 DEF StartCandidate
  <2>2. <<b>> \in Seq(Byte) /\ Len(<<b>>) = 1 /\ <<b>>[1] = b
    OBVIOUS
  <2> QED BY <2>1, <2>2 DEF ASMStatus, AsmOK
<1>3. CASE ReadLengthHigh(b)
  <2>1. buf' = Grown(b) /\ phase = 1 /\ phase' = 2 /\ UNCHANGED <<expected, out>>
        /\ status' = "NeedMore"
    BY <1>3 DEF ReadLengthHigh, Grown
  <2>2. Len(buf) = 1 /\ buf[1] = Preamble
    BY <2>1 DEF AsmOK
  <2>3. buf' \in Seq(Byte) /\ Len(buf') = 2 /\ buf'[1] = Preamble
    BY <1>0, <2>1, <2>2, GrownFacts
  <2>4. expected' \in Nat /\ out' \in Seq(Byte) /\ status' \in ASMStatus
    BY <2>1 DEF AsmOK, ASMStatus
  <2> QED BY <2>1, <2>3, <2>4 DEF AsmOK
<1>4. CASE ReadLengthLow(b)
  <2>1. /\ buf' = Grown(b) /\ phase = 2 /\ phase' = 3 /\ UNCHANGED out
        /\ status' = "NeedMore" /\ expected' = PayloadLen(buf[2], b) + 6
        /\ PayloadLen(buf[2], b) + 6 <= BufSize
    BY <1>4 DEF ReadLengthLow, Grown
  <2>2. Len(buf) = 2 /\ buf[1] = Preamble
    BY <2>1 DEF AsmOK
  <2>0. 2 \in 1..Len(buf)
    BY <2>2
  <2>3. buf[2] \in Byte
    BY <1>0, <2>0, ElementOfSeq
  <2>4. PayloadLen(buf[2], b) \in Nat
    BY <2>3, PayloadLenType
  <2>5. /\ buf' \in Seq(Byte) /\ Len(buf') = 3
        /\ buf'[1] = Preamble /\ buf'[2] = buf[2] /\ buf'[3] = b
    BY <1>0, <2>1, <2>2, GrownFacts
  <2>6. out' \in Seq(Byte) /\ status' \in ASMStatus
    BY <2>1 DEF AsmOK, ASMStatus
  <2>7. expected' \in Nat /\ Len(buf') \in 3..(expected' - 1) /\ expected' <= BufSize
        /\ expected' = PayloadLen(buf'[2], buf'[3]) + 6
    BY <2>1, <2>4, <2>5
  <2> QED BY <2>1, <2>5, <2>6, <2>7 DEF AsmOK
<1>5. CASE RejectLength(b) \/ RejectCrc(b) \/ RejectRoom(b, outCap)
  <2>1. Reset /\ out' = out /\ status' \in ASMStatus
    BY <1>5 DEF RejectLength, RejectCrc, RejectRoom, ASMStatus
  <2> QED BY <1>0, <2>1 DEF Reset, AsmOK
<1>6. CASE ReadBody(b)
  <2>1. /\ buf' = Grown(b) /\ phase = 3 /\ UNCHANGED <<phase, expected, out>>
        /\ status' = "NeedMore" /\ Len(buf) + 1 < expected
    BY <1>6 DEF ReadBody, Grown
  <2>2. /\ expected \in Nat /\ Len(buf) \in 3..(expected - 1) /\ expected <= BufSize
        /\ expected = PayloadLen(buf[2], buf[3]) + 6 /\ buf[1] = Preamble
    BY <2>1 DEF AsmOK
  <2>0. {1, 2, 3} \subseteq 1..Len(buf)
    BY <1>0, <2>2
  <2>3. /\ buf' \in Seq(Byte) /\ Len(buf') = Len(buf) + 1
        /\ buf'[1] = buf[1] /\ buf'[2] = buf[2] /\ buf'[3] = buf[3]
    BY <1>0, <2>0, <2>1, GrownFacts
  <2>4. Len(buf') \in 3..(expected - 1)
    BY <1>0, <2>1, <2>2, <2>3
  <2> QED BY <1>0, <2>1, <2>2, <2>3, <2>4 DEF AsmOK, ASMStatus
<1>7. CASE Deliver(b, outCap)
  <2>1. out' = Grown(b) /\ Reset /\ status' = "Ok"
    BY <1>7 DEF Deliver, Grown
  <2> QED BY <1>0, <2>1, GrownFacts DEF Reset, ASMStatus, AsmOK
<1> QED BY <1>1, <1>2, <1>3, <1>4, <1>5, <1>6, <1>7 DEF Feed

-----------------------------------------------------------------------------
(* A chunk of the line                                                       *)

\* What the buffer holds when p bytes of a chunk were fed.
Collected(chunk, p) == IF IsNoise(chunk) THEN <<>> ELSE SubSeq(chunk, 1, p)

\* A prefix of a chunk and the byte after it.
LEMMA PrefixGrows ==
  ASSUME NEW chunk \in Seq(Byte), NEW p \in 0..(Len(chunk) - 1), buf = SubSeq(chunk, 1, p)
  PROVE  /\ Len(buf) = p /\ \A k \in 1..p : buf[k] = chunk[k]
         /\ chunk[p + 1] \in Byte
         /\ Grown(chunk[p + 1]) = SubSeq(chunk, 1, p + 1)
         /\ p + 1 = Len(chunk) => SubSeq(chunk, 1, p + 1) = chunk
         /\ p = 0 => buf = <<>>
<1>1. Len(chunk) \in Nat /\ p \in Nat /\ p + 1 \in 1..Len(chunk)
  OBVIOUS
<1>2. /\ buf \in Seq(Byte) /\ Len(buf) = p /\ \A k \in 1..p : buf[k] = chunk[k]
  BY <1>1
<1>3. chunk[p + 1] \in Byte
  BY <1>1
<1> DEFINE w == SubSeq(chunk, 1, p + 1)
           g == Grown(chunk[p + 1])
<1>4. w \in Seq(Byte) /\ Len(w) = p + 1 /\ \A k \in 1..(p + 1) : w[k] = chunk[k]
  BY <1>1
<1>5. /\ g \in Seq(Byte) /\ Len(g) = p + 1 /\ g[p + 1] = chunk[p + 1]
      /\ \A k \in 1..p : g[k] = buf[k]
  BY ZenonT(30), <1>2, <1>3, GrownFacts
<1> HIDE DEF w, g
<1>6. \A k \in 1..(p + 1) : g[k] = w[k]
  BY <1>1, <1>2, <1>4, <1>5
<1>7. g = w
  BY <1>4, <1>5, <1>6, SeqEqual
<1>8. p + 1 = Len(chunk) => w = chunk
  BY <1>4, SeqEqual
<1>9. p = 0 => buf = <<>>
  BY <1>2
<1> QED BY <1>2, <1>3, <1>7, <1>8, <1>9 DEF w, g

\* Fed to an assembler that hunted where it began, a chunk is collected byte by byte
\* and ends with the status its bytes deserve, the buffer empty: so a line without
\* fragments keeps the assembler in step.
LEMMA ChunkStep ==
  ASSUME AsmOK, NEW chunk \in Seq(Byte),
         IsFrame(chunk) \/ IsTooLong(chunk) \/ IsNoise(chunk),
         NEW p \in 0..(Len(chunk) - 1), buf = Collected(chunk, p),
         NEW outCap \in Nat, outCap >= BufSize, Feed(chunk[p + 1], outCap)
  PROVE  /\ p + 1 < Len(chunk) =>
              status' = "NeedMore" /\ out' = out /\ buf' = Collected(chunk, p + 1)
         /\ p + 1 = Len(chunk) =>
              /\ buf' = <<>>
              /\ IsNoise(chunk) => status' = "NeedMore" /\ out' = out
              /\ IsTooLong(chunk) => status' = "Overflow" /\ out' = out
              /\ IsFrame(chunk) => IF CrcOk(chunk) THEN status' = "Ok" /\ out' = chunk
                                   ELSE status' = "BadCrc" /\ out' = out
<1> DEFINE b == chunk[p + 1]
           n == Len(chunk)
<1>1. n \in Nat /\ p \in Nat /\ p + 1 \in 1..n /\ b \in Byte /\ BufSize \in Nat
  BY BufSizeAssumption
<1>2. AsmOK'
  BY <1>1, AsmStep
<1>3. IsFrame(chunk) \/ IsTooLong(chunk) => chunk[1] = Preamble /\ ~ IsNoise(chunk) /\ n >= 3
  <2>1. IsFrame(chunk) \/ IsTooLong(chunk) => chunk[1] = Preamble /\ n >= 3
    BY <1>1 DEF IsFrame, IsTooLong
  <2>2. n >= 3 => 1 \in DOMAIN chunk
    BY <1>1
  <2> QED BY <2>1, <2>2 DEF IsNoise
<1>4. CASE IsNoise(chunk)
  <2>1. buf = <<>> /\ Collected(chunk, p + 1) = <<>>
    BY <1>4 DEF Collected
  <2>2. b # Preamble
    BY <1>1, <1>4 DEF IsNoise
  <2>3. Grown(b)[1] = b
    BY <2>1 DEF Grown
  <2>4. Len(buf) = 0
    BY <2>1
  <2>5. status' = "NeedMore" /\ buf' = <<>> /\ out' = out
    BY <1>1, <2>1, <2>2, <2>3, <2>4, FeedShape
  <2> QED BY <1>3, <1>4, <2>1, <2>5
<1>5. CASE ~ IsNoise(chunk)
  <2>1. buf = SubSeq(chunk, 1, p) /\ Collected(chunk, p + 1) = SubSeq(chunk, 1, p + 1)
    BY <1>5 DEF Collected
  <2> DEFINE w == SubSeq(chunk, 1, p + 1)
  <2>2. /\ Len(buf) = p /\ \A k \in 1..p : buf[k] = chunk[k]
        /\ Grown(b) = w /\ (p + 1 = n => w = chunk) /\ (p = 0 => buf = <<>>)
    BY <2>1, PrefixGrows
  <2> HIDE DEF w
  <2>3. chunk[1] = Preamble /\ n >= 3
    BY <1>3, <1>5
  <2>4. ~ (buf = <<>> /\ b # Preamble)
    <3>1. buf = <<>> => p = 0
      BY <2>2
    <3> QED BY <2>3, <3>1
  <2>5. CASE status' = "NeedMore" /\ buf' = Grown(b) /\ out' = out
    <3>1. p + 1 # n
      <4>1. SUFFICES ASSUME p + 1 = n PROVE FALSE
        OBVIOUS
      <4>2. buf' = chunk
        BY <2>2, <2>5, <4>1
      <4>3. phase' = 3
        BY <1>1, <1>2, <2>3, <4>2 DEF AsmOK
      <4>4. /\ n \in 3..(expected' - 1) /\ expected' <= BufSize /\ expected' \in Nat
            /\ expected' = PayloadLen(chunk[2], chunk[3]) + 6
        BY <1>2, <4>2, <4>3 DEF AsmOK
      <4> QED BY <1>1, <1>5, <4>4 DEF IsFrame, IsTooLong
    <3> QED BY <1>1, <2>1, <2>2, <2>5, <3>1 DEF w
  <2>6. CASE /\ status' = "Overflow" /\ buf' = <<>> /\ out' = out
             /\ Len(buf) = 2 /\ PayloadLen(buf[2], b) + 6 > BufSize
    <3>1. p = 2 /\ PayloadLen(chunk[2], chunk[3]) + 6 > BufSize
      BY <2>2, <2>6
    <3>2. ~ IsFrame(chunk)
      BY <1>1, <3>1 DEF IsFrame
    <3>3. IsTooLong(chunk) /\ n = 3
      BY <1>5, <3>2 DEF IsTooLong
    <3> QED BY <1>5, <2>6, <3>1, <3>2, <3>3
  <2>7. CASE /\ buf' = <<>> /\ Len(buf) \in 3..(BufSize - 1)
             /\ Len(buf) + 1 = PayloadLen(buf[2], buf[3]) + 6
             /\ Len(buf) + 1 <= BufSize
             /\ \/ status' = "BadCrc" /\ ~ CrcOk(Grown(b)) /\ out' = out
                \/ /\ status' = "Overflow" /\ CrcOk(Grown(b)) /\ out' = out
                   /\ outCap < Len(buf) + 1
                \/ status' = "Ok" /\ CrcOk(Grown(b)) /\ out' = Grown(b)
    <3>1. p >= 3 /\ buf[2] = chunk[2] /\ buf[3] = chunk[3]
      BY <1>1, <2>2, <2>7
    <3>2. ~ IsTooLong(chunk) /\ IsFrame(chunk)
      <4>1. n # 3
        BY <1>1, <3>1
      <4>2. IsTooLong(chunk) => n = 3
        BY DEF IsTooLong
      <4> QED BY Zenon, <1>5, <4>1, <4>2
    <3>3. p + 1 = n
      BY <2>2, <2>7, <3>1, <3>2 DEF IsFrame
    <3>4. Grown(b) = chunk
      BY <2>2, <3>3
    <3>5. ~ (outCap < Len(buf) + 1)
      BY <1>1, <2>2, <2>7
    <3> QED BY <1>5, <2>7, <3>2, <3>3, <3>4, <3>5
  <2> QED BY <1>1, <2>4, <2>5, <2>6, <2>7, FeedShape
<1> QED BY <1>4, <1>5

-----------------------------------------------------------------------------
(* The history                                                               *)

\* What the proofs keep at every step: the properties, less the one about aligned
\* frames, which they imply.
StreamInv ==
  /\ TypeOK /\ BufferIsStreamTail /\ VerdictsAreTrue
  /\ DeliveredFromStream /\ OnlyNoiseSkipped

More(s, b) == Append(s, b)

\* A byte more leaves the bytes before it, and the slices of them.
LEMMA Extended ==
  ASSUME NEW s \in Seq(Byte), NEW b \in Byte
  PROVE  LET t == More(s, b) IN
         /\ t \in Seq(Byte) /\ Len(t) = Len(s) + 1 /\ t[Len(s) + 1] = b
         /\ \A k \in 1..Len(s) : t[k] = s[k]
         /\ \A from, to \in Nat : to <= Len(s) => Slice(t, from, to) = Slice(s, from, to)
<1> DEFINE t == More(s, b)
<1>1. /\ t \in Seq(Byte) /\ Len(t) = Len(s) + 1 /\ t[Len(s) + 1] = b
      /\ \A k \in 1..Len(s) : t[k] = s[k]
  BY DEF More
<1> HIDE DEF t
<1>2. ASSUME NEW from \in Nat, NEW to \in Nat, to <= Len(s)
      PROVE  Slice(t, from, to) = Slice(s, from, to)
  <2>1. \A k \in 1..(to - from) : t[from + k] = s[from + k]
    BY <1>1, <1>2
  <2> QED BY <2>1 DEF Slice
<1> QED BY <1>1, <1>2 DEF t

Verdict == [from : Nat, to : Nat, verdict : {"Ok", "BadCrc", "Overflow", "Abandoned"}]

\* A verdict stays right when the stream goes on.
LEMMA VerdictKept ==
  ASSUME NEW s \in Seq(Byte), NEW b \in Byte,
         NEW v \in Verdict, v.to <= Len(s), VerdictTrue(s, v)
  PROVE  VerdictTrue(More(s, b), v)
<1> DEFINE t == More(s, b)
<1>f. /\ \A k \in 1..Len(s) : t[k] = s[k]
      /\ \A from, to \in Nat : to <= Len(s) => Slice(t, from, to) = Slice(s, from, to)
  BY Extended
<1> HIDE DEF t
<1> SUFFICES VerdictTrue(t, v)
  BY DEF t
<1>0. v.from \in Nat /\ v.to \in Nat /\ v.from < v.to /\ Len(s) \in Nat
  BY DEF Verdict, VerdictTrue
<1>1. Slice(t, v.from, v.to) = Slice(s, v.from, v.to)
  BY <1>0, <1>f
<1>2. \A k \in 1..Len(s) : t[k] = s[k]
  BY <1>f
<1>3. t[v.from + 1] = s[v.from + 1]
  BY <1>0, <1>2
<1>4. ASSUME v.to - v.from >= 3
      PROVE  t[v.from + 2] = s[v.from + 2] /\ t[v.from + 3] = s[v.from + 3]
  <2>1. v.from + 2 \in 1..Len(s) /\ v.from + 3 \in 1..Len(s)
    BY SMTT(60), <1>0, <1>4
  <2> QED BY <1>2, <2>1
<1>5. CASE v.verdict = "Abandoned"
  BY <1>3, <1>5 DEF VerdictTrue
<1>6. CASE v.verdict # "Abandoned"
  <2>1. t[v.from + 2] = s[v.from + 2] /\ t[v.from + 3] = s[v.from + 3]
    BY <1>4, <1>6 DEF VerdictTrue
  <2>2. WellFormed(t, v.from, v.to) <=> WellFormed(s, v.from, v.to)
    BY <1>1, <1>3, <2>1 DEF WellFormed
  <2> QED BY <1>1, <1>3, <2>1, <2>2 DEF VerdictTrue
<1> QED BY <1>5, <1>6

\* With its last byte the candidate is the newest slice of the stream.
LEMMA CandidateIsSlice ==
  ASSUME fed \in Seq(Byte), buf \in Seq(Byte), BufferIsStreamTail,
         NEW b \in Byte
  PROVE  LET t == More(fed, b) IN
         /\ Start \in Nat /\ Start + Len(buf) = Len(fed)
         /\ \A k \in 1..(Len(buf) + 1) : t[Start + k] = Grown(b)[k]
         /\ Slice(t, Start, Len(fed) + 1) = Grown(b)
<1> DEFINE t == More(fed, b)
<1>e. t[Len(fed) + 1] = b /\ (\A k \in 1..Len(fed) : t[k] = fed[k])
  BY Extended
<1> HIDE DEF t
<1>1. /\ Start \in Nat /\ Start + Len(buf) = Len(fed)
      /\ Len(buf) \in Nat /\ Len(fed) \in Nat
  BY DEF Start, BufferIsStreamTail
<1>2. ASSUME NEW k \in 1..(Len(buf) + 1) PROVE t[Start + k] = Grown(b)[k]
  <2>1. CASE k = Len(buf) + 1
    <3>1. Start + k = Len(fed) + 1
      BY <1>1, <2>1
    <3>2. t[Len(fed) + 1] = b
      BY <1>e
    <3>3. Grown(b)[Len(buf) + 1] = b
      BY GrownFacts
    <3> QED BY <2>1, <3>1, <3>2, <3>3
  <2>2. CASE k \in 1..Len(buf)
    <3>1. Start + k \in 1..Len(fed)
      BY <1>1, <2>2
    <3>2. t[Start + k] = fed[Start + k]
      BY <3>1, <1>e
    <3>3. buf[k] = fed[Start + k]
      BY <2>2 DEF BufferIsStreamTail
    <3>4. Grown(b)[k] = buf[k]
      BY <2>2, GrownFacts
    <3> QED BY <3>2, <3>3, <3>4
  <2>3. k = Len(buf) + 1 \/ k \in 1..Len(buf)
    BY <1>1
  <2> QED BY <2>1, <2>2, <2>3
<1>3. Len(fed) + 1 - Start = Len(buf) + 1
  BY <1>1
<1>4. Grown(b) = [k \in 1..(Len(buf) + 1) |-> Grown(b)[k]]
  <2>1. Grown(b) \in Seq(Byte) /\ Len(Grown(b)) = Len(buf) + 1
    BY GrownFacts
  <2> DEFINE g == Grown(b)
  <2>2. g = [k \in 1..Len(g) |-> g[k]]
    <3> HIDE DEF g
    <3>1. g \in Seq(Byte)
      BY <2>1 DEF g
    <3> QED BY <3>1
  <2> QED BY <2>1, <2>2
<1> DEFINE last == [k \in 1..(Len(buf) + 1) |-> t[Start + k]]
<1>5. Slice(t, Start, Len(fed) + 1) = last
  <2> DEFINE On(S) == [k \in S |-> t[Start + k]]
  <2>1. 1..((Len(fed) + 1) - Start) = 1..(Len(buf) + 1)
    BY <1>1
  <2>2. Slice(t, Start, Len(fed) + 1) = On(1..((Len(fed) + 1) - Start))
    BY Zenon DEF Slice
  <2>3. last = On(1..(Len(buf) + 1))
    OBVIOUS
  <2> HIDE DEF On, last
  <2> QED BY <2>1, <2>2, <2>3
<1>6. last = Grown(b)
  BY <1>2, <1>4
<1> HIDE DEF last
<1>7. Slice(t, Start, Len(fed) + 1) = Grown(b)
  BY <1>5, <1>6
<1> QED BY <1>1, <1>2, <1>7 DEF t

-----------------------------------------------------------------------------
(* The invariant                                                             *)

\* The empty stream satisfies the invariant.
LEMMA StreamInit == Init => StreamInv
<1> SUFFICES ASSUME Init PROVE StreamInv
  OBVIOUS
<1>1. fed = <<>> /\ verdicts = <<>> /\ buf = <<>> /\ out = <<>>
  BY DEF Init, AsmInit
<1>2. TypeOK
  BY <1>1 DEF Init, AsmInit, TypeOK, AsmOK, HistoryOK, ASMStatus
<1> QED BY <1>1, <1>2 DEF StreamInv, BufferIsStreamTail, VerdictsAreTrue,
                          DeliveredFromStream, OnlyNoiseSkipped, Start

\* A candidate that ends where the next may begin keeps the candidates in order
\* and covers the bytes it had.
LEMMA NewCandidate ==
  ASSUME HistoryOK, OnlyNoiseSkipped, Start \in Nat,
         NEW w \in Verdict, verdicts' = Append(verdicts, w),
         w.from = Start, w.from < w.to, w.to = Start',
         \A k \in 1..Start : fed'[k] = fed[k]
  PROVE  OnlyNoiseSkipped'
<1> DEFINE n == Len(verdicts)
<1>1. verdicts \in Seq(Verdict) /\ n \in Nat
  BY DEF HistoryOK, Verdict
<1>2. /\ DOMAIN verdicts = 1..n /\ DOMAIN verdicts' = 1..(n + 1)
      /\ verdicts'[n + 1] = w /\ \A i \in 1..n : verdicts'[i] = verdicts[i]
  BY <1>1
<1>3. \A i \in 1..n : verdicts[i].from \in Nat /\ verdicts[i].to \in Nat
  <2>1. \A i \in 1..n : verdicts[i] \in Verdict
    BY <1>1, ElementOfSeq
  <2> QED BY <2>1 DEF Verdict
<1>4. w.from \in Nat /\ w.to \in Nat
  BY DEF Verdict
<1> HIDE DEF n
<1>5. ASSUME NEW i \in 1..(n + 1)
      PROVE  verdicts'[i].to <= Start'
  <2>1. CASE i \in 1..n
    <3>1. verdicts[i].to <= Start
      BY Zenon, <1>2, <2>1 DEF OnlyNoiseSkipped
    <3> HIDE DEF Start
    <3>2. verdicts[i].to \in Nat /\ verdicts'[i] = verdicts[i]
      BY Zenon, <1>2, <1>3, <2>1
    <3> QED BY <1>4, <3>1, <3>2
  <2>2. CASE i = n + 1
    BY <1>2, <1>4, <2>2
  <2>3. n \in Nat
    BY <1>1
  <2>4. i \in 1..n \/ i = n + 1
    BY <2>3
  <2> QED BY Zenon, <2>1, <2>2, <2>4
<1>6. ASSUME NEW i \in 1..(n + 1), NEW j \in 1..(n + 1), i < j
      PROVE  verdicts'[i].to <= verdicts'[j].from
  <2>1. i \in 1..n /\ (j \in 1..n \/ j = n + 1)
    BY <1>1, <1>6
  <2> QED BY <1>2, <1>6, <2>1 DEF OnlyNoiseSkipped
<1>7. ASSUME NEW k \in 1..Start', fed'[k] = Preamble
      PROVE  \E i \in 1..(n + 1) : verdicts'[i].from < k /\ k <= verdicts'[i].to
  <2>1. CASE k \in 1..Start
    <3>1. PICK i \in 1..n : verdicts[i].from < k /\ k <= verdicts[i].to
      BY <1>2, <1>7, <2>1 DEF OnlyNoiseSkipped
    <3> QED BY <1>1, <1>2, <3>1
  <2>2. CASE k \notin 1..Start
    <3>1. w.from < k /\ k <= w.to /\ n + 1 \in 1..(n + 1)
      BY <1>1, <1>4, <2>2
    <3> QED BY <1>2, <3>1
  <2> QED BY <2>1, <2>2
<1> QED BY <1>2, <1>5, <1>6, <1>7 DEF OnlyNoiseSkipped

\* The verdicts given stay right, and out stays a slice, when a byte is fed.
LEMMA OldVerdicts ==
  ASSUME StreamInv, NEW b \in Byte
  PROVE  /\ \A i \in DOMAIN verdicts : VerdictTrue(More(fed, b), verdicts[i])
         /\ \/ out = <<>>
            \/ \E i \in DOMAIN verdicts :
                 /\ verdicts[i].verdict = "Ok"
                 /\ out = Slice(More(fed, b), verdicts[i].from, verdicts[i].to)
<1>1. fed \in Seq(Byte) /\ verdicts \in Seq(Verdict) /\ buf \in Seq(Byte)
  BY DEF StreamInv, TypeOK, HistoryOK, AsmOK, Verdict
<1>2. \A i \in DOMAIN verdicts : verdicts[i] \in Verdict /\ verdicts[i].to <= Len(fed)
  <2>1. Start \in Nat /\ Start <= Len(fed) /\ Len(fed) \in Nat
    BY <1>1 DEF StreamInv, BufferIsStreamTail, Start
  <2>2. \A i \in DOMAIN verdicts : verdicts[i] \in Verdict /\ verdicts[i].to <= Start
    BY <1>1 DEF StreamInv, OnlyNoiseSkipped
  <2>3. \A v \in Verdict : v.to \in Nat
    BY DEF Verdict
  <2> QED BY <2>1, <2>2, <2>3
<1>3. \A i \in DOMAIN verdicts : VerdictTrue(More(fed, b), verdicts[i])
  BY <1>1, <1>2, VerdictKept DEF StreamInv, VerdictsAreTrue
<1>4. ASSUME NEW i \in DOMAIN verdicts
      PROVE  Slice(More(fed, b), verdicts[i].from, verdicts[i].to)
               = Slice(fed, verdicts[i].from, verdicts[i].to)
  <2>1. verdicts[i].from \in Nat /\ verdicts[i].to \in Nat /\ verdicts[i].to <= Len(fed)
    BY <1>2 DEF Verdict
  <2>2. \A from, to \in Nat :
          to <= Len(fed) => Slice(More(fed, b), from, to) = Slice(fed, from, to)
    BY <1>1, Extended
  <2> QED BY <2>1, <2>2
<1> QED BY <1>3, <1>4 DEF StreamInv, DeliveredFromStream

\* A byte fed keeps the invariant.
LEMMA FeedKeeps ==
  ASSUME StreamInv, NEW b \in Bytes, NEW outCap \in OutCaps, FeedByte(b, outCap)
  PROVE  StreamInv'
<1> DEFINE t == More(fed, b)
           w == [from |-> Start, to |-> Len(fed) + 1, verdict |-> status']
<1>1. /\ AsmOK /\ HistoryOK /\ BufferIsStreamTail /\ OnlyNoiseSkipped
      /\ b \in Byte /\ outCap \in Nat
      /\ fed \in Seq(Byte) /\ buf \in Seq(Byte) /\ verdicts \in Seq(Verdict)
  BY StreamAssumption DEF StreamInv, TypeOK, AsmOK, HistoryOK, Verdict
<1>2. AsmOK'
  BY <1>1, AsmStep DEF FeedByte
<1>3. /\ t \in Seq(Byte) /\ Len(t) = Len(fed) + 1 /\ t[Len(fed) + 1] = b
      /\ \A k \in 1..Len(fed) : t[k] = fed[k]
  BY <1>1, Extended
<1>4. /\ Start \in Nat /\ Start + Len(buf) = Len(fed)
      /\ Len(buf) \in Nat /\ Len(fed) \in Nat
      /\ \A k \in 1..(Len(buf) + 1) : t[Start + k] = Grown(b)[k]
      /\ Slice(t, Start, Len(fed) + 1) = Grown(b)
  BY <1>1, CandidateIsSlice
<1>5. /\ \A i \in DOMAIN verdicts : VerdictTrue(t, verdicts[i])
      /\ \/ out = <<>>
         \/ \E i \in DOMAIN verdicts :
              verdicts[i].verdict = "Ok" /\ out = Slice(t, verdicts[i].from, verdicts[i].to)
  BY <1>1, OldVerdicts
<1>6. /\ Grown(b) \in Seq(Byte) /\ Len(Grown(b)) = Len(buf) + 1
      /\ \A k \in 1..Len(buf) : Grown(b)[k] = buf[k]
      /\ Grown(b)[Len(buf) + 1] = b
  BY <1>1, GrownFacts
<1>7. fed' = t
  BY DEF FeedByte, More
<1>8. verdicts' = IF status' = "NeedMore" THEN verdicts ELSE Append(verdicts, w)
  BY DEF FeedByte, Candidate, Start
<1> HIDE DEF t
<1>9. CASE status' = "NeedMore"
  <2>1. /\ out' = out
        /\ \/ buf = <<>> /\ buf' = <<>> /\ b # Preamble
           \/ buf' = Grown(b)
    BY <1>1, <1>9, FeedShape DEF FeedByte
  <2>2. verdicts' = verdicts
    BY <1>8, <1>9
  <2>3. HistoryOK'
    BY <1>1, <1>3, <1>7, <2>2 DEF HistoryOK
  <2>4. VerdictsAreTrue' /\ DeliveredFromStream'
    BY <1>5, <1>7, <2>1, <2>2 DEF VerdictsAreTrue, DeliveredFromStream
  <2>5. CASE buf = <<>> /\ buf' = <<>> /\ b # Preamble
    <3>1. Start = Len(fed) /\ Start' = Len(fed) + 1
      BY <1>3, <1>4, <1>7, <2>5 DEF Start
    <3>2. BufferIsStreamTail'
      BY <1>3, <1>4, <1>7, <2>5 DEF BufferIsStreamTail
    <3>3. ASSUME NEW k \in 1..Start', t[k] = Preamble
          PROVE  k \in 1..Start /\ fed[k] = Preamble
      BY <1>3, <1>4, <2>5, <3>1, <3>3
    <3>4. \A i \in DOMAIN verdicts : verdicts[i].to <= Start'
      <4>1. \A i \in DOMAIN verdicts : verdicts[i].to \in Nat /\ verdicts[i].to <= Start
        <5>1. \A i \in DOMAIN verdicts : verdicts[i] \in Verdict
          BY <1>1
        <5> QED BY <1>1, <5>1 DEF OnlyNoiseSkipped, Verdict
      <4> QED BY <1>4, <3>1, <4>1
    <3>5. OnlyNoiseSkipped'
      BY <1>1, <1>7, <2>2, <3>3, <3>4 DEF OnlyNoiseSkipped
    <3> QED BY <1>2, <2>3, <2>4, <3>2, <3>5 DEF StreamInv, TypeOK
  <2>6. CASE buf' = Grown(b)
    <3>1. Start' = Start /\ Len(buf') = Len(buf) + 1
      <4>1. Len(buf') = Len(buf) + 1 /\ Len(fed') = Len(fed) + 1
        BY <1>3, <1>6, <1>7, <2>6
      <4>2. Start' = Len(fed') - Len(buf') /\ Start = Len(fed) - Len(buf)
        BY DEF Start
      <4> HIDE DEF Start
      <4> QED BY <1>4, <4>1, <4>2
    <3>2. BufferIsStreamTail'
      BY <1>3, <1>4, <1>7, <2>6, <3>1 DEF BufferIsStreamTail
    <3>3. \A k \in 1..Start : t[k] = fed[k]
      BY <1>3, <1>4
    <3>4. OnlyNoiseSkipped'
      BY <1>1, <1>7, <2>2, <3>1, <3>3 DEF OnlyNoiseSkipped
    <3> QED BY <1>2, <2>3, <2>4, <3>2, <3>4 DEF StreamInv, TypeOK
  <2> QED BY <2>1, <2>5, <2>6
<1>10. CASE status' # "NeedMore"
  <2>1. /\ buf' = <<>> /\ Len(buf) \in Nat \ {0, 1} /\ buf[1] = Preamble
        /\ \/ /\ status' = "Overflow" /\ out' = out /\ Len(buf) = 2
              /\ PayloadLen(buf[2], b) + 6 > BufSize
           \/ /\ Len(buf) >= 3 /\ Len(buf) + 1 = PayloadLen(buf[2], buf[3]) + 6
              /\ Len(buf) + 1 <= BufSize
              /\ \/ status' = "BadCrc" /\ ~ CrcOk(Grown(b)) /\ out' = out
                 \/ status' = "Overflow" /\ CrcOk(Grown(b)) /\ out' = out
                 \/ status' = "Ok" /\ CrcOk(Grown(b)) /\ out' = Grown(b)
    BY <1>1, <1>4, <1>10, FeedShape, BufSizeAssumption DEF FeedByte
  <2>2. verdicts' = Append(verdicts, w)
    BY <1>8, <1>10
  <2>3. w \in Verdict /\ w.from = Start /\ w.to = Len(fed) + 1 /\ w.verdict = status'
    BY <1>4, <2>1 DEF Verdict
  <2>4. t[Start + 1] = buf[1] /\ t[Start + 2] = buf[2]
    <3>1. 1 \in 1..Len(buf) /\ 2 \in 1..Len(buf)
      BY <2>1
    <3>2. \A k \in 1..Len(buf) : t[Start + k] = buf[k]
      BY <1>4, <1>6
    <3> QED BY <3>1, <3>2
  <2>5. t[Start + 3] = IF Len(buf) = 2 THEN b ELSE buf[3]
    <3>1. 3 \in 1..(Len(buf) + 1) /\ (Len(buf) # 2 => 3 \in 1..Len(buf))
      BY <2>1
    <3> QED BY SMTT(30), <1>4, <1>6, <3>1
  <2>6. (Len(fed) + 1) - Start = Len(buf) + 1
    BY <1>4
  <2> HIDE DEF w
  <2>s. Slice(t, w.from, w.to) = Grown(b) /\ w.to - w.from = Len(buf) + 1
    BY <1>4, <2>3, <2>6
  <2>p. /\ t[w.from + 1] = Preamble /\ t[w.from + 2] = buf[2]
        /\ t[w.from + 3] = IF Len(buf) = 2 THEN b ELSE buf[3]
    BY <2>1, <2>3, <2>4, <2>5
  <2>7. ASSUME Len(buf) >= 3, Len(buf) + 1 = PayloadLen(buf[2], buf[3]) + 6,
               Len(buf) + 1 <= BufSize
        PROVE  /\ w.to - w.from = PayloadLen(t[w.from + 2], t[w.from + 3]) + 6
               /\ CrcOk(Grown(b)) => WellFormed(t, w.from, w.to)
    <3>1. t[w.from + 3] = buf[3]
      BY <1>4, <2>7, <2>p
    <3>2. w.to - w.from = PayloadLen(t[w.from + 2], t[w.from + 3]) + 6
      BY <2>7, <2>p, <2>s, <3>1
    <3>3. PayloadLen(t[w.from + 2], t[w.from + 3]) \in Nat
      <4>1. t[w.from + 2] \in Byte /\ t[w.from + 3] \in Byte
        BY <1>1, <1>4, <2>7, <2>p, <3>1
      <4> QED BY <4>1, PayloadLenType
    <3>4. w.to - w.from \in 6..BufSize
      BY <1>4, <2>7, <2>s, <3>2, <3>3, BufSizeAssumption
    <3> QED BY <2>p, <2>s, <3>2, <3>4 DEF WellFormed
  <2>8. VerdictTrue(t, w)
    <3>1. w.from < w.to /\ w.to - w.from >= 3
      BY <1>4, <2>1, <2>3
    <3>2. CASE status' = "Overflow" /\ Len(buf) = 2 /\ PayloadLen(buf[2], b) + 6 > BufSize
      BY <2>3, <2>p, <3>1, <3>2 DEF VerdictTrue
    <3>3. CASE /\ Len(buf) >= 3 /\ Len(buf) + 1 = PayloadLen(buf[2], buf[3]) + 6
               /\ Len(buf) + 1 <= BufSize
               /\ \/ status' = "BadCrc" /\ ~ CrcOk(Grown(b))
                  \/ status' \in {"Overflow", "Ok"} /\ CrcOk(Grown(b))
      BY <2>3, <2>7, <2>p, <2>s, <3>1, <3>3 DEF VerdictTrue
    <3> QED BY <2>1, <3>2, <3>3
  <2>9. /\ DOMAIN verdicts' = 1..(Len(verdicts) + 1) /\ DOMAIN verdicts = 1..Len(verdicts)
        /\ verdicts'[Len(verdicts) + 1] = w /\ Len(verdicts) \in Nat
        /\ \A i \in 1..Len(verdicts) : verdicts'[i] = verdicts[i]
    BY <1>1, <2>2, <2>3
  <2>10. HistoryOK'
    BY <1>1, <1>3, <1>7, <2>2, <2>3 DEF HistoryOK, Verdict
  <2>11. VerdictsAreTrue'
    BY <1>5, <1>7, <2>8, <2>9 DEF VerdictsAreTrue
  <2>12. Start' = Len(fed) + 1 /\ BufferIsStreamTail'
    BY <1>3, <1>4, <1>7, <2>1 DEF Start, BufferIsStreamTail
  <2>13. OnlyNoiseSkipped'
    BY <1>1, <1>3, <1>4, <1>7, <2>2, <2>3, <2>12, NewCandidate
  <2>14. DeliveredFromStream'
    <3>1. CASE out' = out /\ out # <<>>
      <4>1. PICK i \in DOMAIN verdicts :
               verdicts[i].verdict = "Ok" /\ out = Slice(t, verdicts[i].from, verdicts[i].to)
        BY <1>5, <3>1
      <4>2. i \in DOMAIN verdicts' /\ verdicts'[i] = verdicts[i]
        BY <2>9, <4>1
      <4> QED BY Zenon, <1>7, <3>1, <4>1, <4>2 DEF DeliveredFromStream
    <3>2. CASE out' = out /\ out = <<>>
      BY Zenon, <3>2 DEF DeliveredFromStream
    <3>3. CASE status' = "Ok" /\ out' = Grown(b)
      <4> DEFINE last == Len(verdicts) + 1
      <4>1. last \in DOMAIN verdicts' /\ verdicts'[last] = w
        BY <2>9
      <4>2. w.verdict = "Ok" /\ out' = Slice(t, w.from, w.to)
        BY Zenon, <2>3, <2>s, <3>3
      <4> HIDE DEF last
      <4> QED BY Zenon, <1>7, <4>1, <4>2 DEF DeliveredFromStream
    <3> QED BY <2>1, <3>1, <3>2, <3>3
  <2> QED BY <1>2, <2>10, <2>11, <2>12, <2>13, <2>14 DEF StreamInv, TypeOK
<1> QED BY <1>9, <1>10

\* reset() keeps the invariant: the candidate it abandons is the newest.
LEMMA AbandonKeeps ==
  ASSUME StreamInv, Abandon
  PROVE  StreamInv'
<1> DEFINE w == [from |-> Start, to |-> Len(fed), verdict |-> "Abandoned"]
<1>1. /\ AsmOK /\ HistoryOK /\ BufferIsStreamTail /\ OnlyNoiseSkipped
      /\ fed \in Seq(Byte) /\ buf \in Seq(Byte) /\ verdicts \in Seq(Verdict)
  BY DEF StreamInv, TypeOK, AsmOK, HistoryOK, Verdict
<1>2. /\ buf # <<>> /\ buf' = <<>> /\ phase' = 0 /\ expected' = 0
      /\ UNCHANGED <<status, out, fed>>
      /\ verdicts' = Append(verdicts, w)
  BY DEF Abandon, ResetAssembler, Reset, Candidate, Start
<1>3. AsmOK'
  BY <1>1, <1>2 DEF AsmOK
<1>4. /\ Start \in Nat /\ Start + Len(buf) = Len(fed) /\ Len(fed) \in Nat
      /\ Len(buf) \in Nat \ {0} /\ Start' = Len(fed)
  BY <1>1, <1>2 DEF Start, BufferIsStreamTail
<1>5. w \in Verdict /\ w.from = Start /\ w.to = Len(fed) /\ w.verdict = "Abandoned"
  BY <1>4 DEF Verdict
<1> HIDE DEF w
<1>6. VerdictTrue(fed, w)
  <2>1. buf[1] = Preamble /\ 1 \in 1..Len(buf)
    BY <1>1, <1>2, <1>4 DEF AsmOK
  <2>2. fed[Start + 1] = Preamble
    BY <1>1, <2>1 DEF BufferIsStreamTail
  <2> QED BY <1>4, <1>5, <2>2 DEF VerdictTrue
<1>7. /\ DOMAIN verdicts' = 1..(Len(verdicts) + 1) /\ DOMAIN verdicts = 1..Len(verdicts)
      /\ verdicts'[Len(verdicts) + 1] = w /\ Len(verdicts) \in Nat
      /\ \A i \in 1..Len(verdicts) : verdicts'[i] = verdicts[i]
  BY <1>1, <1>2, <1>5
<1>8. HistoryOK'
  BY <1>1, <1>2, <1>5 DEF HistoryOK, Verdict
<1>9. VerdictsAreTrue'
  BY <1>2, <1>6, <1>7 DEF StreamInv, VerdictsAreTrue
<1>10. BufferIsStreamTail'
  BY <1>2, <1>4 DEF BufferIsStreamTail
<1>11. OnlyNoiseSkipped'
  BY <1>1, <1>2, <1>4, <1>5, NewCandidate
<1>12. DeliveredFromStream'
  BY <1>2, <1>7 DEF StreamInv, DeliveredFromStream
<1> QED BY <1>3, <1>8, <1>9, <1>10, <1>11, <1>12 DEF StreamInv, TypeOK

\* Every step keeps the invariant.
LEMMA StreamStep == StreamInv /\ [Next]_vars => StreamInv'
<1> SUFFICES ASSUME StreamInv, [Next]_vars PROVE StreamInv'
  OBVIOUS
<1>1. ASSUME NEW b \in Bytes, NEW outCap \in OutCaps, FeedByte(b, outCap)
      PROVE  StreamInv'
  BY <1>1, FeedKeeps
<1>2. CASE Abandon
  BY <1>2, AbandonKeeps
<1>3. CASE UNCHANGED vars
  BY <1>3 DEF vars, asmVars, StreamInv, TypeOK, AsmOK, HistoryOK, BufferIsStreamTail,
              VerdictsAreTrue, DeliveredFromStream, OnlyNoiseSkipped, Start
<1> QED BY <1>1, <1>2, <1>3 DEF Next

\* A candidate that begins where a well-formed frame does is that frame, unless it
\* was abandoned: its first bytes say where it ends, and they fit.
LEMMA CandidateIsFrame ==
  ASSUME NEW s, NEW v \in Verdict, VerdictTrue(s, v), v.verdict # "Abandoned",
         NEW to \in Nat, WellFormed(s, v.from, to)
  PROVE  v.to = to /\ v.verdict \in {"Ok", "Overflow"}
<1> DEFINE n == PayloadLen(s[v.from + 2], s[v.from + 3]) + 6
<1>1. v.from \in Nat /\ v.to \in Nat
  BY DEF Verdict
<1>2. to - v.from = n /\ to - v.from \in 6..BufSize /\ CrcOk(Slice(s, v.from, to))
  BY DEF WellFormed
<1>3. v.verdict \in {"Ok", "Overflow"} /\ WellFormed(s, v.from, v.to) => v.to - v.from = n
  BY DEF WellFormed
<1>4. v.verdict = "BadCrc" => v.to - v.from = n /\ ~ CrcOk(Slice(s, v.from, v.to))
  BY DEF VerdictTrue
<1>5. v.verdict = "Overflow" => WellFormed(s, v.from, v.to) \/ n > BufSize
  BY DEF VerdictTrue
<1>6. v.verdict = "Ok" => WellFormed(s, v.from, v.to)
  BY DEF VerdictTrue
<1>7. v.verdict \in {"Ok", "BadCrc", "Overflow"}
  BY DEF Verdict
<1> HIDE DEF n
<1>8. ~ (n > BufSize)
  BY <1>1, <1>2, BufSizeAssumption
<1>9. v.to - v.from = n => v.to = to
  BY <1>1, <1>2
<1> QED BY <1>2, <1>3, <1>4, <1>5, <1>6, <1>7, <1>8, <1>9

\* The invariant implies that aligned frames are not missed.
LEMMA AlignedDelivered == StreamInv => AlignedFrameDelivered
<1> SUFFICES ASSUME StreamInv, NEW from \in 0..Len(fed), NEW to \in 0..Len(fed),
                    from < to, Boundary(from), WellFormed(fed, from, to)
             PROVE  \E i \in DOMAIN verdicts :
                      /\ verdicts[i].from = from
                      /\ \/ verdicts[i].to = to /\ verdicts[i].verdict \in {"Ok", "Overflow"}
                         \/ verdicts[i].verdict = "Abandoned"
  BY DEF AlignedFrameDelivered
<1>1. /\ AsmOK /\ BufferIsStreamTail /\ OnlyNoiseSkipped /\ VerdictsAreTrue
      /\ fed \in Seq(Byte) /\ buf \in Seq(Byte) /\ verdicts \in Seq(Verdict)
  BY DEF StreamInv, TypeOK, AsmOK, HistoryOK, Verdict
<1>2. /\ Start \in Nat /\ Start + Len(buf) = Len(fed)
      /\ Len(buf) \in Nat /\ Len(fed) \in Nat /\ from <= Start
  BY <1>1 DEF Start, BufferIsStreamTail, Boundary
<1>3. from # Start
  <2> SUFFICES ASSUME from = Start PROVE FALSE
    OBVIOUS
  <2>1. /\ to - from \in 6..BufSize
        /\ to - from = PayloadLen(fed[from + 2], fed[from + 3]) + 6
    BY DEF WellFormed
  <2>2. Len(buf) >= to - from /\ Len(buf) >= 6
    BY <1>2, <2>1, BufSizeAssumption
  <2>3. phase = 3
    BY <1>1, <2>2 DEF AsmOK
  <2>4. Len(buf) < PayloadLen(buf[2], buf[3]) + 6
    <3>1. /\ expected \in Nat /\ Len(buf) \in 3..(expected - 1)
          /\ expected = PayloadLen(buf[2], buf[3]) + 6
      BY <1>1, <2>3 DEF AsmOK
    <3> QED BY <1>2, <3>1
  <2>5. buf[2] = fed[from + 2] /\ buf[3] = fed[from + 3]
    <3>1. 2 \in 1..Len(buf) /\ 3 \in 1..Len(buf)
      BY <1>2, <2>2
    <3> QED BY <1>1, <3>1 DEF BufferIsStreamTail
  <2> QED BY <1>2, <2>1, <2>2, <2>4, <2>5
<1>4. from + 1 \in 1..Start /\ fed[from + 1] = Preamble
  BY <1>2, <1>3 DEF WellFormed
<1>5. PICK i \in DOMAIN verdicts : verdicts[i].from < from + 1 /\ from + 1 <= verdicts[i].to
  BY <1>1, <1>4 DEF OnlyNoiseSkipped
<1>6. verdicts[i] \in Verdict /\ VerdictTrue(fed, verdicts[i])
  BY <1>1 DEF VerdictsAreTrue
<1>7. verdicts[i].from = from
  <2>1. verdicts[i].from \in Nat /\ verdicts[i].to \in Nat
    BY <1>6 DEF Verdict
  <2>2. ~ (verdicts[i].from < from /\ from < verdicts[i].to)
    BY DEF Boundary
  <2> QED BY <1>2, <1>5, <2>1, <2>2
<1>8. verdicts[i].verdict # "Abandoned" =>
        verdicts[i].to = to /\ verdicts[i].verdict \in {"Ok", "Overflow"}
  BY <1>6, <1>7, CandidateIsFrame
<1> QED BY <1>7, <1>8

-----------------------------------------------------------------------------
(* The theorems                                                              *)

\* The invariant holds throughout.
LEMMA StreamAlways == Spec => []StreamInv
BY StreamInit, StreamStep, PTL DEF Spec

\* The members of the assembler and the history always have their types.
THEOREM TypeCorrect == Spec => []TypeOK
<1>1. StreamInv => TypeOK
  BY DEF StreamInv
<1> QED BY StreamAlways, <1>1, PTL

\* buf_ always holds the newest bytes of the stream.
THEOREM BufferHoldsTail == Spec => []BufferIsStreamTail
<1>1. StreamInv => BufferIsStreamTail
  BY DEF StreamInv
<1> QED BY StreamAlways, <1>1, PTL

\* Every verdict feed() gives is right for the bytes of its candidate.
THEOREM VerdictsTrue == Spec => []VerdictsAreTrue
<1>1. StreamInv => VerdictsAreTrue
  BY DEF StreamInv
<1> QED BY StreamAlways, <1>1, PTL

\* What feed() hands out is a slice of the stream that it found good.
THEOREM DeliveredIsSlice == Spec => []DeliveredFromStream
<1>1. StreamInv => DeliveredFromStream
  BY DEF StreamInv
<1> QED BY StreamAlways, <1>1, PTL

\* Candidates do not overlap, and every preamble byte belongs to one.
THEOREM NoiseOnlySkipped == Spec => []OnlyNoiseSkipped
<1>1. StreamInv => OnlyNoiseSkipped
  BY DEF StreamInv
<1> QED BY StreamAlways, <1>1, PTL

\* A well-formed frame that begins where the assembler hunts is never missed.
THEOREM AlignedFramesFound == Spec => []AlignedFrameDelivered
BY StreamAlways, AlignedDelivered, PTL

-----------------------------------------------------------------------------
(* A line that repeats its frames                                            *)

\* The line is at a byte of one of its frames, and the members agree.
SyncInv == AsmOK /\ at \in Positions /\ damage \in Nat

\* The byte the line sends is the next of a frame, and it goes on to the one after.
LEMMA LineAdvances ==
  ASSUME at \in Positions, Advance
  PROVE  /\ at[1] \in DOMAIN Frames /\ at[2] \in 1..Len(Frames[at[1]])
         /\ Frames[at[1]] \in Seq(Byte) /\ Len(Frames[at[1]]) \in Nat
         /\ IsFrame(Frames[at[1]]) /\ Sent \in Byte
         /\ at' \in Positions
         /\ IF at[2] < Len(Frames[at[1]]) THEN at'[1] = at[1] /\ at'[2] = at[2] + 1
            ELSE at'[2] = 1
<1> DEFINE i == at[1]
           k == at[2]
           n == Len(Frames)
<1>1. i \in DOMAIN Frames /\ k \in 1..BufSize /\ k <= Len(Frames[i])
  BY DEF Positions
<1>2. Frames[i] \in Seq(Byte) /\ IsFrame(Frames[i]) /\ n \in Nat /\ DOMAIN Frames = 1..n
  BY <1>1, SyncAssumption
<1>3. Len(Frames[i]) \in Nat /\ k \in 1..Len(Frames[i]) /\ Len(Frames[i]) <= BufSize
  BY <1>1, <1>2, BufSizeAssumption DEF IsFrame
<1>4. Sent \in Byte
  BY <1>2, <1>3, ElementOfSeq DEF Sent
<1>5. CASE k < Len(Frames[i])
  <2>1. at' = <<i, k + 1>>
    BY <1>5 DEF Advance
  <2>2. k + 1 \in 1..BufSize /\ k + 1 <= Len(Frames[i])
    BY <1>3, <1>5, BufSizeAssumption
  <2>3. at' \in Positions
    BY <1>1, <2>1, <2>2 DEF Positions
  <2> QED BY <1>1, <1>2, <1>3, <1>4, <1>5, <2>1, <2>3
<1>6. CASE ~ (k < Len(Frames[i]))
  <2> DEFINE j == (i % n) + 1
  <2>1. at' = <<j, 1>>
    BY <1>6 DEF Advance
  <2>2. j \in DOMAIN Frames
    BY <1>1, <1>2
  <2> HIDE DEF j
  <2>3. 1 <= Len(Frames[j]) /\ 1 \in 1..BufSize
    BY <2>2, SyncAssumption, BufSizeAssumption DEF IsFrame
  <2>4. at' \in Positions
    BY <2>1, <2>2, <2>3 DEF Positions
  <2> QED BY <1>1, <1>2, <1>3, <1>4, <1>6, <2>1, <2>4
<1> QED BY <1>5, <1>6

\* Wherever the line is joined and whatever is damaged, the invariant holds.
LEMMA SyncStep == SyncInv /\ [SyncNext]_syncVars => SyncInv'
<1> SUFFICES ASSUME SyncInv, [SyncNext]_syncVars PROVE SyncInv'
  OBVIOUS
<1>1. BufSize \in Nat
  BY BufSizeAssumption
<1>2. CASE FeedSent
  <2>1. at' \in Positions /\ Sent \in Byte
    BY <1>2, LineAdvances DEF FeedSent, SyncInv
  <2>2. AsmOK'
    BY <1>1, <1>2, <2>1, AsmStep DEF FeedSent, SyncInv
  <2> QED BY <1>2, <2>1, <2>2 DEF FeedSent, SyncInv
<1>3. CASE FeedDamaged
  <2>1. PICK b \in Noise \ {Sent} : Feed(b, BufSize)
    BY <1>3 DEF FeedDamaged
  <2>2. at' \in Positions /\ b \in Byte
    BY <1>3, LineAdvances, SyncAssumption DEF FeedDamaged, SyncInv
  <2>3. AsmOK'
    BY <1>1, <2>1, <2>2, AsmStep DEF SyncInv
  <2> QED BY <1>3, <2>2, <2>3 DEF FeedDamaged, SyncInv
<1>4. CASE UNCHANGED syncVars
  BY <1>4 DEF syncVars, asmVars, SyncInv, AsmOK, Positions
<1> QED BY <1>2, <1>3, <1>4 DEF SyncNext

\* A byte of a frame, sent as it is, is collected as part of that frame.
LEMMA SentKeepsStep ==
  ASSUME SyncInv, InStep, FeedSent
  PROVE  InStep'
<1> DEFINE chunk == Frames[at[1]]
           p == at[2] - 1
<1>1. /\ chunk \in Seq(Byte) /\ Len(chunk) \in Nat /\ IsFrame(chunk)
      /\ at[2] \in 1..Len(chunk) /\ at' \in Positions
      /\ IF at[2] < Len(chunk) THEN at'[1] = at[1] /\ at'[2] = at[2] + 1 ELSE at'[2] = 1
  BY LineAdvances DEF SyncInv, FeedSent
<1>2. p \in 0..(Len(chunk) - 1) /\ p + 1 = at[2]
  BY <1>1
<1>3. ~ IsNoise(chunk)
  BY <1>1 DEF IsNoise, IsFrame
<1>4. Collected(chunk, p) = buf /\ Collected(chunk, p + 1) = SubSeq(chunk, 1, p + 1)
  BY <1>3 DEF Collected, InStep
<1>5. Feed(chunk[p + 1], BufSize) /\ BufSize \in Nat /\ BufSize >= BufSize
  BY <1>2, BufSizeAssumption DEF FeedSent, Sent
<1> HIDE DEF chunk, p
<1>6. /\ p + 1 < Len(chunk) => buf' = Collected(chunk, p + 1)
      /\ p + 1 = Len(chunk) => buf' = <<>>
  BY <1>1, <1>2, <1>4, <1>5, ChunkStep DEF SyncInv
<1>7. CASE at[2] < Len(chunk)
  <2>1. buf' = SubSeq(chunk, 1, at[2])
    BY <1>2, <1>4, <1>6, <1>7
  <2>2. at'[1] = at[1] /\ at'[2] - 1 = at[2]
    BY <1>1, <1>7
  <2> QED BY <2>1, <2>2 DEF InStep, chunk
<1>8. CASE ~ (at[2] < Len(chunk))
  <2>1. buf' = <<>>
    BY <1>1, <1>2, <1>6, <1>8
  <2>2. at'[2] - 1 = 0
    BY <1>1, <1>8
  <2>3. Frames[at'[1]] \in Seq(Byte)
    BY <1>1, SyncAssumption DEF Positions
  <2>4. SubSeq(Frames[at'[1]], 1, 0) = <<>>
    BY <2>3
  <2> QED BY <2>1, <2>2, <2>4 DEF InStep
<1> QED BY <1>7, <1>8

\* An assembler in step leaves it only at a damaged byte, whatever frames the line
\* repeats: reserved bits, a preamble within a payload or a length as large as the
\* buffer do not put it out.
THEOREM InStepKept == SyncSpec => StaysInStep
<1>1. SyncInit => SyncInv
  BY BufSizeAssumption DEF SyncInit, AsmInit, SyncInv, AsmOK, ASMStatus
<1>2. SyncInv /\ [SyncNext]_syncVars => [InStep => InStep' \/ damage' # damage]_syncVars
  <2>1. ASSUME SyncInv, FeedDamaged PROVE damage' # damage
    BY <2>1 DEF FeedDamaged, SyncInv
  <2> QED BY <2>1, SentKeepsStep DEF SyncNext
<1> QED BY <1>1, <1>2, SyncStep, PTL DEF SyncSpec, StaysInStep

=============================================================================
