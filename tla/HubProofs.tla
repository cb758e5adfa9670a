----------------------------- MODULE HubProofs -----------------------------
(***************************************************************************)
(* Proofs about Hub for every value of its constants: on a line without    *)
(* fragments the callback is given the wanted frames, once and in order,   *)
(* and the counters tell what the line carried; on any line the type table *)
(* and the status counters agree.                                          *)
(***************************************************************************)
EXTENDS Hub, SequenceTheorems, FiniteSetTheorems, TLAPS

\* What is proved of the assembler and of the type table, about those of the hub.
FS == INSTANCE FramedStreamProofs
        WITH Bytes <- {}, OutCaps <- {}, MaxFed <- 0, fed <- <<>>, verdicts <- <<>>,
             Frames <- <<>>, Noise <- {}, MaxDamage <- 0, at <- <<>>, damage <- 0

CW == INSTANCE CoverageWatchProofs
        WITH Types <- {}, Lens <- {}, LateAfter <- 1, Steps <- {}, MaxTime <- 0,
             MaxFrames <- 0, time <- 0, stamp <- 0, log <- <<>>

-----------------------------------------------------------------------------
(* What the proofs are instantiated with                                     *)

\* The assumptions of the two hold of their constants here.
LEMMA InstanceAssumptions ==
  /\ FS!BufSizeAssumption /\ FS!StreamAssumption /\ FS!SyncAssumption
  /\ CW!StatsAssumption /\ CW!WatchAssumption
BY BufSizeAssumption, StatsAssumption DEF FS!Byte

\* An instance brings its own copy of every operator; the copies are the same.
LEMMA SameAssembler ==
  /\ FS!Byte = Byte /\ FS!Preamble = Preamble
  /\ FS!AsmOK <=> AsmOK
  /\ \A c : /\ FS!IsFrame(c) <=> IsFrame(c)
            /\ FS!IsTooLong(c) <=> IsTooLong(c)
            /\ FS!IsNoise(c) <=> IsNoise(c)
  /\ \A b, cap : FS!Feed(b, cap) <=> Feed(b, cap)
<1>1. FS!Byte = Byte /\ FS!Preamble = Preamble
  BY DEF FS!Byte, Byte, FS!Preamble, Preamble
<1>2. \A x, y : FS!PayloadLen(x, y) = PayloadLen(x, y)
  BY DEF FS!PayloadLen, PayloadLen
<1>3. FS!AsmOK <=> AsmOK
  BY <1>1, <1>2, Zenon DEF FS!AsmOK, AsmOK, FS!ASMStatus, ASMStatus
<1>4. ASSUME NEW c
      PROVE  /\ FS!IsFrame(c) <=> IsFrame(c)
             /\ FS!IsTooLong(c) <=> IsTooLong(c)
             /\ FS!IsNoise(c) <=> IsNoise(c)
  BY <1>1, <1>2, Zenon DEF FS!IsFrame, IsFrame, FS!IsTooLong, IsTooLong, FS!IsNoise, IsNoise
<1>5. FS!Reset <=> Reset
  BY DEF FS!Reset, Reset
<1>6. FS!Completes <=> Completes
  BY DEF FS!Completes, Completes
<1>7. ASSUME NEW b, NEW cap PROVE FS!Feed(b, cap) <=> Feed(b, cap)
  <2>1. /\ FS!SkipByte(b) <=> SkipByte(b)
        /\ FS!StartCandidate(b) <=> StartCandidate(b)
        /\ FS!ReadLengthHigh(b) <=> ReadLengthHigh(b)
    BY <1>1, Zenon DEF FS!SkipByte, SkipByte, FS!StartCandidate, StartCandidate,
       FS!ReadLengthHigh, ReadLengthHigh
  <2>2. /\ FS!ReadLengthLow(b) <=> ReadLengthLow(b)
        /\ FS!RejectLength(b) <=> RejectLength(b)
        /\ FS!ReadBody(b) <=> ReadBody(b)
    BY <1>2, <1>5, Zenon DEF FS!ReadLengthLow, ReadLengthLow, FS!RejectLength, RejectLength,
       FS!ReadBody, ReadBody
  <2>3. /\ FS!RejectCrc(b) <=> RejectCrc(b)
        /\ FS!RejectRoom(b, cap) <=> RejectRoom(b, cap)
        /\ FS!Deliver(b, cap) <=> Deliver(b, cap)
    BY <1>5, <1>6, Zenon DEF FS!RejectCrc, RejectCrc, FS!RejectRoom, RejectRoom, FS!Deliver, Deliver
  <2> QED BY <2>1, <2>2, <2>3, Zenon DEF FS!Feed, Feed
<1> QED BY <1>1, <1>3, <1>4, <1>7

\* What a chunk leaves in the buffer while it is fed.
Collected(chunk, p) == IF IsNoise(chunk) THEN <<>> ELSE SubSeq(chunk, 1, p)

\* A byte of a chunk that began with the assembler in step.
LEMMA ChunkFed ==
  ASSUME AsmOK, NEW chunk \in Seq(Byte),
         IsFrame(chunk) \/ IsTooLong(chunk) \/ IsNoise(chunk),
         NEW p \in 0..(Len(chunk) - 1), buf = Collected(chunk, p),
         Feed(chunk[p + 1], BufSize)
  PROVE  /\ p + 1 < Len(chunk) =>
              status' = "NeedMore" /\ out' = out /\ buf' = Collected(chunk, p + 1)
         /\ p + 1 = Len(chunk) =>
              /\ buf' = <<>>
              /\ IsNoise(chunk) => status' = "NeedMore" /\ out' = out
              /\ IsTooLong(chunk) => status' = "Overflow" /\ out' = out
              /\ IsFrame(chunk) => IF CrcOk(chunk) THEN status' = "Ok" /\ out' = chunk
                                   ELSE status' = "BadCrc" /\ out' = out
<1>1. FS!AsmOK /\ chunk \in Seq(FS!Byte) /\ FS!Feed(chunk[p + 1], BufSize)
      /\ (FS!IsFrame(chunk) \/ FS!IsTooLong(chunk) \/ FS!IsNoise(chunk))
  BY SameAssembler, Zenon
<1>2. \A q : FS!Collected(chunk, q) = Collected(chunk, q)
  BY SameAssembler, Zenon DEF FS!Collected, Collected
<1>3. buf = FS!Collected(chunk, p)
  BY <1>2
<1>4. BufSize \in Nat /\ BufSize >= BufSize
  BY BufSizeAssumption
<1>5. /\ p + 1 < Len(chunk) =>
           status' = "NeedMore" /\ out' = out /\ buf' = FS!Collected(chunk, p + 1)
      /\ p + 1 = Len(chunk) =>
           /\ buf' = <<>>
           /\ FS!IsNoise(chunk) => status' = "NeedMore" /\ out' = out
           /\ FS!IsTooLong(chunk) => status' = "Overflow" /\ out' = out
           /\ FS!IsFrame(chunk) => IF CrcOk(chunk) THEN status' = "Ok" /\ out' = chunk
                                  ELSE status' = "BadCrc" /\ out' = out
  BY <1>1, <1>3, <1>4, InstanceAssumptions, FS!ChunkStep
<1> QED BY <1>2, <1>5, SameAssembler, Zenon

\* The members of the assembler keep agreeing, and a frame handed out is a frame.
LEMMA AsmKept ==
  ASSUME AsmOK, NEW b \in Byte, Feed(b, BufSize)
  PROVE  /\ AsmOK' /\ status' \in {"NeedMore", "Ok", "BadCrc", "Overflow"}
         /\ status' = "Ok" => Len(out') >= 5
<1>1. FS!AsmOK /\ b \in FS!Byte /\ FS!Feed(b, BufSize) /\ BufSize \in Nat
  BY SameAssembler, BufSizeAssumption
<1>2. FS!AsmOK'
  BY <1>1, InstanceAssumptions, FS!AsmStep
<1>3. \A x, y : FS!PayloadLen(x, y) = PayloadLen(x, y)
  BY DEF FS!PayloadLen, PayloadLen
<1>4. AsmOK'
  BY <1>2, <1>3, SameAssembler, Zenon DEF FS!AsmOK, AsmOK, FS!ASMStatus, ASMStatus
<1>5. status' = "Ok" => Len(out') >= 5
  <2>1. SUFFICES ASSUME Deliver(b, BufSize) PROVE Len(out') >= 5
    BY DEF Feed, SkipByte, StartCandidate, ReadLengthHigh, ReadLengthLow, RejectLength,
           ReadBody, RejectCrc, RejectRoom
  <2>2. out' = Append(buf, b) /\ phase = 3 /\ Len(buf) + 1 >= expected
    BY <2>1 DEF Deliver, Completes
  <2>3. /\ buf \in Seq(Byte) /\ Len(buf) \in 3..(expected - 1) /\ expected \in Nat
        /\ expected = PayloadLen(buf[2], buf[3]) + 6
    BY <2>2 DEF AsmOK
  <2>4. Len(buf) \in Nat /\ 2 \in 1..Len(buf) /\ 3 \in 1..Len(buf)
    BY <2>3
  <2>5. PICK x \in 0..255, y \in 0..255 : x = buf[2] /\ y = buf[3]
    BY <2>3, <2>4, ElementOfSeq DEF Byte
  <2>6. expected = (x % 4) * 256 + y + 6
    BY <2>3, <2>5 DEF PayloadLen
  <2>7. expected >= 6
    BY <2>6
  <2>8. Len(buf) + 1 >= 6
    BY <2>2, <2>3, <2>4, <2>7
  <2>9. Len(out') = Len(buf) + 1
    BY <2>2, <2>3
  <2> QED BY <2>4, <2>8, <2>9
<1> QED BY <1>4, <1>5 DEF AsmOK, ASMStatus

-----------------------------------------------------------------------------
(* Numbers and ranks                                                         *)

\* A wrapped counter goes on counting.
LEMMA WrapNext ==
  ASSUME NEW a \in Nat
  PROVE  /\ Wrap(Wrap(a) + 1) = Wrap(a + 1) /\ Wrap(a) \in 0..(U32 - 1) /\ Wrap(0) = 0
         /\ Wrap(Wrap(a)) = Wrap(a)
<1>1. \A n : CW!Wrap(n) = Wrap(n)
  BY DEF CW!Wrap, Wrap
<1>2. CW!Wrap(CW!Wrap(a) + 1) = CW!Wrap(a + 1)
  BY InstanceAssumptions, CW!WrapAdd
<1>3. U32 \in Nat \ {0}
  BY StatsAssumption
<1>4. Wrap(a) \in 0..(U32 - 1) /\ Wrap(0) = 0
  BY <1>3 DEF Wrap
<1>5. \A x \in 0..(U32 - 1) : Wrap(x) = x
  BY <1>3 DEF Wrap
<1> QED BY <1>1, <1>2, <1>4, <1>5

\* It is a number.
LEMMA CountedNat ==
  \A n \in Nat : Wrap(n + 1) \in Nat
BY StatsAssumption DEF Wrap

\* How many of a set of numbers are not above i.
Rank(S, i) == Cardinality({j \in S : j <= i})

\* There is a k-th member for every k.
Ranked(S) == \A k \in 1..Cardinality(S) : \E i \in S : Rank(S, i) = k

\* Members have different ranks.
LEMMA RankUnique ==
  ASSUME NEW n \in Nat, NEW S \in SUBSET (1..n)
  PROVE  /\ IsFiniteSet(S) /\ Cardinality(S) \in Nat
         /\ \A i \in S : Rank(S, i) \in 1..Cardinality(S)
         /\ \A i, j \in S : Rank(S, i) = Rank(S, j) => i = j
<1>1. IsFiniteSet(S) /\ Cardinality(S) \in Nat
  <2>1. IsFiniteSet(1..n)
    BY FS_Interval
  <2>2. IsFiniteSet(S)
    BY <2>1, FS_Subset
  <2> QED BY <2>2, FS_CardinalityType
<1>2. ASSUME NEW i \in S PROVE Rank(S, i) \in 1..Cardinality(S)
  <2> DEFINE T == {j \in S : j <= i}
  <2>1. T \in SUBSET S /\ i \in T
    OBVIOUS
  <2>2. IsFiniteSet(T) /\ Cardinality(T) \in Nat /\ Cardinality(T) <= Cardinality(S)
    BY <1>1, <2>1, FS_Subset, FS_CardinalityType
  <2>3. Cardinality(T) # 0
    BY <2>1, <2>2, FS_EmptySet
  <2> HIDE DEF T
  <2>4. Cardinality(T) \in 1..Cardinality(S)
    BY <1>1, <2>2, <2>3
  <2> QED BY <2>4 DEF T, Rank
<1>3. ASSUME NEW i \in S, NEW j \in S, i < j PROVE Rank(S, i) # Rank(S, j)
  <2> DEFINE T == {k \in S : k <= i}
             U == {k \in S : k <= j}
  <2>0. i \in Int /\ j \in Int /\ \A k \in S : k \in Int
    OBVIOUS
  <2>b. ~ (j <= i) /\ j <= j /\ \A k \in S : k <= i => k <= j
    BY <1>3, <2>0
  <2>1. T \in SUBSET U /\ j \in U /\ j \notin T /\ U \in SUBSET S
    BY <2>b
  <2>2. IsFiniteSet(U)
    BY <1>1, <2>1, FS_Subset
  <2> HIDE DEF T, U
  <2>3. Cardinality(U) # Cardinality(T)
    BY <2>1, <2>2, FS_Subset
  <2> QED BY <2>3 DEF T, U, Rank
<1>4. ASSUME NEW i \in S, NEW j \in S, Rank(S, i) = Rank(S, j) PROVE i = j
  <2>1. i \in Int /\ j \in Int
    OBVIOUS
  <2>2. ~ (i < j) /\ ~ (j < i)
    BY <1>3, <1>4
  <2> QED BY <2>1, <2>2
<1> QED BY <1>1, <1>2, <1>4

\* The k-th member is the one of that rank.
LEMMA NthIs ==
  ASSUME NEW n \in Nat, NEW S \in SUBSET (1..n), NEW i \in S
  PROVE  Nth(S, Rank(S, i)) = i
<1> DEFINE k == Rank(S, i)
           c == CHOOSE j \in S : Rank(S, j) = k
<1>1. \E j \in S : Rank(S, j) = k
  OBVIOUS
<1>2. c \in S /\ Rank(S, c) = k
  BY <1>1
<1>3. Nth(S, k) = c
  BY Zenon DEF Nth, Rank
<1>4. c = i
  BY <1>2, RankUnique
<1> QED BY <1>3, <1>4

\* A larger number is added to the end of the list.
LEMMA NthLast ==
  ASSUME NEW n \in Nat, NEW S \in SUBSET (1..n), Ranked(S)
  PROVE  LET T == S \cup {n + 1} IN
         /\ Cardinality(T) = Cardinality(S) + 1 /\ Ranked(T)
         /\ \A k \in 1..Cardinality(S) : Nth(T, k) = Nth(S, k)
         /\ Nth(T, Cardinality(S) + 1) = n + 1
<1> DEFINE T == S \cup {n + 1}
           m == Cardinality(S)
<1>0. n + 1 \notin S /\ T \in SUBSET (1..(n + 1)) /\ n + 1 \in Nat
      /\ \A j \in T : j \in Int /\ j <= n + 1
  OBVIOUS
<1>1. IsFiniteSet(S) /\ m \in Nat /\ n + 1 \notin S /\ T \in SUBSET (1..(n + 1)) /\ n + 1 \in Nat
  BY <1>0, RankUnique
<1>2. Cardinality(T) = m + 1
  BY <1>1, FS_AddElement
<1>3. ASSUME NEW i \in S PROVE Rank(T, i) = Rank(S, i)
  <2>1. {j \in T : j <= i} = {j \in S : j <= i}
    OBVIOUS
  <2> QED BY <2>1 DEF Rank
<1>4. Rank(T, n + 1) = m + 1
  <2>1. {j \in T : j <= n + 1} = T
    BY <1>0
  <2> QED BY <1>2, <2>1 DEF Rank
<1>5. n + 1 \in T /\ S \subseteq T
  OBVIOUS
<1> HIDE DEF T
<1>6. ASSUME NEW k \in 1..m PROVE Nth(T, k) = Nth(S, k) /\ \E i \in T : Rank(T, i) = k
  <2>1. PICK i \in S : Rank(S, i) = k
    BY DEF Ranked
  <2>2. i \in T /\ Rank(T, i) = k
    BY <1>3, <1>5, <2>1
  <2>3. Nth(S, k) = i
    BY <2>1, NthIs
  <2>4. Nth(T, k) = i
    BY <1>1, <2>2, NthIs
  <2> QED BY <2>2, <2>3, <2>4
<1>7. Nth(T, m + 1) = n + 1
  BY <1>1, <1>4, <1>5, NthIs
<1>8. Ranked(T)
  <2>1. \A k \in 1..(m + 1) : k \in 1..m \/ k = m + 1
    BY <1>1
  <2> QED BY <1>2, <1>4, <1>5, <1>6, <2>1 DEF Ranked
<1> QED BY <1>2, <1>6, <1>7, <1>8 DEF T

\* The members of S above r.
Above(S, r) == {i \in S : i > r}

\* One more member above r.
LEMMA AboveNext ==
  ASSUME NEW n \in Nat, NEW S \in SUBSET (1..n), NEW r \in 0..n
  PROVE  /\ Cardinality(Above(S, r)) \in Nat
         /\ Cardinality(Above(S \cup {n + 1}, r)) = Cardinality(Above(S, r)) + 1
         /\ Cardinality(Above(S, n)) = 0
<1>1. IsFiniteSet(S)
  BY RankUnique
<1>0. n + 1 \notin S /\ n + 1 > r /\ \A i \in S : ~ (i > n)
  OBVIOUS
<1>2. Above(S, r) \in SUBSET S /\ Above(S, n) = {} /\ n + 1 \notin Above(S, r)
      /\ Above(S \cup {n + 1}, r) = Above(S, r) \cup {n + 1}
  BY <1>0, Zenon DEF Above
<1>3. IsFiniteSet(Above(S, r)) /\ Cardinality(Above(S, r)) \in Nat
  BY <1>1, <1>2, FS_Subset, FS_CardinalityType
<1>4. Cardinality(Above(S, r) \cup {n + 1}) = Cardinality(Above(S, r)) + 1
  BY <1>2, <1>3, FS_AddElement
<1> QED BY <1>2, <1>3, <1>4, FS_EmptySet

-----------------------------------------------------------------------------
(* The counters                                                              *)

\* Two rows and two tables in the copies of the instance are the same.
LEMMA SameCounters ==
  /\ \A n : CW!Wrap(n) = Wrap(n)
  /\ \A s, t : CW!RowOf(s, t) = RowOf(s, t)
  /\ CW!Families = Families /\ CW!Tracked = Tracked
  /\ \A t : CW!NewRow(t) = NewRow(t)
  /\ \A r, len, now : CW!Touched(r, len, now) = Touched(r, len, now)
  /\ \A s, t, len, now : CW!OnCrcPass(s, t, len, now) = OnCrcPass(s, t, len, now)
<1>1. \A n : CW!Wrap(n) = Wrap(n)
  BY DEF CW!Wrap, Wrap
<1>2. \A s, t : CW!RowOf(s, t) = RowOf(s, t)
  BY DEF CW!RowOf, RowOf
<1>3. CW!Families = Families /\ CW!Tracked = Tracked
  BY DEF CW!Families, Families, CW!Tracked, Tracked
<1>4. \A t : CW!NewRow(t) = NewRow(t)
  BY DEF CW!NewRow, NewRow
<1>5. \A r, now : CW!Gap(r, now) = Gap(r, now)
  BY Zenon DEF CW!Gap, Gap, CW!GapKnown, GapKnown
<1>6. \A r, len, now : CW!Rated(r, len, now) = Rated(r, len, now)
  BY ZenonT(30), <1>1 DEF CW!Rated, Rated
<1>7. \A r, len, now : CW!Touched(r, len, now) = Touched(r, len, now)
  BY <1>1, <1>5, <1>6, Zenon DEF CW!Touched, Touched
<1>8. ASSUME NEW s, NEW t, NEW len, NEW now
      PROVE  CW!OnCrcPass(s, t, len, now) = OnCrcPass(s, t, len, now)
  <2>1. [i \in DOMAIN s.rows |->
            IF i \in CW!RowOf(s, t) THEN CW!Touched(s.rows[i], len, now) ELSE s.rows[i]]
        = [i \in DOMAIN s.rows |->
            IF i \in RowOf(s, t) THEN Touched(s.rows[i], len, now) ELSE s.rows[i]]
    BY <1>2, <1>7
  <2> QED BY <1>1, <1>2, <1>3, <1>4, <1>7, <2>1, Zenon DEF CW!OnCrcPass, OnCrcPass
<1> QED BY <1>1, <1>2, <1>3, <1>4, <1>7, <1>8

Stats == CW!Stats

\* The record of the counters.
LEMMA StatsIs ==
  Stats = [bytesIn : Nat, framesOk : Nat, framesBadCrc : Nat, framesDropped : Nat,
           framesOverflow : Nat, hist : [Families -> Nat], rows : Seq(CW!Row),
           rowOverflow : Nat, decodeMask : SUBSET Nat]
BY SameCounters, Zenon DEF Stats, CW!Stats

\* Only the field of the name differs.
Only(name, s, s2) ==
  /\ name # "bytesIn" => s2.bytesIn = s.bytesIn
  /\ name # "framesOk" => s2.framesOk = s.framesOk
  /\ name # "framesBadCrc" => s2.framesBadCrc = s.framesBadCrc
  /\ name # "framesDropped" => s2.framesDropped = s.framesDropped
  /\ name # "framesOverflow" => s2.framesOverflow = s.framesOverflow
  /\ name # "hist" => s2.hist = s.hist
  /\ name # "rows" => s2.rows = s.rows
  /\ name # "rowOverflow" => s2.rowOverflow = s.rowOverflow

\* One field set.
LEMMA FieldSet ==
  ASSUME NEW s \in Stats
  PROVE  /\ \A n \in Nat :
              /\ [s EXCEPT !.bytesIn = n] \in Stats /\ [s EXCEPT !.bytesIn = n].bytesIn = n
              /\ Only("bytesIn", s, [s EXCEPT !.bytesIn = n])
              /\ [s EXCEPT !.framesOk = n] \in Stats /\ [s EXCEPT !.framesOk = n].framesOk = n
              /\ Only("framesOk", s, [s EXCEPT !.framesOk = n])
              /\ [s EXCEPT !.framesBadCrc = n] \in Stats
              /\ [s EXCEPT !.framesBadCrc = n].framesBadCrc = n
              /\ Only("framesBadCrc", s, [s EXCEPT !.framesBadCrc = n])
              /\ [s EXCEPT !.framesDropped = n] \in Stats
              /\ [s EXCEPT !.framesDropped = n].framesDropped = n
              /\ Only("framesDropped", s, [s EXCEPT !.framesDropped = n])
              /\ [s EXCEPT !.framesOverflow = n] \in Stats
              /\ [s EXCEPT !.framesOverflow = n].framesOverflow = n
              /\ Only("framesOverflow", s, [s EXCEPT !.framesOverflow = n])
              /\ [s EXCEPT !.rowOverflow = n] \in Stats
              /\ [s EXCEPT !.rowOverflow = n].rowOverflow = n
              /\ Only("rowOverflow", s, [s EXCEPT !.rowOverflow = n])
         /\ \A h \in [Families -> Nat] :
              /\ [s EXCEPT !.hist = h] \in Stats /\ [s EXCEPT !.hist = h].hist = h
              /\ Only("hist", s, [s EXCEPT !.hist = h])
         /\ \A r \in Seq(CW!Row) :
              /\ [s EXCEPT !.rows = r] \in Stats /\ [s EXCEPT !.rows = r].rows = r
              /\ Only("rows", s, [s EXCEPT !.rows = r])
<1> DEFINE N == Nat
           H == [Families -> Nat]
           R == Seq(CW!Row)
           M == SUBSET Nat
           T == [bytesIn : N, framesOk : N, framesBadCrc : N, framesDropped : N,
                 framesOverflow : N, hist : H, rows : R, rowOverflow : N, decodeMask : M]
<1>0. Stats = T
  BY StatsIs
<1> HIDE DEF N, H, R, M
<1>1. ASSUME NEW n \in N
      PROVE  /\ [s EXCEPT !.bytesIn = n] \in T /\ [s EXCEPT !.bytesIn = n].bytesIn = n
             /\ Only("bytesIn", s, [s EXCEPT !.bytesIn = n])
  BY <1>0, SMT DEF Only
<1>2. ASSUME NEW n \in N
      PROVE  /\ [s EXCEPT !.framesOk = n] \in T /\ [s EXCEPT !.framesOk = n].framesOk = n
             /\ Only("framesOk", s, [s EXCEPT !.framesOk = n])
  BY <1>0, SMT DEF Only
<1>3. ASSUME NEW n \in N
      PROVE  /\ [s EXCEPT !.framesBadCrc = n] \in T
             /\ [s EXCEPT !.framesBadCrc = n].framesBadCrc = n
             /\ Only("framesBadCrc", s, [s EXCEPT !.framesBadCrc = n])
  BY <1>0, SMT DEF Only
<1>4. ASSUME NEW n \in N
      PROVE  /\ [s EXCEPT !.framesDropped = n] \in T
             /\ [s EXCEPT !.framesDropped = n].framesDropped = n
             /\ Only("framesDropped", s, [s EXCEPT !.framesDropped = n])
  BY <1>0, SMT DEF Only
<1>5. ASSUME NEW n \in N
      PROVE  /\ [s EXCEPT !.framesOverflow = n] \in T
             /\ [s EXCEPT !.framesOverflow = n].framesOverflow = n
             /\ Only("framesOverflow", s, [s EXCEPT !.framesOverflow = n])
  BY <1>0, SMT DEF Only
<1>6. ASSUME NEW n \in N
      PROVE  /\ [s EXCEPT !.rowOverflow = n] \in T
             /\ [s EXCEPT !.rowOverflow = n].rowOverflow = n
             /\ Only("rowOverflow", s, [s EXCEPT !.rowOverflow = n])
  BY <1>0, SMT DEF Only
<1>7. ASSUME NEW h \in H
      PROVE  /\ [s EXCEPT !.hist = h] \in T /\ [s EXCEPT !.hist = h].hist = h
             /\ Only("hist", s, [s EXCEPT !.hist = h])
  BY <1>0, SMT DEF Only
<1>8. ASSUME NEW r \in R
      PROVE  /\ [s EXCEPT !.rows = r] \in T /\ [s EXCEPT !.rows = r].rows = r
             /\ Only("rows", s, [s EXCEPT !.rows = r])
  BY <1>0, SMT DEF Only
<1> HIDE DEF T
<1> QED BY <1>0, <1>1, <1>2, <1>3, <1>4, <1>5, <1>6, <1>7, <1>8, Zenon DEF N, H, R

\* The type of a frame has twelve bits.
LEMMA TypeOfFrame ==
  ASSUME NEW f \in Seq(Byte), Len(f) >= 5
  PROVE  MessageType(f) \in 0..4095
<1>1. f[4] \in 0..255 /\ f[5] \in 0..255
  <2>1. 4 \in 1..Len(f) /\ 5 \in 1..Len(f)
    OBVIOUS
  <2> QED BY <2>1, ElementOfSeq DEF Byte
<1>2. \A x \in 0..255 : x \div 16 \in 0..15
  OBVIOUS
<1>4. f[5] \div 16 \in 0..15
  BY <1>1, <1>2
<1>5. PICK y \in 0..15 : y = f[5] \div 16
  BY <1>4
<1>6. PICK x \in 0..255 : x = f[4]
  BY <1>1
<1>7. MessageType(f) = x * 16 + y
  BY <1>5, <1>6 DEF MessageType
<1>8. x * 16 + y \in 0..4095
  OBVIOUS
<1> QED BY SMTT(30), <1>7, <1>8

\* What becomes of the rows when a frame of a tracked type passes.
RowsStep(s, s2, t, len) ==
  \/ CW!RowTouched(s, s2, t, len, nowMs)
  \/ CW!RowAdded(s, s2, t, len, nowMs)
  \/ CW!RowRefused(s, s2, t)

\* A row keeps its type.
LEMMA TouchedRow ==
  ASSUME NEW row \in CW!Row, NEW len \in Nat, nowMs \in Nat
  PROVE  /\ CW!Touched(row, len, nowMs) \in CW!Row
         /\ CW!Touched(row, len, nowMs).messageType = row.messageType
         /\ CW!Touched(row, len, nowMs).count = Wrap(row.count + 1)
BY InstanceAssumptions, CW!TouchedFacts, SameCounters

\* No two rows of one type come about.
LEMMA RowsStayApart ==
  ASSUME NEW s \in Stats, NEW s2 \in Stats, CW!OneRowEach(s), nowMs \in Nat,
         NEW t \in Tracked, NEW len \in Nat, RowsStep(s, s2, t, len)
  PROVE  CW!OneRowEach(s2)
<1>1. /\ s.rows \in Seq(CW!Row) /\ DOMAIN s.rows = 1..Len(s.rows) /\ Len(s.rows) \in Nat
      /\ \A i \in DOMAIN s.rows : s.rows[i] \in CW!Row
  BY SMTT(30), StatsIs
<1>2. CASE CW!RowTouched(s, s2, t, len, nowMs)
  <2>1. PICK i \in DOMAIN s.rows :
          /\ s.rows[i].messageType = t
          /\ s2.rows = [s.rows EXCEPT ![i] = CW!Touched(s.rows[i], len, nowMs)]
    BY <1>2 DEF CW!RowTouched
  <2>2. DOMAIN s2.rows = DOMAIN s.rows
    BY <1>1, <2>1
  <2>3. \A j \in DOMAIN s.rows : s2.rows[j].messageType = s.rows[j].messageType
    <3>1. CW!Touched(s.rows[i], len, nowMs).messageType = s.rows[i].messageType
      BY <1>1, <2>1, TouchedRow
    <3> QED BY <1>1, <2>1, <3>1
  <2> QED BY <2>2, <2>3 DEF CW!OneRowEach
<1>3. CASE CW!RowAdded(s, s2, t, len, nowMs)
  <2> DEFINE row == CW!Touched(CW!NewRow(t), len, nowMs)
             n == Len(s.rows)
  <2>1. s2.rows = Append(s.rows, row) /\ \A i \in DOMAIN s.rows : s.rows[i].messageType # t
    BY <1>3, SameCounters DEF CW!RowAdded, RowOf
  <2>2. row.messageType = t
    <3>1. CW!NewRow(t) \in CW!Row /\ CW!NewRow(t).messageType = t
      BY InstanceAssumptions, CW!NewRowType, SameCounters
    <3> QED BY <3>1, TouchedRow
  <2> HIDE DEF row
  <2>3. /\ DOMAIN s2.rows = 1..(n + 1) /\ s2.rows[n + 1] = row
        /\ \A i \in 1..n : s2.rows[i] = s.rows[i]
    BY <1>1, <2>1
  <2>4. \A i \in 1..(n + 1) : i \in 1..n \/ i = n + 1
    BY <1>1
  <2> HIDE DEF n
  <2> QED BY <1>1, <2>1, <2>2, <2>3, <2>4 DEF CW!OneRowEach, n
<1>4. CASE CW!RowRefused(s, s2, t)
  BY <1>4 DEF CW!RowRefused, CW!OneRowEach
<1> QED BY <1>2, <1>3, <1>4 DEF RowsStep

\* What a step of the counters leaves.
PassedTo(s, t, len, s2) ==
  t \in 0..4095 /\ len \in Nat /\ s2 = OnCrcPass(s, t, len, nowMs)

PassLeaves(s, t, len, s2) ==
  /\ s2 \in Stats /\ CW!OneRowEach(s2)
  /\ t = 0 => s2 = s
  /\ t # 0 => RowsStep(s, s2, t, len)
  /\ s2.bytesIn = s.bytesIn /\ s2.framesOk = s.framesOk
  /\ s2.framesBadCrc = s.framesBadCrc /\ s2.framesDropped = s.framesDropped
  /\ s2.framesOverflow = s.framesOverflow /\ s2.hist = s.hist

StatusTo(s, st, dropped, t, s2) == s2 = OnStatus(s, st, dropped, t)

StatusLeaves(s, st, dropped, t, s2) ==
  LET ok == ~ dropped /\ st = "Ok" IN
  /\ s2 \in Stats /\ s2.bytesIn = s.bytesIn
  /\ s2.rows = s.rows /\ s2.rowOverflow = s.rowOverflow
  /\ s2.framesDropped = IF dropped THEN Wrap(s.framesDropped + 1) ELSE s.framesDropped
  /\ s2.framesOk = IF ok THEN Wrap(s.framesOk + 1) ELSE s.framesOk
  /\ s2.framesBadCrc = IF ~ dropped /\ st = "BadCrc" THEN Wrap(s.framesBadCrc + 1)
                       ELSE s.framesBadCrc
  /\ s2.framesOverflow = IF ~ dropped /\ st = "Overflow" THEN Wrap(s.framesOverflow + 1)
                         ELSE s.framesOverflow
  /\ s2.hist = IF ok /\ t # 0 THEN [s.hist EXCEPT ![FamilyOf(t)] = Wrap(@ + 1)] ELSE s.hist

\* A frame that passed goes to the table and changes nothing else.
LEMMA PassFacts ==
  ASSUME nowMs \in Nat, NEW s \in Stats, CW!OneRowEach(s), NEW t, NEW len, NEW s2,
         PassedTo(s, t, len, s2)
  PROVE  PassLeaves(s, t, len, s2)
<1>0. t \in 0..4095 /\ len \in Nat /\ s2 = OnCrcPass(s, t, len, nowMs)
  BY DEF PassedTo
<1>1. CASE t = 0
  <2>1. t \notin Tracked
    BY <1>1 DEF Tracked
  <2>2. s2 = s
    BY <1>0, <2>1 DEF OnCrcPass
  <2> QED BY <1>1, <2>2 DEF PassLeaves
<1>2. CASE t # 0
  <2>1. t \in Tracked /\ t \in CW!Tracked
    BY <1>0, <1>2, SameCounters DEF Tracked
  <2>2. /\ s \in CW!Stats /\ CW!OnCrcPass(s, t, len, nowMs) = s2
    BY <1>0, SameCounters DEF Stats
  <2>3. /\ CW!OnCrcPass(s, t, len, nowMs) \in CW!Stats
        /\ \/ CW!RowTouched(s, CW!OnCrcPass(s, t, len, nowMs), t, len, nowMs)
           \/ CW!RowAdded(s, CW!OnCrcPass(s, t, len, nowMs), t, len, nowMs)
           \/ CW!RowRefused(s, CW!OnCrcPass(s, t, len, nowMs), t)
    BY <1>0, <2>1, <2>2, InstanceAssumptions, CW!CrcPassShape
  <2>4. s2 \in Stats /\ RowsStep(s, s2, t, len)
    BY <2>2, <2>3 DEF RowsStep, Stats
  <2>5. CW!OneRowEach(s2)
    BY <1>0, <2>1, <2>4, RowsStayApart
  <2>6. \/ \E r : s2 = [s EXCEPT !.rows = r]
        \/ \E n : s2 = [s EXCEPT !.rowOverflow = n]
    <3> DEFINE mapped == [i \in DOMAIN s.rows |->
                            IF i \in RowOf(s, t) THEN Touched(s.rows[i], len, nowMs)
                            ELSE s.rows[i]]
               added == Append(s.rows, Touched(NewRow(t), len, nowMs))
               over == Wrap(s.rowOverflow + 1)
    <3>1. RowOf(s, t) # {} => s2 = [s EXCEPT !.rows = mapped]
      BY SMTT(30), <1>0, <2>1 DEF OnCrcPass
    <3>2. RowOf(s, t) = {} /\ Len(s.rows) < TableCap => s2 = [s EXCEPT !.rows = added]
      BY <1>0, <2>1 DEF OnCrcPass
    <3>3. RowOf(s, t) = {} /\ ~ (Len(s.rows) < TableCap) =>
            s2 = [s EXCEPT !.rowOverflow = over]
      BY <1>0, <2>1 DEF OnCrcPass
    <3> HIDE DEF mapped, added, over
    <3> QED BY <3>1, <3>2, <3>3
  <2>7. /\ s2.bytesIn = s.bytesIn /\ s2.framesOk = s.framesOk
        /\ s2.framesBadCrc = s.framesBadCrc /\ s2.framesDropped = s.framesDropped
        /\ s2.framesOverflow = s.framesOverflow /\ s2.hist = s.hist
    BY <2>6, StatsIs
  <2> QED BY <1>2, <2>4, <2>5, <2>7 DEF PassLeaves
<1> QED BY <1>1, <1>2

\* The families cover all types.
LEMMA FamilyType ==
  ASSUME NEW t
  PROVE  FamilyOf(t) \in Families
BY DEF FamilyOf, Families

\* One status more.
LEMMA StatusFacts ==
  ASSUME NEW s \in Stats, NEW st \in {"Ok", "BadCrc", "Overflow"}, NEW dropped \in BOOLEAN,
         NEW t, NEW s2, StatusTo(s, st, dropped, t, s2)
  PROVE  StatusLeaves(s, st, dropped, t, s2)
<1> DEFINE h == IF t = 0 THEN s.hist ELSE [s.hist EXCEPT ![FamilyOf(t)] = Wrap(@ + 1)]
<1>0. s2 = OnStatus(s, st, dropped, t)
  BY DEF StatusTo
<1>1. /\ s.framesDropped \in Nat /\ s.framesOk \in Nat /\ s.framesBadCrc \in Nat
      /\ s.framesOverflow \in Nat /\ s.hist \in [Families -> Nat]
  BY StatsIs
<1>2. \A n \in Nat : Wrap(n + 1) \in Nat
  BY CountedNat
<1>3. h \in [Families -> Nat]
  BY <1>1, <1>2, FamilyType
<1>4. CASE dropped
  <2>1. s2 = [s EXCEPT !.framesDropped = Wrap(s.framesDropped + 1)]
    BY <1>0, <1>4 DEF OnStatus
  <2>2. Wrap(s.framesDropped + 1) \in Nat
    BY <1>1, <1>2
  <2>3. s2 \in Stats /\ s2.framesDropped = Wrap(s.framesDropped + 1) /\ Only("framesDropped", s, s2)
    BY <2>1, <2>2, FieldSet
  <2> QED BY <1>4, <2>3 DEF Only, StatusLeaves
<1>5. CASE ~ dropped /\ st = "BadCrc"
  <2>1. s2 = [s EXCEPT !.framesBadCrc = Wrap(s.framesBadCrc + 1)]
    BY <1>0, <1>5 DEF OnStatus
  <2>2. Wrap(s.framesBadCrc + 1) \in Nat
    BY <1>1, <1>2
  <2>3. s2 \in Stats /\ s2.framesBadCrc = Wrap(s.framesBadCrc + 1) /\ Only("framesBadCrc", s, s2)
    BY <2>1, <2>2, FieldSet
  <2> QED BY <1>5, <2>3 DEF Only, StatusLeaves
<1>6. CASE ~ dropped /\ st = "Overflow"
  <2>1. s2 = [s EXCEPT !.framesOverflow = Wrap(s.framesOverflow + 1)]
    BY <1>0, <1>6 DEF OnStatus
  <2>2. Wrap(s.framesOverflow + 1) \in Nat
    BY <1>1, <1>2
  <2>3. s2 \in Stats /\ s2.framesOverflow = Wrap(s.framesOverflow + 1) /\ Only("framesOverflow", s, s2)
    BY <2>1, <2>2, FieldSet
  <2> QED BY <1>6, <2>3 DEF Only, StatusLeaves
<1>7. CASE ~ dropped /\ st = "Ok"
  <2> DEFINE s1 == [s EXCEPT !.framesOk = Wrap(s.framesOk + 1)]
  <2>1. s1 \in Stats /\ s1.framesOk = Wrap(s.framesOk + 1) /\ Only("framesOk", s, s1)
    BY <1>1, <1>2, FieldSet
  <2>2. s2 = [s1 EXCEPT !.hist = h]
    <3>1. s2 = [s EXCEPT !.framesOk = Wrap(@ + 1),
                         !.hist[FamilyOf(t)] = IF t = 0 THEN @ ELSE Wrap(@ + 1)]
      BY <1>0, <1>7 DEF OnStatus
    <3>2. [s.hist EXCEPT ![FamilyOf(t)] = IF t = 0 THEN @ ELSE Wrap(@ + 1)] = h
      BY <1>1, FamilyType
    <3>3. s1.hist = s.hist
      BY <2>1 DEF Only
    <3> QED BY <3>1, <3>2, <3>3
  <2> HIDE DEF s1
  <2>3. s2 \in Stats /\ s2.hist = h /\ Only("hist", s1, s2)
    BY ZenonT(30), <1>3, <2>1, <2>2, FieldSet
  <2> QED BY <1>7, <2>1, <2>3 DEF Only, StatusLeaves
<1> QED BY <1>4, <1>5, <1>6, <1>7

\* What feed() counts for a byte, by the status the assembler returned.
Tallied(s, s2) ==
  LET t == MessageType(out')
      passed == status' = "Ok"
  IN
  /\ s2 \in Stats /\ CW!OneRowEach(s2)
  /\ s2.bytesIn = Wrap(s.bytesIn + 1)
  /\ s2.framesOk = IF passed /\ Kept(out') THEN Wrap(s.framesOk + 1) ELSE s.framesOk
  /\ s2.framesDropped = IF passed /\ ~ Kept(out') THEN Wrap(s.framesDropped + 1)
                        ELSE s.framesDropped
  /\ s2.framesBadCrc = IF status' = "BadCrc" THEN Wrap(s.framesBadCrc + 1)
                       ELSE s.framesBadCrc
  /\ s2.framesOverflow = IF status' = "Overflow" THEN Wrap(s.framesOverflow + 1)
                         ELSE s.framesOverflow
  /\ s2.hist = IF passed /\ Kept(out') /\ t # 0
               THEN [s.hist EXCEPT ![FamilyOf(t)] = Wrap(@ + 1)] ELSE s.hist
  /\ IF passed /\ t # 0 THEN RowsStep(s, s2, t, Len(out'))
     ELSE s2.rows = s.rows /\ s2.rowOverflow = s.rowOverflow

\* It is what Counted makes of the counters.
LEMMA CountedFacts ==
  ASSUME NEW s \in Stats, CW!OneRowEach(s), nowMs \in Nat,
         status' \in {"NeedMore", "Ok", "BadCrc", "Overflow"},
         status' = "Ok" => out' \in Seq(Byte) /\ Len(out') >= 5
  PROVE  Tallied(s, Counted(OnByte(s)))
<1> DEFINE s0 == OnByte(s)
           s2 == Counted(OnByte(s))
           t == MessageType(out')
           kept == Kept(out')
<1>1. /\ s.bytesIn \in Nat /\ Wrap(s.bytesIn + 1) \in Nat
  <2>1. s.bytesIn \in Nat
    BY StatsIs
  <2>2. \A n \in Nat : Wrap(n + 1) \in Nat
    BY CountedNat
  <2> QED BY <2>1, <2>2
<1>2. s0 \in Stats /\ s0.bytesIn = Wrap(s.bytesIn + 1) /\ Only("bytesIn", s, s0)
  BY <1>1, FieldSet DEF OnByte
<1>3. CW!OneRowEach(s0)
  BY <1>2 DEF CW!OneRowEach, Only
<1>4. CASE status' = "NeedMore"
  <2>1. s2 = s0
    BY <1>4 DEF Counted
  <2> HIDE DEF s0
  <2> QED BY <1>2, <1>3, <1>4, <2>1 DEF Only, Tallied
<1>5. CASE status' \in {"BadCrc", "Overflow"}
  <2>1. s2 = OnStatus(s0, status', FALSE, 0)
    BY <1>5 DEF Counted
  <2> HIDE DEF s0
  <2>2. /\ s2 \in Stats /\ s2.bytesIn = s0.bytesIn
        /\ s2.rows = s0.rows /\ s2.rowOverflow = s0.rowOverflow
        /\ s2.framesDropped = s0.framesDropped /\ s2.framesOk = s0.framesOk
        /\ s2.framesBadCrc = IF status' = "BadCrc" THEN Wrap(s0.framesBadCrc + 1)
                             ELSE s0.framesBadCrc
        /\ s2.framesOverflow = IF status' = "Overflow" THEN Wrap(s0.framesOverflow + 1)
                               ELSE s0.framesOverflow
        /\ s2.hist = s0.hist
    <3>1. PICK st \in {"Ok", "BadCrc", "Overflow"} : st = status' /\ st # "Ok"
      BY <1>5
    <3>2. PICK dropped \in BOOLEAN : dropped = FALSE
      OBVIOUS
    <3>a. PICK a \in Stats : a = s0
      BY <1>2
    <3>b. PICK b, tt : b = s2 /\ tt = 0
      OBVIOUS
    <3>3. a = s0 /\ b = s2 /\ tt = 0
      BY <3>a, <3>b
    <3>4. StatusTo(a, st, dropped, tt, b)
      BY <2>1, <3>1, <3>2, <3>3 DEF StatusTo
    <3> HIDE DEF s2
    <3>5. StatusLeaves(a, st, dropped, tt, b)
      BY <3>4, StatusFacts, Zenon
    <3>6. /\ b \in Stats /\ b.bytesIn = a.bytesIn
          /\ b.rows = a.rows /\ b.rowOverflow = a.rowOverflow
          /\ b.framesDropped = a.framesDropped /\ b.framesOk = a.framesOk
          /\ b.framesBadCrc = IF st = "BadCrc" THEN Wrap(a.framesBadCrc + 1) ELSE a.framesBadCrc
          /\ b.framesOverflow = IF st = "Overflow" THEN Wrap(a.framesOverflow + 1)
                                ELSE a.framesOverflow
          /\ b.hist = a.hist
      BY <3>1, <3>2, <3>5 DEF StatusLeaves
    <3> QED BY <3>1, <3>3, <3>6
  <2>3. CW!OneRowEach(s2)
    BY <1>3, <2>2 DEF CW!OneRowEach
  <2> HIDE DEF s2
  <2> QED BY <1>2, <1>5, <2>2, <2>3 DEF Only, Tallied, s2
<1>6. CASE status' = "Ok"
  <2> DEFINE s1 == OnCrcPass(s0, t, Len(out'), nowMs)
  <2>1. s2 = OnStatus(s1, "Ok", ~ kept, t)
    BY <1>6 DEF Counted
  <2>2. t \in 0..4095 /\ Len(out') \in Nat
    BY SMTT(30), <1>6, TypeOfFrame
  <2> HIDE DEF s0, t, s2
  <2>3. /\ s1 \in Stats /\ CW!OneRowEach(s1)
        /\ t = 0 => s1 = s0
        /\ t # 0 => RowsStep(s0, s1, t, Len(out'))
        /\ s1.bytesIn = s0.bytesIn /\ s1.framesOk = s0.framesOk
        /\ s1.framesBadCrc = s0.framesBadCrc /\ s1.framesDropped = s0.framesDropped
        /\ s1.framesOverflow = s0.framesOverflow /\ s1.hist = s0.hist
    <3>1. PICK tt \in 0..4095, len \in Nat : tt = t /\ len = Len(out')
      BY SMTT(30), <2>2
    <3>a. PICK a \in Stats : a = s0
      BY <1>2
    <3>b. PICK b : b = s1
      OBVIOUS
    <3>2. a = s0 /\ b = s1
      BY <3>a, <3>b
    <3>3. PassedTo(a, tt, len, b) /\ CW!OneRowEach(a)
      BY <1>3, <3>1, <3>2 DEF PassedTo
    <3> HIDE DEF s1
    <3>4. /\ b \in Stats /\ CW!OneRowEach(b)
          /\ tt = 0 => b = a
          /\ tt # 0 => RowsStep(a, b, tt, len)
          /\ b.bytesIn = a.bytesIn /\ b.framesOk = a.framesOk
          /\ b.framesBadCrc = a.framesBadCrc /\ b.framesDropped = a.framesDropped
          /\ b.framesOverflow = a.framesOverflow /\ b.hist = a.hist
      <4>1. PassLeaves(a, tt, len, b)
        BY <3>3, PassFacts
      <4> QED BY <4>1 DEF PassLeaves
    <3> QED BY <3>1, <3>2, <3>4
  <2> HIDE DEF s1
  <2>4. /\ s2 \in Stats /\ s2.bytesIn = s1.bytesIn
        /\ s2.rows = s1.rows /\ s2.rowOverflow = s1.rowOverflow
        /\ s2.framesDropped = IF ~ kept THEN Wrap(s1.framesDropped + 1) ELSE s1.framesDropped
        /\ s2.framesOk = IF kept THEN Wrap(s1.framesOk + 1) ELSE s1.framesOk
        /\ s2.framesBadCrc = s1.framesBadCrc /\ s2.framesOverflow = s1.framesOverflow
        /\ s2.hist = IF kept /\ t # 0
                     THEN [s1.hist EXCEPT ![FamilyOf(t)] = Wrap(@ + 1)] ELSE s1.hist
    <3>1. PICK dropped \in BOOLEAN : dropped <=> ~ kept
      OBVIOUS
    <3>a. PICK a \in Stats : a = s1
      BY <2>3
    <3>b. PICK b, tt : b = s2 /\ tt = t
      OBVIOUS
    <3>2. a = s1 /\ b = s2 /\ tt = t
      BY <3>a, <3>b
    <3>3. PICK st \in {"Ok", "BadCrc", "Overflow"} : st = "Ok"
      OBVIOUS
    <3>4. StatusTo(a, st, dropped, tt, b)
      BY <2>1, <3>1, <3>2, <3>3 DEF StatusTo
    <3> HIDE DEF kept
    <3>5. /\ b \in Stats /\ b.bytesIn = a.bytesIn
          /\ b.rows = a.rows /\ b.rowOverflow = a.rowOverflow
          /\ b.framesDropped = IF dropped THEN Wrap(a.framesDropped + 1) ELSE a.framesDropped
          /\ b.framesOk = IF ~ dropped THEN Wrap(a.framesOk + 1) ELSE a.framesOk
          /\ b.framesBadCrc = a.framesBadCrc /\ b.framesOverflow = a.framesOverflow
          /\ b.hist = IF ~ dropped /\ tt # 0
                      THEN [a.hist EXCEPT ![FamilyOf(tt)] = Wrap(@ + 1)] ELSE a.hist
      <4>1. StatusLeaves(a, st, dropped, tt, b)
        BY <3>4, StatusFacts, Zenon
      <4> QED BY <3>3, <4>1 DEF StatusLeaves
    <3>6. CASE dropped
      BY <3>1, <3>2, <3>5, <3>6
    <3>7. CASE ~ dropped
      BY <3>1, <3>2, <3>5, <3>7
    <3> QED BY <3>6, <3>7
  <2>5. CW!OneRowEach(s2)
    BY <2>3, <2>4 DEF CW!OneRowEach
  <2>6. IF t # 0 THEN RowsStep(s, s2, t, Len(out'))
        ELSE s2.rows = s.rows /\ s2.rowOverflow = s.rowOverflow
    <3>1. s0.rows = s.rows /\ s0.rowOverflow = s.rowOverflow
      BY <1>2 DEF Only
    <3>2. CASE t = 0
      BY <2>3, <2>4, <3>1, <3>2
    <3>3. CASE t # 0
      <4>1. RowsStep(s0, s1, t, Len(out'))
        BY <2>3, <3>3
      <4>2. CW!RowOf(s0, t) = CW!RowOf(s, t)
        BY <3>1, SameCounters DEF RowOf
      <4>3. RowsStep(s, s2, t, Len(out'))
        BY <2>4, <3>1, <4>1, <4>2 DEF RowsStep, CW!RowTouched, CW!RowAdded, CW!RowRefused
      <4> QED BY <3>3, <4>3
    <3> QED BY <3>2, <3>3
  <2> HIDE DEF kept
  <2> QED BY <1>2, <1>6, <2>3, <2>4, <2>5, <2>6 DEF Only, Tallied, s2, t, kept
<1> QED BY <1>4, <1>5, <1>6


-----------------------------------------------------------------------------
(* Sums                                                                      *)

\* The sum the property states is that of the lemmas.
LEMMA SumIsTotal ==
  ASSUME NEW f
  PROVE  SumOf(f) = CW!Total(f, DOMAIN f)
BY Zenon DEF SumOf, MapThenSumSet, MapThenFoldSet, CW!Total, CW!MapThenSumSet, CW!MapThenFoldSet

\* The sets that are finite there are finite here.
LEMMA SameFinite ==
  ASSUME NEW S, IsFiniteSet(S)
  PROVE  CW!IsFiniteSet(S)
BY Zenon DEF IsFiniteSet, CW!IsFiniteSet

\* A sum of natural numbers, one of them apart.
LEMMA SumSplit ==
  ASSUME NEW D, IsFiniteSet(D), NEW f \in [D -> Nat]
  PROVE  /\ SumOf(f) \in Nat
         /\ D = {} => SumOf(f) = 0
         /\ \A x \in D : /\ CW!Total(f, D \ {x}) \in Nat
                         /\ SumOf(f) = f[x] + CW!Total(f, D \ {x})
<1>1. SumOf(f) = CW!Total(f, D)
  BY SumIsTotal
<1>2. \A x \in D : f[x] \in Nat
  OBVIOUS
<1>3. /\ CW!Total(f, D) \in Nat
      /\ D = {} => CW!Total(f, D) = 0
      /\ \A x \in D : CW!Total(f, D) = f[x] + CW!Total(f, D \ {x})
  BY <1>2, SameFinite, InstanceAssumptions, CW!TotalFacts
<1>4. ASSUME NEW x \in D PROVE CW!Total(f, D \ {x}) \in Nat
  <2>1. IsFiniteSet(D \ {x}) /\ \A y \in D \ {x} : f[y] \in Nat
    BY <1>2, FS_Subset
  <2> QED BY <2>1, SameFinite, InstanceAssumptions, CW!TotalFacts
<1> QED BY <1>1, <1>3, <1>4

\* One term replaced.
LEMMA SumChanged ==
  ASSUME NEW D, IsFiniteSet(D), NEW f \in [D -> Nat], NEW x \in D,
         NEW g \in [D -> Nat], \A y \in D \ {x} : g[y] = f[y]
  PROVE  \E rest \in Nat : SumOf(f) = f[x] + rest /\ SumOf(g) = g[x] + rest
<1>1. \A y \in D \ {x} : f[y] \in Nat /\ g[y] = f[y]
  OBVIOUS
<1>2. IsFiniteSet(D \ {x})
  BY FS_Subset
<1>3. CW!Total(g, D \ {x}) = CW!Total(f, D \ {x})
  BY <1>1, <1>2, SameFinite, InstanceAssumptions, CW!TotalSame
<1>4. /\ CW!Total(f, D \ {x}) \in Nat
      /\ SumOf(f) = f[x] + CW!Total(f, D \ {x})
      /\ SumOf(g) = g[x] + CW!Total(g, D \ {x})
  BY <1>1, SumSplit
<1> QED BY <1>1, <1>3, <1>4

\* One term more.
LEMMA SumGrown ==
  ASSUME NEW D, IsFiniteSet(D), NEW f \in [D -> Nat], NEW x, x \notin D, NEW n \in Nat,
         NEW g \in [D \cup {x} -> Nat], g[x] = n, \A y \in D : g[y] = f[y]
  PROVE  SumOf(f) \in Nat /\ SumOf(g) = n + SumOf(f)
<1>1. IsFiniteSet(D \cup {x})
  BY FS_AddElement
<1>2. (D \cup {x}) \ {x} = D /\ x \in D \cup {x}
  OBVIOUS
<1>3. SumOf(g) = n + CW!Total(g, D)
  BY <1>1, <1>2, SumSplit
<1>4. \A y \in D : f[y] \in Nat /\ g[y] = f[y]
  OBVIOUS
<1>5. CW!Total(g, D) = CW!Total(f, D)
  BY <1>4, SameFinite, InstanceAssumptions, CW!TotalSame
<1>6. SumOf(f) = CW!Total(f, D) /\ SumOf(f) \in Nat
  BY SumIsTotal, SumSplit
<1> QED BY <1>3, <1>5, <1>6

\* A wrapped sum.
LEMMA WrapSum ==
  ASSUME NEW a \in Nat, NEW b \in Nat
  PROVE  Wrap(Wrap(a) + b) = Wrap(a + b)
<1>1. \A n : CW!Wrap(n) = Wrap(n)
  BY DEF CW!Wrap, Wrap
<1>2. CW!Wrap(CW!Wrap(a) + b) = CW!Wrap(a + b)
  BY InstanceAssumptions, CW!WrapAdd
<1> QED BY <1>1, <1>2

\* The sum of all counts of the table.
Counts(s) == SumOf([k \in DOMAIN s.rows |-> s.rows[k].count])

\* The rows of the table.
LEMMA RowsOf ==
  ASSUME NEW s \in Stats
  PROVE  /\ s.rows \in Seq(CW!Row) /\ s.rowOverflow \in Nat
         /\ DOMAIN s.rows = 1..Len(s.rows) /\ Len(s.rows) \in Nat
         /\ \A i \in DOMAIN s.rows : s.rows[i] \in CW!Row /\ s.rows[i].count \in Nat
<1>1. s.rows \in Seq(CW!Row) /\ s.rowOverflow \in Nat
  BY StatsIs
<1>2. DOMAIN s.rows = 1..Len(s.rows) /\ Len(s.rows) \in Nat
      /\ \A i \in DOMAIN s.rows : s.rows[i] \in CW!Row
  BY <1>1
<1>3. \A r \in CW!Row : r.count \in Nat
  BY DEF CW!Row
<1> QED BY <1>1, <1>2, <1>3

\* Their sum is a number.
LEMMA CountsNat ==
  ASSUME NEW s \in Stats
  PROVE  Counts(s) \in Nat
<1> DEFINE f == [k \in DOMAIN s.rows |-> s.rows[k].count]
<1>1. f \in [DOMAIN s.rows -> Nat]
  BY RowsOf
<1>2. IsFiniteSet(DOMAIN s.rows)
  <2>1. \A a \in Nat : IsFiniteSet(1..a)
    BY FS_Interval
  <2> QED BY <2>1, RowsOf
<1>3. SumOf(f) \in Nat
  <2> HIDE DEF f
  <2> QED BY <1>1, <1>2, SumSplit
<1> QED BY <1>3 DEF Counts

\* A tracked frame is one more of the table, up to the width of the counters.
LEMMA TableGrows ==
  ASSUME nowMs \in Nat, NEW s \in Stats, NEW s2 \in Stats, NEW t \in Tracked, NEW len \in Nat,
         RowsStep(s, s2, t, len)
  PROVE  /\ s.rowOverflow \in Nat /\ Counts(s) \in Nat
         /\ s2.rowOverflow \in Nat /\ Counts(s2) \in Nat
         /\ \A r \in Nat : Wrap(s2.rowOverflow + Counts(s2) + r)
                             = Wrap(s.rowOverflow + Counts(s) + r + 1)
<1> DEFINE f == [k \in DOMAIN s.rows |-> s.rows[k].count]
           g == [k \in DOMAIN s2.rows |-> s2.rows[k].count]
           D == DOMAIN s.rows
           n == Len(s.rows)
<1>1. /\ s.rows \in Seq(CW!Row) /\ D = 1..n /\ n \in Nat /\ s.rowOverflow \in Nat
      /\ \A i \in D : s.rows[i] \in CW!Row /\ s.rows[i].count \in Nat
  BY RowsOf
<1>2. /\ s2.rows \in Seq(CW!Row) /\ s2.rowOverflow \in Nat
      /\ DOMAIN s2.rows = 1..Len(s2.rows) /\ Len(s2.rows) \in Nat
      /\ \A i \in DOMAIN s2.rows : s2.rows[i] \in CW!Row /\ s2.rows[i].count \in Nat
  BY RowsOf
<1>3. IsFiniteSet(D) /\ IsFiniteSet(DOMAIN s2.rows)
  <2>1. \A a \in Nat : IsFiniteSet(1..a)
    BY FS_Interval
  <2> QED BY <1>1, <1>2, <2>1
<1>4. f \in [D -> Nat] /\ g \in [DOMAIN s2.rows -> Nat]
  BY <1>1, <1>2
<1>5. Counts(s) = SumOf(f) /\ Counts(s2) = SumOf(g)
  BY DEF Counts
<1>6. SumOf(f) \in Nat /\ SumOf(g) \in Nat
  BY <1>3, <1>4, SumSplit
<1> HIDE DEF f, g, n, D
<1>7. CASE CW!RowTouched(s, s2, t, len, nowMs)
  <2>1. PICK i \in D :
          /\ s2.rows = [s.rows EXCEPT ![i] = CW!Touched(s.rows[i], len, nowMs)]
          /\ s2.rowOverflow = s.rowOverflow
    BY <1>7 DEF CW!RowTouched, D
  <2>2. PICK c \in Nat : c = f[i]
    BY <1>4
  <2>3. s.rows[i] \in CW!Row /\ s.rows[i].count = c
    BY <1>1, <2>1, <2>2 DEF f, D
  <2>4. CW!Touched(s.rows[i], len, nowMs).count = Wrap(c + 1)
    BY <2>3, TouchedRow
  <2>5. g = [f EXCEPT ![i] = Wrap(c + 1)]
    <3>1. DOMAIN s2.rows = D /\ DOMAIN g = D /\ DOMAIN f = D
      BY <2>1 DEF D, f, g
    <3>2. \A k \in D : g[k] = IF k = i THEN Wrap(c + 1) ELSE f[k]
      BY <2>1, <2>4, <3>1 DEF f, g, D
    <3>3. g = [k \in D |-> g[k]] /\ [f EXCEPT ![i] = Wrap(c + 1)] = [k \in D |-> IF k = i THEN Wrap(c + 1) ELSE f[k]]
      BY <1>4, <3>1
    <3> QED BY <3>2, <3>3
  <2>6. Wrap(c + 1) \in Nat
    BY WrapNext
  <2>7. PICK rest \in Nat : SumOf(f) = c + rest /\ SumOf(g) = Wrap(c + 1) + rest
    <3>1. PICK w \in Nat : w = Wrap(c + 1)
      BY <2>6
    <3>2. g \in [D -> Nat] /\ g[i] = w /\ \A y \in D \ {i} : g[y] = f[y]
      BY <1>4, <2>5, <3>1
    <3>3. \E rest \in Nat : SumOf(f) = f[i] + rest /\ SumOf(g) = g[i] + rest
      BY <1>3, <1>4, <3>2, SumChanged
    <3> QED BY <2>2, <3>1, <3>2, <3>3
  <2>8. ASSUME NEW r \in Nat
        PROVE  Wrap(s2.rowOverflow + SumOf(g) + r) = Wrap(s.rowOverflow + SumOf(f) + r + 1)
    <3>1. PICK o \in Nat : o = s.rowOverflow
      BY <1>1
    <3>2. Wrap(Wrap(c + 1) + (o + rest + r)) = Wrap((c + 1) + (o + rest + r))
      BY WrapSum
    <3>3. PICK w \in Nat : w = Wrap(c + 1)
      BY <2>6
    <3>4. /\ o + (w + rest) + r = w + (o + rest + r)
          /\ o + (c + rest) + r + 1 = (c + 1) + (o + rest + r)
      OBVIOUS
    <3> QED BY <2>1, <2>7, <3>1, <3>2, <3>3, <3>4
  <2> QED BY <1>1, <1>2, <1>5, <1>6, <2>8
<1>8. CASE CW!RowAdded(s, s2, t, len, nowMs)
  <2> DEFINE row == CW!Touched(CW!NewRow(t), len, nowMs)
  <2>1. s2.rows = Append(s.rows, row) /\ s2.rowOverflow = s.rowOverflow
    BY <1>8 DEF CW!RowAdded
  <2>2. row.count = Wrap(0 + 1)
    <3>1. CW!NewRow(t) \in CW!Row
      BY InstanceAssumptions, CW!NewRowType, SameCounters
    <3>2. CW!NewRow(t).count = 0
      BY SameCounters DEF NewRow
    <3> QED BY <3>1, <3>2, TouchedRow
  <2>3. Wrap(0 + 1) \in Nat
    BY WrapNext
  <2> HIDE DEF row
  <2>4. /\ DOMAIN s2.rows = D \cup {n + 1} /\ n + 1 \notin D /\ s2.rows[n + 1] = row
        /\ \A i \in D : s2.rows[i] = s.rows[i]
    <3>1. /\ DOMAIN Append(s.rows, row) = 1..(n + 1) /\ Append(s.rows, row)[n + 1] = row
          /\ \A i \in 1..n : Append(s.rows, row)[i] = s.rows[i]
      BY <1>1 DEF n
    <3>2. 1..(n + 1) = (1..n) \cup {n + 1} /\ n + 1 \notin 1..n
      BY <1>1
    <3> QED BY <1>1, <2>1, <3>1, <3>2
  <2>5. g \in [D \cup {n + 1} -> Nat] /\ g[n + 1] = Wrap(0 + 1) /\ \A y \in D : g[y] = f[y]
    BY <1>4, <2>2, <2>4 DEF f, g, D
  <2>6. SumOf(g) = Wrap(0 + 1) + SumOf(f)
    BY <1>3, <1>4, <2>3, <2>4, <2>5, SumGrown
  <2>7. ASSUME NEW r \in Nat
        PROVE  Wrap(s2.rowOverflow + SumOf(g) + r) = Wrap(s.rowOverflow + SumOf(f) + r + 1)
    <3>1. PICK o \in Nat, q \in Nat, w \in Nat : o = s.rowOverflow /\ q = SumOf(f) /\ w = Wrap(0 + 1)
      BY <1>1, <1>6, <2>3
    <3>2. Wrap(Wrap(0 + 1) + (o + q + r)) = Wrap((0 + 1) + (o + q + r))
      BY WrapSum
    <3>3. o + (w + q) + r = w + (o + q + r) /\ o + q + r + 1 = (0 + 1) + (o + q + r)
      OBVIOUS
    <3> QED BY <2>1, <2>6, <3>1, <3>2, <3>3
  <2> QED BY <1>1, <1>2, <1>5, <1>6, <2>7
<1>9. CASE CW!RowRefused(s, s2, t)
  <2>1. s2.rows = s.rows /\ s2.rowOverflow = Wrap(s.rowOverflow + 1)
    BY <1>9, SameCounters DEF CW!RowRefused
  <2>2. g = f
    BY <2>1 DEF f, g
  <2>3. ASSUME NEW r \in Nat
        PROVE  Wrap(s2.rowOverflow + SumOf(g) + r) = Wrap(s.rowOverflow + SumOf(f) + r + 1)
    <3>1. PICK o \in Nat, q \in Nat : o = s.rowOverflow /\ q = SumOf(f)
      BY <1>1, <1>6
    <3>2. Wrap(Wrap(o + 1) + (q + r)) = Wrap((o + 1) + (q + r))
      BY WrapSum
    <3>3. PICK w \in Nat : w = Wrap(o + 1)
      BY <1>2, <2>1, <3>1
    <3>4. w + q + r = w + (q + r) /\ o + q + r + 1 = (o + 1) + (q + r)
      OBVIOUS
    <3> QED BY <2>1, <2>2, <3>1, <3>2, <3>3, <3>4
  <2> QED BY <1>1, <1>2, <1>5, <1>6, <2>3
<1> QED BY <1>7, <1>8, <1>9 DEF RowsStep

-----------------------------------------------------------------------------
(* The type table and the counters agree                                     *)

\* There are six families.
LEMMA FamiliesFinite == IsFiniteSet(Families)
<1>1. IsFiniteSet({"1005"})
  BY FS_Singleton
<1>2. IsFiniteSet({"1005"} \cup {"1006"})
  BY <1>1, FS_AddElement
<1>3. IsFiniteSet(({"1005"} \cup {"1006"}) \cup {"1033"})
  BY <1>2, FS_AddElement
<1>4. IsFiniteSet((({"1005"} \cup {"1006"}) \cup {"1033"}) \cup {"msm4"})
  BY <1>3, FS_AddElement
<1>5. IsFiniteSet(((({"1005"} \cup {"1006"}) \cup {"1033"}) \cup {"msm4"}) \cup {"msm7"})
  BY <1>4, FS_AddElement
<1>6. IsFiniteSet((((({"1005"} \cup {"1006"}) \cup {"1033"}) \cup {"msm4"}) \cup {"msm7"})
                  \cup {"other"})
  BY <1>5, FS_AddElement
<1>7. Families = (((({"1005"} \cup {"1006"}) \cup {"1033"}) \cup {"msm4"}) \cup {"msm7"})
                  \cup {"other"}
  BY DEF Families
<1> QED BY <1>6, <1>7

\* A kept frame of a type is one more of the histogram.
LEMMA HistGrows ==
  ASSUME NEW h \in [Families -> Nat], NEW x \in Families, NEW g \in [Families -> Nat],
         g[x] = Wrap(h[x] + 1), \A y \in Families \ {x} : g[y] = h[y]
  PROVE  /\ SumOf(h) \in Nat /\ SumOf(g) \in Nat
         /\ \A r \in Nat : Wrap(SumOf(g) + r) = Wrap(SumOf(h) + r + 1)
<1>1. PICK c \in Nat : c = h[x]
  OBVIOUS
<1>2. PICK w \in Nat : w = Wrap(c + 1)
  BY WrapNext
<1>3. g[x] = w
  BY <1>1, <1>2
<1>4. PICK rest \in Nat : SumOf(h) = c + rest /\ SumOf(g) = w + rest
  <2>1. \E rest \in Nat : SumOf(h) = h[x] + rest /\ SumOf(g) = g[x] + rest
    BY FamiliesFinite, SumChanged
  <2> QED BY <1>1, <1>3, <2>1
<1>5. ASSUME NEW r \in Nat PROVE Wrap(SumOf(g) + r) = Wrap(SumOf(h) + r + 1)
  <2>1. Wrap(Wrap(c + 1) + (rest + r)) = Wrap((c + 1) + (rest + r))
    BY WrapSum
  <2>2. (w + rest) + r = w + (rest + r) /\ (c + rest) + r + 1 = (c + 1) + (rest + r)
    OBVIOUS
  <2> QED BY <1>2, <1>4, <2>1, <2>2
<1>6. SumOf(h) \in Nat /\ SumOf(g) \in Nat
  BY <1>4
<1> QED BY <1>5, <1>6

\* What the table says of the counters s, with the frames u of type 0.
TablesOf(s, u) ==
  /\ Wrap(s.rowOverflow + Counts(s) + u.all) = Wrap(s.framesOk + s.framesDropped)
  /\ Wrap(SumOf(s.hist) + u.kept) = s.framesOk

\* That is the property.
LEMMA TablesAre == TablesAgree <=> TablesOf(stats, untyped)
BY DEF TablesAgree, TablesOf, Counts

\* The frames of type 0 after a byte.
Untyped(u) ==
  IF status' = "Ok" /\ MessageType(out') = 0
  THEN [all |-> u.all + 1, kept |-> IF Kept(out') THEN u.kept + 1 ELSE u.kept]
  ELSE u

\* A byte keeps the agreement.
LEMMA TablesKept ==
  ASSUME nowMs \in Nat, NEW s \in Stats, NEW u \in [all : Nat, kept : Nat], TablesOf(s, u),
         status' = "Ok" => out' \in Seq(Byte) /\ Len(out') >= 5,
         NEW s2, Tallied(s, s2)
  PROVE  TablesOf(s2, Untyped(u)) /\ Untyped(u) \in [all : Nat, kept : Nat]
<1> DEFINE t == MessageType(out')
           kept == Kept(out')
<1>1. /\ s2 \in Stats
      /\ s2.framesOk = IF status' = "Ok" /\ kept THEN Wrap(s.framesOk + 1) ELSE s.framesOk
      /\ s2.framesDropped = IF status' = "Ok" /\ ~ kept THEN Wrap(s.framesDropped + 1)
                            ELSE s.framesDropped
      /\ s2.hist = IF status' = "Ok" /\ kept /\ t # 0
                   THEN [s.hist EXCEPT ![FamilyOf(t)] = Wrap(@ + 1)] ELSE s.hist
      /\ IF status' = "Ok" /\ t # 0 THEN RowsStep(s, s2, t, Len(out'))
         ELSE s2.rows = s.rows /\ s2.rowOverflow = s.rowOverflow
  BY DEF Tallied
<1>2. status' = "Ok" => t \in 0..4095 /\ Len(out') \in Nat
  BY SMTT(30), TypeOfFrame
<1> HIDE DEF t
<1>3. /\ s.rowOverflow \in Nat /\ s.framesOk \in Nat /\ s.framesDropped \in Nat
      /\ s.hist \in [Families -> Nat]
  BY StatsIs
<1>4. Counts(s) \in Nat /\ SumOf(s.hist) \in Nat
  BY <1>3, FamiliesFinite, SumSplit, CountsNat
<1>5. u.all \in Nat /\ u.kept \in Nat
  OBVIOUS
<1>6. CASE status' # "Ok"
  <2>1. Untyped(u) = u
    BY <1>6 DEF Untyped
  <2>2. Counts(s2) = Counts(s)
    BY <1>1, <1>6 DEF Counts
  <2> QED BY <1>1, <1>6, <2>1, <2>2 DEF TablesOf
<1>7. CASE status' = "Ok"
  <2>0. \A n \in Nat : Wrap(n + 1) \in Nat
    BY CountedNat
  <2>1. PICK ok \in Nat, dr \in Nat, o \in Nat, c \in Nat, h \in Nat, al \in Nat, ke \in Nat :
          /\ ok = s.framesOk /\ dr = s.framesDropped
          /\ o = s.rowOverflow /\ c = Counts(s) /\ h = SumOf(s.hist)
          /\ al = u.all /\ ke = u.kept
    BY <1>3, <1>4, <1>5
  <2>2. Wrap(o + c + al) = Wrap(ok + dr) /\ Wrap(h + ke) = ok
    BY <2>1 DEF TablesOf
  <2>3. /\ Wrap(o + c + al + 1) = Wrap(ok + dr + 1)
        /\ Wrap(h + ke + 1) = Wrap(ok + 1)
    <3>1. PICK x \in Nat, y \in Nat, z \in Nat : x = o + c + al /\ y = ok + dr /\ z = h + ke
      OBVIOUS
    <3>2. /\ Wrap(Wrap(x) + 1) = Wrap(x + 1) /\ Wrap(Wrap(y) + 1) = Wrap(y + 1)
          /\ Wrap(Wrap(z) + 1) = Wrap(z + 1)
      BY WrapNext
    <3> QED BY <2>2, <3>1, <3>2
  <2>4. Wrap(s2.framesOk + s2.framesDropped) = Wrap(ok + dr + 1)
    <3>1. CASE kept
      <4>1. Wrap(Wrap(ok + 1) + dr) = Wrap((ok + 1) + dr)
        BY WrapSum
      <4>2. (ok + 1) + dr = ok + dr + 1
        OBVIOUS
      <4> QED BY <1>1, <1>7, <2>1, <3>1, <4>1, <4>2
    <3>2. CASE ~ kept
      <4>1. Wrap(Wrap(dr + 1) + ok) = Wrap((dr + 1) + ok)
        BY WrapSum
      <4>2. PICK w \in Nat : w = Wrap(dr + 1)
        BY WrapNext
      <4>3. (dr + 1) + ok = ok + dr + 1 /\ ok + w = w + ok
        OBVIOUS
      <4> QED BY <1>1, <1>7, <2>1, <3>2, <4>1, <4>2, <4>3
    <3> QED BY <3>1, <3>2
  <2>5. CASE t = 0
    <3>1. /\ Untyped(u) = [all |-> al + 1, kept |-> IF kept THEN ke + 1 ELSE ke]
      BY <1>7, <2>1, <2>5 DEF Untyped, t
    <3> HIDE DEF kept
    <3>2. Untyped(u).all = al + 1 /\ Untyped(u).kept = IF kept THEN ke + 1 ELSE ke
      BY <3>1
    <3>3. Untyped(u) \in [all : Nat, kept : Nat]
      BY <3>1
    <3>4. /\ s2.rowOverflow = o /\ Counts(s2) = c /\ SumOf(s2.hist) = h
          /\ s2.framesOk = IF kept THEN Wrap(ok + 1) ELSE ok
      BY <1>1, <1>7, <2>1, <2>5 DEF Counts
    <3>5. o + c + (al + 1) = o + c + al + 1 /\ h + (ke + 1) = h + ke + 1
      OBVIOUS
    <3> QED BY <2>2, <2>3, <2>4, <3>2, <3>3, <3>4, <3>5 DEF TablesOf
  <2>6. CASE t # 0
    <3>1. Untyped(u) = u
      BY <1>7, <2>6 DEF Untyped, t
    <3>2. t \in Tracked /\ FamilyOf(t) \in Families
      BY <1>2, <1>7, <2>6, FamilyType DEF Tracked
    <3>3. RowsStep(s, s2, t, Len(out'))
      BY <1>1, <1>7, <2>6
    <3>4. Wrap(s2.rowOverflow + Counts(s2) + al) = Wrap(o + c + al + 1)
      <4>1. PICK tt \in Tracked, len \in Nat : tt = t /\ len = Len(out')
        BY <1>2, <1>7, <3>2
      <4>2. RowsStep(s, s2, tt, len)
        BY <3>3, <4>1
      <4> QED BY <1>1, <2>1, <4>2, TableGrows
    <3>5. Wrap(SumOf(s2.hist) + ke) = s2.framesOk
      <4>1. CASE kept
        <5>1. PICK x \in Families : x = FamilyOf(t)
          BY <3>2
        <5>2. s2.hist = [s.hist EXCEPT ![x] = Wrap(s.hist[x] + 1)]
          BY <1>1, <1>7, <2>6, <4>1, <5>1
        <5>a. PICK v \in Nat : v = s.hist[x]
          BY <1>3
        <5>b. Wrap(v + 1) \in Nat
          BY <2>0
        <5>3. PICK w \in Nat : w = Wrap(s.hist[x] + 1)
          BY <5>a, <5>b
        <5>4. PICK g \in [Families -> Nat], f \in [Families -> Nat] : g = s2.hist /\ f = s.hist
          BY <1>3, <5>2, <5>3
        <5>5. g[x] = Wrap(f[x] + 1) /\ \A y \in Families \ {x} : g[y] = f[y]
          BY <5>2, <5>3, <5>4
        <5>6. Wrap(SumOf(g) + ke) = Wrap(SumOf(f) + ke + 1)
          BY <5>5, HistGrows
        <5>7. Wrap(SumOf(s2.hist) + ke) = Wrap(h + ke + 1)
          BY <2>1, <5>4, <5>6
        <5> QED BY <1>1, <1>7, <2>1, <2>3, <4>1, <5>7
      <4>2. CASE ~ kept
        BY <1>1, <1>7, <2>1, <2>2, <4>2
      <4> QED BY <4>1, <4>2
    <3> QED BY <2>1, <2>3, <2>4, <3>1, <3>4, <3>5 DEF TablesOf
  <2> QED BY <2>5, <2>6
<1> QED BY <1>6, <1>7

-----------------------------------------------------------------------------
(* New counters                                                              *)

\* Zeros add up to zero.
LEMMA SumOfZeros ==
  ASSUME NEW D, IsFiniteSet(D), NEW f \in [D -> {0}]
  PROVE  SumOf(f) = 0
<1> DEFINE g == [s \in SUBSET D |-> 0]
<1>1. g \in [SUBSET D -> Nat] /\ g[{}] = 0 /\ g[D] = 0
  OBVIOUS
<1>2. \A s \in SUBSET D : \A x \in s : g[s] = f[x] + g[s \ {x}]
  OBVIOUS
<1> HIDE DEF g
<1>3. CW!Sums(g, D, f, 0)
  BY <1>1, <1>2 DEF CW!Sums
<1>4. CW!Total(f, D) = g[D]
  BY <1>3, SameFinite, InstanceAssumptions, CW!TotalIsSum
<1> QED BY <1>1, <1>4, SumIsTotal

\* The counters begin at zero.
LEMMA NewStatsFacts ==
  /\ NewStats \in Stats /\ CW!OneRowEach(NewStats)
  /\ NewStats.bytesIn = 0 /\ NewStats.framesOk = 0 /\ NewStats.framesDropped = 0
  /\ NewStats.framesBadCrc = 0 /\ NewStats.framesOverflow = 0
  /\ TablesOf(NewStats, [all |-> 0, kept |-> 0])
<1> DEFINE N == Nat
           H == [Families -> Nat]
           R == Seq(CW!Row)
           M == SUBSET Nat
           h == [f \in Families |-> 0]
           r == <<>>
           m == {}
<1>1. h \in H /\ r \in R /\ m \in M /\ 0 \in N
  OBVIOUS
<1>2. NewStats = [bytesIn |-> 0, framesOk |-> 0, framesBadCrc |-> 0, framesDropped |-> 0,
                  framesOverflow |-> 0, hist |-> h, rows |-> r, rowOverflow |-> 0,
                  decodeMask |-> m]
  BY Zenon DEF NewStats
<1>3. Stats = [bytesIn : N, framesOk : N, framesBadCrc : N, framesDropped : N,
               framesOverflow : N, hist : H, rows : R, rowOverflow : N, decodeMask : M]
  BY StatsIs
<1> HIDE DEF N, H, R, M, h, r, m
<1>4. /\ NewStats \in Stats /\ NewStats.rows = r /\ NewStats.rowOverflow = 0
      /\ NewStats.bytesIn = 0 /\ NewStats.framesOk = 0 /\ NewStats.framesDropped = 0
      /\ NewStats.framesBadCrc = 0 /\ NewStats.framesOverflow = 0 /\ NewStats.hist = h
  BY <1>1, <1>2, <1>3, SMT
<1>5. SumOf(h) = 0
  <2>1. h \in [Families -> {0}]
    BY DEF h
  <2> QED BY <2>1, FamiliesFinite, SumOfZeros
<1>6. Counts(NewStats) = 0
  <2> DEFINE f == [k \in DOMAIN NewStats.rows |-> NewStats.rows[k].count]
  <2>1. DOMAIN NewStats.rows = {}
    BY <1>4 DEF r
  <2>2. f \in [{} -> {0}]
    BY <2>1
  <2>3. SumOf(f) = 0
    <3> HIDE DEF f
    <3> QED BY <2>2, FS_EmptySet, SumOfZeros
  <2> QED BY <2>3 DEF Counts
<1>7. CW!OneRowEach(NewStats)
  <2>1. DOMAIN NewStats.rows = {}
    BY <1>4 DEF r
  <2> QED BY <2>1 DEF CW!OneRowEach
<1>8. TablesOf(NewStats, [all |-> 0, kept |-> 0])
  <2>1. 0 + 0 + 0 = 0 /\ 0 + 0 = 0 /\ Wrap(0) = 0
    BY WrapNext
  <2> QED BY <1>4, <1>5, <1>6, <2>1 DEF TablesOf
<1> QED BY <1>4, <1>7, <1>8

-----------------------------------------------------------------------------
(* What holds in every state                                                 *)

\* The line and the place in it.
PositionOK ==
  /\ chunks \in Seq(Seq(Byte)) /\ \A i \in DOMAIN chunks : chunks[i] # <<>>
  /\ ended \in 0..Len(chunks) /\ resetAt \in 0..ended
  /\ read \in Nat /\ (ended < Len(chunks) => read < Len(chunks[ended + 1]))
  /\ filter \in Filters /\ filters \in Seq(Filters) /\ Len(filters) = ended
  /\ emitted \in Seq(Seq(Byte))

\* The counters, and the two tables.
CountersOK ==
  /\ stats \in Stats /\ CW!OneRowEach(stats) /\ nowMs \in Nat
  /\ bytes \in Nat /\ stats.bytesIn = Wrap(bytes)
  /\ untyped \in [all : Nat, kept : Nat] /\ TablesOf(stats, untyped)

\* The assembler is in step with the chunks.
InStep == ended < Len(chunks) => buf = Collected(chunks[ended + 1], read)

BadFrames == {i \in 1..ended : IsFrame(chunks[i]) /\ ~ Good(i)}

Refused == {i \in 1..ended : IsTooLong(chunks[i])}

Since(S) == Wrap(Cardinality(Above(S, resetAt)))

\* Every frame that ended was counted once.
TalliesOK ==
  /\ stats.framesOk = Since(Wanted) /\ stats.framesDropped = Since(Arrived \ Wanted)
  /\ stats.framesBadCrc = Since(BadFrames) /\ stats.framesOverflow = Since(Refused)

\* The frames the filter kept, and where they are.
Lists(e, S) == Ranked(S) /\ e = [k \in 1..Cardinality(S) |-> chunks[Nth(S, k)]]

EmittedOK == Lists(emitted, Wanted)

HubInv ==
  /\ AsmOK /\ PositionOK /\ CountersOK
  /\ Clean => InStep /\ TalliesOK /\ EmittedOK

\* The sets of chunks told apart.
LEMMA SetsType ==
  /\ Arrived \in SUBSET (1..ended) /\ Wanted \in SUBSET Arrived
  /\ Wanted \in SUBSET (1..ended) /\ Arrived \ Wanted \in SUBSET (1..ended)
  /\ BadFrames \in SUBSET (1..ended) /\ Refused \in SUBSET (1..ended)
BY DEF Arrived, Wanted, BadFrames, Refused

\* The counters and sums of a chunk that ends.
LEMMA SinceNext ==
  ASSUME NEW n \in Nat, NEW r \in 0..n, NEW S \in SUBSET (1..n)
  PROVE  Wrap(Cardinality(Above(S \cup {n + 1}, r)))
           = Wrap(Wrap(Cardinality(Above(S, r))) + 1)
<1>1. PICK c \in Nat : c = Cardinality(Above(S, r))
  BY AboveNext
<1>2. Cardinality(Above(S \cup {n + 1}, r)) = c + 1
  BY <1>1, AboveNext
<1> QED BY <1>1, <1>2, WrapNext

\* A place in the line.
LEMMA PlaceFacts ==
  ASSUME PositionOK, ended < Len(chunks)
  PROVE  /\ ended \in Nat /\ ended + 1 \in 1..Len(chunks)
         /\ chunks[ended + 1] \in Seq(Byte) /\ Len(chunks[ended + 1]) \in Nat
         /\ read \in 0..(Len(chunks[ended + 1]) - 1)
         /\ NextByte \in Byte
<1>1. ended \in Nat /\ Len(chunks) \in Nat /\ ended + 1 \in 1..Len(chunks)
  BY DEF PositionOK
<1>2. chunks[ended + 1] \in Seq(Byte)
  BY <1>1, ElementOfSeq DEF PositionOK
<1>3. PICK c \in Seq(Byte) : c = chunks[ended + 1]
  BY <1>2
<1>4. Len(c) \in Nat /\ read \in Nat /\ read < Len(c)
  <2>1. read \in Nat /\ read < Len(chunks[ended + 1])
    BY DEF PositionOK
  <2> QED BY <1>3, <2>1
<1>5. read + 1 \in 1..Len(c)
  BY <1>4
<1>6. c[read + 1] \in Byte
  BY <1>5, ElementOfSeq
<1>7. read \in 0..(Len(c) - 1)
  BY <1>4
<1> QED BY <1>1, <1>2, <1>3, <1>4, <1>6, <1>7 DEF NextByte

\* The sets after a chunk that ended.
LEMMA SetsNext ==
  ASSUME PositionOK, ended < Len(chunks), chunks' = chunks, ended' = ended + 1,
         filters' = Append(filters, filter)
  PROVE  LET n == ended + 1
             c == chunks[n]
             kept == Passes(filter, MessageType(c))
         IN
         /\ Arrived' = IF Good(n) THEN Arrived \cup {n} ELSE Arrived
         /\ Wanted' = IF Good(n) /\ kept THEN Wanted \cup {n} ELSE Wanted
         /\ (Arrived \ Wanted)' = IF Good(n) /\ ~ kept THEN (Arrived \ Wanted) \cup {n}
                                  ELSE Arrived \ Wanted
         /\ BadFrames' = IF IsFrame(c) /\ ~ Good(n) THEN BadFrames \cup {n} ELSE BadFrames
         /\ Refused' = IF IsTooLong(c) THEN Refused \cup {n} ELSE Refused
<1> DEFINE n == ended + 1
           c == chunks[n]
           kept == Passes(filter, MessageType(c))
<1>1. ended \in Nat /\ Len(filters) = ended /\ filters \in Seq(Filters)
  BY DEF PositionOK
<1>2. /\ \A i \in 1..ended : filters'[i] = filters[i]
      /\ filters'[n] = filter
  BY <1>1
<1>3. 1..ended' = (1..ended) \cup {n} /\ n \notin 1..ended
  BY <1>1
<1>4. \A i : Good(i)' <=> Good(i)
  BY DEF Good, IsFrame, PayloadLen, Preamble
<1>5. Arrived' = IF Good(n) THEN Arrived \cup {n} ELSE Arrived
  BY <1>3, <1>4, Zenon DEF Arrived
<1>6. Wanted' = {i \in Arrived' : Passes(filters'[i], MessageType(chunks[i]))}
  BY DEF Wanted, MessageType
<1>7. Arrived \in SUBSET (1..ended) /\ Wanted \in SUBSET Arrived
  BY SetsType
<1> HIDE DEF n
<1>8. Wanted' = IF Good(n) /\ kept THEN Wanted \cup {n} ELSE Wanted
  <2>1. \A i \in Arrived : Passes(filters'[i], MessageType(chunks[i]))
                            <=> Passes(filters[i], MessageType(chunks[i]))
    BY <1>2, <1>7
  <2>2. Passes(filters'[n], MessageType(chunks[n])) <=> kept
    BY <1>2
  <2>3. n \notin Arrived
    BY <1>3, <1>7
  <2> HIDE DEF kept
  <2> QED BY <1>5, <1>6, <2>1, <2>2, <2>3, Zenon DEF Wanted
<1>9. (Arrived \ Wanted)' = IF Good(n) /\ ~ kept THEN (Arrived \ Wanted) \cup {n}
                            ELSE Arrived \ Wanted
  <2>1. n \notin Arrived /\ n \notin Wanted
    BY <1>3, <1>7
  <2> HIDE DEF kept
  <2>2. CASE Good(n) /\ kept
    BY <1>5, <1>8, <2>1, <2>2
  <2>3. CASE Good(n) /\ ~ kept
    BY <1>5, <1>8, <2>1, <2>3
  <2>4. CASE ~ Good(n)
    BY <1>5, <1>8, <2>1, <2>4
  <2> QED BY <2>2, <2>3, <2>4
<1>10. \A i : (IsFrame(chunks[i])' <=> IsFrame(chunks[i]))
              /\ (IsTooLong(chunks[i])' <=> IsTooLong(chunks[i]))
  BY DEF IsFrame, IsTooLong, PayloadLen, Preamble
<1>11. BadFrames' = IF IsFrame(c) /\ ~ Good(n) THEN BadFrames \cup {n} ELSE BadFrames
  BY <1>3, <1>4, <1>10, Zenon DEF BadFrames
<1>12. Refused' = IF IsTooLong(c) THEN Refused \cup {n} ELSE Refused
  BY <1>3, <1>10, Zenon DEF Refused
<1> QED BY <1>5, <1>8, <1>9, <1>11, <1>12 DEF n

\* The place after a byte.
LEMMA PositionKept ==
  ASSUME PositionOK, ended < Len(chunks), Advance, Emit, filter' = filter,
         status' = "Ok" => out' \in Seq(Byte)
  PROVE  PositionOK'
<1>1. /\ ended \in Nat /\ ended + 1 \in 1..Len(chunks) /\ Len(chunks) \in Nat
      /\ Len(chunks[ended + 1]) \in Nat /\ read \in 0..(Len(chunks[ended + 1]) - 1)
  BY PlaceFacts DEF PositionOK
<1>2. chunks' = chunks /\ resetAt' = resetAt
  BY DEF Advance
<1>3. emitted' \in Seq(Seq(Byte))
  BY DEF Emit, PositionOK
<1>4. CASE read + 1 = Len(chunks[ended + 1])
  <2>1. ended' = ended + 1 /\ read' = 0 /\ filters' = Append(filters, filter)
    BY <1>4 DEF Advance
  <2>2. filters' \in Seq(Filters) /\ Len(filters') = ended'
    BY <2>1 DEF PositionOK
  <2>3. ended' < Len(chunks) => 0 < Len(chunks[ended' + 1])
    <3>1. SUFFICES ASSUME ended' < Len(chunks) PROVE 0 < Len(chunks[ended' + 1])
      OBVIOUS
    <3>2. PICK i \in 1..Len(chunks) : i = ended' + 1
      BY <1>1, <2>1, <3>1
    <3>3. chunks[i] \in Seq(Byte) /\ chunks[i] # <<>>
      BY ElementOfSeq DEF PositionOK
    <3>4. Len(chunks[i]) > 0
      BY <3>3, EmptySeq
    <3> QED BY <3>2, <3>4
  <2>4. ended' \in 0..Len(chunks) /\ resetAt \in 0..ended'
    BY <1>1, <2>1 DEF PositionOK
  <2> QED BY <1>2, <1>3, <2>1, <2>2, <2>3, <2>4 DEF PositionOK
<1>5. CASE read + 1 # Len(chunks[ended + 1])
  <2>1. ended' = ended /\ read' = read + 1 /\ filters' = filters
    BY <1>5 DEF Advance
  <2>2. read + 1 \in Nat /\ read + 1 < Len(chunks[ended + 1])
    BY <1>1, <1>5
  <2> QED BY <1>2, <1>3, <2>1, <2>2 DEF PositionOK
<1> QED BY <1>4, <1>5

\* A byte of the line, and the frame it may end: what the two parts make of it.
LEMMA FeedFacts ==
  ASSUME HubInv, FeedByte
  PROVE  /\ AsmOK' /\ PositionOK' /\ CountersOK'
         /\ Tallied(stats, stats')
<1>1. PositionOK /\ AsmOK /\ CountersOK /\ ended < Len(chunks) /\ Feed(NextByte, BufSize)
      /\ Emit /\ Advance /\ filter' = filter /\ nowMs' = nowMs
      /\ stats' = Counted(OnByte(stats))
  BY DEF HubInv, FeedByte
<1>2. PICK b \in Byte : b = NextByte
  BY <1>1, PlaceFacts
<1>3. /\ AsmOK' /\ status' \in {"NeedMore", "Ok", "BadCrc", "Overflow"}
      /\ status' = "Ok" => Len(out') >= 5
  BY <1>1, <1>2, AsmKept
<1>4. out' \in Seq(Byte)
  BY <1>3 DEF AsmOK
<1>5. PositionOK'
  BY <1>1, <1>4, PositionKept
<1>6. PICK s \in Stats : s = stats
  BY <1>1 DEF CountersOK
<1>7. Tallied(s, Counted(OnByte(s)))
  BY <1>1, <1>3, <1>4, <1>6, CountedFacts DEF CountersOK
<1>8. Tallied(s, stats')
  BY <1>1, <1>6, <1>7
<1>9. PICK u \in [all : Nat, kept : Nat] : u = untyped
  BY <1>1 DEF CountersOK
<1>10. untyped' = Untyped(u)
  BY <1>1, <1>9, Zenon DEF Advance, Untyped
<1>11. TablesOf(s, u) /\ nowMs \in Nat
  BY <1>1, <1>6, <1>9 DEF CountersOK
<1>12. TablesOf(stats', untyped') /\ untyped' \in [all : Nat, kept : Nat]
  <2>1. PICK s2 : s2 = stats'
    OBVIOUS
  <2>2. Tallied(s, s2)
    BY <1>8, <2>1
  <2>3. TablesOf(s2, Untyped(u)) /\ Untyped(u) \in [all : Nat, kept : Nat]
    BY <1>3, <1>4, <1>11, <2>2, TablesKept
  <2> QED BY <1>10, <2>1, <2>3
<1>13. stats' \in Stats /\ CW!OneRowEach(stats') /\ stats'.bytesIn = Wrap(s.bytesIn + 1)
  BY <1>8 DEF Tallied
<1>14. bytes' \in Nat /\ stats'.bytesIn = Wrap(bytes')
  <2>1. PICK n \in Nat : n = bytes
    BY <1>1 DEF CountersOK
  <2>2. s.bytesIn = Wrap(n) /\ bytes' = n + 1
    BY <1>1, <1>6, <2>1 DEF CountersOK, Advance
  <2>3. Wrap(Wrap(n) + 1) = Wrap(n + 1)
    BY WrapNext
  <2> QED BY <1>13, <2>2, <2>3
<1>15. CountersOK'
  <2>1. \A x : CW!OneRowEach(x)' <=> CW!OneRowEach(x')
    OBVIOUS
  <2> QED BY <1>1, <1>12, <1>13, <1>14, <2>1 DEF CountersOK
<1> QED BY <1>3, <1>5, <1>6, <1>8, <1>15

\* The line is as clean as before.
LEMMA SameLine ==
  ASSUME chunks' = chunks
  PROVE  Clean' <=> Clean
BY DEF Clean, IsFrame, IsTooLong, IsNoise, PayloadLen, Preamble

\* Amid a chunk nothing is counted and nothing handed out.
LEMMA AmidChunk ==
  ASSUME HubInv, FeedByte, Clean, read + 1 # Len(chunks[ended + 1])
  PROVE  (InStep /\ TalliesOK /\ EmittedOK)'
<1>1. PositionOK /\ AsmOK /\ ended < Len(chunks) /\ Feed(NextByte, BufSize)
      /\ Emit /\ Advance /\ InStep /\ TalliesOK /\ EmittedOK
  BY DEF HubInv, FeedByte
<1>2. /\ ended \in Nat /\ ended + 1 \in 1..Len(chunks) /\ chunks[ended + 1] \in Seq(Byte)
      /\ Len(chunks[ended + 1]) \in Nat /\ read \in 0..(Len(chunks[ended + 1]) - 1)
  BY <1>1, PlaceFacts
<1>a. PICK c \in Seq(Byte) : c = chunks[ended + 1]
  BY <1>2
<1>b. PICK p \in 0..(Len(c) - 1) : p = read
  BY <1>2, <1>a
<1>3. c = chunks[ended + 1] /\ p = read
  BY <1>a, <1>b
<1>4. buf = Collected(c, p) /\ Feed(c[p + 1], BufSize)
  BY <1>1, <1>3 DEF InStep, NextByte
<1>5. IsFrame(c) \/ IsTooLong(c) \/ IsNoise(c)
  BY <1>2, <1>3 DEF Clean
<1>6. Len(c) \in Nat /\ p + 1 < Len(c)
  BY <1>3
<1>7. status' = "NeedMore" /\ out' = out /\ buf' = Collected(c, p + 1)
  BY <1>1, <1>4, <1>5, <1>6, ChunkFed
<1>8. /\ ended' = ended /\ read' = read + 1 /\ filters' = filters /\ chunks' = chunks
      /\ resetAt' = resetAt /\ emitted' = emitted
  BY <1>1, <1>7 DEF Advance, Emit
<1>9. /\ stats'.framesOk = stats.framesOk /\ stats'.framesDropped = stats.framesDropped
      /\ stats'.framesBadCrc = stats.framesBadCrc
      /\ stats'.framesOverflow = stats.framesOverflow
  BY <1>7, FeedFacts DEF Tallied
<1>10. InStep'
  BY <1>3, <1>7, <1>8 DEF InStep, Collected, IsNoise, Preamble
<1>11. /\ Arrived' = Arrived /\ Wanted' = Wanted /\ BadFrames' = BadFrames /\ Refused' = Refused
  BY <1>8 DEF Arrived, Wanted, BadFrames, Refused, Good, IsFrame, IsTooLong, MessageType,
     PayloadLen, Preamble
<1>12. TalliesOK'
  BY <1>1, <1>8, <1>9, <1>11 DEF TalliesOK, Since, Above
<1>13. EmittedOK'
  BY <1>1, <1>8, <1>11 DEF EmittedOK, Lists
<1> QED BY <1>10, <1>12, <1>13

\* A frame appended to the list of frames.
LEMMA AppendIs ==
  ASSUME NEW e \in Seq(Seq(Byte)), NEW c \in Seq(Byte)
  PROVE  /\ Len(e) \in Nat /\ DOMAIN e = 1..Len(e)
         /\ DOMAIN Append(e, c) = 1..(Len(e) + 1) /\ Append(e, c)[Len(e) + 1] = c
         /\ \A k \in 1..Len(e) : Append(e, c)[k] = e[k]
         /\ Append(e, c) = [k \in 1..(Len(e) + 1) |-> Append(e, c)[k]]
<1>1. /\ Len(e) \in Nat /\ DOMAIN e = 1..Len(e)
      /\ DOMAIN Append(e, c) = 1..(Len(e) + 1) /\ Append(e, c)[Len(e) + 1] = c
      /\ \A k \in 1..Len(e) : Append(e, c)[k] = e[k]
  OBVIOUS
<1>2. PICK f \in Seq(Seq(Byte)) : f = Append(e, c)
  BY AppendProperties
<1>3. f \in [1..Len(f) -> Seq(Byte)] /\ DOMAIN f = 1..Len(f)
  BY LenProperties
<1>4. f = [k \in DOMAIN f |-> f[k]]
  BY <1>3
<1> QED BY <1>1, <1>2, <1>4

\* An interval has one length.
LEMMA OneLength ==
  ASSUME NEW m \in Nat, NEW l \in Nat, 1..m = 1..l
  PROVE  m = l
<1>1. CASE m < l
  <2>1. l \in 1..l /\ l \notin 1..m
    BY <1>1
  <2> QED BY <2>1
<1>2. CASE l < m
  <2>1. m \in 1..m /\ m \notin 1..l
    BY <1>2
  <2> QED BY <2>1
<1> QED BY <1>1, <1>2

\* One more frame is listed at the end.
LEMMA ListGrows ==
  ASSUME NEW n \in Nat, NEW S \in SUBSET (1..n), NEW e \in Seq(Seq(Byte)), Lists(e, S),
         NEW c \in Seq(Byte), c = chunks[n + 1]
  PROVE  Lists(Append(e, c), S \cup {n + 1})
<1> DEFINE T == S \cup {n + 1}
           m == Cardinality(S)
           f == [k \in 1..Cardinality(T) |-> chunks[Nth(T, k)]]
<1>0. Ranked(S) /\ e = [k \in 1..m |-> chunks[Nth(S, k)]]
  BY DEF Lists
<1>1. /\ Cardinality(T) = m + 1 /\ Ranked(T)
      /\ \A k \in 1..m : Nth(T, k) = Nth(S, k)
      /\ Nth(T, m + 1) = n + 1
  BY <1>0, NthLast
<1>2. m \in Nat
  BY RankUnique
<1>3. DOMAIN e = 1..m
  <2> HIDE DEF m
  <2> QED BY <1>0
<1>4. /\ DOMAIN Append(e, c) = 1..(m + 1) /\ Append(e, c)[m + 1] = c
      /\ \A k \in 1..m : Append(e, c)[k] = e[k]
      /\ Append(e, c) = [k \in 1..(m + 1) |-> Append(e, c)[k]]
  <2> HIDE DEF m
  <2>1. Len(e) = m
    <3>1. Len(e) \in Nat /\ 1..Len(e) = 1..m
      BY <1>3, AppendIs
    <3> QED BY <1>2, <3>1, OneLength
  <2> QED BY <2>1, AppendIs
<1>5. \A k \in 1..m : e[k] = chunks[Nth(S, k)]
  BY <1>0
<1> HIDE DEF T, m
<1>6. DOMAIN f = 1..(m + 1) /\ \A k \in 1..(m + 1) : f[k] = chunks[Nth(T, k)]
  BY <1>1
<1>7. \A k \in 1..(m + 1) : k \in 1..m \/ k = m + 1
  BY <1>2
<1>8. \A k \in 1..(m + 1) : Append(e, c)[k] = f[k]
  BY <1>1, <1>4, <1>5, <1>6, <1>7
<1>9. f = [k \in 1..(m + 1) |-> f[k]]
  BY <1>6
<1>10. Append(e, c) = f
  <2> HIDE DEF f
  <2> QED BY <1>4, <1>8, <1>9
<1> QED BY <1>1, <1>10 DEF T, Lists

\* The end of a chunk: a frame is counted once, in one of the four, and handed out
\* when it is good and wanted.
LEMMA ChunkEnds ==
  ASSUME HubInv, FeedByte, Clean, read + 1 = Len(chunks[ended + 1])
  PROVE  (InStep /\ TalliesOK /\ EmittedOK)'
<1>1. PositionOK /\ AsmOK /\ ended < Len(chunks) /\ Feed(NextByte, BufSize)
      /\ Emit /\ Advance /\ InStep /\ TalliesOK /\ EmittedOK
  BY DEF HubInv, FeedByte
<1>2. /\ ended \in Nat /\ ended + 1 \in 1..Len(chunks) /\ chunks[ended + 1] \in Seq(Byte)
      /\ Len(chunks[ended + 1]) \in Nat /\ read \in 0..(Len(chunks[ended + 1]) - 1)
  BY <1>1, PlaceFacts
<1>a. PICK n \in Nat : n = ended
  BY <1>2
<1>b. PICK c \in Seq(Byte) : c = chunks[n + 1]
  BY <1>2, <1>a
<1>c. PICK p \in 0..(Len(c) - 1) : p = read
  BY <1>2, <1>a, <1>b
<1>4. buf = Collected(c, p) /\ Feed(c[p + 1], BufSize)
  BY <1>1, <1>a, <1>b, <1>c DEF InStep, NextByte
<1>5. IsFrame(c) \/ IsTooLong(c) \/ IsNoise(c)
  BY <1>2, <1>a, <1>b DEF Clean
<1>6. Len(c) \in Nat /\ p + 1 = Len(c)
  BY <1>a, <1>b, <1>c
<1>7. /\ buf' = <<>>
      /\ IsNoise(c) => status' = "NeedMore" /\ out' = out
      /\ IsTooLong(c) => status' = "Overflow" /\ out' = out
      /\ IsFrame(c) => IF CrcOk(c) THEN status' = "Ok" /\ out' = c
                       ELSE status' = "BadCrc" /\ out' = out
  BY <1>1, <1>4, <1>5, <1>6, ChunkFed
<1>8. /\ ended' = ended + 1 /\ read' = 0 /\ filters' = Append(filters, filter)
      /\ chunks' = chunks /\ resetAt' = resetAt
  BY <1>1 DEF Advance
<1> DEFINE good == Good(n + 1)
           kept == Passes(filter, MessageType(c))
<1>9. good <=> IsFrame(c) /\ CrcOk(c)
  BY <1>b DEF Good
<1>10. /\ Arrived' = IF good THEN Arrived \cup {n + 1} ELSE Arrived
       /\ Wanted' = IF good /\ kept THEN Wanted \cup {n + 1} ELSE Wanted
       /\ (Arrived \ Wanted)' = IF good /\ ~ kept THEN (Arrived \ Wanted) \cup {n + 1}
                                ELSE Arrived \ Wanted
       /\ BadFrames' = IF IsFrame(c) /\ ~ good THEN BadFrames \cup {n + 1} ELSE BadFrames
       /\ Refused' = IF IsTooLong(c) THEN Refused \cup {n + 1} ELSE Refused
  <2>1. n + 1 = ended + 1
    BY <1>a
  <2> HIDE DEF good, kept
  <2> QED BY <1>1, <1>8, <1>b, <2>1, SetsNext, Zenon DEF good, kept
<1>11. ~ (IsFrame(c) /\ IsTooLong(c)) /\ ~ (IsNoise(c) /\ (IsFrame(c) \/ IsTooLong(c)))
  <2>1. IsFrame(c) => Len(c) >= 6 /\ c[1] = Preamble
    BY DEF IsFrame
  <2>2. IsTooLong(c) => Len(c) = 3 /\ c[1] = Preamble
    BY DEF IsTooLong
  <2>3. IsNoise(c) => c[1] # Preamble
    BY <1>6 DEF IsNoise
  <2>4. ~ (Len(c) >= 6 /\ Len(c) = 3)
    BY <1>6
  <2> QED BY <2>1, <2>2, <2>3, <2>4, Zenon
<1>12. /\ status' = "Ok" <=> good
       /\ status' = "BadCrc" <=> IsFrame(c) /\ ~ good
       /\ status' = "Overflow" <=> IsTooLong(c)
       /\ good => out' = c
  BY <1>5, <1>7, <1>9, <1>11
<1>13. good => (Kept(out') <=> kept)
  BY <1>12 DEF Kept
<1>14. /\ stats'.framesOk = IF good /\ kept THEN Wrap(stats.framesOk + 1) ELSE stats.framesOk
       /\ stats'.framesDropped = IF good /\ ~ kept THEN Wrap(stats.framesDropped + 1)
                                 ELSE stats.framesDropped
       /\ stats'.framesBadCrc = IF IsFrame(c) /\ ~ good THEN Wrap(stats.framesBadCrc + 1)
                                ELSE stats.framesBadCrc
       /\ stats'.framesOverflow = IF IsTooLong(c) THEN Wrap(stats.framesOverflow + 1)
                                  ELSE stats.framesOverflow
  <2> HIDE DEF good, kept
  <2> QED BY <1>12, <1>13, FeedFacts DEF Tallied
<1>15. InStep'
  <2>1. SUFFICES ASSUME ended' < Len(chunks') PROVE buf' = Collected(chunks'[ended' + 1], 0)
    BY <1>8 DEF InStep, Collected, IsNoise, Preamble
  <2>2. \A d : Collected(d, 0) = <<>>
    BY DEF Collected
  <2> QED BY <1>7, <2>2
<1>16. /\ Wanted \in SUBSET (1..n) /\ Arrived \ Wanted \in SUBSET (1..n)
       /\ BadFrames \in SUBSET (1..n) /\ Refused \in SUBSET (1..n)
  BY <1>a, SetsType
<1>17. resetAt \in 0..n
  BY <1>1, <1>a DEF PositionOK
<1> HIDE DEF good, kept
<1>18. TalliesOK'
  <2>1. ASSUME NEW S \in SUBSET (1..n) PROVE Since(S \cup {n + 1}) = Wrap(Since(S) + 1)
    <3>1. PICK r \in 0..n : r = resetAt
      BY <1>17
    <3> QED BY <3>1, SinceNext DEF Since
  <2>2. \A S : Since(S)' = Wrap(Cardinality(Above(S', resetAt)))
    BY <1>8 DEF Since, Above
  <2>3. /\ Since(Wanted)' = IF good /\ kept THEN Wrap(Since(Wanted) + 1) ELSE Since(Wanted)
        /\ Since(Arrived \ Wanted)' = IF good /\ ~ kept THEN Wrap(Since(Arrived \ Wanted) + 1)
                                      ELSE Since(Arrived \ Wanted)
        /\ Since(BadFrames)' = IF IsFrame(c) /\ ~ good THEN Wrap(Since(BadFrames) + 1)
                               ELSE Since(BadFrames)
        /\ Since(Refused)' = IF IsTooLong(c) THEN Wrap(Since(Refused) + 1) ELSE Since(Refused)
    <3>1. /\ Since(Wanted)' = Wrap(Cardinality(Above(Wanted', resetAt)))
          /\ Since(Arrived \ Wanted)' = Wrap(Cardinality(Above((Arrived \ Wanted)', resetAt)))
          /\ Since(BadFrames)' = Wrap(Cardinality(Above(BadFrames', resetAt)))
          /\ Since(Refused)' = Wrap(Cardinality(Above(Refused', resetAt)))
      BY <1>8 DEF Since
    <3>2. \A S : Wrap(Cardinality(Above(S, resetAt))) = Since(S)
      BY DEF Since
    <3>3. \A S \in SUBSET (1..n) : Wrap(Cardinality(Above(S \cup {n + 1}, resetAt)))
                                    = Wrap(Since(S) + 1)
      BY <2>1, <3>2
    <3>4. Since(Wanted)' = IF good /\ kept THEN Wrap(Since(Wanted) + 1) ELSE Since(Wanted)
      BY <1>10, <1>16, <3>1, <3>2, <3>3
    <3>5. Since(Arrived \ Wanted)' = IF good /\ ~ kept THEN Wrap(Since(Arrived \ Wanted) + 1)
                                     ELSE Since(Arrived \ Wanted)
      <4>1. PICK S \in SUBSET (1..n) : S = Arrived \ Wanted
        BY <1>16
      <4>2. PICK T : T = (Arrived \ Wanted)'
        OBVIOUS
      <4>3. T = IF good /\ ~ kept THEN S \cup {n + 1} ELSE S
        BY <1>10, <4>1, <4>2
      <4>4. Since(Arrived \ Wanted)' = Wrap(Cardinality(Above(T, resetAt)))
        BY <3>1, <4>2
      <4> QED BY <3>2, <3>3, <4>1, <4>3, <4>4
    <3>6. Since(BadFrames)' = IF IsFrame(c) /\ ~ good THEN Wrap(Since(BadFrames) + 1)
                              ELSE Since(BadFrames)
      BY <1>10, <1>16, <3>1, <3>2, <3>3
    <3>7. Since(Refused)' = IF IsTooLong(c) THEN Wrap(Since(Refused) + 1) ELSE Since(Refused)
      BY <1>10, <1>16, <3>1, <3>2, <3>3
    <3> QED BY <3>4, <3>5, <3>6, <3>7
  <2> QED BY <1>1, <1>14, <2>3 DEF TalliesOK
<1>19. EmittedOK'
  <2>1. emitted' = IF good /\ kept THEN Append(emitted, c) ELSE emitted
    BY <1>1, <1>12, <1>13 DEF Emit
  <2>2. PICK e \in Seq(Seq(Byte)) : e = emitted
    BY <1>1 DEF PositionOK
  <2>3. PICK S \in SUBSET (1..n) : S = Wanted
    BY <1>16
  <2>4. Lists(e, S)
    BY <1>1, <2>2, <2>3 DEF EmittedOK
  <2>5. CASE good /\ kept
    <3>1. Lists(Append(e, c), S \cup {n + 1})
      BY <1>b, <2>4, ListGrows, Zenon
    <3>2. Wanted' = S \cup {n + 1} /\ emitted' = Append(e, c)
      BY <1>10, <2>1, <2>2, <2>3, <2>5
    <3> QED BY <1>8, <3>1, <3>2 DEF EmittedOK, Lists
  <2>6. CASE ~ (good /\ kept)
    <3>1. Wanted' = S /\ emitted' = e
      BY <1>10, <2>1, <2>2, <2>3, <2>6
    <3> QED BY <1>8, <2>4, <3>1 DEF EmittedOK, Lists
  <2> QED BY <2>5, <2>6
<1> QED BY <1>15, <1>18, <1>19

\* A byte keeps everything.
LEMMA FeedKeeps ==
  ASSUME HubInv, FeedByte
  PROVE  HubInv'
<1>1. Clean' <=> Clean
  BY SameLine DEF FeedByte, Advance
<1>2. Clean => (InStep /\ TalliesOK /\ EmittedOK)'
  BY AmidChunk, ChunkEnds
<1> QED BY <1>1, <1>2, FeedFacts DEF HubInv

\* It holds at the start.
LEMMA HubStarts ==
  Init => HubInv
<1> SUFFICES ASSUME Init PROVE HubInv
  OBVIOUS
<1>1. /\ buf = <<>> /\ phase = 0 /\ expected = 0 /\ status = "NeedMore" /\ out = <<>>
      /\ stats = NewStats /\ filter = "none" /\ nowMs = 0 /\ emitted = <<>> /\ chunks \in Lines
      /\ ended = 0 /\ read = 0 /\ filters = <<>> /\ resetAt = 0 /\ bytes = 0
      /\ untyped = [all |-> 0, kept |-> 0]
  BY DEF Init, AsmInit
<1>2. AsmOK
  BY <1>1 DEF AsmOK, ASMStatus
<1>3. chunks \in Seq(Seq(Byte)) /\ \A i \in DOMAIN chunks : chunks[i] # <<>>
  BY <1>1, HubAssumption
<1>4. PositionOK
  <2>1. 0 < Len(chunks) => 0 < Len(chunks[0 + 1])
    <3>1. SUFFICES ASSUME 0 < Len(chunks) PROVE 0 < Len(chunks[1])
      OBVIOUS
    <3>2. PICK i \in 1..Len(chunks) : i = 1
      BY <1>3, <3>1
    <3>3. chunks[i] \in Seq(Byte) /\ chunks[i] # <<>>
      BY <1>3, ElementOfSeq
    <3>4. Len(chunks[i]) > 0
      BY <3>3, EmptySeq
    <3> QED BY <3>2, <3>4
  <2>2. /\ <<>> \in Seq(Filters) /\ Len(<<>>) = 0 /\ <<>> \in Seq(Seq(Byte))
        /\ "none" \in Filters
    BY EmptySeq DEF Filters
  <2>3. Len(chunks) \in Nat
    BY <1>3
  <2>4. ended \in 0..Len(chunks) /\ resetAt \in 0..ended /\ read \in Nat
    BY <1>1, <2>3
  <2> QED BY <1>1, <1>3, <2>1, <2>2, <2>4 DEF PositionOK
<1>5. CountersOK
  BY <1>1, NewStatsFacts, WrapNext DEF CountersOK
<1>6. Arrived = {} /\ Wanted = {} /\ BadFrames = {} /\ Refused = {}
  BY <1>1, SetsType
<1>7. InStep
  BY <1>1 DEF InStep, Collected
<1>8. Cardinality({}) = 0 /\ Above({}, resetAt) = {}
  BY FS_EmptySet DEF Above
<1>9. TalliesOK
  <2>1. Since({}) = 0 /\ {} \ {} = {}
    BY <1>8, WrapNext DEF Since
  <2> QED BY <1>1, <1>6, <2>1, NewStatsFacts DEF TalliesOK
<1>10. EmittedOK
  <2>1. Ranked({}) /\ 1..0 = {}
    BY <1>8 DEF Ranked
  <2>2. emitted = [k \in {} |-> chunks[Nth({}, k)]]
    BY <1>1
  <2> QED BY <1>6, <1>8, <2>1, <2>2 DEF EmittedOK, Lists
<1> QED BY <1>2, <1>4, <1>5, <1>7, <1>9, <1>10 DEF HubInv

\* What a step keeps that feeds no byte and resets nothing.
LEMMA CallKeeps ==
  ASSUME HubInv, UNCHANGED <<asmVars, stats, emitted, position, resetAt, bytes, untyped>>,
         filter' \in Filters, nowMs' \in Nat
  PROVE  HubInv'
<1>1. /\ buf' = buf /\ phase' = phase /\ expected' = expected /\ status' = status /\ out' = out
      /\ stats' = stats /\ emitted' = emitted /\ chunks' = chunks /\ ended' = ended
      /\ read' = read /\ filters' = filters /\ resetAt' = resetAt /\ bytes' = bytes
      /\ untyped' = untyped
  BY DEF asmVars, position
<1>2. AsmOK'
  BY <1>1 DEF HubInv, AsmOK, ASMStatus, PayloadLen, Preamble, Byte
<1>3. PositionOK'
  BY <1>1 DEF HubInv, PositionOK
<1>4. CountersOK'
  <2>1. \A x : CW!OneRowEach(x)' <=> CW!OneRowEach(x')
    OBVIOUS
  <2> QED BY <1>1, <2>1 DEF HubInv, CountersOK
<1>5. Clean' <=> Clean
  BY <1>1, SameLine
<1>6. InStep => InStep'
  BY <1>1 DEF InStep
<1>7. /\ Arrived' = Arrived /\ Wanted' = Wanted /\ BadFrames' = BadFrames /\ Refused' = Refused
  BY <1>1 DEF Arrived, Wanted, BadFrames, Refused, Good, IsFrame, IsTooLong, MessageType,
     PayloadLen, Preamble
<1>8. TalliesOK => TalliesOK'
  BY <1>1, <1>7 DEF TalliesOK, Since, Above
<1>9. EmittedOK => EmittedOK'
  BY <1>1, <1>7 DEF EmittedOK, Lists
<1> QED BY <1>2, <1>3, <1>4, <1>5, <1>6, <1>8, <1>9 DEF HubInv

\* A reset begins the counts anew.
LEMMA ResetKeeps ==
  ASSUME HubInv, StatsReset
  PROVE  HubInv'
<1>1. /\ buf' = buf /\ phase' = phase /\ expected' = expected /\ status' = status /\ out' = out
      /\ stats' = NewStats /\ emitted' = emitted /\ chunks' = chunks /\ ended' = ended
      /\ read' = read /\ filters' = filters /\ filter' = filter /\ nowMs' = nowMs
      /\ resetAt' = ended /\ bytes' = 0 /\ untyped' = [all |-> 0, kept |-> 0]
  BY DEF StatsReset, asmVars, position
<1>2. AsmOK'
  BY <1>1 DEF HubInv, AsmOK, ASMStatus, PayloadLen, Preamble, Byte
<1>3. PositionOK'
  BY <1>1 DEF HubInv, PositionOK
<1>4. CountersOK'
  <2>1. \A x : CW!OneRowEach(x)' <=> CW!OneRowEach(x')
    OBVIOUS
  <2>2. nowMs \in Nat
    BY DEF HubInv, CountersOK
  <2> QED BY <1>1, <2>1, <2>2, NewStatsFacts, WrapNext DEF CountersOK
<1>5. Clean' <=> Clean
  BY <1>1, SameLine
<1>6. InStep => InStep'
  BY <1>1 DEF InStep
<1>7. /\ Arrived' = Arrived /\ Wanted' = Wanted /\ BadFrames' = BadFrames /\ Refused' = Refused
  BY <1>1 DEF Arrived, Wanted, BadFrames, Refused, Good, IsFrame, IsTooLong, MessageType,
     PayloadLen, Preamble
<1>8. TalliesOK'
  <2>1. ended \in Nat
    BY DEF HubInv, PositionOK
  <2>2. \A S \in SUBSET (1..ended) : Cardinality(Above(S, ended)) = 0
    <3>1. PICK n \in Nat : n = ended
      BY <2>1
    <3>2. 0 \in 0..n
      OBVIOUS
    <3> QED BY <3>1, <3>2, AboveNext
  <2>3. \A S \in SUBSET (1..ended) : Wrap(Cardinality(Above(S, ended))) = 0
    BY <2>2, WrapNext
  <2>4. /\ Since(Wanted)' = 0 /\ Since(Arrived \ Wanted)' = 0
        /\ Since(BadFrames)' = 0 /\ Since(Refused)' = 0
    BY <1>1, <1>7, <2>3, SetsType DEF Since
  <2> QED BY <1>1, <2>4, NewStatsFacts DEF TalliesOK
<1>9. EmittedOK => EmittedOK'
  BY <1>1, <1>7 DEF EmittedOK, Lists
<1> QED BY <1>2, <1>3, <1>4, <1>5, <1>6, <1>8, <1>9 DEF HubInv

\* Every step keeps it.
LEMMA HubKeeps ==
  HubInv /\ [Next]_vars => HubInv'
<1> SUFFICES ASSUME HubInv, [Next]_vars PROVE HubInv'
  OBVIOUS
<1>1. filter \in Filters /\ nowMs \in Nat
  BY DEF HubInv, PositionOK, CountersOK
<1>2. ASSUME NEW n \in BatchSizes, StartBatch(n) PROVE HubInv'
  BY <1>1, <1>2, CallKeeps DEF StartBatch, hubVars, history, position
<1>3. CASE FeedNext
  BY <1>3, FeedKeeps DEF FeedNext
<1>4. ASSUME NEW f \in UsedFilters, SetFilter(f) PROVE HubInv'
  <2>1. f \in Filters
    BY HubAssumption
  <2> QED BY <1>1, <1>4, <2>1, CallKeeps DEF SetFilter
<1>5. ASSUME NEW t \in Clock, SetNowMs(t) PROVE HubInv'
  <2>1. t \in Nat
    BY HubAssumption
  <2> QED BY <1>1, <1>5, <2>1, CallKeeps DEF SetNowMs
<1>6. CASE StatsReset
  BY <1>6, ResetKeeps
<1>7. CASE UNCHANGED vars
  BY <1>1, <1>7, CallKeeps DEF vars, hubVars, history
<1> QED BY <1>2, <1>3, <1>4, <1>5, <1>6, <1>7 DEF Next

-----------------------------------------------------------------------------
(* Theorems                                                                  *)

\* In every state the assembler is in step with the line, the counters tell what it
\* carried since the reset, and the frames handed out are those that were wanted.
THEOREM HubInvariant == Spec => []HubInv
BY HubStarts, HubKeeps, PTL DEF Spec

\* On a line without fragments the callback is given the good frames the filter in
\* force wanted, all of them, once and in order, whatever the batches and the calls
\* between them.
THEOREM EmittedAsWanted == Spec => []EmitsWanted
<1>1. HubInv => EmitsWanted
  BY DEF HubInv, EmittedOK, Lists, EmitsWanted
<1> QED BY <1>1, HubInvariant, PTL

\* On such a line the counters tell what was fed since the last reset, which may have
\* come in mid-frame: each frame that ended counts once, in one of the four.
THEOREM CountersTrue == Spec => []CountersTell
<1>1. HubInv => CountersTell
  <2> SUFFICES ASSUME HubInv, Clean PROVE CountersTell
    BY DEF CountersTell
  <2>1. TalliesOK /\ stats.bytesIn = Wrap(bytes)
    BY DEF HubInv, CountersOK
  <2> QED BY <2>1, Zenon DEF CountersTell, TalliesOK, Since, Above, BadFrames, Refused
<1> QED BY <1>1, HubInvariant, PTL

\* On any line the type table, the histogram and the status counters agree, up to the
\* width of the counters.
THEOREM TablesTrue == Spec => []TablesAgree
<1>1. HubInv => TablesAgree
  BY TablesAre DEF HubInv, CountersOK
<1> QED BY <1>1, HubInvariant, PTL
=============================================================================
