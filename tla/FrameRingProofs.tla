-------------------------- MODULE FrameRingProofs ---------------------------
(***************************************************************************)
(* Proofs about FrameRing for every value of its constants: the ring of    *)
(* the code takes the steps of the sequence FrameQueue, and so has what is *)
(* proved of it; its flag is that of the samples.                          *)
(***************************************************************************)
EXTENDS FrameRing, SequenceTheorems, FiniteSetTheorems, WellFoundedInduction, TLAPS

\* The theorems of FrameQueue, about the sequence the ring stands for.
QP == INSTANCE FrameQueueProofs
        WITH queue <- Logical(ring), openBatch <- ring.openBatch,
             fam <- ring.fam, drops <- ring.drops

-----------------------------------------------------------------------------
(* What FrameQueue and its proofs are instantiated with                      *)

\* An instance brings its own copy of every operator; the copies are the same.
LEMMA SameOperators ==
  /\ \A S : Queue!Cardinality(S) = Cardinality(S) /\ QP!Cardinality(S) = Cardinality(S)
  /\ \A S : Queue!Min(S) = QP!Min(S)
  /\ \A S, i : Queue!Rank(S, i) = Cardinality({j \in S : j < i})
               /\ QP!Rank(S, i) = Cardinality({j \in S : j < i})
<1>1. ASSUME NEW S
      PROVE  Queue!Cardinality(S) = Cardinality(S) /\ QP!Cardinality(S) = Cardinality(S)
  BY DEF Queue!Cardinality, QP!Cardinality, Cardinality
<1>2. ASSUME NEW S PROVE Queue!Min(S) = QP!Min(S)
  BY DEF Queue!Min, QP!Min
<1>3. ASSUME NEW S, NEW i
      PROVE  Queue!Rank(S, i) = Cardinality({j \in S : j < i})
             /\ QP!Rank(S, i) = Cardinality({j \in S : j < i})
  BY <1>1 DEF Queue!Rank, QP!Rank
<1> QED BY <1>1, <1>2, <1>3

\* The assumptions of FrameQueue hold of its constants here.
LEMMA QueueAssumptions ==
  /\ QP!SizesAssumption /\ QP!FramesAssumption
  /\ QP!ConfigsAssumption /\ QP!WritableAssumption
BY ZenonT(30), RingAssumption DEF Queue!MessageTypes, QP!MessageTypes, Queue!Config, QP!Config,
   Queue!AnyConfig, QP!AnyConfig

\* The sizes of the queue.
LEMMA Sizes ==
  /\ Depth \in Nat \ {0} /\ MaxBatch \in Nat /\ MaxBatch > Depth
  /\ CounterMod \in Nat \ {0} /\ ByteMod \in Nat \ {0}
BY RingAssumption

-----------------------------------------------------------------------------
(* Numbers                                                                   *)

\* A set of naturals has a least element, the one Min chooses.
LEMMA MinOfNats ==
  ASSUME NEW S, S \subseteq Nat, S # {}
  PROVE  Queue!Min(S) \in S /\ \A x \in S : Queue!Min(S) <= x
<1>1. QP!Min(S) \in S /\ \A x \in S : QP!Min(S) <= x
  BY QueueAssumptions, QP!MinOfNats
<1> QED BY <1>1, SameOperators

\* The ranks of a set of numbers.
LEMMA Ranks ==
  ASSUME NEW n \in Nat, NEW S \in SUBSET (1..n)
  PROVE  /\ IsFiniteSet(S) /\ Cardinality(S) \in 0..n
         /\ \A i \in S : Queue!Rank(S, i) \in 0..(Cardinality(S) - 1)
         /\ \A i, j \in S : i < j => Queue!Rank(S, i) < Queue!Rank(S, j)
         /\ \A r \in 0..(Cardinality(S) - 1) : \E i \in S : Queue!Rank(S, i) = r
<1>0. IsFiniteSet(S)
  <2>1. IsFiniteSet(1..n)
    BY FS_Interval
  <2> QED BY <2>1, FS_Subset
<1>1. /\ QP!Cardinality(S) \in 0..n
      /\ \A i \in S : QP!Rank(S, i) \in 0..(QP!Cardinality(S) - 1)
      /\ \A i, j \in S : i < j => QP!Rank(S, i) < QP!Rank(S, j)
  BY QueueAssumptions, QP!RankOrder
<1>2. \A r \in 0..(QP!Cardinality(S) - 1) : \E i \in S : QP!Rank(S, i) = r
  BY QueueAssumptions, QP!RankOnto
<1>3. QP!Cardinality(S) = Cardinality(S) /\ \A i : QP!Rank(S, i) = Queue!Rank(S, i)
  BY SameOperators
<1> QED BY <1>0, <1>1, <1>2, <1>3

\* What % gives is below the modulus, and a number below it stays.
LEMMA ModRange ==
  ASSUME NEW M \in Nat \ {0}, NEW x \in Int
  PROVE  x % M \in 0..(M - 1) /\ (x \in 0..(M - 1) => x % M = x)
OBVIOUS

\* Wrapping a wrapped number changes nothing.
LEMMA ModAdd ==
  ASSUME NEW M \in Nat \ {0}, NEW x \in Int, NEW y \in Int
  PROVE  ((x % M) + y) % M = (x + y) % M
<1> DEFINE q == x \div M
           p == (x + y) \div M
           s == ((x % M) + y) \div M
           a == x % M
           b == (x + y) % M
           c == ((x % M) + y) % M
<1>1. x = M * q + a /\ q \in Int /\ a \in 0..(M - 1)
  OBVIOUS
<1>2. x + y = M * p + b /\ p \in Int /\ b \in 0..(M - 1)
  OBVIOUS
<1>3. a + y = M * s + c /\ s \in Int /\ c \in 0..(M - 1)
  BY <1>1
<1> HIDE DEF q, p, s, a, b, c
<1>4. M * q \in Int /\ M * p \in Int /\ M * s \in Int
  BY <1>1, <1>2, <1>3
<1>5. b - c = M * (q + s - p)
  <2>1. M * (q + s - p) = M * q + M * s - M * p
    BY <1>1, <1>2, <1>3
  <2> QED BY <1>1, <1>2, <1>3, <1>4, <2>1
<1>6. q + s - p = 0
  <2> DEFINE d == q + s - p
  <2>1. d \in Int /\ b - c = M * d /\ b - c < M /\ b - c > - M
    BY <1>1, <1>2, <1>3, <1>5
  <2>2. \A k \in Int : (k >= 1 => M * k >= M) /\ (k <= -1 => M * k <= - M)
    OBVIOUS
  <2> HIDE DEF d
  <2>3. ~ (d >= 1) /\ ~ (d <= -1)
    BY <1>2, <1>3, <2>1, <2>2
  <2> QED BY <2>1, <2>3 DEF d
<1>7. b = c
  BY <1>2, <1>3, <1>5, <1>6
<1> QED BY <1>7 DEF a, b, c

\* A number below twice the modulus wraps at most once.
LEMMA ModOnce ==
  ASSUME NEW M \in Nat \ {0}, NEW x \in Nat, x < 2 * M
  PROVE  x % M = IF x < M THEN x ELSE x - M
<1>1. CASE x < M
  BY <1>1
<1>2. CASE x >= M
  BY <1>2
<1> QED BY <1>1, <1>2

-----------------------------------------------------------------------------
(* The ring                                                                  *)

CellSlots == Queue!Slots \cup {EmptySlot}

Entries == [family : Nat, epoch : Nat]

Counts == 0..(CounterMod - 1)

Cells == 0..(Depth - 1)

\* The members of the object.
Rings ==
  [slots : [Cells -> CellSlots], head : Cells, count : 0..Depth,
   openBatch : 1..MaxBatch, fam : SUBSET Entries,
   drops : [Queue!DropFields -> Counts], bytes : 0..(ByteMod - 1)]

\* Only the counters and the bytes differ.
SameQueue(r, s) ==
  /\ s.slots = r.slots /\ s.head = r.head /\ s.count = r.count
  /\ s.openBatch = r.openBatch /\ s.fam = r.fam

\* Only the slots and how many are used differ.
SameBooks(r, s) ==
  /\ s.head = r.head /\ s.openBatch = r.openBatch /\ s.fam = r.fam
  /\ s.drops = r.drops /\ s.bytes = r.bytes

\* The types of the members.
LEMMA RingTypes ==
  ASSUME NEW r \in Rings
  PROVE  /\ r.slots \in [Cells -> CellSlots] /\ r.head \in Cells /\ r.count \in 0..Depth
         /\ r.openBatch \in 1..MaxBatch /\ r.fam \in SUBSET Entries
         /\ r.drops \in [Queue!DropFields -> Counts] /\ r.bytes \in 0..(ByteMod - 1)
BY DEF Rings

\* The cell of a slot: logical indices up to Depth wrap at most once, and those below
\* Depth have cells of their own.
LEMMA IndexValue ==
  ASSUME NEW r \in Rings
  PROVE  /\ \A l \in 0..Depth : IndexOf(r, l) \in Cells
         /\ \A k, l \in Cells : IndexOf(r, k) = IndexOf(r, l) => k = l
<1>1. r.head \in 0..(Depth - 1) /\ Depth \in Nat \ {0}
  BY RingTypes, Sizes DEF Cells
<1>2. \A l \in 0..Depth :
        IndexOf(r, l) = IF r.head + l < Depth THEN r.head + l ELSE r.head + l - Depth
  <2>1. SUFFICES ASSUME NEW l \in 0..Depth
                 PROVE  IndexOf(r, l) = IF r.head + l < Depth THEN r.head + l
                                        ELSE r.head + l - Depth
    OBVIOUS
  <2>2. r.head + l \in Nat /\ r.head + l < 2 * Depth
    BY <1>1
  <2> QED BY <1>1, <2>2, ModOnce DEF IndexOf
<1> QED BY <1>1, <1>2 DEF Cells

\* The slots read through the ring.
LEMMA AtType ==
  ASSUME NEW r \in Rings, NEW l \in 0..Depth
  PROVE  At(r, l) \in CellSlots
BY RingTypes, IndexValue DEF At

\* The sequence the ring stands for.
LEMMA LogicalSeq ==
  ASSUME NEW r \in Rings
  PROVE  /\ Logical(r) \in Seq(CellSlots) /\ Len(Logical(r)) = r.count
         /\ DOMAIN Logical(r) = 1..r.count
         /\ \A i \in 1..r.count : Logical(r)[i] = At(r, i - 1)
<1>1. r.count \in Nat /\ r.count <= Depth /\ Depth \in Nat
  BY RingTypes, Sizes
<1>2. \A i \in 1..r.count : At(r, i - 1) \in CellSlots
  BY <1>1, AtType
<1>3. Logical(r) \in [1..r.count -> CellSlots]
  BY <1>2 DEF Logical
<1>4. \A i \in 1..r.count : Logical(r)[i] = At(r, i - 1)
  BY DEF Logical
<1> DEFINE w == Logical(r)
           n == r.count
<1> HIDE DEF w, n
<1>5. w \in Seq(CellSlots) /\ Len(w) = n /\ DOMAIN w = 1..n
  <2>1. w \in [1..n -> CellSlots] /\ n \in Nat
    BY <1>1, <1>3 DEF w, n
  <2> QED BY <2>1
<1> QED BY <1>4, <1>5 DEF w, n

\* Two sequences of slots are the same when they agree slot by slot.
LEMMA LogicalEqual ==
  ASSUME NEW r \in Rings, NEW q \in Seq(CellSlots), Len(q) = r.count,
         \A i \in 1..r.count : q[i] = At(r, i - 1)
  PROVE  Logical(r) = q
BY LogicalSeq, SeqEqual

\* Rings with the same slots stand for the same sequence.
LEMMA SameLogical ==
  ASSUME NEW r, NEW s, s.slots = r.slots, s.head = r.head
  PROVE  /\ \A l : At(s, l) = At(r, l)
         /\ s.count = r.count => Logical(s) = Logical(r)
BY DEF At, IndexOf, Logical

-----------------------------------------------------------------------------
(* The private methods                                                       *)

\* The counters after n drops for the reason.
Noted(d, reason, n) ==
  [x \in Queue!DropFields |->
     IF x \in {"frames", reason} THEN (d[x] + n) % CounterMod ELSE d[x]]

\* Drops noted one after the other are drops noted at once.
LEMMA NotedTwice ==
  ASSUME NEW d \in [Queue!DropFields -> Counts], NEW reason \in Queue!DropReasons,
         NEW m \in Nat, NEW n \in Nat
  PROVE  /\ Noted(d, reason, n) \in [Queue!DropFields -> Counts]
         /\ Noted(d, reason, 0) = d
         /\ Noted(Noted(d, reason, m), reason, n) = Noted(d, reason, m + n)
<1>1. CounterMod \in Nat \ {0} /\ \A x \in Queue!DropFields : d[x] \in Counts /\ d[x] \in Nat
  BY Sizes DEF Counts
<1>2. \A x \in Queue!DropFields :
        /\ (d[x] + n) % CounterMod \in Counts
        /\ (d[x] + 0) % CounterMod = d[x]
        /\ (((d[x] + m) % CounterMod) + n) % CounterMod = (d[x] + (m + n)) % CounterMod
  <2>1. SUFFICES ASSUME NEW x \in Queue!DropFields, NEW v \in Counts, v = d[x]
                 PROVE  /\ (v + n) % CounterMod \in Counts
                        /\ (v + 0) % CounterMod = v
                        /\ (((v + m) % CounterMod) + n) % CounterMod = (v + (m + n)) % CounterMod
    BY <1>1
  <2>2. v \in Nat /\ v \in 0..(CounterMod - 1)
    BY <1>1 DEF Counts
  <2>3. (v + n) % CounterMod \in Counts
    BY <1>1, <2>2, ModRange DEF Counts
  <2>4. v + 0 = v /\ v % CounterMod = v
    BY <2>2, Sizes
  <2> DEFINE y == v + m
             M == CounterMod
  <2>5. y \in Int /\ M \in Nat \ {0} /\ n \in Int
    BY <2>2, Sizes
  <2>6. y + n = v + (m + n)
    BY <2>2
  <2> HIDE DEF y, M
  <2>7. ((y % M) + n) % M = (y + n) % M
    BY <2>5, ModAdd
  <2> QED BY <2>3, <2>4, <2>6, <2>7 DEF y, M
<1>3. Noted(d, reason, n) \in [Queue!DropFields -> Counts]
  BY <1>1, <1>2 DEF Noted
<1>4. Noted(d, reason, 0) = d
  BY <1>1, <1>2 DEF Noted
<1>5. Noted(Noted(d, reason, m), reason, n) = Noted(d, reason, m + n)
  BY <1>2 DEF Noted
<1> QED BY <1>3, <1>4, <1>5

\* noteDrop() touches the counters and the bytes.
LEMMA NoteDropFacts ==
  ASSUME NEW r \in Rings, NEW len \in Nat, NEW reason \in Queue!DropReasons
  PROVE  LET s == NoteDrop(r, len, reason)
         IN  /\ s \in Rings /\ SameQueue(r, s)
             /\ s.drops = Noted(r.drops, reason, 1) /\ s.bytes = (r.bytes + len) % ByteMod
<1> DEFINE s == NoteDrop(r, len, reason)
           d == [r.drops EXCEPT !["frames"] = (@ + 1) % CounterMod, ![reason] = (@ + 1) % CounterMod]
           b == (r.bytes + len) % ByteMod
<1>1. reason # "frames" /\ reason \in Queue!DropFields /\ "frames" \in Queue!DropFields
  BY DEF Queue!DropReasons, Queue!DropFields
<1>2. d = Noted(r.drops, reason, 1)
  BY <1>1, RingTypes DEF Noted
<1>3. d \in [Queue!DropFields -> Counts]
  <2>1. r.drops \in [Queue!DropFields -> Counts] /\ 1 \in Nat
    BY RingTypes
  <2> HIDE DEF d
  <2> QED BY <1>2, <2>1, NotedTwice
<1>4. b \in 0..(ByteMod - 1)
  <2>1. r.bytes \in Nat /\ r.bytes + len \in Int /\ ByteMod \in Nat \ {0}
    BY RingTypes, Sizes
  <2> QED BY <2>1, ModRange
<1>5. s = [r EXCEPT !.drops = d, !.bytes = b]
  BY RingTypes DEF NoteDrop, Rings
<1> HIDE DEF s, d, b
<1>6. s \in Rings /\ SameQueue(r, s) /\ s.drops = d /\ s.bytes = b
  BY <1>3, <1>4, <1>5 DEF Rings, SameQueue
<1> QED BY <1>2, <1>6 DEF s, b

\* copyInto() writes one slot.
LEMMA CopyIntoFacts ==
  ASSUME NEW r \in Rings, NEW l \in Cells, NEW f, NEW b, Queue!NewSlot(f, b) \in CellSlots
  PROVE  LET s == CopyInto(r, l, f, b)
         IN  /\ s \in Rings /\ SameBooks(r, s) /\ s.count = r.count
             /\ At(s, l) = Queue!NewSlot(f, b)
             /\ \A k \in Cells \ {l} : At(s, k) = At(r, k)
<1> DEFINE s == CopyInto(r, l, f, b)
           w == [r.slots EXCEPT ![IndexOf(r, l)] = Queue!NewSlot(f, b)]
<1>1. l \in 0..Depth /\ IndexOf(r, l) \in Cells
      /\ \A k \in Cells \ {l} : IndexOf(r, k) \in Cells /\ IndexOf(r, k) # IndexOf(r, l)
  BY Sizes, IndexValue DEF Cells
<1>2. w \in [Cells -> CellSlots] /\ w[IndexOf(r, l)] = Queue!NewSlot(f, b)
      /\ \A k \in Cells \ {l} : w[IndexOf(r, k)] = r.slots[IndexOf(r, k)]
  BY <1>1, RingTypes
<1>3. s = [r EXCEPT !.slots = w]
  BY RingTypes DEF CopyInto, Rings
<1> HIDE DEF s, w
<1>4. s \in Rings /\ SameBooks(r, s) /\ s.count = r.count /\ s.slots = w /\ s.head = r.head
  BY <1>2, <1>3 DEF Rings, SameBooks
<1>5. \A k : IndexOf(s, k) = IndexOf(r, k)
  BY <1>4 DEF IndexOf
<1> QED BY <1>2, <1>4, <1>5 DEF At, s

\* pushBack() appends to the sequence.
LEMMA PushBackFacts ==
  ASSUME NEW r \in Rings, r.count < Depth, NEW f, NEW b, Queue!NewSlot(f, b) \in CellSlots
  PROVE  LET s == PushBack(r, f, b)
         IN  /\ s \in Rings /\ SameBooks(r, s) /\ s.count = r.count + 1
             /\ Logical(s) = Append(Logical(r), Queue!NewSlot(f, b))
<1> DEFINE s == PushBack(r, f, b)
           c == CopyInto(r, r.count, f, b)
           q == Append(Logical(r), Queue!NewSlot(f, b))
           n == r.count
<1>1. n \in Cells /\ n \in Nat /\ n + 1 \in 0..Depth
  BY RingTypes, Sizes DEF Cells
<1>2. /\ c \in Rings /\ SameBooks(r, c) /\ c.count = n
      /\ At(c, n) = Queue!NewSlot(f, b) /\ \A k \in Cells \ {n} : At(c, k) = At(r, k)
  BY <1>1, CopyIntoFacts
<1>3. s = [c EXCEPT !.count = c.count + 1]
  BY DEF PushBack
<1> HIDE DEF s, c
<1>4. s \in Rings /\ SameBooks(r, s) /\ s.count = n + 1 /\ s.slots = c.slots /\ s.head = c.head
  BY <1>1, <1>2, <1>3 DEF Rings, SameBooks
<1>5. \A k : At(s, k) = At(c, k)
  BY <1>4, SameLogical
<1>6. q \in Seq(CellSlots) /\ Len(q) = n + 1 /\ q[n + 1] = Queue!NewSlot(f, b)
      /\ \A i \in 1..n : q[i] = At(r, i - 1)
  BY LogicalSeq, AppendProperties
<1>7. \A i \in 1..(n + 1) : q[i] = At(s, i - 1)
  <2>1. SUFFICES ASSUME NEW i \in 1..(n + 1) PROVE q[i] = At(s, i - 1)
    OBVIOUS
  <2>2. CASE i = n + 1
    BY <1>1, <1>2, <1>5, <1>6, <2>2
  <2>3. CASE i # n + 1
    <3>1. i \in 1..n /\ i - 1 \in Cells /\ i - 1 # n
      BY <1>1, <2>3, Sizes DEF Cells
    <3> QED BY <1>2, <1>5, <1>6, <3>1
  <2> QED BY <2>2, <2>3
<1> HIDE DEF q
<1>8. Logical(s) = q
  BY <1>4, <1>6, <1>7, LogicalEqual
<1> QED BY <1>4, <1>8 DEF q, s

\* removeAt(): the slots behind move up by one.
LEMMA RemoveAtFacts ==
  ASSUME NEW r \in Rings, NEW l \in 0..(r.count - 1)
  PROVE  LET s == RemoveAt(r, l)
         IN  /\ s \in Rings /\ SameBooks(r, s) /\ s.count = r.count - 1
             /\ \A k \in 0..(r.count - 2) : At(s, k) = IF k < l THEN At(r, k) ELSE At(r, k + 1)
<1> DEFINE s == RemoveAt(r, l)
           Behind(k) == {j \in l..(r.count - 2) : IndexOf(r, j) = k}
           Cell(k) == IF Behind(k) = {} THEN r.slots[k]
                      ELSE At(r, (CHOOSE j \in Behind(k) : TRUE) + 1)
           w == [k \in Cells |-> Cell(k)]
<1>1. r.count \in 0..Depth /\ Depth \in Nat /\ r.count \in Nat /\ r.count >= 1
  BY RingTypes, Sizes
<1>2. \A j \in 0..(r.count - 2) : j \in Cells /\ j + 1 \in 0..Depth /\ j \in 0..Depth
  BY <1>1 DEF Cells
<1>3. \A k \in 0..(r.count - 2) : Cell(IndexOf(r, k)) = IF k < l THEN At(r, k) ELSE At(r, k + 1)
  <2>1. SUFFICES ASSUME NEW k \in 0..(r.count - 2)
                 PROVE  Cell(IndexOf(r, k)) = IF k < l THEN At(r, k) ELSE At(r, k + 1)
    OBVIOUS
  <2>2. \A j \in l..(r.count - 2) : IndexOf(r, j) = IndexOf(r, k) => j = k
    BY <1>1, <1>2, IndexValue
  <2>3. CASE k < l
    <3>1. Behind(IndexOf(r, k)) = {}
      BY <2>2, <2>3
    <3> QED BY <2>3, <3>1 DEF At
  <2>4. CASE k >= l
    <3>1. Behind(IndexOf(r, k)) = {k}
      BY <1>1, <2>2, <2>4
    <3>2. (CHOOSE j \in Behind(IndexOf(r, k)) : TRUE) = k
      BY <3>1
    <3> HIDE DEF Behind
    <3> QED BY <1>1, <2>4, <3>1, <3>2
  <2> QED BY <1>1, <2>3, <2>4
<1>4. \A k \in Cells : Cell(k) \in CellSlots
  <2>1. SUFFICES ASSUME NEW k \in Cells PROVE Cell(k) \in CellSlots
    OBVIOUS
  <2>2. CASE Behind(k) = {}
    BY <2>2, RingTypes
  <2>3. CASE Behind(k) # {}
    <3>1. PICK j \in Behind(k) : j = CHOOSE i \in Behind(k) : TRUE
      BY <2>3
    <3>2. j + 1 \in 0..Depth
      BY <1>1, <1>2
    <3> HIDE DEF Behind
    <3> QED BY <2>3, <3>1, <3>2, AtType
  <2> QED BY <2>2, <2>3
<1>5. s = [r EXCEPT !.count = r.count - 1, !.slots = w]
  BY DEF RemoveAt, Cells
<1> HIDE DEF Cell, s
<1>6. w \in [Cells -> CellSlots]
  BY <1>4
<1> HIDE DEF w
<1>7. s \in Rings /\ SameBooks(r, s) /\ s.count = r.count - 1 /\ s.slots = w /\ s.head = r.head
  <2>1. r.count - 1 \in 0..Depth
    BY <1>1
  <2> QED BY <1>5, <1>6, <2>1 DEF Rings, SameBooks
<1>8. \A k \in 0..(r.count - 2) : At(s, k) = Cell(IndexOf(r, k))
  BY <1>2, <1>7, IndexValue DEF At, IndexOf, w
<1> QED BY <1>3, <1>7, <1>8 DEF s

-----------------------------------------------------------------------------
(* Searching                                                                 *)

\* What the slots hold, used or not.
LEMMA CellFacts ==
  ASSUME NEW s \in CellSlots
  PROVE  s.batchId \in Nat /\ s.frame.len \in Nat
<1>1. CASE s \in Queue!Slots
  BY <1>1, RingAssumption, Sizes DEF Queue!Slots
<1>2. CASE s = EmptySlot
  BY <1>2 DEF EmptySlot, Queue!NewSlot
<1> QED BY <1>1, <1>2 DEF CellSlots

\* What a frame is made of.
LEMMA FrameTypes ==
  ASSUME NEW f \in Frames
  PROVE  f.type \in Nat /\ f.len \in Nat /\ f.epoch \in Nat
<1>1. f.type \in Queue!MessageTypes /\ f.len \in Nat /\ f.epoch \in Nat
  BY RingAssumption
<1>2. \A x \in Queue!MessageTypes : x \in Nat
  BY DEF Queue!MessageTypes
<1> QED BY <1>1, <1>2

\* oldestMsmBatch() finds in the ring what it finds in the sequence, a batch that is queued.
LEMMA OldestSame ==
  ASSUME NEW r \in Rings, NEW closed \in BOOLEAN
  PROVE  LET old == OldestMsmBatch(r, closed)
         IN  /\ old = Queue!OldestMsmBatch(Logical(r), r.openBatch, closed)
             /\ old \in Nat
             /\ old # 0 => \E i \in 1..r.count : At(r, i - 1).batchId = old
             /\ old # 0 /\ closed => old # r.openBatch
<1> DEFINE P(i) == At(r, i).batchId # 0 /\ ~ (closed /\ At(r, i).batchId = r.openBatch)
           F == {i \in 0..(r.count - 1) : P(i) /\ \A j \in 0..(i - 1) : ~ P(j)}
           w == Logical(r)
           S == Queue!Evictable(w, r.openBatch, closed)
           old == OldestMsmBatch(r, closed)
<1>0. r.count \in Nat
  BY RingTypes
<1>1. old = IF F = {} THEN 0 ELSE At(r, CHOOSE i \in F : TRUE).batchId
  BY DEF OldestMsmBatch, First
<1>2. S = {i \in 1..r.count : P(i - 1)}
  BY LogicalSeq DEF Queue!Evictable
<1>3. CASE S = {}
  <2>1. \A i \in 0..(r.count - 1) : i + 1 \in 1..r.count /\ (i + 1) - 1 = i
    BY <1>0
  <2>2. F = {}
    BY <1>2, <1>3, <2>1
  <2> QED BY <1>1, <1>3, <2>2 DEF Queue!OldestMsmBatch
<1>4. CASE S # {}
  <2> DEFINE m == Queue!Min(S)
  <2>1. S \subseteq Nat
    BY <1>0, <1>2
  <2>2. m \in S /\ \A x \in S : m <= x
    BY <1>4, <2>1, MinOfNats
  <2> HIDE DEF m, S
  <2>3. m \in 1..r.count /\ P(m - 1)
    BY <1>2, <2>2
  <2>4. \A j \in 0..(r.count - 1) : P(j) => m <= j + 1
    <3>1. \A j \in 0..(r.count - 1) : j + 1 \in 1..r.count /\ (j + 1) - 1 = j
      BY <1>0
    <3> HIDE DEF P
    <3> QED BY <1>2, <2>2, <3>1
  <2>5. F = {m - 1}
    <3>1. m - 1 \in F
      <4>1. m - 1 \in 0..(r.count - 1) /\ \A j \in 0..((m - 1) - 1) : j \in 0..(r.count - 1) /\ ~ (m <= j + 1)
        BY <1>0, <2>3
      <4> HIDE DEF P
      <4> QED BY <2>3, <2>4, <4>1
    <3>2. ASSUME NEW i \in F PROVE i = m - 1
      <4>1. i \in 0..(r.count - 1) /\ m <= i + 1
        BY <2>4
      <4>2. ~ (m - 1 \in 0..(i - 1))
        BY <2>3
      <4> QED BY <1>0, <2>3, <4>1, <4>2
    <3> QED BY <3>1, <3>2
  <2> HIDE DEF F
  <2>6. old = At(r, m - 1).batchId
    BY <1>1, <2>5
  <2>7. w[m] = At(r, m - 1)
    BY <2>3, LogicalSeq
  <2>8. Queue!OldestMsmBatch(w, r.openBatch, closed) = w[m].batchId
    BY <1>4 DEF Queue!OldestMsmBatch, m, S
  <2>9. old \in Nat
    <3>1. m - 1 \in 0..Depth
      BY <2>3, RingTypes, Sizes
    <3> QED BY <2>6, <3>1, AtType, CellFacts
  <2> HIDE DEF old, w
  <2>10. old = Queue!OldestMsmBatch(w, r.openBatch, closed)
    BY <2>6, <2>7, <2>8
  <2> QED BY <2>3, <2>6, <2>9, <2>10 DEF old, w
<1> QED BY <1>3, <1>4

\* The victims are the same.
LEMMA VictimSame ==
  ASSUME NEW r \in Rings
  PROVE  /\ Victim(r) = Queue!VictimBatch(Logical(r), r.openBatch)
         /\ Victim(r) \in Nat
         /\ Victim(r) # 0 => \E i \in 1..r.count : At(r, i - 1).batchId = Victim(r)
BY OldestSame DEF Victim, Queue!VictimBatch

\* hasBatch() too.
LEMMA HasBatchSame ==
  ASSUME NEW r \in Rings, NEW b
  PROVE  HasBatch(r, b) <=> Queue!HasBatch(Logical(r), b)
<1>1. r.count \in Nat
  BY RingTypes
<1>2. Queue!SlotsOf(Logical(r), b) = {i \in 1..r.count : At(r, i - 1).batchId = b}
  BY LogicalSeq DEF Queue!SlotsOf
<1>3. \A i \in 0..(r.count - 1) : i + 1 \in 1..r.count /\ (i + 1) - 1 = i
  BY <1>1
<1>4. \A i \in 1..r.count : i - 1 \in 0..(r.count - 1)
  BY <1>1
<1> QED BY <1>2, <1>3, <1>4 DEF HasBatch, Queue!HasBatch

-----------------------------------------------------------------------------
(* The bytes queued                                                          *)

LenAt(r, l) == At(r, l).frame.len

\* g[k] is the number of bytes in the first k slots of the ring.
SumsUp(g, r) ==
  /\ g \in [0..r.count -> Nat]
  /\ g[0] = 0
  /\ \A k \in 1..r.count : g[k] = g[k - 1] + LenAt(r, k - 1)

\* The bytes queued are the last of such sums, which exist: one more slot is one more sum.
LEMMA QueuedSum ==
  ASSUME NEW r \in Rings
  PROVE  \E g : SumsUp(g, r) /\ QueuedBytes(r) = g[r.count]
<1> DEFINE N == r.count
           Of(f, n) == f = [k \in 0..n |-> IF k = 0 THEN 0 ELSE f[k - 1] + LenAt(r, k - 1)]
           T == {n \in 0..N : ~ \E f : Of(f, n)}
<1>0. N \in Nat /\ N <= Depth /\ Depth \in Nat
  BY RingTypes, Sizes
<1>1. \A k \in 1..N : LenAt(r, k - 1) \in Nat
  <2>1. SUFFICES ASSUME NEW k \in 1..N PROVE LenAt(r, k - 1) \in Nat
    OBVIOUS
  <2>2. k - 1 \in 0..Depth
    BY <1>0
  <2> QED BY <2>2, AtType, CellFacts DEF LenAt
<1> HIDE DEF N
<1>2. T = {}
  <2>1. SUFFICES ASSUME T # {} PROVE FALSE
    OBVIOUS
  <2>2. T \subseteq Nat
    BY <1>0
  <2>3. PICK n \in T : \A x \in T : n <= x
    BY <2>1, <2>2, MinOfNats
  <2>4. n \in 0..N /\ n \in Nat
    BY <2>2, <2>3
  <2>5. n # 0
    <3>1. \A f : [k \in 0..0 |-> 0] = [k \in 0..0 |-> IF k = 0 THEN 0 ELSE f[k - 1] + LenAt(r, k - 1)]
      <4>1. \A k \in 0..0 : k = 0
        OBVIOUS
      <4> QED BY <4>1
    <3>2. Of([k \in 0..0 |-> 0], 0)
      BY <3>1
    <3> QED BY <2>3, <3>2
  <2>6. n - 1 \in 0..N /\ n - 1 \notin T
    BY <1>0, <2>3, <2>4, <2>5
  <2>7. PICK f : Of(f, n - 1)
    BY <2>6
  <2> DEFINE g == [k \in 0..n |-> IF k = n THEN f[n - 1] + LenAt(r, n - 1) ELSE f[k]]
             h == [k \in 0..n |-> IF k = 0 THEN 0 ELSE g[k - 1] + LenAt(r, k - 1)]
  <2>8. \A k \in 0..n : g[k] = h[k]
    <3>1. SUFFICES ASSUME NEW k \in 0..n PROVE g[k] = h[k]
      OBVIOUS
    <3>2. \A l \in 0..(n - 1) : l \in 0..n /\ l # n /\ g[l] = f[l]
      BY <2>4
    <3>3. \A l \in 0..(n - 1) : f[l] = IF l = 0 THEN 0 ELSE f[l - 1] + LenAt(r, l - 1)
      BY <2>7
    <3>4. CASE k = n
      <4>1. g[k] = f[n - 1] + LenAt(r, n - 1) /\ n - 1 \in 0..(n - 1)
        BY <2>4, <2>5, <3>4
      <4>2. h[k] = g[n - 1] + LenAt(r, n - 1)
        BY <2>5, <3>4
      <4> QED BY <3>2, <4>1, <4>2
    <3>5. CASE k # n
      <4>1. k \in 0..(n - 1) /\ g[k] = f[k]
        BY <2>4, <3>2, <3>5
      <4>2. CASE k = 0
        BY <3>3, <4>1, <4>2
      <4>3. CASE k # 0
        <5>1. k - 1 \in 0..(n - 1)
          BY <2>4, <4>1, <4>3
        <5>2. h[k] = g[k - 1] + LenAt(r, k - 1) /\ g[k - 1] = f[k - 1]
          BY <3>2, <4>3, <5>1
        <5> HIDE DEF g, h
        <5> QED BY <3>3, <4>1, <4>3, <5>2
      <4> QED BY <4>2, <4>3
    <3> QED BY <3>4, <3>5
  <2>9. g = h
    <3>1. g = [k \in 0..n |-> g[k]] /\ h = [k \in 0..n |-> h[k]]
      OBVIOUS
    <3> HIDE DEF g, h
    <3> QED BY <2>8, <3>1
  <2>10. Of(g, n)
    BY <2>9
  <2> QED BY <2>3, <2>10
<1>3. PICK f : Of(f, N)
  <2>1. N \in 0..N
    BY <1>0
  <2> QED BY <1>2, <2>1
<1> DEFINE up == CHOOSE g : Of(g, N)
<1>4. Of(up, N)
  <2> HIDE DEF Of
  <2> QED BY <1>3
<1>5. QueuedBytes(r) = up[N]
  BY Zenon DEF QueuedBytes, N, LenAt
<1> HIDE DEF up
<1>6. up[0] = 0 /\ \A k \in 1..N : up[k] = up[k - 1] + LenAt(r, k - 1)
  <2>1. 0 \in 0..N /\ \A n \in 1..N : n \in 0..N /\ n # 0
    BY <1>0
  <2>2. \A k \in 0..N : up[k] = IF k = 0 THEN 0 ELSE up[k - 1] + LenAt(r, k - 1)
    BY <1>4
  <2> QED BY <2>1, <2>2
<1>7. \A k \in 0..N : up[k] \in Nat
  <2> DEFINE U == {k \in 0..N : up[k] \notin Nat}
  <2>1. SUFFICES ASSUME U # {} PROVE FALSE
    OBVIOUS
  <2>2. U \subseteq Nat
    BY <1>0
  <2>3. PICK n \in U : \A x \in U : n <= x
    BY <2>1, <2>2, MinOfNats
  <2>4. n # 0 /\ n \in 1..N /\ n - 1 \in 0..N /\ n - 1 \notin U
    BY <1>0, <1>6, <2>2, <2>3
  <2>5. up[n] = up[n - 1] + LenAt(r, n - 1) /\ LenAt(r, n - 1) \in Nat /\ up[n - 1] \in Nat
    BY <1>1, <1>6, <2>4
  <2> QED BY <2>3, <2>5
<1>8. up \in [0..N -> Nat]
  <2>1. up = [k \in 0..N |-> up[k]]
    BY <1>4
  <2> QED BY <1>7, <2>1
<1>9. SumsUp(up, r)
  BY <1>6, <1>8 DEF SumsUp, N
<1> QED BY <1>5, <1>9 DEF N

\* A ring with one slot more, at l, holds the bytes of that slot more.
LEMMA QueuedWithout ==
  ASSUME NEW r \in Rings, NEW s \in Rings, NEW l \in 0..(r.count - 1), s.count = r.count - 1,
         \A k \in 0..(r.count - 2) : At(s, k) = IF k < l THEN At(r, k) ELSE At(r, k + 1)
  PROVE  QueuedBytes(r) = QueuedBytes(s) + LenAt(r, l)
<1> DEFINE N == r.count
<1>0. N \in Nat /\ N >= 1 /\ l \in Nat /\ l <= N - 1 /\ N <= Depth /\ Depth \in Nat
  BY RingTypes, Sizes
<1>1. PICK g : SumsUp(g, r) /\ QueuedBytes(r) = g[N]
  BY QueuedSum
<1>2. PICK h : SumsUp(h, s) /\ QueuedBytes(s) = h[N - 1]
  BY QueuedSum
<1>3. /\ \A k \in 0..N : g[k] \in Nat
      /\ g[0] = 0 /\ \A k \in 1..N : g[k] = g[k - 1] + LenAt(r, k - 1)
  BY <1>1 DEF SumsUp
<1>4. /\ h[0] = 0 /\ \A k \in 1..(N - 1) : h[k] = h[k - 1] + LenAt(s, k - 1)
  BY <1>2 DEF SumsUp
<1>5. \A k \in 0..(N - 2) : LenAt(s, k) = IF k < l THEN LenAt(r, k) ELSE LenAt(r, k + 1)
  BY DEF LenAt
<1>6. \A k \in 0..(N - 1) : LenAt(r, k) \in Nat
  <2>1. \A k \in 0..(N - 1) : k \in 0..Depth
    BY <1>0
  <2> QED BY <2>1, AtType, CellFacts DEF LenAt
<1> HIDE DEF N
<1>7. \A n \in 0..(N - 1) : h[n] = IF n <= l THEN g[n] ELSE g[n + 1] - LenAt(r, l)
  <2> DEFINE U == {n \in 0..(N - 1) : h[n] # IF n <= l THEN g[n] ELSE g[n + 1] - LenAt(r, l)}
  <2>1. SUFFICES ASSUME U # {} PROVE FALSE
    OBVIOUS
  <2>2. U \subseteq Nat
    BY <1>0
  <2>3. PICK n \in U : \A x \in U : n <= x
    BY <2>1, <2>2, MinOfNats
  <2>4. n # 0
    BY <1>0, <1>3, <1>4, <2>3
  <2>5. n \in 1..(N - 1) /\ n - 1 \in 0..(N - 1) /\ n - 1 \notin U /\ n - 1 \in 0..(N - 2)
    BY <1>0, <2>2, <2>3, <2>4
  <2>6. /\ h[n - 1] = IF n - 1 <= l THEN g[n - 1] ELSE g[n] - LenAt(r, l)
        /\ h[n] = h[n - 1] + LenAt(s, n - 1)
        /\ LenAt(s, n - 1) = IF n - 1 < l THEN LenAt(r, n - 1) ELSE LenAt(r, n)
    <3>1. (n - 1) + 1 = n
      BY <2>5
    <3> QED BY <1>4, <1>5, <2>5, <3>1
  <2>7. /\ g[n] = g[n - 1] + LenAt(r, n - 1) /\ g[n + 1] = g[n] + LenAt(r, n)
        /\ g[n - 1] \in Nat /\ g[n] \in Nat /\ LenAt(r, n) \in Nat /\ LenAt(r, n - 1) \in Nat
        /\ LenAt(r, l) \in Nat
    <3>1. n \in 1..N /\ n + 1 \in 1..N /\ (n + 1) - 1 = n /\ n - 1 \in 0..N /\ n \in 0..N
          /\ n - 1 \in 0..(N - 1) /\ n \in 0..(N - 1) /\ l \in 0..(N - 1)
      BY <1>0, <2>5
    <3> QED BY <1>3, <1>6, <3>1
  <2>8. h[n] # IF n <= l THEN g[n] ELSE g[n + 1] - LenAt(r, l)
    BY <2>3
  <2> HIDE DEF U
  <2>9. CASE n <= l
    BY <1>0, <2>5, <2>6, <2>7, <2>8, <2>9
  <2>10. CASE n - 1 = l
    <3>1. ~ (n <= l) /\ n - 1 <= l /\ ~ (n - 1 < l)
      BY <1>0, <2>5, <2>10
    <3> QED BY <2>6, <2>7, <2>8, <2>10, <3>1
  <2>11. CASE n - 1 > l
    <3>1. ~ (n <= l) /\ ~ (n - 1 <= l) /\ ~ (n - 1 < l)
      BY <1>0, <2>5, <2>11
    <3> QED BY <2>6, <2>7, <2>8, <3>1
  <2> QED BY <1>0, <2>5, <2>9, <2>10, <2>11
<1>8. h[N - 1] = IF N - 1 <= l THEN g[N - 1] ELSE g[(N - 1) + 1] - LenAt(r, l)
  BY <1>0, <1>7
<1>9. g[N] = g[N - 1] + LenAt(r, N - 1) /\ g[N] \in Nat /\ g[N - 1] \in Nat /\ (N - 1) + 1 = N
      /\ LenAt(r, l) \in Nat
  BY <1>0, <1>3, <1>6
<1>10. CASE N - 1 <= l
  <2>1. l = N - 1
    BY <1>0, <1>10
  <2> QED BY <1>1, <1>2, <1>8, <1>9, <1>10, <2>1
<1>11. CASE ~ (N - 1 <= l)
  BY <1>1, <1>2, <1>8, <1>9, <1>11
<1> QED BY <1>10, <1>11

\* Rings that stand for the same sequence hold the same bytes.
LEMMA QueuedSame ==
  ASSUME NEW r \in Rings, NEW s \in Rings, s.count = r.count,
         \A k \in 0..(r.count - 1) : At(s, k) = At(r, k)
  PROVE  QueuedBytes(s) = QueuedBytes(r)
<1> DEFINE N == r.count
<1>0. N \in Nat
  BY RingTypes
<1>1. PICK g : SumsUp(g, r) /\ QueuedBytes(r) = g[N]
  BY QueuedSum
<1>2. PICK h : SumsUp(h, s) /\ QueuedBytes(s) = h[N]
  BY QueuedSum
<1>3. /\ g[0] = 0 /\ \A k \in 1..N : g[k] = g[k - 1] + LenAt(r, k - 1)
      /\ h[0] = 0 /\ \A k \in 1..N : h[k] = h[k - 1] + LenAt(s, k - 1)
  BY <1>1, <1>2 DEF SumsUp
<1>4. \A k \in 1..N : LenAt(s, k - 1) = LenAt(r, k - 1)
  <2>1. \A k \in 1..N : k - 1 \in 0..(N - 1)
    BY <1>0
  <2> QED BY <2>1 DEF LenAt
<1> HIDE DEF N
<1>5. \A n \in 0..N : h[n] = g[n]
  <2> DEFINE U == {n \in 0..N : h[n] # g[n]}
  <2>1. SUFFICES ASSUME U # {} PROVE FALSE
    OBVIOUS
  <2>2. U \subseteq Nat
    BY <1>0
  <2>3. PICK n \in U : \A x \in U : n <= x
    BY <2>1, <2>2, MinOfNats
  <2>4. n # 0
    BY <1>3, <2>3
  <2>5. n \in 1..N /\ n - 1 \in 0..N /\ n - 1 \notin U
    BY <1>0, <2>2, <2>3, <2>4
  <2> QED BY <1>3, <1>4, <2>3, <2>5
<1>6. N \in 0..N
  BY <1>0
<1> QED BY <1>1, <1>2, <1>5, <1>6

\* An empty ring holds none.
LEMMA QueuedNone ==
  ASSUME NEW r \in Rings
  PROVE  QueuedBytes(r) \in Nat /\ (r.count = 0 => QueuedBytes(r) = 0)
<1>1. PICK g : SumsUp(g, r) /\ QueuedBytes(r) = g[r.count]
  BY QueuedSum
<1>2. r.count \in 0..r.count
  BY RingTypes
<1> QED BY <1>1, <1>2 DEF SumsUp

\* The bytes the ring answers for: those queued and those counted as dropped.
Weight(r) == (QueuedBytes(r) + r.bytes) % ByteMod

\* Bytes moved between the queue and the counter stay; bytes added are added.
LEMMA WeightMoved ==
  ASSUME NEW r \in Rings, NEW s \in Rings, NEW n \in Int, NEW m \in Nat,
         QueuedBytes(s) = QueuedBytes(r) + n - m,
         s.bytes = (r.bytes + m) % ByteMod
  PROVE  Weight(s) = (Weight(r) + n) % ByteMod
<1> DEFINE M == ByteMod
           Q == QueuedBytes(r)
           b == r.bytes
           R == QueuedBytes(s)
           x == b + m
           y == Q + b
<1>1. M \in Nat \ {0} /\ Q \in Nat /\ R \in Nat /\ b \in Nat
  BY Sizes, RingTypes, QueuedNone
<1>2. x \in Int /\ y \in Int /\ x + R = y + n /\ R = Q + n - m
  BY <1>1
<1> HIDE DEF M, Q, R, b, x, y
<1>3. ((x % M) + R) % M = (x + R) % M
  <2>1. R \in Int
    BY <1>1
  <2> QED BY <1>1, <1>2, <2>1, ModAdd
<1>4. ((y % M) + n) % M = (y + n) % M
  <2>1. n \in Int
    OBVIOUS
  <2> QED BY <1>1, <1>2, <2>1, ModAdd
<1>5. R + (x % M) = (x % M) + R
  <2>1. x % M \in 0..(M - 1)
    BY <1>1, <1>2, ModRange
  <2> QED BY <1>1, <2>1
<1>6. Weight(s) = (R + (x % M)) % M
  BY DEF Weight, R, x, M, b
<1>7. Weight(r) = y % M
  BY DEF Weight, y, Q, b, M
<1>8. (R + (x % M)) % M = ((y % M) + n) % M
  BY <1>2, <1>3, <1>4, <1>5
<1>9. (Weight(r) + n) % M = ((y % M) + n) % M
  BY <1>7
<1> QED BY <1>6, <1>8, <1>9 DEF M

\* What the ring answers for is below the modulus.
LEMMA WeightRange ==
  ASSUME NEW r \in Rings
  PROVE  Weight(r) \in Nat /\ (Weight(r) + 0) % ByteMod = Weight(r)
<1> DEFINE y == QueuedBytes(r) + r.bytes
<1>1. y \in Int /\ ByteMod \in Nat \ {0}
  BY Sizes, RingTypes, QueuedNone
<1> HIDE DEF y
<1>2. y % ByteMod \in 0..(ByteMod - 1)
  BY <1>1, ModRange
<1>3. Weight(r) = y % ByteMod
  BY DEF Weight, y
<1> DEFINE w == Weight(r)
<1>4. w \in 0..(ByteMod - 1) /\ w \in Int /\ w + 0 = w
  BY <1>1, <1>2, <1>3
<1> HIDE DEF w
<1>5. w % ByteMod = w
  BY <1>1, <1>4, ModRange
<1>6. w \in Nat /\ (w + 0) % ByteMod = w
  BY <1>1, <1>4, <1>5
<1> QED BY <1>6 DEF w

\* noteDrop() adds the bytes it is told.
LEMMA NotedWeight ==
  ASSUME NEW r \in Rings, NEW len \in Nat, NEW reason \in Queue!DropReasons
  PROVE  Weight(NoteDrop(r, len, reason)) = (Weight(r) + len) % ByteMod
<1> DEFINE s == NoteDrop(r, len, reason)
<1>1. s \in Rings /\ SameQueue(r, s) /\ s.bytes = (r.bytes + len) % ByteMod
  BY NoteDropFacts
<1> HIDE DEF s
<1>2. QueuedBytes(s) = QueuedBytes(r)
  <2>1. s.count = r.count /\ \A k : At(s, k) = At(r, k)
    BY <1>1, SameLogical DEF SameQueue
  <2> QED BY <1>1, <2>1, QueuedSame
<1>3. QueuedBytes(r) \in Nat
  BY QueuedNone
<1>4. QueuedBytes(s) = QueuedBytes(r) + len - len /\ len \in Int
  BY <1>2, <1>3
<1>5. Weight(s) = (Weight(r) + len) % ByteMod
  BY <1>1, <1>4, WeightMoved
<1> QED BY <1>5 DEF s

\* A slot noted and removed moves its bytes from the queue to the counter.
LEMMA RemovedWeight ==
  ASSUME NEW r \in Rings, NEW l \in 0..(r.count - 1), NEW reason \in Queue!DropReasons
  PROVE  Weight(RemoveAt(NoteDrop(r, LenAt(r, l), reason), l)) = Weight(r)
<1> DEFINE len == LenAt(r, l)
           h == NoteDrop(r, len, reason)
           s == RemoveAt(h, l)
<1>1. len \in Nat
  <2>1. l \in 0..Depth
    BY RingTypes, Sizes
  <2> QED BY <2>1, AtType, CellFacts DEF LenAt
<1>2. h \in Rings /\ SameQueue(r, h) /\ h.bytes = (r.bytes + len) % ByteMod
  BY <1>1, NoteDropFacts
<1> HIDE DEF h
<1>3. h.count = r.count /\ \A k : At(h, k) = At(r, k)
  BY <1>2, SameLogical DEF SameQueue
<1>4. /\ s \in Rings /\ SameBooks(h, s) /\ s.count = r.count - 1
      /\ \A k \in 0..(r.count - 2) : At(s, k) = IF k < l THEN At(r, k) ELSE At(r, k + 1)
  BY <1>2, <1>3, RemoveAtFacts
<1> HIDE DEF s
<1>5. QueuedBytes(r) = QueuedBytes(s) + len
  BY <1>4, QueuedWithout
<1>6. QueuedBytes(r) \in Nat /\ QueuedBytes(s) \in Nat
  BY <1>4, QueuedNone
<1>7. QueuedBytes(s) = QueuedBytes(r) + 0 - len /\ 0 \in Int
  BY <1>1, <1>5, <1>6
<1>8. s.bytes = (r.bytes + len) % ByteMod
  BY <1>2, <1>4 DEF SameBooks
<1> HIDE DEF len
<1>9. Weight(s) = (Weight(r) + 0) % ByteMod
  BY <1>1, <1>4, <1>7, <1>8, WeightMoved
<1> QED BY <1>9, WeightRange DEF s, h, len

-----------------------------------------------------------------------------
(* dropBatch()                                                               *)

\* The slots among the first n of the ring that are not of the batch.
KeptIn(r, b, n) == {i \in 1..n : At(r, i - 1).batchId # b}

\* How many they are.
Count(r, b, n) == Cardinality(KeptIn(r, b, n))

\* The count grows by one at each slot kept, and the slots kept have their numbers in
\* the order of the ring.
LEMMA KeptCount ==
  ASSUME NEW r \in Rings, NEW b
  PROVE  /\ \A n \in 0..r.count : Count(r, b, n) \in 0..n
         /\ \A n \in 1..r.count :
              Count(r, b, n) = IF At(r, n - 1).batchId = b THEN Count(r, b, n - 1)
                               ELSE Count(r, b, n - 1) + 1
         /\ \A n \in 0..r.count, i \in 1..r.count :
              (i <= n /\ At(r, i - 1).batchId # b) => Count(r, b, i - 1) < Count(r, b, n)
         /\ \A n \in 0..r.count : \A v \in 0..(Count(r, b, n) - 1) :
              \E i \in KeptIn(r, b, n) : Count(r, b, i - 1) = v
         /\ \A n \in 0..r.count : \A i \in KeptIn(r, b, n) :
              Queue!Rank(KeptIn(r, b, n), i) = Count(r, b, i - 1)
<1> DEFINE N == r.count
           K(n) == KeptIn(r, b, n)
           cnt(n) == Count(r, b, n)
<1>0. N \in Nat
  BY RingTypes
<1>1. \A n \in 0..N : /\ K(n) \in SUBSET (1..n) /\ cnt(n) = Cardinality(K(n)) /\ n \in Nat
                      /\ \A i \in 1..n : i \in K(n) <=> At(r, i - 1).batchId # b
  BY <1>0 DEF KeptIn, Count
<1>2. \A n \in 0..N : IsFiniteSet(K(n)) /\ cnt(n) \in 0..n
  BY <1>1, Ranks
<1>3. ASSUME NEW n \in 1..N
      PROVE  cnt(n) = IF At(r, n - 1).batchId = b THEN cnt(n - 1) ELSE cnt(n - 1) + 1
  <2>1. n - 1 \in 0..N /\ n \in 0..N /\ n \notin K(n - 1)
    BY <1>0 DEF KeptIn
  <2>2. CASE At(r, n - 1).batchId = b
    <3>1. K(n) = K(n - 1)
      BY <1>0, <2>2 DEF KeptIn
    <3> QED BY <1>1, <2>1, <2>2, <3>1
  <2>3. CASE At(r, n - 1).batchId # b
    <3>1. K(n) = K(n - 1) \cup {n}
      BY <1>0, <2>3 DEF KeptIn
    <3>2. Cardinality(K(n)) = Cardinality(K(n - 1)) + 1
      BY <1>2, <2>1, <3>1, FS_AddElement
    <3> QED BY <1>1, <2>1, <2>3, <3>2
  <2> QED BY <2>2, <2>3
<1>4. ASSUME NEW n \in 0..N, NEW i \in K(n)
      PROVE  i \in 1..N /\ i - 1 \in 0..N /\ Queue!Rank(K(n), i) = cnt(i - 1)
  <2>1. i \in 1..n /\ i \in 1..N /\ i - 1 \in 0..N
    BY <1>0 DEF KeptIn
  <2>2. {j \in K(n) : j < i} = K(i - 1)
    BY <1>0, <2>1 DEF KeptIn
  <2>3. Queue!Rank(K(n), i) = Cardinality(K(i - 1))
    BY <2>2, SameOperators
  <2> QED BY <1>1, <2>1, <2>3
<1>5. ASSUME NEW n \in 0..N, NEW i \in 1..N, i <= n, At(r, i - 1).batchId # b
      PROVE  cnt(i - 1) < cnt(n)
  <2>1. i \in K(n) /\ n \in Nat /\ K(n) \in SUBSET (1..n)
    <3>1. i \in 1..n /\ n \in 0..N
      BY <1>0, <1>5
    <3> QED BY <1>1, <1>5, <3>1
  <2>2. Queue!Rank(K(n), i) \in 0..(Cardinality(K(n)) - 1)
    BY <2>1, Ranks
  <2> HIDE DEF cnt, K
  <2> QED BY <1>1, <1>2, <1>4, <2>1, <2>2
<1>6. ASSUME NEW n \in 0..N, NEW v \in 0..(cnt(n) - 1)
      PROVE  \E i \in K(n) : cnt(i - 1) = v
  <2>1. n \in Nat /\ K(n) \in SUBSET (1..n) /\ v \in 0..(Cardinality(K(n)) - 1)
    BY <1>1
  <2>2. \E i \in K(n) : Queue!Rank(K(n), i) = v
    BY <2>1, Ranks
  <2> QED BY <1>4, <2>2
<1> HIDE DEF cnt, K
<1>7. \A n \in 0..N : \A i \in K(n) : Queue!Rank(K(n), i) = cnt(i - 1)
  BY <1>4
<1> QED BY <1>2, <1>3, <1>5, <1>6, <1>7 DEF cnt, K

\* What the loop has done after n passes: the kept slots it passed over are in front,
\* the slots it has not seen behind them, and each slot removed is noted with its bytes.
ScanInv(r, b, n, c) ==
  /\ c \in [ring : Rings, at : Nat]
  /\ c.at = Count(r, b, n)
  /\ c.ring.head = r.head /\ c.ring.openBatch = r.openBatch /\ c.ring.fam = r.fam
  /\ c.ring.count = r.count - (n - c.at)
  /\ c.ring.drops = Noted(r.drops, "byMsmEpoch", n - c.at)
  /\ Weight(c.ring) = Weight(r)
  /\ \A i \in 1..n : At(r, i - 1).batchId # b => At(c.ring, Count(r, b, i - 1)) = At(r, i - 1)
  /\ \A i \in (n + 1)..r.count : At(c.ring, i - 1 - (n - c.at)) = At(r, i - 1)

\* A pass of the loop keeps this.
LEMMA ScanStepInv ==
  ASSUME NEW r \in Rings, NEW b, NEW n \in 1..r.count, NEW c, ScanInv(r, b, n - 1, c)
  PROVE  ScanInv(r, b, n, ScanStep(c, b))
<1> DEFINE N == r.count
           a == c.at
           g == c.ring
           cnt(k) == Count(r, b, k)
           d == ScanStep(c, b)
<1>0. N \in Nat /\ N <= Depth /\ Depth \in Nat /\ n \in Nat /\ n >= 1 /\ n <= N
  BY RingTypes, Sizes
<1>1. /\ c = [ring |-> g, at |-> a] /\ g \in Rings /\ a \in Nat /\ a = cnt(n - 1)
      /\ g.head = r.head /\ g.openBatch = r.openBatch /\ g.fam = r.fam
      /\ g.count = N - (n - 1 - a)
      /\ g.drops = Noted(r.drops, "byMsmEpoch", n - 1 - a)
      /\ Weight(g) = Weight(r)
      /\ \A i \in 1..(n - 1) : At(r, i - 1).batchId # b => At(g, cnt(i - 1)) = At(r, i - 1)
      /\ \A i \in n..N : At(g, i - 1 - (n - 1 - a)) = At(r, i - 1)
  BY <1>0 DEF ScanInv
<1>2. /\ cnt(n - 1) \in 0..(n - 1)
      /\ cnt(n) = IF At(r, n - 1).batchId = b THEN cnt(n - 1) ELSE cnt(n - 1) + 1
      /\ \A i \in 1..(n - 1) : At(r, i - 1).batchId # b => cnt(i - 1) < cnt(n - 1)
      /\ \A i \in 1..(n - 1) : cnt(i - 1) \in Nat
  <2>1. n - 1 \in 0..N /\ n \in 1..N /\ \A i \in 1..(n - 1) : i \in 1..N /\ i <= n - 1 /\ i - 1 \in 0..N
    BY <1>0
  <2>2. \A k \in 0..N : cnt(k) \in Nat
    <3>1. \A k \in 0..N : cnt(k) \in 0..k
      BY KeptCount
    <3> QED BY <1>0, <3>1
  <2>3. \A k \in 0..N, i \in 1..N : (i <= k /\ At(r, i - 1).batchId # b) => cnt(i - 1) < cnt(k)
    BY KeptCount
  <2>4. cnt(n) = IF At(r, n - 1).batchId = b THEN cnt(n - 1) ELSE cnt(n - 1) + 1
    BY KeptCount
  <2>5. cnt(n - 1) \in 0..(n - 1)
    BY <2>1, KeptCount
  <2> HIDE DEF cnt, N
  <2> QED BY <2>1, <2>2, <2>3, <2>4, <2>5
<1> HIDE DEF g, a, cnt, d, N
<1>3. At(g, a) = At(r, n - 1) /\ a \in 0..(g.count - 1) /\ n - 1 - a \in Nat
  BY <1>0, <1>1, <1>2
<1>4. CASE At(r, n - 1).batchId = b
  <2> DEFINE h == NoteDrop(g, At(g, a).frame.len, "byMsmEpoch")
             k == RemoveAt(h, a)
             m == n - 1 - a
  <2>1. d = [ring |-> k, at |-> a]
    BY <1>1, <1>3, <1>4 DEF ScanStep, d, g, a
  <2>2. At(g, a).frame.len \in Nat
    <3>1. a \in 0..Depth
      BY <1>0, <1>3, <1>1, RingTypes
    <3> QED BY <1>1, <3>1, AtType, CellFacts
  <2>3. "byMsmEpoch" \in Queue!DropReasons
    BY DEF Queue!DropReasons
  <2>15. Weight(k) = Weight(r)
    BY <1>1, <1>3, <2>3, RemovedWeight DEF LenAt
  <2>4. h \in Rings /\ SameQueue(g, h) /\ h.drops = Noted(g.drops, "byMsmEpoch", 1)
    BY <1>1, <2>2, <2>3, NoteDropFacts
  <2>5. \A l : At(h, l) = At(g, l)
    BY <2>4, SameLogical DEF SameQueue
  <2>6. h.count = g.count
    BY <2>4 DEF SameQueue
  <2> HIDE DEF h
  <2>7. /\ k \in Rings /\ SameBooks(h, k) /\ k.count = h.count - 1
        /\ \A l \in 0..(h.count - 2) : At(k, l) = IF l < a THEN At(h, l) ELSE At(h, l + 1)
    BY <1>3, <2>4, <2>6, RemoveAtFacts
  <2> HIDE DEF k
  <2>8. k.head = r.head /\ k.openBatch = r.openBatch /\ k.fam = r.fam
    BY <1>1, <2>4, <2>7 DEF SameBooks, SameQueue
  <2>9. k.drops = Noted(r.drops, "byMsmEpoch", n - a)
    <3>1. k.drops = Noted(Noted(r.drops, "byMsmEpoch", m), "byMsmEpoch", 1)
      BY <1>1, <2>4, <2>7 DEF SameBooks
    <3>2. m \in Nat /\ 1 \in Nat /\ m + 1 = n - a
      BY <1>0, <1>1, <1>3
    <3> HIDE DEF m
    <3>3. Noted(Noted(r.drops, "byMsmEpoch", m), "byMsmEpoch", 1) = Noted(r.drops, "byMsmEpoch", m + 1)
      BY <2>3, <3>2, RingTypes, NotedTwice
    <3> QED BY <3>1, <3>2, <3>3
  <2>10. a = cnt(n) /\ k.count = N - (n - a) /\ h.count \in Nat /\ h.count = N - (n - 1 - a)
    BY <1>0, <1>1, <1>2, <1>3, <1>4, <2>6, <2>7
  <2>11. ASSUME NEW i \in 1..n, At(r, i - 1).batchId # b
         PROVE  At(k, cnt(i - 1)) = At(r, i - 1)
    <3>1. i \in 1..(n - 1)
      BY <1>0, <1>4, <2>11
    <3>2. cnt(i - 1) < a /\ cnt(i - 1) \in Nat /\ At(g, cnt(i - 1)) = At(r, i - 1)
      BY <1>1, <1>2, <2>11, <3>1
    <3>3. cnt(i - 1) \in 0..(h.count - 2)
      BY <1>0, <1>1, <1>3, <2>6, <3>2
    <3> QED BY <2>5, <2>7, <3>2, <3>3
  <2>12. ASSUME NEW i \in (n + 1)..N
         PROVE  At(k, i - 1 - (n - a)) = At(r, i - 1)
    <3> DEFINE l == i - 1 - (n - a)
    <3>1. l \in 0..(h.count - 2) /\ ~ (l < a) /\ l + 1 = i - 1 - (n - 1 - a) /\ i \in n..N
      BY <1>0, <1>1, <1>3, <2>10
    <3> HIDE DEF l
    <3>2. At(k, l) = At(h, l + 1)
      BY <2>7, <3>1
    <3>3. At(k, l) = At(g, i - 1 - (n - 1 - a))
      BY <2>5, <3>1, <3>2
    <3>4. At(k, l) = At(r, i - 1)
      BY <1>1, <3>1, <3>3
    <3> QED BY <3>4 DEF l
  <2> HIDE DEF N, m
  <2>13. d \in [ring : Rings, at : Nat] /\ d.ring = k /\ d.at = a
    BY <1>1, <2>1, <2>7
  <2>14. ScanInv(r, b, n, d)
    BY <2>8, <2>9, <2>10, <2>11, <2>12, <2>13, <2>15 DEF ScanInv, N, cnt
  <2> QED BY <2>14 DEF d
<1>5. CASE At(r, n - 1).batchId # b
  <2>1. d = [ring |-> g, at |-> a + 1]
    BY <1>1, <1>3, <1>5 DEF ScanStep, d, g, a
  <2>2. cnt(n) = a + 1 /\ n - (a + 1) = n - 1 - a
    BY <1>0, <1>1, <1>2, <1>5
  <2>3. d \in [ring : Rings, at : Nat] /\ d.ring = g /\ d.at = a + 1
    BY <1>1, <2>1
  <2>4. ASSUME NEW i \in 1..n, At(r, i - 1).batchId # b
        PROVE  At(g, cnt(i - 1)) = At(r, i - 1)
    <3>1. CASE i = n
      BY <1>1, <1>3, <3>1
    <3>2. CASE i # n
      BY <1>0, <1>1, <2>4, <3>2
    <3> QED BY <3>1, <3>2
  <2>5. \A i \in (n + 1)..N : At(g, i - 1 - (n - (a + 1))) = At(r, i - 1)
    BY <1>0, <1>1, <2>2
  <2>6. g.count = N - (n - (a + 1)) /\ g.drops = Noted(r.drops, "byMsmEpoch", n - (a + 1))
    BY <1>1, <2>2
  <2>7. ScanInv(r, b, n, d)
    BY <1>1, <2>2, <2>3, <2>4, <2>5, <2>6 DEF ScanInv, N, cnt
  <2> QED BY <2>7 DEF d
<1> QED BY <1>4, <1>5

\* Before the first pass.
LEMMA ScanStart ==
  ASSUME NEW r \in Rings, NEW b
  PROVE  ScanInv(r, b, 0, [ring |-> r, at |-> 0])
<1> DEFINE c == [ring |-> r, at |-> 0]
<1>1. r.count \in Nat
  BY RingTypes
<1>2. Count(r, b, 0) = 0
  BY <1>1, KeptCount
<1>3. Noted(r.drops, "byMsmEpoch", 0) = r.drops
  <2>1. "byMsmEpoch" \in Queue!DropReasons /\ 0 \in Nat
    BY DEF Queue!DropReasons
  <2> QED BY <2>1, RingTypes, NotedTwice
<1>4. c \in [ring : Rings, at : Nat] /\ c.ring = r /\ c.at = 0
  OBVIOUS
<1>5. \A i \in (0 + 1)..r.count : At(r, i - 1 - (0 - 0)) = At(r, i - 1)
  <2>1. \A i \in (0 + 1)..r.count : i - 1 - (0 - 0) = i - 1
    BY <1>1
  <2> QED BY <2>1
<1>6. 0 - 0 = 0 /\ r.count - (0 - 0) = r.count /\ 1..0 = {}
  BY <1>1
<1> HIDE DEF c
<1>7. ScanInv(r, b, 0, c)
  BY <1>2, <1>3, <1>4, <1>5, <1>6 DEF ScanInv
<1> QED BY <1>7 DEF c

\* The loop has an outcome: a function defined by its passes exists, as one shorter by
\* a pass always does.
LEMMA ScanPasses ==
  ASSUME NEW r \in Rings, NEW b
  PROVE  \E f : /\ Scan(r, b) = f[r.count].ring
                /\ f[0] = [ring |-> r, at |-> 0]
                /\ \A n \in 1..r.count : f[n] = ScanStep(f[n - 1], b)
<1> DEFINE base == [ring |-> r, at |-> 0]
           Of(f, n) == f = [k \in 0..n |-> IF k = 0 THEN base ELSE ScanStep(f[k - 1], b)]
           N == r.count
           T == {n \in 0..N : ~ \E f : Of(f, n)}
<1>0. N \in Nat
  BY RingTypes
<1> HIDE DEF N
<1>1. T = {}
  <2>1. SUFFICES ASSUME T # {} PROVE FALSE
    OBVIOUS
  <2>2. T \subseteq Nat
    BY <1>0
  <2>3. PICK n \in T : \A x \in T : n <= x
    BY <2>1, <2>2, MinOfNats
  <2>4. n \in 0..N /\ n \in Nat
    BY <2>2, <2>3
  <2>5. n # 0
    <3>1. \A f : [k \in 0..0 |-> base] = [k \in 0..0 |-> IF k = 0 THEN base ELSE ScanStep(f[k - 1], b)]
      <4> HIDE DEF base
      <4>1. \A k \in 0..0 : k = 0
        OBVIOUS
      <4> QED BY <4>1
    <3>2. Of([k \in 0..0 |-> base], 0)
      BY <3>1
    <3> QED BY <2>3, <3>2
  <2>6. n - 1 \in 0..N /\ n - 1 \notin T
    <3> HIDE DEF T
    <3>1. n - 1 \in 0..N /\ ~ (n <= n - 1)
      BY <1>0, <2>4, <2>5
    <3> QED BY <2>3, <3>1
  <2>7. PICK f : Of(f, n - 1)
    BY <2>6
  <2> DEFINE g == [k \in 0..n |-> IF k = n THEN ScanStep(f[n - 1], b) ELSE f[k]]
             h == [k \in 0..n |-> IF k = 0 THEN base ELSE ScanStep(g[k - 1], b)]
  <2>8. \A k \in 0..n : g[k] = h[k]
    <3>1. SUFFICES ASSUME NEW k \in 0..n PROVE g[k] = h[k]
      OBVIOUS
    <3>2. \A l \in 0..(n - 1) : l \in 0..n /\ l # n /\ g[l] = f[l]
      BY <2>4
    <3>3. \A l \in 0..(n - 1) : f[l] = IF l = 0 THEN base ELSE ScanStep(f[l - 1], b)
      BY <2>7
    <3>4. CASE k = n
      <4>1. g[k] = ScanStep(f[n - 1], b) /\ n - 1 \in 0..(n - 1)
        BY <2>4, <2>5, <3>4
      <4>2. h[k] = ScanStep(g[n - 1], b)
        BY <2>5, <3>4
      <4> QED BY <3>2, <4>1, <4>2
    <3>5. CASE k # n
      <4>1. k \in 0..(n - 1) /\ g[k] = f[k]
        BY <2>4, <3>2, <3>5
      <4>2. CASE k = 0
        BY <3>3, <4>1, <4>2
      <4>3. CASE k # 0
        <5>1. k - 1 \in 0..(n - 1)
          BY <2>4, <4>1, <4>3
        <5>2. h[k] = ScanStep(g[k - 1], b) /\ g[k - 1] = f[k - 1]
          BY <3>2, <4>3, <5>1
        <5> HIDE DEF g, h
        <5> QED BY <3>3, <4>1, <4>3, <5>2
      <4> QED BY <4>2, <4>3
    <3> QED BY <3>4, <3>5
  <2>9. g = h
    <3>1. g = [k \in 0..n |-> g[k]] /\ h = [k \in 0..n |-> h[k]]
      OBVIOUS
    <3> HIDE DEF g, h
    <3> QED BY <2>8, <3>1
  <2>10. Of(g, n)
    BY <2>9
  <2> QED BY <2>3, <2>10
<1>2. PICK f : Of(f, N)
  <2>1. N \in 0..N
    BY <1>0
  <2> QED BY <1>1, <2>1
<1> DEFINE after == CHOOSE g : Of(g, N)
<1>3. Of(after, N)
  <2> HIDE DEF Of
  <2> QED BY <1>2
<1>4. Scan(r, b) = after[N].ring
  BY Zenon DEF Scan, N
<1> HIDE DEF after
<1>5. after[0] = base /\ \A n \in 1..N : after[n] = ScanStep(after[n - 1], b)
  <2>1. 0 \in 0..N /\ \A n \in 1..N : n \in 0..N /\ n # 0
    BY <1>0
  <2>2. \A k \in 0..N : after[k] = IF k = 0 THEN base ELSE ScanStep(after[k - 1], b)
    BY <1>3
  <2> QED BY <2>1, <2>2
<1> QED BY <1>4, <1>5 DEF N

\* The loop leaves the sequence without the batch, each slot it removed noted.
LEMMA ScanFacts ==
  ASSUME NEW r \in Rings, NEW b
  PROVE  LET s == Scan(r, b)
             gone == Cardinality(Queue!SlotsOf(Logical(r), b))
         IN  /\ s \in Rings
             /\ s.openBatch = r.openBatch /\ s.fam = r.fam
             /\ Logical(s) = Queue!Without(Logical(r), b)
             /\ gone \in Nat /\ s.drops = Noted(r.drops, "byMsmEpoch", gone)
             /\ s.count <= r.count /\ Weight(s) = Weight(r)
             /\ (\E i \in 1..r.count : At(r, i - 1).batchId = b) => s.count < r.count
<1> DEFINE s == Scan(r, b)
           q == Logical(r)
           K == KeptIn(r, b, r.count)
           G == Queue!SlotsOf(q, b)
           N == r.count
           m == Count(r, b, N)
<1>0. N \in Nat /\ N <= Depth /\ Depth \in Nat
  BY RingTypes, Sizes
<1>1. PICK f : /\ s = f[N].ring /\ f[0] = [ring |-> r, at |-> 0]
               /\ \A n \in 1..N : f[n] = ScanStep(f[n - 1], b)
  BY ScanPasses
<1> HIDE DEF s
<1>2. \A n \in 0..N : ScanInv(r, b, n, f[n])
  <2> DEFINE T == {n \in 0..N : ~ ScanInv(r, b, n, f[n])}
  <2>1. SUFFICES ASSUME T # {} PROVE FALSE
    OBVIOUS
  <2>2. T \subseteq Nat
    BY <1>0
  <2>3. PICK n \in T : \A x \in T : n <= x
    BY <2>1, <2>2, MinOfNats
  <2>4. n # 0
    BY <1>1, <2>3, ScanStart
  <2>5. n \in 1..N /\ n - 1 \in 0..N /\ n - 1 \notin T
    BY <1>0, <2>2, <2>3, <2>4
  <2>6. ScanInv(r, b, n - 1, f[n - 1])
    BY <2>5
  <2>7. ScanInv(r, b, n, f[n])
    BY <1>1, <2>5, <2>6, ScanStepInv
  <2> QED BY <2>3, <2>7
<1>3. ScanInv(r, b, N, f[N])
  BY <1>0, <1>2
<1>4. /\ s \in Rings /\ s.openBatch = r.openBatch /\ s.fam = r.fam
      /\ s.count = N - (N - m) /\ s.drops = Noted(r.drops, "byMsmEpoch", N - m)
      /\ Weight(s) = Weight(r)
      /\ \A i \in 1..N : At(r, i - 1).batchId # b => At(s, Count(r, b, i - 1)) = At(r, i - 1)
  BY <1>1, <1>3 DEF ScanInv
<1>5. m \in 0..N /\ s.count = m
  <2>1. m \in 0..N
    <3>1. N \in 0..N
      BY <1>0
    <3> QED BY <3>1, KeptCount
  <2> HIDE DEF m
  <2> QED BY <1>0, <1>4, <2>1
<1>6. /\ K = {i \in 1..N : q[i].batchId # b} /\ G = {i \in 1..N : q[i].batchId = b}
      /\ Queue!Kept(q, b) = K
  <2>1. DOMAIN q = 1..N /\ \A i \in 1..N : q[i] = At(r, i - 1)
    BY LogicalSeq
  <2>2. K = {i \in 1..N : q[i].batchId # b}
    BY <2>1 DEF KeptIn
  <2> HIDE DEF q
  <2>3. G = {i \in 1..N : q[i].batchId = b}
    BY <2>1 DEF Queue!SlotsOf
  <2>4. Queue!Kept(q, b) = K
    BY <2>1, <2>2, <2>3 DEF Queue!Kept
  <2> QED BY <2>2, <2>3, <2>4
<1>7. Cardinality(G) = N - m /\ Cardinality(G) \in Nat
  <2>1. IsFiniteSet(1..N) /\ Cardinality(1..N) = N
    <3> HIDE DEF N
    <3>1. N \in Int /\ 1 \in Int
      BY <1>0
    <3>2. IsFiniteSet(1..N) /\ Cardinality(1..N) = IF 1 > N THEN 0 ELSE N - 1 + 1
      BY <3>1, FS_Interval
    <3> QED BY <1>0, <3>2
  <2>2. G \subseteq 1..N /\ (1..N) \ G = K
    BY <1>6
  <2>3. IsFiniteSet(G) /\ (1..N) \cap G = G
    BY <2>1, <2>2, FS_Subset
  <2>4. Cardinality(K) = N - Cardinality(G)
    <3> HIDE DEF N, G, K
    <3>1. Cardinality((1..N) \ G) = N - Cardinality((1..N) \cap G)
      BY <2>1, FS_Difference
    <3> QED BY <2>2, <2>3, <3>1
  <2>5. Cardinality(G) \in Nat
    BY <2>3, FS_CardinalityType
  <2>6. Cardinality(K) = m
    BY DEF Count
  <2> HIDE DEF G, K, m
  <2> QED BY <1>0, <1>5, <2>4, <2>5, <2>6
<1>8. Logical(s) = Queue!Without(q, b)
  <2> DEFINE w == Queue!Without(q, b)
             pick(k) == CHOOSE i \in K : Queue!Rank(K, i) = k - 1
  <2>1. Queue!Cardinality(K) = m
    BY SameOperators DEF Count
  <2>2. w = [k \in 1..m |-> q[pick(k)]]
    BY <1>6, <2>1 DEF Queue!Without
  <2>3. ASSUME NEW k \in 1..m
        PROVE  pick(k) \in K /\ pick(k) \in 1..N /\ Count(r, b, pick(k) - 1) = k - 1
    <3>1. k - 1 \in 0..(m - 1)
      BY <1>5
    <3>2. N \in 0..N
      BY <1>0
    <3>3. \E i \in K : Count(r, b, i - 1) = k - 1
      <4> HIDE DEF m
      <4>1. \A v \in 0..(Count(r, b, r.count) - 1) :
               \E i \in KeptIn(r, b, r.count) : Count(r, b, i - 1) = v
        <5>1. r.count \in 0..r.count
          BY <3>2
        <5> QED BY <5>1, KeptCount, ZenonT(30)
      <4>2. \A v \in 0..(m - 1) : \E i \in K : Count(r, b, i - 1) = v
        BY <4>1 DEF m
      <4> QED BY <3>1, <4>2
    <3>4. \A i \in K : Queue!Rank(K, i) = Count(r, b, i - 1)
      BY ZenonT(30), <3>2, KeptCount
    <3>5. \E i \in K : Queue!Rank(K, i) = k - 1
      BY <3>3, <3>4
    <3>6. pick(k) \in K /\ Queue!Rank(K, pick(k)) = k - 1
      <4> HIDE DEF K
      <4> QED BY <3>5
    <3> QED BY <1>6, <3>4, <3>6
  <2>4. ASSUME NEW k \in 1..m PROVE w[k] = At(s, k - 1)
    <3> HIDE DEF pick
    <3>1. w[k] = q[pick(k)]
      BY <2>2
    <3>2. q[pick(k)] = At(r, pick(k) - 1) /\ At(r, pick(k) - 1).batchId # b
      BY <2>3, LogicalSeq DEF KeptIn
    <3>3. At(s, Count(r, b, pick(k) - 1)) = At(r, pick(k) - 1)
      BY <1>4, <2>3, <3>2
    <3> QED BY <2>3, <3>1, <3>2, <3>3
  <2>5. DOMAIN w = 1..m /\ Logical(s) = [k \in 1..m |-> At(s, k - 1)]
    BY <1>5, <2>2 DEF Logical
  <2>6. w = [k \in 1..m |-> w[k]]
    BY <2>2
  <2> HIDE DEF w, m
  <2> QED BY <2>4, <2>5, <2>6 DEF w
<1>9. (\E i \in 1..N : At(r, i - 1).batchId = b) => s.count < N
  <2>1. SUFFICES ASSUME NEW i \in 1..N, At(r, i - 1).batchId = b PROVE s.count < N
    OBVIOUS
  <2>2. i \in G /\ q[i] = At(r, i - 1)
    BY <1>6, <2>1, LogicalSeq
  <2>3. Cardinality(G) # 0
    <3>1. IsFiniteSet(G)
      <4> HIDE DEF N, G, q
      <4>1. G \in SUBSET (1..N)
        BY <1>6
      <4> QED BY <1>0, <4>1, Ranks
    <3> QED BY <2>2, <3>1, FS_EmptySet
  <2> HIDE DEF m, G
  <2> QED BY <1>0, <1>5, <1>7, <2>3
<1>10. Queue!Cardinality(G) = Cardinality(G)
  BY SameOperators
<1> HIDE DEF m, G, N, q
<1>11. s.drops = Noted(r.drops, "byMsmEpoch", Cardinality(G)) /\ s.count <= N
  BY <1>0, <1>4, <1>5, <1>7
<1> QED BY <1>4, <1>7, <1>8, <1>9, <1>11 DEF G, N, q, s

\* openNextBatch() starts a batch with no constellations, and leaves the rest.
LEMMA OpenNextFacts ==
  ASSUME NEW r \in Rings
  PROVE  LET s == OpenNext(r)
         IN  /\ s \in Rings /\ s.openBatch = Queue!NextBatch(r.openBatch) /\ s.fam = {}
             /\ s.slots = r.slots /\ s.head = r.head /\ s.count = r.count
             /\ s.drops = r.drops /\ s.bytes = r.bytes /\ Logical(s) = Logical(r)
<1> DEFINE s == OpenNext(r)
           b == Queue!NextBatch(r.openBatch)
<1>1. b \in 1..MaxBatch
  BY RingTypes, Sizes DEF Queue!NextBatch
<1>2. s = [r EXCEPT !.openBatch = b, !.fam = {}]
  BY DEF OpenNext, Queue!NextBatch
<1> HIDE DEF s, b
<1>3. /\ s \in Rings /\ s.openBatch = b /\ s.fam = {}
      /\ s.slots = r.slots /\ s.head = r.head /\ s.count = r.count
      /\ s.drops = r.drops /\ s.bytes = r.bytes
  BY <1>1, <1>2 DEF Rings
<1>4. Logical(s) = Logical(r)
  BY <1>3, SameLogical
<1> QED BY <1>3, <1>4 DEF s, b

\* dropBatch() of a batch that is queued frees a slot, and closes the open batch if it
\* was that one.
LEMMA DropBatchFacts ==
  ASSUME NEW r \in Rings, NEW b \in Nat, b # 0, \E i \in 1..r.count : At(r, i - 1).batchId = b
  PROVE  LET s == DropBatch(r, b)
             gone == Cardinality(Queue!SlotsOf(Logical(r), b))
         IN  /\ s \in Rings /\ s.count < r.count
             /\ Logical(s) = Queue!Without(Logical(r), b)
             /\ gone \in Nat /\ s.drops = Noted(r.drops, "byMsmEpoch", gone)
             /\ s.openBatch = IF b = r.openBatch THEN Queue!NextBatch(b) ELSE r.openBatch
             /\ s.fam = IF b = r.openBatch THEN {} ELSE r.fam
<1> DEFINE c == Scan(r, b)
           gone == Cardinality(Queue!SlotsOf(Logical(r), b))
<1>1. /\ c \in Rings /\ c.openBatch = r.openBatch /\ c.fam = r.fam
      /\ Logical(c) = Queue!Without(Logical(r), b)
      /\ gone \in Nat /\ c.drops = Noted(r.drops, "byMsmEpoch", gone)
      /\ c.count < r.count
  BY ScanFacts
<1>2. DropBatch(r, b) = IF b = r.openBatch THEN OpenNext(c) ELSE c
  BY DEF DropBatch
<1> HIDE DEF c, gone
<1>3. /\ OpenNext(c) \in Rings /\ OpenNext(c).openBatch = Queue!NextBatch(c.openBatch)
      /\ OpenNext(c).fam = {} /\ OpenNext(c).count = c.count
      /\ OpenNext(c).drops = c.drops /\ Logical(OpenNext(c)) = Logical(c)
  BY <1>1, OpenNextFacts
<1> QED BY <1>1, <1>2, <1>3 DEF gone

\* assignBatch() joins the open batch or opens one, as in the sequence.
LEMMA AssignFacts ==
  ASSUME ring \in Rings, NEW f \in Frames
  PROVE  LET a == AssignBatch(ring, f)
         IN  /\ a \in Rings /\ a.count = ring.count /\ a.drops = ring.drops
             /\ \A l : At(a, l) = At(ring, l)
             /\ Logical(a) = Logical(ring)
             /\ a.openBatch = Queue!AssignedBatch(f) /\ a.fam = Queue!AssignedFam(f)
<1> DEFINE e == Queue!FamEntry(f)
           mine == {x \in ring.fam : x.family = Queue!Family(f)}
           closes == \/ \E x \in mine : x.epoch # e.epoch
                     \/ mine = {} /\ Cardinality(ring.fam) >= FamilySlots
           g == IF closes THEN OpenNext(ring) ELSE ring
           a == AssignBatch(ring, f)
<1>1. closes <=> Queue!ClosesOpenBatch(f)
  <2>1. Queue!Cardinality(ring.fam) = Cardinality(ring.fam)
    BY SameOperators
  <2>2. e.epoch = Queue!MsmEpoch30(f)
    BY DEF Queue!FamEntry
  <2> HIDE DEF e
  <2> QED BY <2>1, <2>2 DEF Queue!ClosesOpenBatch
<1>2. e \in Entries
  <2>1. f.type \in Nat /\ f.len \in Nat /\ f.epoch \in Nat
    BY FrameTypes
  <2>2. Queue!Family(f) \in Nat /\ Queue!MsmEpoch30(f) \in Nat
    BY <2>1 DEF Queue!Family, Queue!MsmEpoch30
  <2> QED BY <2>2 DEF Queue!FamEntry, Entries
<1>3. a = [g EXCEPT !.fam = g.fam \cup {e}]
  BY DEF AssignBatch
<1> HIDE DEF e, closes, a
<1>4. /\ g \in Rings /\ g.slots = ring.slots /\ g.head = ring.head /\ g.count = ring.count
      /\ g.drops = ring.drops
      /\ g.openBatch = Queue!AssignedBatch(f)
      /\ g.fam = IF Queue!ClosesOpenBatch(f) THEN {} ELSE ring.fam
  BY <1>1, OpenNextFacts DEF Queue!AssignedBatch
<1> HIDE DEF g
<1>5. /\ a \in Rings /\ a.slots = ring.slots /\ a.head = ring.head /\ a.count = ring.count
      /\ a.drops = ring.drops /\ a.openBatch = g.openBatch /\ a.fam = g.fam \cup {e}
  BY <1>2, <1>3, <1>4 DEF Rings
<1>6. a.fam = Queue!AssignedFam(f)
  BY <1>4, <1>5 DEF Queue!AssignedFam, e
<1>7. Logical(a) = Logical(ring) /\ \A l : At(a, l) = At(ring, l)
  BY <1>5, SameLogical
<1> QED BY <1>4, <1>5, <1>6, <1>7 DEF a

\* The loop of pushProtected() drops a batch at most: that frees a slot.
LEMMA MakeRoomFacts ==
  ASSUME NEW r \in Rings
  PROVE  MakeRoom(r) = IF r.count >= Depth /\ Victim(r) # 0 THEN DropBatch(r, Victim(r)) ELSE r
<1> DEFINE g == RoomStep(r)
           Of(f) == f = [n \in 0..Depth |-> IF n = 0 THEN r ELSE RoomStep(f[n - 1])]
           once == [n \in 0..Depth |-> IF n = 0 THEN r ELSE g]
           after == CHOOSE f : Of(f)
<1>0. Depth \in Nat /\ Depth >= 1 /\ r.count \in Nat /\ r.count <= Depth
  BY RingTypes, Sizes
<1>1. g = IF r.count >= Depth /\ Victim(r) # 0 THEN DropBatch(r, Victim(r)) ELSE r
  BY <1>0 DEF RoomStep, DropBatch
<1>2. RoomStep(g) = g
  <2>1. CASE r.count >= Depth /\ Victim(r) # 0
    <3>1. g.count < r.count /\ g.count \in Nat
      BY <1>1, <2>1, VictimSame, DropBatchFacts, RingTypes
    <3> HIDE DEF g
    <3> QED BY <1>0, <3>1 DEF RoomStep
  <2>2. CASE ~ (r.count >= Depth /\ Victim(r) # 0)
    <3>1. g = r
      BY <1>1, <2>2
    <3> QED BY <3>1
  <2> QED BY <2>1, <2>2
<1> HIDE DEF g
<1>3. Of(once)
  <2>1. \A n \in 0..Depth : once[n] = IF n = 0 THEN r ELSE RoomStep(once[n - 1])
    <3>1. SUFFICES ASSUME NEW n \in 0..Depth, n # 0 PROVE once[n] = RoomStep(once[n - 1])
      OBVIOUS
    <3>2. n - 1 \in 0..Depth /\ once[n - 1] = IF n - 1 = 0 THEN r ELSE g
      BY <1>0, <3>1
    <3>3. once[n] = g
      BY <3>1
    <3> HIDE DEF once
    <3> QED BY <1>2, <3>2, <3>3 DEF g
  <2>2. once = [n \in 0..Depth |-> once[n]]
    OBVIOUS
  <2> HIDE DEF once
  <2> QED BY <2>1, <2>2
<1>4. Of(after)
  <2> HIDE DEF Of
  <2> QED BY <1>3
<1>5. MakeRoom(r) = after[Depth]
  BY Zenon DEF MakeRoom
<1> HIDE DEF after
<1>6. \A n \in 1..Depth : after[n] = g
  <2> DEFINE T == {n \in 1..Depth : after[n] # g}
  <2>1. SUFFICES ASSUME T # {} PROVE FALSE
    OBVIOUS
  <2>2. T \subseteq Nat
    BY <1>0
  <2>3. PICK n \in T : \A x \in T : n <= x
    BY <2>1, <2>2, MinOfNats
  <2>4. n \in 1..Depth /\ n \in 0..Depth /\ n # 0 /\ 0 \in 0..Depth /\ n - 1 \notin T
    BY <1>0, <2>2, <2>3
  <2>5. after[n] = RoomStep(after[n - 1]) /\ after[0] = r
    BY <1>4, <2>4
  <2>6. CASE n = 1
    <3>1. n - 1 = 0
      BY <2>6
    <3> QED BY <2>3, <2>5, <3>1 DEF g
  <2>7. CASE n # 1
    <3>1. n - 1 \in 1..Depth
      BY <1>0, <2>4, <2>7
    <3>2. after[n - 1] = g
      BY <2>4, <3>1
    <3> QED BY <1>2, <2>3, <2>5, <3>2
  <2> QED BY <2>6, <2>7
<1>7. Depth \in 1..Depth
  BY <1>0
<1> QED BY <1>1, <1>5, <1>6, <1>7

-----------------------------------------------------------------------------
(* push() is the push of the sequence                                        *)

\* What a storable frame is stored as.
LEMMA NewSlotCell ==
  ASSUME NEW f \in Frames, Queue!Storable(f), NEW b \in 0..MaxBatch
  PROVE  Queue!NewSlot(f, b) \in Queue!Slots /\ Queue!NewSlot(f, b) \in CellSlots
BY DEF Queue!NewSlot, Queue!Slots, CellSlots

\* The counters of the sequence are those of the ring.
LEMMA NoteDropSame ==
  ASSUME ring \in Rings, NEW reason \in Queue!DropReasons, NEW n \in Nat
  PROVE  Queue!NoteDrop(reason, n) = Noted(ring.drops, reason, n)
<1>1. reason # "frames" /\ reason \in Queue!DropFields /\ "frames" \in Queue!DropFields
  BY DEF Queue!DropReasons, Queue!DropFields
<1> QED BY <1>1, RingTypes DEF Queue!NoteDrop, Noted

\* The reasons are reasons.
LEMMA Reasons ==
  {"byOversize", "byQueueFull", "byMsmEpoch", "byProtectedKept", "byReplacedProtected"}
    \subseteq Queue!DropReasons
BY DEF Queue!DropReasons

\* The window of the code takes the sample the sequence takes.
LEMMA SampleSame ==
  ASSUME NEW drop, Samples!Sample(drop)
  PROVE  Queue!Sample(drop)
BY DEF Samples!Sample, Queue!Sample

\* A refusal is noted, the queue as it was.
LEMMA RefusedFacts ==
  ASSUME NEW r \in Rings, NEW f \in Frames, NEW reason \in Queue!DropReasons
  PROVE  LET o == Refused(r, f, reason)
         IN  /\ o.ring \in Rings /\ o.lossy
             /\ Logical(o.ring) = Logical(r)
             /\ o.ring.openBatch = r.openBatch /\ o.ring.fam = r.fam
             /\ o.ring.drops = Noted(r.drops, reason, 1)
<1> DEFINE s == NoteDrop(r, f.len, reason)
<1>1. f.len \in Nat
  BY RingAssumption
<1>2. s \in Rings /\ SameQueue(r, s) /\ s.drops = Noted(r.drops, reason, 1)
  BY <1>1, NoteDropFacts
<1>3. Logical(s) = Logical(r)
  BY <1>2, SameLogical DEF SameQueue
<1>4. Refused(r, f, reason).ring = s /\ Refused(r, f, reason).lossy
  BY DEF Refused, Outcome
<1> HIDE DEF s
<1> QED BY <1>2, <1>3, <1>4 DEF SameQueue

\* A batch evicted and a frame stored in the room it made.
LEMMA EvictedAppend ==
  ASSUME NEW r \in Rings, NEW v \in Nat, v # 0, \E i \in 1..r.count : At(r, i - 1).batchId = v,
         NEW f \in Frames, Queue!Storable(f), NEW b \in 0..MaxBatch
  PROVE  LET d == DropBatch(r, v)
             s == PushBack(d, f, b)
             gone == Cardinality(Queue!SlotsOf(Logical(r), v))
         IN  /\ d.count < Depth /\ d \in Rings
             /\ s \in Rings
             /\ Logical(s) = Append(Queue!Without(Logical(r), v), Queue!NewSlot(f, b))
             /\ gone \in Nat /\ s.drops = Noted(r.drops, "byMsmEpoch", gone)
             /\ s.openBatch = IF v = r.openBatch THEN Queue!NextBatch(v) ELSE r.openBatch
             /\ s.fam = IF v = r.openBatch THEN {} ELSE r.fam
<1> DEFINE d == DropBatch(r, v)
           s == PushBack(d, f, b)
           gone == Cardinality(Queue!SlotsOf(Logical(r), v))
<1>1. /\ d \in Rings /\ d.count < r.count
      /\ Logical(d) = Queue!Without(Logical(r), v)
      /\ gone \in Nat /\ d.drops = Noted(r.drops, "byMsmEpoch", gone)
      /\ d.openBatch = IF v = r.openBatch THEN Queue!NextBatch(v) ELSE r.openBatch
      /\ d.fam = IF v = r.openBatch THEN {} ELSE r.fam
  BY DropBatchFacts
<1> HIDE DEF d, gone
<1>2. d.count < Depth
  BY <1>1, RingTypes, Sizes
<1>3. Queue!NewSlot(f, b) \in CellSlots
  BY NewSlotCell
<1>4. /\ s \in Rings /\ SameBooks(d, s)
      /\ Logical(s) = Append(Logical(d), Queue!NewSlot(f, b))
  BY <1>1, <1>2, <1>3, PushBackFacts
<1> HIDE DEF s
<1>5. s.openBatch = d.openBatch /\ s.fam = d.fam /\ s.drops = d.drops
  BY <1>4 DEF SameBooks
<1> QED BY <1>1, <1>2, <1>4, <1>5 DEF d, s, gone

\* A frame that is not MSM and not queued yet: stored, stored in place of a batch, or
\* refused for the reason.
LEMMA PlainSame ==
  ASSUME ring \in Rings, NEW f \in Frames, Queue!Storable(f), NEW reason \in Queue!DropReasons,
         NEW o, ring' = o.ring, Samples!Sample(o.lossy), cfg' = cfg,
         o = IF ring.count < Depth THEN Outcome(PushBack(ring, f, 0), FALSE)
             ELSE IF Victim(ring) # 0
                  THEN Outcome(PushBack(DropBatch(ring, Victim(ring)), f, 0), TRUE)
             ELSE Refused(ring, f, reason)
  PROVE  /\ ring' \in Rings
         /\ Queue!StorePlain(f) \/ Queue!EvictForPlain(f) \/ Queue!RefusePlain(reason)
<1> DEFINE v == Victim(ring)
           q == Logical(ring)
<1>0. Len(q) = ring.count /\ ring.count \in Nat /\ Depth \in Nat /\ 0 \in 0..MaxBatch
  BY LogicalSeq, RingTypes, Sizes
<1>1. v = Queue!VictimBatch(q, ring.openBatch) /\ v \in Nat
      /\ (v # 0 => \E i \in 1..ring.count : At(ring, i - 1).batchId = v)
  BY VictimSame
<1>2. Queue!NewSlot(f, 0) \in CellSlots
  BY <1>0, NewSlotCell
<1>3. CASE ring.count < Depth
  <2>1. o.ring = PushBack(ring, f, 0) /\ o.lossy = FALSE
    BY <1>3 DEF Outcome
  <2>2. /\ ring' \in Rings /\ SameBooks(ring, ring')
        /\ Logical(ring') = Append(q, Queue!NewSlot(f, 0))
    BY <1>2, <1>3, <2>1, PushBackFacts
  <2>3. Queue!Sample(FALSE)
    BY <2>1, SampleSame
  <2> QED BY <1>0, <1>3, <2>2, <2>3 DEF SameBooks, Queue!StorePlain
<1>4. CASE ring.count >= Depth /\ v # 0
  <2> DEFINE s == PushBack(DropBatch(ring, v), f, 0)
             gone == Cardinality(Queue!SlotsOf(q, v))
  <2>1. o.ring = s /\ o.lossy = TRUE
    BY <1>0, <1>4 DEF Outcome
  <2>2. /\ s \in Rings
        /\ Logical(s) = Append(Queue!Without(q, v), Queue!NewSlot(f, 0))
        /\ gone \in Nat /\ s.drops = Noted(ring.drops, "byMsmEpoch", gone)
        /\ s.openBatch = IF v = ring.openBatch THEN Queue!NextBatch(v) ELSE ring.openBatch
        /\ s.fam = IF v = ring.openBatch THEN {} ELSE ring.fam
    BY <1>0, <1>1, <1>4, EvictedAppend
  <2> HIDE DEF s, v, q
  <2>3. ring'.drops = Queue!NoteDrop("byMsmEpoch", Queue!Cardinality(Queue!SlotsOf(q, v)))
    <3>1. Queue!Cardinality(Queue!SlotsOf(q, v)) = gone
      BY SameOperators
    <3> QED BY <2>1, <2>2, <3>1, Reasons, NoteDropSame
  <2>4. Queue!Sample(TRUE)
    BY <2>1, SampleSame
  <2>5. IF v = ring.openBatch
        THEN ring'.openBatch = Queue!NextBatch(ring.openBatch) /\ ring'.fam = {}
        ELSE ring'.openBatch = ring.openBatch /\ ring'.fam = ring.fam
    BY <2>1, <2>2
  <2>6. Logical(ring') = Append(Queue!Without(q, v), Queue!NewSlot(f, 0))
    BY <2>1, <2>2
  <2>7. Queue!EvictForPlain(f)
    BY <1>0, <1>1, <1>4, <2>3, <2>4, <2>5, <2>6 DEF Queue!EvictForPlain, q
  <2> QED BY <2>1, <2>2, <2>7
<1>5. CASE ring.count >= Depth /\ v = 0
  <2>1. o = Refused(ring, f, reason)
    BY <1>0, <1>5 DEF Outcome
  <2>2. /\ ring' \in Rings /\ o.lossy
        /\ Logical(ring') = q
        /\ ring'.openBatch = ring.openBatch /\ ring'.fam = ring.fam
        /\ ring'.drops = Noted(ring.drops, reason, 1)
    BY <2>1, RefusedFacts DEF Outcome
  <2>3. ring'.drops = Queue!NoteDrop(reason, 1)
    <3>1. 1 \in Nat
      OBVIOUS
    <3> QED BY <2>2, <3>1, NoteDropSame
  <2>4. Queue!Sample(TRUE)
    <3>1. o.lossy = TRUE
      BY <2>1 DEF Refused, Outcome
    <3> QED BY <3>1, SampleSame
  <2> QED BY <1>0, <1>1, <1>5, <2>2, <2>3, <2>4 DEF Queue!RefusePlain
<1>6. ring.count < Depth \/ ring.count >= Depth
  BY <1>0
<1> QED BY <1>3, <1>4, <1>5, <1>6

\* A protected frame whose type is queued takes the place of the first of its type.
LEMMA ReplaceSame ==
  ASSUME ring \in Rings, NEW f \in Frames, Queue!Storable(f),
         NEW i \in 0..(ring.count - 1), At(ring, i).frame.type = f.type,
         \A j \in 0..(i - 1) : At(ring, j).frame.type # f.type,
         ring' = CopyInto(NoteDrop(ring, At(ring, i).frame.len, "byReplacedProtected"), i, f, 0),
         Samples!Sample(FALSE), cfg' = cfg
  PROVE  ring' \in Rings /\ Queue!ReplaceProtected(f)
<1> DEFINE q == Logical(ring)
           h == NoteDrop(ring, At(ring, i).frame.len, "byReplacedProtected")
           s == CopyInto(h, i, f, 0)
           slot == Queue!NewSlot(f, 0)
<1>0. /\ ring.count \in Nat /\ ring.count <= Depth /\ Depth \in Nat /\ 0 \in 0..MaxBatch
      /\ i \in 0..Depth /\ i \in Cells
  BY RingTypes, Sizes DEF Cells
<1>1. At(ring, i).frame.len \in Nat
  BY <1>0, AtType, CellFacts
<1>2. h \in Rings /\ SameQueue(ring, h) /\ h.drops = Noted(ring.drops, "byReplacedProtected", 1)
  BY <1>1, Reasons, NoteDropFacts
<1>3. \A l : At(h, l) = At(ring, l)
  BY <1>2, SameLogical DEF SameQueue
<1> HIDE DEF h
<1>4. slot \in CellSlots
  BY <1>0, NewSlotCell
<1>5. /\ s \in Rings /\ SameBooks(h, s) /\ s.count = h.count
      /\ At(s, i) = slot /\ \A k \in Cells \ {i} : At(s, k) = At(h, k)
  BY <1>0, <1>2, <1>4, CopyIntoFacts
<1>6. ring' = s
  BY DEF h
<1> HIDE DEF s
<1>7. /\ s.openBatch = ring.openBatch /\ s.fam = ring.fam /\ s.count = ring.count
      /\ s.drops = Noted(ring.drops, "byReplacedProtected", 1)
  BY <1>2, <1>5 DEF SameBooks, SameQueue
<1>8. q \in Seq(CellSlots) /\ Len(q) = ring.count /\ DOMAIN q = 1..ring.count
      /\ \A k \in 1..ring.count : q[k] = At(ring, k - 1)
  BY LogicalSeq
<1> DEFINE e == [q EXCEPT ![i + 1] = slot]
<1>9. i + 1 \in 1..ring.count /\ (i + 1) - 1 = i
  BY <1>0
<1>10. Logical(s) = e
  <2>1. /\ e \in Seq(CellSlots) /\ Len(e) = Len(q) /\ e[i + 1] = slot
        /\ \A k \in 1..Len(q) : k # i + 1 => e[k] = q[k]
    <3> HIDE DEF q, slot
    <3>1. i + 1 \in 1..Len(q)
      BY <1>8, <1>9
    <3> QED BY <1>4, <1>8, <3>1, ExceptSeq
  <2>2. \A k \in 1..s.count : e[k] = At(s, k - 1)
    <3>1. SUFFICES ASSUME NEW k \in 1..ring.count PROVE e[k] = At(s, k - 1)
      BY <1>7
    <3>2. CASE k = i + 1
      BY <1>5, <1>9, <2>1, <3>2
    <3>3. CASE k # i + 1
      <4>1. k - 1 \in Cells /\ k - 1 # i
        BY <1>0, <3>3 DEF Cells
      <4>2. e[k] = q[k]
        BY <1>8, <2>1, <3>3
      <4>3. At(s, k - 1) = At(ring, k - 1)
        BY <1>3, <1>5, <4>1
      <4> HIDE DEF e, q
      <4> QED BY <1>8, <4>2, <4>3
    <3> QED BY <3>2, <3>3
  <2> HIDE DEF e, q
  <2> QED BY <1>5, <1>7, <1>8, <2>1, <2>2, LogicalEqual
<1>11. /\ q[i + 1].frame.type = f.type
       /\ \A j \in 1..((i + 1) - 1) : q[j].frame.type # f.type
  <2>1. \A j \in 1..((i + 1) - 1) : j \in 1..ring.count /\ j - 1 \in 0..(i - 1)
    BY <1>0
  <2> HIDE DEF q
  <2> QED BY <1>8, <1>9, <2>1
<1>12. ring'.drops = Queue!NoteDrop("byReplacedProtected", 1)
  <2>1. 1 \in Nat
    OBVIOUS
  <2> QED BY <1>6, <1>7, <2>1, Reasons, NoteDropSame
<1>13. Queue!Sample(FALSE)
  BY SampleSame
<1> HIDE DEF e, slot
<1>14. \E k \in DOMAIN q : /\ q[k].frame.type = f.type
                           /\ \A j \in 1..(k - 1) : q[j].frame.type # f.type
                           /\ Logical(ring') = [q EXCEPT ![k] = Queue!NewSlot(f, 0)]
  <2> HIDE DEF q
  <2> QED BY <1>6, <1>8, <1>9, <1>10, <1>11 DEF e, slot
<1>15. Queue!ReplaceProtected(f)
  BY <1>6, <1>7, <1>12, <1>13, <1>14 DEF Queue!ReplaceProtected
<1> QED BY <1>5, <1>6, <1>15

\* pushProtected().
LEMMA ProtectedSame ==
  ASSUME ring \in Rings, NEW f \in Frames, Queue!Storable(f), Queue!IsProtected(f.type),
         NEW o, o = PushProtected(ring, f), ring' = o.ring, Samples!Sample(o.lossy), cfg' = cfg
  PROVE  ring' \in Rings /\ Queue!PushProtected(f)
<1> DEFINE P(i) == At(ring, i).frame.type = f.type
           F == {i \in 0..(ring.count - 1) : P(i) /\ \A j \in 0..(i - 1) : ~ P(j)}
           it == CHOOSE i \in F : TRUE
           roomy == MakeRoom(ring)
           q == Logical(ring)
<1>0. ring.count \in Nat /\ ring.count <= Depth /\ Depth \in Nat
  BY RingTypes, Sizes
<1>1. o = IF F # {}
          THEN Outcome(CopyInto(NoteDrop(ring, At(ring, it).frame.len, "byReplacedProtected"),
                                it, f, 0), FALSE)
          ELSE IF roomy.count < Depth THEN Outcome(PushBack(roomy, f, 0), ring.count >= Depth)
          ELSE Refused(roomy, f, "byProtectedKept")
  BY DEF PushProtected, First
<1>2. CASE F # {}
  <2>1. it \in F
    BY <1>2
  <2> HIDE DEF it, roomy
  <2>2. it \in 0..(ring.count - 1) /\ P(it) /\ \A j \in 0..(it - 1) : ~ P(j)
    BY <2>1
  <2> HIDE DEF F
  <2>3. /\ o.ring = CopyInto(NoteDrop(ring, At(ring, it).frame.len, "byReplacedProtected"), it, f, 0)
        /\ o.lossy = FALSE
    BY <1>1, <1>2 DEF Outcome
  <2>4. ring' \in Rings /\ Queue!ReplaceProtected(f)
    BY <2>2, <2>3, ReplaceSame
  <2> QED BY <2>4 DEF Queue!PushProtected
<1>3. CASE F = {}
  <2>1. ~ Queue!IsQueued(f.type)
    <3> DEFINE S == {i \in 1..ring.count : P(i - 1)}
               m == Queue!Min(S)
    <3>1. S = {}
      <4>1. SUFFICES ASSUME S # {} PROVE FALSE
        OBVIOUS
      <4>2. S \subseteq Nat
        BY <1>0
      <4>3. m \in S /\ \A x \in S : m <= x
        BY <4>1, <4>2, MinOfNats
      <4> HIDE DEF m
      <4>4. m \in 1..ring.count /\ P(m - 1)
        BY <4>3
      <4>5. ASSUME NEW j \in 0..((m - 1) - 1) PROVE ~ P(j)
        <5>1. j + 1 \in 1..ring.count /\ (j + 1) - 1 = j /\ ~ (m <= j + 1)
          BY <1>0, <4>4
        <5> HIDE DEF P
        <5> QED BY <4>3, <5>1
      <4>6. m - 1 \in 0..(ring.count - 1)
        BY <1>0, <4>4
      <4> QED BY <1>3, <4>4, <4>5, <4>6
    <3>2. DOMAIN q = 1..ring.count /\ \A i \in 1..ring.count : q[i] = At(ring, i - 1)
      BY LogicalSeq
    <3> QED BY <3>1, <3>2 DEF Queue!IsQueued
  <2>2. roomy = IF ring.count >= Depth /\ Victim(ring) # 0
                THEN DropBatch(ring, Victim(ring)) ELSE ring
    BY MakeRoomFacts
  <2>3. ring.count >= Depth /\ Victim(ring) # 0 => DropBatch(ring, Victim(ring)).count < Depth
    <3>1. ring.count >= Depth /\ Victim(ring) # 0
            => DropBatch(ring, Victim(ring)).count < ring.count /\ DropBatch(ring, Victim(ring)) \in Rings
      BY VictimSame, DropBatchFacts
    <3> QED BY <1>0, <3>1, RingTypes
  <2> HIDE DEF F, roomy
  <2>4. o = IF ring.count < Depth THEN Outcome(PushBack(ring, f, 0), FALSE)
            ELSE IF Victim(ring) # 0
                 THEN Outcome(PushBack(DropBatch(ring, Victim(ring)), f, 0), TRUE)
            ELSE Refused(ring, f, "byProtectedKept")
    <3>1. CASE ring.count < Depth
      <4>1. roomy = ring /\ (ring.count >= Depth) = FALSE
        BY <1>0, <2>2, <3>1
      <4> QED BY <1>1, <1>3, <3>1, <4>1 DEF Outcome
    <3>2. CASE ring.count >= Depth /\ Victim(ring) # 0
      <4>1. roomy = DropBatch(ring, Victim(ring)) /\ (ring.count >= Depth) = TRUE /\ ~ (ring.count < Depth)
        BY <1>0, <2>2, <3>2
      <4> QED BY <1>1, <1>3, <2>3, <3>2, <4>1 DEF Outcome
    <3>3. CASE ring.count >= Depth /\ Victim(ring) = 0
      <4>1. roomy = ring /\ ~ (ring.count < Depth)
        BY <1>0, <2>2, <3>3
      <4> QED BY <1>1, <1>3, <3>3, <4>1 DEF Outcome
    <3>4. ring.count < Depth \/ ring.count >= Depth
      BY <1>0
    <3> QED BY <3>1, <3>2, <3>3, <3>4
  <2>5. /\ ring' \in Rings
        /\ Queue!StorePlain(f) \/ Queue!EvictForPlain(f) \/ Queue!RefusePlain("byProtectedKept")
    BY <2>4, Reasons, PlainSame
  <2> QED BY <2>1, <2>5 DEF Queue!PushProtected
<1> QED BY <1>2, <1>3

\* The end of push() for a frame of no epoch.
LEMMA OtherSame ==
  ASSUME ring \in Rings, NEW f \in Frames, Queue!Storable(f),
         ~ Queue!IsProtected(f.type), ~ Queue!IsMsm(f.type),
         NEW o, o = PushOther(ring, f), ring' = o.ring, Samples!Sample(o.lossy), cfg' = cfg
  PROVE  ring' \in Rings /\ Queue!PushOther(f)
<1> DEFINE v == Victim(ring)
           d == DropBatch(ring, v)
<1>0. ring.count \in Nat /\ ring.count <= Depth /\ Depth \in Nat
  BY RingTypes, Sizes
<1>1. v # 0 => d.count < ring.count /\ d \in Rings
  BY VictimSame, DropBatchFacts
<1>2. v = 0 => d = ring
  BY DEF DropBatch
<1>3. d.count < Depth <=> (v # 0 \/ ring.count < Depth)
  <2>1. CASE v # 0
    <3>1. d.count \in Nat /\ d.count < ring.count
      BY <1>1, <2>1, RingTypes
    <3> HIDE DEF d
    <3> QED BY <1>0, <2>1, <3>1
  <2>2. CASE v = 0
    BY <1>2, <2>2
  <2> QED BY <2>1, <2>2
<1>4. o = IF ring.count < Depth THEN Outcome(PushBack(ring, f, 0), FALSE)
          ELSE IF d.count < Depth THEN Outcome(PushBack(d, f, 0), TRUE)
          ELSE Refused(d, f, "byQueueFull")
  BY DEF PushOther
<1> HIDE DEF v, d
<1>5. o = IF ring.count < Depth THEN Outcome(PushBack(ring, f, 0), FALSE)
          ELSE IF v # 0 THEN Outcome(PushBack(d, f, 0), TRUE)
          ELSE Refused(ring, f, "byQueueFull")
  BY <1>2, <1>3, <1>4 DEF Outcome
<1>6. /\ ring' \in Rings
      /\ Queue!StorePlain(f) \/ Queue!EvictForPlain(f) \/ Queue!RefusePlain("byQueueFull")
  BY <1>5, Reasons, PlainSame DEF v, d
<1> QED BY <1>6 DEF Queue!PushOther

\* push() of an MSM frame.
LEMMA MsmSame ==
  ASSUME ring \in Rings, NEW f \in Frames, Queue!Storable(f), Queue!IsMsm(f.type),
         NEW o, o = PushMsm(ring, f), ring' = o.ring, Samples!Sample(o.lossy), cfg' = cfg
  PROVE  ring' \in Rings /\ Queue!PushMsm(f)
<1> DEFINE a == AssignBatch(ring, f)
           batch == a.openBatch
           older == OldestMsmBatch(a, TRUE)
           d == DropBatch(a, older)
           q == Logical(ring)
           fam == Queue!AssignedFam(f)
<1>0. /\ ring.count \in Nat /\ ring.count <= Depth /\ Depth \in Nat /\ Len(q) = ring.count
      /\ TRUE \in BOOLEAN /\ 1 \in Nat
  BY RingTypes, Sizes, LogicalSeq
<1>1. /\ a \in Rings /\ a.count = ring.count /\ a.drops = ring.drops
      /\ \A l : At(a, l) = At(ring, l)
      /\ Logical(a) = q /\ batch = Queue!AssignedBatch(f) /\ a.fam = fam
  BY AssignFacts
<1>2. o = IF a.count < Depth THEN Outcome(PushBack(a, f, batch), FALSE)
          ELSE IF older # 0 /\ d.count < Depth THEN Outcome(PushBack(d, f, batch), TRUE)
          ELSE IF HasBatch(d, batch) THEN Refused(DropBatch(d, batch), f, "byMsmEpoch")
          ELSE Refused(d, f, "byQueueFull")
  BY DEF PushMsm
<1> HIDE DEF a, fam
<1>3. batch \in 1..MaxBatch /\ batch \in 0..MaxBatch /\ batch \in Nat /\ batch # 0
  BY <1>1, RingTypes, Sizes
<1>4. /\ older = Queue!OldestMsmBatch(q, batch, TRUE) /\ older \in Nat
      /\ older # 0 => \E i \in 1..a.count : At(a, i - 1).batchId = older
      /\ older # 0 => older # batch
  BY <1>0, <1>1, OldestSame
<1>5. Queue!NewSlot(f, batch) \in CellSlots
  BY <1>3, NewSlotCell
<1> HIDE DEF q, older, d, batch
<1>6. CASE a.count < Depth
  <2>1. o.ring = PushBack(a, f, batch) /\ o.lossy = FALSE
    BY <1>2, <1>6 DEF Outcome
  <2>2. /\ ring' \in Rings /\ SameBooks(a, ring')
        /\ Logical(ring') = Append(q, Queue!NewSlot(f, batch))
    BY <1>1, <1>5, <1>6, <2>1, PushBackFacts
  <2>3. Queue!Sample(FALSE)
    BY <2>1, SampleSame
  <2>4. ring'.openBatch = batch /\ ring'.fam = fam /\ ring'.drops = ring.drops
    BY <1>1, <2>2 DEF SameBooks, batch
  <2>5. Queue!StoreMsm(f)
    BY <1>0, <1>1, <1>6, <2>2, <2>3, <2>4 DEF Queue!StoreMsm, q, fam
  <2> QED BY <2>2, <2>5 DEF Queue!PushMsm
<1>7. CASE a.count >= Depth /\ older # 0
  <2> DEFINE s == PushBack(d, f, batch)
             gone == Cardinality(Queue!SlotsOf(q, older))
  <2>1. /\ d.count < Depth /\ s \in Rings
        /\ Logical(s) = Append(Queue!Without(q, older), Queue!NewSlot(f, batch))
        /\ gone \in Nat /\ s.drops = Noted(ring.drops, "byMsmEpoch", gone)
        /\ s.openBatch = batch /\ s.fam = fam
    <3>1. \E i \in 1..a.count : At(a, i - 1).batchId = older
      BY <1>4, <1>7
    <3>2. /\ d.count < Depth /\ s \in Rings
          /\ Logical(s) = Append(Queue!Without(Logical(a), older), Queue!NewSlot(f, batch))
          /\ Cardinality(Queue!SlotsOf(Logical(a), older)) \in Nat
          /\ s.drops = Noted(a.drops, "byMsmEpoch", Cardinality(Queue!SlotsOf(Logical(a), older)))
          /\ s.openBatch = IF older = a.openBatch THEN Queue!NextBatch(older) ELSE a.openBatch
          /\ s.fam = IF older = a.openBatch THEN {} ELSE a.fam
      <4>1. a \in Rings /\ older \in Nat /\ older # 0 /\ batch \in 0..MaxBatch
        BY <1>1, <1>3, <1>4, <1>7
      <4> QED BY <3>1, <4>1, EvictedAppend DEF d
    <3>3. older # a.openBatch /\ a.openBatch = batch
      BY <1>4, <1>7 DEF batch
    <3> HIDE DEF s
    <3> QED BY <1>1, <3>2, <3>3
  <2>2. o.ring = s /\ o.lossy = TRUE
    BY <1>0, <1>1, <1>2, <1>7, <2>1 DEF Outcome
  <2> HIDE DEF s
  <2>3. ring'.drops = Queue!NoteDrop("byMsmEpoch", Queue!Cardinality(Queue!SlotsOf(q, older)))
    <3>1. Queue!Cardinality(Queue!SlotsOf(q, older)) = gone
      BY SameOperators
    <3> QED BY <2>1, <2>2, <3>1, Reasons, NoteDropSame
  <2>4. Queue!Sample(TRUE)
    BY <2>2, SampleSame
  <2>5. Queue!EvictForMsm(f)
    BY <1>0, <1>1, <1>4, <1>7, <2>1, <2>2, <2>3, <2>4 DEF Queue!EvictForMsm, q, fam
  <2> QED BY <2>1, <2>2, <2>5 DEF Queue!PushMsm
<1>8. CASE a.count >= Depth /\ older = 0
  <2>1. d = a
    BY <1>8 DEF d, DropBatch
  <2>2. HasBatch(a, batch) <=> Queue!HasBatch(q, batch)
    BY <1>1, HasBatchSame
  <2>3. o = IF HasBatch(a, batch) THEN Refused(DropBatch(a, batch), f, "byMsmEpoch")
            ELSE Refused(a, f, "byQueueFull")
    BY <1>0, <1>1, <1>2, <1>8, <2>1 DEF Outcome
  <2>4. Queue!Sample(TRUE)
    <3>1. o.lossy = TRUE
      BY <2>3 DEF Refused, Outcome
    <3> QED BY <3>1, SampleSame
  <2>5. CASE HasBatch(a, batch)
    <3> DEFINE c == DropBatch(a, batch)
               gone == Cardinality(Queue!SlotsOf(q, batch))
    <3>1. \E i \in 1..a.count : At(a, i - 1).batchId = batch
      <4>1. PICK i \in 0..(a.count - 1) : At(a, i).batchId = batch
        BY <2>5 DEF HasBatch
      <4>2. i + 1 \in 1..a.count /\ (i + 1) - 1 = i
        BY <1>0, <1>1, <4>1
      <4> QED BY <4>1, <4>2
    <3>2. /\ c \in Rings /\ Logical(c) = Queue!Without(q, batch)
          /\ gone \in Nat /\ c.drops = Noted(ring.drops, "byMsmEpoch", gone)
          /\ c.openBatch = Queue!NextBatch(batch) /\ c.fam = {}
      BY <1>1, <1>3, <3>1, DropBatchFacts DEF batch
    <3> HIDE DEF c, gone
    <3>3. /\ ring' \in Rings /\ Logical(ring') = Logical(c)
          /\ ring'.openBatch = c.openBatch /\ ring'.fam = c.fam
          /\ ring'.drops = Noted(c.drops, "byMsmEpoch", 1)
      BY <2>3, <2>5, <3>2, Reasons, RefusedFacts DEF c
    <3>4. Noted(Noted(ring.drops, "byMsmEpoch", gone), "byMsmEpoch", 1)
            = Noted(ring.drops, "byMsmEpoch", gone + 1)
      <4>1. ring.drops \in [Queue!DropFields -> Counts] /\ "byMsmEpoch" \in Queue!DropReasons
        BY Reasons, RingTypes
      <4>2. gone \in Nat /\ 1 \in Nat
        BY <3>2
      <4> QED BY <4>1, <4>2, NotedTwice
    <3>5. ring'.drops = Queue!NoteDrop("byMsmEpoch", Queue!Cardinality(Queue!SlotsOf(q, batch)) + 1)
      <4>1. Queue!Cardinality(Queue!SlotsOf(q, batch)) = gone
        BY SameOperators DEF gone
      <4>2. gone + 1 \in Nat
        BY <3>2
      <4>3. Queue!NoteDrop("byMsmEpoch", gone + 1) = Noted(ring.drops, "byMsmEpoch", gone + 1)
        BY <4>2, Reasons, NoteDropSame
      <4> QED BY <3>2, <3>3, <3>4, <4>1, <4>3
    <3>6. Queue!DropOpenEpoch(f)
      BY <1>0, <1>1, <1>4, <1>8, <2>2, <2>4, <2>5, <3>2, <3>3, <3>5 DEF Queue!DropOpenEpoch, q
    <3> QED BY <3>3, <3>6 DEF Queue!PushMsm
  <2>6. CASE ~ HasBatch(a, batch)
    <3>1. /\ ring' \in Rings /\ Logical(ring') = q
          /\ ring'.openBatch = batch /\ ring'.fam = fam
          /\ ring'.drops = Noted(ring.drops, "byQueueFull", 1)
      BY <1>1, <2>3, <2>6, Reasons, RefusedFacts DEF batch
    <3>2. ring'.drops = Queue!NoteDrop("byQueueFull", 1)
      BY <1>0, <3>1, Reasons, NoteDropSame
    <3>3. Queue!RefuseMsm(f)
      BY <1>0, <1>1, <1>4, <1>8, <2>2, <2>4, <2>6, <3>1, <3>2 DEF Queue!RefuseMsm, q, fam
    <3> QED BY <3>1, <3>3 DEF Queue!PushMsm
  <2> QED BY <2>5, <2>6
<1>9. a.count < Depth \/ a.count >= Depth
  BY <1>0, <1>1
<1> QED BY <1>6, <1>7, <1>8, <1>9

\* push() of any frame.
LEMMA PushSame ==
  ASSUME ring \in Rings, NEW f \in Frames, Push(f)
  PROVE  ring' \in Rings /\ Queue!Push(f)
<1> DEFINE o == Pushed(ring, f)
<1>1. ring' = o.ring /\ Samples!Sample(o.lossy) /\ cfg' = cfg
  BY DEF Push
<1>2. CASE ~ Queue!Storable(f)
  <2>1. o = Refused(ring, f, "byOversize")
    BY <1>2 DEF Pushed
  <2>2. /\ ring' \in Rings /\ Logical(ring') = Logical(ring)
        /\ ring'.openBatch = ring.openBatch /\ ring'.fam = ring.fam
        /\ ring'.drops = Noted(ring.drops, "byOversize", 1)
    BY <1>1, <2>1, Reasons, RefusedFacts
  <2>3. ring'.drops = Queue!NoteDrop("byOversize", 1)
    <3>1. 1 \in Nat
      OBVIOUS
    <3> QED BY <2>2, <3>1, Reasons, NoteDropSame
  <2>4. Queue!Sample(TRUE)
    <3>1. o.lossy = TRUE
      BY <2>1 DEF Refused, Outcome
    <3> QED BY <1>1, <3>1, SampleSame
  <2>5. Queue!PushOversize(f)
    BY <1>1, <1>2, <2>2, <2>3, <2>4 DEF Queue!PushOversize
  <2> QED BY <2>2, <2>5 DEF Queue!Push
<1>3. CASE Queue!Storable(f) /\ Queue!IsProtected(f.type)
  <2>1. o = PushProtected(ring, f)
    BY <1>3 DEF Pushed
  <2> HIDE DEF o
  <2>2. ring' \in Rings /\ Queue!PushProtected(f)
    BY <1>1, <1>3, <2>1, ProtectedSame
  <2> QED BY <2>2 DEF Queue!Push
<1>4. CASE Queue!Storable(f) /\ ~ Queue!IsProtected(f.type) /\ Queue!IsMsm(f.type)
  <2>1. o = PushMsm(ring, f)
    BY <1>4 DEF Pushed
  <2> HIDE DEF o
  <2>2. ring' \in Rings /\ Queue!PushMsm(f)
    BY <1>1, <1>4, <2>1, MsmSame
  <2> QED BY <2>2 DEF Queue!Push
<1>5. CASE Queue!Storable(f) /\ ~ Queue!IsProtected(f.type) /\ ~ Queue!IsMsm(f.type)
  <2>1. o = PushOther(ring, f)
    BY <1>5 DEF Pushed
  <2> HIDE DEF o
  <2>2. ring' \in Rings /\ Queue!PushOther(f)
    BY <1>1, <1>5, <2>1, OtherSame
  <2> QED BY <2>2 DEF Queue!Push
<1> QED BY <1>2, <1>3, <1>4, <1>5

-----------------------------------------------------------------------------
(* The ring takes the steps of the sequence                                  *)

\* pull(): the head moves on by one.
LEMMA PullFacts ==
  ASSUME NEW r \in Rings, r.count > 0, NEW s,
         s = [r EXCEPT !.head = (r.head + 1) % Depth, !.count = r.count - 1]
  PROVE  /\ s \in Rings /\ Logical(s) = Tail(Logical(r))
         /\ s.openBatch = r.openBatch /\ s.fam = r.fam /\ s.drops = r.drops
         /\ Logical(r) # <<>> /\ Head(Logical(r)) = At(r, 0)
<1> DEFINE q == Logical(r)
           h == (r.head + 1) % Depth
           n == r.count
<1>0. n \in Nat /\ n >= 1 /\ n <= Depth /\ Depth \in Nat \ {0} /\ r.head \in Nat
  BY RingTypes, Sizes DEF Cells
<1>1. h \in Cells
  BY <1>0, ModRange DEF Cells
<1>2. n - 1 \in 0..Depth
  BY <1>0
<1>3. s = [r EXCEPT !.head = h, !.count = n - 1]
  OBVIOUS
<1>4. \A l \in Nat : (h + l) % Depth = IndexOf(r, l + 1)
  <2>1. SUFFICES ASSUME NEW l \in Nat PROVE (h + l) % Depth = IndexOf(r, l + 1)
    OBVIOUS
  <2> DEFINE x == r.head + 1
             M == Depth
  <2>2. x \in Int /\ M \in Nat \ {0} /\ l \in Int /\ x + l = r.head + (l + 1)
    BY <1>0
  <2> HIDE DEF x, M
  <2>3. ((x % M) + l) % M = (x + l) % M
    BY <2>2, ModAdd
  <2> QED BY <2>2, <2>3 DEF x, M, IndexOf
<1> HIDE DEF h
<1>5. /\ s \in Rings /\ s.head = h /\ s.count = n - 1 /\ s.slots = r.slots
      /\ s.openBatch = r.openBatch /\ s.fam = r.fam /\ s.drops = r.drops
  BY <1>1, <1>2, <1>3 DEF Rings
<1>6. q \in Seq(CellSlots) /\ Len(q) = n /\ \A i \in 1..n : q[i] = At(r, i - 1)
  BY LogicalSeq
<1> HIDE DEF q, n
<1>7. q # <<>> /\ Head(q) = At(r, 0)
  <2>1. q # <<>> /\ Head(q) = q[1] /\ 1 \in 1..n /\ 1 - 1 = 0
    BY <1>0, <1>6
  <2> QED BY <1>6, <2>1
<1>8. /\ Tail(q) \in Seq(CellSlots) /\ Len(Tail(q)) = n - 1
      /\ \A i \in 1..(n - 1) : Tail(q)[i] = q[i + 1]
  BY <1>0, <1>6, <1>7, HeadTailProperties
<1>9. \A i \in 1..(n - 1) : Tail(q)[i] = At(s, i - 1)
  <2>1. SUFFICES ASSUME NEW i \in 1..(n - 1) PROVE Tail(q)[i] = At(s, i - 1)
    OBVIOUS
  <2>2. i + 1 \in 1..n /\ (i + 1) - 1 = (i - 1) + 1 /\ i - 1 \in Nat
    BY <1>0
  <2>3. q[i + 1] = At(r, (i - 1) + 1)
    BY <1>6, <2>2
  <2>4. At(s, i - 1) = At(r, (i - 1) + 1)
    BY <1>4, <1>5, <2>2 DEF At, IndexOf
  <2> QED BY <1>8, <2>3, <2>4
<1>10. Logical(s) = Tail(q)
  BY <1>5, <1>8, <1>9, LogicalEqual
<1> QED BY <1>5, <1>7, <1>10 DEF q

\* An empty ring stands for the empty sequence.
LEMMA EmptyLogical ==
  ASSUME NEW r, r.count = 0
  PROVE  Logical(r) = <<>>
BY DEF Logical

\* The first state is the first state of the queue.
LEMMA InitSame == Init => ring \in Rings /\ Queue!Init
<1>1. SUFFICES ASSUME Init PROVE ring \in Rings /\ Queue!Init
  OBVIOUS
<1>2. /\ EmptySlot \in CellSlots /\ 0 \in Cells /\ 0 \in 0..Depth /\ 1 \in 1..MaxBatch
      /\ 0 \in Counts /\ 0 \in 0..(ByteMod - 1) /\ {} \in SUBSET Entries
  BY Sizes DEF CellSlots, Cells, Counts
<1>3. ring \in Rings
  BY <1>1, <1>2 DEF Init, Rings, Cells
<1>4. ring.count = 0 /\ ring.openBatch = 1 /\ ring.fam = {}
      /\ ring.drops = [x \in Queue!DropFields |-> 0]
  BY <1>1 DEF Init
<1>5. window = <<>> /\ cfg = DefaultConfig
  BY <1>1 DEF Init, Samples!InitWindow
<1>6. Logical(ring) = <<>>
  BY <1>4, EmptyLogical
<1> QED BY <1>3, <1>4, <1>5, <1>6 DEF Queue!Init

\* Every step is a step of the queue, or changes nothing of it.
LEMMA StepSame == ring \in Rings /\ [Next]_vars => ring' \in Rings /\ [Queue!Next]_Queue!vars
<1>1. SUFFICES ASSUME ring \in Rings, [Next]_vars
               PROVE  ring' \in Rings /\ [Queue!Next]_Queue!vars
  OBVIOUS
<1> DEFINE Goal == ring' \in Rings /\ [Queue!Next]_Queue!vars
<1>2. ASSUME NEW f \in Frames, Push(f) PROVE Goal
  BY <1>1, <1>2, PushSame DEF Queue!Next
<1>3. ASSUME NEW w \in Writable, Pull(w) PROVE Goal
  <2>1. /\ ring' = [ring EXCEPT !.head = (ring.head + 1) % Depth, !.count = ring.count - 1]
        /\ ring.count > 0 /\ At(ring, 0).frame.len <= w /\ window' = window /\ cfg' = cfg
    BY <1>3 DEF Pull
  <2>2. /\ ring' \in Rings /\ Logical(ring') = Tail(Logical(ring))
        /\ ring'.openBatch = ring.openBatch /\ ring'.fam = ring.fam /\ ring'.drops = ring.drops
        /\ Logical(ring) # <<>> /\ Head(Logical(ring)) = At(ring, 0)
    BY <1>1, <2>1, PullFacts
  <2>3. Queue!Pull(w)
    BY <2>1, <2>2 DEF Queue!Pull
  <2> QED BY <2>2, <2>3 DEF Queue!Next
<1>4. ASSUME Clear PROVE Goal
  <2>1. /\ ring' = [ring EXCEPT !.count = 0, !.head = 0, !.openBatch = 1, !.fam = {}]
        /\ window' = window /\ cfg' = cfg
    BY <1>4 DEF Clear
  <2>2. /\ ring' \in Rings /\ ring'.count = 0 /\ ring'.openBatch = 1 /\ ring'.fam = {}
        /\ ring'.drops = ring.drops
    <3>1. 0 \in Cells /\ 0 \in 0..Depth /\ 1 \in 1..MaxBatch /\ {} \in SUBSET Entries
      BY Sizes DEF Cells
    <3> QED BY <1>1, <2>1, <3>1 DEF Rings
  <2>3. Queue!Clear
    BY <2>1, <2>2, EmptyLogical DEF Queue!Clear
  <2> QED BY <2>2, <2>3 DEF Queue!Next
<1>5. ASSUME ResetDrops PROVE Goal
  <2>1. /\ ring' = [ring EXCEPT !.drops = [x \in Queue!DropFields |-> 0], !.bytes = 0]
        /\ window' = window /\ cfg' = cfg
    BY <1>5 DEF ResetDrops
  <2>2. /\ ring' \in Rings /\ ring'.openBatch = ring.openBatch /\ ring'.fam = ring.fam
        /\ ring'.drops = [x \in Queue!DropFields |-> 0]
        /\ ring'.slots = ring.slots /\ ring'.head = ring.head /\ ring'.count = ring.count
    <3>1. 0 \in Counts /\ 0 \in 0..(ByteMod - 1)
      BY Sizes DEF Counts
    <3> QED BY <1>1, <2>1, <3>1 DEF Rings
  <2>3. Logical(ring') = Logical(ring)
    BY <2>2, SameLogical
  <2>4. Queue!ResetDrops
    BY <2>1, <2>2, <2>3 DEF Queue!ResetDrops
  <2> QED BY <2>2, <2>4 DEF Queue!Next
<1>6. ASSUME ClearUnhealthy PROVE Goal
  <2>1. ring' = ring /\ window' = <<>> /\ cfg' = cfg
    BY <1>6 DEF ClearUnhealthy, Samples!EmptyWindow
  <2>2. Queue!ClearUnhealthy
    BY <2>1 DEF Queue!ClearUnhealthy
  <2> QED BY <1>1, <2>1, <2>2 DEF Queue!Next
<1>7. ASSUME NEW c \in Configs, SetConfig(c) PROVE Goal
  <2>1. ring' = ring /\ window' = <<>> /\ cfg' = Queue!Normalised(c)
    BY <1>7 DEF SetConfig, Samples!EmptyWindow
  <2>2. Queue!SetConfig(c)
    BY <2>1 DEF Queue!SetConfig
  <2> QED BY <1>1, <2>1, <2>2 DEF Queue!Next
<1>8. CASE UNCHANGED vars
  <2>1. ring' = ring /\ window' = window /\ cfg' = cfg
    BY <1>8 DEF vars
  <2> QED BY <1>1, <2>1 DEF Queue!vars
<1> QED BY <1>1, <1>2, <1>3, <1>4, <1>5, <1>6, <1>7, <1>8 DEF Next

\* Every member of the object keeps its type: no index, count or counter leaves its range.
THEOREM RingTyped == Spec => [](ring \in Rings)
<1>1. Init => ring \in Rings
  BY InitSame
<1>2. ring \in Rings /\ [Next]_vars => (ring \in Rings)'
  BY StepSame
<1> QED BY <1>1, <1>2, PTL DEF Spec

\* The ring with its shifting, its scans, its copies and its loops takes exactly the
\* steps of the sequence of FrameQueue, whatever the depth, the frames and the batches.
THEOREM RingRefines == Spec => RefinesQueue
<1>1. Init => ring \in Rings /\ Queue!Init
  BY InitSame
<1>2. ring \in Rings /\ [Next]_vars => (ring \in Rings)' /\ [Queue!Next]_Queue!vars
  BY StepSame
<1> QED BY <1>1, <1>2, PTL DEF Spec, RefinesQueue, Queue!Spec

-----------------------------------------------------------------------------
(* What is proved of the queue holds of the ring                             *)

\* The operators of the two instances of FrameQueue are the same: what is read from a
\* frame,
LEMMA SameFrameOperators ==
  /\ Queue!DropFields = QP!DropFields
  /\ \A f : /\ Queue!Storable(f) <=> QP!Storable(f)
            /\ Queue!Family(f) = QP!Family(f)
            /\ Queue!MsmEpoch30(f) = QP!MsmEpoch30(f)
            /\ Queue!FamEntry(f) = QP!FamEntry(f)
  /\ \A t : /\ Queue!IsProtected(t) <=> QP!IsProtected(t)
            /\ Queue!IsMsm(t) <=> QP!IsMsm(t)
  /\ \A f, b : Queue!NewSlot(f, b) = QP!NewSlot(f, b)
BY DEF Queue!DropFields, QP!DropFields, Queue!DropReasons, QP!DropReasons, Queue!Storable,
QP!Storable, Queue!Family, QP!Family, Queue!MsmEpoch30, QP!MsmEpoch30, Queue!FamEntry,
QP!FamEntry, Queue!IsProtected, QP!IsProtected, Queue!IsMsm, QP!IsMsm, Queue!NewSlot,
QP!NewSlot

\* the searches,
LEMMA SameSearches ==
  /\ \A q, b : Queue!SlotsOf(q, b) = QP!SlotsOf(q, b)
  /\ \A q, b : Queue!HasBatch(q, b) <=> QP!HasBatch(q, b)
  /\ \A q, open, closed : Queue!OldestMsmBatch(q, open, closed) = QP!OldestMsmBatch(q, open, closed)
  /\ \A q, open : Queue!VictimBatch(q, open) = QP!VictimBatch(q, open)
  /\ \A q, b : Queue!Without(q, b) = QP!Without(q, b)
<1>1. ASSUME NEW q, NEW b PROVE Queue!SlotsOf(q, b) = QP!SlotsOf(q, b)
  BY DEF Queue!SlotsOf, QP!SlotsOf
<1>2. ASSUME NEW q, NEW b PROVE Queue!HasBatch(q, b) <=> QP!HasBatch(q, b)
  BY <1>1 DEF Queue!HasBatch, QP!HasBatch
<1>3. ASSUME NEW q, NEW open, NEW closed
      PROVE  Queue!OldestMsmBatch(q, open, closed) = QP!OldestMsmBatch(q, open, closed)
  BY DEF Queue!OldestMsmBatch, QP!OldestMsmBatch, Queue!Evictable, QP!Evictable, Queue!Min,
  QP!Min
<1>4. ASSUME NEW q, NEW open PROVE Queue!VictimBatch(q, open) = QP!VictimBatch(q, open)
  BY <1>3 DEF Queue!VictimBatch, QP!VictimBatch
<1>5. ASSUME NEW q, NEW b PROVE Queue!Without(q, b) = QP!Without(q, b)
  BY DEF Queue!Without, QP!Without, Queue!Kept, QP!Kept, Queue!SlotsOf, QP!SlotsOf,
  Queue!Rank, QP!Rank, Queue!Cardinality, QP!Cardinality
<1> QED BY <1>1, <1>2, <1>3, <1>4, <1>5

\* and what push() does with them.
LEMMA SameAssignments ==
  /\ \A b : Queue!NextBatch(b) = QP!NextBatch(b)
  /\ \A f : /\ Queue!AssignedBatch(f) = QP!AssignedBatch(f)
            /\ Queue!AssignedFam(f) = QP!AssignedFam(f)
  /\ \A reason, n : Queue!NoteDrop(reason, n) = QP!NoteDrop(reason, n)
  /\ \A drop : Queue!Sample(drop) <=> QP!Sample(drop)
<1>1. \A b : Queue!NextBatch(b) = QP!NextBatch(b)
  BY DEF Queue!NextBatch, QP!NextBatch
<1>2. ASSUME NEW f
      PROVE  Queue!AssignedBatch(f) = QP!AssignedBatch(f) /\ Queue!AssignedFam(f) = QP!AssignedFam(f)
  <2>1. Queue!ClosesOpenBatch(f) <=> QP!ClosesOpenBatch(f)
    BY SameOperators, SameFrameOperators DEF Queue!ClosesOpenBatch, QP!ClosesOpenBatch
  <2> QED
    BY <1>1, <2>1, SameFrameOperators DEF Queue!AssignedBatch, QP!AssignedBatch,
    Queue!AssignedFam, QP!AssignedFam
<1>3. ASSUME NEW reason, NEW n PROVE Queue!NoteDrop(reason, n) = QP!NoteDrop(reason, n)
  BY DEF Queue!NoteDrop, QP!NoteDrop
<1>4. ASSUME NEW drop PROVE Queue!Sample(drop) <=> QP!Sample(drop)
  BY DEF Queue!Sample, QP!Sample
<1> QED BY <1>1, <1>2, <1>3, <1>4

\* The two instances of push().
LEMMA SamePush == ASSUME NEW f PROVE Queue!Push(f) <=> QP!Push(f)
<1>1. Queue!PushOversize(f) <=> QP!PushOversize(f)
  BY SameOperators, SameFrameOperators, SameSearches, SameAssignments DEF Queue!PushOversize,
  QP!PushOversize
<1>2. Queue!ReplaceProtected(f) <=> QP!ReplaceProtected(f)
  BY SameOperators, SameFrameOperators, SameSearches, SameAssignments DEF
  Queue!ReplaceProtected, QP!ReplaceProtected
<1>3. Queue!StorePlain(f) <=> QP!StorePlain(f)
  BY SameOperators, SameFrameOperators, SameSearches, SameAssignments DEF Queue!StorePlain,
  QP!StorePlain
<1>4. Queue!EvictForPlain(f) <=> QP!EvictForPlain(f)
  BY SameOperators, SameFrameOperators, SameSearches, SameAssignments DEF
  Queue!EvictForPlain, QP!EvictForPlain
<1>5. Queue!StoreMsm(f) <=> QP!StoreMsm(f)
  BY SameOperators, SameFrameOperators, SameSearches, SameAssignments DEF Queue!StoreMsm,
  QP!StoreMsm
<1>6. Queue!EvictForMsm(f) <=> QP!EvictForMsm(f)
  BY SameOperators, SameFrameOperators, SameSearches, SameAssignments DEF Queue!EvictForMsm,
  QP!EvictForMsm
<1>7. Queue!DropOpenEpoch(f) <=> QP!DropOpenEpoch(f)
  BY SameOperators, SameFrameOperators, SameSearches, SameAssignments DEF
  Queue!DropOpenEpoch, QP!DropOpenEpoch
<1>8. Queue!RefuseMsm(f) <=> QP!RefuseMsm(f)
  BY SameOperators, SameFrameOperators, SameSearches, SameAssignments DEF Queue!RefuseMsm,
  QP!RefuseMsm
<1>9. \A reason : Queue!RefusePlain(reason) <=> QP!RefusePlain(reason)
  BY SameOperators, SameFrameOperators, SameSearches, SameAssignments DEF Queue!RefusePlain,
  QP!RefusePlain
<1>10. Queue!IsQueued(f.type) <=> QP!IsQueued(f.type)
  BY DEF Queue!IsQueued, QP!IsQueued
<1>11. Queue!PushProtected(f) <=> QP!PushProtected(f)
  BY SameFrameOperators, <1>2, <1>3, <1>4, <1>9, <1>10 DEF Queue!PushProtected,
  QP!PushProtected
<1>12. Queue!PushMsm(f) <=> QP!PushMsm(f)
  BY SameFrameOperators, <1>5, <1>6, <1>7, <1>8 DEF Queue!PushMsm, QP!PushMsm
<1>13. Queue!PushOther(f) <=> QP!PushOther(f)
  BY SameFrameOperators, <1>3, <1>4, <1>9 DEF Queue!PushOther, QP!PushOther
<1> QED
  BY <1>1, <1>11, <1>12, <1>13 DEF Queue!Push, QP!Push

\* The two instances of the specification.
LEMMA SameSpec == Queue!Spec <=> QP!Spec
<1>1. Queue!Init <=> QP!Init
  BY DEF Queue!Init, QP!Init, Queue!DropFields, QP!DropFields, Queue!DropReasons,
  QP!DropReasons
<1>2. Queue!vars = QP!vars
  BY DEF Queue!vars, QP!vars
<1>3. Queue!Next <=> QP!Next
  <2>1. \A w : Queue!Pull(w) <=> QP!Pull(w)
    BY DEF Queue!Pull, QP!Pull
  <2>2. Queue!Clear <=> QP!Clear
    BY DEF Queue!Clear, QP!Clear
  <2>3. Queue!ResetDrops <=> QP!ResetDrops
    BY DEF Queue!ResetDrops, QP!ResetDrops, Queue!DropFields, QP!DropFields,
    Queue!DropReasons, QP!DropReasons
  <2>4. Queue!ClearUnhealthy <=> QP!ClearUnhealthy
    BY DEF Queue!ClearUnhealthy, QP!ClearUnhealthy
  <2>5. \A c : Queue!SetConfig(c) <=> QP!SetConfig(c)
    BY DEF Queue!SetConfig, QP!SetConfig, Queue!Normalised, QP!Normalised
  <2> QED
    BY <2>1, <2>2, <2>3, <2>4, <2>5, SamePush DEF Queue!Next, QP!Next
<1>4. [Queue!Next]_Queue!vars <=> [QP!Next]_QP!vars
  BY <1>3 DEF Queue!vars, QP!vars
<1> QED BY <1>1, <1>4, PTL DEF Queue!Spec, QP!Spec

\* The invariant of the queue is an invariant of the ring: what push() relies on at every
\* call - epochs in order, no batch number met again, one epoch to a batch, a protected
\* type once - holds in the slots as the code keeps them.
THEOREM RingInvariant == Spec => []Queue!QueueInv
<1>1. QP!Spec => []QP!QueueInv
  BY QueueAssumptions, QP!QueueInvariant
<1>2. QP!QueueInv <=> Queue!QueueInv
  BY DEF Queue!QueueInv, QP!QueueInv, Queue!TypeOK, QP!TypeOK, Queue!SlotsInv, QP!SlotsInv,
  Queue!Slots, QP!Slots, Queue!DropFields, QP!DropFields, Queue!DropReasons, QP!DropReasons,
  Queue!Config, QP!Config, Queue!Storable, QP!Storable, Queue!NewSlot, QP!NewSlot,
  Queue!MsmMarkedIn, QP!MsmMarkedIn, Queue!RegisteredIn, QP!RegisteredIn,
  Queue!KeyedByFamily, QP!KeyedByFamily, Queue!OrderedIn, QP!OrderedIn, Queue!AgedIn,
  QP!AgedIn, Queue!AgeIn, QP!AgeIn, Queue!OneEpochIn, QP!OneEpochIn, Queue!ProtectedOnceIn,
  QP!ProtectedOnceIn, Queue!IsMsm, QP!IsMsm, Queue!IsProtected, QP!IsProtected, Queue!Family,
  QP!Family, Queue!FamEntry, QP!FamEntry, Queue!MsmEpoch30, QP!MsmEpoch30
<1> QED BY <1>1, <1>2, RingRefines, SameSpec, PTL DEF RefinesQueue

-----------------------------------------------------------------------------
(* The window of samples                                                     *)

\* The samples that say a push lost a frame.
Losses(w) == {i \in DOMAIN w : w[i]}

\* A set moved up by one has as many members.
LEMMA ShiftedSet ==
  ASSUME NEW S, S \subseteq Nat, IsFiniteSet(S), NEW T, T = {i + 1 : i \in S}
  PROVE  IsFiniteSet(T) /\ Cardinality(T) = Cardinality(S)
<1> DEFINE g == [i \in S |-> i + 1]
<1>1. g \in Bijection(S, T)
  <2>1. g \in [S -> T] /\ \A t \in T : \E i \in S : g[i] = t
    OBVIOUS
  <2>2. \A i, j \in S : g[i] = g[j] => i = j
    OBVIOUS
  <2> HIDE DEF g
  <2> QED BY <2>1, <2>2 DEF Bijection, Injection, Surjection, IsInjective
<1> HIDE DEF g
<1>2. ExistsBijection(S, T)
  BY <1>1 DEF ExistsBijection
<1> QED BY <1>2, FS_Bijection

\* How many losses a window holds when a sample enters, and when the oldest leaves.
LEMMA LossesCount ==
  ASSUME NEW w \in Seq(BOOLEAN)
  PROVE  /\ Cardinality(Losses(w)) \in Nat
         /\ w = <<>> => Cardinality(Losses(w)) = 0
         /\ \A d \in BOOLEAN : Cardinality(Losses(Append(w, d)))
                                 = Cardinality(Losses(w)) + Samples!ToBit(d)
         /\ w # <<>> => Cardinality(Losses(w))
                          = Cardinality(Losses(Tail(w))) + Samples!ToBit(w[1])
<1> DEFINE n == Len(w)
           T == Losses(w)
<1>0. n \in Nat /\ DOMAIN w = 1..n
  BY LenProperties
<1>1. T \in SUBSET (1..n)
  BY <1>0 DEF Losses
<1>2. IsFiniteSet(T) /\ Cardinality(T) \in Nat
  <2> HIDE DEF n, T
  <2> QED BY <1>0, <1>1, Ranks
<1>3. w = <<>> => Cardinality(T) = 0
  <2>1. w = <<>> => T = {}
    BY <1>0 DEF Losses
  <2> HIDE DEF T
  <2> QED BY <2>1, FS_EmptySet
<1>4. ASSUME NEW d \in BOOLEAN
      PROVE  Cardinality(Losses(Append(w, d))) = Cardinality(T) + Samples!ToBit(d)
  <2> DEFINE a == Append(w, d)
  <2>1. DOMAIN a = 1..(n + 1) /\ a[n + 1] = d /\ \A i \in 1..n : a[i] = w[i]
    <3>1. a \in Seq(BOOLEAN) /\ Len(a) = n + 1 /\ a[n + 1] = d /\ \A i \in 1..n : a[i] = w[i]
      BY AppendProperties
    <3> HIDE DEF a
    <3> QED BY <3>1, LenProperties
  <2> HIDE DEF a
  <2>2. n + 1 \notin T /\ \A i \in 1..(n + 1) : i \in 1..n \/ i = n + 1
    BY <1>0, <1>1
  <2>3. \A i \in 1..n : i \in 1..(n + 1) /\ i # n + 1
    BY <1>0
  <2>4. n + 1 \in 1..(n + 1)
    BY <1>0
  <2>5. CASE d
    <3>1. Losses(a) = T \cup {n + 1}
      BY <1>0, <2>1, <2>2, <2>3, <2>4, <2>5 DEF Losses
    <3>2. Cardinality(T \cup {n + 1}) = Cardinality(T) + 1
      <4> HIDE DEF T
      <4> QED BY <1>2, <2>2, FS_AddElement
    <3> QED BY <2>5, <3>1, <3>2 DEF a, Samples!ToBit
  <2>6. CASE ~ d
    <3>1. Losses(a) = T
      BY <1>0, <2>1, <2>2, <2>3, <2>6 DEF Losses
    <3> HIDE DEF T
    <3> QED BY <1>2, <2>6, <3>1 DEF a, Samples!ToBit
  <2> QED BY <2>5, <2>6
<1>5. ASSUME w # <<>>
      PROVE  Cardinality(T) = Cardinality(Losses(Tail(w))) + Samples!ToBit(w[1])
  <2> DEFINE t == Tail(w)
             S == Losses(t)
             U == {i + 1 : i \in S}
  <2>1. t \in Seq(BOOLEAN) /\ n >= 1 /\ DOMAIN t = 1..(n - 1) /\ \A i \in 1..(n - 1) : t[i] = w[i + 1]
    <3>1. t \in Seq(BOOLEAN) /\ Len(t) = n - 1 /\ \A i \in 1..Len(t) : t[i] = w[i + 1]
      BY <1>5, HeadTailProperties
    <3>2. n # 0
      BY <1>5, EmptySeq
    <3> HIDE DEF t, n
    <3> QED BY <1>0, <3>1, <3>2, LenProperties
  <2> HIDE DEF t
  <2>2. S \in SUBSET (1..(n - 1)) /\ n - 1 \in Nat
    BY <1>0, <2>1 DEF Losses
  <2>3. IsFiniteSet(S) /\ S \subseteq Nat
    <3> HIDE DEF S, n
    <3> QED BY <2>2, Ranks
  <2>4. IsFiniteSet(U) /\ Cardinality(U) = Cardinality(S)
    <3> HIDE DEF S
    <3> QED BY <2>3, ShiftedSet
  <2>5. \A i \in 2..n : i \in T <=> i \in U
    <3>1. SUFFICES ASSUME NEW i \in 2..n PROVE i \in T <=> i \in U
      OBVIOUS
    <3>2. i - 1 \in 1..(n - 1) /\ (i - 1) + 1 = i /\ i \in 1..n
      BY <1>0
    <3>3. i - 1 \in S <=> i \in T
      BY <1>0, <2>1, <3>2 DEF Losses
    <3>4. i \in U <=> i - 1 \in S
      <4> HIDE DEF S
      <4>1. \A j \in S : j \in Nat
        BY <2>3
      <4> QED BY <3>2, <4>1
    <3> QED BY <3>3, <3>4
  <2>6. \A i \in U : i \in 2..n
    <3> HIDE DEF S
    <3> QED BY <1>0, <2>2
  <2>7. \A i \in T : i = 1 \/ i \in 2..n
    BY <1>0, <1>1
  <2>8. 1 \notin U /\ 1 \in 1..n /\ (1 \in T <=> w[1])
    BY <1>0, <2>1, <2>6 DEF Losses
  <2> HIDE DEF U, S, T
  <2>9. CASE w[1]
    <3>1. T = U \cup {1}
      BY <2>5, <2>6, <2>7, <2>8, <2>9
    <3>2. Cardinality(T) = Cardinality(U) + 1
      BY <2>4, <2>8, <3>1, FS_AddElement
    <3> QED BY <2>4, <2>9, <3>2 DEF S, t, Samples!ToBit
  <2>10. CASE ~ w[1]
    <3>1. T = U
      BY <2>5, <2>6, <2>7, <2>8, <2>10
    <3>2. Cardinality(S) \in Nat
      BY <2>3, FS_CardinalityType
    <3> QED BY <2>4, <2>10, <3>1, <3>2 DEF S, t, Samples!ToBit
  <2> QED BY <2>9, <2>10
<1> QED BY <1>2, <1>3, <1>4, <1>5

\* The cells of a window of n samples whose first is at h.
LEMMA WindowIndex ==
  ASSUME NEW n \in Nat \ {0}, NEW h \in 0..(n - 1)
  PROVE  /\ \A k \in 0..(n - 1) : (h + k) % n \in 0..(n - 1)
         /\ \A k, l \in 0..(n - 1) : (h + k) % n = (h + l) % n => k = l
         /\ (h + 0) % n = h /\ (h + 1) % n \in 0..(n - 1)
         /\ \A k \in 0..(n - 2) : (((h + 1) % n) + k) % n = (h + (k + 1)) % n
         /\ (((h + 1) % n) + (n - 1)) % n = h
<1>1. \A k \in 0..n : (h + k) % n = IF h + k < n THEN h + k ELSE h + k - n
  <2>1. SUFFICES ASSUME NEW k \in 0..n
                 PROVE  (h + k) % n = IF h + k < n THEN h + k ELSE h + k - n
    OBVIOUS
  <2> DEFINE x == h + k
  <2>2. x \in Nat /\ x < 2 * n
    OBVIOUS
  <2> HIDE DEF x
  <2>3. x % n = IF x < n THEN x ELSE x - n
    BY <2>2, ModOnce
  <2> QED BY <2>3 DEF x
<1>2. \A k \in Nat : (((h + 1) % n) + k) % n = (h + (k + 1)) % n
  <2>1. SUFFICES ASSUME NEW k \in Nat PROVE (((h + 1) % n) + k) % n = (h + (k + 1)) % n
    OBVIOUS
  <2> DEFINE x == h + 1
  <2>2. x \in Int /\ k \in Int /\ x + k = h + (k + 1)
    OBVIOUS
  <2> HIDE DEF x
  <2>3. ((x % n) + k) % n = (x + k) % n
    BY <2>2, ModAdd
  <2> QED BY <2>2, <2>3 DEF x
<1>3. (h + n) % n = h
  BY <1>1
<1>4. (((h + 1) % n) + (n - 1)) % n = h
  <2>1. n - 1 \in Nat /\ h + ((n - 1) + 1) = h + n
    OBVIOUS
  <2> QED BY <1>2, <1>3, <2>1
<1>5. \A k \in 0..(n - 2) : (((h + 1) % n) + k) % n = (h + (k + 1)) % n
  BY <1>2
<1>6. (h + 1) % n \in 0..(n - 1) /\ (h + 0) % n = h
  BY <1>1
<1>7. \A k \in 0..(n - 1) : (h + k) % n \in 0..(n - 1)
  BY <1>1
<1>8. \A k, l \in 0..(n - 1) : (h + k) % n = (h + l) % n => k = l
  BY <1>1
<1> QED BY <1>4, <1>5, <1>6, <1>7, <1>8

\* The ring of samples, from its head, holds the samples taken since the last reset, and
\* the running count is the number of losses among them.  Stale cells lie outside.
WindowInv ==
  /\ windowRing \in [0..(WindowCap - 1) -> {0, 1}]
  /\ windowHead \in 0..(cfg.windowN - 1)
  /\ windowCount = Len(window)
  /\ windowDrops = Cardinality(Losses(window))
  /\ \A i \in 1..Len(window) :
       windowRing[(windowHead + (i - 1)) % cfg.windowN] = Samples!ToBit(window[i])

\* The types of the window and of the configuration.
WindowType ==
  /\ window \in Seq(BOOLEAN) /\ Len(window) <= cfg.windowN
  /\ cfg.windowN \in 1..WindowCap /\ cfg.dropThreshold \in 1..255

\* The queue has these types.
LEMMA WindowTyped == Queue!QueueInv => WindowType
BY DEF Queue!QueueInv, Queue!TypeOK, Queue!Config, WindowType

\* Taking a sample, the window full or not, keeps the ring of samples true.
LEMMA SampleKeeps ==
  ASSUME WindowInv, WindowType, NEW drop \in BOOLEAN, Samples!Sample(drop), cfg' = cfg
  PROVE  WindowInv'
<1> DEFINE n == cfg.windowN
           w == window
           len == Len(window)
           h == windowHead
           lost(s) == Cardinality(Losses(s))
           bit == Samples!ToBit(drop)
<1>0. /\ n \in Nat \ {0} /\ n <= WindowCap /\ WindowCap \in Nat /\ len \in Nat /\ len <= n
      /\ h \in 0..(n - 1) /\ h \in Nat
      /\ w \in Seq(BOOLEAN) /\ windowCount = len /\ windowDrops = lost(w)
      /\ \A i \in 1..len : windowRing[(h + (i - 1)) % n] = Samples!ToBit(w[i])
      /\ windowRing \in [0..(WindowCap - 1) -> {0, 1}]
      /\ bit \in {0, 1} /\ n' = n
  <2>1. WindowCap \in 1..255
    BY RingAssumption
  <2>2. cfg.windowN \in 1..WindowCap /\ Len(window) \in Nat
    BY LenProperties DEF WindowType
  <2>3. cfg.windowN \in Nat \ {0} /\ cfg.windowN <= WindowCap /\ WindowCap \in Nat
    BY <2>1, <2>2
  <2>4. windowHead \in Nat
    BY <2>3 DEF WindowInv
  <2>5. bit \in {0, 1}
    BY DEF Samples!ToBit
  <2> QED BY <2>2, <2>3, <2>4, <2>5 DEF WindowInv, WindowType
<1>1. \A k \in 0..(n - 1) : k \in 0..(WindowCap - 1)
  BY <1>0
<1>2. /\ \A k \in 0..(n - 1) : (h + k) % n \in 0..(n - 1)
      /\ \A k, l \in 0..(n - 1) : (h + k) % n = (h + l) % n => k = l
      /\ (h + 0) % n = h /\ (h + 1) % n \in 0..(n - 1)
      /\ \A k \in 0..(n - 2) : (((h + 1) % n) + k) % n = (h + (k + 1)) % n
      /\ (((h + 1) % n) + (n - 1)) % n = h
  <2> HIDE DEF n, h
  <2> QED BY <1>0, WindowIndex
<1>3. w' = Append(IF len >= n THEN Tail(w) ELSE w, drop)
  BY DEF Samples!Sample
<1>4. CASE len >= n
  <2> DEFINE t == Tail(w)
             left == IF windowRing[h] = 1 /\ windowDrops > 0 THEN windowDrops - 1 ELSE windowDrops
  <2>1. /\ windowRing' = [windowRing EXCEPT ![h] = bit]
        /\ windowHead' = (h + 1) % n /\ windowCount' = windowCount
        /\ windowDrops' = left + bit
    BY <1>0, <1>4 DEF Samples!Sample, Samples!SlideSample, Samples!FillSample
  <2>2. len = n /\ w # <<>>
    BY <1>0, <1>4
  <2>3. /\ t \in Seq(BOOLEAN) /\ Len(t) = n - 1 /\ \A i \in 1..(n - 1) : t[i] = w[i + 1]
    BY <1>0, <2>2, HeadTailProperties
  <2> HIDE DEF t
  <2>4. w' = Append(t, drop)
    BY <1>3, <1>4 DEF t
  <2>5. /\ w' \in Seq(BOOLEAN) /\ Len(w') = n /\ w'[n] = drop
        /\ \A i \in 1..(n - 1) : w'[i] = w[i + 1]
    <3>1. /\ Append(t, drop) \in Seq(BOOLEAN) /\ Len(Append(t, drop)) = (n - 1) + 1
          /\ Append(t, drop)[(n - 1) + 1] = drop
          /\ \A i \in 1..(n - 1) : Append(t, drop)[i] = t[i]
      BY <2>3, AppendProperties
    <3>2. (n - 1) + 1 = n
      BY <1>0
    <3> QED BY <2>3, <2>4, <3>1, <3>2
  <2>6. windowDrops' = lost(w')
    <3>1. /\ lost(w) = lost(t) + Samples!ToBit(w[1]) /\ lost(t) \in Nat
          /\ lost(Append(t, drop)) = lost(t) + bit
      BY <1>0, <2>2, <2>3, LossesCount DEF t
    <3>2. windowRing[h] = Samples!ToBit(w[1])
      <4>1. 1 \in 1..len /\ 1 - 1 = 0
        BY <1>0, <2>2
      <4> QED BY <1>0, <1>2, <4>1
    <3>3. Samples!ToBit(w[1]) \in {0, 1}
      BY DEF Samples!ToBit
    <3> HIDE DEF lost, bit, h, w
    <3>4. left = lost(t)
      BY <1>0, <3>1, <3>2, <3>3
    <3> QED BY <2>1, <2>4, <3>1, <3>4
  <2>7. windowRing' \in [0..(WindowCap - 1) -> {0, 1}] /\ h \in 0..(WindowCap - 1)
        /\ windowRing'[h] = bit
        /\ \A k \in 0..(WindowCap - 1) : k # h => windowRing'[k] = windowRing[k]
    <3> HIDE DEF bit, h, n
    <3> QED BY <1>0, <1>1, <2>1
  <2>8. ASSUME NEW i \in 1..n
        PROVE  windowRing'[(windowHead' + (i - 1)) % n] = Samples!ToBit(w'[i])
    <3>1. CASE i = n
      BY <1>2, <2>1, <2>5, <2>7, <3>1
    <3>2. CASE i # n
      <4>1. i - 1 \in 0..(n - 2) /\ i \in 0..(n - 1) /\ i # 0 /\ (i - 1) + 1 = i /\ 0 \in 0..(n - 1)
            /\ i \in 1..(n - 1) /\ i + 1 \in 1..len /\ (i + 1) - 1 = i
        BY <1>0, <2>2, <3>2
      <4>2. (windowHead' + (i - 1)) % n = (h + i) % n
        BY <1>2, <2>1, <4>1
      <4>3. (h + i) % n # h /\ (h + i) % n \in 0..(WindowCap - 1)
        BY <1>1, <1>2, <4>1
      <4>4. windowRing[(h + i) % n] = Samples!ToBit(w[i + 1])
        BY <1>0, <4>1
      <4>5. windowRing'[(h + i) % n] = windowRing[(h + i) % n]
        BY <2>7, <4>3
      <4>6. w'[i] = w[i + 1]
        BY <2>5, <4>1
      <4> QED BY <4>2, <4>4, <4>5, <4>6
    <3> QED BY <3>1, <3>2
  <2>9. windowHead' \in 0..(n - 1) /\ windowCount' = Len(w')
    BY <1>0, <1>2, <2>1, <2>2, <2>5
  <2> QED BY <1>0, <2>5, <2>6, <2>7, <2>8, <2>9 DEF WindowInv
<1>5. CASE len < n
  <2> DEFINE c == (h + len) % n
  <2>1. /\ windowRing' = [windowRing EXCEPT ![c] = bit]
        /\ windowHead' = h /\ windowCount' = len + 1
        /\ windowDrops' = windowDrops + bit
    BY <1>0, <1>5 DEF Samples!Sample, Samples!SlideSample, Samples!FillSample
  <2>2. w' = Append(w, drop)
    BY <1>0, <1>3, <1>5
  <2>3. /\ w' \in Seq(BOOLEAN) /\ Len(w') = len + 1 /\ w'[len + 1] = drop
        /\ \A i \in 1..len : w'[i] = w[i]
    BY <1>0, <2>2, AppendProperties
  <2>4. windowDrops' = lost(w')
    BY <1>0, <2>1, <2>2, LossesCount
  <2>5. len \in 0..(n - 1) /\ c \in 0..(n - 1) /\ c \in 0..(WindowCap - 1)
    <3>1. len \in 0..(n - 1)
      BY <1>0, <1>5
    <3> HIDE DEF len, n, h
    <3> QED BY <1>1, <1>2, <3>1
  <2> HIDE DEF c
  <2>6. windowRing' \in [0..(WindowCap - 1) -> {0, 1}]
        /\ windowRing'[c] = bit
        /\ \A k \in 0..(WindowCap - 1) : k # c => windowRing'[k] = windowRing[k]
    <3> HIDE DEF bit
    <3> QED BY <1>0, <2>1, <2>5
  <2>7. ASSUME NEW i \in 1..(len + 1)
        PROVE  windowRing'[(h + (i - 1)) % n] = Samples!ToBit(w'[i])
    <3>1. CASE i = len + 1
      <4>1. i - 1 = len
        BY <1>0, <3>1
      <4> QED BY <2>3, <2>6, <3>1, <4>1 DEF c
    <3>2. CASE i # len + 1
      <4>1. i \in 1..len /\ i - 1 \in 0..(n - 1) /\ i - 1 # len
        BY <1>0, <1>5, <3>2
      <4>2. (h + (i - 1)) % n # c /\ (h + (i - 1)) % n \in 0..(WindowCap - 1)
        BY <1>1, <1>2, <2>5, <4>1 DEF c
      <4> QED BY <1>0, <2>3, <2>6, <4>1, <4>2
    <3> QED BY <3>1, <3>2
  <2> QED BY <1>0, <2>1, <2>3, <2>4, <2>6, <2>7 DEF WindowInv
<1>6. len < n \/ len >= n
  BY <1>0
<1> QED BY <1>4, <1>5, <1>6

\* An emptied window holds no samples, whatever its cells are left with.
LEMMA EmptyKeeps ==
  ASSUME WindowInv, WindowType', Samples!EmptyWindow
  PROVE  WindowInv'
<1>1. windowCount' = 0 /\ windowDrops' = 0 /\ windowHead' = 0 /\ window' = <<>>
      /\ windowRing' = windowRing
  BY DEF Samples!EmptyWindow
<1>2. 0 \in 0..(cfg'.windowN - 1)
  <2>1. WindowCap \in 1..255
    BY RingAssumption
  <2>2. cfg'.windowN \in 1..WindowCap
    BY DEF WindowType
  <2> QED BY <2>1, <2>2
<1>3. Cardinality(Losses(<<>>)) = 0
  <2>1. <<>> \in Seq(BOOLEAN)
    OBVIOUS
  <2> QED BY <2>1, LossesCount
<1>4. Len(<<>>) = 0 /\ 1..0 = {}
  OBVIOUS
<1> QED BY <1>1, <1>2, <1>3, <1>4 DEF WindowInv

\* Every step keeps the ring of samples true.
LEMMA WindowStep ==
  ASSUME WindowInv, WindowType, WindowType', [Next]_vars
  PROVE  WindowInv'
<1>1. ASSUME NEW f \in Frames, Push(f) PROVE WindowInv'
  <2> DEFINE o == Pushed(ring, f)
  <2>1. Samples!Sample(o.lossy) /\ cfg' = cfg
    BY <1>1 DEF Push
  <2>2. o.lossy \in BOOLEAN
    <3>1. \A r : Refused(r, f, "byOversize").lossy \in BOOLEAN /\ Refused(r, f, "byMsmEpoch").lossy \in BOOLEAN
                 /\ Refused(r, f, "byQueueFull").lossy \in BOOLEAN
                 /\ Refused(r, f, "byProtectedKept").lossy \in BOOLEAN
      BY DEF Refused, Outcome
    <3>2. \A r, b : b \in BOOLEAN => Outcome(r, b).lossy \in BOOLEAN
      BY DEF Outcome
    <3>3. (ring.count >= Depth) \in BOOLEAN
      OBVIOUS
    <3>4. PushProtected(ring, f).lossy \in BOOLEAN
      BY <3>1, <3>2, <3>3 DEF PushProtected
    <3>5. PushMsm(ring, f).lossy \in BOOLEAN
      BY <3>1, <3>2 DEF PushMsm
    <3>6. PushOther(ring, f).lossy \in BOOLEAN
      BY <3>1, <3>2 DEF PushOther
    <3> QED BY <3>1, <3>4, <3>5, <3>6 DEF Pushed
  <2> HIDE DEF o
  <2> QED BY <2>1, <2>2, SampleKeeps
<1>2. ASSUME UNCHANGED <<cells, window, cfg>> PROVE WindowInv'
  BY <1>2 DEF WindowInv, cells
<1>3. ASSUME NEW w \in Writable, Pull(w) PROVE WindowInv'
  BY <1>2, <1>3 DEF Pull
<1>4. ASSUME Clear PROVE WindowInv'
  BY <1>2, <1>4 DEF Clear
<1>5. ASSUME ResetDrops PROVE WindowInv'
  BY <1>2, <1>5 DEF ResetDrops
<1>6. ASSUME ClearUnhealthy PROVE WindowInv'
  BY <1>6, EmptyKeeps DEF ClearUnhealthy
<1>7. ASSUME NEW c \in Configs, SetConfig(c) PROVE WindowInv'
  BY <1>7, EmptyKeeps DEF SetConfig
<1>8. CASE UNCHANGED vars
  BY <1>2, <1>8 DEF vars
<1> QED BY <1>1, <1>3, <1>4, <1>5, <1>6, <1>7, <1>8 DEF Next

\* The window starts empty.
LEMMA WindowStart == Init /\ WindowType => WindowInv
<1>1. SUFFICES ASSUME Init, WindowType PROVE WindowInv
  OBVIOUS
<1>2. /\ windowRing = [k \in 0..(WindowCap - 1) |-> 0]
      /\ windowHead = 0 /\ windowCount = 0 /\ windowDrops = 0 /\ window = <<>>
  BY <1>1 DEF Init, Samples!InitWindow
<1>3. 0 \in 0..(cfg.windowN - 1)
  <2>1. WindowCap \in 1..255
    BY RingAssumption
  <2>2. cfg.windowN \in 1..WindowCap
    BY <1>1 DEF WindowType
  <2> QED BY <2>1, <2>2
<1>4. Cardinality(Losses(<<>>)) = 0
  <2>1. <<>> \in Seq(BOOLEAN)
    OBVIOUS
  <2> QED BY <2>1, LossesCount
<1>5. Len(<<>>) = 0 /\ 1..0 = {}
  OBVIOUS
<1> QED BY <1>2, <1>3, <1>4, <1>5 DEF WindowInv

\* With the ring of samples true, the flag of the code is that of the samples.
LEMMA FlagFollows == WindowInv /\ WindowType => FlagIsExact
<1>1. SUFFICES ASSUME WindowInv, WindowType PROVE FlagIsExact
  OBVIOUS
<1>2. Len(window) \in Nat /\ (window # <<>> <=> Len(window) # 0)
  <2>1. window \in Seq(BOOLEAN)
    BY <1>1 DEF WindowType
  <2> QED BY <2>1, EmptySeq, LenProperties
<1>3. windowCount > 0 <=> window # <<>>
  BY <1>1, <1>2 DEF WindowInv
<1>4. Queue!Cardinality({i \in DOMAIN window : window[i]}) = windowDrops
  BY <1>1, SameOperators DEF WindowInv, Losses
<1> QED BY <1>3, <1>4 DEF FlagIsExact, Samples!Unhealthy, Queue!Unhealthy

\* unhealthy() tells exactly whether dropThreshold of the recent pushes lost a frame: the
\* running count never drifts from the samples, nor do stale cells enter it, for any
\* window size and threshold and across every setConfig().
THEOREM FlagExact == Spec => []FlagIsExact
<1>1. Spec => []WindowType
  BY RingInvariant, WindowTyped, PTL
<1>2. Init /\ WindowType => WindowInv
  BY WindowStart
<1>3. WindowInv /\ WindowType /\ WindowType' /\ [Next]_vars => WindowInv'
  BY WindowStep
<1>4. WindowInv /\ WindowType => FlagIsExact
  BY FlagFollows
<1> QED BY <1>1, <1>2, <1>3, <1>4, PTL DEF Spec

-----------------------------------------------------------------------------
(* The bytes of what was dropped                                             *)

\* dropBatch() takes the bytes from the queue to the counter.
LEMMA DropWeight ==
  ASSUME NEW r \in Rings, NEW b
  PROVE  DropBatch(r, b) \in Rings /\ Weight(DropBatch(r, b)) = Weight(r)
<1> DEFINE c == Scan(r, b)
<1>1. c \in Rings /\ Weight(c) = Weight(r)
  BY ScanFacts
<1> HIDE DEF c
<1> DEFINE o == OpenNext(c)
<1>2. /\ o \in Rings /\ o.slots = c.slots /\ o.head = c.head /\ o.count = c.count
      /\ o.bytes = c.bytes
  BY <1>1, OpenNextFacts
<1> HIDE DEF o
<1>3. QueuedBytes(o) = QueuedBytes(c)
  <2>1. \A k : At(o, k) = At(c, k)
    BY <1>2, SameLogical
  <2> QED BY <1>1, <1>2, <2>1, QueuedSame
<1>4. Weight(o) = Weight(c)
  BY <1>2, <1>3 DEF Weight
<1>5. DropBatch(r, b) = IF b = 0 THEN r ELSE IF b = r.openBatch THEN o ELSE c
  BY DEF DropBatch, o, c
<1> QED BY <1>1, <1>2, <1>4, <1>5

\* pushBack() adds the bytes of the frame.
LEMMA PushBackWeight ==
  ASSUME NEW r \in Rings, r.count < Depth, NEW f \in Frames, NEW b, Queue!NewSlot(f, b) \in CellSlots
  PROVE  Weight(PushBack(r, f, b)) = (Weight(r) + f.len) % ByteMod
<1> DEFINE s == PushBack(r, f, b)
<1>1. /\ s \in Rings /\ SameBooks(r, s) /\ s.count = r.count + 1
      /\ Logical(s) = Append(Logical(r), Queue!NewSlot(f, b))
  BY PushBackFacts
<1> HIDE DEF s
<1>2. r.count \in Nat
  BY RingTypes
<1>3. \A k \in 0..r.count : At(s, k) = IF k < r.count THEN At(r, k) ELSE Queue!NewSlot(f, b)
  <2>1. /\ Append(Logical(r), Queue!NewSlot(f, b))[r.count + 1] = Queue!NewSlot(f, b)
        /\ \A i \in 1..r.count : Append(Logical(r), Queue!NewSlot(f, b))[i] = At(r, i - 1)
    BY LogicalSeq, AppendProperties
  <2>2. \A i \in 1..(r.count + 1) : Logical(s)[i] = At(s, i - 1)
    BY <1>1, LogicalSeq
  <2>3. SUFFICES ASSUME NEW k \in 0..r.count
                 PROVE  At(s, k) = IF k < r.count THEN At(r, k) ELSE Queue!NewSlot(f, b)
    OBVIOUS
  <2>4. k + 1 \in 1..(r.count + 1) /\ (k + 1) - 1 = k
    BY <1>2
  <2>5. CASE k < r.count
    <3>1. k + 1 \in 1..r.count
      BY <1>2, <2>5
    <3> QED BY <1>1, <2>1, <2>2, <2>4, <2>5, <3>1
  <2>6. CASE ~ (k < r.count)
    <3>1. k = r.count
      BY <1>2, <2>6
    <3> QED BY <1>1, <2>1, <2>2, <2>4, <2>6, <3>1
  <2> QED BY <2>5, <2>6
<1>4. QueuedBytes(s) = QueuedBytes(r) + f.len
  <2>1. /\ r.count \in 0..(s.count - 1) /\ r.count = s.count - 1
        /\ \A k \in 0..(s.count - 2) : At(r, k) = IF k < r.count THEN At(s, k) ELSE At(s, k + 1)
    BY <1>1, <1>2, <1>3
  <2>2. QueuedBytes(s) = QueuedBytes(r) + LenAt(s, r.count)
    BY <1>1, <2>1, QueuedWithout
  <2>3. LenAt(s, r.count) = f.len
    <3>1. At(s, r.count) = Queue!NewSlot(f, b)
      BY <1>2, <1>3
    <3> QED BY <3>1 DEF LenAt, Queue!NewSlot
  <2> QED BY <2>2, <2>3
<1>5. s.bytes = r.bytes /\ r.bytes \in 0..(ByteMod - 1) /\ ByteMod \in Nat \ {0}
  BY <1>1, RingTypes, Sizes DEF SameBooks
<1>6. r.bytes = (r.bytes + 0) % ByteMod
  BY <1>5
<1>7. f.len \in Nat /\ QueuedBytes(r) \in Nat
  BY FrameTypes, QueuedNone
<1>8. QueuedBytes(s) = QueuedBytes(r) + f.len - 0 /\ f.len \in Int /\ 0 \in Nat
  BY <1>4, <1>7
<1>9. Weight(s) = (Weight(r) + f.len) % ByteMod
  BY <1>1, <1>5, <1>6, <1>8, WeightMoved
<1> QED BY <1>9 DEF s

\* A refused frame goes to the counter with its bytes.
LEMMA RefusedWeight ==
  ASSUME NEW r \in Rings, NEW f \in Frames, NEW reason \in Queue!DropReasons
  PROVE  Weight(Refused(r, f, reason).ring) = (Weight(r) + f.len) % ByteMod
<1>1. f.len \in Nat
  BY FrameTypes
<1>2. Refused(r, f, reason).ring = NoteDrop(r, f.len, reason)
  BY DEF Refused, Outcome
<1> QED BY <1>1, <1>2, NotedWeight

\* A slot overwritten gives its bytes to the counter and takes those of the frame.
LEMMA ReplacedWeight ==
  ASSUME NEW r \in Rings, NEW i \in 0..(r.count - 1), NEW f \in Frames, Queue!Storable(f),
         NEW reason \in Queue!DropReasons
  PROVE  Weight(CopyInto(NoteDrop(r, LenAt(r, i), reason), i, f, 0)) = (Weight(r) + f.len) % ByteMod
<1> DEFINE len == LenAt(r, i)
           h == NoteDrop(r, len, reason)
           s == CopyInto(h, i, f, 0)
           x == RemoveAt(r, i)
           y == RemoveAt(s, i)
<1>0. /\ r.count \in Nat /\ r.count <= Depth /\ Depth \in Nat /\ 0 \in 0..MaxBatch
      /\ i \in 0..Depth /\ i \in Cells /\ f.len \in Nat
  BY RingTypes, Sizes, FrameTypes DEF Cells
<1>1. len \in Nat
  BY <1>0, AtType, CellFacts DEF LenAt
<1>2. h \in Rings /\ SameQueue(r, h) /\ h.bytes = (r.bytes + len) % ByteMod
  BY <1>1, NoteDropFacts
<1> HIDE DEF h
<1>3. h.count = r.count /\ \A k : At(h, k) = At(r, k)
  BY <1>2, SameLogical DEF SameQueue
<1>4. Queue!NewSlot(f, 0) \in CellSlots
  BY <1>0, NewSlotCell
<1>5. /\ s \in Rings /\ SameBooks(h, s) /\ s.count = r.count
      /\ At(s, i) = Queue!NewSlot(f, 0) /\ \A k \in Cells \ {i} : At(s, k) = At(r, k)
  BY <1>0, <1>2, <1>3, <1>4, CopyIntoFacts
<1> HIDE DEF s
<1>6. /\ x \in Rings /\ x.count = r.count - 1
      /\ \A k \in 0..(r.count - 2) : At(x, k) = IF k < i THEN At(r, k) ELSE At(r, k + 1)
  BY RemoveAtFacts
<1>7. /\ y \in Rings /\ y.count = r.count - 1
      /\ \A k \in 0..(r.count - 2) : At(y, k) = IF k < i THEN At(s, k) ELSE At(s, k + 1)
  <2>1. i \in 0..(s.count - 1)
    BY <1>5
  <2> QED BY <1>5, <2>1, RemoveAtFacts
<1> HIDE DEF x, y
<1>8. \A k \in 0..(x.count - 1) : At(y, k) = At(x, k)
  <2>1. SUFFICES ASSUME NEW k \in 0..(r.count - 2) PROVE At(y, k) = At(x, k)
    BY <1>0, <1>6
  <2>2. CASE k < i
    <3>1. k \in Cells \ {i}
      BY <1>0, <2>2 DEF Cells
    <3> QED BY <1>5, <1>6, <1>7, <2>2, <3>1
  <2>3. CASE ~ (k < i)
    <3>1. k + 1 \in Cells \ {i}
      BY <1>0, <2>3 DEF Cells
    <3> QED BY <1>5, <1>6, <1>7, <2>3, <3>1
  <2> QED BY <2>2, <2>3
<1>9. QueuedBytes(y) = QueuedBytes(x)
  BY <1>6, <1>7, <1>8, QueuedSame
<1>10. QueuedBytes(r) = QueuedBytes(x) + len
  BY <1>6, QueuedWithout
<1>11. QueuedBytes(s) = QueuedBytes(y) + f.len
  <2>1. QueuedBytes(s) = QueuedBytes(y) + LenAt(s, i)
    BY <1>5, <1>7, QueuedWithout
  <2>2. LenAt(s, i) = f.len
    BY <1>5 DEF LenAt, Queue!NewSlot
  <2> QED BY <2>1, <2>2
<1>12. s.bytes = (r.bytes + len) % ByteMod
  BY <1>2, <1>5 DEF SameBooks
<1>13. QueuedBytes(x) \in Nat
  BY <1>6, QueuedNone
<1> HIDE DEF len
<1>14. QueuedBytes(s) = QueuedBytes(r) + f.len - len /\ f.len \in Int
  BY <1>0, <1>1, <1>9, <1>10, <1>11, <1>13
<1>15. Weight(s) = (Weight(r) + f.len) % ByteMod
  BY <1>1, <1>5, <1>12, <1>14, WeightMoved
<1> QED BY <1>15 DEF s, h, len

\* push() leaves the bytes of its frame queued or counted, and those it drops counted.
LEMMA PushWeight ==
  ASSUME ring \in Rings, NEW f \in Frames
  PROVE  Weight(Pushed(ring, f).ring) = (Weight(ring) + f.len) % ByteMod
<1> DEFINE Adds(o) == Weight(o.ring) = (Weight(ring) + f.len) % ByteMod
<1>0. 0 \in 0..MaxBatch /\ \A r \in Rings : r.openBatch \in 0..MaxBatch
  BY RingTypes, Sizes
<1>1. ASSUME NEW r \in Rings, Weight(r) = Weight(ring), NEW reason \in Queue!DropReasons
      PROVE  Adds(Refused(r, f, reason))
  BY <1>1, RefusedWeight
<1>2. ASSUME NEW r \in Rings, Weight(r) = Weight(ring), r.count < Depth, Queue!Storable(f),
             NEW b \in 0..MaxBatch, NEW lossy
      PROVE  Adds(Outcome(PushBack(r, f, b), lossy))
  BY <1>2, NewSlotCell, PushBackWeight DEF Outcome
<1>3. \A r \in Rings : \A b : DropBatch(r, b) \in Rings /\ Weight(DropBatch(r, b)) = Weight(r)
  BY DropWeight
<1>4. ASSUME ~ Queue!Storable(f) PROVE Adds(Pushed(ring, f))
  <2>1. Pushed(ring, f) = Refused(ring, f, "byOversize")
    BY <1>4 DEF Pushed
  <2>2. Adds(Refused(ring, f, "byOversize"))
    BY <1>1, Reasons
  <2> QED BY <2>1, <2>2
<1>5. ASSUME Queue!Storable(f) PROVE Adds(PushProtected(ring, f))
  <2> DEFINE P(i) == At(ring, i).frame.type = f.type
             F == {i \in 0..(ring.count - 1) : P(i) /\ \A j \in 0..(i - 1) : ~ P(j)}
             it == CHOOSE i \in F : TRUE
             roomy == MakeRoom(ring)
             o == PushProtected(ring, f)
  <2>1. o = IF F # {}
            THEN Outcome(CopyInto(NoteDrop(ring, At(ring, it).frame.len, "byReplacedProtected"),
                                  it, f, 0), FALSE)
            ELSE IF roomy.count < Depth THEN Outcome(PushBack(roomy, f, 0), ring.count >= Depth)
            ELSE Refused(roomy, f, "byProtectedKept")
    BY DEF PushProtected, First
  <2>2. roomy \in Rings /\ Weight(roomy) = Weight(ring)
    BY <1>3, MakeRoomFacts
  <2>3. F # {} => it \in 0..(ring.count - 1)
    OBVIOUS
  <2> HIDE DEF F, it, roomy, o
  <2>4. CASE F # {}
    <3>1. o.ring = CopyInto(NoteDrop(ring, LenAt(ring, it), "byReplacedProtected"), it, f, 0)
      BY <2>1, <2>4 DEF Outcome, LenAt
    <3>2. Adds(o)
      BY <1>5, <2>3, <2>4, <3>1, Reasons, ReplacedWeight
    <3> QED BY <3>2 DEF o
  <2>5. CASE F = {}
    <3>1. CASE roomy.count < Depth
      <4>1. o = Outcome(PushBack(roomy, f, 0), ring.count >= Depth)
        BY <2>1, <2>5, <3>1 DEF Outcome
      <4>2. o.ring = PushBack(roomy, f, 0)
        BY <4>1 DEF Outcome
      <4>3. Weight(PushBack(roomy, f, 0)) = (Weight(roomy) + f.len) % ByteMod
        BY <1>0, <1>5, <2>2, <3>1, NewSlotCell, PushBackWeight
      <4>4. Adds(o)
        BY <2>2, <4>2, <4>3
      <4> QED BY <4>4 DEF o
    <3>2. CASE ~ (roomy.count < Depth)
      <4>1. o = Refused(roomy, f, "byProtectedKept")
        BY <2>1, <2>5, <3>2 DEF Outcome
      <4>2. Adds(o)
        BY <1>1, <2>2, <4>1, Reasons
      <4> QED BY <4>2 DEF o
    <3> QED BY <3>1, <3>2
  <2> QED BY <2>4, <2>5
<1>6. ASSUME Queue!Storable(f) PROVE Adds(PushMsm(ring, f))
  <2> DEFINE a == AssignBatch(ring, f)
             batch == a.openBatch
             older == OldestMsmBatch(a, TRUE)
             d == DropBatch(a, older)
             e == DropBatch(d, batch)
             o == PushMsm(ring, f)
  <2>1. a \in Rings /\ Weight(a) = Weight(ring)
    <3> DEFINE fresh(g) == [g EXCEPT !.fam = g.fam \cup {Queue!FamEntry(f)}]
    <3>1. a \in Rings /\ a.count = ring.count /\ \A l : At(a, l) = At(ring, l)
      BY AssignFacts
    <3>2. a.bytes = ring.bytes
      <4>1. OpenNext(ring) \in Rings /\ OpenNext(ring).bytes = ring.bytes
        BY OpenNextFacts
      <4>2. \A g \in Rings : fresh(g).bytes = g.bytes
        BY DEF Rings
      <4>3. a = fresh(ring) \/ a = fresh(OpenNext(ring))
        BY DEF AssignBatch
      <4> HIDE DEF a, fresh
      <4> QED BY <4>1, <4>2, <4>3
    <3> HIDE DEF a
    <3>3. QueuedBytes(a) = QueuedBytes(ring)
      BY <3>1, QueuedSame
    <3> QED BY <3>1, <3>2, <3>3 DEF Weight
  <2>2. o = IF a.count < Depth THEN Outcome(PushBack(a, f, batch), FALSE)
            ELSE IF older # 0 /\ d.count < Depth THEN Outcome(PushBack(d, f, batch), TRUE)
            ELSE IF HasBatch(d, batch) THEN Refused(e, f, "byMsmEpoch")
            ELSE Refused(d, f, "byQueueFull")
    BY DEF PushMsm
  <2> HIDE DEF a, o, older
  <2>3. batch \in 0..MaxBatch
    BY <1>0, <2>1
  <2> HIDE DEF batch
  <2>4. d \in Rings /\ Weight(d) = Weight(ring)
    BY <1>3, <2>1
  <2> HIDE DEF d
  <2>5. e \in Rings /\ Weight(e) = Weight(ring)
    BY <1>3, <2>4
  <2> HIDE DEF e
  <2>6. CASE a.count < Depth
    <3>1. o = Outcome(PushBack(a, f, batch), FALSE)
      BY <2>2, <2>6 DEF Outcome
    <3>2. Adds(o)
      BY <1>2, <1>6, <2>1, <2>3, <2>6, <3>1
    <3> QED BY <3>2 DEF o
  <2>7. CASE ~ (a.count < Depth) /\ older # 0 /\ d.count < Depth
    <3>1. o = Outcome(PushBack(d, f, batch), TRUE)
      BY <2>2, <2>7 DEF Outcome
    <3>2. Adds(o)
      BY <1>2, <1>6, <2>3, <2>4, <2>7, <3>1
    <3> QED BY <3>2 DEF o
  <2>8. CASE ~ (a.count < Depth) /\ ~ (older # 0 /\ d.count < Depth)
    <3>1. o = Refused(e, f, "byMsmEpoch") \/ o = Refused(d, f, "byQueueFull")
      BY <2>2, <2>8 DEF Outcome
    <3>2. Adds(o)
      BY <1>1, <2>4, <2>5, <3>1, Reasons
    <3> QED BY <3>2 DEF o
  <2> QED BY <2>6, <2>7, <2>8
<1>7. ASSUME Queue!Storable(f) PROVE Adds(PushOther(ring, f))
  <2> DEFINE d == DropBatch(ring, Victim(ring))
             o == PushOther(ring, f)
  <2>1. o = IF ring.count < Depth THEN Outcome(PushBack(ring, f, 0), FALSE)
            ELSE IF d.count < Depth THEN Outcome(PushBack(d, f, 0), TRUE)
            ELSE Refused(d, f, "byQueueFull")
    BY DEF PushOther
  <2>2. d \in Rings /\ Weight(d) = Weight(ring)
    BY <1>3
  <2> HIDE DEF d, o
  <2>3. CASE ring.count < Depth
    <3>1. o = Outcome(PushBack(ring, f, 0), FALSE)
      BY <2>1, <2>3 DEF Outcome
    <3>2. Adds(o)
      BY <1>0, <1>2, <1>7, <2>3, <3>1
    <3> QED BY <3>2 DEF o
  <2>4. CASE ~ (ring.count < Depth) /\ d.count < Depth
    <3>1. o = Outcome(PushBack(d, f, 0), TRUE)
      BY <2>1, <2>4 DEF Outcome
    <3>2. Adds(o)
      BY <1>0, <1>2, <1>7, <2>2, <2>4, <3>1
    <3> QED BY <3>2 DEF o
  <2>5. CASE ~ (ring.count < Depth) /\ ~ (d.count < Depth)
    <3>1. o = Refused(d, f, "byQueueFull")
      BY <2>1, <2>5 DEF Outcome
    <3>2. Adds(o)
      BY <1>1, <2>2, <3>1, Reasons
    <3> QED BY <3>2 DEF o
  <2> QED BY <2>3, <2>4, <2>5
<1> HIDE DEF Adds
<1>8. Adds(Pushed(ring, f))
  BY <1>4, <1>5, <1>6, <1>7 DEF Pushed
<1> QED BY <1>8 DEF Adds

\* What was offered, less what was pulled, cleared or forgotten, is what the ring answers for.
LEMMA BalanceStart == Init => BytesAccounted
<1>1. SUFFICES ASSUME Init PROVE BytesAccounted
  OBVIOUS
<1>2. ring \in Rings /\ ring.count = 0 /\ ring.bytes = 0 /\ balance = 0
  BY <1>1, InitSame DEF Init
<1>3. QueuedBytes(ring) = 0
  BY <1>2, QueuedNone
<1>4. 0 % ByteMod = 0 /\ 0 + 0 = 0
  BY Sizes
<1> QED BY <1>2, <1>3, <1>4 DEF BytesAccounted

\* Every step keeps the account.
LEMMA BalanceStep ==
  ASSUME ring \in Rings, BytesAccounted, [Next]_vars
  PROVE  BytesAccounted'
<1> DEFINE Q == QueuedBytes(ring)
           b == ring.bytes
           M == ByteMod
           R == QueuedBytes(ring')
           y == Q + b
<1>0. /\ Q \in Nat /\ b \in Nat /\ M \in Nat \ {0} /\ y \in Int /\ ring' \in Rings /\ R \in Nat
      /\ balance = y % M
  BY QueuedNone, RingTypes, Sizes, StepSame DEF BytesAccounted
<1>1. ASSUME NEW f \in Frames, Push(f) PROVE BytesAccounted'
  <2>1. ring' = Pushed(ring, f).ring /\ balance' = (balance + f.len) % M
    BY <1>1 DEF Push
  <2>2. Weight(ring') = (Weight(ring) + f.len) % M
    BY <2>1, PushWeight
  <2>3. Weight(ring) = balance
    BY DEF BytesAccounted, Weight
  <2> QED BY <2>1, <2>2, <2>3 DEF BytesAccounted, Weight
<1>2. ASSUME NEW x \in Int, balance' = (balance - x) % M, R + ring'.bytes = y - x
      PROVE  BytesAccounted'
  <2> DEFINE z == - x
  <2>1. z \in Int /\ balance - x = (y % M) + z /\ y - x = y + z
    <3>1. y % M \in Int
      BY <1>0, ModRange
    <3> QED BY <1>0, <3>1
  <2> HIDE DEF z, y, M, R
  <2>2. ((y % M) + z) % M = (y + z) % M
    BY <1>0, <2>1, ModAdd
  <2> QED BY <1>2, <2>1, <2>2 DEF BytesAccounted, R, M
<1>3. ASSUME NEW w \in Writable, Pull(w) PROVE BytesAccounted'
  <2>1. /\ ring' = [ring EXCEPT !.head = (ring.head + 1) % Depth, !.count = ring.count - 1]
        /\ ring.count > 0 /\ balance' = (balance - LenAt(ring, 0)) % M
    BY <1>3 DEF Pull, LenAt
  <2>2. Logical(ring') = Tail(Logical(ring)) /\ Logical(ring) # <<>>
    BY <2>1, PullFacts
  <2>3. ring'.count = ring.count - 1 /\ ring'.bytes = ring.bytes /\ ring.count \in Nat
    BY <2>1, RingTypes DEF Rings
  <2>4. 0 \in 0..(ring.count - 1)
    BY <2>1, <2>3
  <2>5. \A k \in 0..(ring.count - 2) : At(ring', k) = At(ring, k + 1)
    <3>1. SUFFICES ASSUME NEW k \in 0..(ring.count - 2) PROVE At(ring', k) = At(ring, k + 1)
      OBVIOUS
    <3>2. k + 1 \in 1..(ring.count - 1) /\ (k + 1) - 1 = k /\ (k + 1) + 1 \in 1..ring.count
          /\ ((k + 1) + 1) - 1 = k + 1
      BY <2>3
    <3>3. \A i \in 1..(ring.count - 1) : Tail(Logical(ring))[i] = Logical(ring)[i + 1]
      BY <2>2, LogicalSeq, HeadTailProperties
    <3>4. Logical(ring')[k + 1] = At(ring', k)
      BY <1>0, <2>3, <3>2, LogicalSeq
    <3>5. Logical(ring)[(k + 1) + 1] = At(ring, k + 1)
      BY <3>2, LogicalSeq
    <3> QED BY <2>2, <3>2, <3>3, <3>4, <3>5
  <2>6. \A k \in 0..(ring.count - 2) : At(ring', k) = IF k < 0 THEN At(ring, k) ELSE At(ring, k + 1)
    BY <2>5
  <2>7. Q = R + LenAt(ring, 0)
    BY <1>0, <2>3, <2>4, <2>6, QueuedWithout
  <2>8. LenAt(ring, 0) \in Nat
    <3>1. 0 \in 0..Depth
      BY Sizes
    <3> QED BY <3>1, AtType, CellFacts DEF LenAt
  <2> QED BY <1>0, <1>2, <2>1, <2>3, <2>7, <2>8
<1>4. ASSUME Clear PROVE BytesAccounted'
  <2>1. /\ ring' = [ring EXCEPT !.count = 0, !.head = 0, !.openBatch = 1, !.fam = {}]
        /\ balance' = (balance - Q) % M
    BY <1>4 DEF Clear
  <2>2. ring'.count = 0 /\ ring'.bytes = ring.bytes
    BY <2>1 DEF Rings
  <2>3. R = 0
    BY <1>0, <2>2, QueuedNone
  <2> QED BY <1>0, <1>2, <2>1, <2>2, <2>3
<1>5. ASSUME ResetDrops PROVE BytesAccounted'
  <2>1. /\ ring' = [ring EXCEPT !.drops = [x \in Queue!DropFields |-> 0], !.bytes = 0]
        /\ balance' = (balance - b) % M
    BY <1>5 DEF ResetDrops
  <2>2. /\ ring'.bytes = 0 /\ ring'.slots = ring.slots /\ ring'.head = ring.head
        /\ ring'.count = ring.count
    BY <2>1 DEF Rings
  <2>3. R = Q
    BY <1>0, <2>2, SameLogical, QueuedSame
  <2> QED BY <1>0, <1>2, <2>1, <2>2, <2>3
<1>6. ASSUME UNCHANGED <<ring, balance>> PROVE BytesAccounted'
  BY <1>6 DEF BytesAccounted
<1>7. ASSUME ClearUnhealthy PROVE BytesAccounted'
  BY <1>6, <1>7 DEF ClearUnhealthy
<1>8. ASSUME NEW c \in Configs, SetConfig(c) PROVE BytesAccounted'
  BY <1>6, <1>8 DEF SetConfig
<1>9. CASE UNCHANGED vars
  BY <1>6, <1>9 DEF vars
<1> QED BY <1>1, <1>3, <1>4, <1>5, <1>7, <1>8, <1>9 DEF Next

\* drops_.bytes counts the bytes of exactly the frames lost, wherever it wraps: bytes pushed
\* are queued, pulled, cleared or counted, through every eviction, replacement and refusal.
THEOREM BytesExact == Spec => []BytesAccounted
<1>1. Spec => [](ring \in Rings)
  BY RingTyped
<1>2. Init => BytesAccounted
  BY BalanceStart
<1>3. ring \in Rings /\ BytesAccounted /\ [Next]_vars => BytesAccounted'
  BY BalanceStep
<1> QED BY <1>1, <1>2, <1>3, PTL DEF Spec

=============================================================================
