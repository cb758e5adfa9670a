-------------------------- MODULE FrameQueueProofs --------------------------
(***************************************************************************)
(* Proofs about FrameQueue for every value of its constants.               *)
(*                                                                         *)
(* Without(q, b) keeps slots by their rank, so the first lemmas are about  *)
(* Rank and the least element of a set of numbers; then come the facts     *)
(* about Without, and then the invariants, one step per action.            *)
(* Last is PushEffect: a push either stores its frame and loses none, or   *)
(* counts exactly the frames it loses.                                     *)
(***************************************************************************)
EXTENDS FrameQueue, SequenceTheorems, FiniteSetTheorems, WellFoundedInduction, TLAPS

-----------------------------------------------------------------------------
(* Least elements and ranks                                                  *)

\* A set of naturals has a least element, the one Min chooses.
LEMMA MinOfNats ==
  ASSUME NEW S, S \subseteq Nat, S # {}
  PROVE  /\ Min(S) \in S
         /\ \A x \in S : Min(S) <= x
<1>1. \E x \in S : \A y \in S : ~ (<<y, x>> \in OpToRel(<, Nat))
  BY NatLessThanWellFounded, WFMin, Zenon
<1>2. PICK x \in S : \A y \in S : ~ (<<y, x>> \in OpToRel(<, Nat))
  BY <1>1
<1>3. \A y \in S : x <= y
  <2>1. SUFFICES ASSUME NEW y \in S, ~ (x <= y) PROVE FALSE
    OBVIOUS
  <2>2. x \in Nat /\ y \in Nat /\ y < x
    BY <2>1
  <2>3. <<y, x>> \in OpToRel(<, Nat)
    BY <2>2 DEF OpToRel
  <2> QED BY <1>2, <2>3
<1> QED BY <1>3 DEF Min

\* In a subset S of 1..n the ranks are below the size of S and follow the order.
LEMMA RankOrder ==
  ASSUME NEW n \in Nat, NEW S \in SUBSET (1..n)
  PROVE  /\ IsFiniteSet(S) /\ Cardinality(S) \in 0..n
         /\ \A i \in S : Rank(S, i) \in 0..(Cardinality(S) - 1)
         /\ \A i, j \in S : i < j => Rank(S, i) < Rank(S, j)
<1>1. IsFiniteSet(1..n) /\ Cardinality(1..n) = n
  BY FS_Interval
<1>2. \A T \in SUBSET (1..n) : IsFiniteSet(T) /\ Cardinality(T) \in Nat /\ Cardinality(T) <= n
  BY <1>1, FS_Subset, FS_CardinalityType
<1>3. \A i \in S : \A T \in SUBSET S :
        {j \in S : j < i} \cup {i} \subseteq T => Rank(S, i) < Cardinality(T)
  <2>1. SUFFICES ASSUME NEW i \in S, NEW T \in SUBSET S, {j \in S : j < i} \cup {i} \subseteq T
                 PROVE  Rank(S, i) < Cardinality(T)
    OBVIOUS
  <2> DEFINE B == {j \in S : j < i}
  <2>2. B \in SUBSET (1..n) /\ T \in SUBSET (1..n) /\ B \cup {i} \in SUBSET T
    BY <2>1, Zenon
  <2>. i \in Nat
    OBVIOUS
  <2>. i \notin B
    OBVIOUS
  <2>3. Cardinality(B \cup {i}) = Cardinality(B) + 1
    BY <1>2, <2>2, FS_AddElement
  <2>4. Cardinality(B \cup {i}) <= Cardinality(T)
    BY <1>2, <2>2, FS_Subset
  <2>5. Cardinality(B) \in Nat /\ Cardinality(T) \in Nat
    BY <1>2, <2>2
  <2> QED BY <2>3, <2>4, <2>5 DEF Rank
<1>4. \A i \in S : Rank(S, i) \in Nat
  BY <1>2 DEF Rank
<1>5. \A i \in S : Rank(S, i) < Cardinality(S)
  BY <1>3
<1>6. \A i, j \in S : i < j => Rank(S, i) < Rank(S, j)
  <2>1. SUFFICES ASSUME NEW i \in S, NEW j \in S, i < j PROVE Rank(S, i) < Rank(S, j)
    OBVIOUS
  <2>2. \A k \in S : k \in Nat
    OBVIOUS
  <2>3. \A k \in S : k < i => k < j
    BY <2>1, <2>2
  <2>4. {k \in S : k < i} \cup {i} \subseteq {k \in S : k < j}
    BY <2>1, <2>3, Zenon
  <2>5. {k \in S : k < j} \in SUBSET S
    BY Zenon
  <2> QED BY <1>3, <2>4, <2>5 DEF Rank
<1> QED BY <1>2, <1>4, <1>5, <1>6

\* Every number below the size of S is the rank of a member.
LEMMA RankOnto ==
  ASSUME NEW n \in Nat, NEW S \in SUBSET (1..n), NEW r \in 0..(Cardinality(S) - 1)
  PROVE  \E i \in S : Rank(S, i) = r
<1> DEFINE c == Cardinality(S)
           R == 0..(c - 1)
           f == [i \in S |-> Rank(S, i)]
<1>1. IsFiniteSet(S) /\ c \in Nat
  BY RankOrder
<1>2. IsFiniteSet(R) /\ Cardinality(R) = c
  BY <1>1, FS_Interval
<1>3. f \in Injection(S, R)
  <2>1. f \in [S -> R]
    BY RankOrder
  <2>2. ASSUME NEW i \in S, NEW j \in S, f[i] = f[j] PROVE i = j
    <3>1. i \in Nat /\ j \in Nat /\ Rank(S, i) \in Nat /\ Rank(S, j) \in Nat
      BY RankOrder
    <3>2. i < j => Rank(S, i) < Rank(S, j)
      BY RankOrder
    <3>3. j < i => Rank(S, j) < Rank(S, i)
      BY RankOrder
    <3> QED BY <2>2, <3>1, <3>2, <3>3
  <2> QED BY <2>1, <2>2 DEF Injection, IsInjective
<1>4. f \in Surjection(S, R)
  BY <1>1, <1>2, <1>3, FS_Injection
<1> QED BY <1>4 DEF Surjection

\* Below a tail that lies wholly in S, ranks count from the end.
LEMMA RankOfTail ==
  ASSUME NEW n \in Nat, NEW S \in SUBSET (1..n), NEW i \in S, i..n \subseteq S
  PROVE  Cardinality(S) - Rank(S, i) = n - i + 1
<1> DEFINE B == {j \in S : j < i}
<1>. \A k \in S : k \in 1..n
  OBVIOUS
<1>1. B \cap (i..n) = {}
  OBVIOUS
<1>6. S = B \cup (i..n)
  <2>1. \A k \in S : k < i \/ k \in i..n
    OBVIOUS
  <2> QED BY <2>1
<1>2. IsFiniteSet(B) /\ IsFiniteSet(i..n) /\ Cardinality(i..n) = n - i + 1
  BY RankOrder, FS_Subset, FS_Interval
<1>3. Cardinality({}) = 0
  BY FS_EmptySet
<1>4. Cardinality(B \cup (i..n)) = Cardinality(B) + Cardinality(i..n) - Cardinality(B \cap (i..n))
  BY <1>2, FS_Union
<1>5. Cardinality(B) \in Nat
  BY <1>2, FS_CardinalityType
<1>7. Cardinality(S) = Cardinality(B \cup (i..n))
  BY <1>6
<1>8. Cardinality(B \cap (i..n)) = 0
  BY <1>1, <1>3
<1>9. Rank(S, i) = Cardinality(B)
  BY DEF Rank
<1>10. i \in Nat
  OBVIOUS
<1> HIDE DEF B
<1> QED BY <1>2, <1>4, <1>5, <1>7, <1>8, <1>9, <1>10

-----------------------------------------------------------------------------
(* Removing a batch                                                          *)

\* The k-th slot of Without(q, b) is the kept slot of rank k - 1.
LEMMA WithoutPick ==
  ASSUME NEW T, NEW q \in Seq(T), NEW b
  PROVE  /\ Cardinality(Kept(q, b)) \in 0..Len(q)
         /\ Kept(q, b) \in SUBSET (1..Len(q))
         /\ \A k \in 1..Cardinality(Kept(q, b)) :
              \E i \in Kept(q, b) : /\ Rank(Kept(q, b), i) = k - 1
                                    /\ Without(q, b)[k] = q[i]
<1> DEFINE S == Kept(q, b)
           C == Cardinality(S)
<1>1. Len(q) \in Nat /\ DOMAIN q = 1..Len(q)
  BY LenProperties
<1>2. S \in SUBSET (1..Len(q))
  BY <1>1 DEF Kept
<1>3. C \in 0..Len(q)
  BY <1>1, <1>2, RankOrder
<1>4. ASSUME NEW k \in 1..C
      PROVE  \E i \in S : Rank(S, i) = k - 1 /\ Without(q, b)[k] = q[i]
  <2> DEFINE pick == CHOOSE i \in S : Rank(S, i) = k - 1
  <2>1. k - 1 \in 0..(C - 1)
    BY <1>3
  <2>2. \E i \in S : Rank(S, i) = k - 1
    BY <1>1, <1>2, <2>1, RankOnto
  <2>3. pick \in S /\ Rank(S, pick) = k - 1
    BY <2>2
  <2>4. Without(q, b)[k] = q[pick]
    BY DEF Without
  <2> QED BY <2>3, <2>4
<1> QED BY <1>2, <1>3, <1>4

\* Without(q, b) is a sequence of slots of q, shorter than q when b is queued.
LEMMA WithoutType ==
  ASSUME NEW T, NEW q \in Seq(T), NEW b
  PROVE  /\ Without(q, b) \in Seq(T)
         /\ Len(Without(q, b)) = Cardinality(Kept(q, b))
         /\ DOMAIN Without(q, b) = 1..Len(Without(q, b))
         /\ Len(Without(q, b)) <= Len(q)
         /\ SlotsOf(q, b) # {} => Len(Without(q, b)) < Len(q)
<1> DEFINE S == Kept(q, b)
           C == Cardinality(S)
           w == Without(q, b)
<1>1. Len(q) \in Nat /\ DOMAIN q = 1..Len(q) /\ q \in [1..Len(q) -> T]
  BY LenProperties
<1>2. C \in 0..Len(q) /\ S \in SUBSET (1..Len(q))
  BY WithoutPick
<1>3. w \in [1..C -> T]
  <2>1. \A k \in 1..C : w[k] \in T
    BY <1>1, <1>2, WithoutPick
  <2> QED BY <2>1 DEF Without
<1>4. w \in Seq(T) /\ Len(w) = C
  <2>1. C \in Nat
    BY <1>2
  <2> HIDE DEF w, C
  <2> QED BY <1>3, <2>1
<1>5. ASSUME SlotsOf(q, b) # {} PROVE C # Len(q)
  <2>1. IsFiniteSet(1..Len(q)) /\ Cardinality(1..Len(q)) = Len(q)
    BY SMTT(30), <1>1, FS_Interval
  <2>2. S # 1..Len(q)
    BY <1>1, <1>5 DEF Kept, SlotsOf
  <2> QED BY <1>2, <2>1, <2>2, FS_Subset
<1> HIDE DEF w, C, S
<1>6. DOMAIN w = 1..Len(w)
  BY <1>4, LenProperties
<1> QED BY <1>1, <1>2, <1>4, <1>5, <1>6 DEF w, C, S

\* m maps the positions of w to those of q they came from: in order, and all that
\* do not hold b.  Where no b follows, the distance to the end is unchanged.
Embeds(m, w, q, b) ==
  /\ m \in [1..Len(w) -> 1..Len(q)]
  /\ \A k \in 1..Len(w) : w[k] = q[m[k]] /\ q[m[k]].batchId # b
  /\ \A k, l \in 1..Len(w) : k < l => m[k] < m[l]
  /\ \A i \in 1..Len(q) : q[i].batchId # b => \E k \in 1..Len(w) : m[k] = i
  /\ \A k \in 1..Len(w) :
       (\A j \in m[k]..Len(q) : q[j].batchId # b) => Len(w) - k = Len(q) - m[k]

\* Without(q, b) is embedded in q.
LEMMA WithoutEmbeds ==
  ASSUME NEW T, NEW q \in Seq(T), NEW b
  PROVE  \E m : Embeds(m, Without(q, b), q, b)
<1> DEFINE S == Kept(q, b)
           w == Without(q, b)
           m == [k \in 1..Len(w) |-> CHOOSE i \in S : Rank(S, i) = k - 1 /\ w[k] = q[i]]
<1>1. Len(q) \in Nat /\ DOMAIN q = 1..Len(q)
  BY LenProperties
<1>2. S \in SUBSET (1..Len(q)) /\ Len(w) = Cardinality(S) /\ Len(w) \in Nat
  BY WithoutPick, WithoutType, LenProperties
<1>3. \A i \in 1..Len(q) : i \in S <=> q[i].batchId # b
  BY <1>1 DEF Kept, SlotsOf
<1>4. \A k \in 1..Len(w) : m[k] \in S /\ Rank(S, m[k]) = k - 1 /\ w[k] = q[m[k]]
  <2>1. SUFFICES ASSUME NEW k \in 1..Len(w)
                 PROVE  \E i \in S : Rank(S, i) = k - 1 /\ w[k] = q[i]
    OBVIOUS
  <2> QED BY <1>2, WithoutPick
<1>5. \A i, j \in S : i \in Nat /\ j \in Nat /\ Rank(S, i) \in Nat /\ (i < j => Rank(S, i) < Rank(S, j))
  BY <1>1, <1>2, RankOrder
<1>6. \A i \in S : Rank(S, i) \in 0..(Len(w) - 1)
  BY <1>1, <1>2, RankOrder
<1>7. m \in [1..Len(w) -> 1..Len(q)]
  BY <1>2, <1>4
<1> HIDE DEF m, w, S
<1>8. ASSUME NEW k \in 1..Len(w), NEW l \in 1..Len(w), k < l PROVE m[k] < m[l]
  <2>1. m[k] \in S /\ m[l] \in S /\ Rank(S, m[k]) < Rank(S, m[l])
    BY <1>2, <1>4, <1>8
  <2>2. m[l] < m[k] => Rank(S, m[l]) < Rank(S, m[k])
    BY <1>5, <2>1
  <2>3. m[k] # m[l]
    BY <1>5, <2>1
  <2> QED BY <1>5, <2>1, <2>2, <2>3
<1>9. ASSUME NEW i \in 1..Len(q), q[i].batchId # b PROVE \E k \in 1..Len(w) : m[k] = i
  <2>1. i \in S
    BY <1>3, <1>9
  <2> DEFINE k == Rank(S, i) + 1
  <2>2. k \in 1..Len(w) /\ Rank(S, m[k]) = Rank(S, i) /\ m[k] \in S
    BY <1>2, <1>4, <1>6, <2>1
  <2> HIDE DEF k
  <2>3. m[k] = i
    <3>1. m[k] < i => Rank(S, m[k]) < Rank(S, i)
      BY <1>5, <2>1, <2>2
    <3>2. i < m[k] => Rank(S, i) < Rank(S, m[k])
      BY <1>5, <2>1, <2>2
    <3>3. m[k] \in Nat /\ i \in Nat /\ Rank(S, i) \in Nat
      BY <1>5, <2>1, <2>2
    <3> QED BY <2>2, <3>1, <3>2, <3>3
  <2> QED BY <2>2, <2>3
<1>10. ASSUME NEW k \in 1..Len(w), \A j \in m[k]..Len(q) : q[j].batchId # b
       PROVE  Len(w) - k = Len(q) - m[k]
  <2>1. m[k] \in S /\ m[k] \in 1..Len(q) /\ Rank(S, m[k]) = k - 1
    BY <1>4, <1>7
  <2>2. m[k]..Len(q) \subseteq S
    BY <1>1, <1>3, <1>10, <2>1
  <2>3. Cardinality(S) - Rank(S, m[k]) = Len(q) - m[k] + 1
    BY <1>1, <1>2, <2>1, <2>2, RankOfTail
  <2> QED BY <1>1, <1>2, <2>1, <2>3
<1>11. \A k \in 1..Len(w) : w[k] = q[m[k]] /\ q[m[k]].batchId # b
  BY <1>3, <1>4, <1>7
<1>12. Embeds(m, w, q, b)
  BY <1>7, <1>8, <1>9, <1>10, <1>11 DEF Embeds
<1> QED BY <1>12 DEF w

-----------------------------------------------------------------------------
(* Types                                                                     *)

\* The victim search finds the first evictable slot, or returns 0.
LEMMA OldestFound ==
  ASSUME NEW T, NEW q \in Seq(T), NEW open, NEW onlyClosed \in BOOLEAN
  PROVE  \/ /\ OldestMsmBatch(q, open, onlyClosed) = 0
            /\ Evictable(q, open, onlyClosed) = {}
         \/ \E p \in Evictable(q, open, onlyClosed) :
              /\ OldestMsmBatch(q, open, onlyClosed) = q[p].batchId
              /\ \A i \in Evictable(q, open, onlyClosed) : p <= i
<1> DEFINE S == Evictable(q, open, onlyClosed)
<1>1. S \subseteq Nat
  BY LenProperties DEF Evictable
<1>2. CASE S = {}
  BY <1>2 DEF OldestMsmBatch
<1>3. CASE S # {}
  <2>1. Min(S) \in S /\ \A x \in S : Min(S) <= x
    BY <1>1, <1>3, MinOfNats
  <2>2. OldestMsmBatch(q, open, onlyClosed) = q[Min(S)].batchId
    BY <1>3 DEF OldestMsmBatch
  <2> HIDE DEF S
  <2> QED BY <2>1, <2>2 DEF S
<1> QED BY <1>2, <1>3

\* A batch the search returns is queued, and an MSM batch.
LEMMA OldestQueued ==
  ASSUME NEW T, NEW q \in Seq(T), NEW open, NEW onlyClosed \in BOOLEAN,
         OldestMsmBatch(q, open, onlyClosed) # 0
  PROVE  SlotsOf(q, OldestMsmBatch(q, open, onlyClosed)) # {}
<1>1. PICK p \in Evictable(q, open, onlyClosed) :
        OldestMsmBatch(q, open, onlyClosed) = q[p].batchId
  BY OldestFound
<1>2. p \in SlotsOf(q, OldestMsmBatch(q, open, onlyClosed))
  BY <1>1 DEF SlotsOf, Evictable
<1> QED BY <1>2

\* The victim of a frame that is not MSM is a queued batch.
LEMMA VictimQueued ==
  ASSUME NEW T, NEW q \in Seq(T), NEW open, VictimBatch(q, open) # 0
  PROVE  SlotsOf(q, VictimBatch(q, open)) # {}
<1>1. \/ VictimBatch(q, open) = OldestMsmBatch(q, open, TRUE)
      \/ VictimBatch(q, open) = OldestMsmBatch(q, open, FALSE)
  BY DEF VictimBatch
<1>2. CASE VictimBatch(q, open) = OldestMsmBatch(q, open, TRUE)
  <2>1. SlotsOf(q, OldestMsmBatch(q, open, TRUE)) # {}
    BY <1>2, OldestQueued
  <2> QED BY <1>2, <2>1
<1>3. CASE VictimBatch(q, open) = OldestMsmBatch(q, open, FALSE)
  <2>1. SlotsOf(q, OldestMsmBatch(q, open, FALSE)) # {}
    BY <1>3, OldestQueued
  <2> QED BY <1>3, <2>1
<1> QED BY <1>1, <1>2, <1>3

\* A batch number is never 0.
LEMMA NextBatchType ==
  ASSUME NEW b \in 1..MaxBatch
  PROVE  NextBatch(b) \in 1..MaxBatch
BY SizesAssumption DEF NextBatch

\* What a frame is filed under.
LEMMA AssignedType ==
  ASSUME TypeOK, NEW f \in Frames
  PROVE  /\ AssignedBatch(f) \in 1..MaxBatch
         /\ AssignedFam(f) \subseteq [family : Nat, epoch : Nat]
<1>1. AssignedBatch(f) \in 1..MaxBatch
  BY NextBatchType DEF TypeOK, AssignedBatch
<1>2. Family(f) \in Nat /\ MsmEpoch30(f) \in Nat
  <2>1. f.type \in MessageTypes /\ f.epoch \in Nat
    BY Zenon, FramesAssumption
  <2>2. \A t \in MessageTypes : t \div 10 \in Nat
    BY SMT DEF MessageTypes
  <2>3. Family(f) \in Nat
    BY Zenon, <2>1, <2>2 DEF Family
  <2>4. MsmEpoch30(f) = 0 \/ MsmEpoch30(f) = f.epoch
    BY Zenon DEF MsmEpoch30
  <2>5. 0 \in Nat
    BY SMT
  <2> QED BY Zenon, <2>1, <2>3, <2>4, <2>5
<1>3. FamEntry(f) \in [family : Nat, epoch : Nat]
  BY <1>2 DEF FamEntry
<1> QED BY <1>1, <1>3 DEF TypeOK, AssignedFam

\* A batch has between none and all of the slots.
LEMMA SlotsOfSize ==
  ASSUME NEW T, NEW q \in Seq(T), NEW b
  PROVE  Cardinality(SlotsOf(q, b)) \in Nat
<1>1. SlotsOf(q, b) \in SUBSET (1..Len(q)) /\ Len(q) \in Nat
  BY LenProperties DEF SlotsOf
<1> QED BY <1>1, RankOrder

\* The counters keep their width.
LEMMA NoteDropType ==
  ASSUME drops \in [DropFields -> 0..(CounterMod - 1)], NEW reason \in DropReasons, NEW n \in Nat
  PROVE  NoteDrop(reason, n) \in [DropFields -> 0..(CounterMod - 1)]
<1>1. \A x \in 0..(CounterMod - 1) : (x + n) % CounterMod \in 0..(CounterMod - 1)
  BY SizesAssumption
<1>2. reason \in DropFields /\ "frames" \in DropFields
  BY DEF DropFields
<1> QED BY <1>1, <1>2 DEF NoteDrop

\* The window keeps within the configured size.
LEMMA SampleType ==
  ASSUME TypeOK, NEW drop \in BOOLEAN, Sample(drop), cfg' = cfg
  PROVE  window' \in Seq(BOOLEAN) /\ Len(window') <= cfg'.windowN
<1> DEFINE held == IF Len(window) >= cfg.windowN THEN Tail(window) ELSE window
<1>1. cfg.windowN \in Nat \ {0} /\ window \in Seq(BOOLEAN) /\ Len(window) \in Nat
  BY LenProperties DEF TypeOK, Config
<1>2. held \in Seq(BOOLEAN) /\ Len(held) \in Nat /\ Len(held) < cfg.windowN
  <2>1. CASE Len(window) >= cfg.windowN
    <3>1. window # <<>>
      BY <1>1, <2>1
    <3>2. Tail(window) \in Seq(BOOLEAN) /\ Len(Tail(window)) = Len(window) - 1
      BY <1>1, <3>1, HeadTailProperties
    <3>3. held = Tail(window) /\ Len(window) <= cfg.windowN
      BY <2>1 DEF TypeOK
    <3> HIDE DEF held
    <3> QED BY <1>1, <3>2, <3>3
  <2>2. CASE ~ (Len(window) >= cfg.windowN)
    BY <1>1, <2>2
  <2> QED BY <2>1, <2>2
<1>3. window' = Append(held, drop)
  BY DEF Sample
<1> HIDE DEF held
<1> QED BY <1>1, <1>2, <1>3

\* A slot for a storable frame.
LEMMA NewSlotType ==
  ASSUME NEW f \in Frames, Storable(f), NEW b \in 0..MaxBatch
  PROVE  NewSlot(f, b) \in Slots
BY DEF NewSlot, Slots

\* Removing a queued batch makes room for one more slot.
LEMMA EvictAppendType ==
  ASSUME TypeOK, NEW b, SlotsOf(queue, b) # {}, NEW s \in Slots
  PROVE  /\ Append(Without(queue, b), s) \in Seq(Slots)
         /\ Len(Append(Without(queue, b), s)) <= Depth
<1>1. /\ Without(queue, b) \in Seq(Slots) /\ Len(Without(queue, b)) < Len(queue)
      /\ Len(queue) \in Nat /\ Len(queue) <= Depth
  BY WithoutType, LenProperties DEF TypeOK
<1>2. Len(Without(queue, b)) \in Nat
  BY <1>1, LenProperties
<1> QED BY <1>1, <1>2, SizesAssumption

\* The initial state has its type.
LEMMA InitType == Init => TypeOK
<1> SUFFICES ASSUME Init PROVE TypeOK
  OBVIOUS
<1>1. queue \in Seq(Slots) /\ Len(queue) <= Depth
  BY SizesAssumption, EmptySeq DEF Init
<1>2. openBatch \in 1..MaxBatch /\ drops \in [DropFields -> 0..(CounterMod - 1)]
  BY SizesAssumption DEF Init
<1>3. cfg \in Config
  BY Zenon, ConfigsAssumption DEF Init
<1>4. window \in Seq(BOOLEAN) /\ Len(window) <= cfg.windowN
  BY <1>3, EmptySeq DEF Init, Config
<1> QED BY <1>1, <1>2, <1>3, <1>4 DEF Init, TypeOK

\* What is left to show of a push once its counters and sample are typed.
LEMMA PushTail ==
  ASSUME TypeOK,
         queue' \in Seq(Slots), Len(queue') <= Depth,
         openBatch' \in 1..MaxBatch, fam' \subseteq [family : Nat, epoch : Nat],
         \/ drops' = drops
         \/ \E reason \in DropReasons, n \in Nat : drops' = NoteDrop(reason, n),
         \E drop \in BOOLEAN : Sample(drop),
         cfg' = cfg
  PROVE  TypeOK'
<1>1. drops' \in [DropFields -> 0..(CounterMod - 1)]
  BY NoteDropType DEF TypeOK
<1>2. window' \in Seq(BOOLEAN) /\ Len(window') <= cfg'.windowN
  BY SampleType
<1> QED BY <1>1, <1>2 DEF TypeOK

\* A push of a frame that is not MSM keeps every type.
LEMMA PlainType ==
  ASSUME TypeOK, NEW f \in Frames, Storable(f), NEW reason \in DropReasons,
         ReplaceProtected(f) \/ StorePlain(f) \/ EvictForPlain(f) \/ RefusePlain(reason)
  PROVE  TypeOK'
<1>1. NewSlot(f, 0) \in Slots
  BY NewSlotType, SizesAssumption
<1>2. 1 \in Nat /\ TRUE \in BOOLEAN /\ FALSE \in BOOLEAN
      /\ "byMsmEpoch" \in DropReasons /\ "byReplacedProtected" \in DropReasons
  BY DEF DropReasons
<1>3. queue \in Seq(Slots) /\ Len(queue) \in Nat /\ Len(queue) <= Depth
  BY LenProperties DEF TypeOK
<1>4. openBatch \in 1..MaxBatch /\ fam \subseteq [family : Nat, epoch : Nat]
  BY DEF TypeOK
<1>5. CASE ReplaceProtected(f)
  <2>1. PICK i \in DOMAIN queue : queue' = [queue EXCEPT ![i] = NewSlot(f, 0)]
    BY <1>5 DEF ReplaceProtected
  <2>2. queue' \in Seq(Slots) /\ Len(queue') = Len(queue)
    BY <1>1, <1>3, <2>1, ExceptSeq, LenProperties
  <2> QED BY <1>2, <1>3, <1>4, <1>5, <2>2, PushTail DEF ReplaceProtected
<1>6. CASE StorePlain(f)
  <2>1. queue' \in Seq(Slots) /\ Len(queue') <= Depth
    BY <1>1, <1>3, <1>6, SizesAssumption DEF StorePlain
  <2> QED BY <1>2, <1>4, <1>6, <2>1, PushTail DEF StorePlain
<1>7. CASE EvictForPlain(f)
  <2> DEFINE victim == VictimBatch(queue, openBatch)
  <2>1. victim # 0 /\ queue' = Append(Without(queue, victim), NewSlot(f, 0))
    BY <1>7 DEF EvictForPlain
  <2>2. SlotsOf(queue, victim) # {}
    BY <1>3, <2>1, VictimQueued
  <2>3. queue' \in Seq(Slots) /\ Len(queue') <= Depth
    BY <1>1, <2>1, <2>2, EvictAppendType
  <2>4. openBatch' \in 1..MaxBatch /\ fam' \subseteq [family : Nat, epoch : Nat]
    BY <1>4, <1>7, NextBatchType DEF EvictForPlain
  <2>5. \E n \in Nat : drops' = NoteDrop("byMsmEpoch", n)
    BY <1>3, <1>7, SlotsOfSize DEF EvictForPlain
  <2> QED BY <1>2, <1>7, <2>3, <2>4, <2>5, PushTail DEF EvictForPlain
<1>8. CASE RefusePlain(reason)
  BY <1>2, <1>3, <1>4, <1>8, PushTail DEF RefusePlain
<1> QED BY <1>5, <1>6, <1>7, <1>8

\* A push of an MSM frame keeps every type.
LEMMA MsmType ==
  ASSUME TypeOK, NEW f \in Frames, PushMsm(f)
  PROVE  TypeOK'
<1> DEFINE b == AssignedBatch(f)
<1>1. b \in 1..MaxBatch /\ b \in 0..MaxBatch /\ AssignedFam(f) \subseteq [family : Nat, epoch : Nat]
  BY AssignedType, SizesAssumption
<1>2. NewSlot(f, b) \in Slots
  BY <1>1, NewSlotType DEF PushMsm
<1>3. 1 \in Nat /\ TRUE \in BOOLEAN /\ FALSE \in BOOLEAN
      /\ "byMsmEpoch" \in DropReasons /\ "byQueueFull" \in DropReasons
  BY DEF DropReasons
<1>4. queue \in Seq(Slots) /\ Len(queue) \in Nat /\ Len(queue) <= Depth
  BY LenProperties DEF TypeOK
<1>5. CASE StoreMsm(f)
  <2>1. queue' \in Seq(Slots) /\ Len(queue') <= Depth
    BY <1>2, <1>4, <1>5, SizesAssumption DEF StoreMsm
  <2> QED BY <1>1, <1>3, <1>5, <2>1, PushTail DEF StoreMsm
<1>6. CASE EvictForMsm(f)
  <2> DEFINE older == OldestMsmBatch(queue, b, TRUE)
  <2>1. older # 0 /\ queue' = Append(Without(queue, older), NewSlot(f, b))
    BY <1>6 DEF EvictForMsm
  <2>2. SlotsOf(queue, older) # {}
    BY <1>3, <1>4, <2>1, OldestQueued
  <2>3. queue' \in Seq(Slots) /\ Len(queue') <= Depth
    BY <1>2, <2>1, <2>2, EvictAppendType
  <2>4. \E n \in Nat : drops' = NoteDrop("byMsmEpoch", n)
    BY <1>4, <1>6, SlotsOfSize DEF EvictForMsm
  <2> QED BY <1>1, <1>3, <1>6, <2>3, <2>4, PushTail DEF EvictForMsm
<1>7. CASE DropOpenEpoch(f)
  <2>1. queue' \in Seq(Slots) /\ Len(queue') <= Depth
    <3>1. queue' \in Seq(Slots) /\ Len(queue') <= Len(queue)
      BY <1>4, <1>7, WithoutType DEF DropOpenEpoch
    <3>2. Len(queue') \in Nat
      BY <3>1, LenProperties
    <3> QED BY <1>4, <3>1, <3>2, SizesAssumption
  <2>2. openBatch' \in 1..MaxBatch /\ fam' \subseteq [family : Nat, epoch : Nat]
    BY <1>1, <1>7, NextBatchType DEF DropOpenEpoch
  <2>3. \E n \in Nat : drops' = NoteDrop("byMsmEpoch", n)
    <3>1. Cardinality(SlotsOf(queue, b)) + 1 \in Nat
      BY <1>4, SlotsOfSize
    <3> QED BY <1>7, <3>1 DEF DropOpenEpoch
  <2> QED BY <1>3, <1>7, <2>1, <2>2, <2>3, PushTail DEF DropOpenEpoch
<1>8. CASE RefuseMsm(f)
  BY <1>1, <1>3, <1>4, <1>8, PushTail DEF RefuseMsm
<1> QED BY <1>5, <1>6, <1>7, <1>8 DEF PushMsm

\* Every step keeps every type.
LEMMA TypeStep == TypeOK /\ [Next]_vars => TypeOK'
<1> SUFFICES ASSUME TypeOK, [Next]_vars PROVE TypeOK'
  OBVIOUS
<1>1. ASSUME NEW f \in Frames, PushOversize(f) PROVE TypeOK'
  <2>1. 1 \in Nat /\ TRUE \in BOOLEAN /\ "byOversize" \in DropReasons
    BY DEF DropReasons
  <2> QED BY <1>1, <2>1, PushTail DEF PushOversize, TypeOK
<1>2. ASSUME NEW f \in Frames, PushProtected(f) PROVE TypeOK'
  <2>1. "byProtectedKept" \in DropReasons
    BY DEF DropReasons
  <2> QED BY <1>2, <2>1, PlainType DEF PushProtected
<1>3. ASSUME NEW f \in Frames, PushOther(f) PROVE TypeOK'
  <2>1. "byQueueFull" \in DropReasons
    BY DEF DropReasons
  <2> QED BY <1>3, <2>1, PlainType DEF PushOther
<1>4. ASSUME NEW f \in Frames, PushMsm(f) PROVE TypeOK'
  BY <1>4, MsmType
<1>5. ASSUME NEW w \in Writable, Pull(w) PROVE TypeOK'
  <2>1. queue' \in Seq(Slots) /\ Len(queue') = Len(queue) - 1 /\ Len(queue) \in Nat
    BY <1>5, HeadTailProperties, LenProperties DEF Pull, TypeOK
  <2>2. Len(queue') <= Depth
    BY <2>1, SizesAssumption DEF TypeOK
  <2> QED BY <1>5, <2>1, <2>2 DEF Pull, TypeOK
<1>6. CASE Clear
  BY <1>6, SizesAssumption, EmptySeq DEF Clear, TypeOK
<1>7. CASE ResetDrops
  BY <1>7, SizesAssumption DEF ResetDrops, TypeOK
<1>8. CASE ClearUnhealthy
  BY <1>8, EmptySeq DEF ClearUnhealthy, TypeOK, Config
<1>9. ASSUME NEW c \in Configs, SetConfig(c) PROVE TypeOK'
  <2>1. c \in AnyConfig
    BY Zenon, ConfigsAssumption
  <2>2. cfg' \in Config
    BY <1>9, <2>1, SizesAssumption DEF AnyConfig, SetConfig, Normalised, Config
  <2>3. window' \in Seq(BOOLEAN) /\ Len(window') <= cfg'.windowN
    BY <1>9, <2>2, EmptySeq DEF SetConfig, Config
  <2> QED BY <1>9, <2>2, <2>3 DEF SetConfig, TypeOK
<1>10. CASE UNCHANGED vars
  BY <1>10 DEF vars, TypeOK
<1> QED BY <1>1, <1>2, <1>3, <1>4, <1>5, <1>6, <1>7, <1>8, <1>9, <1>10 DEF Next, Push

\* The queue never outgrows its slots, batches are never numbered 0, counters and
\* window keep their widths, whatever is pushed, pulled and configured.
THEOREM TypeCorrect == Spec => []TypeOK
BY InitType, TypeStep, PTL DEF Spec

-----------------------------------------------------------------------------
(* The invariant of the slots                                                *)

\* Different batches have different ages; opening one batch ages the others by 1.
LEMMA AgeFacts ==
  ASSUME NEW open \in 1..MaxBatch, NEW b \in 1..MaxBatch
  PROVE  /\ AgeIn(open, b) \in 0..(MaxBatch - 1)
         /\ AgeIn(open, b) = 0 <=> b = open
         /\ \A c \in 1..MaxBatch : AgeIn(open, b) = AgeIn(open, c) => b = c
         /\ AgeIn(open, b) < MaxBatch - 1
              => AgeIn(NextBatch(open), b) = AgeIn(open, b) + 1
BY SizesAssumption DEF AgeIn, NextBatch

\* What the type of the queue says of one slot.
LEMMA SlotsFacts ==
  ASSUME NEW q \in Seq(Slots)
  PROVE  /\ Len(q) \in Nat /\ DOMAIN q = 1..Len(q)
         /\ \A i \in DOMAIN q : /\ q[i].frame \in Frames
                                /\ q[i].batchId \in 0..MaxBatch
                                /\ q[i].batchId # 0 => q[i].batchId \in 1..MaxBatch
<1>1. Len(q) \in Nat /\ DOMAIN q = 1..Len(q) /\ q \in [1..Len(q) -> Slots]
  BY LenProperties
<1>2. \A s \in Slots : s.frame \in Frames /\ s.batchId \in 0..MaxBatch
  BY DEF Slots
<1> QED BY <1>1, <1>2, SizesAssumption

\* No frame of batch v lies behind an MSM frame of another batch.
VictimFirst(q, v) ==
  \A i, j \in DOMAIN q : (i < j /\ q[i].batchId \notin {0, v}) => q[j].batchId # v

\* The oldest closed batch is the first in the queue.
LEMMA OldestClosedFirst ==
  ASSUME NEW q \in Seq(Slots), NEW open \in 1..MaxBatch, OrderedIn(q, open),
         OldestMsmBatch(q, open, TRUE) # 0
  PROVE  VictimFirst(q, OldestMsmBatch(q, open, TRUE)) /\ OldestMsmBatch(q, open, TRUE) # open
<1> DEFINE v == OldestMsmBatch(q, open, TRUE)
<1>1. PICK p \in Evictable(q, open, TRUE) :
        v = q[p].batchId /\ \A i \in Evictable(q, open, TRUE) : p <= i
  BY OldestFound
<1>2. p \in DOMAIN q /\ v # 0 /\ v # open
  BY <1>1 DEF Evictable
<1> HIDE DEF v
<1>3. ASSUME NEW i \in DOMAIN q, NEW j \in DOMAIN q, i < j,
             q[i].batchId \notin {0, v}, q[j].batchId = v
      PROVE  FALSE
  <2> DEFINE c == q[i].batchId
  <2>1. c \in 1..MaxBatch /\ v \in 1..MaxBatch /\ c # v
    BY <1>1, <1>2, <1>3, SlotsFacts
  <2> HIDE DEF c
  <2>2. AgeIn(open, c) >= AgeIn(open, v)
    BY <1>2, <1>3 DEF OrderedIn, c
  <2>3. CASE c = open
    BY <1>2, <2>1, <2>2, <2>3, AgeFacts
  <2>4. CASE c # open
    <3>1. i \in Evictable(q, open, TRUE)
      BY <1>3, <2>4 DEF Evictable, c
    <3>2. p < i
      <4>1. p <= i /\ p # i
        BY <1>1, <1>3, <3>1
      <4>2. p \in Nat /\ i \in Nat
        BY <1>2, <1>3, SlotsFacts
      <4> QED BY <4>1, <4>2
    <3>3. AgeIn(open, v) >= AgeIn(open, c)
      BY <1>1, <1>2, <1>3, <3>2 DEF OrderedIn, c
    <3>4. AgeIn(open, v) \in Int /\ AgeIn(open, c) \in Int
      BY <2>1, AgeFacts
    <3> QED BY <2>1, <2>2, <3>3, <3>4, AgeFacts
  <2> QED BY <2>3, <2>4
<1> QED BY <1>2, <1>3 DEF VictimFirst, v

\* With no closed batch queued, every MSM frame is of the open one.
LEMMA OnlyOpenQueued ==
  ASSUME NEW T, NEW q \in Seq(T), NEW open, OldestMsmBatch(q, open, TRUE) = 0
  PROVE  \A i \in DOMAIN q : q[i].batchId \in {0, open}
<1>1. \A p \in Evictable(q, open, TRUE) : q[p].batchId # 0
  BY DEF Evictable
<1>2. Evictable(q, open, TRUE) = {}
  BY <1>1, OldestFound
<1> QED BY <1>2 DEF Evictable

\* Evicting the first batch keeps the invariant of the slots.
LEMMA WithoutInv ==
  ASSUME NEW q \in Seq(Slots), NEW open \in 1..MaxBatch, NEW entries, NEW slack \in Nat,
         NEW v, VictimFirst(q, v), SlotsInv(q, open, entries, slack)
  PROVE  SlotsInv(Without(q, v), open, entries, slack)
<1> DEFINE w == Without(q, v)
<1>1. w \in Seq(Slots) /\ Len(w) \in Nat /\ DOMAIN w = 1..Len(w)
  BY WithoutType, LenProperties
<1>2. Len(q) \in Nat /\ DOMAIN q = 1..Len(q)
  BY SlotsFacts
<1>3. PICK m : Embeds(m, w, q, v)
  BY WithoutEmbeds
<1>4. /\ m \in [DOMAIN w -> DOMAIN q]
      /\ \A k \in DOMAIN w : w[k] = q[m[k]] /\ q[m[k]].batchId # v
      /\ \A k, l \in DOMAIN w : k < l => m[k] < m[l]
  BY <1>1, <1>2, <1>3 DEF Embeds
<1> HIDE DEF w
<1>5. \A k, l \in DOMAIN w : m[k] = m[l] => k = l
  <2>1. SUFFICES ASSUME NEW k \in DOMAIN w, NEW l \in DOMAIN w, m[k] = m[l], k # l PROVE FALSE
    OBVIOUS
  <2>2. k < l \/ l < k
    BY <1>1, <2>1
  <2>3. m[k] \in Nat /\ m[l] \in Nat
    BY <1>2, <1>4
  <2> QED BY <1>4, <2>1, <2>2, <2>3
<1>6. MsmMarkedIn(w) /\ RegisteredIn(w, open, entries) /\ KeyedByFamily(entries)
  BY <1>4 DEF SlotsInv, MsmMarkedIn, RegisteredIn
<1>7. OrderedIn(w, open)
  BY <1>4 DEF SlotsInv, OrderedIn
<1>8. OneEpochIn(w)
  BY <1>4 DEF SlotsInv, OneEpochIn
<1>9. ProtectedOnceIn(w)
  BY <1>4, <1>5 DEF SlotsInv, ProtectedOnceIn
<1>10. ASSUME NEW k \in DOMAIN w, w[k].batchId # 0
       PROVE  AgeIn(open, w[k].batchId) <= Len(w) - k + slack
  <2>1. m[k] \in DOMAIN q /\ w[k] = q[m[k]] /\ q[m[k]].batchId \notin {0, v}
    BY <1>4, <1>10
  <2>2. \A j \in m[k]..Len(q) : q[j].batchId # v
    BY <1>2, <2>1 DEF VictimFirst
  <2>3. Len(w) - k = Len(q) - m[k]
    BY <1>1, <1>3, <2>2 DEF Embeds
  <2>4. AgeIn(open, w[k].batchId) <= Len(q) - m[k] + slack
    BY <2>1 DEF SlotsInv, AgedIn
  <2> QED BY <2>3, <2>4
<1>11. AgedIn(w, open, slack)
  BY <1>10 DEF AgedIn
<1> QED BY <1>6, <1>7, <1>8, <1>9, <1>11 DEF SlotsInv, w

\* No type is both protected and MSM.
LEMMA ProtectedNotMsm ==
  ASSUME NEW t, IsProtected(t)
  PROVE  ~ IsMsm(t)
<1>1. t \in {1005, 1006, 1230}
  BY DEF IsProtected
<1>2. t \notin 1071..1137
  BY <1>1
<1> QED BY <1>2 DEF IsMsm

\* Appending a slot: the old slots are where they were.
LEMMA AppendFacts ==
  ASSUME NEW q \in Seq(Slots), NEW s \in Slots
  PROVE  /\ Len(Append(q, s)) = Len(q) + 1 /\ Len(q) \in Nat
         /\ DOMAIN q = 1..Len(q) /\ DOMAIN Append(q, s) = 1..(Len(q) + 1)
         /\ \A i \in 1..Len(q) : Append(q, s)[i] = q[i]
         /\ Append(q, s)[Len(q) + 1] = s
         /\ \A i \in DOMAIN Append(q, s) : i \in 1..Len(q) \/ i = Len(q) + 1
<1>1. Len(q) \in Nat /\ DOMAIN q = 1..Len(q)
  BY LenProperties
<1>2. Append(q, s) \in Seq(Slots) /\ Len(Append(q, s)) = Len(q) + 1
  BY <1>1
<1>3. DOMAIN Append(q, s) = 1..(Len(q) + 1)
  BY <1>2, LenProperties
<1> QED BY <1>1, <1>2, <1>3

\* Storing a frame of no batch, of a protected type only if none is queued.
LEMMA AppendPlainInv ==
  ASSUME NEW q \in Seq(Slots), NEW open \in 1..MaxBatch, NEW entries, SlotsInv(q, open, entries, 0),
         NEW f \in Frames, Storable(f), ~ IsMsm(f.type),
         IsProtected(f.type) => \A i \in DOMAIN q : q[i].frame.type # f.type
  PROVE  SlotsInv(Append(q, NewSlot(f, 0)), open, entries, 0)
<1> DEFINE s == NewSlot(f, 0)
           w == Append(q, s)
<1>1. s \in Slots /\ s.batchId = 0 /\ s.frame = f
  BY NewSlotType, SizesAssumption DEF NewSlot
<1> HIDE DEF s
<1>2. /\ Len(w) = Len(q) + 1 /\ Len(q) \in Nat
      /\ DOMAIN q = 1..Len(q) /\ DOMAIN w = 1..(Len(q) + 1)
      /\ \A i \in 1..Len(q) : w[i] = q[i]
      /\ w[Len(q) + 1] = s
      /\ \A i \in DOMAIN w : i \in 1..Len(q) \/ i = Len(q) + 1
  BY <1>1, AppendFacts
<1> HIDE DEF w
<1>3. MsmMarkedIn(w)
  BY <1>1, <1>2 DEF SlotsInv, MsmMarkedIn
<1>4. RegisteredIn(w, open, entries)
  <2>1. s.batchId # open
    BY <1>1
  <2> QED BY <1>2, <2>1 DEF SlotsInv, RegisteredIn
<1>5. OrderedIn(w, open)
  <2>1. \A i \in DOMAIN w : w[i].batchId # 0 => i \in DOMAIN q /\ w[i] = q[i]
    BY <1>1, <1>2
  <2> QED BY <2>1 DEF SlotsInv, OrderedIn
<1>6. AgedIn(w, open, 0)
  <2>1. SUFFICES ASSUME NEW i \in DOMAIN w, w[i].batchId # 0
                 PROVE  AgeIn(open, w[i].batchId) <= Len(w) - i + 0
    BY DEF AgedIn
  <2>2. i \in DOMAIN q /\ w[i] = q[i]
    BY <1>1, <1>2, <2>1
  <2>3. AgeIn(open, q[i].batchId) <= Len(q) - i + 0
    BY <2>1, <2>2 DEF SlotsInv, AgedIn
  <2>4. AgeIn(open, q[i].batchId) \in Nat
    BY <2>1, <2>2, SlotsFacts, AgeFacts
  <2> QED BY <1>2, <2>2, <2>3, <2>4
<1>7. OneEpochIn(w)
  <2>1. \A i \in DOMAIN w : w[i].batchId # 0 => i \in DOMAIN q /\ w[i] = q[i]
    BY <1>1, <1>2
  <2> QED BY <2>1 DEF SlotsInv, OneEpochIn
<1>8. ProtectedOnceIn(w)
  <2>1. SUFFICES ASSUME NEW i \in DOMAIN w, NEW j \in DOMAIN w,
                        IsProtected(w[i].frame.type), w[i].frame.type = w[j].frame.type
                 PROVE  i = j
    BY DEF ProtectedOnceIn
  <2>2. CASE i \in DOMAIN q /\ j \in DOMAIN q
    BY <1>2, <2>1, <2>2 DEF SlotsInv, ProtectedOnceIn
  <2>3. CASE i \notin DOMAIN q /\ j \in DOMAIN q
    BY <1>1, <1>2, <2>1, <2>3
  <2>4. CASE i \in DOMAIN q /\ j \notin DOMAIN q
    BY <1>1, <1>2, <2>1, <2>4
  <2>5. CASE i \notin DOMAIN q /\ j \notin DOMAIN q
    BY <1>2, <2>5
  <2> QED BY <2>2, <2>3, <2>4, <2>5
<1> QED BY <1>3, <1>4, <1>5, <1>6, <1>7, <1>8 DEF SlotsInv, w, s

\* Storing an MSM frame in the batch it is registered in takes up the slack.
LEMMA AppendMsmInv ==
  ASSUME NEW q \in Seq(Slots), NEW open \in 1..MaxBatch, NEW entries, SlotsInv(q, open, entries, 1),
         NEW f \in Frames, Storable(f), IsMsm(f.type), FamEntry(f) \in entries
  PROVE  SlotsInv(Append(q, NewSlot(f, open)), open, entries, 0)
<1> DEFINE s == NewSlot(f, open)
           w == Append(q, s)
<1>1. s \in Slots /\ s.batchId = open /\ s.frame = f /\ open # 0
  BY NewSlotType, SizesAssumption DEF NewSlot
<1> HIDE DEF s
<1>2. /\ Len(w) = Len(q) + 1 /\ Len(q) \in Nat
      /\ DOMAIN q = 1..Len(q) /\ DOMAIN w = 1..(Len(q) + 1)
      /\ \A i \in 1..Len(q) : w[i] = q[i]
      /\ w[Len(q) + 1] = s
      /\ \A i \in DOMAIN w : i \in 1..Len(q) \/ i = Len(q) + 1
  BY <1>1, AppendFacts
<1> HIDE DEF w
<1>3. MsmMarkedIn(w)
  BY <1>1, <1>2 DEF SlotsInv, MsmMarkedIn
<1>4. RegisteredIn(w, open, entries)
  BY <1>1, <1>2 DEF SlotsInv, RegisteredIn
<1>5. AgeIn(open, open) = 0
  BY AgeFacts
<1>6. \A i \in DOMAIN q : q[i].batchId # 0 => AgeIn(open, q[i].batchId) \in Nat
  BY SlotsFacts, AgeFacts
<1>7. OrderedIn(w, open)
  <2>1. SUFFICES ASSUME NEW i \in DOMAIN w, NEW j \in DOMAIN w,
                        i < j, w[i].batchId # 0, w[j].batchId # 0
                 PROVE  AgeIn(open, w[i].batchId) >= AgeIn(open, w[j].batchId)
    BY DEF OrderedIn
  <2>2. i \in DOMAIN q /\ w[i] = q[i]
    BY <1>2, <2>1
  <2>3. CASE j \in DOMAIN q
    BY <1>2, <2>1, <2>2, <2>3 DEF SlotsInv, OrderedIn
  <2>4. CASE j \notin DOMAIN q
    BY <1>1, <1>2, <1>5, <1>6, <2>1, <2>2, <2>4
  <2> QED BY <2>3, <2>4
<1>8. AgedIn(w, open, 0)
  <2>1. SUFFICES ASSUME NEW i \in DOMAIN w, w[i].batchId # 0
                 PROVE  AgeIn(open, w[i].batchId) <= Len(w) - i + 0
    BY DEF AgedIn
  <2>2. CASE i \in DOMAIN q
    <3>1. AgeIn(open, q[i].batchId) <= Len(q) - i + 1
      BY <1>2, <2>1, <2>2 DEF SlotsInv, AgedIn
    <3> QED BY <1>2, <1>6, <2>1, <2>2, <3>1
  <2>3. CASE i \notin DOMAIN q
    <3>1. i = Len(q) + 1
      BY <1>2, <2>3
    <3>2. w[i].batchId = open
      BY <1>1, <1>2, <3>1
    <3>3. Len(w) - i + 0 = 0
      BY <1>2, <3>1
    <3> QED BY <1>5, <3>2, <3>3
  <2> QED BY <2>2, <2>3
<1>9. OneEpochIn(w)
  <2>1. \A i \in DOMAIN q : (q[i].batchId = open /\ Family(q[i].frame) = Family(f))
                              => MsmEpoch30(q[i].frame) = MsmEpoch30(f)
    <3>1. SUFFICES ASSUME NEW i \in DOMAIN q, q[i].batchId = open,
                          Family(q[i].frame) = Family(f)
                   PROVE  MsmEpoch30(q[i].frame) = MsmEpoch30(f)
      OBVIOUS
    <3>2. FamEntry(q[i].frame) \in entries
      BY <3>1 DEF SlotsInv, RegisteredIn
    <3>3. FamEntry(q[i].frame) = FamEntry(f)
      BY <3>1, <3>2 DEF SlotsInv, KeyedByFamily, FamEntry
    <3> QED BY <3>3 DEF FamEntry
  <2>2. SUFFICES ASSUME NEW i \in DOMAIN w, NEW j \in DOMAIN w,
                        w[i].batchId # 0, w[i].batchId = w[j].batchId,
                        Family(w[i].frame) = Family(w[j].frame)
                 PROVE  MsmEpoch30(w[i].frame) = MsmEpoch30(w[j].frame)
    BY DEF OneEpochIn
  <2>3. CASE i \in DOMAIN q /\ j \in DOMAIN q
    BY <1>2, <2>2, <2>3 DEF SlotsInv, OneEpochIn
  <2>4. CASE i \notin DOMAIN q \/ j \notin DOMAIN q
    BY <1>1, <1>2, <2>1, <2>2, <2>4
  <2> QED BY <2>3, <2>4
<1>10. ProtectedOnceIn(w)
  <2>1. ~ IsProtected(f.type)
    BY ProtectedNotMsm
  <2>2. \A i \in DOMAIN w : IsProtected(w[i].frame.type) => i \in DOMAIN q /\ w[i] = q[i]
    BY <1>1, <1>2, <2>1
  <2> QED BY <2>2 DEF SlotsInv, ProtectedOnceIn
<1> QED BY <1>3, <1>4, <1>7, <1>8, <1>9, <1>10 DEF SlotsInv, w, s

\* assignBatch() registers the frame's constellation; at worst it opens one batch
\* ahead of the frame it is for.
LEMMA AssignInv ==
  ASSUME QueueInv, NEW f \in Frames
  PROVE  /\ SlotsInv(queue, AssignedBatch(f), AssignedFam(f), 1)
         /\ FamEntry(f) \in AssignedFam(f)
<1> DEFINE b == AssignedBatch(f)
           e == AssignedFam(f)
<1>1. queue \in Seq(Slots) /\ Len(queue) <= Depth /\ openBatch \in 1..MaxBatch
      /\ fam \subseteq [family : Nat, epoch : Nat]
  BY DEF QueueInv, TypeOK
<1>2. SlotsInv(queue, openBatch, fam, 0)
  BY DEF QueueInv
<1>3. Len(queue) \in Nat /\ DOMAIN queue = 1..Len(queue)
      /\ \A i \in DOMAIN queue : queue[i].batchId # 0 => queue[i].batchId \in 1..MaxBatch
  BY <1>1, SlotsFacts
<1>4. FamEntry(f) \in e
  BY DEF AssignedFam
<1>5. \A i \in DOMAIN queue : queue[i].batchId # 0 =>
        /\ AgeIn(openBatch, queue[i].batchId) \in Nat
        /\ AgeIn(openBatch, queue[i].batchId) <= Len(queue) - i
  BY <1>1, <1>2, <1>3, AgeFacts DEF SlotsInv, AgedIn
<1>6. CASE ~ ClosesOpenBatch(f)
  <2>1. b = openBatch /\ e = fam \cup {FamEntry(f)}
    BY <1>6 DEF AssignedBatch, AssignedFam
  <2>2. \A r \in fam : r.family = Family(f) => r = FamEntry(f)
    <3>1. \A r \in fam : r.family = Family(f) => r.epoch = MsmEpoch30(f)
      BY <1>6 DEF ClosesOpenBatch
    <3>2. \A r \in fam : r = [family |-> r.family, epoch |-> r.epoch]
      BY <1>1
    <3> QED BY <3>1, <3>2 DEF FamEntry
  <2>3. KeyedByFamily(e)
    <3>1. FamEntry(f).family = Family(f)
      BY DEF FamEntry
    <3> QED BY <1>2, <2>1, <2>2, <3>1 DEF SlotsInv, KeyedByFamily
  <2>4. RegisteredIn(queue, b, e)
    BY <1>2, <2>1 DEF SlotsInv, RegisteredIn
  <2>5. AgedIn(queue, b, 1)
    BY <1>3, <1>5, <2>1 DEF AgedIn
  <2> HIDE DEF b, e
  <2> QED BY <1>2, <1>4, <2>1, <2>3, <2>4, <2>5 DEF SlotsInv, b, e
<1>7. CASE ClosesOpenBatch(f)
  <2>1. b = NextBatch(openBatch) /\ e = {FamEntry(f)} /\ b \in 1..MaxBatch
    BY <1>1, <1>7, NextBatchType DEF AssignedBatch, AssignedFam
  <2>2. \A i \in DOMAIN queue : queue[i].batchId # 0 =>
          AgeIn(b, queue[i].batchId) = AgeIn(openBatch, queue[i].batchId) + 1
    <3>1. SUFFICES ASSUME NEW i \in DOMAIN queue, queue[i].batchId # 0
                   PROVE  AgeIn(b, queue[i].batchId) = AgeIn(openBatch, queue[i].batchId) + 1
      OBVIOUS
    <3>2. AgeIn(openBatch, queue[i].batchId) < MaxBatch - 1
      BY <1>1, <1>3, <1>5, <3>1, SizesAssumption
    <3> QED BY <1>1, <1>3, <2>1, <3>1, <3>2, AgeFacts
  <2>3. KeyedByFamily(e)
    BY <2>1 DEF KeyedByFamily
  <2>4. RegisteredIn(queue, b, e)
    <3>1. SUFFICES ASSUME NEW i \in DOMAIN queue, queue[i].batchId = b PROVE FALSE
      BY DEF RegisteredIn
    <3>2. queue[i].batchId # 0
      BY <2>1, <3>1
    <3>3. AgeIn(b, b) = 0 /\ AgeIn(b, b) = AgeIn(openBatch, queue[i].batchId) + 1
      BY <2>1, <2>2, <3>1, <3>2, AgeFacts
    <3> QED BY <1>5, <3>2, <3>3
  <2>5. AgedIn(queue, b, 1)
    BY <1>3, <1>5, <2>2 DEF AgedIn
  <2>6. OrderedIn(queue, b)
    <3>1. \A i, j \in DOMAIN queue :
            (i < j /\ queue[i].batchId # 0 /\ queue[j].batchId # 0)
              => AgeIn(openBatch, queue[i].batchId) >= AgeIn(openBatch, queue[j].batchId)
      BY <1>2 DEF SlotsInv, OrderedIn
    <3> QED BY <1>5, <2>2, <3>1 DEF OrderedIn
  <2> HIDE DEF b, e
  <2> QED BY <1>2, <1>4, <2>3, <2>4, <2>5, <2>6 DEF SlotsInv, b, e
<1> QED BY <1>6, <1>7

\* Taking the head slot away.
LEMMA TailInv ==
  ASSUME NEW q \in Seq(Slots), NEW open, NEW entries, q # <<>>, SlotsInv(q, open, entries, 0)
  PROVE  SlotsInv(Tail(q), open, entries, 0)
<1> DEFINE w == Tail(q)
<1>1. /\ w \in Seq(Slots) /\ Len(w) = Len(q) - 1 /\ Len(q) \in Nat
      /\ DOMAIN w = 1..Len(w) /\ DOMAIN q = 1..Len(q)
      /\ \A k \in DOMAIN w : k + 1 \in DOMAIN q /\ w[k] = q[k + 1]
  BY HeadTailProperties, LenProperties
<1> HIDE DEF w
<1>2. MsmMarkedIn(w) /\ RegisteredIn(w, open, entries) /\ KeyedByFamily(entries)
  BY <1>1 DEF SlotsInv, MsmMarkedIn, RegisteredIn
<1>3. OrderedIn(w, open)
  <2>1. SUFFICES ASSUME NEW i \in DOMAIN w, NEW j \in DOMAIN w, i < j,
                        w[i].batchId # 0, w[j].batchId # 0
                 PROVE  AgeIn(open, w[i].batchId) >= AgeIn(open, w[j].batchId)
    BY Zenon DEF OrderedIn
  <2>2. /\ i + 1 \in DOMAIN q /\ j + 1 \in DOMAIN q
        /\ w[i] = q[i + 1] /\ w[j] = q[j + 1]
    BY Zenon, <1>1
  <2>3. i + 1 < j + 1
    BY <1>1, <2>1
  <2> QED BY Zenon, <2>1, <2>2, <2>3 DEF SlotsInv, OrderedIn
<1>4. AgedIn(w, open, 0)
  <2>1. SUFFICES ASSUME NEW k \in DOMAIN w, w[k].batchId # 0
                 PROVE  AgeIn(open, w[k].batchId) <= Len(w) - k + 0
    BY DEF AgedIn
  <2>2. AgeIn(open, q[k + 1].batchId) <= Len(q) - (k + 1) + 0
    BY <1>1, <2>1 DEF SlotsInv, AgedIn
  <2>3. Len(q) - (k + 1) + 0 = Len(w) - k + 0
    BY <1>1
  <2> QED BY <1>1, <2>2, <2>3
<1>5. OneEpochIn(w)
  BY <1>1 DEF SlotsInv, OneEpochIn
<1>6. ProtectedOnceIn(w)
  BY <1>1 DEF SlotsInv, ProtectedOnceIn
<1> QED BY <1>2, <1>3, <1>4, <1>5, <1>6 DEF SlotsInv, w

\* With no MSM frame queued, the batch that is open does not matter.
LEMMA NoMsmInv ==
  ASSUME NEW q \in Seq(Slots), NEW open \in 1..MaxBatch, NEW entries,
         KeyedByFamily(entries), NEW slack,
         MsmMarkedIn(q), ProtectedOnceIn(q), \A i \in DOMAIN q : q[i].batchId = 0
  PROVE  SlotsInv(q, open, entries, slack)
BY DEF SlotsInv, RegisteredIn, OrderedIn, AgedIn, OneEpochIn

\* A protected frame is overwritten in place by one of its type.
LEMMA ReplaceInv ==
  ASSUME NEW q \in Seq(Slots), NEW open \in 1..MaxBatch, NEW entries, SlotsInv(q, open, entries, 0),
         NEW f \in Frames, Storable(f), IsProtected(f.type),
         NEW i \in DOMAIN q, q[i].frame.type = f.type
  PROVE  SlotsInv([q EXCEPT ![i] = NewSlot(f, 0)], open, entries, 0)
<1> DEFINE s == NewSlot(f, 0)
           w == [q EXCEPT ![i] = s]
<1>1. s \in Slots /\ s.batchId = 0 /\ s.frame = f
  BY NewSlotType, SizesAssumption DEF NewSlot
<1>2. ~ IsMsm(f.type)
  BY ProtectedNotMsm
<1>3. q[i].batchId = 0
  BY <1>2 DEF SlotsInv, MsmMarkedIn
<1> HIDE DEF s
<1>4. /\ Len(w) = Len(q) /\ DOMAIN q = DOMAIN w
      /\ \A j \in DOMAIN w : w[j] = IF j = i THEN s ELSE q[j]
  BY <1>1, ExceptSeq, LenProperties
<1> HIDE DEF w
<1>5. \A j \in DOMAIN w : w[j].batchId = q[j].batchId /\ w[j].frame.type = q[j].frame.type
                          /\ (w[j].batchId # 0 => w[j] = q[j])
  BY <1>1, <1>3, <1>4
<1>6. MsmMarkedIn(w)
  BY <1>4, <1>5 DEF SlotsInv, MsmMarkedIn
<1>7. RegisteredIn(w, open, entries)
  <2>1. open # 0
    OBVIOUS
  <2> QED BY <1>4, <1>5, <2>1 DEF SlotsInv, RegisteredIn
<1>8. OrderedIn(w, open)
  BY <1>4, <1>5 DEF SlotsInv, OrderedIn
<1>9. AgedIn(w, open, 0)
  BY <1>4, <1>5 DEF SlotsInv, AgedIn
<1>10. OneEpochIn(w)
  BY <1>4, <1>5 DEF SlotsInv, OneEpochIn
<1>11. ProtectedOnceIn(w)
  BY <1>4, <1>5 DEF SlotsInv, ProtectedOnceIn
<1>12. KeyedByFamily(entries)
  BY DEF SlotsInv
<1> QED BY <1>6, <1>7, <1>8, <1>9, <1>10, <1>11, <1>12 DEF SlotsInv, w, s

\* The slots left by an eviction were slots before, of another batch.
LEMMA WithoutSub ==
  ASSUME NEW T, NEW q \in Seq(T), NEW v
  PROVE  \A k \in DOMAIN Without(q, v) :
           \E i \in DOMAIN q : Without(q, v)[k] = q[i] /\ q[i].batchId # v
<1>1. PICK m : Embeds(m, Without(q, v), q, v)
  BY WithoutEmbeds
<1>2. DOMAIN q = 1..Len(q) /\ DOMAIN Without(q, v) = 1..Len(Without(q, v))
  BY WithoutType, LenProperties
<1> QED BY <1>1, <1>2 DEF Embeds

\* Dropping the only batch queued leaves no MSM frame, and any batch may be open.
LEMMA DropOnlyBatchInv ==
  ASSUME NEW q \in Seq(Slots), NEW open \in 1..MaxBatch, NEW entries, NEW slack \in Nat,
         SlotsInv(q, open, entries, slack), \A i \in DOMAIN q : q[i].batchId \in {0, open},
         NEW next \in 1..MaxBatch
  PROVE  SlotsInv(Without(q, open), next, {}, 0)
<1>1. VictimFirst(q, open)
  BY DEF VictimFirst
<1>2. SlotsInv(Without(q, open), open, entries, slack)
  BY <1>1, WithoutInv
<1>3. Without(q, open) \in Seq(Slots)
  BY WithoutType
<1>4. \A k \in DOMAIN Without(q, open) : Without(q, open)[k].batchId = 0
  BY WithoutSub
<1>5. KeyedByFamily({})
  BY DEF KeyedByFamily
<1> QED BY <1>2, <1>3, <1>4, <1>5, NoMsmInv DEF SlotsInv

\* Storing a frame of no batch over an evicted one.
LEMMA EvictForPlainInv ==
  ASSUME QueueInv, NEW f \in Frames, Storable(f), ~ IsMsm(f.type),
         IsProtected(f.type) => ~ IsQueued(f.type), EvictForPlain(f)
  PROVE  SlotsInv(queue', openBatch', fam', 0)
<1> DEFINE v == VictimBatch(queue, openBatch)
           w == Without(queue, v)
<1>1. queue \in Seq(Slots) /\ openBatch \in 1..MaxBatch /\ SlotsInv(queue, openBatch, fam, 0)
  BY DEF QueueInv, TypeOK
<1>2. v # 0 /\ queue' = Append(w, NewSlot(f, 0))
  BY DEF EvictForPlain
<1>3. w \in Seq(Slots)
  BY <1>1, WithoutType
<1>4. IsProtected(f.type) => \A k \in DOMAIN w : w[k].frame.type # f.type
  BY <1>1, WithoutSub DEF IsQueued
<1>5. CASE OldestMsmBatch(queue, openBatch, TRUE) # 0
  <2>1. v = OldestMsmBatch(queue, openBatch, TRUE)
    BY <1>5 DEF VictimBatch
  <2>2. VictimFirst(queue, v) /\ v # openBatch
    BY <1>1, <1>5, <2>1, OldestClosedFirst DEF SlotsInv
  <2>3. openBatch' = openBatch /\ fam' = fam
    BY <2>2 DEF EvictForPlain
  <2>4. SlotsInv(w, openBatch, fam, 0)
    BY <1>1, <2>2, WithoutInv
  <2> HIDE DEF w, v
  <2> QED BY <1>1, <1>2, <1>3, <1>4, <2>3, <2>4, AppendPlainInv
<1>6. CASE OldestMsmBatch(queue, openBatch, TRUE) = 0
  <2>1. \A i \in DOMAIN queue : queue[i].batchId \in {0, openBatch}
    BY <1>1, <1>6, OnlyOpenQueued
  <2>2. SlotsOf(queue, v) # {}
    BY <1>1, <1>2, VictimQueued
  <2>3. v = openBatch
    BY <1>2, <2>1, <2>2 DEF SlotsOf
  <2>4. openBatch' = NextBatch(openBatch) /\ fam' = {} /\ openBatch' \in 1..MaxBatch
    BY <1>1, <2>3, NextBatchType DEF EvictForPlain
  <2>5. SlotsInv(w, openBatch', fam', 0)
    BY <1>1, <2>1, <2>3, <2>4, DropOnlyBatchInv
  <2> HIDE DEF w, v
  <2> QED BY <1>2, <1>3, <1>4, <2>4, <2>5, AppendPlainInv
<1> QED BY <1>5, <1>6

\* Storing an MSM frame, or refusing it.
LEMMA PushMsmInv ==
  ASSUME QueueInv, NEW f \in Frames, PushMsm(f)
  PROVE  SlotsInv(queue', openBatch', fam', 0)
<1> DEFINE b == AssignedBatch(f)
           e == AssignedFam(f)
           older == OldestMsmBatch(queue, b, TRUE)
<1>1. queue \in Seq(Slots) /\ b \in 1..MaxBatch
  BY AssignedType DEF QueueInv, TypeOK
<1>2. SlotsInv(queue, b, e, 1) /\ FamEntry(f) \in e
  BY AssignInv
<1>3. Storable(f) /\ IsMsm(f.type)
  BY DEF PushMsm
<1>4. CASE StoreMsm(f)
  <2>1. queue' = Append(queue, NewSlot(f, b)) /\ openBatch' = b /\ fam' = e
    BY <1>4 DEF StoreMsm
  <2> HIDE DEF b, e
  <2> QED BY <1>1, <1>2, <1>3, <2>1, AppendMsmInv
<1>5. CASE EvictForMsm(f)
  <2>1. /\ older # 0
        /\ queue' = Append(Without(queue, older), NewSlot(f, b))
        /\ openBatch' = b /\ fam' = e
    BY <1>5 DEF EvictForMsm
  <2>2. VictimFirst(queue, older)
    BY <1>1, <1>2, <2>1, OldestClosedFirst DEF SlotsInv
  <2>3. SlotsInv(Without(queue, older), b, e, 1)
    BY <1>1, <1>2, <2>2, WithoutInv
  <2>4. Without(queue, older) \in Seq(Slots)
    BY <1>1, WithoutType
  <2> HIDE DEF b, e, older
  <2> QED BY <1>1, <1>2, <1>3, <2>1, <2>3, <2>4, AppendMsmInv
<1>6. CASE DropOpenEpoch(f)
  <2>1. /\ older = 0 /\ queue' = Without(queue, b)
        /\ openBatch' = NextBatch(b) /\ fam' = {}
    BY <1>6 DEF DropOpenEpoch
  <2>2. \A i \in DOMAIN queue : queue[i].batchId \in {0, b}
    BY <1>1, <2>1, OnlyOpenQueued
  <2>3. NextBatch(b) \in 1..MaxBatch
    BY <1>1, NextBatchType
  <2> HIDE DEF b, e
  <2> QED BY <1>1, <1>2, <2>1, <2>2, <2>3, DropOnlyBatchInv
<1>7. CASE RefuseMsm(f)
  <2>1. /\ older = 0 /\ ~ HasBatch(queue, b)
        /\ queue' = queue /\ openBatch' = b /\ fam' = e
    BY <1>7 DEF RefuseMsm
  <2>2. \A i \in DOMAIN queue : queue[i].batchId \in {0, b}
    BY <1>1, <2>1, OnlyOpenQueued
  <2>3. \A i \in DOMAIN queue : queue[i].batchId = 0
    BY <1>1, <2>1, <2>2 DEF HasBatch, SlotsOf
  <2> HIDE DEF b, e
  <2> QED BY <1>1, <1>2, <2>1, <2>3, NoMsmInv DEF SlotsInv
<1> QED BY <1>4, <1>5, <1>6, <1>7 DEF PushMsm

\* The empty queue satisfies the invariant.
LEMMA InitInv == Init => QueueInv
<1> SUFFICES ASSUME Init PROVE QueueInv
  OBVIOUS
<1>1. DOMAIN queue = {}
  BY DEF Init
<1>2. SlotsInv(queue, openBatch, fam, 0)
  BY <1>1 DEF Init, SlotsInv, MsmMarkedIn, RegisteredIn, KeyedByFamily, OrderedIn, AgedIn,
              OneEpochIn, ProtectedOnceIn
<1> QED BY <1>2, InitType DEF QueueInv

\* Every step keeps the invariant: it is inductive.
LEMMA InvStep == QueueInv /\ [Next]_vars => QueueInv'
<1> SUFFICES ASSUME QueueInv, [Next]_vars PROVE QueueInv'
  OBVIOUS
<1>1. TypeOK'
  BY TypeStep DEF QueueInv
<1>2. SUFFICES SlotsInv(queue', openBatch', fam', 0)
  BY <1>1 DEF QueueInv, SlotsInv, MsmMarkedIn, RegisteredIn, KeyedByFamily, OrderedIn, AgedIn,
              OneEpochIn, ProtectedOnceIn
<1> DEFINE Goal == SlotsInv(queue', openBatch', fam', 0)
<1>3. queue \in Seq(Slots) /\ openBatch \in 1..MaxBatch /\ SlotsInv(queue, openBatch, fam, 0)
  BY DEF QueueInv, TypeOK
<1>4. ASSUME queue' = queue, openBatch' = openBatch, fam' = fam PROVE Goal
  BY <1>3, <1>4
<1>5. ASSUME NEW f \in Frames, StorePlain(f), Storable(f), ~ IsMsm(f.type),
             IsProtected(f.type) => ~ IsQueued(f.type)
      PROVE  Goal
  <2>1. queue' = Append(queue, NewSlot(f, 0)) /\ openBatch' = openBatch /\ fam' = fam
    BY <1>5 DEF StorePlain
  <2>2. IsProtected(f.type) => \A i \in DOMAIN queue : queue[i].frame.type # f.type
    BY <1>5 DEF IsQueued
  <2> QED BY <1>3, <1>5, <2>1, <2>2, AppendPlainInv
<1>6. ASSUME NEW f \in Frames, PushOversize(f) PROVE Goal
  BY <1>4, <1>6 DEF PushOversize
<1>7. ASSUME NEW f \in Frames, PushProtected(f) PROVE Goal
  <2>1. Storable(f) /\ IsProtected(f.type) /\ ~ IsMsm(f.type)
    BY <1>7, ProtectedNotMsm DEF PushProtected
  <2>2. CASE ReplaceProtected(f)
    <3>1. PICK i \in DOMAIN queue : /\ queue[i].frame.type = f.type
                                    /\ queue' = [queue EXCEPT ![i] = NewSlot(f, 0)]
      BY <2>2 DEF ReplaceProtected
    <3>2. openBatch' = openBatch /\ fam' = fam
      BY <2>2 DEF ReplaceProtected
    <3> QED BY <1>3, <2>1, <3>1, <3>2, ReplaceInv
  <2>3. ASSUME ~ IsQueued(f.type),
               StorePlain(f) \/ EvictForPlain(f) \/ RefusePlain("byProtectedKept")
        PROVE  Goal
    BY <1>4, <1>5, <2>1, <2>3, EvictForPlainInv DEF RefusePlain
  <2> QED BY <1>7, <2>2, <2>3 DEF PushProtected
<1>8. ASSUME NEW f \in Frames, PushOther(f) PROVE Goal
  <2>1. Storable(f) /\ ~ IsProtected(f.type) /\ ~ IsMsm(f.type)
    BY <1>8 DEF PushOther
  <2> QED BY <1>4, <1>5, <1>8, <2>1, EvictForPlainInv DEF PushOther, RefusePlain
<1>9. ASSUME NEW f \in Frames, PushMsm(f) PROVE Goal
  BY <1>9, PushMsmInv
<1>10. ASSUME NEW w \in Writable, Pull(w) PROVE Goal
  <2>1. queue # <<>> /\ queue' = Tail(queue) /\ openBatch' = openBatch /\ fam' = fam
    BY <1>10 DEF Pull
  <2> QED BY <1>3, <2>1, TailInv
<1>11. CASE Clear
  <2>1. queue' = <<>> /\ fam' = {} /\ DOMAIN queue' = {}
    BY <1>11 DEF Clear
  <2> QED BY <2>1 DEF SlotsInv, MsmMarkedIn, RegisteredIn, KeyedByFamily, OrderedIn, AgedIn,
                      OneEpochIn, ProtectedOnceIn
<1>12. CASE ResetDrops
  BY <1>4, <1>12 DEF ResetDrops
<1>13. CASE ClearUnhealthy
  BY <1>4, <1>13 DEF ClearUnhealthy
<1>14. ASSUME NEW c \in Configs, SetConfig(c) PROVE Goal
  BY <1>4, <1>14 DEF SetConfig
<1>15. CASE UNCHANGED vars
  BY <1>4, <1>15 DEF vars
<1> QED BY <1>6, <1>7, <1>8, <1>9, <1>10, <1>11, <1>12, <1>13, <1>14, <1>15 DEF Next, Push

\* What push() relies on at every call holds in every reachable state.
THEOREM QueueInvariant == Spec => []QueueInv
BY InitInv, InvStep, PTL DEF Spec

\* However often the 32-bit batch number wraps, and in whatever order frames are
\* pushed, pulled and evicted, no two epochs in the queue share a number.
THEOREM BatchesNeverReused == Spec => []NoBatchReuse
<1>1. QueueInv => NoBatchReuse
  BY DEF QueueInv, SlotsInv, NoBatchReuse
<1> QED BY <1>1, QueueInvariant, PTL

\* The first closed batch met from the head is the oldest epoch held.
THEOREM EpochsQueuedInOrder == Spec => []EpochsInOrder
<1>1. QueueInv => EpochsInOrder
  BY DEF QueueInv, SlotsInv, EpochsInOrder
<1> QED BY <1>1, QueueInvariant, PTL

\* A batch holds one observation epoch of each constellation.
THEOREM BatchesHoldOneEpoch == Spec => []OneEpochPerBatch
<1>1. QueueInv => OneEpochPerBatch
  BY DEF QueueInv, SlotsInv, OneEpochPerBatch
<1> QED BY <1>1, QueueInvariant, PTL

\* A protected type holds at most one slot.
THEOREM ProtectedQueuedOnce == Spec => []ProtectedOnce
<1>1. QueueInv => ProtectedOnce
  BY DEF QueueInv, SlotsInv, ProtectedOnce
<1> QED BY <1>1, QueueInvariant, PTL

-----------------------------------------------------------------------------
(* What a step may never do                                                  *)

\* The slot at i is overwritten by one of its protected type.
Replaced(i) ==
  \E s \in Slots : /\ IsProtected(queue[i].frame.type)
                   /\ s.frame.type = queue[i].frame.type
                   /\ queue' = [queue EXCEPT ![i] = s]

\* The full queue gives up batch v, and a frame of another batch may be stored.
GaveUp(v) ==
  /\ Len(queue) = Depth /\ v # 0 /\ SlotsOf(queue, v) # {} /\ VictimFirst(queue, v)
  /\ \/ queue' = Without(queue, v)
     \/ \E s \in Slots : s.batchId # v /\ queue' = Append(Without(queue, v), s)

\* The only four things a push does to the queue.
LEMMA PushShape ==
  ASSUME QueueInv, NEW f \in Frames, Push(f)
  PROVE  \/ queue' = queue
         \/ Len(queue) < Depth /\ \E s \in Slots : queue' = Append(queue, s)
         \/ \E i \in DOMAIN queue : Replaced(i)
         \/ \E v : GaveUp(v)
<1> DEFINE Goal == \/ queue' = queue
                   \/ Len(queue) < Depth /\ \E s \in Slots : queue' = Append(queue, s)
                   \/ \E i \in DOMAIN queue : Replaced(i)
                   \/ \E v : GaveUp(v)
<1>1. queue \in Seq(Slots) /\ openBatch \in 1..MaxBatch /\ SlotsInv(queue, openBatch, fam, 0)
      /\ Len(queue) \in Nat /\ Len(queue) <= Depth
  BY LenProperties DEF QueueInv, TypeOK
<1>2. Len(queue) >= Depth => Len(queue) = Depth
  BY <1>1, SizesAssumption
<1>3. ASSUME Storable(f), EvictForPlain(f) PROVE Goal
  <2> DEFINE v == VictimBatch(queue, openBatch)
             s == NewSlot(f, 0)
  <2>1. v # 0 /\ queue' = Append(Without(queue, v), s) /\ Len(queue) = Depth
    BY <1>2, <1>3 DEF EvictForPlain
  <2>2. SlotsOf(queue, v) # {}
    BY <1>1, <2>1, VictimQueued
  <2>3. s \in Slots /\ s.batchId # v
    BY <1>3, <2>1, NewSlotType, SizesAssumption DEF NewSlot
  <2>4. VictimFirst(queue, v)
    <3>1. CASE OldestMsmBatch(queue, openBatch, TRUE) # 0
      <4>1. v = OldestMsmBatch(queue, openBatch, TRUE)
        BY <3>1 DEF VictimBatch
      <4> QED BY <1>1, <3>1, <4>1, OldestClosedFirst DEF SlotsInv
    <3>2. CASE OldestMsmBatch(queue, openBatch, TRUE) = 0
      <4>1. \A i \in DOMAIN queue : queue[i].batchId \in {0, openBatch}
        BY <1>1, <3>2, OnlyOpenQueued
      <4> QED BY <2>1, <2>2, <4>1 DEF VictimFirst, SlotsOf
    <3> QED BY <3>1, <3>2
  <2> HIDE DEF v, s
  <2> QED BY <2>1, <2>2, <2>3, <2>4 DEF GaveUp
<1>4. ASSUME Storable(f), StorePlain(f) PROVE Goal
  <2>1. NewSlot(f, 0) \in Slots
    BY <1>4, NewSlotType, SizesAssumption
  <2> QED BY <1>4, <2>1 DEF StorePlain
<1>5. ASSUME IsProtected(f.type), Storable(f), ReplaceProtected(f) PROVE Goal
  <2>1. NewSlot(f, 0) \in Slots /\ NewSlot(f, 0).frame = f
    BY <1>5, NewSlotType, SizesAssumption DEF NewSlot
  <2> QED BY <1>5, <2>1 DEF ReplaceProtected, Replaced
<1>6. ASSUME PushMsm(f) PROVE Goal
  <2> DEFINE b == AssignedBatch(f)
             older == OldestMsmBatch(queue, b, TRUE)
  <2>1. b \in 1..MaxBatch /\ b \in 0..MaxBatch /\ b # 0 /\ SlotsInv(queue, b, AssignedFam(f), 1)
    BY AssignedType, AssignInv, SizesAssumption DEF QueueInv
  <2>2. NewSlot(f, b) \in Slots /\ NewSlot(f, b).batchId = b
    BY <1>6, <2>1, NewSlotType DEF PushMsm, NewSlot
  <2>3. CASE StoreMsm(f)
    BY <2>2, <2>3 DEF StoreMsm
  <2>4. CASE EvictForMsm(f)
    <3>1. /\ older # 0 /\ Len(queue) = Depth
          /\ queue' = Append(Without(queue, older), NewSlot(f, b))
      BY <1>2, <2>4 DEF EvictForMsm
    <3>2. VictimFirst(queue, older) /\ older # b
      BY <1>1, <2>1, <3>1, OldestClosedFirst DEF SlotsInv
    <3>3. SlotsOf(queue, older) # {}
      BY <1>1, <3>1, OldestQueued
    <3> HIDE DEF older, b
    <3> QED BY <2>2, <3>1, <3>2, <3>3 DEF GaveUp
  <2>5. CASE DropOpenEpoch(f)
    <3>1. /\ older = 0 /\ Len(queue) = Depth /\ queue' = Without(queue, b)
          /\ HasBatch(queue, b)
      BY <1>2, <2>5 DEF DropOpenEpoch
    <3>2. \A i \in DOMAIN queue : queue[i].batchId \in {0, b}
      BY <1>1, <3>1, OnlyOpenQueued
    <3>3. VictimFirst(queue, b)
      BY <3>2 DEF VictimFirst
    <3> HIDE DEF b
    <3> QED BY <2>1, <3>1, <3>3 DEF GaveUp, HasBatch
  <2>6. CASE RefuseMsm(f)
    BY <2>6 DEF RefuseMsm
  <2> QED BY <1>6, <2>3, <2>4, <2>5, <2>6 DEF PushMsm
<1>7. CASE PushOversize(f)
  BY <1>7 DEF PushOversize
<1>8. CASE PushProtected(f)
  BY <1>3, <1>4, <1>5, <1>8 DEF PushProtected, RefusePlain
<1>9. CASE PushOther(f)
  BY <1>3, <1>4, <1>9 DEF PushOther, RefusePlain
<1> QED BY <1>6, <1>7, <1>8, <1>9 DEF Push

\* A step that is no push leaves the queue alone, pulls its head or clears it.
LEMMA StepShape ==
  ASSUME [Next]_vars
  PROVE  \/ \E f \in Frames : Push(f)
         \/ queue' = queue
         \/ Pulled
         \/ Cleared
BY DEF Next, Pull, Clear, ResetDrops, ClearUnhealthy, SetConfig, vars, Pulled, Cleared

\* Every slot not of the batch given up is still queued.
LEMMA GaveUpKeeps ==
  ASSUME queue \in Seq(Slots), NEW v, GaveUp(v), NEW i \in DOMAIN queue, queue[i].batchId # v
  PROVE  \E k \in DOMAIN queue' : queue'[k] = queue[i]
<1> DEFINE w == Without(queue, v)
<1>1. PICK m : Embeds(m, w, queue, v)
  BY WithoutEmbeds
<1>2. w \in Seq(Slots) /\ DOMAIN w = 1..Len(w) /\ Len(w) \in Nat /\ DOMAIN queue = 1..Len(queue)
  BY WithoutType, LenProperties
<1> HIDE DEF w
<1>3. PICK k \in DOMAIN w : w[k] = queue[i]
  <2>1. PICK k \in 1..Len(w) : m[k] = i
    BY <1>1, <1>2 DEF Embeds
  <2>2. w[k] = queue[m[k]]
    BY <1>1 DEF Embeds
  <2> QED BY <1>2, <2>1, <2>2
<1>4. CASE queue' = w
  BY <1>3, <1>4
<1>5. ASSUME NEW s \in Slots, queue' = Append(w, s) PROVE \E l \in DOMAIN queue' : queue'[l] = queue[i]
  <2>1. k \in DOMAIN Append(w, s) /\ Append(w, s)[k] = w[k]
    BY <1>2, <1>3, AppendFacts
  <2> QED BY <1>3, <1>5, <2>1
<1> QED BY <1>4, <1>5 DEF GaveUp, w

\* Slots keep their place when one is appended, and their batch and type when a
\* protected one is overwritten.
LEMMA AppendKeeps ==
  ASSUME queue \in Seq(Slots), NEW s \in Slots, queue' = Append(queue, s), NEW i \in DOMAIN queue
  PROVE  i \in DOMAIN queue' /\ queue'[i] = queue[i] /\ Len(queue') >= Len(queue)
<1>1. i \in 1..Len(queue) /\ Len(queue) \in Nat
  BY LenProperties
<1> QED BY <1>1, AppendFacts

\* An overwritten protected slot keeps its type and every other slot.
LEMMA ReplacedKeeps ==
  ASSUME queue \in Seq(Slots), MsmMarkedIn(queue),
         NEW j \in DOMAIN queue, Replaced(j), NEW i \in DOMAIN queue
  PROVE  /\ i \in DOMAIN queue' /\ Len(queue') = Len(queue)
         /\ queue'[i].frame.type = queue[i].frame.type
         /\ i # j => queue'[i] = queue[i]
         /\ IsProtected(queue[j].frame.type) /\ queue[j].batchId = 0
<1>1. PICK s \in Slots : /\ IsProtected(queue[j].frame.type)
                         /\ s.frame.type = queue[j].frame.type
                         /\ queue' = [queue EXCEPT ![j] = s]
  BY DEF Replaced
<1>2. queue[j].batchId = 0
  BY <1>1, ProtectedNotMsm DEF MsmMarkedIn
<1>3. Len(queue') = Len(queue) /\ DOMAIN queue' = DOMAIN queue
      /\ \A k \in DOMAIN queue : queue'[k] = IF k = j THEN s ELSE queue[k]
  BY <1>1, ExceptSeq, LenProperties
<1> QED BY <1>1, <1>2, <1>3

\* No push, of whatever frame, costs the queue a 1005, 1006 or 1230.
THEOREM ProtectedFramesStay == Spec => ProtectedStays
<1> DEFINE A == \A i \in DOMAIN queue :
                  IsProtected(queue[i].frame.type)
                    => \/ \E k \in DOMAIN queue' : queue'[k].frame.type = queue[i].frame.type
                       \/ Pulled /\ i = 1
                       \/ Cleared
<1>1. QueueInv /\ [Next]_vars => A
  <2> SUFFICES ASSUME QueueInv, [Next]_vars, NEW i \in DOMAIN queue,
                      IsProtected(queue[i].frame.type)
               PROVE  \/ \E k \in DOMAIN queue' : queue'[k].frame.type = queue[i].frame.type
                      \/ Pulled /\ i = 1
                      \/ Cleared
    OBVIOUS
  <2>1. queue \in Seq(Slots) /\ MsmMarkedIn(queue)
    BY DEF QueueInv, TypeOK, SlotsInv
  <2>2. CASE queue' = queue
    BY <2>2
  <2>3. CASE Pulled
    <3>1. CASE i = 1
      BY <2>3, <3>1
    <3>2. CASE i # 1
      <4>1. /\ Len(queue) \in Nat /\ DOMAIN queue = 1..Len(queue)
            /\ queue' \in Seq(Slots) /\ Len(queue') = Len(queue) - 1
            /\ \A k \in 1..Len(queue') : queue'[k] = queue[k + 1]
        BY <2>1, <2>3, HeadTailProperties, LenProperties DEF Pulled
      <4>2. DOMAIN queue' = 1..Len(queue')
        BY <4>1, LenProperties
      <4>3. i - 1 \in DOMAIN queue' /\ queue'[i - 1] = queue[i]
        BY <3>2, <4>1, <4>2
      <4> QED BY <4>3
    <3> QED BY <3>1, <3>2
  <2>4. ASSUME NEW s \in Slots, queue' = Append(queue, s)
        PROVE  \E k \in DOMAIN queue' : queue'[k].frame.type = queue[i].frame.type
    BY <2>1, <2>4, AppendKeeps
  <2>5. ASSUME NEW j \in DOMAIN queue, Replaced(j)
        PROVE  \E k \in DOMAIN queue' : queue'[k].frame.type = queue[i].frame.type
    BY <2>1, <2>5, ReplacedKeeps
  <2>6. ASSUME NEW v, GaveUp(v)
        PROVE  \E k \in DOMAIN queue' : queue'[k].frame.type = queue[i].frame.type
    <3>1. queue[i].batchId = 0 /\ v # 0
      BY <2>1, <2>6, ProtectedNotMsm DEF MsmMarkedIn, GaveUp
    <3> QED BY <2>1, <2>6, <3>1, GaveUpKeeps
  <2> QED BY <2>2, <2>3, <2>4, <2>5, <2>6, PushShape, StepShape
<1>2. Spec => [][A]_vars
  BY <1>1, QueueInvariant, PTL DEF Spec
<1> QED BY <1>2 DEF ProtectedStays

\* A batch outlives no batch queued behind it.
THEOREM OldestEvictedFirst == Spec => OldestEpochFirst
<1> DEFINE A == \A i, j \in DOMAIN queue :
                  (i < j /\ queue[j].batchId # 0 /\ HasBatch(queue', queue[i].batchId))
                    => HasBatch(queue', queue[j].batchId) \/ Pulled
<1>1. QueueInv /\ [Next]_vars => A
  <2> SUFFICES ASSUME QueueInv, [Next]_vars, NEW i \in DOMAIN queue, NEW j \in DOMAIN queue,
                      i < j, queue[j].batchId # 0, HasBatch(queue', queue[i].batchId)
               PROVE  HasBatch(queue', queue[j].batchId) \/ Pulled
    OBVIOUS
  <2>1. queue \in Seq(Slots) /\ MsmMarkedIn(queue)
    BY DEF QueueInv, TypeOK, SlotsInv
  <2>2. (\E k \in DOMAIN queue' : queue'[k] = queue[j]) => HasBatch(queue', queue[j].batchId)
    BY DEF HasBatch, SlotsOf
  <2>3. CASE queue' = queue
    BY <2>2, <2>3
  <2>4. CASE Cleared
    <3>1. DOMAIN queue' = {}
      BY <2>4 DEF Cleared
    <3> QED BY <3>1 DEF HasBatch, SlotsOf
  <2>5. ASSUME NEW s \in Slots, queue' = Append(queue, s) PROVE HasBatch(queue', queue[j].batchId)
    BY <2>1, <2>2, <2>5, AppendKeeps
  <2>6. ASSUME NEW k \in DOMAIN queue, Replaced(k) PROVE HasBatch(queue', queue[j].batchId)
    BY <2>1, <2>2, <2>6, ReplacedKeeps
  <2>7. ASSUME NEW v, GaveUp(v) PROVE HasBatch(queue', queue[j].batchId)
    <3>1. CASE queue[j].batchId # v
      BY <2>1, <2>2, <2>7, <3>1, GaveUpKeeps
    <3>2. CASE queue[j].batchId = v
      <4>1. queue[i].batchId \in {0, v}
        BY <2>7, <3>2 DEF GaveUp, VictimFirst
      <4>2. queue[i].batchId = v
        BY <4>1 DEF HasBatch
      <4> QED BY <3>2, <4>2
    <3> QED BY <3>1, <3>2
  <2> QED BY <2>3, <2>4, <2>5, <2>6, <2>7, PushShape, StepShape
<1>2. Spec => [][A]_vars
  BY <1>1, QueueInvariant, PTL DEF Spec
<1> QED BY <1>2 DEF OldestEpochFirst

\* A batch other than the victim keeps all its slots.
LEMMA GaveUpCounts ==
  ASSUME queue \in Seq(Slots), queue' \in Seq(Slots), NEW v, GaveUp(v), NEW b, b # v
  PROVE  Cardinality(SlotsOf(queue', b)) >= Cardinality(SlotsOf(queue, b))
<1> DEFINE w == Without(queue, v)
           S == SlotsOf(queue, b)
           S2 == SlotsOf(queue', b)
<1>1. PICK m : Embeds(m, w, queue, v)
  BY WithoutEmbeds
<1>2. /\ w \in Seq(Slots) /\ DOMAIN w = 1..Len(w) /\ Len(w) \in Nat
      /\ DOMAIN queue = 1..Len(queue)
      /\ Len(queue') \in Nat /\ S2 \in SUBSET (1..Len(queue'))
  BY WithoutType, LenProperties DEF SlotsOf
<1> HIDE DEF w
<1>3. \A k \in 1..Len(w) : k \in DOMAIN queue' /\ queue'[k] = w[k]
  <2>1. CASE queue' = w
    BY <1>2, <2>1
  <2>2. ASSUME NEW s \in Slots, queue' = Append(w, s)
        PROVE  \A k \in 1..Len(w) : k \in DOMAIN queue' /\ queue'[k] = w[k]
    BY <1>2, <2>2, AppendFacts
  <2> QED BY <2>1, <2>2 DEF GaveUp, w
<1>4. \A i \in S : \E k \in S2 : k \in 1..Len(w) /\ m[k] = i
  <2>1. SUFFICES ASSUME NEW i \in S PROVE \E k \in S2 : k \in 1..Len(w) /\ m[k] = i
    OBVIOUS
  <2>2. i \in 1..Len(queue) /\ queue[i].batchId = b
    BY <1>2 DEF SlotsOf
  <2>3. PICK k \in 1..Len(w) : m[k] = i
    BY <1>1, <2>2 DEF Embeds
  <2>4. w[k] = queue[i]
    BY <1>1, <2>3 DEF Embeds
  <2>5. k \in S2
    BY <1>3, <2>2, <2>4 DEF SlotsOf
  <2> QED BY <2>3, <2>5
<1> DEFINE g == [i \in S |-> CHOOSE k \in S2 : k \in 1..Len(w) /\ m[k] = i]
<1>5. \A i \in S : g[i] \in S2 /\ m[g[i]] = i
  BY <1>4
<1>6. g \in Injection(S, S2)
  <2>1. g \in [S -> S2]
    BY <1>5
  <2> HIDE DEF g
  <2>2. \A i, j \in S : g[i] = g[j] => i = j
    BY <1>5
  <2> QED BY <2>1, <2>2 DEF Injection, IsInjective
<1>7. IsFiniteSet(S2)
  BY <1>2, RankOrder
<1> HIDE DEF g, S, S2
<1>8. Cardinality(S) <= Cardinality(S2)
  BY <1>6, <1>7, FS_Injection
<1>9. Cardinality(S2) \in Nat /\ IsFiniteSet(S) /\ Cardinality(S) \in Nat
  BY <1>6, <1>7, FS_Injection, FS_CardinalityType
<1> QED BY <1>8, <1>9 DEF S, S2

\* No eviction leaves part of an epoch in the queue.
THEOREM EvictionTakesWholeBatches == Spec => WholeBatches
<1> DEFINE A == Pulled \/ \A b \in 1..MaxBatch :
                  \/ ~ HasBatch(queue', b)
                  \/ Cardinality(SlotsOf(queue', b)) >= Cardinality(SlotsOf(queue, b))
<1>1. QueueInv /\ [Next]_vars => A
  <2> SUFFICES ASSUME QueueInv, [Next]_vars, ~ Pulled, NEW b \in 1..MaxBatch, HasBatch(queue', b)
               PROVE  Cardinality(SlotsOf(queue', b)) >= Cardinality(SlotsOf(queue, b))
    OBVIOUS
  <2>1. queue \in Seq(Slots) /\ MsmMarkedIn(queue) /\ queue' \in Seq(Slots)
    BY TypeStep DEF QueueInv, TypeOK, SlotsInv
  <2>2. Cardinality(SlotsOf(queue, b)) \in Nat
    BY <2>1, SlotsOfSize
  <2>3. SlotsOf(queue, b) \subseteq SlotsOf(queue', b)
          => Cardinality(SlotsOf(queue', b)) >= Cardinality(SlotsOf(queue, b))
    <3>1. SlotsOf(queue', b) \in SUBSET (1..Len(queue')) /\ Len(queue') \in Nat
      BY <2>1, LenProperties DEF SlotsOf
    <3>2. IsFiniteSet(SlotsOf(queue', b)) /\ Cardinality(SlotsOf(queue', b)) \in Nat
      BY <3>1, RankOrder
    <3>3. SlotsOf(queue, b) \subseteq SlotsOf(queue', b)
            => Cardinality(SlotsOf(queue, b)) <= Cardinality(SlotsOf(queue', b))
      BY <3>2, FS_Subset
    <3> QED BY <2>2, <3>2, <3>3
  <2>4. CASE queue' = queue
    BY <2>3, <2>4
  <2>5. CASE Cleared
    <3>1. DOMAIN queue' = {}
      BY <2>5 DEF Cleared
    <3> QED BY <3>1 DEF HasBatch, SlotsOf
  <2>6. ASSUME NEW s \in Slots, queue' = Append(queue, s)
        PROVE  SlotsOf(queue, b) \subseteq SlotsOf(queue', b)
    BY <2>1, <2>6, AppendKeeps DEF SlotsOf
  <2>7. ASSUME NEW k \in DOMAIN queue, Replaced(k)
        PROVE  SlotsOf(queue, b) \subseteq SlotsOf(queue', b)
    <3>1. \A i \in SlotsOf(queue, b) : i \in DOMAIN queue /\ i # k
      BY <2>1, <2>7, ReplacedKeeps DEF SlotsOf
    <3> QED BY <2>1, <2>7, <3>1, ReplacedKeeps DEF SlotsOf
  <2>8. ASSUME NEW v, GaveUp(v)
        PROVE  Cardinality(SlotsOf(queue', b)) >= Cardinality(SlotsOf(queue, b))
    <3>1. b # v
      <4>1. ASSUME NEW k \in DOMAIN queue', queue'[k].batchId = v PROVE FALSE
        <5> DEFINE w == Without(queue, v)
        <5>1. w \in Seq(Slots) /\ \A l \in DOMAIN w : w[l].batchId # v
          BY <2>1, WithoutSub, WithoutType
        <5> HIDE DEF w
        <5>2. CASE queue' = w
          BY <4>1, <5>1, <5>2
        <5>3. ASSUME NEW s \in Slots, s.batchId # v, queue' = Append(w, s) PROVE FALSE
          <6>1. CASE k \in DOMAIN w
            BY <4>1, <5>1, <5>3, <6>1, AppendFacts
          <6>2. CASE k \notin DOMAIN w
            BY <4>1, <5>1, <5>3, <6>2, AppendFacts
          <6> QED BY <6>1, <6>2
        <5> QED BY <2>8, <5>2, <5>3 DEF GaveUp, w
      <4> QED BY <4>1 DEF HasBatch, SlotsOf
    <3> QED BY <2>1, <2>8, <3>1, GaveUpCounts
  <2> QED BY <2>3, <2>4, <2>5, <2>6, <2>7, <2>8, PushShape, StepShape
<1>2. Spec => [][A]_vars
  BY <1>1, QueueInvariant, PTL DEF Spec
<1> QED BY <1>2 DEF WholeBatches

\* With a free slot a push loses nothing that is queued.
THEOREM NothingLostWithRoom == Spec => LossOnlyWhenFull
<1> DEFINE A == Pulled \/ Cleared \/ Len(queue) = Depth
                  \/ /\ Len(queue') >= Len(queue)
                     /\ \A i \in DOMAIN queue :
                          \/ queue'[i] = queue[i]
                          \/ /\ IsProtected(queue[i].frame.type)
                             /\ queue'[i].frame.type = queue[i].frame.type
<1>1. QueueInv /\ [Next]_vars => A
  <2> SUFFICES ASSUME QueueInv, [Next]_vars, ~ Pulled, ~ Cleared, Len(queue) # Depth
               PROVE  /\ Len(queue') >= Len(queue)
                      /\ \A i \in DOMAIN queue :
                           \/ queue'[i] = queue[i]
                           \/ /\ IsProtected(queue[i].frame.type)
                              /\ queue'[i].frame.type = queue[i].frame.type
    OBVIOUS
  <2>1. queue \in Seq(Slots) /\ MsmMarkedIn(queue) /\ Len(queue) \in Nat
    BY LenProperties DEF QueueInv, TypeOK, SlotsInv
  <2>2. CASE queue' = queue
    BY <2>1, <2>2
  <2>3. ASSUME NEW s \in Slots, queue' = Append(queue, s)
        PROVE  Len(queue') >= Len(queue) /\ \A i \in DOMAIN queue : queue'[i] = queue[i]
    <3>1. Len(queue') >= Len(queue)
      BY <2>1, <2>3, AppendFacts
    <3> QED BY <2>1, <2>3, <3>1, AppendKeeps
  <2>4. ASSUME NEW k \in DOMAIN queue, Replaced(k)
        PROVE  /\ Len(queue') >= Len(queue)
               /\ \A i \in DOMAIN queue :
                    \/ queue'[i] = queue[i]
                    \/ /\ IsProtected(queue[i].frame.type)
                       /\ queue'[i].frame.type = queue[i].frame.type
    BY <2>1, <2>4, ReplacedKeeps
  <2>5. \A v : ~ GaveUp(v)
    BY DEF GaveUp
  <2> QED BY <2>2, <2>3, <2>4, <2>5, PushShape, StepShape
<1>2. Spec => [][A]_vars
  BY <1>1, QueueInvariant, PTL DEF Spec
<1> QED BY <1>2 DEF LossOnlyWhenFull

-----------------------------------------------------------------------------
(* What a push counts                                                        *)

\* Removing a batch shortens the queue by the number of its slots.
LEMMA WithoutCount ==
  ASSUME NEW T, NEW q \in Seq(T), NEW b
  PROVE  /\ Len(Without(q, b)) = Len(q) - Cardinality(SlotsOf(q, b))
         /\ Len(Without(q, b)) \in Nat
         /\ Cardinality(SlotsOf(q, b)) \in 0..Len(q)
<1> DEFINE D == 1..Len(q)
           S == SlotsOf(q, b)
<1>1. Len(q) \in Nat /\ DOMAIN q = D
  BY LenProperties
<1>2. IsFiniteSet(D) /\ Cardinality(D) = Len(q)
  BY SMTT(30), <1>1, FS_Interval
<1>3. S \in SUBSET D /\ Kept(q, b) = D \ S
  BY <1>1 DEF Kept, SlotsOf
<1>4. Cardinality(S) \in 0..Len(q)
  BY <1>1, <1>3, RankOrder
<1> HIDE DEF D, S
<1>5. Cardinality(D \ S) = Cardinality(D) - Cardinality(D \cap S) /\ D \cap S = S
  BY <1>2, <1>3, FS_Difference
<1>6. Len(Without(q, b)) = Cardinality(Kept(q, b))
  BY WithoutType
<1>7. Len(Without(q, b)) = Len(q) - Cardinality(S)
  BY <1>2, <1>3, <1>5, <1>6
<1> QED BY <1>1, <1>4, <1>7 DEF S

\* No room and nothing to evict: the queue is full of frames that are not MSM.
Refused ==
  /\ Len(queue) = Depth /\ queue' = queue
  /\ \A i \in DOMAIN queue : ~ IsMsm(queue[i].frame.type)

\* A push notes n frames for the reason, and n frames are fewer than would be
\* queued had it lost none.
Dropped(reason, n) ==
  /\ drops' = NoteDrop(reason, n)
  /\ Len(queue') = Len(queue) + 1 - n
  /\ IF reason = "byReplacedProtected" THEN Sample(FALSE) ELSE Sample(TRUE)
  /\ reason = "byReplacedProtected" => n = 1
  /\ reason \in {"byQueueFull", "byProtectedKept"} => Refused

\* A push loses no frame, or as many as it counts.
Counted ==
  \/ drops' = drops /\ Len(queue') = Len(queue) + 1 /\ Sample(FALSE)
  \/ \E reason \in DropReasons, n \in Nat \ {0} : Dropped(reason, n)

\* A counted loss is one of the two outcomes.
LEMMA DroppedCounted ==
  ASSUME NEW reason \in DropReasons, NEW n \in Nat \ {0}, Dropped(reason, n)
  PROVE  Counted
BY Zenon DEF Counted

\* One frame lost is a loss.
LEMMA DroppedOne ==
  ASSUME NEW reason \in DropReasons, Dropped(reason, 1)
  PROVE  Counted
<1>1. 1 \in Nat \ {0}
  OBVIOUS
<1> QED BY <1>1, DroppedCounted

\* A queue with no free slot has as many frames as slots.
LEMMA FullLength ==
  ASSUME NEW n \in Nat, NEW d \in Nat, n <= d, n >= d
  PROVE  n = d
OBVIOUS

\* The push of a frame that is not MSM counts what it loses.
LEMMA PlainCounted ==
  ASSUME QueueInv, NEW f \in Frames, Storable(f),
         NEW reason \in {"byQueueFull", "byProtectedKept"},
         ReplaceProtected(f) \/ StorePlain(f) \/ EvictForPlain(f) \/ RefusePlain(reason)
  PROVE  Counted
<1>1. /\ queue \in Seq(Slots) /\ Len(queue) \in Nat /\ Len(queue) <= Depth
      /\ Depth \in Nat /\ MsmMarkedIn(queue) /\ DOMAIN queue = 1..Len(queue)
  BY LenProperties, SizesAssumption DEF QueueInv, TypeOK, SlotsInv
<1>2. NewSlot(f, 0) \in Slots
  BY NewSlotType, SizesAssumption
<1>3. /\ "byMsmEpoch" \in DropReasons /\ "byReplacedProtected" \in DropReasons
      /\ reason \in DropReasons /\ reason # "byReplacedProtected"
  BY DEF DropReasons
<1>4. CASE ReplaceProtected(f)
  <2>1. PICK i \in DOMAIN queue : queue' = [queue EXCEPT ![i] = NewSlot(f, 0)]
    BY <1>4 DEF ReplaceProtected
  <2>2. Len(queue') = Len(queue)
    BY <1>1, <1>2, <2>1, ExceptSeq, LenProperties
  <2>3. Len(queue') = Len(queue) + 1 - 1
    BY <1>1, <2>2
  <2>4. Dropped("byReplacedProtected", 1)
    BY Zenon, <1>4, <2>3 DEF ReplaceProtected, Dropped
  <2> QED BY <1>3, <2>4, DroppedOne
<1>5. CASE StorePlain(f)
  <2>1. Len(queue') = Len(queue) + 1
    BY <1>1, <1>2, <1>5 DEF StorePlain
  <2> QED BY <1>5, <2>1 DEF StorePlain, Counted
<1>6. CASE EvictForPlain(f)
  <2> DEFINE v == VictimBatch(queue, openBatch)
             n == Cardinality(SlotsOf(queue, v))
  <2>1. v # 0 /\ queue' = Append(Without(queue, v), NewSlot(f, 0))
        /\ drops' = NoteDrop("byMsmEpoch", n) /\ Sample(TRUE)
    BY <1>6 DEF EvictForPlain
  <2>2. Without(queue, v) \in Seq(Slots) /\ Len(Without(queue, v)) = Len(queue) - n
        /\ n \in Nat /\ Len(Without(queue, v)) < Len(queue)
    BY <1>1, <2>1, VictimQueued, WithoutType, WithoutCount
  <2> HIDE DEF v, n
  <2>3. Len(queue') = Len(queue) + 1 - n /\ n \in Nat \ {0}
    BY <1>1, <1>2, <2>1, <2>2
  <2>4. Dropped("byMsmEpoch", n)
    BY <2>1, <2>3 DEF Dropped
  <2> QED BY <1>3, <2>3, <2>4, DroppedCounted
<1>7. CASE RefusePlain(reason)
  <2>1. VictimBatch(queue, openBatch) = 0 /\ Len(queue) >= Depth /\ queue' = queue
        /\ drops' = NoteDrop(reason, 1) /\ Sample(TRUE)
    BY <1>7 DEF RefusePlain
  <2>2. OldestMsmBatch(queue, openBatch, FALSE) = 0
    BY <2>1 DEF VictimBatch
  <2>3. Evictable(queue, openBatch, FALSE) = {}
    <3>1. \A p \in Evictable(queue, openBatch, FALSE) : queue[p].batchId # 0
      BY DEF Evictable
    <3> QED BY <1>1, <2>2, <3>1, OldestFound
  <2>4. \A i \in DOMAIN queue : queue[i].batchId = 0
    BY <2>3 DEF Evictable
  <2>5. Refused
    <3>1. Len(queue) = Depth
      BY <1>1, <2>1, FullLength
    <3> QED BY <1>1, <2>1, <2>4, <3>1 DEF Refused, MsmMarkedIn
  <2>6. Len(queue') = Len(queue) + 1 - 1
    BY <1>1, <2>1
  <2>7. Dropped(reason, 1)
    BY <1>3, <2>1, <2>5, <2>6 DEF Dropped
  <2> QED BY <1>3, <2>7, DroppedOne
<1> QED BY <1>4, <1>5, <1>6, <1>7

\* The push of an MSM frame counts what it loses, the frame itself among them
\* when its own epoch is dropped.
LEMMA MsmCounted ==
  ASSUME QueueInv, NEW f \in Frames, PushMsm(f)
  PROVE  Counted
<1> DEFINE b == AssignedBatch(f)
           older == OldestMsmBatch(queue, b, TRUE)
<1>1. /\ queue \in Seq(Slots) /\ Len(queue) \in Nat /\ Len(queue) <= Depth
      /\ Depth \in Nat /\ MsmMarkedIn(queue)
  BY LenProperties, SizesAssumption DEF QueueInv, TypeOK, SlotsInv
<1>2. b \in 1..MaxBatch /\ b \in 0..MaxBatch
  BY AssignedType, SizesAssumption DEF QueueInv
<1>3. NewSlot(f, b) \in Slots
  BY <1>2, NewSlotType DEF PushMsm
<1>4. /\ "byMsmEpoch" \in DropReasons /\ "byQueueFull" \in DropReasons
      /\ "byMsmEpoch" \notin {"byQueueFull", "byProtectedKept"}
  BY DEF DropReasons
<1> HIDE DEF b
<1>5. CASE StoreMsm(f)
  <2>1. queue' = Append(queue, NewSlot(f, b)) /\ drops' = drops /\ Sample(FALSE)
    BY <1>5 DEF StoreMsm, b
  <2>2. Len(queue') = Len(queue) + 1
    BY <1>1, <1>3, <2>1
  <2> QED BY <2>1, <2>2 DEF Counted
<1>6. CASE EvictForMsm(f)
  <2> DEFINE n == Cardinality(SlotsOf(queue, older))
  <2>1. older # 0 /\ queue' = Append(Without(queue, older), NewSlot(f, b))
        /\ drops' = NoteDrop("byMsmEpoch", n) /\ Sample(TRUE)
    BY <1>6 DEF EvictForMsm, b
  <2>2. SlotsOf(queue, older) # {}
    BY Zenon, <1>1, <2>1, OldestQueued, TRUE \in BOOLEAN
  <2> HIDE DEF older
  <2>3. Without(queue, older) \in Seq(Slots) /\ Len(Without(queue, older)) = Len(queue) - n
        /\ n \in Nat /\ Len(Without(queue, older)) < Len(queue)
    BY <1>1, <2>2, WithoutType, WithoutCount
  <2> HIDE DEF n
  <2>4. Len(queue') = Len(queue) + 1 - n /\ n \in Nat \ {0}
    <3>1. Len(queue') = Len(Without(queue, older)) + 1 /\ Len(Without(queue, older)) \in Nat
      BY <1>3, <2>1, <2>3, AppendFacts
    <3> QED BY <1>1, <2>3, <3>1
  <2>5. Dropped("byMsmEpoch", n)
    BY <2>1, <2>4 DEF Dropped
  <2> QED BY <1>4, <2>4, <2>5, DroppedCounted
<1>7. CASE DropOpenEpoch(f)
  <2> DEFINE n == Cardinality(SlotsOf(queue, b))
  <2>1. queue' = Without(queue, b) /\ drops' = NoteDrop("byMsmEpoch", n + 1) /\ Sample(TRUE)
    BY <1>7 DEF DropOpenEpoch, b
  <2>2. Len(Without(queue, b)) = Len(queue) - n /\ n \in Nat
    BY <1>1, WithoutCount
  <2> HIDE DEF n
  <2>3. Len(queue') = Len(queue) + 1 - (n + 1) /\ n + 1 \in Nat \ {0}
    BY <1>1, <2>1, <2>2
  <2>4. Dropped("byMsmEpoch", n + 1)
    BY <2>1, <2>3 DEF Dropped
  <2> QED BY <1>4, <2>3, <2>4, DroppedCounted
<1>8. CASE RefuseMsm(f)
  <2>1. older = 0 /\ ~ HasBatch(queue, b) /\ Len(queue) >= Depth /\ queue' = queue
        /\ drops' = NoteDrop("byQueueFull", 1) /\ Sample(TRUE)
    BY <1>8 DEF RefuseMsm, b
  <2>2. \A i \in DOMAIN queue : queue[i].batchId \in {0, b}
    BY <1>1, <2>1, OnlyOpenQueued
  <2>3. \A i \in DOMAIN queue : queue[i].batchId = 0
    BY <1>2, <2>1, <2>2 DEF HasBatch, SlotsOf
  <2>4. Refused
    BY <1>1, <2>1, <2>3 DEF Refused, MsmMarkedIn
  <2>5. Len(queue') = Len(queue) + 1 - 1
    BY <1>1, <2>1
  <2>6. Dropped("byQueueFull", 1)
    BY <2>1, <2>4, <2>5 DEF Dropped
  <2> QED BY <1>4, <2>6, DroppedOne
<1> QED BY <1>5, <1>6, <1>7, <1>8 DEF PushMsm

\* Every push counts what it loses, and no push changes the configuration.
LEMMA PushEffect ==
  ASSUME QueueInv, NEW f \in Frames, Push(f)
  PROVE  Counted /\ cfg' = cfg
<1>1. CASE PushOversize(f)
  <2>1. "byOversize" \in DropReasons
    BY DEF DropReasons
  <2>2. Len(queue) \in Nat
    BY LenProperties DEF QueueInv, TypeOK
  <2>3. Len(queue') = Len(queue) + 1 - 1
    BY <1>1, <2>2 DEF PushOversize
  <2>4. Dropped("byOversize", 1)
    BY Zenon, <1>1, <2>3 DEF PushOversize, Dropped
  <2> QED BY <1>1, <2>1, <2>4, DroppedOne DEF PushOversize
<1>2. CASE PushProtected(f)
  <2>1. cfg' = cfg
    BY <1>2 DEF PushProtected, ReplaceProtected, StorePlain, EvictForPlain, RefusePlain
  <2> QED BY <1>2, <2>1, PlainCounted DEF PushProtected
<1>3. CASE PushOther(f)
  <2>1. cfg' = cfg
    BY <1>3 DEF PushOther, StorePlain, EvictForPlain, RefusePlain
  <2> QED BY <1>3, <2>1, PlainCounted DEF PushOther
<1>4. CASE PushMsm(f)
  <2>1. cfg' = cfg
    BY <1>4 DEF PushMsm, StoreMsm, EvictForMsm, DropOpenEpoch, RefuseMsm
  <2> QED BY <1>4, <2>1, MsmCounted
<1> QED BY <1>1, <1>2, <1>3, <1>4 DEF Push

\* What NoteDrop does to each counter.
LEMMA NoteDropFields ==
  ASSUME drops \in [DropFields -> 0..(CounterMod - 1)], NEW reason \in DropReasons, NEW n \in Nat
  PROVE  /\ NoteDrop(reason, n)["frames"] = (drops["frames"] + n) % CounterMod
         /\ NoteDrop(reason, n)[reason] = (drops[reason] + n) % CounterMod
         /\ \A x \in DropReasons : x # reason => NoteDrop(reason, n)[x] = drops[x]
<1>1. reason \in DropFields /\ "frames" \in DropFields /\ reason # "frames"
      /\ \A x \in DropReasons : x \in DropFields /\ x # "frames"
  BY DEF DropFields, DropReasons
<1> QED BY <1>1 DEF NoteDrop

=============================================================================
