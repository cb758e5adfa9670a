------------------------ MODULE CoverageWatchProofs ------------------------
(***************************************************************************)
(* Proofs about CoverageWatch for every value of its constants: the flags  *)
(* of coverageCheck(), the gaps and the rates of the type table agree with *)
(* the log of the frames, however often the clock wraps and the table      *)
(* fills up.                                                               *)
(***************************************************************************)
EXTENDS CoverageWatch, SequenceTheorems, FiniteSetTheorems, WellFoundedInduction, TLAPS

-----------------------------------------------------------------------------
(* Numbers                                                                   *)

\* A bounded set of naturals has a greatest element, the one Max chooses.
LEMMA MaxOfBounded ==
  ASSUME NEW n \in Nat, NEW S, S \subseteq 0..n, S # {}
  PROVE  Max(S) \in S /\ \A x \in S : x <= Max(S)
<1> DEFINE B == {b \in Nat : \A x \in S : x <= b}
<1>1. B # {} /\ B \subseteq Nat /\ S \subseteq Nat
  BY DEF B
<1>2. \E b \in B : \A c \in B : ~ (<<c, b>> \in OpToRel(<, Nat))
  BY <1>1, NatLessThanWellFounded, WFMin, Zenon
<1>3. PICK b \in B : \A c \in B : ~ (<<c, b>> \in OpToRel(<, Nat))
  BY <1>2
<1>4. \A c \in B : b <= c
  <2>1. SUFFICES ASSUME NEW c \in B, ~ (b <= c) PROVE FALSE
    OBVIOUS
  <2>2. b \in Nat /\ c \in Nat /\ c < b
    BY <2>1
  <2>3. <<c, b>> \in OpToRel(<, Nat)
    BY <2>2 DEF OpToRel
  <2> QED BY <1>3, <2>3
<1>5. b \in S
  <2>1. SUFFICES ASSUME b \notin S PROVE FALSE
    OBVIOUS
  <2>2. b \in Nat /\ \A x \in S : x \in Nat /\ x <= b /\ x # b
    <3>1. b \in Nat /\ \A x \in S : x <= b
      OBVIOUS
    <3> QED BY <1>1, <2>1, <3>1, Zenon
  <2>3. b # 0
    <3>1. PICK x \in S : TRUE
      OBVIOUS
    <3>2. x \in Nat /\ x <= b /\ x # b
      BY <2>2
    <3> QED BY <3>2
  <2>4. b - 1 \in B
    BY <2>2, <2>3
  <2> QED BY <1>4, <2>2, <2>4
<1>6. \A x \in S : x <= b
  BY <1>3
<1>7. \E x \in S : \A y \in S : x >= y
  BY <1>1, <1>5, <1>6
<1>8. Max(S) \in S /\ \A y \in S : Max(S) >= y
  BY <1>7 DEF Max
<1> QED BY <1>1, <1>8

\* Between two times the wrapped clock never advances more than the real one.
LEMMA WrapDistance ==
  ASSUME NEW a \in Nat, NEW b \in Nat, a <= b
  PROVE  /\ Wrap(a) \in 0..(U32 - 1) /\ Wrap(b) \in 0..(U32 - 1)
         /\ Wrap(b) - Wrap(a) <= b - a
         /\ b \div U32 = a \div U32 => Wrap(b) - Wrap(a) = b - a
         /\ a < U32 => Wrap(a) = a
<1> DEFINE qa == a \div U32
           qb == b \div U32
<1>1. U32 \in Nat \ {0}
  BY StatsAssumption
<1>2. /\ qa \in Nat /\ a = U32 * qa + Wrap(a) /\ Wrap(a) \in 0..(U32 - 1)
      /\ qb \in Nat /\ b = U32 * qb + Wrap(b) /\ Wrap(b) \in 0..(U32 - 1)
  BY <1>1 DEF Wrap
<1>3. a < U32 => Wrap(a) = a
  BY <1>1 DEF Wrap
<1> HIDE DEF qa, qb
<1>4. \A x, y \in Nat : x <= y => U32 * x <= U32 * y
  BY <1>1
<1>5. U32 * qa \in Nat /\ U32 * qb \in Nat
  BY <1>1, <1>2
<1>6. qa <= qb
  <2>1. SUFFICES ASSUME qb + 1 <= qa PROVE FALSE
    BY <1>2
  <2>2. U32 * (qb + 1) <= U32 * qa
    BY <1>2, <1>4, <2>1
  <2>3. U32 * (qb + 1) = U32 * qb + U32
    BY <1>1, <1>2
  <2> QED BY <1>1, <1>2, <1>5, <2>2, <2>3
<1>7. U32 * qa <= U32 * qb
  BY <1>2, <1>4, <1>6
<1>8. Wrap(b) - Wrap(a) <= b - a
  BY <1>1, <1>2, <1>5, <1>7
<1>9. qa = qb => Wrap(b) - Wrap(a) = b - a
  BY <1>1, <1>2, <1>5
<1> QED BY <1>2, <1>3, <1>8, <1>9 DEF qa, qb

-----------------------------------------------------------------------------
(* Sums over sets                                                            *)

\* A set of naturals has a least element.
LEMMA LeastNat ==
  ASSUME NEW S, S \subseteq Nat, S # {}
  PROVE  \E n \in S : \A m \in S : n <= m
<1>1. \E n \in S : \A m \in S : ~ (<<m, n>> \in OpToRel(<, Nat))
  BY NatLessThanWellFounded, WFMin, Zenon
<1>2. PICK n \in S : \A m \in S : ~ (<<m, n>> \in OpToRel(<, Nat))
  BY <1>1
<1>3. ASSUME NEW m \in S PROVE n <= m
  <2>1. SUFFICES ASSUME m < n PROVE FALSE
    OBVIOUS
  <2>2. <<m, n>> \in OpToRel(<, Nat)
    BY <2>1 DEF OpToRel
  <2> QED BY <1>2, <2>2
<1> QED BY <1>3

\* g[s] is base and what w says of the members of s, for every subset s of S.
Sums(g, S, w, base) ==
  /\ g \in [SUBSET S -> Nat]
  /\ g[{}] = base
  /\ \A s \in SUBSET S : \A x \in s : g[s] = w[x] + g[s \ {x}]

\* With one element more there are such sums as well.
LEMMA SumsGrow ==
  ASSUME NEW S, NEW x, x \notin S, NEW w, w[x] \in Nat, \A y \in S : w[y] \in Nat,
         NEW base, NEW g, Sums(g, S, w, base)
  PROVE  \E h : Sums(h, S \cup {x}, w, base)
<1> DEFINE U == S \cup {x}
           h == [s \in SUBSET U |-> IF x \in s THEN w[x] + g[s \ {x}] ELSE g[s]]
<1>0. /\ \A s \in SUBSET S : g[s] \in Nat
      /\ \A s \in SUBSET S : \A y \in s : g[s] = w[y] + g[s \ {y}]
      /\ g[{}] = base
  BY DEF Sums
<1>1. \A s \in SUBSET U : s \ {x} \in SUBSET S /\ (x \notin s => s \in SUBSET S)
  OBVIOUS
<1>2. \A s \in SUBSET U : h[s] \in Nat
  BY <1>0, <1>1
<1>3. h \in [SUBSET U -> Nat]
  <2>1. \A s \in SUBSET U : (IF x \in s THEN w[x] + g[s \ {x}] ELSE g[s]) \in Nat
    BY <1>0, <1>1
  <2> QED BY <2>1
<1>4. h[{}] = base
  BY <1>0
<1>5. ASSUME NEW s \in SUBSET U, NEW y \in s
      PROVE  h[s] = w[y] + h[s \ {y}]
  <2>1. CASE y = x
    <3>1. s \ {x} \in SUBSET U /\ x \notin s \ {x}
      OBVIOUS
    <3> QED BY <2>1, <3>1
  <2>2. CASE y # x /\ x \in s
    <3>1. s \ {x} \in SUBSET S /\ y \in s \ {x} /\ y \in S /\ s \ {y} \in SUBSET U /\ x \in s \ {y}
      BY <2>2
    <3>2. (s \ {x}) \ {y} = (s \ {y}) \ {x} /\ (s \ {x}) \ {y} \in SUBSET S
      BY <3>1
    <3>3. g[s \ {x}] = w[y] + g[(s \ {x}) \ {y}]
      BY <1>0, <3>1
    <3>4. h[s] = w[x] + g[s \ {x}] /\ h[s \ {y}] = w[x] + g[(s \ {y}) \ {x}]
      BY <2>2, <3>1
    <3>5. g[(s \ {x}) \ {y}] \in Nat /\ w[y] \in Nat
      BY <1>0, <3>1, <3>2
    <3>6. PICK rest \in Nat : rest = g[(s \ {x}) \ {y}] /\ rest = g[(s \ {y}) \ {x}]
      BY <3>2, <3>5
    <3>7. h[s] = w[x] + (w[y] + rest) /\ h[s \ {y}] = w[x] + rest
      BY <3>3, <3>4, <3>6
    <3> HIDE DEF h
    <3> QED BY <3>5, <3>7
  <2>3. CASE x \notin s
    <3>1. s \in SUBSET S /\ s \ {y} \in SUBSET S /\ s \ {y} \in SUBSET U /\ x \notin s \ {y}
      BY <2>3
    <3>2. h[s] = g[s] /\ h[s \ {y}] = g[s \ {y}]
      BY <2>3, <3>1
    <3> HIDE DEF h
    <3> QED BY <1>0, <3>1, <3>2
  <2> QED BY <2>1, <2>2, <2>3
<1> HIDE DEF h
<1>6. Sums(h, U, w, base)
  BY <1>3, <1>4, <1>5 DEF Sums
<1> QED BY <1>6

\* Every finite set has such sums.
LEMMA SumsExist ==
  ASSUME NEW S, IsFiniteSet(S), NEW w, \A x \in S : w[x] \in Nat, NEW base \in Nat
  PROVE  \E g : Sums(g, S, w, base)
<1> DEFINE Subs == {s \in SUBSET S : ~ \E g : Sums(g, s, w, base)}
           Sizes == {Cardinality(s) : s \in Subs}
<1>1. \A s \in SUBSET S : IsFiniteSet(s) /\ Cardinality(s) \in Nat
  BY FS_Subset, FS_CardinalityType
<1>2. SUFFICES ASSUME Subs # {} PROVE FALSE
  OBVIOUS
<1>3. Sizes \subseteq Nat /\ Sizes # {}
  BY <1>1, <1>2
<1>4. PICK n \in Sizes : \A m \in Sizes : n <= m
  BY <1>3, LeastNat
<1>5. PICK s \in Subs : n = Cardinality(s)
  BY <1>4
<1>6. CASE s = {}
  <2> DEFINE g == [t \in SUBSET {} |-> base]
  <2>1. g \in [SUBSET {} -> Nat] /\ g[{}] = base
    OBVIOUS
  <2>2. \A t \in SUBSET {} : t = {}
    OBVIOUS
  <2> HIDE DEF g
  <2>3. Sums(g, {}, w, base)
    BY <2>1, <2>2 DEF Sums
  <2> QED BY <1>5, <1>6, <2>3
<1>7. CASE s # {}
  <2>1. PICK x \in s : TRUE
    BY <1>7
  <2>2. s \ {x} \in SUBSET S /\ x \in S
    BY <1>5
  <2>3. Cardinality(s \ {x}) = n - 1
    BY <1>1, <1>5, FS_RemoveElement
  <2>4. s \ {x} \notin Subs
    <3>1. Cardinality(s \ {x}) \in Nat /\ ~ (n <= Cardinality(s \ {x}))
      BY <1>1, <2>2, <2>3
    <3> QED BY <1>4, <3>1
  <2>5. PICK g : Sums(g, s \ {x}, w, base)
    BY <2>2, <2>4
  <2>6. \E h : Sums(h, (s \ {x}) \cup {x}, w, base)
    BY <2>2, <2>5, SumsGrow
  <2>7. (s \ {x}) \cup {x} = s
    OBVIOUS
  <2> QED BY <1>5, <2>6, <2>7
<1> QED BY <1>6, <1>7

\* A function that sums up the members of a set in some order agrees with them.
LEMMA SumsUnique ==
  ASSUME NEW S, IsFiniteSet(S), NEW w, NEW base, NEW g, Sums(g, S, w, base),
         NEW f, f[{}] = base,
         \A s \in SUBSET S : s # {} => \E x \in s : f[s] = w[x] + f[s \ {x}]
  PROVE  \A s \in SUBSET S : f[s] = g[s]
<1> DEFINE Subs == {s \in SUBSET S : f[s] # g[s]}
           Sizes == {Cardinality(s) : s \in Subs}
<1>1. \A s \in SUBSET S : IsFiniteSet(s) /\ Cardinality(s) \in Nat
  BY FS_Subset, FS_CardinalityType
<1>2. SUFFICES ASSUME Subs # {} PROVE FALSE
  OBVIOUS
<1>3. Sizes \subseteq Nat /\ Sizes # {}
  BY <1>1, <1>2
<1>4. PICK n \in Sizes : \A m \in Sizes : n <= m
  BY <1>3, LeastNat
<1>5. PICK s \in Subs : n = Cardinality(s)
  BY <1>4
<1>6. s # {}
  BY <1>5 DEF Sums
<1>7. PICK x \in s : f[s] = w[x] + f[s \ {x}]
  BY <1>5, <1>6
<1>8. s \ {x} \in SUBSET S
  OBVIOUS
<1>9. Cardinality(s \ {x}) = n - 1
  BY <1>1, <1>5, FS_RemoveElement
<1>10. s \ {x} \notin Subs
  <2>1. Cardinality(s \ {x}) \in Nat /\ ~ (n <= Cardinality(s \ {x}))
    BY <1>1, <1>8, <1>9
  <2> QED BY <1>4, <2>1
<1>11. f[s \ {x}] = g[s \ {x}]
  BY <1>8, <1>10
<1>12. g[s] = w[x] + g[s \ {x}]
  BY <1>5, <1>7 DEF Sums
<1> QED BY <1>5, <1>7, <1>11, <1>12

\* The sum of what w says of the members of S.
Total(w, S) == MapThenSumSet(LAMBDA x : w[x], S)

\* It is the sum of every such function.
LEMMA TotalIsSum ==
  ASSUME NEW S, IsFiniteSet(S), NEW w, NEW g, Sums(g, S, w, 0)
  PROVE  Total(w, S) = g[S]
<1> DEFINE Body(f) == [s \in SUBSET S |-> IF s = {} THEN 0
                         ELSE LET x == CHOOSE x \in s : TRUE IN w[x] + f[s \ {x}]]
           iter == CHOOSE f : f = Body(f)
<1>1. g = Body(g)
  <2> DEFINE b == Body(g)
  <2>1. \A s \in SUBSET S : g[s] = b[s]
    <3>1. SUFFICES ASSUME NEW s \in SUBSET S PROVE g[s] = b[s]
      OBVIOUS
    <3>2. CASE s = {}
      BY <3>2 DEF Sums
    <3>3. CASE s # {}
      <4>1. PICK x : x = CHOOSE y \in s : TRUE
        OBVIOUS
      <4>2. x \in s
        BY <3>3, <4>1
      <4>3. b[s] = w[x] + g[s \ {x}]
        BY <3>3, <4>1
      <4> HIDE DEF b
      <4> QED BY <4>2, <4>3 DEF Sums
    <3> QED BY <3>2, <3>3
  <2>2. g = [s \in SUBSET S |-> g[s]] /\ b = [s \in SUBSET S |-> b[s]]
    BY DEF Sums
  <2> HIDE DEF b
  <2>3. g = b
    BY <2>1, <2>2
  <2> QED BY <2>3 DEF b
<1>2. iter = Body(iter)
  <2> HIDE DEF Body
  <2> QED BY <1>1
<1>3. Total(w, S) = iter[S]
  BY Zenon DEF Total, MapThenSumSet, MapThenFoldSet
<1> HIDE DEF iter
<1>4. iter[{}] = 0
  BY <1>2
<1>5. ASSUME NEW s \in SUBSET S, s # {}
      PROVE  \E x \in s : iter[s] = w[x] + iter[s \ {x}]
  <2>1. PICK x : x = CHOOSE y \in s : TRUE
    OBVIOUS
  <2>2. x \in s
    BY <1>5, <2>1
  <2>3. iter[s] = Body(iter)[s]
    BY <1>2
  <2>4. iter[s] = w[x] + iter[s \ {x}]
    BY <1>5, <2>1, <2>3
  <2> QED BY <2>2, <2>4
<1>6. iter[S] = g[S]
  <2>1. S \in SUBSET S
    OBVIOUS
  <2> QED BY <1>4, <1>5, <2>1, SumsUnique
<1> QED BY <1>3, <1>6

\* What a sum is made of.
LEMMA TotalFacts ==
  ASSUME NEW S, IsFiniteSet(S), NEW w, \A x \in S : w[x] \in Nat
  PROVE  /\ Total(w, S) \in Nat
         /\ S = {} => Total(w, S) = 0
         /\ \A x \in S : Total(w, S) = w[x] + Total(w, S \ {x})
<1>1. PICK g : Sums(g, S, w, 0)
  BY SumsExist
<1>2. ASSUME NEW s \in SUBSET S PROVE Total(w, s) = g[s]
  <2>1. IsFiniteSet(s)
    BY FS_Subset
  <2> DEFINE h == [t \in SUBSET s |-> g[t]]
  <2>2. \A t \in SUBSET s : h[t] = g[t] /\ t \in SUBSET S
    OBVIOUS
  <2>3. Sums(h, s, w, 0)
    <3>1. h \in [SUBSET s -> Nat]
      BY <1>1 DEF Sums
    <3>2. {} \in SUBSET s /\ s \in SUBSET s /\ \A t \in SUBSET s : \A x \in t : t \ {x} \in SUBSET s
      OBVIOUS
    <3> HIDE DEF h
    <3> QED BY <1>1, <2>2, <3>1, <3>2 DEF Sums
  <2> HIDE DEF h
  <2>4. Total(w, s) = h[s]
    BY <2>1, <2>3, TotalIsSum
  <2> QED BY <2>2, <2>4
<1>3. S \in SUBSET S /\ {} \in SUBSET S /\ \A x \in S : S \ {x} \in SUBSET S
  OBVIOUS
<1>4. Total(w, S) = g[S] /\ \A x \in S : Total(w, S \ {x}) = g[S \ {x}]
  BY <1>2, <1>3
<1> QED BY <1>1, <1>3, <1>4 DEF Sums

\* One more.
LEMMA TotalAdd ==
  ASSUME NEW S, IsFiniteSet(S), NEW x, x \notin S, NEW w, w[x] \in Nat, \A y \in S : w[y] \in Nat
  PROVE  Total(w, S \cup {x}) = w[x] + Total(w, S)
<1>1. IsFiniteSet(S \cup {x}) /\ (S \cup {x}) \ {x} = S /\ x \in S \cup {x}
  BY FS_AddElement
<1>2. \A y \in S \cup {x} : w[y] \in Nat
  OBVIOUS
<1> QED BY <1>1, <1>2, TotalFacts

\* The same members, the same sum.
LEMMA TotalSame ==
  ASSUME NEW S, IsFiniteSet(S), NEW v, NEW w,
         \A x \in S : w[x] \in Nat /\ v[x] = w[x]
  PROVE  Total(v, S) = Total(w, S)
<1>1. PICK g : Sums(g, S, w, 0)
  BY SumsExist
<1>2. Sums(g, S, v, 0)
  <2>1. \A s \in SUBSET S : \A x \in s : v[x] = w[x]
    OBVIOUS
  <2> QED BY <1>1, <2>1 DEF Sums
<1> QED BY <1>1, <1>2, TotalIsSum

-----------------------------------------------------------------------------
(* Rows                                                                      *)

\* The counters of a type.
Row ==
  [messageType : Tracked, count : Nat, bytes : Nat, lastSeen : Nat, bytesPerSec : Nat,
   maxGap : Nat, windowBytes : Nat, windowStart : Nat]

\* A wrapped number is a natural number.
LEMMA WrapType ==
  ASSUME NEW n \in Int
  PROVE  Wrap(n) \in Nat
BY StatsAssumption DEF Wrap

\* A new row counts nothing.
LEMMA NewRowType ==
  ASSUME NEW t \in Tracked
  PROVE  /\ NewRow(t) \in Row /\ NewRow(t).messageType = t /\ NewRow(t).count = 0
         /\ NewRow(t).lastSeen = 0 /\ NewRow(t).maxGap = 0
BY DEF NewRow, Row

\* Two rows that agree in what the flags and the gap are made of.
Alike(r, s) ==
  /\ r.messageType = s.messageType /\ r.count = s.count
  /\ r.lastSeen = s.lastSeen /\ r.maxGap = s.maxGap

\* What one field of a row set to a number leaves of it.
LEMMA RowFields ==
  ASSUME NEW row \in Row, NEW v \in Nat
  PROVE  /\ [row EXCEPT !.bytesPerSec = v] \in Row /\ Alike([row EXCEPT !.bytesPerSec = v], row)
         /\ [row EXCEPT !.windowBytes = v] \in Row /\ Alike([row EXCEPT !.windowBytes = v], row)
         /\ [row EXCEPT !.windowStart = v] \in Row /\ Alike([row EXCEPT !.windowStart = v], row)
         /\ [row EXCEPT !.bytes = v] \in Row /\ Alike([row EXCEPT !.bytes = v], row)
         /\ [row EXCEPT !.count = v] \in Row /\ [row EXCEPT !.count = v].count = v
         /\ [row EXCEPT !.count = v].messageType = row.messageType
         /\ [row EXCEPT !.count = v].lastSeen = row.lastSeen
         /\ [row EXCEPT !.count = v].maxGap = row.maxGap
         /\ [row EXCEPT !.maxGap = v] \in Row /\ [row EXCEPT !.maxGap = v].maxGap = v
         /\ [row EXCEPT !.maxGap = v].messageType = row.messageType
         /\ [row EXCEPT !.maxGap = v].count = row.count
         /\ [row EXCEPT !.lastSeen = v] \in Row /\ [row EXCEPT !.lastSeen = v].lastSeen = v
         /\ [row EXCEPT !.lastSeen = v].messageType = row.messageType
         /\ [row EXCEPT !.lastSeen = v].count = row.count
         /\ [row EXCEPT !.lastSeen = v].maxGap = row.maxGap
<1>1. [row EXCEPT !.bytesPerSec = v] \in Row /\ Alike([row EXCEPT !.bytesPerSec = v], row)
  BY SMT DEF Row, Alike
<1>2. [row EXCEPT !.windowBytes = v] \in Row /\ Alike([row EXCEPT !.windowBytes = v], row)
  BY SMT DEF Row, Alike
<1>3. [row EXCEPT !.windowStart = v] \in Row /\ Alike([row EXCEPT !.windowStart = v], row)
  BY SMT DEF Row, Alike
<1>4. [row EXCEPT !.bytes = v] \in Row /\ Alike([row EXCEPT !.bytes = v], row)
  BY SMT DEF Row, Alike
<1>5. /\ [row EXCEPT !.count = v] \in Row /\ [row EXCEPT !.count = v].count = v
      /\ [row EXCEPT !.count = v].messageType = row.messageType
      /\ [row EXCEPT !.count = v].lastSeen = row.lastSeen
      /\ [row EXCEPT !.count = v].maxGap = row.maxGap
  BY SMT DEF Row
<1>6. /\ [row EXCEPT !.maxGap = v] \in Row /\ [row EXCEPT !.maxGap = v].maxGap = v
      /\ [row EXCEPT !.maxGap = v].messageType = row.messageType
      /\ [row EXCEPT !.maxGap = v].count = row.count
  BY SMT DEF Row
<1>7. /\ [row EXCEPT !.lastSeen = v] \in Row /\ [row EXCEPT !.lastSeen = v].lastSeen = v
      /\ [row EXCEPT !.lastSeen = v].messageType = row.messageType
      /\ [row EXCEPT !.lastSeen = v].count = row.count
      /\ [row EXCEPT !.lastSeen = v].maxGap = row.maxGap
  BY SMT DEF Row
<1> QED BY <1>1, <1>2, <1>3, <1>4, <1>5, <1>6, <1>7

\* Rating a row changes none of the fields the flags and the gap are made of.
LEMMA RatedFacts ==
  ASSUME NEW row \in Row, NEW len \in Nat, NEW now \in Nat
  PROVE  /\ Rated(row, len, now) \in Row
         /\ Rated(row, len, now).messageType = row.messageType
         /\ Rated(row, len, now).count = row.count
<1> DEFINE start == IF row.windowStart = 0 THEN now ELSE row.windowStart
           bytes == Wrap(row.windowBytes + len)
           elapsed == Wrap(now - start)
           rate == Wrap((bytes * Second) \div elapsed)
<1>1. start \in Nat /\ bytes \in Nat /\ elapsed \in Nat /\ 0 \in Nat
  BY WrapType DEF Row
<1>2. elapsed >= Second => rate \in Nat
  <2> HIDE DEF bytes, elapsed
  <2>1. SUFFICES ASSUME elapsed >= Second PROVE (bytes * Second) \div elapsed \in Int
    BY WrapType
  <2>2. elapsed \in Nat \ {0} /\ bytes * Second \in Nat
    BY <1>1, <2>1, StatsAssumption
  <2>3. \A x \in Nat, y \in Nat \ {0} : x \div y \in Int
    OBVIOUS
  <2> QED BY <2>2, <2>3
<1> DEFINE r1 == [row EXCEPT !.bytesPerSec = rate]
           r2 == [r1 EXCEPT !.windowBytes = 0]
           r3 == [r2 EXCEPT !.windowStart = now]
           s1 == [row EXCEPT !.windowBytes = bytes]
           s2 == [s1 EXCEPT !.windowStart = start]
<1>3. Rated(row, len, now) = IF elapsed >= Second THEN r3 ELSE s2
  BY Zenon DEF Rated
<1> HIDE DEF start, bytes, elapsed, rate
<1>4. CASE elapsed >= Second
  <2>1. r1 \in Row /\ Alike(r1, row)
    BY <1>2, <1>4, RowFields
  <2> HIDE DEF r1
  <2>2. r2 \in Row /\ Alike(r2, r1)
    BY <1>1, <2>1, RowFields
  <2> HIDE DEF r2
  <2>3. r3 \in Row /\ Alike(r3, r2)
    BY <2>2, RowFields
  <2>4. Rated(row, len, now) = r3
    BY <1>3, <1>4, Zenon
  <2> HIDE DEF r3
  <2> QED BY <2>1, <2>2, <2>3, <2>4 DEF Alike
<1>5. CASE ~ (elapsed >= Second)
  <2>1. s1 \in Row /\ Alike(s1, row)
    BY <1>1, RowFields
  <2> HIDE DEF s1
  <2>2. s2 \in Row /\ Alike(s2, s1)
    BY <1>1, <2>1, RowFields
  <2>3. Rated(row, len, now) = s2
    BY <1>3, <1>5, Zenon
  <2> HIDE DEF s2
  <2> QED BY <2>1, <2>2, <2>3 DEF Alike
<1> QED BY <1>4, <1>5

\* What a frame does to its row.
LEMMA TouchedFacts ==
  ASSUME NEW row \in Row, NEW len \in Nat, NEW now \in Nat
  PROVE  /\ Touched(row, len, now) \in Row
         /\ Touched(row, len, now).messageType = row.messageType
         /\ Touched(row, len, now).count = Wrap(row.count + 1)
         /\ now = 0 => /\ Touched(row, len, now).lastSeen = row.lastSeen
                       /\ Touched(row, len, now).maxGap = row.maxGap
         /\ now # 0 => /\ Touched(row, len, now).lastSeen = now
                       /\ Touched(row, len, now).maxGap = Gap(row, now)
<1> DEFINE c == Wrap(row.count + 1)
           b == Wrap(row.bytes + len)
           once == [row EXCEPT !.count = c]
           counted == [once EXCEPT !.bytes = b]
           rated == Rated(counted, len, now)
           gap == Gap(row, now)
           wider == [rated EXCEPT !.maxGap = gap]
           seen == [wider EXCEPT !.lastSeen = now]
<1>1. c \in Nat /\ b \in Nat
  BY WrapType DEF Row
<1>2. Touched(row, len, now) = IF now = 0 THEN counted ELSE seen
  BY Zenon DEF Touched
<1>3. gap \in Nat
  BY DEF Gap, GapKnown, Row
<1> HIDE DEF c, b, gap
<1>4. /\ once \in Row /\ once.messageType = row.messageType
      /\ once.count = c /\ once.lastSeen = row.lastSeen /\ once.maxGap = row.maxGap
  BY <1>1, RowFields
<1> HIDE DEF once
<1>5. /\ counted \in Row /\ counted.messageType = row.messageType
      /\ counted.count = c /\ counted.lastSeen = row.lastSeen /\ counted.maxGap = row.maxGap
  BY <1>1, <1>4, RowFields DEF Alike
<1> HIDE DEF counted
<1>6. rated \in Row /\ rated.messageType = row.messageType /\ rated.count = c
  BY <1>5, RatedFacts
<1> HIDE DEF rated
<1>7. wider \in Row /\ wider.messageType = row.messageType /\ wider.count = c
      /\ wider.maxGap = gap
  BY <1>3, <1>6, RowFields
<1> HIDE DEF wider
<1>8. seen \in Row /\ seen.messageType = row.messageType /\ seen.count = c
      /\ seen.lastSeen = now /\ seen.maxGap = gap
  BY <1>7, RowFields
<1> HIDE DEF seen
<1>9. CASE now = 0
  BY <1>2, <1>5, <1>9 DEF c
<1>10. CASE now # 0
  BY <1>2, <1>8, <1>10 DEF c, gap
<1> QED BY <1>9, <1>10

-----------------------------------------------------------------------------
(* The table                                                                 *)

\* The counters as a record, the rows a sequence.
Stats ==
  [bytesIn : Nat, framesOk : Nat, framesBadCrc : Nat, framesDropped : Nat,
   framesOverflow : Nat, hist : [Families -> Nat], rows : Seq(Row), rowOverflow : Nat,
   decodeMask : SUBSET Nat]

\* A row of the table is rewritten in place, the row i.
RowTouched(s, s2, t, len, now) ==
  \E i \in DOMAIN s.rows :
    /\ s.rows[i].messageType = t
    /\ s2.rows = [s.rows EXCEPT ![i] = Touched(s.rows[i], len, now)]
    /\ s2.rowOverflow = s.rowOverflow

\* A row is appended.
RowAdded(s, s2, t, len, now) ==
  /\ RowOf(s, t) = {} /\ Len(s.rows) < TableCap
  /\ s2.rows = Append(s.rows, Touched(NewRow(t), len, now))
  /\ s2.rowOverflow = s.rowOverflow

\* The table is full.
RowRefused(s, s2, t) ==
  /\ RowOf(s, t) = {} /\ Len(s.rows) >= TableCap
  /\ s2.rows = s.rows
  /\ s2.rowOverflow = Wrap(s.rowOverflow + 1)

\* No two rows are of one type.
OneRowEach(s) ==
  \A i, j \in DOMAIN s.rows : s.rows[i].messageType = s.rows[j].messageType => i = j

\* What one of the two fields set leaves of the counters.
LEMMA StatsFields ==
  ASSUME NEW s \in Stats
  PROVE  /\ \A r \in Seq(Row) : /\ [s EXCEPT !.rows = r] \in Stats
                                /\ [s EXCEPT !.rows = r].rows = r
                                /\ [s EXCEPT !.rows = r].rowOverflow = s.rowOverflow
         /\ \A n \in Nat : /\ [s EXCEPT !.rowOverflow = n] \in Stats
                           /\ [s EXCEPT !.rowOverflow = n].rows = s.rows
                           /\ [s EXCEPT !.rowOverflow = n].rowOverflow = n
<1> DEFINE N == Nat
           H == [Families -> Nat]
           R == Seq(Row)
           M == SUBSET Nat
           T == [bytesIn : N, framesOk : N, framesBadCrc : N, framesDropped : N,
                 framesOverflow : N, hist : H, rows : R, rowOverflow : N, decodeMask : M]
<1>1. Stats = T
  BY Zenon DEF Stats
<1> HIDE DEF N, H, R, M
<1>2. ASSUME NEW r \in R
      PROVE  /\ [s EXCEPT !.rows = r] \in T
             /\ [s EXCEPT !.rows = r].rows = r
             /\ [s EXCEPT !.rows = r].rowOverflow = s.rowOverflow
  BY <1>1, SMT
<1>3. ASSUME NEW n \in N
      PROVE  /\ [s EXCEPT !.rowOverflow = n] \in T
             /\ [s EXCEPT !.rowOverflow = n].rows = s.rows
             /\ [s EXCEPT !.rowOverflow = n].rowOverflow = n
  BY <1>1, SMT
<1> HIDE DEF T
<1> QED BY <1>1, <1>2, <1>3, Zenon DEF N, R

\* A frame of a tracked type touches its row, opens one, or is counted as overflow.
LEMMA CrcPassShape ==
  ASSUME NEW s \in Stats, OneRowEach(s), NEW t \in Tracked, NEW len \in Nat, NEW now \in Nat
  PROVE  /\ OnCrcPass(s, t, len, now) \in Stats
         /\ \/ RowTouched(s, OnCrcPass(s, t, len, now), t, len, now)
            \/ RowAdded(s, OnCrcPass(s, t, len, now), t, len, now)
            \/ RowRefused(s, OnCrcPass(s, t, len, now), t)
<1> DEFINE s2 == OnCrcPass(s, t, len, now)
           Mapped == [i \in DOMAIN s.rows |->
                        IF i \in RowOf(s, t) THEN Touched(s.rows[i], len, now) ELSE s.rows[i]]
           added == Append(s.rows, Touched(NewRow(t), len, now))
           over == Wrap(s.rowOverflow + 1)
<1>1. s.rows \in Seq(Row) /\ s.rowOverflow \in Nat
  BY DEF Stats
<1>2. /\ Len(s.rows) \in Nat /\ DOMAIN s.rows = 1..Len(s.rows) /\ TableCap \in Nat
      /\ \A i \in DOMAIN s.rows : s.rows[i] \in Row
  BY <1>1, LenProperties, StatsAssumption
<1>3. \A r \in Seq(Row) : /\ [s EXCEPT !.rows = r] \in Stats
                          /\ [s EXCEPT !.rows = r].rows = r
                          /\ [s EXCEPT !.rows = r].rowOverflow = s.rowOverflow
  BY StatsFields
<1>4. \A n \in Nat : /\ [s EXCEPT !.rowOverflow = n] \in Stats
                     /\ [s EXCEPT !.rowOverflow = n].rows = s.rows
                     /\ [s EXCEPT !.rowOverflow = n].rowOverflow = n
  BY StatsFields
<1>5. CASE RowOf(s, t) # {}
  <2>1. s2 = [s EXCEPT !.rows = Mapped]
    BY <1>5 DEF OnCrcPass
  <2>2. PICK i \in DOMAIN s.rows : s.rows[i].messageType = t
    BY <1>5 DEF RowOf
  <2>3. \A j \in DOMAIN s.rows : j \in RowOf(s, t) <=> j = i
    BY <2>2 DEF OneRowEach, RowOf
  <2>4. Touched(s.rows[i], len, now) \in Row
    BY <1>2, <2>2, TouchedFacts
  <2>5. Mapped = [s.rows EXCEPT ![i] = Touched(s.rows[i], len, now)]
    BY <1>1, <2>2, <2>3
  <2>6. Mapped \in Seq(Row)
    BY <1>1, <2>2, <2>4, <2>5, ExceptSeq
  <2> HIDE DEF Mapped, s2
  <2>7. s2 \in Stats /\ s2.rows = Mapped /\ s2.rowOverflow = s.rowOverflow
    BY <1>3, <2>1, <2>6
  <2>8. RowTouched(s, s2, t, len, now)
    BY <2>2, <2>5, <2>7 DEF RowTouched
  <2> QED BY <2>7, <2>8 DEF s2
<1>6. CASE RowOf(s, t) = {} /\ Len(s.rows) < TableCap
  <2>1. s2 = [s EXCEPT !.rows = added]
    BY <1>6 DEF OnCrcPass
  <2>2. Touched(NewRow(t), len, now) \in Row
    <3>1. NewRow(t) \in Row
      BY NewRowType
    <3> QED BY <3>1, TouchedFacts, Zenon
  <2>3. added \in Seq(Row)
    BY <1>1, <2>2
  <2> HIDE DEF added, s2
  <2>4. s2 \in Stats /\ s2.rows = added /\ s2.rowOverflow = s.rowOverflow
    BY <1>3, <2>1, <2>3
  <2> QED BY <1>6, <2>4 DEF RowAdded, added, s2
<1>7. CASE RowOf(s, t) = {} /\ Len(s.rows) >= TableCap
  <2>1. s2 = [s EXCEPT !.rowOverflow = over]
    <3>1. ~ (Len(s.rows) < TableCap)
      BY <1>2, <1>7
    <3> QED BY <1>7, <3>1 DEF OnCrcPass
  <2>2. over \in Nat
    BY <1>1, WrapType, SMTT(30)
  <2> HIDE DEF over, s2
  <2>3. s2 \in Stats /\ s2.rows = s.rows /\ s2.rowOverflow = over
    BY <1>4, <2>1, <2>2
  <2> QED BY <1>7, <2>3 DEF RowRefused, over, s2
<1> QED BY <1>2, <1>5, <1>6, <1>7

-----------------------------------------------------------------------------
(* The log                                                                   *)

Entry == [messageType : Types, len : Lens, at : Nat]

\* Frames are logged in the order of their times, none later than the last stamp.
LogInv ==
  /\ log \in Seq(Entry) /\ Len(log) <= MaxFrames
  /\ time \in Nat /\ stamp \in Nat /\ stamp <= time
  /\ \A k \in DOMAIN log : log[k].at <= stamp
  /\ \A i, j \in DOMAIN log : i <= j => log[i].at <= log[j].at

\* What the type of the log says of its entries.
LEMMA LogFacts ==
  ASSUME LogInv
  PROVE  /\ Len(log) \in Nat /\ DOMAIN log = 1..Len(log)
         /\ \A k \in DOMAIN log : /\ log[k].at \in Nat /\ log[k].at <= time
                                  /\ log[k].messageType \in Types
         /\ \A t : Of(t) \subseteq 1..Len(log) /\ Stamped(t) \subseteq Of(t)
<1>1. log \in Seq(Entry) /\ Len(log) \in Nat /\ DOMAIN log = 1..Len(log)
      /\ \A k \in DOMAIN log : log[k] \in Entry
  BY LenProperties DEF LogInv
<1>2. \A e \in Entry : e.at \in Nat /\ e.messageType \in Types
  BY DEF Entry
<1>3. \A k \in DOMAIN log : log[k].at \in Nat /\ log[k].at <= time /\ log[k].messageType \in Types
  BY <1>1, <1>2 DEF LogInv
<1> QED BY <1>1, <1>3 DEF Of, Stamped

\* Two frames of a type that came with a time, none of the type and with one between.
Adjacent(t, i, j) ==
  /\ i \in Stamped(t) /\ j \in Stamped(t) /\ i < j
  /\ \A k \in Stamped(t) : ~ (i < k /\ k < j)

\* The gaps are those between such frames.
LEMMA GapsFacts ==
  ASSUME LogInv, NEW t
  PROVE  /\ \A i, j : Adjacent(t, i, j) => log[j].at - log[i].at \in Gaps(t)
         /\ \A g \in Gaps(t) : /\ g \in 0..time
                               /\ \E i, j : Adjacent(t, i, j) /\ g = log[j].at - log[i].at
         /\ \A g \in GapsInLap(t) :
              \E i, j \in Stamped(t) : Adjacent(t, i, j) /\ SameLap(i, j) /\ g = log[j].at - log[i].at
<1>1. Stamped(t) \subseteq DOMAIN log /\ Stamped(t) \subseteq Nat
      /\ \A k \in DOMAIN log : log[k].at \in Nat /\ log[k].at <= time
  BY LogFacts
<1>2. \A i, j \in Stamped(t) :
        (i + 1)..(j - 1) \cap Stamped(t) = {} <=> \A k \in Stamped(t) : ~ (i < k /\ k < j)
  BY <1>1
<1>3. ASSUME NEW i, NEW j, Adjacent(t, i, j)
      PROVE  log[j].at - log[i].at \in Gaps(t)
  <2>1. i \in Stamped(t) /\ j \in Stamped(t) /\ i < j /\ (i + 1)..(j - 1) \cap Stamped(t) = {}
    BY <1>2, <1>3 DEF Adjacent
  <2>2. log[i].at <= log[j].at
    BY <1>1, <2>1 DEF LogInv
  <2>3. log[j].at - log[i].at \in 0..time
    BY <1>1, <2>1, <2>2 DEF LogInv
  <2> QED BY <2>1, <2>3 DEF Gaps, InARow
<1>4. ASSUME NEW g \in Gaps(t)
      PROVE  g \in 0..time /\ \E i, j : Adjacent(t, i, j) /\ g = log[j].at - log[i].at
  BY <1>2 DEF Gaps, InARow, Adjacent
<1>5. ASSUME NEW g \in GapsInLap(t)
      PROVE  \E i, j \in Stamped(t) : Adjacent(t, i, j) /\ SameLap(i, j) /\ g = log[j].at - log[i].at
  BY <1>2 DEF GapsInLap, InARow, Adjacent
<1> QED BY <1>3, <1>4, <1>5

\* m is the last frame of type t that came with a time.
LastStamped(t, m) == m \in Stamped(t) /\ \A k \in Stamped(t) : k <= m

\* A row tells the truth about the frames of its type; the row of a type of which
\* none was seen has no count.
RowTrue(row) ==
  LET t == row.messageType
  IN  /\ row.count <= Len(log)
      /\ Of(t) # {} => row.count >= 1
      /\ Stamped(t) = {} => row.lastSeen = 0
      /\ Stamped(t) # {} => \E m \in Stamped(t) : LastStamped(t, m) /\ row.lastSeen = Wrap(log[m].at)
      /\ row.maxGap = 0 \/ \E g \in Gaps(t) : row.maxGap <= g
      /\ \A i, j \in Stamped(t) : Adjacent(t, i, j) /\ SameLap(i, j)
                                   => log[j].at - log[i].at <= row.maxGap

\* One row to a type, each of a type that was seen and telling the truth of it; and
\* a type that was seen has a row, unless the table is full and says so.
TableTrue ==
  /\ OneRowEach(stats)
  /\ \A i \in DOMAIN stats.rows :
       Of(stats.rows[i].messageType) # {} /\ RowTrue(stats.rows[i])
  /\ stats.rowOverflow <= Len(log)
  /\ \A k \in DOMAIN log : log[k].messageType \in Tracked =>
       \/ RowOf(stats, log[k].messageType) # {}
       \/ Len(stats.rows) >= TableCap /\ stats.rowOverflow # 0

\* What coverageCheck() relies on.
WatchInv == stats \in Stats /\ LogInv /\ TableTrue

\* Appending a frame to the log: its own type gains it, the others gain nothing.
LEMMA LogGrows ==
  ASSUME LogInv, NEW t \in Types, NEW len \in Lens, Pass(t, len)
  PROVE  LET n == Len(log) + 1
         IN  /\ LogInv' /\ Len(log') = n /\ DOMAIN log' = DOMAIN log \cup {n} /\ n \notin DOMAIN log
             /\ \A k \in DOMAIN log : log'[k] = log[k]
             /\ log'[n].messageType = t /\ log'[n].at = stamp
             /\ \A u : u # t => Of(u)' = Of(u) /\ Stamped(u)' = Stamped(u)
             /\ Of(t)' = Of(t) \cup {n}
             /\ Wrap(stamp) = 0 => Stamped(t)' = Stamped(t)
             /\ Wrap(stamp) # 0 => Stamped(t)' = Stamped(t) \cup {n}
<1> DEFINE n == Len(log) + 1
           e == [messageType |-> t, len |-> len, at |-> stamp]
<1>1. /\ log \in Seq(Entry) /\ Len(log) \in Nat /\ DOMAIN log = 1..Len(log)
      /\ time \in Nat /\ stamp \in Nat /\ stamp <= time
      /\ \A k \in DOMAIN log : log[k].at \in Nat
  BY LogFacts DEF LogInv
<1>2. log' = Append(log, e) /\ Len(log) < MaxFrames /\ time' = time /\ stamp' = stamp
  BY DEF Pass
<1>3. e \in Entry /\ e.messageType = t /\ e.at = stamp
  BY <1>1 DEF Entry
<1> HIDE DEF e
<1>4. /\ log' \in Seq(Entry) /\ Len(log') = n /\ log'[n] = e
      /\ \A k \in 1..Len(log) : log'[k] = log[k]
  BY <1>1, <1>2, <1>3, AppendProperties
<1>5. DOMAIN log' = 1..n
  BY <1>4, LenProperties
<1>6. DOMAIN log' = DOMAIN log \cup {n} /\ n \notin DOMAIN log
  BY <1>1, <1>5
<1>7. \A k \in DOMAIN log : log'[k] = log[k]
  BY <1>1, <1>4
<1>8. log'[n].messageType = t /\ log'[n].at = stamp
  BY <1>3, <1>4
<1>9. LogInv'
  <2>1. Len(log') <= MaxFrames
    BY <1>1, <1>2, <1>4, WatchAssumption
  <2>2. \A k \in DOMAIN log' : log'[k].at <= stamp'
    BY <1>1, <1>2, <1>6, <1>7, <1>8 DEF LogInv
  <2>3. ASSUME NEW i \in DOMAIN log', NEW j \in DOMAIN log', i <= j
        PROVE  log'[i].at <= log'[j].at
    <3>1. CASE j \in DOMAIN log
      <4>1. i \in DOMAIN log
        BY <1>1, <1>5, <2>3, <3>1
      <4> QED BY <1>7, <2>3, <3>1, <4>1 DEF LogInv
    <3>2. CASE j = n
      BY <1>2, <1>8, <2>2, <3>2
    <3> QED BY <1>6, <3>1, <3>2
  <2> QED BY <1>1, <1>2, <1>4, <2>1, <2>2, <2>3 DEF LogInv
<1> HIDE DEF n
<1>10. \A u : u # t => Of(u)' = Of(u)
  BY <1>6, <1>7, <1>8 DEF Of
<1>11. Of(t)' = Of(t) \cup {n}
  BY <1>6, <1>7, <1>8 DEF Of
<1>12. \A u : Of(u) \subseteq DOMAIN log
  BY DEF Of
<1>13. \A u : u # t => Stamped(u)' = Stamped(u)
  BY <1>7, <1>10, <1>12 DEF Stamped
<1>14. Wrap(stamp) = 0 => Stamped(t)' = Stamped(t)
  BY <1>7, <1>8, <1>11, <1>12 DEF Stamped
<1>15. Wrap(stamp) # 0 => Stamped(t)' = Stamped(t) \cup {n}
  BY <1>7, <1>8, <1>11, <1>12 DEF Stamped
<1> QED BY <1>4, <1>6, <1>7, <1>8, <1>9, <1>10, <1>11, <1>13, <1>14, <1>15 DEF n

\* A frame of another type changes nothing a row tells of.
LEMMA RowKept ==
  ASSUME LogInv, NEW t \in Types, NEW len \in Lens, Pass(t, len),
         NEW row \in Row, row.messageType # t, RowTrue(row)
  PROVE  RowTrue(row)'
<1> DEFINE u == row.messageType
           n == Len(log) + 1
<1>1. /\ Len(log') = n /\ \A k \in DOMAIN log : log'[k] = log[k]
      /\ Of(u)' = Of(u) /\ Stamped(u)' = Stamped(u)
      /\ time' = time /\ Len(log) \in Nat
  BY LogGrows, LogFacts DEF Pass
<1>2. Stamped(u) \subseteq DOMAIN log
  BY DEF Of, Stamped
<1>3. /\ Gaps(u)' = Gaps(u)
      /\ \A i, j \in Stamped(u) : /\ Adjacent(u, i, j)' <=> Adjacent(u, i, j)
                                  /\ SameLap(i, j)' <=> SameLap(i, j)
                                  /\ log'[i] = log[i] /\ log'[j] = log[j]
  BY <1>1, <1>2 DEF Gaps, InARow, Adjacent, SameLap
<1>4. row.count \in Nat
  BY DEF Row
<1>5. \A m \in Stamped(u) : LastStamped(u, m)' <=> LastStamped(u, m)
  BY <1>1 DEF LastStamped
<1>6. row.count <= Len(log)' /\ (Of(u)' # {} => row.count >= 1)
  BY <1>1, <1>4 DEF RowTrue
<1>7. Stamped(u)' = {} => row.lastSeen = 0
  BY <1>1 DEF RowTrue
<1>8. ASSUME Stamped(u)' # {}
      PROVE  \E m \in Stamped(u)' : LastStamped(u, m)' /\ row.lastSeen = Wrap(log'[m].at)
  <2>1. PICK m \in Stamped(u) : LastStamped(u, m) /\ row.lastSeen = Wrap(log[m].at)
    BY <1>1, <1>8 DEF RowTrue
  <2> QED BY <1>1, <1>2, <1>5, <2>1
<1>9. /\ row.maxGap = 0 \/ \E g \in Gaps(u)' : row.maxGap <= g
      /\ \A i, j \in Stamped(u)' : Adjacent(u, i, j)' /\ SameLap(i, j)'
                                    => log'[j].at - log'[i].at <= row.maxGap
  BY <1>1, <1>3 DEF RowTrue
<1> QED BY <1>6, <1>7, <1>8, <1>9 DEF RowTrue

\* The same after a step.
LEMMA GapsNext ==
  ASSUME NEW t
  PROVE  (LogInv => /\ \A i, j : Adjacent(t, i, j) => log[j].at - log[i].at \in Gaps(t)
                    /\ \A g \in Gaps(t) :
                         \E i, j : Adjacent(t, i, j) /\ g = log[j].at - log[i].at)'
<1>1. LogInv => /\ \A i, j : Adjacent(t, i, j) => log[j].at - log[i].at \in Gaps(t)
                /\ \A g \in Gaps(t) :
                     \E i, j : Adjacent(t, i, j) /\ g = log[j].at - log[i].at
  BY GapsFacts
<1> QED BY <1>1, PTL

\* The gaps after a frame that came with a time: those before, and the one that it
\* ended.
LEMMA GapsGrow ==
  ASSUME LogInv, NEW t \in Types, NEW len \in Lens, Pass(t, len), Wrap(stamp) # 0
  PROVE  /\ Stamped(t) = {} => Gaps(t)' = {} /\ Gaps(t) = {}
         /\ \A i, j : Adjacent(t, i, j)'
                        => Adjacent(t, i, j) \/ (j = Len(log) + 1 /\ LastStamped(t, i))
         /\ \A m : LastStamped(t, m)
                     => /\ stamp - log[m].at \in Gaps(t)'
                        /\ \A g \in Gaps(t) : g \in Gaps(t)'
                        /\ \A g \in Gaps(t)' : g \in Gaps(t) \/ g = stamp - log[m].at
<1>0. PICK n : n = Len(log) + 1
  OBVIOUS
<1>1. /\ LogInv' /\ \A k \in DOMAIN log : log'[k] = log[k]
      /\ log'[n].at = stamp /\ Stamped(t)' = Stamped(t) \cup {n}
      /\ Len(log) \in Nat /\ DOMAIN log = 1..Len(log)
  BY <1>0, LogGrows, LogFacts
<1>2. \A k \in Stamped(t) : k \in DOMAIN log /\ k \in Nat /\ k < n /\ n \in Nat
  BY <1>0, <1>1 DEF Of, Stamped
<1>3. \A i, j : Adjacent(t, i, j)' => Adjacent(t, i, j) \/ (j = n /\ LastStamped(t, i))
  <2>1. SUFFICES ASSUME NEW i, NEW j, Adjacent(t, i, j)'
                 PROVE  Adjacent(t, i, j) \/ (j = n /\ LastStamped(t, i))
    OBVIOUS
  <2>2. /\ i \in Stamped(t) \cup {n} /\ j \in Stamped(t) \cup {n} /\ i < j
        /\ \A k \in Stamped(t) \cup {n} : ~ (i < k /\ k < j)
    BY <1>1, <2>1 DEF Adjacent
  <2>3. i \in Stamped(t)
    BY <1>2, <2>2
  <2>4. CASE j \in Stamped(t)
    BY <2>2, <2>3, <2>4 DEF Adjacent
  <2>5. CASE j = n
    BY <1>2, <2>2, <2>3, <2>5 DEF LastStamped
  <2> QED BY <2>2, <2>4, <2>5
<1>4. \A i, j : Adjacent(t, i, j) => Adjacent(t, i, j)'
  BY <1>1, <1>2 DEF Adjacent
<1>5. \A m : LastStamped(t, m) => Adjacent(t, m, n)'
  <2>1. SUFFICES ASSUME NEW m, LastStamped(t, m)
                 PROVE  /\ m \in Stamped(t) \cup {n} /\ n \in Stamped(t) \cup {n} /\ m < n
                        /\ \A k \in Stamped(t) \cup {n} : ~ (m < k /\ k < n)
    BY <1>1 DEF Adjacent
  <2>2. m \in Stamped(t) /\ \A k \in Stamped(t) : k <= m
    BY <2>1 DEF LastStamped
  <2> QED BY <1>2, <2>2
<1>6. /\ \A i, j : Adjacent(t, i, j) => log[j].at - log[i].at \in Gaps(t)
      /\ \A g \in Gaps(t) : \E i, j : Adjacent(t, i, j) /\ g = log[j].at - log[i].at
  BY GapsFacts
<1>7. /\ \A i, j : Adjacent(t, i, j)' => log'[j].at - log'[i].at \in Gaps(t)'
      /\ \A g \in Gaps(t)' : \E i, j : Adjacent(t, i, j)' /\ g = log'[j].at - log'[i].at
  BY <1>1, GapsNext
<1>8. ASSUME Stamped(t) = {} PROVE Gaps(t)' = {} /\ Gaps(t) = {}
  <2>1. \A i, j : ~ Adjacent(t, i, j) /\ ~ LastStamped(t, i)
    BY <1>8 DEF Adjacent, LastStamped
  <2> QED BY <1>3, <1>6, <1>7, <2>1
<1>9. ASSUME NEW m, LastStamped(t, m)
      PROVE  /\ stamp - log[m].at \in Gaps(t)'
             /\ \A g \in Gaps(t) : g \in Gaps(t)'
             /\ \A g \in Gaps(t)' : g \in Gaps(t) \/ g = stamp - log[m].at
  <2>1. m \in Stamped(t) /\ log'[m] = log[m] /\ \A i : LastStamped(t, i) => i = m
    BY <1>1, <1>2, <1>9 DEF LastStamped
  <2>2. stamp - log[m].at \in Gaps(t)'
    <3>1. log'[n].at - log'[m].at \in Gaps(t)'
      BY <1>5, <1>7, <1>9
    <3> QED BY <1>1, <2>1, <3>1
  <2>3. ASSUME NEW g \in Gaps(t) PROVE g \in Gaps(t)'
    <3>1. PICK i, j : Adjacent(t, i, j) /\ g = log[j].at - log[i].at
      BY <1>6
    <3>2. log'[i] = log[i] /\ log'[j] = log[j]
      BY <1>1, <1>2, <3>1 DEF Adjacent
    <3> QED BY <1>4, <1>7, <3>1, <3>2
  <2>4. ASSUME NEW g \in Gaps(t)' PROVE g \in Gaps(t) \/ g = stamp - log[m].at
    <3>1. PICK i, j : Adjacent(t, i, j)' /\ g = log'[j].at - log'[i].at
      BY <1>7
    <3>2. CASE Adjacent(t, i, j)
      <4>1. log'[i] = log[i] /\ log'[j] = log[j]
        BY <1>1, <1>2, <3>2 DEF Adjacent
      <4> QED BY <1>6, <3>1, <3>2, <4>1
    <3>3. CASE j = n /\ LastStamped(t, i)
      BY <1>1, <2>1, <3>1, <3>3
    <3> QED BY <1>3, <3>1, <3>2, <3>3
  <2> QED BY <2>2, <2>3, <2>4
<1> QED BY <1>0, <1>3, <1>8, <1>9

\* A row of a type not seen counts nothing, and that is true.
LEMMA NewRowTrue ==
  ASSUME LogInv, NEW t \in Tracked, Of(t) = {}
  PROVE  RowTrue(NewRow(t))
<1>1. /\ NewRow(t).messageType = t /\ NewRow(t).count = 0
      /\ NewRow(t).lastSeen = 0 /\ NewRow(t).maxGap = 0
  BY NewRowType
<1>2. Stamped(t) = {} /\ Len(log) \in Nat
  BY LogFacts DEF Stamped
<1>3. Gaps(t) = {}
  BY <1>2 DEF Gaps
<1> QED BY <1>1, <1>2, <1>3 DEF RowTrue

\* A true row touched by a frame of its type is true of the log with that frame.
LEMMA RowTouchedTrue ==
  ASSUME LogInv, NEW t \in Types, NEW len \in Lens, Pass(t, len),
         NEW row \in Row, row.messageType = t, RowTrue(row),
         NEW r \in Row, r = Touched(row, len, Wrap(stamp))
  PROVE  RowTrue(r)'
<1> DEFINE now == Wrap(stamp)
<1>0. PICK n : n = Len(log) + 1
  OBVIOUS
<1>1. /\ Len(log') = n /\ n \in Nat /\ Len(log) = n - 1 /\ n <= MaxFrames
      /\ \A k \in DOMAIN log : log'[k] = log[k]
      /\ log'[n].at = stamp
      /\ Of(t)' = Of(t) \cup {n}
      /\ now = 0 => Stamped(t)' = Stamped(t)
      /\ now # 0 => Stamped(t)' = Stamped(t) \cup {n}
      /\ time' = time /\ stamp \in Nat /\ time \in Nat /\ stamp <= time
  BY <1>0, LogGrows, LogFacts DEF Pass, LogInv
<1>2. now \in Nat /\ len \in Nat
  BY <1>1, WrapType, WatchAssumption
<1> HIDE DEF now
<1>3. /\ r.messageType = t /\ r.count = Wrap(row.count + 1)
      /\ now = 0 => r.lastSeen = row.lastSeen /\ r.maxGap = row.maxGap
      /\ now # 0 => r.lastSeen = now /\ r.maxGap = Gap(row, now)
  BY <1>2, TouchedFacts, ZenonT(30) DEF now
<1>4. row.count \in Nat /\ row.lastSeen \in Nat /\ row.maxGap \in Nat /\ row.count <= n - 1
  BY <1>1 DEF Row, RowTrue
<1>5. r.count = row.count + 1
  <2>1. row.count + 1 \in 0..(U32 - 1)
    BY SMTT(30), <1>1, <1>4, WatchAssumption, StatsAssumption
  <2> QED BY <1>3, <2>1, StatsAssumption DEF Wrap
<1>6. r.count <= Len(log)' /\ r.count >= 1
  BY <1>1, <1>4, <1>5
<1>7. CASE now = 0
  <2>1. Stamped(t) \subseteq DOMAIN log /\ Stamped(t)' = Stamped(t)
    BY <1>1, <1>7 DEF Of, Stamped
  <2>2. /\ Gaps(t)' = Gaps(t)
        /\ \A i, j \in Stamped(t) : /\ Adjacent(t, i, j)' <=> Adjacent(t, i, j)
                                    /\ SameLap(i, j)' <=> SameLap(i, j)
                                    /\ log'[i] = log[i] /\ log'[j] = log[j]
    BY <1>1, <2>1, SMTT(30) DEF Gaps, InARow, Adjacent, SameLap
  <2>3. \A m \in Stamped(t) : LastStamped(t, m)' <=> LastStamped(t, m)
    BY <2>1 DEF LastStamped
  <2>4. r.lastSeen = row.lastSeen /\ r.maxGap = row.maxGap
    BY <1>3, <1>7
  <2>5. Stamped(t)' = {} => r.lastSeen = 0
    BY <2>1, <2>4 DEF RowTrue
  <2>6. ASSUME Stamped(t)' # {}
        PROVE  \E m \in Stamped(t)' : LastStamped(t, m)' /\ r.lastSeen = Wrap(log'[m].at)
    <3>1. PICK m \in Stamped(t) : LastStamped(t, m) /\ row.lastSeen = Wrap(log[m].at)
      BY <2>1, <2>6 DEF RowTrue
    <3> QED BY <1>1, <2>1, <2>3, <2>4, <3>1
  <2>7. /\ r.maxGap = 0 \/ \E g \in Gaps(t)' : r.maxGap <= g
        /\ \A i, j \in Stamped(t)' : Adjacent(t, i, j)' /\ SameLap(i, j)'
                                      => log'[j].at - log'[i].at <= r.maxGap
    BY <1>1, <2>1, <2>2, <2>4 DEF RowTrue
  <2> QED BY <1>3, <1>6, <2>5, <2>6, <2>7 DEF RowTrue
<1>8. CASE now # 0
  <2>1. Stamped(t)' = Stamped(t) \cup {n}
    BY <1>1, <1>8
  <2>2. LastStamped(t, n)'
    <3>1. \A k \in Stamped(t) : k \in Nat /\ k <= n
      BY <1>0, <1>1, LogFacts
    <3> QED BY <1>1, <2>1, <3>1 DEF LastStamped
  <2>3. r.lastSeen = Wrap(log'[n].at) /\ r.maxGap = Gap(row, now)
    BY <1>1, <1>3, <1>8 DEF now
  <2>4. /\ r.maxGap = 0 \/ \E g \in Gaps(t)' : r.maxGap <= g
        /\ \A i, j \in Stamped(t)' : Adjacent(t, i, j)' /\ SameLap(i, j)'
                                      => log'[j].at - log'[i].at <= r.maxGap
    <3>1. CASE Stamped(t) = {}
      <4>1. Gaps(t)' = {} /\ Gaps(t) = {}
        BY <1>8, <3>1, GapsGrow DEF now
      <4>2. row.lastSeen = 0 /\ row.maxGap = 0
        BY <3>1, <4>1 DEF RowTrue
      <4>3. r.maxGap = 0
        BY <2>3, <4>2 DEF Gap, GapKnown
      <4>4. \A i, j \in Stamped(t)' : ~ Adjacent(t, i, j)'
        BY <2>1, <3>1, <1>1 DEF Adjacent
      <4> QED BY <4>1, <4>3, <4>4
    <3>2. CASE Stamped(t) # {}
      <4>1. PICK m \in Stamped(t) : LastStamped(t, m) /\ row.lastSeen = Wrap(log[m].at)
        BY <3>2 DEF RowTrue
      <4> DEFINE a == log[m].at
                 d == stamp - a
      <4>2. a \in Nat /\ a <= stamp /\ Wrap(a) # 0
        BY <4>1, LogFacts DEF LogInv, Stamped
      <4>3. /\ d \in Gaps(t)'
            /\ \A g \in Gaps(t) : g \in Gaps(t)'
            /\ \A g \in Gaps(t)' : g \in Gaps(t) \/ g = d
        BY <1>8, <4>1, GapsGrow DEF now
      <4> HIDE DEF a
      <4>4. now - Wrap(a) <= d /\ (stamp \div U32 = a \div U32 => now - Wrap(a) = d)
        BY <1>1, <4>2, WrapDistance DEF now
      <4>5. Wrap(a) \in Nat /\ d \in Nat
        <5>1. d \in Nat
          BY <1>1, <4>2
        <5> QED BY <4>2, <5>1, WrapType
      <4>6. row.lastSeen = Wrap(a)
        BY <4>1 DEF a
      <4>7. r.maxGap = IF now >= Wrap(a) /\ now - Wrap(a) > row.maxGap
                       THEN now - Wrap(a) ELSE row.maxGap
        BY <2>3, <4>2, <4>6 DEF Gap, GapKnown
      <4> HIDE DEF d
      <4>8. r.maxGap = 0 \/ \E g \in Gaps(t)' : r.maxGap <= g
        <5>1. CASE now >= Wrap(a) /\ now - Wrap(a) > row.maxGap
          BY <4>3, <4>4, <4>7, <5>1
        <5>2. CASE ~ (now >= Wrap(a) /\ now - Wrap(a) > row.maxGap)
          BY <4>3, <4>7, <5>2 DEF RowTrue
        <5> QED BY <5>1, <5>2
      <4>9. ASSUME NEW i \in Stamped(t)', NEW j \in Stamped(t)', Adjacent(t, i, j)', SameLap(i, j)'
            PROVE  log'[j].at - log'[i].at <= r.maxGap
        <5>1. Adjacent(t, i, j) \/ (j = n /\ LastStamped(t, i))
          BY <1>0, <1>8, <4>9, GapsGrow DEF now
        <5>2. CASE Adjacent(t, i, j)
          <6>1. i \in Stamped(t) /\ j \in Stamped(t) /\ i \in DOMAIN log /\ j \in DOMAIN log
            BY <5>2 DEF Adjacent, Stamped, Of
          <6>2. log'[i] = log[i] /\ log'[j] = log[j] /\ log[i].at \in Nat /\ log[j].at \in Nat
            BY <1>1, <6>1, LogFacts
          <6>3. log[j].at - log[i].at <= row.maxGap
            BY <4>9, <5>2, <6>1, <6>2 DEF RowTrue, SameLap
          <6>4. row.maxGap <= r.maxGap
            BY <1>2, <1>4, <4>5, <4>7
          <6>5. r.maxGap \in Nat
            BY DEF Row
          <6> QED BY <1>4, <6>2, <6>3, <6>4, <6>5
        <5>3. CASE j = n /\ LastStamped(t, i)
          <6>1. i = m /\ m \in DOMAIN log
            BY <4>1, <5>3, LogFacts DEF LastStamped
          <6>2. log'[j].at = stamp /\ log'[i].at = a
            BY <1>1, <5>3, <6>1 DEF a
          <6>3. now - Wrap(a) = d
            BY <4>4, <4>9, <6>2 DEF SameLap
          <6>4. d <= r.maxGap
            BY <1>2, <1>4, <4>5, <4>7, <6>3
          <6> QED BY <6>2, <6>4 DEF d
        <5> QED BY <5>1, <5>2, <5>3
      <4> QED BY <4>8, <4>9
    <3> QED BY <3>1, <3>2
  <2>5. Stamped(t)' # {} /\ n \in Stamped(t)'
    BY <2>1
  <2> QED BY <1>3, <1>6, <2>2, <2>3, <2>4, <2>5 DEF RowTrue
<1> QED BY <1>7, <1>8

-----------------------------------------------------------------------------
(* The invariant                                                             *)

\* A frame of a type out of range leaves the table alone.
LEMMA PassUntracked ==
  ASSUME WatchInv, NEW t \in Types, NEW len \in Lens, Pass(t, len), t \notin Tracked
  PROVE  WatchInv'
<1> DEFINE n == Len(log) + 1
<1>1. stats' = stats /\ stats \in Stats /\ LogInv /\ TableTrue
  BY DEF Pass, OnCrcPass, WatchInv
<1>2. /\ LogInv' /\ Len(log') = n /\ DOMAIN log' = DOMAIN log \cup {n}
      /\ \A k \in DOMAIN log : log'[k] = log[k]
      /\ log'[n].messageType = t /\ Len(log) \in Nat
      /\ \A u : u # t => Of(u)' = Of(u)
  BY <1>1, LogGrows, LogFacts
<1>3. ASSUME NEW row \in Row, RowTrue(row), Of(row.messageType) # {}
      PROVE  RowTrue(row)' /\ Of(row.messageType)' # {}
  <2>1. row.messageType # t
    BY <1>3 DEF Row
  <2> QED BY <1>1, <1>2, <1>3, <2>1, RowKept
<1>4. \A i \in DOMAIN stats.rows : stats.rows[i] \in Row
  BY <1>1 DEF Stats
<1>5. \A i \in DOMAIN stats.rows :
        Of(stats.rows[i].messageType)' # {} /\ RowTrue(stats.rows[i])'
  BY <1>1, <1>3, <1>4 DEF TableTrue
<1>6. stats.rowOverflow \in Nat /\ stats.rowOverflow <= Len(log)
  BY <1>1 DEF Stats, TableTrue
<1>7. TableTrue'
  BY <1>1, <1>2, <1>5, <1>6 DEF TableTrue, OneRowEach, RowOf
<1> QED BY <1>1, <1>2, <1>7 DEF WatchInv

\* The rows of the next state, looked at one by one, are enough for the next table.
LEMMA TableFromRows ==
  ASSUME NEW R
  PROVE  (/\ stats.rows = R /\ OneRowEach(stats)
          /\ \A i \in DOMAIN R : Of(R[i].messageType) # {} /\ RowTrue(R[i])
          /\ stats.rowOverflow <= Len(log)
          /\ \A k \in DOMAIN log : log[k].messageType \in Tracked =>
               \/ RowOf(stats, log[k].messageType) # {}
               \/ Len(R) >= TableCap /\ stats.rowOverflow # 0
          => TableTrue)'
<1>1. /\ stats.rows = R /\ OneRowEach(stats)
      /\ \A i \in DOMAIN R : Of(R[i].messageType) # {} /\ RowTrue(R[i])
      /\ stats.rowOverflow <= Len(log)
      /\ \A k \in DOMAIN log : log[k].messageType \in Tracked =>
           \/ RowOf(stats, log[k].messageType) # {}
           \/ Len(R) >= TableCap /\ stats.rowOverflow # 0
      => TableTrue
  BY DEF TableTrue
<1> QED BY <1>1, PTL

\* A frame of a tracked type keeps the table true.
LEMMA PassTracked ==
  ASSUME WatchInv, NEW t \in Types, NEW len \in Lens, Pass(t, len), t \in Tracked
  PROVE  WatchInv'
<1> DEFINE now == Wrap(stamp)
<1>0. PICK n, rows, rows2 : n = Len(log) + 1 /\ rows = stats.rows /\ rows2 = stats'.rows
  OBVIOUS
<1>1. stats' = OnCrcPass(stats, t, len, now) /\ stats \in Stats /\ LogInv /\ TableTrue
      /\ Len(log) < MaxFrames
  BY DEF Pass, WatchInv
<1>2. /\ LogInv' /\ Len(log') = n /\ DOMAIN log' = DOMAIN log \cup {n} /\ n \in Nat
      /\ Len(log) = n - 1
      /\ \A k \in DOMAIN log : log'[k] = log[k]
      /\ log'[n].messageType = t /\ Len(log) \in Nat
      /\ \A u : u # t => Of(u)' = Of(u)
      /\ Of(t)' = Of(t) \cup {n}
  <2>1. n \in Nat /\ Len(log) = n - 1 /\ Len(log) \in Nat
    BY <1>0, <1>1, LogFacts
  <2> QED BY <1>0, <1>1, <2>1, LogGrows
<1>3. now \in Nat /\ len \in Nat
  BY <1>1, WrapType, WatchAssumption DEF LogInv
<1>4. /\ stats' \in Stats
      /\ \/ RowTouched(stats, stats', t, len, now)
         \/ RowAdded(stats, stats', t, len, now)
         \/ RowRefused(stats, stats', t)
  BY <1>1, <1>3, CrcPassShape DEF TableTrue
<1>5. /\ rows \in Seq(Row) /\ rows2 \in Seq(Row)
      /\ Len(rows) \in Nat /\ Len(rows2) \in Nat /\ DOMAIN rows = 1..Len(rows) /\ DOMAIN rows2 = 1..Len(rows2)
      /\ \A i \in DOMAIN rows : rows[i] \in Row
      /\ \A i \in DOMAIN rows2 : rows2[i] \in Row
      /\ stats.rowOverflow \in Nat /\ stats.rowOverflow <= Len(log)
  <2>1. rows \in Seq(Row) /\ rows2 \in Seq(Row) /\ stats.rowOverflow \in Nat
    BY <1>0, <1>1, <1>4 DEF Stats
  <2>2. /\ Len(rows) \in Nat /\ Len(rows2) \in Nat /\ DOMAIN rows = 1..Len(rows) /\ DOMAIN rows2 = 1..Len(rows2)
        /\ \A i \in DOMAIN rows : rows[i] \in Row
        /\ \A i \in DOMAIN rows2 : rows2[i] \in Row
    BY <2>1, LenProperties
  <2> QED BY <1>1, <2>1, <2>2 DEF TableTrue
<1>6. \A u : Of(u) # {} => Of(u)' # {}
  BY <1>2
<1>7. ASSUME NEW row \in Row, RowTrue(row), row.messageType # t
      PROVE  RowTrue(row)'
  BY <1>1, <1>7, RowKept
<1>8. ASSUME NEW row \in Row, RowTrue(row), row.messageType = t,
             NEW r \in Row, r = Touched(row, len, now)
      PROVE  RowTrue(r)' /\ r.messageType = t /\ Of(t)' # {}
  <2>1. r.messageType = t
    BY <1>3, <1>8, TouchedFacts
  <2> QED BY <1>1, <1>2, <1>8, <2>1, RowTouchedTrue
<1>9. \A i \in DOMAIN rows : Of(rows[i].messageType) # {} /\ RowTrue(rows[i])
  BY <1>0, <1>1 DEF TableTrue
<1>10. OneRowEach(stats)
  BY <1>1 DEF TableTrue
<1> DEFINE Rows2True == \A i \in DOMAIN rows2 :
                          Of(rows2[i].messageType)' # {} /\ RowTrue(rows2[i])'
<1> HIDE DEF now
<1>11. SUFFICES /\ OneRowEach(stats')
                       /\ Rows2True
                       /\ stats'.rowOverflow <= n
                       /\ \A k \in DOMAIN log' : log'[k].messageType \in Tracked =>
                            \/ RowOf(stats', log'[k].messageType) # {}
                            \/ Len(rows2) >= TableCap /\ stats'.rowOverflow # 0
  <2>1. TableTrue'
    BY <1>0, <1>2, <1>11, TableFromRows
  <2> QED BY <1>2, <1>4, <2>1 DEF WatchInv
<1>12. \A k \in DOMAIN log : log'[k].messageType \in Tracked =>
         \/ RowOf(stats, log'[k].messageType) # {}
         \/ Len(rows) >= TableCap /\ stats.rowOverflow # 0
  BY <1>0, <1>1, <1>2 DEF TableTrue
<1> USE <1>0
<1>13. CASE RowTouched(stats, stats', t, len, now)
  <2>1. PICK i \in DOMAIN rows : /\ rows[i].messageType = t
                                 /\ rows2 = [rows EXCEPT ![i] = Touched(rows[i], len, now)]
                                 /\ stats'.rowOverflow = stats.rowOverflow
    BY <1>13 DEF RowTouched
  <2>2. DOMAIN rows2 = DOMAIN rows /\ rows2[i] = Touched(rows[i], len, now)
        /\ \A j \in DOMAIN rows : j # i => rows2[j] = rows[j]
    BY <2>1
  <2>3. Len(rows2) = Len(rows)
    BY <1>5, <2>2, LenProperties
  <2>4. \A j \in DOMAIN rows : j # i => rows[j].messageType # t
    BY <1>10, <2>1 DEF OneRowEach
  <2>5. rows2[i].messageType = t /\ RowTrue(rows2[i])' /\ Of(t)' # {}
    BY <1>5, <1>8, <1>9, <2>1, <2>2
  <2>6. \A j \in DOMAIN rows2 : rows2[j].messageType = rows[j].messageType
    BY <2>1, <2>2, <2>5
  <2>7. Rows2True
    BY <1>5, <1>6, <1>7, <1>9, <2>2, <2>4, <2>5
  <2>8. OneRowEach(stats')
    BY <1>10, <2>2, <2>6 DEF OneRowEach
  <2>9. \A u : RowOf(stats, u) # {} => RowOf(stats', u) # {}
    BY <2>2, <2>6 DEF RowOf
  <2>10. RowOf(stats', t) # {}
    BY <2>1, <2>2, <2>5 DEF RowOf
  <2>11. stats'.rowOverflow <= n
    BY <1>2, <1>5, <2>1
  <2> HIDE DEF Rows2True
  <2> QED BY <1>2, <1>12, <2>1, <2>3, <2>7, <2>8, <2>9, <2>10, <2>11
<1>14. CASE RowAdded(stats, stats', t, len, now)
  <2> DEFINE c == Len(rows) + 1
  <2>0. PICK r : r = Touched(NewRow(t), len, now)
    OBVIOUS
  <2>1. /\ RowOf(stats, t) = {} /\ Len(rows) < TableCap
        /\ rows2 = Append(rows, r) /\ stats'.rowOverflow = stats.rowOverflow
    BY <1>14, <2>0 DEF RowAdded
  <2>2. NewRow(t) \in Row /\ NewRow(t).messageType = t
    BY NewRowType
  <2>3. r \in Row
    BY <1>3, <2>0, <2>2, TouchedFacts, Zenon
  <2>4. Of(t) = {}
    <3>1. \A k \in DOMAIN log : log[k].messageType # t
      BY <1>1, <1>5, <2>1, StatsAssumption DEF TableTrue
    <3> QED BY <3>1 DEF Of
  <2>5. RowTrue(NewRow(t))
    BY <1>1, <2>4, NewRowTrue
  <2>6. RowTrue(r)' /\ r.messageType = t /\ Of(t)' # {}
    BY <1>8, <2>0, <2>2, <2>3, <2>5
  <2>7. /\ Len(rows2) = c /\ rows2[c] = r
        /\ \A i \in 1..Len(rows) : rows2[i] = rows[i]
    BY <1>5, <2>1, <2>3, AppendProperties
  <2>8. /\ DOMAIN rows2 = DOMAIN rows \cup {c} /\ c \notin DOMAIN rows
        /\ \A i \in DOMAIN rows : rows2[i] = rows[i]
    BY SMTT(30), <1>5, <2>7
  <2>9. \A i \in DOMAIN rows : rows[i].messageType # t
    BY <2>1 DEF RowOf
  <2> HIDE DEF c
  <2>10. Rows2True
    BY <1>5, <1>6, <1>7, <1>9, <2>6, <2>7, <2>8, <2>9
  <2>11. OneRowEach(stats')
    BY <1>10, <2>6, <2>7, <2>8, <2>9 DEF OneRowEach
  <2>12. \A u : RowOf(stats, u) # {} => RowOf(stats', u) # {}
    BY <2>8 DEF RowOf
  <2>13. RowOf(stats', t) # {}
    BY <2>6, <2>7, <2>8 DEF RowOf
  <2>14. stats'.rowOverflow <= n /\ ~ (Len(rows) >= TableCap)
    BY <1>2, <1>5, <2>1, StatsAssumption
  <2> HIDE DEF Rows2True
  <2> QED BY <1>2, <1>12, <2>10, <2>11, <2>12, <2>13, <2>14
<1>15. CASE RowRefused(stats, stats', t)
  <2>1. /\ RowOf(stats, t) = {} /\ Len(rows) >= TableCap
        /\ rows2 = rows /\ stats'.rowOverflow = Wrap(stats.rowOverflow + 1)
    BY <1>15 DEF RowRefused
  <2>2. stats'.rowOverflow = stats.rowOverflow + 1
    <3>1. stats.rowOverflow + 1 \in 0..(U32 - 1)
      BY <1>1, <1>2, <1>5, WatchAssumption, StatsAssumption
    <3> QED BY <2>1, <3>1, StatsAssumption DEF Wrap
  <2>3. \A i \in DOMAIN rows : rows[i].messageType # t
    BY <2>1 DEF RowOf
  <2>4. Rows2True
    BY <1>5, <1>6, <1>7, <1>9, <2>1, <2>3
  <2>5. OneRowEach(stats')
    BY <1>10, <2>1 DEF OneRowEach
  <2>6. stats'.rowOverflow <= n /\ stats'.rowOverflow # 0
    BY <1>2, <1>5, <2>2
  <2> HIDE DEF Rows2True
  <2> QED BY <2>1, <2>4, <2>5, <2>6
<1> QED BY <1>4, <1>13, <1>14, <1>15

\* The empty table is true of the empty log.
LEMMA WatchEmpty ==
  ASSUME stats = NewStats, log = <<>>, time \in Nat, stamp \in Nat, stamp <= time
  PROVE  WatchInv
<1>1. stats \in Stats /\ stats.rows = <<>> /\ stats.rowOverflow = 0
  <2>1. [f \in Families |-> 0] \in [Families -> Nat] /\ <<>> \in Seq(Row) /\ {} \in SUBSET Nat
    BY EmptySeq
  <2> DEFINE H == [Families -> Nat]
             R == Seq(Row)
             M == SUBSET Nat
             h == [f \in Families |-> 0]
             z == <<>>
  <2>2. h \in H /\ z \in R /\ {} \in M
    BY <2>1
  <2>3. Stats = [bytesIn : Nat, framesOk : Nat, framesBadCrc : Nat, framesDropped : Nat,
                 framesOverflow : Nat, hist : H, rows : R, rowOverflow : Nat, decodeMask : M]
    BY Zenon DEF Stats
  <2>4. NewStats = [bytesIn |-> 0, framesOk |-> 0, framesBadCrc |-> 0, framesDropped |-> 0,
                    framesOverflow |-> 0, hist |-> h, rows |-> z, rowOverflow |-> 0,
                    decodeMask |-> {}]
    BY Zenon DEF NewStats
  <2> HIDE DEF H, R, M, h, z
  <2>5. NewStats \in Stats /\ NewStats.rows = z /\ NewStats.rowOverflow = 0
    BY <2>2, <2>3, <2>4, SMT
  <2> QED BY <2>5 DEF z
<1>2. /\ log \in Seq(Entry) /\ Len(log) = 0 /\ DOMAIN log = {} /\ DOMAIN stats.rows = {}
  BY <1>1, EmptySeq
<1>3. LogInv
  BY <1>2, WatchAssumption DEF LogInv
<1>4. TableTrue
  BY <1>1, <1>2 DEF TableTrue, OneRowEach
<1> QED BY <1>1, <1>3, <1>4 DEF WatchInv

\* The same after a step.
LEMMA WatchReset ==
  (stats = NewStats /\ log = <<>> /\ time \in Nat /\ stamp \in Nat /\ stamp <= time
     => WatchInv)'
<1>1. stats = NewStats /\ log = <<>> /\ time \in Nat /\ stamp \in Nat /\ stamp <= time
        => WatchInv
  BY WatchEmpty
<1> QED BY <1>1, PTL

\* The clock goes on: no row has to change.
LEMMA WatchWait ==
  ASSUME WatchInv, NEW d \in Steps, Wait(d)
  PROVE  WatchInv'
<1>1. /\ time' = time + d /\ d \in Nat /\ stats' = stats /\ log' = log /\ stamp' = stamp
      /\ stats \in Stats /\ LogInv /\ TableTrue /\ time \in Nat
  BY WatchAssumption DEF Wait, WatchInv, LogInv
<1>2. LogInv'
  BY <1>1 DEF LogInv
<1>3. \A u : Of(u)' = Of(u) /\ Stamped(u)' = Stamped(u)
  BY <1>1 DEF Of, Stamped
<1>4. ASSUME NEW u PROVE Gaps(u)' = Gaps(u)
  <2>1. \A i, j : Adjacent(u, i, j)' <=> Adjacent(u, i, j)
    BY <1>3 DEF Adjacent
  <2>2. \A g \in Gaps(u) : g \in Gaps(u)'
    BY <1>1, <1>2, <2>1, GapsFacts, GapsNext
  <2>3. \A g \in Gaps(u)' : g \in Gaps(u)
    BY <1>1, <1>2, <2>1, GapsFacts, GapsNext
  <2> QED BY <2>2, <2>3
<1>5. ASSUME NEW row, RowTrue(row) PROVE RowTrue(row)'
  <2> DEFINE u == row.messageType
  <2>1. \A m : LastStamped(u, m)' <=> LastStamped(u, m)
    BY <1>3 DEF LastStamped
  <2>2. Gaps(u)' = Gaps(u) /\ Of(u)' = Of(u) /\ Stamped(u)' = Stamped(u)
    BY <1>3, <1>4
  <2>3. \A i, j : /\ Adjacent(u, i, j)' <=> Adjacent(u, i, j)
                  /\ SameLap(i, j)' <=> SameLap(i, j)
    BY <1>1, <1>3 DEF Adjacent, SameLap
  <2> QED BY <1>1, <1>5, <2>1, <2>2, <2>3 DEF RowTrue
<1>6. TableTrue'
  BY <1>1, <1>3, <1>5 DEF TableTrue, OneRowEach, RowOf
<1> QED BY <1>1, <1>2, <1>6 DEF WatchInv

\* The application stamps the hub: nothing of the table depends on the stamp.
LEMMA WatchStamp ==
  ASSUME WatchInv, SetNowMs
  PROVE  WatchInv'
<1>1. stamp' = time /\ time' = time /\ stats' = stats /\ log' = log
      /\ stats \in Stats /\ LogInv /\ TableTrue
  BY DEF SetNowMs, WatchInv
<1>2. LogInv'
  BY <1>1, LogFacts DEF LogInv
<1>3. TableTrue'
  BY <1>1 DEF TableTrue, RowTrue, OneRowEach, RowOf, LastStamped, Adjacent, SameLap, Gaps, InARow,
                   Stamped, Of
<1> QED BY <1>1, <1>2, <1>3 DEF WatchInv

\* A step that changes nothing.
LEMMA WatchStutter ==
  ASSUME WatchInv, UNCHANGED vars
  PROVE  WatchInv'
<1>1. stats' = stats /\ log' = log /\ time' = time /\ stamp' = stamp
      /\ stats \in Stats /\ LogInv /\ TableTrue
  BY DEF vars, WatchInv
<1>2. LogInv'
  BY <1>1 DEF LogInv
<1>3. TableTrue'
  BY <1>1 DEF TableTrue, RowTrue, OneRowEach, RowOf, LastStamped, Adjacent, SameLap, Gaps, InARow,
                   Stamped, Of
<1> QED BY <1>1, <1>2, <1>3 DEF WatchInv

\* The table agrees with the log in every reachable state.
LEMMA WatchAlways == Spec => []WatchInv
<1>1. Init => WatchInv
  BY WatchEmpty DEF Init
<1>2. WatchInv /\ [Next]_vars => WatchInv'
  <2> SUFFICES ASSUME WatchInv, [Next]_vars PROVE WatchInv'
    OBVIOUS
  <2>1. ASSUME NEW t \in Types, NEW len \in Lens, Pass(t, len) PROVE WatchInv'
    BY <2>1, PassTracked, PassUntracked
  <2>2. ASSUME StatsReset PROVE WatchInv'
    <3>1. stats' = NewStats /\ log' = <<>> /\ time' \in Nat /\ stamp' \in Nat /\ stamp' <= time'
      BY <2>2 DEF StatsReset, WatchInv, LogInv
    <3> QED BY <3>1, WatchReset
  <2> QED BY <2>1, <2>2, WatchWait, WatchStamp, WatchStutter DEF Next
<1> QED BY <1>1, <1>2, PTL DEF Spec

-----------------------------------------------------------------------------
(* The rate                                                                  *)

\* Two rows in the same window.
SameWindow(r, s) ==
  /\ r.bytesPerSec = s.bytesPerSec
  /\ r.windowBytes = s.windowBytes
  /\ r.windowStart = s.windowStart

\* What one field of a row set to a number leaves of its window.
LEMMA WindowFields ==
  ASSUME NEW row \in Row, NEW v \in Nat
  PROVE  /\ SameWindow([row EXCEPT !.count = v], row)
         /\ SameWindow([row EXCEPT !.bytes = v], row)
         /\ SameWindow([row EXCEPT !.maxGap = v], row)
         /\ SameWindow([row EXCEPT !.lastSeen = v], row)
         /\ [row EXCEPT !.bytesPerSec = v].bytesPerSec = v
         /\ [row EXCEPT !.bytesPerSec = v].windowBytes = row.windowBytes
         /\ [row EXCEPT !.bytesPerSec = v].windowStart = row.windowStart
         /\ [row EXCEPT !.windowBytes = v].bytesPerSec = row.bytesPerSec
         /\ [row EXCEPT !.windowBytes = v].windowBytes = v
         /\ [row EXCEPT !.windowBytes = v].windowStart = row.windowStart
         /\ [row EXCEPT !.windowStart = v].bytesPerSec = row.bytesPerSec
         /\ [row EXCEPT !.windowStart = v].windowBytes = row.windowBytes
         /\ [row EXCEPT !.windowStart = v].windowStart = v
<1>1. SameWindow([row EXCEPT !.count = v], row) /\ SameWindow([row EXCEPT !.bytes = v], row)
  BY SMT DEF Row, SameWindow
<1>2. SameWindow([row EXCEPT !.maxGap = v], row) /\ SameWindow([row EXCEPT !.lastSeen = v], row)
  BY SMT DEF Row, SameWindow
<1>3. /\ [row EXCEPT !.bytesPerSec = v].bytesPerSec = v
      /\ [row EXCEPT !.bytesPerSec = v].windowBytes = row.windowBytes
      /\ [row EXCEPT !.bytesPerSec = v].windowStart = row.windowStart
  BY SMT DEF Row
<1>4. /\ [row EXCEPT !.windowBytes = v].bytesPerSec = row.bytesPerSec
      /\ [row EXCEPT !.windowBytes = v].windowBytes = v
      /\ [row EXCEPT !.windowBytes = v].windowStart = row.windowStart
  BY SMT DEF Row
<1>5. /\ [row EXCEPT !.windowStart = v].bytesPerSec = row.bytesPerSec
      /\ [row EXCEPT !.windowStart = v].windowBytes = row.windowBytes
      /\ [row EXCEPT !.windowStart = v].windowStart = v
  BY SMT DEF Row
<1> QED BY <1>1, <1>2, <1>3, <1>4, <1>5

StartOf(row, now) == IF row.windowStart = 0 THEN now ELSE row.windowStart

\* A frame with a time leaves its row in the window it was in, with its bytes, or
\* closes the window and takes the rate.
LEMMA TouchedWindow ==
  ASSUME NEW row \in Row, NEW len \in Nat, NEW now \in Nat
  PROVE  LET r == Touched(row, len, now)
             bytes == Wrap(row.windowBytes + len)
             elapsed == Wrap(now - StartOf(row, now))
         IN  /\ now = 0 => SameWindow(r, row)
             /\ now # 0 /\ elapsed >= Second =>
                  /\ r.bytesPerSec = Wrap((bytes * Second) \div elapsed)
                  /\ r.windowBytes = 0 /\ r.windowStart = now
             /\ now # 0 /\ ~ (elapsed >= Second) =>
                  /\ r.bytesPerSec = row.bytesPerSec
                  /\ r.windowBytes = bytes /\ r.windowStart = StartOf(row, now)
<1> DEFINE r == Touched(row, len, now)
           start == StartOf(row, now)
           bytes == Wrap(row.windowBytes + len)
           elapsed == Wrap(now - start)
           rate == Wrap((bytes * Second) \div elapsed)
           c == Wrap(row.count + 1)
           b == Wrap(row.bytes + len)
           gap == Gap(row, now)
           once == [row EXCEPT !.count = c]
           counted == [once EXCEPT !.bytes = b]
           rated == Rated(counted, len, now)
           wider == [rated EXCEPT !.maxGap = gap]
           seen == [wider EXCEPT !.lastSeen = now]
           r1 == [counted EXCEPT !.bytesPerSec = rate]
           r2 == [r1 EXCEPT !.windowBytes = 0]
           r3 == [r2 EXCEPT !.windowStart = now]
           s1 == [counted EXCEPT !.windowBytes = bytes]
           s2 == [s1 EXCEPT !.windowStart = start]
<1>1. /\ c \in Nat /\ b \in Nat /\ gap \in Nat
      /\ start \in Nat /\ bytes \in Nat /\ elapsed \in Nat
  <2>1. row.count \in Nat /\ row.bytes \in Nat /\ row.windowBytes \in Nat /\ row.windowStart \in Nat
        /\ row.maxGap \in Nat /\ row.lastSeen \in Nat
    BY DEF Row
  <2>2. start \in Nat /\ gap \in Nat
    BY <2>1 DEF StartOf, Gap, GapKnown
  <2> HIDE DEF start, gap
  <2> QED BY <2>1, <2>2, WrapType
<1>2. r = IF now = 0 THEN counted ELSE seen
  BY Zenon DEF Touched
<1>3. once \in Row /\ SameWindow(once, row)
  BY <1>1, RowFields, WindowFields, Zenon
<1>4. counted \in Row /\ SameWindow(counted, once)
  <2> HIDE DEF once, b
  <2> QED BY <1>1, <1>3, RowFields, WindowFields, Zenon
<1>5. SameWindow(counted, row)
  <2> HIDE DEF counted, once
  <2> QED BY <1>3, <1>4 DEF SameWindow
<1>6. rated = IF elapsed >= Second THEN r3 ELSE s2
  <2>1. /\ counted.windowStart = row.windowStart
        /\ counted.windowBytes = row.windowBytes
    BY <1>5, Zenon DEF SameWindow
  <2> HIDE DEF counted
  <2> QED BY <2>1, Zenon DEF Rated, StartOf
<1>7. rated \in Row
  <2> HIDE DEF counted
  <2> QED BY <1>4, RatedFacts
<1>8. elapsed >= Second => rate \in Nat
  <2> HIDE DEF bytes, elapsed
  <2>1. SUFFICES ASSUME elapsed >= Second PROVE (bytes * Second) \div elapsed \in Int
    BY WrapType
  <2>2. elapsed \in Nat \ {0} /\ bytes * Second \in Nat
    BY <1>1, <2>1, StatsAssumption
  <2>3. \A x \in Nat, y \in Nat \ {0} : x \div y \in Int
    OBVIOUS
  <2> QED BY <2>2, <2>3
<1> HIDE DEF counted, c, b, gap, bytes, elapsed, rate, start
<1>9. CASE now = 0
  BY <1>2, <1>5, <1>9
<1>10. CASE now # 0
  <2> HIDE DEF rated
  <2>1. wider \in Row /\ SameWindow(wider, rated)
    BY <1>1, <1>7, RowFields, WindowFields, Zenon
  <2> HIDE DEF wider
  <2>2. SameWindow(seen, wider)
    BY <2>1, WindowFields, Zenon
  <2> HIDE DEF seen
  <2>3. SameWindow(r, rated)
    BY <1>2, <1>10, <2>1, <2>2 DEF SameWindow
  <2> HIDE DEF r
  <2>4. CASE elapsed >= Second
    <3>1. r1 \in Row /\ r1.bytesPerSec = rate
      BY <1>4, <1>8, <2>4, RowFields, WindowFields, Zenon
    <3> HIDE DEF r1
    <3>2. r2 \in Row /\ r2.bytesPerSec = rate /\ r2.windowBytes = 0
      BY ZenonT(30), <3>1, RowFields, WindowFields
    <3> HIDE DEF r2
    <3>3. r3.bytesPerSec = rate /\ r3.windowBytes = 0 /\ r3.windowStart = now
      BY <3>2, WindowFields
    <3> HIDE DEF r3
    <3>4. r.bytesPerSec = rate /\ r.windowBytes = 0 /\ r.windowStart = now
      BY <1>6, <2>3, <2>4, <3>3 DEF SameWindow
    <3> QED BY <1>10, <2>4, <3>4 DEF rate, elapsed, bytes, start, r
  <2>5. CASE ~ (elapsed >= Second)
    <3>1. /\ s1 \in Row /\ s1.windowBytes = bytes
          /\ s1.bytesPerSec = counted.bytesPerSec /\ s1.windowStart = counted.windowStart
      BY <1>1, <1>4, RowFields, WindowFields, Zenon
    <3> HIDE DEF s1
    <3>2. s2.windowBytes = bytes /\ s2.bytesPerSec = s1.bytesPerSec /\ s2.windowStart = start
      BY <1>1, <3>1, WindowFields, Zenon
    <3> HIDE DEF s2
    <3>3. r.windowBytes = bytes /\ r.bytesPerSec = row.bytesPerSec /\ r.windowStart = start
      BY <1>5, <1>6, <2>3, <2>5, <3>1, <3>2 DEF SameWindow
    <3> QED BY <1>10, <2>5, <3>3 DEF elapsed, bytes, start, r
  <2> QED BY <2>4, <2>5
<1> QED BY <1>9, <1>10 DEF r, elapsed, bytes, start, rate

\* The bytes of frames of a log, and the wrapped time between two of them.
BytesOf(l, ks) == Total([k \in DOMAIN l |-> l[k].len], ks)

Between(l, a, b) == Wrap(Wrap(l[b].at) - Wrap(l[a].at))

\* The row's first window is open, since the frame m.
FirstWindow(row, l, ks, m) ==
  /\ row.bytesPerSec = 0
  /\ row.windowBytes = Wrap(BytesOf(l, ks))
  /\ row.windowStart = Wrap(l[m].at)
  /\ \A k \in ks : Between(l, m, k) < Second

\* The frame b closed the last window, which a opened; m is the first frame.
LaterWindow(row, l, ks, m, a, b) ==
  /\ a < b /\ Between(l, a, b) >= Second
  /\ \A k \in ks : k > b => Between(l, b, k) < Second
  /\ row.windowBytes = Wrap(BytesOf(l, {k \in ks : k > b}))
  /\ row.windowStart = Wrap(l[b].at)
  /\ row.bytesPerSec = Wrap((Wrap(BytesOf(l, {k \in ks : (a < k \/ a = m) /\ k <= b}))
                             * Second) \div Between(l, a, b))

\* A row is in its window: of the frames ks of the log l, those of its type that came
\* with a time.
InWindow(row, l, ks) ==
  \/ /\ ks = {}
     /\ row.bytesPerSec = 0 /\ row.windowBytes = 0 /\ row.windowStart = 0
  \/ \E m \in ks :
       /\ \A k \in ks : m <= k
       /\ \/ FirstWindow(row, l, ks, m)
          \/ \E a, b \in ks : LaterWindow(row, l, ks, m, a, b)

\* l2 is the log l with one frame more, the n-th.
Logged(l, e, l2, n) == l2 = Append(l, e) /\ n = Len(l) + 1

\* The numbers of an entry.
LEMMA EntryTypes ==
  ASSUME NEW e \in Entry
  PROVE  e.len \in Nat /\ e.at \in Nat
BY WatchAssumption DEF Entry

\* What one frame more does to the sums.
LEMMA BytesGrow ==
  ASSUME NEW l \in Seq(Entry), NEW e \in Entry, NEW l2, NEW n, Logged(l, e, l2, n)
  PROVE  /\ \A k \in DOMAIN l : l2[k] = l[k] /\ k \in Nat /\ k < n
         /\ n \in Nat /\ n \notin DOMAIN l /\ l2[n] = e
         /\ \A ks \in SUBSET (DOMAIN l) :
              /\ BytesOf(l, ks) \in Nat
              /\ BytesOf(l2, ks) = BytesOf(l, ks)
              /\ BytesOf(l2, ks \cup {n}) = e.len + BytesOf(l, ks)
         /\ BytesOf(l2, {}) = 0
<1> DEFINE v == [k \in DOMAIN l |-> l[k].len]
           w == [k \in DOMAIN l2 |-> l2[k].len]
<1>0. n = Len(l) + 1
  BY DEF Logged
<1>1. /\ n \in Nat /\ DOMAIN l = 1..Len(l) /\ Len(l) \in Nat /\ n \notin DOMAIN l
      /\ l2 \in Seq(Entry) /\ DOMAIN l2 = 1..n /\ l2[n] = e
      /\ \A k \in DOMAIN l : l2[k] = l[k] /\ k \in Nat /\ k < n /\ k \in DOMAIN l2
  <2>1. Len(l) \in Nat /\ DOMAIN l = 1..Len(l)
    BY LenProperties
  <2>2. l2 \in Seq(Entry) /\ Len(l2) = n /\ l2[n] = e /\ \A k \in 1..Len(l) : l2[k] = l[k]
    BY <2>1, AppendProperties DEF Logged
  <2>3. DOMAIN l2 = 1..n
    BY <1>0, <2>2, LenProperties
  <2> QED BY <1>0, <2>1, <2>2, <2>3
<1>2. \A x \in Entry : x.len \in Nat
  BY EntryTypes
<1>3. \A k \in DOMAIN l2 : w[k] \in Nat /\ w[k] = l2[k].len
  <2>1. \A k \in DOMAIN l2 : l2[k] \in Entry
    BY <1>1, ElementOfSeq
  <2> QED BY <1>2, <2>1
<1>4. \A k \in DOMAIN l : w[k] \in Nat /\ v[k] = w[k]
  BY <1>1, <1>3
<1>5. w[n] = e.len
  <2>1. n \in DOMAIN l2
    BY <1>0, <1>1
  <2> QED BY <1>1, <1>3, <2>1
<1>6. IsFiniteSet(DOMAIN l)
  BY <1>1, FS_Interval
<1> HIDE DEF v, w
<1>7. ASSUME NEW ks \in SUBSET (DOMAIN l)
      PROVE  /\ Total(v, ks) \in Nat /\ Total(w, ks) = Total(v, ks)
             /\ Total(w, ks \cup {n}) = e.len + Total(v, ks)
  <2>1. IsFiniteSet(ks)
    BY <1>6, FS_Subset
  <2>2. \A k \in ks : v[k] \in Nat /\ w[k] = v[k] /\ w[k] \in Nat
    BY <1>4
  <2>3. Total(v, ks) \in Nat
    BY <2>1, <2>2, TotalFacts
  <2>4. Total(w, ks) = Total(v, ks)
    BY <2>1, <2>2, TotalSame
  <2>5. n \notin ks /\ w[n] \in Nat
    BY <1>1, <1>2, <1>5
  <2>6. Total(w, ks \cup {n}) = w[n] + Total(w, ks)
    BY <2>1, <2>2, <2>5, TotalAdd
  <2> QED BY <1>5, <2>3, <2>4, <2>6
<1>8. Total(w, {}) = 0
  BY FS_EmptySet, TotalFacts
<1> QED BY <1>1, <1>7, <1>8 DEF BytesOf, v, w

\* A frame that is none of a row's leaves the row in its window.
LEMMA WindowKept ==
  ASSUME NEW l \in Seq(Entry), NEW e \in Entry, NEW l2, NEW n, Logged(l, e, l2, n),
         NEW ks \in SUBSET (DOMAIN l), NEW row, InWindow(row, l, ks)
  PROVE  InWindow(row, l2, ks)
<1>1. /\ \A k \in DOMAIN l : l2[k] = l[k] /\ k \in Nat /\ k < n
      /\ n \in Nat /\ n \notin DOMAIN l /\ l2[n] = e
      /\ \A s \in SUBSET (DOMAIN l) :
           /\ BytesOf(l, s) \in Nat
           /\ BytesOf(l2, s) = BytesOf(l, s)
           /\ BytesOf(l2, s \cup {n}) = e.len + BytesOf(l, s)
      /\ BytesOf(l2, {}) = 0
  BY BytesGrow
<1>2. CASE ks = {}
  BY <1>2 DEF InWindow
<1>3. CASE ks # {}
  <2>1. PICK m \in ks :
          /\ \A k \in ks : m <= k
          /\ \/ FirstWindow(row, l, ks, m)
             \/ \E a, b \in ks : LaterWindow(row, l, ks, m, a, b)
    BY <1>3 DEF InWindow
  <2>2. \A a, b \in ks : Between(l2, a, b) = Between(l, a, b)
    BY <1>1 DEF Between
  <2>3. FirstWindow(row, l, ks, m) => FirstWindow(row, l2, ks, m)
    BY <1>1, <2>2 DEF FirstWindow
  <2>4. ASSUME NEW a \in ks, NEW b \in ks, LaterWindow(row, l, ks, m, a, b)
        PROVE  LaterWindow(row, l2, ks, m, a, b)
    <3> DEFINE s == {k \in ks : k > b}
               u == {k \in ks : (a < k \/ a = m) /\ k <= b}
    <3>1. s \in SUBSET (DOMAIN l) /\ u \in SUBSET (DOMAIN l)
      OBVIOUS
    <3> HIDE DEF s, u
    <3>2. BytesOf(l2, s) = BytesOf(l, s) /\ BytesOf(l2, u) = BytesOf(l, u) /\ l2[b] = l[b]
      BY <1>1, <3>1
    <3> QED BY <2>2, <2>4, <3>2 DEF LaterWindow, s, u
  <2> QED BY <2>1, <2>3, <2>4 DEF InWindow
<1> QED BY <1>2, <1>3

\* Wrapping a part of a sum first changes nothing.
LEMMA WrapAdd ==
  ASSUME NEW a \in Nat, NEW b \in Nat
  PROVE  Wrap(Wrap(a) + b) = Wrap(a + b)
<1> DEFINE q == a \div U32
<1>1. U32 \in Nat \ {0} /\ q \in Nat /\ a = U32 * q + Wrap(a) /\ Wrap(a) \in Nat
  BY StatsAssumption DEF Wrap
<1> HIDE DEF q
<1>c. PICK c \in Nat : c = Wrap(a) + b
  BY <1>1
<1> DEFINE p == c \div U32
<1>2. p \in Nat /\ c = U32 * p + Wrap(c) /\ Wrap(c) \in 0..(U32 - 1)
  BY <1>1 DEF Wrap
<1>3. a + b = U32 * q + c
  <2>1. U32 * q \in Nat
    BY <1>1
  <2> QED BY <1>1, <1>c, <2>1
<1> HIDE DEF p
<1>4. a + b = U32 * (q + p) + Wrap(c) /\ q + p \in Nat
  <2>1. U32 * (q + p) = U32 * q + U32 * p /\ U32 * q \in Nat /\ U32 * p \in Nat
    BY <1>1, <1>2
  <2> QED BY <1>1, <1>2, <1>3, <2>1
<1>5. \A x \in Nat, r \in 0..(U32 - 1) : (U32 * x + r) % U32 = r
  BY <1>1
<1>6. (a + b) % U32 = Wrap(c)
  BY <1>2, <1>4, <1>5
<1> QED BY <1>c, <1>6 DEF Wrap

\* A frame with a time carries its row on: into its first window, further in it, or
\* from a window that it closes into the next.
LEMMA WindowMoves ==
  ASSUME NEW l \in Seq(Entry), NEW e \in Entry, NEW l2, NEW n, Logged(l, e, l2, n),
         NEW ks \in SUBSET (DOMAIN l), \A k \in ks : l[k].at \in Nat /\ Wrap(l[k].at) # 0,
         NEW row \in Row, InWindow(row, l, ks),
         NEW now, now = Wrap(e.at), now # 0,
         NEW r, r = Touched(row, e.len, now)
  PROVE  InWindow(r, l2, ks \cup {n})
<1> DEFINE ks2 == ks \cup {n}
           start == StartOf(row, now)
           bytes == Wrap(row.windowBytes + e.len)
           elapsed == Wrap(now - start)
<1>1. /\ \A k \in DOMAIN l : l2[k] = l[k] /\ k \in Nat /\ k < n
      /\ n \in Nat /\ n \notin DOMAIN l /\ l2[n] = e
      /\ \A s \in SUBSET (DOMAIN l) :
           /\ BytesOf(l, s) \in Nat
           /\ BytesOf(l2, s) = BytesOf(l, s)
           /\ BytesOf(l2, s \cup {n}) = e.len + BytesOf(l, s)
      /\ BytesOf(l2, {}) = 0
  BY BytesGrow
<1>2. e.len \in Nat /\ now \in Nat
  <2>1. e.len \in Nat /\ e.at \in Int
    BY EntryTypes
  <2> QED BY <2>1, WrapType
<1>3. /\ elapsed >= Second =>
           /\ r.bytesPerSec = Wrap((bytes * Second) \div elapsed)
           /\ r.windowBytes = 0 /\ r.windowStart = now
      /\ ~ (elapsed >= Second) =>
           /\ r.bytesPerSec = row.bytesPerSec
           /\ r.windowBytes = bytes /\ r.windowStart = start
  BY <1>2, TouchedWindow
<1>4. /\ now = Wrap(l2[n].at)
      /\ \A k \in ks : k \in Nat /\ k < n /\ l2[k] = l[k] /\ Wrap(l[k].at) # 0
  BY <1>1
<1>5. \A s \in SUBSET (DOMAIN l) :
        Wrap(Wrap(BytesOf(l, s)) + e.len) = Wrap(BytesOf(l2, s \cup {n}))
  <2>1. SUFFICES ASSUME NEW s \in SUBSET (DOMAIN l)
                 PROVE  Wrap(Wrap(BytesOf(l, s)) + e.len) = Wrap(BytesOf(l2, s \cup {n}))
    OBVIOUS
  <2>2. PICK x \in Nat : x = BytesOf(l, s)
    BY <1>1
  <2>3. Wrap(Wrap(x) + e.len) = Wrap(x + e.len)
    BY <1>2, WrapAdd
  <2>4. x + e.len = e.len + x
    BY <1>2
  <2> QED BY <1>1, <2>2, <2>3, <2>4
<1>6. Wrap(0) = 0 /\ Second > 0 /\ Second \in Nat
  BY StatsAssumption DEF Wrap
<1>7. n \in ks2 /\ \A k \in ks2 : ~ (k > n) /\ k \in Nat /\ k <= n
  BY <1>1, <1>4
<1>8. Between(l2, n, n) = 0
  <2>1. now - now = 0
    BY <1>2
  <2> QED BY <1>4, <1>6, <2>1 DEF Between
<1>9. \A a, b \in ks : Between(l2, a, b) = Between(l, a, b)
  BY <1>4 DEF Between
<1> HIDE DEF bytes, elapsed, start
<1>10. CASE ks = {}
  <2>1. row.bytesPerSec = 0 /\ row.windowBytes = 0 /\ row.windowStart = 0
    BY <1>10 DEF InWindow
  <2>2. start = now /\ elapsed = 0
    <3>1. start = now /\ now - now = 0
      BY <1>2, <2>1 DEF start, StartOf
    <3> QED BY <1>6, <3>1 DEF elapsed
  <2>3. bytes = Wrap(BytesOf(l2, ks2))
    <3>1. BytesOf(l2, {} \cup {n}) = e.len + BytesOf(l, {}) /\ BytesOf(l2, {}) = BytesOf(l, {})
      BY <1>1
    <3>2. BytesOf(l2, ks2) = e.len + 0
      BY <1>1, <1>10, <3>1
    <3>3. row.windowBytes + e.len = e.len + 0
      BY <1>2, <2>1
    <3> QED BY <3>2, <3>3 DEF bytes
  <2>4. FirstWindow(r, l2, ks2, n)
    <3>1. \A k \in ks2 : k = n
      BY <1>10
    <3>2. ~ (elapsed >= Second)
      BY <1>6, <2>2
    <3> HIDE DEF ks2
    <3>3. \A k \in ks2 : Between(l2, n, k) < Second
      BY <1>6, <1>8, <3>1
    <3> QED BY <1>3, <1>4, <2>1, <2>2, <2>3, <3>2, <3>3 DEF FirstWindow
  <2>5. \A k \in ks2 : n <= k
    BY <1>1, <1>10
  <2> HIDE DEF ks2
  <2> QED BY <1>7, <2>4, <2>5 DEF InWindow, ks2
<1>11. CASE ks # {}
  <2>1. PICK m \in ks :
          /\ \A k \in ks : m <= k
          /\ \/ FirstWindow(row, l, ks, m)
             \/ \E a, b \in ks : LaterWindow(row, l, ks, m, a, b)
    BY <1>11 DEF InWindow
  <2>2. m \in ks2 /\ m < n /\ \A k \in ks2 : m <= k
    BY <1>1, <1>4, <2>1
  <2>3. CASE FirstWindow(row, l, ks, m)
    <3>1. /\ row.bytesPerSec = 0 /\ row.windowBytes = Wrap(BytesOf(l, ks))
          /\ row.windowStart = Wrap(l[m].at) /\ \A k \in ks : Between(l, m, k) < Second
      BY <2>3 DEF FirstWindow
    <3>2. start = Wrap(l2[m].at) /\ elapsed = Between(l2, m, n)
      BY <1>4, <3>1 DEF start, elapsed, StartOf, Between
    <3>3. bytes = Wrap(BytesOf(l2, ks2))
      BY <1>5, <3>1 DEF bytes
    <3>4. CASE elapsed >= Second
      <4> DEFINE s == {k \in ks2 : k > n}
                 u == {k \in ks2 : (m < k \/ m = m) /\ k <= n}
      <4>1. s = {} /\ u = ks2
        BY <1>7
      <4> HIDE DEF s, u, ks2
      <4>2. LaterWindow(r, l2, ks2, m, m, n)
        <5>1. r.windowBytes = Wrap(BytesOf(l2, s)) /\ r.windowStart = Wrap(l2[n].at)
          BY <1>1, <1>3, <1>4, <1>6, <3>4, <4>1
        <5>2. r.bytesPerSec = Wrap((Wrap(BytesOf(l2, u)) * Second) \div Between(l2, m, n))
          BY <1>3, <3>2, <3>3, <3>4, <4>1
        <5>3. \A k \in ks2 : k > n => Between(l2, n, k) < Second
          BY <1>7
        <5> QED BY <2>2, <3>2, <3>4, <5>1, <5>2, <5>3, Zenon DEF LaterWindow, s, u
      <4> QED BY <1>7, <2>2, <4>2 DEF InWindow, ks2
    <3>5. CASE ~ (elapsed >= Second)
      <4>1. \A k \in ks2 : Between(l2, m, k) < Second
        <5>1. \A k \in ks : Between(l2, m, k) < Second
          BY <1>9, <3>1
        <5>2. Between(l2, m, n) < Second
          <6>1. Between(l2, m, n) \in Int
            <7>1. l2[m].at \in Nat
              BY <1>4
            <7> QED BY <1>2, <1>4, <7>1, StatsAssumption DEF Between, Wrap
          <6> QED BY <1>6, <3>2, <3>5, <6>1
        <5> QED BY <5>1, <5>2
      <4> HIDE DEF ks2
      <4>2. FirstWindow(r, l2, ks2, m)
        BY <1>3, <3>1, <3>2, <3>3, <3>5, <4>1 DEF FirstWindow
      <4> QED BY <2>2, <4>2 DEF InWindow, ks2
    <3> QED BY <3>4, <3>5
  <2>4. ASSUME NEW a \in ks, NEW b \in ks, LaterWindow(row, l, ks, m, a, b)
        PROVE  InWindow(r, l2, ks2)
    <3> DEFINE s == {k \in ks : k > b}
               u == {k \in ks : (a < k \/ a = m) /\ k <= b}
    <3>1. /\ a < b /\ Between(l, a, b) >= Second
          /\ \A k \in ks : k > b => Between(l, b, k) < Second
          /\ row.windowBytes = Wrap(BytesOf(l, s)) /\ row.windowStart = Wrap(l[b].at)
          /\ row.bytesPerSec = Wrap((Wrap(BytesOf(l, u)) * Second) \div Between(l, a, b))
      BY <2>4, Zenon DEF LaterWindow
    <3>2. start = Wrap(l2[b].at) /\ elapsed = Between(l2, b, n)
      BY <1>4, <3>1 DEF start, elapsed, StartOf, Between
    <3>3. s \in SUBSET (DOMAIN l) /\ u \in SUBSET (DOMAIN l)
      OBVIOUS
    <3>4. a \in Nat /\ b \in Nat /\ m \in Nat /\ b < n /\ m <= a /\ b \in ks2
      BY <1>4, <2>1
    <3>5. bytes = Wrap(BytesOf(l2, s \cup {n})) /\ BytesOf(l2, u) = BytesOf(l, u)
      <4> HIDE DEF s, u
      <4> QED BY <1>1, <1>5, <3>1, <3>3 DEF bytes
    <3>6. CASE elapsed >= Second
      <4> DEFINE s2 == {k \in ks2 : k > n}
                 u2 == {k \in ks2 : (b < k \/ b = m) /\ k <= n}
      <4>1. s2 = {} /\ u2 = s \cup {n}
        <5>1. s2 = {}
          BY <1>7
        <5>2. b # m
          BY <3>1, <3>4
        <5>3. \A k \in ks : (b < k <=> k > b) /\ k <= n
          BY <1>4, <1>7
        <5>4. b < n /\ n <= n
          BY <1>1, <3>4
        <5> QED BY <5>1, <5>2, <5>3, <5>4
      <4> HIDE DEF s, s2, u2, ks2
      <4>2. LaterWindow(r, l2, ks2, m, b, n)
        <5>1. r.windowBytes = Wrap(BytesOf(l2, s2)) /\ r.windowStart = Wrap(l2[n].at)
          BY <1>1, <1>3, <1>4, <1>6, <3>6, <4>1
        <5>2. r.bytesPerSec = Wrap((Wrap(BytesOf(l2, u2)) * Second) \div Between(l2, b, n))
          BY <1>3, <3>2, <3>5, <3>6, <4>1
        <5>3. \A k \in ks2 : k > n => Between(l2, n, k) < Second
          BY <1>7
        <5> QED BY <3>2, <3>4, <3>6, <5>1, <5>2, <5>3, Zenon DEF LaterWindow, s2, u2
      <4> QED BY <1>7, <2>2, <3>4, <4>2 DEF InWindow, ks2
    <3>7. CASE ~ (elapsed >= Second)
      <4> DEFINE s2 == {k \in ks2 : k > b}
                 u2 == {k \in ks2 : (a < k \/ a = m) /\ k <= b}
      <4>1. s2 = s \cup {n} /\ u2 = u
        <5>1. n > b /\ ~ (n <= b)
          BY <1>1, <3>4
        <5> QED BY <5>1
      <4>2. \A k \in ks2 : k > b => Between(l2, b, k) < Second
        <5>1. \A k \in ks : k > b => Between(l2, b, k) < Second
          BY <1>9, <3>1
        <5>2. Between(l2, b, n) < Second
          <6>1. Between(l2, b, n) \in Int
            <7>1. l2[b].at \in Nat
              BY <1>4
            <7> QED BY <1>2, <1>4, <7>1, StatsAssumption DEF Between, Wrap
          <6> QED BY <1>6, <3>2, <3>7, <6>1
        <5> QED BY <5>1, <5>2
      <4> HIDE DEF s, u, s2, u2, ks2
      <4>3. LaterWindow(r, l2, ks2, m, a, b)
        <5>1. r.windowBytes = Wrap(BytesOf(l2, s2)) /\ r.windowStart = Wrap(l2[b].at)
          BY <1>3, <3>2, <3>5, <3>7, <4>1
        <5>2. r.bytesPerSec = Wrap((Wrap(BytesOf(l2, u2)) * Second) \div Between(l2, a, b))
          BY <1>3, <1>9, <3>1, <3>5, <3>7, <4>1
        <5> QED BY <1>9, <3>1, <4>2, <5>1, <5>2, Zenon DEF LaterWindow, s2, u2
      <4> QED BY <2>2, <3>4, <4>3 DEF InWindow, ks2
    <3> QED BY <3>6, <3>7
  <2> QED BY <2>1, <2>3, <2>4
<1> QED BY <1>10, <1>11

\* Every row is in its window.
RatesTrue ==
  \A i \in DOMAIN stats.rows :
    InWindow(stats.rows[i], log, Stamped(stats.rows[i].messageType))

\* A window has the fields of a row that make it.
LEMMA SameWindowIn ==
  ASSUME NEW row, NEW r, SameWindow(r, row), NEW l, NEW ks, InWindow(row, l, ks)
  PROVE  InWindow(r, l, ks)
BY Zenon DEF SameWindow, InWindow, FirstWindow, LaterWindow

\* A frame counted keeps the rows in their windows.
LEMMA PassRates ==
  ASSUME WatchInv, RatesTrue, NEW t \in Types, NEW len \in Lens, Pass(t, len)
  PROVE  RatesTrue'
<1> DEFINE n == Len(log) + 1
           e == [messageType |-> t, len |-> len, at |-> stamp]
           now == Wrap(stamp)
           rows == stats.rows
           rows2 == stats'.rows
<1>1. LogInv /\ stats \in Stats /\ TableTrue /\ OneRowEach(stats)
  BY DEF WatchInv, TableTrue
<1>2. /\ log \in Seq(Entry) /\ stamp \in Nat /\ len \in Nat /\ now \in Nat
      /\ \A k \in DOMAIN log : log[k].at \in Nat
      /\ rows \in Seq(Row)
  <2>1. log \in Seq(Entry) /\ stamp \in Nat /\ len \in Nat
    BY <1>1, WatchAssumption DEF LogInv
  <2>2. rows \in Seq(Row)
    BY <1>1 DEF Stats
  <2>3. now \in Nat
    BY SMTT(30), <2>1, WrapType
  <2> QED BY <1>1, <2>1, <2>2, <2>3, LogFacts
<1>3. e \in Entry /\ e.len = len /\ e.at = stamp
  BY <1>2 DEF Entry
<1>4. log' = Append(log, e) /\ stats' = OnCrcPass(stats, t, len, now)
  BY DEF Pass
<1> HIDE DEF e, now, n
<1>5. Logged(log, e, log', n)
  BY <1>4 DEF Logged, n
<1>6. /\ \A u : u # t => Stamped(u)' = Stamped(u)
      /\ now = 0 => Stamped(t)' = Stamped(t)
      /\ now # 0 => Stamped(t)' = Stamped(t) \cup {n}
  BY <1>1, LogGrows DEF now, n
<1>7. \A u : /\ Stamped(u) \in SUBSET (DOMAIN log)
             /\ \A k \in Stamped(u) : log[k].at \in Nat /\ Wrap(log[k].at) # 0
  BY <1>2 DEF Stamped, Of
<1>8. ASSUME NEW row \in Row, row.messageType # t, InWindow(row, log, Stamped(row.messageType))
      PROVE  InWindow(row, log', Stamped(row.messageType)')
  BY <1>2, <1>3, <1>5, <1>6, <1>7, <1>8, WindowKept
<1>9. ASSUME NEW row \in Row, InWindow(row, log, Stamped(t)),
             NEW r, r = Touched(row, len, now)
      PROVE  InWindow(r, log', Stamped(t)')
  <2>1. CASE now = 0
    <3>1. SameWindow(r, row)
      BY <1>2, <1>9, <2>1, TouchedWindow
    <3>2. InWindow(row, log', Stamped(t))
      BY <1>2, <1>3, <1>5, <1>7, <1>9, WindowKept
    <3> QED BY <1>6, <2>1, <3>1, <3>2, SameWindowIn
  <2>2. CASE now # 0
    <3>1. r = Touched(row, e.len, now) /\ now = Wrap(e.at)
      BY <1>3, <1>9 DEF now
    <3>2. InWindow(r, log', Stamped(t) \cup {n})
      BY <1>2, <1>3, <1>5, <1>7, <1>9, <2>2, <3>1, WindowMoves
    <3> QED BY <1>6, <2>2, <3>2
  <2> QED BY <2>1, <2>2
<1>10. \A i \in DOMAIN rows : rows[i] \in Row /\ InWindow(rows[i], log, Stamped(rows[i].messageType))
  BY <1>2 DEF RatesTrue
<1>11. CASE t \notin Tracked
  <2>1. rows2 = rows
    BY <1>4, <1>11 DEF OnCrcPass
  <2>2. \A i \in DOMAIN rows : rows[i].messageType # t
    BY <1>10, <1>11 DEF Row
  <2> QED BY <1>8, <1>10, <2>1, <2>2 DEF RatesTrue
<1>12. CASE t \in Tracked
  <2>1. \/ RowTouched(stats, stats', t, len, now)
        \/ RowAdded(stats, stats', t, len, now)
        \/ RowRefused(stats, stats', t)
    BY <1>1, <1>2, <1>4, <1>12, CrcPassShape
  <2>2. CASE RowTouched(stats, stats', t, len, now)
    <3>1. PICK i \in DOMAIN rows :
            /\ rows[i].messageType = t
            /\ rows2 = [rows EXCEPT ![i] = Touched(rows[i], len, now)]
      BY <2>2 DEF RowTouched
    <3>2. PICK r : r = Touched(rows[i], len, now)
      OBVIOUS
    <3>3. DOMAIN rows2 = DOMAIN rows /\ rows2[i] = r /\ \A j \in DOMAIN rows : j # i => rows2[j] = rows[j]
      BY <1>2, <3>1, <3>2
    <3>4. r.messageType = t
      <4>1. PICK row \in Row : row = rows[i]
        BY <1>10
      <4>2. Touched(row, len, now).messageType = row.messageType
        BY <1>2, TouchedFacts, ZenonT(30)
      <4> QED BY <3>1, <3>2, <4>1, <4>2
    <3>5. InWindow(r, log', Stamped(t)')
      BY <1>9, <1>10, <3>1, <3>2
    <3>6. \A j \in DOMAIN rows : j # i => rows[j].messageType # t
      BY <1>1, <3>1 DEF OneRowEach
    <3>7. \A j \in DOMAIN rows2 : \A u : u = rows2[j].messageType
            => InWindow(rows2[j], log', Stamped(u)')
      BY <1>8, <1>10, <3>3, <3>4, <3>5, <3>6
    <3> QED BY <3>7 DEF RatesTrue
  <2>3. CASE RowAdded(stats, stats', t, len, now)
    <3> DEFINE c == Len(rows) + 1
    <3>1. PICK r : r = Touched(NewRow(t), len, now)
      OBVIOUS
    <3>2. RowOf(stats, t) = {} /\ rows2 = Append(rows, r) /\ Len(rows) < TableCap
      BY <2>3, <3>1 DEF RowAdded
    <3>3. NewRow(t) \in Row /\ NewRow(t).messageType = t
      BY <1>12, NewRowType
    <3>4. r \in Row /\ r.messageType = t
      BY <1>2, <3>1, <3>3, TouchedFacts, Zenon
    <3>5. InWindow(NewRow(t), log, Stamped(t))
      <4>1. Len(rows) \in Nat /\ TableCap \in Nat
        BY <1>2, StatsAssumption
      <4>2. \A k \in DOMAIN log : log[k].messageType # t
        BY <1>1, <1>12, <3>2, <4>1 DEF TableTrue
      <4>3. Stamped(t) = {}
        BY <4>2 DEF Stamped, Of
      <4> QED BY <4>3 DEF InWindow, NewRow
    <3>6. InWindow(r, log', Stamped(t)')
      BY <1>9, <3>1, <3>3, <3>5
    <3>7. /\ DOMAIN rows2 = DOMAIN rows \cup {c} /\ rows2[c] = r
          /\ \A i \in DOMAIN rows : rows2[i] = rows[i]
      <4>1. /\ rows2 \in Seq(Row) /\ Len(rows2) = c /\ rows2[c] = r
            /\ \A i \in 1..Len(rows) : rows2[i] = rows[i]
        BY <1>2, <3>2, <3>4, AppendProperties
      <4>2. DOMAIN rows = 1..Len(rows) /\ DOMAIN rows2 = 1..c /\ Len(rows) \in Nat
        BY <1>2, <4>1, LenProperties
      <4> QED BY <4>1, <4>2
    <3>8. \A i \in DOMAIN rows : rows[i].messageType # t
      BY <3>2 DEF RowOf
    <3> HIDE DEF c
    <3>9. \A j \in DOMAIN rows2 : \A u : u = rows2[j].messageType
            => InWindow(rows2[j], log', Stamped(u)')
      BY <1>8, <1>10, <3>4, <3>6, <3>7, <3>8
    <3> QED BY <3>9 DEF RatesTrue
  <2>4. CASE RowRefused(stats, stats', t)
    <3>1. rows2 = rows /\ \A i \in DOMAIN rows : rows[i].messageType # t
      BY <2>4 DEF RowRefused, RowOf
    <3> QED BY <1>8, <1>10, <3>1 DEF RatesTrue
  <2> QED BY <2>1, <2>2, <2>3, <2>4
<1> QED BY <1>11, <1>12

\* The rows are in their windows in every reachable state.
LEMMA RatesAlways == Spec => []RatesTrue
<1>1. Init => RatesTrue
  BY DEF Init, NewStats, RatesTrue
<1>2. WatchInv /\ RatesTrue /\ [Next]_vars => RatesTrue'
  <2> SUFFICES ASSUME WatchInv, RatesTrue, [Next]_vars PROVE RatesTrue'
    OBVIOUS
  <2>1. ASSUME NEW t \in Types, NEW len \in Lens, Pass(t, len) PROVE RatesTrue'
    BY <2>1, PassRates
  <2>2. ASSUME StatsReset PROVE RatesTrue'
    BY <2>2 DEF StatsReset, NewStats, RatesTrue
  <2>3. ASSUME stats' = stats, log' = log PROVE RatesTrue'
    BY <2>3 DEF RatesTrue, Stamped, Of
  <2> QED BY <2>1, <2>2, <2>3 DEF Next, Wait, SetNowMs, vars
<1> QED BY <1>1, <1>2, WatchAlways, PTL DEF Spec

-----------------------------------------------------------------------------
(* The theorems                                                              *)

\* A required type has a row worth a row.
LEMMA RequiredTracked ==
  Required \subseteq Tracked /\ LateAfter \in Nat /\ LateAfter > 0
BY WatchAssumption DEF Required, Tracked

\* What the invariant says of the row of a type.
LEMMA RowOfFacts ==
  ASSUME WatchInv, NEW t, NEW i \in RowOf(stats, t)
  PROVE  /\ Of(t) # {} /\ RowTrue(stats.rows[i]) /\ stats.rows[i].messageType = t
         /\ stats.rows[i].count >= 1 /\ stats.rows[i] \in Row
<1>1. i \in DOMAIN stats.rows /\ stats.rows[i].messageType = t
  BY DEF RowOf
<1>2. stats.rows \in Seq(Row)
  BY DEF WatchInv, Stats
<1>3. stats.rows[i] \in Row
  BY <1>1, <1>2
<1>4. Of(t) # {} /\ RowTrue(stats.rows[i])
  BY <1>1 DEF WatchInv, TableTrue
<1>5. stats.rows[i].count >= 1
  BY <1>1, <1>4 DEF RowTrue
<1> QED BY <1>1, <1>3, <1>4, <1>5

\* coverageCheck(): as long as the table never overflowed, a required type is
\* flagged missing exactly when none of its frames passed the CRC since the reset.
THEOREM MissingIsNeverSeen == Spec => []MissingMeansNeverSeen
<1>1. WatchInv => MissingMeansNeverSeen
  <2>1. SUFFICES ASSUME WatchInv, stats.rowOverflow = 0, NEW t \in Required
                 PROVE  Missing(stats, t) <=> Of(t) = {}
    BY DEF MissingMeansNeverSeen
  <2>2. \A i \in RowOf(stats, t) : Of(t) # {} /\ stats.rows[i].count # 0
    <3>1. SUFFICES ASSUME NEW i \in RowOf(stats, t)
                   PROVE  Of(t) # {} /\ stats.rows[i].count # 0
      OBVIOUS
    <3>2. Of(t) # {} /\ stats.rows[i].count >= 1
      BY <2>1, RowOfFacts
    <3> QED BY <3>2
  <2>3. Of(t) # {} => RowOf(stats, t) # {}
    <3>1. SUFFICES ASSUME NEW k \in Of(t) PROVE RowOf(stats, t) # {}
      OBVIOUS
    <3>2. k \in DOMAIN log /\ log[k].messageType = t /\ t \in Tracked
      BY <2>1, RequiredTracked DEF Of
    <3> QED BY <2>1, <3>2 DEF WatchInv, TableTrue
  <2> QED BY <2>2, <2>3 DEF Missing
<1> QED BY <1>1, WatchAlways, PTL

\* coverageCheck() against millis(): a required type that is called late has been
\* silent for longer than the limit, however often the clock wrapped; and a silence
\* longer than the limit is called late as long as the clock has not wrapped in it,
\* unless the last frame came in the very millisecond that reads 0.
THEOREM LateIsOld == Spec => []LateMeansOld
<1>1. WatchInv => LateMeansOld
  <2>1. SUFFICES ASSUME WatchInv, NEW t \in Required, RowOf(stats, t) # {}
                 PROVE  /\ Late(stats, t, Wrap(time), LateAfter) => time - LastAt(t) > LateAfter
                        /\ time - LastAt(t) > LateAfter /\ Wrap(LastAt(t)) # 0
                           /\ time \div U32 = LastAt(t) \div U32
                           => Late(stats, t, Wrap(time), LateAfter)
    BY DEF LateMeansOld
  <2> DEFINE L == Max(Of(t))
             at == log[L].at
             now == Wrap(time)
  <2>2. PICK i \in RowOf(stats, t) : TRUE
    BY <2>1
  <2> DEFINE row == stats.rows[i]
  <2>3. Of(t) # {} /\ RowTrue(row) /\ row.messageType = t /\ row.count >= 1 /\ row \in Row
    BY <2>1, RowOfFacts
  <2>4. \A j \in RowOf(stats, t) : j = i
    BY <2>1 DEF WatchInv, TableTrue, OneRowEach, RowOf
  <2>5. LogInv
    BY <2>1 DEF WatchInv
  <2>6. Len(log) \in Nat /\ Of(t) \subseteq 0..Len(log)
    BY <2>5, LogFacts
  <2>7. L \in Of(t) /\ (\A k \in Of(t) : k <= L) /\ L \in DOMAIN log /\ L \in Nat
    <3>1. L \in Of(t) /\ \A k \in Of(t) : k <= L
      BY <2>3, <2>6, MaxOfBounded
    <3> HIDE DEF L
    <3>2. L \in 0..Len(log) /\ L \in DOMAIN log
      BY <2>6, <3>1 DEF Of
    <3> QED BY <2>6, <3>1, <3>2
  <2>8. at \in Nat /\ time \in Nat /\ at <= time
    BY <2>5, <2>7, LogFacts DEF LogInv
  <2>9. /\ now \in Nat /\ Wrap(at) \in Nat
        /\ now - Wrap(at) <= time - at
        /\ time \div U32 = at \div U32 => now - Wrap(at) = time - at
    BY <2>8, WrapDistance, WrapType
  <2>10. row.lastSeen \in Nat
    BY <2>3 DEF Row
  <2>11. Wrap(at) # 0 => row.lastSeen = Wrap(at)
    <3>1. SUFFICES ASSUME Wrap(at) # 0 PROVE row.lastSeen = Wrap(at)
      OBVIOUS
    <3>2. L \in Stamped(t)
      BY <2>7, <3>1 DEF Stamped
    <3>3. PICK m \in Stamped(t) : LastStamped(t, m) /\ row.lastSeen = Wrap(log[m].at)
      BY <2>3, <3>2 DEF RowTrue
    <3>4. m \in Of(t) /\ m \in Nat /\ L <= m /\ m <= L
      BY <2>5, <2>7, <3>2, <3>3, LogFacts DEF LastStamped, Stamped
    <3>5. m = L
      BY <2>7, <3>4
    <3> QED BY <3>3, <3>5
  <2>12. LastAt(t) = at
    BY DEF LastAt
  <2>13. Late(stats, t, now, LateAfter) <=>
           /\ now # 0 /\ row.lastSeen # 0 /\ now > row.lastSeen
           /\ now - row.lastSeen > LateAfter
    <3>1. ~ Missing(stats, t)
      BY <2>3 DEF Missing
    <3> HIDE DEF now
    <3> QED BY <2>4, <3>1, RequiredTracked DEF Late
  <2> HIDE DEF at, now, row, L
  <2>14. ASSUME Late(stats, t, now, LateAfter) PROVE time - at > LateAfter
    BY <2>8, <2>9, <2>10, <2>11, <2>13, <2>14, RequiredTracked
  <2>15. ASSUME time - at > LateAfter, Wrap(at) # 0, time \div U32 = at \div U32
         PROVE  Late(stats, t, now, LateAfter)
    <3>1. now - Wrap(at) = time - at /\ row.lastSeen = Wrap(at)
      BY <2>9, <2>11, <2>15
    <3> QED BY <2>8, <2>9, <2>10, <2>13, <2>15, <3>1, RequiredTracked
  <2> QED BY <2>12, <2>14, <2>15 DEF now
<1> QED BY <1>1, WatchAlways, PTL

\* maxGap of a row: never longer than the longest silence between two frames of the
\* type, and never shorter than one in which the clock did not wrap.
THEOREM MaxGapInBounds == Spec => []MaxGapIsReal
<1>1. WatchInv => MaxGapIsReal
  <2>1. SUFFICES ASSUME WatchInv, NEW i \in DOMAIN stats.rows
                 PROVE  LET row == stats.rows[i]
                        IN  /\ row.maxGap <= Max({0} \cup Gaps(row.messageType))
                            /\ \A g \in GapsInLap(row.messageType) : g <= row.maxGap
    BY DEF MaxGapIsReal
  <2> DEFINE row == stats.rows[i]
             G == {0} \cup Gaps(row.messageType)
  <2>2. i \in RowOf(stats, row.messageType)
    BY DEF RowOf
  <2>3. row \in Row /\ RowTrue(row)
    BY <2>1, <2>2, RowOfFacts
  <2>4. row.maxGap \in Nat
    BY <2>3 DEF Row
  <2>5. time \in Nat /\ Gaps(row.messageType) \subseteq 0..time
    BY <2>1, GapsFacts DEF WatchInv, LogInv
  <2>6. Max(G) \in G /\ \A g \in G : g <= Max(G)
    <3>1. G \subseteq 0..time /\ G # {}
      BY <2>5
    <3> QED BY <2>5, <3>1, MaxOfBounded
  <2>7. \A g \in G : g \in Nat
    BY <2>5
  <2>8. row.maxGap = 0 \/ \E g \in G : row.maxGap <= g
    BY <2>3 DEF RowTrue
  <2> DEFINE longest == Max(G)
  <2>9. longest \in Nat /\ longest \in G
    BY <2>6, <2>7
  <2>10. \A g \in GapsInLap(row.messageType) : g <= row.maxGap
    <3>1. SUFFICES ASSUME NEW g \in GapsInLap(row.messageType) PROVE g <= row.maxGap
      OBVIOUS
    <3>2. PICK j, k \in Stamped(row.messageType) :
            /\ Adjacent(row.messageType, j, k) /\ SameLap(j, k)
            /\ g = log[k].at - log[j].at
      BY <2>1, GapsFacts DEF WatchInv
    <3> QED BY <2>3, <3>2 DEF RowTrue
  <2>11. \A g \in G : g <= longest
    BY <2>6
  <2> HIDE DEF longest, G
  <2>12. row.maxGap <= longest
    <3>1. CASE row.maxGap = 0
      BY <2>9, <3>1
    <3>2. CASE \E g \in G : row.maxGap <= g
      <4>1. PICK g \in G : row.maxGap <= g
        BY <3>2
      <4>2. g \in Nat /\ g <= longest
        BY <2>7, <2>11
      <4> HIDE DEF row
      <4> QED BY <2>4, <2>9, <4>1, <4>2
    <3> QED BY <2>8, <3>1, <3>2
  <2> QED BY <2>10, <2>12 DEF longest, G
<1> QED BY <1>1, WatchAlways, PTL

\* bytesPerSec of a row: the average over the last window of at least a second that a
\* frame of the type closed, 0 while there was none; and the bytes after that are the
\* ones the open window has.
THEOREM RateOfLastWindow == Spec => []RateIsLastWindow
<1>1. WatchInv /\ RatesTrue => RateIsLastWindow
  <2>1. SUFFICES
          ASSUME WatchInv, RatesTrue, NEW i \in DOMAIN stats.rows
          PROVE  LET row == stats.rows[i]
                     ks == Stamped(row.messageType)
                     Within(a, b) == Wrap(Wrap(log[b].at) - Wrap(log[a].at))
                 IN  \/ /\ row.bytesPerSec = 0 /\ row.windowBytes = Wrap(Bytes(ks))
                        /\ \A k \in ks : Within(Min(ks), k) < Second
                     \/ \E a, b \in ks :
                          /\ a < b /\ Within(a, b) >= Second
                          /\ \A k \in ks : k > b => Within(b, k) < Second
                          /\ row.windowBytes = Wrap(Bytes({k \in ks : k > b}))
                          /\ row.bytesPerSec =
                               Wrap((Wrap(Bytes({k \in ks : (a < k \/ a = Min(ks)) /\ k <= b}))
                                     * Second) \div Within(a, b))
    BY DEF RateIsLastWindow
  <2> DEFINE row == stats.rows[i]
             ks == Stamped(row.messageType)
  <2>2. InWindow(row, log, ks)
    BY <2>1 DEF RatesTrue
  <2>3. \A s : Bytes(s) = BytesOf(log, s)
    BY Zenon DEF Bytes, BytesOf, Total, Lengths
  <2>4. CASE ks = {}
    <3>1. row.bytesPerSec = 0 /\ row.windowBytes = 0
      BY <2>2, <2>4 DEF InWindow
    <3>2. BytesOf(log, ks) = 0 /\ Wrap(0) = 0
      BY <2>4, FS_EmptySet, TotalFacts, StatsAssumption DEF BytesOf, Wrap
    <3> HIDE DEF ks, row
    <3> QED BY <2>3, <2>4, <3>1, <3>2 DEF ks, row
  <2>5. CASE ks # {}
    <3>1. PICK m \in ks :
            /\ \A k \in ks : m <= k
            /\ \/ FirstWindow(row, log, ks, m)
               \/ \E a, b \in ks : LaterWindow(row, log, ks, m, a, b)
      BY <2>2, <2>5 DEF InWindow
    <3>2. Min(ks) = m
      <4>1. \A k \in ks : k \in Nat
        BY <2>1, LogFacts DEF WatchInv
      <4> HIDE DEF ks
      <4>2. \E x \in ks : \A y \in ks : x =< y
        BY <3>1
      <4>3. Min(ks) \in ks /\ \A y \in ks : Min(ks) =< y
        BY <4>2 DEF Min
      <4> QED BY <3>1, <4>1, <4>3
    <3>3. CASE FirstWindow(row, log, ks, m)
      <4> HIDE DEF row, ks
      <4> QED BY <2>3, <3>2, <3>3, Zenon DEF FirstWindow, Between, row, ks
    <3>4. CASE \E a, b \in ks : LaterWindow(row, log, ks, m, a, b)
      <4> HIDE DEF row, ks
      <4>1. PICK a \in ks, b \in ks : LaterWindow(row, log, ks, m, a, b)
        BY <3>4
      <4> QED BY <2>3, <3>2, <4>1, Zenon DEF LaterWindow, Between, row, ks
    <3> QED BY <3>1, <3>3, <3>4
  <2> QED BY <2>4, <2>5
<1> QED BY <1>1, WatchAlways, RatesAlways, PTL

=============================================================================
