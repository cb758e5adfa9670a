----------------------------- MODULE LineProofs -----------------------------
(***************************************************************************)
(* What becomes of the frames of a line, for every value of the constants. *)
(*                                                                         *)
(* First the CRC (CrcLine) as a linear map.  BitStep is additive and       *)
(* one-to-one, and is a plain shift where bit 23 is clear; so are eight of *)
(* them.  From these three facts follow that the engines agree and that a  *)
(* burst is detected.                                                      *)
(*                                                                         *)
(* Then the relay (Relay), from the bytes of the receiver to Serial1: no   *)
(* frame is lost unseen, and frames leave in order.  It rests on what is   *)
(* proved of the assembler (FramedStreamProofs) and of the queue.          *)
(***************************************************************************)
EXTENDS CrcLine, Relay, FrameQueueProofs

\* What is proved of the assembler, about that of the relay.
FS == INSTANCE FramedStreamProofs
        WITH Bytes <- {}, OutCaps <- {}, MaxFed <- 0, fed <- <<>>, verdicts <- <<>>,
             Frames <- <<>>, Noise <- {}, MaxDamage <- 0, at <- <<>>, damage <- 0

-----------------------------------------------------------------------------
(* One bit                                                                   *)

\* A step keeps a register a register: bit 24, when it appears, is folded away.
LEMMA BitStepType ==
  ASSUME NEW c \in Register
  PROVE  BitStep(c) \in Register
BY DEF Register, BitStep, ShiftUp, SymDiff, Poly

\* Bit by bit, what a step does.
LEMMA BitStepMember ==
  ASSUME NEW c \in Register, NEW x \in Int
  PROVE  x \in BitStep(c) <=> ~ (x - 1 \in c <=> (23 \in c /\ x \in Poly))
<1>1. x \in ShiftUp(c, 1) <=> x - 1 \in c
  BY DEF ShiftUp, Register
<1>. QED
  BY <1>1 DEF BitStep, SymDiff

\* The step of a sum is the sum of the steps.
LEMMA BitStepLinear ==
  ASSUME NEW c \in Register, NEW d \in Register
  PROVE  /\ SymDiff(c, d) \in Register
         /\ BitStep(SymDiff(c, d)) = SymDiff(BitStep(c), BitStep(d))
<1>1. SymDiff(c, d) \in Register
  BY DEF SymDiff, Register
<1>2. /\ BitStep(SymDiff(c, d)) \in Register
      /\ SymDiff(BitStep(c), BitStep(d)) \in Register
  BY <1>1, BitStepType DEF SymDiff, Register
<1>3. ASSUME NEW x \in 0..23
      PROVE  x \in BitStep(SymDiff(c, d)) <=> x \in SymDiff(BitStep(c), BitStep(d))
  <2>1. x \in BitStep(SymDiff(c, d)) <=>
          ~ (x - 1 \in SymDiff(c, d) <=> (23 \in SymDiff(c, d) /\ x \in Poly))
    BY <1>1, BitStepMember
  <2>2. x \in BitStep(c) <=> ~ (x - 1 \in c <=> (23 \in c /\ x \in Poly))
    BY BitStepMember
  <2>3. x \in BitStep(d) <=> ~ (x - 1 \in d <=> (23 \in d /\ x \in Poly))
    BY BitStepMember
  <2>. QED
    BY <2>1, <2>2, <2>3 DEF SymDiff
<1>. QED
  BY <1>1, <1>2, <1>3 DEF Register

\* A step loses nothing: bit 0 of the result is the bit that was folded.
LEMMA BitStepKernel ==
  ASSUME NEW c \in Register, BitStep(c) = {}
  PROVE  c = {}
<1>1. 23 \notin c
  <2>1. 0 - 1 \notin c /\ 0 \in Poly
    BY DEF Register, Poly
  <2>. QED
    BY <2>1, BitStepMember
<1>2. ASSUME NEW y \in c PROVE FALSE
  <2>1. y \in Int /\ y + 1 \in Int /\ (y + 1) - 1 = y
    BY DEF Register
  <2>. QED
    BY <1>1, <2>1, BitStepMember
<1>. QED
  BY <1>2

\* Where bit 23 is clear a step is a shift.
LEMMA BitStepFree ==
  ASSUME NEW c \in SUBSET (0..22)
  PROVE  BitStep(c) = ShiftUp(c, 1)
BY DEF BitStep

LEMMA ShiftUpTwice ==
  ASSUME NEW c \in SUBSET Int, NEW j \in Int, NEW k \in Int
  PROVE  ShiftUp(ShiftUp(c, j), k) = ShiftUp(c, j + k)
<1>1. ASSUME NEW x \in ShiftUp(ShiftUp(c, j), k) PROVE x \in ShiftUp(c, j + k)
  <2>1. PICK i \in c : x = (i + j) + k
    BY DEF ShiftUp
  <2>2. x = i + (j + k)
    BY <2>1
  <2>. QED
    BY <2>2 DEF ShiftUp
<1>2. ASSUME NEW x \in ShiftUp(c, j + k) PROVE x \in ShiftUp(ShiftUp(c, j), k)
  <2>1. PICK i \in c : x = i + (j + k)
    BY DEF ShiftUp
  <2>2. x = (i + j) + k
    BY <2>1
  <2>. QED
    BY <2>2 DEF ShiftUp
<1>. QED
  BY <1>1, <1>2


\* A set of bits from k up is the shift of another.
LEMMA Unshift ==
  ASSUME NEW k \in 0..23, NEW d \in SUBSET (k..23)
  PROVE  d = ShiftUp({i \in 0..(23 - k) : i + k \in d}, k)
<1> DEFINE e == {i \in 0..(23 - k) : i + k \in d}
<1>1. ASSUME NEW x \in d PROVE x \in ShiftUp(e, k)
  <2>1. x \in Int /\ x - k \in 0..(23 - k) /\ (x - k) + k = x
    OBVIOUS
  <2>2. x - k \in e
    BY <2>1
  <2>. QED
    BY <2>1, <2>2 DEF ShiftUp
<1>2. ASSUME NEW x \in ShiftUp(e, k) PROVE x \in d
  BY DEF ShiftUp
<1>. QED
  BY <1>1, <1>2

-----------------------------------------------------------------------------
(* Eight bits                                                                *)

LEMMA Shift2Linear ==
  ASSUME NEW c \in Register, NEW d \in Register
  PROVE  /\ Shift2(c) \in Register
         /\ Shift2(SymDiff(c, d)) = SymDiff(Shift2(c), Shift2(d))
         /\ Shift2(c) = {} => c = {}
<1>1. /\ BitStep(c) \in Register /\ BitStep(d) \in Register
      /\ BitStep(SymDiff(c, d)) = SymDiff(BitStep(c), BitStep(d))
  BY BitStepType, BitStepLinear
<1>2. /\ BitStep(BitStep(c)) \in Register
      /\ BitStep(SymDiff(BitStep(c), BitStep(d)))
           = SymDiff(BitStep(BitStep(c)), BitStep(BitStep(d)))
  BY <1>1, BitStepType, BitStepLinear
<1>3. BitStep(BitStep(c)) = {} => c = {}
  BY <1>1, BitStepKernel
<1>. QED
  BY <1>1, <1>2, <1>3 DEF Shift2

LEMMA Shift4Linear ==
  ASSUME NEW c \in Register, NEW d \in Register
  PROVE  /\ Shift4(c) \in Register
         /\ Shift4(SymDiff(c, d)) = SymDiff(Shift4(c), Shift4(d))
         /\ Shift4(c) = {} => c = {}
<1>1. /\ Shift2(c) \in Register /\ Shift2(d) \in Register
      /\ Shift2(SymDiff(c, d)) = SymDiff(Shift2(c), Shift2(d))
      /\ Shift2(c) = {} => c = {}
  BY Shift2Linear
<1>2. /\ Shift2(Shift2(c)) \in Register
      /\ Shift2(SymDiff(Shift2(c), Shift2(d)))
           = SymDiff(Shift2(Shift2(c)), Shift2(Shift2(d)))
      /\ Shift2(Shift2(c)) = {} => Shift2(c) = {}
  BY <1>1, Shift2Linear
<1>. QED
  BY <1>1, <1>2 DEF Shift4

\* Eight steps keep a register, add up, and lose nothing.
LEMMA Shift8Linear ==
  ASSUME NEW c \in Register, NEW d \in Register
  PROVE  /\ Shift8(c) \in Register
         /\ Shift8(SymDiff(c, d)) = SymDiff(Shift8(c), Shift8(d))
         /\ Shift8(c) = {} => c = {}
<1>1. /\ Shift4(c) \in Register /\ Shift4(d) \in Register
      /\ Shift4(SymDiff(c, d)) = SymDiff(Shift4(c), Shift4(d))
      /\ Shift4(c) = {} => c = {}
  BY Shift4Linear
<1>2. /\ Shift4(Shift4(c)) \in Register
      /\ Shift4(SymDiff(Shift4(c), Shift4(d)))
           = SymDiff(Shift4(Shift4(c)), Shift4(Shift4(d)))
      /\ Shift4(Shift4(c)) = {} => Shift4(c) = {}
  BY <1>1, Shift4Linear
<1>. QED
  BY <1>1, <1>2 DEF Shift8

LEMMA SymDiffEmpty ==
  ASSUME NEW a, NEW b
  PROVE  SymDiff(a, b) = {} <=> a = b
BY DEF SymDiff

LEMMA RegisterSum ==
  ASSUME NEW a \in Register, NEW b \in Register
  PROVE  SymDiff(a, b) \in Register
BY DEF SymDiff, Register

\* Two registers that eight steps make equal were equal.
LEMMA Shift8OneToOne ==
  ASSUME NEW c \in Register, NEW d \in Register, Shift8(c) = Shift8(d)
  PROVE  c = d
<1>1. Shift8(SymDiff(c, d)) = {}
  BY Shift8Linear, SymDiffEmpty
<1>2. SymDiff(c, d) = {}
  BY <1>1, RegisterSum, Shift8Linear
<1>. QED
  BY <1>2, SymDiffEmpty

\* While nothing reaches bit 24, eight steps are a shift.
LEMMA Shift8Free ==
  ASSUME NEW c \in SUBSET (0..15)
  PROVE  Shift8(c) = ShiftUp(c, 8) /\ ShiftUp(c, 8) \in SUBSET (8..23)
<1>1. ASSUME NEW d \in SUBSET (0..21)
      PROVE  Shift2(d) = ShiftUp(d, 2)
  <2>1. BitStep(d) = ShiftUp(d, 1) /\ ShiftUp(d, 1) \in SUBSET (0..22)
    BY BitStepFree DEF ShiftUp
  <2>2. BitStep(ShiftUp(d, 1)) = ShiftUp(ShiftUp(d, 1), 1)
    BY <2>1, BitStepFree
  <2>3. ShiftUp(ShiftUp(d, 1), 1) = ShiftUp(d, 1 + 1)
    BY ShiftUpTwice
  <2>. QED
    BY <2>1, <2>2, <2>3 DEF Shift2
<1>2. ASSUME NEW d \in SUBSET (0..19)
      PROVE  Shift4(d) = ShiftUp(d, 4)
  <2>1. Shift2(d) = ShiftUp(d, 2) /\ ShiftUp(d, 2) \in SUBSET (0..21)
    BY <1>1 DEF ShiftUp
  <2>2. Shift2(ShiftUp(d, 2)) = ShiftUp(ShiftUp(d, 2), 2)
    BY <2>1, <1>1
  <2>3. ShiftUp(ShiftUp(d, 2), 2) = ShiftUp(d, 2 + 2)
    BY ShiftUpTwice
  <2>. QED
    BY <2>1, <2>2, <2>3 DEF Shift4
<1>3. Shift4(c) = ShiftUp(c, 4) /\ ShiftUp(c, 4) \in SUBSET (0..19)
  BY <1>2 DEF ShiftUp
<1>4. Shift4(ShiftUp(c, 4)) = ShiftUp(ShiftUp(c, 4), 4)
  BY <1>2, <1>3
<1>5. ShiftUp(ShiftUp(c, 4), 4) = ShiftUp(c, 4 + 4)
  BY ShiftUpTwice
<1>6. ShiftUp(c, 8) \in SUBSET (8..23)
  BY DEF ShiftUp
<1>. QED
  BY <1>3, <1>4, <1>5, <1>6 DEF Shift8

\* A byte moves up the register untouched, twice.
LEMMA ByteMoves ==
  ASSUME NEW c \in SUBSET (0..7)
  PROVE  /\ Shift8(c) \in SUBSET (8..15)
         /\ Shift8(Shift8(c)) = ShiftUp(c, 16)
         /\ Shift8(Shift8(c)) \in SUBSET (16..23)
<1>1. Shift8(c) = ShiftUp(c, 8)
  BY Shift8Free
<1>2. ShiftUp(c, 8) \in SUBSET (8..15)
  BY DEF ShiftUp
<1>3. Shift8(ShiftUp(c, 8)) = ShiftUp(ShiftUp(c, 8), 8)
  BY <1>2, Shift8Free
<1>4. ShiftUp(ShiftUp(c, 8), 8) = ShiftUp(c, 8 + 8)
  BY ShiftUpTwice
<1>5. ShiftUp(c, 16) \in SUBSET (16..23)
  BY DEF ShiftUp
<1>. QED
  BY <1>1, <1>2, <1>3, <1>4, <1>5

-----------------------------------------------------------------------------
(* The engines                                                               *)

LEMMA HighByte ==
  ASSUME NEW b \in BytePattern
  PROVE  /\ ShiftUp(b, 16) \in Register
         /\ \A x \in 0..15 : x \notin ShiftUp(b, 16)
         /\ \A x \in 16..23 : x \in ShiftUp(b, 16) <=> x - 16 \in b
BY DEF BytePattern, Register, ShiftUp

LEMMA BitByteType ==
  ASSUME NEW c \in Register, NEW b \in BytePattern
  PROVE  BitByte(c, b) \in Register
BY HighByte, RegisterSum, Shift8Linear DEF BitByte

\* The table step is the bit step: the low bits only shift, and the entry is what
\* the bits above them and the byte make.
LEMMA EngineStep ==
  ASSUME NEW c \in Register, NEW b \in BytePattern
  PROVE  TableByte(c, b) = BitByte(c, b)
<1> DEFINE low == c \cap 0..15
           index == SymDiff({i \in 0..7 : i + 16 \in c}, b)
<1>1. low \in Register /\ low \in SUBSET (0..15)
  BY DEF Register
<1>2. index \in BytePattern
  BY DEF BytePattern, SymDiff
<1>3. {i + 8 : i \in low} = Shift8(low)
  BY <1>1, Shift8Free DEF ShiftUp
<1>4. Entry[index] = Shift8(ShiftUp(index, 16))
  BY <1>2, TableAssumption
<1>5. ShiftUp(index, 16) \in Register
  BY <1>2, HighByte
<1>6. SymDiff(Shift8(low), Shift8(ShiftUp(index, 16))) = Shift8(SymDiff(low, ShiftUp(index, 16)))
  BY <1>1, <1>5, Shift8Linear
<1>7. SymDiff(low, ShiftUp(index, 16)) = SymDiff(c, ShiftUp(b, 16))
  <2>1. ShiftUp(b, 16) \in Register
    BY HighByte
  <2>2. ASSUME NEW x \in 0..23
        PROVE  x \in SymDiff(low, ShiftUp(index, 16)) <=> x \in SymDiff(c, ShiftUp(b, 16))
    <3>1. CASE x \in 0..15
      <4>1. x \notin ShiftUp(index, 16) /\ x \notin ShiftUp(b, 16)
        BY <1>2, <3>1, HighByte
      <4>. QED
        BY <3>1, <4>1 DEF SymDiff
    <3>2. CASE x \in 16..23
      <4>1. x \notin low
        BY <3>2
      <4>2. x \in ShiftUp(index, 16) <=> x - 16 \in index
        BY <1>2, <3>2, HighByte
      <4>3. x \in ShiftUp(b, 16) <=> x - 16 \in b
        BY <3>2, HighByte
      <4>4. x - 16 \in {i \in 0..7 : i + 16 \in c} <=> x \in c
        BY <3>2
      <4>. QED
        BY <4>1, <4>2, <4>3, <4>4 DEF SymDiff
    <3>. QED
      BY <3>1, <3>2
  <2>3. /\ SymDiff(low, ShiftUp(index, 16)) \in SUBSET (0..23)
        /\ SymDiff(c, ShiftUp(b, 16)) \in SUBSET (0..23)
    BY <1>1, <1>5, <2>1, RegisterSum DEF Register
  <2>. HIDE DEF low, index
  <2>. QED
    BY <2>2, <2>3
<1>. HIDE DEF low, index
<1>8. TableByte(c, b) = SymDiff({i + 8 : i \in low}, Entry[index])
  BY DEF TableByte, low, index
<1>. QED
  BY <1>3, <1>4, <1>6, <1>7, <1>8 DEF BitByte

-----------------------------------------------------------------------------
(* The line                                                                  *)

\* Bytes the burst has behind it in the body: 0 if it has not begun there.
Age == IF first = 0 \/ first > crossed THEN 0 ELSE crossed - first + 1

\* What the seal bytes took on the line.
SealDamage == SymDiff(got, {i \in seal : i >= 24 - 8 * sealed})

\* Twenty-four bit steps.
Shift24(c) == Shift8(Shift8(Shift8(c)))

LineTypeInv ==
  /\ crossed \in Nat /\ sealed \in 0..3 /\ first \in 0..(crossed + sealed)
  /\ seal \in Register /\ bitCrc \in Register /\ tableCrc \in Register
  /\ got \in SUBSET ((24 - 8 * sealed)..23)

\* The difference of the registers: none before the burst, what the burst makes of it
\* while it lasts, and never none after it.
BodyInv ==
  /\ Age = 0 => tableCrc = seal
  /\ Age \in 1..3 => \E bits \in SUBSET (0..(8 * Age - 1)) :
       bits # {} /\ SymDiff(tableCrc, seal) = Shift24(bits)
  /\ Age > 3 => tableCrc # seal

\* The damage to the seal lies where the burst could still reach.
SealInv ==
  /\ first = 0 => SealDamage = {}
  /\ first > crossed => SealDamage # {}
  /\ Age > 0 => SealDamage \subseteq (8 * Age)..23

LineInv == LineTypeInv /\ EnginesAgree /\ BodyInv /\ SealInv

\* A burst of a bytes in the body and the rest in the seal never cancels: shifted to
\* the end of the seal, the one would reach only bits the other does not.
LEMMA BurstSurvives ==
  ASSUME NEW a \in 1..3,
         NEW bits \in SUBSET (0..(8 * a - 1)), bits # {},
         NEW damage \in SUBSET ((8 * a)..23)
  PROVE  Shift24(bits) # damage
<1> SUFFICES ASSUME Shift24(bits) = damage PROVE FALSE
  OBVIOUS
<1>1. bits \in Register
  BY DEF Register
<1>2. Shift8(bits) \in Register /\ Shift8(Shift8(bits)) \in Register
  BY <1>1, Shift8Linear
<1>3. CASE a = 1
  <2> DEFINE e == {i \in 0..15 : i + 8 \in damage}
  <2>1. e \in SUBSET (0..15) /\ e \in Register
    BY DEF Register
  <2>2. damage = ShiftUp(e, 8)
    BY <1>3, Unshift
  <2>. HIDE DEF e
  <2>3. Shift8(Shift8(bits)) = e
    BY <1>2, <2>1, <2>2, Shift8Free, Shift8OneToOne DEF Shift24
  <2>4. bits \in SUBSET (0..7)
    BY <1>3
  <2>5. Shift8(Shift8(bits)) \in SUBSET (16..23)
    BY <2>4, ByteMoves
  <2>6. Shift8(Shift8(bits)) = {}
    BY <2>1, <2>3, <2>5
  <2>. QED
    BY <1>1, <1>2, <2>6, Shift8Linear
<1>4. CASE a = 2
  <2> DEFINE e == {i \in 0..7 : i + 16 \in damage}
  <2>1. e \in SUBSET (0..7) /\ e \in SUBSET (0..15) /\ e \in Register
    BY DEF Register
  <2>5. damage = ShiftUp(e, 16)
    BY <1>4, Unshift
  <2>. HIDE DEF e
  <2>6. Shift8(Shift8(Shift8(bits))) = Shift8(Shift8(e))
    BY <2>1, <2>5, ByteMoves DEF Shift24
  <2>7. Shift8(e) \in Register
    BY <2>1, Shift8Linear
  <2>8. Shift8(Shift8(bits)) = Shift8(e)
    BY <1>2, <2>6, <2>7, Shift8OneToOne
  <2>9. Shift8(bits) = e
    BY <1>2, <2>1, <2>8, Shift8OneToOne
  <2>10. Shift8(bits) \in SUBSET (8..23)
    BY <1>4, Shift8Free
  <2>11. Shift8(bits) = {}
    BY <2>1, <2>9, <2>10
  <2>. QED
    BY <1>1, <2>11, Shift8Linear
<1>5. CASE a = 3
  <2>1. damage = {}
    BY <1>5
  <2>. QED
    BY <1>1, <1>2, <2>1, Shift8Linear DEF Shift24
<1>. QED
  BY <1>3, <1>4, <1>5

\* A byte of the burst adds its bits below those it has.
LEMMA BurstGrows ==
  ASSUME NEW a \in 0..2,
         NEW bits \in SUBSET (0..(8 * a - 1)), NEW damage \in BytePattern
  PROVE  LET more == SymDiff(Shift8(bits), damage) IN
         /\ more \in SUBSET (0..(8 * (a + 1) - 1))
         /\ more = {} => bits = {} /\ damage = {}
         /\ Shift8(SymDiff(Shift24(bits), ShiftUp(damage, 16))) = Shift24(more)
<1>1. bits \in SUBSET (0..15) /\ bits \in Register /\ damage \in Register
  BY DEF Register, BytePattern
<1>2. Shift8(bits) \in SUBSET (8..(8 * (a + 1) - 1))
  <2>1. Shift8(bits) = ShiftUp(bits, 8)
    BY <1>1, Shift8Free
  <2>2. ShiftUp(bits, 8) \in SUBSET (8..(8 * (a + 1) - 1))
    BY DEF ShiftUp
  <2>. QED
    BY <2>1, <2>2
<1>3. SymDiff(Shift8(bits), damage) \in SUBSET (0..(8 * (a + 1) - 1))
  <2>1. ASSUME NEW x \in SymDiff(Shift8(bits), damage)
        PROVE  x \in 0..(8 * (a + 1) - 1)
    <3>1. x \in 8..(8 * (a + 1) - 1) \/ x \in 0..7
      BY <1>2 DEF SymDiff, BytePattern
    <3>. QED
      BY <3>1
  <2>. QED
    BY <2>1
<1>4. ASSUME SymDiff(Shift8(bits), damage) = {} PROVE bits = {} /\ damage = {}
  <2>1. Shift8(bits) = damage
    BY <1>4, SymDiffEmpty
  <2>2. Shift8(bits) = {}
    BY <1>2, <2>1 DEF BytePattern
  <2>. QED
    BY <1>1, <2>1, <2>2, Shift8Linear
<1>5. ShiftUp(damage, 16) = Shift8(Shift8(damage))
  BY ByteMoves DEF BytePattern
<1>6. /\ Shift8(bits) \in Register /\ Shift8(damage) \in Register
      /\ Shift8(Shift8(bits)) \in Register /\ Shift8(Shift8(damage)) \in Register
      /\ Shift24(bits) \in Register
  BY <1>1, Shift8Linear DEF Shift24
<1>7. Shift8(SymDiff(Shift24(bits), ShiftUp(damage, 16)))
        = SymDiff(Shift8(Shift24(bits)), Shift24(damage))
  BY <1>5, <1>6, Shift8Linear DEF Shift24
<1>8. /\ Shift8(SymDiff(Shift8(bits), damage)) = SymDiff(Shift8(Shift8(bits)), Shift8(damage))
      /\ Shift8(SymDiff(Shift8(Shift8(bits)), Shift8(damage)))
           = SymDiff(Shift8(Shift8(Shift8(bits))), Shift8(Shift8(damage)))
      /\ Shift8(SymDiff(Shift8(Shift8(Shift8(bits))), Shift8(Shift8(damage))))
           = SymDiff(Shift8(Shift8(Shift8(Shift8(bits)))), Shift8(Shift8(Shift8(damage))))
  BY <1>1, <1>6, Shift8Linear DEF Shift24
<1>9. Shift24(SymDiff(Shift8(bits), damage)) = SymDiff(Shift8(Shift24(bits)), Shift24(damage))
  BY <1>8 DEF Shift24
<1>. QED
  BY <1>3, <1>4, <1>7, <1>9

\* What a body byte does to the difference of the registers.
LEMMA DifferenceStep ==
  ASSUME NEW r \in Register, NEW c \in Register,
         NEW b \in BytePattern, NEW damage \in BytePattern
  PROVE  SymDiff(BitByte(r, SymDiff(b, damage)), BitByte(c, b))
           = Shift8(SymDiff(SymDiff(r, c), ShiftUp(damage, 16)))
<1> DEFINE B == ShiftUp(b, 16)
           D == ShiftUp(damage, 16)
<1>1. SymDiff(b, damage) \in BytePattern
  BY DEF SymDiff, BytePattern
<1>2. B \in Register /\ D \in Register /\ ShiftUp(SymDiff(b, damage), 16) \in Register
  BY <1>1, HighByte
<1>3. ShiftUp(SymDiff(b, damage), 16) = SymDiff(B, D)
  <2>1. ASSUME NEW x \in 0..23
        PROVE  x \in ShiftUp(SymDiff(b, damage), 16) <=> x \in SymDiff(B, D)
    <3>1. CASE x \in 0..15
      BY <1>1, <3>1, HighByte DEF SymDiff
    <3>2. CASE x \in 16..23
      BY <1>1, <3>2, HighByte DEF SymDiff
    <3>. QED
      BY <3>1, <3>2
  <2>2. SymDiff(B, D) \in Register
    BY <1>2, RegisterSum
  <2>. HIDE DEF B, D
  <2>. QED
    BY <1>2, <2>1, <2>2 DEF Register
<1>. HIDE DEF B, D
<1>4. SymDiff(r, SymDiff(B, D)) \in Register /\ SymDiff(c, B) \in Register
  BY <1>2, RegisterSum
<1>5. SymDiff(Shift8(SymDiff(r, SymDiff(B, D))), Shift8(SymDiff(c, B)))
        = Shift8(SymDiff(SymDiff(r, SymDiff(B, D)), SymDiff(c, B)))
  BY <1>4, Shift8Linear
<1>6. SymDiff(SymDiff(r, SymDiff(B, D)), SymDiff(c, B)) = SymDiff(SymDiff(r, c), D)
  BY Zenon DEF SymDiff
<1>. QED
  BY <1>3, <1>5, <1>6 DEF BitByte, B, D

-----------------------------------------------------------------------------
(* The invariant                                                             *)

\* It holds before the first byte.
LEMMA LineInitInv == LineInit => LineInv
<1> SUFFICES ASSUME LineInit PROVE LineInv
  OBVIOUS
<1>1. LineTypeInv /\ EnginesAgree
  BY DEF LineInit, LineTypeInv, EnginesAgree, Register
<1>2. Age = 0
  BY DEF LineInit, Age
<1>3. BodyInv
  BY <1>2 DEF LineInit, BodyInv
<1>4. SealDamage = {}
  BY DEF LineInit, SealDamage, SymDiff
<1>5. SealInv
  BY <1>2, <1>4 DEF LineInit, SealInv
<1>. QED
  BY <1>1, <1>3, <1>5 DEF LineInv

LEMMA Inputs ==
  ASSUME NEW damage \in Flips \cup {{}}
  PROVE  damage \in BytePattern /\ (damage \in Flips <=> damage # {})
BY LineAssumption DEF BytePattern

LEMMA BodyByteInv ==
  ASSUME LineInv, NEW damage \in Flips \cup {{}}, NEW b \in Bytes, BodyByte(b, damage)
  PROVE  LineInv'
<1> DEFINE diff == SymDiff(tableCrc, seal)
           D == ShiftUp(damage, 16)
<1>1. /\ damage \in BytePattern /\ b \in BytePattern /\ SymDiff(b, damage) \in BytePattern
      /\ damage \in Flips <=> damage # {}
  BY Inputs, LineAssumption DEF SymDiff, BytePattern
<1>0. /\ sealed = 0 /\ sealed' = 0
      /\ crossed \in Nat /\ crossed' = crossed + 1 /\ first \in 0..crossed
  BY DEF LineInv, LineTypeInv, BodyByte
<1>2. /\ got = {} /\ got' = {}
      /\ bitCrc = tableCrc
      /\ seal \in Register /\ tableCrc \in Register /\ bitCrc \in Register
  <2>1. got \in SUBSET (24..23)
    BY DEF LineInv, LineTypeInv, BodyByte
  <2>. QED
    BY <2>1 DEF LineInv, LineTypeInv, EnginesAgree, BodyByte
<1>3. \/ damage = {} /\ first' = first
      \/ damage # {} /\ first = 0 /\ first' = crossed + 1
      \/ damage # {} /\ first # 0 /\ first' = first /\ crossed + 1 < first + 3
  BY <1>1, <1>0 DEF BodyByte, MayTake
<1>4. first' \in 0..crossed'
  BY <1>0, <1>3
<1>a. /\ Age = IF first = 0 THEN 0 ELSE crossed - first + 1
      /\ Age' = IF first' = 0 THEN 0 ELSE crossed' - first' + 1
      /\ Age \in Nat /\ Age' \in Nat
  <2>1. ~ (first > crossed) /\ ~ (first' > crossed')
    BY <1>0, <1>4
  <2>2. /\ Age = IF first = 0 THEN 0 ELSE crossed - first + 1
        /\ Age' = IF first' = 0 THEN 0 ELSE crossed' - first' + 1
    BY <2>1, Zenon DEF Age
  <2>3. crossed - first + 1 \in Nat
    BY <1>0
  <2>4. crossed' - first' + 1 \in Nat
    <3>1. \A m \in Nat : \A n \in 0..m : m - n + 1 \in Nat
      OBVIOUS
    <3>2. crossed' \in Nat
      BY <1>0
    <3>. QED
      BY <1>4, <3>1, <3>2, Zenon
  <2>5. 0 \in Nat
    OBVIOUS
  <2>. QED
    BY <2>2, <2>3, <2>4, <2>5, Zenon
<1>5. bitCrc' = tableCrc' /\ tableCrc' \in Register /\ seal' \in Register
  <2>1. tableCrc' = BitByte(tableCrc, SymDiff(b, damage))
    BY <1>1, <1>2, EngineStep DEF BodyByte
  <2>. QED
    BY <1>1, <1>2, <2>1, BitByteType DEF BodyByte
<1>6. LineTypeInv' /\ EnginesAgree'
  BY <1>0, <1>2, <1>4, <1>5 DEF LineTypeInv, EnginesAgree
<1>7. SymDiff(tableCrc', seal') = Shift8(SymDiff(diff, D))
  BY <1>1, <1>2, EngineStep, DifferenceStep DEF BodyByte
<1>8. diff \in Register /\ D \in Register
  BY <1>1, <1>2, RegisterSum, HighByte
<1>9. SealInv'
  <2>1. SealDamage' = {}
    <3>1. seal' \in SUBSET (0..23)
      BY <1>5 DEF Register
    <3>2. ASSUME NEW i \in seal' PROVE ~ (i >= 24 - 8 * sealed')
      BY <1>0, <3>1
    <3>. QED
      BY <1>2, <3>2 DEF SealDamage, SymDiff
  <2>. QED
    <3>1. ~ (first' > crossed')
      BY <1>0, <1>4
    <3>. QED
      BY <2>1, <3>1 DEF SealInv
<1>10. BodyInv'
  <2>1. CASE Age' = 0
    <3>1. first' = 0 /\ first = 0 /\ damage = {}
      BY <1>0, <1>3, <1>a, <2>1
    <3>2. Age = 0
      BY <1>a, <3>1
    <3>3. diff = {} /\ D = {}
      BY <3>1, <3>2, SymDiffEmpty DEF LineInv, BodyInv, ShiftUp
    <3>4. SymDiff(diff, D) = {} /\ diff = SymDiff(diff, D)
      BY <3>3 DEF SymDiff
    <3>5. Shift8(SymDiff(diff, D)) = {}
      <4>1. Shift8(SymDiff(diff, diff)) = SymDiff(Shift8(diff), Shift8(diff))
        BY <1>8, Shift8Linear
      <4>2. SymDiff(diff, diff) = {}
        BY SymDiffEmpty
      <4>. QED
        BY <3>4, <4>1, <4>2, SymDiffEmpty
    <3>6. tableCrc' = seal'
      BY <1>7, <3>5, SymDiffEmpty
    <3>. QED
      BY <2>1, <3>6 DEF BodyInv
  <2>2. CASE Age' \in 1..3
    <3>1. Age = Age' - 1 /\ Age \in 0..2
      BY <1>0, <1>3, <1>a, <2>2
    <3>2. PICK bits \in SUBSET (0..(8 * Age - 1)) :
            diff = Shift24(bits) /\ (bits = {} /\ damage = {} => FALSE)
      <4>1. CASE Age = 0
        <5>1. first = 0 /\ damage # {}
          BY <1>0, <1>3, <1>a, <2>2, <4>1
        <5>2. diff = {}
          BY <4>1, SymDiffEmpty DEF LineInv, BodyInv
        <5>3. Shift24({}) = {}
          <6>1. {} \in SUBSET (0..7) /\ {} \in Register
            BY DEF Register
          <6>2. Shift8({}) = {}
            BY <6>1, Shift8Free DEF ShiftUp
          <6>. QED
            BY <6>2 DEF Shift24
        <5>. QED
          BY <5>1, <5>2, <5>3
      <4>2. CASE Age \in 1..3
        BY <4>2 DEF LineInv, BodyInv
      <4>. QED
        BY <3>1, <4>1, <4>2
    <3> DEFINE more == SymDiff(Shift8(bits), damage)
    <3>3. /\ more \in SUBSET (0..(8 * (Age + 1) - 1)) /\ more # {}
          /\ Shift8(SymDiff(Shift24(bits), D)) = Shift24(more)
      <4>1. /\ more \in SUBSET (0..(8 * (Age + 1) - 1))
            /\ more = {} => bits = {} /\ damage = {}
            /\ Shift8(SymDiff(Shift24(bits), ShiftUp(damage, 16))) = Shift24(more)
        BY <1>1, <3>1, BurstGrows
      <4>. QED
        BY <3>2, <4>1
    <3>4. SymDiff(tableCrc', seal') = Shift24(more)
      BY <1>7, <3>2, <3>3
    <3>5. Age' = Age + 1
      BY <3>1
    <3>. HIDE DEF more
    <3>6. \E bs \in SUBSET (0..(8 * Age' - 1)) :
            bs # {} /\ SymDiff(tableCrc', seal') = Shift24(bs)
      BY <3>3, <3>4, <3>5
    <3>7. ~ (Age' = 0) /\ ~ (Age' > 3)
      BY <2>2
    <3>. QED
      BY <3>6, <3>7, Zenon DEF BodyInv
  <2>3. CASE Age' > 3
    <3>1. Age \in Nat /\ Age >= 3 /\ damage = {}
      BY <1>0, <1>3, <1>a, <2>3
    <3>2. diff # {}
      <4>1. CASE Age = 3
        <5>1. PICK bits \in SUBSET (0..23) : bits # {} /\ diff = Shift24(bits)
          BY <4>1 DEF LineInv, BodyInv
        <5>2. bits \in Register /\ Shift8(bits) \in Register /\ Shift8(Shift8(bits)) \in Register
          BY Shift8Linear DEF Register
        <5>. QED
          BY <5>1, <5>2, Shift8Linear DEF Shift24
      <4>2. CASE Age > 3
        BY <4>2, SymDiffEmpty DEF LineInv, BodyInv
      <4>. QED
        BY <3>1, <4>1, <4>2
    <3>3. SymDiff(diff, D) = diff
      BY <3>1 DEF SymDiff, ShiftUp
    <3>4. SymDiff(tableCrc', seal') # {}
      BY <1>7, <1>8, <3>2, <3>3, Shift8Linear
    <3>5. tableCrc' # seal'
      BY <3>4, SymDiffEmpty
    <3>. QED
      BY <2>3, <3>5 DEF BodyInv
  <2>. QED
    BY <1>a, <2>1, <2>2, <2>3
<1>. QED
  BY <1>6, <1>9, <1>10 DEF LineInv

LEMMA SealByteInv ==
  ASSUME LineInv, NEW damage \in Flips \cup {{}}, SealByte(damage)
  PROVE  LineInv'
<1> DEFINE k == sealed + 1
           low == 24 - 8 * k
<1>1. /\ sealed \in 0..2 /\ k \in 1..3 /\ low \in {0, 8, 16} /\ sealed' = k
      /\ crossed \in Nat /\ crossed' = crossed /\ first \in 0..(crossed + sealed)
      /\ got \in SUBSET ((low + 8)..23)
  BY DEF LineInv, LineTypeInv, SealByte
<1>2. /\ seal \in SUBSET (0..23) /\ damage \in SUBSET (0..7)
      /\ damage \in Flips <=> damage # {}
  BY Inputs DEF LineInv, LineTypeInv, Register, BytePattern
<1>3. \/ damage = {} /\ first' = first
      \/ damage # {} /\ first = 0 /\ first' = crossed + k
      \/ damage # {} /\ first # 0 /\ first' = first /\ crossed + k < first + 3
  BY <1>1, <1>2 DEF SealByte, MayTake
<1>4. first' \in 0..(crossed' + sealed')
  BY <1>1, <1>3
<1>5. UNCHANGED <<seal, bitCrc, tableCrc>>
  BY DEF SealByte
<1> DEFINE b == SymDiff(StoredByte(seal, k), damage)
<1>6. got' = got \cup ShiftUp(b, low)
  BY DEF SealByte, Loaded
<1>. HIDE DEF k
<1>7. ASSUME NEW x \in 0..7
      PROVE  x \in b <=> ~ (x + low \in seal <=> x \in damage)
  BY <1>2 DEF StoredByte, SymDiff
<1>8. b \in SUBSET (0..7)
  BY <1>2 DEF StoredByte, SymDiff
<1>. HIDE DEF b, low
<1>9. ASSUME NEW x \in Int
      PROVE  x \in ShiftUp(b, low) <=> x \in low..(low + 7) /\ x - low \in b
  <2>1. ASSUME x \in ShiftUp(b, low) PROVE x \in low..(low + 7) /\ x - low \in b
    <3>1. PICK i \in b : x = i + low
      BY <2>1 DEF ShiftUp
    <3>2. i \in 0..7 /\ x - low = i
      BY <1>1, <1>8, <3>1
    <3>. QED
      BY <1>1, <3>1, <3>2
  <2>2. ASSUME x - low \in b PROVE x \in ShiftUp(b, low)
    <3>1. x = (x - low) + low
      BY <1>1
    <3>. QED
      BY <2>2, <3>1 DEF ShiftUp
  <2>. QED
    BY <2>1, <2>2
<1>10. got' \in SUBSET (low..23)
  <2>1. ASSUME NEW x \in got' PROVE x \in low..23
    <3>1. CASE x \in got
      BY <1>1, <3>1
    <3>2. CASE x \in ShiftUp(b, low)
      <4>1. x \in Int
        BY <1>1, <1>8, <3>2 DEF ShiftUp
      <4>. QED
        BY <1>1, <1>9, <3>2, <4>1
    <3>. QED
      BY <1>6, <3>1, <3>2
  <2>. QED
    BY <2>1
<1>11. LineTypeInv' /\ EnginesAgree'
  <2>1. low = 24 - 8 * sealed'
    BY <1>1 DEF low
  <2>2. got' \in SUBSET ((24 - 8 * sealed')..23)
    BY <1>10, <2>1
  <2>. QED
    BY <1>1, <1>4, <1>5, <2>2 DEF LineInv, LineTypeInv, EnginesAgree
\* The damage to the seal grows by that of this byte, at its place.
<1>12. ASSUME NEW x \in 0..23
       PROVE  x \in SealDamage' <=> \/ x \in SealDamage
                                    \/ x \in low..(low + 7) /\ x - low \in damage
  <2>1. /\ x \in SealDamage' <=> ~ (x \in got' <=> x \in seal /\ x >= low)
        /\ x \in SealDamage <=> ~ (x \in got <=> x \in seal /\ x >= low + 8)
    <3>1. low = 24 - 8 * sealed' /\ low + 8 = 24 - 8 * sealed
      BY <1>1 DEF low, k
    <3>. QED
      BY <1>5, <3>1 DEF SealDamage, SymDiff
  <2>2. CASE x < low
    <3>1. x \notin got' /\ x \notin got
      BY <1>1, <1>10, <2>2
    <3>. QED
      BY <1>1, <2>1, <2>2, <3>1
  <2>3. CASE x \in low..(low + 7)
    <3>1. x \notin got /\ ~ (x >= low + 8) /\ x >= low
      BY <1>1, <2>3
    <3>2. x \in got' <=> x - low \in b
      BY <1>6, <1>9, <2>3, <3>1
    <3>3. x - low \in 0..7 /\ (x - low) + low = x
      BY <1>1, <2>3
    <3>4. x - low \in b <=> ~ (x \in seal <=> x - low \in damage)
      BY <1>7, <3>3
    <3>. QED
      BY <2>1, <2>3, <3>1, <3>2, <3>4
  <2>4. CASE x > low + 7
    <3>1. x >= low /\ x >= low + 8 /\ x \notin low..(low + 7)
      BY <1>1, <2>4
    <3>2. x \in got' <=> x \in got
      BY <1>6, <1>9, <3>1
    <3>. QED
      BY <2>1, <3>1, <3>2
  <2>. QED
    BY <1>1, <2>2, <2>3, <2>4
<1>13. SealDamage \in SUBSET (0..23) /\ SealDamage' \in SUBSET (0..23)
  <2>1. /\ SealDamage \subseteq got \cup seal
        /\ SealDamage' \subseteq got' \cup seal
    BY <1>5 DEF SealDamage, SymDiff
  <2>. QED
    BY <1>1, <1>2, <1>10, <2>1
<1>14. Age' = Age /\ Age \in Nat /\ (Age > 0 => first # 0 /\ first' = first /\ Age = crossed - first + 1)
  <2>1. CASE first = 0 \/ first > crossed
    <3>1. first' = 0 \/ first' > crossed'
      BY <1>1, <1>3, <2>1
    <3>. QED
      BY <2>1, <3>1 DEF Age
  <2>2. CASE ~ (first = 0 \/ first > crossed)
    <3>1. first' = first /\ crossed' = crossed /\ crossed - first + 1 \in Nat
      BY <1>1, <1>3, <2>2
    <3>2. Age = crossed - first + 1 /\ Age' = crossed - first + 1
      BY <2>2, <3>1 DEF Age
    <3>. QED
      BY <2>2, <3>1, <3>2
  <2>. QED
    BY <2>1, <2>2
<1>15. BodyInv'
  <2>1. SymDiff(tableCrc', seal') = SymDiff(tableCrc, seal)
    BY <1>5
  <2>. QED
    BY <1>5, <1>14, <2>1 DEF LineInv, BodyInv
<1>16. SealInv'
  <2>1. CASE damage = {}
    <3>1. SealDamage' = SealDamage
      BY <1>12, <1>13, <2>1
    <3>2. first' = first /\ crossed' = crossed
      BY <1>1, <1>3, <2>1
    <3>. QED
      BY <1>14, <3>1, <3>2 DEF LineInv, SealInv
  <2>2. CASE damage # {}
    <3>1. first' # 0
      BY <1>1, <1>3, <2>2
    <3>2. SealDamage' # {}
      <4>1. PICK i \in damage : TRUE
        BY <2>2
      <4>2. i + low \in 0..23 /\ i + low \in low..(low + 7) /\ (i + low) - low = i
        BY <1>1, <1>2, <4>1
      <4>. QED
        BY <1>12, <4>1, <4>2
    <3>3. ASSUME Age > 0 PROVE SealDamage' \subseteq (8 * Age)..23
      <4>1. crossed + k < first + 3 /\ Age = crossed - first + 1 /\ first \in Nat
        BY <1>1, <1>3, <1>14, <2>2, <3>3
      <4>2. low = 24 - 8 * k /\ low >= 8 * Age
        BY <1>1, <4>1 DEF low
      <4>3. ASSUME NEW x \in SealDamage' PROVE x \in (8 * Age)..23
        <5>1. x \in 0..23
          BY <1>13
        <5>2. CASE x \in SealDamage
          BY <3>3, <5>2 DEF LineInv, SealInv
        <5>3. CASE x \in low..(low + 7)
          BY <1>1, <1>14, <4>2, <5>1, <5>3
        <5>. QED
          BY <1>12, <5>1, <5>2, <5>3
      <4>. QED
        BY <4>3
    <3>. QED
      BY <1>14, <3>1, <3>2, <3>3 DEF SealInv
  <2>. QED
    BY <2>1, <2>2
<1>. QED
  BY <1>11, <1>15, <1>16 DEF LineInv

\* It holds in every state of the line.
LEMMA LineInvariant == LineSpec => []LineInv
<1>1. LineInit => LineInv
  BY LineInitInv
<1>2. LineInv /\ [LineNext]_lineVars => LineInv'
  <2> SUFFICES ASSUME LineInv, [LineNext]_lineVars PROVE LineInv'
    OBVIOUS
  <2>1. ASSUME NEW damage \in Flips \cup {{}}, NEW b \in Bytes, BodyByte(b, damage)
        PROVE  LineInv'
    BY <2>1, BodyByteInv
  <2>2. ASSUME NEW damage \in Flips \cup {{}}, SealByte(damage)
        PROVE  LineInv'
    BY <2>2, SealByteInv
  <2>3. CASE UNCHANGED lineVars
    BY <2>3 DEF lineVars, LineInv, LineTypeInv, EnginesAgree, BodyInv, SealInv, Age, SealDamage
  <2>. QED
    BY <2>1, <2>2, <2>3 DEF LineNext
<1>. QED
  BY <1>1, <1>2, PTL DEF LineSpec

-----------------------------------------------------------------------------
(* The theorems                                                              *)

\* For every body of any length, damaged or not, the table engine of crc24qTable()
\* holds what the bit engine of crc24qBit() holds.
THEOREM EnginesAlwaysAgree == LineSpec => []EnginesAgree
BY LineInvariant, PTL DEF LineInv

\* For every body of any length and every damage within three consecutive bytes,
\* frameCrcOk() says yes to the frame sealed by appendCrc24q() exactly when no bit of
\* it was changed.
THEOREM BurstsAlwaysDetected == LineSpec => []BurstsDetected
<1>1. LineInv => BurstsDetected
  <2> SUFFICES ASSUME LineInv, sealed = 3
               PROVE  FrameCrcOk <=> first = 0
    BY DEF BurstsDetected
  <2>1. /\ seal \in SUBSET (0..23) /\ tableCrc \in Register /\ seal \in Register
        /\ crossed \in Nat /\ first \in 0..(crossed + 3)
    BY DEF LineInv, LineTypeInv, Register
  <2>2. SealDamage = SymDiff(got, seal)
    <3>1. ASSUME NEW i \in seal PROVE i >= 24 - 8 * sealed
      BY <2>1
    <3>2. {i \in seal : i >= 24 - 8 * sealed} = seal
      BY <3>1, Zenon
    <3>. QED
      BY <3>2 DEF SealDamage
  <2>3. Age \in Nat
    <3>1. \A m \in Nat : \A n \in 0..m : m - n + 1 \in Nat
      OBVIOUS
    <3>2. CASE first = 0 \/ first > crossed
      BY <3>2 DEF Age
    <3>3. CASE ~ (first = 0 \/ first > crossed)
      <4>1. first \in 0..crossed
        BY <2>1, <3>3
      <4>. QED
        BY <2>1, <3>1, <3>3, <4>1, Zenon DEF Age
    <3>. QED
      BY <3>2, <3>3
  <2>4. CASE Age = 0
    <3>1. tableCrc = seal /\ (FrameCrcOk <=> SealDamage = {})
      BY <2>2, <2>4, SymDiffEmpty DEF LineInv, BodyInv, FrameCrcOk
    <3>2. first = 0 \/ first > crossed
      <4>1. ASSUME first \in 1..crossed PROVE Age # 0
        <5>1. Age = crossed - first + 1
          BY <2>1, <4>1 DEF Age
        <5>. QED
          BY <2>1, <4>1, <5>1
      <4>. QED
        BY <2>1, <2>4, <4>1
    <3>3. first > crossed => first # 0
      BY <2>1
    <3>. QED
      BY <3>1, <3>2, <3>3 DEF LineInv, SealInv
  <2>5. CASE Age > 0
    <3>1. first # 0
      BY <2>5 DEF Age
    <3>2. SymDiff(tableCrc, seal) # SealDamage
      <4>1. SealDamage \in SUBSET ((8 * Age)..23)
        BY <2>5 DEF LineInv, SealInv
      <4>2. CASE Age \in 1..3
        <5>1. PICK bits \in SUBSET (0..(8 * Age - 1)) :
                bits # {} /\ SymDiff(tableCrc, seal) = Shift24(bits)
          BY <4>2 DEF LineInv, BodyInv
        <5>. QED
          BY <4>1, <4>2, <5>1, BurstSurvives
      <4>3. CASE Age > 3
        <5>1. SealDamage = {}
          BY <2>3, <4>1, <4>3
        <5>. QED
          BY <4>3, <5>1, SymDiffEmpty DEF LineInv, BodyInv
      <4>. QED
        BY <2>3, <2>5, <4>2, <4>3
    <3>. QED
      BY <2>2, <3>1, <3>2 DEF FrameCrcOk
  <2>. QED
    BY <2>3, <2>4, <2>5
<1>. QED
  BY <1>1, LineInvariant, PTL

-----------------------------------------------------------------------------
(* The assembler of the relay                                                *)

\* The assumptions hold of the constants of the instance.
LEMMA AssemblerAssumptions ==
  FS!BufSizeAssumption /\ FS!StreamAssumption /\ FS!SyncAssumption
BY BufSizeAssumption DEF FS!Byte

\* An instance brings its own copy of every operator; the copies are the same.
LEMMA SameAssembler ==
  /\ FS!Byte = Byte /\ FS!Preamble = Preamble
  /\ FS!AsmOK <=> AsmOK
  /\ \A c : /\ FS!IsFrame(c) <=> IsFrame(c)
            /\ FS!IsTooLong(c) <=> IsTooLong(c)
            /\ FS!IsNoise(c) <=> IsNoise(c)
  /\ \A b, cap : FS!Feed(b, cap) <=> Feed(b, cap)
<1>1. FS!Byte = Byte /\ FS!Preamble = Preamble
  BY DEF FS!Byte, Byte, FS!Preamble, Preamble
<1>2. \A x, y : FS!PayloadLen(x, y) = PayloadLen(x, y)
  BY DEF FS!PayloadLen, PayloadLen
<1>3. FS!AsmOK <=> AsmOK
  BY <1>1, <1>2, Zenon DEF FS!AsmOK, AsmOK, FS!ASMStatus, ASMStatus
<1>4. ASSUME NEW c
      PROVE  /\ FS!IsFrame(c) <=> IsFrame(c)
             /\ FS!IsTooLong(c) <=> IsTooLong(c)
             /\ FS!IsNoise(c) <=> IsNoise(c)
  BY <1>1, <1>2, Zenon DEF FS!IsFrame, IsFrame, FS!IsTooLong, IsTooLong, FS!IsNoise, IsNoise
<1>5. FS!Reset <=> Reset
  BY DEF FS!Reset, Reset
<1>6. FS!Completes <=> Completes
  BY DEF FS!Completes, Completes
<1>7. ASSUME NEW b, NEW cap PROVE FS!Feed(b, cap) <=> Feed(b, cap)
  <2>1. /\ FS!SkipByte(b) <=> SkipByte(b)
        /\ FS!StartCandidate(b) <=> StartCandidate(b)
        /\ FS!ReadLengthHigh(b) <=> ReadLengthHigh(b)
    BY <1>1, Zenon DEF FS!SkipByte, SkipByte, FS!StartCandidate, StartCandidate,
       FS!ReadLengthHigh, ReadLengthHigh
  <2>2. /\ FS!ReadLengthLow(b) <=> ReadLengthLow(b)
        /\ FS!RejectLength(b) <=> RejectLength(b)
        /\ FS!ReadBody(b) <=> ReadBody(b)
    BY <1>2, <1>5, Zenon DEF FS!ReadLengthLow, ReadLengthLow, FS!RejectLength, RejectLength,
       FS!ReadBody, ReadBody
  <2>3. /\ FS!RejectCrc(b) <=> RejectCrc(b)
        /\ FS!RejectRoom(b, cap) <=> RejectRoom(b, cap)
        /\ FS!Deliver(b, cap) <=> Deliver(b, cap)
    BY <1>5, <1>6, Zenon DEF FS!RejectCrc, RejectCrc, FS!RejectRoom, RejectRoom, FS!Deliver, Deliver
  <2> QED BY <2>1, <2>2, <2>3, Zenon DEF FS!Feed, Feed
<1> QED BY <1>1, <1>3, <1>4, <1>7

\* What a chunk leaves in the buffer while it is fed.
Collected(chunk, p) == IF IsNoise(chunk) THEN <<>> ELSE SubSeq(chunk, 1, p)

\* A byte of a chunk that began with the assembler in step.
LEMMA ChunkFed ==
  ASSUME AsmOK, NEW chunk \in Seq(Byte),
         IsFrame(chunk) \/ IsTooLong(chunk) \/ IsNoise(chunk),
         NEW p \in 0..(Len(chunk) - 1), buf = Collected(chunk, p),
         Feed(chunk[p + 1], BufSize)
  PROVE  /\ p + 1 < Len(chunk) =>
              status' = "NeedMore" /\ out' = out /\ buf' = Collected(chunk, p + 1)
         /\ p + 1 = Len(chunk) =>
              /\ buf' = <<>>
              /\ IsNoise(chunk) => status' = "NeedMore" /\ out' = out
              /\ IsTooLong(chunk) => status' = "Overflow" /\ out' = out
              /\ IsFrame(chunk) => IF CrcOk(chunk) THEN status' = "Ok" /\ out' = chunk
                                   ELSE status' = "BadCrc" /\ out' = out
<1>1. FS!AsmOK /\ chunk \in Seq(FS!Byte) /\ FS!Feed(chunk[p + 1], BufSize)
      /\ (FS!IsFrame(chunk) \/ FS!IsTooLong(chunk) \/ FS!IsNoise(chunk))
  BY SameAssembler, Zenon
<1>2. \A q : FS!Collected(chunk, q) = Collected(chunk, q)
  BY SameAssembler, Zenon DEF FS!Collected, Collected
<1>3. buf = FS!Collected(chunk, p)
  BY <1>2
<1>4. BufSize \in Nat /\ BufSize >= BufSize
  BY BufSizeAssumption
<1>5. /\ p + 1 < Len(chunk) =>
           status' = "NeedMore" /\ out' = out /\ buf' = FS!Collected(chunk, p + 1)
      /\ p + 1 = Len(chunk) =>
           /\ buf' = <<>>
           /\ FS!IsNoise(chunk) => status' = "NeedMore" /\ out' = out
           /\ FS!IsTooLong(chunk) => status' = "Overflow" /\ out' = out
           /\ FS!IsFrame(chunk) => IF CrcOk(chunk) THEN status' = "Ok" /\ out' = chunk
                                  ELSE status' = "BadCrc" /\ out' = out
  BY <1>1, <1>3, <1>4, AssemblerAssumptions, FS!ChunkStep
<1> QED BY <1>2, <1>5, SameAssembler, Zenon

\* The members of the assembler keep agreeing.
LEMMA AsmKept ==
  ASSUME AsmOK, NEW b \in Byte, Feed(b, BufSize)
  PROVE  AsmOK'
<1>1. FS!AsmOK /\ b \in FS!Byte /\ FS!Feed(b, BufSize) /\ BufSize \in Nat
  BY SameAssembler, BufSizeAssumption
<1>2. FS!AsmOK'
  BY <1>1, AssemblerAssumptions, FS!AsmStep
<1>3. \A x, y : FS!PayloadLen(x, y) = PayloadLen(x, y)
  BY DEF FS!PayloadLen, PayloadLen
<1> QED BY <1>2, <1>3, SameAssembler, Zenon DEF FS!AsmOK, AsmOK, FS!ASMStatus, ASMStatus

-----------------------------------------------------------------------------
(* The bytes in Serial                                                       *)

\* The chunks of a line.
LEMMA LineFacts ==
  ASSUME NEW l \in Lines, NEW i \in DOMAIN l.ends
  PROVE  /\ l.bytes \in Seq(Byte) /\ Len(l.ends) \in Nat /\ DOMAIN l.ends = 1..Len(l.ends)
         /\ i \in 1..Len(l.ends) /\ Begin(l, i) \in Nat /\ Begin(l, i + 1) = l.ends[i]
         /\ l.ends[i] \in 1..Len(l.bytes) /\ Begin(l, i) < l.ends[i]
         /\ Chunk(l, i) \in Seq(Byte) /\ Len(Chunk(l, i)) = l.ends[i] - Begin(l, i)
         /\ \A k \in 1..Len(Chunk(l, i)) : Chunk(l, i)[k] = l.bytes[Begin(l, i) + k]
         /\ IsFrame(Chunk(l, i)) \/ IsTooLong(Chunk(l, i)) \/ IsNoise(Chunk(l, i))
<1>1. /\ l.bytes \in Seq(Byte) /\ l.ends \in Seq(1..Len(l.bytes)) /\ Begin(l, i) < l.ends[i]
      /\ IsFrame(Chunk(l, i)) \/ IsTooLong(Chunk(l, i)) \/ IsNoise(Chunk(l, i))
  BY RelayAssumption
<1>2. Len(l.bytes) \in Nat /\ Len(l.ends) \in Nat /\ DOMAIN l.ends = 1..Len(l.ends)
  BY <1>1, LenProperties
<1>3. \A j \in 1..Len(l.ends) : l.ends[j] \in 1..Len(l.bytes)
  BY <1>1, <1>2, ElementOfSeq
<1>4. Begin(l, i) \in Nat /\ Begin(l, i + 1) = l.ends[i]
  <2>1. i \in Nat \ {0} /\ (i # 1 => i - 1 \in 1..Len(l.ends)) /\ i + 1 # 1 /\ (i + 1) - 1 = i
    BY <1>2
  <2> QED BY <1>3, <2>1 DEF Begin
<1>5. l.ends[i] \in 1..Len(l.bytes)
  BY <1>2, <1>3
<1>6. PICK b \in Nat, e \in 1..Len(l.bytes) : b = Begin(l, i) /\ e = l.ends[i] /\ b < e
  BY <1>1, <1>4, <1>5
<1>7. /\ SubSeq(l.bytes, b + 1, e) \in Seq(Byte) /\ Len(SubSeq(l.bytes, b + 1, e)) = e - b
      /\ \A k \in 1..(e - b) : SubSeq(l.bytes, b + 1, e)[k] = l.bytes[b + k]
  <2>1. b + 1 \in 1..(Len(l.bytes) + 1) /\ e \in b..Len(l.bytes) /\ e - (b + 1) + 1 = e - b
    BY <1>2, <1>6
  <2>2. /\ SubSeq(l.bytes, b + 1, e) \in Seq(Byte)
        /\ Len(SubSeq(l.bytes, b + 1, e)) = IF b + 1 <= e THEN e - (b + 1) + 1 ELSE 0
        /\ \A k \in 1..(e - (b + 1) + 1) : SubSeq(l.bytes, b + 1, e)[k] = l.bytes[b + 1 + k - 1]
    <3>1. \A k \in (b + 1)..e : l.bytes[k] \in Byte
      BY <1>1, <1>2, <1>6, ElementOfSeq
    <3>2. b + 1 \in Int /\ e \in Int
      BY <1>6
    <3> QED BY <3>1, <3>2, SubSeqProperties
  <2>3. \A k \in 1..(e - b) : b + 1 + k - 1 = b + k
    BY <1>6
  <2>4. b + 1 <= e /\ e - (b + 1) + 1 = e - b
    BY <1>6
  <2>5. ASSUME NEW k \in 1..(e - b) PROVE SubSeq(l.bytes, b + 1, e)[k] = l.bytes[b + k]
    <3>1. k \in 1..(e - (b + 1) + 1)
      BY <2>4
    <3>2. SubSeq(l.bytes, b + 1, e)[k] = l.bytes[b + 1 + k - 1]
      BY <2>2, <3>1, Zenon
    <3> QED BY <2>3, <3>2, Zenon
  <2> QED BY <2>2, <2>4, <2>5, Zenon
<1>8. Chunk(l, i) = SubSeq(l.bytes, b + 1, e)
  BY <1>6 DEF Chunk
<1> QED BY <1>1, <1>2, <1>4, <1>5, <1>6, <1>7, <1>8

\* m says where in q the bytes of the line after byte a and up to byte b are; the
\* others in q are commands.
Carries(m, q, l, a, b) ==
  /\ m \in [(a + 1)..b -> 1..Len(q)]
  /\ \A k \in (a + 1)..b : q[m[k]] = l.bytes[k]
  /\ \A j, k \in (a + 1)..b : j < k => m[j] < m[k]
  /\ \A p \in 1..Len(q) : q[p] # Toggle => \E k \in (a + 1)..b : m[k] = p

\* Serial holds what came and was not read, and commands.
Holds(q, l, a, b) == \E m \in [(a + 1)..b -> 1..Len(q)] : Carries(m, q, l, a, b)

\* The next byte of the line comes in.
LEMMA HoldsMore ==
  ASSUME NEW q \in Seq(Byte), NEW l, NEW a \in Nat, NEW b \in Nat, a <= b,
         l.bytes[b + 1] \in Byte, Holds(q, l, a, b)
  PROVE  Holds(Append(q, l.bytes[b + 1]), l, a, b + 1)
<1> DEFINE w == Append(q, l.bytes[b + 1])
           n == Len(q)
<1>1. PICK m : Carries(m, q, l, a, b)
  BY DEF Holds
<1> DEFINE m2 == [k \in (a + 1)..(b + 1) |-> IF k = b + 1 THEN n + 1 ELSE m[k]]
<1>2. /\ n \in Nat /\ Len(w) = n + 1 /\ w[n + 1] = l.bytes[b + 1]
      /\ \A p \in 1..n : w[p] = q[p]
  BY AppendProperties, LenProperties
<1> HIDE DEF w, n
<1>3. \A k \in (a + 1)..(b + 1) : k \in Nat /\ (k = b + 1 \/ k \in (a + 1)..b)
  OBVIOUS
<1>4. \A k \in (a + 1)..b : k # b + 1 /\ k \in (a + 1)..(b + 1) /\ m[k] \in 1..n
  BY <1>1 DEF Carries, n
<1>5. b + 1 \in (a + 1)..(b + 1)
  OBVIOUS
<1>6. m2 \in [(a + 1)..(b + 1) -> 1..(n + 1)]
  <2>1. ASSUME NEW k \in (a + 1)..(b + 1)
        PROVE  (IF k = b + 1 THEN n + 1 ELSE m[k]) \in 1..(n + 1)
    BY <1>2, <1>3, <1>4
  <2> QED BY <2>1
<1>7. m2[b + 1] = n + 1 /\ \A k \in (a + 1)..b : m2[k] = m[k]
  BY <1>4, <1>5
<1> HIDE DEF m2
<1>8. \A k \in (a + 1)..(b + 1) : w[m2[k]] = l.bytes[k]
  <2>1. ASSUME NEW k \in (a + 1)..b PROVE w[m2[k]] = l.bytes[k]
    <3>1. m[k] \in 1..n /\ m2[k] = m[k]
      BY <1>4, <1>7
    <3>2. q[m[k]] = l.bytes[k]
      BY <1>1 DEF Carries
    <3> QED BY <1>2, <3>1, <3>2
  <2> QED BY <1>2, <1>3, <1>7, <2>1
<1>9. ASSUME NEW j \in (a + 1)..(b + 1), NEW k \in (a + 1)..(b + 1), j < k PROVE m2[j] < m2[k]
  <2>1. j \in (a + 1)..b
    BY <1>9
  <2>2. CASE k = b + 1
    BY <1>2, <1>4, <1>7, <2>1, <2>2
  <2>3. CASE k \in (a + 1)..b
    BY <1>1, <1>7, <1>9, <2>1, <2>3 DEF Carries
  <2> QED BY <1>3, <2>2, <2>3
<1>10. ASSUME NEW p \in 1..(n + 1), w[p] # Toggle
       PROVE  \E k \in (a + 1)..(b + 1) : m2[k] = p
  <2>1. CASE p = n + 1
    BY <1>5, <1>7, <2>1
  <2>2. CASE p \in 1..n
    <3>1. q[p] # Toggle
      BY <1>2, <1>10, <2>2
    <3>2. PICK k \in (a + 1)..b : m[k] = p
      BY <1>1, <2>2, <3>1 DEF Carries, n
    <3> QED BY <1>4, <1>7, <3>2
  <2> QED BY <1>2, <2>1, <2>2
<1>11. Carries(m2, w, l, a, b + 1)
  BY <1>2, <1>6, <1>8, <1>9, <1>10 DEF Carries
<1> QED BY <1>11 DEF Holds, Carries, w

\* A command comes in.
LEMMA HoldsTyped ==
  ASSUME NEW q \in Seq(Byte), NEW l, NEW a \in Nat, NEW b \in Nat, Holds(q, l, a, b)
  PROVE  Holds(Append(q, Toggle), l, a, b)
<1> DEFINE w == Append(q, Toggle)
           n == Len(q)
<1>1. PICK m : Carries(m, q, l, a, b)
  BY DEF Holds
<1>2. Toggle \in Byte
  BY DEF Toggle, Byte
<1>3. n \in Nat /\ Len(w) = n + 1 /\ w[n + 1] = Toggle /\ \A p \in 1..n : w[p] = q[p]
  BY <1>2, AppendProperties, LenProperties
<1> HIDE DEF w, n
<1>4. /\ m \in [(a + 1)..b -> 1..n]
      /\ \A k \in (a + 1)..b : q[m[k]] = l.bytes[k]
      /\ \A j, k \in (a + 1)..b : j < k => m[j] < m[k]
      /\ \A p \in 1..n : q[p] # Toggle => \E k \in (a + 1)..b : m[k] = p
  BY <1>1 DEF Carries, n
<1>5. m \in [(a + 1)..b -> 1..(n + 1)]
  BY <1>3, <1>4
<1>6. \A p \in 1..(n + 1) : p \in 1..n \/ p = n + 1
  BY <1>3
<1>7. Carries(m, w, l, a, b)
  BY <1>3, <1>4, <1>5, <1>6 DEF Carries
<1> QED BY <1>7 DEF Holds, Carries, w

\* The byte read is a command, or the first of the line that was not fed.
LEMMA HoldsLess ==
  ASSUME NEW q \in Seq(Byte), q # <<>>, NEW l, NEW a \in Nat, NEW b \in Nat, a <= b,
         \A k \in (a + 1)..b : l.bytes[k] # Toggle, Holds(q, l, a, b)
  PROVE  /\ Head(q) = Toggle => Holds(Tail(q), l, a, b)
         /\ Head(q) # Toggle =>
              a < b /\ Head(q) = l.bytes[a + 1] /\ Holds(Tail(q), l, a + 1, b)
<1> DEFINE w == Tail(q)
           n == Len(q)
<1>1. PICK m : Carries(m, q, l, a, b)
  BY DEF Holds
<1>2. /\ n \in Nat \ {0} /\ Len(w) = n - 1 /\ Head(q) = q[1]
      /\ \A p \in 1..(n - 1) : w[p] = q[p + 1]
  <2>1. Len(q) \in Nat /\ Len(q) # 0
    BY LenProperties, EmptySeq
  <2> QED BY <2>1, HeadTailProperties
<1> HIDE DEF w, n
<1>3. /\ m \in [(a + 1)..b -> 1..n]
      /\ \A k \in (a + 1)..b : q[m[k]] = l.bytes[k]
      /\ \A j, k \in (a + 1)..b : j < k => m[j] < m[k]
      /\ \A p \in 1..n : q[p] # Toggle => \E k \in (a + 1)..b : m[k] = p
  BY <1>1 DEF Carries, n
<1>4. ASSUME NEW c \in Nat, c >= a, \A k \in (c + 1)..b : m[k] # 1,
             \A k \in (a + 1)..b : k \in (c + 1)..b \/ m[k] = 1
      PROVE  Holds(w, l, c, b)
  <2> DEFINE m2 == [k \in (c + 1)..b |-> m[k] - 1]
  <2>1. \A k \in (c + 1)..b : k \in (a + 1)..b /\ m[k] \in 1..n /\ m[k] # 1
                             /\ m[k] - 1 \in 1..(n - 1) /\ (m[k] - 1) + 1 = m[k]
    <3>1. \A k \in (c + 1)..b : k \in (a + 1)..b
      BY <1>4
    <3>2. \A x \in 1..n : x # 1 => x - 1 \in 1..(n - 1) /\ (x - 1) + 1 = x
      BY <1>2
    <3> QED BY <1>3, <1>4, <3>1, <3>2
  <2>2. m2 \in [(c + 1)..b -> 1..(n - 1)] /\ \A k \in (c + 1)..b : m2[k] = m[k] - 1
    BY <2>1
  <2> HIDE DEF m2
  <2>3. ASSUME NEW k \in (c + 1)..b PROVE w[m2[k]] = l.bytes[k]
    <3>1. m2[k] \in 1..(n - 1) /\ m2[k] + 1 = m[k] /\ k \in (a + 1)..b
      BY <2>1, <2>2
    <3>2. w[m2[k]] = q[m[k]]
      BY <1>2, <3>1
    <3> QED BY <1>3, <3>1, <3>2
  <2>4. ASSUME NEW j \in (c + 1)..b, NEW k \in (c + 1)..b, j < k PROVE m2[j] < m2[k]
    <3>1. m[j] < m[k] /\ m[j] \in Nat /\ m[k] \in Nat
      BY SMTT(30), <1>2, <1>3, <2>1, <2>4
    <3> QED BY SMTT(30), <2>2, <3>1
  <2>5. ASSUME NEW p \in 1..(n - 1), w[p] # Toggle PROVE \E k \in (c + 1)..b : m2[k] = p
    <3>1. p + 1 \in 1..n /\ q[p + 1] # Toggle /\ p + 1 # 1 /\ (p + 1) - 1 = p
      BY <1>2, <2>5
    <3>2. PICK k \in (a + 1)..b : m[k] = p + 1
      BY <1>3, <3>1
    <3>3. k \in (c + 1)..b
      BY <1>4, <3>1, <3>2
    <3> QED BY <2>2, <3>1, <3>2, <3>3
  <2>6. Carries(m2, w, l, c, b)
    BY <1>2, <2>2, <2>3, <2>4, <2>5 DEF Carries
  <2> QED BY <2>6 DEF Holds, Carries
<1>5. CASE Head(q) = Toggle
  <2>1. ASSUME NEW k \in (a + 1)..b, m[k] = 1 PROVE FALSE
    <3>1. q[1] = l.bytes[k] /\ l.bytes[k] # Toggle
      BY <1>3, <2>1
    <3> QED BY <1>2, <1>5, <3>1
  <2> QED BY <1>4, <1>5, <2>1 DEF w
<1>6. CASE Head(q) # Toggle
  <2>1. PICK k \in (a + 1)..b : m[k] = 1
    <3>1. 1 \in 1..n /\ q[1] # Toggle
      BY <1>2, <1>6
    <3> QED BY <1>3, <3>1
  <2>2. a + 1 \in (a + 1)..b /\ a < b
    BY <2>1
  <2>3. m[a + 1] \in 1..n /\ m[k] \in 1..n
    BY <1>3, <2>1, <2>2
  <2>4. ~ (a + 1 < k)
    BY <1>2, <1>3, <2>1, <2>2, <2>3
  <2>5. k = a + 1 /\ m[a + 1] = 1
    BY <2>1, <2>4
  <2>6. Head(q) = l.bytes[a + 1]
    BY <1>2, <1>3, <2>2, <2>5
  <2>7. \A j \in (a + 1)..b : j \in ((a + 1) + 1)..b \/ m[j] = 1
    BY <2>5
  <2>8. \A j \in ((a + 1) + 1)..b : j \in (a + 1)..b /\ a + 1 < j
    OBVIOUS
  <2>9. \A j \in ((a + 1) + 1)..b : m[j] # 1
    <3>1. SUFFICES ASSUME NEW j \in ((a + 1) + 1)..b PROVE m[j] # 1
      OBVIOUS
    <3>2. m[a + 1] < m[j]
      BY <1>3, <2>2, <2>8
    <3> QED BY <2>5, <3>2
  <2>10. Holds(w, l, a + 1, b)
    BY <1>4, <2>7, <2>9
  <2> QED BY <1>6, <2>2, <2>6, <2>10 DEF w
<1> QED BY <1>5, <1>6

-----------------------------------------------------------------------------
(* The order of the frames                                                   *)

\* f may leave before g.
Before(f, g) == f.nr # g.nr /\ (MayOvertake(f, g) \/ f.nr < g.nr)

\* f is one of the good frames among the first n chunks of the line.
Genuine(f, l, n) ==
  /\ f.nr \in 1..n /\ GoodFrame(Chunk(l, f.nr)) /\ f.bytes = Chunk(l, f.nr)

\* The frames written, and those of the queue q, which leave after them.
LeaveInOrder(s, q, l, n) ==
  /\ \A k \in 1..Len(s) : Genuine(s[k], l, n)
  /\ \A k \in 1..Len(q) : Genuine(q[k].frame, l, n)
  /\ \A k, m \in 1..Len(s) : k < m => Before(s[k], s[m])
  /\ \A k \in 1..Len(s), m \in 1..Len(q) : Before(s[k], q[m].frame)
  /\ \A k, m \in 1..Len(q) : k < m => Before(q[k].frame, q[m].frame)

\* Frames come before the one that comes next.
LEMMA BeforeNext ==
  ASSUME NEW n \in Nat, NEW l, NEW f, NEW g, Genuine(f, l, n), g.nr = n + 1
  PROVE  Before(f, g) /\ Genuine(f, l, n + 1)
<1>1. PICK x \in 1..n : x = f.nr
  BY DEF Genuine
<1>2. x # n + 1 /\ x < n + 1 /\ x \in 1..(n + 1)
  OBVIOUS
<1> QED BY <1>1, <1>2 DEF Before, Genuine

\* More of the line was fed.
LEMMA OrderNext ==
  ASSUME NEW n \in Nat, NEW l, NEW s, NEW q, LeaveInOrder(s, q, l, n)
  PROVE  LeaveInOrder(s, q, l, n + 1)
<1>1. \A f : Genuine(f, l, n) => Genuine(f, l, n + 1)
  <2>1. 1..n \subseteq 1..(n + 1)
    OBVIOUS
  <2> QED BY <2>1 DEF Genuine
<1> QED BY <1>1 DEF LeaveInOrder

\* What an eviction leaves is in order.
LEMMA OrderWithout ==
  ASSUME NEW n, NEW l, NEW s, NEW q \in Seq(Slots), NEW v, LeaveInOrder(s, q, l, n)
  PROVE  LeaveInOrder(s, Without(q, v), l, n)
<1> DEFINE w == Without(q, v)
<1>1. PICK m : Embeds(m, w, q, v)
  BY WithoutEmbeds
<1> HIDE DEF w
<1>2. /\ \A k \in 1..Len(w) : m[k] \in 1..Len(q) /\ w[k] = q[m[k]]
      /\ \A k, j \in 1..Len(w) : k < j => m[k] < m[j]
  BY <1>1 DEF Embeds
<1>3. LeaveInOrder(s, w, l, n)
  BY <1>2 DEF LeaveInOrder
<1> QED BY <1>3 DEF w

\* The frame that came is appended.
LEMMA OrderAppend ==
  ASSUME NEW n \in Nat, NEW l, NEW s, NEW q \in Seq(Slots), NEW slot \in Slots,
         LeaveInOrder(s, q, l, n), slot.frame.nr = n + 1, Genuine(slot.frame, l, n + 1)
  PROVE  LeaveInOrder(s, Append(q, slot), l, n + 1)
<1> DEFINE w == Append(q, slot)
           N == Len(q)
<1>1. /\ N \in Nat /\ Len(w) = N + 1 /\ w[N + 1] = slot
      /\ \A k \in 1..N : w[k] = q[k]
  BY AppendFacts
<1> HIDE DEF w
<1>2. LeaveInOrder(s, q, l, n + 1)
  BY OrderNext
<1>3. /\ \A k \in 1..Len(s) : Before(s[k], slot.frame)
      /\ \A k \in 1..N : Before(q[k].frame, slot.frame)
  BY BeforeNext DEF LeaveInOrder
<1> HIDE DEF N
<1>4. \A k \in 1..(N + 1) : k \in 1..N \/ k = N + 1
  BY <1>1
<1>5. \A k, m \in 1..(N + 1) : k < m => k \in 1..N
  BY <1>1
<1>6. /\ \A k \in 1..Len(s) : Genuine(s[k], l, n + 1)
      /\ \A k \in 1..N : Genuine(q[k].frame, l, n + 1)
      /\ \A k, m \in 1..Len(s) : k < m => Before(s[k], s[m])
      /\ \A k \in 1..Len(s), m \in 1..N : Before(s[k], q[m].frame)
      /\ \A k, m \in 1..N : k < m => Before(q[k].frame, q[m].frame)
  BY <1>2 DEF LeaveInOrder, N
<1>7. \A k \in 1..(N + 1) : Genuine(w[k].frame, l, n + 1)
  BY <1>1, <1>4, <1>6
<1>8. \A k \in 1..Len(s), m \in 1..(N + 1) : Before(s[k], w[m].frame)
  BY <1>1, <1>3, <1>4, <1>6
<1>9. \A k, m \in 1..(N + 1) : k < m => Before(w[k].frame, w[m].frame)
  BY <1>1, <1>3, <1>4, <1>5, <1>6
<1>10. LeaveInOrder(s, w, l, n + 1)
  BY <1>1, <1>6, <1>7, <1>8, <1>9 DEF LeaveInOrder
<1> QED BY <1>10 DEF w

\* The frame that came takes the place of one of its type, the only one queued.
LEMMA OrderReplace ==
  ASSUME NEW n \in Nat, NEW l, NEW s, NEW q \in Seq(Slots), NEW slot \in Slots,
         LeaveInOrder(s, q, l, n), slot.frame.nr = n + 1, Genuine(slot.frame, l, n + 1),
         NEW i \in DOMAIN q, ProtectedOnceIn(q), IsProtected(slot.frame.type),
         q[i].frame.type = slot.frame.type
  PROVE  LeaveInOrder(s, [q EXCEPT ![i] = slot], l, n + 1)
<1> DEFINE w == [q EXCEPT ![i] = slot]
           N == Len(q)
<1>1. /\ N \in Nat /\ Len(w) = N /\ DOMAIN q = 1..N /\ i \in 1..N
      /\ \A k \in 1..N : w[k] = IF k = i THEN slot ELSE q[k]
  BY ExceptSeq, LenProperties
<1> HIDE DEF w
<1>2. LeaveInOrder(s, q, l, n + 1)
  BY OrderNext
<1>3. /\ \A k \in 1..Len(s) : Before(s[k], slot.frame)
      /\ \A k \in 1..N : Before(q[k].frame, slot.frame) /\ q[k].frame.nr # n + 1
  <2>1. \A f : Genuine(f, l, n) => f.nr # n + 1
    BY DEF Genuine
  <2> QED BY <2>1, BeforeNext DEF LeaveInOrder
<1> HIDE DEF N
<1>4. ASSUME NEW k \in 1..N, k # i PROVE Before(slot.frame, q[k].frame)
  <2>1. q[k].frame.type # slot.frame.type
    BY <1>1, <1>4 DEF ProtectedOnceIn
  <2>2. q[k].frame.nr # slot.frame.nr
    BY <1>3
  <2> QED BY <2>1, <2>2 DEF Before, MayOvertake
<1>6. /\ \A k \in 1..Len(s) : Genuine(s[k], l, n + 1)
      /\ \A k \in 1..N : Genuine(q[k].frame, l, n + 1)
      /\ \A k, m \in 1..Len(s) : k < m => Before(s[k], s[m])
      /\ \A k \in 1..Len(s), m \in 1..N : Before(s[k], q[m].frame)
      /\ \A k, m \in 1..N : k < m => Before(q[k].frame, q[m].frame)
  BY <1>2 DEF LeaveInOrder, N
<1>7. \A k \in 1..N : Genuine(w[k].frame, l, n + 1)
  BY <1>1, <1>6
<1>8. \A k \in 1..Len(s), m \in 1..N : Before(s[k], w[m].frame)
  BY <1>1, <1>3, <1>6
<1>9. ASSUME NEW k \in 1..N, NEW m \in 1..N, k < m PROVE Before(w[k].frame, w[m].frame)
  <2>1. k # m
    BY <1>1, <1>9
  <2>2. CASE k = i
    BY <1>1, <1>4, <2>1, <2>2
  <2>3. CASE m = i
    BY <1>1, <1>3, <2>1, <2>3
  <2>4. CASE k # i /\ m # i
    BY <1>1, <1>6, <1>9, <2>4
  <2> QED BY <2>2, <2>3, <2>4
<1>10. LeaveInOrder(s, w, l, n + 1)
  BY <1>1, <1>6, <1>7, <1>8, <1>9 DEF LeaveInOrder
<1> QED BY <1>10 DEF w

\* The head of the queue is taken out, and written or thrown away.
LEMMA OrderPulled ==
  ASSUME NEW n, NEW l, NEW s \in Seq(Frames), NEW q \in Seq(Slots), q # <<>>,
         LeaveInOrder(s, q, l, n)
  PROVE  /\ LeaveInOrder(s, Tail(q), l, n)
         /\ LeaveInOrder(Append(s, Head(q).frame), Tail(q), l, n)
         /\ Head(q).frame \in Frames /\ Append(s, Head(q).frame) \in Seq(Frames)
         /\ Len(Append(s, Head(q).frame)) = Len(s) + 1 /\ Len(s) \in Nat
<1> DEFINE w == Tail(q)
           f == Head(q).frame
           t == Append(s, f)
           N == Len(q)
           L == Len(s)
<1>1. /\ N \in Nat \ {0} /\ Len(w) = N - 1 /\ Head(q) = q[1] /\ Head(q) \in Slots
      /\ \A k \in 1..(N - 1) : w[k] = q[k + 1]
  <2>1. Len(q) \in Nat /\ Len(q) # 0
    BY LenProperties, EmptySeq
  <2> QED BY <2>1, HeadTailProperties
<1>2. f \in Frames
  BY <1>1 DEF Slots
<1>3. /\ L \in Nat /\ t \in Seq(Frames) /\ Len(t) = L + 1 /\ t[L + 1] = f
      /\ \A k \in 1..L : t[k] = s[k]
  BY <1>2, AppendProperties, LenProperties
<1>4. f = q[1].frame
  BY <1>1
<1> HIDE DEF w, f, t, N, L
<1>5. /\ \A k \in 1..L : Genuine(s[k], l, n)
      /\ \A k \in 1..N : Genuine(q[k].frame, l, n)
      /\ \A k, m \in 1..L : k < m => Before(s[k], s[m])
      /\ \A k \in 1..L, m \in 1..N : Before(s[k], q[m].frame)
      /\ \A k, m \in 1..N : k < m => Before(q[k].frame, q[m].frame)
  BY DEF LeaveInOrder, N, L
<1>6. \A k \in 1..(N - 1) : k + 1 \in 1..N /\ 1 < k + 1
  BY <1>1
<1>7. 1 \in 1..N
  BY <1>1
<1>8. /\ \A k \in 1..(N - 1) : Genuine(w[k].frame, l, n) /\ Before(f, w[k].frame)
      /\ \A k \in 1..L, m \in 1..(N - 1) : Before(s[k], w[m].frame)
  BY <1>1, <1>4, <1>5, <1>6, <1>7
<1>9. ASSUME NEW k \in 1..(N - 1), NEW m \in 1..(N - 1), k < m
      PROVE  Before(w[k].frame, w[m].frame)
  <2>1. k + 1 < m + 1
    BY <1>9
  <2> QED BY <1>1, <1>5, <1>6, <2>1
<1>10. LeaveInOrder(s, w, l, n)
  BY <1>1, <1>5, <1>8, <1>9 DEF LeaveInOrder, L
<1>11. /\ \A k \in 1..(L + 1) : k \in 1..L \/ k = L + 1
       /\ \A k, m \in 1..(L + 1) : k < m => k \in 1..L
  BY <1>3
<1>12. \A k \in 1..(L + 1) : Genuine(t[k], l, n)
  BY <1>3, <1>4, <1>5, <1>7, <1>11
<1>13. \A k, m \in 1..(L + 1) : k < m => Before(t[k], t[m])
  BY <1>3, <1>4, <1>5, <1>7, <1>11
<1>14. \A k \in 1..(L + 1), m \in 1..(N - 1) : Before(t[k], w[m].frame)
  BY <1>3, <1>8, <1>11
<1>15. LeaveInOrder(t, w, l, n)
  BY <1>1, <1>3, <1>8, <1>9, <1>12, <1>13, <1>14 DEF LeaveInOrder
<1> QED BY <1>2, <1>3, <1>10, <1>15 DEF w, t, f, L

\* A push leaves the frames in order, the one pushed among them if it was stored.
LEMMA PushInOrder ==
  ASSUME QueueInv, NEW f \in Frames, Push(f), NEW n \in Nat, NEW l, NEW s,
         LeaveInOrder(s, queue, l, n), f.nr = n + 1, Genuine(f, l, n + 1)
  PROVE  LeaveInOrder(s, queue', l, n + 1)
<1> DEFINE Goal == LeaveInOrder(s, queue', l, n + 1)
<1>1. queue \in Seq(Slots) /\ ProtectedOnceIn(queue)
  BY DEF QueueInv, TypeOK, SlotsInv
<1>2. ASSUME queue' = queue PROVE Goal
  BY <1>2, OrderNext
<1>3. ASSUME Storable(f), NEW b \in 0..MaxBatch, NEW q \in Seq(Slots),
             LeaveInOrder(s, q, l, n), queue' = Append(q, NewSlot(f, b))
      PROVE  Goal
  <2>1. NewSlot(f, b) \in Slots /\ NewSlot(f, b).frame = f
    BY <1>3, NewSlotType DEF NewSlot
  <2> QED BY <1>3, <2>1, OrderAppend
<1>4. ASSUME NEW v PROVE Without(queue, v) \in Seq(Slots) /\ LeaveInOrder(s, Without(queue, v), l, n)
  BY <1>1, WithoutType, OrderWithout
<1>5. ASSUME Storable(f), StorePlain(f) \/ EvictForPlain(f) PROVE Goal
  <2>1. 0 \in 0..MaxBatch
    BY SizesAssumption
  <2>2. CASE StorePlain(f)
    BY <1>1, <1>3, <1>5, <2>1, <2>2 DEF StorePlain
  <2>3. CASE EvictForPlain(f)
    BY <1>3, <1>4, <1>5, <2>1, <2>3 DEF EvictForPlain
  <2> QED BY <1>5, <2>2, <2>3
<1>6. ASSUME Storable(f), IsProtected(f.type), ReplaceProtected(f) PROVE Goal
  <2>1. PICK i \in DOMAIN queue : /\ queue[i].frame.type = f.type
                                  /\ queue' = [queue EXCEPT ![i] = NewSlot(f, 0)]
    BY <1>6 DEF ReplaceProtected
  <2>2. NewSlot(f, 0) \in Slots /\ NewSlot(f, 0).frame = f
    BY <1>6, NewSlotType, SizesAssumption DEF NewSlot
  <2> QED BY <1>1, <1>6, <2>1, <2>2, OrderReplace
<1>7. CASE PushOversize(f)
  BY <1>2, <1>7 DEF PushOversize
<1>8. CASE PushProtected(f)
  BY <1>2, <1>5, <1>6, <1>8 DEF PushProtected, RefusePlain
<1>9. CASE PushOther(f)
  BY <1>2, <1>5, <1>9 DEF PushOther, RefusePlain
<1>10. CASE PushMsm(f)
  <2>1. Storable(f) /\ AssignedBatch(f) \in 0..MaxBatch
    BY <1>10, AssignedType, SizesAssumption DEF PushMsm, QueueInv
  <2>2. CASE StoreMsm(f)
    BY <1>1, <1>3, <2>1, <2>2 DEF StoreMsm
  <2>3. CASE EvictForMsm(f)
    BY <1>3, <1>4, <2>1, <2>3 DEF EvictForMsm
  <2>4. CASE DropOpenEpoch(f)
    <3>1. queue' = Without(queue, AssignedBatch(f))
      BY <2>4 DEF DropOpenEpoch
    <3> QED BY <1>4, <3>1, OrderNext
  <2>5. CASE RefuseMsm(f)
    BY <1>2, <2>5 DEF RefuseMsm
  <2> QED BY <1>10, <2>2, <2>3, <2>4, <2>5 DEF PushMsm
<1> QED BY <1>7, <1>8, <1>9, <1>10 DEF Push

-----------------------------------------------------------------------------
(* The account                                                               *)

\* A counter that wraps may be wrapped in a sum that does.
LEMMA SumWraps ==
  ASSUME NEW M \in Nat \ {0}, NEW x \in Nat, NEW y \in Nat
  PROVE  (x + (y % M)) % M = (x + y) % M /\ y % M \in Nat
<1> DEFINE q == y \div M
           r == y % M
<1>1. y = M * q + r /\ q \in Nat /\ r \in 0..(M - 1)
  OBVIOUS
<1> HIDE DEF q, r
<1>2. PICK c \in Nat : c = x + r
  BY <1>1
<1> DEFINE p == c \div M
           t == c % M
<1>3. c = M * p + t /\ p \in Nat /\ t \in 0..(M - 1)
  OBVIOUS
<1> HIDE DEF p, t
<1>4. x + y = M * (q + p) + t /\ q + p \in Nat
  <2>1. M * (q + p) = M * q + M * p /\ M * q \in Nat /\ M * p \in Nat
    BY <1>1, <1>3
  <2> QED BY <1>1, <1>2, <1>3, <2>1
<1>5. \A u \in Nat, v \in 0..(M - 1) : (M * u + v) % M = v
  OBVIOUS
<1>6. (x + y) % M = t
  BY <1>3, <1>4, <1>5
<1>7. c % M = t
  BY DEF t
<1> QED BY <1>1, <1>2, <1>6, <1>7 DEF r

\* c frames came in, a of them left or were thrown away, and d is counted dropped.
Balance(c, a, q, d) == c % CounterMod = (a + Len(q) + d) % CounterMod

\* Both sides of a balance may grow alike.
LEMMA BothGrow ==
  ASSUME NEW M \in Nat \ {0}, NEW x \in Nat, NEW y \in Nat, x % M = y % M
  PROVE  (x + 1) % M = (y + 1) % M
<1>1. (1 + (x % M)) % M = (1 + x) % M /\ (1 + (y % M)) % M = (1 + y) % M
  BY SumWraps
<1> QED BY <1>1

\* A push counts the frame, and those it costs.
LEMMA PushBalance ==
  ASSUME QueueInv, NEW f \in Frames, Push(f), NEW c \in Nat, NEW a \in Nat,
         Balance(c, a, queue, drops["frames"])
  PROVE  Balance(c + 1, a, queue', drops'["frames"])
<1> DEFINE n == Len(queue)
           d == drops["frames"]
<1>1. n \in Nat /\ d \in Nat /\ CounterMod \in Nat \ {0} /\ queue' \in Seq(Slots)
      /\ Len(queue') \in Nat /\ drops \in [DropFields -> 0..(CounterMod - 1)]
  <2>1. QueueInv'
    BY InvStep DEF Next
  <2>2. "frames" \in DropFields /\ queue \in Seq(Slots) /\ queue' \in Seq(Slots)
        /\ drops \in [DropFields -> 0..(CounterMod - 1)]
    BY <2>1 DEF QueueInv, TypeOK, DropFields
  <2> QED BY <2>2, LenProperties, SizesAssumption
<1>2. Counted
  BY PushEffect
<1>3. (c + 1) % CounterMod = (a + n + d + 1) % CounterMod
  <2>1. c % CounterMod = (a + n + d) % CounterMod
    BY DEF Balance
  <2> HIDE DEF n, d
  <2>2. a + n + d \in Nat
    BY <1>1
  <2> QED BY <1>1, <2>1, <2>2, BothGrow
<1>4. CASE drops' = drops /\ Len(queue') = n + 1
  <2> HIDE DEF n
  <2>1. a + (n + 1) + d = a + n + d + 1
    BY <1>1
  <2> QED BY <1>3, <1>4, <2>1 DEF Balance
<1>5. ASSUME NEW reason \in DropReasons, NEW k \in Nat \ {0}, Dropped(reason, k)
      PROVE  Balance(c + 1, a, queue', drops'["frames"])
  <2>1. drops'["frames"] = (d + k) % CounterMod
    BY <1>1, <1>5, NoteDropFields DEF Dropped
  <2>2. Len(queue') = n + 1 - k
    BY <1>5 DEF Dropped
  <2> HIDE DEF n, d
  <2>3. PICK x \in Nat : x = n + 1 - k
    BY <1>1, <2>2
  <2>4. ((a + x) + ((d + k) % CounterMod)) % CounterMod = ((a + x) + (d + k)) % CounterMod
    <3>1. a + x \in Nat /\ d + k \in Nat
      BY <1>1
    <3> QED BY <1>1, <3>1, SumWraps
  <2>5. (a + x) + (d + k) = a + n + d + 1
    BY <1>1, <2>3
  <2> QED BY <1>1, <1>3, <2>1, <2>2, <2>3, <2>4, <2>5 DEF Balance
<1> QED BY <1>2, <1>4, <1>5 DEF Counted

\* A frame leaves the queue and is written, or thrown away and counted.
LEMMA PullBalance ==
  ASSUME NEW c, NEW s \in Nat, NEW t \in Nat, NEW d \in Nat, NEW q \in Seq(Slots), q # <<>>,
         Balance(c, s + t, q, d)
  PROVE  /\ Balance(c, (s + 1) + t, Tail(q), d)
         /\ Balance(c, s + ((t + 1) % CounterMod), Tail(q), d)
<1>1. PICK n \in Nat : n = Len(Tail(q)) /\ n + 1 = Len(q)
  <2>1. Len(q) \in Nat /\ Len(q) # 0 /\ Len(Tail(q)) = Len(q) - 1
    BY LenProperties, EmptySeq, HeadTailProperties
  <2>2. Len(Tail(q)) \in Nat /\ Len(Tail(q)) + 1 = Len(q)
    BY <2>1
  <2> QED BY <2>2
<1>2. (s + 1) + t + n + d = s + t + (n + 1) + d
  OBVIOUS
<1>3. ((s + n + d) + ((t + 1) % CounterMod)) % CounterMod = ((s + n + d) + (t + 1)) % CounterMod
      /\ (t + 1) % CounterMod \in Nat
  <2>1. s + n + d \in Nat /\ t + 1 \in Nat /\ CounterMod \in Nat \ {0}
    BY SizesAssumption
  <2> QED BY <2>1, SumWraps
<1>4. (s + n + d) + (t + 1) = s + t + (n + 1) + d
  OBVIOUS
<1>5. PICK v \in Nat : v = (t + 1) % CounterMod
  BY <1>3
<1>6. s + v + n + d = (s + n + d) + v
  OBVIOUS
<1> QED BY <1>1, <1>2, <1>3, <1>4, <1>5, <1>6 DEF Balance

-----------------------------------------------------------------------------
(* What holds in every state                                                 *)

\* Where the line is: what came, what was fed, the chunk that is being fed.
PlaceOK ==
  /\ line \in Lines /\ arrived \in 0..Len(line.bytes) /\ fed \in 0..arrived
  /\ ended \in 0..Len(line.ends) /\ Begin(line, ended + 1) \in 0..fed
  /\ ended < Len(line.ends) => fed < line.ends[ended + 1]

\* What was fed of the chunk is what the assembler collected.
InStep ==
  ended < Len(line.ends)
    => buf = Collected(Chunk(line, ended + 1), fed - Begin(line, ended + 1))

AccountOK ==
  /\ sent \in Seq(Frames) /\ txDrops \in Nat
  /\ Balance(Cardinality(CameIn), Len(sent) + txDrops, queue, drops["frames"])
  /\ LeaveInOrder(sent, queue, line, ended)

RelayInv ==
  /\ AsmOK /\ QueueInv /\ PlaceOK /\ InStep
  /\ rx \in Seq(Byte) /\ Holds(rx, line, fed, arrived)
  /\ AccountOK

\* The parts that steps outside the hub leave alone.
LEMMA HubIdle ==
  ASSUME AsmOK, PlaceOK, InStep, UNCHANGED <<asmVars, line, position>>,
         arrived' \in 0..Len(line.bytes), arrived <= arrived'
  PROVE  AsmOK' /\ PlaceOK' /\ InStep' /\ fed' = fed /\ CameIn' = CameIn
<1>1. /\ buf' = buf /\ phase' = phase /\ expected' = expected /\ status' = status /\ out' = out
      /\ fed' = fed /\ ended' = ended /\ line' = line
  BY DEF asmVars, position
<1>2. AsmOK'
  BY <1>1 DEF AsmOK
<1>3. InStep' /\ CameIn' = CameIn
  BY <1>1 DEF InStep, CameIn
<1>4. PlaceOK'
  <2>1. line' \in Lines /\ arrived' \in 0..Len(line'.bytes) /\ ended' \in 0..Len(line'.ends)
        /\ Begin(line', ended' + 1) \in 0..fed'
        /\ (ended' < Len(line'.ends) => fed' < line'.ends[ended' + 1])
    BY <1>1 DEF PlaceOK
  <2>2. fed' \in 0..arrived'
    <3>1. Len(line.bytes) \in Nat
      BY LenProperties, RelayAssumption DEF PlaceOK
    <3>2. fed \in Nat /\ fed <= arrived /\ arrived \in Nat /\ arrived' \in Nat
      BY <3>1 DEF PlaceOK
    <3> QED BY <1>1, <3>2
  <2> QED BY <2>1, <2>2 DEF PlaceOK
<1> QED BY <1>1, <1>2, <1>3, <1>4

\* The queue and the account as they were.
LEMMA QueueIdle ==
  ASSUME QueueInv, AccountOK, UNCHANGED vars, UNCHANGED <<txDrops, sent, line, ended>>,
         CameIn' = CameIn
  PROVE  QueueInv' /\ AccountOK'
<1>1. QueueInv'
  BY InvStep
<1> QED BY <1>1 DEF AccountOK, vars

\* A byte of the line comes in.
LEMMA ArriveInv == RelayInv /\ Arrive => RelayInv'
<1> SUFFICES ASSUME RelayInv, Arrive PROVE RelayInv'
  OBVIOUS
<1>1. /\ AsmOK /\ QueueInv /\ PlaceOK /\ InStep /\ AccountOK
      /\ rx \in Seq(Byte) /\ Holds(rx, line, fed, arrived)
  BY DEF RelayInv
<1>2. /\ arrived < Len(line.bytes) /\ rx' = Append(rx, line.bytes[arrived + 1])
      /\ arrived' = arrived + 1 /\ UNCHANGED <<asmVars, vars, txDrops, sent, line, position>>
  BY DEF Arrive
<1>3. line.bytes \in Seq(Byte) /\ Len(line.bytes) \in Nat
      /\ arrived \in Nat /\ fed \in Nat /\ fed <= arrived
  <2>1. line.bytes \in Seq(Byte)
    BY <1>1, RelayAssumption DEF PlaceOK
  <2> QED BY <1>1, <2>1, LenProperties DEF PlaceOK
<1>4. line.bytes[arrived + 1] \in Byte /\ arrived + 1 \in 0..Len(line.bytes)
  BY <1>2, <1>3, ElementOfSeq
<1>5. AsmOK' /\ PlaceOK' /\ InStep' /\ fed' = fed /\ CameIn' = CameIn
  BY <1>1, <1>2, <1>3, <1>4, HubIdle
<1>6. QueueInv' /\ AccountOK'
  BY <1>1, <1>2, <1>5, QueueIdle DEF position
<1>7. rx' \in Seq(Byte) /\ Holds(rx', line', fed', arrived')
  BY <1>1, <1>2, <1>3, <1>4, <1>5, HoldsMore
<1> QED BY <1>5, <1>6, <1>7 DEF RelayInv

\* A command comes in.
LEMMA TypeInv == RelayInv /\ Type => RelayInv'
<1> SUFFICES ASSUME RelayInv, Type PROVE RelayInv'
  OBVIOUS
<1>1. /\ AsmOK /\ QueueInv /\ PlaceOK /\ InStep /\ AccountOK
      /\ rx \in Seq(Byte) /\ Holds(rx, line, fed, arrived)
  BY DEF RelayInv
<1>2. rx' = Append(rx, Toggle)
      /\ UNCHANGED <<asmVars, vars, txDrops, sent, line, arrived, position>>
  BY DEF Type
<1>3. fed \in Nat /\ arrived \in Nat /\ arrived' \in 0..Len(line.bytes) /\ Toggle \in Byte
  <2>1. Len(line.bytes) \in Nat
    BY <1>1, LenProperties, RelayAssumption DEF PlaceOK
  <2> QED BY <1>1, <1>2, <2>1 DEF PlaceOK, Toggle, Byte
<1>4. AsmOK' /\ PlaceOK' /\ InStep' /\ fed' = fed /\ CameIn' = CameIn
  BY <1>1, <1>2, <1>3, HubIdle
<1>5. QueueInv' /\ AccountOK'
  BY <1>1, <1>2, <1>4, QueueIdle DEF position
<1>6. rx' \in Seq(Byte) /\ Holds(rx', line', fed', arrived')
  BY <1>1, <1>2, <1>3, <1>4, HoldsTyped
<1> QED BY <1>4, <1>5, <1>6 DEF RelayInv

\* loop() takes a command out of Serial.
LEMMA ToggleInv == RelayInv /\ ToggleDecode => RelayInv'
<1> SUFFICES ASSUME RelayInv, ToggleDecode PROVE RelayInv'
  OBVIOUS
<1>1. /\ AsmOK /\ QueueInv /\ PlaceOK /\ InStep /\ AccountOK
      /\ rx \in Seq(Byte) /\ Holds(rx, line, fed, arrived)
  BY DEF RelayInv
<1>2. /\ rx # <<>> /\ Head(rx) = Toggle /\ rx' = Tail(rx)
      /\ UNCHANGED <<asmVars, vars, txDrops, sent, line, arrived, position>>
  BY DEF ToggleDecode
<1>3. /\ fed \in Nat /\ arrived \in Nat /\ fed <= arrived /\ arrived' \in 0..Len(line.bytes)
      /\ \A k \in (fed + 1)..arrived : line.bytes[k] # Toggle
  <2>1. line.bytes \in Seq(Byte) /\ \A k \in DOMAIN line.bytes : line.bytes[k] # Toggle
    BY <1>1, RelayAssumption DEF PlaceOK
  <2>2. Len(line.bytes) \in Nat /\ DOMAIN line.bytes = 1..Len(line.bytes)
    BY <2>1, LenProperties
  <2>3. arrived \in 0..Len(line.bytes) /\ fed \in 0..arrived
    BY <1>1 DEF PlaceOK
  <2>4. fed \in Nat /\ arrived \in Nat /\ fed <= arrived /\ arrived <= Len(line.bytes)
    BY <2>2, <2>3
  <2>5. arrived' \in 0..Len(line.bytes)
    BY <1>2, <2>3
  <2>6. \A k \in (fed + 1)..arrived : k \in 1..Len(line.bytes)
    BY <2>2, <2>4
  <2> QED BY <2>1, <2>2, <2>4, <2>5, <2>6
<1>4. AsmOK' /\ PlaceOK' /\ InStep' /\ fed' = fed /\ CameIn' = CameIn
  BY <1>1, <1>2, <1>3, HubIdle
<1>5. QueueInv' /\ AccountOK'
  BY <1>1, <1>2, <1>4, QueueIdle DEF position
<1>6. rx' \in Seq(Byte) /\ Holds(rx', line', fed', arrived')
  BY <1>1, <1>2, <1>3, <1>4, HoldsLess, HeadTailProperties
<1> QED BY <1>4, <1>5, <1>6 DEF RelayInv

\* loop() and the output go on, and neither hub nor queue is called.
LEMMA OtherInv ==
  ASSUME RelayInv, UNCHANGED <<asmVars, vars, rx, txDrops, sent, line, arrived, position>>
  PROVE  RelayInv'
<1>1. /\ AsmOK /\ QueueInv /\ PlaceOK /\ InStep /\ AccountOK
      /\ rx \in Seq(Byte) /\ Holds(rx, line, fed, arrived)
  BY DEF RelayInv
<1>2. arrived' \in 0..Len(line.bytes) /\ arrived <= arrived'
  <2>1. Len(line.bytes) \in Nat
    BY <1>1, LenProperties, RelayAssumption DEF PlaceOK
  <2> QED BY <1>1, <2>1 DEF PlaceOK
<1>3. AsmOK' /\ PlaceOK' /\ InStep' /\ fed' = fed /\ CameIn' = CameIn
  BY <1>1, <1>2, HubIdle
<1>4. QueueInv' /\ AccountOK'
  BY <1>1, <1>3, QueueIdle DEF position
<1> QED BY <1>1, <1>3, <1>4 DEF RelayInv

\* The head is pulled.
LEMMA PullKeeps ==
  ASSUME QueueInv, NEW w, Pull(w)
  PROVE  /\ QueueInv' /\ drops' = drops
         /\ queue # <<>> /\ queue \in Seq(Slots) /\ queue' = Tail(queue)
<1>1. /\ queue # <<>> /\ queue' = Tail(queue) /\ openBatch' = openBatch /\ fam' = fam
      /\ drops' = drops /\ window' = window /\ cfg' = cfg
  BY DEF Pull
<1>2. queue \in Seq(Slots) /\ TypeOK /\ SlotsInv(queue, openBatch, fam, 0)
  BY DEF QueueInv, TypeOK
<1>3. SlotsInv(queue', openBatch', fam', 0)
  BY <1>1, <1>2, TailInv
<1>4. TypeOK'
  <2>1. queue' \in Seq(Slots) /\ Len(queue') = Len(queue) - 1 /\ Len(queue) \in Nat
    BY <1>1, <1>2, HeadTailProperties, LenProperties
  <2>2. Len(queue') <= Depth
    BY <1>2, <2>1, SizesAssumption DEF TypeOK
  <2> QED BY <1>1, <1>2, <2>1, <2>2 DEF TypeOK
<1>5. QueueInv'
  BY <1>3, <1>4 DEF QueueInv, SlotsInv, MsmMarkedIn, RegisteredIn, KeyedByFamily, OrderedIn,
              AgedIn, OneEpochIn, ProtectedOnceIn
<1> QED BY <1>1, <1>2, <1>5

\* The head is written to Serial1, or thrown away and counted.
LEMMA SinkInv == RelayInv /\ (SinkWrite \/ SinkDiscard) => RelayInv'
<1> SUFFICES ASSUME RelayInv, SinkWrite \/ SinkDiscard PROVE RelayInv'
  OBVIOUS
<1>1. /\ AsmOK /\ QueueInv /\ PlaceOK /\ InStep
      /\ rx \in Seq(Byte) /\ Holds(rx, line, fed, arrived)
      /\ sent \in Seq(Frames) /\ txDrops \in Nat
      /\ Balance(Cardinality(CameIn), Len(sent) + txDrops, queue, drops["frames"])
      /\ LeaveInOrder(sent, queue, line, ended)
  BY DEF RelayInv, AccountOK
<1>2. UNCHANGED <<asmVars, rx, line, arrived, position>> /\ \E w : Pull(w)
  BY DEF SinkWrite, SinkDiscard
<1>3. /\ QueueInv' /\ drops' = drops
      /\ queue # <<>> /\ queue \in Seq(Slots) /\ queue' = Tail(queue)
  BY <1>1, <1>2, PullKeeps
<1>4. arrived' \in 0..Len(line.bytes) /\ arrived <= arrived'
  <2>1. Len(line.bytes) \in Nat
    BY <1>1, LenProperties, RelayAssumption DEF PlaceOK
  <2> QED BY <1>1, <1>2, <2>1 DEF PlaceOK
<1>5. AsmOK' /\ PlaceOK' /\ InStep' /\ fed' = fed /\ CameIn' = CameIn /\ ended' = ended
  BY <1>1, <1>2, <1>4, HubIdle DEF position
<1>6. drops["frames"] \in Nat
  <2>1. "frames" \in DropFields /\ drops \in [DropFields -> 0..(CounterMod - 1)]
    BY <1>1 DEF QueueInv, TypeOK, DropFields
  <2> QED BY <2>1, SizesAssumption
<1>7. /\ LeaveInOrder(sent, queue', line, ended)
      /\ LeaveInOrder(Append(sent, Head(queue).frame), queue', line, ended)
      /\ Append(sent, Head(queue).frame) \in Seq(Frames)
      /\ Len(Append(sent, Head(queue).frame)) = Len(sent) + 1 /\ Len(sent) \in Nat
  BY <1>1, <1>3, OrderPulled
<1>8. /\ Balance(Cardinality(CameIn), (Len(sent) + 1) + txDrops, queue', drops["frames"])
      /\ Balance(Cardinality(CameIn), Len(sent) + ((txDrops + 1) % CounterMod), queue', drops["frames"])
  BY <1>1, <1>3, <1>6, <1>7, PullBalance
<1>9. CASE SinkWrite
  <2>1. sent' = Append(sent, Head(queue).frame) /\ txDrops' = txDrops
    BY <1>9 DEF SinkWrite
  <2>2. AccountOK'
    BY <1>1, <1>2, <1>3, <1>5, <1>7, <1>8, <2>1 DEF AccountOK
  <2> QED BY <1>1, <1>2, <1>3, <1>5, <2>2 DEF RelayInv
<1>10. CASE SinkDiscard
  <2>1. sent' = sent /\ txDrops' = (txDrops + 1) % CounterMod
    BY <1>10 DEF SinkDiscard
  <2>2. (txDrops + 1) % CounterMod \in Nat
    BY <1>1, SizesAssumption
  <2>3. AccountOK'
    BY <1>1, <1>2, <1>3, <1>5, <1>7, <1>8, <2>1, <2>2 DEF AccountOK
  <2> QED BY <1>1, <1>2, <1>3, <1>5, <2>3 DEF RelayInv
<1> QED BY <1>9, <1>10

\* The good frames among the first n chunks.
GoodUpTo(l, n) == {i \in 1..n : GoodFrame(Chunk(l, i))}

\* A chunk that ends is a good frame, or not.
LEMMA GoodNext ==
  ASSUME NEW l, NEW n \in Nat
  PROVE  /\ Cardinality(GoodUpTo(l, n)) \in Nat
         /\ Cardinality(GoodUpTo(l, n + 1)) =
              IF GoodFrame(Chunk(l, n + 1)) THEN Cardinality(GoodUpTo(l, n)) + 1
              ELSE Cardinality(GoodUpTo(l, n))
<1> DEFINE S == GoodUpTo(l, n)
<1>1. IsFiniteSet(S) /\ Cardinality(S) \in Nat /\ n + 1 \notin S
  <2>1. S \in SUBSET (1..n) /\ n + 1 \notin 1..n
    BY DEF GoodUpTo
  <2> HIDE DEF S
  <2> QED BY <2>1, RankOrder
<1>2. \A i : i \in 1..(n + 1) <=> i \in 1..n \/ i = n + 1
  OBVIOUS
<1>3. GoodUpTo(l, n + 1) = IF GoodFrame(Chunk(l, n + 1)) THEN S \cup {n + 1} ELSE S
  BY <1>2 DEF GoodUpTo
<1> HIDE DEF S
<1>4. Cardinality(S \cup {n + 1}) = Cardinality(S) + 1
  BY <1>1, FS_AddElement
<1> QED BY <1>1, <1>3, <1>4 DEF S

\* One byte of the line: what was read of its chunk, and what the hub makes of it.
LEMMA ByteFed ==
  ASSUME AsmOK, PlaceOK, InStep, fed < arrived, Feed(line.bytes[fed + 1], BufSize)
  PROVE  LET c == Chunk(line, ended + 1)
         IN  /\ ended + 1 \in DOMAIN line.ends /\ line.bytes[fed + 1] \in Byte
             /\ fed + 1 # line.ends[ended + 1] =>
                  /\ fed + 1 < line.ends[ended + 1] /\ status' = "NeedMore"
                  /\ buf' = Collected(c, (fed + 1) - Begin(line, ended + 1))
             /\ fed + 1 = line.ends[ended + 1] =>
                  /\ buf' = <<>>
                  /\ IF GoodFrame(c) THEN status' = "Ok" /\ out' = c ELSE status' # "Ok"
<1> DEFINE c == Chunk(line, ended + 1)
           b == Begin(line, ended + 1)
           e == line.ends[ended + 1]
<1>1. /\ line \in Lines /\ arrived \in 0..Len(line.bytes) /\ fed \in 0..arrived
      /\ ended \in 0..Len(line.ends) /\ b \in 0..fed
      /\ ended < Len(line.ends) => fed < e
  BY DEF PlaceOK
<1>2. line.bytes \in Seq(Byte) /\ line.ends \in Seq(1..Len(line.bytes))
      /\ (line.bytes # <<>> => line.ends # <<>> /\ line.ends[Len(line.ends)] = Len(line.bytes))
  BY <1>1, RelayAssumption
<1>3. Len(line.bytes) \in Nat /\ Len(line.ends) \in Nat /\ DOMAIN line.ends = 1..Len(line.ends)
  BY <1>2, LenProperties
<1>4. fed \in Nat /\ arrived \in Nat /\ fed + 1 \in 1..Len(line.bytes) /\ ended \in Nat
  BY <1>1, <1>3
<1>5. ended < Len(line.ends)
  <2>1. SUFFICES ASSUME ended = Len(line.ends) PROVE FALSE
    BY <1>1, <1>3
  <2>2. line.bytes # <<>>
    BY <1>3, <1>4, EmptySeq
  <2>3. line.ends # <<>> /\ line.ends[Len(line.ends)] = Len(line.bytes)
    BY <1>2, <2>2
  <2>4. Len(line.ends) # 0
    BY <1>2, <2>3, EmptySeq
  <2>5. b = Len(line.bytes)
    <3>1. ended + 1 # 1 /\ (ended + 1) - 1 = ended
      BY <1>4, <2>1, <2>4
    <3> QED BY <2>1, <2>3, <3>1 DEF Begin
  <2> QED BY <1>1, <1>3, <1>4, <2>5
<1>6. ended + 1 \in DOMAIN line.ends
  BY <1>3, <1>4, <1>5
<1>7. /\ c \in Seq(Byte) /\ Len(c) = e - b /\ b \in Nat /\ e \in 1..Len(line.bytes)
      /\ \A k \in 1..Len(c) : c[k] = line.bytes[b + k]
      /\ IsFrame(c) \/ IsTooLong(c) \/ IsNoise(c)
  BY <1>1, <1>6, LineFacts
<1>8. line.bytes[fed + 1] \in Byte
  BY <1>2, <1>4, ElementOfSeq
<1>9. fed < e /\ buf = Collected(c, fed - b)
  BY <1>1, <1>5 DEF InStep
<1> HIDE DEF b, c, e
<1>10. PICK p \in Nat : p = fed - b
  BY <1>1, <1>4
<1>11. /\ e \in Nat /\ p \in 0..(Len(c) - 1) /\ p + 1 \in 1..Len(c) /\ b + (p + 1) = fed + 1
       /\ (fed + 1) - b = p + 1
       /\ (p + 1 < Len(c) <=> fed + 1 # e) /\ (p + 1 = Len(c) <=> fed + 1 = e)
       /\ (fed + 1 # e => fed + 1 < e)
  <2>1. fed \in Nat /\ b \in Nat /\ e \in Nat /\ fed = b + p /\ fed < e
    BY <1>1, <1>3, <1>4, <1>7, <1>9, <1>10
  <2>2. Len(c) = e - b
    BY <1>7
  <2> QED BY <2>1, <2>2
<1>12. c[p + 1] = line.bytes[fed + 1]
  BY SMTT(30), <1>7, <1>11
<1>13. /\ p + 1 < Len(c) => status' = "NeedMore" /\ buf' = Collected(c, p + 1)
       /\ p + 1 = Len(c) =>
            /\ buf' = <<>>
            /\ IsNoise(c) => status' = "NeedMore"
            /\ IsTooLong(c) => status' = "Overflow"
            /\ IsFrame(c) => IF CrcOk(c) THEN status' = "Ok" /\ out' = c ELSE status' = "BadCrc"
  BY <1>7, <1>9, <1>10, <1>11, <1>12, ChunkFed
<1>14. fed + 1 = e => IF GoodFrame(c) THEN status' = "Ok" /\ out' = c ELSE status' # "Ok"
  BY <1>7, <1>11, <1>13 DEF GoodFrame
<1>15. /\ fed + 1 # e =>
            fed + 1 < e /\ status' = "NeedMore" /\ buf' = Collected(c, (fed + 1) - b)
       /\ fed + 1 = e => buf' = <<>>
  BY <1>11, <1>13
<1> QED BY <1>6, <1>8, <1>14, <1>15 DEF b, c, e

\* loop() feeds a byte.
LEMMA ReadInv == RelayInv /\ ReadByte => RelayInv'
<1> SUFFICES ASSUME RelayInv, ReadByte PROVE RelayInv'
  OBVIOUS
<1> DEFINE n == ended + 1
           c == Chunk(line, n)
<1>1. /\ AsmOK /\ QueueInv /\ PlaceOK /\ InStep
      /\ rx \in Seq(Byte) /\ Holds(rx, line, fed, arrived)
      /\ sent \in Seq(Frames) /\ txDrops \in Nat
      /\ Balance(Cardinality(CameIn), Len(sent) + txDrops, queue, drops["frames"])
      /\ LeaveInOrder(sent, queue, line, ended)
  BY DEF RelayInv, AccountOK
<1>2. /\ rx # <<>> /\ Head(rx) # Toggle /\ rx' = Tail(rx) /\ Feed(Head(rx), BufSize)
      /\ IF status' = "Ok" THEN Push(AsFrame(out', n)) ELSE UNCHANGED vars
      /\ fed' = fed + 1 /\ ended' = IF fed + 1 = line.ends[n] THEN n ELSE ended
      /\ line' = line /\ arrived' = arrived /\ sent' = sent /\ txDrops' = txDrops
  BY DEF ReadByte, FeedHub
<1>3. /\ line \in Lines /\ arrived \in 0..Len(line.bytes) /\ fed \in 0..arrived
      /\ ended \in 0..Len(line.ends) /\ Begin(line, n) \in 0..fed
  BY <1>1 DEF PlaceOK
<1>4. /\ Len(line.bytes) \in Nat /\ DOMAIN line.bytes = 1..Len(line.bytes)
      /\ \A k \in DOMAIN line.bytes : line.bytes[k] # Toggle
  BY <1>3, LenProperties, RelayAssumption
<1>5. fed \in Nat /\ arrived \in Nat /\ fed <= arrived
      /\ \A k \in (fed + 1)..arrived : line.bytes[k] # Toggle
  BY <1>3, <1>4
<1>6. fed < arrived /\ Head(rx) = line.bytes[fed + 1] /\ Holds(Tail(rx), line, fed + 1, arrived)
  BY <1>1, <1>2, <1>5, HoldsLess
<1>7. rx' \in Seq(Byte) /\ Holds(rx', line', fed', arrived')
  BY <1>1, <1>2, <1>6, HeadTailProperties
<1>8. /\ n \in DOMAIN line.ends /\ line.bytes[fed + 1] \in Byte
      /\ fed + 1 # line.ends[n] =>
           /\ fed + 1 < line.ends[n] /\ status' = "NeedMore"
           /\ buf' = Collected(c, (fed + 1) - Begin(line, n))
      /\ fed + 1 = line.ends[n] =>
           /\ buf' = <<>>
           /\ IF GoodFrame(c) THEN status' = "Ok" /\ out' = c ELSE status' # "Ok"
  BY <1>1, <1>2, <1>6, ByteFed
<1>9. AsmOK'
  BY <1>1, <1>2, <1>6, <1>8, AsmKept
<1>10. fed' \in 0..arrived'
  BY <1>2, <1>5, <1>6
<1>11. ended \in Nat /\ Len(line.ends) \in Nat /\ n \in 1..Len(line.ends)
       /\ Begin(line, n + 1) = line.ends[n] /\ Begin(line, n) \in Nat
       /\ line.ends[n] \in 1..Len(line.bytes)
  <2>1. Len(line.ends) \in Nat
    BY <1>3, <1>8, LineFacts
  <2> QED BY <1>3, <1>8, <2>1, LineFacts
<1>12. CameIn = GoodUpTo(line, ended) /\ CameIn' = GoodUpTo(line, ended')
  BY <1>2 DEF CameIn, GoodUpTo
<1>13. CASE fed + 1 # line.ends[n]
  <2>1. ended' = ended /\ UNCHANGED vars
    BY <1>2, <1>8, <1>13
  <2>2. PlaceOK'
    <3>1. Begin(line', ended' + 1) \in 0..fed'
      BY <1>2, <1>3, <1>5, <2>1
    <3>2. ended' < Len(line'.ends) => fed' < line'.ends[ended' + 1]
      BY <1>2, <1>8, <1>13, <2>1
    <3> QED BY <1>2, <1>3, <1>10, <2>1, <3>1, <3>2 DEF PlaceOK
  <2>3. InStep'
    BY <1>2, <1>8, <1>13, <2>1 DEF InStep
  <2>4. CameIn' = CameIn /\ QueueInv'
    BY <1>1, <1>12, <2>1, InvStep
  <2>5. AccountOK'
    BY <1>1, <1>2, <2>1, <2>4 DEF AccountOK, vars
  <2> QED BY <1>7, <1>9, <2>2, <2>3, <2>4, <2>5 DEF RelayInv
<1>14. CASE fed + 1 = line.ends[n]
  <2>1. ended' = n /\ buf' = <<>>
    BY <1>2, <1>8, <1>14
  <2>2. PlaceOK'
    <3>1. n \in 0..Len(line.ends) /\ Begin(line', ended' + 1) = fed' /\ fed' \in 0..fed'
      BY <1>2, <1>5, <1>11, <1>14, <2>1
    <3>2. n < Len(line.ends) => fed + 1 < line.ends[n + 1]
      <4>1. SUFFICES ASSUME n < Len(line.ends) PROVE fed + 1 < line.ends[n + 1]
        OBVIOUS
      <4>2. n + 1 \in DOMAIN line.ends
        BY <1>3, <1>8, <1>11, <4>1, LineFacts
      <4>3. Begin(line, n + 1) < line.ends[n + 1]
        BY <1>3, <4>2, LineFacts
      <4> QED BY <1>11, <1>14, <4>3
    <3> QED BY <1>2, <1>3, <1>10, <2>1, <3>1, <3>2 DEF PlaceOK
  <2>3. InStep'
    <3>1. Begin(line, n + 1) = fed + 1
      BY <1>11, <1>14
    <3>2. (fed + 1) - (fed + 1) = 0 /\ \A s : SubSeq(s, 1, 0) = <<>>
      BY <1>5, SubSeqEmpty
    <3>3. \A s : Collected(s, 0) = <<>>
      BY <3>2 DEF Collected
    <3> QED BY <1>2, <2>1, <3>1, <3>2, <3>3 DEF InStep
  <2>4. /\ Cardinality(CameIn) \in Nat
        /\ Cardinality(CameIn') = IF GoodFrame(c) THEN Cardinality(CameIn) + 1 ELSE Cardinality(CameIn)
    BY <1>11, <1>12, <2>1, GoodNext
  <2>5. CASE GoodFrame(c)
    <3> DEFINE f == AsFrame(c, n)
    <3>1. f \in Frames
      BY <1>3, <1>8, <2>5, RelayAssumption
    <3>2. Push(f)
      BY <1>2, <1>8, <1>14, <2>5
    <3>3. f.nr = n /\ f.bytes = c
      BY DEF AsFrame
    <3> HIDE DEF f
    <3>4. Genuine(f, line, n)
      <4>1. n \in 1..n
        BY <1>11
      <4> QED BY <2>5, <3>3, <4>1 DEF Genuine
    <3>5. QueueInv'
      BY <1>1, <3>1, <3>2, InvStep DEF Next
    <3>6. LeaveInOrder(sent, queue', line, n)
      BY <1>1, <1>11, <3>1, <3>2, <3>3, <3>4, PushInOrder
    <3>7. Balance(Cardinality(CameIn) + 1, Len(sent) + txDrops, queue', drops'["frames"])
      <4>1. Len(sent) + txDrops \in Nat
        BY <1>1, LenProperties
      <4> QED BY <1>1, <2>4, <3>1, <3>2, <4>1, PushBalance
    <3>8. AccountOK'
      BY <1>1, <1>2, <2>1, <2>4, <2>5, <3>6, <3>7 DEF AccountOK
    <3> QED BY <1>7, <1>9, <2>2, <2>3, <3>5, <3>8 DEF RelayInv
  <2>6. CASE ~ GoodFrame(c)
    <3>1. UNCHANGED vars
      BY <1>2, <1>8, <1>14, <2>6
    <3>2. QueueInv'
      BY <1>1, <3>1, InvStep
    <3>3. LeaveInOrder(sent, queue, line, n)
      BY <1>1, <1>11, OrderNext
    <3>4. AccountOK'
      BY <1>1, <1>2, <2>1, <2>4, <2>6, <3>1, <3>3 DEF AccountOK, vars
    <3> QED BY <1>7, <1>9, <2>2, <2>3, <3>2, <3>4 DEF RelayInv
  <2> QED BY <2>5, <2>6
<1> QED BY <1>13, <1>14

\* Nothing came in yet.
LEMMA RelayInitInv == RelayInit => RelayInv
<1> SUFFICES ASSUME RelayInit PROVE RelayInv
  OBVIOUS
<1>1. /\ AsmInit /\ Init /\ rx = <<>> /\ txDrops = 0 /\ sent = <<>>
      /\ line \in Lines /\ arrived = 0 /\ fed = 0 /\ ended = 0
  BY DEF RelayInit
<1>2. AsmOK
  BY <1>1, EmptySeq DEF AsmInit, AsmOK, ASMStatus
<1>3. QueueInv
  BY <1>1, InitInv
<1>4. line.bytes \in Seq(Byte) /\ line.ends \in Seq(1..Len(line.bytes))
      /\ Len(line.bytes) \in Nat /\ Len(line.ends) \in Nat /\ DOMAIN line.ends = 1..Len(line.ends)
  BY <1>1, RelayAssumption, LenProperties
<1>5. Begin(line, 1) = 0
  BY DEF Begin
<1>6. PlaceOK
  <2>1. 0 < Len(line.ends) => 0 < line.ends[1]
    <3>1. 0 < Len(line.ends) => 1 \in DOMAIN line.ends
      BY <1>4
    <3> QED BY <1>1, <1>5, <3>1, LineFacts
  <2> QED BY <1>1, <1>4, <1>5, <2>1 DEF PlaceOK
<1>7. InStep
  <2>1. \A s : SubSeq(s, 1, 0) = <<>>
    BY SubSeqEmpty
  <2> QED BY <1>1, <1>5, <2>1 DEF InStep, Collected, AsmInit
<1>8. rx \in Seq(Byte) /\ Holds(rx, line, fed, arrived)
  <2>1. (0 + 1)..0 = {} /\ Len(rx) = 0 /\ 1..0 = {}
    BY <1>1, EmptySeq
  <2>2. [k \in {} |-> 0] \in [{} -> 1..Len(rx)]
    OBVIOUS
  <2>3. Carries([k \in {} |-> 0], rx, line, 0, 0)
    BY <2>1, <2>2 DEF Carries
  <2> QED BY <1>1, <2>1, <2>2, <2>3, EmptySeq DEF Holds
<1>9. AccountOK
  <2>1. CameIn = {} /\ Cardinality(CameIn) = 0
    <3>1. CameIn = {}
      BY <1>1 DEF CameIn
    <3> QED BY <3>1, FS_EmptySet
  <2>2. queue = <<>> /\ drops["frames"] = 0 /\ Len(queue) = 0 /\ Len(sent) = 0
    BY <1>1, EmptySeq DEF Init, DropFields
  <2>3. Balance(Cardinality(CameIn), Len(sent) + txDrops, queue, drops["frames"])
    BY <1>1, <2>1, <2>2 DEF Balance
  <2>4. LeaveInOrder(sent, queue, line, ended)
    BY <2>2 DEF LeaveInOrder
  <2> QED BY <1>1, <2>3, <2>4, EmptySeq DEF AccountOK
<1> QED BY <1>2, <1>3, <1>6, <1>7, <1>8, <1>9 DEF RelayInv

\* Every step of the relay and of its surroundings keeps the invariant.
LEMMA RelayStep == RelayInv /\ [RelayNext]_allVars => RelayInv'
<1>1. RelayInv /\ (EndRead \/ SinkNothing \/ Drain \/ UNCHANGED allVars) => RelayInv'
  BY OtherInv DEF EndRead, SinkNothing, Drain, allVars, relayVars
<1> QED BY <1>1, ArriveInv, TypeInv, ToggleInv, ReadInv, SinkInv DEF RelayNext, Loop

\* It holds in every state of the relay.
LEMMA RelayAlways == RelaySpec => []RelayInv
BY RelayInitInv, RelayStep, PTL DEF RelaySpec

\* No frame that came in whole is lost unseen: it was written, is queued, or is counted
\* by push() or by sinkHead(), for any output and queue, whatever is evicted, replaced or
\* thrown away; the counters may wrap.  The line is one of RelayAssumption: it holds no
\* byte 't', of which loop() takes every one for a command (FrameQueueStats.ino:53).
THEOREM FramesSeen == RelaySpec => []NoneLostUnseen
<1>1. RelayInv => NoneLostUnseen
  <2> SUFFICES ASSUME RelayInv PROVE NoneLostUnseen
    OBVIOUS
  <2>1. /\ sent \in Seq(Frames) /\ txDrops \in Nat /\ queue \in Seq(Slots)
        /\ drops \in [DropFields -> 0..(CounterMod - 1)] /\ "frames" \in DropFields
        /\ Balance(Cardinality(CameIn), Len(sent) + txDrops, queue, drops["frames"])
    BY DEF RelayInv, AccountOK, QueueInv, TypeOK, DropFields
  <2>2. Len(sent) \in Nat /\ Len(queue) \in Nat /\ drops["frames"] \in Nat
    BY <2>1, LenProperties, SizesAssumption
  <2>3. Len(sent) + txDrops + Len(queue) + drops["frames"]
          = Len(sent) + Len(queue) + txDrops + drops["frames"]
    BY <2>1, <2>2
  <2> QED BY <2>1, <2>3 DEF Balance, NoneLostUnseen
<1> QED BY <1>1, RelayAlways, PTL

\* A place in a concatenation is in one part or in the other.
LEMMA InEitherPart ==
  ASSUME NEW a \in Nat, NEW b \in Nat
  PROVE  /\ \A k \in 1..(a + b) : k <= a => k \in 1..a
         /\ \A k \in 1..(a + b) : ~ (k <= a) => k - a \in 1..b
<1>1. ASSUME NEW k \in 1..(a + b), k <= a PROVE k \in 1..a
  BY <1>1
<1>2. ASSUME NEW k \in 1..(a + b), ~ (k <= a) PROVE k - a \in 1..b
  <2>1. k \in Nat /\ k <= a + b /\ a < k
    BY <1>2
  <2>2. k - a \in Nat /\ 1 <= k - a /\ k - a <= b
    BY <2>1
  <2> QED BY <2>2
<1> QED BY <1>1, <1>2

\* Frames leave the relay as they came, none twice, and in order but for protected
\* ones, with commands typed in mid-frame, noise and damage on the line.
THEOREM OrderKept == RelaySpec => []SentInOrder
<1>1. RelayInv => SentInOrder
  <2> SUFFICES ASSUME RelayInv PROVE SentInOrder
    OBVIOUS
  <2> DEFINE t == [k \in DOMAIN queue |-> queue[k].frame]
             S == Len(sent)
             N == Len(queue)
  <2>1. /\ sent \in Seq(Frames) /\ queue \in Seq(Slots)
        /\ LeaveInOrder(sent, queue, line, ended)
    BY DEF RelayInv, AccountOK, QueueInv, TypeOK
  <2>2. S \in Nat /\ N \in Nat /\ DOMAIN queue = 1..N
    BY <2>1, LenProperties
  <2>3. t \in Seq(Frames) /\ Len(t) = N /\ \A k \in 1..N : t[k] = queue[k].frame
    <3>1. \A k \in 1..N : queue[k].frame \in Frames
      <4>1. \A k \in 1..N : queue[k] \in Slots
        BY <2>1, <2>2, ElementOfSeq
      <4> QED BY <4>1 DEF Slots
    <3>2. t \in [1..N -> Frames]
      BY <2>2, <3>1
    <3> HIDE DEF N, t
    <3>3. t \in Seq(Frames) /\ Len(t) = N
      BY <2>2, <3>2
    <3> QED BY <2>2, <3>3 DEF t
  <2>4. Leaving = sent \o t
    BY DEF Leaving
  <2> HIDE DEF t
  <2>5. /\ Len(sent \o t) = S + N /\ DOMAIN (sent \o t) = 1..(S + N)
        /\ \A k \in 1..(S + N) : (sent \o t)[k] = IF k <= S THEN sent[k] ELSE t[k - S]
    <3>1. /\ sent \o t \in Seq(Frames) /\ Len(sent \o t) = S + Len(t)
          /\ \A k \in 1..(S + Len(t)) : (sent \o t)[k] = IF k <= S THEN sent[k] ELSE t[k - S]
      BY Zenon, <2>1, <2>3, ConcatProperties
    <3>2. DOMAIN (sent \o t) = 1..Len(sent \o t)
      BY <3>1, LenProperties
    <3> QED BY <2>3, <3>1, <3>2
  <2>6. /\ \A k \in 1..S : Genuine(sent[k], line, ended)
        /\ \A k \in 1..N : Genuine(queue[k].frame, line, ended)
        /\ \A k, m \in 1..S : k < m => Before(sent[k], sent[m])
        /\ \A k \in 1..S, m \in 1..N : Before(sent[k], queue[m].frame)
        /\ \A k, m \in 1..N : k < m => Before(queue[k].frame, queue[m].frame)
    BY <2>1 DEF LeaveInOrder
  <2> HIDE DEF S, N
  <2>7. \A k \in 1..(S + N) : \/ k \in 1..S /\ Leaving[k] = sent[k]
                              \/ k - S \in 1..N /\ Leaving[k] = queue[k - S].frame /\ ~ (k <= S)
    <3>1. /\ \A k \in 1..(S + N) : k <= S => k \in 1..S
          /\ \A k \in 1..(S + N) : ~ (k <= S) => k - S \in 1..N
      BY <2>2, InEitherPart
    <3> QED BY <2>3, <2>4, <2>5, <3>1
  <2>8. \A k \in 1..(S + N) : Genuine(Leaving[k], line, ended)
    BY <2>6, <2>7
  <2>9. ASSUME NEW k \in 1..(S + N), NEW m \in 1..(S + N), k < m PROVE Before(Leaving[k], Leaving[m])
    <3>1. CASE k \in 1..S /\ m \in 1..S /\ Leaving[k] = sent[k] /\ Leaving[m] = sent[m]
      BY <2>6, <2>9, <3>1
    <3>2. CASE k \in 1..S /\ Leaving[k] = sent[k] /\ m - S \in 1..N /\ Leaving[m] = queue[m - S].frame
      BY <2>6, <3>2
    <3>3. CASE /\ k - S \in 1..N /\ Leaving[k] = queue[k - S].frame
               /\ m - S \in 1..N /\ Leaving[m] = queue[m - S].frame
      <4>1. k - S < m - S
        BY <2>2, <2>9
      <4> QED BY <2>6, <3>3, <4>1
    <3>4. ~ (~ (k <= S) /\ m \in 1..S)
      BY <2>2, <2>9
    <3> QED BY <2>7, <3>1, <3>2, <3>3, <3>4
  <2>10. DOMAIN Leaving = 1..(S + N)
    BY <2>4, <2>5
  <2> QED BY <2>8, <2>9, <2>10 DEF SentInOrder, Genuine, Before, CameIn
<1> QED BY <1>1, RelayAlways, PTL

=============================================================================
