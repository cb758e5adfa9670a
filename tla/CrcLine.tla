------------------------------- MODULE CrcLine -------------------------------
(***************************************************************************)
(* A frame sealed by appendCrc24q() crosses a line that may damage up to   *)
(* three consecutive bytes of it, seal included, and frameCrcOk() judges   *)
(* what arrives.  The sender runs the bit engine, the receiver both.       *)
(***************************************************************************)
EXTENDS Crc24q

CONSTANTS
  Bytes,     \* the bytes of the body
  Flips,     \* the bits a byte may lose or gain on the line
  MaxBody    \* bound on the length of the body

ASSUME LineAssumption ==
  /\ Bytes \subseteq BytePattern
  /\ Flips \subseteq BytePattern \ {{}}
  /\ MaxBody \in Nat

VARIABLES
  crossed,   \* bytes of the body that have crossed
  seal,      \* the sender's register
  bitCrc,    \* the receiver's, by crc24qBit()
  tableCrc,  \* and by crc24qTable()
  sealed,    \* bytes of the seal that have crossed
  got,       \* the seal as received
  first      \* history: the place of the first damaged byte, 0 for none

lineVars == <<crossed, seal, bitCrc, tableCrc, sealed, got, first>>

\* The damage a byte takes: a burst is over three bytes after it began.
MayTake(damage) ==
  \/ damage = {} /\ first' = first
  \/ /\ damage \in Flips
     /\ first # 0 => crossed + sealed + 1 < first + 3
     /\ first' = IF first = 0 THEN crossed + sealed + 1 ELSE first

BodyByte(b, damage) ==
  /\ sealed = 0 /\ crossed < MaxBody
  /\ MayTake(damage)
  /\ crossed' = crossed + 1
  /\ seal' = BitByte(seal, b)
  /\ bitCrc' = BitByte(bitCrc, SymDiff(b, damage))
  /\ tableCrc' = TableByte(tableCrc, SymDiff(b, damage))
  /\ UNCHANGED <<sealed, got>>

\* The header is three bytes: a frame has no shorter body.
SealByte(damage) ==
  /\ crossed >= 3 /\ sealed < 3
  /\ MayTake(damage)
  /\ sealed' = sealed + 1
  /\ got' = Loaded(got, sealed + 1, SymDiff(StoredByte(seal, sealed + 1), damage))
  /\ UNCHANGED <<crossed, seal, bitCrc, tableCrc>>

\* Mutant: only the first two bytes are compared.
FrameCrcOkShort == tableCrc \ (0..7) = got \ (0..7)

FrameCrcOk == tableCrc = got

LineInit ==
  /\ crossed = 0 /\ seal = {} /\ bitCrc = {} /\ tableCrc = {}
  /\ sealed = 0 /\ got = {} /\ first = 0

LineNext ==
  \E damage \in Flips \cup {{}} :
    \/ \E b \in Bytes : BodyByte(b, damage)
    \/ SealByte(damage)

LineSpec == LineInit /\ [][LineNext]_lineVars

-----------------------------------------------------------------------------
(* Properties                                                                *)

\* The two engines hold the same register after every byte, whatever came: a frame
\* sealed by a build with one passes in a build with the other.
EnginesAgree == bitCrc = tableCrc

\* A frame passes the check exactly when the line left it alone: no damage within
\* three consecutive bytes is taken for a good frame, in the body, in the seal or
\* across the two.
BurstsDetected == sealed = 3 => (FrameCrcOk <=> first = 0)

=============================================================================
