----------------------------- MODULE FrameSync -----------------------------
(***************************************************************************)
(* FrameAssembler on a line that repeats the same frames for ever, joined  *)
(* at any byte and damaged a few times: does it find the frames again?     *)
(***************************************************************************)
EXTENDS FrameAssembler

CONSTANTS
  Frames,     \* the frames sent in turn, as a sequence
  Noise,      \* the bytes a damaged byte may become
  MaxDamage   \* bound on the bytes damaged

ASSUME SyncAssumption ==
  /\ Frames \in Seq(Seq(Byte))
  /\ \A i \in DOMAIN Frames : IsFrame(Frames[i]) /\ CrcOk(Frames[i])
  /\ Noise \subseteq Byte /\ MaxDamage \in Nat

VARIABLES
  at,         \* the frame and the byte of it that the line sends next
  damage      \* bytes damaged so far

syncVars == <<asmVars, at, damage>>

Positions == {p \in (DOMAIN Frames) \X (1..BufSize) : p[2] <= Len(Frames[p[1]])}

Sent == Frames[at[1]][at[2]]

Advance ==
  at' = IF at[2] < Len(Frames[at[1]]) THEN <<at[1], at[2] + 1>>
        ELSE <<(at[1] % Len(Frames)) + 1, 1>>

\* The callers of feed() pass a buffer as large as the assembler's own.
FeedSent == Feed(Sent, BufSize) /\ Advance /\ UNCHANGED damage

FeedDamaged ==
  /\ damage < MaxDamage
  /\ \E b \in Noise \ {Sent} : Feed(b, BufSize)
  /\ Advance
  /\ damage' = damage + 1

SyncInit == AsmInit /\ at \in Positions /\ damage = 0

SyncNext == FeedSent \/ FeedDamaged

\* The line goes on sending; damage may or may not come.
SyncSpec == SyncInit /\ [][SyncNext]_syncVars /\ WF_syncVars(SyncNext)

-----------------------------------------------------------------------------
(* Properties                                                                *)

\* In step with the line: the bytes collected are those of the frame being sent.
InStep == buf = SubSeq(Frames[at[1]], 1, at[2] - 1)

\* Out of step the assembler finds its way back, from any byte of the line and
\* after any damage, and then delivers every frame again and again.
FindsFrames == \A i \in DOMAIN Frames : []<>(status = "Ok" /\ out = Frames[i])

\* Once in step, only a damaged byte puts the assembler out of step.
StaysInStep == [][InStep => InStep' \/ damage' # damage]_syncVars

=============================================================================
