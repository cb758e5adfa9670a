---------------------------- MODULE MCMsmSummary ----------------------------
(* Two satellites of two signals for TLC, at 19 and 45 dB-Hz.                *)
EXTENDS MsmSummary

MCPublishArp == <<0, 0, 0>>

MCSeal(bits) == Bits(0, 24)

MCLevels == [t \in {1074, 1077} |-> IF t = 1074 THEN {19, 45} ELSE {16 * 19, 16 * 45}]

=============================================================================
