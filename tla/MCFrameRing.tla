---------------------------- MODULE MCFrameRing -----------------------------
(* A small instance of FrameRing for TLC.                                    *)
EXTENDS FrameRing

Frame(type, len, epoch) == [type |-> type, len |-> len, epoch |-> epoch]

\* Lengths differ modulo the byte counter, so that a wrong length is noticed.
MCFrames ==
  {Frame(1005, 25, 0), Frame(4072, 26, 0), Frame(1077, 31, 1)}
    \cup {Frame(1077, 24 + e, e) : e \in {1, 2}}

MCConfig == [windowN |-> 2, dropThreshold |-> 2]

MCConfigs == {[windowN |-> 1, dropThreshold |-> 0]}

=============================================================================
