---------------------------- MODULE MCFrameQueue ----------------------------
(* A small instance of FrameQueue for TLC.                                   *)
EXTENDS FrameQueue

Frame(type, len, epoch) == [type |-> type, len |-> len, epoch |-> epoch]

\* Two protected types, one other, two constellations in two epochs, an MSM
\* frame too short for DF004, an empty and an oversize frame.
MCFrames ==
  {Frame(1005, 25, 0), Frame(1230, 14, 0), Frame(4072, 25, 0)}
    \cup {Frame(t, 25, e) : t \in {1077, 1087}, e \in {1, 2}}
    \cup {Frame(1087, 9, 2), Frame(1077, 0, 1), Frame(1077, 31, 1)}

MCConfig == [windowN |-> 2, dropThreshold |-> 2]

\* One configuration in range and one that setConfig() normalises.
MCConfigs == {[windowN |-> 1, dropThreshold |-> 1], [windowN |-> 3, dropThreshold |-> 0]}

=============================================================================
