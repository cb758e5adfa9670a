------------------------- MODULE MCFrameQueueLedger -------------------------
(* A small instance of FrameQueueLedger for TLC.                             *)
EXTENDS FrameQueueLedger

Frame(type, len, epoch) == [type |-> type, len |-> len, epoch |-> epoch]

MCFrames ==
  {Frame(1005, 25, 0), Frame(4072, 25, 0), Frame(1087, 25, 1), Frame(1077, 31, 1)}
    \cup {Frame(1077, 25, e) : e \in {1, 2}}

MCConfig  == [windowN |-> 3, dropThreshold |-> 2]
MCConfigs == {[windowN |-> 2, dropThreshold |-> 1]}

=============================================================================
