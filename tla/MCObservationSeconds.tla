------------------------ MODULE MCObservationSeconds ------------------------
(* Three constellations over four seconds, with one protected type. *)
EXTENDS ObservationSeconds

Frame(type, epoch) == [type |-> type, len |-> 25, epoch |-> epoch, second |-> epoch]

StationFrames ==
  {Frame(t, s) : t \in {1077, 1087, 1097}, s \in 1..MaxSecond} \cup {Frame(1005, 0)}

MCConfig == [windowN |-> 1, dropThreshold |-> 1]

ASSUME SteadyAssumption == Steady

=============================================================================
