------------------------- MODULE ObservationSeconds -------------------------
(***************************************************************************)
(* A receiver feeding FrameQueue: each second it sends one MSM frame per   *)
(* constellation, in any order, with station messages in between.  This is *)
(* the stream assignBatch() is written for: "GPS+GLO+GAL+... of one second *)
(* drop together" (TinyRtcmFrameQueue.h:261).                              *)
(*                                                                         *)
(* A frame also names the second it belongs to, which its DF004 epoch      *)
(* stands for.                                                             *)
(***************************************************************************)
EXTENDS FrameQueue

CONSTANTS MaxSecond  \* bound on the seconds observed

ASSUME SecondsAssumption ==
  /\ MaxSecond \in Nat \ {0}
  /\ \A f \in Frames : f.second \in IF IsMsm(f.type) THEN 1..MaxSecond ELSE 0..MaxSecond

MsmOf(s) == {f \in Frames : IsMsm(f.type) /\ f.second = s}

StationTypes == {f.type : f \in {g \in Frames : ~ IsMsm(g.type)}}

\* The stream for which the queue keeps its promise.  Frames fit a slot; a second has
\* one MSM frame per constellation, an epoch apart from the second before, and no
\* constellation that the second before had not; the other messages are of the
\* protected types; and the queue has room for one second and all of these.
Steady ==
  /\ \A f \in Frames : Storable(f) /\ (IsMsm(f.type) \/ IsProtected(f.type))
  /\ \A s \in 1..MaxSecond :
       /\ MsmOf(s) # {} /\ IsFiniteSet(MsmOf(s))
       /\ \A f, g \in MsmOf(s) : Family(f) = Family(g) => f = g
       /\ \A f \in MsmOf(s) : s = 1 \/ \E g \in MsmOf(s - 1) :
            Family(f) = Family(g) /\ MsmEpoch30(f) # MsmEpoch30(g)
       /\ Cardinality(MsmOf(s)) <= FamilySlots
       /\ Cardinality(MsmOf(s)) + Cardinality(StationTypes) <= Depth

VARIABLES
  now,      \* the second being sent
  unsent,   \* its frames still to be sent
  broken    \* seconds that lost an MSM frame to a push

stream == <<now, unsent, broken>>

QueuedSeconds(q) == {q[i].frame.second : i \in {j \in DOMAIN q : q[j].batchId # 0}}

FramesIn(q) == {q[i].frame : i \in DOMAIN q}

\* The seconds of the MSM frames a push of f lost; a second's frames are distinct.
SecondsHit(f) ==
  {g.second : g \in {g \in (FramesIn(queue) \cup {f}) \ FramesIn(queue') : IsMsm(g.type)}}

SendMsm(f) ==
  /\ Push(f)
  /\ unsent' = unsent \ {f}
  /\ broken' = broken \cup SecondsHit(f)
  /\ UNCHANGED now

SendStation(f) ==
  /\ Push(f)
  /\ broken' = broken \cup SecondsHit(f)
  /\ UNCHANGED <<now, unsent>>

NextSecond ==
  /\ unsent = {} /\ now < MaxSecond
  /\ now' = now + 1 /\ unsent' = MsmOf(now + 1)
  /\ UNCHANGED <<vars, broken>>

Consume(w) == Pull(w) /\ UNCHANGED stream

StreamInit ==
  /\ Init
  /\ now = 1 /\ unsent = MsmOf(1) /\ broken = {}

StreamNext ==
  \/ \E f \in unsent : SendMsm(f)
  \/ \E f \in Frames : ~ IsMsm(f.type) /\ SendStation(f)
  \/ NextSecond
  \/ \E w \in Writable : Consume(w)

StreamSpec == StreamInit /\ [][StreamNext]_<<vars, stream>>

-----------------------------------------------------------------------------
(* Properties                                                                *)

\* No second is partly queued: one that lost a frame to an eviction has no other
\* frame in the queue, now or later.  (TinyRtcmRequirements.h:170, REQ-FQ-02:
\* "drop whole MSM epochs rather than a partial epoch".)
WholeSeconds == QueuedSeconds(queue) \cap broken = {}

\* While a second is being sent its frames are never evicted for one another or
\* for a station message: only seconds already complete are given up.
OpenSecondSurvives == now \notin broken

=============================================================================
