-------------------------- MODULE FrameQueueLedger --------------------------
(***************************************************************************)
(* FrameQueue with the history of what became of every frame pushed.  The  *)
(* drop counters and the unhealthy flag are all a caller ever learns of a  *)
(* lost frame, so they are compared with that history.                     *)
(***************************************************************************)
EXTENDS FrameQueue

CONSTANT MaxPushes  \* bound on the frames pushed

ASSUME LedgerAssumption == MaxPushes \in Nat /\ CounterMod > MaxPushes

VARIABLES
  offered, pulled, cleared,  \* frames pushed, pulled, and dropped by clear()
  forgotten,                 \* drops forgotten by resetDrops()
  lost                       \* frames lost to pushes since the window was last emptied

ledger == <<offered, pulled, cleared, forgotten, lost>>

LedgerPush(f) ==
  /\ offered < MaxPushes
  /\ Push(f)
  /\ offered' = offered + 1
  /\ lost' = lost + Len(queue) + 1 - Len(queue')
       - (drops'["byReplacedProtected"] - drops["byReplacedProtected"])
  /\ UNCHANGED <<pulled, cleared, forgotten>>

LedgerPull(w) ==
  Pull(w) /\ pulled' = pulled + 1 /\ UNCHANGED <<offered, cleared, forgotten, lost>>

LedgerClear ==
  Clear /\ cleared' = cleared + Len(queue) /\ UNCHANGED <<offered, pulled, forgotten, lost>>

LedgerResetDrops ==
  /\ ResetDrops /\ forgotten' = forgotten + drops["frames"]
  /\ UNCHANGED <<offered, pulled, cleared, lost>>

LedgerEmptyWindow ==
  /\ ClearUnhealthy \/ \E c \in Configs : SetConfig(c)
  /\ lost' = 0
  /\ UNCHANGED <<offered, pulled, cleared, forgotten>>

LedgerInit ==
  /\ Init
  /\ offered = 0 /\ pulled = 0 /\ cleared = 0 /\ forgotten = 0 /\ lost = 0

LedgerNext ==
  \/ \E f \in Frames : LedgerPush(f)
  \/ \E w \in Writable : LedgerPull(w)
  \/ LedgerClear
  \/ LedgerResetDrops
  \/ LedgerEmptyWindow

LedgerSpec == LedgerInit /\ [][LedgerNext]_<<vars, ledger>>

-----------------------------------------------------------------------------
(* Properties                                                                *)

\* Every frame pushed is queued, was pulled, cleared, or is in the drop counter;
\* and the counter is the sum of its reasons: nothing is lost unseen or twice.
FramesAccounted ==
  /\ offered = Len(queue) + pulled + cleared + forgotten + drops["frames"]
  /\ drops["frames"] = drops["byOversize"] + drops["byQueueFull"] + drops["byMsmEpoch"]
                       + drops["byProtectedKept"] + drops["byReplacedProtected"]

\* unhealthy() is raised only after at least dropThreshold frames were lost since
\* the window was last emptied.
UnhealthyIsEarned == Unhealthy => lost >= cfg.dropThreshold

\* A push is sampled as a drop exactly when it adds to unhealthyDropFrames(): the
\* polled flag and the polled count tell of the same pushes.
SampleMatchesCounter ==
  [][offered' # offered =>
       (window'[Len(window')] <=> UnhealthyDropFrames' > UnhealthyDropFrames)]_<<vars, ledger>>

\* A frame is refused for want of room only while no MSM epoch is left to evict,
\* a protected one only by a queue of frames that are not MSM either.
RefusalIsLastResort ==
  [][\/ drops'["byQueueFull"] + drops'["byProtectedKept"]
          <= drops["byQueueFull"] + drops["byProtectedKept"]
     \/ /\ Len(queue) = Depth /\ queue' = queue
        /\ \A i \in DOMAIN queue : ~ IsMsm(queue[i].frame.type)]_<<vars, ledger>>

=============================================================================
