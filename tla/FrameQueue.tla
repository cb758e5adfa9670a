----------------------------- MODULE FrameQueue -----------------------------
(***************************************************************************)
(* The bounded queue of whole RTCM3 frames (src/src/TinyRtcmFrameQueue.h). *)
(*                                                                         *)
(* The queue is a sequence: queue[1] is the slot at head_, queue[i] the    *)
(* slot at indexOf(i - 1).  FrameRing shows that the ring of the code      *)
(* implements this sequence.  A frame is a record of the data push() looks *)
(* at: the message type, the length in bytes and the DF004 epoch.          *)
(*                                                                         *)
(* MSM frames carry the batch (observation epoch) they were stored under;  *)
(* batch 0 marks a frame of no epoch.  Under pressure whole batches are    *)
(* evicted, the oldest closed one first.                                   *)
(***************************************************************************)
EXTENDS Integers, Sequences, FiniteSets, FiniteSetsExt

CONSTANTS
  Depth,          \* slots of the queue
  MaxFrame,       \* bytes a slot can hold
  Frames,         \* the frames callers push
  MaxBatch,       \* largest batch number: 2^32 - 1 in the code
  FamilySlots,    \* kFamilySlots: constellations tracked in the open batch
  CounterMod,     \* drop counters wrap here: 2^32 in the code
  WindowCap,      \* kWindowCap: largest window of push samples
  DefaultConfig,  \* the initial FrameQueueConfig
  Configs,        \* configurations callers pass to setConfig
  Writable        \* byte budgets callers pass to pull

DropReasons == {"byOversize", "byQueueFull", "byMsmEpoch",
                "byProtectedKept", "byReplacedProtected"}
DropFields  == DropReasons \cup {"frames"}

Config == [windowN : 1..WindowCap, dropThreshold : 1..255]

AnyConfig == [windowN : 0..255, dropThreshold : 0..255]

\* The type takes twelve bits.
MessageTypes == 0..4095

\* The batch numbers must outnumber the slots, or two epochs in the queue could
\* share one; with 2^32 - 1 numbers and at most 64 slots they do.
ASSUME SizesAssumption ==
  /\ Depth \in Nat \ {0}
  /\ MaxFrame \in Nat \ {0}
  /\ MaxBatch \in Nat /\ MaxBatch > Depth
  /\ FamilySlots \in Nat \ {0}
  /\ CounterMod \in Nat \ {0}
  /\ WindowCap \in 1..255

ASSUME FramesAssumption ==
  \A f \in Frames : f.type \in MessageTypes /\ f.len \in Nat /\ f.epoch \in Nat

ASSUME ConfigsAssumption == DefaultConfig \in Config /\ Configs \subseteq AnyConfig

ASSUME WritableAssumption == Writable \subseteq Nat

VARIABLES
  queue,      \* slots_, head_, count_: the queued slots, head first
  openBatch,  \* openBatch_: the batch new MSM frames join
  fam,        \* fam_: the used entries, one per constellation seen in openBatch
  drops,      \* drops_: the counters by reason, and their total "frames"
  window,     \* window_ ...: TRUE for each of the last pushes that lost a frame
  cfg         \* cfg_

vars == <<queue, openBatch, fam, drops, window, cfg>>

-----------------------------------------------------------------------------
(* What push() reads from a frame                                            *)

IsProtected(type) == type \in {1005, 1006, 1230}

IsMsm(type) == type \in 1071..1137 /\ type % 10 \in 1..7

\* The constellation of an MSM type: 107 for GPS, 108 for GLONASS, ...
Family(f) == f.type \div 10

\* A frame too short for DF004 has epoch 0.
MsmEpoch30(f) == IF f.len < 10 THEN 0 ELSE f.epoch

FamEntry(f) == [family |-> Family(f), epoch |-> MsmEpoch30(f)]

Storable(f) == f.len \in 1..MaxFrame

NewSlot(f, b) == [frame |-> f, batchId |-> b]

Slots == [frame : {f \in Frames : Storable(f)}, batchId : 0..MaxBatch]

-----------------------------------------------------------------------------
(* Searching and evicting                                                    *)

SlotsOf(q, b) == {i \in DOMAIN q : q[i].batchId = b}

HasBatch(q, b) == b # 0 /\ SlotsOf(q, b) # {}

\* The MSM slots, those of the open batch left out when onlyClosed.
Evictable(q, open, onlyClosed) ==
  {i \in DOMAIN q : q[i].batchId # 0 /\ (onlyClosed => q[i].batchId # open)}

\* Mutant: the search runs from the tail.
NewestMsmBatch(q, open, onlyClosed) ==
  LET S == Evictable(q, open, onlyClosed)
  IN  IF S = {} THEN 0 ELSE q[Max(S)].batchId

\* The batch of the first evictable slot; 0 if there is none.
OldestMsmBatch(q, open, onlyClosed) ==
  LET S == Evictable(q, open, onlyClosed)
  IN  IF S = {} THEN 0 ELSE q[Min(S)].batchId

\* Mutant: a queue that holds only the open batch gives nothing up.
VictimOnlyClosed(q, open) == OldestMsmBatch(q, open, TRUE)

\* The batch given up for a frame that is not MSM: a closed one if there is any.
VictimBatch(q, open) ==
  LET closed == OldestMsmBatch(q, open, TRUE)
  IN  IF closed # 0 THEN closed ELSE OldestMsmBatch(q, open, FALSE)

\* Mutant: only the first frame of the batch is removed.
WithoutFirstOf(q, b) ==
  LET first == Min(SlotsOf(q, b))
  IN  [k \in 1..(Len(q) - 1) |-> IF k < first THEN q[k] ELSE q[k + 1]]

\* Mutant: whatever is at the head goes.
WithoutHead(q, b) == Tail(q)

Kept(q, b) == DOMAIN q \ SlotsOf(q, b)

\* How many members of S are below i.
Rank(S, i) == Cardinality({j \in S : j < i})

\* q without the slots of batch b, the others in their order: the k-th slot kept
\* is the one with k - 1 kept slots before it.
Without(q, b) ==
  [k \in 1..Cardinality(Kept(q, b)) |->
     q[CHOOSE i \in Kept(q, b) : Rank(Kept(q, b), i) = k - 1]]

-----------------------------------------------------------------------------
(* Batches                                                                   *)

\* Mutant: the number is one bit wide.
NextBatchOneBit(b) == IF b = 2 THEN 1 ELSE 2

NextBatch(b) == IF b = MaxBatch THEN 1 ELSE b + 1

\* Mutant: a changed epoch does not close the open batch.
ClosesOnlyFullTable(f) ==
  /\ \A r \in fam : r.family # Family(f)
  /\ Cardinality(fam) >= FamilySlots

\* assignBatch() closes the open batch when the constellation's epoch changed,
\* or when an unseen constellation finds no free entry.
ClosesOpenBatch(f) ==
  \/ \E r \in fam : r.family = Family(f) /\ r.epoch # MsmEpoch30(f)
  \/ /\ \A r \in fam : r.family # Family(f)
     /\ Cardinality(fam) >= FamilySlots

AssignedBatch(f) == IF ClosesOpenBatch(f) THEN NextBatch(openBatch) ELSE openBatch

\* Mutant: the entries of the closed batch stay used.
AssignedFamKept(f) == fam \cup {FamEntry(f)}

AssignedFam(f) == IF ClosesOpenBatch(f) THEN {FamEntry(f)} ELSE fam \cup {FamEntry(f)}

-----------------------------------------------------------------------------
(* Counters and the window of samples                                        *)

\* n drops for the reason: the total moves with it, and both wrap.
NoteDrop(reason, n) ==
  [drops EXCEPT !["frames"] = (@ + n) % CounterMod, ![reason] = (@ + n) % CounterMod]

\* The newest sample enters; the oldest leaves once windowN are held.
Sample(drop) ==
  window' = Append(IF Len(window) >= cfg.windowN THEN Tail(window) ELSE window, drop)

\* Mutant: replaced protected frames count as losses.
UnhealthyCountsReplaced == drops["frames"]

\* The total, less the replaced protected frames, which lose nothing.
UnhealthyDropFrames ==
  IF drops["frames"] < drops["byReplacedProtected"] THEN 0
  ELSE drops["frames"] - drops["byReplacedProtected"]

Unhealthy ==
  /\ window # <<>>
  /\ Cardinality({i \in DOMAIN window : window[i]}) >= cfg.dropThreshold

-----------------------------------------------------------------------------
(* push()                                                                    *)

PushOversize(f) ==
  /\ ~ Storable(f)
  /\ drops' = NoteDrop("byOversize", 1)
  /\ Sample(TRUE)
  /\ UNCHANGED <<queue, openBatch, fam, cfg>>

\* Mutant: the replaced frame is sampled as a loss.
ReplaceSampledAsLoss(f) ==
  /\ \E i \in DOMAIN queue :
       /\ queue[i].frame.type = f.type
       /\ \A j \in 1..(i - 1) : queue[j].frame.type # f.type
       /\ queue' = [queue EXCEPT ![i] = NewSlot(f, 0)]
  /\ drops' = NoteDrop("byReplacedProtected", 1)
  /\ Sample(TRUE)
  /\ UNCHANGED <<openBatch, fam, cfg>>

\* A protected type already queued: its first slot is overwritten in place.
ReplaceProtected(f) ==
  /\ \E i \in DOMAIN queue :
       /\ queue[i].frame.type = f.type
       /\ \A j \in 1..(i - 1) : queue[j].frame.type # f.type
       /\ queue' = [queue EXCEPT ![i] = NewSlot(f, 0)]
  /\ drops' = NoteDrop("byReplacedProtected", 1)
  /\ Sample(FALSE)
  /\ UNCHANGED <<openBatch, fam, cfg>>

StorePlain(f) ==
  /\ Len(queue) < Depth
  /\ queue' = Append(queue, NewSlot(f, 0))
  /\ Sample(FALSE)
  /\ UNCHANGED <<openBatch, fam, drops, cfg>>

\* Mutant: one drop is noted for the whole batch.
EvictNotingOnce(f) ==
  LET victim == VictimBatch(queue, openBatch)
  IN  /\ Len(queue) >= Depth
      /\ victim # 0
      /\ queue' = Append(Without(queue, victim), NewSlot(f, 0))
      /\ drops' = NoteDrop("byMsmEpoch", 1)
      /\ IF victim = openBatch
         THEN openBatch' = NextBatch(openBatch) /\ fam' = {}
         ELSE UNCHANGED <<openBatch, fam>>
      /\ Sample(TRUE)
      /\ UNCHANGED cfg

\* dropBatch() of the victim frees at least one slot, so the code's second test
\* of count_ < Depth, and the loop of pushProtected, end after one batch.
EvictForPlain(f) ==
  LET victim == VictimBatch(queue, openBatch)
  IN  /\ Len(queue) >= Depth
      /\ victim # 0
      /\ queue' = Append(Without(queue, victim), NewSlot(f, 0))
      /\ drops' = NoteDrop("byMsmEpoch", Cardinality(SlotsOf(queue, victim)))
      /\ IF victim = openBatch
         THEN openBatch' = NextBatch(openBatch) /\ fam' = {}
         ELSE UNCHANGED <<openBatch, fam>>
      /\ Sample(TRUE)
      /\ UNCHANGED cfg

RefusePlain(reason) ==
  /\ Len(queue) >= Depth
  /\ VictimBatch(queue, openBatch) = 0
  /\ drops' = NoteDrop(reason, 1)
  /\ Sample(TRUE)
  /\ UNCHANGED <<queue, openBatch, fam, cfg>>

IsQueued(type) == \E i \in DOMAIN queue : queue[i].frame.type = type

\* Mutant: the search for a queued copy is left out.
PushProtectedTwice(f) ==
  /\ Storable(f) /\ IsProtected(f.type)
  /\ StorePlain(f) \/ EvictForPlain(f) \/ RefusePlain("byProtectedKept")

PushProtected(f) ==
  /\ Storable(f) /\ IsProtected(f.type)
  /\ \/ ReplaceProtected(f)
     \/ /\ ~ IsQueued(f.type)
        /\ StorePlain(f) \/ EvictForPlain(f) \/ RefusePlain("byProtectedKept")

PushOther(f) ==
  /\ Storable(f) /\ ~ IsProtected(f.type) /\ ~ IsMsm(f.type)
  /\ StorePlain(f) \/ EvictForPlain(f) \/ RefusePlain("byQueueFull")

StoreMsm(f) ==
  /\ Len(queue) < Depth
  /\ queue' = Append(queue, NewSlot(f, AssignedBatch(f)))
  /\ openBatch' = AssignedBatch(f) /\ fam' = AssignedFam(f)
  /\ Sample(FALSE)
  /\ UNCHANGED <<drops, cfg>>

\* Mutant: the last slot counts as none.
EvictForMsmEarly(f) ==
  LET batch == AssignedBatch(f)
      older == OldestMsmBatch(queue, batch, TRUE)
  IN  /\ Len(queue) >= Depth - 1
      /\ older # 0
      /\ queue' = Append(Without(queue, older), NewSlot(f, batch))
      /\ drops' = NoteDrop("byMsmEpoch", Cardinality(SlotsOf(queue, older)))
      /\ openBatch' = batch /\ fam' = AssignedFam(f)
      /\ Sample(TRUE)
      /\ UNCHANGED cfg

EvictForMsm(f) ==
  LET batch == AssignedBatch(f)
      older == OldestMsmBatch(queue, batch, TRUE)
  IN  /\ Len(queue) >= Depth
      /\ older # 0
      /\ queue' = Append(Without(queue, older), NewSlot(f, batch))
      /\ drops' = NoteDrop("byMsmEpoch", Cardinality(SlotsOf(queue, older)))
      /\ openBatch' = batch /\ fam' = AssignedFam(f)
      /\ Sample(TRUE)
      /\ UNCHANGED cfg

\* Only the frame's own epoch could make room: that epoch goes, the frame with it.
DropOpenEpoch(f) ==
  LET batch == AssignedBatch(f)
  IN  /\ Len(queue) >= Depth
      /\ OldestMsmBatch(queue, batch, TRUE) = 0
      /\ HasBatch(queue, batch)
      /\ queue' = Without(queue, batch)
      /\ drops' = NoteDrop("byMsmEpoch", Cardinality(SlotsOf(queue, batch)) + 1)
      /\ openBatch' = NextBatch(batch) /\ fam' = {}
      /\ Sample(TRUE)
      /\ UNCHANGED cfg

\* The batch assigned to the refused frame stays assigned.
RefuseMsm(f) ==
  /\ Len(queue) >= Depth
  /\ OldestMsmBatch(queue, AssignedBatch(f), TRUE) = 0
  /\ ~ HasBatch(queue, AssignedBatch(f))
  /\ openBatch' = AssignedBatch(f) /\ fam' = AssignedFam(f)
  /\ drops' = NoteDrop("byQueueFull", 1)
  /\ Sample(TRUE)
  /\ UNCHANGED <<queue, cfg>>

PushMsm(f) ==
  /\ Storable(f) /\ IsMsm(f.type)
  /\ StoreMsm(f) \/ EvictForMsm(f) \/ DropOpenEpoch(f) \/ RefuseMsm(f)

Push(f) == PushOversize(f) \/ PushProtected(f) \/ PushMsm(f) \/ PushOther(f)

-----------------------------------------------------------------------------
(* The other operations                                                      *)

\* A head frame longer than the budget stays queued: pull() returns 0.
Pull(writable) ==
  /\ queue # <<>>
  /\ Head(queue).frame.len <= writable
  /\ queue' = Tail(queue)
  /\ UNCHANGED <<openBatch, fam, drops, window, cfg>>

Clear ==
  /\ queue' = <<>> /\ openBatch' = 1 /\ fam' = {}
  /\ UNCHANGED <<drops, window, cfg>>

ResetDrops ==
  /\ drops' = [x \in DropFields |-> 0]
  /\ UNCHANGED <<queue, openBatch, fam, window, cfg>>

ClearUnhealthy ==
  /\ window' = <<>>
  /\ UNCHANGED <<queue, openBatch, fam, drops, cfg>>

\* A window of 0 or beyond the cap becomes the cap, a threshold of 0 becomes 1.
Normalised(c) ==
  [windowN       |-> IF c.windowN \in 1..WindowCap THEN c.windowN ELSE WindowCap,
   dropThreshold |-> IF c.dropThreshold = 0 THEN 1 ELSE c.dropThreshold]

SetConfig(c) ==
  /\ cfg' = Normalised(c)
  /\ window' = <<>>
  /\ UNCHANGED <<queue, openBatch, fam, drops>>

Init ==
  /\ queue = <<>> /\ openBatch = 1 /\ fam = {}
  /\ drops = [x \in DropFields |-> 0]
  /\ window = <<>> /\ cfg = DefaultConfig

Next ==
  \/ \E f \in Frames : Push(f)
  \/ \E w \in Writable : Pull(w)
  \/ Clear
  \/ ResetDrops
  \/ ClearUnhealthy
  \/ \E c \in Configs : SetConfig(c)

Spec == Init /\ [][Next]_vars

-----------------------------------------------------------------------------
(* Properties                                                                *)

\* Every variable has its type; in particular no batch is ever numbered 0 and
\* the queue never outgrows the slots.
TypeOK ==
  /\ queue \in Seq(Slots) /\ Len(queue) <= Depth
  /\ openBatch \in 1..MaxBatch
  /\ fam \subseteq [family : Nat, epoch : Nat]
  /\ drops \in [DropFields -> 0..(CounterMod - 1)]
  /\ window \in Seq(BOOLEAN) /\ Len(window) <= cfg.windowN
  /\ cfg \in Config

\* How many batches were opened from b to open, the numbers wrapping past MaxBatch.
AgeIn(open, b) == IF b <= open THEN open - b ELSE open - b + MaxBatch

MsmMarkedIn(q) == \A i \in DOMAIN q : q[i].batchId # 0 <=> IsMsm(q[i].frame.type)

RegisteredIn(q, open, entries) ==
  \A i \in DOMAIN q : q[i].batchId = open => FamEntry(q[i].frame) \in entries

KeyedByFamily(entries) == \A r, s \in entries : r.family = s.family => r = s

OrderedIn(q, open) ==
  \A i, j \in DOMAIN q :
    (i < j /\ q[i].batchId # 0 /\ q[j].batchId # 0)
      => AgeIn(open, q[i].batchId) >= AgeIn(open, q[j].batchId)

AgedIn(q, open, slack) ==
  \A i \in DOMAIN q :
    q[i].batchId # 0 => AgeIn(open, q[i].batchId) <= Len(q) - i + slack

OneEpochIn(q) ==
  \A i, j \in DOMAIN q :
    (/\ q[i].batchId # 0 /\ q[i].batchId = q[j].batchId
     /\ Family(q[i].frame) = Family(q[j].frame))
      => MsmEpoch30(q[i].frame) = MsmEpoch30(q[j].frame)

ProtectedOnceIn(q) ==
  \A i, j \in DOMAIN q :
    (IsProtected(q[i].frame.type) /\ q[i].frame.type = q[j].frame.type) => i = j

\* Batches lie in the queue in the order they were opened, oldest first, so the
\* first closed batch oldestMsmBatch() meets is the oldest epoch held.
EpochsInOrder == OrderedIn(queue, openBatch)

\* A queued batch is no older than the number of slots behind it: the 32-bit
\* openBatch_ may wrap any number of times and never meets a batch still queued.
NoBatchReuse == AgedIn(queue, openBatch, 0)

\* The frames one batch holds for one constellation are of one observation
\* epoch: assignBatch() separates the epochs it groups.
OneEpochPerBatch == OneEpochIn(queue)

\* A protected type is queued at most once, whatever is evicted around it.
ProtectedOnce == ProtectedOnceIn(queue)

\* A frame has a batch exactly when it is MSM; fam_ holds every constellation of
\* the open batch's frames, once and with their epoch; and the four above, slack
\* being the batches opened since the last frame was stored.
SlotsInv(q, open, entries, slack) ==
  /\ MsmMarkedIn(q) /\ RegisteredIn(q, open, entries) /\ KeyedByFamily(entries)
  /\ OrderedIn(q, open) /\ AgedIn(q, open, slack)
  /\ OneEpochIn(q) /\ ProtectedOnceIn(q)

\* dropBatch() can only ever take MSM frames, and a constellation that is queued
\* in the open batch is never mistaken for an unseen one.  With the four above,
\* inductive: this is what push() relies on at every call.
QueueInv == TypeOK /\ SlotsInv(queue, openBatch, fam, 0)

Pulled  == queue # <<>> /\ queue' = Tail(queue)
Cleared == queue' = <<>>

\* A queued protected type leaves the queue only through pull() from the head or
\* through clear(): no push, of whatever frame, costs a 1005, 1006 or 1230.
ProtectedStays ==
  [][\A i \in DOMAIN queue :
       IsProtected(queue[i].frame.type)
         => \/ \E k \in DOMAIN queue' : queue'[k].frame.type = queue[i].frame.type
            \/ Pulled /\ i = 1
            \/ Cleared]_vars

\* A push takes all queued frames of a batch or none: no epoch is left half in
\* the queue by an eviction.
WholeBatches ==
  [][Pulled \/ \A b \in 1..MaxBatch :
       \/ ~ HasBatch(queue', b)
       \/ Cardinality(SlotsOf(queue', b)) >= Cardinality(SlotsOf(queue, b))]_vars

\* Eviction takes the older epoch: a batch outlives no batch queued behind it,
\* and the open batch goes only when it is the only one.
OldestEpochFirst ==
  [][\A i, j \in DOMAIN queue :
       (i < j /\ queue[j].batchId # 0 /\ HasBatch(queue', queue[i].batchId))
         => HasBatch(queue', queue[j].batchId) \/ Pulled]_vars

\* A push loses queued frames only under pressure, and only to the epoch it
\* evicts: with a free slot every queued frame stays, in its place.
LossOnlyWhenFull ==
  [][Pulled \/ Cleared \/ Len(queue) = Depth
       \/ /\ Len(queue') >= Len(queue)
          /\ \A i \in DOMAIN queue :
               \/ queue'[i] = queue[i]
               \/ /\ IsProtected(queue[i].frame.type)
                  /\ queue'[i].frame.type = queue[i].frame.type]_vars

=============================================================================
