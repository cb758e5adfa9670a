----------------------------- MODULE FrameRing ------------------------------
(***************************************************************************)
(* FrameQueue as the code stores it: Depth slots, head_ and count_, frames *)
(* removed by shifting the ring one slot at a time, batches by scanning    *)
(* it, and the bytes of what was dropped.  Its steps are those of the      *)
(* sequence in FrameQueue, which Queue!Spec states as a property.          *)
(*                                                                         *)
(* The object's members that move together are one record, and the private *)
(* methods are operators from that record to the one they leave behind.    *)
(***************************************************************************)
EXTENDS Integers, Sequences, FiniteSets

CONSTANTS Depth, MaxFrame, Frames, MaxBatch, FamilySlots, CounterMod, WindowCap,
          DefaultConfig, Configs, Writable,
          ByteMod   \* drops_.bytes wraps here: 2^32 in the code


VARIABLES
  ring,     \* slots_, head_, count_, openBatch_, fam_, drops_ and its bytes
  windowRing, windowHead, windowCount, windowDrops,  \* window_ ...: see DropWindow
  window,   \* ghost: the samples as the sequence FrameQueue keeps
  cfg,
  balance   \* ghost: bytes offered, less those pulled or cleared (modulo ByteMod)

cells == <<windowRing, windowHead, windowCount, windowDrops>>

vars == <<ring, cells, window, cfg, balance>>

IndexOf(r, logical) == (r.head + logical) % Depth

At(r, logical) == r.slots[IndexOf(r, logical)]

Logical(r) == [i \in 1..r.count |-> At(r, i - 1)]

Queue == INSTANCE FrameQueue
           WITH queue <- Logical(ring), openBatch <- ring.openBatch,
                fam <- ring.fam, drops <- ring.drops

Samples == INSTANCE DropWindow
             WITH recent <- window, windowN <- cfg.windowN, dropThreshold <- cfg.dropThreshold

\* What FrameQueue assumes of the sizes and inputs, and a modulus for the bytes.
ASSUME RingAssumption ==
  /\ Queue!SizesAssumption /\ Queue!FramesAssumption
  /\ Queue!ConfigsAssumption /\ Queue!WritableAssumption
  /\ ByteMod \in Nat \ {0}

\* Never read before it is written; count_ says what is.
EmptySlot == Queue!NewSlot([type |-> 0, len |-> 0, epoch |-> 0], 0)

-----------------------------------------------------------------------------
(* Private methods                                                           *)

NoteDrop(r, len, reason) ==
  [r EXCEPT !.drops["frames"] = (@ + 1) % CounterMod,
            !.drops[reason] = (@ + 1) % CounterMod,
            !.bytes = (@ + len) % ByteMod]

CopyInto(r, logical, f, b) == [r EXCEPT !.slots[IndexOf(r, logical)] = Queue!NewSlot(f, b)]

PushBack(r, f, b) == [CopyInto(r, r.count, f, b) EXCEPT !.count = @ + 1]

First(r, Test(_)) ==
  {i \in 0..(r.count - 1) : Test(At(r, i)) /\ \A j \in 0..(i - 1) : ~ Test(At(r, j))}

HasBatch(r, b) == b # 0 /\ \E i \in 0..(r.count - 1) : At(r, i).batchId = b

OldestMsmBatch(r, onlyClosed) ==
  LET Found(s) == s.batchId # 0 /\ ~ (onlyClosed /\ s.batchId = r.openBatch)
      first    == First(r, Found)
  IN  IF first = {} THEN 0 ELSE At(r, CHOOSE i \in first : TRUE).batchId

\* Mutant: the shift runs over the slot array, not over the ring.
RemoveAtUnwrapped(r, logical) ==
  [r EXCEPT !.count = @ - 1,
            !.slots = [k \in 0..(Depth - 1) |->
                         IF k >= IndexOf(r, logical) /\ k < Depth - 1
                         THEN r.slots[k + 1] ELSE r.slots[k]]]

\* The slots behind move up by one; the last keeps its old content.
RemoveAt(r, logical) ==
  [r EXCEPT !.count = @ - 1,
            !.slots = [k \in 0..(Depth - 1) |->
                         LET behind == {j \in logical..(r.count - 2) : IndexOf(r, j) = k}
                         IN  IF behind = {} THEN r.slots[k]
                             ELSE At(r, (CHOOSE j \in behind : TRUE) + 1)]]

\* Mutant: the bytes are read after the slot is overwritten.
ScanStepLate(c, b) ==
  IF At(c.ring, c.at).batchId = b
  THEN LET cut == RemoveAt(c.ring, c.at)
       IN  [c EXCEPT !.ring = NoteDrop(cut, At(cut, c.at).frame.len, "byMsmEpoch")]
  ELSE [c EXCEPT !.at = @ + 1]

\* One pass of the loop of dropBatch(): the slot is counted and removed, or passed over.
ScanStep(c, b) ==
  IF At(c.ring, c.at).batchId = b
  THEN [c EXCEPT !.ring =
         RemoveAt(NoteDrop(c.ring, At(c.ring, c.at).frame.len, "byMsmEpoch"), c.at)]
  ELSE [c EXCEPT !.at = @ + 1]

\* The loop: each pass leaves one slot fewer to look at, so it makes count_ passes.
Scan(r, b) ==
  LET after[n \in 0..r.count] ==
        IF n = 0 THEN [ring |-> r, at |-> 0] ELSE ScanStep(after[n - 1], b)
  IN  after[r.count].ring

OpenNext(r) ==
  [r EXCEPT !.openBatch = IF @ = MaxBatch THEN 1 ELSE @ + 1, !.fam = {}]

DropBatch(r, b) ==
  IF b = 0 THEN r
  ELSE IF b = r.openBatch THEN OpenNext(Scan(r, b)) ELSE Scan(r, b)

AssignBatch(r, f) ==
  LET mine  == {e \in r.fam : e.family = Queue!Family(f)}
      entry == Queue!FamEntry(f)
      fresh == IF \/ \E e \in mine : e.epoch # entry.epoch
                  \/ mine = {} /\ Cardinality(r.fam) >= FamilySlots
               THEN OpenNext(r) ELSE r
  IN  [fresh EXCEPT !.fam = @ \cup {entry}]

\* The batch given up for a frame that is not MSM.
Victim(r) ==
  LET closed == OldestMsmBatch(r, TRUE)
  IN  IF closed # 0 THEN closed ELSE OldestMsmBatch(r, FALSE)

\* The loop of pushProtected(): batches go until there is a slot or none is left.
\* Each takes a slot at least, so Depth passes are enough.
RoomStep(r) == IF r.count < Depth THEN r ELSE DropBatch(r, Victim(r))

MakeRoom(r) ==
  LET after[n \in 0..Depth] == IF n = 0 THEN r ELSE RoomStep(after[n - 1])
  IN  after[Depth]

-----------------------------------------------------------------------------
(* push(): the members it leaves, and the sample it takes                    *)

Outcome(r, lossy) == [ring |-> r, lossy |-> lossy]

Refused(r, f, reason) == Outcome(NoteDrop(r, f.len, reason), TRUE)

PushProtected(r, f) ==
  LET SameType(s) == s.frame.type = f.type
      existing    == First(r, SameType)
      roomy       == MakeRoom(r)
  IN  IF existing # {}
      THEN LET i == CHOOSE i \in existing : TRUE
           IN  Outcome(CopyInto(NoteDrop(r, At(r, i).frame.len, "byReplacedProtected"), i, f, 0),
                       FALSE)
      ELSE IF roomy.count < Depth THEN Outcome(PushBack(roomy, f, 0), r.count >= Depth)
      ELSE Refused(roomy, f, "byProtectedKept")

PushMsm(r, f) ==
  LET a     == AssignBatch(r, f)
      batch == a.openBatch
      older == OldestMsmBatch(a, TRUE)
      d     == DropBatch(a, older)
  IN  IF a.count < Depth THEN Outcome(PushBack(a, f, batch), FALSE)
      ELSE IF older # 0 /\ d.count < Depth THEN Outcome(PushBack(d, f, batch), TRUE)
      ELSE IF HasBatch(d, batch) THEN Refused(DropBatch(d, batch), f, "byMsmEpoch")
      ELSE Refused(d, f, "byQueueFull")

PushOther(r, f) ==
  LET d == DropBatch(r, Victim(r))
  IN  IF r.count < Depth THEN Outcome(PushBack(r, f, 0), FALSE)
      ELSE IF d.count < Depth THEN Outcome(PushBack(d, f, 0), TRUE)
      ELSE Refused(d, f, "byQueueFull")

Pushed(r, f) ==
  IF ~ Queue!Storable(f) THEN Refused(r, f, "byOversize")
  ELSE IF Queue!IsProtected(f.type) THEN PushProtected(r, f)
  ELSE IF Queue!IsMsm(f.type) THEN PushMsm(r, f)
  ELSE PushOther(r, f)

-----------------------------------------------------------------------------
(* Steps                                                                     *)

QueuedBytes(r) ==
  LET upTo[n \in 0..r.count] == IF n = 0 THEN 0 ELSE upTo[n - 1] + At(r, n - 1).frame.len
  IN  upTo[r.count]

Push(f) ==
  LET o == Pushed(ring, f)
  IN  /\ ring' = o.ring
      /\ Samples!Sample(o.lossy)
      /\ balance' = (balance + f.len) % ByteMod
      /\ UNCHANGED cfg

Pull(writable) ==
  /\ ring.count > 0
  /\ At(ring, 0).frame.len <= writable
  /\ ring' = [ring EXCEPT !.head = (@ + 1) % Depth, !.count = @ - 1]
  /\ balance' = (balance - At(ring, 0).frame.len) % ByteMod
  /\ UNCHANGED <<cells, window, cfg>>

Clear ==
  /\ ring' = [ring EXCEPT !.count = 0, !.head = 0, !.openBatch = 1, !.fam = {}]
  /\ balance' = (balance - QueuedBytes(ring)) % ByteMod
  /\ UNCHANGED <<cells, window, cfg>>

\* The bytes forgotten here leave the balance too.
ResetDrops ==
  /\ ring' = [ring EXCEPT !.drops = [x \in Queue!DropFields |-> 0], !.bytes = 0]
  /\ balance' = (balance - ring.bytes) % ByteMod
  /\ UNCHANGED <<cells, window, cfg>>

ClearUnhealthy == Samples!EmptyWindow /\ UNCHANGED <<ring, cfg, balance>>

SetConfig(c) ==
  /\ cfg' = Queue!Normalised(c) /\ Samples!EmptyWindow
  /\ UNCHANGED <<ring, balance>>

Init ==
  /\ ring = [slots |-> [k \in 0..(Depth - 1) |-> EmptySlot], head |-> 0, count |-> 0,
             openBatch |-> 1, fam |-> {}, drops |-> [x \in Queue!DropFields |-> 0], bytes |-> 0]
  /\ Samples!InitWindow
  /\ cfg = DefaultConfig /\ balance = 0

Next ==
  \/ \E f \in Frames : Push(f)
  \/ \E w \in Writable : Pull(w)
  \/ Clear
  \/ ResetDrops
  \/ ClearUnhealthy
  \/ \E c \in Configs : SetConfig(c)

Spec == Init /\ [][Next]_vars

-----------------------------------------------------------------------------
(* Properties                                                                *)

\* The ring, its shifting and its scans do what the sequence of FrameQueue does:
\* every step of the code is a step of the abstract queue.
RefinesQueue == Queue!Spec

\* unhealthy() is true exactly while at least dropThreshold of the recent pushes
\* lost a frame: the running count never drifts from the samples.
FlagIsExact == Samples!Unhealthy <=> Queue!Unhealthy

\* drops_.bytes counts the bytes of exactly the frames that were lost: what was
\* offered is queued, pulled, cleared or counted, also where the counter wraps.
BytesAccounted == balance = (QueuedBytes(ring) + ring.bytes) % ByteMod

=============================================================================
