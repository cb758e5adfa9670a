--------------------------- MODULE QueueUseProofs ---------------------------
(***************************************************************************)
(* The queue in use, proved for every value of the constants.              *)
(*                                                                         *)
(* First the ledger (FrameQueueLedger): what the drop counters and the     *)
(* unhealthy flag tell of the frames lost is true, and a frame is refused  *)
(* only when nothing can be evicted for it.  It rests on PushEffect of     *)
(* FrameQueueProofs.                                                       *)
(*                                                                         *)
(* Then the receiver (ObservationSeconds): REQ-FQ-02 for every stream that *)
(* is Steady: however large the queue and whatever the order of the frames *)
(* of a second, seconds are lost whole, and never the one being sent.      *)
(***************************************************************************)
EXTENDS FrameQueueLedger, ObservationSeconds, FrameQueueProofs

-----------------------------------------------------------------------------
(* The window of samples                                                     *)

\* The samples that say a push lost a frame.
Trues(w) == {i \in DOMAIN w : w[i]}

\* There are finitely many of them.
LEMMA TruesFinite ==
  ASSUME NEW w \in Seq(BOOLEAN)
  PROVE  /\ Trues(w) \in SUBSET (1..Len(w))
         /\ IsFiniteSet(Trues(w)) /\ Cardinality(Trues(w)) \in Nat
<1>1. Trues(w) \in SUBSET (1..Len(w)) /\ Len(w) \in Nat
  BY LenProperties DEF Trues
<1> QED BY <1>1, RankOrder

\* A sample that leaves takes at most itself along.
LEMMA TruesTail ==
  ASSUME NEW w \in Seq(BOOLEAN), w # <<>>
  PROVE  Cardinality(Trues(Tail(w))) <= Cardinality(Trues(w))
<1> DEFINE S == Trues(Tail(w))
           T == Trues(w)
           g == [i \in S |-> i + 1]
<1>1. /\ Tail(w) \in Seq(BOOLEAN) /\ Len(w) \in Nat \ {0} /\ Len(Tail(w)) = Len(w) - 1
      /\ \A i \in 1..Len(Tail(w)) : Tail(w)[i] = w[i + 1]
      /\ DOMAIN w = 1..Len(w) /\ DOMAIN Tail(w) = 1..Len(Tail(w))
  <2>1. Tail(w) \in Seq(BOOLEAN) /\ Len(w) \in Nat \ {0} /\ Len(Tail(w)) = Len(w) - 1
        /\ \A i \in 1..Len(Tail(w)) : Tail(w)[i] = w[i + 1]
    BY HeadTailProperties, LenProperties, EmptySeq
  <2> QED BY <2>1, LenProperties
<1>2. \A i \in S : i \in Nat /\ i + 1 \in T
  BY <1>1 DEF Trues
<1>3. g \in Injection(S, T)
  <2>1. g \in [S -> T]
    BY <1>2
  <2>2. \A i, j \in S : g[i] = g[j] => i = j
    BY <1>2
  <2> HIDE DEF g, S, T
  <2> QED BY <2>1, <2>2 DEF Injection, IsInjective
<1>4. IsFiniteSet(T)
  BY TruesFinite
<1> HIDE DEF g, S, T
<1>5. Cardinality(S) <= Cardinality(T)
  BY <1>3, <1>4, FS_Injection
<1> QED BY <1>5 DEF S, T

\* A sample that enters adds at most itself, and nothing if it says FALSE.
LEMMA TruesAppend ==
  ASSUME NEW w \in Seq(BOOLEAN), NEW d \in BOOLEAN
  PROVE  /\ Append(w, d) \in Seq(BOOLEAN)
         /\ Append(w, d)[Len(Append(w, d))] = d
         /\ d => Cardinality(Trues(Append(w, d))) <= Cardinality(Trues(w)) + 1
         /\ ~ d => Cardinality(Trues(Append(w, d))) <= Cardinality(Trues(w))
<1> DEFINE S == Trues(Append(w, d))
           T == Trues(w)
           n == Len(w) + 1
<1>1. /\ Len(w) \in Nat /\ DOMAIN w = 1..Len(w)
      /\ Append(w, d) \in Seq(BOOLEAN) /\ Len(Append(w, d)) = n
      /\ \A i \in 1..Len(w) : Append(w, d)[i] = w[i]
      /\ Append(w, d)[n] = d
  BY AppendProperties, LenProperties
<1>2. DOMAIN Append(w, d) = 1..n
  BY <1>1, LenProperties
<1>3. \A i \in 1..n : i \in 1..Len(w) \/ i = n
  BY <1>1
<1>4. S \subseteq T \cup {n} /\ (~ d => S \subseteq T)
  BY <1>1, <1>2, <1>3 DEF Trues
<1>5. IsFiniteSet(T) /\ Cardinality(T) \in Nat
  BY TruesFinite
<1> HIDE DEF S, T, n
<1>6. IsFiniteSet(T \cup {n}) /\ Cardinality(T \cup {n}) \in Nat
      /\ Cardinality(T \cup {n}) <= Cardinality(T) + 1
  <2>1. IsFiniteSet(T \cup {n})
        /\ Cardinality(T \cup {n}) = IF n \in T THEN Cardinality(T) ELSE Cardinality(T) + 1
    BY <1>5, FS_AddElement
  <2> QED BY <1>5, <2>1
<1>7. Cardinality(S) <= Cardinality(T \cup {n}) /\ Cardinality(S) \in Nat
  BY <1>4, <1>6, FS_Subset, FS_CardinalityType
<1>8. ~ d => Cardinality(S) <= Cardinality(T)
  BY <1>4, <1>5, FS_Subset
<1> QED BY <1>1, <1>5, <1>6, <1>7, <1>8 DEF S, T, n

\* A push that lost a frame brings at most one TRUE into the window, another none;
\* the newest sample is the push's own.
LEMMA SampleCount ==
  ASSUME TypeOK, NEW d \in BOOLEAN, Sample(d)
  PROVE  /\ window'[Len(window')] = d
         /\ Cardinality(Trues(window')) \in Nat /\ Cardinality(Trues(window)) \in Nat
         /\ d => Cardinality(Trues(window')) <= Cardinality(Trues(window)) + 1
         /\ ~ d => Cardinality(Trues(window')) <= Cardinality(Trues(window))
<1> DEFINE held == IF Len(window) >= cfg.windowN THEN Tail(window) ELSE window
<1>1. cfg.windowN \in Nat \ {0} /\ window \in Seq(BOOLEAN) /\ Len(window) \in Nat
  BY LenProperties DEF TypeOK, Config
<1>2. held \in Seq(BOOLEAN) /\ Cardinality(Trues(held)) <= Cardinality(Trues(window))
  <2>1. CASE Len(window) >= cfg.windowN
    <3>1. window # <<>>
      BY <1>1, <2>1
    <3>2. Tail(window) \in Seq(BOOLEAN)
      BY <1>1, <3>1, HeadTailProperties
    <3> QED BY <1>1, <2>1, <3>1, <3>2, TruesTail
  <2>2. CASE ~ (Len(window) >= cfg.windowN)
    BY <1>1, <2>2, TruesFinite
  <2> QED BY <2>1, <2>2
<1>3. window' = Append(held, d)
  BY DEF Sample
<1> HIDE DEF held
<1>4. Cardinality(Trues(window)) \in Nat /\ Cardinality(Trues(held)) \in Nat
      /\ Append(held, d) \in Seq(BOOLEAN) /\ Cardinality(Trues(Append(held, d))) \in Nat
  BY <1>1, <1>2, TruesFinite, TruesAppend
<1> QED BY <1>2, <1>3, <1>4, TruesAppend

-----------------------------------------------------------------------------
(* The counters                                                              *)

\* A total that never wraps, and the sum of its reasons.
TotalIn(d) ==
  d["frames"] = d["byOversize"] + d["byQueueFull"] + d["byMsmEpoch"]
                + d["byProtectedKept"] + d["byReplacedProtected"]

\* No reason exceeds the total.
LEMMA TotalCovers ==
  ASSUME drops \in [DropFields -> 0..(CounterMod - 1)], TotalIn(drops), NEW reason \in DropReasons
  PROVE  drops[reason] <= drops["frames"]
<1>1. {"byOversize", "byQueueFull", "byMsmEpoch", "byProtectedKept", "byReplacedProtected"}
        \subseteq DropFields
  BY DEF DropFields, DropReasons
<1>2. \A x \in DropFields : drops[x] \in Nat
  BY SizesAssumption
<1> QED BY <1>1, <1>2 DEF TotalIn, DropReasons

\* n drops that fit below the width are added to the total and to the reason, so
\* the total stays the sum of the reasons.
LEMMA NoteDropAdds ==
  ASSUME drops \in [DropFields -> 0..(CounterMod - 1)], NEW reason \in DropReasons, NEW n \in Nat,
         TotalIn(drops), drops["frames"] + n < CounterMod, drops' = NoteDrop(reason, n)
  PROVE  /\ drops'["frames"] = drops["frames"] + n
         /\ drops'[reason] = drops[reason] + n
         /\ \A x \in DropReasons : x # reason => drops'[x] = drops[x]
         /\ TotalIn(drops')
<1>1. /\ "frames" \in DropFields /\ \A x \in DropReasons : x \in DropFields
      /\ {"byOversize", "byQueueFull", "byMsmEpoch", "byProtectedKept", "byReplacedProtected"}
           \subseteq DropReasons
  BY DEF DropFields, DropReasons
<1>2. \A x \in DropFields : drops[x] \in Nat
  BY SizesAssumption
<1>3. drops[reason] <= drops["frames"]
  BY TotalCovers
<1>4. \A m \in Nat : m < CounterMod => m % CounterMod = m
  BY SizesAssumption
<1>5. drops'["frames"] = drops["frames"] + n /\ drops'[reason] = drops[reason] + n
  <2>1. drops'["frames"] = (drops["frames"] + n) % CounterMod
        /\ drops'[reason] = (drops[reason] + n) % CounterMod
    BY NoteDropFields
  <2>2. drops["frames"] + n \in Nat /\ drops[reason] + n \in Nat
        /\ drops[reason] + n < CounterMod
    BY <1>1, <1>2, <1>3, SizesAssumption
  <2> QED BY <1>4, <2>1, <2>2
<1>6. \A x \in DropReasons : x # reason => drops'[x] = drops[x]
  BY NoteDropFields
<1>7. TotalIn(drops')
  BY <1>1, <1>2, <1>5, <1>6 DEF TotalIn, DropReasons
<1> QED BY <1>5, <1>6, <1>7

\* With the replaced protected frames among the total, the loss is a difference.
LEMMA UnhealthyIsDifference ==
  ASSUME drops \in [DropFields -> 0..(CounterMod - 1)], TotalIn(drops)
  PROVE  /\ UnhealthyDropFrames = drops["frames"] - drops["byReplacedProtected"]
         /\ drops["frames"] \in Nat /\ drops["byReplacedProtected"] \in Nat
<1>1. {"frames", "byOversize", "byQueueFull", "byMsmEpoch", "byProtectedKept",
       "byReplacedProtected"} \subseteq DropFields
  BY DEF DropFields, DropReasons
<1>2. \A x \in DropFields : drops[x] \in Nat
  BY SizesAssumption
<1> QED BY <1>1, <1>2 DEF TotalIn, UnhealthyDropFrames

-----------------------------------------------------------------------------
(* The invariant                                                             *)

\* FramesAccounted and UnhealthyIsEarned are inductive once the window is known to
\* hold no more losses than were counted since it was emptied.
LedgerInv ==
  /\ QueueInv
  /\ offered \in 0..MaxPushes
  /\ pulled \in Nat /\ cleared \in Nat /\ forgotten \in Nat /\ lost \in Nat
  /\ FramesAccounted
  /\ Cardinality(Trues(window)) <= lost

\* The step of LedgerNext taken in the queue is a step of FrameQueue.
LEMMA LedgerIsQueue == [LedgerNext]_<<vars, ledger>> => [Next]_vars
BY DEF LedgerNext, LedgerPush, LedgerPull, LedgerClear, LedgerResetDrops, LedgerEmptyWindow,
       Next, vars

\* The initial state satisfies the invariant.
LEMMA LedgerInitInv == LedgerInit => LedgerInv
<1> SUFFICES ASSUME LedgerInit PROVE LedgerInv
  OBVIOUS
<1>1. QueueInv
  BY InitInv DEF LedgerInit
<1>2. Trues(window) = {} /\ Len(queue) = 0
  BY EmptySeq DEF LedgerInit, Init, Trues
<1>3. {"frames", "byOversize", "byQueueFull", "byMsmEpoch", "byProtectedKept",
       "byReplacedProtected"} \subseteq DropFields
  BY DEF DropFields, DropReasons
<1>4. FramesAccounted
  BY <1>2, <1>3 DEF LedgerInit, Init, FramesAccounted
<1> QED BY <1>1, <1>2, <1>4, FS_EmptySet, LedgerAssumption DEF LedgerInit, LedgerInv

\* What LedgerInv says of the counters before a push: none of them can wrap.
LEMMA LedgerPushFacts ==
  ASSUME LedgerInv, NEW f \in Frames, LedgerPush(f)
  PROVE  /\ Counted /\ cfg' = cfg /\ TypeOK
         /\ offered' = offered + 1 /\ offered' \in 1..MaxPushes
         /\ Len(queue) \in Nat /\ Len(queue') \in Nat
         /\ drops \in [DropFields -> 0..(CounterMod - 1)] /\ TotalIn(drops)
         /\ \A reason \in DropReasons, n \in Nat \ {0} :
              Dropped(reason, n) => drops["frames"] + n < CounterMod
<1>1. Counted /\ cfg' = cfg /\ TypeOK
  BY PushEffect DEF LedgerInv, LedgerPush, QueueInv
<1>2. offered' = offered + 1 /\ offered' \in 1..MaxPushes
  BY LedgerAssumption DEF LedgerInv, LedgerPush
<1>3. Push(f)
  BY DEF LedgerPush
<1>4. QueueInv'
  BY <1>3, InvStep DEF LedgerInv, Next
<1>5. Len(queue) \in Nat /\ Len(queue') \in Nat
      /\ drops \in [DropFields -> 0..(CounterMod - 1)]
  BY <1>1, <1>4, LenProperties DEF QueueInv, TypeOK
<1>6. TotalIn(drops) /\ "frames" \in DropFields
  BY DEF LedgerInv, FramesAccounted, TotalIn, DropFields
<1>7. ASSUME NEW reason \in DropReasons, NEW n \in Nat \ {0}, Dropped(reason, n)
      PROVE  drops["frames"] + n < CounterMod
  <2>1. Len(queue') = Len(queue) + 1 - n
    BY <1>7 DEF Dropped
  <2>2. /\ offered = Len(queue) + pulled + cleared + forgotten + drops["frames"]
        /\ offered \in Nat /\ pulled \in Nat /\ cleared \in Nat /\ forgotten \in Nat
    BY DEF LedgerInv, FramesAccounted
  <2>3. drops["frames"] \in Nat
    BY <1>5, <1>6, SizesAssumption
  <2> QED BY SMTT(30), <1>2, <1>5, <2>1, <2>2, <2>3, LedgerAssumption, SizesAssumption
<1> QED BY <1>1, <1>2, <1>5, <1>6, <1>7

\* A push keeps the account: a frame lost is counted once, by its reason and in
\* the total, and sampled unless it was only replaced.
LEMMA LedgerPushInv ==
  ASSUME LedgerInv, NEW f \in Frames, LedgerPush(f)
  PROVE  FramesAccounted' /\ lost' \in Nat /\ Cardinality(Trues(window'))  <= lost'
<1>1. /\ offered = Len(queue) + pulled + cleared + forgotten + drops["frames"]
      /\ pulled' = pulled /\ cleared' = cleared /\ forgotten' = forgotten
      /\ offered \in Nat /\ pulled \in Nat /\ cleared \in Nat /\ forgotten \in Nat /\ lost \in Nat
      /\ Cardinality(Trues(window)) <= lost
  BY DEF LedgerInv, FramesAccounted, LedgerPush
<1>2. /\ lost' = lost + Len(queue) + 1 - Len(queue')
                 - (drops'["byReplacedProtected"] - drops["byReplacedProtected"])
      /\ offered' = offered + 1
  BY DEF LedgerPush
<1>3. /\ Len(queue) \in Nat /\ Len(queue') \in Nat /\ TypeOK
      /\ drops \in [DropFields -> 0..(CounterMod - 1)] /\ TotalIn(drops)
  BY LedgerPushFacts
<1>4. "byReplacedProtected" \in DropReasons
  BY DEF DropReasons
<1>5. drops["frames"] \in Nat /\ drops["byReplacedProtected"] \in Nat
  BY <1>3, UnhealthyIsDifference
<1>6. CASE drops' = drops /\ Len(queue') = Len(queue) + 1 /\ Sample(FALSE)
  <2>1. lost' = lost
    BY <1>1, <1>2, <1>3, <1>5, <1>6
  <2>2. Cardinality(Trues(window')) \in Nat /\ Cardinality(Trues(window)) \in Nat
        /\ Cardinality(Trues(window')) <= Cardinality(Trues(window))
    BY <1>3, <1>6, SampleCount
  <2>3. FramesAccounted'
    <3>1. offered' = Len(queue') + pulled' + cleared' + forgotten' + drops'["frames"]
      BY <1>1, <1>2, <1>3, <1>5, <1>6
    <3>2. TotalIn(drops')
      BY <1>3, <1>6
    <3> QED BY <3>1, <3>2 DEF FramesAccounted, TotalIn
  <2> QED BY <1>1, <2>1, <2>2, <2>3
<1>7. ASSUME NEW reason \in DropReasons, NEW n \in Nat \ {0}, Dropped(reason, n)
      PROVE  FramesAccounted' /\ lost' \in Nat /\ Cardinality(Trues(window')) <= lost'
  <2>1. drops' = NoteDrop(reason, n) /\ drops["frames"] + n < CounterMod
    BY <1>7, LedgerPushFacts DEF Dropped
  <2>2. /\ drops'["frames"] = drops["frames"] + n
        /\ drops'[reason] = drops[reason] + n
        /\ reason # "byReplacedProtected"
             => drops'["byReplacedProtected"] = drops["byReplacedProtected"]
        /\ TotalIn(drops')
    BY <1>3, <1>4, <2>1, NoteDropAdds
  <2>3. Len(queue') = Len(queue) + 1 - n
    BY <1>7 DEF Dropped
  <2>4. FramesAccounted'
    <3>1. offered' = Len(queue') + pulled' + cleared' + forgotten' + drops'["frames"]
      BY <1>1, <1>2, <1>3, <1>5, <2>2, <2>3, SMTT(30)
    <3> QED BY <2>2, <3>1 DEF FramesAccounted, TotalIn
  <2>5. CASE reason = "byReplacedProtected"
    <3>1. n = 1 /\ Sample(FALSE)
      BY <1>7, <2>5 DEF Dropped
    <3>2. lost' = lost
      BY <1>1, <1>2, <1>3, <1>5, <2>2, <2>3, <2>5, <3>1, SMTT(30)
    <3>3. Cardinality(Trues(window')) \in Nat /\ Cardinality(Trues(window)) \in Nat
          /\ Cardinality(Trues(window')) <= Cardinality(Trues(window))
      BY <1>3, <3>1, SampleCount
    <3> QED BY <1>1, <2>4, <3>2, <3>3
  <2>6. CASE reason # "byReplacedProtected"
    <3>1. Sample(TRUE)
      BY <1>7, <2>6 DEF Dropped
    <3>2. lost' = lost + n
      BY <1>1, <1>2, <1>3, <1>5, <2>2, <2>3, <2>6, SMTT(30)
    <3>3. Cardinality(Trues(window')) \in Nat /\ Cardinality(Trues(window)) \in Nat
          /\ Cardinality(Trues(window')) <= Cardinality(Trues(window)) + 1
      BY <1>3, <3>1, SampleCount
    <3> QED BY <1>1, <2>4, <3>2, <3>3
  <2> QED BY <2>5, <2>6
<1> QED BY <1>6, <1>7, LedgerPushFacts DEF Counted

\* Every step keeps the invariant.
LEMMA LedgerStep == LedgerInv /\ [LedgerNext]_<<vars, ledger>> => LedgerInv'
<1> SUFFICES ASSUME LedgerInv, [LedgerNext]_<<vars, ledger>> PROVE LedgerInv'
  OBVIOUS
<1>1. QueueInv'
  BY LedgerIsQueue, InvStep DEF LedgerInv
<1>2. /\ offered = Len(queue) + pulled + cleared + forgotten + drops["frames"]
      /\ TotalIn(drops)
      /\ offered \in 0..MaxPushes /\ pulled \in Nat /\ cleared \in Nat /\ forgotten \in Nat
      /\ lost \in Nat /\ Cardinality(Trues(window)) <= lost
  BY DEF LedgerInv, FramesAccounted, TotalIn
<1>3. Len(queue) \in Nat /\ queue \in Seq(Slots)
      /\ drops \in [DropFields -> 0..(CounterMod - 1)]
  BY LenProperties DEF LedgerInv, QueueInv, TypeOK
<1>4. drops["frames"] \in Nat
  BY <1>2, <1>3, UnhealthyIsDifference
<1> DEFINE Account == offered' = Len(queue') + pulled' + cleared' + forgotten' + drops'["frames"]
                      /\ TotalIn(drops')
           Window == lost' \in Nat /\ Cardinality(Trues(window')) <= lost'
           History == offered' \in 0..MaxPushes /\ pulled' \in Nat /\ cleared' \in Nat
                      /\ forgotten' \in Nat
<1>5. Account <=> FramesAccounted'
  BY DEF FramesAccounted, TotalIn
<1>6. SUFFICES FramesAccounted' /\ Window /\ History
  BY <1>1 DEF LedgerInv
<1>7. ASSUME NEW f \in Frames, LedgerPush(f) PROVE FramesAccounted' /\ Window /\ History
  <2>1. History
    BY <1>2, <1>7, LedgerPushFacts, LedgerAssumption DEF LedgerPush
  <2> QED BY <1>7, <2>1, LedgerPushInv
<1>8. ASSUME NEW w \in Writable, LedgerPull(w) PROVE Account /\ Window /\ History
  <2>1. /\ queue' = Tail(queue) /\ queue # <<>> /\ drops' = drops /\ window' = window
        /\ pulled' = pulled + 1 /\ offered' = offered /\ cleared' = cleared
        /\ forgotten' = forgotten /\ lost' = lost
    BY <1>8 DEF LedgerPull, Pull
  <2>2. Len(queue') = Len(queue) - 1
    BY <1>3, <2>1, HeadTailProperties
  <2> QED BY <1>2, <1>3, <1>4, <2>1, <2>2
<1>9. ASSUME LedgerClear PROVE Account /\ Window /\ History
  <2>1. /\ queue' = <<>> /\ drops' = drops /\ window' = window
        /\ cleared' = cleared + Len(queue) /\ offered' = offered /\ pulled' = pulled
        /\ forgotten' = forgotten /\ lost' = lost
    BY <1>9 DEF LedgerClear, Clear
  <2>2. Len(queue') = 0
    BY <2>1, EmptySeq
  <2>3. Account
    BY <1>2, <1>3, <1>4, <2>1, <2>2
  <2> QED BY <1>2, <1>3, <2>1, <2>3
<1>10. ASSUME LedgerResetDrops PROVE Account /\ Window /\ History
  <2>1. /\ queue' = queue /\ drops' = [x \in DropFields |-> 0] /\ window' = window
        /\ forgotten' = forgotten + drops["frames"] /\ offered' = offered
        /\ pulled' = pulled /\ cleared' = cleared /\ lost' = lost
    BY <1>10 DEF LedgerResetDrops, ResetDrops
  <2>2. {"frames", "byOversize", "byQueueFull", "byMsmEpoch", "byProtectedKept",
         "byReplacedProtected"} \subseteq DropFields
    BY DEF DropFields, DropReasons
  <2>3. drops'["frames"] = 0 /\ TotalIn(drops')
    BY <2>1, <2>2 DEF TotalIn
  <2> QED BY <1>2, <1>3, <1>4, <2>1, <2>3
<1>11. ASSUME LedgerEmptyWindow PROVE Account /\ Window /\ History
  <2>1. /\ queue' = queue /\ drops' = drops /\ window' = <<>> /\ lost' = 0
        /\ offered' = offered /\ pulled' = pulled /\ cleared' = cleared
        /\ forgotten' = forgotten
    BY <1>11 DEF LedgerEmptyWindow, ClearUnhealthy, SetConfig
  <2>2. Trues(window') = {}
    BY <2>1, EmptySeq DEF Trues
  <2>3. Account
    BY <1>2, <2>1
  <2>4. Window
    <3>1. Cardinality(Trues(window')) = 0
      BY <2>2, FS_EmptySet
    <3> QED BY <2>1, <3>1
  <2> QED BY <1>2, <2>1, <2>3, <2>4
<1>12. ASSUME UNCHANGED <<vars, ledger>> PROVE Account /\ Window /\ History
  BY <1>2, <1>12 DEF vars, ledger
<1> QED BY <1>5, <1>7, <1>8, <1>9, <1>10, <1>11, <1>12 DEF LedgerNext

\* The invariant holds throughout.
LEMMA LedgerAlways == LedgerSpec => []LedgerInv
BY LedgerInitInv, LedgerStep, PTL DEF LedgerSpec

\* No frame is lost unseen or counted twice: every frame pushed is queued, pulled,
\* cleared or in the total of the drop counters, and the total is the sum of the
\* reasons, over any sequence of calls too short to wrap a counter.
THEOREM EveryFrameAccounted == LedgerSpec => []FramesAccounted
<1>1. LedgerInv => FramesAccounted
  BY DEF LedgerInv
<1> QED BY <1>1, LedgerAlways, PTL

\* unhealthy() never tells of losses that did not happen.
THEOREM UnhealthyAlwaysEarned == LedgerSpec => []UnhealthyIsEarned
<1>1. LedgerInv => UnhealthyIsEarned
  <2> SUFFICES ASSUME LedgerInv, Unhealthy PROVE lost >= cfg.dropThreshold
    BY DEF UnhealthyIsEarned
  <2>1. Cardinality(Trues(window)) >= cfg.dropThreshold
    BY DEF Unhealthy, Trues
  <2>2. Cardinality(Trues(window)) <= lost /\ lost \in Nat
    BY DEF LedgerInv
  <2>3. Cardinality(Trues(window)) \in Nat /\ cfg.dropThreshold \in Nat
    <3>1. window \in Seq(BOOLEAN) /\ cfg \in Config
      BY DEF LedgerInv, QueueInv, TypeOK
    <3>2. Cardinality(Trues(window)) \in Nat
      BY <3>1, TruesFinite
    <3>3. \A c \in Config : c.dropThreshold \in Nat
      BY SMT DEF Config
    <3>4. cfg.dropThreshold \in Nat
      BY <3>1, <3>3, Zenon
    <3> QED BY <3>2, <3>4
  <2> QED BY <2>1, <2>2, <2>3
<1> QED BY <1>1, LedgerAlways, PTL

\* The polled flag and the polled count tell of the same pushes.
THEOREM SamplesMatchCounter == LedgerSpec => SampleMatchesCounter
<1> DEFINE A == offered' # offered =>
                  (window'[Len(window')] <=> UnhealthyDropFrames' > UnhealthyDropFrames)
<1>1. LedgerInv /\ [LedgerNext]_<<vars, ledger>> => [A]_<<vars, ledger>>
  <2> SUFFICES ASSUME LedgerInv, LedgerNext, offered' # offered
               PROVE  window'[Len(window')] <=> UnhealthyDropFrames' > UnhealthyDropFrames
    OBVIOUS
  <2>1. PICK f \in Frames : LedgerPush(f)
    BY DEF LedgerNext, LedgerPull, LedgerClear, LedgerResetDrops, LedgerEmptyWindow
  <2>2. /\ Counted /\ TypeOK
        /\ drops \in [DropFields -> 0..(CounterMod - 1)] /\ TotalIn(drops)
    BY <2>1, LedgerPushFacts
  <2>3. UnhealthyDropFrames = drops["frames"] - drops["byReplacedProtected"]
        /\ drops["frames"] \in Nat /\ drops["byReplacedProtected"] \in Nat
    BY <2>2, UnhealthyIsDifference
  <2>4. CASE drops' = drops /\ Len(queue') = Len(queue) + 1 /\ Sample(FALSE)
    <3>1. window'[Len(window')] = FALSE
      BY <2>2, <2>4, SampleCount
    <3>2. UnhealthyDropFrames' = UnhealthyDropFrames
      BY <2>4 DEF UnhealthyDropFrames
    <3> QED BY <2>3, <3>1, <3>2
  <2>5. ASSUME NEW reason \in DropReasons, NEW n \in Nat \ {0}, Dropped(reason, n)
        PROVE  window'[Len(window')] <=> UnhealthyDropFrames' > UnhealthyDropFrames
    <3>1. drops' = NoteDrop(reason, n) /\ drops["frames"] + n < CounterMod
      BY <2>1, <2>5, LedgerPushFacts DEF Dropped
    <3>2. "byReplacedProtected" \in DropReasons
      BY DEF DropReasons
    <3>3. /\ drops'["frames"] = drops["frames"] + n
          /\ drops'[reason] = drops[reason] + n
          /\ reason # "byReplacedProtected"
               => drops'["byReplacedProtected"] = drops["byReplacedProtected"]
      BY <2>2, <3>1, <3>2, NoteDropAdds
    <3>4. drops["byReplacedProtected"] <= drops["frames"]
      BY <2>2, <3>2, TotalCovers
    <3>5. UnhealthyDropFrames' = IF drops'["frames"] < drops'["byReplacedProtected"] THEN 0
                                 ELSE drops'["frames"] - drops'["byReplacedProtected"]
      BY DEF UnhealthyDropFrames
    <3>6. CASE reason = "byReplacedProtected"
      <4>1. window'[Len(window')] = FALSE
        BY <2>2, <2>5, <3>6, SampleCount DEF Dropped
      <4>2. UnhealthyDropFrames' = UnhealthyDropFrames
        BY <2>3, <3>3, <3>4, <3>5, <3>6
      <4> QED BY <2>3, <4>1, <4>2
    <3>7. CASE reason # "byReplacedProtected"
      <4>1. window'[Len(window')] = TRUE
        BY <2>2, <2>5, <3>7, SampleCount DEF Dropped
      <4>2. UnhealthyDropFrames' = UnhealthyDropFrames + n
        BY <2>3, <3>3, <3>4, <3>5, <3>7
      <4> QED BY <2>3, <4>1, <4>2
    <3> QED BY <3>6, <3>7
  <2> QED BY <2>2, <2>4, <2>5 DEF Counted
<1>2. LedgerSpec => [][A]_<<vars, ledger>>
  BY <1>1, LedgerAlways, PTL DEF LedgerSpec
<1> QED BY <1>2 DEF SampleMatchesCounter

\* A frame is refused for want of room only when no MSM epoch is left to evict.
THEOREM RefusedOnlyAsLastResort == LedgerSpec => RefusalIsLastResort
<1> DEFINE A == \/ drops'["byQueueFull"] + drops'["byProtectedKept"]
                     <= drops["byQueueFull"] + drops["byProtectedKept"]
                \/ /\ Len(queue) = Depth /\ queue' = queue
                   /\ \A i \in DOMAIN queue : ~ IsMsm(queue[i].frame.type)
<1>1. LedgerInv /\ [LedgerNext]_<<vars, ledger>> => [A]_<<vars, ledger>>
  <2> SUFFICES ASSUME LedgerInv, LedgerNext PROVE A
    OBVIOUS
  <2>1. /\ drops \in [DropFields -> 0..(CounterMod - 1)]
        /\ {"byQueueFull", "byProtectedKept"} \subseteq DropReasons
        /\ {"byQueueFull", "byProtectedKept"} \subseteq DropFields
    BY DEF LedgerInv, QueueInv, TypeOK, DropFields, DropReasons
  <2>2. drops["byQueueFull"] \in Nat /\ drops["byProtectedKept"] \in Nat
    BY <2>1, SizesAssumption
  <2>3. ASSUME drops' = drops PROVE A
    BY <2>2, <2>3
  <2>4. ASSUME NEW f \in Frames, LedgerPush(f) PROVE A
    <3>1. Counted
      BY <2>4, LedgerPushFacts
    <3>2. ASSUME NEW reason \in DropReasons, NEW n \in Nat \ {0}, Dropped(reason, n) PROVE A
      <4>1. CASE reason \in {"byQueueFull", "byProtectedKept"}
        BY <3>2, <4>1 DEF Dropped, Refused
      <4>2. CASE reason \notin {"byQueueFull", "byProtectedKept"}
        <5>1. drops'["byQueueFull"] = drops["byQueueFull"]
              /\ drops'["byProtectedKept"] = drops["byProtectedKept"]
          <6>1. drops' = NoteDrop(reason, n)
            BY <3>2 DEF Dropped
          <6> QED BY <2>1, <4>2, <6>1, NoteDropFields
        <5> QED BY <2>2, <5>1
      <4> QED BY <4>1, <4>2
    <3> QED BY <2>3, <3>1, <3>2 DEF Counted
  <2>5. CASE LedgerResetDrops
    <3>1. drops'["byQueueFull"] = 0 /\ drops'["byProtectedKept"] = 0
      BY <2>1, <2>5 DEF LedgerResetDrops, ResetDrops
    <3> QED BY <2>2, <3>1
  <2>6. ASSUME NEW w \in Writable, LedgerPull(w) PROVE A
    BY <2>3, <2>6 DEF LedgerPull, Pull
  <2>7. CASE LedgerClear \/ LedgerEmptyWindow
    BY <2>3, <2>7 DEF LedgerClear, Clear, LedgerEmptyWindow, ClearUnhealthy, SetConfig
  <2> QED BY <2>4, <2>5, <2>6, <2>7 DEF LedgerNext
<1>2. LedgerSpec => [][A]_<<vars, ledger>>
  BY <1>1, LedgerAlways, PTL DEF LedgerSpec
<1> QED BY <1>2 DEF RefusalIsLastResort

-----------------------------------------------------------------------------
(* The receiver                                                              *)

\* The second of the open batch, and the frames filed in its family table.
Cur == IF unsent = MsmOf(now) THEN now - 1 ELSE now

Sent == IF unsent = MsmOf(now) THEN MsmOf(now - 1) ELSE MsmOf(now) \ unsent

\* A queue holds one batch per second and one second per batch, the open one holding
\* second cur and the others older seconds; no MSM frame twice, none that is missing
\* and none of a second that lost a frame.
Grouped(q, open, cur, missing, gone) ==
  /\ \A i \in DOMAIN q : q[i].batchId = open => q[i].frame.second = cur
  /\ \A i \in DOMAIN q : q[i].batchId \notin {0, open} => q[i].frame.second < cur
  /\ \A i, j \in DOMAIN q : (q[i].batchId # 0 /\ q[j].batchId # 0) =>
       /\ q[i].batchId = q[j].batchId <=> q[i].frame.second = q[j].frame.second
       /\ q[i].frame = q[j].frame => i = j
  /\ \A i \in DOMAIN q :
       q[i].batchId # 0 => q[i].frame.second \notin gone /\ q[i].frame \notin missing
  /\ \A s \in gone : s \in Int /\ s < cur

\* The invariant of the queue under a receiver.
SecondsInv ==
  /\ Steady /\ QueueInv /\ now \in 1..MaxSecond /\ unsent \subseteq MsmOf(now)
  /\ fam = {FamEntry(g) : g \in Sent}
  /\ Grouped(queue, openBatch, Cur, unsent, broken)

-----------------------------------------------------------------------------
(* The shapes of queue that a step makes                                     *)

\* The second of a frame is a number.
LEMMA SecondType ==
  ASSUME NEW f \in Frames
  PROVE  /\ f.second \in Int
         /\ IsMsm(f.type) => f.second \in 1..MaxSecond /\ f \in MsmOf(f.second)
BY SecondsAssumption DEF MsmOf

\* A message that is not MSM is queued.
LEMMA GroupedAppendPlain ==
  ASSUME NEW q \in Seq(Slots), NEW open \in 1..MaxBatch, NEW cur, NEW missing, NEW gone,
         Grouped(q, open, cur, missing, gone), NEW f \in Frames, Storable(f)
  PROVE  Grouped(Append(q, NewSlot(f, 0)), open, cur, missing, gone)
<1> DEFINE s == NewSlot(f, 0)
           w == Append(q, s)
<1>1. s \in Slots /\ s.batchId = 0
  BY NewSlotType, SizesAssumption DEF NewSlot
<1> HIDE DEF s
<1>2. /\ Len(q) \in Nat /\ DOMAIN q = 1..Len(q)
      /\ \A i \in 1..Len(q) : w[i] = q[i]
      /\ w[Len(q) + 1] = s
      /\ \A i \in DOMAIN w : i \in 1..Len(q) \/ i = Len(q) + 1
  BY <1>1, AppendFacts
<1> HIDE DEF w
<1>3. \A i \in DOMAIN w : w[i].batchId # 0 => i \in DOMAIN q /\ w[i] = q[i]
  BY <1>1, <1>2
<1>4. open # 0
  OBVIOUS
<1>5. Grouped(w, open, cur, missing, gone)
  BY <1>3, <1>4 DEF Grouped
<1> QED BY <1>5 DEF w, s

\* The missing frame f of second cur is queued in the open batch.
LEMMA GroupedAppendMsm ==
  ASSUME NEW q \in Seq(Slots), NEW open \in 1..MaxBatch, NEW missing, NEW gone,
         NEW f \in Frames, Storable(f), f.second \in Int, f \in missing,
         Grouped(q, open, f.second, missing, gone)
  PROVE  Grouped(Append(q, NewSlot(f, open)), open, f.second, missing \ {f}, gone)
<1> DEFINE s == NewSlot(f, open)
           w == Append(q, s)
           n == Len(q) + 1
<1>1. s \in Slots /\ s.batchId = open /\ s.frame = f /\ open # 0
  BY NewSlotType, SizesAssumption DEF NewSlot
<1> HIDE DEF s
<1>2. /\ Len(q) \in Nat /\ DOMAIN q = 1..Len(q)
      /\ \A i \in 1..Len(q) : w[i] = q[i]
      /\ w[n] = s
      /\ \A i \in DOMAIN w : i \in 1..Len(q) \/ i = n
  BY <1>1, AppendFacts
<1> HIDE DEF w, n
<1>3. \A i \in DOMAIN w : (i \in DOMAIN q /\ w[i] = q[i]) \/ (i = n /\ w[i] = s)
  BY <1>2
<1>4. \A i \in DOMAIN q : q[i].frame.second \in Int
  BY SlotsFacts, SecondType
<1>5. \A i \in DOMAIN q : q[i].batchId # 0 =>
        /\ q[i].batchId = open <=> q[i].frame.second = f.second
        /\ q[i].frame # f
  BY <1>4 DEF Grouped
<1>6. f.second \notin gone
  BY DEF Grouped
<1>7. \A i, j \in DOMAIN w : (w[i].batchId # 0 /\ w[j].batchId # 0) =>
        /\ w[i].batchId = w[j].batchId <=> w[i].frame.second = w[j].frame.second
        /\ w[i].frame = w[j].frame => i = j
  BY <1>1, <1>3, <1>5 DEF Grouped
<1>8. Grouped(w, open, f.second, missing \ {f}, gone)
  BY <1>1, <1>3, <1>6, <1>7 DEF Grouped
<1> QED BY <1>8 DEF w, s

\* A closed batch is evicted, and its second counts as lost.
LEMMA GroupedWithout ==
  ASSUME NEW q \in Seq(Slots), NEW open, NEW cur, NEW missing, NEW gone,
         Grouped(q, open, cur, missing, gone),
         NEW v, v \notin {0, open}, NEW p \in DOMAIN q, q[p].batchId = v
  PROVE  Grouped(Without(q, v), open, cur, missing, gone \cup {q[p].frame.second})
<1> DEFINE w == Without(q, v)
           gone2 == gone \cup {q[p].frame.second}
<1>1. /\ Len(q) \in Nat /\ DOMAIN q = 1..Len(q) /\ DOMAIN w = 1..Len(w) /\ Len(w) \in Nat
      /\ \A i \in DOMAIN q : q[i].frame.second \in Int
  BY WithoutType, LenProperties, SlotsFacts, SecondType
<1>2. PICK m : Embeds(m, w, q, v)
  BY WithoutEmbeds
<1>3. /\ \A k \in DOMAIN w : m[k] \in DOMAIN q /\ m[k] \in Nat
                             /\ w[k] = q[m[k]] /\ q[m[k]].batchId # v
      /\ \A k, l \in DOMAIN w : k < l => m[k] < m[l]
  BY <1>1, <1>2 DEF Embeds
<1> HIDE DEF w
<1>4. \A k, l \in DOMAIN w : m[k] = m[l] => k = l
  <2>1. SUFFICES ASSUME NEW k \in DOMAIN w, NEW l \in DOMAIN w, m[k] = m[l], k # l
                 PROVE  FALSE
    OBVIOUS
  <2>2. (k < l \/ l < k) /\ m[k] \in Nat /\ m[l] \in Nat
    BY <1>1, <1>3, <2>1
  <2> QED BY <1>3, <2>1, <2>2
<1>5. \A k \in DOMAIN w : w[k].batchId # 0 => w[k].frame.second # q[p].frame.second
  BY <1>3 DEF Grouped
<1>6. \A s \in gone2 : s \in Int /\ s < cur
  BY <1>1 DEF Grouped
<1>7. \A k \in DOMAIN w :
        /\ w[k].batchId = open => w[k].frame.second = cur
        /\ w[k].batchId \notin {0, open} => w[k].frame.second < cur
        /\ w[k].batchId # 0 => w[k].frame.second \notin gone /\ w[k].frame \notin missing
  BY <1>3 DEF Grouped
<1>8. \A k, l \in DOMAIN w : (w[k].batchId # 0 /\ w[l].batchId # 0) =>
        /\ w[k].batchId = w[l].batchId <=> w[k].frame.second = w[l].frame.second
        /\ w[k].frame = w[l].frame => k = l
  BY <1>3, <1>4 DEF Grouped
<1>9. Grouped(w, open, cur, missing, gone2)
  BY <1>5, <1>6, <1>7, <1>8 DEF Grouped
<1> QED BY <1>9 DEF w

\* A protected slot is overwritten by one of its type.
LEMMA GroupedReplace ==
  ASSUME NEW q \in Seq(Slots), NEW open \in 1..MaxBatch, NEW cur, NEW missing, NEW gone,
         Grouped(q, open, cur, missing, gone), NEW i \in DOMAIN q, NEW f
  PROVE  Grouped([q EXCEPT ![i] = NewSlot(f, 0)], open, cur, missing, gone)
<1> DEFINE w == [q EXCEPT ![i] = NewSlot(f, 0)]
<1>1. NewSlot(f, 0).batchId = 0 /\ open # 0
  BY DEF NewSlot
<1>2. DOMAIN w = DOMAIN q /\ w[i] = NewSlot(f, 0) /\ \A j \in DOMAIN q : j # i => w[j] = q[j]
  OBVIOUS
<1> HIDE DEF w
<1>3. \A j \in DOMAIN w : w[j].batchId # 0 => j \in DOMAIN q /\ w[j] = q[j]
  BY <1>1, <1>2
<1>4. Grouped(w, open, cur, missing, gone)
  BY <1>1, <1>3 DEF Grouped
<1> QED BY <1>4 DEF w

\* The head is pulled.
LEMMA GroupedTail ==
  ASSUME NEW q \in Seq(Slots), q # <<>>, NEW open, NEW cur, NEW missing, NEW gone,
         Grouped(q, open, cur, missing, gone)
  PROVE  Grouped(Tail(q), open, cur, missing, gone)
<1> DEFINE w == Tail(q)
<1>1. /\ Len(q) \in Nat /\ Len(w) = Len(q) - 1 /\ DOMAIN w = 1..Len(w) /\ DOMAIN q = 1..Len(q)
      /\ \A k \in DOMAIN w : k + 1 \in DOMAIN q /\ w[k] = q[k + 1]
  BY HeadTailProperties, LenProperties
<1> HIDE DEF w
<1>2. \A k \in DOMAIN w :
        /\ w[k].batchId = open => w[k].frame.second = cur
        /\ w[k].batchId \notin {0, open} => w[k].frame.second < cur
        /\ w[k].batchId # 0 => w[k].frame.second \notin gone /\ w[k].frame \notin missing
  BY <1>1 DEF Grouped
<1>3. ASSUME NEW k \in DOMAIN w, NEW l \in DOMAIN w, w[k].batchId # 0, w[l].batchId # 0
      PROVE  /\ w[k].batchId = w[l].batchId <=> w[k].frame.second = w[l].frame.second
             /\ w[k].frame = w[l].frame => k = l
  <2>1. k + 1 \in DOMAIN q /\ l + 1 \in DOMAIN q /\ w[k] = q[k + 1] /\ w[l] = q[l + 1]
        /\ k \in Int /\ l \in Int
    BY <1>1
  <2>2. k + 1 = l + 1 => k = l
    BY <2>1
  <2> QED BY <1>3, <2>1, <2>2 DEF Grouped
<1>4. Grouped(w, open, cur, missing, gone)
  BY <1>2, <1>3 DEF Grouped
<1> QED BY <1>4 DEF w

-----------------------------------------------------------------------------
(* Room for one second                                                       *)

\* At most three types of message are not MSM.
LEMMA StationTypesFinite ==
  ASSUME Steady
  PROVE  /\ IsFiniteSet(StationTypes)
         /\ \A s \in 1..MaxSecond :
              Cardinality(MsmOf(s)) + Cardinality(StationTypes) <= Depth
<1>1. IsFiniteSet({1005, 1006, 1230})
  <2>1. IsFiniteSet({} \cup {1005}) /\ {} \cup {1005} = {1005}
    BY FS_EmptySet, FS_AddElement
  <2>2. IsFiniteSet({1005} \cup {1006}) /\ {1005} \cup {1006} = {1005, 1006}
    BY <2>1, FS_AddElement
  <2>3. IsFiniteSet({1005, 1006} \cup {1230}) /\ {1005, 1006} \cup {1230} = {1005, 1006, 1230}
    BY <2>2, FS_AddElement
  <2> QED BY <2>3
<1>2. StationTypes \subseteq {1005, 1006, 1230}
  BY DEF StationTypes, Steady, IsProtected
<1>3. \A s \in 1..MaxSecond : Cardinality(MsmOf(s)) + Cardinality(StationTypes) <= Depth
  BY DEF Steady
<1>4. IsFiniteSet(StationTypes)
  <2> DEFINE T == {1005, 1006, 1230}
  <2>1. IsFiniteSet(T) /\ StationTypes \in SUBSET T
    BY <1>1, <1>2
  <2> HIDE DEF T
  <2> QED BY <2>1, FS_Subset
<1> QED BY <1>3, <1>4

\* Distinct frames of the set A and protected types of the set B: the queue has no
\* more slots than these.
LEMMA QueueBound ==
  ASSUME NEW q \in Seq(Slots), MsmMarkedIn(q), ProtectedOnceIn(q), Steady,
         \A i, j \in DOMAIN q : (q[i].batchId # 0 /\ q[i].frame = q[j].frame) => i = j,
         NEW A, IsFiniteSet(A), NEW B, IsFiniteSet(B),
         \A i \in DOMAIN q : IF q[i].batchId # 0 THEN q[i].frame \in A ELSE q[i].frame.type \in B
  PROVE  Len(q) <= Cardinality(A) + Cardinality(B)
<1> DEFINE M == {i \in DOMAIN q : q[i].batchId # 0}
           P == {i \in DOMAIN q : q[i].batchId = 0}
           fM == [i \in M |-> q[i].frame]
           fP == [i \in P |-> q[i].frame.type]
<1>1. Len(q) \in Nat /\ DOMAIN q = 1..Len(q) /\ \A i \in DOMAIN q : q[i].frame \in Frames
  BY SlotsFacts
<1>2. fM \in Injection(M, A)
  BY DEF Injection, IsInjective
<1>3. fP \in Injection(P, B)
  <2>1. \A i \in P : IsProtected(q[i].frame.type)
    BY <1>1 DEF Steady, MsmMarkedIn
  <2>2. \A i, j \in P : q[i].frame.type = q[j].frame.type => i = j
    BY <2>1 DEF ProtectedOnceIn
  <2> QED BY <2>2 DEF Injection, IsInjective
<1>4. /\ IsFiniteSet(M) /\ Cardinality(M) <= Cardinality(A)
      /\ IsFiniteSet(P) /\ Cardinality(P) <= Cardinality(B)
  <2> HIDE DEF fM, fP, M, P
  <2> QED BY <1>2, <1>3, FS_Injection
<1>5. M \cap P = {} /\ M \cup P = 1..Len(q)
  BY <1>1
<1>6. Cardinality(1..Len(q)) = Len(q)
  BY SMTT(30), <1>1, FS_Interval
<1>7. /\ Cardinality(M) \in Nat /\ Cardinality(P) \in Nat
      /\ Cardinality(A) \in Nat /\ Cardinality(B) \in Nat
  BY <1>4, FS_CardinalityType
<1> HIDE DEF M, P
<1>8. Cardinality(M \cup P) = Cardinality(M) + Cardinality(P) - Cardinality({})
  BY <1>4, <1>5, FS_Union
<1>9. Cardinality({}) = 0
  BY FS_EmptySet
<1>10. Len(q) = Cardinality(M \cup P) /\ Cardinality(M \cap P) = Cardinality({})
  BY <1>5, <1>6
<1>11. Len(q) = Cardinality(M) + Cardinality(P)
  BY <1>7, <1>8, <1>9, <1>10
<1> QED BY <1>1, <1>4, <1>7, <1>11

\* With one second's frames at most in the queue, and a frame of that second or a
\* protected type not in it, there is a free slot.
LEMMA RoomLeft ==
  ASSUME Steady, NEW q \in Seq(Slots), MsmMarkedIn(q), ProtectedOnceIn(q),
         \A i, j \in DOMAIN q : (q[i].batchId # 0 /\ q[i].frame = q[j].frame) => i = j,
         NEW s \in 1..MaxSecond, NEW f \in Frames,
         IsMsm(f.type) => f \in MsmOf(s),
         \A i \in DOMAIN q : q[i].batchId # 0 => q[i].frame \in MsmOf(s) /\ q[i].frame # f,
         ~ IsMsm(f.type) => \A i \in DOMAIN q : q[i].frame.type # f.type
  PROVE  Len(q) < Depth
<1> DEFINE A == IF IsMsm(f.type) THEN MsmOf(s) \ {f} ELSE MsmOf(s)
           B == IF IsMsm(f.type) THEN StationTypes ELSE StationTypes \ {f.type}
<1>1. IsFiniteSet(StationTypes) /\ IsFiniteSet(MsmOf(s))
      /\ Cardinality(MsmOf(s)) + Cardinality(StationTypes) <= Depth
  BY StationTypesFinite DEF Steady
<1>2. /\ IsFiniteSet(A) /\ IsFiniteSet(B)
      /\ Cardinality(A) + Cardinality(B) < Depth
      /\ Cardinality(A) \in Nat /\ Cardinality(B) \in Nat
  <2>1. Cardinality(MsmOf(s)) \in Nat /\ Cardinality(StationTypes) \in Nat /\ Depth \in Nat
    BY <1>1, FS_CardinalityType, SizesAssumption
  <2>2. CASE IsMsm(f.type)
    <3>1. A = MsmOf(s) \ {f} /\ B = StationTypes /\ f \in MsmOf(s)
      BY <2>2
    <3>2. IsFiniteSet(A) /\ Cardinality(A) = Cardinality(MsmOf(s)) - 1
      BY <1>1, <3>1, FS_RemoveElement
    <3>3. Cardinality(A) \in Nat
      BY <3>2, FS_CardinalityType
    <3> QED BY <1>1, <2>1, <3>1, <3>2, <3>3
  <2>3. CASE ~ IsMsm(f.type)
    <3>1. A = MsmOf(s) /\ B = StationTypes \ {f.type} /\ f.type \in StationTypes
      BY <2>3 DEF StationTypes
    <3>2. IsFiniteSet(B) /\ Cardinality(B) = Cardinality(StationTypes) - 1
      BY <1>1, <3>1, FS_RemoveElement
    <3>3. Cardinality(B) \in Nat
      BY <3>2, FS_CardinalityType
    <3> QED BY <1>1, <2>1, <3>1, <3>2, <3>3
  <2> QED BY <2>2, <2>3
<1>3. Len(q) \in Nat /\ \A i \in DOMAIN q : q[i].frame \in Frames
  BY SlotsFacts
<1>4. \A i \in DOMAIN q : IF q[i].batchId # 0 THEN q[i].frame \in A ELSE q[i].frame.type \in B
  <2>1. SUFFICES ASSUME NEW i \in DOMAIN q
                 PROVE  IF q[i].batchId # 0 THEN q[i].frame \in A ELSE q[i].frame.type \in B
    OBVIOUS
  <2>2. q[i].batchId = 0 => q[i].frame.type \in StationTypes
    BY <1>3 DEF MsmMarkedIn, StationTypes
  <2> QED BY <2>2
<1> HIDE DEF A, B
<1>5. Len(q) <= Cardinality(A) + Cardinality(B)
  BY <1>2, <1>4, QueueBound
<1> QED BY <1>2, <1>3, <1>5, SizesAssumption

-----------------------------------------------------------------------------
(* The batch of a frame                                                      *)

\* What the invariant says of a queue under a receiver, unfolded.
LEMMA SecondsFacts ==
  ASSUME SecondsInv
  PROVE  /\ queue \in Seq(Slots) /\ openBatch \in 1..MaxBatch /\ Len(queue) <= Depth
         /\ Len(queue) \in Nat /\ DOMAIN queue = 1..Len(queue)
         /\ MsmMarkedIn(queue) /\ ProtectedOnceIn(queue)
         /\ \A i \in DOMAIN queue : /\ queue[i].frame \in Frames
                                    /\ queue[i].batchId \in 0..MaxBatch
                                    /\ queue[i].frame.second \in Int
         /\ \A i \in DOMAIN queue : queue[i].batchId # 0 =>
              /\ queue[i].frame.second \in 1..MaxSecond
              /\ queue[i].frame \in MsmOf(queue[i].frame.second)
         /\ now \in Int /\ now >= 1 /\ now <= MaxSecond /\ Cur \in Int /\ Cur <= now
         /\ MsmOf(now) # {}
<1>1. queue \in Seq(Slots) /\ openBatch \in 1..MaxBatch /\ Len(queue) <= Depth
      /\ MsmMarkedIn(queue) /\ ProtectedOnceIn(queue)
  BY DEF SecondsInv, QueueInv, TypeOK, SlotsInv
<1>2. /\ Len(queue) \in Nat /\ DOMAIN queue = 1..Len(queue)
      /\ \A i \in DOMAIN queue : queue[i].frame \in Frames /\ queue[i].batchId \in 0..MaxBatch
  BY <1>1, SlotsFacts
<1>3. \A i \in DOMAIN queue : queue[i].frame.second \in Int
  BY <1>2, SecondType
<1>4. \A i \in DOMAIN queue : queue[i].batchId # 0 =>
        /\ queue[i].frame.second \in 1..MaxSecond
        /\ queue[i].frame \in MsmOf(queue[i].frame.second)
  BY <1>1, <1>2, SecondType DEF MsmMarkedIn
<1>5. now \in 1..MaxSecond /\ Steady
  BY DEF SecondsInv
<1>6. now \in Int /\ now >= 1 /\ now <= MaxSecond /\ Cur \in Int /\ Cur <= now
  BY <1>5, SecondsAssumption DEF Cur
<1>7. MsmOf(now) # {}
  BY <1>5 DEF Steady
<1> QED BY <1>1, <1>2, <1>3, <1>4, <1>6, <1>7

\* No slot holds the number of the next batch.
LEMMA NextBatchUnused ==
  ASSUME QueueInv
  PROVE  \A i \in DOMAIN queue : queue[i].batchId # NextBatch(openBatch)
<1>1. queue \in Seq(Slots) /\ openBatch \in 1..MaxBatch /\ AgedIn(queue, openBatch, 0)
      /\ Len(queue) <= Depth
  BY DEF QueueInv, TypeOK, SlotsInv
<1>2. SUFFICES ASSUME NEW i \in DOMAIN queue, queue[i].batchId = NextBatch(openBatch)
               PROVE  FALSE
  OBVIOUS
<1>3. i \in 1..Len(queue) /\ Len(queue) \in Nat /\ NextBatch(openBatch) \in 1..MaxBatch
  BY <1>1, SlotsFacts, NextBatchType
<1>4. AgeIn(openBatch, NextBatch(openBatch)) = MaxBatch - 1
  BY <1>1, SizesAssumption DEF AgeIn, NextBatch
<1>5. AgeIn(openBatch, NextBatch(openBatch)) <= Len(queue) - i + 0
  BY <1>1, <1>2, <1>3 DEF AgedIn
<1> QED BY <1>1, <1>3, <1>4, <1>5, SizesAssumption

\* The batch the frame f of the second being sent is filed under holds that second and
\* no other, whether f opens it or not; and the family table holds what was sent of it.
LEMMA AssignSecond ==
  ASSUME SecondsInv, NEW f \in unsent
  PROVE  /\ AssignedFam(f) = {FamEntry(g) : g \in MsmOf(now) \ (unsent \ {f})}
         /\ Grouped(queue, AssignedBatch(f), now, unsent, broken)
         /\ f \in Frames /\ IsMsm(f.type) /\ f.second = now /\ f \in MsmOf(now)
<1>1. f \in Frames /\ IsMsm(f.type) /\ f.second = now /\ f \in MsmOf(now) /\ now \in 1..MaxSecond
  BY DEF SecondsInv, MsmOf
<1>2. /\ Steady /\ unsent \subseteq MsmOf(now)
      /\ fam = {FamEntry(g) : g \in Sent}
      /\ Grouped(queue, openBatch, Cur, unsent, broken)
  BY DEF SecondsInv
<1>3. /\ \A i \in DOMAIN queue : queue[i].frame.second \in Int
      /\ \A i \in DOMAIN queue : queue[i].batchId # 0 => queue[i].frame.second \in 1..MaxSecond
      /\ openBatch \in 1..MaxBatch
      /\ now \in Int /\ Cur \in Int
  BY SecondsFacts
<1>4. CASE unsent = MsmOf(now) /\ now # 1
  <2>1. Cur = now - 1 /\ fam = {FamEntry(g) : g \in MsmOf(now - 1)}
    BY <1>2, <1>4 DEF Cur, Sent
  <2>2. PICK g \in MsmOf(now - 1) : Family(f) = Family(g) /\ MsmEpoch30(f) # MsmEpoch30(g)
    BY <1>1, <1>2, <1>4 DEF Steady
  <2>3. ClosesOpenBatch(f)
    <3>1. FamEntry(g) \in fam /\ FamEntry(g).family = Family(g) /\ FamEntry(g).epoch = MsmEpoch30(g)
      BY <2>1 DEF FamEntry
    <3> QED BY <2>2, <3>1 DEF ClosesOpenBatch
  <2>4. AssignedBatch(f) = NextBatch(openBatch) /\ AssignedFam(f) = {FamEntry(f)}
    BY <2>3 DEF AssignedBatch, AssignedFam
  <2>5. AssignedFam(f) = {FamEntry(h) : h \in MsmOf(now) \ (unsent \ {f})}
    BY <1>1, <1>4, <2>4
  <2>6. \A i \in DOMAIN queue : queue[i].batchId # NextBatch(openBatch)
    BY NextBatchUnused DEF SecondsInv
  <2>7. \A i \in DOMAIN queue : queue[i].batchId # 0 => queue[i].frame.second < now
    BY <1>2, <1>3, <2>1 DEF Grouped
  <2>8. \A s \in broken : s \in Int /\ s < now
    BY <1>2, <1>3, <2>1 DEF Grouped
  <2>9. Grouped(queue, NextBatch(openBatch), now, unsent, broken)
    BY <1>2, <2>6, <2>7, <2>8 DEF Grouped
  <2> QED BY <1>1, <2>4, <2>5, <2>9
<1>5. CASE unsent = MsmOf(now) /\ now = 1
  <2>1. Cur = 0 /\ MsmOf(0) = {} /\ fam = {}
    <3>1. MsmOf(0) = {}
      BY SecondsAssumption DEF MsmOf
    <3> QED BY <1>2, <1>5, <3>1 DEF Cur, Sent
  <2>2. ~ ClosesOpenBatch(f)
    BY <2>1, SizesAssumption, FS_EmptySet DEF ClosesOpenBatch
  <2>3. AssignedBatch(f) = openBatch /\ AssignedFam(f) = {FamEntry(f)}
    BY <2>1, <2>2 DEF AssignedBatch, AssignedFam
  <2>4. AssignedFam(f) = {FamEntry(h) : h \in MsmOf(now) \ (unsent \ {f})}
    BY <1>1, <1>5, <2>3
  <2>5. \A i \in DOMAIN queue : queue[i].batchId = 0
    BY <1>2, <1>3, <2>1 DEF Grouped
  <2>6. \A s \in broken : s \in Int /\ s < now
    BY <1>2, <1>5, <2>1 DEF Grouped
  <2>7. Grouped(queue, openBatch, now, unsent, broken)
    BY <1>3, <2>5, <2>6 DEF Grouped
  <2> QED BY <1>1, <2>3, <2>4, <2>7
<1>6. CASE unsent # MsmOf(now)
  <2> DEFINE S == MsmOf(now) \ unsent
  <2>1. Cur = now /\ fam = {FamEntry(g) : g \in S}
    BY <1>2, <1>6 DEF Cur, Sent
  <2>2. \A r \in fam : r.family # Family(f)
    <3>1. SUFFICES ASSUME NEW g \in S, FamEntry(g).family = Family(f) PROVE FALSE
      BY <2>1
    <3>2. Family(g) = Family(f)
      BY <3>1 DEF FamEntry
    <3>3. g = f
      BY <1>1, <1>2, <3>2 DEF Steady
    <3> QED BY <3>3
  <2>3. Cardinality(fam) < FamilySlots /\ Cardinality(fam) \in Nat
    <3>1. IsFiniteSet(MsmOf(now)) /\ Cardinality(MsmOf(now)) <= FamilySlots
      BY <1>1, <1>2 DEF Steady
    <3>2. IsFiniteSet(S) /\ Cardinality(S) < Cardinality(MsmOf(now))
          /\ Cardinality(MsmOf(now)) \in Nat /\ Cardinality(S) \in Nat
      <4>1. IsFiniteSet(S) /\ Cardinality(S) <= Cardinality(MsmOf(now))
            /\ (Cardinality(MsmOf(now)) = Cardinality(S) => MsmOf(now) = S)
        BY <3>1, FS_Subset
      <4>2. MsmOf(now) # S
        BY <1>1
      <4>3. Cardinality(MsmOf(now)) \in Nat /\ Cardinality(S) \in Nat
        BY <3>1, <4>1, FS_CardinalityType
      <4> QED BY <4>1, <4>2, <4>3
    <3> DEFINE e == [g \in S |-> FamEntry(g)]
    <3>3. e \in Surjection(S, fam)
      BY <2>1 DEF Surjection
    <3>4. IsFiniteSet(fam) /\ Cardinality(fam) <= Cardinality(S)
      <4> HIDE DEF e, S
      <4> QED BY <3>2, <3>3, FS_Surjection
    <3>5. Cardinality(fam) \in Nat
      BY <3>4, FS_CardinalityType
    <3> QED BY <3>1, <3>2, <3>4, <3>5, SizesAssumption
  <2>4. ~ ClosesOpenBatch(f)
    <3>1. ~ (Cardinality(fam) >= FamilySlots)
      BY <2>3, SizesAssumption
    <3> QED BY <2>2, <3>1 DEF ClosesOpenBatch
  <2>5. AssignedBatch(f) = openBatch /\ AssignedFam(f) = fam \cup {FamEntry(f)}
    BY <2>4 DEF AssignedBatch, AssignedFam
  <2>6. MsmOf(now) \ (unsent \ {f}) = S \cup {f}
    BY <1>1
  <2>7. AssignedFam(f) = {FamEntry(g) : g \in MsmOf(now) \ (unsent \ {f})}
    BY <2>1, <2>5, <2>6
  <2> QED BY <1>1, <1>2, <2>1, <2>5, <2>7
<1> QED BY <1>4, <1>5, <1>6

-----------------------------------------------------------------------------
(* The steps                                                                 *)

\* The MSM frames of the queue and the frame pushed that are not queued afterwards are
\* of a second in H.
LostIn(f, H) ==
  \A g \in FramesIn(queue) \cup {f} : IsMsm(g.type) /\ g \notin FramesIn(queue') => g.second \in H

\* Seconds lost are seconds of frames lost.
LEMMA HitsAreLost ==
  ASSUME NEW f, NEW H, LostIn(f, H)
  PROVE  SecondsHit(f) \subseteq H
BY DEF SecondsHit, LostIn

\* Losing less keeps a queue grouped.
LEMMA GroupedLess ==
  ASSUME NEW q, NEW open, NEW cur, NEW missing, NEW gone, NEW less, less \subseteq gone,
         Grouped(q, open, cur, missing, gone)
  PROVE  Grouped(q, open, cur, missing, less)
BY DEF Grouped

\* A queue that holds nothing but protected frames and frames of second s has room
\* for f.
LEMMA OnlyOneBatch ==
  ASSUME SecondsInv, NEW open, NEW s \in 1..MaxSecond, NEW missing, NEW gone,
         Grouped(queue, open, s, missing, gone),
         \A i \in DOMAIN queue : queue[i].batchId \in {0, open},
         NEW f \in Frames,
         IF IsMsm(f.type) THEN f \in MsmOf(s) /\ f \in missing
                          ELSE \A i \in DOMAIN queue : queue[i].frame.type # f.type
  PROVE  Len(queue) < Depth
<1>1. /\ queue \in Seq(Slots) /\ MsmMarkedIn(queue) /\ ProtectedOnceIn(queue)
      /\ \A i \in DOMAIN queue : queue[i].batchId # 0 =>
           queue[i].frame \in MsmOf(queue[i].frame.second)
  BY SecondsFacts
<1>2. Steady
  BY DEF SecondsInv
<1>3. \A i \in DOMAIN queue : queue[i].batchId # 0 => queue[i].frame \in MsmOf(s)
  BY <1>1 DEF Grouped
<1>4. \A i \in DOMAIN queue : queue[i].batchId # 0 => queue[i].frame # f
  BY <1>1 DEF Grouped, MsmMarkedIn
<1>5. \A i, j \in DOMAIN queue : (queue[i].batchId # 0 /\ queue[i].frame = queue[j].frame) => i = j
  <2>1. SUFFICES ASSUME NEW i \in DOMAIN queue, NEW j \in DOMAIN queue,
                        queue[i].batchId # 0, queue[i].frame = queue[j].frame
                 PROVE  i = j
    OBVIOUS
  <2>2. queue[j].batchId # 0
    BY <1>1, <2>1 DEF MsmMarkedIn
  <2> QED BY <2>1, <2>2 DEF Grouped
<1>6. IsMsm(f.type) => f \in MsmOf(s)
  OBVIOUS
<1>7. ~ IsMsm(f.type) => \A i \in DOMAIN queue : queue[i].frame.type # f.type
  OBVIOUS
<1> QED BY <1>1, <1>2, <1>3, <1>4, <1>5, <1>6, <1>7, RoomLeft

\* A closed batch is evicted for f: the queue after it, and what was lost.
LEMMA EvictedFor ==
  ASSUME SecondsInv, NEW open, NEW cur,
         Grouped(queue, open, cur, unsent, broken),
         NEW v, v \notin {0, open}, SlotsOf(queue, v) # {},
         NEW f, NEW b, Append(Without(queue, v), NewSlot(f, b)) = queue', NewSlot(f, b) \in Slots
  PROVE  \E h : /\ Grouped(Without(queue, v), open, cur, unsent, broken \cup {h})
                /\ LostIn(f, {h})
<1> DEFINE w == Without(queue, v)
<1>1. PICK p \in DOMAIN queue : queue[p].batchId = v
  BY DEF SlotsOf
<1>2. queue \in Seq(Slots) /\ MsmMarkedIn(queue) /\ DOMAIN queue = 1..Len(queue)
  BY SecondsFacts
<1>3. Grouped(w, open, cur, unsent, broken \cup {queue[p].frame.second})
  BY <1>1, <1>2, GroupedWithout
<1>4. PICK m : Embeds(m, w, queue, v)
  BY <1>2, WithoutEmbeds
<1>5. w \in Seq(Slots) /\ DOMAIN w = 1..Len(w) /\ Len(w) \in Nat
  BY <1>2, WithoutType, LenProperties
<1> HIDE DEF w
<1>6. /\ \A k \in 1..Len(w) : k \in DOMAIN queue' /\ queue'[k] = w[k]
      /\ Len(w) + 1 \in DOMAIN queue' /\ queue'[Len(w) + 1] = NewSlot(f, b)
  BY <1>5, AppendFacts DEF w
<1>7. f \in FramesIn(queue')
  BY <1>6 DEF FramesIn, NewSlot
<1>8. \A i \in DOMAIN queue : queue[i].batchId # v => queue[i].frame \in FramesIn(queue')
  <2>1. SUFFICES ASSUME NEW i \in DOMAIN queue, queue[i].batchId # v
                 PROVE  queue[i].frame \in FramesIn(queue')
    OBVIOUS
  <2>2. PICK k \in 1..Len(w) : m[k] = i
    BY <1>2, <1>4, <2>1 DEF Embeds
  <2>3. queue'[k] = queue[i] /\ k \in DOMAIN queue'
    BY <1>4, <1>6, <2>2 DEF Embeds
  <2> QED BY <2>3 DEF FramesIn
<1>9. \A i \in DOMAIN queue : queue[i].batchId = v => queue[i].frame.second = queue[p].frame.second
  BY <1>1 DEF Grouped
<1>10. LostIn(f, {queue[p].frame.second})
  BY <1>7, <1>8, <1>9 DEF LostIn, FramesIn
<1> QED BY <1>3, <1>10 DEF w

\* Nothing queued is lost when a frame is appended.
LEMMA AppendedFor ==
  ASSUME queue \in Seq(Slots), NEW f, NEW b, NewSlot(f, b) \in Slots,
         queue' = Append(queue, NewSlot(f, b))
  PROVE  LostIn(f, {})
<1>1. /\ DOMAIN queue = 1..Len(queue)
      /\ \A k \in 1..Len(queue) : k \in DOMAIN queue' /\ queue'[k] = queue[k]
      /\ Len(queue) + 1 \in DOMAIN queue' /\ queue'[Len(queue) + 1] = NewSlot(f, b)
  BY AppendFacts
<1>2. f \in FramesIn(queue')
  BY <1>1 DEF FramesIn, NewSlot
<1>3. \A i \in DOMAIN queue : queue[i].frame \in FramesIn(queue')
  BY <1>1 DEF FramesIn
<1> QED BY <1>2, <1>3 DEF LostIn, FramesIn

\* An MSM frame of the second being sent is pushed: it is always stored.
LEMMA MsmStored ==
  ASSUME SecondsInv, NEW f \in unsent, Push(f)
  PROVE  /\ openBatch' = AssignedBatch(f) /\ fam' = AssignedFam(f)
         /\ \E H : /\ Grouped(queue', openBatch', now, unsent \ {f}, broken \cup H)
                   /\ LostIn(f, H)
<1> DEFINE batch == AssignedBatch(f)
           s == NewSlot(f, batch)
           older == OldestMsmBatch(queue, batch, TRUE)
<1>1. /\ Grouped(queue, batch, now, unsent, broken)
      /\ f \in Frames /\ IsMsm(f.type) /\ f.second = now /\ f \in MsmOf(now)
  BY AssignSecond
<1>2. /\ queue \in Seq(Slots) /\ Len(queue) \in Nat /\ Len(queue) <= Depth
      /\ now \in Int /\ now \in 1..MaxSecond /\ TypeOK /\ Steady
  BY SecondsFacts DEF SecondsInv, QueueInv
<1>3. Storable(f) /\ batch \in 1..MaxBatch /\ batch \in 0..MaxBatch
  BY <1>1, <1>2, AssignedType, SizesAssumption DEF Steady
<1>4. s \in Slots
  BY <1>1, <1>3, NewSlotType
<1>5. PushMsm(f)
  BY <1>1, <1>3, ProtectedNotMsm DEF Push, PushOversize, PushProtected, PushOther
<1>6. older = 0 => Len(queue) < Depth
  <2>1. SUFFICES ASSUME older = 0 PROVE Len(queue) < Depth
    OBVIOUS
  <2>2. \A i \in DOMAIN queue : queue[i].batchId \in {0, batch}
    BY <1>2, <2>1, OnlyOpenQueued
  <2> QED BY <1>1, <1>2, <2>2, OnlyOneBatch
<1>7. ~ (Len(queue) >= Depth) <=> Len(queue) < Depth
  BY <1>2, SizesAssumption
<1>8. StoreMsm(f) \/ EvictForMsm(f)
  BY <1>5, <1>6, <1>7 DEF PushMsm, DropOpenEpoch, RefuseMsm
<1> HIDE DEF batch, older
<1>9. CASE StoreMsm(f)
  <2>1. queue' = Append(queue, s) /\ openBatch' = batch /\ fam' = AssignedFam(f)
    BY <1>9 DEF StoreMsm, batch
  <2>2. Grouped(queue', openBatch', now, unsent \ {f}, broken)
    BY <1>1, <1>2, <1>3, <2>1, GroupedAppendMsm
  <2>3. LostIn(f, {}) /\ broken \cup {} = broken
    BY <1>2, <1>4, <2>1, AppendedFor
  <2> QED BY <2>1, <2>2, <2>3 DEF batch
<1>10. CASE EvictForMsm(f)
  <2>1. /\ queue' = Append(Without(queue, older), s)
        /\ openBatch' = batch /\ fam' = AssignedFam(f) /\ older # 0
    BY <1>10 DEF EvictForMsm, batch, older
  <2>2. SlotsOf(queue, older) # {} /\ older \notin {0, batch}
    <3>1. SlotsOf(queue, older) # {}
      BY <1>2, <2>1, OldestQueued DEF older
    <3>2. \E p \in Evictable(queue, batch, TRUE) : older = queue[p].batchId
      BY <1>2, <2>1, OldestFound DEF older
    <3>3. older # batch
      BY <3>2 DEF Evictable
    <3> QED BY <2>1, <3>1, <3>3
  <2>3. PICK h : /\ Grouped(Without(queue, older), batch, now, unsent, broken \cup {h})
                 /\ LostIn(f, {h})
    BY <1>1, <1>4, <2>1, <2>2, EvictedFor
  <2>4. Without(queue, older) \in Seq(Slots)
    BY <1>2, WithoutType
  <2>5. Grouped(queue', openBatch', now, unsent \ {f}, broken \cup {h})
    BY <1>1, <1>2, <1>3, <2>1, <2>3, <2>4, GroupedAppendMsm
  <2> QED BY <2>1, <2>3, <2>5 DEF batch
<1> QED BY <1>8, <1>9, <1>10

\* A protected message is pushed: it never costs the open batch.
LEMMA StationKept ==
  ASSUME SecondsInv, NEW f \in Frames, ~ IsMsm(f.type), Push(f)
  PROVE  /\ openBatch' = openBatch /\ fam' = fam
         /\ \E H : /\ Grouped(queue', openBatch', Cur, unsent, broken \cup H)
                   /\ LostIn(f, H)
<1> DEFINE s == NewSlot(f, 0)
           victim == VictimBatch(queue, openBatch)
           closed == OldestMsmBatch(queue, openBatch, TRUE)
<1>1. /\ Grouped(queue, openBatch, Cur, unsent, broken) /\ Steady
      /\ now \in 1..MaxSecond /\ unsent \subseteq MsmOf(now)
  BY DEF SecondsInv
<1>2. /\ queue \in Seq(Slots) /\ Len(queue) \in Nat /\ Len(queue) <= Depth
      /\ openBatch \in 1..MaxBatch /\ MsmMarkedIn(queue)
      /\ \A i \in DOMAIN queue : queue[i].frame \in Frames
  BY SecondsFacts
<1>3. Storable(f) /\ IsProtected(f.type) /\ s \in Slots /\ s.batchId = 0
  BY <1>1, NewSlotType, SizesAssumption DEF Steady, NewSlot
<1>4. PushProtected(f)
  BY <1>3 DEF Push, PushOversize, PushMsm, PushOther
<1>5. CASE ReplaceProtected(f)
  <2>1. PICK i \in DOMAIN queue : queue[i].frame.type = f.type /\ queue' = [queue EXCEPT ![i] = s]
    BY <1>5 DEF ReplaceProtected
  <2>2. openBatch' = openBatch /\ fam' = fam
    BY <1>5 DEF ReplaceProtected
  <2>3. Grouped(queue', openBatch', Cur, unsent, broken)
    BY <1>1, <1>2, <2>1, <2>2, GroupedReplace
  <2>4. LostIn(f, {})
    <3>1. \A j \in DOMAIN queue : j # i => j \in DOMAIN queue' /\ queue'[j] = queue[j]
      BY <2>1
    <3>2. ~ IsMsm(queue[i].frame.type)
      BY <2>1
    <3> QED BY <3>1, <3>2 DEF LostIn, FramesIn
  <2>5. broken \cup {} = broken
    OBVIOUS
  <2> QED BY <2>2, <2>3, <2>4, <2>5
<1>6. CASE StorePlain(f)
  <2>1. queue' = Append(queue, s) /\ openBatch' = openBatch /\ fam' = fam
    BY <1>6 DEF StorePlain
  <2>2. Grouped(queue', openBatch', Cur, unsent, broken)
    BY <1>1, <1>2, <1>3, <2>1, GroupedAppendPlain
  <2>3. LostIn(f, {}) /\ broken \cup {} = broken
    BY <1>2, <1>3, <2>1, AppendedFor
  <2> QED BY <2>1, <2>2, <2>3
<1>7. CASE RefusePlain("byProtectedKept")
  <2>1. queue' = queue /\ openBatch' = openBatch /\ fam' = fam
    BY <1>7 DEF RefusePlain
  <2>2. LostIn(f, {}) /\ broken \cup {} = broken
    BY <2>1 DEF LostIn, FramesIn
  <2> QED BY <1>1, <2>1, <2>2
<1>8. CASE EvictForPlain(f) /\ ~ IsQueued(f.type)
  <2>1. /\ Len(queue) >= Depth /\ victim # 0
        /\ queue' = Append(Without(queue, victim), s)
        /\ IF victim = openBatch THEN openBatch' = NextBatch(openBatch) /\ fam' = {}
           ELSE UNCHANGED <<openBatch, fam>>
    BY <1>8 DEF EvictForPlain
  <2>2. closed # 0
    <3>1. SUFFICES ASSUME closed = 0 PROVE FALSE
      OBVIOUS
    <3>2. \A i \in DOMAIN queue : queue[i].batchId \in {0, openBatch}
      BY <1>2, <3>1, OnlyOpenQueued
    <3>3. \A i \in DOMAIN queue : queue[i].frame.type # f.type
      BY <1>8 DEF IsQueued
    <3>4. CASE Cur \in 1..MaxSecond
      <4>1. Len(queue) < Depth
        BY <1>1, <3>2, <3>3, <3>4, OnlyOneBatch
      <4> QED BY <1>2, <2>1, <4>1, SizesAssumption
    <3>5. CASE Cur \notin 1..MaxSecond
      <4>1. now \in Int /\ Cur = 0 /\ MaxSecond \in Nat
        BY <1>1, <3>5, SecondsAssumption DEF Cur
      <4>2. \A i \in DOMAIN queue : queue[i].batchId = 0
        BY <1>1, <3>2, <4>1, SecondsFacts DEF Grouped
      <4>3. Evictable(queue, openBatch, FALSE) = {} /\ Evictable(queue, openBatch, TRUE) = {}
        BY <4>2 DEF Evictable
      <4>4. victim = 0
        BY <4>3 DEF VictimBatch, OldestMsmBatch
      <4> QED BY <2>1, <4>4
    <3> QED BY <3>4, <3>5
  <2>3. victim = closed
    BY <2>2 DEF VictimBatch
  <2>4. \E p \in Evictable(queue, openBatch, TRUE) : closed = queue[p].batchId
    BY <1>2, <2>2, OldestFound
  <2>5. closed \notin {0, openBatch} /\ SlotsOf(queue, closed) # {}
    BY <2>2, <2>4 DEF Evictable, SlotsOf
  <2> HIDE DEF victim, closed
  <2>6. openBatch' = openBatch /\ fam' = fam /\ queue' = Append(Without(queue, closed), s)
    BY <2>1, <2>3, <2>5
  <2>7. PICK h : /\ Grouped(Without(queue, closed), openBatch, Cur, unsent, broken \cup {h})
                 /\ LostIn(f, {h})
    BY <1>1, <1>3, <2>5, <2>6, EvictedFor
  <2>8. Without(queue, closed) \in Seq(Slots)
    BY <1>2, WithoutType
  <2>9. Grouped(queue', openBatch', Cur, unsent, broken \cup {h})
    BY <1>2, <1>3, <2>6, <2>7, <2>8, GroupedAppendPlain
  <2> QED BY <2>6, <2>7, <2>9
<1> QED BY <1>4, <1>5, <1>6, <1>7, <1>8 DEF PushProtected

-----------------------------------------------------------------------------
(* The invariant                                                             *)

\* A step of the stream is a step of the queue, or leaves it alone.
LEMMA StreamIsQueue ==
  ASSUME unsent \subseteq Frames, [StreamNext]_<<vars, stream>>
  PROVE  [Next]_vars
BY DEF StreamNext, SendMsm, SendStation, NextSecond, Consume, Next, vars

\* The second being sent goes on.
LEMMA SendMsmInv ==
  ASSUME SecondsInv, QueueInv', NEW f \in unsent, SendMsm(f)
  PROVE  SecondsInv'
<1>1. /\ Push(f) /\ unsent' = unsent \ {f} /\ now' = now
      /\ broken' = broken \cup SecondsHit(f)
  BY DEF SendMsm
<1>2. openBatch' = AssignedBatch(f) /\ fam' = AssignedFam(f)
  BY <1>1, MsmStored
<1>3. PICK H : /\ Grouped(queue', openBatch', now, unsent \ {f}, broken \cup H)
               /\ LostIn(f, H)
  BY <1>1, MsmStored
<1>4. /\ AssignedFam(f) = {FamEntry(g) : g \in MsmOf(now) \ (unsent \ {f})}
      /\ f \in MsmOf(now)
  BY AssignSecond
<1>5. Steady /\ now \in 1..MaxSecond /\ unsent \subseteq MsmOf(now)
  BY DEF SecondsInv
<1>6. unsent' # MsmOf(now)
  BY <1>1, <1>4
<1>7. Cur' = now /\ Sent' = MsmOf(now) \ unsent'
  BY <1>1, <1>6 DEF Cur, Sent
<1>8. fam' = {FamEntry(g) : g \in Sent'}
  BY <1>1, <1>2, <1>4, <1>7
<1>9. broken' \subseteq broken \cup H
  BY <1>1, <1>3, HitsAreLost
<1>10. Grouped(queue', openBatch', Cur', unsent', broken')
  BY <1>1, <1>3, <1>7, <1>9, GroupedLess
<1>11. unsent' \subseteq MsmOf(now)
  BY <1>1, <1>5
<1> QED BY <1>1, <1>5, <1>8, <1>10, <1>11 DEF SecondsInv

\* A station message comes in between.
LEMMA SendStationInv ==
  ASSUME SecondsInv, QueueInv', NEW f \in Frames, ~ IsMsm(f.type), SendStation(f)
  PROVE  SecondsInv'
<1>1. /\ Push(f) /\ unsent' = unsent /\ now' = now
      /\ broken' = broken \cup SecondsHit(f)
  BY DEF SendStation
<1>2. fam' = fam
  BY <1>1, StationKept
<1>3. PICK H : /\ Grouped(queue', openBatch', Cur, unsent, broken \cup H)
               /\ LostIn(f, H)
  BY <1>1, StationKept
<1>4. Steady /\ now \in 1..MaxSecond /\ unsent \subseteq MsmOf(now)
      /\ fam = {FamEntry(g) : g \in Sent}
  BY DEF SecondsInv
<1>5. Cur' = Cur /\ Sent' = Sent
  BY <1>1 DEF Cur, Sent
<1>6. broken' \subseteq broken \cup H
  BY <1>1, <1>3, HitsAreLost
<1>7. Grouped(queue', openBatch', Cur', unsent', broken')
  BY <1>1, <1>3, <1>5, <1>6, GroupedLess
<1>8. fam' = {FamEntry(g) : g \in Sent'}
  BY <1>2, <1>4, <1>5
<1> QED BY <1>1, <1>4, <1>7, <1>8 DEF SecondsInv

\* The next second begins once this one is sent.
LEMMA NextSecondInv ==
  ASSUME SecondsInv, QueueInv', NextSecond
  PROVE  SecondsInv'
<1>1. /\ unsent = {} /\ now < MaxSecond /\ now' = now + 1 /\ unsent' = MsmOf(now + 1)
      /\ queue' = queue /\ openBatch' = openBatch /\ fam' = fam /\ broken' = broken
  BY DEF NextSecond, vars
<1>2. Steady /\ now \in 1..MaxSecond /\ fam = {FamEntry(g) : g \in Sent}
      /\ Grouped(queue, openBatch, Cur, unsent, broken)
  BY DEF SecondsInv
<1>3. /\ now \in Int /\ MsmOf(now) # {}
      /\ \A i \in DOMAIN queue : queue[i].frame.second \in Int
  BY SecondsFacts
<1>4. now' \in 1..MaxSecond
  BY <1>1, <1>2, <1>3, SecondsAssumption
<1>5. Cur = now /\ Sent = MsmOf(now)
  BY <1>1, <1>3 DEF Cur, Sent
<1>6. Cur' = now
  BY <1>1, <1>3 DEF Cur
<1>7. Sent' = MsmOf(now)
  <2>1. now' - 1 = now
    BY <1>1, <1>3
  <2> QED BY <1>1, <2>1 DEF Sent
<1>8. \A i \in DOMAIN queue : queue[i].batchId # 0 => queue[i].frame.second <= now
  BY <1>2, <1>3, <1>5 DEF Grouped
<1>9. \A i \in DOMAIN queue : queue[i].batchId # 0 => queue[i].frame \notin MsmOf(now + 1)
  BY <1>3, <1>8 DEF MsmOf
<1>10. Grouped(queue, openBatch, now, MsmOf(now + 1), broken)
  BY <1>2, <1>5, <1>9 DEF Grouped
<1>11. Grouped(queue', openBatch', Cur', unsent', broken')
  BY <1>1, <1>6, <1>10
<1>12. fam' = {FamEntry(g) : g \in Sent'}
  BY <1>1, <1>2, <1>5, <1>7
<1> QED BY <1>1, <1>2, <1>4, <1>11, <1>12 DEF SecondsInv

\* The consumer takes the head, or nothing happens.
LEMMA ConsumeInv ==
  ASSUME SecondsInv, QueueInv', stream' = stream,
         Pulled \/ queue' = queue, openBatch' = openBatch, fam' = fam
  PROVE  SecondsInv'
<1>1. now' = now /\ unsent' = unsent /\ broken' = broken
  BY DEF stream
<1>2. /\ Steady /\ now \in 1..MaxSecond /\ unsent \subseteq MsmOf(now)
      /\ fam = {FamEntry(g) : g \in Sent}
      /\ Grouped(queue, openBatch, Cur, unsent, broken) /\ queue \in Seq(Slots)
  BY SecondsFacts DEF SecondsInv
<1>3. Cur' = Cur /\ Sent' = Sent
  BY <1>1 DEF Cur, Sent
<1>4. Grouped(queue', openBatch, Cur, unsent, broken)
  BY <1>2, GroupedTail DEF Pulled
<1>5. Grouped(queue', openBatch', Cur', unsent', broken')
  BY <1>1, <1>3, <1>4
<1>6. fam' = {FamEntry(g) : g \in Sent'}
  BY <1>2, <1>3
<1> QED BY <1>1, <1>2, <1>5, <1>6 DEF SecondsInv

\* The empty queue of the first second.
LEMMA SecondsInitInv == Steady /\ StreamInit => SecondsInv
<1> SUFFICES ASSUME Steady, StreamInit PROVE SecondsInv
  OBVIOUS
<1>1. queue = <<>> /\ openBatch = 1 /\ fam = {} /\ now = 1 /\ unsent = MsmOf(1) /\ broken = {}
  BY DEF StreamInit, Init
<1>2. QueueInv
  BY InitInv DEF StreamInit
<1>3. now \in 1..MaxSecond
  BY <1>1, SecondsAssumption
<1>4. MsmOf(0) = {}
  BY SecondsAssumption DEF MsmOf
<1>5. Sent = {}
  BY <1>1, <1>4 DEF Sent
<1>6. DOMAIN queue = {}
  BY <1>1, EmptySeq
<1>7. Grouped(queue, openBatch, Cur, unsent, broken)
  BY <1>1, <1>6 DEF Grouped
<1> QED BY <1>1, <1>2, <1>3, <1>5, <1>7 DEF SecondsInv

\* The invariant holds in every reachable state of a steady stream.
LEMMA SecondsAlways == Steady /\ StreamSpec => []SecondsInv
<1>1. Steady /\ StreamInit => SecondsInv
  BY SecondsInitInv
<1>2. SecondsInv /\ [StreamNext]_<<vars, stream>> => SecondsInv'
  <2> SUFFICES ASSUME SecondsInv, [StreamNext]_<<vars, stream>> PROVE SecondsInv'
    OBVIOUS
  <2>1. QueueInv'
    <3>1. unsent \subseteq Frames /\ QueueInv
      BY DEF SecondsInv, MsmOf
    <3>2. [Next]_vars
      BY <3>1, StreamIsQueue
    <3> QED BY <3>1, <3>2, InvStep
  <2>2. CASE \E f \in unsent : SendMsm(f)
    BY <2>1, <2>2, SendMsmInv
  <2>3. CASE \E f \in Frames : ~ IsMsm(f.type) /\ SendStation(f)
    BY <2>1, <2>3, SendStationInv
  <2>4. CASE NextSecond
    BY <2>1, <2>4, NextSecondInv
  <2>5. CASE \E w \in Writable : Consume(w)
    <3>1. /\ stream' = stream /\ Pulled /\ openBatch' = openBatch /\ fam' = fam
      BY <2>5 DEF Consume, Pull, Pulled, stream
    <3> QED BY <2>1, <3>1, ConsumeInv
  <2>6. CASE UNCHANGED <<vars, stream>>
    <3>1. stream' = stream /\ queue' = queue /\ openBatch' = openBatch /\ fam' = fam
      BY <2>6 DEF vars, stream
    <3> QED BY <2>1, <3>1, ConsumeInv
  <2> QED BY <2>2, <2>3, <2>4, <2>5, <2>6 DEF StreamNext
<1> QED BY <1>1, <1>2, PTL DEF StreamSpec

-----------------------------------------------------------------------------
(* The theorems                                                              *)

\* REQ-FQ-02: the queue drops "whole MSM epochs rather than a partial epoch".  Of a
\* steady stream, a second that lost an MSM frame has no other frame in the queue.
THEOREM SecondsDropWhole == Steady /\ StreamSpec => []WholeSeconds
<1>1. SecondsInv => WholeSeconds
  BY DEF SecondsInv, Grouped, WholeSeconds, QueuedSeconds
<1> QED BY <1>1, SecondsAlways, PTL

\* The second being sent never loses a frame, whatever is queued before it and however
\* slowly the consumer pulls.
THEOREM OpenSecondKept == Steady /\ StreamSpec => []OpenSecondSurvives
<1>1. SecondsInv => OpenSecondSurvives
  <2>1. SUFFICES ASSUME SecondsInv, now \in broken PROVE FALSE
    BY DEF OpenSecondSurvives
  <2>2. now < Cur /\ now \in Int /\ Cur \in Int /\ Cur <= now
    BY <2>1, SecondsFacts DEF SecondsInv, Grouped
  <2> QED BY <2>2
<1> QED BY <1>1, SecondsAlways, PTL

=============================================================================
