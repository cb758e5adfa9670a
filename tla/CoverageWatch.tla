---------------------------- MODULE CoverageWatch ----------------------------
(***************************************************************************)
(* The type table under a clock: frames arrive, the application stamps the *)
(* hub with millis() when it likes, and coverageCheck() is asked at any    *)
(* time.  The history keeps what the table is about.                       *)
(***************************************************************************)
EXTENDS StreamStats, FiniteSets, FiniteSetsExt

CONSTANTS
  Types, Lens,  \* the frames that arrive: types and lengths
  LateAfter,    \* lateAfterMs
  Steps,        \* how far the clock goes at once
  MaxTime,      \* bound on the time
  MaxFrames     \* bound on the frames between two resets

\* A limit of 0 turns the lateness check off.  MaxFrames < U32 bounds the frames of
\* one type between two resets by what its 32-bit row counter can count.
ASSUME WatchAssumption ==
  /\ Types \subseteq Nat /\ Lens \subseteq Nat /\ Steps \subseteq Nat
  /\ LateAfter \in Nat \ {0}
  /\ MaxTime \in Nat
  /\ MaxFrames \in Nat /\ MaxFrames < U32

VARIABLES
  stats,
  time,         \* the real time: millis() is Wrap(time)
  stamp,        \* the real time of the last setNowMs(), 0 before the first
  log           \* the frames whose CRC passed since the last reset

vars == <<stats, time, stamp, log>>

Wait(d) ==
  /\ time + d <= MaxTime
  /\ time' = time + d
  /\ UNCHANGED <<stats, stamp, log>>

SetNowMs == stamp' = time /\ UNCHANGED <<stats, time, log>>

Pass(t, len) ==
  /\ Len(log) < MaxFrames
  /\ stats' = OnCrcPass(stats, t, len, Wrap(stamp))
  /\ log' = Append(log, [messageType |-> t, len |-> len, at |-> stamp])
  /\ UNCHANGED <<time, stamp>>

\* Mutant: the rows outlive the reset.
StatsResetKeepingRows ==
  /\ stats' = [NewStats EXCEPT !.rows = stats.rows]
  /\ log' = <<>>
  /\ UNCHANGED <<time, stamp>>

StatsReset == stats' = NewStats /\ log' = <<>> /\ UNCHANGED <<time, stamp>>

Init == stats = NewStats /\ time = 0 /\ stamp = 0 /\ log = <<>>

Next ==
  \/ \E d \in Steps : Wait(d)
  \/ SetNowMs
  \/ \E t \in Types, len \in Lens : Pass(t, len)
  \/ StatsReset

Spec == Init /\ [][Next]_vars

-----------------------------------------------------------------------------
(* Properties                                                                *)

\* The frames of a type in the log, and those that came with a time.
Of(t) == {k \in DOMAIN log : log[k].messageType = t}

Stamped(t) == {k \in Of(t) : Wrap(log[k].at) # 0}

Lengths == [k \in DOMAIN log |-> log[k].len]

Bytes(ks) == MapThenSumSet(LAMBDA k : Lengths[k], ks)

LastAt(t) == log[Max(Of(t))].at

\* A required type is flagged missing exactly when none of its frames was seen
\* since the reset, as long as the table never overflowed.
MissingMeansNeverSeen ==
  stats.rowOverflow = 0 =>
    \A t \in Required : Missing(stats, t) <=> Of(t) = {}

\* A type is never called late while its last frame is recent, and while the clock
\* has not wrapped since that frame it is called late as soon as it is.  A frame at
\* the very millisecond the clock reads 0 has no time: lastSeenMs 0 stands for none.
LateMeansOld ==
  \A t \in Required : RowOf(stats, t) # {} =>
    LET late == Late(stats, t, Wrap(time), LateAfter)
        old == time - LastAt(t) > LateAfter
    IN  /\ late => old
        /\ old /\ Wrap(LastAt(t)) # 0 /\ time \div U32 = LastAt(t) \div U32 => late

\* Two frames of the type that came with a time, and none between them that did.
InARow(t, i, j) ==
  /\ i \in Stamped(t) /\ j \in Stamped(t) /\ i < j
  /\ (i + 1)..(j - 1) \cap Stamped(t) = {}

\* The clock did not wrap between the two.
SameLap(i, j) == log[i].at \div U32 = log[j].at \div U32

\* The times that went by between a frame of the type and the next, of those that
\* came with a time, and those of them in which the clock did not wrap.
Gaps(t) ==
  {g \in 0..time : \E i, j \in Stamped(t) : InARow(t, i, j) /\ g = log[j].at - log[i].at}

GapsInLap(t) ==
  {g \in 0..time : \E i, j \in Stamped(t) :
     InARow(t, i, j) /\ SameLap(i, j) /\ g = log[j].at - log[i].at}

\* maxGap never exceeds a silence that really was, and no silence without a wrap of
\* the clock exceeds it.  One with a wrap in it may be recorded shorter than it was.
MaxGapIsReal ==
  \A i \in DOMAIN stats.rows :
    LET row == stats.rows[i]
    IN  /\ row.maxGap <= Max({0} \cup Gaps(row.messageType))
        /\ \A g \in GapsInLap(row.messageType) : g <= row.maxGap

\* bytesPerSec is the average over the last window of at least a second that a
\* frame closed; the bytes that opened a window count in the first only.
RateIsLastWindow ==
  \A i \in DOMAIN stats.rows :
    LET row == stats.rows[i]
        ks == Stamped(row.messageType)
        Within(a, b) == Wrap(Wrap(log[b].at) - Wrap(log[a].at))
    IN  \/ /\ row.bytesPerSec = 0 /\ row.windowBytes = Wrap(Bytes(ks))
           /\ \A k \in ks : Within(Min(ks), k) < Second
        \/ \E a, b \in ks :
             /\ a < b /\ Within(a, b) >= Second
             /\ \A k \in ks : k > b => Within(b, k) < Second
             /\ row.windowBytes = Wrap(Bytes({k \in ks : k > b}))
             /\ row.bytesPerSec = Wrap((Wrap(Bytes({k \in ks : (a < k \/ a = Min(ks)) /\ k <= b}))
                                        * Second) \div Within(a, b))

=============================================================================
