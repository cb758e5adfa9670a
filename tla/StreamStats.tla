---------------------------- MODULE StreamStats ----------------------------
(***************************************************************************)
(* The stream counters (src/src/TinyRtcmStats.h) and the stock filters     *)
(* (src/src/TinyRtcmPolicy.h): each operation maps a StreamStats to the    *)
(* next.  Counters are uint32_t and wrap at U32.                           *)
(***************************************************************************)
EXTENDS Integers, Sequences

CONSTANTS
  U32,        \* 2^32 in the code
  TableCap,   \* kTypeTableCap: 48 in the code
  Second      \* 1000 ms in the code

ASSUME StatsAssumption ==
  U32 \in Nat \ {0} /\ TableCap \in Nat /\ Second \in Nat \ {0}

Wrap(n) == n % U32

-----------------------------------------------------------------------------
(* Message types                                                             *)

IsStationIdentity(t) == t \in {1005, 1006, 1033}

IsMsmType(t) == t \in 1071..1127

Filters == {"none", "KeepStationAndMsm", "DropMsm", "IsoOnly"}

\* What the stock filters let through.
Passes(filter, t) ==
  CASE filter = "none" -> TRUE
    [] filter = "KeepStationAndMsm" -> IsStationIdentity(t) \/ IsMsmType(t)
    [] filter = "DropMsm" -> ~ IsMsmType(t)
    [] filter = "IsoOnly" -> IsStationIdentity(t)

Families == {"1005", "1006", "1033", "msm4", "msm7", "other"}

FamilyOf(t) ==
  CASE t = 1005 -> "1005"
    [] t = 1006 -> "1006"
    [] t = 1033 -> "1033"
    [] IsMsmType(t) /\ t % 10 = 4 -> "msm4"
    [] IsMsmType(t) /\ t % 10 = 7 -> "msm7"
    [] OTHER -> "other"

\* kOnocoyRequiredTypes
Required == {1005, 1033, 1077, 1087, 1097, 1117, 1127, 1137, 1230}

-----------------------------------------------------------------------------
(* The counters                                                              *)

NewRow(t) ==
  [messageType |-> t, count |-> 0, bytes |-> 0, lastSeen |-> 0, bytesPerSec |-> 0,
   maxGap |-> 0, windowBytes |-> 0, windowStart |-> 0]

NewStats ==
  [bytesIn |-> 0, framesOk |-> 0, framesBadCrc |-> 0, framesDropped |-> 0,
   framesOverflow |-> 0, hist |-> [f \in Families |-> 0],
   rows |-> <<>>, rowOverflow |-> 0, decodeMask |-> {}]

OnByte(s) == [s EXCEPT !.bytesIn = Wrap(@ + 1)]

\* Mutant: a frame the filter dropped is a good frame too.
OnStatusBoth(s, st, dropped, t) ==
  LET t1 == IF dropped THEN [s EXCEPT !.framesDropped = Wrap(@ + 1)] ELSE s IN
  CASE st = "Ok" -> [t1 EXCEPT !.framesOk = Wrap(@ + 1),
                               !.hist[FamilyOf(t)] = IF t = 0 THEN @ ELSE Wrap(@ + 1)]
    [] st = "BadCrc" -> [t1 EXCEPT !.framesBadCrc = Wrap(@ + 1)]
    [] st = "Overflow" -> [t1 EXCEPT !.framesOverflow = Wrap(@ + 1)]

\* Type 0 is counted as a frame and in no family.
OnStatus(s, st, dropped, t) ==
  CASE dropped -> [s EXCEPT !.framesDropped = Wrap(@ + 1)]
    [] ~ dropped /\ st = "Ok" ->
         [s EXCEPT !.framesOk = Wrap(@ + 1),
                   !.hist[FamilyOf(t)] = IF t = 0 THEN @ ELSE Wrap(@ + 1)]
    [] ~ dropped /\ st = "BadCrc" -> [s EXCEPT !.framesBadCrc = Wrap(@ + 1)]
    [] ~ dropped /\ st = "Overflow" -> [s EXCEPT !.framesOverflow = Wrap(@ + 1)]

RowOf(s, t) == {i \in DOMAIN s.rows : s.rows[i].messageType = t}

\* The gap since the last frame, unless the clock wrapped or was not set.
GapKnown(row, now) == row.lastSeen # 0 /\ now >= row.lastSeen

\* Mutant: the gap is that of the last two frames.
GapLast(row, now) == IF GapKnown(row, now) THEN now - row.lastSeen ELSE row.maxGap

Gap(row, now) ==
  IF GapKnown(row, now) /\ now - row.lastSeen > row.maxGap
  THEN now - row.lastSeen ELSE row.maxGap

\* Mutant: the bytes of a closed window are carried into the next.
RatedCarrying(row, len, now) ==
  LET start == IF row.windowStart = 0 THEN now ELSE row.windowStart
      bytes == Wrap(row.windowBytes + len)
      elapsed == Wrap(now - start)
  IN  IF elapsed >= Second
      THEN [row EXCEPT !.bytesPerSec = Wrap((bytes * Second) \div elapsed),
                       !.windowBytes = bytes, !.windowStart = now]
      ELSE [row EXCEPT !.windowBytes = bytes, !.windowStart = start]

\* The rate is taken when a window of at least a second closes.
Rated(row, len, now) ==
  LET start == IF row.windowStart = 0 THEN now ELSE row.windowStart
      bytes == Wrap(row.windowBytes + len)
      elapsed == Wrap(now - start)
  IN  IF elapsed >= Second
      THEN [row EXCEPT !.bytesPerSec = Wrap((bytes * Second) \div elapsed),
                       !.windowBytes = 0, !.windowStart = now]
      ELSE [row EXCEPT !.windowBytes = bytes, !.windowStart = start]

Touched(row, len, now) ==
  LET counted == [row EXCEPT !.count = Wrap(@ + 1), !.bytes = Wrap(@ + len)]
  IN  IF now = 0 THEN counted
      ELSE [Rated(counted, len, now) EXCEPT !.maxGap = Gap(row, now), !.lastSeen = now]

\* The types the table keeps a row for: 0 has none.
Tracked == 1..4095

\* A frame whose CRC passed, whatever the filter says of it.
OnCrcPass(s, t, len, now) ==
  CASE t \notin Tracked -> s
    [] t \in Tracked /\ RowOf(s, t) # {} ->
         [s EXCEPT !.rows = [i \in DOMAIN @ |->
            IF i \in RowOf(s, t) THEN Touched(@[i], len, now) ELSE @[i]]]
    [] t \in Tracked /\ RowOf(s, t) = {} /\ Len(s.rows) < TableCap ->
         [s EXCEPT !.rows = Append(@, Touched(NewRow(t), len, now))]
    [] OTHER -> [s EXCEPT !.rowOverflow = Wrap(@ + 1)]

DecodeMaskSet(s, t, enabled) ==
  [s EXCEPT !.decodeMask = IF t > 4095 THEN @ ELSE IF enabled THEN @ \cup {t} ELSE @ \ {t}]

DecodeMaskClear(s) == [s EXCEPT !.decodeMask = {}]

Missing(s, t) == ~ \E i \in RowOf(s, t) : s.rows[i].count # 0

\* Mutant: late from the first millisecond of the limit.
LateEarly(s, t, now, lateAfter) ==
  /\ ~ Missing(s, t) /\ now # 0 /\ lateAfter > 0
  /\ \E i \in RowOf(s, t) :
       /\ s.rows[i].lastSeen # 0 /\ now > s.rows[i].lastSeen
       /\ now - s.rows[i].lastSeen >= lateAfter

Late(s, t, now, lateAfter) ==
  /\ ~ Missing(s, t) /\ now # 0 /\ lateAfter > 0
  /\ \E i \in RowOf(s, t) :
       /\ s.rows[i].lastSeen # 0 /\ now > s.rows[i].lastSeen
       /\ now - s.rows[i].lastSeen > lateAfter

\* coverageCheck(): the flags of the required types.
CoverageCheck(s, now, lateAfter) ==
  [t \in Required |-> [missing |-> Missing(s, t), late |-> Late(s, t, now, lateAfter)]]

=============================================================================
