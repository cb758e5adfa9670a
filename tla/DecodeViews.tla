---------------------------- MODULE DecodeViews ----------------------------
(***************************************************************************)
(* The decode views (src/src/TinyRtcmDecode.h) an emit callback keeps up   *)
(* to date, for the types in the mask of its counters.  The counters but   *)
(* for the mask are left to Hub.                                           *)
(***************************************************************************)
EXTENDS Codec, StreamStats

VARIABLES
  stats,     \* *stats: its decodeMask
  views      \* DecodeView: <<>> until the has flag of the kind, then <<message>>

viewVars == <<stats, views>>

Kinds == {"1005", "1006", "1033", "1230", "msm"}

KindOf(t) ==
  {k \in Kinds : \/ k = "1005" /\ t = 1005
                 \/ k = "1006" /\ t = 1006
                 \/ k = "1033" /\ t = 1033
                 \/ k = "1230" /\ t = 1230
                 \/ k = "msm" /\ t \in MsmWide}

Decode(kind, f) ==
  CASE kind = "1005" -> Decode1005(f)
    [] kind = "1006" -> Decode1006(f)
    [] kind = "1033" -> Decode1033(f)
    [] kind = "1230" -> Decode1230(f)
    [] kind = "msm" -> DecodeMsmHeader(f)

\* Mutant: a frame that cannot be read empties its view.
DecodeIfEnabledClearing(f, t) ==
  views' = [k \in Kinds |->
    IF t \notin stats.decodeMask \/ k \notin KindOf(t) THEN views[k]
    ELSE LET d == Decode(k, f) IN IF d.st = "Ok" THEN <<d.msg>> ELSE <<>>]

\* decodeIfEnabled(): a view keeps its message when a later frame cannot be read.
DecodeIfEnabled(f, t) ==
  views' = [k \in Kinds |->
    IF t \notin stats.decodeMask \/ k \notin KindOf(t) THEN views[k]
    ELSE LET d == Decode(k, f) IN IF d.st = "Ok" THEN <<d.msg>> ELSE views[k]]

SetMask(t, enabled) ==
  stats' = DecodeMaskSet(stats, t, enabled) /\ UNCHANGED views

ClearMask == stats' = DecodeMaskClear(stats) /\ UNCHANGED views

\* statsReset(): the mask goes with the counters, the views stay.
StatsReset == stats' = NewStats /\ UNCHANGED views

\* The application may set bits before the first frame.
ViewsInit(masks) ==
  /\ \E m \in masks : stats = [NewStats EXCEPT !.decodeMask = m]
  /\ views = [k \in Kinds |-> <<>>]

=============================================================================
