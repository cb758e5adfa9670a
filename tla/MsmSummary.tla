----------------------------- MODULE MsmSummary -----------------------------
(***************************************************************************)
(* A receiver's MSM4 and MSM7 as RTCM 10403 lays them out: after the masks *)
(* of satellites, signals and cells the first field of every satellite,    *)
(* then the second of every satellite, and so on, and the fields of the    *)
(* cells in the same way.  The carrier to noise ratio is the fifth field   *)
(* of a cell, the last of an MSM4, with one more after it in an MSM7.      *)
(* summarizeMsmCnr() is asked for the mean of each message.                *)
(***************************************************************************)
EXTENDS Codec, FiniteSetsExt

CONSTANTS
  Satellites, Signals,  \* those that may be tracked, by their numbers in the masks
  Levels                \* by message type: the ratios a cell may have, as it is sent

VARIABLES
  type,   \* the messages the receiver sends
  level   \* the ratio of each cell tracked, a cell being <<satellite, signal>>

vars == <<type, level>>

InView == {c[1] : c \in DOMAIN level}

InUse == {c[2] : c \in DOMAIN level}

Mask(S, n) == [i \in 1..n |-> IF i \in S THEN 1 ELSE 0]

InOrder(S) == SetToSortSeq(S, <)

\* The cells that may be, satellite by satellite, and those that are.
AllCells ==
  FlattenSeq([i \in 1..Cardinality(InView) |->
    [k \in 1..Cardinality(InUse) |-> <<InOrder(InView)[i], InOrder(InUse)[k]>>]])

Cell == SelectSeq(AllCells, LAMBDA c : c \in DOMAIN level)

\* The fields of n satellites or cells, of which the k-th of the i-th is value(i, k).
Grouped(widths, n, value(_, _)) ==
  FlattenSeq([k \in DOMAIN widths |->
    FlattenSeq([i \in 1..n |-> Bits(value(i, k), widths[k])])])

\* A range of 75 ms; DF397 and DF398, of an MSM7 also its information and DF399.
SatelliteFields ==
  Grouped(IF type % 10 = 4 THEN <<8, 10>> ELSE <<8, 4, 10, 14>>, Cardinality(InView),
          LAMBDA i, k : IF k = 1 THEN 75 ELSE 0)

\* DF400, 401, 402, 420, 403 in an MSM4, DF405, 406, 407, 420, 408, 404 in an MSM7.
CellFields ==
  Grouped(IF type % 10 = 4 THEN <<15, 22, 4, 1, 6>> ELSE <<20, 24, 10, 1, 10, 15>>, Len(Cell),
          LAMBDA i, k : IF k = 5 THEN level[Cell[i]] ELSE 0)

Message ==
  LET bits == Bits(type, 12) \o Bits(99, 12) \o Bits(7654321, 30) \o Bits(0, 19)
              \o Mask(InView, 64) \o Mask(InUse, 32)
              \o [i \in DOMAIN AllCells |-> IF AllCells[i] \in DOMAIN level THEN 1 ELSE 0]
              \o SatelliteFields \o CellFields
      padded == bits \o [i \in 1..((-Len(bits)) % 8) |-> 0]
  IN  Frame(padded, Seal(padded), TRUE)

Track(c, l) ==
  /\ c \notin DOMAIN level
  /\ level' = [d \in DOMAIN level \cup {c} |-> IF d = c THEN l ELSE level[d]]
  /\ UNCHANGED type

Lose(c) ==
  /\ c \in DOMAIN level
  /\ level' = [d \in DOMAIN level \ {c} |-> level[d]]
  /\ UNCHANGED type

Init == type \in DOMAIN Levels /\ level = <<>>

Next ==
  \/ \E c \in Satellites \X Signals, l \in Levels[type] : Track(c, l)
  \/ \E c \in DOMAIN level : Lose(c)

Spec == Init /\ [][Next]_vars

-----------------------------------------------------------------------------
(* Properties                                                                *)

\* The summary of a message with cells is given, and its mean lies between the least and
\* the greatest of their ratios.  (TinyRtcmRequirements.h:118-120, REQ-COD-MSM-S: "shall
\* summarize MSM4/7 headers and mean CNR without full obs cells".)
MeanIsOfTheCells ==
  DOMAIN level # {} =>
    LET told == SummarizeMsmCnr(Message)
        ratios == {Ratio(type, level[c]) : c \in DOMAIN level}
    IN  told.st = "Ok" /\ told.msg.meanCnr \in Min(ratios)..Max(ratios)

=============================================================================
