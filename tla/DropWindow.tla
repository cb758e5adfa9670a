----------------------------- MODULE DropWindow -----------------------------
(***************************************************************************)
(* The sliding window of push samples behind unhealthy(), as the code      *)
(* keeps it: a ring of 0/1 samples with its head, its fill and a running   *)
(* count of the drops in it.  FrameQueue keeps the samples as a sequence;  *)
(* the ghost recent is that sequence.  FrameRing uses the window and       *)
(* compares the two.                                                       *)
(***************************************************************************)
EXTENDS Integers, Sequences

CONSTANT WindowCap  \* kWindowCap

VARIABLES
  windowRing,     \* window_: its cells keep stale samples when it is emptied
  windowHead, windowCount, windowDrops,
  windowN, dropThreshold,  \* the members of cfg_
  recent          \* ghost: the samples since the last reset, at most windowN

ToBit(drop) == IF drop THEN 1 ELSE 0

\* Mutant: a drop that slides out stays counted.
SlideKeepingCount(drop) ==
  /\ windowCount >= windowN
  /\ windowRing' = [windowRing EXCEPT ![windowHead] = ToBit(drop)]
  /\ windowHead' = (windowHead + 1) % windowN
  /\ windowDrops' = windowDrops + ToBit(drop)
  /\ UNCHANGED windowCount

\* A full window: the oldest sample, under the head, is replaced.
SlideSample(drop) ==
  LET left == IF windowRing[windowHead] = 1 /\ windowDrops > 0
              THEN windowDrops - 1 ELSE windowDrops
  IN  /\ windowCount >= windowN
      /\ windowRing' = [windowRing EXCEPT ![windowHead] = ToBit(drop)]
      /\ windowHead' = (windowHead + 1) % windowN
      /\ windowDrops' = left + ToBit(drop)
      /\ UNCHANGED windowCount

\* A window not yet full: the next free cell.
FillSample(drop) ==
  /\ windowCount < windowN
  /\ windowRing' = [windowRing EXCEPT ![(windowHead + windowCount) % windowN] = ToBit(drop)]
  /\ windowCount' = windowCount + 1
  /\ windowDrops' = windowDrops + ToBit(drop)
  /\ UNCHANGED windowHead

\* sample(); the step of recent is FrameQueue's Sample.
Sample(drop) ==
  /\ SlideSample(drop) \/ FillSample(drop)
  /\ recent' = Append(IF Len(recent) >= windowN THEN Tail(recent) ELSE recent, drop)

\* clearUnhealthy(), which setConfig() calls too.
EmptyWindow ==
  /\ windowCount' = 0 /\ windowDrops' = 0 /\ windowHead' = 0
  /\ recent' = <<>>
  /\ UNCHANGED windowRing

InitWindow ==
  /\ windowRing = [k \in 0..(WindowCap - 1) |-> 0]
  /\ windowHead = 0 /\ windowCount = 0 /\ windowDrops = 0
  /\ recent = <<>>

Unhealthy == windowCount > 0 /\ windowDrops >= dropThreshold

=============================================================================
