------------------------------ MODULE Station ------------------------------
(***************************************************************************)
(* Two boards on the frames of one base station.  The first publishes them *)
(* (Publisher); the second decodes (DecodeViews) what it hears: the base   *)
(* itself, or the first board's output.  Frames come with what they say,   *)
(* so that what the boards make of them can be compared with it.           *)
(***************************************************************************)
EXTENDS Publisher, DecodeViews

CONSTANTS
  Inputs,       \* the frames that may come in, and what they say
  Spaces,       \* values of Serial1.availableForWrite()
  UsedFilters,  \* the filters the first board is set up with
  StartMasks,   \* the masks the second is set up with
  MaskTypes,    \* the types whose bit is set or cleared later
  MaxFrames,    \* bound on the frames
  MaxCalls      \* bound on the calls that change the mask

\* The hub's assembler hands out frames of this length, and no other.
ASSUME StationAssumption ==
  \A i \in DOMAIN Inputs : Inputs[i].frame.len \in 6..ScratchSize

VARIABLES
  tap,          \* what the second board hears: "base" or "published"
  \* The history: which of Inputs came in, and which the second board heard with their
  \* type in its mask.
  arrived, looked,
  calls

vars == <<publisherVars, viewVars, tap, arrived, looked, calls>>

\* The callback of the second board: onEmit() of examples/FrameQueueStats, but the push.
Hear(f, i) ==
  /\ DecodeIfEnabled(f, MessageType(f))
  /\ looked' = IF Inputs[i].type \in stats.decodeMask THEN Append(looked, i) ELSE looked
  /\ UNCHANGED stats

\* Either hub drops a damaged frame.
Heard(f) ==
  IF tap = "base" THEN {g \in {f} : g.good}
  ELSE {sent'[k] : k \in (Len(sent) + 1)..Len(sent')}

Arrive(i, space) ==
  LET f == Inputs[i].frame IN
  /\ Len(arrived) < MaxFrames
  /\ arrived' = Append(arrived, i)
  /\ Publish(f, space)
  /\ \/ Heard(f) = {} /\ UNCHANGED <<viewVars, looked>>
     \/ \E g \in Heard(f) : Hear(g, i)
  /\ UNCHANGED <<tap, calls>>

Call ==
  /\ calls < MaxCalls /\ calls' = calls + 1
  /\ UNCHANGED <<publisherVars, tap, arrived, looked>>

Init ==
  /\ \E f \in UsedFilters : PublisherInit(f)
  /\ ViewsInit(StartMasks)
  /\ tap \in {"base", "published"}
  /\ arrived = <<>> /\ looked = <<>> /\ calls = 0

Next ==
  \/ \E i \in DOMAIN Inputs, space \in Spaces : Arrive(i, space)
  \/ \E t \in MaskTypes, enabled \in BOOLEAN : Call /\ SetMask(t, enabled)
  \/ Call /\ ClearMask
  \/ Call /\ StatsReset

Spec == Init /\ [][Next]_vars

-----------------------------------------------------------------------------
(* Properties                                                                *)

\* What a reader made of a frame, <<>> when it could not read it.
Told(outcome) == IF outcome.st = "Ok" THEN <<outcome.msg>> ELSE <<>>

ReadsAs(f, t, says) ==
  MessageType(f) = t /\ \A kind \in KindOf(t) : Told(Decode(kind, f)) = says

\* Inputs says of each good frame, and of its public form, what the codec reads in it.
Labelled ==
  \A i \in DOMAIN Inputs :
    LET x == Inputs[i] IN
    x.frame.good =>
      /\ ReadsAs(x.frame, x.type, x.says)
      /\ Sanitized(x.frame) = x.public
      /\ \A f \in x.public : ReadsAs(f, x.type, x.publicSays)

\* The places of the frames that are to be published.
Wanted ==
  {k \in DOMAIN arrived :
     LET x == Inputs[arrived[k]]
     IN  x.frame.good /\ Passes(filter, x.type) /\ x.public # {}}

\* Which one of K the place k is, counted from the first.
Place(K, k) == Cardinality({j \in K : j <= k})

\* The first board loses a frame for want of room only, and counts it, in 32 bits: what
\* it sent are the frames its filter lets through, in order, each public form where the
\* frame names a station, those that cannot be read left out.
LostForRoomOnly ==
  \E K \in SUBSET Wanted :
    /\ Cardinality(K) = Len(sent)
    /\ Wrap(Cardinality(Wanted)) = Wrap(Len(sent) + txDrops)
    /\ \A k \in K : sent[Place(K, k)] \in Inputs[arrived[k]].public

\* The view is the last thing said, or empty if nothing was.
LastSaid(view, said) ==
  LET K == {k \in DOMAIN said : said[k] # <<>>}
  IN  \/ K = {} /\ view = <<>>
      \/ \E k \in K : (\A j \in K : j <= k) /\ view = said[k]

\* What a frame says where the second board hears it.
Truth(i) == IF tap = "base" THEN Inputs[i].says ELSE Inputs[i].publicSays

\* A view holds what the last frame of its kind said that was whole and came while its
\* type was in the mask; frames that are cut short, and changes of the mask, leave it.
ViewsAreTrue ==
  \A kind \in Kinds :
    LastSaid(views[kind],
             [k \in DOMAIN looked |->
                IF kind \in KindOf(Inputs[looked[k]].type) THEN Truth(looked[k]) ELSE <<>>])

=============================================================================
