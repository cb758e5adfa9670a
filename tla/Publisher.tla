----------------------------- MODULE Publisher -----------------------------
(***************************************************************************)
(* The public sink of examples/FilteredSanitizeHub: every frame the hub    *)
(* lets through is passed, rewritten or dropped by sanitizeBeforeEmit()    *)
(* (src/src/TinyRtcmSanitize.h) before it is written to Serial1.           *)
(***************************************************************************)
EXTENDS Codec, StreamStats

CONSTANTS
  ScratchSize   \* sizeof(SanitizeEmitCtx::scratch): 1100 in the code

ASSUME ScratchAssumption == ScratchSize \in Nat

VARIABLES
  filter,    \* the hub's filter, set once
  sent,      \* the frames written to Serial1
  txDrops

publisherVars == <<filter, sent, txDrops>>

SanitizeClassify(t) == IF t \in {1005, 1006, 1033} THEN "Rewrite" ELSE "Pass"

\* The frame is rewritten in the buffer it lies in, its message taken out first.
SanitizeRewriteLocationFrame(f, cap) ==
  IF f.len < 6 \/ f.len > cap THEN [st |-> "InvalidArg"]
  ELSE IF ~ f.good THEN [st |-> "BadCrc"]
  ELSE CASE MessageType(f) = 1005 -> Rewrite1005ToPublishIdentity(f, cap)
         [] MessageType(f) = 1006 -> Rewrite1006ToPublishIdentity(f, cap)
         [] MessageType(f) = 1033 -> Rewrite1033ToSanitized(f, cap)
         [] OTHER -> [st |-> "Ok", frame |-> f]

\* The frame given to the next callback, or none.  Mutant: one that cannot be
\* rewritten is passed as it is.
SanitizedLeaking(f) ==
  LET r == SanitizeRewriteLocationFrame(f, ScratchSize) IN
  IF f.len \in 6..ScratchSize /\ SanitizeClassify(MessageType(f)) = "Rewrite" /\ r.st = "Ok"
  THEN {r.frame} ELSE {f}

Sanitized(f) ==
  LET r == SanitizeRewriteLocationFrame(f, ScratchSize) IN
  IF f.len \notin 6..ScratchSize \/ SanitizeClassify(MessageType(f)) # "Rewrite" THEN {f}
  ELSE IF r.st = "Ok" THEN {r.frame} ELSE {}

\* What reaches onPublicEmit() of a frame from the line: its hub drops the damaged ones
\* and those of the filter.
Reaches(f) ==
  IF f.good /\ Passes(filter, MessageType(f)) THEN Sanitized(f) ELSE {}

Withhold(frames) == frames = {} /\ UNCHANGED publisherVars

\* onPublicEmit(), space is Serial1.availableForWrite().
Send(frames, space) ==
  /\ \E f \in frames : f.len <= space /\ sent' = Append(sent, f)
  /\ UNCHANGED <<filter, txDrops>>

DropNoRoom(frames, space) ==
  /\ \E f \in frames : f.len > space
  /\ txDrops' = Wrap(txDrops + 1)
  /\ UNCHANGED <<filter, sent>>

\* A frame comes in from the base.
Publish(f, space) ==
  \E frames \in {Reaches(f)} :
    Withhold(frames) \/ Send(frames, space) \/ DropNoRoom(frames, space)

PublisherInit(f) == filter = f /\ sent = <<>> /\ txDrops = 0

-----------------------------------------------------------------------------
(* Properties                                                                *)

Is(f, encoded) == encoded.st = "Ok" /\ f = encoded.frame

\* The public messages: the antenna height of a 1006 is left in it.
PublicArp == [stationId |-> 0, arp |-> PublishArp]

PublicArpWithHeight(h) == [stationId |-> 0, arp |-> PublishArp, height |-> h]

PublicText == [stationId |-> 0, antenna |-> AntennaText, receiver |-> ReceiverText]

IsPublic(f) ==
  \/ Is(f, Encode1005(PublicArp, ScratchSize))
  \/ Is(f, Encode1033(PublicText, ScratchSize))
  \/ \E h \in Heights : Is(f, Encode1006(PublicArpWithHeight(h), ScratchSize))

\* No frame that names a station is written but in one of the public forms, whatever
\* came in: one that cannot be read is kept back (REQ-SAN-02).
NoIdentityLeaks ==
  \A k \in DOMAIN sent :
    MessageType(sent[k]) \in {1005, 1006, 1033} => IsPublic(sent[k])

=============================================================================
