--------------------------- MODULE StationProofs ---------------------------
(* What the first board writes names no station, whatever the base sends, and loses  *)
(* no frame unseen; what the second board shows is what the frames said.  The proofs *)
(* look at the ways through sanitizeBeforeEmit() and the callback, not into the      *)
(* codec.                                                                            *)
EXTENDS Station, SequenceTheorems, FiniteSetTheorems, TLAPS

\* What an Ok outcome holds is the message.
LEMMA OutcomeMessage ==
  ASSUME NEW st, NEW msg, Outcome(st, msg).st = "Ok"
  PROVE  Outcome(st, msg).msg = msg
BY DEF Outcome

\* A decoded 1005 is what the fields read from some payload make.
LEMMA DecodedMessage1005 ==
  ASSUME NEW f, Decode1005(f).st = "Ok"
  PROVE  \E got : Decode1005(f).msg = Arp(got)
<1> DEFINE st == Entry(f, {1005}, ArpBytes, 1023)
           bb == Read(f, ArpWidths)
<1>1. Decode1005(f) = IF st # "Ok" THEN [st |-> st] ELSE Outcome(bb.st, Arp(bb.got))
  BY ZenonT(60) DEF Decode1005
<1> HIDE DEF st, bb
<1>2. Decode1005(f) = Outcome(bb.st, Arp(bb.got))
  BY <1>1
<1>3. Decode1005(f).msg = Arp(bb.got)
  BY Zenon, <1>2, OutcomeMessage
<1> QED BY Zenon, <1>3

\* A decoded 1006 is that and a height.
LEMMA DecodedMessage1006 ==
  ASSUME NEW f, Decode1006(f).st = "Ok"
  PROVE  \E got : Decode1006(f).msg = [stationId |-> Arp(got).stationId,
                                       arp |-> Arp(got).arp, height |-> Number(got[14])]
<1> DEFINE st == Entry(f, {1006}, ArpBytes + 2, 1023)
           bb == Read(f, Append(ArpWidths, 16))
           msg == [stationId |-> Arp(bb.got).stationId, arp |-> Arp(bb.got).arp,
                   height |-> Number(bb.got[14])]
<1>1. Decode1006(f) = IF st # "Ok" THEN [st |-> st] ELSE Outcome(bb.st, msg)
  BY ZenonT(60) DEF Decode1006
<1>2. msg = [stationId |-> Arp(bb.got).stationId, arp |-> Arp(bb.got).arp,
             height |-> Number(bb.got[14])]
  OBVIOUS
<1> HIDE DEF st, bb, msg
<1>3. Decode1006(f) = Outcome(bb.st, msg)
  BY <1>1
<1>4. Decode1006(f).msg = msg
  BY Zenon, <1>3, OutcomeMessage
<1> QED BY Zenon, <1>2, <1>4

\* A rewritten 1005 carries the published station and coordinates and nothing else.
LEMMA Rewritten1005 ==
  ASSUME NEW f, Rewrite1005ToPublishIdentity(f, ScratchSize).st = "Ok"
  PROVE  IsPublic(Rewrite1005ToPublishIdentity(f, ScratchSize).frame)
<1> DEFINE r == Rewrite1005ToPublishIdentity(f, ScratchSize)
<1>1. \E d : d = Decode1005(f) /\ d.st = "Ok"
             /\ r = Encode1005(PublishIdentity(d.msg), ScratchSize)
  BY DEF Rewrite1005ToPublishIdentity
<1>2. PICK d : d = Decode1005(f) /\ d.st = "Ok"
               /\ r = Encode1005(PublishIdentity(d.msg), ScratchSize)
  BY <1>1
<1>3. \E s, a : d.msg = [stationId |-> s, arp |-> a]
  <2>1. \E got : d.msg = Arp(got)
    BY <1>2, DecodedMessage1005
  <2> QED BY Zenon, <2>1 DEF Arp
<1>4. PublishIdentity(d.msg) = PublicArp
  <2>1. PICK s, a : d.msg = [stationId |-> s, arp |-> a]
    BY <1>3
  <2> DEFINE m(z, y) == [stationId |-> z, arp |-> y]
  <2>2. \A z : [m(s, a) EXCEPT !.stationId = z] = m(z, a)
    BY SMT
  <2>3. \A z, y : [m(z, a) EXCEPT !.arp = y] = m(z, y)
    BY SMT
  <2>4. d.msg = m(s, a) /\ PublicArp = m(0, PublishArp)
    BY <2>1 DEF PublicArp
  <2> HIDE DEF m
  <2>5. PublishIdentity(m(s, a)) = m(0, PublishArp)
    BY <2>2, <2>3, Zenon DEF PublishIdentity
  <2> QED BY <2>4, <2>5
<1>5. r = Encode1005(PublicArp, ScratchSize)
  BY <1>2, <1>4
<1>6. r.st = "Ok"
  OBVIOUS
<1> HIDE DEF r
<1>7. Is(r.frame, Encode1005(PublicArp, ScratchSize))
  BY <1>5, <1>6, Zenon DEF Is
<1>8. IsPublic(r.frame)
  BY <1>7, Zenon DEF IsPublic
<1> QED BY <1>8 DEF r

\* A rewritten 1006 carries them and the height it had, which fits its sixteen bits.
LEMMA Rewritten1006 ==
  ASSUME NEW f, Rewrite1006ToPublishIdentity(f, ScratchSize).st = "Ok"
  PROVE  IsPublic(Rewrite1006ToPublishIdentity(f, ScratchSize).frame)
<1> DEFINE r == Rewrite1006ToPublishIdentity(f, ScratchSize)
<1>1. \E d : d = Decode1006(f) /\ d.st = "Ok"
             /\ r = Encode1006(PublishIdentity(d.msg), ScratchSize)
  BY DEF Rewrite1006ToPublishIdentity
<1>2. PICK d : d = Decode1006(f) /\ d.st = "Ok"
               /\ r = Encode1006(PublishIdentity(d.msg), ScratchSize)
  BY <1>1
<1>3. \E s, a, h : d.msg = [stationId |-> s, arp |-> a, height |-> h]
  <2>1. \E got : d.msg = [stationId |-> Arp(got).stationId, arp |-> Arp(got).arp,
                         height |-> Number(got[14])]
    BY <1>2, DecodedMessage1006
  <2> QED BY Zenon, <2>1
<1>4. PICK h : PublishIdentity(d.msg) = PublicArpWithHeight(h)
  <2>1. PICK s, a, h : d.msg = [stationId |-> s, arp |-> a, height |-> h]
    BY <1>3
  <2> DEFINE m(z, y) == [stationId |-> z, arp |-> y, height |-> h]
  <2>2. \A z : [m(s, a) EXCEPT !.stationId = z] = m(z, a)
    BY SMT
  <2>3. \A z, y : [m(z, a) EXCEPT !.arp = y] = m(z, y)
    BY SMT
  <2>4. d.msg = m(s, a) /\ PublicArpWithHeight(h) = m(0, PublishArp)
    BY <2>1 DEF PublicArpWithHeight
  <2> HIDE DEF m
  <2>5. PublishIdentity(m(s, a)) = m(0, PublishArp)
    BY <2>2, <2>3, Zenon DEF PublishIdentity
  <2> QED BY <2>4, <2>5
<1>5. r = Encode1006(PublicArpWithHeight(h), ScratchSize)
  BY <1>2, <1>4
<1>6. r.st = "Ok"
  OBVIOUS
<1> HIDE DEF r
<1>7. h \in Heights
  <2>1. Encode1006(PublicArpWithHeight(h), ScratchSize).st = "Ok"
    BY <1>5, <1>6
  <2>2. PublicArpWithHeight(h).height \in Heights
    BY <2>1 DEF Encode1006
  <2> QED BY <2>2 DEF PublicArpWithHeight
<1>8. Is(r.frame, Encode1006(PublicArpWithHeight(h), ScratchSize))
  BY <1>5, <1>6, Zenon DEF Is
<1>9. IsPublic(r.frame)
  BY <1>7, <1>8, Zenon DEF IsPublic
<1> QED BY <1>9 DEF r

\* A rewritten 1033 says "ANT" and "RCV".
LEMMA Rewritten1033 ==
  ASSUME NEW f, Rewrite1033ToSanitized(f, ScratchSize).st = "Ok"
  PROVE  IsPublic(Rewrite1033ToSanitized(f, ScratchSize).frame)
<1> DEFINE r == Rewrite1033ToSanitized(f, ScratchSize)
<1>1. r = Encode1033(PublicText, ScratchSize)
  BY DEF Rewrite1033ToSanitized, PublicText
<1>2. r.st = "Ok"
  OBVIOUS
<1> HIDE DEF r
<1>3. Is(r.frame, Encode1033(PublicText, ScratchSize))
  BY <1>1, <1>2, Zenon DEF Is
<1>4. IsPublic(r.frame)
  BY <1>3, Zenon DEF IsPublic
<1> QED BY <1>4 DEF r

\* Of a frame of a length the assembler hands out, the sanitizer forwards a public form
\* or a frame that names no station.
LEMMA SanitizedIsPublic ==
  ASSUME NEW f, f.len \in 6..ScratchSize, NEW g \in Sanitized(f),
         MessageType(g) \in {1005, 1006, 1033}
  PROVE  IsPublic(g)
<1> DEFINE r == SanitizeRewriteLocationFrame(f, ScratchSize)
<1>1. CASE SanitizeClassify(MessageType(f)) # "Rewrite"
  <2>1. g = f
    BY <1>1 DEF Sanitized
  <2>2. MessageType(f) \notin {1005, 1006, 1033}
    BY <1>1 DEF SanitizeClassify
  <2> QED BY <2>1, <2>2
<1>2. CASE SanitizeClassify(MessageType(f)) = "Rewrite"
  <2>1. r.st = "Ok" /\ g = r.frame
    BY <1>2 DEF Sanitized
  <2>2. MessageType(f) \in {1005, 1006, 1033}
    BY <1>2 DEF SanitizeClassify
  <2>3. f.good
    BY <2>1 DEF SanitizeRewriteLocationFrame
  <2>4. CASE MessageType(f) = 1005
    <3>1. r = Rewrite1005ToPublishIdentity(f, ScratchSize)
      BY <2>3, <2>4, ScratchAssumption DEF SanitizeRewriteLocationFrame
    <3> QED BY <2>1, <3>1, Rewritten1005
  <2>5. CASE MessageType(f) = 1006
    <3>1. r = Rewrite1006ToPublishIdentity(f, ScratchSize)
      BY <2>3, <2>5, ScratchAssumption DEF SanitizeRewriteLocationFrame
    <3> QED BY <2>1, <3>1, Rewritten1006
  <2>6. CASE MessageType(f) = 1033
    <3>1. r = Rewrite1033ToSanitized(f, ScratchSize)
      BY <2>3, <2>6, ScratchAssumption DEF SanitizeRewriteLocationFrame
    <3> QED BY <2>1, <3>1, Rewritten1033
  <2> QED BY <2>2, <2>4, <2>5, <2>6
<1> QED BY <1>1, <1>2

\* The invariant: what is written is a sequence, of frames that may be published.
SentInv == (\E S : sent \in Seq(S)) /\ NoIdentityLeaks

\* Nothing is written before the first frame.
LEMMA SentInvInit == Init => SentInv
<1> SUFFICES ASSUME Init PROVE SentInv
  OBVIOUS
<1>1. sent = <<>>
  BY DEF Init, PublisherInit
<1> QED BY <1>1 DEF SentInv, NoIdentityLeaks

\* A frame written after the others: it may be published, they still may.
LEMMA SentInvSend ==
  ASSUME SentInv, NEW i \in DOMAIN Inputs, NEW g \in Reaches(Inputs[i].frame),
         sent' = Append(sent, g)
  PROVE  SentInv'
<1> PICK S : sent \in Seq(S)
  BY DEF SentInv
<1> DEFINE T == S \cup {g}
<1>1. /\ sent' \in Seq(T)
      /\ Len(sent') = Len(sent) + 1
      /\ \A k \in 1..Len(sent) : sent'[k] = sent[k]
      /\ sent'[Len(sent) + 1] = g
  <2>1. sent \in Seq(T) /\ g \in T
    BY SeqMonotonic
  <2> HIDE DEF T
  <2> QED BY <2>1, AppendProperties
<1> HIDE DEF T
<1>2. g \in Sanitized(Inputs[i].frame)
  BY DEF Reaches
<1>3. MessageType(g) \in {1005, 1006, 1033} => IsPublic(g)
  BY <1>2, StationAssumption, SanitizedIsPublic
<1>4. ASSUME NEW k \in DOMAIN sent', MessageType(sent'[k]) \in {1005, 1006, 1033}
      PROVE  IsPublic(sent'[k])
  <2>1. CASE k = Len(sent) + 1
    BY <1>1, <1>3, <1>4, <2>1
  <2>2. CASE k # Len(sent) + 1
    <3>1. k \in DOMAIN sent /\ sent'[k] = sent[k]
      BY <1>1, <2>2 DEF SentInv
    <3> QED BY <3>1, <1>4 DEF SentInv, NoIdentityLeaks
  <2> QED BY <2>1, <2>2
<1> QED BY <1>1, <1>4 DEF SentInv, NoIdentityLeaks

\* Every step keeps the invariant: only a frame that comes in writes one.
LEMMA SentInvNext == SentInv /\ [Next]_vars => SentInv'
<1> SUFFICES ASSUME SentInv, [Next]_vars PROVE SentInv'
  OBVIOUS
<1>1. ASSUME UNCHANGED sent PROVE SentInv'
  BY <1>1 DEF SentInv, NoIdentityLeaks
<1>2. ASSUME NEW i \in DOMAIN Inputs, NEW space \in Spaces, Arrive(i, space)
      PROVE  SentInv'
  <2>1. Publish(Inputs[i].frame, space)
    BY <1>2 DEF Arrive
  <2>2. \/ UNCHANGED sent
        \/ \E g \in Reaches(Inputs[i].frame) : sent' = Append(sent, g)
    BY <2>1 DEF Publish, Withhold, Send, DropNoRoom, publisherVars
  <2> QED BY <2>2, <1>1, SentInvSend
<1>3. ASSUME Call PROVE SentInv'
  BY <1>3, <1>1 DEF Call, publisherVars
<1>4. CASE UNCHANGED vars
  BY <1>4, <1>1 DEF vars, publisherVars
<1> QED BY <1>2, <1>3, <1>4 DEF Next

\* The base's identity and coordinates are not published, for any frames of lengths the
\* assembler hands out, any filter and any room on the line (REQ-SAN-02).
THEOREM NothingLeaks == Spec => []NoIdentityLeaks
<1>1. SentInv => NoIdentityLeaks
  BY DEF SentInv
<1> QED BY <1>1, SentInvInit, SentInvNext, PTL DEF Spec

-----------------------------------------------------------------------------
(* What the boards lose and see                                              *)

\* Something may be said once more.
LEMMA LastSaidGrows ==
  ASSUME NEW n \in Nat, NEW s, NEW s2, DOMAIN s = 1..n, DOMAIN s2 = 1..(n + 1),
         \A k \in 1..n : s2[k] = s[k], NEW view, LastSaid(view, s)
  PROVE  LastSaid(IF s2[n + 1] = <<>> THEN view ELSE s2[n + 1], s2)
<1> DEFINE K == {k \in DOMAIN s : s[k] # <<>>}
           K2 == {k \in DOMAIN s2 : s2[k] # <<>>}
<1>1. \/ K = {} /\ view = <<>>
      \/ \E k \in K : (\A j \in K : j <= k) /\ view = s[k]
  BY DEF LastSaid
<1>2. /\ n + 1 \in 1..(n + 1) /\ n + 1 \notin 1..n
      /\ \A k \in 1..(n + 1) : k <= n + 1 /\ (k \in 1..n \/ k = n + 1)
      /\ \A k \in 1..n : k \in 1..(n + 1)
  OBVIOUS
<1>3. CASE s2[n + 1] = <<>>
  <2>1. K2 = K /\ \A k \in K : s2[k] = s[k]
    BY <1>2, <1>3
  <2>2. \/ K2 = {} /\ view = <<>>
        \/ \E k \in K2 : (\A j \in K2 : j <= k) /\ view = s2[k]
    BY <1>1, <2>1, Zenon
  <2> QED BY <1>3, <2>2, Zenon DEF LastSaid
<1>4. CASE s2[n + 1] # <<>>
  <2>1. n + 1 \in K2 /\ \A j \in K2 : j <= n + 1
    BY <1>2, <1>4
  <2> QED BY <1>4, <2>1, Zenon DEF LastSaid
<1> QED BY <1>3, <1>4

\* The history, and what is true of it.
HistoryOK ==
  /\ arrived \in Seq(DOMAIN Inputs) /\ looked \in Seq(DOMAIN Inputs)
  /\ (\E S : sent \in Seq(S)) /\ txDrops \in Nat

StationInv == HistoryOK /\ LostForRoomOnly /\ ViewsAreTrue

\* One entry more, the others as they were.
LEMMA OneMore ==
  ASSUME NEW S, NEW h \in Seq(S), NEW x \in S, NEW h2, h2 = Append(h, x)
  PROVE  /\ h2 \in Seq(S) /\ Len(h) \in Nat /\ Len(h2) = Len(h) + 1
         /\ DOMAIN h = 1..Len(h) /\ DOMAIN h2 = 1..(Len(h) + 1)
         /\ h2[Len(h) + 1] = x /\ \A k \in 1..Len(h) : h2[k] = h[k]
BY AppendProperties, LenProperties

\* A frame that is heard is read as it says.
LEMMA HeardAsSaid ==
  ASSUME Labelled, HistoryOK, NEW i \in DOMAIN Inputs, NEW space,
         Publish(Inputs[i].frame, space), NEW g \in Heard(Inputs[i].frame)
  PROVE  ReadsAs(g, Inputs[i].type, Truth(i))
<1> DEFINE f == Inputs[i].frame
<1>1. f.good => /\ ReadsAs(f, Inputs[i].type, Inputs[i].says)
                /\ Sanitized(f) = Inputs[i].public
                /\ \A p \in Inputs[i].public : ReadsAs(p, Inputs[i].type, Inputs[i].publicSays)
  BY DEF Labelled
<1>2. CASE tap = "base"
  <2>1. g = f /\ f.good
    BY <1>2 DEF Heard
  <2> QED BY <1>1, <1>2, <2>1 DEF Truth
<1>3. CASE tap # "base"
  <2>1. PICK k \in (Len(sent) + 1)..Len(sent') : g = sent'[k]
    BY <1>3 DEF Heard
  <2>2. PICK S : sent \in Seq(S)
    BY DEF HistoryOK
  <2>3. Len(sent) \in Nat
    BY <2>2, LenProperties
  <2>4. sent' # sent
    BY <2>1, <2>3
  <2>5. PICK p \in Reaches(f) : sent' = Append(sent, p)
    BY <2>4 DEF Publish, Withhold, Send, DropNoRoom, publisherVars
  <2>6. sent \in Seq(S \cup {p}) /\ p \in S \cup {p}
    BY <2>2, SeqMonotonic
  <2>7. Len(sent') = Len(sent) + 1 /\ sent'[Len(sent) + 1] = p
    BY <2>5, <2>6, OneMore
  <2>8. g = p
    BY <2>1, <2>3, <2>7
  <2>9. f.good /\ p \in Sanitized(f)
    BY <2>5 DEF Reaches
  <2> QED BY <1>1, <1>3, <2>8, <2>9 DEF Truth
<1> QED BY <1>2, <1>3

\* The second board keeps its views.
LEMMA HearInv ==
  ASSUME StationInv, NEW i \in DOMAIN Inputs, NEW g,
         ReadsAs(g, Inputs[i].type, Truth(i)), Hear(g, i), tap' = tap
  PROVE  ViewsAreTrue' /\ looked' \in Seq(DOMAIN Inputs)
<1> DEFINE t == Inputs[i].type
           Said(kind) == [k \in DOMAIN looked |->
                            IF kind \in KindOf(Inputs[looked[k]].type) THEN Truth(looked[k])
                            ELSE <<>>]
<1>1. /\ looked \in Seq(DOMAIN Inputs)
      /\ \A kind \in Kinds : LastSaid(views[kind], Said(kind))
  BY DEF StationInv, HistoryOK, ViewsAreTrue
<1>2. MessageType(g) = t /\ \A kind \in KindOf(t) : Told(Decode(kind, g)) = Truth(i)
  BY DEF ReadsAs
<1>3. /\ looked' = IF t \in stats.decodeMask THEN Append(looked, i) ELSE looked
      /\ views' = [k \in Kinds |->
            IF MessageType(g) \notin stats.decodeMask \/ k \notin KindOf(MessageType(g)) THEN views[k]
            ELSE IF Decode(k, g).st = "Ok" THEN <<Decode(k, g).msg>> ELSE views[k]]
  BY DEF Hear, DecodeIfEnabled
<1>4. \A m : <<m>> # <<>>
  OBVIOUS
<1>5. CASE t \notin stats.decodeMask
  <2>1. looked' = looked /\ \A kind \in Kinds : views'[kind] = views[kind]
    BY <1>2, <1>3, <1>5
  <2>2. ViewsAreTrue'
    BY <2>1, <1>1 DEF ViewsAreTrue, Truth
  <2> QED BY <1>1, <2>1, <2>2
<1>6. CASE t \in stats.decodeMask
  <2> DEFINE n == Len(looked)
             Said2(kind) == [k \in DOMAIN looked' |->
                               IF kind \in KindOf(Inputs[looked'[k]].type) THEN Truth(looked'[k])
                               ELSE <<>>]
  <2>1. /\ looked' \in Seq(DOMAIN Inputs) /\ n \in Nat
        /\ DOMAIN looked = 1..n /\ DOMAIN looked' = 1..(n + 1)
        /\ looked'[n + 1] = i /\ \A k \in 1..n : looked'[k] = looked[k]
    BY <1>1, <1>3, <1>6, OneMore
  <2> HIDE DEF n
  <2>2. ASSUME NEW kind \in Kinds PROVE LastSaid(views'[kind], Said2(kind))
    <3> DEFINE m == IF kind \in KindOf(t) THEN Truth(i) ELSE <<>>
    <3>1. /\ DOMAIN Said(kind) = 1..n /\ DOMAIN Said2(kind) = 1..(n + 1)
          /\ \A k \in 1..n : Said2(kind)[k] = Said(kind)[k]
          /\ Said2(kind)[n + 1] = m
      BY <2>1
    <3>2. LastSaid(IF m = <<>> THEN views[kind] ELSE m, Said2(kind))
      <4>1. LastSaid(views[kind], Said(kind))
        BY <1>1
      <4> HIDE DEF Said, Said2, m
      <4> QED BY <2>1, <3>1, <4>1, LastSaidGrows
    <3>3. views'[kind] = IF m = <<>> THEN views[kind] ELSE m
      <4>1. CASE kind \notin KindOf(t)
        BY <1>2, <1>3, <4>1
      <4>2. CASE kind \in KindOf(t)
        <5>1. views'[kind] = IF Decode(kind, g).st = "Ok" THEN <<Decode(kind, g).msg>>
                             ELSE views[kind]
          BY <1>2, <1>3, <1>6, <4>2
        <5>2. Truth(i) = IF Decode(kind, g).st = "Ok" THEN <<Decode(kind, g).msg>> ELSE <<>>
          BY <1>2, <4>2 DEF Told
        <5> QED BY <1>4, <4>2, <5>1, <5>2
      <4> QED BY <4>1, <4>2
    <3> QED BY <3>2, <3>3
  <2>3. ViewsAreTrue'
    BY <2>2 DEF ViewsAreTrue, Truth
  <2> QED BY <2>1, <2>3
<1> QED BY <1>5, <1>6

\* q holds a frame for each place of K, a set of the first n.
SentFor(n, K, q) ==
  n \in Nat /\ K \subseteq 1..n /\ Cardinality(K) = Len(q) /\ \E S : q \in Seq(S)

\* r holds those, and g for the place after.
SentAlso(n, K, q, g, r) ==
  LET K2 == K \cup {n + 1} IN
  /\ Cardinality(K2) = Len(q) + 1 /\ r[Place(K2, n + 1)] = g
  /\ \A k \in K : r[Place(K2, k)] = q[Place(K, k)]

\* Frames are sent for places in order; one more follows.
LEMMA SentMore ==
  ASSUME NEW n, NEW K, NEW q, SentFor(n, K, q), NEW g
  PROVE  SentAlso(n, K, q, g, Append(q, g))
<1> DEFINE K2 == K \cup {n + 1}
           r == Append(q, g)
<1>0. n \in Nat /\ K \subseteq 1..n /\ Cardinality(K) = Len(q)
  BY DEF SentFor
<1>1. IsFiniteSet(K) /\ n + 1 \notin K
  <2>1. IsFiniteSet(1..n)
    BY <1>0, FS_Interval
  <2>2. n + 1 \notin 1..n
    BY <1>0
  <2> QED BY <1>0, <2>1, <2>2, FS_Subset
<1>2. IsFiniteSet(K2) /\ Cardinality(K2) = Len(q) + 1
  BY <1>0, <1>1, FS_AddElement
<1>3. Len(q) \in Nat /\ r[Len(q) + 1] = g
      /\ \A p \in 1..Len(q) : r[p] = q[p]
  <2>0. PICK S : q \in Seq(S)
    BY DEF SentFor
  <2>1. q \in Seq(S \cup {g}) /\ g \in S \cup {g}
    BY <2>0, SeqMonotonic
  <2> QED BY <2>1, OneMore
<1>4. {j \in K2 : j <= n + 1} = K2
  <2>1. \A j \in K2 : j <= n + 1
    BY <1>0
  <2> QED BY <2>1
<1>5. ASSUME NEW k \in K PROVE r[Place(K2, k)] = q[Place(K, k)]
  <2> DEFINE B == {j \in K : j <= k}
  <2>1. {j \in K2 : j <= k} = B
    <3>1. ~ (n + 1 <= k)
      BY <1>0
    <3> QED BY <3>1
  <2>2. B \subseteq K /\ k \in B
    <3>1. k <= k
      BY <1>0
    <3> QED BY <3>1
  <2> HIDE DEF B
  <2>3. IsFiniteSet(B) /\ Cardinality(B) <= Cardinality(K) /\ B # {}
    BY <1>1, <2>2, FS_Subset
  <2>4. Cardinality(B) \in Nat /\ Cardinality(B) # 0
    BY <2>3, FS_CardinalityType, FS_EmptySet
  <2>5. Cardinality(B) \in 1..Len(q)
    BY <1>0, <1>3, <2>3, <2>4
  <2>6. r[Cardinality(B)] = q[Cardinality(B)]
    BY <1>3, <2>5
  <2>7. Place(K2, k) = Cardinality(B) /\ Place(K, k) = Cardinality(B)
    BY <2>1 DEF Place, B
  <2> QED BY <2>6, <2>7
<1>6. Place(K2, n + 1) = Len(q) + 1
  BY <1>2, <1>4 DEF Place
<1> QED BY <1>2, <1>3, <1>5, <1>6 DEF SentAlso

\* A counter that wraps may be wrapped in a sum that does.
LEMMA WrapWrapped ==
  ASSUME NEW a \in Nat, NEW b \in Nat
  PROVE  Wrap(b) \in Nat /\ Wrap(a + Wrap(b)) = Wrap(a + b)
<1> DEFINE q == b \div U32
           c == Wrap(b)
<1>1. U32 \in Nat \ {0} /\ q \in Nat /\ c \in Nat /\ b = U32 * q + c
  BY StatsAssumption DEF Wrap
<1> HIDE DEF q, c
<1>2. PICK d \in Nat : d = a + c
  BY <1>1
<1> DEFINE p == d \div U32
           r == d % U32
<1>3. d = U32 * p + r /\ p \in Nat /\ r \in 0..(U32 - 1)
  BY <1>1
<1> HIDE DEF p, r
<1>4. a + b = U32 * (q + p) + r /\ q + p \in Nat
  <2>1. U32 * (q + p) = U32 * q + U32 * p /\ U32 * q \in Nat /\ U32 * p \in Nat
    BY <1>1, <1>3
  <2> QED BY <1>1, <1>2, <1>3, <2>1
<1>5. \A u \in Nat, v \in 0..(U32 - 1) : (U32 * u + v) % U32 = v
  BY <1>1
<1>6. (a + b) % U32 = r
  BY <1>3, <1>4, <1>5
<1>7. d % U32 = r
  BY DEF r
<1> QED BY <1>1, <1>2, <1>6, <1>7 DEF c, Wrap

\* What agrees modulo U32 does so when one is added.
LEMMA WrapCount ==
  ASSUME NEW a \in Nat, NEW b \in Nat, Wrap(a) = Wrap(b)
  PROVE  Wrap(a + 1) = Wrap(b + 1)
<1>1. Wrap(1 + Wrap(a)) = Wrap(1 + a) /\ Wrap(1 + Wrap(b)) = Wrap(1 + b)
  BY WrapWrapped
<1> QED BY <1>1

\* The first board keeps its account.
LEMMA PublishInv ==
  ASSUME Labelled, HistoryOK, LostForRoomOnly, NEW i \in DOMAIN Inputs, NEW space,
         Publish(Inputs[i].frame, space), arrived' = Append(arrived, i)
  PROVE  /\ LostForRoomOnly' /\ arrived' \in Seq(DOMAIN Inputs)
         /\ (\E S : sent' \in Seq(S)) /\ txDrops' \in Nat
<1> DEFINE x == Inputs[i]
           n == Len(arrived)
<1>1. /\ arrived' \in Seq(DOMAIN Inputs) /\ n \in Nat
      /\ DOMAIN arrived = 1..n /\ DOMAIN arrived' = 1..(n + 1)
      /\ arrived'[n + 1] = i /\ \A k \in 1..n : arrived'[k] = arrived[k]
  BY OneMore DEF HistoryOK
<1>2. PICK S : sent \in Seq(S)
  BY DEF HistoryOK
<1>3. txDrops \in Nat
  BY DEF HistoryOK
<1>4. x.frame.good => MessageType(x.frame) = x.type /\ Sanitized(x.frame) = x.public
  BY DEF Labelled, ReadsAs
<1>5. filter' = filter
  BY DEF Publish, Withhold, Send, DropNoRoom, publisherVars
<1> DEFINE Asked(j) == Inputs[j].frame.good /\ Passes(filter, Inputs[j].type) /\ Inputs[j].public # {}
<1>6. Wanted = {k \in 1..n : Asked(arrived[k])} /\ Wanted' = {k \in 1..(n + 1) : Asked(arrived'[k])}
  BY <1>1, <1>5 DEF Wanted, Passes
<1>7. Reaches(x.frame) = IF Asked(i) THEN x.public ELSE {}
  BY <1>4 DEF Reaches
<1> HIDE DEF n, Asked
<1>8. Wanted' = IF Asked(i) THEN Wanted \cup {n + 1} ELSE Wanted
  BY <1>1, <1>6
<1>9. PICK K \in SUBSET Wanted :
        /\ Cardinality(K) = Len(sent)
        /\ Wrap(Cardinality(Wanted)) = Wrap(Len(sent) + txDrops)
        /\ \A k \in K : sent[Place(K, k)] \in Inputs[arrived[k]].public
  BY DEF LostForRoomOnly
<1>10. K \in SUBSET (1..n) /\ Wanted \in SUBSET (1..n) /\ Len(sent) \in Nat
  BY <1>2, <1>6, <1>9, LenProperties
<1>11. IsFiniteSet(Wanted) /\ n + 1 \notin Wanted
  <2>1. IsFiniteSet(1..n)
    BY <1>1, FS_Interval
  <2>2. n + 1 \notin 1..n
    BY <1>1
  <2> QED BY <1>10, <2>1, <2>2, FS_Subset
<1>12. Wrap(Cardinality(Wanted \cup {n + 1})) = Wrap(Len(sent) + txDrops + 1)
  <2>1. Cardinality(Wanted \cup {n + 1}) = Cardinality(Wanted) + 1 /\ Cardinality(Wanted) \in Nat
    BY <1>11, FS_AddElement, FS_CardinalityType
  <2>2. PICK d \in Nat : d = Len(sent) + txDrops
    BY <1>3, <1>10
  <2> QED BY <1>9, <2>1, <2>2, WrapCount
<1>13. \A k \in K : arrived'[k] = arrived[k]
  BY <1>1, <1>10
<1>14. CASE Withhold(Reaches(x.frame))
  <2>1. sent' = sent /\ txDrops' = txDrops /\ ~ Asked(i)
    <3>1. sent' = sent /\ txDrops' = txDrops /\ Reaches(x.frame) = {}
      BY <1>14 DEF Withhold, publisherVars
    <3>2. Asked(i) => x.public # {}
      BY DEF Asked
    <3> QED BY <1>7, <3>1, <3>2
  <2>2. Wanted' = Wanted
    BY <1>8, <2>1
  <2>3. LostForRoomOnly'
    BY <1>9, <1>13, <2>1, <2>2 DEF LostForRoomOnly
  <2> QED BY <1>1, <1>2, <1>3, <2>1, <2>3
<1>15. ASSUME NEW g \in Reaches(x.frame), sent' = Append(sent, g), txDrops' = txDrops
       PROVE  LostForRoomOnly' /\ \E T : sent' \in Seq(T)
  <2>1. Asked(i) /\ g \in x.public
    BY <1>7, <1>15
  <2>2. sent \in Seq(S \cup {g}) /\ g \in S \cup {g}
    BY <1>2, SeqMonotonic
  <2>3. sent' \in Seq(S \cup {g}) /\ Len(sent') = Len(sent) + 1
    BY <1>15, <2>2, OneMore
  <2> DEFINE K2 == K \cup {n + 1}
  <2>4. /\ Cardinality(K2) = Len(sent')
        /\ sent'[Place(K2, n + 1)] = g
        /\ \A k \in K : sent'[Place(K2, k)] = sent[Place(K, k)]
    <3>1. SentFor(n, K, sent)
      BY <1>1, <1>2, <1>9, <1>10 DEF SentFor
    <3>2. SentAlso(n, K, sent, g, sent')
      BY <1>15, <3>1, SentMore
    <3> QED BY <2>3, <3>2 DEF SentAlso
  <2>5. K2 \in SUBSET Wanted' /\ Wrap(Cardinality(Wanted')) = Wrap(Len(sent') + txDrops')
    <3>1. Wanted' = Wanted \cup {n + 1} /\ txDrops' = txDrops
      BY <1>8, <1>15, <2>1
    <3>2. Len(sent) + txDrops + 1 = (Len(sent) + 1) + txDrops
      BY <1>3, <1>10
    <3> QED BY <1>9, <1>12, <2>3, <3>1, <3>2
  <2>6. ASSUME NEW k \in K2
        PROVE  sent'[Place(K2, k)] \in Inputs[arrived'[k]].public
    <3>1. CASE k = n + 1
      BY <1>1, <2>1, <2>4, <3>1
    <3>2. CASE k \in K
      BY <1>9, <1>13, <2>4, <3>2
    <3> QED BY <3>1, <3>2
  <2> HIDE DEF K2
  <2>7. LostForRoomOnly'
    BY <2>4, <2>5, <2>6 DEF LostForRoomOnly
  <2> QED BY <2>3, <2>7
<1>16. ASSUME Reaches(x.frame) # {}, sent' = sent, txDrops' = Wrap(txDrops + 1)
       PROVE  LostForRoomOnly' /\ txDrops' \in Nat
  <2>1. Asked(i)
    BY <1>7, <1>16
  <2>2. PICK d \in Nat : d = txDrops + 1
    BY <1>3
  <2>3. Wrap(Len(sent) + Wrap(d)) = Wrap(Len(sent) + d) /\ Wrap(d) \in Nat
    BY <1>10, WrapWrapped
  <2>4. Len(sent) + d = Len(sent) + txDrops + 1
    BY <1>3, <1>10, <2>2
  <2>5. K \in SUBSET Wanted' /\ Wrap(Cardinality(Wanted')) = Wrap(Len(sent') + txDrops')
    BY <1>8, <1>9, <1>12, <1>16, <2>1, <2>2, <2>3, <2>4
  <2> QED BY <1>9, <1>13, <1>16, <2>2, <2>3, <2>5 DEF LostForRoomOnly
<1>17. \/ Withhold(Reaches(x.frame))
       \/ \E g \in Reaches(x.frame) : sent' = Append(sent, g) /\ txDrops' = txDrops
       \/ Reaches(x.frame) # {} /\ sent' = sent /\ txDrops' = Wrap(txDrops + 1)
  BY DEF Publish, Send, DropNoRoom
<1> QED BY <1>1, <1>2, <1>3, <1>14, <1>15, <1>16, <1>17

\* Nothing came, nothing is seen.
LEMMA StationInitInv == Init => StationInv
<1> SUFFICES ASSUME Init PROVE StationInv
  OBVIOUS
<1>1. /\ arrived = <<>> /\ looked = <<>>
      /\ sent = <<>> /\ txDrops = 0 /\ views = [k \in Kinds |-> <<>>]
  BY DEF Init, PublisherInit, ViewsInit
<1>2. Wanted = {}
  BY <1>1 DEF Wanted
<1>3. LostForRoomOnly
  <2>1. Cardinality({}) = 0
    BY FS_EmptySet
  <2> QED BY <1>1, <1>2, <2>1 DEF LostForRoomOnly
<1>4. ViewsAreTrue
  BY <1>1 DEF ViewsAreTrue, LastSaid
<1> QED BY <1>1, <1>3, <1>4 DEF StationInv, HistoryOK

\* Every step keeps what is true.
LEMMA StationStep == Labelled /\ StationInv /\ [Next]_vars => StationInv'
<1> SUFFICES ASSUME Labelled, StationInv, [Next]_vars PROVE StationInv'
  OBVIOUS
<1>1. ASSUME UNCHANGED <<publisherVars, views, tap, arrived, looked>>
      PROVE  StationInv'
  <2>1. /\ arrived' = arrived /\ looked' = looked
        /\ sent' = sent /\ txDrops' = txDrops /\ filter' = filter /\ views' = views /\ tap' = tap
    BY <1>1 DEF publisherVars
  <2>2. HistoryOK'
    BY <2>1 DEF StationInv, HistoryOK
  <2>3. LostForRoomOnly'
    <3>1. Wanted' = Wanted
      BY <2>1 DEF Wanted, Passes
    <3> QED BY <2>1, <3>1 DEF StationInv, LostForRoomOnly
  <2>4. ViewsAreTrue'
    BY <2>1 DEF StationInv, ViewsAreTrue, Truth
  <2> QED BY <2>2, <2>3, <2>4 DEF StationInv
<1>2. ASSUME NEW i \in DOMAIN Inputs, NEW space \in Spaces, Arrive(i, space)
      PROVE  StationInv'
  <2> DEFINE f == Inputs[i].frame
  <2>1. /\ HistoryOK /\ LostForRoomOnly
        /\ arrived' = Append(arrived, i) /\ Publish(f, space) /\ tap' = tap
    BY <1>2 DEF StationInv, Arrive
  <2>2. /\ LostForRoomOnly' /\ arrived' \in Seq(DOMAIN Inputs)
        /\ (\E S : sent' \in Seq(S)) /\ txDrops' \in Nat
    BY <2>1, PublishInv
  <2>3. CASE UNCHANGED <<viewVars, looked>>
    <3>1. views' = views /\ looked' = looked
      BY <2>3 DEF viewVars
    <3>2. ViewsAreTrue'
      BY <2>1, <3>1 DEF StationInv, ViewsAreTrue, Truth
    <3> QED BY <2>1, <2>2, <3>1, <3>2 DEF StationInv, HistoryOK
  <2>4. ASSUME NEW g \in Heard(f), Hear(g, i) PROVE StationInv'
    <3>1. ReadsAs(g, Inputs[i].type, Truth(i))
      BY <2>1, <2>4, HeardAsSaid
    <3>2. ViewsAreTrue' /\ looked' \in Seq(DOMAIN Inputs)
      BY <2>1, <2>4, <3>1, HearInv
    <3> QED BY <2>2, <3>2 DEF StationInv, HistoryOK
  <2> QED BY <1>2, <2>3, <2>4 DEF Arrive
<1>3. ASSUME Call, UNCHANGED views PROVE StationInv'
  BY <1>1, <1>3 DEF Call
<1>4. CASE UNCHANGED vars
  BY <1>1, <1>4 DEF vars, viewVars
<1> QED BY <1>2, <1>3, <1>4 DEF Next, SetMask, ClearMask, StatsReset

\* It holds in every state of the station.
LEMMA StationAlways == Labelled /\ Spec => []StationInv
<1> SUFFICES ASSUME Labelled PROVE Spec => []StationInv
  OBVIOUS
<1>1. StationInv /\ [Next]_vars => StationInv'
  BY StationStep
<1> QED BY <1>1, StationInitInv, PTL DEF Spec

\* Whatever is heard, in whatever order, a frame that is to be published is written, in
\* its place, or counted as one there was no room for.
THEOREM LossesCounted == Labelled /\ Spec => []LostForRoomOnly
BY StationAlways, PTL DEF StationInv

\* However many frames are heard, cut short or not, and however the mask is changed
\* between them, a view is that of the last frame that could be read with its bit set.
THEOREM ViewsTrue == Labelled /\ Spec => []ViewsAreTrue
BY StationAlways, PTL DEF StationInv

=============================================================================
