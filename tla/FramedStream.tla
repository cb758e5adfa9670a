---------------------------- MODULE FramedStream ----------------------------
(***************************************************************************)
(* FrameAssembler with the history of the stream: the bytes fed, and the   *)
(* candidates it took out of them with the verdict on each.  A candidate   *)
(* is the bytes fed[from + 1 .. to].                                       *)
(***************************************************************************)
EXTENDS FrameAssembler

CONSTANTS
  Bytes,      \* the bytes on the line
  OutCaps,    \* capacities of the buffers callers pass to feed()
  MaxFed      \* bound on the bytes fed

ASSUME StreamAssumption ==
  /\ Bytes \subseteq Byte
  /\ OutCaps \subseteq Nat
  /\ MaxFed \in Nat

VARIABLES fed, verdicts

vars == <<asmVars, fed, verdicts>>

Candidate(to, verdict) ==
  [from |-> Len(fed) - Len(buf), to |-> to, verdict |-> verdict]

FeedByte(b, outCap) ==
  /\ Len(fed) < MaxFed
  /\ Feed(b, outCap)
  /\ fed' = Append(fed, b)
  /\ verdicts' = IF status' = "NeedMore" THEN verdicts
                 ELSE Append(verdicts, Candidate(Len(fed) + 1, status'))

\* reset() in mid-frame abandons the candidate.
Abandon ==
  /\ buf # <<>>
  /\ ResetAssembler
  /\ verdicts' = Append(verdicts, Candidate(Len(fed), "Abandoned"))
  /\ UNCHANGED fed

Init == AsmInit /\ fed = <<>> /\ verdicts = <<>>

Next == (\E b \in Bytes, outCap \in OutCaps : FeedByte(b, outCap)) \/ Abandon

Spec == Init /\ [][Next]_vars

-----------------------------------------------------------------------------
(* Properties                                                                *)

HistoryOK ==
  /\ fed \in Seq(Byte)
  /\ verdicts \in Seq([from : Nat, to : Nat,
                        verdict : {"Ok", "BadCrc", "Overflow", "Abandoned"}])

\* The members of the assembler and the history have their types.
TypeOK == AsmOK /\ HistoryOK

Start == Len(fed) - Len(buf)

\* buf_ always holds the newest bytes of the stream, none left out or repeated.
BufferIsStreamTail ==
  /\ Len(buf) <= Len(fed)
  /\ \A k \in 1..Len(buf) : buf[k] = fed[Start + k]

\* The bytes s[from + 1 .. to] of a stream s.
Slice(s, from, to) == [k \in 1..(to - from) |-> s[from + k]]

\* They are a frame that fits the assembler: preamble, length and CRC.
WellFormed(s, from, to) ==
  /\ to - from \in 6..BufSize
  /\ s[from + 1] = Preamble
  /\ to - from = PayloadLen(s[from + 2], s[from + 3]) + 6
  /\ CrcOk(Slice(s, from, to))

\* The verdict on a candidate is the right one for its bytes.
VerdictTrue(s, v) ==
  /\ v.from < v.to /\ s[v.from + 1] = Preamble
  /\ v.verdict # "Abandoned" => v.to - v.from >= 3
  /\ v.verdict = "Ok" => WellFormed(s, v.from, v.to)
  /\ v.verdict = "BadCrc" =>
       /\ v.to - v.from = PayloadLen(s[v.from + 2], s[v.from + 3]) + 6
       /\ ~ CrcOk(Slice(s, v.from, v.to))
  /\ v.verdict = "Overflow" =>
       \/ WellFormed(s, v.from, v.to)
       \/ PayloadLen(s[v.from + 2], s[v.from + 3]) + 6 > BufSize

\* A candidate is found good, bad or too long only when it is: the verdicts agree
\* with the stream, whatever was assembled or discarded before.
VerdictsAreTrue == \A i \in DOMAIN verdicts : VerdictTrue(fed, verdicts[i])

\* What is handed out is a frame of the stream, byte for byte: out is the slice
\* of a candidate found good, and still is when the assembler has moved on.
DeliveredFromStream ==
  \/ out = <<>>
  \/ \E i \in DOMAIN verdicts :
       verdicts[i].verdict = "Ok" /\ out = Slice(fed, verdicts[i].from, verdicts[i].to)

\* Candidates follow one another without overlap, the one in the buffer last, and
\* every preamble byte lies in one of them: only noise is ever skipped.
OnlyNoiseSkipped ==
  /\ \A i \in DOMAIN verdicts :
       /\ verdicts[i].to <= Start
       /\ \A j \in DOMAIN verdicts : i < j => verdicts[i].to <= verdicts[j].from
  /\ \A k \in 1..Start : fed[k] = Preamble =>
       \E i \in DOMAIN verdicts : verdicts[i].from < k /\ k <= verdicts[i].to

\* A point of the stream that lies inside no candidate.
Boundary(p) ==
  /\ p <= Start
  /\ \A i \in DOMAIN verdicts : ~ (verdicts[i].from < p /\ p < verdicts[i].to)

\* A well-formed frame that begins where the assembler is hunting is never
\* missed: once fed whole, it was handed out, or refused only for lack of room
\* in the caller's buffer, or reset() came in between.
AlignedFrameDelivered ==
  \A from, to \in 0..Len(fed) :
    (from < to /\ Boundary(from) /\ WellFormed(fed, from, to)) =>
      \E i \in DOMAIN verdicts :
        /\ verdicts[i].from = from
        /\ \/ verdicts[i].to = to /\ verdicts[i].verdict \in {"Ok", "Overflow"}
           \/ verdicts[i].verdict = "Abandoned"

=============================================================================
