--------------------------- MODULE FrameAssembler ---------------------------
(***************************************************************************)
(* The byte-stream assembler (src/src/TinyRtcmFrameAssembler.h): preamble  *)
(* 0xD3, ten bits of payload length, payload, CRC.  feed() is one action   *)
(* per outcome; CrcOk stands for frameCrcOk().                             *)
(***************************************************************************)
EXTENDS Integers, Sequences

CONSTANTS
  BufSize,    \* sizeof(buf_): 1100 in the code
  CrcOk(_)    \* whether a candidate frame passes frameCrcOk()

ASSUME BufSizeAssumption == BufSize \in Nat /\ BufSize > 5

VARIABLES
  buf,        \* buf_[0 .. len_ - 1]
  phase,      \* 0 hunting for 0xD3, 1 and 2 in the length, 3 in the body
  expected,   \* expected_: the length of the candidate, once known
  status,     \* what the last feed() returned
  out         \* the last frame handed out

asmVars == <<buf, phase, expected, status, out>>

Byte == 0..255

Preamble == 211

\* The ten bits of length: the low two of the second byte, and the third.
PayloadLen(b1, b2) == (b1 % 4) * 256 + b2

\* Mutant: the bytes of the candidate stay.
ResetKeepingBytes == buf' = buf /\ phase' = 0 /\ expected' = 0

Reset == buf' = <<>> /\ phase' = 0 /\ expected' = 0

\* Mutant: a preamble may be skipped too.
SkipAnyByte(b) ==
  /\ phase = 0
  /\ status' = "NeedMore"
  /\ UNCHANGED <<buf, phase, expected, out>>

SkipByte(b) ==
  /\ phase = 0 /\ b # Preamble
  /\ status' = "NeedMore"
  /\ UNCHANGED <<buf, phase, expected, out>>

StartCandidate(b) ==
  /\ phase = 0 /\ b = Preamble
  /\ buf' = <<b>> /\ phase' = 1
  /\ status' = "NeedMore"
  /\ UNCHANGED <<expected, out>>

\* Mutant: a frame that fills the buffer to the last byte is rejected.
RejectLengthEarly(b) ==
  /\ \/ phase # 0 /\ Len(buf) >= BufSize
     \/ phase = 2 /\ PayloadLen(buf[2], b) + 6 >= BufSize
  /\ Reset
  /\ status' = "Overflow"
  /\ UNCHANGED out

\* Mutant: the candidate is reported and kept.
RejectLengthStuck(b) ==
  /\ \/ phase # 0 /\ Len(buf) >= BufSize
     \/ phase = 2 /\ PayloadLen(buf[2], b) + 6 > BufSize
  /\ status' = "Overflow"
  /\ UNCHANGED <<buf, phase, expected, out>>

\* A candidate that cannot be held: the buffer is full, or the length says so.
RejectLength(b) ==
  /\ \/ phase # 0 /\ Len(buf) >= BufSize
     \/ phase = 2 /\ PayloadLen(buf[2], b) + 6 > BufSize
  /\ Reset
  /\ status' = "Overflow"
  /\ UNCHANGED out

\* Mutant: the reserved bits must be zero.
ReadLengthHighStrict(b) ==
  /\ phase = 1 /\ Len(buf) < BufSize
  /\ \/ b < 4 /\ buf' = Append(buf, b) /\ phase' = 2
       /\ status' = "NeedMore" /\ UNCHANGED expected
     \/ b >= 4 /\ Reset /\ status' = "Overflow"
  /\ UNCHANGED out

ReadLengthHigh(b) ==
  /\ phase = 1 /\ Len(buf) < BufSize
  /\ buf' = Append(buf, b) /\ phase' = 2
  /\ status' = "NeedMore"
  /\ UNCHANGED <<expected, out>>

ReadLengthLow(b) ==
  /\ phase = 2 /\ Len(buf) < BufSize
  /\ PayloadLen(buf[2], b) + 6 <= BufSize
  /\ expected' = PayloadLen(buf[2], b) + 6
  /\ buf' = Append(buf, b) /\ phase' = 3
  /\ status' = "NeedMore"
  /\ UNCHANGED out

ReadBody(b) ==
  /\ phase = 3 /\ Len(buf) < BufSize
  /\ Len(buf) + 1 < expected
  /\ buf' = Append(buf, b)
  /\ status' = "NeedMore"
  /\ UNCHANGED <<phase, expected, out>>

Completes == phase = 3 /\ Len(buf) < BufSize /\ Len(buf) + 1 >= expected

\* The whole candidate is discarded, the frames that may begin inside it too.
RejectCrc(b) ==
  /\ Completes /\ ~ CrcOk(Append(buf, b))
  /\ Reset
  /\ status' = "BadCrc"
  /\ UNCHANGED out

\* The caller's buffer is too short for a frame that is otherwise good.
RejectRoom(b, outCap) ==
  /\ Completes /\ CrcOk(Append(buf, b)) /\ outCap < expected
  /\ Reset
  /\ status' = "Overflow"
  /\ UNCHANGED out

\* Mutant: the checksum is not looked at.
DeliverUnchecked(b, outCap) ==
  /\ Completes /\ outCap >= expected
  /\ out' = Append(buf, b)
  /\ Reset
  /\ status' = "Ok"

\* Mutant: the last byte is not copied.
DeliverShort(b, outCap) ==
  /\ Completes /\ CrcOk(Append(buf, b)) /\ outCap >= expected
  /\ out' = buf
  /\ Reset
  /\ status' = "Ok"

Deliver(b, outCap) ==
  /\ Completes /\ CrcOk(Append(buf, b)) /\ outCap >= expected
  /\ out' = Append(buf, b)
  /\ Reset
  /\ status' = "Ok"

Feed(b, outCap) ==
  \/ SkipByte(b) \/ StartCandidate(b)
  \/ ReadLengthHigh(b) \/ ReadLengthLow(b) \/ RejectLength(b)
  \/ ReadBody(b)
  \/ RejectCrc(b) \/ RejectRoom(b, outCap) \/ Deliver(b, outCap)

ResetAssembler == Reset /\ UNCHANGED <<status, out>>

AsmInit ==
  buf = <<>> /\ phase = 0 /\ expected = 0 /\ status = "NeedMore" /\ out = <<>>

-----------------------------------------------------------------------------
(* What a frame says of itself                                               *)

\* The twelve bits after the header, which in a frame with a payload of less
\* than two bytes are bits of the CRC.
MessageType(frame) == frame[4] * 16 + frame[5] \div 16

\* What a line consists of: frames, headers that announce more than the buffer
\* holds, and bytes in which no frame begins.
IsFrame(chunk) ==
  /\ Len(chunk) \in 6..BufSize /\ chunk[1] = Preamble
  /\ Len(chunk) = PayloadLen(chunk[2], chunk[3]) + 6

IsTooLong(chunk) ==
  /\ Len(chunk) = 3 /\ chunk[1] = Preamble
  /\ PayloadLen(chunk[2], chunk[3]) + 6 > BufSize

IsNoise(chunk) == \A k \in DOMAIN chunk : chunk[k] # Preamble

-----------------------------------------------------------------------------
(* The members                                                               *)

ASMStatus == {"NeedMore", "Ok", "BadCrc", "Overflow"}

\* The members agree: the bytes collected, the phase and the length expected.
AsmOK ==
  /\ buf \in Seq(Byte) /\ out \in Seq(Byte)
  /\ phase \in 0..3 /\ expected \in Nat /\ status \in ASMStatus
  /\ phase = 0 => buf = <<>>
  /\ phase \in {1, 2} => Len(buf) = phase
  /\ phase # 0 => buf[1] = Preamble
  /\ phase = 3 => /\ Len(buf) \in 3..(expected - 1)
                  /\ expected <= BufSize
                  /\ expected = PayloadLen(buf[2], buf[3]) + 6

=============================================================================
