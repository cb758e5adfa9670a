------------------------------- MODULE Codec -------------------------------
(***************************************************************************)
(* The message bodies (src/src/TinyRtcmCodec.cpp) over the bit buffer      *)
(* (src/src/TinyRtcmBitBuffer.h).  Bits are sequences of 0 and 1, the most *)
(* significant first.  A frame handed to the codec is the bits of its      *)
(* payload and of its seal, whether frameCrcOk() accepts it, and its       *)
(* length in bytes as the caller states it.                                *)
(***************************************************************************)
EXTENDS Integers, Sequences, SequencesExt

CONSTANTS
  CoordHi, CoordLo,   \* bits of a coordinate, in its two parts: 6 and 32 in the code
  PublishArp,         \* kPublishArpEcef01mmX, Y, Z
  Seal(_)             \* the CRC of a frame with this payload

ASSUME CodecAssumption ==
  /\ CoordHi \in Nat \ {0} /\ CoordLo \in Nat \ {0}
  /\ (38 + 3 * (CoordHi + CoordLo)) % 8 = 0   \* a 1005 fills its bytes
  /\ PublishArp \in Int \X Int \X Int

\* FoldLeft() of SequencesExt in time linear in the sequence.
Through(op(_, _), base, seq) ==
  LET upTo[i \in 0..Len(seq)] == IF i = 0 THEN base ELSE op(upTo[i - 1], seq[i])
  IN  upTo[Len(seq)]

\* The low n bits of an integer, in two's complement, and back without sign.
Bits(v, n) == [i \in 1..n |-> (v \div 2 ^ (n - i)) % 2]

Number(bits) == Through(LAMBDA n, b : 2 * n + b, 0, bits)

Ones(bits) == Len(SelectSeq(bits, LAMBDA b : b = 1))

-----------------------------------------------------------------------------
(* Frames                                                                    *)

Frame(bits, seal, good) ==
  [bits |-> bits, seal |-> seal, good |-> good, len |-> Len(bits) \div 8 + 6]

\* The twelve bits after the header: of the seal, when the payload is shorter.
MessageType(f) ==
  Number(SubSeq(IF Len(f.bits) < 12 THEN f.bits \o f.seal ELSE f.bits, 1, 12))

\* What every decoder asks before it reads a bit.
Entry(f, types, least, most) ==
  IF f.len # Len(f.bits) \div 8 + 6 THEN "InvalidArg"
  ELSE IF ~ f.good THEN "BadCrc"
  ELSE IF MessageType(f) \notin types THEN "InvalidArg"
  ELSE IF Len(f.bits) \notin 8 * least .. 8 * most THEN "Overflow"
  ELSE "Ok"

-----------------------------------------------------------------------------
(* The bit buffer                                                            *)

\* putBits(), field is <<value, width>>: what fits is written, then Overflow.
Put(bb, field) ==
  LET room == 8 * bb.cap - Len(bb.bits)
      fits == field[2] <= room
  IN  IF bb.st # "Ok" THEN bb
      ELSE [bb EXCEPT
             !.bits = @ \o SubSeq(Bits(field[1], field[2]), 1, IF fits THEN field[2] ELSE room),
             !.st = IF fits THEN "Ok" ELSE "Overflow"]

Write(cap, fields) == Through(Put, [bits |-> <<>>, cap |-> cap, st |-> "Ok"], fields)

\* getBits(): a field is taken whole or the rest of the message is given up.
Get(bb, n) ==
  IF bb.st # "Ok" THEN bb
  ELSE IF Len(bb.left) < n THEN [bb EXCEPT !.st = "Overflow"]
  ELSE [st |-> "Ok", got |-> Append(bb.got, SubSeq(bb.left, 1, n)),
        left |-> SubSeq(bb.left, n + 1, Len(bb.left))]

\* finalizeFrame() on the bytes written.
FinalizeFrame(bb, cap) ==
  LET bits == bb.bits \o [i \in 1..((-Len(bb.bits)) % 8) |-> 0]
  IN  IF bb.st # "Ok" THEN [st |-> bb.st]
      ELSE IF Len(bits) > 8 * 1023 \/ cap < Len(bits) \div 8 + 6 THEN [st |-> "Overflow"]
      ELSE [st |-> "Ok", frame |-> Frame(bits, Seal(bits), TRUE)]

\* A decoder's return: the message is written only with Ok.
Outcome(st, msg) == IF st = "Ok" THEN [st |-> st, msg |-> msg] ELSE [st |-> st]

-----------------------------------------------------------------------------
(* 1005 and 1006                                                             *)

ArpBytes == (38 + 3 * (CoordHi + CoordLo)) \div 8

\* getBits38Signed()'s two reads put together.
Coordinate(hi, lo) ==
  Number(hi \o lo) - (IF hi[1] = 1 THEN 2 ^ (CoordHi + CoordLo) ELSE 0)

\* putBits38Signed(): the low bits of the coordinate.
CoordinateFields(v) == << <<v \div 2 ^ CoordLo, CoordHi>>, <<v, CoordLo>> >>

\* put1005StyleBody()
ArpFields(t, msg) ==
  << <<t, 12>>, <<msg.stationId, 12>>, <<0, 6>>, <<1, 1>>, <<0, 1>>, <<0, 1>>, <<0, 1>> >>
    \o CoordinateFields(msg.arp[1]) \o << <<0, 1>>, <<0, 1>> >>
    \o CoordinateFields(msg.arp[2]) \o << <<0, 2>> >> \o CoordinateFields(msg.arp[3])

\* get1005StyleBody(): its reads, and what it makes of them.
ArpWidths ==
  <<12, 12, 6, 4, CoordHi, CoordLo, 1, 1, CoordHi, CoordLo, 2, CoordHi, CoordLo>>

Arp(got) ==
  [stationId |-> Number(got[2]),
   arp |-> <<Coordinate(got[5], got[6]), Coordinate(got[9], got[10]),
             Coordinate(got[12], got[13])>>]

Read(f, widths) == Through(Get, [st |-> "Ok", got |-> <<>>, left |-> f.bits], widths)

Decode1005(f) ==
  LET st == Entry(f, {1005}, ArpBytes, 1023)
      bb == Read(f, ArpWidths)
  IN  IF st # "Ok" THEN [st |-> st] ELSE Outcome(bb.st, Arp(bb.got))

Encode1005(msg, cap) == FinalizeFrame(Write(ArpBytes, ArpFields(1005, msg)), cap)

Decode1006(f) ==
  LET st == Entry(f, {1006}, ArpBytes + 2, 1023)
      bb == Read(f, Append(ArpWidths, 16))
  IN  IF st # "Ok" THEN [st |-> st]
      ELSE Outcome(bb.st, [stationId |-> Arp(bb.got).stationId, arp |-> Arp(bb.got).arp,
                           height |-> Number(bb.got[14])])

\* antennaHeight_0p1mm takes sixteen bits.
Heights == 0..65535

Encode1006(msg, cap) ==
  IF msg.height \notin Heights THEN [st |-> "InvalidArg"]
  ELSE FinalizeFrame(
         Write(ArpBytes + 2, Append(ArpFields(1006, msg), <<msg.height, 16>>)), cap)

-----------------------------------------------------------------------------
(* 1033: a descriptor is a buffer of 32 characters                           *)

\* putCountedString(): up to the first NUL, 31 characters at most.
CountedString(s) ==
  LET n == CHOOSE k \in 0..31 :
             /\ \A i \in 1..k : s[i] # 0
             /\ k < 31 => s[k + 1] = 0
  IN  <<<<n, 8>>>> \o [i \in 1..n |-> <<s[i], 8>>]

NoText == [i \in 1..32 |-> 0]

\* getCountedString(): the count, then as many characters.
GetCountedString(bb) ==
  LET counted == Get(bb, 8)
      n == Number(Last(counted.got))
  IN  IF counted.st # "Ok" THEN counted
      ELSE IF n >= 32 THEN [counted EXCEPT !.st = "Overflow"]
      ELSE Get(counted, 8 * n)

Buffer(bits) ==
  [i \in 1..32 |-> IF 8 * i <= Len(bits) THEN Number(SubSeq(bits, 8 * i - 7, 8 * i)) ELSE 0]

Encode1033(msg, cap) ==
  FinalizeFrame(
    Write(128, << <<1033, 12>>, <<msg.stationId, 12>> >> \o CountedString(msg.antenna)
               \o << <<0, 8>> >> \o CountedString(NoText) \o CountedString(msg.receiver)
               \o CountedString(NoText) \o CountedString(NoText)), cap)

Decode1033(f) ==
  LET st == Entry(f, {1033}, 1, 128)
      antenna == GetCountedString(Read(f, <<12, 12>>))
      serial == GetCountedString(Get(antenna, 8))
      bb == GetCountedString(GetCountedString(GetCountedString(serial)))
  IN  IF st # "Ok" THEN [st |-> st]
      ELSE Outcome(bb.st, [stationId |-> Number(bb.got[2]), antenna |-> Buffer(bb.got[4]),
                           receiver |-> Buffer(bb.got[9])])

-----------------------------------------------------------------------------
(* MSM and 1230                                                              *)

MsmWide == {t \in 1071..1137 : t % 10 \in 1..7}

MsmWidths == <<12, 12, 30, 19, 32, 32, 32>>

MsmHeader(f, got) ==
  [messageType |-> MessageType(f), stationId |-> Number(got[2]), epoch30 |-> Number(got[3]),
   satCount |-> Ones(got[5]) + Ones(got[6]), sigCount |-> Ones(got[7])]

\* The header lies in the 32 bytes decodeMsmHeader() copies.
DecodeMsmHeader(f) ==
  LET st == Entry(f, MsmWide, 22, 1023)
      bb == Read(f, MsmWidths)
  IN  IF st # "Ok" THEN [st |-> st] ELSE Outcome(bb.st, MsmHeader(f, bb.got))

\* Bits of a satellite's block and, of a cell, before its ratio and of it.
SatBits(t) == IF t % 10 = 4 THEN 18 ELSE 36

CellWidths(t) == IF t % 10 = 4 THEN <<42, 6>> ELSE <<70, 10>>

\* A ratio in 0.1 dB-Hz.
Ratio(t, raw) == IF t % 10 = 4 THEN raw * 10 ELSE (raw * 5) \div 8

\* The reader after the cells: the ratios are every other field of got.
Cells(t, header) ==
  LET sats == Ones(header.got[5]) + Ones(header.got[6])
      mask == Get(header, sats * Ones(header.got[7]))
      block == Get(mask, sats * SatBits(t))
      ncell == Ones(Last(mask.got))
  IN  IF block.st # "Ok" THEN block
      ELSE Through(Get, [block EXCEPT !.got = <<>>],
                    [i \in 1..(2 * ncell) |-> CellWidths(t)[((i - 1) % 2) + 1]])

\* The mean of the ratios, 65535 when there is no cell.
Mean(t, got) ==
  LET ncell == Len(got) \div 2
      ratios == [i \in 1..ncell |-> Ratio(t, Number(got[2 * i]))]
  IN  IF ncell = 0 THEN 65535 ELSE Through(LAMBDA a, b : a + b, 0, ratios) \div ncell

SummarizeMsmCnr(f) ==
  LET t == MessageType(f)
      st == Entry(f, 1071..1127, 0, 1023)
      header == Read(f, MsmWidths)
      cells == Cells(t, header)
  IN  IF st \in {"InvalidArg", "BadCrc"} THEN [st |-> st]
      ELSE IF t % 10 \notin {4, 7} THEN [st |-> "Unsupported"]
      ELSE IF header.st # "Ok" THEN [st |-> header.st]
      ELSE Outcome(cells.st, [header |-> MsmHeader(f, header.got),
                              meanCnr |-> Mean(t, cells.got)])

Signed16(raw) == IF raw >= 32768 THEN raw - 65536 ELSE raw

\* One signal of a 1230: a bit says whether its bias follows.
Bias(acc, j) ==
  LET valid == Get(acc.bb, 1)
      raw == Get(valid, 16)
  IN  IF valid.st # "Ok" \/ Last(valid.got) = <<0>> THEN [acc EXCEPT !.bb = valid]
      ELSE [bb |-> raw, validMask |-> acc.validMask \cup {j},
            bias |-> [acc.bias EXCEPT ![j] = Signed16(Number(Last(raw.got)))]]

Decode1230(f) ==
  LET st == Entry(f, {1230}, 1, 64)
      acc == Through(Bias, [bb |-> Read(f, <<12, 12, 1, 3>>), validMask |-> {},
                             bias |-> [j \in 0..3 |-> 0]], <<0, 1, 2, 3>>)
  IN  IF st # "Ok" THEN [st |-> st]
      ELSE Outcome(acc.bb.st,
             [stationId |-> Number(acc.bb.got[2]), biasIndicator |-> Number(acc.bb.got[3]),
              validMask |-> acc.validMask, bias |-> acc.bias])

-----------------------------------------------------------------------------
(* What is published in place of a station                                   *)

\* Mutant: the third coordinate stays.
PublishIdentityPartly(msg) ==
  [msg EXCEPT !.stationId = 0, !.arp = <<PublishArp[1], PublishArp[2], @[3]>>]

PublishIdentity(msg) == [msg EXCEPT !.stationId = 0, !.arp = PublishArp]

Rewrite1005ToPublishIdentity(f, cap) ==
  LET d == Decode1005(f)
  IN  IF d.st # "Ok" THEN d ELSE Encode1005(PublishIdentity(d.msg), cap)

Rewrite1006ToPublishIdentity(f, cap) ==
  LET d == Decode1006(f)
  IN  IF d.st # "Ok" THEN d ELSE Encode1006(PublishIdentity(d.msg), cap)

\* "ANT" and "RCV".
AntennaText == [NoText EXCEPT ![1] = 65, ![2] = 78, ![3] = 84]

ReceiverText == [NoText EXCEPT ![1] = 82, ![2] = 67, ![3] = 86]

Rewrite1033ToSanitized(f, cap) ==
  LET d == Decode1033(f)
  IN  IF d.st # "Ok" THEN d
      ELSE Encode1033([stationId |-> 0, antenna |-> AntennaText,
                       receiver |-> ReceiverText], cap)

=============================================================================
