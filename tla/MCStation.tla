----------------------------- MODULE MCStation -----------------------------
(* Frames for TLC, laid out field by field as RTCM 10403 does, most of them *)
(* by another encoder: with bits set that the decoders skip, bytes after the *)
(* last field, or cut short.  Coordinates have six bits.  Of an MSM only the *)
(* header is laid out, of 1230 the messages decode1230() reads right: see    *)
(* BiasesAssumption.                                                         *)
EXTENDS Station

Layout(fields) == FlattenSeq([k \in DOMAIN fields |-> Bits(fields[k][1], fields[k][2])])

MCSeal(bits) == Bits(0, 24)

Whole(fields) == Frame(Layout(fields), MCSeal(<<>>), TRUE)

Damaged(f) == [f EXCEPT !.good = FALSE]

Cut(f, bytes) == Frame(SubSeq(f.bits, 1, 8 * bytes), f.seal, TRUE)

Longer(f, bytes) == Frame(f.bits \o [i \in 1..(8 * bytes) |-> 1], f.seal, TRUE)

\* A frame no station is named in; one that names a station; one of the types 1005,
\* 1006 and 1033 that cannot be read; a frame in which only the header can be read.
Plain(t, f, says) ==
  [type |-> t, frame |-> f, says |-> says, public |-> {f}, publicSays |-> says]

Names(t, f, msg, public, publicMsg) ==
  [type |-> t, frame |-> f, says |-> <<msg>>, public |-> {public}, publicSays |-> <<publicMsg>>]

Broken(t, f) ==
  [type |-> t, frame |-> f, says |-> <<>>, public |-> {}, publicSays |-> <<>>]

ArpLayout(t, station, skipped, x, y, z) ==
  << <<t, 12>>, <<station, 12>>, <<skipped[1], 10>>, <<x, 6>>, <<skipped[2], 2>>, <<y, 6>>,
     <<skipped[3], 2>>, <<z, 6>> >>

MCPublishArp == <<21, 0, 0>>

Public1005 == Whole(ArpLayout(1005, 0, <<8, 0, 0>>, 21, 0, 0))

Public1006(h) == Whole(Append(ArpLayout(1006, 0, <<8, 0, 0>>, 21, 0, 0), <<h, 16>>))

Foreign1005 == Whole(ArpLayout(1005, 2003, <<1023, 3, 3>>, -32, 31, -1))

Foreign1006 == Whole(Append(ArpLayout(1006, 4095, <<37, 2, 1>>, 5, -7, 30), <<2, 16>>))

\* Written by the library for a station number that takes more than twelve bits.
Own1005 == Encode1005([stationId |-> 4100, arp |-> <<-1, 0, 17>>], 1100).frame

Own1006 == Encode1006([stationId |-> 7, arp |-> <<31, -32, 1>>, height |-> 1], 1100).frame

Station1005(s, x, y, z) == [stationId |-> s, arp |-> <<x, y, z>>]

Station1006(s, x, y, z, h) == [stationId |-> s, arp |-> <<x, y, z>>, height |-> h]

Text(chars) == [i \in 1..32 |-> IF i \in DOMAIN chars THEN chars[i] ELSE 0]

Long == [i \in 1..31 |-> 65 + i]

Counted(chars) == <<<<Len(chars), 8>>>> \o [i \in DOMAIN chars |-> <<chars[i], 8>>]

Layout1033(station, ant, setup, serial, rcv, firmware, last) ==
  << <<1033, 12>>, <<station, 12>> >> \o Counted(ant) \o << <<setup, 8>> >>
    \o Counted(serial) \o Counted(rcv) \o Counted(firmware) \o Counted(last)

Public1033 ==
  Whole(Layout1033(0, <<65, 78, 84>>, 0, <<>>, <<82, 67, 86>>, <<>>, <<>>))

Says1033(station, ant, rcv) ==
  [stationId |-> station, antenna |-> Text(ant), receiver |-> Text(rcv)]

Foreign1033 == Whole(Layout1033(12, Long, 9, <<70>>, <<71, 72>>, <<73>>, <<74, 75>>))

Own1033 == Encode1033(Says1033(12, <<71>>, Long), 1100).frame

Msm(t, satHi, satLo, sig) ==
  << <<t, 12>>, <<99, 12>>, <<7654321, 30>>, <<5, 19>>, <<0, 16>>, <<satHi, 16>>,
     <<satLo, 16>>, <<0, 16>>, <<sig, 16>>, <<0, 16>> >>

SaysMsm(t, sats, sigs) ==
  [messageType |-> t, stationId |-> 99, epoch30 |-> 7654321, satCount |-> sats,
   sigCount |-> sigs]

\* Messages of the least length that holds a header, or longer.
Msm4 == Longer(Whole(Append(Msm(1074, 1, 4, 3), <<0, 7>>)), 8)

Msm7 == Whole(Append(Msm(1127, 0, 2, 8), <<127, 7>>))

Msm7Empty == Whole(Append(Msm(1077, 0, 0, 0), <<0, 7>>))

Msm5 == Whole(Append(Msm(1075, 3, 0, 1), <<0, 7>>))

Navic == Whole(Append(Msm(1137, 1, 1, 1), <<0, 7>>))

\* The mask of the four signals, then the biases of those in it, and zeros up to a byte.
Biases(mask, bias) ==
  LET given == SelectSeq(<<1, 2, 3, 4>>, LAMBDA j : mask[j] = 1)
      bits == Layout(<< <<1230, 12>>, <<2003, 12>>, <<1, 1>>, <<5, 3>> >>
                     \o [j \in 1..4 |-> <<mask[j], 1>>]
                     \o [k \in DOMAIN given |-> <<bias[given[k]], 16>>])
  IN  Frame(bits \o [i \in 1..((-Len(bits)) % 8) |-> 0], MCSeal(<<>>), TRUE)

SaysBiases(mask, bias) ==
  [stationId |-> 2003, biasIndicator |-> 1, validMask |-> {j \in 0..3 : mask[j + 1] = 1},
   bias |-> [j \in 0..3 |-> IF mask[j + 1] = 1 THEN bias[j + 1] ELSE 0]]

NoSignal == <<0, 0, 0, 0>>

LastOnly == <<0, 0, 0, 1>>

Negative == <<-5, -4, -3, -2>>

Greatest == <<1, 2, 3, 32767>>

\* decode1230() takes a bit of the mask and a bias in turn (TinyRtcmCodec.cpp:536-550),
\* where the mask comes first: it reads right what has no bias or the last one only.
ASSUME BiasesAssumption ==
  \A mask \in [1..4 -> 0..1], bias \in {Negative, Greatest} :
    Told(Decode1230(Biases(mask, bias))) = <<SaysBiases(mask, bias)>>
      <=> mask \in {NoSignal, LastOnly}

\* Payloads of no and of one byte, their seals begin 0x47e and 0x061; the last has
\* reserved bits of its header set.
NoPayload == Frame(<<>>, Bits(4713035, 24), TRUE)

OneByte1104 == Frame(Bits(69, 8), Bits(397637, 24), TRUE)

OneByte1005 == Frame(Bits(62, 8), Bits(14631249, 24), TRUE)

InputList == <<
  Names(1005, Foreign1005, Station1005(2003, -32, 31, -1), Public1005, Station1005(0, 21, 0, 0)),
  Names(1005, Own1005, Station1005(4, -1, 0, 17), Public1005, Station1005(0, 21, 0, 0)),
  Names(1005, Longer(Foreign1005, 2), Station1005(2003, -32, 31, -1), Public1005,
        Station1005(0, 21, 0, 0)),
  Broken(1005, Cut(Foreign1005, 6)),
  Broken(1005, OneByte1005),
  Plain(1005, Damaged(Foreign1005), <<>>),
  Names(1006, Foreign1006, Station1006(4095, 5, -7, 30, 2), Public1006(2),
        Station1006(0, 21, 0, 0, 2)),
  Names(1006, Own1006, Station1006(7, 31, -32, 1, 1), Public1006(1),
        Station1006(0, 21, 0, 0, 1)),
  Broken(1006, Cut(Foreign1006, 8)),
  Names(1033, Foreign1033, Says1033(12, Long, <<71, 72>>), Public1033,
        Says1033(0, <<65, 78, 84>>, <<82, 67, 86>>)),
  Names(1033, Own1033, Says1033(12, <<71>>, Long), Public1033,
        Says1033(0, <<65, 78, 84>>, <<82, 67, 86>>)),
  Broken(1033, Cut(Foreign1033, 40)),
  Broken(1033, Whole(Layout1033(12, Append(Long, 65), 9, <<>>, <<>>, <<>>, <<>>))),
  Broken(1033, Longer(Foreign1033, 100)),
  Plain(1074, Msm4, <<SaysMsm(1074, 2, 2)>>),
  Plain(1127, Msm7, <<SaysMsm(1127, 1, 1)>>),
  Plain(1077, Msm7Empty, <<SaysMsm(1077, 0, 0)>>),
  Plain(1074, Cut(Msm4, 21), <<>>),
  Plain(1127, Cut(Msm7, 21), <<>>),
  Plain(1075, Msm5, <<SaysMsm(1075, 2, 1)>>),
  Plain(1137, Navic, <<SaysMsm(1137, 2, 1)>>),
  Plain(1104, OneByte1104, <<>>),
  Plain(1230, Biases(LastOnly, Negative), <<SaysBiases(LastOnly, Negative)>>),
  Plain(1230, Biases(LastOnly, Greatest), <<SaysBiases(LastOnly, Greatest)>>),
  Plain(1230, Biases(NoSignal, Greatest), <<SaysBiases(NoSignal, Greatest)>>),
  Plain(1230, Cut(Biases(LastOnly, Negative), 5), <<>>),
  Plain(1230, Longer(Biases(LastOnly, Greatest), 60), <<>>),
  Plain(1150, NoPayload, <<>>),
  Plain(1019, Whole(<< <<1019, 12>>, <<1, 4>> >>), <<>>) >>

MCInputs == InputList

MCMask == {1005, 1006, 1033, 1074, 1075, 1077, 1104, 1127, 1137, 1230}

MCStartMasks == {{}, MCMask}

MCMaskTypes == {1005, 1230}

=============================================================================
