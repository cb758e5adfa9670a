------------------------------- MODULE Crc24q -------------------------------
(***************************************************************************)
(* CRC-24Q (src/src/TinyRtcmCrc24q.h) one byte at a time, by both engines. *)
(* A byte and a register are the sets of their one bits, bit 0 the least   *)
(* significant, so that exclusive or is SymDiff and a shift adds to the    *)
(* members.                                                                *)
(***************************************************************************)
EXTENDS Integers, Sequences, FiniteSetsExt

BytePattern == SUBSET (0..7)

Register == SUBSET (0..23)

\* kCrc24qPoly, 0x1864CFB.
Poly == {0, 1, 3, 4, 5, 6, 7, 10, 11, 14, 17, 18, 23, 24}

ShiftUp(c, k) == {i + k : i \in c}

BitStep(c) ==
  IF 23 \in c THEN SymDiff(ShiftUp(c, 1), Poly) ELSE ShiftUp(c, 1)

Shift2(c) == BitStep(BitStep(c))

Shift4(c) == Shift2(Shift2(c))

Shift8(c) == Shift4(Shift4(c))

\* A byte through crc24qBit().
BitByte(crc, b) == Shift8(SymDiff(crc, ShiftUp(b, 16)))

-----------------------------------------------------------------------------
(* The table engine                                                          *)

\* crc24qTableEntries(), in the order of the code.
kTable == <<
  \h000000, \h864CFB, \h8AD50D, \h0C99F6, \h93E6E1, \h15AA1A, \h1933EC, \h9F7F17,
  \hA18139, \h27CDC2, \h2B5434, \hAD18CF, \h3267D8, \hB42B23, \hB8B2D5, \h3EFE2E,
  \hC54E89, \h430272, \h4F9B84, \hC9D77F, \h56A868, \hD0E493, \hDC7D65, \h5A319E,
  \h64CFB0, \hE2834B, \hEE1ABD, \h685646, \hF72951, \h7165AA, \h7DFC5C, \hFBB0A7,
  \h0CD1E9, \h8A9D12, \h8604E4, \h00481F, \h9F3708, \h197BF3, \h15E205, \h93AEFE,
  \hAD50D0, \h2B1C2B, \h2785DD, \hA1C926, \h3EB631, \hB8FACA, \hB4633C, \h322FC7,
  \hC99F60, \h4FD39B, \h434A6D, \hC50696, \h5A7981, \hDC357A, \hD0AC8C, \h56E077,
  \h681E59, \hEE52A2, \hE2CB54, \h6487AF, \hFBF8B8, \h7DB443, \h712DB5, \hF7614E,
  \h19A3D2, \h9FEF29, \h9376DF, \h153A24, \h8A4533, \h0C09C8, \h00903E, \h86DCC5,
  \hB822EB, \h3E6E10, \h32F7E6, \hB4BB1D, \h2BC40A, \hAD88F1, \hA11107, \h275DFC,
  \hDCED5B, \h5AA1A0, \h563856, \hD074AD, \h4F0BBA, \hC94741, \hC5DEB7, \h43924C,
  \h7D6C62, \hFB2099, \hF7B96F, \h71F594, \hEE8A83, \h68C678, \h645F8E, \hE21375,
  \h15723B, \h933EC0, \h9FA736, \h19EBCD, \h8694DA, \h00D821, \h0C41D7, \h8A0D2C,
  \hB4F302, \h32BFF9, \h3E260F, \hB86AF4, \h2715E3, \hA15918, \hADC0EE, \h2B8C15,
  \hD03CB2, \h567049, \h5AE9BF, \hDCA544, \h43DA53, \hC596A8, \hC90F5E, \h4F43A5,
  \h71BD8B, \hF7F170, \hFB6886, \h7D247D, \hE25B6A, \h641791, \h688E67, \hEEC29C,
  \h3347A4, \hB50B5F, \hB992A9, \h3FDE52, \hA0A145, \h26EDBE, \h2A7448, \hAC38B3,
  \h92C69D, \h148A66, \h181390, \h9E5F6B, \h01207C, \h876C87, \h8BF571, \h0DB98A,
  \hF6092D, \h7045D6, \h7CDC20, \hFA90DB, \h65EFCC, \hE3A337, \hEF3AC1, \h69763A,
  \h578814, \hD1C4EF, \hDD5D19, \h5B11E2, \hC46EF5, \h42220E, \h4EBBF8, \hC8F703,
  \h3F964D, \hB9DAB6, \hB54340, \h330FBB, \hAC70AC, \h2A3C57, \h26A5A1, \hA0E95A,
  \h9E1774, \h185B8F, \h14C279, \h928E82, \h0DF195, \h8BBD6E, \h872498, \h016863,
  \hFAD8C4, \h7C943F, \h700DC9, \hF64132, \h693E25, \hEF72DE, \hE3EB28, \h65A7D3,
  \h5B59FD, \hDD1506, \hD18CF0, \h57C00B, \hC8BF1C, \h4EF3E7, \h426A11, \hC426EA,
  \h2AE476, \hACA88D, \hA0317B, \h267D80, \hB90297, \h3F4E6C, \h33D79A, \hB59B61,
  \h8B654F, \h0D29B4, \h01B042, \h87FCB9, \h1883AE, \h9ECF55, \h9256A3, \h141A58,
  \hEFAAFF, \h69E604, \h657FF2, \hE33309, \h7C4C1E, \hFA00E5, \hF69913, \h70D5E8,
  \h4E2BC6, \hC8673D, \hC4FECB, \h42B230, \hDDCD27, \h5B81DC, \h57182A, \hD154D1,
  \h26359F, \hA07964, \hACE092, \h2AAC69, \hB5D37E, \h339F85, \h3F0673, \hB94A88,
  \h87B4A6, \h01F85D, \h0D61AB, \h8B2D50, \h145247, \h921EBC, \h9E874A, \h18CBB1,
  \hE37B16, \h6537ED, \h69AE1B, \hEFE2E0, \h709DF7, \hF6D10C, \hFA48FA, \h7C0401,
  \h42FA2F, \hC4B6D4, \hC82F22, \h4E63D9, \hD11CCE, \h575035, \h5BC9C3, \hDD8538 >>

Number(b) == SumSet({2 ^ i : i \in b})

\* The table by the bits of the index and of the entry.
Entry ==
  [b \in BytePattern |-> {i \in 0..23 : (kTable[Number(b) + 1] \div 2 ^ i) % 2 = 1}]

\* Each entry is what eight bit steps make of its index: TLC evaluates the 256 of them.
ASSUME TableAssumption ==
  \A b \in BytePattern : Entry[b] = Shift8(ShiftUp(b, 16))

\* Mutant: the index is the byte alone.
TableByteIndexed(crc, b) == SymDiff({i + 8 : i \in crc \cap 0..15}, Entry[b])

\* A byte through crc24qTable().
TableByte(crc, b) ==
  LET index == SymDiff({i \in 0..7 : i + 16 \in crc}, b)
  IN  SymDiff({i + 8 : i \in crc \cap 0..15}, Entry[index])

-----------------------------------------------------------------------------
(* The three bytes of the seal                                               *)

\* Byte k of storeCrc24q(), 1 the first sent.
StoredByte(crc, k) == {i \in 0..7 : i + (24 - 8 * k) \in crc}

\* loadCrc24q() with byte k.
Loaded(crc, k, b) == crc \cup ShiftUp(b, 24 - 8 * k)

=============================================================================
