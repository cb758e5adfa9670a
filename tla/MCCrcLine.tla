------------------------------ MODULE MCCrcLine ------------------------------
(* Bodies of three and four bytes for TLC.  A byte may lose or gain a bit at either *)
(* end, two neighbours, or the bits of one of the three bytes of 0x864CFB: with the *)
(* polynomial's leading one before them, those would pass unseen.                   *)
EXTENDS CrcLine

MCBytes == {{}, {0, 1, 4, 6, 7}, {0, 3, 7}}

MCFlips == {{0}, {7}, {3, 4}, {1, 2, 7}, {2, 3, 6}, {0, 1, 3, 4, 5, 6, 7}}

=============================================================================
