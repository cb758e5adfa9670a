------------------------------- MODULE MCHub -------------------------------
(* Lines of two and three chunks for TLC: a 1005, a 1077, a 1019, a frame of     *)
(* type 0, a damaged frame, a header that announces too much, noise, a fragment.    *)
EXTENDS Hub

F1005 == <<211, 0, 2, 62, 208, 7, 8, 1>>
F1077 == <<211, 0, 2, 67, 80, 7, 8, 1>>
F1019 == <<211, 0, 2, 63, 176, 7, 8, 1>>
F0 == <<211, 0, 2, 0, 0, 7, 8, 1>>
Damaged == <<211, 0, 2, 67, 81, 7, 8, 0>>
TooLong == <<211, 3, 9>>
Noise == <<5>>
Fragment == <<211, 0, 2, 62>>

MCLines ==
  [1..2 -> {F1005, F1077, F1019, F0, Damaged, TooLong, Noise, Fragment}]
    \cup [1..3 -> {F1077, F1019, Damaged, Fragment}]

MCCrcOk(frame) == frame[Len(frame)] = 1

=============================================================================
