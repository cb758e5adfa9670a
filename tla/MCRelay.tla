------------------------------ MODULE MCRelay ------------------------------
(* Lines of four chunks for TLC: 1077s of two epochs, a 1087, two 1005s, a        *)
(* damaged 1077 and noise, of eight to ten bytes; none holds the byte 't'.        *)
EXTENDS Relay, SequencesExt

F1077a == <<211, 0, 4, 67, 80, 0, 1, 7, 8, 1>>
F1077b == <<211, 0, 4, 67, 80, 0, 2, 7, 8, 1>>
F1087 == <<211, 0, 3, 67, 240, 0, 7, 8, 1>>
F1005a == <<211, 0, 2, 62, 208, 7, 8, 1>>
F1005b == <<211, 0, 2, 62, 208, 7, 9, 1>>
Damaged == <<211, 0, 2, 67, 81, 7, 8, 0>>
Noise == <<5>>

Orders(S) == {c \in [1..4 -> S] : \A i, j \in 1..4 : c[i] = c[j] => i = j}

Chunks == Orders({F1077a, F1087, F1005a, F1005b})
            \cup {<<F1077a, F1087, F1077b, F1005a>>, <<F1077a, F1005a, F1077b, F1087>>,
                  <<Noise, F1077a, Damaged, F1005a>>}

Cut(c) ==
  [bytes |-> FlattenSeq(c), ends |-> [i \in 1..4 |-> Len(FlattenSeq(SubSeq(c, 1, i)))]]

MCLines == {Cut(c) : c \in Chunks}

MCFrames == {AsFrame(f, i) : f \in {F1077a, F1077b, F1087, F1005a, F1005b}, i \in 1..4}

MCCrcOk(frame) == frame[Len(frame)] = 1

MCConfig == [windowN |-> 1, dropThreshold |-> 1]

=============================================================================
