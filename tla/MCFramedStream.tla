-------------------------- MODULE MCFramedStream ---------------------------
(* A small instance of FramedStream for TLC: payloads of no byte and of one    *)
(* fit the buffer, the latter to its last byte; longer ones do not.           *)
EXTENDS FramedStream

MCCrcOk(frame) == (frame[Len(frame)] + frame[Len(frame) - 1]) % 2 = 0

=============================================================================
