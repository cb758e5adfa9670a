---------------------------- MODULE MCFrameSync ----------------------------
(* Lines for TLC.  The CRC of the instance passes exactly the frames sent.     *)
EXTENDS FrameSync

\* The second frame holds a preamble whose length points past the next frame,
\* and its second byte has reserved bits set, which the length ignores.
Mixed == << <<211, 0, 1, 7, 3, 4, 5>>, <<211, 4, 3, 9, 211, 0, 2, 8, 9>> >>

LineCrcOk(frame) == \E i \in DOMAIN Frames : frame = Frames[i]

=============================================================================
