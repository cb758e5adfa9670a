-------------------------------- MODULE Hub --------------------------------
(***************************************************************************)
(* The hub (src/src/TinyRtcmHub.h): every byte goes through the assembler, *)
(* every frame through the counters and the filter to the emit callback.   *)
(* The application calls it between bytes, or hands it a batch of them.    *)
(* The line is a sequence of chunks: frames, damaged frames and noise.     *)
(***************************************************************************)
EXTENDS FrameAssembler, StreamStats, FiniteSets, FiniteSetsExt

CONSTANTS
  Lines,        \* the sequences of chunks that may be on the line
  BatchSizes,   \* lengths of the batches
  UsedFilters,  \* the filters the application sets
  Clock,        \* the times it sets
  MaxCalls      \* bound on the calls other than feed()

\* The line carries bytes; no chunk of it is empty.
ASSUME HubAssumption ==
  /\ \A line \in Lines :
       /\ line \in Seq(Seq(Byte))
       /\ \A i \in DOMAIN line : line[i] # <<>>
  /\ BatchSizes \subseteq Nat
  /\ UsedFilters \subseteq Filters
  /\ Clock \subseteq Nat
  /\ MaxCalls \in Nat

VARIABLES
  stats, filter, nowMs,   \* *stats_, filter_, nowMs_
  emitted,                \* the frames the callback was given
  todo,                   \* bytes the batch being fed still has
  \* The history.
  chunks,                 \* the line
  ended, read,            \* the chunks fed whole, and the bytes fed of the next
  filters,                \* the filter in force at the end of each chunk fed
  resetAt,                \* chunks fed whole before the last statsReset()
  bytes, untyped,         \* since then: the bytes fed, and the good frames of type 0
  calls                   \* calls other than feed()

hubVars == <<stats, filter, nowMs, emitted>>
position == <<chunks, ended, read, filters>>
history == <<position, resetAt, bytes, untyped, calls>>
vars == <<asmVars, hubVars, todo, history>>

Kept(frame) == Passes(filter, MessageType(frame))

\* Mutant: frames the filter drops are missing from the type table.
CountedKeptOnly(s) ==
  LET t == MessageType(out') IN
  CASE status' = "NeedMore" -> s
    [] status' \in {"BadCrc", "Overflow"} -> OnStatus(s, status', FALSE, 0)
    [] status' = "Ok" /\ ~ Kept(out') -> OnStatus(s, "Ok", TRUE, t)
    [] OTHER -> OnStatus(OnCrcPass(s, t, Len(out'), nowMs), "Ok", FALSE, t)

\* What feed() counts: the type table takes the frames the filter drops too.
Counted(s) ==
  LET t == MessageType(out') IN
  CASE status' = "NeedMore" -> s
    [] status' \in {"BadCrc", "Overflow"} -> OnStatus(s, status', FALSE, 0)
    [] status' = "Ok" ->
         OnStatus(OnCrcPass(s, t, Len(out'), nowMs), "Ok", ~ Kept(out'), t)

\* Mutant: the callback is given every frame.
EmitUnfiltered == emitted' = IF status' = "Ok" THEN Append(emitted, out') ELSE emitted

Emit == emitted' = IF status' = "Ok" /\ Kept(out') THEN Append(emitted, out') ELSE emitted

\* The next byte of the line.
NextByte == chunks[ended + 1][read + 1]

Advance ==
  /\ IF read + 1 = Len(chunks[ended + 1])
     THEN ended' = ended + 1 /\ read' = 0 /\ filters' = Append(filters, filter)
     ELSE ended' = ended /\ read' = read + 1 /\ filters' = filters
  /\ bytes' = bytes + 1
  /\ untyped' = IF status' = "Ok" /\ MessageType(out') = 0
                THEN [all |-> untyped.all + 1,
                      kept |-> IF Kept(out') THEN untyped.kept + 1 ELSE untyped.kept]
                ELSE untyped
  /\ UNCHANGED <<chunks, resetAt, calls>>

FeedByte ==
  /\ ended < Len(chunks)
  /\ Feed(NextByte, BufSize)
  /\ stats' = Counted(OnByte(stats))
  /\ Emit
  /\ Advance
  /\ UNCHANGED <<filter, nowMs>>

\* feed(data, len): the first byte of a batch, and each of the others.  A batch may
\* go on where the line, as far as it is followed, ends.
StartBatch(n) ==
  /\ todo = 0 /\ n > 0 /\ ended < Len(chunks)
  /\ todo' = n
  /\ UNCHANGED <<asmVars, hubVars, history>>

FeedNext == todo > 0 /\ FeedByte /\ todo' = todo - 1

Call == todo = 0 /\ calls < MaxCalls /\ calls' = calls + 1

SetFilter(f) ==
  /\ Call /\ f # filter /\ filter' = f
  /\ UNCHANGED <<asmVars, stats, nowMs, emitted, todo, position, resetAt, bytes, untyped>>

SetNowMs(t) ==
  /\ Call /\ t # nowMs /\ nowMs' = t
  /\ UNCHANGED <<asmVars, stats, filter, emitted, todo, position, resetAt, bytes, untyped>>

\* The application resets the counters the hub writes to.
StatsReset ==
  /\ Call /\ stats' = NewStats
  /\ resetAt' = ended /\ bytes' = 0 /\ untyped' = [all |-> 0, kept |-> 0]
  /\ UNCHANGED <<asmVars, filter, nowMs, emitted, todo, position>>

Init ==
  /\ AsmInit
  /\ stats = NewStats /\ filter = "none" /\ nowMs = 0 /\ emitted = <<>>
  /\ todo = 0
  /\ chunks \in Lines
  /\ ended = 0 /\ read = 0 /\ filters = <<>>
  /\ resetAt = 0 /\ bytes = 0 /\ untyped = [all |-> 0, kept |-> 0] /\ calls = 0

Next ==
  \/ \E n \in BatchSizes : StartBatch(n)
  \/ FeedNext
  \/ \E f \in UsedFilters : SetFilter(f)
  \/ \E t \in Clock : SetNowMs(t)
  \/ StatsReset

Spec == Init /\ [][Next]_vars

-----------------------------------------------------------------------------
(* Properties                                                                *)

\* No chunk is cut short: each is a frame, good or damaged, a header that announces
\* too much, or noise.
Clean == \A i \in DOMAIN chunks :
  IsFrame(chunks[i]) \/ IsTooLong(chunks[i]) \/ IsNoise(chunks[i])

Good(i) == IsFrame(chunks[i]) /\ CrcOk(chunks[i])

\* The good frames of the line fed so far, and those the filter in force kept.
Arrived == {i \in 1..ended : Good(i)}

Wanted == {i \in Arrived : Passes(filters[i], MessageType(chunks[i]))}

\* The k-th of a set of numbers.
Nth(S, k) == CHOOSE i \in S : Cardinality({j \in S : j <= i}) = k

\* On a line without fragments the callback is given the good frames the filter in
\* force wanted, all of them, once and in order, however the bytes are batched and
\* whatever the application calls in mid-frame.
EmitsWanted ==
  Clean => emitted = [k \in 1..Cardinality(Wanted) |-> chunks[Nth(Wanted, k)]]

\* The counters tell what the line carried since the reset, which may have come in
\* mid-frame: every frame that ends counts once, in one of the four.
CountersTell ==
  Clean =>
    LET Since(S) == Wrap(Cardinality({i \in S : i > resetAt}))
    IN  /\ stats.bytesIn = Wrap(bytes)
        /\ stats.framesOk = Since(Wanted)
        /\ stats.framesDropped = Since(Arrived \ Wanted)
        /\ stats.framesBadCrc = Since({i \in 1..ended : IsFrame(chunks[i]) /\ ~ Good(i)})
        /\ stats.framesOverflow = Since({i \in 1..ended : IsTooLong(chunks[i])})

SumOf(f) == MapThenSumSet(LAMBDA x : f[x], DOMAIN f)

\* Type table and status counters agree on any line: each good frame is in a row or
\* in the overflow of the table, kept or not, and each one kept is in the histogram;
\* but for those of type 0, which are in neither.
TablesAgree ==
  LET counts == [k \in DOMAIN stats.rows |-> stats.rows[k].count]
  IN  /\ Wrap(stats.rowOverflow + SumOf(counts) + untyped.all)
           = Wrap(stats.framesOk + stats.framesDropped)
      /\ Wrap(SumOf(stats.hist) + untyped.kept) = stats.framesOk

=============================================================================
