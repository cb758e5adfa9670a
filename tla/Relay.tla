------------------------------- MODULE Relay -------------------------------
(***************************************************************************)
(* The relay of examples/FrameQueueStats: loop() reads what Serial has,    *)
(* one byte at a time, through the hub into the queue, then hands the head *)
(* of the queue to Serial1 if it can take it.  Bytes arrive, and Serial1   *)
(* empties, while loop() runs.  The hub's counters (see Hub) and the views *)
(* onEmit() decodes are left out: nothing in loop() depends on them.       *)
(***************************************************************************)
EXTENDS FrameAssembler, FrameQueue

CONSTANTS
  Lines,        \* what the receiver may send: bytes, and where its chunks end
  MaxCommands,  \* bound on the commands typed
  RxCap,        \* bytes Serial holds
  TxCap         \* bytes Serial1 holds

Toggle == 116  \* 't'

\* Chunk i of a line begins after this byte.
Begin(l, i) == IF i = 1 THEN 0 ELSE l.ends[i - 1]

Chunk(l, i) == SubSeq(l.bytes, Begin(l, i) + 1, l.ends[i])

GoodFrame(chunk) == IsFrame(chunk) /\ CrcOk(chunk)

\* DF004, in a frame long enough to have it.
Epoch30(bytes) ==
  IF Len(bytes) < 10 THEN 0
  ELSE bytes[7] * 4194304 + bytes[8] * 16384 + bytes[9] * 64 + bytes[10] \div 4

\* What push() looks at; and, as history, the bytes and the number of the chunk.
AsFrame(bytes, i) ==
  [type |-> MessageType(bytes), len |-> Len(bytes), epoch |-> Epoch30(bytes),
   bytes |-> bytes, nr |-> i]

\* A line is cut into frames, good or damaged, headers that announce too much, and
\* noise, up to its end; the byte 't' is not in it.
ASSUME RelayAssumption ==
  /\ \A l \in Lines :
       /\ l.bytes \in Seq(Byte) /\ l.ends \in Seq(1..Len(l.bytes))
       /\ \A p \in DOMAIN l.bytes : l.bytes[p] # Toggle
       /\ l.bytes # <<>> => l.ends # <<>> /\ l.ends[Len(l.ends)] = Len(l.bytes)
       /\ \A i \in DOMAIN l.ends :
            LET chunk == Chunk(l, i)
            IN  /\ Begin(l, i) < l.ends[i]
                /\ IsFrame(chunk) \/ IsTooLong(chunk) \/ IsNoise(chunk)
                /\ GoodFrame(chunk) => AsFrame(chunk, i) \in Frames
  /\ MaxCommands \in Nat /\ RxCap \in Nat /\ TxCap \in Nat

VARIABLES
  at,            \* the place in loop(): "read" or "sink"
  rx,            \* bytes waiting in Serial
  space,         \* Serial1.availableForWrite()
  decode1005On,
  txDrops,
  sent,          \* history: the frames written to Serial1
  line,          \* history: what comes in,
  arrived, fed,  \* how many bytes of it came and were fed to the hub,
  ended,         \* the chunks fed whole,
  commands       \* and the commands typed so far

position == <<fed, ended>>
relayVars == <<at, rx, space, decode1005On, txDrops, sent, line, arrived, position, commands>>
allVars == <<asmVars, vars, relayVars>>

Arrive ==
  /\ arrived < Len(line.bytes) /\ Len(rx) < RxCap
  /\ rx' = Append(rx, line.bytes[arrived + 1])
  /\ arrived' = arrived + 1
  /\ UNCHANGED <<asmVars, vars, at, space, decode1005On, txDrops, sent, line, position, commands>>

\* The user types 't', in mid-frame too.
Type ==
  /\ commands < MaxCommands /\ Len(rx) < RxCap
  /\ rx' = Append(rx, Toggle)
  /\ commands' = commands + 1
  /\ UNCHANGED <<asmVars, vars, at, space, decode1005On, txDrops, sent, line, arrived, position>>

\* hub.feed() with onEmit(): no filter, so every good frame is pushed.
FeedHub(b) ==
  /\ Feed(b, BufSize)
  /\ IF status' = "Ok" THEN Push(AsFrame(out', ended + 1)) ELSE UNCHANGED vars
  /\ fed' = fed + 1
  /\ ended' = IF fed + 1 = line.ends[ended + 1] THEN ended + 1 ELSE ended

ToggleDecode ==
  /\ at = "read" /\ rx # <<>> /\ Head(rx) = Toggle
  /\ rx' = Tail(rx)
  /\ decode1005On' = ~ decode1005On
  /\ UNCHANGED <<asmVars, vars, at, space, txDrops, sent, line, arrived, position, commands>>

ReadByte ==
  /\ at = "read" /\ rx # <<>> /\ Head(rx) # Toggle
  /\ FeedHub(Head(rx))
  /\ rx' = Tail(rx)
  /\ UNCHANGED <<at, space, decode1005On, txDrops, sent, line, arrived, commands>>

EndRead ==
  /\ at = "read" /\ rx = <<>>
  /\ at' = "sink"
  /\ UNCHANGED <<asmVars, vars, rx, space, decode1005On, txDrops, sent, line, arrived, position, commands>>

SinkNothing ==
  /\ at = "sink" /\ queue = <<>>
  /\ at' = "read"
  /\ UNCHANGED <<asmVars, vars, rx, space, decode1005On, txDrops, sent, line, arrived, position, commands>>

\* Mutant: the head is written and stays queued.
SinkWriteKeeping ==
  /\ at = "sink" /\ queue # <<>> /\ Head(queue).frame.len <= space
  /\ sent' = Append(sent, Head(queue).frame)
  /\ space' = space - Head(queue).frame.len
  /\ at' = "read"
  /\ UNCHANGED <<asmVars, vars, rx, decode1005On, txDrops, line, arrived, position, commands>>

SinkWrite ==
  /\ at = "sink" /\ Pull(space)
  /\ sent' = Append(sent, Head(queue).frame)
  /\ space' = space - Head(queue).frame.len
  /\ at' = "read"
  /\ UNCHANGED <<asmVars, rx, decode1005On, txDrops, line, arrived, position, commands>>

\* Mutant: a head that does not fit is left for the next loop.
SinkWait ==
  /\ at = "sink" /\ queue # <<>> /\ Head(queue).frame.len > space
  /\ at' = "read"
  /\ UNCHANGED <<asmVars, vars, rx, space, decode1005On, txDrops, sent, line, arrived, position, commands>>

\* Mutant: nobody counts the frame thrown away.
SinkDiscardUnseen ==
  /\ at = "sink" /\ queue # <<>> /\ Head(queue).frame.len > space
  /\ Pull(MaxFrame)
  /\ at' = "read"
  /\ UNCHANGED <<asmVars, rx, space, decode1005On, txDrops, sent, line, arrived, position, commands>>

\* A head Serial1 has no room for now is pulled and thrown away.
SinkDiscard ==
  /\ at = "sink" /\ queue # <<>> /\ Head(queue).frame.len > space
  /\ Pull(MaxFrame)
  /\ txDrops' = (txDrops + 1) % CounterMod
  /\ at' = "read"
  /\ UNCHANGED <<asmVars, rx, space, decode1005On, sent, line, arrived, position, commands>>

\* Serial1 sends what it holds.
Drain ==
  /\ space < TxCap /\ space' = TxCap
  /\ UNCHANGED <<asmVars, vars, at, rx, decode1005On, txDrops, sent, line, arrived, position, commands>>

Loop == ReadByte \/ ToggleDecode \/ EndRead \/ SinkNothing \/ SinkWrite \/ SinkDiscard

RelayInit ==
  /\ AsmInit /\ Init
  /\ at = "read" /\ rx = <<>> /\ space = TxCap /\ decode1005On = TRUE
  /\ txDrops = 0 /\ sent = <<>>
  /\ line \in Lines /\ arrived = 0 /\ fed = 0 /\ ended = 0 /\ commands = 0

RelayNext == Loop \/ Arrive \/ Type \/ Drain

\* loop() is called for ever, and the line comes in.  Nothing is assumed
\* of Serial1: it may be stuck.
RelaySpec == RelayInit /\ [][RelayNext]_allVars /\ WF_allVars(Loop) /\ WF_allVars(Arrive)

-----------------------------------------------------------------------------
(* Properties                                                                *)

\* The good frames that came in whole.
CameIn == {i \in 1..ended : GoodFrame(Chunk(line, i))}

\* Every frame that came in whole was written, is queued, or is counted, by the queue
\* or in txDrops, up to the wrap of the counters: none is lost unseen.
NoneLostUnseen ==
  Cardinality(CameIn) % CounterMod
    = (Len(sent) + Len(queue) + txDrops + drops["frames"]) % CounterMod

Leaving == sent \o [k \in DOMAIN queue |-> queue[k].frame]

MayOvertake(f, g) == IsProtected(f.type) /\ f.type # g.type

\* What leaves is what came, byte by byte, and none leaves twice.  Frames leave in
\* the order they came, but for the protected ones: a newer one takes the place
\* of an older one of its type where that is queued.
SentInOrder ==
  /\ \A k \in DOMAIN Leaving :
       Leaving[k].nr \in CameIn /\ Leaving[k].bytes = Chunk(line, Leaving[k].nr)
  /\ \A k, m \in DOMAIN Leaving : k < m =>
       /\ Leaving[k].nr # Leaving[m].nr
       /\ MayOvertake(Leaving[k], Leaving[m]) \/ Leaving[k].nr < Leaving[m].nr

\* Whatever Serial1 does, the queue does not stay full: once the line is quiet it
\* is emptied.
Empties == <>[](queue = <<>>)

=============================================================================
