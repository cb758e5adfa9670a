# A TLA+ model of TinyRTCM3

TinyRTCM3 is a C++ library for microcontrollers that relays RTCM 3 corrections:
it finds frames in a byte stream, filters and counts them, and queues them for a
link that may be slower than the receiver. This directory models that path,
checks it with TLC on small instances, and proves the parts everything else
stands on with TLAPS for every value of the constants.

Everything here was translated from the code under `src/`; line numbers below
and in `PROJECT.json` refer to it.

## The system

    bytes ──> FrameAssembler ──frame──> Hub ──filter──> emit callback ──> FrameQueue ──> sink
                (framing, CRC)           │                (application)     (pressure)    (UART, NTRIP)
                                         │                  ├──> sanitizeBeforeEmit ──> public sink
                                         │                  └──> decodeIfEnabled ──> views
                                         └── StreamStats (counters, type table, coverage)

| Component | State | Operations | What makes it correct |
|---|---|---|---|
| `FrameAssembler` (`TinyRtcmFrameAssembler.h`) | `buf_`, `len_`, `expected_`, `phase_` | `feed(byte)`, `reset()` | every verdict is true of the bytes it is about; no well-formed frame that begins where it hunts is missed; from any point of a live line it falls in step again |
| `Hub` (`TinyRtcmHub.h`) | the assembler, `frame_`, filter, emit, stats pointer, `nowMs_` | `feed(byte)`, `feed(data, len)`, setters | the callback gets the wanted frames once and in order, the counters tell what the line carried, whatever is changed in mid-frame |
| `StreamStats` (`TinyRtcmStats.h`) | status counters, histogram, a table of 48 types, the decode mask | `statsOn*`, `statsReset`, `coverageCheck`, mask | each frame counted once; no false alarm from full table, reset or clock wrap; gap and rate are those of the history |
| `Policy` (`TinyRtcmPolicy.h`) | none | predicates on types | the ranges the others rely on |
| `FrameQueue` (`TinyRtcmFrameQueue.h`) | ring of slots, open batch and its constellations, drop counters, window of samples, configuration | `push`, `pull`, `clear`, `resetDrops`, `clearUnhealthy`, `setConfig` | under pressure whole observation epochs go, oldest first; 1005, 1006 and 1230 stay; no loss is unseen |
| `Crc24q` | none | two engines, store, load, append, check | the engines agree on every byte; damage of a few bytes in a row never passes |
| `Codec`, `BitBuffer` | none (a cursor) | decode, encode, rewrite, CNR summary | what a frame says is what is read, sign and width included; nothing written on failure |
| `Sanitize` | scratch buffer | `sanitizeBeforeEmit` | no frame with a real position or descriptor passes, one that cannot be read neither; other frames pass unchanged |
| `Decode` | last message per type, the mask in `StreamStats` | `decodeIfEnabled` | a view is what the last whole frame of its type said |
| `Registry`, `NtripSink` | a constant table; none | lookup; forward | - |
| examples | `loop()` of a sketch | composition of the above | frames in are frames out, or counted as lost |
| scripts | files | capture, sanitise, goldens | outside the streaming path |

The parts call each other directly and in one thread: the application calls
`hub.feed()`, which calls the assembler, the counters, the filter and the emit
callback before it returns; the callback pushes into the queue; the application
later pulls. Nothing is persisted, so there is no crash recovery. What makes the
code hard to test is therefore

- **where the stream is cut**: noise, damage, a reset or a truncated frame at any
  byte, and false preambles inside payloads;
- **order**: constellations of one second in any order, evictions between
  in-place replacements, filter and clock changes in mid-frame;
- **limits**: the last byte of the buffer, the last slot, the full type table,
  wraps of the batch number, the byte counter and the millisecond clock;
- **bookkeeping** kept by separate statements on many paths: samples, reasons,
  bytes, totals;
- **the other side**: bytes that arrive and an output that empties when it likes,
  or never.

`PROJECT.json` lists 40 such hazards at their lines with the properties that
cover them, and says why for those not covered.

## Modules

| Module | Models | Shape |
|---|---|---|
| `FrameQueue` | `FrameQueue<Depth, MaxFrame>` as a sequence of slots | one action per outcome of `push()`, one per other operation |
| `FrameRing` | the same class as it is stored: `slots_`, `head_`, `count_`, slots shifted one by one, `dropBatch()`'s scan, `drops_.bytes` | private methods are operators on the record of members, loops are recursive functions of the pass; `RefinesQueue` says it implements `FrameQueue` |
| `DropWindow` | `window_`, `windowHead_`, `windowCount_`, `windowDrops_` | actions `FrameRing` uses through `INSTANCE` |
| `FrameQueueLedger` | `FrameQueue` with the history of every frame offered | one action per operation, with ghost counts |
| `ObservationSeconds` | `FrameQueue` fed by a receiver: seconds of three constellations in any order, and a consumer | the environment the eviction rule is meant for; `Steady` says for which streams it keeps its promise |
| `FrameQueueProofs`, `FrameRingProofs`, `QueueUseProofs` | theorems about these | |
| `FrameAssembler` | `FrameAssembler` with the CRC a parameter | one action per `return` of `feed()` |
| `FramedStream` | the assembler on every stream, with `reset()` at any time | keeps the stream and where each candidate lay |
| `FrameSync` | the assembler on a line that repeats good frames, joined anywhere and damaged a few times | liveness |
| `FramedStreamProofs` | theorems about `FramedStream` and `FrameSync` | |
| `StreamStats` | `StreamStats`, the stock filters, `coverageCheck()` | operators on a record of counters |
| `CoverageWatch` | the type table under a clock that wraps | keeps the log of frames |
| `CoverageWatchProofs` | theorems about `CoverageWatch` | |
| `Hub` | `Hub` over `FrameAssembler` and `StreamStats` | batches, and calls between bytes |
| `HubProofs` | theorems about `Hub` | |
| `Crc24q` | both engines and the 256 table entries, byte by byte | a register is the set of its one bits |
| `CrcLine` | a sealed frame on a line with one burst of damage, judged by `frameCrcOk()` | sender and receiver registers side by side |
| `Codec` | `TinyRtcmCodec.cpp`, `BitBuffer` and the rewrites | functions of the bits of a frame |
| `Publisher` | `sanitizeBeforeEmit()` and `onPublicEmit()` of `examples/FilteredSanitizeHub` | actions on the frames written |
| `DecodeViews` | `decodeIfEnabled()`, the mask | actions on mask and views |
| `Station` | a board that publishes and a board that decodes, on the frames of one base | composes `Publisher` and `DecodeViews` |
| `StationProofs` | theorems about `Station` | |
| `MsmSummary` | a receiver's MSM4 and MSM7 as RTCM 10403 lays them out, given to `summarizeMsmCnr()` | signals gained and lost |
| `Relay` | `loop()` of `examples/FrameQueueStats` over `FrameAssembler` and `FrameQueue` | loop steps, arriving bytes, typed commands, an output that drains |
| `LineProofs` | theorems about `CrcLine` and `Relay` | |

`MC*` modules hold the values TLC runs with. Operators marked *Mutant* are
plausible bugs; each is put in place of the definition after it and must break
the property `PROJECT.json` pairs it with.

### What stands for what

- **FrameQueue.** `queue[1]` is the slot at `head_`. A frame is the data `push()`
  looks at: type, length, DF004 epoch; the payload bytes are not modelled. A slot
  carries `batchId`, 0 for a frame that is not MSM. `fam` is the set of used
  `fam_` entries. The pairs of the code that are the same step are one action:
  `EvictForPlain` is the eviction of both `pushProtected()` and `pushOther()`,
  whose loops end after one batch because a batch found holds at least one slot
  (`FrameRing` keeps the loop, `RoomStep`, and `RingRefines` proves it). `batchId`, counters and bytes wrap
  at `MaxBatch`, `CounterMod` and `ByteMod`, 2^32 in the code.
- **FrameAssembler.** `buf` is `buf_[0 .. len_ - 1]`, `phase` and `expected` are
  the members of those names, `status` what `feed()` returned, `out` what the
  caller's buffer got. `CrcOk` is `frameCrcOk()`: nothing depends on what it
  computes, so the proofs hold for any check and TLC uses a simple one.
- **StreamStats.** A record with the members of the struct. `rows` is
  `typeRows[0 .. typeRowCount - 1]`; all arithmetic is modulo `U32`.
- **Hub.** `todo` is what is left of the batch in `feed(data, len)`; `emitted` is
  what the callback got. `setFilter`, `setNowMs` and `statsReset` come between
  two batches, hence at any byte. The line is a sequence of chunks: frames, damaged
  frames, headers that announce too much, noise, fragments; how much of it was fed
  (`ended`, `read`), the filter at the end of each chunk (`filters`) and where the
  last reset fell (`resetAt`, `bytes`, `untyped`) are history. A batch may go on
  beyond the line, as far as it is followed: then nothing more is claimed of it.
- **Crc24q.** A byte is a subset of 0..7 and a register one of 0..23: exclusive or
  is the symmetric difference, a shift adds to the members. `kTable` lists the
  entries as the code does; `TableAssumption`, which TLC evaluates, says that each
  is eight bit steps of its index.
- **Codec.** A frame is the bits of its payload, the bits of its seal, the verdict
  of `frameCrcOk()` and the length the caller states. A reader is its status, the
  fields it took and the bits left; a writer stops for good when a field does not
  fit. `CoordHi` and `CoordLo` are the 6 and 32 bits of a coordinate. The checks
  come in the order of the code (`Entry`), the message only with `Ok` (`Outcome`).
- **Publisher, DecodeViews, Station.** `Arrive` is one good or damaged frame from
  the base: the first board's hub, filter, sanitizer and `Serial1` with the room
  `space`, then the second board's callback on the frame, or on what was written
  (`tap`). The framing is left to `Hub`: it hands out frames of at most 1100 bytes
  (`StationAssumption`), which is also the size of the sanitizer's scratch. `txDrops`
  wraps at `U32`. The second board's callback is `onEmit()` of
  `examples/FrameQueueStats`; only the tests and self-tests of the
  repository call `summarizeMsmCnr()`, and `Station` does not either.
- **MsmSummary.** The module is the receiver; what the code does is the one operator
  `SummarizeMsmCnr` of `Codec`. A message is its bits, built field by field for all
  satellites and then for all cells.
- **Relay.** `at` says whether `loop()` is reading or in `sinkHead()`; one byte,
  one command or one sink is a step; between steps bytes arrive, a `t` is typed,
  in mid-frame too, and `Serial1` drains. The line is bytes cut into chunks: frames,
  damaged ones, headers that announce too much, noise; `ended` counts those fed
  whole. A queued frame carries, as history, its bytes and the number of its chunk,
  which the properties compare with the line. The hub's filter is null here, so every good
  frame is pushed. `txDrops` and the queue's counters wrap at `CounterMod`.

## Runs

| Run | Question | States |
|---|---|---|
| `frame_queue` | Are epochs evicted whole and oldest first, protected types kept, batch numbers never shared, for any pushes of any frames? | 99,484 |
| `frame_ring` | Does the stored form - ring, shifts, scan, sample window, byte counter - do what the sequence does? | 288,750 |
| `frame_queue_ledger` | Do counters, samples and the unhealthy flag tell exactly what was lost? | 677,905 |
| `observation_seconds` | With room for one second of observations, is what is queued of a second all of it that came and was not pulled yet, or nothing, and is the one being received never given up? | 5,692 |
| `framed_stream` | For every stream of nine bytes over {0, 1, 0xD3}, with resets and short caller's buffers: are the verdicts right and no frame missed? | 672,055 |
| `frame_sync` | From any byte of the line and after any three damaged bytes, are all frames delivered for ever? | 10,375 |
| `coverage_watch` | Do rows, flags, gaps and rates agree with the log under a wrapping clock, a full table and resets? | 686,466 |
| `hub` | On 128 lines of good, damaged, oversize and cut-off frames in any batches: is what is emitted and counted what the line carried? | 1,331,841 |
| `relay` | With a command in mid-frame, noise and damage on the line: is no frame lost unseen, is order kept, and does the queue empty whatever the output does? | 108,306 |
| `crc_line` | Do the two engines agree after every byte, and is every burst of up to three bytes found, wherever it lies? | 434,407 |
| `station` | Is no identity published, nothing lost but for want of room, and do the views say what the frames said? | 258,932 |
| `msm_summary` | Is the mean CNR of a message one its cells can have? Violated: see findings | - |

The properties are stated, each with the behaviour it is about, in the last
section of their modules.

### Bounds

- `MCFrameQueue`: three slots, four batch numbers. `MaxBatch > Depth` is all the
  code has (2^32 - 1 against at most 64), so the wrap is met after a few pushes;
  three slots let a batch lie around a frame of another kind and leave a middle
  slot to be removed. Two protected types, two constellations, two epochs, one
  plain frame, one of no byte, one too long, one too short for DF004.
- `MCFrameRing`: three slots, a window of two samples, bytes modulo two with
  frame lengths of both parities; the counters by reason are collapsed
  (`CounterMod = 1`) and compared at the level of `FrameQueueLedger` instead.
- `MCFrameQueueLedger`: six pushes into two slots, more than fill, evict and
  refuse need; counters do not wrap (`LedgerAssumption`).
- `MCObservationSeconds`: three constellations and one station type over four seconds,
  in the least depth `Steady` allows (an assumption TLC evaluates); the batch number
  wraps.
- `MCFramedStream`: a buffer of seven bytes and a stream of nine, so that a frame of
  six bytes (no payload) fits, one of seven (a payload of one) fills it, longer
  ones do not fit, and a caller with six bytes of room refuses the second; three
  byte values make every preamble, length and CRC case, and a frame can contain
  the start of another. That a length exceeds the buffer is a branch of the code
  (`TinyRtcmFrameAssembler.h:42`) which its 1100 bytes never take, the longest frame
  having 1029; the buffer of the instance makes it reachable.
- `MCFrameSync`: two frames, one with a false preamble whose length points past
  the next frame and with reserved bits set.
- `CoverageWatch`: a clock modulo 6 run to 10, so that it wraps once with frames on
  both sides and one at the millisecond that reads 0; two rows for three types; a window of two ticks and steps of one
  and three, shorter and longer than a window; three frames between resets.
- `MCHub`: lines of up to three chunks of eight kinds, two calls between bytes,
  one row in the table so that it overflows. `U32 = 16`: `bytesIn` wraps.
- `MCCrcLine`: bodies of three and four bytes of three values, six kinds of damage, and
  bursts that start in the body, in the seal, or in one and end in the other. The
  registers of the body bytes meet both branches of a bit step. The theorems of
  `LineProofs` cover all bytes, all damage and all lengths.
- `MCStation`: 29 frames. Those of 1005, 1006 and 1033 are laid out field by field as
  RTCM 10403 has them, or by the library's encoder where that is what is asked: bits
  set that decoders skip, bytes after the last field, payloads cut in a field,
  payloads of no and one byte whose type is read from the seal, a descriptor of 31
  characters and one of 32. Of an MSM only the header is laid out, which is all that
  `decodeMsmHeader()` reads: MSM4, 5 and 7, one of them of no satellite, a NavIC 1137.
  Of 1230 only messages with no bias or with the last one are inputs: the others
  `decode1230()` reads wrong, which `BiasesAssumption` has TLC evaluate for all
  sixteen masks (see below). Two frames and two mask calls in any order, both taps,
  three filters, room and no room: the second frame is what a stale view needs. The
  counter of lost frames is one bit wide (`U32 = 2`). Coordinates have six bits, with both ends of
  their range; all other fields have their width.
- `MCRelay`: two MSM frames and two 1005s in all 24 orders, lines with a second epoch
  of one constellation, and one of noise, a damaged frame and two good ones; one command
  after any byte; two slots, counters of one bit, an output with room for just two frames,
  an input of two bytes. Four frames into two slots meet a full queue, an eviction,
  a replacement and both sinks. The line is finite, which liveness of the sink needs:
  see below. `LineProofs` covers any queue and output, and any line of frames, damaged
  frames, headers that announce too much and noise that holds no byte `t`.
- `MCMsmSummary`: two satellites of two signals, at 19 and 45 dB-Hz: up to four cells.

### Fairness

- `FrameSync` assumes `WF(SyncNext)`: the line goes on sending. Damage is never
  forced and at most `MaxDamage` bytes are damaged.
- `Relay` assumes `WF(Loop)`, because the Arduino core calls `loop()` for ever, and
  `WF(Arrive)`: the bytes of the finite line do come. Nothing is assumed of the
  output, which may stay full for ever: `Empties` holds because `sinkHead()`
  throws away a head that does not fit. While bytes come faster than `loop()`
  reads them it never reaches the sink (line 50); the finite line leaves this out.

## Proofs

All for every value of the constants that the named assumptions allow, in eight
modules. Every inductive invariant below was first checked by TLC on the run's
instance.

**FrameQueueProofs** (assumes `SizesAssumption`, in which `MaxBatch > Depth` is the
one that matters, and what the other three say of the inputs). The invariant is `QueueInv`: types;
exactly the MSM slots have a batch; `fam_` has an entry, with its epoch, for each
constellation of the open batch, and one only; batches lie in the order of their
age; a queued batch is no older than the number of slots behind it; a batch
holds one epoch per constellation; a protected type is queued once. None of the
parts is inductive alone. That numbers are not reused needs the age bound, and
the age bound survives an MSM push only because the frame just stored pays for
the batch just opened: hence `SlotsInv` with a `slack` of the batches opened
since the last frame was stored. One epoch per batch needs the `fam_` entries,
and ordering needs the age bound, since ages are counted modulo `MaxBatch`. The
lemmas before it are about `Without`, which keeps slots by their rank: it
preserves order, members and all the parts of `SlotsInv`. From the invariant
follow the four state properties of the run and, action by action, the four
action properties (`ProtectedStays`, `WholeBatches`, `OldestEpochFirst`,
`LossOnlyWhenFull`).

**FrameRingProofs** (assumes `RingAssumption`: what `FrameQueue` assumes, and a modulus
for the bytes). `RingRefines` is the refinement, step by step: every operation of
the ring, its loops included, maps to the step of `FrameQueue` on the frames read
from `head_` (`Logical`). The loops are recursive functions; that the function a
loop defines exists is proved by a least counterexample (`ScanPasses`,
`QueuedSum`), which a set of naturals has without an induction theorem. The loop
of `dropBatch()` keeps `ScanInv`: the slots looked at are gone or, in order, in
front, the rest is behind them unseen, and each one gone was noted once with its
own bytes; after `count_` passes that is `Without` (`ScanFacts`). A batch that is
found holds a slot, so the loop of `pushProtected()` ends after one pass (`MakeRoomFacts`).
By the refinement `QueueInv` holds of the ring (`RingInvariant`: an instance has
its own copies of all operators, `SameOperators` says they agree). `FlagExact`
needs `WindowInv`: the sample cells read from the window's head are the samples
taken, whatever lies in the other cells, and `windowDrops` is the number of
losses among them. `BytesExact` follows `Weight`, the bytes queued and counted
modulo `ByteMod`: noting a slot and then removing it leaves it alone, in that order
only; in the other the bytes of the next slot, or of a stale one, would be counted.

**QueueUseProofs, the ledger** (assumes `LedgerAssumption`: the counters do not wrap while
the history is that long). `LedgerInv` adds to types and `FramesAccounted` that the
`TRUE` samples of the window are at most `lost`, which is what `UnhealthyIsEarned`
stands on: the window only forgets. An eviction removes `Cardinality(SlotsOf(b))`
slots and counts as many drops (`Without` shortens the queue by just the slots it
drops); a replaced frame is counted and not sampled. `SampleMatchesCounter` and
`RefusalIsLastResort` follow action by action, the second because a batch number is
borne by MSM slots only.

**QueueUseProofs, the receiver** (on `Steady`, a condition of the two theorems). Frames fit
a slot; all other messages are of protected types; a second has one frame per
constellation, each of a constellation the second before had too, at another epoch;
and the depth takes one second beside one frame of each protected type.
`SecondsInv` says that the stream and the queue's batches tell the same story: the
open batch holds frames of one second, `Cur`, and no other batch does (`Grouped`);
`fam_` holds exactly the constellations of it already sent; and seconds that lost a
frame have none in the queue. `Cur` is the second before while nothing of the new
one was sent: there the constellation's new epoch closes the batch, which is why
a constellation must not be new - one that first appears at the head of a second
would be put with the second before, in the code as in the model. The open batch
is never given up because of room: the frames that are not its own are protected,
one of each type, and by counting the queue cannot be full of both.

**FramedStreamProofs** (assumes `BufSizeAssumption`; any `CrcOk`; `InStepKept` also
`SyncAssumption`, that the line repeats frames which fit the buffer). `FeedShape` says
what one call of `feed()` can do, and `ChunkStep` what it does with the next byte of a
chunk of the line when the assembler was in step at its start; `StreamInv` ties the assembler to the history:
the buffer is the tail of the stream, each past candidate began with a preamble,
has the length its header says (or was abandoned, or announced too much), did
not overlap the next, and got the verdict its bytes deserve; between candidates
there is no preamble. Six theorems state the properties of the run;
`AlignedFramesFound` follows from the invariant alone: a frame that begins where
the assembler hunts is itself the candidate found there. `InStepKept` is `ChunkStep` again,
on a line that repeats its frames: that an assembler out of step finds back
(`FindsFrames`) is liveness and stays with TLC.

**CoverageWatchProofs** (assumes `StatsAssumption` and `WatchAssumption`: at most
`U32 - 1` frames between two resets, what a 32-bit row counter can count).
`WatchInv` ties each row to the log: one row per type, a row for every type seen
unless the table overflowed, `count` neither 0 nor more than the log, `lastSeen` the
clock at its last frame that had a time, `maxGap` at most the longest silence that
was and at least every one in which the clock did not wrap (frames at 1 and 9 of a
clock modulo 6 are recorded as 2 apart, so more cannot be said); and stamps never decrease nor run ahead of the time. That stamps are ordered is what makes a
gap the code computes on clock values, modulo `U32`, a gap that really was.
Maxima of sets of numbers, which the library defines by `CHOOSE`, are shown to
exist by well-founded descent (`MaxOfBounded`). `RateOfLastWindow` follows with the
invariant `RatesTrue`: the bytes a row holds are, modulo `U32`, the sum of the
lengths logged since its window began, and the rate is that of the last window
closed. A sum over a set is a recursive function of the library; that it exists
for every finite set, and grows by the new frame, is again a least counterexample.

**HubProofs** (assumes `BufSizeAssumption`, `StatsAssumption` and `HubAssumption`: the
line carries bytes; any lengths of chunks and batches, any `CrcOk`). Two invariants
meet: the assembler is in step with the line, and the counters with what it handed
out. On a line without fragments `InStep` says that the buffer is just the part of
the present chunk fed so far, and empty in noise; `ChunkStep` of
`FramedStreamProofs` gives from it what the next byte does, so that a chunk gets
its one verdict at its last byte and none before. `TalliesOK` has each counter as the
number of chunks of its kind after `resetAt`, modulo `U32`: a chunk that ends adds
one to exactly one of them, and a reset in mid-frame leaves the chunk it falls in
on the near side. `EmittedOK` needs that a set of naturals is counted through by its
ranks (`Ranked`), which appending a greatest member preserves (`NthLast`).
`TablesTrue` needs none of this and holds on any line: a good frame adds one to
one row or to the overflow, or is of type 0, and one to one bin of the histogram if
it is kept, so the sums grow together modulo `U32` (`TableGrows`, `HistGrows`); that
takes one row per type, and types of rows other than 0. The lemmas on the assembler
and on the type table are those of the two modules before, taken by `INSTANCE`;
`SameAssembler` and `SameCounters` say that the copies agree.

**LineProofs, the CRC** (assumes `LineAssumption` and `TableAssumption`; TLC evaluates the
latter's 256 cases, the proofs use it as it stands). A bit step is linear over
symmetric difference (`BitStepLinear`) and only the empty register is taken to the
empty one (`BitStepKernel`), so a shift by eight is linear and one to one
(`Shift8OneToOne`); splitting a register into its top byte and the rest, which
shifts without reduction (`Shift8Free`), gives `EngineStep`: bit and table engine
take the same step. For bursts the invariant `LineInv` follows the difference
between the register of the sender and of the receiver: a burst of three bytes is
a polynomial of at most 24 bits that grows without reduction while it lasts
(`BurstGrows`) and, being nonzero, stays so under any number of further bytes
(`BurstSurvives`); where it reaches into the seal the difference of the seals is
the rest of the same polynomial. Both theorems hold for bodies of any length.

**LineProofs, the relay** (assumes `RelayAssumption`: the line is cut into chunks and
holds no `t`, whose loss the example does not count; and those of the assembler and the queue; any `CrcOk`). `RelayInv` says
that the assembler is in step with the line (`InStep`, as in the hub; `ChunkStep` is
taken by `INSTANCE`); that the queue keeps `QueueInv`; and that what `Serial` holds is the part of the
line not yet fed, in order, with nothing but commands between (`Holds`), so that a
command typed in mid-frame takes no byte of it. `Balance` is the account: the good
chunks ended are, modulo `CounterMod`, the frames written, queued and counted. It is
kept because a push counts exactly the frames it loses (`PushEffect`), which the ledger
shares, and because both `pull()`s of `sinkHead()` take one frame, to write it or to count
it. No counter need stay below its width. `LeaveInOrder` says `SentInOrder` of the frames
written and those queued behind them: a frame appended is newer than all; one that
replaces another of its type is protected and may be in front of older ones, of
other types only, since a protected type is queued once; an eviction takes out
slots and keeps the order of the rest.

**StationProofs** (assumes `StationAssumption`, the lengths the hub hands out).
`NothingLeaks` looks at the ways through `sanitizeBeforeEmit()`: a frame passed on
has another type, a rewritten one was decoded, its station number and position
replaced and encoded again, whatever the codec read; so it does not depend on
`Inputs`, on the width of a coordinate or on the published position.

`LossesCounted` and `ViewsTrue` hold under `Labelled`: `Inputs` says of
each good frame, and of its public form, what the decoders read in it. That is what it
means for `says` to be what the frame says; the properties could not hold without it. What
remains, and is proved for any set of frames, any number of them and of mask calls, and
either tap, is what the boards make of them: each property is inductive with the types
of the histories (`StationInv`). `SentMore` numbers the frames written by their places
among those to be published, so a frame dropped for want of room leaves the numbers
of the others alone; the count of those is kept modulo `U32` (`WrapCount`). `LastSaidGrows` says what one more frame does to a view, readable
or not. A frame heard on the published tap is the one just appended (`HeardAsSaid`),
so the `publicSays` of its input speaks of it. That the instance is `Labelled` is not
proved: what the codec reads in a payload is a fold over its fields. `MCStation` writes
down what its frames say, and TLC compares; where the codec reads another message than
the standard has, as in most 1230s, an instance with that frame is not `Labelled`.

**Model-checked only.** Liveness (`FindsFrames`, `Empties`), which is out of the provers'
reach, and what the codec reads in given bytes (`Labelled`, above).

## Where code and text differ

`msm_summary` shows one as a run (`findings` in `PROJECT.json`): REQ-COD-MSM-S asks for
the mean CNR of an MSM4 or MSM7. `summarizeMsmCnr()` takes each cell for a block of
bits with its CNR last (`TinyRtcmCodec.cpp:405-406`, 419-432). In RTCM 10403 the fields
of the cells come one after the other, each for all cells, and an MSM7 has the 15 bits
of DF404 after the CNR. So of an MSM7 with a single cell at 19 dB-Hz it tells a mean of
0, and of an MSM4 it reads all but a single cell wrong. The tests lay their frames out
as the code reads them (`TinyRtcmVerify.cpp:256-276`,
`scripts/gen_synthetic_goldens.py:131-146`) and ask of the captured MSM4 only that a
mean is given, of the MSM7 nothing about it (`test/host/test_bitbuffer_codec.cpp:229-238`).
The two captures in `test/golden/field` bear it out: read as the code does, the ratios
of the cells are such as 54, 16 and 7 dB-Hz (MSM4) or 57.5, 45.5 and 0.9 (MSM7) and
their means 32.0 and 36.5; field by field the means are 34.0 and 35.5.

The same order is mistaken in `decode1230()` (`TinyRtcmCodec.cpp:536-550`, against
REQ-COD-1230-D, `TinyRtcmRequirements.h:178-180`): it takes a bit of the signal mask and
a bias in turn, where the message has the four bits of the mask (DF422) before the
first bias. What has no bias, or the last one only, is the same either way;
`BiasesAssumption` of `MCStation` says, and TLC evaluates, that nothing else is.

Three more showed as counterexamples of runs that are not kept:

- REQ-FQ-02 (`TinyRtcmRequirements.h:169-170`) asks to "drop whole MSM epochs rather than
  a partial epoch". When the *open* epoch is given up, `dropBatch()` forgets it
  (`TinyRtcmFrameQueue.h:252-256`), and the frames of the same second that arrive next
  are queued: the consumer gets a partial second. The trace, with three slots: MSM
  frames of two constellations of second 1, then a frame that is neither MSM nor
  protected; a second such frame finds the queue full and evicts both MSM frames;
  the third constellation of second 1 is then queued alone. It takes a queue with no
  room for a second beside its other frames; `observation_seconds` shows that with
  that room it cannot happen.
- "Late = age > lateAfterMs" (`TinyRtcmStats.h:24`) is not so after `millis()` wraps,
  for a type last seen before it (line 182), nor for one last seen in the very
  millisecond the clock reads 0, which the code takes for a clock not set (lines
  125 and 132; the attempt to prove `LateMeansOld` without that case found it).
  `LateMeansOld` says what does hold.
- The example takes the byte `t` (0x74) out of the stream it relays
  (`FrameQueueStats.ino:53`, against 43), so a frame holding it is lost uncounted;
  the lines of `MCRelay` hold no such frame.

Others are read off the code: the batch feed returns the status of the last
byte, not the last that is not `NeedMore` (`TinyRtcmHub.h:57` against 51-52); a
required type that first arrives when the table is full stays "missing"
(`TinyRtcmStats.h:107` against 24; `MissingMeansNeverSeen` is stated up to the
overflow); the example's sink throws away a 1005 at the head as readily as any
frame (`FrameQueueStats.ino:27` against 5); and a line that repeats one frame whose
payload looks like a frame of the same length is never found if it is joined
there, since a failed candidate is discarded whole (`TinyRtcmFrameAssembler.h:51`;
`FindsFrames` is about the line of `MCFrameSync`, which is not of that kind).

What the sanitizer does not promise, and the model shows it does not do: a 1006
keeps its antenna height (`IsPublic`), MSM and 1230 frames keep the true station
number, and types such as 1007, 1008 or 1032 pass as they are under a filter that
lets them through (`sanitizeClassify()` knows three types).

## Not modelled

- `Registry`: a search in a constant table that nothing calls. `NtripSink`: a
  forwarding call. The self-tests and the requirement catalogue: unit checks and
  texts. Their lines are most of what no module stands for.
- The scripts: serial and file I/O. `iter_frames()` of
  `scripts/sanitize_rtcm_location.py` is a second frame scanner, which rescans from
  the byte after a false preamble where the assembler discards the candidate; the
  library does not call it.
- Of the hub: `setEmit()` and `setStats()` after the start, the value the batch feed
  returns, a callback that feeds the hub again. Of the examples: the once-a-second
  print, a `Serial1.write()` that takes fewer bytes than it said it had room for.
- The bytes of buffers that are overwritten: a frame is rewritten in the buffer it
  is read from, which is sound because every decoder copies its payload first; the
  model decodes a value.
- Null-pointer returns (`InvalidArg`), which change nothing, and concurrency: the
  library has no locks and claims no thread safety, and everything in it runs from
  `loop()`.

## Running

    tlc -config MCFrameQueue.cfg MCFrameQueue.tla     # likewise the other MC*.cfg
    tlc -config CoverageWatch.cfg CoverageWatch.tla
    tlc -config MCMsmSummary.cfg MCMsmSummary.tla     # finds the wrong mean
    tlapm FrameQueueProofs.tla
    tlapm FrameRingProofs.tla                          # some minutes
    tlapm QueueUseProofs.tla
    tlapm CoverageWatchProofs.tla
    tlapm FramedStreamProofs.tla
    tlapm HubProofs.tla                                # some minutes
    tlapm LineProofs.tla
    tlapm StationProofs.tla
