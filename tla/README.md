# MCM firmware in TLA+

The Modular Control Module (MCM) is an RP2040 firmware that reads six rotary
encoders with push buttons and reports them to a host over SPI. It never lets
the host wait for a reply: it raises `SLAVE_IRQ` while it has packets, the host
clocks eight-byte frames, and whenever the firmware may have lost anything it
drops all that is outbound and sends one framed snapshot of everything.

This directory holds TLA+ modules that model the firmware in
`src/MCM_Firmware` and the master's side in `docs/protocol/snapshot-v1.1`, TLC
configurations that check them on small instances, and TLAPS proofs that hold
for every instance. Paths below are relative to `src/MCM_Firmware` unless they
start with `docs/`; "the package" is `docs/protocol/snapshot-v1.1`.

## The system

| component | state | operations | interacts with |
|---|---|---|---|
| `McmApplication` | state (Starting, Running, Resynchronizing, Fault), snapshot sequence byte | `begin`, `service`, command handlers, recovery | calls everything below, from one loop on core 0 |
| `SnapshotPublisher` | queue of increments, frozen snapshot, phase, encoder index, one outgoing packet, two flags | queue encoder/buttons, request snapshot, service, consume, clear | filled and emptied by the application |
| `TransportSPI` | TX queue, packet being fed, feed index, loaded/staged, RX assembly, received packet, integrity flag, `SLAVE_IRQ` | service, enqueue, pop, clear | shares two four-word FIFOs with the PIO program |
| `SpiSlaveM0.pio` | program counter, OSR, ISR, scratch X | one byte in, one byte out, frame-end marker | clocked by the host, feeds `TransportSPI` |
| `EventQueue` | storage, head, tail, count | push, pop, clear | inside publisher and transport |
| `CommandDispatcher`, `TransportProtocol` | none | validate and map a command; build packets, clamp, CRC | called by application and publisher |
| `ControlScanner` | counts and bitmaps last seen | begin, service, capture, reset | owns the encoders and buttons |
| `EncoderPIO` (+ `.pio`) | transition count, previous phase, PIO FIFO | service, set/get detents | hardware pins |
| `DebouncedButton` | six-state machine, two times | service | hardware pin, `millis()` |
| package: portable header | none | build, check and read packets | compiled into a master |
| package: example master | snapshot being assembled, latest snapshot | request a snapshot, assemble it | commands and frames, `SLAVE_IRQ` |
| package: log decoder | what it has seen | consume one packet, or raise | a log of a master |
| SPI host of a product (not in the repository) | its view of the controls, snapshot buffer | frames, packet parser | from `docs/SPI_PROTOCOL.md`, `docs/MASTER_INTEGRATION.md` |

What is hard here:

* The host clocks frames whenever it likes while the loop is between any two
  statements, and the PIO program is a third actor between them.
* Recovery empties queues in the middle of everything: half-sent snapshots,
  half-queued scans, unread commands.
* "Was this packet sent?" is decided from software flags and one marker word,
  and a FIFO that runs dry sends filler which a CRC-8 may pass.
* One packet format is written down twice, with different clamping and masking,
  and its bits pass four shift registers.
* Fixed queues, a one-byte sequence number, clamped 24-bit counts, four-word
  FIFOs, a millisecond counter that wraps.
* The example master reads a fixed number of frames against a peripheral that
  may be late, recover or report changes in between.

What makes each part correct:

* publisher: a snapshot leaves whole, in order and uninterrupted; increments
  leave afterwards in the order queued;
* application: whatever overflows, underruns, commands and recoveries happen,
  the newest thing said about a control is its current value, Running means the
  host has it, resynchronisation ends, Fault is only a failed start;
* transport: a packet is retired only when the host has read exactly its bytes,
  received frames are never mixed, the line is high while there is something to
  read, every frame end is noticed;
* packets: what one side states the other reads; what was damaged is rejected;
* queue: a bounded FIFO;
* encoder: every transition counts once and in its direction, wherever it waits,
  up to saturation; what the application reads is what the decoder holds;
* button: no change without a level that stayed, every level that stays is seen,
  a long hold only that long behind the press;
* example master: a snapshot it accepts is one capture, not too old, and it finds
  back into the stream after any disturbance.

## Modules

| module | models | notes |
|---|---|---|
| `McmPackets` | `McmTypes.h`, `HardwareConfig.h`, `ControlState.h`, packet builders of `TransportProtocol.h` | a packet is the record of what its bytes say; the two button bitmaps are one "picture" |
| `BoundedFifo`, `EventQueue` | `EventQueue.h` | abstract FIFO; ring buffer with a refinement mapping |
| `PublicationPlan` | what the publisher promises | three packet sequences: baseline, increments, offered |
| `SnapshotPublisher` | `SnapshotPublisher.cpp/.h` | operators on the record plus one action per public method; refines `PublicationPlan` |
| `QueuedPublisher` | the same with the `EventQueue` it holds | sequence and ring in lockstep, each with its own test for room |
| `TransportFrames` | `TransportSPI.cpp` one frame at a time | operators only, for any packets and commands |
| `FrameDelivery` | what the transport promises | frames and the calls of `McmApplication.cpp` over the operators of `TransportFrames` |
| `CommandDispatcher` | `CommandDispatcher.cpp`, the commands | instantiates `TransportFrames` for them and for the packets of `McmPackets` |
| `McmApplication` | `McmApplication.cpp`, `ControlScanner.cpp`, and the host | composes publisher and transport |
| `TransportSPI` | `TransportSPI.cpp` and `SpiSlaveM0.pio` byte by byte, and the host's CS and clock | has timing assumptions that can be dropped one by one; with them it refines `FrameDelivery` |
| `ProtocolBytes` | `TransportProtocol.h` and the package's `mcm_spi_snapshot_protocol.h` on bytes | CRC-8, signed 24-bit encoding, every builder and reader; the operators of C on the bits of a byte are written as sums, so that one can prove about them; operators beginning with `McmSpi` are the header's |
| `SpiWire` | bit loop and shift directions of `SpiSlaveM0.pio` and `TransportSPI.cpp`, an MSB-first master, noise | one frame, one step per byte |
| `SnapshotMaster` | the package's `mcm_spi_snapshot_master.ino` and `decode_snapshot.py` | the peripheral is external: a queue of packets |
| `EncoderPIO` | `EncoderPIO.cpp/.h` and `EncoderPIO.pio` | operators on a sampler and a decoder |
| `DebouncedButton` | `DebouncedButton.cpp/.h` | operators; time modulo 2^32 is a constant |
| `ControlScanner` | `ControlScanner.cpp/.h` with `ControlMap.h`, and the knobs | composes the two above |
| `MCMcmApplication`, `MCControlScanner`, `MCSpiWire` | | constants for TLC |
| `SnapshotPublisherProofs`, `QueuedPublisherProofs`, `SpiWireProofs`, `TransportSPIProofs`, `McmApplicationProofs`, `McmDeliveryProofs`, `ControlScannerProofs`, `SnapshotMasterProofs` | | theorems and lemmas |

### How the actions correspond to the code

`McmApplication.service()` is cut at the places where the host's frames can make
a difference: `TransportService` (line 41), `RecoverIntegrity` (42-45), the five
`Handle...` actions (47-50 with `handleCommand`), `Scan`,
`PublishEncoderChange` / `PublishButtonChange` (one turn of `publishChanges`
each), and `PublishAndTransfer` (55-57). A recovery is part of the action that
calls it, never a step of its own, and so is every `serviceTxFifo`, `setIrq` and
state change the code makes inside the call. `HostFrame` is one frame; what it
leaves for the firmware is the marker in the RX FIFO (`frame`), processed by the
next `TransportService` or dropped by a `clearTxQueue` in between. `fed = FALSE`
is a frame during which the CPU did not keep the TX FIFO filled; the host then
rejects it or reads one of the `Readings` that a torn frame can have (see
`SpiWire` below).

`TransportSPI` makes every access of the C++ side to a FIFO a step
(`ReceiveByte`, `ReceiveMarker...`, `FeedByte`), and every instruction of the PIO
program that stalls or looks at CS or a FIFO. Eight SCK periods are one
`HostClock`.

`SpiWire` has `Select`, which fixes what both sides put into the frame, how many
bytes the firmware feeds in time and what X holds; `ClockByte`, eight turns of
`bit_loop` with up to `MaxFlips` inverted MISO bits per frame; and `Deselect`.
Behind the last byte fed, `pull noblock` takes X.

`SnapshotMaster` follows `requestSnapshot`: `SendCommand` (the frame also
swallows the packet that was loaded), `SeesIrq` and `TimesOut` for the wait,
and one `ReadPacket` or `ReadSpoilt` per turn of the loop, with the assembler's
`consume` inside. The log decoder consumes the same packets. The peripheral may
answer late, lose the command, recover (also with the sequence starting again)
and report changes; `budget` bounds these.

`ControlScanner` has `Begin`, `Scan` (`service`), `ResetControl` and `ResetAll`
as the application calls them, `Sample` for the PIO program (one step to see a
change, one to push it, with the FIFO full in between) and `Turn` for the knob.
`McmApplication` does not instantiate it: its own `Scan` lets counts and picture
become anything and returns the differences, which includes whatever
`ControlScanner` can do. `contact` is a history variable of the button levels,
and `Settled` the count an encoder is heading for.

A knob position is kept modulo four, so turning has no bound. One assumption is
made on it, `KnobOutruns = FALSE`: it does not turn on while its sampler has yet
to see or to push the last transition. Without it transitions are lost, not
"delayed" as `docs/PIO_IMPLEMENTATION.md:37` has it: the blocked program does not
sample, two missed transitions decode as none and three as one step back.
A failing `begin` cannot happen with the pin table of the build; it is modelled
because the application handles it.

### Assumptions on the wire

`McmApplication` takes a frame as one step. That is right when the host starts a
frame only after the end marker of the last one was processed, and the firmware
neither loads an idle transmitter nor clears it during a frame. It still lets
packets be loaded between the end of a frame and the processing of its marker.
It models what happens once commands arrive; that in the present code they do
not is what `SpiWire` shows (`wire_command`).

`TransportSPI` states these assumptions as five names and lets a configuration
drop any of them (`Liberties`): `IdleFrame`, `EarlyFrame`, `LateRelease`,
`FastClock`, `ClearInFrame`. With none dropped the packets stay aligned, and the
transport is the one of `TransportFrames`, whole frame by whole frame: it refines
`FrameDelivery`. Dropping any one breaks the transport, and any but `LateRelease`
the refinement as well; two such cases contradict the documentation and
are runs of their own, see below.

## Runs

Passing:

| run | instance | what it shows |
|---|---|---|
| `publisher` | two controls, two counts, one picture, ring of three slots | the publisher called in any order with its ring buffer refines `PublicationPlan`, and the ring answers as a bounded FIFO, which wraps between any two slots |
| `app_two_controls` | two controls, counts {0, 2} with clamp at 1, two pictures, publication queue 3, TX queue 5, a command of four, two scans with changes, one underrun, sequence modulo 2 | `NewestStatementIsCurrent`, `HostNeverRejects`, `RunningMeansHostCurrent`, with a scan cut between two encoders and a torn frame the host may believe |
| `app_fault` | one control, publication queue 2, TX queue 4, every command, `begin` may fail, two scans with changes, one underrun, fairness | `SafetyInvariant` and `DeliveryInvariant` (the inductive invariants of the proofs; the types are a part of the first) and the other parts by name; Fault: entered only at start, silent, final; `ResynchronizationEnds`, `HostConverges` |
| `scanner` | two controls, one with exchanged pins, one that may not start; one knob turning or one button bouncing; FIFO of two words, one word per scan, two transitions per detent, counts -2..3; debounce 2, long press 4, scans 0 to 2 apart, clock modulo 7 | counts, cache, debouncing, long hold, edges against bitmaps |
| `transport_bytes` | eight-byte packets, four-word FIFOs, 16 words per service as in the code; three packets, three frames of 2, 8 or 9 bytes, one clear, fairness | alignment, whole received frames, line level, `RetiredWasDelivered`, every frame end is noticed, and `ImplementsFrames`: the transport of whole frames on which `McmApplication` is built |
| `wire_bytes` | real bytes: counts at and beyond the 24-bit limits, buttons, boundaries; one to eight bytes fed in time, filler of zeros or ones, up to two flipped bits | what is read is what was stated, damage is rejected, a torn frame that passes keeps its type and index, and a command is refused for its version |
| `snapshot_master` | two controls, captures modulo 5, sequence modulo 2, two faults, one recovery, one reported change, fairness | the example master accepts only whole captures, not older than its faults and the reported changes explain, agrees with the log decoder, and recovers |

The queue depths are the smallest the `static_assert`s allow for the number of
controls, so that every queue overflows within the bounds; the wire limit is
below a reachable count, so the clamp matters; the sequence byte wraps within a
run. A command, two changing scans and an underrun suffice to put a second
disturbance into the recovery from a first one. Overflow of the publication
queue, a full TX queue, a refused snapshot request in mid-snapshot and right
behind END, a RESET_CONTROL that meets a full queue, a spurious underrun and a
recovery in mid-snapshot are all reached.

In `scanner` the FIFO fills, a push waits, the count reaches both limits with
words still waiting, and resets come at any of these moments. Encoders and
buttons do not touch each other, so each has its initial states, in which the
other rests. The clock wraps without end; scans are never further apart than the
wrap less the times compared, which the code needs too. Five captures are more
than two faults can make one stale, so the comparison modulo five is exact. In
`wire_bytes` the responses include those whose torn frames have a valid CRC.

`NewestStatementIsCurrent` is the property the firmware exists for: take the
packets anywhere between publisher and host, in order; the last one about a
control carries its current count (or the host already holds it).

`ValidMeansSent` covers all pairs of flipped bits because the polynomial finds
every one- and two-bit error in so short a packet. `StarvedKeepsItsKind` covers
what the CRC does not: behind the last byte fed in time the program sends X, which
is zeros or ones, and for instance `A5 01 01 03 FF FF FF FF` is valid and reads as
control 3 at -1. Such a frame still has the type and index that were sent, and a
torn boundary never pairs with a built one. `docs/KNOWN_LIMITATIONS.md:13` warns of
"stale OSR data" instead; after `pull noblock` it is X. `McmApplication` uses
exactly these readings, and the recovery that follows each underrun repairs the
host's view.

In `SnapshotMaster` it is the count of reads, not the resets of the assembler,
that keeps mixtures out: the command frame swallows one packet and nine are read
without a further look at `SLAVE_IRQ`, although the package's protocol text asks
for reading "while IRQ is high", so leftovers shift the place in the stream.
With leftovers and answers that are always late this master would never accept
anything; `Converges` holds because lateness is bounded by `MaxFaults`.
The decoder keeps what it has seen when a new BEGIN arrives, so that a log with
lines missing can yield a mixture; fed with the packets of one request it agrees
with the master.

Violations, each a disagreement between code and documentation:

| run | what TLC finds |
|---|---|
| `wire_command` | `TransportSPI.cpp:44` makes the input register shift right while the program works MSB first and `processRxWord` takes bits 31 to 24: every byte arrives with its bits reversed. The sync byte is a palindrome, version 1 reads as 128, `validate` answers BadVersion and every command is dropped. `docs/PIO_IMPLEMENTATION.md:5`: "Mode-0, MSB-first bit transfer". Shifting left alone would leave the byte in bits 7 to 0, so both lines have to change |
| `app_reset_all` | a count changes, RESET_ALL arrives before the event is sent: the zero baseline goes out, and behind it the old event. The host ends with a count the MCM no longer has. `docs/ARCHITECTURE.md:63`: "Stale events are never intentionally mixed into the new baseline." |
| `app_reset_lost` | a RESET_CONTROL frame is clocked while nothing is loaded; before its marker is taken the loop enqueues a packet; the marker then finds it loaded and not staged, an underrun is reported, and the recovery clears the received command with everything else. ADR-0004: "Reset commands mutate MCM state and then report it." |
| `transport_idle_frame` | a packet is loaded during such a frame; part of it is read as the tail of that frame, the marker retires it, and its last bytes stay in the TX FIFO in front of every later packet. `docs/MASTER_INTEGRATION.md:37` says the line stays high until the packet "has completed a CS frame"; its startup sequence begins with a frame on a low line |
| `transport_late_release` | the program tests CS once, directly behind the last falling edge. If CS rises later the marker never comes. `SpiSlaveM0.pio:14-17`: the marker "lets C++ assemble frames without polling CS quickly enough to see every edge" |

The remaining liberties were examined with the same module: with `FastClock`
the FIFO runs dry in the middle of a frame, the missing bytes are fed before the
marker, and the packet is retired as sent (the detection `docs/KNOWN_LIMITATIONS.md`
describes sees only bytes missing at the marker); `EarlyFrame` and
`ClearInFrame` misalign packets the way an idle frame does. So does a frame of
four to seven bytes: it is dropped on the receive side, but the rest of its packet
fits into the FIFO, counts as staged, and is retired (`FrameLengths = {5, 8}`).

Deadlock checking is on in every run: none of the loops ever stops.

### Fairness

`FairSpec` of `McmApplication` assumes weak fairness of the firmware (`loop()` is
called for ever and blocks nowhere) and of a host that reads while `SLAVE_IRQ` is
high, as `docs/MASTER_INTEGRATION.md` asks. It assumes nothing about when controls
move or commands arrive; only their number is bounded, and so is that of
underruns, without which no recovery could be expected to complete.
`TransportSPI` assumes weak fairness of CPU and PIO and that the host finishes a
frame it has begun; it need not start one. `SnapshotMaster` assumes that the
master's `loop()` runs on and that the peripheral serves a command it has taken;
losses and lateness are bounded by `MaxFaults`. `app_reset_lost` and
`transport_late_release` are counterexamples under these assumptions.

## Proofs

For every number of controls, every queue depth the `static_assert`s allow, any
sets of counts, pictures and commands, and any bounds:

* `SnapshotPublisherProofs`: `PublisherTypeCorrect`, types, queue bound and the
  encoder index inside the array, by induction over the seven operations, and
  `PublisherImplementsPlan`, the refinement.
* `QueuedPublisherProofs`: `RingIsTransparent`, `RingImplementsFifo`,
  `QueuedImplementsPlan`, for every capacity.
* `SpiWireProofs`: `TypeCorrect`, `WholePacketsReadBack`,
  `StarvedFramesKeepTheirKind` and `CommandsAreTurnedAround`, for every response
  (any index, count, bitmap or sequence), every request and every number of bytes
  fed in time; `NoDamagedPacketAccepted`, for up to three inverted bits.
* `TransportSPIProofs`, for every packet length and depth: `TransportTypeCorrect`
  and `IrqCoversPackets` under every liberty; `FramesStayWhole` with neither
  `EarlyFrame` nor `ClearInFrame`; `BytesStayAligned` and `RetiredAfterDelivery`
  with no liberty but `LateRelease`, for frames that are whole or short; and under
  the same hypotheses `TransportImplementsFrames`, the refinement.
* `McmApplicationProofs`: `SafetyInvariantHolds`, and from it `TypeCorrect`,
  `IrqLevelCorrect`, `CommandTaken`, `FaultSilent`, `FaultOnlyFromBegin` and
  `FaultStays`; the lemmas that each operator of `TransportFrames` preserves
  `TransportOK` and `IrqLevel` come first.
* `McmDeliveryProofs`: `StreamIsFramed`, `HostAcceptsEverything`, and, for every
  set of commands without RESET_ALL, `NewestIsCurrent` and `RunningIsCurrent`.
* `ControlScannerProofs`: `CacheFollowsEncoders`, `LastingLevelIsShown`,
  `ReportsAreDebounced`, `LongHoldsAreLong`, `EdgesAreChanges`, for every set of
  controls and every clock width, debounce and long-press time; `ScannerTypes`,
  and with `KnobOutruns = FALSE` `TransitionsAreCounted`, for every FIFO depth,
  service limit and range of the count.
* `SnapshotMasterProofs`: `MasterAcceptsOneCapture`, `StaleOnlyByFaults`,
  `DecoderFollowsMaster` and `MasterTypeOK`, for every number of controls and
  captures and however many faults, recoveries and reports there are.

**Application.** None of its invariants is inductive alone. The level of the
line needs the types of the transport and survives a recovery only with the
publisher's; that a command is taken in its pass needs to know at which stages
`rxReady` may be set; that Fault stays silent needs that nothing was loaded
before `begin`, that the publisher is idle in Fault, and that no recovery is
pending there, since RESET_CONTROL still queues events in Fault.
`SafetyInvariant` is their conjunction with these facts. The proof has one lemma
per action; the state is split into what a recovery touches (`CoreOK`) and the
rest (`SurroundingsOK`), so that the recovery reachable from seven actions is
proved once (`RecoverOK`, `RequestFreshSnapshotOK`). `FaultOnlyFromBegin` rests on
the fact that a cleared publisher accepts a snapshot request.

**Delivery.** What the host gets to see depends on the packets between it and
the firmware, so the proof is about that stream. It has three parts: the snapshot
the host is buffering, `Outbound` (loaded packet, TX queue, offered packet, rest of
the frozen snapshot) and the queued increments. One lemma per action shows that
the action makes one of a few moves (`FirmwareMove`, `HostMove`): it leaves the
stream alone, queues an increment that says what is new, passes the oldest
increment on, puts a snapshot behind `Outbound`, replaces everything by one
snapshot, or lets the host read the first packet. A step behind which a recovery
is due (`RecoveryDue`: a starved frame whose marker is not processed, or the flag
it left) may do anything, because the recovery replaces the stream. Two
invariants are then kept by every move:

* `DeliveryInvariant`: behind every BEGIN in `Outbound` stands the rest of its
  snapshot in order with the same sequence byte, every END has its BEGIN, the
  snapshot in the host's buffer goes on at the head of the stream unless a BEGIN
  abandons it, and a host that never committed a snapshot has an END coming. From
  it the parser has no packet to reject, misread packets of starved frames
  included, since these keep their type and index.
* `ViewIsCurrent`: reading buffer, `Outbound` and increments one behind the other,
  the newest statement about a control is its value, unless the scan has found a
  change of it that is still to be queued. A snapshot says something about every
  control, so what stood before it no longer matters; that is why a recovery may
  drop anything. It matters what stands behind it: a snapshot put in front of
  queued increments is harmless only if no value has changed since they were
  queued, which RESET_ALL violates. Hence the theorems' hypothesis `NoResetAll`,
  and `app_reset_all` is the counterexample without it.

Running is entered with an empty stream, so the host's own view is what the
newest statements say.

**Publisher and ring.** The plan's baseline is the rest of the snapshot still to
be built, which each build step shortens by its head; its increments are the
event queue mapped to packets. Both are facts about sequences and need the
publisher's types. The ring is tied to the sequence by its contents, the slots
from tail on taken modulo the capacity; head follows from tail and count, so an
index wraps at most once, a push writes a slot none of the contents uses, and a
pop moves every other by one place. Then each side's test for room agrees, and
the publisher's theorem carries over.

**Scanner.** A button's record remembers when a transition began, not what was
sampled since. `FollowsContact` ties it to the history: in a debouncing state
the level has been steady since `transitionStarted` and for less than the
debounce time, in a steady state the level is the reported one, and under a press
the time held is the time since `pressStarted` until it passes the long-press
time. Elapsed time grows by the gap between scans as long as no more than one
wrap of the counter has passed, which the bound on gaps gives while a debounce is
under way; for holds, which last, the history saturates. Cache and bitmaps need
only that every operation that writes the one writes the other.

For the counts the proof follows `Drained`, the decoder once the words between
PIO program and service are decoded. A sample adds one transition to it, a push
moves a word on, a service decodes some of the words: the last two leave it
alone. `KnobInvariant` says that where the sampler has seen the knob's position,
`Drained` has it as its previous state; so a turn, which waits for the sampler,
is one step of the quadrature table and the second look at the same pins is none.
`begin` establishes it because it reads the pins, even when a transition came
between the start of the program and that reading. That words may be decoded in
any portions needs induction over their number; `SetInduction` states it for a
set in the place of a predicate, from the well-foundedness of `<` on `Nat`.

**Byte-level transport.** That nothing leaves its storage and that no packet
hides behind a low line are proved together: loading a packet is safe because
the line is high whenever one waits.

`FramesStayWhole` needs `FrameInvariant`: while a frame is pending, the assembly
buffer and the RX FIFO behind it hold the bytes clocked so far and then the
marker, and otherwise the assembly is empty. That fails when a frame begins before
the last one's marker was processed, and when the assembly is cleared in mid-frame;
TLC shows both, so the theorem's hypothesis `SeparateFrames` excludes these two
liberties and no other.

`BytesStayAligned` follows the bytes of the loaded packet: what the pending frame
has taken of it and what the TX FIFO holds are, one behind the other, what was fed,
and without a loaded packet the FIFO is empty unless a recovery is due
(`AlignedInvariant`). The proof uses every assumption on the wire but the release
of CS (`TimingHolds`), and the hypothesis `FullOrShort` on frames: they clock a
whole packet, or so few bytes that the FIFO cannot hold the rest. A frame of four
to seven bytes breaks it, as said above. `RetiredAfterDelivery` follows: a packet
counts as sent only when its last byte is fed, and when the marker comes the frame
has taken all that was.

**Whole frames.** `FrameDelivery` has a step for the begin and one for the end of a frame, and
one for each call of the firmware; the transport is the record of
`TransportFrames`. The mapping gives that record the same queue, packet, command,
flags and line. Two fields differ in time. `staged` means at frame level that the
host has read the packet, so it is set when CS rises; the code sets it when the last
byte is in the FIFO. And at the end of `retireTransmittedPacket` the next packet is
loaded and partly fed before `setIrq` runs, so the line is taken one step ahead while
that feeding lasts. Then `service()` maps to one step, taken where the marker (or the
first word that is not there) is found; every other word, byte and instruction of
the PIO program changes nothing that is mapped; `HostRelease` ends the frame.

The alignment invariant is what makes the marker's two tests agree with the frame
level: staged at the marker means that the FIFO had been fed to the end, and then the
frame, which took all that was fed, has read the packet; not staged means that a byte
was missing. `RefinementInvariant` adds what the frame level takes for granted, that
outside of `serviceTxFifo` a packet fed to its end is staged (so it cannot have been
read without being so) and that what is loaded is a packet. A clear drops a frame
whose marker was not processed together with the FIFOs; an enqueue maps to
`EnqueueTxPacket` although its first bytes follow in later steps.

Under these hypotheses the host starts frames on a high line only. A frame it reads
to the end is `HostFrame(command, TRUE)` of `McmApplication`; one it cuts short is
one with `fed = FALSE` that it ignores. `McmApplication` goes beyond that in two places:
full frames for which the CPU does not feed in time (`FastClock` here) and commands on
a low line (`IdleFrame`). What the firmware does at their markers is translated from the
code as everywhere, but that the bytes of the next packets line up behind them
is an assumption there, and `TransportSPI` shows where it fails.

**Wire.** Bytes are taken apart into octets of bits, on which `Xor` is addition and
eight turns of the CRC's bit loop are one linear map (`CrcBits`). So the CRC of what
is read differs from the CRC of what was sent by what the inverted bits alone
leave in the register, and the frame passes only if that is the difference of the last
bytes. Three facts exclude this for one, two or three inverted bits: the map takes
only 0 to 0; it keeps the parity, so an odd number of them always shows; and a single bit
that has gone through one to seven further bytes never leaves a single bit, so two do
not cancel (`PowerTable`, the 64 values in question). Four can cancel, hence the
theorem's hypothesis `MaxFlips <= 3`. An idle frame begins with `00` or `FF`, which is
four bits from the sync byte.

`WireInv` says this after every byte: what has been read is what was fed and behind it
ones (`CleanOK`), or with inverted bits has the difference above (`NoisyOK`). A torn
frame that passes got at least four bytes in time: behind one byte the version
would be `FF`, and behind two or three the CRC never fits. So type and index are
those sent. A torn boundary then has `FF` in its sequence's high byte or in its
status, or lost nothing but a CRC byte that was `FF` anyway.

That a packet reads back needs the two's-complement split into three bytes and its
inverse as arithmetic on `\div` and `%`, for counts in and beyond the 24 bits. In
the other direction `ReversedOK` says that the bytes received are those sent with
their bits turned around: `A5` is a palindrome, version 1 becomes 128.

**Example master.** The assembler takes any state packet that fills an empty
place, so alone it would mix captures. The proof follows the loop counter: an
assembly that has spent one turn more than its places explain (`TooLate`) cannot
be complete when the loop ends, since a turn fills at most one place; any other
(`InStep`) began with the first packet of the request, holds the first places of
one capture, and finds the next of them at the head of the queue, because behind
every BEGIN in the queue stands its whole snapshot (`QueueOK`), or finds a BEGIN
there after a recovery, which comes too late.

The log decoder keeps at a BEGIN what the assembler drops. `Decoding` says how far
they can then be apart: either both hold the same first places of one capture
(`Together`), or a second BEGIN has come (`Doubled`), and behind it, since every
BEGIN in the queue has its whole snapshot behind it, the next packet that is none
states control 0 again, which the decoder refuses. So an END it takes is one the
master takes, with the same values.

How old an accepted snapshot may be follows from what is outstanding, the packets
queued and those of the answers still due. A request takes one frame for its
command and as many as an answer has packets, so it leaves no more outstanding than
it found, unless a frame brought nothing, which is a fault, or answers are late,
which is one too. `Backlog` bounds what is outstanding between two requests by one
answer, or one for each fault, and by the reported changes, each of which is a
packet no frame was meant for. `Aged` says that the buttons of an older capture have
as many packets behind them in the queue as the later answers have, and that this
stays so for the assembler that took them; it rests on `InStep`, since an assembly
with everything seen took its buttons one turn ago. So a snapshot accepted is as far
behind as the packets left in the queue, and these are bounded. The proof corrected
the property: it allowed only one capture or the number of faults, which is too
little where as many changes are reported as a snapshot has packets: with two controls
and six reports TLC finds an accepted snapshot two captures behind with at most
one fault. The run has one report, for which both say the same.

The assumptions used are the named ASSUMEs of the modules, which the runs
evaluate: at least one control, zero among the counts and pictures, a signed
range around zero, depths as the code's `static_assert`s demand, a debounce time
of at least one, gaps and times that fit into the clock.

Model-checked only: the liveness properties (`ResynchronizationEnds`,
`HostConverges`, `FrameEndSeen`, `Converges`), which are beyond this prover. Every
safety property of the passing runs is a theorem. Where a theorem has a hypothesis
the run does not need (`NoResetAll`, `SeparateFrames`, `TimingHolds`, `FullOrShort`,
`KnobOutruns = FALSE`, `MaxFlips <= 3`) it is named with the theorem above.

## Not modelled

* How evenly detents are reported: `detentCount()` divides towards zero, so the
  counts -3 to 3 are all detent 0 and, after a reset between two clicks, one
  click across zero is not reported although `docs/ENCODERS_AND_BUTTONS.md:39`
  says "Four valid transitions equal one reported detent". The division is in the
  model, a property about its scale is not.
* The difference between the package and the firmware in one constant: the
  package puts index 0 into BUTTON_STATE, the firmware the control count. The
  example master would refuse the firmware's snapshots; the package is a design
  target, and `SnapshotMaster` models its own peripheral.
* Status flags of snapshots (constant zero), the test for a single button of the
  portable header, printing and parsing of text in master and decoder, the
  package's documents, test vectors and self-test.
* `Diagnostics`: counters nothing reads. `ControlMap.h`: a pin table.
* Pin and PIO configuration calls other than the shift directions, `Serial`,
  build scripts, host tests, and the archive, which holds earlier versions of the
  same firmware and is not built.

## Plan

Done: queue, publisher, frame-level and byte-level transport, application,
scanner with encoders and buttons, bytes and bits on the wire, the example
master. Proved: safety and delivery of the application, the publisher's
refinements, and all safety of the scanner, of the byte-level transport, of the wire
and of the example master, and that the byte-level transport implements the
frame-level one the application is built on.

Nothing of the plan is left. A frame-level transport that also covers starved frames
and commands on a low line, as far as the code handles them, would let the
refinement drop two of its hypotheses.
