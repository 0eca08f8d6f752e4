# Formal model of stm32-async-uart-console

TLA+ specifications, TLC runs and TLAPS proofs for the STM32F446 UART console
and for the stop-and-wait command protocol that is developed beside it. Every
definition is translated from the C source; `PROJECT.json` maps each one to its
lines.

## 1. The system

The repository holds two things that do not call each other yet:

* the **console**, which runs on the board: bytes come in by circular DMA, are
  split into command lines, and each command's response goes out by DMA through
  a byte queue, together with messages of the push button;
* the **protocol layer**, host-tested only: frames with a CRC, a sender and a
  receiver session with retries, duplicate detection and a cached result, and a
  router that turns session decisions into frames and back.

### 1.1 Inventory

| Component | State | Operations | What makes it correct |
|---|---|---|---|
| Sender session (`protocol_sender_session.c`) | state, retained frame, attempts, time stamp, result | init, reset, start_command, get_transmission, mark_accepted, mark_transmitted, mark_transmit_error, poll, feedback handlers, release_result | attempts used exactly, no early or missed timeout, a frame never changes while it is transmitted, one outcome for a command |
| Receiver session (`protocol_receiver_session.c`) | pending command, cached result, tracker | init, reset, handle_frame, complete, defer | a repeat is answered and not executed again; completion never fails after execution |
| Sequence tracker (`protocol_sequence_tracker.c`) | last accepted and expected sequence | init, reset_session, classify, commit | consecutive sequences across the 16-bit wrap |
| Session router (`protocol_session_router.c`) | none | route_receiver_decision, route_sender_feedback | each decision becomes the right frame, each frame the right handler |
| Feedback codec (`protocol_feedback.c`) | none | encode and decode of ACK and RESPONSE | decode is the inverse of encode |
| Frame encoder, CRC (`protocol_frame.c`, `crc16_ccitt.c`) | none | encode, CRC | the decoder accepts what the encoder makes |
| Frame decoder (`protocol_frame_decoder.c`) | state, header, payload position, CRC | feed_byte, reset | resynchronizes after damage |
| SPSC byte queue (`spsc_byte_queue.c`) | buffer, head, tail (wrapping `uint32_t`) | write, peek, consume, get_used | producer and interrupt never tear, lose or overwrite a byte |
| UART TX adapter (`uart_tx_adapter.c`) | active, active_length, error_count | write, poll, handle_tx_complete | one transfer at a time, none forgotten |
| DMA circular stream (`dma_circular_stream.c`) | produced, consumed, old_position, overflow_count | publish_position, peek, consume, reset_for_restart | exact accounting of bytes received, parsed and lost |
| Command parser (`command_parser.c`) | buffer, length, discard flag, overflow count | feed_byte, discard_until_eol, reset | a command is one line |
| Main loop (`main.c`) | recovery flag, pending response, button messages | RX event, error and TX-complete callbacks; recovery, back-pressure, parsing | a response for each command, progress under back-pressure |
| Button debounce (`main.c`) | edge count, stable level, pending flag | EXTI callback, poll | one event for a press |
| HAL UART and DMA (vendored) | RxState, ReceptionType, enable bits; stream state and position | start of a transfer, DMA interrupt, UART interrupt | a reception either runs with all its interrupts or has been reported as ended |
| Start-up code | - | - | generated |

### 1.2 How the parts interact

*Receive.* The RX DMA stores bytes in `uart_dma_rx_buffer`. Half-transfer,
transfer-complete and IDLE interrupts call `HAL_UARTEx_RxEventCallback`, which
publishes the DMA's position in the stream. The main loop peeks at a contiguous
block, reads it directly from the DMA buffer, feeds the parser byte by byte and
consumes what it fed. A UART error aborts the reception; the callback only sets
`uart_rx_recovery_requested` and the loop restarts everything.

*Transmit.* `uart_tx_adapter_write` copies a whole block into the queue or
refuses it, then starts the DMA unless a transfer is active. The
transmit-complete interrupt releases its block and starts the next one. Main's
call of `start_next` masks interrupts, its copy does not.

*Back-pressure.* A response that does not fit stays in `pending_response`, main
stops at the exact byte, and until it is written neither the button nor the
parser gets the queue.

*Protocol.* `start_command` retains one encoded frame; the transport takes it
(`mark_accepted`), reports the end (`mark_transmitted` or
`mark_transmit_error`), `poll` compares a wrapping clock with the stamp. The
receiver classifies a command, the application executes and completes or
defers it, and the router encodes ACCEPTED, IN_PROGRESS, OUT_OF_ORDER or the
cached response.

### 1.3 What is hard

Two interrupt priorities and two DMA streams against one main loop; counters
and a clock that wrap; a block pointer that is used after other steps; an error between two
steps of a restart; an edge between two steps of the button poll; a
retransmission still running when the answer comes; answers that are lost,
late, early or repeated; deferral while older copies are on the link; a
reception that fails and restarts; bytes that look like a frame; a queue that
is full. `PROJECT.json` lists the hazards one by one with their lines and the
properties that cover them.

## 2. Modules

```
Frames <- SequenceTracker <- ReceiverSession ----+
   ^                              |              |
   |                         MCReceiver          +--> StopAndWait --implements (proved)--> RemoteCommand
   +---- SenderSession ---------------------------+
               |
          SenderTiming --implements (proved)--> SenderSession

Frames <- FrameCodec <- FrameDecoder <- FrameLink --implements--> LossyLink
                                            ^
                              Crc16 <- MCFrameLink

SpscQueue <- UartTx --implements (proved)--> BoundedFifo
DmaStream, CommandParser <- RxPath
Console  (the loop at the level of lines and responses)
Debounce (EXTI interrupt and button poll)
```

| Module | Models | Correspondence |
|---|---|---|
| `Frames` | frame types, sequences, the frames the sessions build | a frame is a record; a payload or result is a value; sequences are taken modulo `SeqMod` (2^16) |
| `SequenceTracker` | the tracker | operators on the structure |
| `ReceiverSession` | the receiver session | `rcv` is the structure, `decision` the caller's decision; one action per operation |
| `SenderSession` | the sender session and `route_sender_feedback` | `snd` is the structure; one action per operation; a call that returns false is no step |
| `SenderTiming` | the sender with `HAL_GetTick` and a zero-copy transport | adds the clock, the true waiting time and whether the transport reads the frame |
| `StopAndWait` | both sessions, two FIFO links, both applications | one action for each side's step, as `tests/test_protocol_end_to_end.c` wires them |
| `RemoteCommand` | abstract: at-most-once remote command | what an application may rely on |
| `FrameCodec`, `Crc16` | `protocol_frame_encode`, the feedback encoders and decoders, the CRC | real bytes and real sizes; the CRC is a parameter of `FrameCodec`, so proofs do not depend on it; `Crc16` is the bit loop, tabulated for TLC |
| `FrameDecoder` | the byte-driven decoder | operators on the structure; `FeedByte`, `FrameReady` and `FrameOf` are one call of `feed_byte` |
| `FrameLink` | encoder, a line that damages bytes, decoder | frames follow each other; altered, lost and invented bytes and decoder resets, at most `MaxDamage` in all |
| `LossyLink` | abstract: messages arrive unaltered, once and in turn, or are lost | what `StopAndWait` assumes of its links |
| `SpscQueue` | the byte queue | operators on the structure |
| `UartTx` | adapter, queue, TX DMA, transmit-complete interrupt | a write is begin, one step for each byte in any order, publish, start; the interrupt and the DMA come between |
| `BoundedFifo` | abstract: bounded FIFO with whole blocks | |
| `DmaStream`, `CommandParser` | the stream and the parser | operators on the structures |
| `RxPath` | RX DMA, its three events, the HAL's error handling and the steps of a restart, recovery, the parsing loop | a byte is its number on the line; multiples of `LineLength` are line ends; `uart` and `dma` are the HAL state the restart depends on |
| `Console` | the loop: recovery, pending response, button, parsing, TX queue | lines are records, the queue is its byte counts; STATUS uses the one static buffer |
| `Debounce` | EXTI callback, `button_debounce_poll`, tick | the poll is split wherever an edge, an interrupt or a tick can fall; what it does with interrupts masked is one step |
| `MCFrameLink` | messages and noise for TLC | sequences, status bytes and payloads that read as magic bytes |
| `MCReceiver` | environment of the receiver for TLC | any frame at any time, at most `MaxExecutes` executions |
| `SessionProofs`, `SenderTimingProofs`, `StopAndWaitProofs`, `DebounceProofs`, `FrameDecoderProofs`, `UartTxProofs`, `RxPathProofs`, `ConsoleProofs` | the proofs | `SessionProofs` is about both sessions, `FrameDecoderProofs` also about codec and line, `UartTxProofs` also about the queue |

Definitions whose comment begins with `Slip:` are not part of the
specifications. Each is a plausible mistake in the definition after it, kept to
show that the property named with it in `PROJECT.json` does notice it.

## 3. Runs

| Run | Question | Bounds, and why they are enough |
|---|---|---|
| `receiver` | Is every command answered, are tracker and cache coherent, is a decision's result stable until it is routed? | `SeqMod` 4: previous, expected and out-of-range sequences are distinct and wrap; 2 results tell a stale answer from a new one; 5 executions go round the sequence space |
| `sender` | Are retries, timeouts and frame ownership right with a wrapping clock? | `TickMod` 6 with a timeout of 2 and polls up to 3 apart: the clock wraps during a wait, and the limit of the code's own condition (timeout at most half the clock) is met; 2 attempts show first and last; 2 commands show what one leaves to the next |
| `stop_and_wait` | Do the two sessions implement `RemoteCommand` over lossy links, and does every command end? | 3 commands over `SeqMod` 3 wrap the sequence; 3 attempts leave up to three copies of a command and their answers on the links |
| `reliable_or_rebooting` | Does a command get its result over links that lose nothing? May a reboot of the sender alone make the receiver execute twice or out of order? | the two regimes are chosen at the start; one reboot at any sequence and any moment; `SeqMod` 3 keeps previous, expected and wrong sequences apart |
| `uart_tx` | Is the transmit path a FIFO under all interleavings? | buffer of 4 and counters modulo 8, 11 bytes: buffer and counters wrap, blocks cross the end; 2 refusals by the HAL |
| `rx_path` | Is every line parsed as it was sent while main keeps up, does the accounting hold when it does not, and does the reception always run again? | buffer 4, counters modulo 12, 9 bytes, main up to 6 bytes behind: every event at every position, buffer overwritten, counters wrap after a restart has aligned them; 2 errors at any point, so one can meet the restart the other caused |
| `rx_torn_command` | Are fragments of two lines never combined? (they are, section 6) | |
| `console` | One response for each command, and progress under back-pressure | the real sizes: queue 128, responses 4, 24, 90 or 128 bytes, button message 16; 3 commands and 2 presses fill the queue past its end |
| `console_long_status` | The same with a STATUS response of 144 bytes (section 6) | |
| `frame_link` | Do encoder, damaged line and decoder form the link the protocol assumes, and does the decoder get into step again? | the code's own sizes, sequences and CRC; an empty command, one whose payload ends like the beginning of a frame, an acknowledgement and a response with magic bytes in sequence and payload; 2 damaged bytes, which may make a false header and spoil a length |
| `frame_resync` | Does it get into step whatever the frames hold? (it does not, section 6) | one message, one damaged byte |
| `debounce` | Is every edge looked at, and does a debounce last as long as it should? | quiet time 2, clock modulo 8 and polls up to 3 apart: the clock wraps in a debounce; edge count modulo 3 with up to 2 edges in a poll |

The bounds are constants (`Max...`) and appear in guards only. `Debounce` allows
fewer edges in one poll than its counter can count (2^32 in the code), or the
second look could not notice them. `CountMod` must exceed the largest lag plus the buffer, as 2^32 does.

Deadlock is checked in every run: where a bounded behaviour really ends, an
action `Finished` (or the loop's `Poll`) stutters in exactly that state.

### Fairness

* The main loop turns: weak fairness of its steps (`Poll`, `Peek`,
    `ParseByte`, the steps of a restart, those of the button poll). The loop has
  no blocking call.
* A pending interrupt is served and a DMA transfer proceeds: weak fairness of
  `DmaByte`, `TxComplete`, `DmaEvent`, `IdleEvent`. RX bytes and errors, button
  presses and host lines have none.
* The sender's application polls and offers its frame and a transmission ends:
  weak fairness of these three. `EveryCommandEnds` needs nothing of the links
  or the receiver. `reliable_or_rebooting` adds fairness of the receiver's
  steps and of delivery.
* `FrameLink`: frames keep coming and the line delivers their bytes; damage has
  no fairness. `Debounce`: time passes and a pending EXTI interrupt is served;
  the contact is free.
* `GivesUpWhenUnanswered` is stated with its exception, feedback accepted again
  and again: `IN_PROGRESS` renews the wait without limit (`src/README.md:685`).

### What the properties say

*Sender.* `SequenceMatchesFrame`: a retry goes out under the sequence the session
waits for. `AtMostOneOutcome`: each command has one result. `NoEarlyTimeout`,
`NoMissedTimeout`: `poll` subtracts wrapped clock values, yet acts on the true
time. `TransportOwnsFrame`: results, releases, resets and new commands never
touch a frame under transmission.

*Receiver.* `CacheCoherent`: the cache holds the result of the last accepted
sequence. `PendingCommittable`: what `classify` found new, `commit` accepts
later. `EveryCommandAnswered`: no command frame ends in an error.
`BorrowedResultStable`: a pointer in a decision still names its result when it
is routed. `ConsecutiveCommits`: between resets accepted sequences follow each
other.

*Protocol.* `ExecutedAtMostOnceInOrder`, `ResultIsOfThisCommand`,
`EndsAgree` (the receiving application has a command exactly while its session
holds one pending, and the sender is never told it is out of order), and
`ImplementsRemoteCommand`, which also says that a result is learnt only after
execution and that a sender that gave up may still learn it. It keeps the set
of commands carried out; that none is carried out twice is
`ExecutedAtMostOnceInOrder`. With `MaxAttempts = 1`, `EveryCommandAnsweredAtLast` does not hold:
an answer that overtakes the report of the end of the transmission is ignored
and no retry asks for it again; the run has two attempts.

*Transmit.* `WireInOrder` and `ImplementsFifo`: what leaves is what was
written, in order, block by block. `BlockUntouched`: main never stores into
bytes the DMA has still to read. `AdapterInv`: the adapter is active exactly
while the DMA is busy, and every error counted is a refusal by the HAL.
`EverythingSent`: no accepted byte waits for ever.

*Receive.* `OnlyWholeLines`: while main keeps up, a command is a whole line of
neighbouring bytes. One command of each restarted reception is excused from
beginning where its line does, the one that begins with the first byte of that
reception: the recovery does not discard up to the next end of line, so the
rest of a line that was cut off is parsed as a command. What was collected
before the error is never joined to it, and every command after it is whole.
`PublishedTracksDma`: what an event publishes was stored, each byte once.
`BytesAccounted`: each published byte is pending, parsed or counted in RX_OVF.
Bytes that were stored and not yet published when an error ended the reception
are given up uncounted, in neither RX nor RX_OVF. `NeverHalted`:
`Error_Handler` in the parsing loop is not reached. `EveryByteParsed`: nothing
is left when the line falls quiet. `NeverDeaf`: outside a restart, either the
reception runs with all its interrupts or a recovery is requested.
`RecoveryEnds`: every request leads to a running reception, however the errors
fall. `PublishedTracksDma`, `EveryByteParsed` and `RecoveryEnds` excuse an error
that races the start itself (section 5).

*Frames.* `PayloadInBounds`: no stream of bytes makes the decoder write outside
its payload. `CleanFrameFound`: a whole frame that begins while the decoder
searches is returned, whatever came before. `ImplementsLossyLink`: what is
returned was sent, unaltered, once and in order. `PlainFramesResynchronize`: if
the frames that come have their first magic byte only at their beginning, the
decoder returns frames again and again.

*Button.* `NoEdgeForgotten`: while the reported level is not the pin's, the code
knows of an edge it has still to look at. `DebounceEndsQuiet`: a debounce ends
only after the full quiet time, with a level read after it. `RestReported`: the
level at which the contact comes to rest becomes the reported one.

*Console.* `OneResponseEach`, also for STATUS responses that share one static
buffer; `ParsingResumes`; `ButtonsReported`.

## 4. Proofs

TLAPS proves these for all values of the constants that satisfy the named
assumptions of the modules (`...Assumption`): any sequence space, clock size,
timeout below half of it, number of attempts, payloads and results, any buffer
and counter size and any number of bytes, commands and errors. Every safety
invariant that a run checks is proved, and three of the four refinements.

* **Sender.** `SenderTypeCorrect`, then `SenderIsSafe`: `SenderSafe` is the
  conjunction of `AttemptsHonoured`, `OwnershipTracked`, `SequenceMatchesFrame`
  and `AtMostOneOutcome`. The parts are inductive over the type invariant; one
  lemma for each has one step per operation. `SenderKeepsActiveFrame` (the frame
  does not change during a transmission) rests on `OwnershipTracked`:
  `start_command`, the only writer, needs IDLE, and ownership says that nothing
  is active in IDLE.
* **Clock and transport.** `NoMissedTimeout` is not inductive: it says nothing
  of the clock. `TimingInv` adds `WaitMeasured`, that clock and stamp differ by
  the true time or by it less one wrap, which lemma `ElapsedIsTrueTime` turns
  into the value `poll` computes, and `reading = snd.transmission_active`. From
  it follow `NoTimeoutIsEarly`, `NoTimeoutIsMissed` and `TransportKeepsFrame`.
  `TimingAssumption` is what the code needs of its caller: two polls are at
  most the clock's period less the timeout apart.
* **Refinement.** `TimingImplementsSender`: every step of `SenderTiming` is a
  step of `SenderSession` or a stutter, so the sender's theorems hold there.
* **Receiver.** `ReceiverIsSafe`: the cache holds the last accepted sequence
  whenever the tracker is initialized, and the pending sequence is the one the
  tracker can commit. Neither holds without the other: `complete` relies on
  `PendingCommittable` to fill the cache. `ReceiverAnswersAll`,
  `ReceiverCommitsPending`, `CommitsAreConsecutive`, `ReceiverCacheCoherent`
  and `ReceiverResultStable` follow.
* **Protocol, at most once.** `ExecutesAtMostOnceInOrder` needs to know what may
  still arrive. `OrderInv` says so: the commands on the link, and the one the
  sender may send again, are in the order in which they were issued, none is
  older than the last one executed, and one that is as old has the sequence the
  tracker accepted last, so that the receiver takes it for the repeat it is.
  Nothing in it says that the two ends agree. Hence it survives a reboot of the
  sender and needs no hypothesis.
* **Protocol, agreement.** `AgreeInv` adds `LoopAgrees`: the receiver expects
  the sender's current sequence or has just accepted it, and everything that
  travels round the loop (commands, the decision, the application's job,
  feedback) carries that sequence or the one before, the older ones first. Two
  sequence numbers suffice, as in any stop-and-wait protocol. It is false once
  the sender has rebooted without the receiver, so `EndsStayAgreed`,
  `ResultsAreOfTheirCommand` and `RefinesRemoteCommand` assume that the regime
  `"rebooting"` is not among `Regimes`; the code documents that limit
  (`src/README.md:684`). In the refinement, issuing, executing, learning the
  result, giving up and releasing are the steps of `RemoteCommand`, all other
  steps stutter, and `LoopAgrees` shows that a result accepted by the sender is
  the issued command's.
* **Button.** `DebounceInvariant`: neither `NoEdgeForgotten` nor
  `DebounceEndsQuiet` is inductive, since both depend on the locals of a poll
  between two of its steps. `SnapshotHolds` says what they mean: the count is
  behind by the edges served since, up to a wrap, which lemma `CountTellsEdges`
  turns into the code's test; without an edge the time is the last edge's and
  the level that was read is the pin's. `AgeMeasured` says that tick and stamp
  tell the true time, up to a wrap, while it is short of the debounce time
  (lemma `EarlyIsSeen`). `EdgesRemembered` and `DebounceIsQuiet` follow for any
  debounce time, clock, edge counter and poll gap of `DebounceAssumption`.
* **Transmit path.** `TransmitInvariant`: `TxInv` is inductive. `AdapterInv` and
  `WireInOrder` are not: they say nothing of where the DMA reads. `TxInv` adds
  what ties the wrapping counters to true byte numbers: `head` and `tail` are
  the numbers of bytes accepted and released modulo `CountMod`
  (`CountersTrue`), the active block is a run of published bytes that does not
  wrap and the DMA is `BlockRead` bytes into it (`BlockIsQueued`), byte `n` is
  in slot `n % Capacity` while it is queued (`PublishedStored`), and a write
  in progress fills only free slots, its completed part in place
  (`WriteHasRoom`). The argument is modular arithmetic, proved apart in
  the first part of `UartTxProofs`: a counter's difference is the true distance
  (`UsedIsDistance`), its slot is the byte number's because the capacity
  divides the counter's range (`SlotFromCounter`), and bytes less than
  `Capacity` apart have different slots (`RemaindersDiffer`), so a write never
  reaches the DMA's block (`CopyTarget`, `MainSparesBlock`).
  `TransmitImplementsFifo` follows: `Unread` is the sequence of bytes accepted
  and not sent (`UnreadIs`), `Publish` puts a block, `DmaByte` takes a byte,
  every other step stutters. Assumed of the constants: `CountMod` is a
  multiple of `Capacity` and larger, which `spsc_byte_queue_init` ensures for
  `uint32_t` counters by demanding a power of two.
* **Receive path.** `RxInv` ties the three positions together that no single
  step sees at once: the DMA's, the one of the last event and the counters.
  `PositionsCount`: what is stored and not published is the distance from the
  last event's position to the DMA's, and a half-transfer or transfer-complete
  event is raised whenever the DMA passed its point since. So no position is
  ever mistaken for the one a buffer earlier. `PositionsInPlace`: the slot of
  `produced` is the last event's position, which restarts keep by aligning the
  counters. `BlockPending`: what `peek` returned is still pending, whatever was
  published or lost since, so `consume` never refuses it. `RestartInOrder`: at
  each point of a restart, which flags are set and what an error there leaves
  behind. `RefusedForGood` is the state after an error that races the start
  (section 5). `EveryByteAccounted`, `MainNeverHalts`,
  `EventsPublishWhatIsStored` and `NeverDeafUnnoticed` follow.
  `CommandsAreWholeLines` needs `LinesInv`: while main was never more than a
  buffer behind, the slots from `consumed` on hold consecutive bytes of the
  line, and what the parser has collected ends just before them and begins
  after an end of line or with the first byte of a reception started again,
  whose number the history variable `starts` remembers. Assumed: `MaxLag + Capacity < CountMod`, that
  is, main is never 2^32 bytes behind.
* **Console.** `OneResponseEach` counts, but an order of responses is not
  inductive by itself. `ConsoleInv` adds that the lines still in the buffer are
  younger than every response, that the block being parsed is there, and that a
  pending response, wherever it points, stands for the command taken last:
  parsing stops while one is pending, so the static STATUS buffer is not
  formatted again. `EachCommandAnsweredOnce` holds for any number of lines
  and any lengths of responses and queue, those of `console_long_status`
  included.
* **Frames.** `FeedByteSound`: a byte takes a consistent decoder to a
  consistent one; `StartSound` and `ReturnedFrameFits` complete it, under any
  checksum function. `LineKeepsPayloadInBounds` is the same for the line of
  `FrameLink`. `MessageEncoded`: decoding what was encoded gives the message
  back, for every payload, status and result that fits.
  `CleanFramesAreFound`: `CleanInv` says that while the frame on the wire is
  undamaged, what is left of it is its end, and the decoder is where the bytes
  before it lead: the state, the fields read so far, the payload's beginning,
  and the checksum of the bytes covered so far. `FrameFollowed` takes it over
  each byte, one lemma for each phase of the decoder. That the decoder's
  running checksum arrives at the encoder's is an induction over the bytes.
  The library's induction theorems have an operator parameter, which the
  provers cannot instantiate. `SetInduction` replaces them: it follows from the
  well-foundedness of `<` on the naturals by the least element of a set.
  The hypothesis `Closed(Word16)` says that `CrcUpdate` returns a 16-bit
  number, as `crc16_ccitt_false_update` does by its type (`uint16_t`).
  Assumed of the messages: they are what the three encoders take
  (`WireMessages`); of the sizes: they fit 16 bits, and an acknowledgement fits
  a payload.

Only model-checked:

* Liveness under fairness (`GivesUpWhenUnanswered`, `EveryCommandEnds`,
  `EveryCommandAnsweredAtLast`, `EverythingSent`, `EveryByteParsed`,
  `RecoveryEnds`, `ParsingResumes`, `ButtonsReported`, `RestReported`,
  `PlainFramesResynchronize`): the provers know neither `ENABLED` nor how to
  reason about it.
* `ImplementsLossyLink`: it does not hold for every checksum and any damage,
  since a checksum of 16 bits misses some errors. TLC checks it for the real
  CRC and the damage of `frame_link`. What the bit loop of `Crc16` computes is
  checked against the check value of the CRC's test.

## 5. What is not modelled

* **An error that races the start of the reception** is modelled and excused.
  `UART_Start_Receive_DMA` enables the error interrupts one instruction before
  the DMA request (`stm32f4xx_hal_uart.c:3342`). A transmit-complete interrupt
  in between that finds an overrun ends the reception without aborting the RX
  stream, which stays busy, so every later `HAL_DMA_Start_IT` refuses: without
  the excuse TLC finds that recovery is retried for ever. The window is a few
  cycles wide and lies in vendored code, and the repository claims nothing
  about it.
* The CRC's undetected errors: one in 65536 random errors passes a 16-bit CRC.
  The damage of `frame_link` is too small for one.
* HAL and hardware, except the code paths the console runs: blocking,
  interrupt-driven and non-circular transfers, parity, and DMA transfer errors,
  which need a bus fault on a valid buffer; after one on the TX stream the
  adapter would stay active. The DMA interrupt has the lower number at equal
  priority, so it is served before IDLE; each is served within half a buffer.
* The receiver's loss of power (`src/README.md:680`) and the answer a rebooted
  sender may mistake for its own without session identifiers
  (`src/README.md:684`): documented limits that no property claims otherwise.
* Diagnostic counters no property is about, NULL or empty arguments, and the
  encoders' check of the room for their output.
* Generated and vendored code. Of the 132 000 lines of C about 127 000 are
  CMSIS and HAL, most of them register definitions, inline register accesses
  and drivers of peripherals the console does not use; they hold no state or
  control of this program. The share of all lines that the modules map
  therefore stays small, though nearly every function of the application's own
  sources has its definition.

## 6. Disagreements found

1. **A command may be put together from two lines** (`rx_torn_command`).
   `peek` detects an overrun by published counts only, and main reads the live
   DMA buffer. When main is behind, bytes of a newer line are already stored
   over unread ones before any event publishes them, or are stored between
   `peek` and the read; `data_lost` stays false and nothing is discarded.
   `src/README.md:166` says discarding prevents fragments from being combined.
   `OnlyWholeLines` in `rx_path` shows that it cannot happen while main is at
   most one buffer behind, whatever UART errors and restarts come between.
2. **A long STATUS response blocks the console** (`console_long_status`). The
   text has 84 fixed bytes and six counters of up to ten digits, so up to 144
   bytes; `response_status` holds 160, but the TX queue holds 128 and accepts a
   block whole or not at all. With 45 digits or more the response stays pending
   for ever, and no command or button message gets past it.
   `src/README.md:201` says that parsing resumes when capacity becomes
   available.
3. **The decoder may stay out of step for ever** (`frame_resync`). Outside a
   frame the decoder takes any `A5 5A 01` for the beginning of one and reads the
   five bytes after it as type, sequence and length. A length above 64 is
   rejected at once (`protocol_frame_decoder.c:218`), and the search looks again
   only at the byte that completed it: the other header bytes are gone, even if
   a real frame began in them. The run sends one command again and again, as
   the sender's retries do, byte for byte:
   `A5 5A 01 01 00 02 00 04 09 A5 5A 01 D8 F4`. One altered byte spoils the start
   of a copy, and the decoder finds the false start in its payload. It takes
   `D8` for the type, `F4` and the next copy's `A5` for the sequence, and that
   copy's `5A 01` for the length, 23041. The rejection looks again at the `01`
   only, so the start of that copy is consumed and the search goes on to the
   false start in its payload, where all this repeats: no copy is ever returned,
   although none but the first is damaged. No checksum is read and no payload
   waited for. `src/README.md:234` lists stream resynchronization after errors;
   `PlainFramesResynchronize` shows for which frames it holds.

## 7. Plan

Done: the sessions with proofs, the protocol over links with its abstract
specification, the transmit path with its abstract specification, the receive
path with the HAL's restart, the console loop, the byte-level frame link with
its abstract specification, the button; a proof of every safety invariant and
of the refinements that hold for all constants (section 4).

Next, model and check:

1. The console's bytes composed: `RxPath` as an implementation of a line
   stream.
2. `StopAndWait` over `FrameLink` instead of message links, with a sender that
   the decoder's missing time limit may starve.

Next, prove: what the two compositions above add.

Run everything with `tlc -config X.cfg M` and `tlapm M.tla` in this directory.
