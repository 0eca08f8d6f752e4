------------------------------- MODULE RxPath -------------------------------
(***************************************************************************)
(* The receive path of main.c and the reception of the HAL under it: the   *)
(* circular DMA stores bytes, half-transfer, transfer-complete and IDLE    *)
(* interrupts publish its position, and the main loop parses one block at  *)
(* a time straight out of the DMA buffer, which the DMA goes on writing.   *)
(* A UART error ends the reception, and main starts it again in steps the  *)
(* interrupts may come between.                                            *)
(*                                                                         *)
(* Byte n is the n-th on the line, and the multiples of LineLength end a   *)
(* line.  The interrupts have one priority and the DMA's the lower number, *)
(* so a pending DMA event is served before IDLE, and the end of a DMA      *)
(* abort before main; each is served within half a buffer.                 *)
(***************************************************************************)
EXTENDS DmaStream, CommandParser

CONSTANTS
  LineLength,   \* every LineLength-th byte is an end of line
  MaxBytes,     \* bound on the bytes sent to the console
  MaxErrors,    \* bound on UART errors
  MaxLag,       \* how many bytes main may be behind the line
  RacyStart     \* whether an error may come as the reception starts

ASSUME RxPathAssumption ==
  /\ LineLength \in Nat \ {0, 1}
  /\ {MaxBytes, MaxErrors, MaxLag} \subseteq Nat
  /\ MaxLag + Capacity < CountMod
  /\ RacyStart \in BOOLEAN

VARIABLES
  stream,    \* uart_rx_stream
  buffer,    \* uart_dma_rx_buffer
  uart,      \* huart2: RxState, ReceptionType and the enable bits of CR1, CR3
  dma,       \* the RX stream: busy, position, pending events, line activity
  recovery,  \* uart_rx_recovery_requested
  parser,    \* command_parser
  main,      \* the block of main's iteration and how much of it is parsed
  command,   \* the command feed_byte returned for the last byte
  tally      \* history: the bytes that arrived, that are stored and not given
             \* up, published, parsed; errors; the first bytes of receptions
             \* started again; main was more than a buffer late; an error came
             \* as the reception started

vars == <<stream, buffer, uart, dma, recovery, parser, main, command, tally>>

Idle == [pc |-> "loop", index |-> 0, length |-> 0, done |-> 0]

Eol(n) == n % LineLength = 0

RxTypeOK ==
  /\ stream \in Streams
  /\ buffer \in [Slots -> 0 .. MaxBytes]
  /\ uart \in [busy : BOOLEAN, toIdle : BOOLEAN, eie : BOOLEAN,
               dmar : BOOLEAN, idleie : BOOLEAN]
  /\ dma \in [busy : BOOLEAN, position : Slots,
              events : {<<>>, <<"HT">>, <<"TC">>}, active : BOOLEAN]
  /\ recovery \in BOOLEAN
  /\ parser \in [line : Seq(0 .. MaxBytes), discarding : BOOLEAN,
                 overflow_count : Nat]
  /\ Len(parser.line) <= LongestCommand
  /\ main \in [pc : {"loop", "parsing", "restart", "armed", "check", "halted"},
               index : Slots, length : 0 .. Capacity, done : 0 .. Capacity]
  /\ command \in Seq(0 .. MaxBytes)
  /\ tally \in [arrived : 0 .. MaxBytes, stored : Nat, published : Nat,
                fed : Nat, errors : 0 .. MaxErrors,
                starts : SUBSET (1 .. MaxBytes + 1), late : BOOLEAN,
                raced : BOOLEAN]

Stopped == [busy |-> FALSE, position |-> 0, events |-> <<>>, active |-> FALSE]
Started == [Stopped EXCEPT !.busy = TRUE]

\* The DMA stores what the UART receives.
Running == dma.busy /\ uart.dmar

Init ==
  /\ stream = StreamStart
  /\ buffer = [i \in Slots |-> 0]
  /\ uart = [busy |-> TRUE, toIdle |-> TRUE, eie |-> TRUE, dmar |-> TRUE,
             idleie |-> TRUE]
  /\ dma = Started
  /\ recovery = FALSE
  /\ parser = ParserStart
  /\ main = Idle
  /\ command = <<>>
  /\ tally = [arrived |-> 0, stored |-> 0, published |-> 0, fed |-> 0,
              errors |-> 0, starts |-> {}, late |-> FALSE, raced |-> FALSE]

-----------------------------------------------------------------------------
\* The event a byte stored in slot i raises, and the position it reports.
EventsOf(i) ==
  IF i + 1 = Capacity \div 2 THEN <<"HT">>
  ELSE IF i + 1 = Capacity THEN <<"TC">> ELSE <<>>
EventPosition(event) == IF event = "HT" THEN Capacity \div 2 ELSE Capacity

\* The bytes in the buffer main has not parsed.
Lag == (tally.stored - tally.published) + Pending(stream) - main.done

DmaByte ==
  /\ Running
  /\ tally.arrived < MaxBytes
  /\ Lag < MaxLag
  /\ EventsOf(dma.position) # <<>> => dma.events = <<>>
  /\ buffer' = [buffer EXCEPT ![dma.position] = tally.arrived + 1]
  /\ dma' = [dma EXCEPT !.position = Slot(@ + 1),
                        !.events = @ \o EventsOf(dma.position),
                        !.active = TRUE]
  /\ tally' = [tally EXCEPT !.arrived = @ + 1, !.stored = @ + 1,
                            !.late = @ \/ Lag >= Capacity]
  /\ UNCHANGED <<stream, uart, recovery, parser, main, command>>

\* A byte sent while the reception is stopped is lost.
MissedByte ==
  /\ ~Running
  /\ tally.arrived < MaxBytes
  /\ tally' = [tally EXCEPT !.arrived = @ + 1]
  /\ UNCHANGED <<stream, buffer, uart, dma, recovery, parser, main, command>>

\* HAL_UARTEx_RxEventCallback
RxEvent(size) ==
  /\ stream' = Publish(stream, size)
  /\ tally' = [tally EXCEPT !.published = @ + Received(stream, size)]

\* Without reception to idle the HAL calls another, empty callback.
DmaEvent ==
  /\ dma.events # <<>>
  /\ IF uart.toIdle THEN RxEvent(EventPosition(Head(dma.events)))
     ELSE UNCHANGED <<stream, tally>>
  /\ dma' = [dma EXCEPT !.events = Tail(@)]
  /\ UNCHANGED <<buffer, uart, recovery, parser, main, command>>

\* The line fell idle.  The HAL reports the position it reads then, 0 as the
\* whole buffer: of a byte since, perhaps, whose own event is still pending.
IdleEvent ==
  /\ uart.toIdle /\ uart.idleie /\ Running
  /\ dma.active
  /\ dma.events # <<>> => Slot(EventPosition(Head(dma.events))) = dma.position
  /\ dma' = [dma EXCEPT !.active = FALSE]
  /\ RxEvent(IF dma.position = 0 THEN Capacity ELSE dma.position)
  /\ UNCHANGED <<buffer, uart, recovery, parser, main, command>>

-----------------------------------------------------------------------------
\* UART_EndRxTransfer
Ended(u) == [u EXCEPT !.busy = FALSE, !.eie = FALSE, !.toIdle = FALSE,
                      !.idleie = @ /\ ~u.toIdle]

\* Slip: the recovery done in the interrupt.
RxErrorResetting ==
  /\ Running /\ uart.eie
  /\ tally.errors < MaxErrors
  /\ uart' = [Ended(uart) EXCEPT !.dmar = FALSE]
  /\ dma' = Stopped
  /\ recovery' = TRUE
  /\ stream' = ResetForRestart(stream)
  /\ tally' = [tally EXCEPT !.errors = @ + 1, !.stored = tally.published]
  /\ UNCHANGED <<buffer, parser, main, command>>

\* Slip: the DMA stream not aborted.
RxErrorLeavingStream ==
  /\ Running /\ uart.eie
  /\ tally.errors < MaxErrors
  /\ uart' = [Ended(uart) EXCEPT !.dmar = FALSE]
  /\ recovery' = TRUE
  /\ tally' = [tally EXCEPT !.errors = @ + 1, !.stored = tally.published]
  /\ UNCHANGED <<stream, buffer, dma, parser, main, command>>

\* Any UART error makes the HAL end the reception and abort the DMA stream,
\* what it has not published included; then HAL_UART_ErrorCallback asks for
\* recovery.
RxError ==
  /\ Running /\ uart.eie
  /\ tally.errors < MaxErrors
  /\ uart' = [Ended(uart) EXCEPT !.dmar = FALSE]
  /\ dma' = Stopped
  /\ recovery' = TRUE
  /\ tally' = [tally EXCEPT !.errors = @ + 1, !.stored = tally.published]
  /\ UNCHANGED <<stream, buffer, parser, main, command>>

\* An error flagged once error interrupts are enabled and the DMA request is
\* not.  Only a transmit-complete interrupt enters the handler there.  A noise
\* or framing error makes it ask for recovery and return before its transmit
\* branch, so it is entered again and again until there is an overrun, for
\* which it ends the reception but leaves the DMA stream busy.
RacedStart ==
  /\ RacyStart
  /\ uart.eie /\ ~uart.dmar
  /\ uart' = Ended(uart)
  /\ recovery' = TRUE
  /\ tally' = [tally EXCEPT !.raced = TRUE]
  /\ UNCHANGED <<stream, buffer, dma, parser, main, command>>

-----------------------------------------------------------------------------
\* Slip: the line begun before the error is kept.
TakeRecoveryKeepingLine ==
  /\ main.pc = "loop" /\ recovery
  /\ stream' = ResetForRestart(stream)
  /\ recovery' = FALSE
  /\ main' = [main EXCEPT !.pc = "restart"]
  /\ tally' = [tally EXCEPT !.stored = tally.published]
  /\ UNCHANGED <<buffer, uart, dma, parser, command>>

\* uart_rx_recovery_poll, its masked part: the accounting and the parser start
\* afresh, what was not published is given up, and the request is taken.
TakeRecovery ==
  /\ main.pc = "loop" /\ recovery
  /\ stream' = ResetForRestart(stream)
  /\ parser' = ParserReset(parser)
  /\ recovery' = FALSE
  /\ main' = [main EXCEPT !.pc = "restart"]
  /\ tally' = [tally EXCEPT !.stored = tally.published]
  /\ UNCHANGED <<buffer, uart, dma, command>>

\* HAL_UARTEx_ReceiveToIdle_DMA up to the enabling of error interrupts.
StartReception ==
  /\ main.pc = "restart"
  /\ ~uart.busy /\ ~dma.busy
  /\ uart' = [uart EXCEPT !.busy = TRUE, !.toIdle = TRUE, !.eie = TRUE]
  /\ dma' = Started
  /\ main' = [main EXCEPT !.pc = "armed"]
  /\ UNCHANGED <<stream, buffer, recovery, parser, command, tally>>

\* The UART or the DMA stream is busy: the next iteration tries again.
StartRefused ==
  /\ main.pc = "restart"
  /\ uart.busy \/ dma.busy
  /\ uart' = IF uart.busy THEN uart
             ELSE [uart EXCEPT !.toIdle = TRUE, !.idleie = TRUE]
  /\ recovery' = TRUE
  /\ main' = Idle
  /\ UNCHANGED <<stream, buffer, dma, parser, command, tally>>

EnableRequests ==
  /\ main.pc = "armed"
  /\ uart' = [uart EXCEPT !.dmar = TRUE]
  /\ main' = [main EXCEPT !.pc = "check"]
  /\ tally' = [tally EXCEPT !.starts = @ \cup {tally.arrived + 1}]
  /\ UNCHANGED <<stream, buffer, dma, recovery, parser, command>>

\* Slip: the request taken only now that the reception has started.
ReceptionStartedThenTaken ==
  /\ main.pc = "check"
  /\ uart' = [uart EXCEPT !.idleie = @ \/ uart.toIdle]
  /\ recovery' = FALSE
  /\ main' = Idle
  /\ UNCHANGED <<stream, buffer, dma, parser, command, tally>>

\* A reception an error ended meanwhile counts as a failed start.  A byte and
\* an idle line after it take longer than this, so no IDLE is lost here.
ReceptionStarted ==
  /\ main.pc = "check"
  /\ uart' = [uart EXCEPT !.idleie = @ \/ uart.toIdle]
  /\ recovery' = (recovery \/ ~uart.toIdle)
  /\ main' = Idle
  /\ UNCHANGED <<stream, buffer, dma, parser, command, tally>>

Peek ==
  /\ main.pc = "loop" /\ ~recovery
  /\ Pending(stream) > 0
  /\ stream' = SkipOverwritten(stream)
  /\ parser' = IF DataLost(stream) THEN DiscardUntilEol(parser) ELSE parser
  /\ main' = [pc |-> "parsing", index |-> Slot(stream'.consumed),
              length |-> Block(stream'), done |-> 0]
  /\ UNCHANGED <<buffer, uart, dma, recovery, command, tally>>

\* The byte is read from the DMA buffer now, whenever it was published.  When
\* the response to a command does not fit in the TX queue the rest of the
\* block is left for later.
ParseByte ==
  /\ main.pc = "parsing" /\ main.done < main.length
  /\ LET byte == buffer[main.index + main.done]
     IN /\ parser' = Feed(parser, byte, Eol(byte))
        /\ command' = IF Completes(parser, Eol(byte)) THEN parser.line ELSE <<>>
  /\ main' \in {[main EXCEPT !.done = @ + 1]} \cup
               (IF command' = <<>> THEN {}
                ELSE {[main EXCEPT !.done = @ + 1, !.length = main.done + 1]})
  /\ tally' = [tally EXCEPT !.fed = @ + 1]
  /\ UNCHANGED <<stream, buffer, uart, dma, recovery>>

\* The parsed bytes are consumed, or Error_Handler stops everything.
ConsumeBlock ==
  /\ main.pc = "parsing" /\ main.done = main.length
  /\ IF CanConsume(stream, main.done)
     THEN stream' = Consume(stream, main.done) /\ main' = Idle
     ELSE main' = [Idle EXCEPT !.pc = "halted"] /\ UNCHANGED stream
  /\ UNCHANGED <<buffer, uart, dma, recovery, parser, command, tally>>

\* Nothing more to come and nothing left to do.
Finished ==
  /\ tally.arrived = MaxBytes
  /\ dma.events = <<>> /\ ~dma.active
  /\ main = Idle /\ ~recovery /\ Pending(stream) = 0
  /\ UNCHANGED vars

Next ==
  \/ DmaByte \/ MissedByte \/ DmaEvent \/ IdleEvent \/ RxError \/ RacedStart
  \/ TakeRecovery \/ StartReception \/ StartRefused \/ EnableRequests
  \/ ReceptionStarted
  \/ Peek \/ ParseByte \/ ConsumeBlock
  \/ Finished

Spec == Init /\ [][Next]_vars

\* main keeps looping, a pending interrupt is served, an inactive line is idle.
LiveSpec ==
  /\ Spec
  /\ WF_vars(TakeRecovery) /\ WF_vars(StartReception) /\ WF_vars(StartRefused)
  /\ WF_vars(EnableRequests) /\ WF_vars(ReceptionStarted)
  /\ WF_vars(Peek) /\ WF_vars(ParseByte) /\ WF_vars(ConsumeBlock)
  /\ WF_vars(DmaEvent) /\ WF_vars(IdleEvent)

-----------------------------------------------------------------------------
\* main never reaches Error_Handler: what it consumes is never more than what
\* is pending, even if errors and events come between peek and consume.
NeverHalted == main.pc # "halted"

\* The events publish what the DMA stored, each byte once: the published count
\* is never ahead of the DMA and never so far behind that a position could be
\* mistaken for one a buffer earlier; the slots of the counters are the DMA's.
PublishedTracksDma ==
  ~tally.raced =>
    /\ tally.published <= tally.stored
    /\ Running => /\ tally.stored - tally.published < Capacity
                  /\ Slot(stream.produced) = stream.old_position

\* Every published byte is pending, was parsed once, or is counted in RX_OVF.
\* Bytes an error makes the HAL give up before it published them are in neither
\* RX nor RX_OVF: the code never knows of them.
BytesAccounted ==
  /\ RxTypeOK
  /\ tally.published = (tally.fed - main.done) + stream.overflow_count
                       + Pending(stream)

\* A command never joins bytes that were not neighbours on the line.
FragmentsNeverCombined ==
  \A i \in 1 .. Len(command) - 1 : command[i + 1] = command[i] + 1

\* The console is never deaf unnoticed: when no restart is asked for or under
\* way, bytes are stored and all three events will report them, and errors are
\* seen.  An error may come at any point of a restart.
NeverDeaf ==
  main.pc \in {"loop", "parsing"} /\ ~recovery =>
    Running /\ uart.toIdle /\ uart.idleie /\ uart.eie

\* Every request for recovery is fulfilled: however often errors come, the
\* reception at last runs again, unless an error raced the start itself.
RecoveryEnds == recovery ~> (~recovery /\ Running) \/ tally.raced

\* Byte n follows an end of line, or is the first one stored by a reception
\* that was started again.
Begins(n) == Eol(n - 1) \/ n \in tally.starts

\* While main keeps up every line is parsed as the command it is: nothing is
\* lost, repeated, split or joined, across blocks, events and buffer wraps.
\* Only the first command of a reception started again after a UART error may
\* lack the beginning of its line, which was lost with the reception: nothing
\* collected before the error is ever put in front of it.
OnlyWholeLines ==
  command # <<>> /\ ~tally.late =>
    /\ FragmentsNeverCombined
    /\ Eol(command[Len(command)] + 1)
    /\ Begins(command[1])

\* Every byte stored is at last published and parsed (or counted as lost),
\* whatever event it waits for: main never stays behind a line that is quiet.
EveryByteParsed == Lag > 0 ~> Lag = 0 \/ tally.raced

=============================================================================
