------------------------------ MODULE Console ------------------------------
(***************************************************************************)
(* main.c's loop, one level above the bytes: command lines come in, each   *)
(* produces one response, and responses and button messages share the TX   *)
(* queue.  A response that does not fit stays pending and main stops       *)
(* parsing.                                                                *)
(*                                                                         *)
(* RxPath and UartTx model the bytes: here an unread line is a record, and *)
(* of the TX queue only the counts of bytes are left.  A response is the   *)
(* number of its command; STATUS formats its into the one static       *)
(* buffer response_status, so a pending STATUS response is a reference.    *)
(***************************************************************************)
EXTENDS Naturals, Sequences

CONSTANTS
  TxSize,         \* UART_TX_BUFFER_SIZE
  ShortLengths,   \* lengths of the constant responses
  StatusLengths,  \* lengths snprintf may give the STATUS response
  ButtonLength,   \* length of the button message
  MaxLines,       \* bound on the command lines sent
  MaxPresses,     \* bound on confirmed button presses
  MaxErrors       \* bound on UART errors and on failed restarts

ASSUME ConsoleAssumption ==
  /\ {TxSize, ButtonLength, MaxLines, MaxPresses, MaxErrors} \subseteq Nat
  /\ ShortLengths \cup StatusLengths \subseteq Nat \ {0}
  /\ ButtonLength \in 1 .. TxSize

VARIABLES
  lines,                   \* complete command lines in the RX buffer
  block,                   \* how many of them this iteration still parses, or
                           \* NotParsing
  pending_response,        \* what pending_response points at, or NoResponse
  response_status,         \* the command the static buffer was formatted for
  tx,                      \* uart_tx: bytes in the queue, index of the oldest,
                           \* active_length
  pending_button_messages,
  recovery,                \* uart_rx_recovery_requested
  tally,                   \* history: lines sent, lines given up, presses, errors
  sent                     \* the commands whose responses entered the TX queue

vars == <<lines, block, pending_response, response_status, tx,
          pending_button_messages, recovery, tally, sent>>

NotParsing == 0
Buffer     == 0   \* the referent of a pending STATUS response
NoResponse == [points_to |-> Buffer, length |-> 0]
Kinds      == {"SHORT", "STATUS"}

TypeOK ==
  /\ lines \in Seq([number : 1 .. MaxLines, kind : Kinds])
  /\ block \in 0 .. MaxLines
  /\ pending_response \in
       {NoResponse} \cup
       [points_to : {Buffer}, length : StatusLengths] \cup
       [points_to : 1 .. MaxLines, length : ShortLengths]
  /\ response_status \in 0 .. MaxLines
  /\ tx \in [used : 0 .. TxSize, tail : 0 .. TxSize - 1, active : 0 .. TxSize]
  /\ pending_button_messages \in 0 .. MaxPresses
  /\ recovery \in BOOLEAN
  /\ tally \in [lines : 0 .. MaxLines, lost : Nat, presses : 0 .. MaxPresses,
                errors : 0 .. MaxErrors, failures : 0 .. MaxErrors]
  /\ sent \in Seq(0 .. MaxLines)

Init ==
  /\ lines = <<>> /\ block = NotParsing
  /\ pending_response = NoResponse /\ response_status = 0
  /\ tx = [used |-> 0, tail |-> 0, active |-> 0]
  /\ pending_button_messages = 0 /\ recovery = FALSE
  /\ tally = [lines |-> 0, lost |-> 0, presses |-> 0, errors |-> 0, failures |-> 0]
  /\ sent = <<>>

-----------------------------------------------------------------------------
LineArrives(kind) ==
  /\ tally.lines < MaxLines
  /\ lines' = Append(lines, [number |-> tally.lines + 1, kind |-> kind])
  /\ tally' = [tally EXCEPT !.lines = @ + 1]
  /\ UNCHANGED <<block, pending_response, response_status, tx,
                 pending_button_messages, recovery, sent>>

\* uart_tx_adapter_start_next: the oldest bytes, up to the end of the buffer.
StartNext(t) ==
  IF t.active > 0 THEN t
  ELSE [t EXCEPT !.active = IF t.used < TxSize - t.tail THEN t.used
                                                        ELSE TxSize - t.tail]

\* The transmit-complete interrupt releases its block and starts the next.
TxComplete ==
  /\ tx.active > 0
  /\ tx' = StartNext([used   |-> tx.used - tx.active,
                      tail   |-> (tx.tail + tx.active) % TxSize,
                      active |-> 0])
  /\ UNCHANGED <<lines, block, pending_response, response_status,
                 pending_button_messages, recovery, tally, sent>>

RxError ==
  /\ ~recovery /\ tally.errors < MaxErrors
  /\ recovery' = TRUE
  /\ tally' = [tally EXCEPT !.errors = @ + 1]
  /\ UNCHANGED <<lines, block, pending_response, response_status, tx,
                 pending_button_messages, sent>>

-----------------------------------------------------------------------------
(***************************************************************************)
(* The main loop.  An iteration recovers, or polls the button and then     *)
(* does one thing: the pending response, a button message, or parsing.     *)
(***************************************************************************)
AtTop == block = NotParsing

\* uart_rx_recovery_poll, which leaves the pending response alone.
Recover ==
  /\ AtTop /\ recovery
  /\ lines' = <<>>
  /\ \/ recovery' = FALSE
        /\ tally' = [tally EXCEPT !.lost = @ + Len(lines)]
     \/ /\ tally.failures < MaxErrors
        /\ UNCHANGED recovery
        /\ tally' = [tally EXCEPT !.lost = @ + Len(lines), !.failures = @ + 1]
  /\ UNCHANGED <<block, pending_response, response_status, tx,
                 pending_button_messages, sent>>

\* button_debounce_poll returned BUTTON_EVENT_PRESSED.
ButtonPressed ==
  /\ AtTop /\ ~recovery
  /\ tally.presses < MaxPresses
  /\ pending_button_messages' = pending_button_messages + 1
  /\ tally' = [tally EXCEPT !.presses = @ + 1]
  /\ UNCHANGED <<lines, block, pending_response, response_status, tx,
                 recovery, sent>>

\* Slip: a full queue taken for one with no room.
RoomToSpare(n) == tx.used + n < TxSize

\* uart_tx_adapter_write of n bytes, which returns false without room for all.
Room(n) == tx.used + n <= TxSize

Write(n) == Room(n) /\ tx' = StartNext([tx EXCEPT !.used = @ + n])

\* What the queue copies when response r is written and the static buffer
\* holds status.
Referent(r, status) == IF r.points_to = Buffer THEN status ELSE r.points_to

\* pending_response_try_enqueue
TryEnqueue(r, status) ==
  IF Room(r.length)
  THEN /\ pending_response' = NoResponse
       /\ Write(r.length)
       /\ sent' = Append(sent, Referent(r, status))
  ELSE pending_response' = r /\ UNCHANGED <<tx, sent>>

WritePending ==
  /\ AtTop /\ ~recovery
  /\ pending_response # NoResponse
  /\ TryEnqueue(pending_response, response_status)
  /\ UNCHANGED <<lines, block, response_status, pending_button_messages,
                 recovery, tally>>

WriteButton ==
  /\ AtTop /\ ~recovery
  /\ pending_response = NoResponse /\ pending_button_messages > 0
  /\ Write(ButtonLength)
  /\ pending_button_messages' = pending_button_messages - 1
  /\ UNCHANGED <<lines, block, pending_response, response_status, recovery,
                 tally, sent>>

\* peek returns a block with the ends of some of the lines.
Peek ==
  /\ AtTop /\ ~recovery
  /\ pending_response = NoResponse /\ pending_button_messages = 0
  /\ block' \in 1 .. Len(lines)
  /\ UNCHANGED <<lines, pending_response, response_status, tx,
                 pending_button_messages, recovery, tally, sent>>

\* Slip: the rest of the block parsed although the response is pending.
ProcessCommandOn ==
  /\ block # NotParsing
  /\ LET c == Head(lines)
         points_to == IF c.kind = "STATUS" THEN Buffer ELSE c.number
     IN /\ response_status' = IF c.kind = "STATUS" THEN c.number ELSE response_status
        /\ \E n \in IF c.kind = "STATUS" THEN StatusLengths ELSE ShortLengths :
             TryEnqueue([points_to |-> points_to, length |-> n], response_status')
  /\ lines' = Tail(lines)
  /\ block' = block - 1
  /\ UNCHANGED <<pending_button_messages, recovery, tally>>

\* command_process and the attempt to enqueue its response, for the next line
\* of the block; the rest of the block stays unread if it does not fit.
ProcessCommand ==
  /\ block # NotParsing
  /\ LET c == Head(lines)
         points_to == IF c.kind = "STATUS" THEN Buffer ELSE c.number
     IN /\ response_status' = IF c.kind = "STATUS" THEN c.number ELSE response_status
        /\ \E n \in IF c.kind = "STATUS" THEN StatusLengths ELSE ShortLengths :
             TryEnqueue([points_to |-> points_to, length |-> n], response_status')
  /\ lines' = Tail(lines)
  /\ block' = IF pending_response' = NoResponse THEN block - 1 ELSE NotParsing
  /\ UNCHANGED <<pending_button_messages, recovery, tally>>

Finished ==
  /\ tally.lines = MaxLines /\ tally.presses = MaxPresses
  /\ lines = <<>> /\ block = NotParsing /\ ~recovery
  /\ pending_response = NoResponse /\ pending_button_messages = 0 /\ tx.used = 0
  /\ UNCHANGED vars

Next ==
  \/ \E kind \in Kinds : LineArrives(kind)
  \/ TxComplete \/ RxError
  \/ Recover \/ ButtonPressed \/ WritePending \/ WriteButton \/ Peek \/ ProcessCommand
  \/ Finished

Spec == Init /\ [][Next]_vars

\* The loop turns, and what is in the TX queue is sent.
LiveSpec ==
  /\ Spec
  /\ WF_vars(Recover) /\ WF_vars(WritePending) /\ WF_vars(WriteButton)
  /\ WF_vars(Peek) /\ WF_vars(ProcessCommand) /\ WF_vars(TxComplete)

-----------------------------------------------------------------------------
\* Every command the loop took has one response, its own and in order: sent
\* or pending, however full the TX queue was and whatever the button and the
\* recovery did meanwhile.  The static STATUS buffer is never formatted again
\* while a response still points at it.
OneResponseEach ==
  /\ TypeOK
  /\ \A i, j \in 1 .. Len(sent) : i < j => sent[i] < sent[j]
  /\ tally.lines = Len(sent) + (IF pending_response = NoResponse THEN 0 ELSE 1)
                      + Len(lines) + tally.lost

\* A pending response is written at last and parsing resumes: back-pressure
\* delays the console and never stops it.
ParsingResumes ==
  pending_response # NoResponse \/ lines # <<>> ~>
    pending_response = NoResponse /\ lines = <<>>

\* Every confirmed press is reported, however many commands come in.
ButtonsReported == pending_button_messages > 0 ~> pending_button_messages = 0

=============================================================================
