------------------------------- MODULE UartTx -------------------------------
(***************************************************************************)
(* The transmit path: main writes blocks into the SPSC byte queue (the     *)
(* producer), uart_tx_adapter.c hands contiguous blocks to the TX DMA, the *)
(* DMA reads them out of the queue's own buffer, and the transmit-complete *)
(* interrupt (the consumer) releases each block and starts the next.       *)
(*                                                                         *)
(* An interrupt may come between any two steps of main except inside       *)
(* start_next, which masks interrupts.  The DMA reads at any time.  Byte n *)
(* is the n-th byte main was allowed to write; 0 is an unwritten slot.     *)
(***************************************************************************)
EXTENDS SpscQueue, Sequences

CONSTANTS
  MaxBytes,     \* bound on the bytes written in a behaviour
  MaxRefusals   \* how often HAL_UART_Transmit_DMA may fail

ASSUME UartTxAssumption == MaxBytes \in Nat /\ MaxRefusals \in Nat

VARIABLES
  queue,     \* the SpscByteQueue
  adapter,   \* the rest of the UartTxAdapter: active, active_length, error_count
  writer,    \* main's call of uart_tx_adapter_write
  dma,       \* the transfer HAL_UART_Transmit_DMA started
  accepted,  \* number of bytes of completed writes
  refused,   \* number of failed HAL_UART_Transmit_DMA calls
  wire       \* the bytes the DMA has read, in order

vars == <<queue, adapter, writer, dma, accepted, refused, wire>>

NoWrite    == [pc |-> "none", head |-> 0, length |-> 0, todo |-> {}]
NoTransfer == [busy |-> FALSE, index |-> 0, left |-> 0]

TypeOK ==
  /\ queue \in [buffer : [Slots -> 0 .. MaxBytes], head : Counters, tail : Counters]
  /\ adapter \in [active : BOOLEAN, active_length : 0 .. Capacity, error_count : Nat]
  /\ writer \in [pc : {"none", "copying", "starting"}, head : Counters,
                 length : 0 .. Capacity, todo : SUBSET (0 .. Capacity - 1)]
  /\ dma \in [busy : BOOLEAN, index : 0 .. Capacity, left : 0 .. Capacity]
  /\ accepted \in 0 .. MaxBytes
  /\ refused \in 0 .. MaxRefusals
  /\ wire \in Seq(0 .. MaxBytes)

Init ==
  /\ queue = EmptyQueue
  /\ adapter = [active |-> FALSE, active_length |-> 0, error_count |-> 0]
  /\ writer = NoWrite
  /\ dma = NoTransfer
  /\ accepted = 0 /\ refused = 0 /\ wire = <<>>

-----------------------------------------------------------------------------
\* HAL_UART_Transmit_DMA: BUSY during a transfer, and it may fail.
TransmitDmaOk(d, q, n) ==
  /\ ~d.busy
  /\ dma' = [busy |-> TRUE, index |-> Slot(q.tail), left |-> n]
  /\ UNCHANGED refused

TransmitDmaFails(d) ==
  /\ refused < MaxRefusals
  /\ dma' = d
  /\ refused' = refused + 1

\* Slip: the length of the block not remembered.
StartNextUnmeasured(q, a, d) ==
  IF a.active \/ Contiguous(q) = 0
  THEN adapter' = a /\ dma' = d /\ UNCHANGED refused
  ELSE \/ /\ TransmitDmaOk(d, q, Contiguous(q))
          /\ adapter' = [a EXCEPT !.active = TRUE]
       \/ /\ TransmitDmaFails(d)
          /\ adapter' = [a EXCEPT !.error_count = @ + 1]

\* uart_tx_adapter_start_next, for queue q, adapter a and HAL state d: main
\* calls it with the current ones, the interrupt with those it just made.  A
\* refused block stays in the queue for a later poll.
StartNext(q, a, d) ==
  IF a.active \/ Contiguous(q) = 0
  THEN adapter' = a /\ dma' = d /\ UNCHANGED refused
  ELSE \/ /\ TransmitDmaOk(d, q, Contiguous(q))
          /\ adapter' = [a EXCEPT !.active = TRUE,
                                  !.active_length = Contiguous(q)]
       \/ /\ TransmitDmaFails(d)
          /\ adapter' = [a EXCEPT !.active_length = 0,
                                  !.error_count = @ + 1]

\* main calls poll between two writes.
Poll ==
  /\ writer.pc = "none"
  /\ StartNext(queue, adapter, dma)
  /\ UNCHANGED <<queue, writer, accepted, wire>>

\* spsc_byte_queue_write finds room by a snapshot of both counters.  A write
\* that does not fit returns false and changes nothing.
WriteBegin(n) ==
  /\ writer.pc = "none"
  /\ accepted + n <= MaxBytes
  /\ Fits(queue, n)
  /\ writer' = [pc |-> "copying", head |-> queue.head, length |-> n,
                todo |-> 0 .. n - 1]
  /\ UNCHANGED <<queue, adapter, dma, accepted, refused, wire>>

\* memcpy stores the bytes in no particular order.
CopyByte(i) ==
  /\ writer.pc = "copying" /\ i \in writer.todo
  /\ queue' = [queue EXCEPT !.buffer[Slot(writer.head + i)] = accepted + i + 1]
  /\ writer' = [writer EXCEPT !.todo = @ \ {i}]
  /\ UNCHANGED <<adapter, dma, accepted, refused, wire>>

\* Slip: the head published before the copy.
PublishEarly ==
  /\ writer.pc = "copying" /\ queue.head = writer.head
  /\ queue' = [queue EXCEPT !.head = Advance(writer.head, writer.length)]
  /\ accepted' = accepted + writer.length
  /\ writer' = [NoWrite EXCEPT !.pc = "starting"]
  /\ UNCHANGED <<adapter, dma, refused, wire>>

\* One store of head publishes the whole block.
Publish ==
  /\ writer.pc = "copying" /\ writer.todo = {}
  /\ queue' = [queue EXCEPT !.head = Advance(writer.head, writer.length)]
  /\ accepted' = accepted + writer.length
  /\ writer' = [NoWrite EXCEPT !.pc = "starting"]
  /\ UNCHANGED <<adapter, dma, refused, wire>>

WriteEnd ==
  /\ writer.pc = "starting"
  /\ StartNext(queue, adapter, dma)
  /\ writer' = NoWrite
  /\ UNCHANGED <<queue, accepted, wire>>

-----------------------------------------------------------------------------
\* The DMA reads the next byte of its block and the UART sends it.
DmaByte ==
  /\ dma.busy /\ dma.left > 0
  /\ wire' = Append(wire, queue.buffer[dma.index])
  /\ dma' = [dma EXCEPT !.index = @ + 1, !.left = @ - 1]
  /\ UNCHANGED <<queue, adapter, writer, accepted, refused>>

\* Slip: everything published released, not just the block.
TxCompleteReleasesAll ==
  /\ dma.busy /\ dma.left = 0
  /\ queue' = [queue EXCEPT !.tail = queue.head]
  /\ StartNext(queue', [adapter EXCEPT !.active = FALSE, !.active_length = 0],
               NoTransfer)
  /\ UNCHANGED <<writer, accepted, wire>>

\* Slip: the next block not started.
TxCompleteThenPoll ==
  /\ dma.busy /\ dma.left = 0
  /\ queue' = [queue EXCEPT !.tail = Advance(@, adapter.active_length)]
  /\ adapter' = [adapter EXCEPT !.active_length = 0]
  /\ dma' = NoTransfer
  /\ UNCHANGED <<writer, accepted, refused, wire>>

\* uart_tx_adapter_handle_tx_complete, from the interrupt the HAL raises when
\* the last byte has left and the UART is ready again.
TxComplete ==
  /\ dma.busy /\ dma.left = 0
  /\ IF ~adapter.active \/ adapter.active_length = 0
     THEN /\ adapter' = [adapter EXCEPT !.error_count = @ + 1]
          /\ dma' = NoTransfer
          /\ UNCHANGED <<queue, refused>>
     ELSE IF adapter.active_length > Used(queue) \/ Used(queue) > Capacity
     THEN /\ adapter' = [active |-> FALSE, active_length |-> 0,
                         error_count |-> adapter.error_count + 1]
          /\ dma' = NoTransfer
          /\ UNCHANGED <<queue, refused>>
     ELSE /\ queue' = [queue EXCEPT !.tail = Advance(@, adapter.active_length)]
          /\ StartNext(queue', [adapter EXCEPT !.active = FALSE,
                                               !.active_length = 0], NoTransfer)
  /\ UNCHANGED <<writer, accepted, wire>>

Next ==
  \/ Poll
  \/ \E n \in 1 .. Capacity : WriteBegin(n)
  \/ \E i \in 0 .. Capacity - 1 : CopyByte(i)
  \/ Publish
  \/ WriteEnd
  \/ DmaByte
  \/ TxComplete

Spec == Init /\ [][Next]_vars

\* main's loop polls and finishes its writes, the hardware sends and reports.
LiveSpec ==
  /\ Spec
  /\ WF_vars(Poll) /\ WF_vars(Publish) /\ WF_vars(WriteEnd)
  /\ \A i \in 0 .. Capacity - 1 : WF_vars(CopyByte(i))
  /\ WF_vars(DmaByte) /\ WF_vars(TxComplete)

-----------------------------------------------------------------------------
\* The adapter is active exactly while the hardware is, so the queue is never
\* left waiting for a completion that will not come; and every error it counts
\* is a start the HAL refused: a completion always finds its block active and
\* still in the queue, in whatever order main and the interrupt start and
\* finish blocks.
AdapterInv ==
  /\ TypeOK
  /\ adapter.active <=> dma.busy
  /\ adapter.active => adapter.active_length > 0
  /\ adapter.error_count = refused

\* Zero copy: main never stores into a byte the DMA still has to read.
BlockUntouched ==
  [][ \A i \in Slots :
        dma.busy /\ dma.index <= i /\ i < dma.index + dma.left
        => queue'.buffer[i] = queue.buffer[i] ]_vars

\* How much of its block the DMA has read, and how many bytes of all those
\* sent the queue has let go.
BlockRead == IF dma.busy THEN adapter.active_length - dma.left ELSE 0
Released  == Len(wire) - BlockRead

\* The refinement mapping: the bytes published and not yet read by the DMA, as
\* they lie in the buffer.
Unread ==
  [i \in 1 .. Used(queue) - BlockRead |->
     queue.buffer[Slot(queue.tail + BlockRead + i - 1)]]

Fifo == INSTANCE BoundedFifo WITH contents <- Unread, sent <- Len(wire)

\* The transmit path is a bounded FIFO: a byte leaves the buffer only when it is
\* the oldest, a block is published whole, wrap of buffer and counters included.
ImplementsFifo == Fifo!Spec

\* What the DMA sends is what was written, in order: it reads the same bytes
\* the queue's counters say it does, and only after they were stored.
WireInOrder == \A i \in 1 .. Len(wire) : wire[i] = i

\* The counters of the queue are the numbers of bytes accepted and released,
\* modulo their width.
CountersTrue ==
  /\ 0 <= Released /\ Released <= accepted /\ accepted - Released <= Capacity
  /\ queue.head = Counter(accepted) /\ queue.tail = Counter(Released)

\* The DMA is inside a block of published bytes that does not wrap.
BlockIsQueued ==
  dma.busy =>
    /\ dma.left <= adapter.active_length
    /\ adapter.active_length <= accepted - Released
    /\ Slot(queue.tail) + adapter.active_length <= Capacity
    /\ dma.index = Slot(queue.tail) + BlockRead

\* Every byte accepted and not released is in its slot.
PublishedStored ==
  \A n \in Released .. accepted - 1 : queue.buffer[n % Capacity] = n + 1

\* What a write fills is free, and what it has filled is in its slot.
WriteHasRoom ==
  writer.pc = "copying" =>
    /\ writer.head = queue.head
    /\ accepted + writer.length <= MaxBytes
    /\ accepted + writer.length - Released <= Capacity
    /\ writer.todo \subseteq 0 .. writer.length - 1
    /\ \A i \in (0 .. writer.length - 1) \ writer.todo :
         queue.buffer[(accepted + i) % Capacity] = accepted + i + 1

TxInv ==
  /\ AdapterInv /\ CountersTrue /\ BlockIsQueued /\ PublishedStored
  /\ WriteHasRoom /\ WireInOrder

\* Whatever write accepted is sent, even when the HAL refuses to start blocks.
EverythingSent == \A n \in 1 .. MaxBytes : accepted >= n ~> Len(wire) >= n

=============================================================================
