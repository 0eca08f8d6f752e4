--------------------------- MODULE ConsoleProofs ---------------------------
(***************************************************************************)
(* The main loop, for every TX queue, every length of the responses and    *)
(* every number of lines, presses and errors: each command taken has one   *)
(* response, its own and in order.                                         *)
(*                                                                         *)
(* The lines not read yet have consecutive numbers up to the last one that *)
(* arrived, so a response is older than every one of them.  A pending      *)
(* response is the newest of all: nothing is parsed, and response_status   *)
(* not formatted again, until it is in the queue.                          *)
(***************************************************************************)
EXTENDS Console, SequenceTheorems, TLAPS

\* The number of the line the loop took last, or the number of lines there
\* were when it gave up the unread ones.
Taken == tally.lines - Len(lines)

LinesInOrder ==
  /\ Len(lines) <= tally.lines
  /\ \A i \in 1 .. Len(lines) : lines[i].number = Taken + i

\* The loop parses only lines that are there, and none while a response waits.
BlockThere ==
  /\ block <= Len(lines)
  /\ block # NotParsing => pending_response = NoResponse

\* What is sent is older than what waits, which is older than what is unread.
SentInOrder ==
  /\ \A i, j \in 1 .. Len(sent) : i < j => sent[i] < sent[j]
  /\ \A i \in 1 .. Len(sent) : sent[i] <= Taken
  /\ pending_response # NoResponse =>
       /\ Referent(pending_response, response_status) \in 1 .. Taken
       /\ \A i \in 1 .. Len(sent) :
            sent[i] < Referent(pending_response, response_status)

Waiting == IF pending_response = NoResponse THEN 0 ELSE 1

ConsoleInv ==
  /\ TypeOK
  /\ tx.active <= tx.used /\ pending_button_messages <= tally.presses
  /\ LinesInOrder /\ BlockThere /\ SentInOrder
  /\ tally.lines = Len(sent) + Waiting + Len(lines) + tally.lost

-----------------------------------------------------------------------------
Responses ==
  [points_to : {Buffer}, length : StatusLengths] \cup
  [points_to : 1 .. MaxLines, length : ShortLengths]

Queues == [used : 0 .. TxSize, tail : 0 .. TxSize - 1, active : 0 .. TxSize]

LEMMA Sizes ==
  /\ TxSize \in Nat \ {0} /\ MaxLines \in Nat /\ MaxPresses \in Nat
  /\ MaxErrors \in Nat /\ ButtonLength \in 1 .. TxSize
  /\ ShortLengths \subseteq Nat \ {0} /\ StatusLengths \subseteq Nat \ {0}
  BY ConsoleAssumption

\* A response always has a length, unlike none.
LEMMA ResponsesDiffer ==
  ASSUME NEW r \in Responses
  PROVE  r # NoResponse /\ r.length \in Nat \ {0}
<1>1. r.length \in StatusLengths \cup ShortLengths
  BY DEF Responses
<1>2. r.length \in Nat \ {0}
  BY <1>1, Sizes
<1>3. NoResponse.length = 0
  BY DEF NoResponse
<1> QED BY <1>2, <1>3

\* start_next takes no more than the queue holds.
LEMMA StartNextTyped ==
  ASSUME NEW t \in Queues, t.active <= t.used
  PROVE  /\ StartNext(t) \in Queues
         /\ StartNext(t).active <= StartNext(t).used
<1>1. CASE t.active > 0
  BY <1>1 DEF StartNext
<1>2. CASE ~(t.active > 0)
  <2> DEFINE n == IF t.used < TxSize - t.tail THEN t.used ELSE TxSize - t.tail
  <2>1. /\ t.used \in 0 .. TxSize /\ t.tail \in 0 .. TxSize - 1
    BY DEF Queues
  <2>2. n \in 0 .. TxSize /\ n <= t.used
    BY <2>1, Sizes
  <2>3. StartNext(t) = [t EXCEPT !.active = n]
    BY <1>2 DEF StartNext
  <2> HIDE DEF n
  <2> QED BY <2>2, <2>3 DEF Queues
<1> QED BY <1>1, <1>2

LEMMA WriteEffect ==
  ASSUME tx \in Queues, tx.active <= tx.used, NEW n \in Nat, Write(n)
  PROVE  tx' \in Queues /\ tx'.active <= tx'.used
<1> DEFINE t == [tx EXCEPT !.used = tx.used + n]
<1>1. tx.used \in 0 .. TxSize /\ tx.active \in 0 .. TxSize
  BY DEF Queues
<1>2. tx.used + n \in 0 .. TxSize /\ tx.active <= tx.used + n
  BY <1>1, Sizes DEF Write, Room
<1>3. t \in Queues /\ t.active <= t.used
  BY <1>2 DEF Queues
<1>4. tx' = StartNext(t)
  BY DEF Write
<1> QED BY <1>3, <1>4, StartNextTyped

\* A response is in the queue or it waits.
LEMMA EnqueueEffect ==
  ASSUME tx \in Queues, tx.active <= tx.used, NEW r \in Responses, NEW status,
         TryEnqueue(r, status)
  PROVE  /\ tx' \in Queues /\ tx'.active <= tx'.used
         /\ \/ pending_response' = NoResponse /\ sent' = Append(sent, Referent(r, status))
            \/ pending_response' = r /\ sent' = sent
<1>1. r.length \in Nat
  BY ResponsesDiffer
<1>2. CASE Room(r.length)
  <2>1. Write(r.length)
    BY <1>2 DEF TryEnqueue
  <2>2. tx' \in Queues /\ tx'.active <= tx'.used
    BY <1>1, <2>1, WriteEffect
  <2> QED BY <1>2, <2>2 DEF TryEnqueue
<1>3. CASE ~Room(r.length)
  BY <1>3 DEF TryEnqueue
<1> QED BY <1>2, <1>3

-----------------------------------------------------------------------------
LEMMA ConsoleInit ==
  ASSUME Init PROVE ConsoleInv
<1>1. TypeOK
  <2>1. /\ 0 \in 0 .. TxSize /\ 0 \in 0 .. TxSize - 1 /\ 0 \in 0 .. MaxLines
        /\ 0 \in 0 .. MaxPresses /\ 0 \in 0 .. MaxErrors
    BY Sizes
  <2>2. /\ lines \in Seq([number : 1 .. MaxLines, kind : Kinds])
        /\ sent \in Seq(0 .. MaxLines)
    BY DEF Init
  <2> QED BY <2>1, <2>2 DEF Init, TypeOK, NotParsing
<1>2. /\ lines = <<>> /\ sent = <<>> /\ Len(<<>>) = 0
      /\ tally.lines = 0 /\ tally.lost = 0
      /\ pending_response = NoResponse /\ block = NotParsing
      /\ tx.active = 0 /\ tx.used = 0
      /\ pending_button_messages = 0 /\ tally.presses = 0
  BY DEF Init
<1>3. Taken = 0
  <2>1. Len(lines) = 0
    BY <1>2
  <2>2. Taken = 0 - 0
    BY <1>2, <2>1 DEF Taken
  <2> QED BY <2>2
<1>4. LinesInOrder /\ BlockThere /\ SentInOrder
  BY <1>2, <1>3 DEF LinesInOrder, BlockThere, SentInOrder, NotParsing
<1> QED BY <1>1, <1>2, <1>4 DEF ConsoleInv, Waiting

\* The types of what is counted.
Sorted ==
  /\ lines \in Seq([number : 1 .. MaxLines, kind : Kinds]) /\ Len(lines) \in Nat
  /\ tally.lines \in Nat /\ tally.lines <= MaxLines /\ tally.lost \in Nat
  /\ tx \in Queues /\ tx.active <= tx.used /\ tx.active \in Nat /\ tx.used \in Nat
  /\ tally.errors \in Nat /\ tally.presses \in Nat
  /\ pending_button_messages \in Nat /\ Waiting \in Nat
  /\ sent \in Seq(0 .. MaxLines) /\ Len(sent) \in Nat
  /\ block \in Nat
  /\ pending_response = NoResponse \/ pending_response \in Responses
  /\ response_status \in 0 .. MaxLines
  /\ Taken \in Nat /\ Taken = tally.lines - Len(lines)
  /\ \A i \in 1 .. Len(sent) : sent[i] \in Nat

LEMMA ConsoleSorted ==
  ASSUME ConsoleInv PROVE Sorted
<1>1. /\ lines \in Seq([number : 1 .. MaxLines, kind : Kinds])
      /\ tally.lines \in 0 .. MaxLines /\ tally.lost \in Nat
      /\ tx \in Queues /\ tx.active <= tx.used
      /\ sent \in Seq(0 .. MaxLines)
      /\ block \in Nat /\ response_status \in 0 .. MaxLines
      /\ pending_response = NoResponse \/ pending_response \in Responses
  BY Sizes DEF ConsoleInv, TypeOK, Queues, Responses
<1>2. Len(lines) \in Nat /\ Len(sent) \in Nat /\ Len(lines) <= tally.lines
  BY <1>1 DEF ConsoleInv, LinesInOrder
<1>3. tally.lines \in Nat /\ tally.lines <= MaxLines
  BY <1>1, Sizes
<1>4. Taken \in Nat /\ Taken = tally.lines - Len(lines)
  BY <1>2, <1>3 DEF Taken
<1>5. \A i \in 1 .. Len(sent) : sent[i] \in Nat
  BY <1>1, Sizes
<1>6. tally.errors \in Nat /\ tally.presses \in Nat /\ pending_button_messages \in Nat
  BY Sizes DEF ConsoleInv, TypeOK
<1>7. tx.active \in Nat /\ tx.used \in Nat
  BY <1>1, Sizes DEF Queues
<1>8. Waiting \in Nat
  BY DEF Waiting
<1> QED BY <1>1, <1>2, <1>3, <1>4, <1>5, <1>6, <1>7, <1>8 DEF Sorted

\* A step that leaves the lines, the responses and their counts alone.
LEMMA OrderKept ==
  ASSUME ConsoleInv, TypeOK', tx'.active <= tx'.used,
         UNCHANGED <<lines, block, pending_response, response_status, sent>>,
         tally'.lines = tally.lines, tally'.lost = tally.lost,
         pending_button_messages' <= tally'.presses
  PROVE  ConsoleInv'
<1>1. Taken' = Taken /\ Waiting' = Waiting
  BY DEF Taken, Waiting
<1>2. LinesInOrder'
  BY <1>1 DEF ConsoleInv, LinesInOrder
<1>3. BlockThere'
  BY DEF ConsoleInv, BlockThere
<1>4. SentInOrder'
  BY <1>1 DEF ConsoleInv, SentInOrder
<1> QED BY <1>1, <1>2, <1>3, <1>4 DEF ConsoleInv

\* A line arrives.
LEMMA LineArrivesStep ==
  ASSUME ConsoleInv, NEW kind \in Kinds, LineArrives(kind) PROVE ConsoleInv'
<1>0. Sorted
  BY ConsoleSorted
<1> DEFINE c == [number |-> tally.lines + 1, kind |-> kind]
<1>1. /\ tally.lines < MaxLines
      /\ lines' = Append(lines, c)
      /\ tally' = [tally EXCEPT !.lines = tally.lines + 1]
      /\ UNCHANGED <<block, pending_response, response_status, tx,
                     pending_button_messages, recovery, sent>>
  BY DEF LineArrives
<1>2. tally.lines + 1 \in 1 .. MaxLines /\ tally.lines + 1 \in 0 .. MaxLines
  <2>1. tally.lines \in Nat
    BY <1>0 DEF Sorted
  <2> QED BY <1>1, <2>1, Sizes
<1>3. c \in [number : 1 .. MaxLines, kind : Kinds] /\ c.number = tally.lines + 1
  BY <1>2
<1> HIDE DEF c
<1>4. /\ lines' \in Seq([number : 1 .. MaxLines, kind : Kinds])
      /\ Len(lines') = Len(lines) + 1 /\ lines'[Len(lines) + 1] = c
      /\ \A i \in 1 .. Len(lines) : lines'[i] = lines[i]
  BY <1>0, <1>1, <1>3 DEF Sorted
<1>5. /\ tally'.lines = tally.lines + 1 /\ tally'.lost = tally.lost
      /\ tally'.presses = tally.presses
  BY <1>1 DEF ConsoleInv, TypeOK
<1>6. TypeOK'
  BY <1>1, <1>2, <1>4 DEF ConsoleInv, TypeOK
<1>7. Taken' = Taken /\ Waiting' = Waiting
  <2>1. Taken' = (tally.lines + 1) - (Len(lines) + 1)
    BY <1>4, <1>5 DEF Taken
  <2>2. Taken' = Taken
    BY <1>0, <2>1 DEF Sorted
  <2> QED BY <1>1, <2>2 DEF Waiting
<1>8. LinesInOrder'
  <2>1. Len(lines') <= tally'.lines
    BY <1>0, <1>4, <1>5 DEF Sorted, ConsoleInv, LinesInOrder
  <2>2. \A i \in 1 .. Len(lines') : lines'[i].number = Taken + i
    <3> TAKE i \in 1 .. Len(lines')
    <3>1. CASE i \in 1 .. Len(lines)
      BY <1>4, <3>1 DEF ConsoleInv, LinesInOrder
    <3>2. CASE i = Len(lines) + 1
      BY <1>0, <1>3, <1>4, <3>2 DEF Sorted
    <3> QED BY <1>0, <1>4, <3>1, <3>2 DEF Sorted
  <2> QED BY <1>7, <2>1, <2>2 DEF LinesInOrder
<1>9. BlockThere'
  BY <1>0, <1>1, <1>4 DEF ConsoleInv, BlockThere, Sorted
<1>10. SentInOrder'
  BY <1>1, <1>7 DEF ConsoleInv, SentInOrder
<1>11. (tally.lines = Len(sent) + Waiting + Len(lines) + tally.lost)'
  <2>1. tally.lines + 1 = Len(sent) + Waiting + (Len(lines) + 1) + tally.lost
    <3>1. tally.lines = Len(sent) + Waiting + Len(lines) + tally.lost
      BY DEF ConsoleInv
    <3>2. /\ Len(sent) \in Nat /\ Waiting \in Nat /\ Len(lines) \in Nat
          /\ tally.lost \in Nat
      BY <1>0 DEF Sorted
    <3> QED BY <3>1, <3>2
  <2> QED BY <1>1, <1>4, <1>5, <1>7, <2>1
<1>12. (tx.active <= tx.used /\ pending_button_messages <= tally.presses)'
  BY <1>1, <1>5 DEF ConsoleInv
<1> QED BY <1>6, <1>8, <1>9, <1>10, <1>11, <1>12 DEF ConsoleInv

\* The interrupt releases a block and starts the next.
LEMMA TxCompleteStep ==
  ASSUME ConsoleInv, TxComplete PROVE ConsoleInv'
<1>0. Sorted
  BY ConsoleSorted
<1> DEFINE t == [used   |-> tx.used - tx.active,
                 tail   |-> (tx.tail + tx.active) % TxSize,
                 active |-> 0]
<1>1. /\ tx' = StartNext(t)
      /\ UNCHANGED <<lines, block, pending_response, response_status,
                     pending_button_messages, recovery, tally, sent>>
  BY DEF TxComplete
<1>2. t \in Queues /\ t.active <= t.used
  <2>1. /\ tx.used \in 0 .. TxSize /\ tx.active \in 0 .. TxSize
        /\ tx.tail \in 0 .. TxSize - 1 /\ tx.active <= tx.used
    BY <1>0 DEF Sorted, Queues
  <2>2. tx.used - tx.active \in 0 .. TxSize /\ 0 <= tx.used - tx.active /\ 0 \in 0 .. TxSize
    BY <2>1, Sizes
  <2>3. (tx.tail + tx.active) % TxSize \in 0 .. TxSize - 1
    <3>1. tx.tail + tx.active \in Nat
      BY <2>1, Sizes
    <3> QED BY <3>1, Sizes
  <2> QED BY <2>2, <2>3 DEF Queues
<1> HIDE DEF t
<1>3. tx' \in Queues /\ tx'.active <= tx'.used
  BY <1>1, <1>2, StartNextTyped
<1>4. TypeOK'
  BY <1>1, <1>3 DEF ConsoleInv, TypeOK, Queues
<1>5. (pending_button_messages <= tally.presses)'
  BY <1>1 DEF ConsoleInv
<1> QED BY <1>1, <1>3, <1>4, <1>5, OrderKept

\* Errors, presses and button messages leave the lines and responses alone.
LEMMA OtherSteps ==
  ASSUME ConsoleInv, RxError \/ ButtonPressed \/ WriteButton PROVE ConsoleInv'
<1>0. Sorted
  BY ConsoleSorted
<1>1. CASE RxError
  <2>1. tally.errors + 1 \in 0 .. MaxErrors
    <3>1. tally.errors \in Nat /\ tally.errors < MaxErrors
      BY <1>0, <1>1 DEF Sorted, RxError
    <3> QED BY <3>1, Sizes
  <2>2. /\ TypeOK' /\ tally'.lines = tally.lines /\ tally'.lost = tally.lost
        /\ tally'.presses = tally.presses
    BY <1>1, <2>1 DEF RxError, ConsoleInv, TypeOK
  <2>3. UNCHANGED <<lines, block, pending_response, response_status, sent, tx,
                    pending_button_messages>>
    BY <1>1 DEF RxError
  <2>4. (pending_button_messages <= tally.presses)'
    BY <2>2, <2>3 DEF ConsoleInv
  <2> QED BY <2>4, <1>0, <2>2, <2>3, OrderKept DEF Sorted
<1>2. CASE ButtonPressed
  <2>1. tally.presses + 1 \in 0 .. MaxPresses
    <3>1. tally.presses \in Nat /\ tally.presses < MaxPresses
      BY <1>0, <1>2 DEF Sorted, ButtonPressed
    <3> QED BY <3>1, Sizes
  <2>2. /\ pending_button_messages + 1 \in 0 .. MaxPresses
        /\ pending_button_messages + 1 <= tally.presses + 1
    <3>1. /\ tally.presses \in Nat /\ pending_button_messages \in Nat
          /\ pending_button_messages <= tally.presses /\ tally.presses < MaxPresses
      BY <1>0, <1>2 DEF Sorted, ButtonPressed, ConsoleInv
    <3> QED BY <3>1, Sizes
  <2>4. /\ TypeOK' /\ tally'.lines = tally.lines /\ tally'.lost = tally.lost
        /\ tally'.presses = tally.presses + 1
        /\ pending_button_messages' = pending_button_messages + 1
    BY <1>2, <2>1, <2>2 DEF ButtonPressed, ConsoleInv, TypeOK
  <2>3. UNCHANGED <<lines, block, pending_response, response_status, sent, tx>>
    BY <1>2 DEF ButtonPressed
  <2> QED BY <1>0, <2>2, <2>3, <2>4, OrderKept DEF Sorted
<1>3. CASE WriteButton
  <2>1. ButtonLength \in Nat /\ Write(ButtonLength)
    BY <1>3, Sizes DEF WriteButton
  <2>2. tx' \in Queues /\ tx'.active <= tx'.used
    BY <1>0, <2>1, WriteEffect DEF Sorted
  <2>3. /\ pending_button_messages - 1 \in 0 .. MaxPresses
        /\ pending_button_messages - 1 <= tally.presses
    <3>1. /\ pending_button_messages \in Nat /\ pending_button_messages > 0
          /\ tally.presses \in Nat /\ pending_button_messages <= tally.presses
      BY <1>0, <1>3 DEF Sorted, WriteButton, ConsoleInv
    <3>2. tally.presses <= MaxPresses
      BY Sizes DEF ConsoleInv, TypeOK
    <3> QED BY <3>1, <3>2, Sizes
  <2>4. TypeOK'
    BY <1>3, <2>2, <2>3 DEF WriteButton, ConsoleInv, TypeOK, Queues
  <2>5. UNCHANGED <<lines, block, pending_response, response_status, sent, tally>>
    BY <1>3 DEF WriteButton
  <2>6. (pending_button_messages <= tally.presses)'
    BY <1>3, <2>3, <2>5 DEF WriteButton
  <2> QED BY <2>2, <2>4, <2>5, <2>6, OrderKept
<1> QED BY <1>1, <1>2, <1>3

\* A response that is newer than all that are sent, in the queue or waiting.
LEMMA ResponseTaken ==
  ASSUME Sorted, NEW r \in Responses, TryEnqueue(r, response_status'),
         Taken' \in Nat, Taken' <= MaxLines,
         Referent(r, response_status') \in 1 .. Taken',
         \A i, j \in 1 .. Len(sent) : i < j => sent[i] < sent[j],
         \A i \in 1 .. Len(sent) : sent[i] < Referent(r, response_status')
  PROVE  /\ SentInOrder'
         /\ (Len(sent) + Waiting)' = Len(sent) + 1
         /\ pending_response' \in {NoResponse} \cup Responses
         /\ sent' \in Seq(0 .. MaxLines)
         /\ tx' \in Queues /\ tx'.active <= tx'.used
<1> DEFINE v == Referent(r, response_status')
           top == Taken'
<1>1. /\ tx' \in Queues /\ tx'.active <= tx'.used
      /\ \/ pending_response' = NoResponse /\ sent' = Append(sent, v)
         \/ pending_response' = r /\ sent' = sent
  BY EnqueueEffect DEF Sorted
<1>2. /\ top \in Nat /\ top <= MaxLines /\ v \in 1 .. top
      /\ sent \in Seq(0 .. MaxLines) /\ Len(sent) \in Nat
      /\ \A i \in 1 .. Len(sent) : sent[i] \in Nat /\ sent[i] < v
  BY DEF Sorted
<1>3. v \in Nat /\ v <= top
  <2> HIDE DEF v, top
  <2> QED BY <1>2
<1>4. \A i \in 1 .. Len(sent) : sent[i] <= top
  <2> HIDE DEF v, top
  <2> QED BY <1>2, <1>3
<1>5. v \in 0 .. MaxLines
  <2> HIDE DEF v, top
  <2> QED BY <1>2, <1>3, Sizes
<1>6. CASE pending_response' = NoResponse /\ sent' = Append(sent, v)
  <2>1. /\ sent' \in Seq(0 .. MaxLines) /\ Len(sent') = Len(sent) + 1
        /\ sent'[Len(sent) + 1] = v /\ \A i \in 1 .. Len(sent) : sent'[i] = sent[i]
    <3> HIDE DEF v, top
    <3> QED BY <1>2, <1>5, <1>6
  <2>2. \A i, j \in 1 .. Len(sent') : i < j => sent'[i] < sent'[j]
    <3> HIDE DEF v, top
    <3> TAKE i, j \in 1 .. Len(sent')
    <3> HAVE i < j
    <3>1. i \in 1 .. Len(sent) /\ (j \in 1 .. Len(sent) \/ j = Len(sent) + 1)
      <4>1. i \in 1 .. Len(sent) + 1 /\ j \in 1 .. Len(sent) + 1
        BY <2>1
      <4> QED BY <1>2, <4>1
    <3>2. CASE j \in 1 .. Len(sent)
      BY <2>1, <3>1, <3>2
    <3>3. CASE j = Len(sent) + 1
      BY <1>2, <2>1, <3>1, <3>3
    <3> QED BY <3>1, <3>2, <3>3
  <2>3. \A i \in 1 .. Len(sent') : sent'[i] <= top
    <3> HIDE DEF v, top
    <3> TAKE i \in 1 .. Len(sent')
    <3>1. i \in 1 .. Len(sent) \/ i = Len(sent) + 1
      BY <1>2, <2>1
    <3> QED BY <1>3, <1>4, <2>1, <3>1
  <2>4. SentInOrder'
    BY <1>6, <2>2, <2>3 DEF SentInOrder
  <2>5. Waiting' = 0
    BY <1>6 DEF Waiting
  <2>6. (Len(sent) + Waiting)' = Len(sent) + 1
    BY <1>2, <2>1, <2>5
  <2> QED BY <1>1, <1>6, <2>1, <2>4, <2>6
<1>7. CASE pending_response' = r /\ sent' = sent
  <2>1. r # NoResponse
    BY ResponsesDiffer
  <2>2. Waiting' = 1
    BY <1>7, <2>1 DEF Waiting
  <2>3. SentInOrder'
    BY <1>2, <1>4, <1>7 DEF SentInOrder
  <2>4. (Len(sent) + Waiting)' = Len(sent) + 1
    BY <1>7, <2>2
  <2> QED BY <1>1, <1>2, <1>7, <2>3, <2>4
<1> QED BY <1>1, <1>6, <1>7

\* The recovery gives up the unread lines.
LEMMA RecoverStep ==
  ASSUME ConsoleInv, Recover PROVE ConsoleInv'
<1>0. Sorted
  BY ConsoleSorted
<1>1. /\ block = NotParsing /\ lines' = <<>>
      /\ UNCHANGED <<block, pending_response, response_status, tx,
                     pending_button_messages, sent>>
  BY DEF Recover, AtTop
<1>2. /\ tally.lost + Len(lines) \in Nat
      /\ lines' \in Seq([number : 1 .. MaxLines, kind : Kinds])
  BY <1>0, <1>1 DEF Sorted
<1>3. /\ TypeOK' /\ tally'.lines = tally.lines /\ tally'.presses = tally.presses
      /\ tally'.lost = tally.lost + Len(lines)
  <2>1. CASE recovery' = FALSE /\ tally' = [tally EXCEPT !.lost = @ + Len(lines)]
    BY <1>1, <1>2, <2>1 DEF ConsoleInv, TypeOK
  <2>2. CASE /\ tally.failures < MaxErrors
             /\ UNCHANGED recovery
             /\ tally' = [tally EXCEPT !.lost = @ + Len(lines), !.failures = @ + 1]
    <3>1. tally.failures + 1 \in 0 .. MaxErrors
      <4>1. tally.failures \in Nat
        BY Sizes DEF ConsoleInv, TypeOK
      <4> QED BY <2>2, <4>1, Sizes
    <3> QED BY <1>1, <1>2, <2>2, <3>1 DEF ConsoleInv, TypeOK
  <2> QED BY <2>1, <2>2 DEF Recover
<1>4. Len(lines') = 0
  BY <1>1
<1>5. Taken' = tally.lines /\ Taken <= tally.lines
  <2>1. tally.lines \in Nat /\ Len(lines) \in Nat /\ Taken = tally.lines - Len(lines)
    BY <1>0 DEF Sorted
  <2>2. Taken' = tally.lines - 0
    BY <1>3, <1>4 DEF Taken
  <2> QED BY <2>1, <2>2
<1>6. LinesInOrder'
  <2>1. tally.lines \in Nat
    BY <1>0 DEF Sorted
  <2> QED BY <1>3, <1>4, <2>1 DEF LinesInOrder
<1>7. BlockThere'
  BY <1>1, <1>4 DEF BlockThere, NotParsing
<1>8. SentInOrder'
  <2>1. /\ Taken \in Nat /\ tally.lines \in Nat
        /\ \A i \in 1 .. Len(sent) : sent[i] \in Nat
    BY <1>0 DEF Sorted
  <2>2. \A i \in 1 .. Len(sent) : sent[i] <= tally.lines
    BY <1>5, <2>1 DEF ConsoleInv, SentInOrder
  <2>3. \A v \in 1 .. Taken : v \in 1 .. tally.lines
    BY <1>5, <2>1
  <2> QED BY <1>1, <1>5, <2>2, <2>3 DEF ConsoleInv, SentInOrder
<1>9. (tally.lines = Len(sent) + Waiting + Len(lines) + tally.lost)'
  <2>1. Waiting' = Waiting
    BY <1>1 DEF Waiting
  <2>2. tally.lines = Len(sent) + Waiting + Len(lines) + tally.lost
    BY DEF ConsoleInv
  <2>3. /\ Len(sent) \in Nat /\ Waiting \in Nat /\ Len(lines) \in Nat
        /\ tally.lost \in Nat
    BY <1>0 DEF Sorted
  <2>4. tally.lines = Len(sent) + Waiting + 0 + (tally.lost + Len(lines))
    BY <2>2, <2>3
  <2> QED BY <1>1, <1>3, <1>4, <2>1, <2>4
<1>10. (tx.active <= tx.used /\ pending_button_messages <= tally.presses)'
  BY <1>1, <1>3 DEF ConsoleInv
<1> QED BY <1>3, <1>6, <1>7, <1>8, <1>9, <1>10 DEF ConsoleInv

\* The pending response is tried again.
LEMMA WritePendingStep ==
  ASSUME ConsoleInv, WritePending PROVE ConsoleInv'
<1>0. Sorted
  BY ConsoleSorted
<1>1. /\ block = NotParsing /\ pending_response # NoResponse
      /\ TryEnqueue(pending_response, response_status')
      /\ UNCHANGED <<lines, block, response_status, pending_button_messages,
                     recovery, tally>>
  BY DEF WritePending, AtTop
<1>2. Taken' = Taken /\ Taken \in Nat /\ Taken <= MaxLines
  <2>1. /\ Taken \in Nat /\ tally.lines \in Nat /\ Len(lines) \in Nat
        /\ tally.lines <= MaxLines /\ Taken = tally.lines - Len(lines)
    BY <1>0 DEF Sorted
  <2>2. Taken' = Taken
    BY <1>1 DEF Taken
  <2> QED BY <2>1, <2>2, Sizes
<1>3. /\ Referent(pending_response, response_status') \in 1 .. Taken'
      /\ \A i, j \in 1 .. Len(sent) : i < j => sent[i] < sent[j]
      /\ \A i \in 1 .. Len(sent) :
           sent[i] < Referent(pending_response, response_status')
  BY <1>1, <1>2 DEF ConsoleInv, SentInOrder
<1>4. pending_response \in Responses
  BY <1>0, <1>1 DEF Sorted
<1>5. /\ SentInOrder'
      /\ (Len(sent) + Waiting)' = Len(sent) + 1
      /\ pending_response' \in {NoResponse} \cup Responses
      /\ sent' \in Seq(0 .. MaxLines)
      /\ tx' \in Queues /\ tx'.active <= tx'.used
  BY <1>0, <1>1, <1>2, <1>3, <1>4, ResponseTaken
<1>6. TypeOK'
  BY <1>1, <1>5 DEF ConsoleInv, TypeOK, Queues, Responses
<1>7. LinesInOrder'
  BY <1>1, <1>2 DEF ConsoleInv, LinesInOrder
<1>8. BlockThere'
  BY <1>1 DEF ConsoleInv, BlockThere
<1>9. (tally.lines = Len(sent) + Waiting + Len(lines) + tally.lost)'
  <2>1. Waiting = 1
    BY <1>1 DEF Waiting
  <2>2. tally.lines = Len(sent) + 1 + Len(lines) + tally.lost
    BY <2>1 DEF ConsoleInv
  <2> QED BY <1>1, <1>5, <2>2
<1> QED BY <1>1, <1>5, <1>6, <1>7, <1>8, <1>9 DEF ConsoleInv

\* peek takes a block of the lines there are.
LEMMA PeekStep ==
  ASSUME ConsoleInv, Peek PROVE ConsoleInv'
<1>0. Sorted
  BY ConsoleSorted
<1>1. /\ pending_response = NoResponse /\ block' \in 1 .. Len(lines)
      /\ UNCHANGED <<lines, pending_response, response_status, tx,
                     pending_button_messages, recovery, tally, sent>>
  BY DEF Peek
<1>2. block' \in 0 .. MaxLines /\ block' <= Len(lines)
  <2> DEFINE b == block'
  <2>1. /\ Len(lines) \in Nat /\ tally.lines \in Nat /\ tally.lines <= MaxLines
        /\ Len(lines) <= tally.lines
    BY <1>0 DEF Sorted, ConsoleInv, LinesInOrder
  <2>2. b \in 1 .. Len(lines)
    BY <1>1
  <2> HIDE DEF b
  <2>3. b \in 0 .. MaxLines /\ b <= Len(lines)
    BY <2>1, <2>2, Sizes
  <2> QED BY <2>3 DEF b
<1>3. TypeOK'
  BY <1>1, <1>2 DEF ConsoleInv, TypeOK
<1>4. Taken' = Taken /\ Waiting' = Waiting
  BY <1>1 DEF Taken, Waiting
<1>5. LinesInOrder' /\ SentInOrder'
  BY <1>1, <1>4 DEF ConsoleInv, LinesInOrder, SentInOrder
<1>6. BlockThere'
  BY <1>1, <1>2 DEF BlockThere
<1> QED BY <1>1, <1>3, <1>4, <1>5, <1>6 DEF ConsoleInv

\* The next line of the block is taken, and its response is newer than all.
LEMMA ProcessCommandStep ==
  ASSUME ConsoleInv, ProcessCommand PROVE ConsoleInv'
<1>0. Sorted
  BY ConsoleSorted
<1> DEFINE c == Head(lines)
           at == IF c.kind = "STATUS" THEN Buffer ELSE c.number
<1>1. /\ block # NotParsing
      /\ response_status' = IF c.kind = "STATUS" THEN c.number ELSE response_status
      /\ \E n \in IF c.kind = "STATUS" THEN StatusLengths ELSE ShortLengths :
           TryEnqueue([points_to |-> at, length |-> n], response_status')
      /\ lines' = Tail(lines)
      /\ block' = IF pending_response' = NoResponse THEN block - 1 ELSE NotParsing
      /\ UNCHANGED <<pending_button_messages, recovery, tally>>
  BY DEF ProcessCommand
<1>2. /\ pending_response = NoResponse /\ block \in 1 .. Len(lines)
      /\ Len(lines) \in 1 .. MaxLines
  <2>1. /\ block \in Nat /\ Len(lines) \in Nat /\ block <= Len(lines)
        /\ Len(lines) <= tally.lines /\ tally.lines \in Nat /\ tally.lines <= MaxLines
    BY <1>0 DEF Sorted, ConsoleInv, BlockThere, LinesInOrder
  <2>2. block # 0 /\ pending_response = NoResponse
    BY <1>1 DEF NotParsing, ConsoleInv, BlockThere
  <2> QED BY <2>1, <2>2, Sizes
<1>3. /\ lines \in Seq([number : 1 .. MaxLines, kind : Kinds])
      /\ Len(lines) \in Nat /\ lines # <<>>
  BY <1>0, <1>2 DEF Sorted
<1>4. /\ c \in [number : 1 .. MaxLines, kind : Kinds] /\ c = lines[1]
      /\ lines' \in Seq([number : 1 .. MaxLines, kind : Kinds])
      /\ Len(lines') = Len(lines) - 1
      /\ \A i \in 1 .. Len(lines') : lines'[i] = lines[i + 1]
  <2>1. /\ Head(lines) \in [number : 1 .. MaxLines, kind : Kinds]
        /\ Tail(lines) \in Seq([number : 1 .. MaxLines, kind : Kinds])
        /\ Len(Tail(lines)) = Len(lines) - 1
        /\ \A i \in 1 .. Len(Tail(lines)) : Tail(lines)[i] = lines[i + 1]
    BY <1>3, HeadTailProperties
  <2>2. Head(lines) = lines[1]
    BY <1>3
  <2> QED BY <1>1, <2>1, <2>2
<1>5. /\ Taken \in Nat /\ tally.lines \in Nat /\ tally.lines <= MaxLines
      /\ Taken = tally.lines - Len(lines)
  BY <1>0 DEF Sorted
<1>6. /\ Taken' = Taken + 1 /\ Taken' \in Nat /\ Taken' <= MaxLines
      /\ c.number = Taken + 1
  <2>1. Taken' = tally.lines - (Len(lines) - 1)
    BY <1>1, <1>4 DEF Taken
  <2>2. Taken + 1 <= MaxLines /\ Taken' = Taken + 1 /\ 1 \in 1 .. Len(lines)
    BY <1>2, <1>5, <2>1, Sizes
  <2>3. lines[1].number = Taken + 1
    BY <2>2 DEF ConsoleInv, LinesInOrder
  <2> QED BY <1>4, <1>5, <2>2, <2>3
<1> HIDE DEF c
<1>7. PICK n \in IF c.kind = "STATUS" THEN StatusLengths ELSE ShortLengths :
        TryEnqueue([points_to |-> at, length |-> n], response_status')
  BY <1>1
<1> DEFINE r == [points_to |-> at, length |-> n]
<1>8. r \in Responses
  BY <1>4, <1>7 DEF Responses
<1>9. Referent(r, response_status') = c.number
  BY <1>1, <1>4 DEF Referent, Buffer
<1>10. /\ \A i, j \in 1 .. Len(sent) : i < j => sent[i] < sent[j]
       /\ \A i \in 1 .. Len(sent) : sent[i] < Taken + 1
  <2>1. \A i \in 1 .. Len(sent) : sent[i] \in Nat
    BY <1>0 DEF Sorted
  <2> QED BY <1>5, <2>1 DEF ConsoleInv, SentInOrder
<1> HIDE DEF r
<1>11. TryEnqueue(r, response_status')
  BY <1>7 DEF r
<1>12. /\ SentInOrder'
       /\ (Len(sent) + Waiting)' = Len(sent) + 1
       /\ pending_response' \in {NoResponse} \cup Responses
       /\ sent' \in Seq(0 .. MaxLines)
       /\ tx' \in Queues /\ tx'.active <= tx'.used
  <2>1. Referent(r, response_status') \in 1 .. Taken'
    BY <1>5, <1>6, <1>9
  <2>2. \A i \in 1 .. Len(sent) : sent[i] < Referent(r, response_status')
    BY <1>6, <1>9, <1>10
  <2> QED BY <1>0, <1>6, <1>8, <1>10, <1>11, <2>1, <2>2, ResponseTaken
<1>13. block' \in 0 .. MaxLines /\ block' <= Len(lines')
  <2> DEFINE b == block'
  <2>1. /\ b = block - 1 \/ b = 0
        /\ Len(lines') = Len(lines) - 1
    BY <1>1, <1>4 DEF NotParsing
  <2> HIDE DEF b
  <2>2. b \in 0 .. MaxLines /\ b <= Len(lines) - 1
    BY <1>2, <2>1, Sizes
  <2> QED BY <2>1, <2>2 DEF b
<1>14. TypeOK'
  <2>1. response_status' \in 0 .. MaxLines
    BY <1>0, <1>1, <1>4, Sizes DEF Sorted
  <2> QED BY <1>1, <1>4, <1>12, <1>13, <2>1 DEF ConsoleInv, TypeOK, Queues, Responses
<1>15. LinesInOrder'
  <2>1. Len(lines') <= tally'.lines
    <3>1. Len(lines) - 1 <= tally.lines
      BY <1>2, <1>3, <1>5
    <3> QED BY <1>1, <1>4, <3>1
  <2>2. \A i \in 1 .. Len(lines') : lines'[i].number = Taken' + i
    <3> SUFFICES ASSUME NEW i \in 1 .. Len(lines) - 1
                 PROVE  lines[i + 1].number = (Taken + 1) + i
      BY <1>4, <1>6
    <3>1. i \in Nat /\ i + 1 \in 1 .. Len(lines)
      BY <1>3
    <3>2. lines[i + 1].number = Taken + (i + 1)
      BY <3>1 DEF ConsoleInv, LinesInOrder
    <3>3. Taken + (i + 1) = (Taken + 1) + i
      <4>1. Taken \in Nat /\ i \in Nat
        BY <1>5, <3>1
      <4> QED BY <4>1
    <3> QED BY <3>2, <3>3
  <2> QED BY <2>1, <2>2 DEF LinesInOrder
<1>16. BlockThere'
  BY <1>1, <1>13 DEF BlockThere
<1>17. (tally.lines = Len(sent) + Waiting + Len(lines) + tally.lost)'
  <2>1. Waiting = 0
    BY <1>2 DEF Waiting
  <2>2. tally.lines = Len(sent) + 0 + Len(lines) + tally.lost
    BY <2>1 DEF ConsoleInv
  <2>3. Len(sent) \in Nat /\ tally.lost \in Nat
    BY <1>0 DEF Sorted
  <2>4. tally.lines = (Len(sent) + 1) + (Len(lines) - 1) + tally.lost
    BY <1>3, <2>2, <2>3
  <2> QED BY <1>1, <1>4, <1>12, <2>4
<1>18. (pending_button_messages <= tally.presses)'
  BY <1>1 DEF ConsoleInv
<1> QED BY <1>12, <1>14, <1>15, <1>16, <1>17, <1>18 DEF ConsoleInv

-----------------------------------------------------------------------------
LEMMA ConsoleNext ==
  ASSUME ConsoleInv, [Next]_vars PROVE ConsoleInv'
<1>1. ASSUME NEW kind \in Kinds, LineArrives(kind) PROVE ConsoleInv'
  BY <1>1, LineArrivesStep
<1>2. CASE TxComplete
  BY <1>2, TxCompleteStep
<1>3. CASE RxError \/ ButtonPressed \/ WriteButton
  BY <1>3, OtherSteps
<1>4. CASE Recover
  BY <1>4, RecoverStep
<1>5. CASE WritePending
  BY <1>5, WritePendingStep
<1>6. CASE Peek
  BY <1>6, PeekStep
<1>7. CASE ProcessCommand
  BY <1>7, ProcessCommandStep
<1>8. CASE Finished \/ UNCHANGED vars
  <2>1. UNCHANGED vars
    BY <1>8 DEF Finished
  <2>2. /\ TypeOK' /\ tx'.active <= tx'.used
        /\ UNCHANGED <<lines, block, pending_response, response_status, sent>>
        /\ tally' = tally /\ pending_button_messages' <= tally'.presses
    BY <2>1 DEF vars, ConsoleInv, TypeOK
  <2> QED BY <2>2, OrderKept
<1> QED BY <1>1, <1>2, <1>3, <1>4, <1>5, <1>6, <1>7, <1>8 DEF Next

\* However many lines arrive, however long the responses and however full the
\* TX queue, each command main.c's loop takes has one response, its own and in
\* order; a pending STATUS response is never formatted over.
THEOREM EachCommandAnsweredOnce == Spec => []OneResponseEach
<1>1. Init => ConsoleInv
  BY ConsoleInit
<1>2. ConsoleInv /\ [Next]_vars => ConsoleInv'
  BY ConsoleNext
<1>3. ConsoleInv => OneResponseEach
  BY DEF ConsoleInv, SentInOrder, Waiting, OneResponseEach
<1> QED BY <1>1, <1>2, <1>3, PTL DEF Spec

=============================================================================
