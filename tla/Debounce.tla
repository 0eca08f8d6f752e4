------------------------------ MODULE Debounce ------------------------------
(***************************************************************************)
(* The push button of main.c: the EXTI interrupt stamps and counts every   *)
(* edge, and button_debounce_poll, called once in an iteration of the main *)
(* loop, takes a new level when DebounceMs have passed without one.  The   *)
(* poll masks interrupts twice, around the snapshot and around the last    *)
(* look at the edge count; edges, interrupts and ticks come between.       *)
(*                                                                         *)
(* A pending EXTI line is one bit: edges before it is served are one       *)
(* interrupt.  The interrupt does not read the pin, so it is one step.     *)
(***************************************************************************)
EXTENDS Integers

CONSTANTS
  DebounceMs,  \* BUTTON_DEBOUNCE_MS
  TickMod,     \* values of the tick: 2^32 (uint32_t) in the code
  EdgeMod,     \* values of raw_edge_count: 2^32 (uint32_t) in the code
  MaxBurst,    \* bound on the edges served during one poll
  PollGap      \* the longest time between the starts of two polls

ASSUME DebounceAssumption ==
  /\ DebounceMs \in Nat \ {0} /\ PollGap \in Nat \ {0}
  /\ TickMod \in Nat /\ EdgeMod \in Nat /\ MaxBurst \in Nat
  /\ MaxBurst < EdgeMod
  /\ DebounceMs + 2 * PollGap <= TickMod

VARIABLES
  pin,               \* the button is held down: the pin reads GPIO_PIN_RESET
  exti,              \* the EXTI line is pending
  tick,              \* what HAL_GetTick returns
  raw_edge_count,
  last_edge_time,
  debounce_pending,
  stable_pressed,
  main,              \* where main is in the poll, and its local variables
  age,               \* history: the true time since the last edge served, up
                     \* to DebounceMs
  burst,             \* history: the edges served since main's snapshot
  gap                \* history: the time since the last poll began

isr  == <<raw_edge_count, last_edge_time, debounce_pending>>
vars == <<pin, exti, tick, isr, stable_pressed, main, age, burst, gap>>

Ticks   == 0 .. TickMod - 1
Edges   == 0 .. EdgeMod - 1
Polling == {"time", "sample", "check"}

\* main outside the poll.
Elsewhere == [pc |-> "loop", edges |-> 0, time |-> 0, pin |-> FALSE]

TypeOK ==
  /\ pin \in BOOLEAN /\ exti \in BOOLEAN
  /\ debounce_pending \in BOOLEAN /\ stable_pressed \in BOOLEAN
  /\ tick \in Ticks /\ last_edge_time \in Ticks
  /\ raw_edge_count \in Edges
  /\ main \in [pc : {"boot", "loop", "assign"} \cup Polling, edges : Edges,
               time : Ticks, pin : BOOLEAN]
  /\ age \in 0 .. DebounceMs
  /\ burst \in 0 .. MaxBurst
  /\ gap \in 0 .. PollGap

\* MX_GPIO_Init has enabled the interrupt, main has not read the pin yet.
Init ==
  /\ pin \in BOOLEAN /\ exti = FALSE
  /\ tick \in Ticks /\ last_edge_time = 0
  /\ raw_edge_count = 0 /\ debounce_pending = FALSE
  /\ stable_pressed = FALSE
  /\ main = [Elsewhere EXCEPT !.pc = "boot"]
  /\ age = DebounceMs /\ burst = 0 /\ gap = 0

-----------------------------------------------------------------------------
\* The contact opens, closes or bounces: both edges set the pending bit.
PinEdge ==
  /\ pin' = ~pin
  /\ exti' = TRUE
  /\ UNCHANGED <<tick, isr, stable_pressed, main, age, burst, gap>>

Tick ==
  /\ gap < PollGap
  /\ tick' = (tick + 1) % TickMod
  /\ age' = IF age < DebounceMs THEN age + 1 ELSE age
  /\ gap' = gap + 1
  /\ UNCHANGED <<pin, exti, isr, stable_pressed, main, burst>>

\* EXTI15_10_IRQHandler, HAL_GPIO_EXTI_IRQHandler and the callback.
EdgeInterrupt ==
  /\ exti
  /\ main.pc \in Polling => burst < MaxBurst
  /\ exti' = FALSE
  /\ last_edge_time' = tick
  /\ raw_edge_count' = (raw_edge_count + 1) % EdgeMod
  /\ debounce_pending' = TRUE
  /\ age' = 0
  /\ burst' = IF main.pc \in Polling THEN burst + 1 ELSE 0
  /\ UNCHANGED <<pin, tick, stable_pressed, main, gap>>

-----------------------------------------------------------------------------
\* main reads the first level before its loop.
ReadFirstLevel ==
  /\ main.pc = "boot"
  /\ stable_pressed' = pin
  /\ main' = Elsewhere
  /\ UNCHANGED <<pin, exti, tick, isr, age, burst, gap>>

\* The poll begins: nothing is pending, or edge count and time are copied with
\* interrupts masked.
PollBegins ==
  /\ main.pc = "loop"
  /\ gap' = 0 /\ burst' = 0
  /\ main' = IF debounce_pending
             THEN [pc |-> "time", edges |-> raw_edge_count,
                   time |-> last_edge_time, pin |-> FALSE]
             ELSE main
  /\ UNCHANGED <<pin, exti, tick, isr, stable_pressed, age>>

\* Slip: the end of the wait computed instead of the time that has passed.
TooEarlyByDeadline(now, since) == now < (since + DebounceMs) % TickMod

\* (uint32_t)(now - edge_time_snapshot) < BUTTON_DEBOUNCE_MS
TooEarly(now, since) == (now - since) % TickMod < DebounceMs

\* Slip: a poll that comes too early ends the debounce.
CheckTimeForgetting ==
  /\ main.pc = "time"
  /\ main' = IF TooEarly(tick, main.time) THEN Elsewhere
             ELSE [main EXCEPT !.pc = "sample"]
  /\ burst' = IF TooEarly(tick, main.time) THEN 0 ELSE burst
  /\ debounce_pending' = ~TooEarly(tick, main.time)
  /\ UNCHANGED <<pin, exti, tick, raw_edge_count, last_edge_time,
                 stable_pressed, age, gap>>

CheckTime ==
  /\ main.pc = "time"
  /\ IF TooEarly(tick, main.time)
     THEN main' = Elsewhere /\ burst' = 0
     ELSE main' = [main EXCEPT !.pc = "sample"] /\ UNCHANGED burst
  /\ UNCHANGED <<pin, exti, tick, isr, stable_pressed, age, gap>>

ReadPin ==
  /\ main.pc = "sample"
  /\ main' = [main EXCEPT !.pc = "check", !.pin = pin]
  /\ UNCHANGED <<pin, exti, tick, isr, stable_pressed, age, burst, gap>>

\* Slip: no second look at the edge count.
CheckNoEdgeBlindly ==
  /\ main.pc = "check"
  /\ main' = [main EXCEPT !.pc = "assign", !.edges = 0, !.time = 0]
  /\ debounce_pending' = FALSE
  /\ burst' = 0
  /\ UNCHANGED <<pin, exti, tick, raw_edge_count, last_edge_time,
                 stable_pressed, age, gap>>

\* With interrupts masked: an edge since the snapshot leaves the rest to a
\* later poll, else the debounce is over.
CheckNoEdge ==
  /\ main.pc = "check"
  /\ IF raw_edge_count # main.edges
     THEN main' = Elsewhere /\ UNCHANGED debounce_pending
     ELSE /\ main' = [main EXCEPT !.pc = "assign", !.edges = 0, !.time = 0]
          /\ debounce_pending' = FALSE
  /\ burst' = 0
  /\ UNCHANGED <<pin, exti, tick, raw_edge_count, last_edge_time,
                 stable_pressed, age, gap>>

\* The level that was read becomes the stable one; a change is an event.
TakeLevel ==
  /\ main.pc = "assign"
  /\ stable_pressed' = main.pin
  /\ main' = Elsewhere
  /\ UNCHANGED <<pin, exti, tick, isr, age, burst, gap>>

Next ==
  \/ PinEdge \/ Tick \/ EdgeInterrupt
  \/ ReadFirstLevel \/ PollBegins \/ CheckTime \/ ReadPin \/ CheckNoEdge
  \/ TakeLevel

Spec == Init /\ [][Next]_vars

\* Time passes, the loop turns and a pending interrupt is served; the button
\* is free.
LiveSpec ==
  /\ Spec
  /\ WF_vars(Tick) /\ WF_vars(EdgeInterrupt)
  /\ WF_vars(ReadFirstLevel) /\ WF_vars(PollBegins) /\ WF_vars(CheckTime)
  /\ WF_vars(ReadPin) /\ WF_vars(CheckNoEdge) /\ WF_vars(TakeLevel)

-----------------------------------------------------------------------------
\* No edge is forgotten, wherever it falls in the poll or in the start-up: as
\* long as stable_pressed is not the level of the pin (and is not just being
\* assigned) the code knows of an edge it has yet to look at.
NoEdgeForgotten ==
  stable_pressed # pin =>
    debounce_pending \/ exti \/ main.pc \in {"boot", "assign"}

\* The local variables of a poll still describe the edges it is about: its
\* count is behind by the edges served since (up to a wrap), and without one
\* its time is the last edge's and the level it read is the pin's.
SnapshotHolds ==
  /\ main.pc \in Polling =>
       /\ debounce_pending
       /\ \/ raw_edge_count = main.edges + burst
          \/ raw_edge_count = main.edges + burst - EdgeMod
       /\ burst = 0 => main.time = last_edge_time
  /\ main.pc = "check" /\ burst = 0 /\ ~exti => main.pin = pin
  /\ main.pc = "assign" /\ ~debounce_pending /\ ~exti => main.pin = pin

\* Tick and stamp tell how long the last debounce has lasted so far, and a poll
\* that got past its check of the time met no edge or waited long enough.
AgeMeasured ==
  /\ age < DebounceMs => \/ tick = last_edge_time + age
                         \/ tick = last_edge_time + age - TickMod
  /\ main.pc \in {"sample", "check"} /\ burst = 0 => age = DebounceMs

DebounceInv == TypeOK /\ NoEdgeForgotten /\ SnapshotHolds /\ AgeMeasured

\* A debounce ends only when no edge was served for the whole DebounceMs of
\* true time, the wrap of the tick included, and with a level that was read
\* after that time (the edge of a newer one is pending).
DebounceEndsQuiet ==
  [][debounce_pending /\ ~debounce_pending' =>
       age = DebounceMs /\ (main'.pin = pin \/ exti)]_vars

\* When the contact comes to rest its level becomes the stable one, whatever
\* edges and ticks the last polls met.
RestReported ==
  \A level \in BOOLEAN : <>[](pin = level) => <>[](stable_pressed = level)

=============================================================================
