---------------------------- MODULE DebounceProofs ----------------------------
(***************************************************************************)
(* The debounce, for every debounce time, width of the tick and width of   *)
(* the edge counter: no edge is forgotten and no level is taken early.     *)
(***************************************************************************)
EXTENDS Debounce, TLAPS

Locals == [pc : {"boot", "loop", "assign"} \cup Polling, edges : Edges,
           time : Ticks, pin : BOOLEAN]

LEMMA ElsewhereTyped ==
  Elsewhere \in Locals /\ [Elsewhere EXCEPT !.pc = "boot"] \in Locals
<1>1. 0 \in Edges /\ 0 \in Ticks
  BY DebounceAssumption DEF Edges, Ticks
<1>2. {"boot", "loop"} \subseteq {"boot", "loop", "assign"} \cup Polling
  OBVIOUS
<1> QED BY <1>1, <1>2 DEF Elsewhere, Locals

LEMMA DebounceTypeInit == Init => TypeOK
<1> SUFFICES ASSUME Init PROVE TypeOK
  OBVIOUS
<1>1. pin \in BOOLEAN /\ exti \in BOOLEAN
      /\ debounce_pending \in BOOLEAN /\ stable_pressed \in BOOLEAN
  BY DEF Init
<1>2. /\ tick \in Ticks /\ last_edge_time \in Ticks /\ raw_edge_count \in Edges
      /\ age \in 0 .. DebounceMs /\ burst \in 0 .. MaxBurst /\ gap \in 0 .. PollGap
  BY DebounceAssumption DEF Init, Ticks, Edges
<1>3. main \in Locals
  BY ElsewhereTyped DEF Init
<1> QED BY <1>1, <1>2, <1>3 DEF TypeOK, Locals

LEMMA DebounceTypeStep ==
  ASSUME TypeOK, [Next]_vars
  PROVE  TypeOK'
<1>1. /\ pin' \in BOOLEAN /\ exti' \in BOOLEAN
      /\ debounce_pending' \in BOOLEAN /\ stable_pressed' \in BOOLEAN
  BY DEF TypeOK, Next, PinEdge, Tick, EdgeInterrupt, ReadFirstLevel, PollBegins,
         CheckTime, ReadPin, CheckNoEdge, TakeLevel, vars, isr
<1>2. tick' \in Ticks
  BY DebounceAssumption DEF TypeOK, Next, PinEdge, Tick, EdgeInterrupt,
     ReadFirstLevel, PollBegins, CheckTime, ReadPin, CheckNoEdge, TakeLevel,
     vars, isr, Ticks
<1>3. last_edge_time' \in Ticks /\ raw_edge_count' \in Edges
  <2>1. CASE EdgeInterrupt
    BY <2>1, DebounceAssumption DEF TypeOK, EdgeInterrupt, Edges
  <2>2. CASE ~EdgeInterrupt
    BY <2>2 DEF TypeOK, Next, PinEdge, Tick, ReadFirstLevel, PollBegins,
       CheckTime, ReadPin, CheckNoEdge, TakeLevel, vars, isr
  <2> QED BY <2>1, <2>2
<1>4. age' \in 0 .. DebounceMs /\ burst' \in 0 .. MaxBurst /\ gap' \in 0 .. PollGap
  <2> USE DebounceAssumption DEF TypeOK
  <2>1. CASE Tick
    BY <2>1 DEF Tick
  <2>2. CASE EdgeInterrupt
    BY <2>2 DEF EdgeInterrupt
  <2>3. CASE ~Tick /\ ~EdgeInterrupt
    BY <2>3 DEF Next, PinEdge, ReadFirstLevel, PollBegins, CheckTime, ReadPin,
       CheckNoEdge, TakeLevel, vars
  <2> QED BY <2>1, <2>2, <2>3
<1>5. main' \in Locals
  <2>0. main \in Locals
    BY DEF TypeOK, Locals
  <2>1. CASE PollBegins /\ debounce_pending
    BY <2>1 DEF PollBegins, TypeOK, Locals, Polling
  <2>2. CASE CheckTime
    BY <2>0, <2>2, ElsewhereTyped DEF CheckTime, Locals, Polling
  <2>3. CASE ReadPin
    BY <2>0, <2>3 DEF ReadPin, TypeOK, Locals, Polling
  <2>4. CASE CheckNoEdge
    <3>1. 0 \in Edges /\ 0 \in Ticks
      BY DebounceAssumption DEF Edges, Ticks
    <3>2. [main EXCEPT !.pc = "assign", !.edges = 0, !.time = 0] \in Locals
      BY <2>0, <3>1 DEF Locals
    <3> QED BY <2>4, <3>2, ElsewhereTyped DEF CheckNoEdge
  <2>5. CASE ReadFirstLevel \/ TakeLevel
    BY <2>5, ElsewhereTyped DEF ReadFirstLevel, TakeLevel
  <2>6. CASE UNCHANGED main
    BY <2>0, <2>6
  <2> QED BY <2>1, <2>2, <2>3, <2>4, <2>5, <2>6
          DEF Next, PinEdge, Tick, EdgeInterrupt, PollBegins, vars
<1> QED BY <1>1, <1>2, <1>3, <1>4, <1>5 DEF TypeOK, Locals

\* The last look at the counter misses no edge, though the counter wraps.
LEMMA CountTellsEdges ==
  ASSUME TypeOK, SnapshotHolds, main.pc \in Polling
  PROVE  raw_edge_count = main.edges <=> burst = 0
BY DebounceAssumption DEF TypeOK, SnapshotHolds, Edges

LEMMA SnapshotStep ==
  ASSUME TypeOK, SnapshotHolds, [Next]_vars
  PROVE  SnapshotHolds'
<1> USE DEF SnapshotHolds
<1>1. CASE PinEdge
  BY <1>1 DEF PinEdge, isr
<1>2. CASE Tick
  BY <1>2 DEF Tick, isr
<1>3. CASE EdgeInterrupt
  <2>1. CASE main.pc \in Polling
    <3>1. /\ burst' = burst + 1 /\ burst \in Nat /\ main' = main
          /\ debounce_pending'
      BY <1>3, <2>1 DEF EdgeInterrupt, TypeOK
    <3>2. \/ raw_edge_count' = main.edges + burst'
          \/ raw_edge_count' = main.edges + burst' - EdgeMod
      <4>1. raw_edge_count' = raw_edge_count + 1
            \/ raw_edge_count' = raw_edge_count + 1 - EdgeMod
        BY <1>3, DebounceAssumption DEF EdgeInterrupt, TypeOK, Edges
      <4>2. /\ main.edges \in 0 .. EdgeMod - 1
            /\ raw_edge_count \in 0 .. EdgeMod - 1
            /\ raw_edge_count' \in 0 .. EdgeMod - 1
            /\ burst < MaxBurst
        BY <1>3, <2>1, DebounceAssumption DEF EdgeInterrupt, TypeOK, Edges
      <4> QED BY <2>1, <3>1, <4>1, <4>2, DebounceAssumption
    <3> QED BY <2>1, <3>1, <3>2 DEF Polling
  <2>2. CASE main.pc \notin Polling
    BY <1>3, <2>2 DEF EdgeInterrupt, Polling
  <2> QED BY <2>1, <2>2
<1>4. CASE ReadFirstLevel
  BY <1>4 DEF ReadFirstLevel, Elsewhere, Polling
<1>5. CASE PollBegins
  <2>1. CASE debounce_pending
    <3>1. raw_edge_count \in Int
      BY DebounceAssumption DEF TypeOK, Edges
    <3>2. raw_edge_count + 0 = raw_edge_count
      BY <3>1
    <3> QED BY <1>5, <2>1, <3>2 DEF PollBegins, isr, Polling
  <2>2. CASE ~debounce_pending
    BY <1>5, <2>2 DEF PollBegins, isr, Polling
  <2> QED BY <2>1, <2>2
<1>6. CASE CheckTime
  BY <1>6 DEF CheckTime, isr, Elsewhere, Polling, TypeOK
<1>7. CASE ReadPin
  BY <1>7 DEF ReadPin, isr, Polling, TypeOK
<1>8. CASE CheckNoEdge
  <2>1. CASE raw_edge_count = main.edges
    <3>1. burst = 0 /\ main.pc \in Polling
      BY <1>8, <2>1, CountTellsEdges DEF CheckNoEdge, Polling
    <3> QED BY <1>8, <2>1, <3>1 DEF CheckNoEdge, Polling, TypeOK
  <2>2. CASE raw_edge_count # main.edges
    BY <1>8, <2>2 DEF CheckNoEdge, Elsewhere, Polling
  <2> QED BY <2>1, <2>2
<1>9. CASE TakeLevel
  BY <1>9 DEF TakeLevel, Elsewhere, Polling
<1>10. CASE UNCHANGED vars
  BY <1>10 DEF vars, isr
<1> QED BY <1>1, <1>2, <1>3, <1>4, <1>5, <1>6, <1>7, <1>8, <1>9, <1>10 DEF Next

LEMMA ForgottenStep ==
  ASSUME TypeOK, SnapshotHolds, NoEdgeForgotten, [Next]_vars
  PROVE  NoEdgeForgotten'
<1> USE DEF NoEdgeForgotten
<1>1. CASE PinEdge
  BY <1>1 DEF PinEdge
<1>2. CASE Tick
  BY <1>2 DEF Tick, isr
<1>3. CASE EdgeInterrupt
  BY <1>3 DEF EdgeInterrupt
<1>4. CASE ReadFirstLevel
  BY <1>4 DEF ReadFirstLevel
<1>5. CASE PollBegins
  BY <1>5 DEF PollBegins, isr
<1>6. CASE CheckTime
  BY <1>6 DEF CheckTime, isr, SnapshotHolds, Polling
<1>7. CASE ReadPin
  BY <1>7 DEF ReadPin, isr, SnapshotHolds, Polling
<1>8. CASE CheckNoEdge
  BY <1>8 DEF CheckNoEdge, SnapshotHolds, Polling, TypeOK
<1>9. CASE TakeLevel
  BY <1>9 DEF TakeLevel, isr, SnapshotHolds
<1>10. CASE UNCHANGED vars
  BY <1>10 DEF vars, isr
<1> QED BY <1>1, <1>2, <1>3, <1>4, <1>5, <1>6, <1>7, <1>8, <1>9, <1>10 DEF Next

\* Until DebounceMs have passed the poll sees that it is too early, across the
\* wrap of the tick.
LEMMA EarlyIsSeen ==
  ASSUME TypeOK, AgeMeasured, age < DebounceMs
  PROVE  TooEarly(tick, last_edge_time)
<1>1. age \in Nat /\ age < TickMod
  BY DebounceAssumption DEF TypeOK
<1>2. CASE tick = last_edge_time + age
  BY <1>1, <1>2, DebounceAssumption DEF TypeOK, Ticks, TooEarly
<1>3. CASE tick = last_edge_time + age - TickMod
  <2>1. tick - last_edge_time = age - TickMod
    BY <1>1, <1>3, DebounceAssumption DEF TypeOK, Ticks
  <2>2. (age - TickMod) % TickMod = age
    BY <1>1, DebounceAssumption
  <2> QED BY <2>1, <2>2 DEF TooEarly
<1> QED BY <1>2, <1>3 DEF AgeMeasured

LEMMA AgeStep ==
  ASSUME TypeOK, SnapshotHolds, AgeMeasured, [Next]_vars
  PROVE  AgeMeasured'
<1> USE DEF AgeMeasured
<1>1. CASE PinEdge
  BY <1>1 DEF PinEdge, isr
<1>2. CASE Tick
  <2>1. tick' = tick + 1 \/ tick' = tick + 1 - TickMod
    BY <1>2, DebounceAssumption DEF Tick, TypeOK, Ticks
  <2>2. /\ age \in 0 .. DebounceMs
        /\ tick \in 0 .. TickMod - 1 /\ tick' \in 0 .. TickMod - 1
        /\ last_edge_time \in 0 .. TickMod - 1 /\ last_edge_time' = last_edge_time
        /\ main' = main /\ burst' = burst
        /\ age' = IF age < DebounceMs THEN age + 1 ELSE age
    BY <1>2, DebounceAssumption DEF Tick, isr, TypeOK, Ticks
  <2> QED BY <2>1, <2>2, DebounceAssumption
<1>3. CASE EdgeInterrupt
  BY <1>3, DebounceAssumption DEF EdgeInterrupt, TypeOK, Ticks, Polling
<1>4. CASE ReadFirstLevel
  BY <1>4 DEF ReadFirstLevel, isr, Elsewhere
<1>5. CASE PollBegins
  BY <1>5 DEF PollBegins, isr
<1>6. CASE CheckTime
  <2>1. CASE TooEarly(tick, main.time)
    BY <1>6, <2>1 DEF CheckTime, isr, Elsewhere
  <2>2. CASE ~TooEarly(tick, main.time)
    <3>1. burst = 0 => ~(age < DebounceMs)
      BY <1>6, <2>2, EarlyIsSeen DEF CheckTime, SnapshotHolds, Polling
    <3>2. burst = 0 => age = DebounceMs
      BY <3>1, DebounceAssumption DEF TypeOK
    <3> QED BY <1>6, <2>2, <3>2 DEF CheckTime, isr
  <2> QED BY <2>1, <2>2
<1>7. CASE ReadPin
  BY <1>7 DEF ReadPin, isr
<1>8. CASE CheckNoEdge
  <2>1. main'.pc \in {"loop", "assign"}
    <3>1. Elsewhere.pc = "loop"
      BY DEF Elsewhere
    <3>2. [main EXCEPT !.pc = "assign", !.edges = 0, !.time = 0].pc = "assign"
      BY DEF TypeOK
    <3> QED BY <1>8, <3>1, <3>2 DEF CheckNoEdge
  <2>2. UNCHANGED <<age, tick, last_edge_time>>
    BY <1>8 DEF CheckNoEdge
  <2> QED BY <2>1, <2>2
<1>9. CASE TakeLevel
  BY <1>9 DEF TakeLevel, isr, Elsewhere
<1>10. CASE UNCHANGED vars
  BY <1>10 DEF vars, isr
<1> QED BY <1>1, <1>2, <1>3, <1>4, <1>5, <1>6, <1>7, <1>8, <1>9, <1>10 DEF Next

\* Snapshot, stamp and pending flag stay in step with the edges: the invariant
\* the two theorems below rest on.
THEOREM DebounceInvariant == Spec => []DebounceInv
<1>1. Init => DebounceInv
  <2> SUFFICES ASSUME Init PROVE DebounceInv
    OBVIOUS
  <2>1. main.pc = "boot"
    BY DEF Init, Elsewhere
  <2>2. ~(age < DebounceMs)
    BY DebounceAssumption DEF Init
  <2> QED BY <2>1, <2>2, DebounceTypeInit DEF DebounceInv, NoEdgeForgotten,
          SnapshotHolds, AgeMeasured, Polling
<1>2. DebounceInv /\ [Next]_vars => DebounceInv'
  BY DebounceTypeStep, SnapshotStep, ForgottenStep, AgeStep DEF DebounceInv
<1> QED BY <1>1, <1>2, PTL DEF Spec

\* An edge at any step of the poll or of the start-up is looked at later.
THEOREM EdgesRemembered == Spec => []NoEdgeForgotten
<1>1. DebounceInv => NoEdgeForgotten
  BY DEF DebounceInv
<1> QED BY <1>1, DebounceInvariant, PTL

\* A debounce ends only after DebounceMs without an edge, with a fresh level.
THEOREM DebounceIsQuiet == Spec => DebounceEndsQuiet
<1> DEFINE quiet == debounce_pending /\ ~debounce_pending' =>
                      age = DebounceMs /\ (main'.pin = pin \/ exti)
<1>1. ASSUME DebounceInv, [Next]_vars PROVE [quiet]_vars
  <2>1. CASE CheckNoEdge
    <3>1. ASSUME debounce_pending /\ ~debounce_pending'
          PROVE  burst = 0 /\ main'.pin = main.pin /\ main.pc = "check"
      <4>1. main.pc = "check" /\ raw_edge_count = main.edges
        BY <2>1, <3>1 DEF CheckNoEdge
      <4>2. burst = 0
        BY <1>1, <4>1, CountTellsEdges DEF DebounceInv, Polling
      <4> QED BY <1>1, <2>1, <4>1, <4>2 DEF CheckNoEdge, DebounceInv, TypeOK
    <3> QED BY <1>1, <3>1 DEF DebounceInv, AgeMeasured, SnapshotHolds
  <2>2. CASE PinEdge \/ Tick \/ ReadFirstLevel \/ PollBegins \/ CheckTime
               \/ ReadPin \/ TakeLevel
    BY <2>2 DEF PinEdge, Tick, ReadFirstLevel, PollBegins, CheckTime, ReadPin,
                TakeLevel, isr
  <2>3. CASE EdgeInterrupt
    BY <2>3 DEF EdgeInterrupt
  <2>4. CASE UNCHANGED vars
    BY <2>4
  <2> QED BY <1>1, <2>1, <2>2, <2>3, <2>4 DEF Next
<1>2. DebounceInv /\ [Next]_vars => [quiet]_vars
  BY <1>1
<1> QED BY <1>2, DebounceInvariant, PTL DEF Spec, DebounceEndsQuiet

=============================================================================
