----------------------------- MODULE RootCounter -----------------------------
(***************************************************************************)
(* A root counter (timer): RootCounters.cpp.  Counter 0 can count dots and *)
(* synchronise with HBLANK, counter 1 can count lines and synchronise with *)
(* VBLANK, counter 2 can count every eighth cycle.                         *)
(*                                                                         *)
(* The counter does not count by itself.  It keeps a value and the time at *)
(* which the value was right, brings it up to date when somebody looks,    *)
(* and has one event with the scheduler, for the target or the overflow,   *)
(* whichever is nearer.  Times are relative to the clock: elapsed is the   *)
(* time since the last update, due the time until the event.               *)
(*                                                                         *)
(* The scheduler always has room for the event.  Its Advance moves the     *)
(* clock past several events at once and then runs their callbacks, so an  *)
(* event may be late and a callback of the GPU may come before it.         *)
(***************************************************************************)
EXTENDS Integers

CONSTANTS
    Ids,          \* the counters to look at, some of 0, 1 and 2
    U16,          \* 2^16
    DOT_CYCLES,   \* cycles per dot, for every resolution
    DIVIDER,      \* cycles per line (counter 1), 8 (counter 2)
    Modes,        \* what the guest writes to the mode register
    Values,       \* and to the value register
    Targets,      \* and to the target register
    MaxStep,      \* the longest instruction, in cycles
    MaxElapsed    \* bound on the time without an update

Mode ==
    [sync_enable : BOOLEAN, sync_mode : 0..3, reset_on_target : BOOLEAN,
     irq_on_target : BOOLEAN, irq_on_ov : BOOLEAN, irq_repeat : BOOLEAN,
     irq_toggle : BOOLEAN, clock_src : 0..3]

ASSUME CounterAssumption ==
    /\ Ids \subseteq 0..2
    /\ U16 \in Nat \ {0} /\ DIVIDER \in Nat \ {0}
    /\ DOT_CYCLES \in [0..4 -> Nat \ {0}]
    /\ Modes \subseteq Mode
    /\ Values \subseteq 0..(U16 - 1) /\ Targets \subseteq 0..(U16 - 1)
    /\ MaxStep \in 1..(U16 - 1)
    /\ MaxElapsed \in Nat

VARIABLES
    c,    \* the members of RootCounter, and its event
    g     \* what a perfect counter would show

vars == <<c, g>>
-----------------------------------------------------------------------------
(***************************************************************************)
(* The value.                                                              *)
(***************************************************************************)
Divided(id, clock_src) == IF id = 2 THEN clock_src >= 2 ELSE clock_src % 2 = 1

ComputeCyclesPerInc(id, clock_src, sel) ==
    IF ~Divided(id, clock_src) THEN 1
    ELSE IF id = 0 THEN DOT_CYCLES[sel] ELSE DIVIDER

Clamped(x, value) ==
    IF x.mode.reset_on_target /\ x.target < value THEN x.target ELSE value

\* Bug: the cycles that do not fill an increment are dropped.
UpdateCounterNoPartial(x) ==
    IF x.stopped THEN x
    ELSE LET cycles == x.partial + x.elapsed IN
         [x EXCEPT !.partial = 0, !.elapsed = 0,
                   !.value = Clamped(x, (x.value + cycles \div x.cpi) % U16)]

\* A counter that is stopped keeps the time of its last update.
UpdateCounter(x) ==
    IF x.stopped THEN x
    ELSE LET cycles == x.partial + x.elapsed IN
         [x EXCEPT !.partial = cycles % x.cpi, !.elapsed = 0,
                   !.value = Clamped(x, (x.value + cycles \div x.cpi) % U16)]
-----------------------------------------------------------------------------
(***************************************************************************)
(* The event.                                                              *)
(***************************************************************************)

CyclesTillOverflow(x) == (U16 - x.value) * x.cpi

CyclesTillTarget(x) == IF x.target < x.value THEN 0 ELSE (x.target - x.value) * x.cpi

\* Counter 2 stops in the modes that SyncMode2 calls FREE_RUN.
Halts(x) ==
    /\ x.mode.sync_enable
    /\ \/ x.id = 2 /\ x.mode.sync_mode \in {1, 2}
       \/ x.id # 2 /\ x.blank /\ x.mode.sync_mode = 0
       \/ x.id # 2 /\ ~x.blank /\ x.mode.sync_mode = 2

Scheduled(x, event, due) == [x EXCEPT !.event = event, !.due = due]

\* A value that equals the target counts as reached, and so does a target of 0.
Rescheduled(x) ==
    LET r == [x EXCEPT !.stopped = FALSE] IN
    IF x.target \in {0, x.value}
      THEN Scheduled([r EXCEPT !.mode.target_reached = TRUE], "OV", CyclesTillOverflow(x))
    ELSE IF x.target < x.value \/ CyclesTillOverflow(x) <= CyclesTillTarget(x)
      THEN Scheduled(r, "OV", CyclesTillOverflow(x))
      ELSE Scheduled(r, "TARGET", CyclesTillTarget(x))

\* Bug: the event of a counter that stops is left with the scheduler.
UpdateEventsKeeps(x) ==
    LET y == IF x.elapsed = 0 THEN x ELSE UpdateCounter(x) IN
    IF Halts(y) THEN [y EXCEPT !.stopped = TRUE] ELSE Rescheduled(y)

UpdateEvents(x) ==
    LET y == IF x.elapsed = 0 THEN x ELSE UpdateCounter(x) IN
    IF Halts(y) THEN [Scheduled(y, "NONE", 0) EXCEPT !.stopped = TRUE] ELSE Rescheduled(y)
-----------------------------------------------------------------------------
(***************************************************************************)
(* The interrupt.  irqs counts the interrupts since the mode was written,  *)
(* up to two.                                                              *)
(***************************************************************************)
Reached(x, source) ==
    IF source = "TARGET" THEN [x EXCEPT !.mode.target_reached = TRUE]
                         ELSE [x EXCEPT !.mode.ov_reached = TRUE]

Enabled(x, source) ==
    IF source = "TARGET" THEN x.mode.irq_on_target ELSE x.mode.irq_on_ov

\* Bug: the one-shot condition is not remembered.
FireIRQForgets(x, source) ==
    LET line == x.mode.irq_toggle /\ ~x.mode.irq IN
    IF x.stopped THEN x
    ELSE IF ~Enabled(x, source) \/ (~x.mode.irq_repeat /\ x.oneshot) THEN Reached(x, source)
    ELSE [Reached(x, source) EXCEPT
             !.mode.irq = line,
             !.irqs = IF line \/ x.irqs = 2 THEN x.irqs ELSE x.irqs + 1]

\* The flag is active low, and in toggle mode only every second one is an interrupt.
FireIRQ(x, source) ==
    LET line == x.mode.irq_toggle /\ ~x.mode.irq IN
    IF x.stopped THEN x
    ELSE IF ~Enabled(x, source) \/ (~x.mode.irq_repeat /\ x.oneshot) THEN Reached(x, source)
    ELSE [Reached(x, source) EXCEPT
             !.oneshot = x.oneshot \/ ~x.mode.irq_repeat,
             !.mode.irq = line,
             !.irqs = IF line \/ x.irqs = 2 THEN x.irqs ELSE x.irqs + 1]
-----------------------------------------------------------------------------
(***************************************************************************)
(* The perfect counter: truth is the number of cycles it stands for.       *)
(* exact is TRUE as long as neither an event, nor a pause, nor a value     *)
(* that was cut off, nor a new dot clock has come between the value and    *)
(* its timestamp; timed is TRUE if the event was computed from such a      *)
(* value, or from an event that was timed itself.                          *)
(***************************************************************************)
Perfect(truth, exact, timed) ==
    [truth |-> IF timed THEN truth ELSE 0, exact |-> exact, timed |-> timed]

Total(x) == x.value * x.cpi + x.partial

\* The next update does not cut the value off.
Fits(x) ==
    LET value == x.value + (x.partial + x.elapsed) \div x.cpi IN
    x.stopped \/ (value < U16 /\ (x.mode.reset_on_target => value <= x.target))

Looked == Perfect(g.truth, g.exact /\ Fits(c), g.timed)

Assigned(x) == Perfect(Total(x), TRUE, TRUE)

\* The event was computed again, from x, and the result is y.
Updated(x, y) ==
    LET exact == g.exact /\ Fits(x) /\ (x.stopped /\ ~y.stopped => x.elapsed = 0)
    IN  Perfect(g.truth, exact, exact)
-----------------------------------------------------------------------------
Init ==
    /\ \E id \in Ids :
          c = [id |-> id, value |-> 0, target |-> 0, partial |-> 0, oneshot |-> FALSE,
               cpi |-> 1, sel |-> 0, event |-> "NONE", due |-> 0, elapsed |-> 0,
               stopped |-> FALSE, blank |-> FALSE, started |-> FALSE, irqs |-> 0,
               mode |-> [sync_enable |-> FALSE, sync_mode |-> 0,
                         reset_on_target |-> FALSE, irq_on_target |-> FALSE,
                         irq_on_ov |-> FALSE, irq_repeat |-> FALSE, irq_toggle |-> FALSE,
                         clock_src |-> 0, irq |-> FALSE, target_reached |-> FALSE,
                         ov_reached |-> FALSE]]
    /\ g = [truth |-> 0, exact |-> TRUE, timed |-> TRUE]

\* Callbacks run inside Advance, the guest between two of them.
GuestRuns == c.event = "NONE" \/ c.due > 0

\* m_count_partial is left alone.
WriteValue(value) ==
    LET x == [c EXCEPT !.value = value, !.elapsed = 0, !.started = TRUE] IN
    /\ GuestRuns
    /\ c' = UpdateEvents(x)
    /\ g' = Assigned(x)

WriteMode(m) ==
    LET x == [c EXCEPT
                !.value = 0, !.partial = 0, !.elapsed = 0, !.oneshot = FALSE,
                !.irqs = 0, !.started = TRUE,
                !.cpi = ComputeCyclesPerInc(c.id, m.clock_src, c.sel),
                !.mode = [sync_enable |-> m.sync_enable, sync_mode |-> m.sync_mode,
                          reset_on_target |-> m.reset_on_target,
                          irq_on_target |-> m.irq_on_target, irq_on_ov |-> m.irq_on_ov,
                          irq_repeat |-> m.irq_repeat, irq_toggle |-> m.irq_toggle,
                          clock_src |-> m.clock_src, irq |-> TRUE,
                          target_reached |-> c.mode.target_reached,
                          ov_reached |-> c.mode.ov_reached]]
    IN
    /\ GuestRuns
    /\ c' = UpdateEvents(x)
    /\ g' = Assigned(x)

WriteTarget(target) ==
    LET x == [c EXCEPT !.target = target, !.started = TRUE] IN
    /\ GuestRuns
    /\ c' = UpdateEvents(x)
    /\ g' = Updated(x, c')

ReadValue ==
    /\ GuestRuns
    /\ c' = UpdateCounter(c)
    /\ g' = Looked

ReadMode ==
    /\ GuestRuns
    /\ c' = [c EXCEPT !.mode.target_reached = FALSE, !.mode.ov_reached = FALSE]
    /\ UNCHANGED g

\* A new resolution.  The cycles since the last update count at the new rate.
SetDotclock(sel) ==
    LET x == [c EXCEPT !.sel = sel, !.cpi = DOT_CYCLES[sel], !.partial = 0] IN
    /\ GuestRuns
    /\ c.id = 0
    /\ IF Divided(0, c.mode.clock_src)
         THEN /\ c' = UpdateEvents(x)
              /\ g' = LET exact == g.exact /\ c.elapsed = 0
                      IN  Perfect(Total(x), exact, exact)
         ELSE /\ c' = [c EXCEPT !.sel = sel]
              /\ UNCHANGED g

\* What the start or the end of a blanking does to a synchronised counter.
Synchronised(x, blank) ==
    CASE x.mode.sync_mode = 0 -> [x EXCEPT !.stopped = blank]
      [] x.mode.sync_mode = 1 -> IF blank THEN [x EXCEPT !.value = 0] ELSE x
      [] x.mode.sync_mode = 2 -> IF blank THEN [x EXCEPT !.stopped = FALSE, !.value = 0]
                                          ELSE [x EXCEPT !.stopped = TRUE]
      [] x.mode.sync_mode = 3 -> IF blank THEN [x EXCEPT !.stopped = FALSE,
                                                         !.mode.sync_enable = FALSE]
                                          ELSE x

\* HBlank and HBlankEnd of counter 0, VBlank and VBlankEnd of counter 1: callbacks
\* of the GPU, which may come before an event of the counter that is due as well.
Blank(blank) ==
    LET x == UpdateCounter([c EXCEPT !.blank = blank])
        y == Synchronised(x, blank)
        reset == blank /\ c.mode.sync_mode \in {1, 2}
        exact == (reset \/ (g.exact /\ Fits(c)))
                   /\ (c.stopped /\ ~c'.stopped => c.elapsed = 0)
    IN
    /\ c.id # 2
    /\ c.blank # blank
    /\ IF c.mode.sync_enable
         THEN /\ c' = UpdateEvents(y)
              /\ g' = Perfect(IF reset THEN Total(y) ELSE g.truth, exact, exact)
         ELSE c' = x /\ g' = Looked

\* The GPU makes counter 1 look at the clock on every line.
UpdateFromTimestamp ==
    /\ c.id = 1
    /\ c' = UpdateCounter(c)
    /\ g' = Looked
-----------------------------------------------------------------------------
(***************************************************************************)
(* Time and the callbacks of the event.  Neither callback touches the      *)
(* timestamp of the last update.                                           *)
(***************************************************************************)
overflow_callback ==
    LET late == -c.due
        x == [FireIRQ(c, "OV") EXCEPT !.value = 0]
        till_ov == CyclesTillOverflow(x) - late
        till_target == CyclesTillTarget(x) - late
    IN
    /\ c.event = "OV" /\ c.due <= 0
    /\ c' = IF till_target > 0 /\ till_target < till_ov
               THEN Scheduled(x, "TARGET", till_target)
             ELSE IF c.target * c.cpi < late
               THEN Scheduled(FireIRQ(x, "TARGET"), "OV", till_ov)
               ELSE Scheduled(x, "OV", till_ov)
    /\ g' = Perfect(g.truth - U16 * c.cpi, FALSE, g.timed)

\* Bug: the next event is counted from now and not from the one that was due.
target_callback_drifts ==
    LET x == [FireIRQ(c, "TARGET") EXCEPT
                 !.value = IF c.mode.reset_on_target THEN 0 ELSE (c.target + 1) % U16]
        till_ov == CyclesTillOverflow(x)
        till_target == CyclesTillTarget(x)
    IN
    /\ c.event = "TARGET" /\ c.due <= 0
    /\ c' = IF till_target > 0 /\ till_target < till_ov
               THEN Scheduled(x, "TARGET", till_target) ELSE Scheduled(x, "OV", till_ov)
    /\ g' = Perfect(g.truth - c.target * c.cpi, FALSE, g.timed /\ c.mode.reset_on_target)

\* Without a reset the counter goes on at the target plus one, so the overflow
\* comes one increment early.
target_callback ==
    LET late == -c.due
        x == [FireIRQ(c, "TARGET") EXCEPT
                 !.value = IF c.mode.reset_on_target THEN 0 ELSE (c.target + 1) % U16]
        passed == CyclesTillOverflow(x) - late < 0
        y == IF passed THEN [FireIRQ(x, "OV") EXCEPT !.value = 0] ELSE x
        till_ov == IF passed THEN CyclesTillOverflow(y) ELSE CyclesTillOverflow(y) - late
        till_target == CyclesTillTarget(y) - late
    IN
    /\ c.event = "TARGET" /\ c.due <= 0
    /\ c' = IF till_target > 0 /\ till_target < till_ov
               THEN Scheduled(y, "TARGET", till_target) ELSE Scheduled(y, "OV", till_ov)
    /\ g' = Perfect(g.truth - c.target * c.cpi, FALSE, g.timed /\ c.mode.reset_on_target)

Advance(cycles) ==
    /\ GuestRuns
    /\ c.elapsed + cycles <= MaxElapsed
    /\ c.started \/ g.truth + cycles <= MaxElapsed
    /\ c' = [c EXCEPT !.elapsed = c.elapsed + cycles,
                      !.due = IF c.event = "NONE" THEN 0 ELSE c.due - cycles]
    /\ g' = Perfect(IF c.stopped THEN g.truth ELSE g.truth + cycles, g.exact, g.timed)

Next ==
    \/ \E value \in Values : WriteValue(value)
    \/ \E m \in Modes : WriteMode(m)
    \/ \E target \in Targets : WriteTarget(target)
    \/ ReadValue
    \/ ReadMode
    \/ \E sel \in DOMAIN DOT_CYCLES : SetDotclock(sel)
    \/ \E blank \in BOOLEAN : Blank(blank)
    \/ UpdateFromTimestamp
    \/ overflow_callback
    \/ target_callback
    \/ \E cycles \in 1..MaxStep : Advance(cycles)

Spec == Init /\ [][Next]_vars
-----------------------------------------------------------------------------
\* Every variable has its type, and the time until the event is neither wrapped
\* around nor longer than a full period.
TypeOK ==
    /\ c \in [id : Ids, value : 0..(U16 - 1), target : 0..(U16 - 1), partial : Nat,
              oneshot : BOOLEAN, cpi : Nat \ {0}, sel : 0..4,
              event : {"NONE", "OV", "TARGET"}, due : Int, elapsed : Nat,
              stopped : BOOLEAN, blank : BOOLEAN, started : BOOLEAN, irqs : 0..2,
              mode : [sync_enable : BOOLEAN, sync_mode : 0..3, reset_on_target : BOOLEAN,
                      irq_on_target : BOOLEAN, irq_on_ov : BOOLEAN, irq_repeat : BOOLEAN,
                      irq_toggle : BOOLEAN, clock_src : 0..3, irq : BOOLEAN,
                      target_reached : BOOLEAN, ov_reached : BOOLEAN]]
    /\ c.partial < c.cpi
    /\ -MaxStep < c.due /\ c.due <= U16 * c.cpi
    /\ g \in [truth : Int, exact : BOOLEAN, timed : BOOLEAN]

\* A counter that has been set up is stopped exactly when its synchronisation says
\* so, and has an event exactly when it is not stopped: FireIRQ never meets a
\* stopped counter, and no running counter waits for an event that was removed.
EventIffRunning ==
    c.started => /\ c.stopped <=> Halts(c)
                 /\ c.event = "NONE" <=> c.stopped

\* A counter that is not in repeat mode interrupts at most once until its mode is
\* written again, although both of its events go on firing.
OneshotOnce == ~c.mode.irq_repeat => c.irqs <= 1

\* Reads at any moment and at any rate lose and add no cycle: value and partial
\* count and the time since the last update add up to the cycles since the value
\* was set, as long as no event has fired and no pause has ended.
CountsEveryCycle ==
    g.exact => Total(c) + (IF c.stopped THEN 0 ELSE c.elapsed) = g.truth

\* The event of a counter that resets on its target, or that only overflows, comes
\* less than one increment after the perfect counter gets there, period after
\* period, however late the callbacks were.
EventOnTime ==
    g.timed /\ c.event # "NONE"
      => LET goal == IF c.event = "OV" THEN U16 * c.cpi ELSE c.target * c.cpi
         IN  g.truth + c.due - goal \in 0..(c.cpi - 1)

=============================================================================
