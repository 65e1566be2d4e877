-------------------------- MODULE RootCounterProofs --------------------------
(***************************************************************************)
(* Proofs about RootCounter, for every width of the counter, every clock   *)
(* rate and every length of an instruction.                                *)
(***************************************************************************)
EXTENDS RootCounter, TLAPS

ModeType ==
    [sync_enable : BOOLEAN, sync_mode : 0..3, reset_on_target : BOOLEAN,
     irq_on_target : BOOLEAN, irq_on_ov : BOOLEAN, irq_repeat : BOOLEAN,
     irq_toggle : BOOLEAN, clock_src : 0..3, irq : BOOLEAN,
     target_reached : BOOLEAN, ov_reached : BOOLEAN]

CType ==
    [id : Ids, value : 0..(U16 - 1), target : 0..(U16 - 1), partial : Nat,
     oneshot : BOOLEAN, cpi : Nat \ {0}, sel : 0..4,
     event : {"NONE", "OV", "TARGET"}, due : Int, elapsed : Nat,
     stopped : BOOLEAN, blank : BOOLEAN, started : BOOLEAN, irqs : 0..2,
     mode : ModeType]

\* Division with remainder.
LEMMA DivMod ==
    ASSUME NEW a \in Nat, NEW b \in Nat \ {0}
    PROVE  /\ a \div b \in Nat
           /\ a % b \in Nat /\ a % b < b
           /\ (a \div b) * b + (a % b) = a
<1>1. a \div b \in Nat
  OBVIOUS
<1>2. a % b \in Nat /\ a % b < b
  OBVIOUS
<1>3. (a \div b) * b + (a % b) = a
  OBVIOUS
<1> QED BY <1>1, <1>2, <1>3

LEMMA Remainder ==
    ASSUME NEW a \in Nat, NEW b \in Nat \ {0}, a < b
    PROVE  a % b = a
  OBVIOUS

LEMMA Product == \A a, b \in Nat : a * b \in Nat
  BY SMT

LEMMA Distributes ==
    ASSUME NEW a \in Int, NEW b \in Int, NEW k \in Int
    PROVE  /\ (a + b) * k = a * k + b * k
           /\ (a - b) * k = a * k - b * k
           /\ a * k \in Int
  BY SMT

LEMMA ProductMonotone ==
    ASSUME NEW a \in Nat, NEW b \in Nat, NEW k \in Nat \ {0}, a < b
    PROVE  a * k < b * k
<1> DEFINE d == b - a
           ak == a * k
           dk == d * k
<1>1. d \in Nat \ {0} /\ b = a + d
  OBVIOUS
<1>2. d * k >= 1
  BY <1>1
<1>3. b * k = ak + dk
  BY <1>1, Distributes
<1>4. ak \in Nat /\ dk \in Nat
  BY <1>1, Product
<1>5. dk >= 1
  BY <1>2
<1> HIDE DEF ak, dk
<1>6. ak < ak + dk
  BY <1>4, <1>5
<1> QED BY <1>3, <1>6 DEF ak

\* What bringing the value up to date leaves alone, and what it adds up to.
LEMMA UpdateCounterFacts ==
    ASSUME NEW x \in CType, x.partial < x.cpi
    PROVE  LET y == UpdateCounter(x) IN
           /\ y \in CType
           /\ y.partial < y.cpi
           /\ y.id = x.id /\ y.target = x.target /\ y.oneshot = x.oneshot
           /\ y.cpi = x.cpi /\ y.sel = x.sel /\ y.event = x.event /\ y.due = x.due
           /\ y.stopped = x.stopped /\ y.blank = x.blank /\ y.started = x.started
           /\ y.irqs = x.irqs /\ y.mode = x.mode
           /\ y.elapsed = IF x.stopped THEN x.elapsed ELSE 0
<1> DEFINE cycles == x.partial + x.elapsed
           v == (x.value + cycles \div x.cpi) % U16
           w == Clamped(x, v)
           y == [x EXCEPT !.partial = cycles % x.cpi, !.elapsed = 0, !.value = w]
<1>1. CASE x.stopped
  BY <1>1 DEF UpdateCounter, CType
<1>2. CASE ~x.stopped
  <2>1. cycles \in Nat /\ x.cpi \in Nat \ {0} /\ x.value \in Nat
    BY DEF CType
  <2>2. cycles \div x.cpi \in Nat /\ cycles % x.cpi \in Nat /\ cycles % x.cpi < x.cpi
    BY <2>1, DivMod
  <2>3. v \in Nat /\ v < U16
    <3> HIDE DEF cycles
    <3>1. x.value + cycles \div x.cpi \in Nat
      BY <2>1, <2>2
    <3>2. U16 \in Nat \ {0}
      BY CounterAssumption
    <3> QED BY <3>1, <3>2, DivMod
  <2>4. w \in 0..(U16 - 1)
    BY <2>3, CounterAssumption DEF Clamped, CType
  <2>5. UpdateCounter(x) = y
    BY <1>2 DEF UpdateCounter
  <2> HIDE DEF w, v, cycles
  <2>6. y \in CType
    BY <2>2, <2>4 DEF CType
  <2>7. /\ y.id = x.id /\ y.target = x.target /\ y.oneshot = x.oneshot
        /\ y.cpi = x.cpi /\ y.sel = x.sel /\ y.event = x.event /\ y.due = x.due
        /\ y.stopped = x.stopped /\ y.blank = x.blank /\ y.started = x.started
        /\ y.irqs = x.irqs /\ y.mode = x.mode
    BY DEF CType
  <2>8. y.partial = cycles % x.cpi /\ y.elapsed = 0
    BY DEF CType
  <2> HIDE DEF y
  <2> QED BY <1>2, <2>2, <2>5, <2>6, <2>7, <2>8
<1> QED BY <1>1, <1>2

\* A counter whose value is not cut off stands for the cycles it stood for before,
\* and for those since the last update.
LEMMA UpdateCounterTotal ==
    ASSUME NEW x \in CType, x.partial < x.cpi, Fits(x)
    PROVE  Total(UpdateCounter(x)) = Total(x) + (IF x.stopped THEN 0 ELSE x.elapsed)
<1> DEFINE cycles == x.partial + x.elapsed
           inc == cycles \div x.cpi
           y == UpdateCounter(x)
<1>1. CASE x.stopped
  <2>1. x.value * x.cpi + x.partial \in Int
    BY DEF CType
  <2> QED BY <1>1, <2>1 DEF UpdateCounter, Total
<1>2. CASE ~x.stopped
  <2>1. cycles \in Nat /\ x.cpi \in Nat \ {0} /\ x.value \in Nat /\ x.partial \in Nat
        /\ x.elapsed \in Nat
    BY DEF CType
  <2>2. inc \in Nat /\ inc * x.cpi + (cycles % x.cpi) = cycles
    BY <2>1, DivMod
  <2>3. x.value + inc < U16 /\ (x.mode.reset_on_target => x.value + inc <= x.target)
    BY <1>2 DEF Fits
  <2> HIDE DEF cycles, inc
  <2>4. (x.value + inc) % U16 = x.value + inc
    <3>1. x.value + inc \in Nat /\ U16 \in Nat \ {0}
      BY <2>1, <2>2, CounterAssumption
    <3> QED BY <3>1, <2>3, Remainder
  <2>5. Clamped(x, x.value + inc) = x.value + inc
    BY <2>1, <2>2, <2>3 DEF Clamped, CType
  <2>6. y = [x EXCEPT !.partial = cycles % x.cpi, !.elapsed = 0, !.value = x.value + inc]
    BY <1>2, <2>4, <2>5 DEF UpdateCounter, cycles, inc
  <2>7. y.value = x.value + inc /\ y.partial = cycles % x.cpi /\ y.cpi = x.cpi
    BY <2>6 DEF CType
  <2>8. (x.value + inc) * x.cpi = x.value * x.cpi + inc * x.cpi
    BY <2>1, <2>2, Distributes
  <2>9. x.value * x.cpi \in Nat /\ inc * x.cpi \in Nat /\ cycles % x.cpi \in Nat
    BY <2>1, <2>2, Product, DivMod
  <2>10. Total(y) = x.value * x.cpi + inc * x.cpi + (cycles % x.cpi)
    BY <2>7, <2>8 DEF Total
  <2>11. cycles = x.partial + x.elapsed
    BY DEF cycles
  <2>12. Total(y) = Total(x) + x.elapsed
    <3> DEFINE a == x.value * x.cpi
               b == inc * x.cpi
               r == cycles % x.cpi
               t == Total(y)
    <3>1. a \in Nat /\ b \in Nat /\ r \in Nat /\ b + r = cycles /\ t = a + b + r
      BY <2>2, <2>9, <2>10
    <3>2. Total(x) = a + x.partial
      BY DEF Total
    <3> HIDE DEF a, b, r, t
    <3>3. t = (a + x.partial) + x.elapsed
      BY <3>1, <2>1, <2>11
    <3> QED BY <3>2, <3>3 DEF t
  <2> QED BY <1>2, <2>12
<1> QED BY <1>1, <1>2 DEF CType

\* An event is placed.
LEMMA ScheduledFacts ==
    ASSUME NEW x \in CType, NEW e \in {"NONE", "OV", "TARGET"}, NEW d \in Int
    PROVE  LET y == Scheduled(x, e, d) IN
           /\ y \in CType
           /\ y.event = e /\ y.due = d
           /\ y.id = x.id /\ y.value = x.value /\ y.target = x.target
           /\ y.partial = x.partial /\ y.oneshot = x.oneshot /\ y.cpi = x.cpi
           /\ y.elapsed = x.elapsed /\ y.stopped = x.stopped /\ y.blank = x.blank
           /\ y.started = x.started /\ y.irqs = x.irqs /\ y.mode = x.mode
<1> DEFINE y == [x EXCEPT !.event = e, !.due = d]
<1>1. y \in CType
  BY DEF CType
<1>2. /\ y.event = e /\ y.due = d
      /\ y.id = x.id /\ y.value = x.value /\ y.target = x.target
      /\ y.partial = x.partial /\ y.oneshot = x.oneshot /\ y.cpi = x.cpi
      /\ y.elapsed = x.elapsed /\ y.stopped = x.stopped /\ y.blank = x.blank
      /\ y.started = x.started /\ y.irqs = x.irqs /\ y.mode = x.mode
  BY DEF CType
<1> HIDE DEF y
<1> QED BY <1>1, <1>2 DEF Scheduled, y

\* The distances to the events.
LEMMA Distances ==
    ASSUME NEW x \in CType
    PROVE  /\ CyclesTillOverflow(x) = U16 * x.cpi - x.value * x.cpi
           /\ CyclesTillOverflow(x) > 0 /\ CyclesTillOverflow(x) <= U16 * x.cpi
           /\ x.target >= x.value
                => CyclesTillTarget(x) = x.target * x.cpi - x.value * x.cpi
           /\ x.target > x.value => CyclesTillTarget(x) > 0
           /\ CyclesTillTarget(x) <= U16 * x.cpi
           /\ CyclesTillTarget(x) \in Int /\ CyclesTillOverflow(x) \in Int
           /\ U16 * x.cpi \in Nat /\ x.value * x.cpi \in Nat /\ x.target * x.cpi \in Nat
<1>1. x.value \in Nat /\ x.target \in Nat /\ x.cpi \in Nat \ {0} /\ U16 \in Nat
      /\ x.value < U16 /\ x.target < U16
  BY CounterAssumption DEF CType
<1>2. U16 * x.cpi \in Nat /\ x.value * x.cpi \in Nat /\ x.target * x.cpi \in Nat
  BY <1>1, Product
<1>3. (U16 - x.value) * x.cpi = U16 * x.cpi - x.value * x.cpi
  BY <1>1, Distributes
<1>4. (x.target - x.value) * x.cpi = x.target * x.cpi - x.value * x.cpi
  BY <1>1, Distributes
<1>6. x.value * x.cpi < U16 * x.cpi /\ x.target * x.cpi < U16 * x.cpi
      /\ (x.target > x.value => x.value * x.cpi < x.target * x.cpi)
  <2>1. x.value * x.cpi < U16 * x.cpi
    BY <1>1, ProductMonotone
  <2>2. x.target * x.cpi < U16 * x.cpi
    BY <1>1, ProductMonotone
  <2>3. x.target > x.value => x.value * x.cpi < x.target * x.cpi
    BY <1>1, ProductMonotone
  <2> QED BY <2>1, <2>2, <2>3
<1>7. CyclesTillOverflow(x) = U16 * x.cpi - x.value * x.cpi
  BY <1>3 DEF CyclesTillOverflow
<1>8. /\ x.target >= x.value
            => CyclesTillTarget(x) = x.target * x.cpi - x.value * x.cpi
      /\ x.target < x.value => CyclesTillTarget(x) = 0
  BY <1>1, <1>4 DEF CyclesTillTarget
<1> QED BY <1>1, <1>2, <1>6, <1>7, <1>8

\* What the event of x stands for, in cycles.
GoalOf(x) == IF x.event = "OV" THEN U16 * x.cpi ELSE x.target * x.cpi

\* The members that no update of the event changes.
SameSetup(x, y) ==
    /\ y.id = x.id /\ y.target = x.target /\ y.oneshot = x.oneshot /\ y.cpi = x.cpi
    /\ y.blank = x.blank /\ y.started = x.started /\ y.irqs = x.irqs
    /\ y.mode.sync_enable = x.mode.sync_enable /\ y.mode.sync_mode = x.mode.sync_mode
    /\ y.mode.reset_on_target = x.mode.reset_on_target
    /\ y.mode.irq_repeat = x.mode.irq_repeat
    /\ y.mode.clock_src = x.mode.clock_src

\* A counter that runs, with its target passed or not.
LEMMA RunningFacts ==
    ASSUME NEW x \in CType
    PROVE  LET r == [x EXCEPT !.stopped = FALSE]
               t == [r EXCEPT !.mode.target_reached = TRUE] IN
           /\ r \in CType /\ SameSetup(x, r) /\ ~r.stopped /\ r.value = x.value
           /\ r.partial = x.partial /\ r.elapsed = x.elapsed
           /\ t \in CType /\ SameSetup(x, t) /\ ~t.stopped /\ t.value = x.value
           /\ t.partial = x.partial /\ t.elapsed = x.elapsed
<1> DEFINE r == [x EXCEPT !.stopped = FALSE]
           n == [r.mode EXCEPT !.target_reached = TRUE]
           t == [r EXCEPT !.mode = n]
<1>1. r \in CType
  BY DEF CType
<1>2. SameSetup(x, r) /\ ~r.stopped /\ r.value = x.value
      /\ r.partial = x.partial /\ r.elapsed = x.elapsed
  BY DEF CType, SameSetup
<1> HIDE DEF r
<1>3. r.mode \in ModeType
  BY <1>1 DEF CType
<1>4. n \in ModeType
  BY <1>3 DEF ModeType
<1>5. /\ n.sync_enable = r.mode.sync_enable /\ n.sync_mode = r.mode.sync_mode
      /\ n.reset_on_target = r.mode.reset_on_target /\ n.irq_repeat = r.mode.irq_repeat
      /\ n.clock_src = r.mode.clock_src
  BY <1>3 DEF ModeType
<1> HIDE DEF n
<1>6. t \in CType
  BY <1>1, <1>4 DEF CType
<1>7. /\ t.id = r.id /\ t.target = r.target /\ t.oneshot = r.oneshot /\ t.cpi = r.cpi
      /\ t.blank = r.blank /\ t.started = r.started /\ t.irqs = r.irqs
      /\ t.mode = n /\ t.stopped = r.stopped /\ t.value = r.value
      /\ t.partial = r.partial /\ t.elapsed = r.elapsed
  BY <1>1 DEF CType
<1>8. t = [r EXCEPT !.mode.target_reached = TRUE]
  BY DEF n
<1> HIDE DEF t
<1>9. SameSetup(x, t)
  BY <1>2, <1>5, <1>7 DEF SameSetup
<1> QED BY <1>1, <1>2, <1>6, <1>7, <1>8, <1>9 DEF r

\* The event that is computed from a value is as far away as the value is from its
\* goal.
LEMMA RescheduledFacts ==
    ASSUME NEW x \in CType
    PROVE  LET y == Rescheduled(x) IN
           /\ y \in CType /\ SameSetup(x, y)
           /\ ~y.stopped /\ y.event \in {"OV", "TARGET"}
           /\ y.value = x.value /\ y.partial = x.partial /\ y.elapsed = x.elapsed
           /\ y.due = GoalOf(y) - y.value * y.cpi
           /\ y.due > 0 /\ y.due <= U16 * y.cpi
<1> DEFINE r == [x EXCEPT !.stopped = FALSE]
           t == [r EXCEPT !.mode.target_reached = TRUE]
           y == Rescheduled(x)
<1>1. /\ r \in CType /\ SameSetup(x, r) /\ ~r.stopped /\ r.value = x.value
      /\ r.partial = x.partial /\ r.elapsed = x.elapsed
      /\ t \in CType /\ SameSetup(x, t) /\ ~t.stopped /\ t.value = x.value
      /\ t.partial = x.partial /\ t.elapsed = x.elapsed
  BY RunningFacts
<1>2. PICK z \in {r, t} :
          \/ y = Scheduled(z, "OV", CyclesTillOverflow(x))
          \/ x.target > x.value /\ y = Scheduled(z, "TARGET", CyclesTillTarget(x))
  <2>1. x.target \in Int /\ x.value \in Int
    BY DEF CType
  <2> QED BY <2>1 DEF Rescheduled
<1>3. /\ z \in CType /\ SameSetup(x, z) /\ ~z.stopped /\ z.value = x.value
      /\ z.partial = x.partial /\ z.elapsed = x.elapsed
  BY <1>1, <1>2
<1> HIDE DEF r, t, y
<1>4. CASE y = Scheduled(z, "OV", CyclesTillOverflow(x))
  <2>1. CyclesTillOverflow(x) \in Int
    BY Distances
  <2>2. /\ y \in CType
        /\ y.event = "OV" /\ y.due = CyclesTillOverflow(x)
        /\ SameSetup(z, y) /\ y.value = z.value /\ y.partial = z.partial
        /\ y.elapsed = z.elapsed /\ y.stopped = z.stopped
    BY <1>3, <1>4, <2>1, ScheduledFacts, SMTT(30) DEF SameSetup
  <2>3. GoalOf(y) = U16 * x.cpi /\ y.cpi = x.cpi /\ y.value = x.value
    BY <1>3, <2>2 DEF GoalOf, SameSetup
  <2>4. y.due = GoalOf(y) - y.value * y.cpi
    BY <2>2, <2>3, Distances
  <2>5. y.due > 0 /\ y.due <= U16 * y.cpi
    BY <2>2, <2>3, Distances
  <2>6. SameSetup(x, y)
    BY <1>3, <2>2 DEF SameSetup
  <2> QED BY <1>3, <2>2, <2>4, <2>5, <2>6 DEF y
<1>5. CASE x.target > x.value /\ y = Scheduled(z, "TARGET", CyclesTillTarget(x))
  <2>1. CyclesTillTarget(x) \in Int
    BY Distances
  <2>2. /\ y \in CType
        /\ y.event = "TARGET" /\ y.due = CyclesTillTarget(x)
        /\ SameSetup(z, y) /\ y.value = z.value /\ y.partial = z.partial
        /\ y.elapsed = z.elapsed /\ y.stopped = z.stopped
    BY <1>3, <1>5, <2>1, ScheduledFacts, SMTT(30) DEF SameSetup
  <2>3. GoalOf(y) = x.target * x.cpi /\ y.cpi = x.cpi /\ y.value = x.value
    BY <1>3, <2>2 DEF GoalOf, SameSetup
  <2>4. x.target >= x.value
    BY <1>5 DEF CType
  <2>5. y.due = GoalOf(y) - y.value * y.cpi
    BY <2>2, <2>3, <2>4, Distances
  <2>6. y.due > 0 /\ y.due <= U16 * y.cpi
    BY <1>5, <2>2, <2>3, Distances
  <2>7. SameSetup(x, y)
    BY <1>3, <2>2 DEF SameSetup
  <2> QED BY <1>3, <2>2, <2>5, <2>6, <2>7 DEF y
<1> QED BY <1>2, <1>4, <1>5

LEMMA HaltsSame ==
    ASSUME NEW x, NEW y, SameSetup(x, y)
    PROVE  Halts(y) <=> Halts(x)
  BY DEF SameSetup, Halts

\* The value the event is computed from.
Synced(x) == IF x.elapsed = 0 THEN x ELSE UpdateCounter(x)

LEMMA SyncedFacts ==
    ASSUME NEW x \in CType, x.partial < x.cpi
    PROVE  LET z == Synced(x) IN
           /\ z \in CType /\ z.partial < z.cpi /\ SameSetup(x, z)
           /\ z.stopped = x.stopped
           /\ z.elapsed = (IF x.stopped THEN x.elapsed ELSE 0)
           /\ x.stopped \/ x.elapsed = 0 => z = x
<1>1. CASE x.elapsed = 0
  BY <1>1 DEF Synced, SameSetup
<1>2. CASE x.elapsed # 0
  <2>1. Synced(x) = UpdateCounter(x)
    BY <1>2 DEF Synced
  <2>2. x.stopped => UpdateCounter(x) = x
    BY DEF UpdateCounter
  <2>3. SameSetup(x, UpdateCounter(x))
    BY UpdateCounterFacts DEF SameSetup
  <2> QED BY <1>2, <2>1, <2>2, <2>3, UpdateCounterFacts
<1> QED BY <1>1, <1>2

\* A counter that stops gives its event up.
LEMMA HaltedFacts ==
    ASSUME NEW x \in CType
    PROVE  LET h == [Scheduled(x, "NONE", 0) EXCEPT !.stopped = TRUE] IN
           /\ h \in CType
           /\ h.event = "NONE" /\ h.due = 0 /\ SameSetup(x, h) /\ h.stopped = TRUE
           /\ h.value = x.value /\ h.partial = x.partial /\ h.elapsed = x.elapsed
           /\ h.cpi = x.cpi
<1> DEFINE s == Scheduled(x, "NONE", 0)
           h == [s EXCEPT !.stopped = TRUE]
<1>0. 0 \in Int /\ "NONE" \in {"NONE", "OV", "TARGET"}
  OBVIOUS
<1>1. s \in CType
  BY <1>0, ScheduledFacts
<1>2. /\ s.event = "NONE" /\ s.due = 0
      /\ s.id = x.id /\ s.value = x.value /\ s.target = x.target
      /\ s.partial = x.partial /\ s.oneshot = x.oneshot /\ s.cpi = x.cpi
      /\ s.elapsed = x.elapsed /\ s.blank = x.blank
      /\ s.started = x.started /\ s.irqs = x.irqs /\ s.mode = x.mode
  BY <1>0, ScheduledFacts
<1> HIDE DEF s
<1>4. h \in CType
  BY <1>1 DEF CType
<1>5. /\ h.event = s.event /\ h.due = s.due /\ h.stopped = TRUE
      /\ h.id = s.id /\ h.value = s.value /\ h.target = s.target
      /\ h.partial = s.partial /\ h.oneshot = s.oneshot /\ h.cpi = s.cpi
      /\ h.elapsed = s.elapsed /\ h.blank = s.blank
      /\ h.started = s.started /\ h.irqs = s.irqs /\ h.mode = s.mode
  BY <1>1 DEF CType
<1> HIDE DEF h
<1>6. SameSetup(x, h)
  BY <1>2, <1>5 DEF SameSetup
<1> QED BY <1>2, <1>4, <1>5, <1>6 DEF h, s

\* After an update of the event the counter is stopped exactly if it has to be, and
\* has an event exactly if it is not stopped.
LEMMA UpdateEventsFacts ==
    ASSUME NEW x \in CType, x.partial < x.cpi
    PROVE  LET y == UpdateEvents(x)
               z == Synced(x) IN
           /\ y \in CType /\ y.partial < y.cpi /\ SameSetup(x, y)
           /\ y.stopped <=> Halts(y)
           /\ y.event = "NONE" <=> y.stopped
           /\ y.value = z.value /\ y.partial = z.partial /\ y.cpi = z.cpi
           /\ y.elapsed = z.elapsed
           /\ ~y.stopped => y.due = GoalOf(y) - y.value * y.cpi
           /\ y.due >= 0 /\ y.due <= U16 * y.cpi
<1> DEFINE y == UpdateEvents(x)
           z == Synced(x)
           h == [Scheduled(z, "NONE", 0) EXCEPT !.stopped = TRUE]
<1>1. /\ z \in CType /\ z.partial < z.cpi /\ SameSetup(x, z)
  BY SyncedFacts
<1>2. y = IF Halts(z) THEN h ELSE Rescheduled(z)
  BY DEF UpdateEvents, Synced
<1> HIDE DEF y, z
<1>3. CASE Halts(z)
  <2>2. h \in CType
    BY <1>1, HaltedFacts
  <2>3. /\ h.event = "NONE" /\ h.due = 0 /\ SameSetup(z, h) /\ h.stopped = TRUE
        /\ h.value = z.value /\ h.partial = z.partial /\ h.elapsed = z.elapsed
        /\ h.cpi = z.cpi
    BY <1>1, HaltedFacts
  <2>4. y = h
    BY <1>2, <1>3
  <2> HIDE DEF h
  <2>5. SameSetup(x, h)
    BY <1>1, <2>3 DEF SameSetup
  <2>6. Halts(h)
    BY <1>3, <2>3, HaltsSame
  <2>7. U16 * h.cpi \in Nat
    BY <2>2, Distances
  <2>8. 0 <= U16 * h.cpi
    BY <2>7
  <2> QED BY <1>1, <2>2, <2>3, <2>4, <2>5, <2>6, <2>8 DEF y, z
<1>4. CASE ~Halts(z)
  <2>1. y = Rescheduled(z)
    BY <1>2, <1>4
  <2>2. /\ y \in CType /\ SameSetup(z, y)
        /\ ~y.stopped /\ y.event \in {"OV", "TARGET"}
        /\ y.value = z.value /\ y.partial = z.partial /\ y.elapsed = z.elapsed
        /\ y.due = GoalOf(y) - y.value * y.cpi
        /\ y.due > 0 /\ y.due <= U16 * y.cpi
    BY <1>1, <2>1, RescheduledFacts
  <2>3. SameSetup(x, y) /\ y.cpi = z.cpi
    BY <1>1, <2>2 DEF SameSetup
  <2>4. ~Halts(y)
    BY <1>4, <2>2, HaltsSame
  <2>5. y.due >= 0
    BY <2>2 DEF CType
  <2> QED BY <1>1, <2>2, <2>3, <2>4, <2>5 DEF y, z
<1> QED BY <1>3, <1>4

\* What an interrupt leaves alone.
SameCount(x, y) ==
    /\ y.id = x.id /\ y.value = x.value /\ y.target = x.target /\ y.partial = x.partial
    /\ y.cpi = x.cpi /\ y.elapsed = x.elapsed /\ y.stopped = x.stopped
    /\ y.blank = x.blank /\ y.started = x.started
    /\ y.mode.sync_enable = x.mode.sync_enable /\ y.mode.sync_mode = x.mode.sync_mode
    /\ y.mode.reset_on_target = x.mode.reset_on_target
    /\ y.mode.irq_repeat = x.mode.irq_repeat
    /\ y.mode.clock_src = x.mode.clock_src

\* In one-shot mode an interrupt leaves its trace.
OneshotInv(x) == ~x.mode.irq_repeat => x.irqs = 0 \/ (x.irqs = 1 /\ x.oneshot)

LEMMA ReachedFacts ==
    ASSUME NEW x \in CType, NEW source
    PROVE  LET y == Reached(x, source) IN
           y \in CType /\ SameCount(x, y) /\ y.oneshot = x.oneshot /\ y.irqs = x.irqs
<1> DEFINE n == [x.mode EXCEPT !.target_reached = TRUE]
           o == [x.mode EXCEPT !.ov_reached = TRUE]
           y(k) == [x EXCEPT !.mode = k]
<1>0. x.mode \in ModeType
  BY DEF CType
<1>1. n \in ModeType /\ o \in ModeType
  BY <1>0 DEF ModeType
<1>2. \A k \in {n, o} :
        /\ k.sync_enable = x.mode.sync_enable /\ k.sync_mode = x.mode.sync_mode
        /\ k.reset_on_target = x.mode.reset_on_target
        /\ k.irq_repeat = x.mode.irq_repeat /\ k.clock_src = x.mode.clock_src
  BY <1>0 DEF ModeType
<1>3. Reached(x, source) \in {y(n), y(o)}
  BY DEF Reached
<1> HIDE DEF n, o
<1>4. ASSUME NEW k \in {n, o}
      PROVE  /\ y(k) \in CType /\ SameCount(x, y(k)) /\ y(k).oneshot = x.oneshot
             /\ y(k).irqs = x.irqs
  <2>1. k \in ModeType
    BY <1>1
  <2>2. y(k) \in CType
    BY <2>1 DEF CType
  <2>3. /\ y(k).id = x.id /\ y(k).value = x.value /\ y(k).target = x.target
        /\ y(k).partial = x.partial /\ y(k).cpi = x.cpi /\ y(k).elapsed = x.elapsed
        /\ y(k).stopped = x.stopped /\ y(k).blank = x.blank /\ y(k).started = x.started
        /\ y(k).mode = k /\ y(k).oneshot = x.oneshot /\ y(k).irqs = x.irqs
    BY DEF CType
  <2> HIDE DEF y
  <2> QED BY <1>2, <2>2, <2>3 DEF SameCount
<1> HIDE DEF y
<1> QED BY <1>3, <1>4

\* Either nothing but a flag changes, or an interrupt is requested and in one-shot
\* mode remembered.
LEMMA FireFacts ==
    ASSUME NEW x \in CType, NEW source, OneshotInv(x)
    PROVE  LET y == FireIRQ(x, source) IN
           y \in CType /\ SameCount(x, y) /\ OneshotInv(y)
<1> DEFINE line == x.mode.irq_toggle /\ ~x.mode.irq
           r == Reached(x, source)
           n == [r.mode EXCEPT !.irq = line]
           s == x.oneshot \/ ~x.mode.irq_repeat
           i == IF line \/ x.irqs = 2 THEN x.irqs ELSE x.irqs + 1
           y == [r EXCEPT !.oneshot = s, !.mode = n, !.irqs = i]
<1>1. r \in CType /\ SameCount(x, r) /\ r.oneshot = x.oneshot /\ r.irqs = x.irqs
  BY ReachedFacts
<1>2. CASE x.stopped
  <2>1. FireIRQ(x, source) = x
    BY <1>2 DEF FireIRQ
  <2> QED BY <2>1 DEF SameCount
<1>3. CASE ~x.stopped /\ (~Enabled(x, source) \/ (~x.mode.irq_repeat /\ x.oneshot))
  <2>1. FireIRQ(x, source) = r
    BY <1>3 DEF FireIRQ
  <2> HIDE DEF r
  <2>2. OneshotInv(r)
    BY <1>1 DEF OneshotInv, SameCount
  <2> QED BY <1>1, <2>1, <2>2
<1>4. CASE ~x.stopped /\ ~(~Enabled(x, source) \/ (~x.mode.irq_repeat /\ x.oneshot))
  <2>1. FireIRQ(x, source) = y
    BY <1>4 DEF FireIRQ
  <2> HIDE DEF r
  <2>2. /\ r.mode \in ModeType /\ x.mode.irq_repeat \in BOOLEAN /\ x.oneshot \in BOOLEAN
        /\ line \in BOOLEAN /\ x.irqs \in 0..2
    BY <1>1 DEF CType, ModeType
  <2>3. n \in ModeType
    BY <2>2 DEF ModeType
  <2>4. /\ n.sync_enable = r.mode.sync_enable /\ n.sync_mode = r.mode.sync_mode
        /\ n.reset_on_target = r.mode.reset_on_target
        /\ n.irq_repeat = r.mode.irq_repeat /\ n.clock_src = r.mode.clock_src
    BY <2>2 DEF ModeType
  <2>5. s \in BOOLEAN
    BY <2>2
  <2>6. i \in 0..2
    BY <2>2
  <2>7. ~x.mode.irq_repeat => s = TRUE /\ (i = 0 \/ i = 1)
    <3>1. ~x.mode.irq_repeat => x.irqs = 0
      BY <1>4 DEF OneshotInv
    <3>2. x.irqs = 0 => i = 0 \/ i = 1
      BY <2>2
    <3>3. ~x.mode.irq_repeat => s = TRUE
      BY <2>2
    <3> HIDE DEF i, s
    <3> QED BY <3>1, <3>2, <3>3
  <2> HIDE DEF n, s, i
  <2>8. y \in CType
    BY <1>1, <2>3, <2>5, <2>6 DEF CType
  <2>9. /\ y.id = r.id /\ y.value = r.value /\ y.target = r.target
        /\ y.partial = r.partial /\ y.cpi = r.cpi /\ y.elapsed = r.elapsed
        /\ y.stopped = r.stopped /\ y.blank = r.blank /\ y.started = r.started
        /\ y.mode = n /\ y.oneshot = s /\ y.irqs = i
    BY <1>1 DEF CType
  <2> HIDE DEF y
  <2>10. SameCount(x, y)
    BY <1>1, <2>4, <2>9 DEF SameCount
  <2>11. OneshotInv(y)
    BY <1>1, <2>4, <2>7, <2>9 DEF OneshotInv, SameCount
  <2> QED BY <2>1, <2>8, <2>10, <2>11
<1> QED BY <1>2, <1>3, <1>4

(***************************************************************************)
(* The invariant: a counter that was never set up is idle, one that was    *)
(* has an event exactly if it runs.                                        *)
(***************************************************************************)
Idle(x) ==
    /\ ~x.mode.sync_enable /\ x.mode.clock_src = 0
    /\ ~x.stopped /\ x.event = "NONE"

StateOK(x) ==
    /\ x \in CType /\ x.partial < x.cpi
    /\ x.started => /\ x.stopped <=> Halts(x)
                    /\ x.event = "NONE" <=> x.stopped
    /\ ~x.started => Idle(x)
    /\ OneshotInv(x)

\* Computing the event again makes the invariant true.
LEMMA UpdateEventsOK ==
    ASSUME NEW x \in CType, x.partial < x.cpi, x.started, OneshotInv(x)
    PROVE  StateOK(UpdateEvents(x))
<1> DEFINE y == UpdateEvents(x)
<1>1. /\ y \in CType /\ y.partial < y.cpi /\ SameSetup(x, y)
      /\ y.stopped <=> Halts(y)
      /\ y.event = "NONE" <=> y.stopped
  BY UpdateEventsFacts
<1> HIDE DEF y
<1>2. OneshotInv(y)
  BY <1>1 DEF OneshotInv, SameSetup
<1>3. y.started
  BY <1>1 DEF SameSetup
<1>4. StateOK(y)
  BY <1>1, <1>2, <1>3 DEF StateOK
<1> QED BY <1>4 DEF y

\* Bringing the value up to date keeps it.
LEMMA UpdateCounterOK ==
    ASSUME NEW x, StateOK(x)
    PROVE  StateOK(UpdateCounter(x))
<1> DEFINE y == UpdateCounter(x)
<1>1. /\ y \in CType
      /\ y.partial < y.cpi
      /\ y.id = x.id /\ y.oneshot = x.oneshot /\ y.event = x.event
      /\ y.stopped = x.stopped /\ y.blank = x.blank /\ y.started = x.started
      /\ y.irqs = x.irqs /\ y.mode = x.mode
  BY UpdateCounterFacts DEF StateOK
<1> HIDE DEF y
<1>2. Halts(y) <=> Halts(x)
  BY <1>1 DEF Halts
<1>3. OneshotInv(y)
  BY <1>1 DEF OneshotInv, StateOK
<1>4. StateOK(y)
  BY <1>1, <1>2, <1>3 DEF StateOK, Idle
<1> QED BY <1>4 DEF y

\* A counter that runs, whatever its value.
Runs(x) ==
    /\ x \in CType /\ x.partial < x.cpi
    /\ x.started /\ ~x.stopped /\ ~Halts(x)
    /\ OneshotInv(x)

LEMMA RunsFires ==
    ASSUME NEW x, NEW source, NEW v \in 0..(U16 - 1), Runs(x)
    PROVE  /\ Runs(FireIRQ(x, source))
           /\ Runs([FireIRQ(x, source) EXCEPT !.value = v])
<1> DEFINE f == FireIRQ(x, source)
           y == [f EXCEPT !.value = v]
<1>1. f \in CType /\ SameCount(x, f) /\ OneshotInv(f)
  BY FireFacts DEF Runs
<1> HIDE DEF f
<1>2. Halts(f) <=> Halts(x)
  BY <1>1 DEF Halts, SameCount
<1>3. Runs(f)
  BY <1>1, <1>2 DEF Runs, SameCount
<1>4. y \in CType
  BY <1>1 DEF CType
<1>5. /\ y.id = f.id /\ y.partial = f.partial /\ y.cpi = f.cpi /\ y.started = f.started
      /\ y.stopped = f.stopped /\ y.blank = f.blank /\ y.mode = f.mode
      /\ y.oneshot = f.oneshot /\ y.irqs = f.irqs
  BY <1>1 DEF CType
<1> HIDE DEF y
<1>6. Halts(y) <=> Halts(f)
  BY <1>5 DEF Halts
<1>7. OneshotInv(y)
  BY <1>1, <1>5 DEF OneshotInv
<1>8. Runs(y)
  BY <1>3, <1>4, <1>5, <1>6, <1>7 DEF Runs
<1> QED BY <1>3, <1>8 DEF f, y

\* A running counter that gets its next event.
LEMMA RunsScheduled ==
    ASSUME NEW x, NEW e \in {"OV", "TARGET"}, NEW d \in Int, Runs(x)
    PROVE  StateOK(Scheduled(x, e, d))
<1> DEFINE y == Scheduled(x, e, d)
<1>1. /\ y \in CType /\ y.event = e
      /\ y.id = x.id /\ y.partial = x.partial /\ y.oneshot = x.oneshot
      /\ y.cpi = x.cpi /\ y.stopped = x.stopped /\ y.blank = x.blank
      /\ y.started = x.started /\ y.irqs = x.irqs /\ y.mode = x.mode
  <2>1. x \in CType /\ e \in {"NONE", "OV", "TARGET"}
    BY DEF Runs
  <2> QED BY <2>1, ScheduledFacts, SMTT(30)
<1> HIDE DEF y
<1>2. Halts(y) <=> Halts(x)
  BY <1>1 DEF Halts
<1>3. OneshotInv(y)
  BY <1>1 DEF OneshotInv, Runs
<1>4. e # "NONE"
  OBVIOUS
<1>5. StateOK(y)
  BY <1>1, <1>2, <1>3, <1>4 DEF StateOK, Runs
<1> QED BY <1>5 DEF y

(***************************************************************************)
(* Every action keeps it.                                                  *)
(***************************************************************************)
LEMMA InitOK == Init => StateOK(c)
<1> SUFFICES ASSUME Init PROVE StateOK(c)
  OBVIOUS
<1>1. PICK id \in Ids :
          c = [id |-> id, value |-> 0, target |-> 0, partial |-> 0, oneshot |-> FALSE,
               cpi |-> 1, sel |-> 0, event |-> "NONE", due |-> 0, elapsed |-> 0,
               stopped |-> FALSE, blank |-> FALSE, started |-> FALSE, irqs |-> 0,
               mode |-> [sync_enable |-> FALSE, sync_mode |-> 0,
                         reset_on_target |-> FALSE, irq_on_target |-> FALSE,
                         irq_on_ov |-> FALSE, irq_repeat |-> FALSE, irq_toggle |-> FALSE,
                         clock_src |-> 0, irq |-> FALSE, target_reached |-> FALSE,
                         ov_reached |-> FALSE]]
  BY DEF Init
<1>2. c \in CType
  BY <1>1, CounterAssumption DEF CType, ModeType
<1>3. c.partial < c.cpi /\ ~c.started /\ Idle(c) /\ OneshotInv(c)
  BY <1>1 DEF Idle, OneshotInv
<1> QED BY <1>2, <1>3 DEF StateOK

\* WriteValue.
LEMMA WriteValueOK ==
    ASSUME StateOK(c), NEW value \in Values, WriteValue(value)
    PROVE  StateOK(c')
<1> DEFINE x == [c EXCEPT !.value = value, !.elapsed = 0, !.started = TRUE]
<1>1. c \in CType /\ value \in 0..(U16 - 1)
  BY CounterAssumption DEF StateOK
<1>2. x \in CType
  BY <1>1 DEF CType
<1>3. /\ x.partial = c.partial /\ x.cpi = c.cpi /\ x.started = TRUE
      /\ x.mode = c.mode /\ x.irqs = c.irqs /\ x.oneshot = c.oneshot
  BY <1>1 DEF CType
<1>4. c' = UpdateEvents(x)
  BY DEF WriteValue
<1> HIDE DEF x
<1>5. OneshotInv(x) /\ x.partial < x.cpi
  BY <1>3 DEF OneshotInv, StateOK
<1> QED BY <1>2, <1>3, <1>4, <1>5, UpdateEventsOK

\* WriteTarget.
LEMMA WriteTargetOK ==
    ASSUME StateOK(c), NEW target \in Targets, WriteTarget(target)
    PROVE  StateOK(c')
<1> DEFINE x == [c EXCEPT !.target = target, !.started = TRUE]
<1>1. c \in CType /\ target \in 0..(U16 - 1)
  BY CounterAssumption DEF StateOK
<1>2. x \in CType
  BY <1>1 DEF CType
<1>3. /\ x.partial = c.partial /\ x.cpi = c.cpi /\ x.started = TRUE
      /\ x.mode = c.mode /\ x.irqs = c.irqs /\ x.oneshot = c.oneshot
  BY <1>1 DEF CType
<1>4. c' = UpdateEvents(x)
  BY DEF WriteTarget
<1> HIDE DEF x
<1>5. OneshotInv(x) /\ x.partial < x.cpi
  BY <1>3 DEF OneshotInv, StateOK
<1> QED BY <1>2, <1>3, <1>4, <1>5, UpdateEventsOK

LEMMA CyclesPerInc ==
    ASSUME NEW id, NEW clock_src, NEW sel \in 0..4
    PROVE  ComputeCyclesPerInc(id, clock_src, sel) \in Nat \ {0}
  BY CounterAssumption DEF ComputeCyclesPerInc

\* WriteMode.
LEMMA WriteModeOK ==
    ASSUME StateOK(c), NEW m \in Modes, WriteMode(m)
    PROVE  StateOK(c')
<1> DEFINE n == [sync_enable |-> m.sync_enable, sync_mode |-> m.sync_mode,
                 reset_on_target |-> m.reset_on_target,
                 irq_on_target |-> m.irq_on_target, irq_on_ov |-> m.irq_on_ov,
                 irq_repeat |-> m.irq_repeat, irq_toggle |-> m.irq_toggle,
                 clock_src |-> m.clock_src, irq |-> TRUE,
                 target_reached |-> c.mode.target_reached,
                 ov_reached |-> c.mode.ov_reached]
           k == ComputeCyclesPerInc(c.id, m.clock_src, c.sel)
           zero == 0
           no == FALSE
           yes == TRUE
           x == [c EXCEPT !.value = zero, !.partial = zero, !.elapsed = zero,
                          !.oneshot = no, !.irqs = zero, !.started = yes, !.cpi = k,
                          !.mode = n]
<1>1. c \in CType /\ m \in Mode /\ c.mode \in ModeType /\ c.sel \in 0..4
      /\ 0 \in 0..(U16 - 1)
  BY CounterAssumption DEF StateOK, CType
<1>2. n \in ModeType
  BY <1>1 DEF ModeType, Mode
<1>3. k \in Nat \ {0}
  BY <1>1, CyclesPerInc
<1>4. c' = UpdateEvents(x)
  BY DEF WriteMode
<1>5. /\ zero = 0 /\ zero \in 0..(U16 - 1) /\ zero \in Nat /\ zero \in 0..2
      /\ no \in BOOLEAN /\ yes \in BOOLEAN /\ yes
  BY <1>1
<1> HIDE DEF n, k, zero, no, yes
<1>6. x \in CType
  BY <1>1, <1>2, <1>3, <1>5, ZenonT(40) DEF CType
<1>8. x.partial = zero /\ x.cpi = k /\ x.started = yes /\ x.irqs = zero
  BY <1>1 DEF CType
<1> HIDE DEF x
<1>7. OneshotInv(x) /\ x.partial < x.cpi
  BY <1>3, <1>5, <1>8 DEF OneshotInv
<1> QED BY <1>4, <1>5, <1>6, <1>7, <1>8, UpdateEventsOK

\* ReadMode.
LEMMA ReadModeOK ==
    ASSUME StateOK(c), ReadMode
    PROVE  StateOK(c')
<1> DEFINE n == [c.mode EXCEPT !.target_reached = FALSE, !.ov_reached = FALSE]
           x == [c EXCEPT !.mode = n]
<1>1. c \in CType /\ c.mode \in ModeType
  BY DEF StateOK, CType
<1>2. n \in ModeType
  BY <1>1 DEF ModeType
<1>3. /\ n.sync_enable = c.mode.sync_enable /\ n.sync_mode = c.mode.sync_mode
      /\ n.irq_repeat = c.mode.irq_repeat /\ n.clock_src = c.mode.clock_src
  BY <1>1 DEF ModeType
<1>4. c' = x
  BY <1>1 DEF ReadMode, CType, ModeType
<1> HIDE DEF n
<1>5. x \in CType
  BY <1>1, <1>2 DEF CType
<1>6. /\ x.id = c.id /\ x.partial = c.partial /\ x.cpi = c.cpi /\ x.started = c.started
      /\ x.stopped = c.stopped /\ x.blank = c.blank /\ x.event = c.event /\ x.mode = n
      /\ x.irqs = c.irqs /\ x.oneshot = c.oneshot
  BY <1>1 DEF CType
<1> HIDE DEF x
<1>7. Halts(x) <=> Halts(c)
  BY <1>3, <1>6 DEF Halts
<1>8. OneshotInv(x)
  BY <1>3, <1>6 DEF OneshotInv, StateOK
<1>9. StateOK(x)
  BY <1>3, <1>5, <1>6, <1>7, <1>8 DEF StateOK, Idle
<1> QED BY <1>4, <1>9

\* SetDotclock.
LEMMA SetDotclockOK ==
    ASSUME StateOK(c), NEW sel \in DOMAIN DOT_CYCLES, SetDotclock(sel)
    PROVE  StateOK(c')
<1> DEFINE zero == 0
           k == DOT_CYCLES[sel]
           x == [c EXCEPT !.sel = sel, !.cpi = k, !.partial = zero]
           y == [c EXCEPT !.sel = sel]
<1>1. c \in CType /\ sel \in 0..4 /\ k \in Nat \ {0} /\ zero \in Nat /\ zero = 0
  BY CounterAssumption DEF StateOK
<1>2. CASE Divided(0, c.mode.clock_src)
  <2>1. c' = UpdateEvents(x)
    BY <1>2 DEF SetDotclock
  <2>2. c.started
    <3>1. c.id = 0 /\ c.mode.clock_src # 0
      BY <1>2 DEF Divided, SetDotclock
    <3> QED BY <3>1 DEF StateOK, Idle
  <2> HIDE DEF zero, k
  <2>3. x \in CType
    BY <1>1 DEF CType
  <2>4. /\ x.partial = zero /\ x.cpi = k /\ x.started = c.started
        /\ x.mode = c.mode /\ x.irqs = c.irqs /\ x.oneshot = c.oneshot
    BY <1>1 DEF CType
  <2> HIDE DEF x
  <2>5. OneshotInv(x) /\ x.partial < x.cpi
    BY <1>1, <2>4 DEF OneshotInv, StateOK
  <2> QED BY <2>1, <2>2, <2>3, <2>4, <2>5, UpdateEventsOK
<1>3. CASE ~Divided(0, c.mode.clock_src)
  <2>1. c' = y
    BY <1>3 DEF SetDotclock
  <2>2. y \in CType
    BY <1>1 DEF CType
  <2>3. /\ y.id = c.id /\ y.partial = c.partial /\ y.cpi = c.cpi /\ y.started = c.started
        /\ y.stopped = c.stopped /\ y.blank = c.blank /\ y.event = c.event
        /\ y.mode = c.mode /\ y.irqs = c.irqs /\ y.oneshot = c.oneshot
    BY <1>1 DEF CType
  <2> HIDE DEF y
  <2>4. Halts(y) <=> Halts(c)
    BY <2>3 DEF Halts
  <2>5. OneshotInv(y)
    BY <2>3 DEF OneshotInv, StateOK
  <2>6. StateOK(y)
    BY <2>2, <2>3, <2>4, <2>5 DEF StateOK, Idle
  <2> QED BY <2>1, <2>6
<1> QED BY <1>2, <1>3

\* A blanking stops the counter, starts it, resets it or ends its synchronisation,
\* and touches nothing else.
LEMMA SynchronisedFacts ==
    ASSUME NEW x \in CType, NEW blank \in BOOLEAN
    PROVE  LET y == Synchronised(x, blank) IN
           /\ y \in CType /\ y.partial = x.partial /\ y.cpi = x.cpi
           /\ y.started = x.started /\ y.oneshot = x.oneshot /\ y.irqs = x.irqs
           /\ y.mode.irq_repeat = x.mode.irq_repeat
<1> DEFINE Good(y) ==
             /\ y \in CType /\ y.partial = x.partial /\ y.cpi = x.cpi
             /\ y.started = x.started /\ y.oneshot = x.oneshot /\ y.irqs = x.irqs
             /\ y.mode.irq_repeat = x.mode.irq_repeat
           zero == 0
           no == FALSE
           yes == TRUE
           n == [x.mode EXCEPT !.sync_enable = no]
           stop(b) == [x EXCEPT !.stopped = b]
           reset == [x EXCEPT !.value = zero]
           restart == [x EXCEPT !.stopped = no, !.value = zero]
           leave == [x EXCEPT !.stopped = no, !.mode = n]
<1>1. zero \in 0..(U16 - 1) /\ no \in BOOLEAN /\ yes \in BOOLEAN
  BY CounterAssumption
<1>2. x.mode \in ModeType /\ x.mode.sync_mode \in 0..3
  BY DEF CType, ModeType
<1>3. Synchronised(x, blank) \in {stop(blank), stop(yes), reset, restart, leave, x}
  BY <1>2 DEF Synchronised
<1> HIDE DEF zero, no, yes
<1>4. n \in ModeType /\ n.irq_repeat = x.mode.irq_repeat
  BY <1>1, <1>2 DEF ModeType
<1> HIDE DEF n
<1>5. ASSUME NEW b \in BOOLEAN PROVE Good(stop(b))
  <2>1. stop(b) \in CType
    BY DEF CType
  <2> QED BY <2>1 DEF CType
<1>6. Good(reset)
  <2>1. reset \in CType
    BY <1>1 DEF CType
  <2> QED BY <2>1 DEF CType
<1>7. Good(restart)
  <2>1. restart \in CType
    BY <1>1 DEF CType
  <2> QED BY <2>1 DEF CType
<1>8. Good(leave)
  <2>1. leave \in CType
    BY <1>1, <1>4 DEF CType
  <2>2. /\ leave.partial = x.partial /\ leave.cpi = x.cpi /\ leave.started = x.started
        /\ leave.oneshot = x.oneshot /\ leave.irqs = x.irqs /\ leave.mode = n
    BY DEF CType
  <2> HIDE DEF leave
  <2> QED BY <1>4, <2>1, <2>2
<1>9. Good(x)
  OBVIOUS
<1> HIDE DEF stop, reset, restart, leave, Good
<1>10. Good(Synchronised(x, blank))
  BY <1>1, <1>3, <1>5, <1>6, <1>7, <1>8, <1>9
<1> QED BY <1>10 DEF Good

\* Blank.
LEMMA BlankOK ==
    ASSUME StateOK(c), NEW blank \in BOOLEAN, Blank(blank)
    PROVE  StateOK(c')
<1> DEFINE b == [c EXCEPT !.blank = blank]
           x == UpdateCounter(b)
           y == Synchronised(x, blank)
<1>1. c \in CType /\ c.partial < c.cpi
  BY DEF StateOK
<1>2. b \in CType
  BY <1>1 DEF CType
<1>3. /\ b.partial = c.partial /\ b.cpi = c.cpi /\ b.started = c.started /\ b.id = c.id
      /\ b.stopped = c.stopped /\ b.event = c.event /\ b.mode = c.mode
      /\ b.irqs = c.irqs /\ b.oneshot = c.oneshot
  BY <1>1 DEF CType
<1>4. c' = IF c.mode.sync_enable THEN UpdateEvents(y) ELSE x
  BY DEF Blank
<1> HIDE DEF b
<1>5. OneshotInv(b)
  BY <1>3 DEF OneshotInv, StateOK
<1>6. CASE c.mode.sync_enable
  <2>1. c.started
    BY <1>6 DEF StateOK, Idle
  <2>2. /\ x \in CType /\ x.partial < x.cpi /\ x.started = b.started
        /\ x.mode = b.mode /\ x.irqs = b.irqs /\ x.oneshot = b.oneshot
    BY <1>1, <1>2, <1>3, UpdateCounterFacts
  <2> HIDE DEF x
  <2>3. /\ y \in CType /\ y.partial = x.partial /\ y.cpi = x.cpi
        /\ y.started = x.started /\ y.oneshot = x.oneshot /\ y.irqs = x.irqs
        /\ y.mode.irq_repeat = x.mode.irq_repeat
    BY <2>2, SynchronisedFacts
  <2> HIDE DEF y
  <2>4. OneshotInv(y) /\ y.partial < y.cpi /\ y.started
    BY <1>3, <1>5, <2>1, <2>2, <2>3 DEF OneshotInv
  <2> QED BY <1>4, <1>6, <2>3, <2>4, UpdateEventsOK
<1>7. CASE ~c.mode.sync_enable
  <2>1. ~Halts(b) /\ ~Halts(c)
    BY <1>3, <1>7 DEF Halts
  <2>2. StateOK(b)
    BY <1>1, <1>2, <1>3, <1>5, <2>1 DEF StateOK, Idle
  <2> QED BY <1>4, <1>7, <2>2, UpdateCounterOK
<1> QED BY <1>6, <1>7

\* The counter whose event is due runs.
LEMMA DueRuns ==
    ASSUME StateOK(c), c.event # "NONE"
    PROVE  Runs(c)
  BY DEF StateOK, Runs, Idle

LEMMA DistancesInt ==
    ASSUME NEW x, Runs(x)
    PROVE  CyclesTillOverflow(x) \in Int /\ CyclesTillTarget(x) \in Int
  BY Distances DEF Runs

\* overflow_callback.
LEMMA OverflowOK ==
    ASSUME StateOK(c), overflow_callback
    PROVE  StateOK(c')
<1> DEFINE late == -c.due
           zero == 0
           x == [FireIRQ(c, "OV") EXCEPT !.value = zero]
           z == FireIRQ(x, "TARGET")
           till_ov == CyclesTillOverflow(x) - late
           till_target == CyclesTillTarget(x) - late
<1>1. Runs(c) /\ late \in Int /\ zero \in 0..(U16 - 1)
  <2>1. c.event # "NONE"
    BY DEF overflow_callback
  <2>2. Runs(c)
    BY <2>1, DueRuns
  <2> QED BY <2>2, CounterAssumption DEF Runs, CType
<1>2. \/ c' = Scheduled(x, "TARGET", till_target)
      \/ c' = Scheduled(z, "OV", till_ov)
      \/ c' = Scheduled(x, "OV", till_ov)
  BY DEF overflow_callback
<1> HIDE DEF zero, late
<1>3. Runs(x)
  BY <1>1, RunsFires
<1> HIDE DEF x
<1>4. Runs(z)
  BY <1>1, <1>3, RunsFires
<1>5. till_ov \in Int /\ till_target \in Int
  BY <1>1, <1>3, DistancesInt
<1> HIDE DEF z, till_ov, till_target
<1>6. "OV" \in {"OV", "TARGET"} /\ "TARGET" \in {"OV", "TARGET"}
  OBVIOUS
<1> QED BY <1>2, <1>3, <1>4, <1>5, <1>6, RunsScheduled

\* target_callback.
LEMMA TargetOK ==
    ASSUME StateOK(c), target_callback
    PROVE  StateOK(c')
<1> DEFINE late == -c.due
           zero == 0
           v == IF c.mode.reset_on_target THEN 0 ELSE (c.target + 1) % U16
           x == [FireIRQ(c, "TARGET") EXCEPT !.value = v]
           z == [FireIRQ(x, "OV") EXCEPT !.value = zero]
           passed == CyclesTillOverflow(x) - late < 0
           y == IF passed THEN z ELSE x
           till_ov == IF passed THEN CyclesTillOverflow(y)
                                ELSE CyclesTillOverflow(y) - late
           till_target == CyclesTillTarget(y) - late
<1>1. Runs(c) /\ late \in Int /\ zero \in 0..(U16 - 1)
  <2>1. c.event # "NONE"
    BY DEF target_callback
  <2>2. Runs(c)
    BY <2>1, DueRuns
  <2> QED BY <2>2, CounterAssumption DEF Runs, CType
<1>2. v \in 0..(U16 - 1)
  <2>1. c.target \in Nat /\ U16 \in Nat \ {0}
    BY <1>1, CounterAssumption DEF Runs, CType
  <2>2. (c.target + 1) % U16 \in 0..(U16 - 1)
    BY <2>1
  <2> QED BY <1>1, <2>2
<1>3. \/ c' = Scheduled(y, "TARGET", till_target)
      \/ c' = Scheduled(y, "OV", till_ov)
  BY DEF target_callback
<1> HIDE DEF zero, late, v
<1>4. Runs(x)
  BY <1>1, <1>2, RunsFires
<1> HIDE DEF x
<1>5. Runs(z)
  BY <1>1, <1>4, RunsFires
<1> HIDE DEF z, passed
<1>6. Runs(y)
  BY <1>4, <1>5
<1> HIDE DEF y
<1>7. till_ov \in Int /\ till_target \in Int
  BY <1>1, <1>6, DistancesInt
<1> HIDE DEF till_ov, till_target
<1>8. "OV" \in {"OV", "TARGET"} /\ "TARGET" \in {"OV", "TARGET"}
  OBVIOUS
<1> QED BY <1>3, <1>6, <1>7, <1>8, RunsScheduled

\* Time passes.
LEMMA AdvanceOK ==
    ASSUME StateOK(c), NEW cycles \in 1..MaxStep, Advance(cycles)
    PROVE  StateOK(c')
<1> DEFINE e == c.elapsed + cycles
           d == IF c.event = "NONE" THEN 0 ELSE c.due - cycles
           x == [c EXCEPT !.elapsed = e, !.due = d]
<1>1. c \in CType /\ e \in Nat /\ d \in Int
  BY CounterAssumption DEF StateOK, CType
<1>2. c' = x
  BY DEF Advance
<1> HIDE DEF e, d
<1>3. x \in CType
  BY <1>1 DEF CType
<1>4. /\ x.id = c.id /\ x.partial = c.partial /\ x.cpi = c.cpi /\ x.started = c.started
      /\ x.stopped = c.stopped /\ x.blank = c.blank /\ x.event = c.event
      /\ x.mode = c.mode /\ x.irqs = c.irqs /\ x.oneshot = c.oneshot
  BY <1>1 DEF CType
<1> HIDE DEF x
<1>5. Halts(x) <=> Halts(c)
  BY <1>4 DEF Halts
<1>6. OneshotInv(x)
  BY <1>4 DEF OneshotInv, StateOK
<1>7. StateOK(x)
  BY <1>3, <1>4, <1>5, <1>6 DEF StateOK, Idle
<1> QED BY <1>2, <1>7

LEMMA NextOK == StateOK(c) /\ [Next]_vars => StateOK(c')
<1> SUFFICES ASSUME StateOK(c), [Next]_vars PROVE StateOK(c')
  OBVIOUS
<1>1. CASE \E value \in Values : WriteValue(value)
  BY <1>1, WriteValueOK
<1>2. CASE \E m \in Modes : WriteMode(m)
  BY <1>2, WriteModeOK
<1>3. CASE \E target \in Targets : WriteTarget(target)
  BY <1>3, WriteTargetOK
<1>4. CASE ReadValue \/ UpdateFromTimestamp
  <2>1. c' = UpdateCounter(c)
    BY <1>4 DEF ReadValue, UpdateFromTimestamp
  <2> QED BY <2>1, UpdateCounterOK
<1>5. CASE ReadMode
  BY <1>5, ReadModeOK
<1>6. CASE \E sel \in DOMAIN DOT_CYCLES : SetDotclock(sel)
  BY <1>6, SetDotclockOK
<1>7. CASE \E blank \in BOOLEAN : Blank(blank)
  BY <1>7, BlankOK
<1>8. CASE overflow_callback
  BY <1>8, OverflowOK
<1>9. CASE target_callback
  BY <1>9, TargetOK
<1>10. CASE \E cycles \in 1..MaxStep : Advance(cycles)
  BY <1>10, AdvanceOK
<1>11. CASE UNCHANGED vars
  BY <1>11 DEF vars
<1> QED BY <1>1, <1>2, <1>3, <1>4, <1>5, <1>6, <1>7, <1>8, <1>9, <1>10, <1>11 DEF Next

Inv == StateOK(c)

\* Whatever the guest writes and whenever the GPU calls, a counter that was set up is
\* stopped exactly when its synchronisation says so and has an event exactly when it
\* is not stopped, and one that is not in repeat mode interrupts at most once until
\* its mode is written again.
THEOREM RootCounterSafety == Spec => [](EventIffRunning /\ OneshotOnce)
<1>1. Init => Inv
  BY InitOK DEF Inv
<1>2. Inv /\ [Next]_vars => Inv'
  BY NextOK DEF Inv
<1>3. Inv => EventIffRunning /\ OneshotOnce
  BY DEF Inv, StateOK, EventIffRunning, OneshotInv, OneshotOnce
<1> QED BY <1>1, <1>2, <1>3, PTL DEF Spec

(***************************************************************************)
(* The perfect counter.  GInv relates the counter x to the perfect one h:  *)
(* as long as h is exact the two agree, and as long as it is timed the     *)
(* event of x is less than an increment late; the clock is never further   *)
(* past an event than an instruction takes.                                *)
(***************************************************************************)
GType == [truth : Int, exact : BOOLEAN, timed : BOOLEAN]

Waited(x) == IF x.stopped THEN 0 ELSE x.elapsed

GInv(x, h) ==
    /\ h \in GType
    /\ h.exact => h.timed
    /\ h.exact => Total(x) + Waited(x) = h.truth
    /\ h.timed /\ x.event # "NONE" => h.truth + x.due - GoalOf(x) \in 0..(x.cpi - 1)
    /\ x.event # "NONE" => -MaxStep < x.due

LEMMA PerfectFacts ==
    ASSUME NEW t \in Int, NEW e \in BOOLEAN, NEW m \in BOOLEAN
    PROVE  LET h == Perfect(t, e, m) IN
           /\ h \in GType
           /\ h.exact = e /\ h.timed = m
           /\ m => h.truth = t
<1> DEFINE u == IF m THEN t ELSE 0
<1>1. u \in Int /\ (m => u = t)
  OBVIOUS
<1> HIDE DEF u
<1>2. [truth |-> u, exact |-> e, timed |-> m] \in GType
  BY <1>1 DEF GType
<1>3. Perfect(t, e, m) = [truth |-> u, exact |-> e, timed |-> m]
  BY DEF Perfect, u
<1> QED BY <1>1, <1>2, <1>3

LEMMA TotalFacts ==
    ASSUME NEW x \in CType
    PROVE  Total(x) = x.value * x.cpi + x.partial /\ Total(x) \in Int /\ Waited(x) \in Int
           /\ x.value * x.cpi \in Int /\ GoalOf(x) \in Int
<1>1. x.value * x.cpi \in Nat /\ U16 * x.cpi \in Nat /\ x.target * x.cpi \in Nat
  BY Distances
<1>2. x.partial \in Nat /\ x.elapsed \in Nat
  BY DEF CType
<1> QED BY <1>1, <1>2 DEF Total, Waited, GoalOf

\* A counter whose event was just computed from its value, and the perfect counter
\* that shows this value.
LEMMA Settled ==
    ASSUME NEW y \in CType, y.partial < y.cpi,
           y.event # "NONE" => y.due = GoalOf(y) - y.value * y.cpi /\ y.due >= 0,
           NEW t \in Int, NEW e \in BOOLEAN,
           e => Waited(y) = 0 /\ t = Total(y)
    PROVE  GInv(y, Perfect(t, e, e))
<1> DEFINE h == Perfect(t, e, e)
<1>1. h \in GType /\ h.exact = e /\ h.timed = e /\ (e => h.truth = t)
  BY PerfectFacts
<1> HIDE DEF h
<1>2. /\ Total(y) = y.value * y.cpi + y.partial /\ Total(y) \in Int
      /\ y.value * y.cpi \in Int /\ GoalOf(y) \in Int
  BY TotalFacts
<1>3. y.partial \in Nat /\ y.cpi \in Nat /\ y.due \in Int /\ MaxStep \in Nat /\ MaxStep >= 1
  BY CounterAssumption DEF CType
<1>4. ASSUME e, y.event # "NONE"
      PROVE  h.truth + y.due - GoalOf(y) \in 0..(y.cpi - 1)
  <2> DEFINE a == y.value * y.cpi
             k == GoalOf(y)
  <2>1. a \in Int /\ k \in Int /\ h.truth = a + y.partial /\ y.due = k - a
    BY <1>1, <1>2, <1>4
  <2> HIDE DEF a, k
  <2>2. h.truth + y.due - k = y.partial
    BY <1>3, <2>1
  <2>3. y.partial \in 0..(y.cpi - 1)
    BY <1>3
  <2> QED BY <2>2, <2>3 DEF k
<1>5. e => Total(y) + Waited(y) = h.truth
  BY <1>1, <1>2
<1>6. y.event # "NONE" => -MaxStep < y.due
  BY <1>3
<1> QED BY <1>1, <1>4, <1>5, <1>6 DEF GInv, h

\* Fits looks at these members only.
LEMMA FitsSame ==
    ASSUME NEW x, NEW y, Fits(x), y.value = x.value, y.partial = x.partial,
           y.elapsed = x.elapsed, y.cpi = x.cpi, y.stopped = x.stopped,
           y.target = x.target, y.mode = x.mode
    PROVE  Fits(y)
  BY DEF Fits

\* Computing the event again keeps what the counter stands for.
LEMMA UpdateEventsTotal ==
    ASSUME NEW x \in CType, x.partial < x.cpi, x.stopped \/ x.elapsed = 0 \/ Fits(x)
    PROVE  LET y == UpdateEvents(x) IN
           /\ Total(y) = Total(x) + Waited(x)
           /\ y.event # "NONE" => y.due = GoalOf(y) - y.value * y.cpi /\ y.due >= 0
           /\ (x.stopped /\ ~y.stopped => x.elapsed = 0) => Waited(y) = 0
<1> DEFINE y == UpdateEvents(x)
           z == Synced(x)
<1>1. /\ y.value = z.value /\ y.partial = z.partial /\ y.cpi = z.cpi
      /\ y.elapsed = z.elapsed
      /\ y.event = "NONE" <=> y.stopped
      /\ ~y.stopped => y.due = GoalOf(y) - y.value * y.cpi
      /\ y.due >= 0
  BY UpdateEventsFacts
<1>2. /\ z.elapsed = (IF x.stopped THEN x.elapsed ELSE 0)
      /\ x.stopped \/ x.elapsed = 0 => z = x
  BY SyncedFacts
<1>3. Total(z) = Total(x) + Waited(x)
  <2>1. CASE x.stopped \/ x.elapsed = 0
    <3>1. z = x /\ Waited(x) = 0
      BY <1>2, <2>1 DEF Waited
    <3>2. Total(x) \in Int
      BY TotalFacts
    <3> HIDE DEF z
    <3> QED BY <3>1, <3>2
  <2>2. CASE ~(x.stopped \/ x.elapsed = 0)
    <3>1. z = UpdateCounter(x)
      BY <2>2 DEF Synced
    <3> QED BY <2>2, <3>1, UpdateCounterTotal DEF Waited
  <2> QED BY <2>1, <2>2
<1> HIDE DEF y, z
<1>4. Total(y) = Total(z)
  BY <1>1 DEF Total
<1>5. (x.stopped /\ ~y.stopped => x.elapsed = 0) => Waited(y) = 0
  BY <1>1, <1>2 DEF Waited
<1> QED BY <1>1, <1>3, <1>4, <1>5 DEF y

\* A counter that was just set.
LEMMA AssignedOK ==
    ASSUME NEW x \in CType, x.partial < x.cpi, x.elapsed = 0
    PROVE  GInv(UpdateEvents(x), Assigned(x))
<1> DEFINE y == UpdateEvents(x)
<1>1. /\ Total(y) = Total(x) + Waited(x)
      /\ y.event # "NONE" => y.due = GoalOf(y) - y.value * y.cpi /\ y.due >= 0
      /\ Waited(y) = 0
  BY UpdateEventsTotal
<1>2. y \in CType /\ y.partial < y.cpi
  BY UpdateEventsFacts
<1> HIDE DEF y
<1>3. Total(x) \in Int /\ Total(y) = Total(x)
  BY <1>1, TotalFacts DEF Waited
<1>4. TRUE \in BOOLEAN
  OBVIOUS
<1>5. GInv(y, Perfect(Total(x), TRUE, TRUE))
  BY <1>1, <1>2, <1>3, <1>4, Settled
<1> QED BY <1>5 DEF y, Assigned

\* A look at the counter.
LEMMA LookedOK ==
    ASSUME StateOK(c), GInv(c, g), NEW b \in CType, b.partial < b.cpi,
           b.value = c.value, b.partial = c.partial, b.elapsed = c.elapsed, b.cpi = c.cpi,
           b.stopped = c.stopped, b.target = c.target, b.mode = c.mode,
           b.event = c.event, b.due = c.due
    PROVE  GInv(UpdateCounter(b), Looked)
<1> DEFINE y == UpdateCounter(b)
           e == g.exact /\ Fits(c)
<1>0. c \in CType /\ g \in GType /\ Fits(c) \in BOOLEAN
  BY DEF StateOK, GInv, Fits
<1>1. g.truth \in Int /\ e \in BOOLEAN /\ g.timed \in BOOLEAN
  BY <1>0 DEF GType
<1>2. /\ Looked \in GType
      /\ Looked.exact = e /\ Looked.timed = g.timed
      /\ g.timed => Looked.truth = g.truth
  <2> HIDE DEF e
  <2>1. Looked = Perfect(g.truth, e, g.timed)
    BY DEF Looked, e
  <2> QED BY <1>1, <2>1, PerfectFacts
<1>3. /\ y.target = b.target /\ y.cpi = b.cpi /\ y.event = b.event /\ y.due = b.due
      /\ y.stopped = b.stopped
      /\ y.elapsed = IF b.stopped THEN b.elapsed ELSE 0
  BY UpdateCounterFacts
<1>4. e => Total(y) = Total(b) + Waited(b)
  <2>1. e => Fits(b)
    BY FitsSame
  <2>2. Fits(b) => Total(y) = Total(b) + Waited(b)
    BY UpdateCounterTotal DEF Waited
  <2> QED BY <2>1, <2>2
<1> HIDE DEF y
<1>5. e => g.exact /\ g.timed
  BY DEF GInv
<1> HIDE DEF e
<1>6. Total(b) = Total(c) /\ Waited(b) = Waited(c) /\ Waited(y) = 0
  BY <1>3 DEF Total, Waited
<1>7. y \in CType
  BY UpdateCounterFacts DEF y
<1>8. Total(y) \in Int
  BY <1>7, TotalFacts
<1>9. e => Total(y) + Waited(y) = Looked.truth
  BY <1>2, <1>4, <1>5, <1>6, <1>8 DEF GInv
<1>10. GoalOf(y) = GoalOf(c) /\ y.event = c.event /\ y.due = c.due /\ y.cpi = c.cpi
  BY <1>3 DEF GoalOf
<1>11. g.timed /\ y.event # "NONE" => Looked.truth + y.due - GoalOf(y) \in 0..(y.cpi - 1)
  BY <1>2, <1>10 DEF GInv
<1>12. y.event # "NONE" => -MaxStep < y.due
  BY <1>10 DEF GInv
<1> QED BY <1>2, <1>5, <1>9, <1>11, <1>12 DEF GInv, y

(***************************************************************************)
(* Every action keeps the relation.                                        *)
(***************************************************************************)
LEMMA InitTimed == Init => GInv(c, g)
<1> SUFFICES ASSUME Init PROVE GInv(c, g)
  OBVIOUS
<1>1. /\ c.value = 0 /\ c.cpi = 1 /\ c.partial = 0 /\ c.elapsed = 0 /\ c.event = "NONE"
      /\ ~c.stopped
  BY DEF Init
<1>2. g \in GType /\ g.truth = 0 /\ g.exact /\ g.timed
  BY DEF Init, GType
<1>3. Total(c) + Waited(c) = 0
  BY <1>1 DEF Total, Waited
<1> QED BY <1>1, <1>2, <1>3 DEF GInv

LEMMA WriteValueTimed ==
    ASSUME StateOK(c), NEW value \in Values, WriteValue(value)
    PROVE  GInv(c', g')
<1> DEFINE x == [c EXCEPT !.value = value, !.elapsed = 0, !.started = TRUE]
<1>1. c \in CType /\ value \in 0..(U16 - 1)
  BY CounterAssumption DEF StateOK
<1>2. x \in CType
  BY <1>1 DEF CType
<1>3. x.partial = c.partial /\ x.cpi = c.cpi /\ x.elapsed = 0
  BY <1>1 DEF CType
<1>4. c' = UpdateEvents(x) /\ g' = Assigned(x)
  BY DEF WriteValue
<1> HIDE DEF x
<1>5. x.partial < x.cpi
  BY <1>3 DEF StateOK
<1> QED BY <1>2, <1>3, <1>4, <1>5, AssignedOK

LEMMA WriteModeTimed ==
    ASSUME StateOK(c), NEW m \in Modes, WriteMode(m)
    PROVE  GInv(c', g')
<1> DEFINE n == [sync_enable |-> m.sync_enable, sync_mode |-> m.sync_mode,
                 reset_on_target |-> m.reset_on_target,
                 irq_on_target |-> m.irq_on_target, irq_on_ov |-> m.irq_on_ov,
                 irq_repeat |-> m.irq_repeat, irq_toggle |-> m.irq_toggle,
                 clock_src |-> m.clock_src, irq |-> TRUE,
                 target_reached |-> c.mode.target_reached,
                 ov_reached |-> c.mode.ov_reached]
           k == ComputeCyclesPerInc(c.id, m.clock_src, c.sel)
           zero == 0
           no == FALSE
           yes == TRUE
           x == [c EXCEPT !.value = zero, !.partial = zero, !.elapsed = zero,
                          !.oneshot = no, !.irqs = zero, !.started = yes, !.cpi = k,
                          !.mode = n]
<1>1. c \in CType /\ m \in Mode /\ c.mode \in ModeType /\ c.sel \in 0..4
      /\ 0 \in 0..(U16 - 1)
  BY CounterAssumption DEF StateOK, CType
<1>2. n \in ModeType
  BY <1>1 DEF ModeType, Mode
<1>3. k \in Nat \ {0}
  BY <1>1, CyclesPerInc
<1>4. c' = UpdateEvents(x) /\ g' = Assigned(x)
  BY DEF WriteMode
<1>5. /\ zero = 0 /\ zero \in 0..(U16 - 1) /\ zero \in Nat /\ zero \in 0..2
      /\ no \in BOOLEAN /\ yes \in BOOLEAN
  BY <1>1
<1> HIDE DEF n, k, zero, no, yes
<1>6. x \in CType
  BY <1>1, <1>2, <1>3, <1>5, ZenonT(40) DEF CType
<1>7. x.partial = zero /\ x.cpi = k /\ x.elapsed = zero
  BY <1>1 DEF CType
<1> HIDE DEF x
<1>8. x.partial < x.cpi /\ x.elapsed = 0
  BY <1>3, <1>5, <1>7
<1> QED BY <1>4, <1>6, <1>8, AssignedOK

\* The target changes; the value was not cut off or the relation ends.
LEMMA WriteTargetTimed ==
    ASSUME StateOK(c), GInv(c, g), NEW target \in Targets, WriteTarget(target)
    PROVE  GInv(c', g')
<1> DEFINE x == [c EXCEPT !.target = target, !.started = TRUE]
           y == UpdateEvents(x)
           e == g.exact /\ Fits(x) /\ (x.stopped /\ ~y.stopped => x.elapsed = 0)
<1>1. c \in CType /\ target \in 0..(U16 - 1) /\ g \in GType
  BY CounterAssumption DEF StateOK, GInv
<1>2. x \in CType
  BY <1>1 DEF CType
<1>3. /\ x.value = c.value /\ x.partial = c.partial /\ x.cpi = c.cpi
      /\ x.elapsed = c.elapsed /\ x.stopped = c.stopped
  BY <1>1 DEF CType
<1>4. c' = y /\ g' = Perfect(g.truth, e, e)
  BY DEF WriteTarget, Updated
<1> HIDE DEF x
<1>5. x.partial < x.cpi
  BY <1>3 DEF StateOK
<1>6. y \in CType /\ y.partial < y.cpi
  BY <1>2, <1>5, UpdateEventsFacts
<1>7. y.event # "NONE" => y.due = GoalOf(y) - y.value * y.cpi /\ y.due >= 0
  <2>1. y.event = "NONE" <=> y.stopped
    BY <1>2, <1>5, UpdateEventsFacts
  <2>2. ~y.stopped => y.due = GoalOf(y) - y.value * y.cpi
    BY <1>2, <1>5, UpdateEventsFacts
  <2>3. y.due >= 0
    BY <1>2, <1>5, UpdateEventsFacts
  <2> QED BY <2>1, <2>2, <2>3
<1>8. e => Total(y) = Total(x) + Waited(x) /\ Waited(y) = 0
  BY <1>2, <1>5, UpdateEventsTotal
<1>9. e => Total(x) + Waited(x) = g.truth
  BY <1>3 DEF GInv, Total, Waited
<1>10. e \in BOOLEAN /\ g.truth \in Int
  BY <1>1 DEF GType
<1> HIDE DEF y, e
<1>11. GInv(y, Perfect(g.truth, e, e))
  BY <1>6, <1>7, <1>8, <1>9, <1>10, Settled
<1> QED BY <1>4, <1>11

LEMMA ReadModeTimed ==
    ASSUME StateOK(c), GInv(c, g), ReadMode
    PROVE  GInv(c', g')
<1>1. c \in CType /\ c.mode \in ModeType
  BY DEF StateOK, CType
<1>2. /\ c'.value = c.value /\ c'.partial = c.partial /\ c'.cpi = c.cpi
      /\ c'.elapsed = c.elapsed /\ c'.stopped = c.stopped /\ c'.event = c.event
      /\ c'.due = c.due /\ c'.target = c.target /\ g' = g
  BY <1>1 DEF ReadMode, CType
<1>3. Total(c') = Total(c) /\ Waited(c') = Waited(c) /\ GoalOf(c') = GoalOf(c)
  BY <1>2 DEF Total, Waited, GoalOf
<1> QED BY <1>2, <1>3 DEF GInv

\* A new dot clock right after an update.
LEMMA SetDotclockTimed ==
    ASSUME StateOK(c), GInv(c, g), NEW sel \in DOMAIN DOT_CYCLES, SetDotclock(sel)
    PROVE  GInv(c', g')
<1> DEFINE zero == 0
           k == DOT_CYCLES[sel]
           x == [c EXCEPT !.sel = sel, !.cpi = k, !.partial = zero]
           y == UpdateEvents(x)
           e == g.exact /\ c.elapsed = 0
<1>1. /\ c \in CType /\ sel \in 0..4 /\ k \in Nat \ {0} /\ zero \in Nat /\ zero = 0
      /\ g \in GType
  BY CounterAssumption DEF StateOK, GInv
<1>2. CASE Divided(0, c.mode.clock_src)
  <2>1. c' = y /\ g' = Perfect(Total(x), e, e)
    BY <1>2 DEF SetDotclock
  <2> HIDE DEF zero, k
  <2>3. x \in CType
    BY <1>1 DEF CType
  <2>4. x.partial = zero /\ x.cpi = k /\ x.elapsed = c.elapsed
    BY <1>1 DEF CType
  <2> HIDE DEF x
  <2>5. x.partial < x.cpi
    BY <1>1, <2>4
  <2>6. y \in CType /\ y.partial < y.cpi
    BY <2>3, <2>5, UpdateEventsFacts
  <2>7. y.event # "NONE" => y.due = GoalOf(y) - y.value * y.cpi /\ y.due >= 0
    <3>1. y.event = "NONE" <=> y.stopped
      BY <2>3, <2>5, UpdateEventsFacts
    <3>2. ~y.stopped => y.due = GoalOf(y) - y.value * y.cpi
      BY <2>3, <2>5, UpdateEventsFacts
    <3>3. y.due >= 0
      BY <2>3, <2>5, UpdateEventsFacts
    <3> QED BY <3>1, <3>2, <3>3
  <2>8. e => Total(y) = Total(x) + Waited(x) /\ Waited(y) = 0
    BY <2>3, <2>4, <2>5, UpdateEventsTotal
  <2>9. Total(x) \in Int /\ (e => Waited(x) = 0)
    BY <2>3, <2>4, TotalFacts DEF Waited
  <2>10. e \in BOOLEAN
    BY <1>1 DEF GType
  <2> HIDE DEF y, e
  <2>11. e => Total(x) = Total(y)
    BY <2>8, <2>9
  <2>12. GInv(y, Perfect(Total(x), e, e))
    BY <2>6, <2>7, <2>8, <2>9, <2>10, <2>11, Settled
  <2> QED BY <2>1, <2>12
<1>3. CASE ~Divided(0, c.mode.clock_src)
  <2>1. c' = [c EXCEPT !.sel = sel] /\ g' = g
    BY <1>3 DEF SetDotclock
  <2>2. /\ c'.value = c.value /\ c'.partial = c.partial /\ c'.cpi = c.cpi
        /\ c'.elapsed = c.elapsed /\ c'.stopped = c.stopped /\ c'.event = c.event
        /\ c'.due = c.due /\ c'.target = c.target
    BY <1>1, <2>1 DEF CType
  <2>3. Total(c') = Total(c) /\ Waited(c') = Waited(c) /\ GoalOf(c') = GoalOf(c)
    BY <2>2 DEF Total, Waited, GoalOf
  <2> QED BY <2>1, <2>2, <2>3 DEF GInv
<1> QED BY <1>2, <1>3

\* Without a reset a blanking keeps the value; a counter that it sets running is not
\* one that has to stop.
LEMMA SynchronisedCount ==
    ASSUME NEW x \in CType, NEW blank \in BOOLEAN, x.blank = blank, x.id # 2,
           x.mode.sync_enable
    PROVE  LET y == Synchronised(x, blank) IN
           /\ y.elapsed = x.elapsed
           /\ ~(blank /\ x.mode.sync_mode \in {1, 2}) => y.value = x.value
           /\ x.stopped /\ ~y.stopped => ~Halts(y)
<1> DEFINE Good(y) ==
             /\ y.elapsed = x.elapsed
             /\ ~(blank /\ x.mode.sync_mode \in {1, 2}) => y.value = x.value
             /\ x.stopped /\ ~y.stopped => ~Halts(y)
           zero == 0
           no == FALSE
           yes == TRUE
           n == [x.mode EXCEPT !.sync_enable = no]
           stop(b) == [x EXCEPT !.stopped = b]
           reset == [x EXCEPT !.value = zero]
           restart == [x EXCEPT !.stopped = no, !.value = zero]
           leave == [x EXCEPT !.stopped = no, !.mode = n]
           mode == x.mode.sync_mode
<1>2. x.mode \in ModeType /\ mode \in 0..3
  BY DEF CType, ModeType
<1>3. \/ mode = 0 /\ Synchronised(x, blank) = stop(blank)
      \/ mode = 1 /\ blank /\ Synchronised(x, blank) = reset
      \/ mode = 2 /\ blank /\ Synchronised(x, blank) = restart
      \/ mode = 2 /\ ~blank /\ Synchronised(x, blank) = stop(yes)
      \/ mode = 3 /\ blank /\ Synchronised(x, blank) = leave
      \/ Synchronised(x, blank) = x
  BY <1>2 DEF Synchronised
<1> HIDE DEF zero
<1>4. ASSUME NEW b \in BOOLEAN
      PROVE  /\ stop(b).elapsed = x.elapsed /\ stop(b).value = x.value
             /\ stop(b).stopped = b /\ stop(b).blank = blank /\ stop(b).mode = x.mode
  BY DEF CType
<1>5. mode = 0 => Good(stop(blank))
  <2>1. mode = 0 /\ ~blank => ~Halts(stop(blank))
    BY <1>4 DEF Halts
  <2> HIDE DEF stop
  <2> QED BY <1>4, <2>1
<1>6. mode = 1 /\ blank => Good(reset)
  BY DEF CType
<1>7. mode = 2 /\ blank => Good(restart)
  <2>1. restart.elapsed = x.elapsed /\ restart.blank = blank /\ restart.mode = x.mode
    BY DEF CType
  <2>2. restart.id = x.id
    BY DEF CType
  <2> HIDE DEF restart
  <2>3. ASSUME mode = 2, blank PROVE ~Halts(restart)
    <3>1. restart.mode.sync_mode = 2 /\ restart.blank /\ restart.id # 2
      BY <2>1, <2>2, <2>3
    <3>2. restart.mode.sync_mode # 0
      BY <3>1
    <3> QED BY <3>1, <3>2 DEF Halts
  <2> QED BY <2>1, <2>3
<1>8. Good(stop(yes))
  <2>1. yes \in BOOLEAN /\ yes
    OBVIOUS
  <2> HIDE DEF stop, yes
  <2> QED BY <1>4, <2>1
<1>9. Good(leave)
  <2>1. n.sync_enable = no
    BY <1>2 DEF ModeType
  <2> HIDE DEF n
  <2>2. leave.elapsed = x.elapsed /\ leave.value = x.value /\ leave.mode = n
    BY DEF CType
  <2> HIDE DEF leave
  <2>3. ~Halts(leave)
    BY <2>1, <2>2 DEF Halts
  <2> QED BY <2>2, <2>3
<1>10. Good(x)
  OBVIOUS
<1> HIDE DEF stop, reset, restart, leave, Good
<1>11. Good(Synchronised(x, blank))
  BY <1>3, <1>5, <1>6, <1>7, <1>8, <1>9, <1>10
<1> QED BY <1>11 DEF Good

\* A blanking that stops, starts or resets the counter.
LEMMA BlankTimed ==
    ASSUME StateOK(c), GInv(c, g), NEW blank \in BOOLEAN, Blank(blank)
    PROVE  GInv(c', g')
<1> DEFINE b == [c EXCEPT !.blank = blank]
           x == UpdateCounter(b)
           y == Synchronised(x, blank)
           z == UpdateEvents(y)
           reset == blank /\ c.mode.sync_mode \in {1, 2}
           e == (reset \/ (g.exact /\ Fits(c))) /\ (c.stopped /\ ~z.stopped => c.elapsed = 0)
           t == IF reset THEN Total(y) ELSE g.truth
<1>1. c \in CType /\ c.partial < c.cpi /\ g \in GType
  BY DEF StateOK, GInv
<1>2. b \in CType
  BY <1>1 DEF CType
<1>3. /\ b.value = c.value /\ b.partial = c.partial /\ b.elapsed = c.elapsed
      /\ b.cpi = c.cpi /\ b.stopped = c.stopped /\ b.target = c.target /\ b.mode = c.mode
      /\ b.event = c.event /\ b.due = c.due /\ b.id = c.id /\ b.blank = blank
  BY <1>1 DEF CType
<1>4. c.id # 2
  BY DEF Blank
<1>5. c.mode.sync_enable => c' = z /\ g' = Perfect(t, e, e)
  BY DEF Blank
<1>6. ~c.mode.sync_enable => c' = x /\ g' = Looked
  BY DEF Blank
<1> HIDE DEF b
<1>7. b.partial < b.cpi
  BY <1>1, <1>3
<1>8. CASE c.mode.sync_enable
  <2>1. /\ x \in CType /\ x.partial < x.cpi /\ x.mode = c.mode /\ x.stopped = c.stopped
        /\ x.elapsed = (IF c.stopped THEN c.elapsed ELSE 0)
        /\ x.id # 2 /\ x.blank = blank /\ x.mode.sync_enable
    BY <1>2, <1>3, <1>4, <1>7, <1>8, UpdateCounterFacts
  <2>2. g.exact /\ Fits(c) => Total(x) = g.truth
    <3>1. Fits(c) => Fits(b)
      BY <1>3, FitsSame
    <3>2. Fits(b) => Total(x) = Total(b) + Waited(b)
      BY <1>2, <1>7, UpdateCounterTotal DEF Waited
    <3>3. Total(b) = Total(c) /\ Waited(b) = Waited(c)
      BY <1>3 DEF Total, Waited
    <3>4. g.exact => Total(c) + Waited(c) = g.truth
      BY DEF GInv
    <3> QED BY <3>1, <3>2, <3>3, <3>4
  <2> HIDE DEF x
  <2>3. y \in CType /\ y.partial = x.partial /\ y.cpi = x.cpi
    BY <2>1, SynchronisedFacts
  <2>4. /\ y.elapsed = x.elapsed
        /\ ~(blank /\ x.mode.sync_mode \in {1, 2}) => y.value = x.value
        /\ x.stopped /\ ~y.stopped => ~Halts(y)
    BY <2>1, SynchronisedCount
  <2> HIDE DEF y
  <2>5. y.partial < y.cpi
    BY <2>1, <2>3
  <2>6. ~reset => Total(y) = Total(x)
    BY <2>1, <2>3, <2>4 DEF Total
  <2>7. /\ z \in CType /\ z.partial < z.cpi /\ SameSetup(y, z)
        /\ z.stopped <=> Halts(z)
        /\ z.event = "NONE" <=> z.stopped
        /\ ~z.stopped => z.due = GoalOf(z) - z.value * z.cpi
        /\ z.due >= 0
    BY <2>3, <2>5, UpdateEventsFacts
  <2>8. z.stopped <=> Halts(y)
    BY <2>7, HaltsSame
  <2>9. e => y.stopped \/ y.elapsed = 0
    BY <2>1, <2>4, <2>8
  <2>10. e => (y.stopped /\ ~z.stopped => y.elapsed = 0)
    BY <2>1, <2>4
  <2>11. e => Waited(y) = 0
    BY <2>9 DEF Waited
  <2>12. e => Total(z) = Total(y) + Waited(y) /\ Waited(z) = 0
    BY <2>3, <2>5, <2>9, <2>10, UpdateEventsTotal
  <2>13. Total(y) \in Int /\ g.truth \in Int
    BY <1>1, <2>3, TotalFacts DEF GType
  <2>14. e => t = Total(y)
    BY <2>2, <2>6
  <2>15. e \in BOOLEAN /\ t \in Int
    BY <1>1, <2>13 DEF GType
  <2> HIDE DEF z, e, t
  <2>16. e => Waited(z) = 0 /\ t = Total(z)
    BY <2>11, <2>12, <2>13, <2>14
  <2>17. z.event # "NONE" => z.due = GoalOf(z) - z.value * z.cpi /\ z.due >= 0
    BY <2>7
  <2>18. GInv(z, Perfect(t, e, e))
    BY <2>7, <2>15, <2>16, <2>17, Settled
  <2> QED BY <1>5, <1>8, <2>18
<1>9. CASE ~c.mode.sync_enable
  <2>1. GInv(x, Looked)
    BY <1>2, <1>3, <1>7, LookedOK
  <2> QED BY <1>6, <1>9, <2>1
<1> QED BY <1>8, <1>9

\* An event fires and the next one is counted from the moment it was due: what the
\* perfect counter has left over stays the same.
LEMMA Refired ==
    ASSUME GInv(c, g), c \in CType, c.event # "NONE",
           NEW y \in CType, y.cpi = c.cpi, y.event # "NONE", -MaxStep < y.due,
           NEW m \in BOOLEAN, m => g.timed /\ y.due = c.due + GoalOf(y)
    PROVE  GInv(y, Perfect(g.truth - GoalOf(c), FALSE, m))
<1> DEFINE t == g.truth - GoalOf(c)
           no == FALSE
           h == Perfect(t, no, m)
<1>1. g \in GType /\ g.truth \in Int /\ GoalOf(c) \in Int /\ GoalOf(y) \in Int
      /\ c.due \in Int
  BY TotalFacts DEF GInv, GType, CType
<1>2. t \in Int /\ no \in BOOLEAN
  BY <1>1
<1> HIDE DEF t
<1>3. h \in GType /\ h.exact = no /\ h.timed = m /\ (m => h.truth = t)
  BY <1>2, PerfectFacts
<1> HIDE DEF h
<1>4. m => g.truth + c.due - GoalOf(c) \in 0..(c.cpi - 1)
  BY DEF GInv
<1>5. m => h.truth + y.due - GoalOf(y) = g.truth + c.due - GoalOf(c)
  BY <1>1, <1>3 DEF t
<1>6. m => h.truth + y.due - GoalOf(y) \in 0..(y.cpi - 1)
  BY <1>4, <1>5
<1>7. GInv(y, h)
  BY <1>3, <1>6 DEF GInv
<1> QED BY <1>7 DEF h, t

\* The counter after an interrupt, with its new value.
LEMMA RunsCount ==
    ASSUME NEW x, NEW source, NEW v \in 0..(U16 - 1), Runs(x)
    PROVE  LET y == [FireIRQ(x, source) EXCEPT !.value = v]
               f == FireIRQ(x, source) IN
           /\ y.value = v /\ y.cpi = x.cpi /\ y.target = x.target
           /\ f.value = x.value /\ f.cpi = x.cpi /\ f.target = x.target
           /\ y.mode.reset_on_target = x.mode.reset_on_target
<1> DEFINE f == FireIRQ(x, source)
           y == [f EXCEPT !.value = v]
<1>1. f \in CType /\ SameCount(x, f)
  BY FireFacts DEF Runs
<1> HIDE DEF f
<1>2. y.value = v /\ y.cpi = f.cpi /\ y.target = f.target /\ y.mode = f.mode
  BY <1>1 DEF CType
<1> HIDE DEF y
<1>3. /\ y.value = v /\ y.cpi = x.cpi /\ y.target = x.target
      /\ f.value = x.value /\ f.cpi = x.cpi /\ f.target = x.target
      /\ y.mode.reset_on_target = x.mode.reset_on_target
  BY <1>1, <1>2 DEF SameCount
<1> QED BY <1>3 DEF f, y

\* From 0 the overflow is a whole period away and the target its own value.
LEMMA FromZero ==
    ASSUME NEW x \in CType, x.value = 0
    PROVE  CyclesTillOverflow(x) = U16 * x.cpi /\ CyclesTillTarget(x) = x.target * x.cpi
<1>1. x.cpi \in Nat /\ x.target \in Nat
  BY DEF CType
<1>2. x.value * x.cpi = 0 /\ x.target >= x.value
  BY <1>1
<1> QED BY <1>2, Distances

\* No event is as late as a period is long.
LEMMA LateBound ==
    ASSUME GInv(c, g), c \in CType, c.event # "NONE"
    PROVE  c.due + U16 * c.cpi > 0
<1> DEFINE p == U16 * c.cpi
<1>1. /\ -MaxStep < c.due /\ MaxStep \in Nat /\ MaxStep < U16 /\ U16 \in Nat
      /\ c.due \in Int /\ c.cpi \in Nat \ {0}
  BY CounterAssumption DEF GInv, CType
<1>2. p \in Nat /\ p >= U16
  <2>1. U16 * c.cpi = U16 + U16 * (c.cpi - 1)
    BY <1>1
  <2>2. U16 * (c.cpi - 1) \in Nat
    <3>1. c.cpi - 1 \in Nat
      BY <1>1
    <3> QED BY <1>1, <3>1, Product
  <2> QED BY <1>1, <2>1, <2>2
<1> HIDE DEF p
<1>3. c.due + p > 0
  BY <1>1, <1>2
<1> QED BY <1>3 DEF p

\* overflow_callback starts the next period.
LEMMA OverflowTimed ==
    ASSUME StateOK(c), GInv(c, g), overflow_callback
    PROVE  GInv(c', g')
<1> DEFINE late == -c.due
           zero == 0
           x == [FireIRQ(c, "OV") EXCEPT !.value = zero]
           z == FireIRQ(x, "TARGET")
           till_ov == CyclesTillOverflow(x) - late
           till_target == CyclesTillTarget(x) - late
<1>0. c.event = "OV" /\ c.event # "NONE" /\ c \in CType
  BY DEF overflow_callback, StateOK
<1>1. Runs(c) /\ c.due \in Int /\ zero \in 0..(U16 - 1) /\ zero = 0 /\ MaxStep \in Nat
  <2>1. Runs(c)
    BY <1>0, DueRuns
  <2> QED BY <2>1, CounterAssumption DEF Runs, CType
<1>2. \/ till_target > 0 /\ c' = Scheduled(x, "TARGET", till_target)
      \/ c' = Scheduled(z, "OV", till_ov)
      \/ c' = Scheduled(x, "OV", till_ov)
  BY DEF overflow_callback
<1>3. g' = Perfect(g.truth - GoalOf(c), FALSE, g.timed)
  BY <1>0 DEF overflow_callback, GoalOf
<1> HIDE DEF zero
<1>4. Runs(x) /\ x.value = 0 /\ x.cpi = c.cpi /\ x.target = c.target
  BY <1>1, RunsFires, RunsCount
<1> HIDE DEF x
<1>5. Runs(z) /\ z.cpi = c.cpi
  BY <1>1, <1>4, RunsFires, RunsCount, ZenonT(40)
<1> HIDE DEF z
<1>6. /\ till_ov = c.due + U16 * c.cpi /\ till_target = c.due + c.target * c.cpi
      /\ till_ov \in Int /\ till_target \in Int
  <2>1. CyclesTillOverflow(x) = U16 * c.cpi /\ CyclesTillTarget(x) = c.target * c.cpi
    BY <1>4, FromZero DEF Runs
  <2>2. U16 * c.cpi \in Int /\ c.target * c.cpi \in Int
    BY <1>0, Distances
  <2> QED BY <1>1, <2>1, <2>2
<1> HIDE DEF till_ov, till_target
<1>7. till_ov > 0
  BY <1>0, <1>6, LateBound
<1>8. g.timed \in BOOLEAN
  BY DEF GInv, GType
<1>9. "OV" \in {"NONE", "OV", "TARGET"} /\ "TARGET" \in {"NONE", "OV", "TARGET"}
      /\ "OV" # "NONE" /\ "TARGET" # "NONE" /\ "TARGET" # "OV"
  OBVIOUS
<1>10. ASSUME NEW w \in {x, z}, NEW d \in Int, NEW k \in {"OV", "TARGET"}, d > 0,
              d = c.due + (IF k = "OV" THEN U16 * c.cpi ELSE c.target * c.cpi),
              k = "OV" \/ w = x, c' = Scheduled(w, k, d)
       PROVE  GInv(c', g')
  <2>1. w \in CType /\ w.cpi = c.cpi /\ k \in {"NONE", "OV", "TARGET"} /\ k # "NONE"
    BY <1>4, <1>5, <1>10 DEF Runs
  <2>2. /\ c' \in CType /\ c'.event = k /\ c'.due = d /\ c'.cpi = c.cpi
        /\ c'.target = w.target
    <3> DEFINE s == Scheduled(w, k, d)
    <3>1. s \in CType /\ s.event = k /\ s.due = d /\ s.cpi = w.cpi /\ s.target = w.target
      BY <2>1, ScheduledFacts, SMTT(30)
    <3> HIDE DEF s
    <3>2. c' = s
      BY <1>10 DEF s
    <3> QED BY <2>1, <3>1, <3>2
  <2>3. c'.due = c.due + GoalOf(c')
    <3>1. CASE k = "OV"
      <4>1. GoalOf(c') = U16 * c.cpi
        BY <2>2, <3>1 DEF GoalOf
      <4> QED BY <1>10, <2>2, <3>1, <4>1
    <3>2. CASE k # "OV"
      <4>1. GoalOf(c') = c.target * c.cpi
        BY <1>4, <1>10, <2>2, <3>2 DEF GoalOf
      <4> QED BY <1>10, <2>2, <3>2, <4>1
    <3> QED BY <3>1, <3>2
  <2>4. -MaxStep < c'.due
    BY <1>1, <1>10, <2>2
  <2>5. GInv(c', Perfect(g.truth - GoalOf(c), FALSE, g.timed))
    BY <1>0, <1>8, <2>1, <2>2, <2>3, <2>4, Refired
  <2> QED BY <1>3, <2>5
<1>11. CASE till_target > 0 /\ c' = Scheduled(x, "TARGET", till_target)
  BY <1>6, <1>9, <1>10, <1>11
<1>12. CASE c' = Scheduled(z, "OV", till_ov)
  BY <1>6, <1>7, <1>9, <1>10, <1>12
<1>13. CASE c' = Scheduled(x, "OV", till_ov)
  BY <1>6, <1>7, <1>9, <1>10, <1>13
<1> QED BY <1>2, <1>11, <1>12, <1>13

\* target_callback starts the next period of a counter that resets.
LEMMA TargetTimed ==
    ASSUME StateOK(c), GInv(c, g), target_callback
    PROVE  GInv(c', g')
<1> DEFINE late == -c.due
           zero == 0
           v == IF c.mode.reset_on_target THEN 0 ELSE (c.target + 1) % U16
           x == [FireIRQ(c, "TARGET") EXCEPT !.value = v]
           z == [FireIRQ(x, "OV") EXCEPT !.value = zero]
           passed == CyclesTillOverflow(x) - late < 0
           y == IF passed THEN z ELSE x
           till_ov == IF passed THEN CyclesTillOverflow(y)
                                ELSE CyclesTillOverflow(y) - late
           till_target == CyclesTillTarget(y) - late
           m == g.timed /\ c.mode.reset_on_target
<1>0. c.event = "TARGET" /\ c.event # "NONE" /\ c.event # "OV" /\ c \in CType
  BY DEF target_callback, StateOK
<1>1. Runs(c) /\ c.due \in Int /\ zero \in 0..(U16 - 1) /\ MaxStep \in Nat /\ late = -c.due
      /\ MaxStep >= 1
  <2>1. Runs(c)
    BY <1>0, DueRuns
  <2> QED BY <2>1, CounterAssumption DEF Runs, CType
<1>2. v \in 0..(U16 - 1) /\ (c.mode.reset_on_target => v = 0)
  <2>1. c.target \in Nat /\ U16 \in Nat \ {0}
    BY <1>0, CounterAssumption DEF CType
  <2>2. (c.target + 1) % U16 \in 0..(U16 - 1)
    BY <2>1
  <2> QED BY <1>1, <2>2
<1>3. \/ till_target > 0 /\ c' = Scheduled(y, "TARGET", till_target)
      \/ c' = Scheduled(y, "OV", till_ov)
  BY DEF target_callback
<1>4. g' = Perfect(g.truth - GoalOf(c), FALSE, m)
  BY <1>0 DEF target_callback, GoalOf
<1> HIDE DEF zero, v, late
<1>5. Runs(x) /\ x.value = v /\ x.cpi = c.cpi /\ x.target = c.target
  BY <1>1, <1>2, RunsFires, RunsCount
<1> HIDE DEF x
<1>6. Runs(z) /\ z.cpi = c.cpi /\ z.target = c.target
  BY <1>1, <1>5, RunsFires, RunsCount
<1> HIDE DEF z
<1>7. CyclesTillOverflow(x) \in Int
  BY <1>5, Distances DEF Runs
<1>8. /\ y \in CType /\ y.cpi = c.cpi /\ y.target = c.target
      /\ ~passed => CyclesTillOverflow(y) - late >= 0
  BY <1>1, <1>5, <1>6, <1>7 DEF Runs
<1>9. m => y.value = 0 /\ ~passed
  <2> SUFFICES ASSUME m PROVE y.value = 0 /\ ~passed
    OBVIOUS
  <2>1. x \in CType /\ x.value = 0
    BY <1>2, <1>5 DEF Runs
  <2>2. CyclesTillOverflow(x) = U16 * c.cpi /\ U16 * c.cpi \in Int
    BY <1>5, <2>1, FromZero, Distances
  <2>3. c.due + U16 * c.cpi > 0
    BY <1>0, LateBound
  <2>4. ~passed
    BY <1>1, <2>2, <2>3
  <2> QED BY <2>1, <2>4
<1> HIDE DEF passed, y
<1>10. CyclesTillOverflow(y) \in Int /\ CyclesTillTarget(y) \in Int
       /\ CyclesTillOverflow(y) > 0
  BY <1>8, Distances
<1>11. /\ till_ov \in Int /\ till_ov >= 0 /\ till_target \in Int
  BY <1>1, <1>8, <1>10
<1>12. m => till_ov = c.due + U16 * c.cpi /\ till_target = c.due + c.target * c.cpi
  <2> SUFFICES ASSUME m
               PROVE  till_ov = c.due + U16 * c.cpi
                        /\ till_target = c.due + c.target * c.cpi
    OBVIOUS
  <2>1. CyclesTillOverflow(y) = U16 * c.cpi /\ CyclesTillTarget(y) = c.target * c.cpi
    BY <1>8, <1>9, FromZero
  <2>2. U16 * c.cpi \in Int /\ c.target * c.cpi \in Int
    BY <1>0, Distances
  <2> QED BY <1>1, <1>9, <2>1, <2>2
<1> HIDE DEF till_ov, till_target
<1>13. m \in BOOLEAN /\ (m => g.timed)
  BY <1>0 DEF GInv, GType
<1> HIDE DEF m
<1>14. CASE till_target > 0 /\ c' = Scheduled(y, "TARGET", till_target)
  <2> DEFINE s == Scheduled(y, "TARGET", till_target)
  <2>1. s \in CType /\ s.event = "TARGET" /\ s.due = till_target /\ s.cpi = c.cpi
        /\ s.target = c.target
    BY <1>8, <1>11, ScheduledFacts
  <2>2. c' = s
    BY <1>14
  <2> HIDE DEF s
  <2>3. s.event # "NONE" /\ -MaxStep < s.due /\ GoalOf(s) = c.target * c.cpi
    BY <1>1, <1>11, <1>14, <2>1 DEF GoalOf
  <2>4. GInv(s, Perfect(g.truth - GoalOf(c), FALSE, m))
    BY <1>0, <1>12, <1>13, <2>1, <2>3, Refired
  <2> QED BY <1>4, <2>2, <2>4
<1>15. CASE c' = Scheduled(y, "OV", till_ov)
  <2> DEFINE s == Scheduled(y, "OV", till_ov)
  <2>1. s \in CType /\ s.event = "OV" /\ s.due = till_ov /\ s.cpi = c.cpi
    BY <1>8, <1>11, ScheduledFacts
  <2>2. c' = s
    BY <1>15
  <2> HIDE DEF s
  <2>3. s.event # "NONE" /\ -MaxStep < s.due /\ GoalOf(s) = U16 * c.cpi
    BY <1>1, <1>11, <2>1 DEF GoalOf
  <2>4. GInv(s, Perfect(g.truth - GoalOf(c), FALSE, m))
    BY <1>0, <1>12, <1>13, <2>1, <2>3, Refired
  <2> QED BY <1>4, <2>2, <2>4
<1> QED BY <1>3, <1>14, <1>15

\* Time passes: the perfect counter gains what the event comes nearer.
LEMMA AdvanceTimed ==
    ASSUME StateOK(c), GInv(c, g), NEW cycles \in 1..MaxStep, Advance(cycles)
    PROVE  GInv(c', g')
<1> DEFINE e == c.elapsed + cycles
           d == IF c.event = "NONE" THEN 0 ELSE c.due - cycles
           t == IF c.stopped THEN g.truth ELSE g.truth + cycles
           x == [c EXCEPT !.elapsed = e, !.due = d]
           h == Perfect(t, g.exact, g.timed)
<1>1. c \in CType /\ g \in GType
  BY DEF StateOK, GInv
<1>2. /\ cycles \in Nat /\ cycles <= MaxStep /\ MaxStep \in Nat
      /\ c.elapsed \in Nat /\ c.due \in Int /\ g.truth \in Int
      /\ g.exact \in BOOLEAN /\ g.timed \in BOOLEAN
  BY <1>1, CounterAssumption DEF CType, GType
<1>3. c' = x /\ g' = h
  BY DEF Advance
<1>4. e \in Nat /\ d \in Int /\ t \in Int
  BY <1>2
<1>5. c.event # "NONE" => ~c.stopped
  BY DEF StateOK, Idle
<1>6. c.event # "NONE" => c.due > 0 /\ d = c.due - cycles /\ t = g.truth + cycles
  BY <1>5 DEF Advance, GuestRuns
<1>7. e = c.elapsed + cycles /\ t = IF c.stopped THEN g.truth ELSE g.truth + cycles
  OBVIOUS
<1> HIDE DEF e, d, t
<1>8. /\ x.value = c.value /\ x.partial = c.partial /\ x.cpi = c.cpi
      /\ x.stopped = c.stopped /\ x.event = c.event /\ x.target = c.target
      /\ x.elapsed = e /\ x.due = d
  BY <1>1 DEF CType
<1> HIDE DEF x
<1>9. h \in GType /\ h.exact = g.exact /\ h.timed = g.timed /\ (g.timed => h.truth = t)
  BY <1>2, <1>4, PerfectFacts
<1> HIDE DEF h
<1>10. Total(x) = Total(c) /\ GoalOf(x) = GoalOf(c) /\ Total(c) \in Int
       /\ GoalOf(c) \in Int
  BY <1>1, <1>8, TotalFacts DEF Total, GoalOf
<1>11. Waited(x) = IF c.stopped THEN 0 ELSE e
  BY <1>8 DEF Waited
<1>12. g.exact => Total(x) + Waited(x) = t
  <2>1. CASE c.stopped
    BY <1>7, <1>10, <1>11, <2>1 DEF GInv, Waited
  <2>2. CASE ~c.stopped
    BY <1>2, <1>7, <1>10, <1>11, <2>2 DEF GInv, Waited
  <2> QED BY <2>1, <2>2
<1>13. g.exact => g.timed
  BY DEF GInv
<1>14. g.timed /\ c.event # "NONE" => h.truth + x.due - GoalOf(x) \in 0..(x.cpi - 1)
  <2> SUFFICES ASSUME g.timed, c.event # "NONE"
               PROVE  h.truth + x.due - GoalOf(x) \in 0..(x.cpi - 1)
    OBVIOUS
  <2>1. h.truth = g.truth + cycles /\ x.due = c.due - cycles
    BY <1>6, <1>8, <1>9
  <2>2. h.truth + x.due - GoalOf(x) = g.truth + c.due - GoalOf(c)
    BY <1>2, <1>10, <2>1
  <2>3. g.truth + c.due - GoalOf(c) \in 0..(c.cpi - 1)
    BY DEF GInv
  <2> QED BY <1>8, <2>2, <2>3
<1>15. c.event # "NONE" => -MaxStep < x.due
  BY <1>2, <1>6, <1>8
<1>16. GInv(x, h)
  BY <1>8, <1>9, <1>12, <1>13, <1>14, <1>15 DEF GInv
<1> QED BY <1>3, <1>16

\* ReadValue and UpdateFromTimestamp.
LEMMA LookTimed ==
    ASSUME StateOK(c), GInv(c, g), ReadValue \/ UpdateFromTimestamp
    PROVE  GInv(c', g')
<1>1. c' = UpdateCounter(c) /\ g' = Looked
  BY DEF ReadValue, UpdateFromTimestamp
<1>2. GInv(UpdateCounter(c), Looked)
  BY LookedOK DEF StateOK
<1> QED BY <1>1, <1>2

LEMMA NextTimed == StateOK(c) /\ GInv(c, g) /\ [Next]_vars => GInv(c', g')
<1> SUFFICES ASSUME StateOK(c), GInv(c, g), [Next]_vars PROVE GInv(c', g')
  OBVIOUS
<1>1. CASE \E value \in Values : WriteValue(value)
  BY <1>1, WriteValueTimed
<1>2. CASE \E m \in Modes : WriteMode(m)
  BY <1>2, WriteModeTimed
<1>3. CASE \E target \in Targets : WriteTarget(target)
  BY <1>3, WriteTargetTimed
<1>4. CASE ReadValue \/ UpdateFromTimestamp
  BY <1>4, LookTimed
<1>5. CASE ReadMode
  BY <1>5, ReadModeTimed
<1>6. CASE \E sel \in DOMAIN DOT_CYCLES : SetDotclock(sel)
  BY <1>6, SetDotclockTimed
<1>7. CASE \E blank \in BOOLEAN : Blank(blank)
  BY <1>7, BlankTimed
<1>8. CASE overflow_callback
  BY <1>8, OverflowTimed
<1>9. CASE target_callback
  BY <1>9, TargetTimed
<1>10. CASE \E cycles \in 1..MaxStep : Advance(cycles)
  BY <1>10, AdvanceTimed
<1>11. CASE UNCHANGED vars
  <2>1. c' = c /\ g' = g
    BY <1>11 DEF vars
  <2> QED BY <2>1
<1> QED BY <1>1, <1>2, <1>3, <1>4, <1>5, <1>6, <1>7, <1>8, <1>9, <1>10, <1>11 DEF Next

TimedInv == StateOK(c) /\ GInv(c, g)

\* Whatever the guest reads and writes, however late the scheduler calls back and
\* whenever the GPU blanks: the value, the cycles that do not fill an increment and
\* the time since the last update add up to the cycles since the value was set, and
\* the event of a counter that resets on its target, or that only overflows, comes
\* less than one increment after the perfect counter gets there, period after period.
THEOREM RootCounterOnTime == Spec => [](CountsEveryCycle /\ EventOnTime)
<1>1. Init => TimedInv
  BY InitOK, InitTimed DEF TimedInv
<1>2. TimedInv /\ [Next]_vars => TimedInv'
  BY NextOK, NextTimed DEF TimedInv
<1>3. TimedInv => CountsEveryCycle /\ EventOnTime
  BY DEF TimedInv, GInv, Waited, GoalOf, CountsEveryCycle, EventOnTime
<1> QED BY <1>1, <1>2, <1>3, PTL DEF Spec
=============================================================================
