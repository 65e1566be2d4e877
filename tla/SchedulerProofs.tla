--------------------------- MODULE SchedulerProofs ---------------------------
(***************************************************************************)
(* Proofs about Scheduler, for every capacity and every bound.             *)
(*                                                                         *)
(* The inductive invariant has five parts.  RootIsEarliest is what the     *)
(* heap algorithms establish.  ClockInv says how far the clock and the     *)
(* pending triggers may be apart in each phase.  RootIsFiring is the fact  *)
(* that makes "call back, then pop the root" sound; it needs TieGuard.     *)
(* Ledger is EveryEventAccounted extended to the callback phase.           *)
(*                                                                         *)
(* The second half is about SchedulerHeap: what the heap algorithms do to  *)
(* an array of any length, and from it that the array scheduler implements *)
(* Scheduler.                                                              *)
(***************************************************************************)
EXTENDS Scheduler, SchedulerHeap, TLAPS, WellFoundedInduction, SequenceTheorems, FiniteSetTheorems

RootIsEarliest ==
    IF m_events = {} THEN m_top = NoEvent
                     ELSE m_top \in m_events /\ Earliest(m_top, m_events)

\* Every event in the heap triggers at t or later.
NoneBefore(t) == \A e \in m_events : t <= e.trigger_timestamp

ClockInv ==
    /\ phase = "idle" => NoneBefore(m_curr_timestamp)
    /\ phase = "advance" \/ caller = "Advance" => m_curr_timestamp <= final_time
    /\ phase = "advance" /\ ignore_overflow => NoneBefore(m_curr_timestamp)
    /\ phase = "callback" =>
          /\ firing \in Event
          /\ NoneBefore(firing.trigger_timestamp)
          /\ caller \in {"Advance", "NextEvent"}
          /\ m_curr_timestamp = IF caller = "Advance" /\ ~ignore_overflow
                                  THEN final_time ELSE firing.trigger_timestamp
    /\ phase # "callback" => caller = "none"

RootIsFiring == phase = "callback" => m_top = firing /\ m_events # {}

Waiting == IF phase = "callback" THEN m_events \ {firing} ELSE m_events

Ledger ==
    /\ \A id \in Nat : id < m_last_id =>
          \/ \E e \in Waiting : e.event_id = id
          \/ id \in fired \cup removed
    /\ \A e \in Waiting : e.event_id \notin fired \cup removed
    /\ \A id \in fired \cup removed : id < m_last_id

IInv == TypeOK /\ HandlesAreUnique /\ RootIsEarliest /\ ClockInv

GInv == IInv /\ RootIsFiring /\ Ledger
-----------------------------------------------------------------------------
\* The initial heap is empty and the clock stands at zero.
LEMMA InitIInv == Init => IInv
  <1> SUFFICES ASSUME Init PROVE IInv
    OBVIOUS
  <1>1. TypeOK
    <2>1. ignore_overflow \in BOOLEAN
      BY Zenon DEF Init
    <2>2. m_events \subseteq Event /\ fired \subseteq Nat /\ removed \subseteq Nat
      BY DEF Init
    <2>3. /\ m_top \in Event \cup {NoEvent}
          /\ firing \in Event \cup {NoEvent}
          /\ m_curr_timestamp \in 0..MaxTimestamp
          /\ m_last_id \in 0..MaxId
          /\ final_time \in 0..MaxTimestamp
          /\ phase \in {"idle", "advance", "callback"}
          /\ caller \in {"none", "Advance", "NextEvent"}
      BY SchedulerAssumption DEF Init
    <2> QED BY <2>1, <2>2, <2>3 DEF TypeOK
  <1>2. HandlesAreUnique /\ RootIsEarliest /\ ClockInv
    BY DEF Init, HandlesAreUnique, RootIsEarliest, ClockInv, NoneBefore
  <1> QED BY <1>1, <1>2 DEF IInv

\* Re-heaping a subset of the events leaves a root that is the earliest one.
LEMMA ReHeapRoot ==
  ASSUME NEW S \in SUBSET Event, ReHeap(S)
  PROVE  RootIsEarliest' /\ m_top' \in Event \cup {NoEvent} /\ m_events' = S
  BY DEF ReHeap, RootIsEarliest, Earliest

\* Pushing one event leaves a root that is the earliest one.
LEMMA PushHeapRoot ==
  ASSUME NEW e \in Event, m_events \subseteq Event, RootIsEarliest, PushHeap(e)
  PROVE  /\ RootIsEarliest'
         /\ m_top' \in Event
         /\ m_events' = m_events \cup {e}
  BY DEF PushHeap, RootIsEarliest, Earliest, Event, NoEvent

\* Every step of the scheduler preserves type correctness, unique handles, the
\* root of the heap and the relation between clock and triggers.
LEMMA NextIInv == IInv /\ [Next]_vars => IInv'
  <1> SUFFICES ASSUME IInv, [Next]_vars PROVE IInv'
    OBVIOUS
  <1> USE SchedulerAssumption
  <1>1. ASSUME NEW t \in Int, ScheduleAbsolute(t) PROVE IInv'
    <2> DEFINE e == [event_id |-> m_last_id, trigger_timestamp |-> t]
    <2>1. Floor \in Nat
      BY DEF Floor, IInv, TypeOK, ClockInv, Event
    <2>2. e \in Event
      BY <1>1, <2>1 DEF ScheduleAbsolute, IInv, TypeOK, Event
    <2>3. /\ RootIsEarliest'
          /\ m_top' \in Event
          /\ m_events' = m_events \cup {e}
      BY <1>1, <2>2, PushHeapRoot DEF ScheduleAbsolute, IInv, TypeOK
    <2>4. TypeOK'
      BY <1>1, <2>2, <2>3 DEF ScheduleAbsolute, IInv, TypeOK, advance_vars
    <2>5. HandlesAreUnique'
      BY <1>1, <2>3 DEF ScheduleAbsolute, IInv, TypeOK, HandlesAreUnique, Event
    <2>6. ClockInv'
      BY <1>1, <2>2, <2>3 DEF ScheduleAbsolute, IInv, TypeOK, ClockInv, NoneBefore,
                              advance_vars, Floor, ClientMayCall, Event
    <2> QED BY <2>3, <2>4, <2>5, <2>6 DEF IInv
  <1>2. ASSUME NEW id \in Nat, Deschedule(id) PROVE IInv'
    <2>1. PICK e \in m_events : e.event_id = id /\ ReHeap(m_events \ {e})
      BY <1>2 DEF Deschedule
    <2>2. /\ RootIsEarliest'
          /\ m_top' \in Event \cup {NoEvent}
          /\ m_events' = m_events \ {e}
      BY <2>1, ReHeapRoot DEF IInv, TypeOK
    <2>3. TypeOK'
      BY <1>2, <2>2 DEF Deschedule, IInv, TypeOK, advance_vars
    <2>4. HandlesAreUnique'
      BY <1>2, <2>2 DEF Deschedule, IInv, HandlesAreUnique
    <2>5. ClockInv'
      BY <1>2, <2>2 DEF Deschedule, IInv, ClockInv, NoneBefore, advance_vars
    <2> QED BY <2>2, <2>3, <2>4, <2>5 DEF IInv
  <1>3. ASSUME NEW n \in Nat, NEW ignore \in BOOLEAN, Advance(n, ignore) PROVE IInv'
    BY <1>3 DEF Advance, IInv, TypeOK, HandlesAreUnique, RootIsEarliest, Earliest,
                ClockInv, NoneBefore
  <1>4. ASSUME AdvanceFire PROVE IInv'
    <2>1. m_top \in m_events /\ m_top \in Event /\ Earliest(m_top, m_events)
      BY <1>4 DEF AdvanceFire, IInv, TypeOK, RootIsEarliest
    <2>2. m_curr_timestamp' = IF ignore_overflow THEN m_top.trigger_timestamp
                                                 ELSE final_time
      BY <1>4, <2>1 DEF AdvanceFire, IInv, TypeOK, Event
    <2>3. TypeOK'
      BY <1>4, <2>1, <2>2 DEF AdvanceFire, IInv, TypeOK, Event
    <2>4. ClockInv'
      BY <1>4, <2>1, <2>2 DEF AdvanceFire, IInv, TypeOK, ClockInv, NoneBefore,
                              Earliest, Event
    <2> QED BY <1>4, <2>3, <2>4 DEF AdvanceFire, IInv, HandlesAreUnique,
                                    RootIsEarliest, Earliest
  <1>5. ASSUME AdvanceReturn PROVE IInv'
    <2>1. TypeOK'
      BY <1>5 DEF AdvanceReturn, IInv, TypeOK
    <2>2. \A e \in m_events : final_time <= e.trigger_timestamp
      BY <1>5 DEF AdvanceReturn, IInv, TypeOK, RootIsEarliest, Earliest, Event
    <2>3. ClockInv'
      BY <1>5, <2>2 DEF AdvanceReturn, IInv, TypeOK, ClockInv, NoneBefore
    <2> QED BY <1>5, <2>1, <2>3 DEF AdvanceReturn, IInv, HandlesAreUnique,
                                    RootIsEarliest, Earliest
  <1>6. ASSUME NextEvent PROVE IInv'
    <2>1. m_top \in m_events /\ m_top \in Event /\ Earliest(m_top, m_events)
      BY <1>6 DEF NextEvent, IInv, TypeOK, RootIsEarliest
    <2>2. TypeOK'
      BY <1>6, <2>1 DEF NextEvent, IInv, TypeOK, Event
    <2>3. ClockInv'
      BY <1>6, <2>1 DEF NextEvent, IInv, TypeOK, ClockInv, NoneBefore, Earliest, Event
    <2> QED BY <1>6, <2>2, <2>3 DEF NextEvent, IInv, HandlesAreUnique,
                                    RootIsEarliest, Earliest
  <1>7. ASSUME CallbackReturn PROVE IInv'
    <2>1. /\ RootIsEarliest'
          /\ m_top' \in Event \cup {NoEvent}
          /\ m_events' = m_events \ {m_top}
      BY <1>7, ReHeapRoot DEF CallbackReturn, IInv, TypeOK
    <2>2. TypeOK'
      BY <1>7, <2>1 DEF CallbackReturn, IInv, TypeOK
    <2>3. ClockInv'
      BY <1>7, <2>1 DEF CallbackReturn, IInv, TypeOK, ClockInv, NoneBefore, Event
    <2> QED BY <1>7, <2>1, <2>2, <2>3 DEF CallbackReturn, IInv, HandlesAreUnique
  <1>8. CASE UNCHANGED vars
    BY <1>8 DEF vars, IInv, TypeOK, HandlesAreUnique, RootIsEarliest, Earliest,
                ClockInv, NoneBefore
  <1>9. CASE ScheduleRejected \/ \E id \in 0..MaxId : DescheduleUnknown(id)
    BY <1>8, <1>9 DEF ScheduleRejected, DescheduleUnknown
  <1>10. ASSUME NEW c \in -MaxTimestamp..MaxTimestamp, Schedule(c) PROVE IInv'
    <2>1. m_curr_timestamp + c \in Int
      BY DEF IInv, TypeOK
    <2> QED BY <1>1, <1>10, <2>1 DEF Schedule
  <1> QED
    BY <1>1, <1>2, <1>3, <1>4, <1>5, <1>6, <1>7, <1>8, <1>9, <1>10 DEF Next

\* The type invariant, unique handles and nothing overdue, for every capacity
\* and bound and with or without the restriction on callbacks.
THEOREM SchedulerSafety == Spec => [](TypeOK /\ HandlesAreUnique /\ NothingOverdue)
  <1>1. IInv => TypeOK /\ HandlesAreUnique /\ NothingOverdue
    BY DEF IInv, TypeOK, ClockInv, NoneBefore, NothingOverdue, Event
  <1> QED BY <1>1, InitIInv, NextIInv, PTL DEF Spec

\* The clock never goes back, whatever callbacks do.
THEOREM SchedulerClock == Spec => ClockMonotone
  <1>1. ASSUME IInv, [Next]_vars
        PROVE  [m_curr_timestamp' >= m_curr_timestamp]_vars
    <2> USE <1>1 DEF IInv
    <2>1. CASE AdvanceFire
      <3>1. m_top \in m_events /\ m_top \in Event
        BY <2>1 DEF AdvanceFire, RootIsEarliest, TypeOK
      <3> QED BY <2>1, <3>1 DEF AdvanceFire, TypeOK, ClockInv, NoneBefore, Event
    <2>2. CASE AdvanceReturn
      BY <2>2 DEF AdvanceReturn, TypeOK, ClockInv
    <2>3. CASE NextEvent
      <3>1. m_top \in m_events /\ m_top \in Event
        BY <2>3 DEF NextEvent, RootIsEarliest, TypeOK
      <3> QED BY <2>3, <3>1 DEF NextEvent, TypeOK, ClockInv, NoneBefore, Event
    <2>4. CASE UNCHANGED m_curr_timestamp
      BY <2>4 DEF TypeOK
    <2> QED
      BY <2>1, <2>2, <2>3, <2>4
      DEF Next, vars, ScheduleAbsolute, Schedule, ScheduleRejected, Deschedule,
          DescheduleUnknown, Advance, CallbackReturn
  <1> QED BY <1>1, InitIInv, NextIInv, PTL DEF Spec, ClockMonotone
-----------------------------------------------------------------------------
\* While a callback runs, the event being fired stays in the root of the heap,
\* provided callbacks deschedule harmlessly.
LEMMA NextRootIsFiring ==
  ASSUME TieGuard, IInv, RootIsFiring, [Next]_vars
  PROVE  RootIsFiring'
  <1> USE SchedulerAssumption DEF IInv, RootIsFiring
  <1>1. ASSUME NEW t \in Int, ScheduleAbsolute(t) PROVE RootIsFiring'
    BY <1>1 DEF ScheduleAbsolute, PushHeap, Floor, advance_vars, TypeOK, ClockInv,
                NoneBefore, Event, NoEvent
  <1>2. ASSUME NEW id \in Nat, Deschedule(id) PROVE RootIsFiring'
    <2> SUFFICES ASSUME phase' = "callback" PROVE m_top' = firing' /\ m_events' # {}
      OBVIOUS
    <2>1. phase = "callback" /\ UNCHANGED <<phase, firing>>
      BY <1>2 DEF Deschedule, advance_vars
    <2>2. PICK e \in m_events : e.event_id = id /\ ReHeap(m_events \ {e})
      BY <1>2 DEF Deschedule
    <2>3. firing \in m_events \ {e}
      <3>1. firing \in m_events
        BY <2>1 DEF RootIsEarliest
      <3>2. id # firing.event_id
        BY <1>2, <2>1 DEF Deschedule
      <3> QED BY <2>2, <3>1, <3>2
    <2>4. m_top' \in m_events \ {e} /\ Earliest(m_top', m_events \ {e})
      BY <2>2, <2>3 DEF ReHeap
    <2>5. m_top'.trigger_timestamp <= firing.trigger_timestamp
      BY <2>3, <2>4 DEF Earliest
    <2>6. m_top'.event_id = firing.event_id
      <3>1. Harmless(id)
        BY <1>2, <2>1 DEF Deschedule
      <3>2. m_top' \in m_events /\ m_top'.event_id # id
        BY <2>2, <2>4 DEF HandlesAreUnique
      <3>3. ~(m_top'.trigger_timestamp > firing.trigger_timestamp)
        <4>1. m_top' \in Event /\ firing \in Event
          BY <2>3, <2>4 DEF TypeOK
        <4> QED BY <2>5, <4>1 DEF Event
      <3> QED BY <3>1, <3>2, <3>3 DEF Harmless
    <2>7. m_top' = firing
      BY <2>3, <2>4, <2>6 DEF HandlesAreUnique
    <2> QED BY <2>1, <2>2, <2>3, <2>7 DEF ReHeap
  <1>3. CASE AdvanceFire \/ NextEvent
    BY <1>3 DEF AdvanceFire, NextEvent
  <1>4. CASE \/ \E n \in 0..MaxTimestamp, i \in BOOLEAN : Advance(n, i)
             \/ AdvanceReturn
             \/ CallbackReturn
    BY <1>4 DEF Advance, AdvanceReturn, CallbackReturn
  <1>5. CASE UNCHANGED vars
    BY <1>5 DEF vars
  <1>6. ASSUME NEW c \in -MaxTimestamp..MaxTimestamp, Schedule(c)
        PROVE  RootIsFiring'
    <2>1. m_curr_timestamp + c \in Int
      BY DEF TypeOK
    <2> QED BY <1>1, <1>6, <2>1 DEF Schedule
  <1> QED
    BY <1>1, <1>2, <1>3, <1>4, <1>5, <1>6 DEF Next, ScheduleRejected, DescheduleUnknown

\* Popping the root pops the event that was fired.
LEMMA PopIsFiring ==
  ASSUME IInv, RootIsFiring, CallbackReturn
  PROVE  m_events' = m_events \ {firing}
  BY DEF RootIsFiring, CallbackReturn, ReHeap

\* While callbacks are harmless, the ledger of ids is kept: nothing is lost
\* and nothing fires twice.
LEMMA NextLedger ==
  ASSUME TieGuard, GInv, [Next]_vars
  PROVE  Ledger'
  <1> USE SchedulerAssumption DEF GInv, IInv
  <1>1. ASSUME NEW t \in Int, ScheduleAbsolute(t) PROVE Ledger'
    <2> DEFINE e == [event_id |-> m_last_id, trigger_timestamp |-> t]
    <2>1. m_events' = m_events \cup {e} /\ UNCHANGED <<phase, firing, fired, removed>>
      BY <1>1 DEF ScheduleAbsolute, PushHeap, advance_vars
    <2>2. \A f \in m_events : f.event_id < m_last_id
      BY DEF HandlesAreUnique
    <2>3. phase = "callback" => firing \in m_events
      BY DEF RootIsFiring, RootIsEarliest
    <2>4. Waiting' = Waiting \cup {e}
      <3>1. phase = "callback" => e # firing
        BY <2>2, <2>3 DEF TypeOK
      <3> QED BY <2>1, <3>1 DEF Waiting
    <2>5. m_last_id \notin fired \cup removed
      BY DEF Ledger, TypeOK
    <2>6. \A id \in Nat : id < m_last_id' => id < m_last_id \/ id = e.event_id
      BY <1>1 DEF ScheduleAbsolute, TypeOK
    <2>7. \A id \in fired \cup removed : id < m_last_id'
      BY <1>1 DEF ScheduleAbsolute, TypeOK, Ledger
    <2>8. \A id \in Nat : id < m_last_id' =>
             (\E f \in Waiting' : f.event_id = id) \/ id \in fired \cup removed
      <3> SUFFICES ASSUME NEW id \in Nat, id < m_last_id'
                   PROVE  (\E f \in Waiting' : f.event_id = id) \/ id \in fired \cup removed
        OBVIOUS
      <3>1. CASE id < m_last_id
        BY <2>4, <3>1 DEF Ledger
      <3>2. CASE id = e.event_id
        BY <2>4, <3>2
      <3> QED BY <2>6, <3>1, <3>2
    <2>9. \A f \in Waiting' : f.event_id \notin fired \cup removed
      BY <2>4, <2>5 DEF Ledger
    <2> QED
      BY <2>1, <2>7, <2>8, <2>9 DEF Ledger
  <1>2. ASSUME NEW id \in Nat, Deschedule(id) PROVE Ledger'
    <2>1. PICK e \in m_events : e.event_id = id /\ m_events' = m_events \ {e}
      BY <1>2 DEF Deschedule, ReHeap
    <2>2. /\ UNCHANGED <<phase, firing, fired, m_last_id>>
          /\ removed' = removed \cup {id}
      BY <1>2 DEF Deschedule, advance_vars
    <2>3. Waiting' = Waiting \ {e} /\ e \in Waiting
      <3>1. phase = "callback" => e # firing
        BY <1>2, <2>1 DEF Deschedule
      <3> QED BY <2>1, <2>2, <3>1 DEF Waiting
    <2>4. \A f \in Waiting' : f.event_id # id
      BY <2>1, <2>3 DEF Waiting, HandlesAreUnique
    <2>5. id < m_last_id
      BY <2>1 DEF HandlesAreUnique
    <2> QED BY <2>1, <2>2, <2>3, <2>4, <2>5 DEF Ledger
  <1>3. CASE AdvanceFire \/ NextEvent
    <2>1. /\ phase # "callback" /\ phase' = "callback"
          /\ m_top \in m_events /\ firing' = m_top
          /\ fired' = fired \cup {m_top.event_id}
          /\ UNCHANGED <<m_events, m_last_id, removed>>
      <3>1. CASE AdvanceFire
        BY <3>1 DEF AdvanceFire, RootIsEarliest
      <3>2. CASE NextEvent
        BY <3>2 DEF NextEvent, RootIsEarliest
      <3> QED BY <1>3, <3>1, <3>2
    <2>2. Waiting = m_events /\ Waiting' = m_events \ {m_top}
      BY <2>1 DEF Waiting
    <2>3. \A f \in Waiting' : f.event_id # m_top.event_id
      BY <2>1, <2>2 DEF HandlesAreUnique
    <2>4. m_top.event_id < m_last_id
      BY <2>1 DEF HandlesAreUnique
    <2> QED BY <2>1, <2>2, <2>3, <2>4 DEF Ledger
  <1>4. CASE CallbackReturn
    <2>1. m_events' = m_events \ {firing}
      BY <1>4, PopIsFiring
    <2>2. Waiting' = Waiting
      BY <1>4, <2>1 DEF Waiting, CallbackReturn
    <2> QED BY <1>4, <2>2 DEF CallbackReturn, Ledger
  <1>5. CASE \/ \E n \in 0..MaxTimestamp, i \in BOOLEAN : Advance(n, i)
             \/ AdvanceReturn
             \/ UNCHANGED vars
    <2>1. /\ phase = "callback" <=> phase' = "callback"
          /\ UNCHANGED <<m_events, firing, m_last_id, fired, removed>>
      BY <1>5 DEF Advance, AdvanceReturn, vars
    <2>2. Waiting' = Waiting
      BY <2>1 DEF Waiting
    <2> QED BY <2>1, <2>2 DEF Ledger
  <1>6. ASSUME NEW c \in -MaxTimestamp..MaxTimestamp, Schedule(c) PROVE Ledger'
    <2>1. m_curr_timestamp + c \in Int
      BY DEF TypeOK
    <2> QED BY <1>1, <1>6, <2>1 DEF Schedule
  <1> QED
    BY <1>1, <1>2, <1>3, <1>4, <1>5, <1>6 DEF Next, ScheduleRejected, DescheduleUnknown

\* The strengthened invariant is inductive when callbacks are harmless.
LEMMA InductiveGInv ==
  ASSUME TieGuard
  PROVE  Spec => []GInv
  <1>1. Init => GInv
    <2>1. Init => RootIsFiring /\ Ledger
      BY DEF Init, RootIsFiring, Ledger, Waiting
    <2> QED BY <2>1, InitIInv DEF GInv
  <1>2. GInv /\ [Next]_vars => GInv'
    BY NextIInv, NextRootIsFiring, NextLedger DEF GInv
  <1> QED BY <1>1, <1>2, PTL DEF Spec

\* With harmless callbacks no event is lost and none fires twice: every id
\* handed out is waiting, fired or descheduled, and only one of these.
THEOREM SchedulerExactlyOnce ==
  ASSUME TieGuard
  PROVE  Spec => []EveryEventAccounted
  <1>1. GInv => EveryEventAccounted
    BY DEF GInv, IInv, TypeOK, Ledger, Waiting, EveryEventAccounted
  <1> QED BY <1>1, InductiveGInv, PTL
-----------------------------------------------------------------------------
\* The scheduler starts as the timer service does.
LEMMA InitTimer == Init => Timer!TInit
  BY DEF Init, Timer!TInit

\* Every step of the scheduler is a step of the timer service or leaves the
\* timer service's state alone.
LEMMA StepTimer ==
  ASSUME TieGuard, GInv, GInv', [Next]_vars
  PROVE  [Timer!TNext]_(Timer!tvars)
  <1> USE SchedulerAssumption DEF GInv, IInv
  <1> DEFINE P == IF phase = "callback" THEN m_events \ {firing} ELSE m_events
             Run == phase = "advance" \/ caller = "Advance"
  <1>1. ASSUME NEW t \in Int, ScheduleAbsolute(t) PROVE Timer!Add
    <2> DEFINE e == [event_id |-> m_last_id, trigger_timestamp |-> t]
    <2>1. /\ m_events' = m_events \cup {e}
          /\ UNCHANGED <<phase, firing, caller, final_time, m_curr_timestamp>>
      BY <1>1 DEF ScheduleAbsolute, PushHeap, advance_vars
    <2>2. \A f \in m_events : f.event_id # e.event_id
      BY DEF HandlesAreUnique, TypeOK, Event
    <2>3. phase = "callback" => e # firing
      BY <2>2 DEF RootIsFiring, RootIsEarliest
    <2>4. P' = P \cup {e}
      BY <2>1, <2>3
    <2>5. \A f \in P : e.event_id # f.event_id
      BY <2>2
    <2>6. Run' = Run
      BY <2>1
    <2> QED BY <2>1, <2>4, <2>5, <2>6 DEF Timer!Add
  <1>2. ASSUME NEW id \in Nat, Deschedule(id) PROVE Timer!Cancel
    <2>1. PICK e \in m_events : e.event_id = id /\ m_events' = m_events \ {e}
      BY <1>2 DEF Deschedule, ReHeap
    <2>2. UNCHANGED <<phase, firing, caller, final_time, m_curr_timestamp>>
      BY <1>2 DEF Deschedule, advance_vars
    <2>3. phase = "callback" => e # firing
      BY <1>2, <2>1 DEF Deschedule
    <2>4. e \in P /\ P' = P \ {e}
      BY <2>1, <2>2, <2>3
    <2>5. Run' = Run
      BY <2>2
    <2> QED BY <2>2, <2>4, <2>5 DEF Timer!Cancel
  <1>3. ASSUME NEW n \in Nat, NEW i \in BOOLEAN, Advance(n, i) PROVE Timer!Begin
    BY <1>3 DEF Advance, Timer!Begin, ClockInv, TypeOK
  <1>4. ASSUME AdvanceFire PROVE Timer!Fire
    <2>1. /\ m_top \in m_events /\ m_top \in Event
          /\ Earliest(m_top, m_events)
          /\ m_top.trigger_timestamp <= final_time
      BY <1>4 DEF AdvanceFire, RootIsEarliest, TypeOK
    <2>2. P = m_events /\ P' = m_events \ {m_top}
      BY <1>4 DEF AdvanceFire
    <2>3. Run = TRUE /\ Run' = TRUE /\ final_time' = final_time
      BY <1>4 DEF AdvanceFire
    <2>4. m_curr_timestamp' >= m_curr_timestamp /\ m_curr_timestamp' <= final_time
      BY <1>4, <2>1 DEF AdvanceFire, TypeOK, ClockInv, NoneBefore, Event
    <2> QED BY <2>1, <2>2, <2>3, <2>4 DEF Timer!Fire, Timer!Earliest, Earliest
  <1>5. ASSUME AdvanceReturn PROVE Timer!Finish
    <2>1. \A e \in m_events : e.trigger_timestamp > final_time
      BY <1>5 DEF AdvanceReturn, TypeOK, RootIsEarliest, Earliest, Event
    <2>2. P = m_events /\ P' = m_events /\ Run = TRUE /\ Run' = FALSE
      BY <1>5 DEF AdvanceReturn, ClockInv
    <2> QED BY <1>5, <2>1, <2>2 DEF AdvanceReturn, Timer!Finish
  <1>6. ASSUME NextEvent PROVE Timer!Skip
    <2>1. /\ m_top \in m_events /\ m_top \in Event
          /\ Earliest(m_top, m_events)
      BY <1>6 DEF NextEvent, RootIsEarliest, TypeOK
    <2>2. P = m_events /\ P' = m_events \ {m_top}
      BY <1>6 DEF NextEvent
    <2>3. Run = FALSE /\ Run' = FALSE /\ final_time' = final_time
      BY <1>6 DEF NextEvent, ClockInv
    <2>4. m_curr_timestamp' >= m_curr_timestamp
      BY <1>6, <2>1 DEF NextEvent, TypeOK, ClockInv, NoneBefore, Event
    <2> QED BY <1>6, <2>1, <2>2, <2>3, <2>4
            DEF NextEvent, Timer!Skip, Timer!Earliest, Earliest
  <1>7. ASSUME CallbackReturn PROVE UNCHANGED Timer!tvars
    <2>1. m_events' = m_events \ {firing}
      BY <1>7, PopIsFiring
    <2>2. P' = P
      BY <1>7, <2>1 DEF CallbackReturn
    <2>3. Run' = Run
      BY <1>7 DEF CallbackReturn
    <2> QED BY <1>7, <2>2, <2>3 DEF CallbackReturn, Timer!tvars
  <1>8. ASSUME UNCHANGED vars PROVE UNCHANGED Timer!tvars
    BY <1>8 DEF vars, Timer!tvars
  <1>9. ASSUME NEW c \in -MaxTimestamp..MaxTimestamp, Schedule(c) PROVE Timer!Add
    <2>1. m_curr_timestamp + c \in Int
      BY DEF TypeOK
    <2> QED BY <1>1, <1>9, <2>1 DEF Schedule
  <1>10. CASE Next
    <2>1. CASE \E t \in 0..MaxTimestamp : ScheduleAbsolute(t)
      BY <1>1, <2>1 DEF Timer!TNext
    <2>2. CASE \E c \in -MaxTimestamp..MaxTimestamp : Schedule(c)
      BY <1>9, <2>2 DEF Timer!TNext
    <2>3. CASE ScheduleRejected \/ \E id \in 0..MaxId : DescheduleUnknown(id)
      BY <1>8, <2>3 DEF ScheduleRejected, DescheduleUnknown
    <2>4. CASE \E id \in 0..MaxId : Deschedule(id)
      BY <1>2, <2>4 DEF Timer!TNext
    <2>5. CASE \E n \in 0..MaxTimestamp, i \in BOOLEAN : Advance(n, i)
      BY <1>3, <2>5 DEF Timer!TNext
    <2>6. CASE AdvanceFire \/ AdvanceReturn \/ NextEvent
      BY <1>4, <1>5, <1>6, <2>6 DEF Timer!TNext
    <2>7. CASE CallbackReturn
      BY <1>7, <2>7
    <2> QED BY <1>10, <2>1, <2>2, <2>3, <2>4, <2>5, <2>6, <2>7 DEF Next
  <1> QED BY <1>8, <1>10

\* With harmless callbacks the scheduler implements the timer service: Advance
\* fires exactly the events that are due, earliest first and each once, and
\* then moves the clock.
THEOREM SchedulerImplementsTimer ==
  ASSUME TieGuard
  PROVE  Spec => ImplementsTimerService
  <1>1. GInv /\ GInv' /\ [Next]_vars => [Timer!TNext]_(Timer!tvars)
    BY StepTimer
  <1> QED BY <1>1, InitTimer, InductiveGInv, PTL
          DEF Spec, ImplementsTimerService, Timer!TSpec
-----------------------------------------------------------------------------
(***************************************************************************)
(* The array: a value rises, a hole sinks, and the heap is ordered again.  *)
(* What a recursive function computes is shown by the smallest argument    *)
(* for which it would fail.                                                *)
(***************************************************************************)

\* A set of numbers has a smallest one.
LEMMA SmallestNumber ==
    ASSUME NEW T \in SUBSET Nat, T # {}
    PROVE  \E m \in T : \A k \in T : m <= k
<1> DEFINE R == OpToRel(<, Nat)
<1>1. PICK m \in T : \A k \in T : ~(<<k, m>> \in R)
  BY NatLessThanWellFounded, WFMin
<1>2. \A k \in T : ~(k < m)
  BY <1>1 DEF OpToRel
<1> QED BY <1>2

\* The parent of a slot lies before it, and a slot is one of its parent's two children.
LEMMA Parent ==
    ASSUME NEW h \in Nat
    PROVE  /\ h >= 2 => h \div 2 \in Nat /\ 1 <= h \div 2 /\ h \div 2 < h
           /\ h \div 2 \in Nat /\ h \in {2 * (h \div 2), 2 * (h \div 2) + 1}
           /\ (2 * h) \div 2 = h /\ (2 * h + 1) \div 2 = h
OBVIOUS

\* The comparison is a total order on the triggers.
LEMMA LaterOrder ==
    ASSUME NEW e \in Event, NEW f \in Event, NEW g \in Event
    PROVE  /\ Later(e, f) \in BOOLEAN
           /\ ~Later(e, f) /\ ~Later(f, g) => ~Later(e, g)
           /\ Later(e, f) => ~Later(f, e)
           /\ Later(e, f) /\ ~Later(e, g) => ~Later(f, g)
           /\ ~Later(e, e)
BY SchedulerAssumption DEF Later, Event

\* The arrays of n events.
Arr(n) == [1..n -> Event]

\* An array is a sequence.
LEMMA ArrSeq ==
    ASSUME NEW n \in Nat, NEW s \in Arr(n)
    PROVE  s \in Seq(Event) /\ Len(s) = n /\ DOMAIN s = 1..n
BY DEF Arr

-----------------------------------------------------------------------------
\* f is the function in which Rise recurs, over the first m slots.
Rising(f, m, s, top, value) ==
    f = [h \in 1..m |-> IF h > top /\ Later(s[h \div 2], value)
                          THEN [f[h \div 2] EXCEPT ![h] = s[h \div 2]]
                          ELSE [s EXCEPT ![h] = value]]

\* There is one: the smallest m without one would have one.
LEMMA RisingExists ==
    ASSUME NEW s, NEW top \in Nat \ {0}, NEW value
    PROVE  \A m \in Nat : \E f : Rising(f, m, s, top, value)
<1> DEFINE T == {m \in Nat : ~\E f : Rising(f, m, s, top, value)}
           V(f, h) == IF h > top /\ Later(s[h \div 2], value)
                        THEN [f[h \div 2] EXCEPT ![h] = s[h \div 2]]
                        ELSE [s EXCEPT ![h] = value]
<1> SUFFICES ASSUME T # {} PROVE FALSE
  OBVIOUS
<1>1. PICK m \in T : \A k \in T : m <= k
  BY SmallestNumber
<1>2. m \in Nat /\ ~\E f : Rising(f, m, s, top, value)
  OBVIOUS
<1>3. CASE m = 0
  <2> DEFINE f == [h \in 1..0 |-> 0]
  <2>1. Rising(f, 0, s, top, value)
    BY DEF Rising
  <2> QED BY <1>2, <1>3, <2>1
<1>4. CASE m # 0
  <2>1. m - 1 \in Nat /\ m - 1 \notin T
    BY <1>1, <1>2, <1>4
  <2>2. PICK f : Rising(f, m - 1, s, top, value)
    BY <2>1
  <2> DEFINE g == [h \in 1..m |-> IF h = m THEN V(f, m) ELSE f[h]]
  <2>3. \A h \in 1..(m - 1) : f[h] = V(f, h)
    BY <2>2 DEF Rising
  <2>4. \A h \in 1..m : h > top => h \div 2 \in 1..(m - 1) /\ g[h \div 2] = f[h \div 2]
    <3> SUFFICES ASSUME NEW h \in 1..m, h > top PROVE h \div 2 \in 1..(m - 1) /\ g[h \div 2] = f[h \div 2]
      OBVIOUS
    <3>1. h \div 2 \in 1..(m - 1)
      BY <1>2, Parent
    <3> DEFINE j == h \div 2
    <3>2. j \in 1..m /\ j # m
      BY <1>2, <3>1
    <3> HIDE DEF j, V
    <3>3. g[j] = f[j]
      BY <3>2
    <3> QED BY <3>1, <3>3 DEF j
  <2>5. \A h \in 1..m : g[h] = V(g, h)
    <3> SUFFICES ASSUME NEW h \in 1..m PROVE g[h] = V(g, h)
      OBVIOUS
    <3>1. V(g, h) = V(f, h)
      <4> HIDE DEF g
      <4> QED BY <2>4
    <3>2. g[h] = V(f, h)
      <4> HIDE DEF V
      <4> QED BY <2>3
    <3> QED BY <3>1, <3>2
  <2>6. Rising(g, m, s, top, value)
    <3>1. g = [h \in 1..m |-> g[h]]
      OBVIOUS
    <3> HIDE DEF g
    <3> QED BY <2>5, <3>1 DEF Rising
  <2> QED BY <1>2, <2>6
<1> QED BY <1>3, <1>4

\* So Rise satisfies its recursion.
LEMMA RiseRecursive ==
    ASSUME NEW n \in Nat, NEW s \in Arr(n), NEW top \in Nat \ {0}, NEW value, NEW h \in 1..n
    PROVE  Rise(s, h, top, value) =
              IF h > top /\ Later(s[h \div 2], value)
                THEN [Rise(s, h \div 2, top, value) EXCEPT ![h] = s[h \div 2]]
                ELSE [s EXCEPT ![h] = value]
<1> DEFINE F == CHOOSE f : Rising(f, n, s, top, value)
<1>1. Rising(F, n, s, top, value)
  BY RisingExists
<1>2. Len(s) = n
  BY ArrSeq
<1>3. ASSUME NEW k PROVE Rise(s, k, top, value) = F[k]
  <2>1. Rise(s, k, top, value) = (CHOOSE f : f = [j \in 1..Len(s) |->
              IF j > top /\ Later(s[j \div 2], value)
                THEN [f[j \div 2] EXCEPT ![j] = s[j \div 2]]
                ELSE [s EXCEPT ![j] = value]])[k]
    BY DEF Rise
  <2> QED BY <1>2, <2>1 DEF Rising
<1> HIDE DEF F
<1>4. F[h] = IF h > top /\ Later(s[h \div 2], value)
               THEN [F[h \div 2] EXCEPT ![h] = s[h \div 2]]
               ELSE [s EXCEPT ![h] = value]
  BY <1>1 DEF Rising
<1> QED BY <1>3, <1>4
-----------------------------------------------------------------------------
\* Halving k while it is after top leads to top: slot k is top or below it.
Below(top, k) ==
    \A X \in SUBSET Nat : k \in X /\ (\A j \in X : j > top => j \div 2 \in X) => top \in X

\* Being below a slot: the slot itself, and the children of what is below it.
LEMMA BelowFacts ==
    ASSUME NEW top \in Nat \ {0}, NEW k \in Nat \ {0}
    PROVE  /\ Below(top, top)
           /\ Below(top, k) => k >= top
           /\ Below(top, k) => Below(top, 2 * k) /\ Below(top, 2 * k + 1)
           /\ Below(top, k) /\ k > top => Below(top, k \div 2) /\ k \div 2 >= top
           /\ Below(1, k)
<1>1. Below(top, top)
  BY DEF Below
<1>2. ASSUME NEW j \in Nat \ {0}, Below(top, j) PROVE j >= top
  <2> SUFFICES ASSUME j < top PROVE FALSE
    OBVIOUS
  <2> DEFINE X == {j}
  <2>1. X \in SUBSET Nat /\ j \in X /\ \A i \in X : i > top => i \div 2 \in X
    OBVIOUS
  <2>2. top \in X
    BY <1>2, <2>1 DEF Below
  <2> QED BY <2>2
<1>3. ASSUME Below(top, k), NEW j \in {2 * k, 2 * k + 1} PROVE Below(top, j)
  <2> SUFFICES ASSUME NEW X \in SUBSET Nat, j \in X, \A i \in X : i > top => i \div 2 \in X
               PROVE  top \in X
    BY DEF Below
  <2>1. j > top /\ j \div 2 = k
    BY <1>2, <1>3
  <2>2. k \in X
    BY <2>1
  <2> QED BY <1>3, <2>2 DEF Below
<1>4. ASSUME Below(top, k), k > top PROVE Below(top, k \div 2)
  <2> SUFFICES ASSUME NEW X \in SUBSET Nat, k \div 2 \in X,
                      \A i \in X : i > top => i \div 2 \in X
               PROVE  top \in X
    BY DEF Below
  <2> DEFINE Y == X \cup {k}
  <2>1. Y \in SUBSET Nat /\ k \in Y /\ \A i \in Y : i > top => i \div 2 \in Y
    OBVIOUS
  <2>2. top \in Y
    BY <1>4, <2>1 DEF Below
  <2> QED BY <1>4, <2>2
<1>5. ASSUME Below(top, k), k > top PROVE k \div 2 >= top
  <2>1. k \div 2 \in Nat \ {0}
    BY <1>5, Parent
  <2> QED BY <1>2, <1>4, <1>5, <2>1
<1>6. Below(1, k)
  <2> SUFFICES ASSUME NEW X \in SUBSET Nat, k \in X,
                      \A i \in X : i > 1 => i \div 2 \in X, 1 \notin X
               PROVE  FALSE
    BY DEF Below
  <2> DEFINE Y == X \ {0}
  <2>1. Y \in SUBSET Nat /\ Y # {}
    OBVIOUS
  <2>2. PICK m \in Y : \A i \in Y : m <= i
    BY <2>1, SmallestNumber
  <2>3. m \in Nat /\ m > 1 /\ m \div 2 \in X
    OBVIOUS
  <2>4. m \div 2 \in Y /\ m \div 2 < m
    BY <2>3, Parent
  <2> QED BY <2>2, <2>3, <2>4
<1> QED BY <1>1, <1>2, <1>3, <1>4, <1>5, <1>6

\* The parent of a slot below top is below top.
LEMMA BelowParent ==
    ASSUME NEW n \in Nat, NEW top \in 1..n, NEW k \in 1..n, Below(top, k)
    PROVE  /\ k >= top
           /\ k > top => /\ Below(top, k \div 2) /\ k \div 2 >= top
                        /\ k \div 2 \in 1..n /\ k \div 2 < k
<1>1. top \in Nat \ {0} /\ k \in Nat \ {0}
  OBVIOUS
<1>2. k >= top /\ (k > top => Below(top, k \div 2) /\ k \div 2 >= top)
  BY <1>1, BelowFacts
<1>3. k > top => k \div 2 \in 1..n /\ k \div 2 < k
  BY <1>1, Parent
<1> QED BY <1>2, <1>3

\* From slot top on no slot is later than its children, but for the hole.
Ordered(t, n, top, hole) ==
    \A i \in 2..n : i \div 2 >= top /\ i # hole /\ i \div 2 # hole
                       => ~Later(t[i \div 2], t[i])

\* What Rise makes of the slots up to h: a hole in an ordered array has moved up to
\* the place of value.
Risen(t, s, n, top, hole, h) ==
    /\ t \in Arr(n)
    /\ Ordered(t, n, top, hole)
    /\ ~Later(t[h], s[h])
    /\ \A k \in 1..n : k > h \/ k < top => t[k] = s[k]

\* The slot that the value leaves above it stays in order with the ones around it.
LEMMA RiseInner ==
    ASSUME NEW n \in Nat, NEW s \in Arr(n), NEW top \in 1..n, NEW value \in Event,
           NEW hole \in 1..n, Ordered(s, n, top, hole)
    PROVE  \A h \in 1..n : h < hole /\ Below(top, h) /\ Later(s[h], value)
              => Risen(Rise(s, h, top, value), s, n, top, hole, h)
<1> DEFINE Good(h) == h < hole /\ Below(top, h) /\ Later(s[h], value)
                         => Risen(Rise(s, h, top, value), s, n, top, hole, h)
           T == {h \in Nat : h \in 1..n /\ ~Good(h)}
<1> SUFFICES ASSUME T # {} PROVE FALSE
  OBVIOUS
<1>1. PICK h \in T : \A k \in T : h <= k
  BY SmallestNumber
<1> DEFINE p == h \div 2
           t == Rise(s, h, top, value)
<1>2. /\ h \in 1..n /\ h < hole /\ Below(top, h) /\ Later(s[h], value)
      /\ ~Risen(t, s, n, top, hole, h)
  OBVIOUS
<1>3. \A k \in 1..n : k < h => Good(k)
  BY <1>1
<1>4. t = IF h > top /\ Later(s[p], value)
            THEN [Rise(s, p, top, value) EXCEPT ![h] = s[p]]
            ELSE [s EXCEPT ![h] = value]
  BY <1>2, RiseRecursive
<1>5. h >= top /\ (h > top => Below(top, p) /\ p >= top /\ p \in 1..n /\ p < h)
  BY <1>2, BelowParent
<1>6. \A i \in 1..n : s[i] \in Event
  BY DEF Arr
<1> HIDE DEF T, p, t
<1>7. CASE h > top /\ Later(s[p], value)
  <2> DEFINE u == Rise(s, p, top, value)
  <2>1. Risen(u, s, n, top, hole, p)
    BY <1>2, <1>3, <1>5, <1>7
  <2> HIDE DEF u
  <2>2. u \in Arr(n) /\ t = [u EXCEPT ![h] = s[p]] /\ p \in 1..n /\ p < h
    BY <1>4, <1>5, <1>7, <2>1 DEF u, Risen
  <2>3. t \in Arr(n) /\ \A k \in 1..n : t[k] = IF k = h THEN s[p] ELSE u[k]
    BY <1>2, <1>6, <2>2 DEF Arr
  <2>4. ~Later(s[p], s[h])
    BY <1>2, <1>5, <1>7 DEF Ordered, p
  <2>5. ASSUME NEW i \in 2..n, i \div 2 >= top, i # hole, i \div 2 # hole
        PROVE  ~Later(t[i \div 2], t[i])
    <3>1. i \div 2 \in 1..n /\ i \div 2 < i /\ i \in 1..n
      BY Parent
    <3>2. ~Later(u[i \div 2], u[i])
      BY <2>1, <2>5 DEF Risen, Ordered
    <3>3. CASE i = h
      <4>1. t[i] = s[p] /\ t[i \div 2] = u[p] /\ ~Later(u[p], s[p])
        BY <2>1, <2>2, <2>3, <3>1, <3>3 DEF Risen, p
      <4> QED BY <4>1
    <3>4. CASE i \div 2 = h
      <4>1. t[i \div 2] = s[p] /\ t[i] = s[i]
        BY <2>1, <2>2, <2>3, <3>1, <3>4 DEF Risen
      <4>2. ~Later(s[h], s[i])
        BY <2>5, <3>4 DEF Ordered
      <4> QED BY <1>2, <1>6, <2>2, <2>4, <3>1, <4>1, <4>2, LaterOrder
    <3>5. CASE i # h /\ i \div 2 # h
      BY <2>3, <3>1, <3>2, <3>5
    <3> QED BY <3>3, <3>4, <3>5
  <2>6. Ordered(t, n, top, hole)
    BY <2>5 DEF Ordered
  <2>7. ~Later(t[h], s[h])
    BY <1>2, <2>3, <2>4
  <2>8. \A k \in 1..n : k > h \/ k < top => t[k] = s[k]
    BY <1>2, <1>5, <2>1, <2>2, <2>3 DEF Risen
  <2> QED BY <1>2, <2>3, <2>6, <2>7, <2>8 DEF Risen
<1>8. CASE ~(h > top /\ Later(s[p], value))
  <2>1. t = [s EXCEPT ![h] = value]
    BY <1>4, <1>8
  <2>2. t \in Arr(n) /\ \A k \in 1..n : t[k] = IF k = h THEN value ELSE s[k]
    BY <1>2, <2>1 DEF Arr
  <2>3. ~Later(value, s[h])
    BY <1>2, <1>6, LaterOrder
  <2>4. ASSUME NEW i \in 2..n, i \div 2 >= top, i # hole, i \div 2 # hole
        PROVE  ~Later(t[i \div 2], t[i])
    <3>1. i \div 2 \in 1..n /\ i \div 2 < i /\ i \in 1..n
      BY Parent
    <3>2. ~Later(s[i \div 2], s[i])
      BY <2>4 DEF Ordered
    <3>3. CASE i = h
      <4>1. t[i] = value /\ t[i \div 2] = s[p] /\ h > top
        BY <2>2, <2>4, <3>1, <3>3 DEF p
      <4> QED BY <1>8, <4>1
    <3>4. CASE i \div 2 = h
      <4>1. t[i \div 2] = value /\ t[i] = s[i]
        BY <2>2, <3>1, <3>4
      <4> QED BY <1>2, <1>6, <2>3, <3>1, <3>2, <3>4, <4>1, LaterOrder
    <3>5. CASE i # h /\ i \div 2 # h
      BY <2>2, <3>1, <3>2, <3>5
    <3> QED BY <3>3, <3>4, <3>5
  <2>5. Ordered(t, n, top, hole)
    BY <2>4 DEF Ordered
  <2>6. \A k \in 1..n : k > h \/ k < top => t[k] = s[k]
    BY <1>5, <2>2
  <2> QED BY <1>2, <2>2, <2>3, <2>5, <2>6 DEF Risen
<1> QED BY <1>7, <1>8

\* A value that rises from a leaf ends where it belongs.
LEMMA RiseOrdered ==
    ASSUME NEW n \in Nat, NEW s \in Arr(n), NEW top \in 1..n, NEW value \in Event,
           NEW hole \in 1..n, Below(top, hole), 2 * hole > n, Ordered(s, n, top, hole)
    PROVE  /\ Rise(s, hole, top, value) \in Arr(n)
           /\ Ordered(Rise(s, hole, top, value), n, top, 0)
<1> DEFINE p == hole \div 2
           t == Rise(s, hole, top, value)
           u == Rise(s, p, top, value)
           go == hole > top /\ Later(s[p], value)
<1>1. t = IF go THEN [u EXCEPT ![hole] = s[p]] ELSE [s EXCEPT ![hole] = value]
  BY RiseRecursive
<1>2. hole > top => Below(top, p) /\ p \in 1..n /\ p < hole
  BY BelowParent
<1>3. go => Risen(u, s, n, top, hole, p)
  BY <1>2, RiseInner
<1>4. \A i \in 1..n : s[i] \in Event
  BY DEF Arr
<1>5. \A i \in 2..n : /\ i \div 2 \in 1..n /\ i \div 2 < i /\ i \in 1..n
                      /\ i \div 2 # hole
  BY Parent
<1> HIDE DEF p, t, u
<1>6. CASE go
  <2>1. u \in Arr(n) /\ p \in 1..n /\ t = [u EXCEPT ![hole] = s[p]]
    BY <1>1, <1>2, <1>3, <1>6 DEF Risen
  <2>2. t \in Arr(n) /\ \A k \in 1..n : t[k] = IF k = hole THEN s[p] ELSE u[k]
    BY <1>4, <2>1 DEF Arr
  <2>3. ASSUME NEW i \in 2..n, i \div 2 >= top PROVE ~Later(t[i \div 2], t[i])
    <3>1. CASE i = hole
      <4>1. t[i] = s[p] /\ t[i \div 2] = u[p] /\ ~Later(u[p], s[p])
        BY <1>3, <1>5, <1>6, <2>2, <3>1 DEF Risen, p
      <4> QED BY <4>1
    <3>2. CASE i # hole
      <4>1. t[i] = u[i] /\ t[i \div 2] = u[i \div 2]
        BY <1>5, <2>2, <3>2
      <4>2. ~Later(u[i \div 2], u[i])
        BY <1>3, <1>5, <1>6, <2>3, <3>2 DEF Risen, Ordered
      <4> QED BY <4>1, <4>2
    <3> QED BY <3>1, <3>2
  <2> QED BY <2>2, <2>3 DEF Ordered, t
<1>7. CASE ~go
  <2>1. t = [s EXCEPT ![hole] = value]
    BY <1>1, <1>7
  <2>2. t \in Arr(n) /\ \A k \in 1..n : t[k] = IF k = hole THEN value ELSE s[k]
    BY <2>1 DEF Arr
  <2>3. ASSUME NEW i \in 2..n, i \div 2 >= top PROVE ~Later(t[i \div 2], t[i])
    <3>1. CASE i = hole
      <4>1. t[i] = value /\ t[i \div 2] = s[p] /\ hole > top
        BY <1>5, <2>2, <2>3, <3>1 DEF p
      <4> QED BY <1>7, <4>1
    <3>2. CASE i # hole
      <4>1. t[i] = s[i] /\ t[i \div 2] = s[i \div 2]
        BY <1>5, <2>2, <3>2
      <4> QED BY <1>5, <2>3, <3>2, <4>1 DEF Ordered
    <3> QED BY <3>1, <3>2
  <2> QED BY <2>2, <2>3 DEF Ordered, t
<1> QED BY <1>6, <1>7

\* The first m slots of s hold different events, none of them value.
Fresh(s, m, value) ==
    /\ \A j, k \in 1..m : j # k => s[j] # s[k]
    /\ \A j \in 1..m : s[j] # value

\* Up to slot h, t holds the events of s in another order, with value instead of the
\* one at h.  The root changes only for an earlier value.
Shuffled(t, s, n, h, value) ==
    /\ t \in Arr(n)
    /\ \A k \in 1..n : k > h => t[k] = s[k]
    /\ \A k \in 1..h : t[k] = value \/ \E j \in 1..(h - 1) : t[k] = s[j]
    /\ \E k \in 1..h : t[k] = value
    /\ \A j \in 1..(h - 1) : \E k \in 1..h : t[k] = s[j]
    /\ Fresh(s, h - 1, value) => \A j, k \in 1..h : j # k => t[j] # t[k]
    /\ h > 1 /\ ~Later(s[1], value) => t[1] = s[1]

\* A value placed in the hole.
LEMMA PlacedShuffled ==
    ASSUME NEW n \in Nat, NEW s \in Arr(n), NEW h \in 1..n, NEW value \in Event
    PROVE  Shuffled([s EXCEPT ![h] = value], s, n, h, value)
<1> DEFINE t == [s EXCEPT ![h] = value]
<1>1. t \in Arr(n) /\ \A k \in 1..n : t[k] = IF k = h THEN value ELSE s[k]
  BY DEF Arr
<1> HIDE DEF t
<1>2. \A k \in 1..h : k \in 1..n /\ (k = h \/ k \in 1..(h - 1))
  OBVIOUS
<1>3. \A k \in 1..h : t[k] = value \/ \E j \in 1..(h - 1) : t[k] = s[j]
  BY <1>1, <1>2
<1>4. h \in 1..h /\ t[h] = value
  BY <1>1
<1>5. \A j \in 1..(h - 1) : j \in 1..h /\ t[j] = s[j]
  BY <1>1
<1>6. Fresh(s, h - 1, value) => \A j, k \in 1..h : j # k => t[j] # t[k]
  <2> SUFFICES ASSUME Fresh(s, h - 1, value), NEW j \in 1..h, NEW k \in 1..h, j # k
               PROVE  t[j] # t[k]
    OBVIOUS
  <2>1. CASE j = h
    BY <1>2, <1>4, <1>5, <2>1 DEF Fresh
  <2>2. CASE k = h
    BY <1>2, <1>4, <1>5, <2>2 DEF Fresh
  <2>3. CASE j # h /\ k # h
    BY <1>2, <1>5, <2>3 DEF Fresh
  <2> QED BY <2>1, <2>2, <2>3
<1>7. \A k \in 1..n : k > h => t[k] = s[k]
  BY <1>1
<1>8. h > 1 => t[1] = s[1]
  BY <1>1
<1> QED BY <1>1, <1>3, <1>4, <1>5, <1>6, <1>7, <1>8 DEF Shuffled, t

\* A value that rises past the parent of the hole.
LEMMA RaisedShuffled ==
    ASSUME NEW n \in Nat, NEW s \in Arr(n), NEW h \in 1..n, NEW p \in 1..n, p < h,
           NEW value \in Event, NEW u, Shuffled(u, s, n, p, value),
           Later(s[p], value)
    PROVE  Shuffled([u EXCEPT ![h] = s[p]], s, n, h, value)
<1> DEFINE t == [u EXCEPT ![h] = s[p]]
<1>1. u \in Arr(n) /\ s[p] \in Event
  BY DEF Shuffled, Arr
<1>2. t \in Arr(n) /\ \A k \in 1..n : t[k] = IF k = h THEN s[p] ELSE u[k]
  BY <1>1 DEF Arr
<1> HIDE DEF t
<1>3. \A k \in 1..h : \/ k = h
                      \/ k \in 1..p
                      \/ k \in 1..(h - 1) /\ k > p
  OBVIOUS
<1>4. t[h] = s[p] /\ h \in 1..h /\ p \in 1..(h - 1) /\ h - 1 \in Nat
  BY <1>2
<1>5. \A k \in 1..p : k \in 1..h /\ t[k] = u[k]
  BY <1>2
<1>6. \A k \in 1..(h - 1) : k > p => k \in 1..h /\ t[k] = s[k]
  BY <1>2 DEF Shuffled
<1>7. \A j \in 1..(p - 1) : j \in 1..(h - 1)
  OBVIOUS
<1>8. ASSUME NEW k \in 1..h PROVE t[k] = value \/ \E j \in 1..(h - 1) : t[k] = s[j]
  <2>1. CASE k = h
    BY <1>4, <2>1
  <2>2. CASE k \in 1..p
    BY <1>5, <1>7, <2>2 DEF Shuffled
  <2>3. CASE k \in 1..(h - 1) /\ k > p
    BY <1>6, <2>3
  <2> QED BY <1>3, <2>1, <2>2, <2>3
<1>9. \E k \in 1..h : t[k] = value
  BY <1>5 DEF Shuffled
<1>10. ASSUME NEW j \in 1..(h - 1) PROVE \E k \in 1..h : t[k] = s[j]
  <2>1. CASE j \in 1..(p - 1)
    BY <1>5, <2>1 DEF Shuffled
  <2>2. CASE j = p
    BY <1>4, <2>2
  <2>3. CASE j > p
    BY <1>6, <2>3
  <2> QED BY <2>1, <2>2, <2>3
<1>11. ASSUME Fresh(s, h - 1, value), NEW j \in 1..h, NEW k \in 1..h, j # k
       PROVE  t[j] # t[k]
  <2>1. Fresh(s, p - 1, value)
    BY <1>7, <1>11 DEF Fresh
  <2>2. \A a, b \in 1..p : a # b => u[a] # u[b]
    BY <2>1 DEF Shuffled
  <2>3. \A a \in 1..p, b \in 1..(h - 1) : b >= p => u[a] # s[b]
    <3> SUFFICES ASSUME NEW a \in 1..p, NEW b \in 1..(h - 1), b >= p PROVE u[a] # s[b]
      OBVIOUS
    <3>1. u[a] = value \/ \E i \in 1..(p - 1) : u[a] = s[i]
      BY DEF Shuffled
    <3>2. s[b] # value /\ \A i \in 1..(p - 1) : s[i] # s[b]
      BY <1>7, <1>11 DEF Fresh
    <3> QED BY <3>1, <3>2
  <2>4. \A a, b \in 1..(h - 1) : a # b => s[a] # s[b]
    BY <1>11 DEF Fresh
  <2>5. ASSUME NEW a \in 1..h, NEW b \in 1..h, a < b PROVE t[a] # t[b]
    <3>1. CASE a \in 1..p /\ b \in 1..p
      BY <1>5, <2>2, <2>5, <3>1
    <3>2. CASE a \in 1..p /\ b \in 1..(h - 1) /\ b > p
      BY <1>5, <1>6, <2>3, <3>2
    <3>3. CASE a \in 1..p /\ b = h
      BY <1>4, <1>5, <2>3, <3>3
    <3>4. CASE a \in 1..(h - 1) /\ a > p /\ b \in 1..(h - 1)
      BY <1>6, <2>4, <2>5, <3>4
    <3>5. CASE a \in 1..(h - 1) /\ a > p /\ b = h
      BY <1>4, <1>6, <2>4, <3>5
    <3> QED BY <2>5, <3>1, <3>2, <3>3, <3>4, <3>5
  <2> QED BY <1>11, <2>5
<1>12. \A k \in 1..n : k > h => t[k] = s[k]
  BY <1>2 DEF Shuffled
<1>13. h > 1 /\ ~Later(s[1], value) => t[1] = s[1]
  <2> SUFFICES ASSUME ~Later(s[1], value) PROVE t[1] = s[1]
    OBVIOUS
  <2>1. p > 1
    <3>1. p # 1
      OBVIOUS
    <3> QED BY <3>1
  <2>2. u[1] = s[1]
    BY <2>1 DEF Shuffled
  <2> QED BY <1>2, <2>1, <2>2
<1> QED BY <1>2, <1>8, <1>9, <1>10, <1>11, <1>12, <1>13 DEF Shuffled, t

\* A value that rises, by the smallest hole for which it would be wrong.
LEMMA RiseShuffles ==
    ASSUME NEW n \in Nat, NEW s \in Arr(n), NEW top \in 1..n, NEW value \in Event
    PROVE  \A h \in 1..n : Shuffled(Rise(s, h, top, value), s, n, h, value)
<1> DEFINE Good(h) == Shuffled(Rise(s, h, top, value), s, n, h, value)
           T == {h \in Nat : h \in 1..n /\ ~Good(h)}
<1> SUFFICES ASSUME T # {} PROVE FALSE
  OBVIOUS
<1>1. PICK h \in T : \A k \in T : h <= k
  BY SmallestNumber
<1> DEFINE p == h \div 2
<1>2. h \in 1..n /\ ~Good(h) /\ \A k \in 1..n : k < h => Good(k)
  BY <1>1
<1>3. Rise(s, h, top, value) =
         IF h > top /\ Later(s[p], value)
           THEN [Rise(s, p, top, value) EXCEPT ![h] = s[p]]
           ELSE [s EXCEPT ![h] = value]
  BY <1>2, RiseRecursive
<1>4. h > top => p \in 1..n /\ p < h
  BY <1>2, Parent
<1> HIDE DEF T, p
<1>5. CASE h > top /\ Later(s[p], value)
  <2>1. Good(p) /\ p \in 1..n /\ p < h
    BY <1>2, <1>4, <1>5
  <2>2. Rise(s, h, top, value) = [Rise(s, p, top, value) EXCEPT ![h] = s[p]]
    BY <1>3, <1>5
  <2> DEFINE u == Rise(s, p, top, value)
  <2>3. Shuffled(u, s, n, p, value)
    BY <2>1
  <2> HIDE DEF u
  <2>4. Shuffled([u EXCEPT ![h] = s[p]], s, n, h, value)
    BY <1>2, <1>5, <2>1, <2>3, RaisedShuffled
  <2> QED BY <1>2, <2>2, <2>4 DEF u
<1>6. CASE ~(h > top /\ Later(s[p], value))
  <2>1. Rise(s, h, top, value) = [s EXCEPT ![h] = value]
    BY <1>3, <1>6
  <2>2. Good(h)
    BY <1>2, <2>1, PlacedShuffled, ZenonT(40)
  <2> QED BY <1>2, <2>2
<1> QED BY <1>5, <1>6
-----------------------------------------------------------------------------
\* The earlier child is a child, and it is not later than its sibling.
LEMMA ChildFacts ==
    ASSUME NEW n \in Nat, NEW s \in Arr(n), NEW h \in 1..n, 2 * h <= n
    PROVE  /\ Child(s, h) \in {2 * h, 2 * h + 1}
           /\ Child(s, h) \in 1..n /\ Child(s, h) > h
           /\ Child(s, h) \div 2 = h
           /\ \A i \in 2..n : i \div 2 = h => ~Later(s[Child(s, h)], s[i])
<1> DEFINE c == Child(s, h)
<1>1. Len(s) = n /\ \A i \in 1..n : s[i] \in Event
  BY ArrSeq DEF Arr
<1>2. c = IF 2 * h + 1 <= n /\ ~Later(s[2 * h + 1], s[2 * h]) THEN 2 * h + 1 ELSE 2 * h
  BY <1>1 DEF Child
<1> HIDE DEF c
<1>3. c \in {2 * h, 2 * h + 1} /\ c \in 1..n /\ c > h /\ c \div 2 = h
  BY <1>2, Parent
<1>4. ASSUME NEW i \in 2..n, i \div 2 = h PROVE ~Later(s[c], s[i])
  <2>1. i \in {2 * h, 2 * h + 1}
    BY <1>4, Parent
  <2>2. CASE i = c
    BY <1>1, <1>3, <2>2, LaterOrder
  <2>3. CASE c = 2 * h + 1 /\ i = 2 * h
    BY <1>2, <2>3
  <2>4. CASE c = 2 * h /\ i = 2 * h + 1
    <3>1. Later(s[2 * h + 1], s[2 * h])
      BY <1>2, <2>4
    <3> QED BY <1>1, <1>3, <2>4, <3>1, LaterOrder
  <2> QED BY <1>3, <2>1, <2>2, <2>3, <2>4
<1> QED BY <1>3, <1>4 DEF c

\* f is the function in which Sink recurs, over the slots from m on.
Sinking(f, m, n, s) ==
    f = [h \in m..n |-> IF 2 * h > n THEN [seq |-> s, hole |-> h]
                        ELSE [f[Child(s, h)] EXCEPT !.seq[h] = s[Child(s, h)]]]

\* There is one, by the largest m without one.
LEMMA SinkingExists ==
    ASSUME NEW n \in Nat, NEW s \in Arr(n)
    PROVE  \E f : Sinking(f, 1, n, s)
<1> DEFINE T == {k \in Nat : k <= n /\ ~\E f : Sinking(f, n + 1 - k, n, s)}
           V(f, h) == IF 2 * h > n THEN [seq |-> s, hole |-> h]
                      ELSE [f[Child(s, h)] EXCEPT !.seq[h] = s[Child(s, h)]]
<1>0. n \notin T => \E f : Sinking(f, 1, n, s)
  <2>1. n + 1 - n = 1
    OBVIOUS
  <2> QED BY <2>1
<1> SUFFICES ASSUME T # {} PROVE FALSE
  BY <1>0
<1>1. PICK k \in T : \A j \in T : k <= j
  BY SmallestNumber
<1> DEFINE m == n + 1 - k
<1>2. k \in Nat /\ k <= n /\ m \in 1..(n + 1) /\ ~\E f : Sinking(f, m, n, s)
  OBVIOUS
<1>3. CASE k = 0
  <2> DEFINE f == [h \in m..n |-> 0]
  <2>1. m..n = {}
    BY <1>3
  <2>2. Sinking(f, m, n, s)
    <3> HIDE DEF m
    <3> QED BY <2>1 DEF Sinking
  <2> QED BY <1>2, <2>2
<1>4. CASE k # 0
  <2>1. k - 1 \in Nat /\ k - 1 <= n /\ k - 1 \notin T /\ n + 1 - (k - 1) = m + 1 /\ m \in 1..n
    BY <1>1, <1>2, <1>4
  <2>2. PICK f : Sinking(f, m + 1, n, s)
    BY <2>1
  <2> HIDE DEF m, T
  <2> DEFINE g == [h \in m..n |-> IF h = m THEN V(f, m) ELSE f[h]]
  <2>3. \A h \in (m + 1)..n : f[h] = V(f, h)
    BY <2>2 DEF Sinking
  <2>4. ASSUME NEW h \in m..n, 2 * h <= n
        PROVE  Child(s, h) \in m..n /\ g[Child(s, h)] = f[Child(s, h)]
    <3> DEFINE j == Child(s, h)
    <3>1. h \in 1..n
      BY <2>1
    <3>2. j \in 1..n /\ j > h
      BY <2>4, <3>1, ChildFacts
    <3> HIDE DEF j, V
    <3>3. j \in m..n /\ j # m
      BY <2>1, <3>1, <3>2
    <3>4. g[j] = f[j]
      BY <3>3
    <3> QED BY <3>3, <3>4 DEF j
  <2>5. \A h \in m..n : g[h] = V(g, h)
    <3> SUFFICES ASSUME NEW h \in m..n PROVE g[h] = V(g, h)
      OBVIOUS
    <3>0. 2 * h > n \/ 2 * h <= n
      BY <2>1
    <3>1. V(g, h) = V(f, h)
      <4> HIDE DEF g
      <4>1. CASE 2 * h > n
        BY <4>1
      <4>2. CASE 2 * h <= n
        BY <2>4, <4>2
      <4> QED BY <3>0, <4>1, <4>2
    <3>2. g[h] = V(f, h)
      <4>1. h = m \/ h \in (m + 1)..n
        BY <2>1
      <4> HIDE DEF V
      <4> QED BY <2>3, <4>1
    <3> QED BY <3>1, <3>2
  <2>6. Sinking(g, m, n, s)
    <3>1. g = [h \in m..n |-> g[h]]
      OBVIOUS
    <3> HIDE DEF g
    <3> QED BY <2>5, <3>1 DEF Sinking
  <2> QED BY <1>2, <2>6
<1> QED BY <1>3, <1>4

\* So Sink satisfies its recursion.
LEMMA SinkRecursive ==
    ASSUME NEW n \in Nat, NEW s \in Arr(n), NEW h \in 1..n
    PROVE  Sink(s, h) =
              IF 2 * h > n THEN [seq |-> s, hole |-> h]
              ELSE [Sink(s, Child(s, h)) EXCEPT !.seq[h] = s[Child(s, h)]]
<1> DEFINE F == CHOOSE f : Sinking(f, 1, n, s)
<1>1. Sinking(F, 1, n, s)
  BY SinkingExists
<1>2. Len(s) = n
  BY ArrSeq
<1>3. ASSUME NEW k PROVE Sink(s, k) = F[k]
  <2>1. Sink(s, k) = (CHOOSE f : f = [j \in 1..Len(s) |->
              IF 2 * j > Len(s) THEN [seq |-> s, hole |-> j]
              ELSE [f[Child(s, j)] EXCEPT !.seq[j] = s[Child(s, j)]]])[k]
    BY DEF Sink
  <2> QED BY <1>2, <2>1 DEF Sinking
<1> HIDE DEF F
<1>4. F[h] = IF 2 * h > n THEN [seq |-> s, hole |-> h]
             ELSE [F[Child(s, h)] EXCEPT !.seq[h] = s[Child(s, h)]]
  BY <1>1 DEF Sinking
<1> QED BY <1>3, <1>4

\* What Sink makes of the slots from h on: the hole has moved to a leaf below h.
Sunk(r, s, n, h) ==
    /\ r.seq \in Arr(n) /\ r.hole \in 1..n
    /\ r.hole >= h /\ 2 * r.hole > n
    /\ \A top \in 1..n : Below(top, h) => Below(top, r.hole)
    /\ \A k \in 1..n : k < h \/ (h < k /\ k < 2 * h) => r.seq[k] = s[k]
    /\ r.hole # h => 2 * h <= n /\ r.seq[h] = s[Child(s, h)]
    /\ Ordered(s, n, h + 1, 0) => Ordered(r.seq, n, h, r.hole)

\* It holds the events after h in another order.
SunkShuffled(r, s, n, h) ==
    /\ \A k \in h..n : k # r.hole => \E j \in (h + 1)..n : r.seq[k] = s[j]
    /\ \A j \in (h + 1)..n : \E k \in h..n : k # r.hole /\ r.seq[k] = s[j]
    /\ (\A j, k \in (h + 1)..n : j # k => s[j] # s[k])
         => \A j, k \in h..n : j # k /\ j # r.hole /\ k # r.hole => r.seq[j] # r.seq[k]

\* A hole at a leaf stays.
LEMMA SunkLeaf ==
    ASSUME NEW n \in Nat, NEW s \in Arr(n), NEW h \in 1..n, 2 * h > n
    PROVE  /\ Sunk([seq |-> s, hole |-> h], s, n, h)
           /\ SunkShuffled([seq |-> s, hole |-> h], s, n, h)
<1> DEFINE r == [seq |-> s, hole |-> h]
<1>1. r.seq = s /\ r.hole = h
  OBVIOUS
<1> HIDE DEF r
<1>2. Ordered(s, n, h + 1, 0) => Ordered(s, n, h, h)
  <2> SUFFICES ASSUME Ordered(s, n, h + 1, 0), NEW i \in 2..n, i \div 2 >= h, i \div 2 # h
               PROVE  ~Later(s[i \div 2], s[i])
    BY DEF Ordered
  <2>1. i \div 2 \in Nat /\ i \div 2 >= 1
    BY Parent
  <2>2. i \div 2 >= h + 1 /\ i # 0 /\ i \div 2 # 0
    BY <2>1
  <2> QED BY <2>2 DEF Ordered
<1>3. Sunk(r, s, n, h)
  BY <1>1, <1>2 DEF Sunk
<1>4. \A k \in h..n : k # h => k \in (h + 1)..n
  OBVIOUS
<1>5. \A k \in (h + 1)..n : k \in h..n /\ k # h
  OBVIOUS
<1>6. SunkShuffled(r, s, n, h)
  BY <1>1, <1>4, <1>5 DEF SunkShuffled
<1> QED BY <1>3, <1>6 DEF r

\* A hole that first moved below the earlier child, which then rises.
LEMMA SunkStep ==
    ASSUME NEW n \in Nat, NEW s \in Arr(n), NEW h \in 1..n, 2 * h <= n,
           NEW b \in [seq : Arr(n), hole : 1..n], Sunk(b, s, n, Child(s, h)),
           SunkShuffled(b, s, n, Child(s, h)),
           NEW r, r = [b EXCEPT !.seq[h] = s[Child(s, h)]]
    PROVE  /\ r \in [seq : Arr(n), hole : 1..n]
           /\ Sunk(r, s, n, h) /\ SunkShuffled(r, s, n, h)
<1> DEFINE c == Child(s, h)
<1>1. /\ c \in {2 * h, 2 * h + 1} /\ c \in 1..n /\ c > h /\ c \div 2 = h
      /\ \A i \in 2..n : i \div 2 = h => ~Later(s[c], s[i])
  BY ChildFacts
<1>2. Sunk(b, s, n, c) /\ SunkShuffled(b, s, n, c) /\ r = [b EXCEPT !.seq[h] = s[c]]
  OBVIOUS
<1>3. \A i \in 1..n : s[i] \in Event
  BY DEF Arr
<1> HIDE DEF c
<1>4. /\ b.seq \in Arr(n) /\ b.hole \in 1..n /\ r.hole = b.hole
      /\ r.seq = [b.seq EXCEPT ![h] = s[c]]
      /\ r = [seq |-> r.seq, hole |-> r.hole]
  BY <1>2
<1>5. r.seq \in Arr(n) /\ \A k \in 1..n : r.seq[k] = IF k = h THEN s[c] ELSE b.seq[k]
  BY <1>1, <1>3, <1>4 DEF Arr
<1>6. r \in [seq : Arr(n), hole : 1..n]
  BY <1>4, <1>5
<1> DEFINE u == b.seq
           t == r.seq
           e == b.hole
<1>7. /\ u \in Arr(n) /\ e \in 1..n /\ r.hole = e /\ e >= c /\ 2 * e > n
      /\ \A top \in 1..n : Below(top, c) => Below(top, e)
      /\ \A k \in 1..n : k < c \/ (c < k /\ k < 2 * c) => u[k] = s[k]
      /\ e # c => u[c] = s[Child(s, c)] /\ 2 * c <= n
      /\ Ordered(s, n, c + 1, 0) => Ordered(u, n, c, e)
  BY <1>2, <1>4 DEF Sunk
<1>8. \A k \in 1..n : t[k] = IF k = h THEN s[c] ELSE u[k]
  BY <1>5
<1>9. /\ \A k \in c..n : k # e => \E j \in (c + 1)..n : u[k] = s[j]
      /\ \A j \in (c + 1)..n : \E k \in c..n : k # e /\ u[k] = s[j]
      /\ (\A j, k \in (c + 1)..n : j # k => s[j] # s[k])
           => \A j, k \in c..n : j # k /\ j # e /\ k # e => u[j] # u[k]
  BY <1>2 DEF SunkShuffled
<1>10. t \in Arr(n)
  BY <1>5
<1> HIDE DEF u, t, e
<1>11. \A top \in 1..n : Below(top, h) => Below(top, e)
  <2> SUFFICES ASSUME NEW top \in 1..n, Below(top, h) PROVE Below(top, e)
    OBVIOUS
  <2>1. top \in Nat \ {0} /\ h \in Nat \ {0}
    OBVIOUS
  <2>2. Below(top, 2 * h) /\ Below(top, 2 * h + 1)
    BY <2>1, BelowFacts
  <2> QED BY <1>1, <1>7, <2>2
<1>12. \A k \in 1..n : k < h \/ (h < k /\ k < 2 * h) => t[k] = s[k]
  BY <1>1, <1>7, <1>8
<1>13. e # h /\ t[h] = s[c]
  BY <1>1, <1>7, <1>8
<1>14. ASSUME Ordered(s, n, h + 1, 0) PROVE Ordered(t, n, h, e)
  <2>1. Ordered(s, n, c + 1, 0)
    <3>1. ASSUME NEW i \in 2..n, i \div 2 >= c + 1 PROVE i \div 2 >= h + 1
      BY <1>1, <3>1, Parent
    <3> QED BY <1>14, <3>1 DEF Ordered
  <2>2. Ordered(u, n, c, e)
    BY <1>7, <2>1
  <2>3. \A i \in 2..n : i \div 2 >= h + 1 => ~Later(s[i \div 2], s[i])
    <3>1. \A i \in 2..n : i # 0 /\ i \div 2 # 0
      BY Parent
    <3> QED BY <1>14, <3>1 DEF Ordered
  <2> SUFFICES ASSUME NEW i \in 2..n, i \div 2 >= h, i # e, i \div 2 # e
               PROVE  ~Later(t[i \div 2], t[i])
    BY DEF Ordered
  <2> DEFINE p == i \div 2
  <2>4. p \in 1..n /\ p < i /\ i \in 1..n /\ i \in {2 * p, 2 * p + 1}
    BY Parent
  <2>5. p >= h /\ p # e /\ (p >= h + 1 => ~Later(s[p], s[i]))
    BY <2>3
  <2>6. p >= c => ~Later(u[p], u[i])
    BY <2>2 DEF Ordered
  <2>7. p = h => ~Later(s[c], s[i])
    BY <1>1
  <2>8. t[p] = (IF p = h THEN s[c] ELSE u[p]) /\ t[i] = u[i]
    BY <1>8, <2>4, <2>5
  <2>9. i = c => p = h
    BY <1>1
  <2>10. (p = h /\ i # c => i < 2 * c) /\ (p < c /\ p # h => c < i /\ i < 2 * c)
    <3> HIDE DEF p
    <3> QED BY <1>1, <2>4, <2>5
  <2>11. c \in 2..n /\ c >= h + 1
    BY <1>1
  <2> HIDE DEF p
  <2>12. CASE p = h /\ i = c
    <3>1. e # c /\ u[c] = s[Child(s, c)] /\ 2 * c <= n
      BY <1>7, <2>12
    <3> DEFINE d == Child(s, c)
    <3>2. d \in 2..n /\ d \in 1..n /\ d \div 2 = c
      BY <1>1, <3>1, ChildFacts
    <3> HIDE DEF d
    <3>3. ~Later(s[c], s[d])
      BY <2>3, <2>11, <3>2
    <3>4. t[p] = s[c] /\ t[i] = s[d]
      BY <2>8, <2>12, <3>1 DEF d
    <3> QED BY <3>3, <3>4 DEF p
  <2>13. CASE p = h /\ i # c
    <3>1. u[i] = s[i]
      BY <1>1, <1>7, <2>4, <2>10, <2>13
    <3> QED BY <2>7, <2>8, <2>13, <3>1 DEF p
  <2>14. CASE p # h /\ p < c
    <3>1. u[i] = s[i] /\ u[p] = s[p] /\ p >= h + 1
      BY <1>1, <1>7, <2>4, <2>5, <2>10, <2>14
    <3> QED BY <2>5, <2>8, <2>14, <3>1 DEF p
  <2>15. CASE p # h /\ p >= c
    BY <2>6, <2>8, <2>15 DEF p
  <2> QED BY <1>1, <2>4, <2>12, <2>13, <2>14, <2>15
<1>15. Sunk(r, s, n, h)
  <2>1. e >= h
    BY <1>1, <1>7
  <2> QED BY <1>7, <1>10, <1>11, <1>12, <1>13, <1>14, <2>1 DEF Sunk, t, c
<1>16. \A k \in h..n : \/ k = h
                       \/ k \in (h + 1)..n /\ k < c
                       \/ k \in c..n
  BY <1>1
<1>17. \A k \in (h + 1)..n : k < c => t[k] = s[k] /\ k # e /\ k \in h..n
  BY <1>1, <1>7, <1>8
<1>18. \A k \in c..n : k \in h..n /\ k # h /\ t[k] = u[k]
  BY <1>1, <1>8
<1>19. c \in (h + 1)..n /\ h \in h..n /\ \A j \in (c + 1)..n : j \in (h + 1)..n
  BY <1>1
<1>20. ASSUME NEW k \in h..n, k # e PROVE \E j \in (h + 1)..n : t[k] = s[j]
  BY <1>9, <1>13, <1>16, <1>17, <1>18, <1>19, <1>20
<1>21. ASSUME NEW j \in (h + 1)..n PROVE \E k \in h..n : k # e /\ t[k] = s[j]
  <2>1. CASE j < c
    BY <1>17, <2>1
  <2>2. CASE j = c
    BY <1>13, <1>19, <2>2
  <2>3. CASE j > c
    <3>1. j \in (c + 1)..n
      BY <1>1, <2>3
    <3> QED BY <1>9, <1>18, <3>1
  <2> QED BY <1>1, <2>1, <2>2, <2>3
<1>22. ASSUME \A j, k \in (h + 1)..n : j # k => s[j] # s[k],
              NEW j \in h..n, NEW k \in h..n, j < k, j # e, k # e
       PROVE  t[j] # t[k]
  <2>1. \A x, y \in c..n : x # y /\ x # e /\ y # e => u[x] # u[y]
    BY <1>9, <1>19, <1>22
  <2>2. \A a \in c..n : a # e => \A i \in (h + 1)..n : i <= c => u[a] # s[i]
    <3> SUFFICES ASSUME NEW a \in c..n, a # e, NEW i \in (h + 1)..n, i <= c
                 PROVE  u[a] # s[i]
      OBVIOUS
    <3>1. PICK x \in (c + 1)..n : u[a] = s[x]
      BY <1>9
    <3>2. x \in (h + 1)..n /\ x # i
      BY <1>1, <1>19
    <3> QED BY <1>22, <3>1, <3>2
  <2>3. CASE j = h /\ k \in (h + 1)..n /\ k < c
    BY <1>13, <1>17, <1>19, <1>22, <2>3
  <2>4. CASE j = h /\ k \in c..n
    BY <1>13, <1>18, <1>19, <1>22, <2>2, <2>4
  <2>5. CASE j \in (h + 1)..n /\ j < c /\ k \in (h + 1)..n /\ k < c
    BY <1>17, <1>22, <2>5
  <2>6. CASE j \in (h + 1)..n /\ j < c /\ k \in c..n
    <3>1. t[j] = s[j] /\ t[k] = u[k] /\ j <= c
      BY <1>1, <1>17, <1>18, <2>6
    <3>2. u[k] # s[j]
      BY <1>22, <2>2, <2>6, <3>1
    <3> QED BY <3>1, <3>2
  <2>7. CASE j \in c..n /\ k \in c..n
    BY <1>18, <1>22, <2>1, <2>7
  <2> QED BY <1>1, <1>16, <1>22, <2>3, <2>4, <2>5, <2>6, <2>7
<1>23. SunkShuffled(r, s, n, h)
  <2>1. (\A j, k \in (h + 1)..n : j # k => s[j] # s[k])
           => \A j, k \in h..n : j # k /\ j # e /\ k # e => t[j] # t[k]
    <3> SUFFICES ASSUME \A j, k \in (h + 1)..n : j # k => s[j] # s[k],
                        NEW j \in h..n, NEW k \in h..n, j # k, j # e, k # e
                 PROVE  t[j] # t[k]
      OBVIOUS
    <3>1. j < k \/ k < j
      OBVIOUS
    <3> QED BY <1>22, <3>1
  <2> QED BY <1>7, <1>20, <1>21, <2>1 DEF SunkShuffled, t
<1> QED BY <1>6, <1>15, <1>23

\* A hole sinks to a leaf, by the largest slot for which it would not.
LEMMA SinkSunk ==
    ASSUME NEW n \in Nat, NEW s \in Arr(n)
    PROVE  \A h \in 1..n : /\ Sink(s, h) \in [seq : Arr(n), hole : 1..n]
                           /\ Sunk(Sink(s, h), s, n, h)
                           /\ SunkShuffled(Sink(s, h), s, n, h)
<1> DEFINE Good(h) == /\ Sink(s, h) \in [seq : Arr(n), hole : 1..n]
                      /\ Sunk(Sink(s, h), s, n, h)
                      /\ SunkShuffled(Sink(s, h), s, n, h)
           T == {k \in Nat : n - k \in 1..n /\ ~Good(n - k)}
<1>0. ASSUME T = {}, NEW h \in 1..n PROVE Good(h)
  <2>1. n - h \in Nat /\ n - (n - h) = h
    OBVIOUS
  <2> HIDE DEF Good
  <2> QED BY <1>0, <2>1
<1> SUFFICES ASSUME T # {} PROVE FALSE
  BY <1>0
<1>1. PICK k \in T : \A j \in T : k <= j
  BY SmallestNumber
<1> DEFINE h == n - k
           c == Child(s, h)
<1>2. k \in Nat /\ h \in 1..n /\ ~Good(h)
  OBVIOUS
<1>3. ASSUME NEW i \in 1..n, i > h PROVE Good(i)
  <2> HIDE DEF Good
  <2>1. n - i \in Nat /\ n - i < k /\ n - (n - i) = i
    BY <1>2, <1>3
  <2>2. n - i \notin T
    <3> HIDE DEF T
    <3>1. n - i \in T => k <= n - i
      BY <1>1
    <3> QED BY <1>2, <2>1, <3>1
  <2> QED BY <2>1, <2>2
<1> HIDE DEF h, T
<1>4. Sink(s, h) = IF 2 * h > n THEN [seq |-> s, hole |-> h]
                        ELSE [Sink(s, c) EXCEPT !.seq[h] = s[c]]
  BY <1>2, SinkRecursive
<1>5. CASE 2 * h > n
  <2>1. Sink(s, h) = [seq |-> s, hole |-> h]
    BY <1>4, <1>5
  <2>2. [seq |-> s, hole |-> h] \in [seq : Arr(n), hole : 1..n]
    BY <1>2
  <2> QED BY <1>2, <1>5, <2>1, <2>2, SunkLeaf
<1>6. CASE 2 * h <= n
  <2>1. c \in 1..n /\ c > h
    BY <1>2, <1>6, ChildFacts
  <2>2. Good(c)
    BY <1>3, <2>1
  <2>3. Sink(s, h) = [Sink(s, c) EXCEPT !.seq[h] = s[c]]
    BY <1>2, <1>4, <1>6
  <2> DEFINE b == Sink(s, c)
             r == Sink(s, h)
  <2>4. /\ b \in [seq : Arr(n), hole : 1..n] /\ Sunk(b, s, n, c) /\ SunkShuffled(b, s, n, c)
        /\ r = [b EXCEPT !.seq[h] = s[c]]
    BY <2>2, <2>3
  <2> HIDE DEF b, r
  <2>5. r \in [seq : Arr(n), hole : 1..n] /\ Sunk(r, s, n, h) /\ SunkShuffled(r, s, n, h)
    BY <1>2, <1>6, <2>4, SunkStep
  <2> QED BY <1>2, <2>5 DEF r
<1> QED BY <1>2, <1>5, <1>6
-----------------------------------------------------------------------------
\* t holds the events of s in another order, with value instead of the one at h.
Replaced(t, s, n, h, value) ==
    /\ t \in Arr(n)
    /\ \A k \in 1..n : t[k] = value \/ \E j \in 1..n : j # h /\ t[k] = s[j]
    /\ \E k \in 1..n : t[k] = value
    /\ \A j \in 1..n : j # h => \E k \in 1..n : t[k] = s[j]
    /\ /\ \A j, k \in 1..n : j # k /\ j # h /\ k # h => s[j] # s[k]
       /\ \A j \in 1..n : j # h => s[j] # value
       => \A j, k \in 1..n : j # k => t[j] # t[k]

\* A value that rose from h replaces the event at h.
LEMMA ShuffledReplaced ==
    ASSUME NEW n \in Nat, NEW h \in 1..n, NEW s, NEW t, NEW value, Shuffled(t, s, n, h, value)
    PROVE  Replaced(t, s, n, h, value)
<1>1. /\ t \in Arr(n)
      /\ \A k \in 1..n : k > h => t[k] = s[k]
      /\ \A k \in 1..h : t[k] = value \/ \E j \in 1..(h - 1) : t[k] = s[j]
      /\ \E k \in 1..h : t[k] = value
      /\ \A j \in 1..(h - 1) : \E k \in 1..h : t[k] = s[j]
      /\ Fresh(s, h - 1, value) => \A j, k \in 1..h : j # k => t[j] # t[k]
  BY DEF Shuffled
<1>2. /\ \A k \in 1..h : k \in 1..n
      /\ \A k \in 1..(h - 1) : k \in 1..n /\ k # h
      /\ \A k \in 1..n : k \in 1..h \/ k > h
      /\ \A k \in 1..n : k > h => k # h
      /\ \A k \in 1..n : k # h => k \in 1..(h - 1) \/ k > h
  OBVIOUS
<1>3. \A k \in 1..n : t[k] = value \/ \E j \in 1..n : j # h /\ t[k] = s[j]
  BY <1>1, <1>2
<1>4. \E k \in 1..n : t[k] = value
  BY <1>1, <1>2
<1>5. \A j \in 1..n : j # h => \E k \in 1..n : t[k] = s[j]
  BY <1>1, <1>2
<1>6. ASSUME \A j, k \in 1..n : j # k /\ j # h /\ k # h => s[j] # s[k],
             \A j \in 1..n : j # h => s[j] # value,
             NEW j \in 1..n, NEW k \in 1..n, j < k
      PROVE  t[j] # t[k]
  <2>1. Fresh(s, h - 1, value)
    BY <1>2, <1>6 DEF Fresh
  <2>2. CASE k \in 1..h
    <3>1. j \in 1..h
      BY <1>6, <2>2
    <3> QED BY <1>1, <1>6, <2>1, <2>2, <3>1
  <2>3. CASE k > h /\ j \in 1..h
    <3>1. t[k] = s[k]
      BY <1>1, <2>3
    <3>2. t[j] = value \/ \E i \in 1..(h - 1) : t[j] = s[i]
      BY <1>1, <2>3
    <3>3. \A i \in 1..(h - 1) : i # k
      BY <2>3
    <3> QED BY <1>2, <1>6, <2>3, <3>1, <3>2, <3>3
  <2>4. CASE k > h /\ j > h
    BY <1>1, <1>6, <2>4
  <2> QED BY <1>2, <2>2, <2>3, <2>4
<1>7. /\ \A j, k \in 1..n : j # k /\ j # h /\ k # h => s[j] # s[k]
      /\ \A j \in 1..n : j # h => s[j] # value
      => \A j, k \in 1..n : j # k => t[j] # t[k]
  <2> SUFFICES ASSUME \A j, k \in 1..n : j # k /\ j # h /\ k # h => s[j] # s[k],
                      \A j \in 1..n : j # h => s[j] # value,
                      NEW j \in 1..n, NEW k \in 1..n, j # k
               PROVE  t[j] # t[k]
    OBVIOUS
  <2>1. j < k \/ k < j
    OBVIOUS
  <2> QED BY <1>6, <2>1
<1> QED BY <1>1, <1>3, <1>4, <1>5, <1>7 DEF Replaced

\* A hole that is refilled: the subtrees below it were ordered, now the tree is.
LEMMA RefillGood ==
    ASSUME NEW n \in Nat, NEW s \in Arr(n), NEW top \in 1..n, NEW value \in Event,
           Ordered(s, n, top + 1, 0)
    PROVE  /\ Refill(s, top, value) \in Arr(n)
           /\ Ordered(Refill(s, top, value), n, top, 0)
           /\ Replaced(Refill(s, top, value), s, n, top, value)
<1> DEFINE r == Sink(s, top)
           u == r.seq
           e == r.hole
           t == Rise(u, e, top, value)
<1>1. /\ u \in Arr(n) /\ e \in 1..n /\ e >= top /\ 2 * e > n
      /\ \A i \in 1..n : Below(i, top) => Below(i, e)
      /\ \A k \in 1..n : k < top => u[k] = s[k]
      /\ Ordered(u, n, top, e)
  <2>1. Sunk(r, s, n, top)
    BY SinkSunk
  <2> HIDE DEF r
  <2> QED BY <2>1 DEF Sunk
<1>2. /\ \A k \in top..n : k # e => \E j \in (top + 1)..n : u[k] = s[j]
      /\ \A j \in (top + 1)..n : \E k \in top..n : k # e /\ u[k] = s[j]
      /\ (\A j, k \in (top + 1)..n : j # k => s[j] # s[k])
           => \A j, k \in top..n : j # k /\ j # e /\ k # e => u[j] # u[k]
  <2>1. SunkShuffled(r, s, n, top)
    BY SinkSunk
  <2> HIDE DEF r
  <2> QED BY <2>1 DEF SunkShuffled
<1>3. Refill(s, top, value) = t
  BY DEF Refill
<1> HIDE DEF r, u, e
<1>4. Below(top, e)
  <2>1. top \in Nat \ {0}
    OBVIOUS
  <2> QED BY <1>1, <2>1, BelowFacts
<1>5. t \in Arr(n) /\ Ordered(t, n, top, 0)
  BY <1>1, <1>4, RiseOrdered
<1>6. Shuffled(t, u, n, e, value)
  BY <1>1, RiseShuffles
<1> HIDE DEF t
<1>7. Replaced(t, u, n, e, value)
  BY <1>1, <1>6, ShuffledReplaced
<1>8. /\ \A k \in 1..n : k < top \/ k \in top..n
      /\ \A k \in 1..n : k # top => k < top \/ k \in (top + 1)..n
      /\ \A k \in (top + 1)..n : k \in 1..n /\ k # top
      /\ \A k \in top..n : k \in 1..n
      /\ \A k \in 1..n : k < top => k # e /\ k # top
  BY <1>1
<1>9. \A k \in 1..n : k # e => \E j \in 1..n : j # top /\ u[k] = s[j]
  <2> SUFFICES ASSUME NEW k \in 1..n, k # e PROVE \E j \in 1..n : j # top /\ u[k] = s[j]
    OBVIOUS
  <2>1. CASE k < top
    BY <1>1, <1>8, <2>1
  <2>2. CASE k \in top..n
    BY <1>2, <1>8, <2>2
  <2> QED BY <1>8, <2>1, <2>2
<1>10. \A j \in 1..n : j # top => \E k \in 1..n : k # e /\ u[k] = s[j]
  <2> SUFFICES ASSUME NEW j \in 1..n, j # top PROVE \E k \in 1..n : k # e /\ u[k] = s[j]
    OBVIOUS
  <2>1. CASE j < top
    BY <1>1, <1>8, <2>1
  <2>2. CASE j \in (top + 1)..n
    BY <1>2, <1>8, <2>2
  <2> QED BY <1>8, <2>1, <2>2
<1>11. \A k \in 1..n : t[k] = value \/ \E j \in 1..n : j # top /\ t[k] = s[j]
  <2> SUFFICES ASSUME NEW k \in 1..n, t[k] # value PROVE \E j \in 1..n : j # top /\ t[k] = s[j]
    OBVIOUS
  <2>1. PICK i \in 1..n : i # e /\ t[k] = u[i]
    BY <1>7 DEF Replaced
  <2> QED BY <1>9, <2>1
<1>12. \A j \in 1..n : j # top => \E k \in 1..n : t[k] = s[j]
  <2> SUFFICES ASSUME NEW j \in 1..n, j # top PROVE \E k \in 1..n : t[k] = s[j]
    OBVIOUS
  <2>1. PICK i \in 1..n : i # e /\ u[i] = s[j]
    BY <1>10
  <2>2. PICK k \in 1..n : t[k] = u[i]
    BY <1>7, <2>1 DEF Replaced
  <2> QED BY <2>1, <2>2
<1>13. ASSUME \A j, k \in 1..n : j # k /\ j # top /\ k # top => s[j] # s[k],
              \A j \in 1..n : j # top => s[j] # value
       PROVE  \A j, k \in 1..n : j # k => t[j] # t[k]
  <2>1. \A j, k \in top..n : j # k /\ j # e /\ k # e => u[j] # u[k]
    BY <1>2, <1>8, <1>13
  <2>2. ASSUME NEW j \in 1..n, NEW k \in 1..n, j < k, j # e, k # e PROVE u[j] # u[k]
    <3>1. CASE j \in top..n
      <4>1. k \in top..n
        BY <2>2, <3>1
      <4> QED BY <2>1, <2>2, <3>1, <4>1
    <3>2. CASE j < top /\ k < top
      <4>1. u[j] = s[j] /\ u[k] = s[k] /\ j # top /\ k # top
        BY <1>1, <1>8, <3>2
      <4> QED BY <1>13, <2>2, <4>1
    <3>3. CASE j < top /\ k \in top..n
      <4>1. u[j] = s[j] /\ j # top
        BY <1>1, <1>8, <3>3
      <4>2. PICK i \in (top + 1)..n : u[k] = s[i]
        BY <1>2, <2>2, <3>3
      <4>3. i \in 1..n /\ i # top /\ i # j
        BY <1>8, <3>3
      <4> QED BY <1>13, <4>1, <4>2, <4>3
    <3> QED BY <1>8, <3>1, <3>2, <3>3
  <2>3. \A j, k \in 1..n : j # k /\ j # e /\ k # e => u[j] # u[k]
    <3> SUFFICES ASSUME NEW j \in 1..n, NEW k \in 1..n, j # k, j # e, k # e PROVE u[j] # u[k]
      OBVIOUS
    <3>1. j < k \/ k < j
      OBVIOUS
    <3> QED BY <2>2, <3>1
  <2>4. \A j \in 1..n : j # e => u[j] # value
    BY <1>9, <1>13
  <2> QED BY <1>7, <2>3, <2>4 DEF Replaced
<1>14. Replaced(t, s, n, top, value)
  BY <1>5, <1>7, <1>11, <1>12, <1>13 DEF Replaced
<1> QED BY <1>3, <1>5, <1>14

\* The root of an ordered array is an earliest event.
LEMMA RootEarliest ==
    ASSUME NEW n \in Nat, NEW s \in Arr(n), Ordered(s, n, 1, 0)
    PROVE  \A i \in 1..n : ~Later(s[1], s[i])
<1> DEFINE T == {i \in Nat : i \in 1..n /\ Later(s[1], s[i])}
<1> SUFFICES ASSUME T # {} PROVE FALSE
  OBVIOUS
<1>1. PICK i \in T : \A k \in T : i <= k
  BY SmallestNumber
<1>2. i \in 1..n /\ Later(s[1], s[i]) /\ \A k \in 1..n : s[k] \in Event
  BY DEF Arr
<1>3. i >= 2
  <2>1. i # 1
    <3>1. 1 \in 1..n /\ s[1] \in Event
      BY <1>2
    <3> QED BY <1>2, <3>1, LaterOrder
  <2> QED BY <1>2, <2>1
<1> DEFINE p == i \div 2
<1>4. p \in 1..n /\ p < i /\ p >= 1 /\ p # 0 /\ i # 0 /\ i \in 2..n
  BY <1>2, <1>3, Parent
<1>5. ~Later(s[p], s[i])
  BY <1>4 DEF Ordered
<1> HIDE DEF p
<1>6. ~Later(s[1], s[p])
  BY <1>1, <1>2, <1>4
<1>7. s[1] \in Event /\ s[p] \in Event /\ s[i] \in Event
  BY <1>2, <1>4
<1> QED BY <1>2, <1>5, <1>6, <1>7, LaterOrder

\* t holds the events of s in another order.
Permuted(t, s, n) ==
    /\ t \in Arr(n)
    /\ \A k \in 1..n : \E j \in 1..n : t[k] = s[j]
    /\ \A j \in 1..n : \E k \in 1..n : t[k] = s[j]
    /\ (\A j, k \in 1..n : j # k => s[j] # s[k]) => \A j, k \in 1..n : j # k => t[j] # t[k]

\* An event taken out and put back makes another order.
LEMMA ReplacedPermuted ==
    ASSUME NEW n \in Nat, NEW h \in 1..n, NEW s, NEW t, NEW u,
           Permuted(u, s, n), Replaced(t, u, n, h, u[h])
    PROVE  Permuted(t, s, n)
<1>1. t \in Arr(n)
  BY DEF Replaced
<1>2. \A k \in 1..n : \E i \in 1..n : t[k] = u[i]
  BY DEF Replaced
<1>3. \A i \in 1..n : \E k \in 1..n : t[k] = u[i]
  BY DEF Replaced
<1>4. \A k \in 1..n : \E j \in 1..n : t[k] = s[j]
  <2> SUFFICES ASSUME NEW k \in 1..n PROVE \E j \in 1..n : t[k] = s[j]
    OBVIOUS
  <2>1. PICK i \in 1..n : t[k] = u[i]
    BY <1>2
  <2>2. \E j \in 1..n : u[i] = s[j]
    BY DEF Permuted
  <2> QED BY <2>1, <2>2
<1>5. \A j \in 1..n : \E k \in 1..n : t[k] = s[j]
  <2> SUFFICES ASSUME NEW j \in 1..n PROVE \E k \in 1..n : t[k] = s[j]
    OBVIOUS
  <2>1. PICK i \in 1..n : u[i] = s[j]
    BY DEF Permuted
  <2> QED BY <1>3, <2>1
<1>6. ASSUME \A j, k \in 1..n : j # k => s[j] # s[k]
      PROVE  \A j, k \in 1..n : j # k => t[j] # t[k]
  <2>1. \A j, k \in 1..n : j # k => u[j] # u[k]
    BY <1>6 DEF Permuted
  <2> QED BY <2>1 DEF Replaced
<1> QED BY <1>1, <1>4, <1>5, <1>6 DEF Permuted

\* f is the function in which MakeHeap recurs, over the slots from m on.
Making(f, m, n, s) ==
    f = [i \in m..(n \div 2 + 1) |->
            IF 2 * i > n THEN s ELSE Refill(f[i + 1], i, f[i + 1][i])]

\* There is one, by the largest m without one.
LEMMA MakingExists ==
    ASSUME NEW n \in Nat, NEW s
    PROVE  \E f : Making(f, 1, n, s)
<1> DEFINE l == n \div 2 + 1
           T == {k \in Nat : k <= l /\ ~\E f : Making(f, l + 1 - k, n, s)}
           V(f, i) == IF 2 * i > n THEN s ELSE Refill(f[i + 1], i, f[i + 1][i])
<1>a. l \in Nat /\ l >= 1 /\ 2 * l > n /\ l = n \div 2 + 1
  BY Parent
<1> HIDE DEF l
<1>0. l \notin T => \E f : Making(f, 1, n, s)
  <2>1. l + 1 - l = 1
    BY <1>a
  <2> QED BY <1>a, <2>1
<1> SUFFICES ASSUME T # {} PROVE FALSE
  BY <1>0
<1>1. PICK k \in T : \A j \in T : k <= j
  BY SmallestNumber
<1> DEFINE m == l + 1 - k
<1>2. k \in Nat /\ k <= l /\ m \in 1..(l + 1) /\ ~\E f : Making(f, m, n, s)
  BY <1>a
<1>3. CASE k = 0
  <2> DEFINE f == [i \in m..l |-> 0]
  <2>1. m..l = {}
    BY <1>3, <1>a
  <2>2. Making(f, m, n, s)
    <3> HIDE DEF m
    <3> QED BY <1>a, <2>1 DEF Making
  <2> QED BY <1>2, <2>2
<1>4. CASE k # 0
  <2>1. k - 1 \in Nat /\ k - 1 <= l /\ k - 1 \notin T /\ l + 1 - (k - 1) = m + 1 /\ m \in 1..l
    BY <1>1, <1>2, <1>4, <1>a
  <2>2. PICK f : Making(f, m + 1, n, s)
    BY <2>1
  <2> HIDE DEF m, T
  <2> DEFINE g == [i \in m..l |-> IF i = m THEN V(f, m) ELSE f[i]]
  <2>3. \A i \in (m + 1)..l : f[i] = V(f, i)
    BY <1>a, <2>2 DEF Making
  <2>4. ASSUME NEW i \in m..l, 2 * i <= n PROVE g[i + 1] = f[i + 1]
    <3>1. i + 1 \in m..l /\ i + 1 # m
      BY <1>a, <2>1, <2>4
    <3> DEFINE j == i + 1
    <3> HIDE DEF j, V
    <3>2. g[j] = f[j]
      BY <3>1 DEF j
    <3> QED BY <3>2 DEF j
  <2>5. \A i \in m..l : g[i] = V(g, i)
    <3> SUFFICES ASSUME NEW i \in m..l PROVE g[i] = V(g, i)
      OBVIOUS
    <3>0. 2 * i > n \/ 2 * i <= n
      BY <1>a, <2>1
    <3>1. V(g, i) = V(f, i)
      <4> HIDE DEF g
      <4>1. CASE 2 * i > n
        BY <4>1
      <4>2. CASE 2 * i <= n
        BY <2>4, <4>2
      <4> QED BY <3>0, <4>1, <4>2
    <3>2. g[i] = V(f, i)
      <4>1. i = m \/ i \in (m + 1)..l
        BY <1>a, <2>1
      <4> HIDE DEF V
      <4> QED BY <2>3, <4>1
    <3> QED BY <3>1, <3>2
  <2>6. Making(g, m, n, s)
    <3>1. g = [i \in m..l |-> g[i]]
      OBVIOUS
    <3> HIDE DEF g
    <3> QED BY <1>a, <2>5, <3>1 DEF Making
  <2> QED BY <1>2, <2>6
<1> QED BY <1>3, <1>4

\* make_heap orders any array.
LEMMA MakeHeapGood ==
    ASSUME NEW n \in Nat, NEW s \in Arr(n)
    PROVE  Permuted(make_heap(s), s, n) /\ Ordered(make_heap(s), n, 1, 0)
<1> DEFINE F == CHOOSE f : Making(f, 1, n, s)
           l == n \div 2 + 1
<1>1. Making(F, 1, n, s)
  BY MakingExists
<1>2. Len(s) = n
  BY ArrSeq
<1>3. make_heap(s) = F[1]
  <2>1. make_heap(s) = (CHOOSE f : f = [i \in 1..(Len(s) \div 2 + 1) |->
            IF 2 * i > Len(s) THEN s ELSE Refill(f[i + 1], i, f[i + 1][i])])[1]
    BY DEF make_heap
  <2> QED BY <1>2, <2>1 DEF Making
<1> HIDE DEF F
<1>4. l \in Nat /\ l >= 1 /\ 2 * l > n /\ \A i \in Nat : 2 * i <= n => i + 1 <= l
  BY Parent
<1>5. \A i \in 1..l : F[i] = IF 2 * i > n THEN s ELSE Refill(F[i + 1], i, F[i + 1][i])
  BY <1>1 DEF Making
<1> HIDE DEF l
<1> DEFINE Good(i) == Permuted(F[i], s, n) /\ Ordered(F[i], n, i, 0)
           T == {k \in Nat : l - k \in 1..l /\ ~Good(l - k)}
<1>6. T = {} => Good(1)
  <2>1. l - 1 \in Nat /\ l - (l - 1) = 1 /\ 1 \in 1..l
    BY <1>4
  <2> HIDE DEF Good
  <2> QED BY <2>1
<1>7. ASSUME T # {} PROVE FALSE
  <2>1. PICK k \in T : \A j \in T : k <= j
    BY <1>7, SmallestNumber
  <2> DEFINE i == l - k
  <2>2. k \in Nat /\ i \in 1..l /\ ~Good(i)
    OBVIOUS
  <2>3. i + 1 \in 1..l => Good(i + 1)
    <3> HIDE DEF Good
    <3>1. SUFFICES ASSUME i + 1 \in 1..l PROVE Good(i + 1)
      OBVIOUS
    <3>2. k - 1 \in Nat /\ l - (k - 1) = i + 1
      BY <1>4, <2>2, <3>1
    <3>3. k - 1 \notin T
      <4> HIDE DEF T
      <4>1. k - 1 \in T => k <= k - 1
        BY <2>1
      <4> QED BY <2>2, <4>1
    <3> QED BY <3>1, <3>2, <3>3
  <2> HIDE DEF i, T
  <2>4. CASE 2 * i > n
    <3>1. F[i] = s
      BY <1>5, <2>2, <2>4
    <3>2. Permuted(s, s, n)
      BY DEF Permuted
    <3>3. Ordered(s, n, i, 0)
      <4>1. \A j \in 2..n : ~(j \div 2 >= i)
        BY <1>4, <2>2, <2>4, Parent
      <4> QED BY <4>1 DEF Ordered
    <3> QED BY <2>2, <3>1, <3>2, <3>3
  <2>5. CASE 2 * i <= n
    <3> DEFINE u == F[i + 1]
               t == F[i]
    <3>1. i \in Nat /\ i \in 1..n /\ i + 1 \in 1..l
      BY <1>4, <2>2, <2>5
    <3>2. Permuted(u, s, n) /\ Ordered(u, n, i + 1, 0)
      BY <2>3, <3>1
    <3>3. t = Refill(u, i, u[i])
      BY <1>4, <1>5, <2>2, <2>5, <3>1
    <3> HIDE DEF t, u
    <3>4. u \in Arr(n) /\ u[i] \in Event
      BY <3>1, <3>2 DEF Permuted, Arr
    <3>5. Ordered(t, n, i, 0) /\ Replaced(t, u, n, i, u[i])
      BY <3>1, <3>2, <3>3, <3>4, RefillGood
    <3>6. Permuted(t, s, n)
      BY <3>1, <3>2, <3>5, ReplacedPermuted
    <3> QED BY <2>2, <3>5, <3>6 DEF t
  <2> QED BY <1>4, <2>2, <2>4, <2>5
<1> QED BY <1>3, <1>6, <1>7

\* push_heap: the root changes only for a strictly earlier event.
LEMMA PushHeapGood ==
    ASSUME NEW n \in Nat, NEW s \in Arr(n), NEW e \in Event, Ordered(s, n, 1, 0)
    PROVE  LET t == push_heap(s, e)
               u == Append(s, e)
           IN  /\ t \in Arr(n + 1) /\ Ordered(t, n + 1, 1, 0)
               /\ Replaced(t, u, n + 1, n + 1, e)
               /\ \A k \in 1..n : u[k] = s[k]
               /\ n > 0 /\ ~Later(s[1], e) => t[1] = s[1]
<1> DEFINE t == push_heap(s, e)
           u == Append(s, e)
           m == n + 1
<1>1. Len(s) = n /\ s \in Seq(Event)
  BY ArrSeq
<1>2. m \in Nat /\ u \in Arr(m) /\ \A k \in 1..n : u[k] = s[k]
  <2>1. u \in Seq(Event) /\ Len(u) = m /\ \A k \in 1..n : u[k] = s[k]
    BY <1>1, AppendProperties
  <2>2. u \in [1..Len(u) -> Event]
    BY <2>1, LenProperties
  <2> QED BY <2>1, <2>2 DEF Arr
<1>3. t = Rise(u, m, 1, e)
  BY <1>1 DEF push_heap
<1>4. m \in 1..m /\ 1 \in 1..m /\ 2 * m > m /\ m \in Nat \ {0} /\ 1 \in Nat \ {0}
  OBVIOUS
<1>5. Ordered(u, m, 1, m)
  <2> SUFFICES ASSUME NEW i \in 2..m, i # m, i \div 2 >= 1 PROVE ~Later(u[i \div 2], u[i])
    BY DEF Ordered
  <2>1. i \in 2..n /\ i \in 1..n /\ i \div 2 \in 1..n /\ i # 0 /\ i \div 2 # 0
    BY Parent
  <2> QED BY <1>2, <2>1 DEF Ordered
<1>6. Below(1, m)
  BY <1>4, BelowFacts
<1> HIDE DEF t, u, m
<1>7. t \in Arr(m) /\ Ordered(t, m, 1, 0)
  BY <1>2, <1>3, <1>4, <1>5, <1>6, RiseOrdered
<1>8. Shuffled(t, u, m, m, e)
  BY <1>2, <1>3, <1>4, RiseShuffles
<1>9. Replaced(t, u, m, m, e)
  BY <1>2, <1>4, <1>8, ShuffledReplaced
<1>10. n > 0 /\ ~Later(s[1], e) => t[1] = s[1]
  <2> SUFFICES ASSUME n > 0, ~Later(s[1], e) PROVE t[1] = s[1]
    OBVIOUS
  <2>1. m > 1 /\ u[1] = s[1]
    BY <1>2 DEF m
  <2> QED BY <1>8, <2>1 DEF Shuffled
<1> QED BY <1>2, <1>7, <1>9, <1>10 DEF t, u, m

\* pop_heap and the decrement: the root is gone.
LEMMA PopHeapGood ==
    ASSUME NEW n \in Nat, n > 1, NEW s \in Arr(n), Ordered(s, n, 1, 0)
    PROVE  LET t == pop_heap(s)
               u == Front(s)
           IN  /\ t \in Arr(n - 1) /\ Ordered(t, n - 1, 1, 0)
               /\ Replaced(t, u, n - 1, 1, s[n])
               /\ \A k \in 1..(n - 1) : u[k] = s[k]
<1> DEFINE t == pop_heap(s)
           u == Front(s)
           m == n - 1
<1>1. Len(s) = n /\ s \in Seq(Event) /\ s[n] \in Event
  BY ArrSeq DEF Arr
<1>2. m \in Nat /\ 1 \in 1..m /\ u \in Arr(m) /\ \A k \in 1..m : u[k] = s[k]
  <2>1. m \in Nat /\ 1 \in 1..m /\ u = SubSeq(s, 1, m) /\ m - 1 + 1 = m /\ 1 <= m
    BY <1>1 DEF Front
  <2>2. \A k \in 1..m : s[k] \in Event /\ 1 + k - 1 = k
    BY DEF Arr
  <2> HIDE DEF u, m
  <2>3. u \in Seq(Event) /\ Len(u) = m /\ \A k \in 1..m : u[k] = s[k]
    BY <2>1, <2>2, SubSeqProperties
  <2>4. u \in [1..Len(u) -> Event]
    BY <2>3, LenProperties
  <2> QED BY <2>1, <2>3, <2>4 DEF Arr
<1>3. t = Refill(u, 1, s[n])
  BY <1>1 DEF pop_heap, Last
<1>4. Ordered(u, m, 1 + 1, 0)
  <2> SUFFICES ASSUME NEW i \in 2..m, i \div 2 >= 1 + 1 PROVE ~Later(u[i \div 2], u[i])
    BY DEF Ordered
  <2>1. /\ i \in 2..n /\ i \in 1..m /\ i \div 2 \in 1..m /\ i # 0 /\ i \div 2 # 0
        /\ i \div 2 >= 1
    BY Parent
  <2> QED BY <1>2, <2>1 DEF Ordered
<1> HIDE DEF t, u, m
<1>5. t \in Arr(m) /\ Ordered(t, m, 1, 0) /\ Replaced(t, u, m, 1, s[n])
  BY <1>1, <1>2, <1>3, <1>4, RefillGood
<1> QED BY <1>2, <1>5 DEF t, u, m
-----------------------------------------------------------------------------
(***************************************************************************)
(* The array seen as a set and a root.                                     *)
(***************************************************************************)
\* An ordered array of different events.
HeapArray(s) ==
    /\ s \in Seq(Event)
    /\ Ordered(s, Len(s), 1, 0)
    /\ \A j, k \in 1..Len(s) : j # k => s[j] # s[k]

\* Its slots and its set of events.
LEMMA HeapArrayFacts ==
    ASSUME NEW s, HeapArray(s)
    PROVE  /\ Len(s) \in Nat /\ s \in Arr(Len(s)) /\ DOMAIN s = 1..Len(s)
           /\ \A i \in 1..Len(s) : s[i] \in Event
           /\ ToSet(s) = {s[i] : i \in 1..Len(s)}
           /\ ToSet(s) \subseteq Event
<1>1. Len(s) \in Nat /\ s \in [1..Len(s) -> Event] /\ DOMAIN s = 1..Len(s)
  BY LenProperties DEF HeapArray
<1>2. \A i \in 1..Len(s) : s[i] \in Event
  BY <1>1
<1> QED BY <1>1, <1>2 DEF Arr, ToSet

\* The root is an earliest event; an array with no slot is the empty set.
LEMMA HeapArrayRoot ==
    ASSUME NEW s, HeapArray(s)
    PROVE  /\ ToSet(s) = {} <=> s = <<>>
           /\ s = <<>> <=> Len(s) = 0
           /\ s # <<>> => /\ 1 \in 1..Len(s) /\ s[1] \in ToSet(s)
                          /\ Earliest(s[1], ToSet(s))
<1>1. /\ Len(s) \in Nat /\ s \in Arr(Len(s)) /\ ToSet(s) = {s[i] : i \in 1..Len(s)}
      /\ \A i \in 1..Len(s) : s[i] \in Event
  BY HeapArrayFacts
<1>2. s = <<>> <=> Len(s) = 0
  BY EmptySeq DEF HeapArray
<1>3. Len(s) # 0 => 1 \in 1..Len(s)
  BY <1>1
<1>4. \A i \in 1..Len(s) : ~Later(s[1], s[i])
  BY <1>1, RootEarliest DEF HeapArray
<1>5. ASSUME Len(s) # 0 PROVE Earliest(s[1], ToSet(s))
  <2> SUFFICES ASSUME NEW i \in 1..Len(s) PROVE s[1].trigger_timestamp <= s[i].trigger_timestamp
    BY <1>1 DEF Earliest
  <2>1. s[1] \in Event /\ s[i] \in Event
    BY <1>1, <1>3, <1>5
  <2>2. ~(s[1].trigger_timestamp > s[i].trigger_timestamp)
    BY <1>4 DEF Later
  <2> QED BY <2>1, <2>2, SchedulerAssumption DEF Event
<1>6. Len(s) = 0 => 1..Len(s) = {}
  OBVIOUS
<1> QED BY <1>1, <1>2, <1>3, <1>5, <1>6

\* As many events as slots.
LEMMA HeapArrayCount ==
    ASSUME NEW s, HeapArray(s)
    PROVE  Cardinality(ToSet(s)) = Len(s)
<1> DEFINE n == Len(s)
           E == ToSet(s)
<1>1. n \in Nat /\ s \in Arr(n) /\ E = {s[i] : i \in 1..n} /\ \A j, k \in 1..n : j # k => s[j] # s[k]
  BY HeapArrayFacts DEF HeapArray
<1> HIDE DEF n, E
<1>2. s \in [1..n -> E] /\ DOMAIN s = 1..n
  BY <1>1 DEF Arr
<1>3. s \in Injection(1..n, E)
  BY <1>1, <1>2 DEF Injection, IsInjective
<1>4. s \in Surjection(1..n, E)
  BY <1>1, <1>2 DEF Surjection
<1>5. s \in Bijection(1..n, E)
  BY <1>3, <1>4 DEF Bijection
<1> QED BY <1>1, <1>5, FS_CountingElements DEF ExistsBijection, n, E

\* push_heap adds the event; the root changes only for a strictly earlier one.
LEMMA HeapPushed ==
    ASSUME NEW s, HeapArray(s), NEW e \in Event, e \notin ToSet(s)
    PROVE  /\ HeapArray(push_heap(s, e))
           /\ ToSet(push_heap(s, e)) = ToSet(s) \cup {e}
           /\ push_heap(s, e) # <<>>
           /\ push_heap(s, e)[1] =
                IF s = <<>> \/ e.trigger_timestamp < s[1].trigger_timestamp THEN e ELSE s[1]
<1> DEFINE t == push_heap(s, e)
           u == Append(s, e)
           n == Len(s)
           m == n + 1
<1>1. /\ n \in Nat /\ s \in Arr(n) /\ Ordered(s, n, 1, 0)
      /\ \A i \in 1..n : s[i] \in Event
      /\ ToSet(s) = {s[i] : i \in 1..n}
      /\ \A j, k \in 1..n : j # k => s[j] # s[k]
  BY HeapArrayFacts DEF HeapArray
<1>2. /\ t \in Arr(m) /\ Ordered(t, m, 1, 0) /\ Replaced(t, u, m, m, e)
      /\ \A k \in 1..n : u[k] = s[k]
      /\ n > 0 /\ ~Later(s[1], e) => t[1] = s[1]
  <2> HIDE DEF n
  <2> QED BY <1>1, PushHeapGood
<1>3. m \in Nat /\ 1 \in 1..m /\ \A k \in 1..m : k # m <=> k \in 1..n
  BY <1>1
<1>4. \A k \in 1..n : k \in 1..m /\ k # m
  BY <1>1
<1> HIDE DEF t, u, m, n
<1>5. t \in Seq(Event) /\ Len(t) = m /\ DOMAIN t = 1..m
  BY <1>2, <1>3, ArrSeq
<1>6. \A j, k \in 1..m : j # k => t[j] # t[k]
  <2>1. \A j, k \in 1..m : j # k /\ j # m /\ k # m => u[j] # u[k]
    BY <1>1, <1>2, <1>3
  <2>2. \A j \in 1..m : j # m => u[j] # e
    BY <1>1, <1>2, <1>3
  <2> QED BY <1>2, <2>1, <2>2 DEF Replaced
<1>7. HeapArray(t)
  BY <1>2, <1>5, <1>6 DEF HeapArray
<1>8. \A k \in 1..m : t[k] = e \/ \E j \in 1..n : t[k] = s[j]
  <2> SUFFICES ASSUME NEW k \in 1..m, t[k] # e PROVE \E j \in 1..n : t[k] = s[j]
    OBVIOUS
  <2>1. PICK j \in 1..m : j # m /\ t[k] = u[j]
    BY <1>2 DEF Replaced
  <2> QED BY <1>2, <1>3, <2>1
<1>9. (\E k \in 1..m : t[k] = e) /\ \A j \in 1..n : \E k \in 1..m : t[k] = s[j]
  BY <1>2, <1>4 DEF Replaced
<1>10. ToSet(t) = {t[k] : k \in 1..m}
  BY <1>5 DEF ToSet
<1>11. ToSet(t) = ToSet(s) \cup {e}
  BY <1>1, <1>8, <1>9, <1>10
<1>12. t # <<>>
  BY <1>7, <1>9, <1>10, HeapArrayRoot
<1>13. \A k \in 1..m : ~Later(t[1], t[k])
  BY <1>2, <1>3, RootEarliest
<1>14. ~Later(t[1], e)
  BY <1>9, <1>13
<1>15. CASE n = 0
  <2>1. s = <<>> /\ 1..n = {}
    BY <1>15, HeapArrayRoot DEF n
  <2>2. t[1] = e
    BY <1>3, <1>8, <2>1
  <2> QED BY <1>7, <1>11, <1>12, <2>1, <2>2 DEF t
<1>16. CASE n > 0 /\ ~Later(s[1], e)
  <2>1. s # <<>> /\ 1 \in 1..n
    BY <1>1, <1>16, HeapArrayRoot DEF n
  <2>2. ~(e.trigger_timestamp < s[1].trigger_timestamp)
    <3>1. s[1] \in Event
      BY <1>1, <2>1
    <3> QED BY <1>16, <3>1, SchedulerAssumption DEF Later, Event
  <2>3. t[1] = s[1]
    BY <1>2, <1>16
  <2> QED BY <1>7, <1>11, <1>12, <2>1, <2>2, <2>3 DEF t
<1>17. CASE n > 0 /\ Later(s[1], e)
  <2>1. 1 \in 1..n /\ s[1] \in Event
    BY <1>1, <1>17
  <2>2. e.trigger_timestamp < s[1].trigger_timestamp
    BY <1>17, <2>1, SchedulerAssumption DEF Later, Event
  <2>3. t[1] = e
    <3> SUFFICES ASSUME t[1] # e PROVE FALSE
      OBVIOUS
    <3>1. PICK j \in 1..n : t[1] = s[j]
      BY <1>3, <1>8
    <3>2. ~Later(s[1], s[j])
      BY <1>1, RootEarliest
    <3>3. ~Later(s[j], e) /\ s[j] \in Event
      BY <1>1, <1>14, <3>1
    <3> QED BY <1>17, <2>1, <3>2, <3>3, LaterOrder
  <2> QED BY <1>7, <1>11, <1>12, <2>2, <2>3 DEF t
<1> QED BY <1>1, <1>15, <1>16, <1>17

\* pop_heap and the decrement take the root out.
LEMMA HeapPopped ==
    ASSUME NEW s, HeapArray(s), s # <<>>
    PROVE  /\ HeapArray(pop_heap(s))
           /\ ToSet(pop_heap(s)) = ToSet(s) \ {s[1]}
<1> DEFINE t == pop_heap(s)
           u == Front(s)
           n == Len(s)
           m == n - 1
<1>1. /\ n \in Nat /\ s \in Arr(n) /\ Ordered(s, n, 1, 0)
      /\ ToSet(s) = {s[i] : i \in 1..n}
      /\ \A j, k \in 1..n : j # k => s[j] # s[k]
  BY HeapArrayFacts DEF HeapArray
<1>2. n # 0
  BY HeapArrayRoot
<1>3. CASE n = 1
  <2>1. t = <<>>
    BY <1>3 DEF pop_heap
  <2>2. <<>> \in Seq(Event) /\ Len(<<>>) = 0 /\ 1..0 = {} /\ 2..0 = {} /\ DOMAIN <<>> = {}
    BY EmptySeq
  <2>3. HeapArray(<<>>) /\ ToSet(<<>>) = {}
    BY <2>2 DEF HeapArray, Ordered, ToSet
  <2>4. ToSet(s) = {s[1]}
    BY <1>1, <1>3
  <2> QED BY <2>1, <2>3, <2>4
<1>4. CASE n > 1
  <2>1. /\ t \in Arr(m) /\ Ordered(t, m, 1, 0) /\ Replaced(t, u, m, 1, s[n])
        /\ \A k \in 1..m : u[k] = s[k]
    <3> HIDE DEF n
    <3> QED BY <1>1, <1>4, PopHeapGood
  <2>2. /\ m \in Nat /\ 1 \in 1..m /\ n \in 1..n /\ n # 1 /\ 1 \in 1..n
        /\ \A k \in 1..m : k \in 1..n /\ k # n
        /\ \A k \in 1..n : k = n \/ k \in 1..m
    BY <1>1, <1>4
  <2> HIDE DEF t, u, m, n
  <2>3. t \in Seq(Event) /\ Len(t) = m /\ DOMAIN t = 1..m
    BY <2>1, <2>2, ArrSeq
  <2>4. \A j, k \in 1..m : j # k => t[j] # t[k]
    <3>1. \A j, k \in 1..m : j # k /\ j # 1 /\ k # 1 => u[j] # u[k]
      BY <1>1, <2>1, <2>2
    <3>2. \A j \in 1..m : j # 1 => u[j] # s[n]
      BY <1>1, <2>1, <2>2
    <3> QED BY <2>1, <3>1, <3>2 DEF Replaced
  <2>5. HeapArray(t)
    BY <2>1, <2>3, <2>4 DEF HeapArray
  <2>6. \A k \in 1..m : \E j \in 1..n : j # 1 /\ t[k] = s[j]
    <3> SUFFICES ASSUME NEW k \in 1..m PROVE \E j \in 1..n : j # 1 /\ t[k] = s[j]
      OBVIOUS
    <3>1. CASE t[k] = s[n]
      BY <2>2, <3>1
    <3>2. CASE t[k] # s[n]
      <4>1. PICK j \in 1..m : j # 1 /\ t[k] = u[j]
        BY <2>1, <3>2 DEF Replaced
      <4> QED BY <2>1, <2>2, <4>1
    <3> QED BY <3>1, <3>2
  <2>7. \A j \in 1..n : j # 1 => \E k \in 1..m : t[k] = s[j]
    <3> SUFFICES ASSUME NEW j \in 1..n, j # 1 PROVE \E k \in 1..m : t[k] = s[j]
      OBVIOUS
    <3>1. CASE j = n
      BY <2>1, <3>1 DEF Replaced
    <3>2. CASE j # n
      <4>1. j \in 1..m /\ u[j] = s[j]
        BY <2>1, <2>2, <3>2
      <4> QED BY <2>1, <4>1 DEF Replaced
    <3> QED BY <3>1, <3>2
  <2>8. ToSet(t) = {t[k] : k \in 1..m}
    BY <2>3 DEF ToSet
  <2>9. \A j \in 1..n : j # 1 => s[j] # s[1]
    BY <1>1, <2>2
  <2>10. ToSet(t) = ToSet(s) \ {s[1]}
    BY <1>1, <2>6, <2>7, <2>8, <2>9
  <2> QED BY <2>5, <2>10 DEF t
<1>5. n = 1 \/ n > 1
  <2>1. n \in Nat
    BY <1>1
  <2> HIDE DEF n
  <2> QED BY <1>2, <2>1
<1> QED BY <1>3, <1>4, <1>5

\* Swapping a slot with the last one and make_heap over the others take it out.
LEMMA HeapRemoved ==
    ASSUME NEW s, HeapArray(s), NEW i \in 1..Len(s)
    PROVE  LET t == make_heap(Front([s EXCEPT ![i] = Last(s)]))
           IN  HeapArray(t) /\ ToSet(t) = ToSet(s) \ {s[i]}
<1> DEFINE n == Len(s)
           m == n - 1
           v == [s EXCEPT ![i] = s[n]]
           u == Front(v)
           t == make_heap(u)
<1>1. /\ n \in Nat /\ s \in Arr(n) /\ \A j \in 1..n : s[j] \in Event
      /\ ToSet(s) = {s[j] : j \in 1..n}
      /\ \A j, k \in 1..n : j # k => s[j] # s[k]
  BY HeapArrayFacts DEF HeapArray
<1>2. t = make_heap(Front([s EXCEPT ![i] = Last(s)]))
  BY DEF Last
<1> HIDE DEF n
<1>3. i \in 1..n /\ n \in 1..n /\ s[n] \in Event
  <2>1. i \in 1..n
    BY DEF n
  <2> QED BY <1>1, <2>1
<1>4. /\ m \in Nat
      /\ \A k \in 1..m : k \in 1..n /\ k # n
      /\ \A k \in 1..n : k = n \/ k \in 1..m
  BY <1>1, <1>3
<1>5. /\ v \in Arr(n) /\ Len(v) = n /\ v[i] = s[n]
      /\ \A k \in 1..n : k # i => v[k] = s[k]
  <2>1. v \in Arr(n) /\ v[i] = s[n] /\ \A k \in 1..n : k # i => v[k] = s[k]
    BY <1>1, <1>3 DEF Arr
  <2> HIDE DEF v
  <2> QED BY <1>1, <2>1, ArrSeq
<1> HIDE DEF v
<1>6. u \in Arr(m) /\ \A k \in 1..m : u[k] = v[k]
  <2>1. u = SubSeq(v, 1, m) /\ m - 1 + 1 = m /\ (IF 1 <= m THEN m - 1 + 1 ELSE 0) = m
    BY <1>4, <1>5 DEF Front
  <2>2. \A k \in 1..m : v[k] \in Event /\ 1 + k - 1 = k
    BY <1>4, <1>5 DEF Arr
  <2> HIDE DEF u, m
  <2>3. u \in Seq(Event) /\ Len(u) = m /\ \A k \in 1..m : u[k] = v[k]
    BY <1>4, <2>1, <2>2, SubSeqProperties
  <2>4. u \in [1..Len(u) -> Event]
    BY <2>3, LenProperties
  <2> QED BY <2>3, <2>4 DEF Arr
<1> HIDE DEF u, m
<1>7. Permuted(t, u, m) /\ Ordered(t, m, 1, 0)
  BY <1>4, <1>6, MakeHeapGood
<1> HIDE DEF t
<1>8. t \in Arr(m) /\ t \in Seq(Event) /\ Len(t) = m /\ DOMAIN t = 1..m
  <2>1. t \in Arr(m)
    BY <1>7 DEF Permuted
  <2> QED BY <1>4, <2>1, ArrSeq
<1>9. \A k \in 1..m : \E j \in 1..n : j # i /\ u[k] = s[j]
  <2> SUFFICES ASSUME NEW k \in 1..m PROVE \E j \in 1..n : j # i /\ u[k] = s[j]
    OBVIOUS
  <2>1. CASE k = i
    BY <1>3, <1>4, <1>5, <1>6, <2>1
  <2>2. CASE k # i
    BY <1>4, <1>5, <1>6, <2>2
  <2> QED BY <2>1, <2>2
<1>10. \A j \in 1..n : j # i => \E k \in 1..m : u[k] = s[j]
  <2> SUFFICES ASSUME NEW j \in 1..n, j # i PROVE \E k \in 1..m : u[k] = s[j]
    OBVIOUS
  <2>1. CASE j = n
    <3>1. i \in 1..m
      BY <1>3, <1>4, <2>1
    <3> QED BY <1>5, <1>6, <2>1, <3>1
  <2>2. CASE j # n
    <3>1. j \in 1..m
      BY <1>4, <2>2
    <3> QED BY <1>5, <1>6, <3>1
  <2> QED BY <2>1, <2>2
<1>11. \A j, k \in 1..m : j # k => u[j] # u[k]
  <2> SUFFICES ASSUME NEW j \in 1..m, NEW k \in 1..m, j # k PROVE u[j] # u[k]
    OBVIOUS
  <2>1. u[j] = v[j] /\ u[k] = v[k] /\ j \in 1..n /\ k \in 1..n /\ j # n /\ k # n
    BY <1>4, <1>6
  <2>2. CASE j = i
    BY <1>1, <1>3, <1>5, <2>1, <2>2
  <2>3. CASE k = i
    BY <1>1, <1>3, <1>5, <2>1, <2>3
  <2>4. CASE j # i /\ k # i
    BY <1>1, <1>5, <2>1, <2>4
  <2> QED BY <2>2, <2>3, <2>4
<1>12. HeapArray(t)
  <2>1. \A j, k \in 1..m : j # k => t[j] # t[k]
    BY <1>7, <1>11 DEF Permuted
  <2> QED BY <1>7, <1>8, <2>1 DEF HeapArray
<1>13. \A k \in 1..m : \E j \in 1..n : j # i /\ t[k] = s[j]
  <2> SUFFICES ASSUME NEW k \in 1..m PROVE \E j \in 1..n : j # i /\ t[k] = s[j]
    OBVIOUS
  <2>1. PICK l \in 1..m : t[k] = u[l]
    BY <1>7 DEF Permuted
  <2> QED BY <1>9, <2>1
<1>14. \A j \in 1..n : j # i => \E k \in 1..m : t[k] = s[j]
  <2> SUFFICES ASSUME NEW j \in 1..n, j # i PROVE \E k \in 1..m : t[k] = s[j]
    OBVIOUS
  <2>1. PICK l \in 1..m : u[l] = s[j]
    BY <1>10
  <2>2. \E k \in 1..m : t[k] = u[l]
    BY <1>7 DEF Permuted
  <2> QED BY <2>1, <2>2
<1>15. ToSet(t) = {t[k] : k \in 1..m}
  BY <1>8 DEF ToSet
<1>16. \A j \in 1..n : j # i => s[j] # s[i]
  BY <1>1, <1>3
<1>17. ToSet(t) = ToSet(s) \ {s[i]}
  <2>1. \A x \in ToSet(t) : x \in ToSet(s) /\ x # s[i]
    BY <1>1, <1>13, <1>15, <1>16
  <2>2. \A x \in ToSet(s) : x # s[i] => x \in ToSet(t)
    BY <1>1, <1>14, <1>15
  <2> QED BY <2>1, <2>2
<1> QED BY <1>2, <1>12, <1>17

-----------------------------------------------------------------------------
(***************************************************************************)
(* The array scheduler.                                                    *)
(***************************************************************************)

\* The array is a heap of distinct events that are older than the next id, and
\* the event whose callback runs is still one of them.
HeapInv ==
    /\ HeapArray(slots)
    /\ m_last_id \in Nat
    /\ \A e \in ToSet(slots) : e.event_id < m_last_id
    /\ phase = "callback" => firing \in ToSet(slots)

\* It holds at the start.
LEMMA HeapInitInv == ASSUME HeapInit PROVE HeapInv
<1>1. slots = <<>> /\ m_last_id = 0 /\ phase = "idle"
  BY DEF HeapInit, Sets!Init
<1>2. <<>> \in Seq(Event) /\ Len(<<>>) = 0 /\ 1..0 = {} /\ 2..0 = {} /\ DOMAIN <<>> = {}
  BY EmptySeq
<1>3. HeapArray(<<>>) /\ ToSet(<<>>) = {}
  BY <1>2 DEF HeapArray, Ordered, ToSet
<1> QED BY <1>1, <1>3 DEF HeapInv

\* ScheduleAbsolute, as a step of the set scheduler.
LEMMA HeapScheduleStep ==
    ASSUME HeapInv, NEW t \in 0..MaxTimestamp, HeapScheduleAbsolute(t)
    PROVE  HeapInv' /\ Sets!ScheduleAbsolute(t)
<1> DEFINE e == [event_id |-> m_last_id, trigger_timestamp |-> t]
           E == ToSet(slots)
<1>1. /\ HeapArray(slots) /\ m_last_id \in Nat /\ \A f \in E : f.event_id < m_last_id
      /\ phase = "callback" => firing \in E
  BY DEF HeapInv
<1>2. /\ Sets!ClientMayCall /\ Sets!Floor <= t /\ t <= MaxTimestamp /\ m_last_id < MaxId
      /\ Len(slots) # MAX_EVENTS
      /\ slots' = push_heap(slots, e)
      /\ m_last_id' = m_last_id + 1
      /\ UNCHANGED <<m_curr_timestamp, advance_vars, fired, removed>>
  BY DEF HeapScheduleAbsolute, ClientMayCall, Sets!ClientMayCall, Floor, Sets!Floor
<1>3. e \in Event /\ e.event_id = m_last_id /\ e.trigger_timestamp = t
  BY <1>1 DEF Event
<1>4. e \notin E
  BY <1>1, <1>3
<1> HIDE DEF e
<1>5. /\ HeapArray(slots') /\ ToSet(slots') = E \cup {e} /\ slots' # <<>>
      /\ slots'[1] = IF slots = <<>> \/ e.trigger_timestamp < slots[1].trigger_timestamp
                       THEN e ELSE slots[1]
  BY <1>1, <1>2, <1>3, <1>4, HeapPushed
<1>6. Cardinality(E) = Len(slots) /\ (E = {} <=> slots = <<>>)
  BY <1>1, HeapArrayCount, HeapArrayRoot
<1>7. HeapInv'
  <2>1. m_last_id' \in Nat /\ \A f \in E \cup {e} : f.event_id < m_last_id'
    <3>1. \A f \in E : f \in Event
      BY <1>1, HeapArrayFacts
    <3> QED BY <1>1, <1>2, <1>3, <3>1 DEF Event
  <2>2. phase' = phase /\ firing' = firing
    BY <1>2 DEF advance_vars
  <2> QED BY <1>1, <1>5, <2>1, <2>2 DEF HeapInv
<1>8. Sets!PushHeap(e)
  <2> HIDE DEF E
  <2>1. ToSet(slots)' = ToSet(slots) \cup {e}
    BY <1>5 DEF E
  <2>2. (IF slots = <<>> THEN NoEvent ELSE slots[1])' = slots'[1]
    BY <1>5
  <2>3. slots # <<>> => (IF slots = <<>> THEN NoEvent ELSE slots[1]) = slots[1]
    OBVIOUS
  <2> QED BY <1>5, <1>6, <2>1, <2>2, <2>3 DEF Sets!PushHeap, E
<1>9. Sets!ScheduleAbsolute(t)
  <2>1. Sets!PushHeap([event_id |-> m_last_id, trigger_timestamp |-> t])
    BY <1>8 DEF e
  <2>2. Sets!Cardinality(E) # MAX_EVENTS
    BY <1>2, <1>6 DEF Cardinality, Sets!Cardinality
  <2>3. UNCHANGED <<m_curr_timestamp, Sets!advance_vars, fired, removed>>
    BY <1>2 DEF advance_vars, Sets!advance_vars
  <2> QED BY <1>2, <2>1, <2>2, <2>3 DEF Sets!ScheduleAbsolute
<1> QED BY <1>7, <1>9

\* A smaller array, as a re-heaping of the set without one event.
LEMMA HeapReHeap ==
    ASSUME HeapArray(slots'), NEW E, ToSet(slots') = E
    PROVE  Sets!ReHeap(E)
<1>1. /\ E = {} <=> slots' = <<>>
      /\ slots' # <<>> => slots'[1] \in E /\ Earliest(slots'[1], E)
  BY HeapArrayRoot
<1>2. CASE E = {}
  <2>1. (IF slots = <<>> THEN NoEvent ELSE slots[1])' = NoEvent
    BY <1>1, <1>2
  <2> QED BY <1>2, <2>1 DEF Sets!ReHeap, NoEvent, Sets!NoEvent
<1>3. CASE E # {}
  <2>1. (IF slots = <<>> THEN NoEvent ELSE slots[1])' = slots'[1]
    BY <1>1, <1>3
  <2>2. Sets!Earliest(slots'[1], E)
    BY <1>1, <1>3 DEF Earliest, Sets!Earliest
  <2> QED BY <1>1, <1>3, <2>1, <2>2 DEF Sets!ReHeap
<1> QED BY <1>2, <1>3

\* Deschedule, as a step of the set scheduler.
LEMMA HeapDescheduleStep ==
    ASSUME HeapInv, NEW id \in 0..MaxId, HeapDeschedule(id)
    PROVE  HeapInv' /\ Sets!Deschedule(id)
<1> DEFINE E == ToSet(slots)
<1>1. /\ HeapArray(slots) /\ m_last_id \in Nat /\ \A f \in E : f.event_id < m_last_id
      /\ phase = "callback" => firing \in E
  BY DEF HeapInv
<1>2. /\ Sets!ClientMayCall
      /\ phase = "callback" => id # firing.event_id
      /\ phase = "callback" /\ TieGuard => Sets!Harmless(id)
      /\ removed' = removed \cup {id}
      /\ UNCHANGED <<m_curr_timestamp, m_last_id, advance_vars, fired>>
  BY DEF HeapDeschedule, ClientMayCall, Sets!ClientMayCall
<1>3. PICK i \in DOMAIN slots :
          /\ slots[i].event_id = id
          /\ slots' = make_heap(Front([slots EXCEPT ![i] = Last(slots)]))
  BY DEF HeapDeschedule, ClientMayCall, Sets!ClientMayCall
<1>4. i \in 1..Len(slots) /\ slots[i] \in E
  BY <1>1, <1>3, HeapArrayFacts
<1>5. HeapArray(slots') /\ ToSet(slots') = E \ {slots[i]}
  BY <1>1, <1>3, <1>4, HeapRemoved
<1>6. HeapInv'
  <2>1. phase' = phase /\ firing' = firing /\ m_last_id' = m_last_id
    BY <1>2 DEF advance_vars
  <2>2. phase = "callback" => firing # slots[i]
    BY <1>2, <1>3
  <2> QED BY <1>1, <1>5, <2>1, <2>2 DEF HeapInv
<1>7. Sets!ReHeap(E \ {slots[i]})
  BY <1>5, HeapReHeap
<1> QED BY <1>2, <1>3, <1>4, <1>6, <1>7 DEF Sets!Deschedule, advance_vars, Sets!advance_vars

\* The return of a callback, as a step of the set scheduler.
LEMMA HeapCallbackReturnStep ==
    ASSUME HeapInv, HeapCallbackReturn
    PROVE  HeapInv' /\ Sets!CallbackReturn
<1> DEFINE E == ToSet(slots)
<1>1. /\ HeapArray(slots) /\ m_last_id \in Nat /\ \A f \in E : f.event_id < m_last_id
      /\ firing \in E
  BY DEF HeapInv, HeapCallbackReturn
<1>2. slots # <<>>
  BY <1>1, HeapArrayRoot
<1>3. slots' = pop_heap(slots) /\ m_last_id' = m_last_id /\ phase' \in {"advance", "idle"}
  BY DEF HeapCallbackReturn
<1>4. HeapArray(slots') /\ ToSet(slots') = E \ {slots[1]}
  BY <1>1, <1>2, <1>3, HeapPopped
<1>5. HeapInv'
  BY <1>1, <1>3, <1>4 DEF HeapInv
<1>6. Sets!ReHeap(E \ {slots[1]})
  BY <1>4, HeapReHeap
<1>7. (IF slots = <<>> THEN NoEvent ELSE slots[1]) = slots[1]
  BY <1>2
<1>8. Sets!CallbackReturn
  BY <1>6, <1>7 DEF HeapCallbackReturn, Sets!CallbackReturn, NoEvent, Sets!NoEvent
<1> QED BY <1>5, <1>8

\* A callback is entered for the root, the other steps leave the array alone.
LEMMA HeapUntouchedInv ==
    ASSUME HeapInv, HeapUntouched
    PROVE  HeapInv' /\ Sets!Next
<1> DEFINE top == IF slots = <<>> THEN NoEvent ELSE slots[1]
           E == ToSet(slots)
<1>1. /\ HeapArray(slots) /\ m_last_id \in Nat /\ \A f \in E : f.event_id < m_last_id
      /\ phase = "callback" => firing \in E
  BY DEF HeapInv
<1>2. slots' = slots /\ (E # {} => top \in E)
  BY <1>1, HeapArrayRoot DEF HeapUntouched
<1>3. m_last_id' = m_last_id /\ (phase' = "callback" => firing' \in E)
  <2>1. CASE \E k \in 0..MaxTimestamp, ignore \in BOOLEAN : Sets!Advance(k, ignore)
    BY <2>1 DEF Sets!Advance
  <2>2. CASE Sets!AdvanceFire
    BY <1>2, <2>2 DEF Sets!AdvanceFire
  <2>3. CASE Sets!AdvanceReturn
    BY <2>3 DEF Sets!AdvanceReturn
  <2>4. CASE Sets!NextEvent
    BY <1>2, <2>4 DEF Sets!NextEvent
  <2>5. CASE Sets!ScheduleRejected
    BY <1>1, <2>5 DEF Sets!ScheduleRejected, Sets!vars
  <2>6. CASE \E id \in 0..MaxId : Sets!DescheduleUnknown(id)
    BY <1>1, <2>6 DEF Sets!DescheduleUnknown, Sets!vars
  <2> QED BY <2>1, <2>2, <2>3, <2>4, <2>5, <2>6 DEF HeapUntouched
<1>4. HeapInv'
  BY <1>1, <1>2, <1>3 DEF HeapInv
<1>5. Sets!Next
  BY DEF HeapUntouched, Sets!Next
<1> QED BY <1>4, <1>5

\* Every step keeps it and is a step of the set scheduler.
LEMMA HeapStep ==
    ASSUME HeapInv, [HeapNext]_(heap_vars)
    PROVE  HeapInv' /\ [Sets!Next]_(Sets!vars)
<1>1. CASE \E t \in 0..MaxTimestamp : HeapScheduleAbsolute(t)
  BY <1>1, HeapScheduleStep DEF Sets!Next
<1>2. CASE \E id \in 0..MaxId : HeapDeschedule(id)
  BY <1>2, HeapDescheduleStep DEF Sets!Next
<1>3. CASE HeapCallbackReturn
  BY <1>3, HeapCallbackReturnStep DEF Sets!Next
<1>4. CASE HeapUntouched
  BY <1>4, HeapUntouchedInv
<1>5. CASE UNCHANGED heap_vars
  BY <1>5 DEF heap_vars, Sets!vars, HeapInv
<1> QED BY <1>1, <1>2, <1>3, <1>4, <1>5 DEF HeapNext

\* HeapOrdered for every number of slots and of events: whatever mix of pushes,
\* pops and removals from the middle got there, no slot of m_events is earlier
\* than its parent (Scheduler.cpp:32, 56, 88).
THEOREM SchedulerHeapOrdered == HeapSpec => []HeapOrdered
<1>1. HeapInit => HeapInv
  BY HeapInitInv
<1>2. HeapInv /\ [HeapNext]_(heap_vars) => HeapInv'
  BY HeapStep
<1>3. HeapInv => HeapOrdered
  <2> SUFFICES ASSUME HeapInv PROVE HeapOrdered
    OBVIOUS
  <2>1. Len(slots) \in Nat /\ Ordered(slots, Len(slots), 1, 0)
    BY HeapArrayFacts DEF HeapInv, HeapArray
  <2>2. \A i \in 2..Len(slots) : i \div 2 >= 1 /\ i # 0 /\ i \div 2 # 0
    BY Parent
  <2> QED BY <2>1, <2>2 DEF Ordered, HeapOrdered
<1> QED BY <1>1, <1>2, <1>3, PTL DEF HeapSpec

\* The array with the heap algorithms of the C++ library implements the set of
\* events with an earliest root, so what is proved of Scheduler holds of the array.
THEOREM SchedulerHeapImplementsScheduler == HeapSpec => ImplementsScheduler
<1>1. HeapInit => HeapInv /\ Sets!Init
  BY HeapInitInv DEF HeapInit
<1>2. HeapInv /\ [HeapNext]_(heap_vars) => HeapInv' /\ [Sets!Next]_(Sets!vars)
  BY HeapStep
<1> QED BY <1>1, <1>2, PTL DEF HeapSpec, ImplementsScheduler, Sets!Spec
=============================================================================
