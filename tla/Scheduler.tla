------------------------------ MODULE Scheduler ------------------------------
(***************************************************************************)
(* The event scheduler (Scheduler.hpp, Scheduler.cpp).  The binary heap    *)
(* m_events is represented by the set of events it holds and by its root   *)
(* slot m_events[0], the only slot the scheduler reads.  What std::        *)
(* push_heap, pop_heap and make_heap do to that pair is stated by PushHeap *)
(* and ReHeap; SchedulerHeap has the array itself and implements this      *)
(* module.                                                                 *)
(*                                                                         *)
(* Advance and NextEvent call the event's callback while the event is      *)
(* still in the heap and pop the root afterwards, so a callback is a phase *)
(* in which clients call Schedule and Deschedule on the half-updated heap. *)
(***************************************************************************)
EXTENDS SchedulerState, FiniteSets

VARIABLES
    m_events,   \* the events in the heap
    m_top       \* m_events[0], NoEvent if the heap is empty

vars == <<m_events, m_top, m_curr_timestamp, m_last_id, phase, caller, firing,
          final_time, ignore_overflow, fired, removed>>

Earliest(e, S) == \A f \in S : e.trigger_timestamp <= f.trigger_timestamp
-----------------------------------------------------------------------------
(***************************************************************************)
(* The heap algorithms, seen from the set and the root.                    *)
(***************************************************************************)

\* Bug: push_heap forgotten, the new event stays where it was appended.
PushHeapNoSift(e) ==
    /\ m_events' = m_events \cup {e}
    /\ m_top' = IF m_events = {} THEN e ELSE m_top

\* std::push_heap: the new element rises only past strictly later ones, so
\* the root changes only for a strictly earlier event.
PushHeap(e) ==
    /\ m_events' = m_events \cup {e}
    /\ m_top' = IF m_events = {} \/ e.trigger_timestamp < m_top.trigger_timestamp
                  THEN e ELSE m_top

\* std::pop_heap and std::make_heap: some earliest event of what is left
\* becomes the root; which one of several with the same trigger is not known.
ReHeap(S) ==
    /\ m_events' = S
    /\ IF S = {} THEN m_top' = NoEvent
                 ELSE m_top' \in {e \in S : Earliest(e, S)}
-----------------------------------------------------------------------------
Init ==
    /\ m_events = {}
    /\ m_top = NoEvent
    /\ m_curr_timestamp = 0
    /\ m_last_id = 0
    /\ phase = "idle"
    /\ caller = "none"
    /\ firing = NoEvent
    /\ final_time = 0
    /\ ignore_overflow = FALSE
    /\ fired = {}
    /\ removed = {}

ScheduleAbsolute(timestamp) ==
    /\ ClientMayCall
    /\ Floor <= timestamp
    /\ timestamp <= MaxTimestamp
    /\ m_last_id < MaxId
    /\ Cardinality(m_events) # MAX_EVENTS
    /\ PushHeap([event_id |-> m_last_id, trigger_timestamp |-> timestamp])
    /\ m_last_id' = m_last_id + 1
    /\ UNCHANGED <<m_curr_timestamp, advance_vars, fired, removed>>

\* All slots taken: INVALID_EVENT is returned and nothing is stored.
ScheduleRejected ==
    /\ ClientMayCall
    /\ Cardinality(m_events) = MAX_EVENTS
    /\ UNCHANGED vars

\* Schedule adds to the clock.  A callback that subtracts its late cycles
\* wraps around and reaches back before the clock, hence the negative cycles.
Schedule(cycles) == ScheduleAbsolute(m_curr_timestamp + cycles)

\* A callback's Deschedule is harmless when the event being fired is strictly
\* earlier than every other event left: make_heap puts it back into the root.
Harmless(event_id) ==
    \A f \in m_events : \/ f.event_id \in {event_id, firing.event_id}
                        \/ f.trigger_timestamp > firing.trigger_timestamp

\* No callback deschedules the event it was called for.
Deschedule(event_id) ==
    /\ ClientMayCall
    /\ phase = "callback" => event_id # firing.event_id
    /\ phase = "callback" /\ TieGuard => Harmless(event_id)
    /\ \E e \in m_events :
          /\ e.event_id = event_id
          /\ ReHeap(m_events \ {e})
    /\ removed' = removed \cup {event_id}
    /\ UNCHANGED <<m_curr_timestamp, m_last_id, advance_vars, fired>>

\* find_if meets the end: false is returned.
DescheduleUnknown(event_id) ==
    /\ ClientMayCall
    /\ \A e \in m_events : e.event_id # event_id
    /\ UNCHANGED vars

Advance(num_cycles, ignore) ==
    /\ phase = "idle"
    /\ m_curr_timestamp + num_cycles <= MaxTimestamp
    /\ phase' = "advance"
    /\ final_time' = m_curr_timestamp + num_cycles
    /\ ignore_overflow' = ignore
    /\ UNCHANGED <<m_events, m_top, m_curr_timestamp, m_last_id, caller, firing,
                   fired, removed>>

\* The loop body up to and including the call of ev.callback.
AdvanceFire ==
    /\ phase = "advance"
    /\ m_events # {}
    /\ m_top.trigger_timestamp <= final_time
    /\ LET late_cycles == IF ignore_overflow THEN 0
                          ELSE final_time - m_top.trigger_timestamp
       IN  m_curr_timestamp' = m_top.trigger_timestamp + late_cycles
    /\ firing' = m_top
    /\ fired' = fired \cup {m_top.event_id}
    /\ phase' = "callback"
    /\ caller' = "Advance"
    /\ UNCHANGED <<m_events, m_top, m_last_id, final_time, ignore_overflow, removed>>

\* Bug: an event at the very end of the interval is left for later.
AdvanceReturnEarly ==
    /\ phase = "advance"
    /\ m_events = {} \/ m_top.trigger_timestamp >= final_time
    /\ m_curr_timestamp' = final_time
    /\ phase' = "idle"
    /\ UNCHANGED <<m_events, m_top, m_last_id, caller, firing, final_time,
                   ignore_overflow, fired, removed>>

AdvanceReturn ==
    /\ phase = "advance"
    /\ m_events = {} \/ m_top.trigger_timestamp > final_time
    /\ m_curr_timestamp' = final_time
    /\ phase' = "idle"
    /\ UNCHANGED <<m_events, m_top, m_last_id, caller, firing, final_time,
                   ignore_overflow, fired, removed>>

NextEvent ==
    /\ phase = "idle"
    /\ m_events # {}
    /\ m_curr_timestamp' = m_top.trigger_timestamp
    /\ firing' = m_top
    /\ fired' = fired \cup {m_top.event_id}
    /\ phase' = "callback"
    /\ caller' = "NextEvent"
    /\ UNCHANGED <<m_events, m_top, m_last_id, final_time, ignore_overflow, removed>>

\* Bug: the event that was fired is not removed.
CallbackReturnKeeps ==
    /\ phase = "callback"
    /\ phase' = IF caller = "Advance" THEN "advance" ELSE "idle"
    /\ caller' = "none"
    /\ firing' = NoEvent
    /\ UNCHANGED <<m_events, m_top, m_curr_timestamp, m_last_id, final_time,
                   ignore_overflow, fired, removed>>

\* The callback has returned: pop_heap and m_num_events--, whatever the root
\* is by now.
CallbackReturn ==
    /\ phase = "callback"
    /\ ReHeap(m_events \ {m_top})
    /\ phase' = IF caller = "Advance" THEN "advance" ELSE "idle"
    /\ caller' = "none"
    /\ firing' = NoEvent
    /\ UNCHANGED <<m_curr_timestamp, m_last_id, final_time, ignore_overflow,
                   fired, removed>>

Next ==
    \/ \E t \in 0..MaxTimestamp : ScheduleAbsolute(t)
    \/ \E c \in -MaxTimestamp..MaxTimestamp : Schedule(c)
    \/ ScheduleRejected
    \/ \E id \in 0..MaxId : Deschedule(id)
    \/ \E id \in 0..MaxId : DescheduleUnknown(id)
    \/ \E n \in 0..MaxTimestamp, ignore \in BOOLEAN : Advance(n, ignore)
    \/ AdvanceFire
    \/ AdvanceReturn
    \/ NextEvent
    \/ CallbackReturn

Spec == Init /\ [][Next]_vars
-----------------------------------------------------------------------------
(***************************************************************************)
(* Properties.                                                             *)
(***************************************************************************)

\* Every variable has its type.
TypeOK ==
    /\ m_events \subseteq Event
    /\ m_top \in Event \cup {NoEvent}
    /\ m_curr_timestamp \in 0..MaxTimestamp
    /\ m_last_id \in 0..MaxId
    /\ phase \in {"idle", "advance", "callback"}
    /\ caller \in {"none", "Advance", "NextEvent"}
    /\ firing \in Event \cup {NoEvent}
    /\ final_time \in 0..MaxTimestamp
    /\ ignore_overflow \in BOOLEAN
    /\ fired \subseteq Nat
    /\ removed \subseteq Nat

\* The ids in the heap are distinct and older than m_last_id: a handle that a
\* client kept can never deschedule somebody else's event (Scheduler.cpp:25).
HandlesAreUnique ==
    /\ \A e \in m_events : e.event_id < m_last_id
    /\ \A e, f \in m_events : e.event_id = f.event_id => e = f

\* Nothing is overdue between two Advance calls: everything that happened up
\* to the clock was fired by the Advance that moved the clock there
\* (Scheduler.cpp:65-99), also when callbacks added events meanwhile.
NothingOverdue ==
    phase = "idle" => \A e \in m_events : e.trigger_timestamp >= m_curr_timestamp

\* Every id ever handed out is in exactly one of three places: still in the
\* heap, fired, or descheduled.  An id in none of them is a lost event, an id
\* that was fired and is back in the heap will fire twice (the callback runs
\* before pop_heap, Scheduler.cpp:85-94).
EveryEventAccounted ==
    phase # "callback" =>
        LET waiting == {e.event_id : e \in m_events} IN
        /\ \A id \in 0..(m_last_id - 1) : id \in waiting \cup fired \cup removed
        /\ waiting \cap (fired \cup removed) = {}

\* The clock never goes back, also when a late event is fired
\* (m_curr_timestamp is set from the trigger, Scheduler.cpp:84).
ClockMonotone == [][m_curr_timestamp' >= m_curr_timestamp]_vars

\* The scheduler implements the timer service: during a callback the event
\* being fired no longer counts as pending although it is still in the heap.
Timer == INSTANCE TimerService WITH
    pending <- IF phase = "callback" THEN m_events \ {firing} ELSE m_events,
    now <- m_curr_timestamp,
    running <- phase = "advance" \/ caller = "Advance",
    deadline <- final_time

\* Under TieGuard, Advance and NextEvent do what TimerService promises.
ImplementsTimerService == Timer!TSpec
=============================================================================
