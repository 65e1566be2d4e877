--------------------------- MODULE SchedulerHeap ---------------------------
(***************************************************************************)
(* The scheduler with the array it really keeps: m_events[0..m_num_events) *)
(* as a sequence (slot i is element i + 1), and the heap algorithms of the *)
(* C++ library as the two common implementations have them: a value that   *)
(* is inserted rises past strictly later parents; a hole that is refilled  *)
(* first sinks to the bottom along the earlier child (the right one of two *)
(* equals) and the value then rises from there.                            *)
(*                                                                         *)
(* The steps that leave the heap alone are those of Scheduler.             *)
(***************************************************************************)
EXTENDS SchedulerState, Sequences, SequencesExt

VARIABLE slots   \* m_events[0 .. m_num_events - 1]

\* The set and the root that Scheduler speaks of.
Sets == INSTANCE Scheduler WITH
    m_events <- ToSet(slots),
    m_top <- IF slots = <<>> THEN NoEvent ELSE slots[1]

heap_vars == <<slots, m_curr_timestamp, m_last_id, phase, caller, firing,
               final_time, ignore_overflow, fired, removed>>

Later(e, f) == e.trigger_timestamp > f.trigger_timestamp
-----------------------------------------------------------------------------
(***************************************************************************)
(* std::push_heap, pop_heap and make_heap.                                 *)
(***************************************************************************)

\* Place value at the hole, or above it: parents that are later sink (the slots
\* above the hole are still those of s), but nothing above slot top is touched.
Rise(s, hole, top, value) ==
    LET rise[h \in 1..Len(s)] ==
            IF h > top /\ Later(s[h \div 2], value)
              THEN [rise[h \div 2] EXCEPT ![h] = s[h \div 2]]
              ELSE [s EXCEPT ![h] = value]
    IN  rise[hole]

\* The earlier child of a slot.
Child(s, h) ==
    IF 2 * h + 1 <= Len(s) /\ ~Later(s[2 * h + 1], s[2 * h]) THEN 2 * h + 1 ELSE 2 * h

\* Move the hole at slot top down to a leaf, the children rise.
Sink(s, top) ==
    LET sink[h \in 1..Len(s)] ==
            IF 2 * h > Len(s) THEN [seq |-> s, hole |-> h]
            ELSE LET below == sink[Child(s, h)]
                 IN  [below EXCEPT !.seq[h] = s[Child(s, h)]]
    IN  sink[top]

\* Then let value rise from there.
Refill(s, top, value) ==
    LET sunk == Sink(s, top) IN Rise(sunk.seq, sunk.hole, top, value)

push_heap(s, e) == Rise(Append(s, e), Len(s) + 1, 1, e)

\* pop_heap followed by m_num_events--.
pop_heap(s) ==
    IF Len(s) = 1 THEN <<>> ELSE Refill(Front(s), 1, Last(s))

\* From the last slot with a child back to the root.
make_heap(s) ==
    LET make[i \in 1..(Len(s) \div 2 + 1)] ==
            IF 2 * i > Len(s) THEN s ELSE Refill(make[i + 1], i, make[i + 1][i])
    IN  make[1]
-----------------------------------------------------------------------------
HeapInit == slots = <<>> /\ Sets!Init

HeapScheduleAbsolute(timestamp) ==
    /\ ClientMayCall
    /\ Floor <= timestamp
    /\ timestamp <= MaxTimestamp
    /\ m_last_id < MaxId
    /\ Len(slots) # MAX_EVENTS
    /\ slots' = push_heap(slots, [event_id |-> m_last_id,
                                 trigger_timestamp |-> timestamp])
    /\ m_last_id' = m_last_id + 1
    /\ UNCHANGED <<m_curr_timestamp, advance_vars, fired, removed>>

\* Bug: the order is not restored after the swap.
DescheduleNoMakeHeap(event_id) ==
    /\ ClientMayCall
    /\ phase = "callback" => event_id # firing.event_id
    /\ phase = "callback" /\ TieGuard => Sets!Harmless(event_id)
    /\ \E i \in DOMAIN slots :
          /\ slots[i].event_id = event_id
          /\ slots' = Front([slots EXCEPT ![i] = Last(slots)])
    /\ removed' = removed \cup {event_id}
    /\ UNCHANGED <<m_curr_timestamp, m_last_id, advance_vars, fired>>

\* find_if, swap with the last slot, make_heap over the others.
HeapDeschedule(event_id) ==
    /\ ClientMayCall
    /\ phase = "callback" => event_id # firing.event_id
    /\ phase = "callback" /\ TieGuard => Sets!Harmless(event_id)
    /\ \E i \in DOMAIN slots :
          /\ slots[i].event_id = event_id
          /\ slots' = make_heap(Front([slots EXCEPT ![i] = Last(slots)]))
    /\ removed' = removed \cup {event_id}
    /\ UNCHANGED <<m_curr_timestamp, m_last_id, advance_vars, fired>>

\* Bug: the number of events is decremented without the pop_heap.
CallbackReturnNoPop ==
    /\ phase = "callback"
    /\ slots' = Front(slots)
    /\ phase' = IF caller = "Advance" THEN "advance" ELSE "idle"
    /\ caller' = "none"
    /\ firing' = NoEvent
    /\ UNCHANGED <<m_curr_timestamp, m_last_id, final_time, ignore_overflow,
                   fired, removed>>

HeapCallbackReturn ==
    /\ phase = "callback"
    /\ slots' = pop_heap(slots)
    /\ phase' = IF caller = "Advance" THEN "advance" ELSE "idle"
    /\ caller' = "none"
    /\ firing' = NoEvent
    /\ UNCHANGED <<m_curr_timestamp, m_last_id, final_time, ignore_overflow,
                   fired, removed>>

HeapUntouched ==
    /\ UNCHANGED slots
    /\ \/ \E n \in 0..MaxTimestamp, ignore \in BOOLEAN : Sets!Advance(n, ignore)
       \/ Sets!AdvanceFire
       \/ Sets!AdvanceReturn
       \/ Sets!NextEvent
       \/ Sets!ScheduleRejected
       \/ \E id \in 0..MaxId : Sets!DescheduleUnknown(id)

HeapNext ==
    \/ \E t \in 0..MaxTimestamp : HeapScheduleAbsolute(t)
    \/ \E id \in 0..MaxId : HeapDeschedule(id)
    \/ HeapCallbackReturn
    \/ HeapUntouched

HeapSpec == HeapInit /\ [][HeapNext]_heap_vars
-----------------------------------------------------------------------------
\* No slot is earlier than its parent, whatever mix of pushes, pops and
\* removals from the middle got there: Advance looks at slot 0 only, so a
\* broken heap would fire events late (Scheduler.cpp:32, 56, 88).
HeapOrdered == \A i \in 2..Len(slots) : ~Later(slots[i \div 2], slots[i])

\* Push, pop and removal neither lose nor duplicate an event of the array, and
\* the root is always an earliest one: the array scheduler implements the set
\* scheduler that the theorems are about.
ImplementsScheduler == Sets!Spec

=============================================================================
