--------------------------- MODULE SchedulerState ---------------------------
(***************************************************************************)
(* What the scheduler keeps besides the heap (Scheduler.hpp): the clock,   *)
(* the last id, and where Advance or NextEvent stands.  Scheduler adds the *)
(* heap as a set with a root, SchedulerHeap as the array.                  *)
(***************************************************************************)
EXTENDS Integers

CONSTANTS
    MAX_EVENTS,     \* slots of m_events (60 in the code)
    MaxTimestamp,   \* bound on m_curr_timestamp and on triggers
    MaxId,          \* bound on m_last_id
    TieGuard        \* TRUE: callbacks call Deschedule only when it is harmless

ASSUME SchedulerAssumption ==
    /\ MAX_EVENTS \in Nat \ {0}
    /\ MaxTimestamp \in Nat
    /\ MaxId \in Nat
    /\ TieGuard \in BOOLEAN

VARIABLES
    m_curr_timestamp,
    m_last_id,
    phase,             \* where Advance or NextEvent stands
    caller,            \* which of the two runs the callback
    firing,            \* ev: the event whose callback is running
    final_time,        \* local of Advance
    ignore_overflow,   \* parameter of Advance
    fired,             \* ids whose callback has been called
    removed            \* ids Deschedule has taken out

advance_vars == <<phase, caller, firing, final_time, ignore_overflow>>

Event == [event_id : Nat, trigger_timestamp : 0..MaxTimestamp]
NoEvent == [event_id |-> -1, trigger_timestamp |-> 0]
-----------------------------------------------------------------------------
\* No client schedules into the past: outside a callback a trigger is not
\* before the clock, inside one it is not before the event being fired (the
\* callbacks of GPU, SPU and root counters add to the old trigger, which may
\* be before the clock when the event is late).
Floor == IF phase = "callback" THEN firing.trigger_timestamp ELSE m_curr_timestamp

\* Clients run between two Advance calls and inside callbacks.
ClientMayCall == phase \in {"idle", "callback"}
=============================================================================
