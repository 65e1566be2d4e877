---------------------------- MODULE TimerService ----------------------------
(***************************************************************************)
(* What the event scheduler promises its clients, with no queue, no heap   *)
(* and no callback bracket: a set of pending timers and a clock.  Advance  *)
(* runs every timer that is due up to its deadline, earliest first, each   *)
(* exactly once, and then moves the clock to the deadline.  Timers may be  *)
(* added and cancelled at any moment, also while an Advance is running.    *)
(***************************************************************************)
EXTENDS Integers

VARIABLES
    pending,   \* the timers that have neither run nor been cancelled
    now,       \* the clock
    running,   \* is an Advance in progress?
    deadline   \* the time the running Advance ends at

tvars == <<pending, now, running, deadline>>

Earliest(e) == \A f \in pending : e.trigger_timestamp <= f.trigger_timestamp

TInit ==
    /\ pending = {}
    /\ now = 0
    /\ running = FALSE
    /\ deadline = 0

\* A new timer has an id no pending timer has.
Add ==
    /\ \E e \in pending' :
          /\ \A f \in pending : e.event_id # f.event_id
          /\ pending' = pending \cup {e}
    /\ UNCHANGED <<now, running, deadline>>

Cancel ==
    /\ \E e \in pending : pending' = pending \ {e}
    /\ UNCHANGED <<now, running, deadline>>

Begin ==
    /\ ~running
    /\ running' = TRUE
    /\ deadline' >= now
    /\ UNCHANGED <<pending, now>>

\* A due timer runs: it is the earliest one, it leaves the set, and the clock
\* does not go back.
Fire ==
    /\ running
    /\ \E e \in pending :
          /\ e.trigger_timestamp <= deadline
          /\ Earliest(e)
          /\ pending' = pending \ {e}
    /\ now' >= now
    /\ now' <= deadline
    /\ UNCHANGED <<running, deadline>>

\* An Advance ends only when nothing that is due is left.
Finish ==
    /\ running
    /\ \A e \in pending : e.trigger_timestamp > deadline
    /\ now' = deadline
    /\ running' = FALSE
    /\ UNCHANGED <<pending, deadline>>

\* Fast forward to the earliest timer and run it.
Skip ==
    /\ ~running
    /\ \E e \in pending :
          /\ Earliest(e)
          /\ now' = e.trigger_timestamp
          /\ pending' = pending \ {e}
    /\ now' >= now
    /\ UNCHANGED <<running, deadline>>

TNext == Add \/ Cancel \/ Begin \/ Fire \/ Finish \/ Skip

TSpec == TInit /\ [][TNext]_tvars
=============================================================================
