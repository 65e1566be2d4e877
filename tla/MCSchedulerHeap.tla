--------------------------- MODULE MCSchedulerHeap ---------------------------
\* Model-checking instance of SchedulerHeap.
EXTENDS SchedulerHeap
=============================================================================
