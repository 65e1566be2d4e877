---------------------------- MODULE MCRootCounter ----------------------------
(***************************************************************************)
(* Small instances of RootCounter: counters of two bits.                   *)
(***************************************************************************)
EXTENDS RootCounter

TwoRates == [sel \in 0..4 |-> IF sel = 1 THEN 3 ELSE 2]

Mode4(sync, reset, repeat, source) ==
    [sync_enable |-> sync >= 0, sync_mode |-> IF sync >= 0 THEN sync ELSE 0,
     reset_on_target |-> reset, irq_on_target |-> TRUE, irq_on_ov |-> TRUE,
     irq_repeat |-> repeat, irq_toggle |-> source = 3, clock_src |-> source]

\* Free running and every synchronisation, with and without a reset on the target.
AllModes ==
    {Mode4(sync, TRUE, FALSE, 3) : sync \in -1..3}
      \cup {Mode4(sync, FALSE, FALSE, 0) : sync \in -1..3}
      \cup {Mode4(-1, TRUE, TRUE, 3), Mode4(-1, TRUE, FALSE, 0)}
=============================================================================
