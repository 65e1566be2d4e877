---------------------------- MODULE MCDmaCareful ----------------------------
(***************************************************************************)
(* A careful guest without interrupts, on GPU and CDROM, on the SPU or on  *)
(* the ordering table.                                                     *)
(***************************************************************************)
EXTENDS Dma

VARIABLE group    \* the channels of this behaviour

MCChannels == {2, 3, 4, 6}

MCNodes == <<1, 0, 1>>

Silent == {[interrupt_on_block |-> {}, bus_error |-> FALSE,
            channel_int_enable |-> {}, master_int_enable |-> FALSE]}

MCInit == Init /\ group \in {{2, 3}, {4}, {6}}

\* A step that stays within the group.
Within ==
    /\ \A c \in Channels \ group : q'.ch[c] = q.ch[c] /\ ~dpcr'[c].enable
    /\ UNCHANGED group

\* The guest, whenever it runs, sooner or later makes the devices of the group ask for
\* data.
MCSpec ==
    /\ MCInit
    /\ [][Next /\ Within]_<<vars, group>>
    /\ Fairness
    /\ SF_vars(DeviceGPU(TRUE) /\ Within)
    /\ \A c \in {3, 4} : SF_vars(DeviceReady(c) /\ Within)
=============================================================================
