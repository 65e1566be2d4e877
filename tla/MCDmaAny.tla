------------------------------- MODULE MCDmaAny -------------------------------
(***************************************************************************)
(* Any guest, on the two MDEC channels, which start each other, or on SPU  *)
(* and ordering table with interrupts and bus errors.                      *)
(***************************************************************************)
EXTENDS Dma

VARIABLE group    \* the channels of this behaviour

MDECChannels == {0, 1}
OtherChannels == {4, 6}
MCChannels == MDECChannels \cup OtherChannels

MCNodes == <<1, 0, 1>>

DICR(on_block, enable, master) ==
    [interrupt_on_block |-> on_block, bus_error |-> FALSE,
     channel_int_enable |-> enable, master_int_enable |-> master]

\* The interrupts of both channels, with one for every block.
MCControls == {DICR({6}, OtherChannels, TRUE)}

MCInit == Init /\ group \in {MDECChannels, OtherChannels}

\* A step that stays within the group.
Within ==
    /\ \A c \in Channels \ group : q'.ch[c] = q.ch[c] /\ ~dpcr'[c].enable
    /\ group = MDECChannels => dicr' = dicr
    /\ group = OtherChannels => \A c \in group : ~q'.ch[c].force /\ q'.ch[c].sync # "LINKED"
    /\ UNCHANGED group

MCSpec ==
    /\ MCInit
    /\ [][Next /\ Within]_<<vars, group>>
    /\ Fairness
=============================================================================
