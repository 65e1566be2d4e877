--------------------------------- MODULE Dma ---------------------------------
(***************************************************************************)
(* The DMA controller and its channels: DmaController.cpp, DmaBase.cpp and *)
(* the channel classes.  Channel numbers are those of the hardware: 0 and  *)
(* 1 MDEC in and out, 2 GPU, 3 CDROM, 4 SPU, 6 ordering table.             *)
(*                                                                         *)
(* The guest's instructions run only while no transfer is active; one call *)
(* of AdvanceTransfer moves a word or handles the end of a block.  A       *)
(* device's request line may change with every word it sends or receives,  *)
(* and a line that rises starts or resumes the transfer of its channel, in *)
(* the middle of the transfer that is running.                             *)
(*                                                                         *)
(* Addresses and data are not represented; a linked list is the sequence   *)
(* of the sizes of its nodes.  Chopping and the reserved sync mode, which  *)
(* the code stops at, and the fast ordering table, which is switched off,  *)
(* are left out.                                                           *)
(***************************************************************************)
EXTENDS Integers, FiniteSets, Sequences

CONSTANTS
    Channels,     \* the channels in use
    U16,          \* 2^16: a word count of 0 stands for it
    SPU_BLOCK,    \* the only block size the SPU accepts (16)
    Sizes,        \* the block sizes and word counts the guest writes
    Counts,       \* the block counts the guest writes
    Nodes,        \* sizes of the nodes of the linked list
    Priorities,   \* the priorities the guest writes
    IntControls,  \* the values the guest writes to DICR
    Faults,       \* may a word hit a bus error?
    Careful       \* TRUE: the guest enables a channel before it starts it and
                  \* leaves the registers of a busy channel alone

AllChannels == {0, 1, 2, 3, 4, 6}
Slots == 0..7

ASSUME DmaAssumption ==
    /\ Channels \subseteq AllChannels
    /\ U16 \in Nat \ {0} /\ SPU_BLOCK \in Nat \ {0}
    /\ Sizes \subseteq 0..(U16 - 1) /\ Counts \subseteq 0..(U16 - 1)
    /\ Nodes \in Seq(Nat) /\ Nodes # <<>>
    /\ Priorities \subseteq 0..7
    /\ IntControls \subseteq [interrupt_on_block : SUBSET Channels, bus_error : BOOLEAN,
                              channel_int_enable : SUBSET Channels,
                              master_int_enable : BOOLEAN]
    /\ Faults \subseteq BOOLEAN /\ Faults # {}
    /\ Careful \in BOOLEAN

Transfer == [id : AllChannels, prio : 0..7]

VARIABLES
    dpcr,     \* m_control of the controller
    dicr,     \* m_int_control
    i_stat,   \* the DMA bit of I_STAT
    q         \* the channels, m_active_dmas and m_num_active

vars == <<dpcr, dicr, i_stat, q>>

\* The sync modes a channel does not stop at.  DoBurst of DmaBase, which MDEC and
\* GPU inherit, is a breakpoint; so is DoLinked for a transfer to RAM.
SyncModes(c) ==
    CASE c \in {0, 2} -> {"SLICE", "LINKED"}
      [] c = 1 -> {"SLICE"}
      [] c = 3 -> {"BURST", "SLICE"}
      [] c = 4 -> {"BURST", "SLICE", "LINKED"}
      [] c = 6 -> {"BURST"}

END == Len(Nodes) + 1
-----------------------------------------------------------------------------
(***************************************************************************)
(* The list of active transfers.                                           *)
(***************************************************************************)
Before(t, c, prio) == t.prio < prio \/ (t.prio = prio /\ t.id > c)

\* The loop starts at slot m_num_active, one past the last transfer, so the
\* first comparison is with whatever an earlier transfer left there.
InsertAt(s, n, c, prio) ==
    CHOOSE p \in 0..n : /\ p = 0 \/ Before(s[p], c, prio)
                        /\ \A r \in (p + 1)..n : ~Before(s[r], c, prio)

AddTransfer(x, c) ==
    LET prio == dpcr[c].prio
        p == InsertAt(x.slots, x.n, c, prio)
    IN  [ch |-> x.ch,
         slots |-> [i \in Slots |-> IF i < p THEN x.slots[i]
                                    ELSE IF i = p THEN [id |-> c, prio |-> prio]
                                    ELSE x.slots[i - 1]],
         n |-> x.n + 1]

\* Bug: the last entry is dropped instead of the first.
RemoveTransferLast(x) == [ch |-> x.ch, slots |-> x.slots, n |-> x.n - 1]

RemoveTransfer(x) ==
    [ch |-> x.ch,
     slots |-> [i \in Slots |-> IF i < 7 THEN x.slots[i + 1] ELSE x.slots[i]],
     n |-> x.n - 1]

\* The members of channel c become those of record r.
Set(x, c, r) == [ch |-> [x.ch EXCEPT ![c] = r], slots |-> x.slots, n |-> x.n]

Leading(c) == q.n > 0 /\ q.slots[0].id = c
-----------------------------------------------------------------------------
(***************************************************************************)
(* A channel.  moved and goal count the words of the transfer: those that  *)
(* were moved and those the registers asked for when it started.           *)
(***************************************************************************)
WordCount(size) == IF size = 0 THEN U16 ELSE size

\* A block count of 0 still moves one block.
BlockCount(count) == IF count = 0 THEN 1 ELSE count

Sum[i \in 0..Len(Nodes)] == IF i = 0 THEN 0 ELSE Sum[i - 1] + Nodes[i]
ListWords == Sum[Len(Nodes)]

Rejected(c, ch) == c = 4 /\ (ch.sync # "SLICE" \/ ch.size # SPU_BLOCK)

Channel ==
    [start : BOOLEAN, force : BOOLEAN, sync : {"BURST", "SLICE", "LINKED"},
     dreq : BOOLEAN, running : BOOLEAN, active : BOOLEAN, words : Nat,
     blocks : Int, size : 0..(U16 - 1), count : 0..(U16 - 1), next : 1..END,
     moved : Nat, goal : Nat \cup {ListWords}]

Goal(c, ch) ==
    CASE Rejected(c, ch) -> 0
      [] ~Rejected(c, ch) /\ ch.sync = "BURST" -> WordCount(ch.size)
      [] ~Rejected(c, ch) /\ ch.sync = "SLICE" -> ch.size * BlockCount(ch.count)
      [] ~Rejected(c, ch) /\ ch.sync = "LINKED" -> ListWords

\* Bug: a resumed transfer reads its block count again.
LoadedRestarting(c, ch, resume) ==
    LET node == IF resume THEN ch.next ELSE 1 IN
    [ch EXCEPT
        !.active = TRUE, !.running = TRUE, !.force = FALSE,
        !.words = CASE ch.sync = "BURST" -> WordCount(ch.size)
                    [] ch.sync = "SLICE" -> ch.size
                    [] ch.sync = "LINKED" -> Nodes[node],
        !.blocks = IF ch.sync = "SLICE" THEN ch.count ELSE ch.blocks,
        !.next = IF ch.sync = "LINKED" THEN node + 1 ELSE ch.next,
        !.moved = IF resume THEN ch.moved ELSE 0,
        !.goal = IF resume THEN ch.goal ELSE Goal(c, ch)]

\* What TransferStart does to the channel itself.
Loaded(c, ch, resume) ==
    LET node == IF resume THEN ch.next ELSE 1 IN
    [ch EXCEPT
        !.active = TRUE, !.running = TRUE, !.force = FALSE,
        !.words = CASE ch.sync = "BURST" -> WordCount(ch.size)
                    [] ch.sync = "SLICE" -> ch.size
                    [] ch.sync = "LINKED" -> Nodes[node],
        !.blocks = IF ch.sync = "SLICE" /\ ~resume THEN ch.count ELSE ch.blocks,
        !.next = IF ch.sync = "LINKED" THEN node + 1 ELSE ch.next,
        !.moved = IF resume THEN ch.moved ELSE 0,
        !.goal = IF resume THEN ch.goal ELSE Goal(c, ch)]

\* A disabled channel does not start, and nothing remembers that it should.
TransferStart(x, c, resume) ==
    IF ~dpcr[c].enable THEN x
    ELSE AddTransfer(Set(x, c, Loaded(c, x.ch[c], resume)), c)

TransferEnd(x, c, last_block) ==
    RemoveTransfer(
        Set(x, c, [x.ch[c] EXCEPT
            !.start = x.ch[c].start /\ ~last_block,
            !.active = x.ch[c].active /\ ~last_block,
            !.running = FALSE,
            !.dreq = x.ch[c].dreq /\ ~(c = 4 /\ last_block /\ ~Rejected(c, x.ch[c]))]))

\* Bug: a transfer that paused is not resumed.
DreqRisingEdgeNoResume(x, c) ==
    IF ~x.ch[c].start \/ x.ch[c].running \/ x.ch[c].active THEN x
    ELSE TransferStart(x, c, FALSE)

DreqRisingEdge(x, c) ==
    IF ~x.ch[c].start \/ x.ch[c].running THEN x
    ELSE TransferStart(x, c, x.ch[c].active)

\* A device shows its request line.  The GPU starts the channel on the edge
\* only, the others whenever the line is up.
Signal(x, c, level) ==
    IF c \notin Channels THEN x
    ELSE LET y == Set(x, c, [x.ch[c] EXCEPT !.dreq = level])
         IN  IF level /\ (c = 2 => ~x.ch[c].dreq) THEN DreqRisingEdge(y, c) ELSE y

Dreq(c) == c = 6 \/ q.ch[c].dreq
-----------------------------------------------------------------------------
(***************************************************************************)
(* The interrupt register.                                                 *)
(***************************************************************************)
UpdateMasterIRQ(d) ==
    [d EXCEPT !.master_irq =
        d.bus_error \/ (d.master_int_enable
                         /\ d.channel_int_req \cap d.channel_int_enable # {})]

\* interrupt_on_block is shifted but not masked: the bits of the channels above
\* count as well.
OnBlock(d, c, last_block) == last_block \/ \E e \in d.interrupt_on_block : e >= c

Requested(d, c) ==
    IF c \in d.channel_int_enable
      THEN [d EXCEPT !.channel_int_req = d.channel_int_req \cup {c}] ELSE d

\* Bug: the master flag is not brought up to date.
InterruptRequestNoMaster(d, c, last_block) ==
    /\ dicr' = IF OnBlock(d, c, last_block) THEN Requested(d, c) ELSE d
    /\ i_stat' = (i_stat \/ (OnBlock(d, c, last_block) /\ c \in d.channel_int_enable))

InterruptRequest(d, c, last_block) ==
    /\ dicr' = IF OnBlock(d, c, last_block) THEN UpdateMasterIRQ(Requested(d, c)) ELSE d
    /\ i_stat' = (i_stat \/ (OnBlock(d, c, last_block) /\ c \in d.channel_int_enable))

\* UpdateMasterIRQ has raised the master flag by the time it is tested, so the
\* interrupt that should follow a bus error is never requested.
SignalException(d) == UpdateMasterIRQ([d EXCEPT !.bus_error = TRUE])

AfterAccess(fault) == IF fault THEN SignalException(dicr) ELSE dicr
-----------------------------------------------------------------------------
IdleChannel(c) ==
    [start |-> FALSE, force |-> FALSE, sync |-> "BURST", dreq |-> FALSE,
     running |-> FALSE, active |-> FALSE, words |-> 0, blocks |-> 0,
     size |-> 0, count |-> 0, next |-> 1, moved |-> 0, goal |-> 0]

Init ==
    /\ dpcr = [c \in Channels |-> [enable |-> FALSE, prio |-> (c + 1) % 8]]
    /\ dicr = [interrupt_on_block |-> {}, bus_error |-> FALSE, channel_int_enable |-> {},
               master_int_enable |-> FALSE, channel_int_req |-> {}, master_irq |-> FALSE]
    /\ i_stat = FALSE
    /\ q = [ch |-> [c \in Channels |-> IdleChannel(c)],
            slots |-> [i \in Slots |-> [id |-> 0, prio |-> 0]], n |-> 0]

GuestRuns == q.n = 0

\* DPCR is written as a whole.
WriteControl(enabled, prio) ==
    /\ GuestRuns
    /\ Careful => \A c \in Channels : q.ch[c].start => c \in enabled
    /\ dpcr' = [c \in Channels |-> [enable |-> c \in enabled, prio |-> prio[c]]]
    /\ UNCHANGED <<dicr, i_stat, q>>

WriteInt(v, ack) ==
    /\ GuestRuns
    /\ dicr' = UpdateMasterIRQ(
          [interrupt_on_block |-> v.interrupt_on_block, bus_error |-> v.bus_error,
           channel_int_enable |-> v.channel_int_enable,
           master_int_enable |-> v.master_int_enable,
           channel_int_req |-> dicr.channel_int_req \ ack, master_irq |-> dicr.master_irq])
    /\ UNCHANGED <<dpcr, i_stat, q>>

\* A read brings the master flag up to date as well.
ReadInt ==
    /\ GuestRuns
    /\ dicr' = UpdateMasterIRQ(dicr)
    /\ UNCHANGED <<dpcr, i_stat, q>>

ClearIStat ==
    /\ GuestRuns
    /\ i_stat
    /\ i_stat' = FALSE
    /\ UNCHANGED <<dpcr, dicr, q>>

WriteBlockControl(c, size, count) ==
    /\ GuestRuns
    /\ Careful => ~q.ch[c].start
    /\ q' = Set(q, c, [q.ch[c] EXCEPT !.size = size, !.count = count])
    /\ UNCHANGED <<dpcr, dicr, i_stat>>

\* Bug: a channel whose device is ready already waits for the next edge.
WriteChannelNoDreq(c, sync, start, force) ==
    LET old == q.ch[c]
        x == Set(q, c, [old EXCEPT !.sync = sync, !.start = start, !.force = force])
    IN
    /\ GuestRuns
    /\ Careful => ~old.start /\ ~force /\ dpcr[c].enable
    /\ old.active => sync = old.sync
    /\ q' = IF (force /\ ~old.force) \/ (start /\ ~old.start /\ sync = "BURST")
              THEN TransferStart(x, c, FALSE) ELSE x
    /\ UNCHANGED <<dpcr, dicr, i_stat>>

\* CHCR.  No guest changes the sync mode of a transfer that it has started.
WriteChannel(c, sync, start, force) ==
    LET old == q.ch[c]
        x == Set(q, c, [old EXCEPT !.sync = sync, !.start = start, !.force = force])
        start_edge == start /\ ~old.start
        force_edge == force /\ ~old.force
    IN
    /\ GuestRuns
    /\ Careful => ~old.start /\ ~force /\ dpcr[c].enable
    /\ old.active => sync = old.sync
    /\ q' = IF force_edge \/ (start_edge /\ sync = "BURST") \/ (start_edge /\ Dreq(c))
              THEN TransferStart(x, c, FALSE) ELSE x
    /\ UNCHANGED <<dpcr, dicr, i_stat>>

\* The guest accesses a register of a device, and the device shows its request
\* lines: both of the MDEC, or that of another one.
DeviceMDEC(in, out) ==
    /\ GuestRuns
    /\ q' \in {Signal(Signal(q, 0, in), 1, out), Signal(Signal(q, 1, out), 0, in)}
    /\ UNCHANGED <<dpcr, dicr, i_stat>>

DeviceGPU(level) ==
    /\ GuestRuns
    /\ q' = Signal(q, 2, level)
    /\ UNCHANGED <<dpcr, dicr, i_stat>>

\* CDROM and SPU only ever raise the line.
DeviceReady(c) ==
    /\ GuestRuns
    /\ q' = Signal(q, c, TRUE)
    /\ UNCHANGED <<dpcr, dicr, i_stat>>
-----------------------------------------------------------------------------
(***************************************************************************)
(* AdvanceTransfer on the head of the list.                                *)
(***************************************************************************)

Refresh(x, c) == IF c \in Channels THEN Signal(x, c, x.ch[c].dreq) ELSE x

\* What the devices do after a word on channel c: a word to the MDEC may complete
\* a command and produce output, a word from it may take the last output, and the
\* GPU looks at its command state again.
AfterWord(x, c) ==
    \/ c = 0 /\ q' = Refresh(x, 0)
    \/ c = 0 /\ q' = Refresh(Signal(x, 1, TRUE), 0)
    \/ c = 1 /\ \E out \in {x.ch[1].dreq, FALSE} : q' = Signal(Refresh(x, 0), 1, out)
    \/ c = 2 /\ \E level \in BOOLEAN : q' = Signal(x, 2, level)
    \/ c \in {1, 3, 4} /\ q' = x

Counted(x, c) ==
    Set(x, c, [x.ch[c] EXCEPT !.words = x.ch[c].words - 1,
                              !.moved = x.ch[c].moved + 1])

MoveWord(c, fault) ==
    /\ Leading(c) /\ c # 6
    /\ ~Rejected(c, q.ch[c])
    /\ q.ch[c].words > 0
    /\ AfterWord(Counted(q, c), c)
    /\ dicr' = AfterAccess(fault)
    /\ UNCHANGED <<dpcr, i_stat>>

\* The ordering table ends in the step that writes its last entry; a bus error
\* of that write is recorded first.
MoveEntry(fault) ==
    LET x == Counted(q, 6) IN
    /\ Leading(6)
    /\ IF x.ch[6].words = 0
         THEN q' = TransferEnd(x, 6, TRUE) /\ InterruptRequest(AfterAccess(fault), 6, TRUE)
         ELSE q' = x /\ dicr' = AfterAccess(fault) /\ UNCHANGED i_stat
    /\ UNCHANGED dpcr

EndBurst(c) ==
    /\ Leading(c) /\ c # 6 /\ ~Rejected(c, q.ch[c])
    /\ q.ch[c].sync = "BURST" /\ q.ch[c].words = 0
    /\ q' = TransferEnd(q, c, TRUE)
    /\ InterruptRequest(dicr, c, TRUE)
    /\ UNCHANGED dpcr

\* The SPU goes on with the next block without a look at its request line.
EndSlice(c) ==
    LET blocks == q.ch[c].blocks - 1
        x == Set(q, c, [q.ch[c] EXCEPT !.blocks = blocks])
        last_block == blocks \in {0, -1}
    IN
    /\ Leading(c) /\ c # 6 /\ ~Rejected(c, q.ch[c])
    /\ q.ch[c].sync = "SLICE" /\ q.ch[c].words = 0
    /\ q' = IF last_block THEN TransferEnd(x, c, TRUE)
            ELSE IF c = 4 \/ Dreq(c) THEN Set(x, c, [x.ch[c] EXCEPT !.words = x.ch[c].size])
            ELSE TransferEnd(x, c, FALSE)
    /\ InterruptRequest(dicr, c, last_block)
    /\ UNCHANGED dpcr

\* Bug: the address of the next node is not advanced.
EndNodeStuck(c) ==
    LET last_block == q.ch[c].next = END IN
    /\ Leading(c) /\ c # 6 /\ ~Rejected(c, q.ch[c])
    /\ q.ch[c].sync = "LINKED" /\ q.ch[c].words = 0
    /\ q' = IF last_block THEN TransferEnd(q, c, TRUE)
            ELSE IF Dreq(c) THEN Set(q, c, [q.ch[c] EXCEPT !.words = Nodes[q.ch[c].next]])
            ELSE TransferEnd(q, c, FALSE)
    /\ InterruptRequest(dicr, c, last_block)
    /\ UNCHANGED dpcr

EndNode(c) ==
    LET last_block == q.ch[c].next = END
        x == Set(q, c, [q.ch[c] EXCEPT !.words = Nodes[q.ch[c].next],
                                     !.next = q.ch[c].next + 1])
    IN
    /\ Leading(c) /\ c # 6 /\ ~Rejected(c, q.ch[c])
    /\ q.ch[c].sync = "LINKED" /\ q.ch[c].words = 0
    /\ q' = IF last_block THEN TransferEnd(q, c, TRUE)
            ELSE IF Dreq(c) THEN x
            ELSE TransferEnd(q, c, FALSE)
    /\ InterruptRequest(dicr, c, last_block)
    /\ UNCHANGED dpcr

\* The SPU accepts nothing but slices of its own block size.
Reject(c) ==
    /\ Leading(c) /\ Rejected(c, q.ch[c])
    /\ q' = TransferEnd(q, c, TRUE)
    /\ InterruptRequest(dicr, c, TRUE)
    /\ UNCHANGED dpcr

AdvanceTransfer ==
    \/ \E c \in Channels, fault \in Faults : MoveWord(c, fault)
    \/ \E fault \in Faults : MoveEntry(fault)
    \/ \E c \in Channels : EndBurst(c)
    \/ \E c \in Channels : EndSlice(c)
    \/ \E c \in Channels : EndNode(c)
    \/ \E c \in Channels : Reject(c)

Next ==
    \/ \E enabled \in SUBSET Channels, prio \in [Channels -> Priorities] :
          WriteControl(enabled, prio)
    \/ \E v \in IntControls, ack \in SUBSET Channels : WriteInt(v, ack)
    \/ ReadInt
    \/ ClearIStat
    \/ \E c \in Channels, size \in Sizes, count \in Counts :
          WriteBlockControl(c, size, count)
    \/ \E c \in Channels : \E sync \in SyncModes(c), start, force \in BOOLEAN :
          WriteChannel(c, sync, start, force)
    \/ \E in, out \in BOOLEAN : DeviceMDEC(in, out)
    \/ \E level \in BOOLEAN : DeviceGPU(level)
    \/ \E c \in Channels \cap {3, 4} : DeviceReady(c)
    \/ AdvanceTransfer

Spec == Init /\ [][Next]_vars

\* The interpreter's loop calls AdvanceTransfer as long as a transfer is active.
Fairness == WF_vars(AdvanceTransfer)
-----------------------------------------------------------------------------
Running == {c \in Channels : q.ch[c].running}

\* Every variable has its type.
TypeOK ==
    /\ dpcr \in [Channels -> [enable : BOOLEAN, prio : 0..7]]
    /\ dicr \in [interrupt_on_block : SUBSET Channels, bus_error : BOOLEAN,
                 channel_int_enable : SUBSET Channels, master_int_enable : BOOLEAN,
                 channel_int_req : SUBSET Channels, master_irq : BOOLEAN]
    /\ i_stat \in BOOLEAN
    /\ q \in [ch : [Channels -> Channel], slots : [Slots -> Transfer], n : 0..6]

\* The first m_num_active entries of m_active_dmas are the channels with m_running
\* set, each once, whatever the guest writes and whatever stale entry the
\* insertion compared with.  So AdvanceTransfer never meets a channel that does not run, no
\* channel is stranded outside the list, RemoveTransfer removes the channel that
\* ended, and "Too many transfers!" is never reached.
ActiveAreRunning ==
    /\ q.n \in 0..6
    /\ \A i \in 0..(q.n - 1) : q.slots[i].id \in Running
    /\ \A i, j \in 0..(q.n - 1) : i # j => q.slots[i].id # q.slots[j].id
    /\ \A c \in Running : \E i \in 0..(q.n - 1) : q.slots[i].id = c

\* The master flag agrees with the flags it is computed from after every step, so
\* a read of DICR changes nothing.
MasterFlagAgrees == dicr = UpdateMasterIRQ(dicr)

\* No wake-up is lost: a channel of a careful guest that has been started and does
\* not run is one whose device asks for nothing.
NoIdleRequest ==
    \A c \in Channels : q.ch[c].start /\ ~q.ch[c].running => ~Dreq(c)

\* A transfer of a careful guest that completes has moved the words its registers
\* asked for, over all the pauses and resumptions in between.
CompletedInFull ==
    [][\A c \in Channels : q.ch[c].active /\ ~q'.ch[c].active
                            => q'.ch[c].moved = q'.ch[c].goal]_q

\* The CPU, which is stalled while a transfer is active, runs again.
StallEnds == q.n > 0 ~> q.n = 0

\* A transfer that a careful guest starts completes, provided its device asks for
\* data again and again.
StartedCompletes == \A c \in Channels : q.ch[c].start ~> ~q.ch[c].start
=============================================================================
