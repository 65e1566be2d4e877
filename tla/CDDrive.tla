------------------------------- MODULE CDDrive -------------------------------
(***************************************************************************)
(* The CD-ROM drive controller: CDDrive.cpp, DriveCommands.cpp and         *)
(* TestCommands.cpp.  The guest writes commands and parameters and         *)
(* acknowledges interrupts; the scheduler calls event_callback (an         *)
(* interrupt is due) and read_callback (a sector has passed the head).     *)
(*                                                                         *)
(* A response waits in m_response_fifo with the cycles that are left until *)
(* it is due.  Scheduler events are the cycles they have left; m_event_id  *)
(* and m_read_event are handles of the newest event of their kind, and an  *)
(* older one that is still pending is a stray nobody can deschedule.       *)
(* Response bytes, the motor, shell and error bits of m_stat and the       *)
(* sector bytes (CDSector) are not represented.                            *)
(***************************************************************************)
EXTENDS Integers, Sequences

CONSTANTS
    FIFO_SIZE,        \* capacity of m_response_fifo (16)
    PARAM_SIZE,       \* capacity of m_param_fifo (16)
    GETSTAT_NORMAL, GET_ID, READ_TOC, STOP, PAUSE, PAUSE_PAUSED, READ,
    INT_DELAY,        \* gap between an acknowledge and the next interrupt (500)
    DATA_DELAY,       \* delay of INT1 (100)
    HasDisc,          \* is there a disc in the drive?
    Sectors,          \* sector numbers are 0 .. Sectors - 1, cyclically
    IntMasks,         \* the values the guest writes to the interrupt enable
    Commands,         \* the commands the guest issues
    Care,             \* what the guest is careful about, a subset of Cares
    MaxStray          \* bound on stray events

AllCommands == {"GetStat", "GetID", "Setmode", "Stop", "ReadTOC", "SetLoc", "SeekL",
                "ReadN", "Pause", "Init", "Demute", "ReadS", "Setfilter", "Mute", "Test"}

\* "acks": an acknowledge clears all bits of the flag.  "init": Init is not
\* issued while responses wait.  "queue": a command that answers at once is
\* not issued while another one runs.  "reads": no second read is started.
Cares == {"acks", "init", "queue", "reads"}

Bits == {1, 2, 4}
INT1 == {1}
INT2 == {2}
INT3 == {1, 2}
INT5 == {1, 4}

ASSUME CDDriveAssumption ==
    /\ FIFO_SIZE \in Nat \ {0} /\ PARAM_SIZE \in Nat \ {0}
    /\ GETSTAT_NORMAL \in Nat \ {0} /\ GET_ID \in Nat \ {0} /\ READ_TOC \in Nat \ {0}
    /\ STOP \in Nat \ {0} /\ PAUSE \in Nat \ {0} /\ PAUSE_PAUSED \in Nat \ {0}
    /\ READ \in Nat \ {0} /\ INT_DELAY \in Nat \ {0} /\ DATA_DELAY \in Nat \ {0}
    /\ Sectors \in Nat \ {0} /\ MaxStray \in Nat
    /\ IntMasks \subseteq SUBSET Bits
    /\ Commands \subseteq AllCommands /\ Care \subseteq Cares
    /\ HasDisc \in BOOLEAN
    /\ ~HasDisc => Commands \cap {"ReadN", "ReadS"} = {}

VARIABLES
    ch,                  \* the response channel: FIFO, flag, scheduled delivery
    m_int_enable,
    m_idle,
    m_has_next_cmd, m_new_cmd,
    transmission_busy,   \* bit of m_index_reg
    num_params,          \* length of m_param_fifo
    double_speed,        \* bit of m_mode
    reading, seeking,    \* bits of m_stat
    m_read_paused,
    silence,             \* history: what the last Stop, Pause or Init found
    unprocessed,         \* m_unprocessed_seek_loc, NoSector if there is none
    m_seek_loc,
    rd,                  \* the read events
    buffer               \* the sector in m_curr_sector

read_vars == <<double_speed, reading, seeking, m_read_paused, silence, unprocessed,
               m_seek_loc, rd>>
cmd_vars == <<m_idle, m_has_next_cmd, m_new_cmd, transmission_busy>>
vars == <<ch, m_int_enable, cmd_vars, num_params, read_vars, buffer>>

None == -1
NoSector == -1
SectorNumbers == 0..(Sectors - 1)
Response == [interrupt : SUBSET Bits, due : Nat, sector : SectorNumbers \cup {NoSector}]
-----------------------------------------------------------------------------
(***************************************************************************)
(* The response channel c: fifo, irq (m_int_flag.irq), i_stat (the CDROM   *)
(* bit of I_STAT), event (m_event_id) and stray.                           *)
(***************************************************************************)

ScheduleInterrupt(c, cycles) ==
    [c EXCEPT !.event = cycles,
              !.stray = IF c.event = None THEN @ ELSE Append(@, c.event)]

RequestInterrupt(c, interrupt) ==
    [c EXCEPT !.irq = interrupt,
              !.i_stat = @ \/ m_int_enable \cap interrupt # {}]

\* Bug: a response that is due at once is raised although others wait.
PushResponseEager(c, interrupt, delay, sector) ==
    LET queued == [c EXCEPT !.fifo =
            Append(@, [interrupt |-> interrupt, due |-> delay, sector |-> sector])]
    IN  IF Len(c.fifo) = FIFO_SIZE THEN c
        ELSE IF delay = 0 THEN RequestInterrupt(queued, interrupt)
        ELSE IF c.fifo # <<>> THEN queued
        ELSE ScheduleInterrupt(queued, delay)

PushResponse(c, interrupt, delay, sector) ==
    LET queued == [c EXCEPT !.fifo =
            Append(@, [interrupt |-> interrupt, due |-> delay, sector |-> sector])]
    IN  IF Len(c.fifo) = FIFO_SIZE THEN c
        ELSE IF c.fifo # <<>> THEN queued
        ELSE IF delay = 0 THEN RequestInterrupt(queued, interrupt)
        ELSE ScheduleInterrupt(queued, delay)

Respond(c, interrupt, delay) == PushResponse(c, interrupt, delay, NoSector)

\* InterruptAckd down to the test whether the FIFO is empty now: an undelivered
\* response stays; otherwise the head goes and the next one is scheduled.
Undelivered(c) == Head(c.fifo).due > 0

\* Bug: a response that is due already is not scheduled again.
PopResponseForgets(c) ==
    LET rest == [c EXCEPT !.fifo = Tail(@)]
    IN  IF rest.fifo = <<>> \/ Head(rest.fifo).due = 0 THEN rest
        ELSE ScheduleInterrupt(rest, Head(rest.fifo).due)

PopResponse(c) ==
    LET rest == [c EXCEPT !.fifo = Tail(@)]
    IN  IF rest.fifo = <<>> THEN rest
        ELSE ScheduleInterrupt(rest, IF Head(rest.fifo).due = 0 THEN INT_DELAY
                                     ELSE Head(rest.fifo).due)

\* What WriteReg3 does last.
ClearFlag(c, ack) == [c EXCEPT !.irq = @ \ ack]

Deschedule(e) == [e EXCEPT !.event = None]
-----------------------------------------------------------------------------
(***************************************************************************)
(* The commands.  CommandExecute is called from WriteReg1 and, for a queued *)
(* command, from InterruptAckd inside WriteReg3, which then clears bits of *)
(* the flag: c is the channel at the call and ack the bits cleared later.  *)
(***************************************************************************)
ReadTime(fast) == IF fast THEN READ \div 2 ELSE READ

Params(cmd) == CASE cmd \in {"Setmode", "Test"} -> 1
                 [] cmd = "SetLoc" -> 3
                 [] cmd = "Setfilter" -> 2
                 [] OTHER -> 0

ParamsValid(cmd) == Params(cmd) # 0 => num_params = Params(cmd)

FirstDelay(cmd) == IF cmd \in {"GetID", "Test"} THEN 0 ELSE GETSTAT_NORMAL

\* The responses a command leaves.
Answer(c, cmd) ==
    LET first == Respond(c, INT3, FirstDelay(cmd)) IN
    CASE cmd = "GetID"   -> Respond(first, IF HasDisc THEN INT2 ELSE INT5, GET_ID)
      [] cmd = "Stop"    -> Respond(first, INT2, STOP)
      [] cmd = "ReadTOC" -> Respond(first, INT2, READ_TOC)
      [] cmd \in {"SeekL", "Init"} -> Respond(first, INT2, GETSTAT_NORMAL * 2)
      [] cmd = "Pause"   -> Respond(first, INT2,
                                IF m_read_paused \/ ~reading
                                  THEN GETSTAT_NORMAL + PAUSE_PAUSED
                                  ELSE IF double_speed THEN PAUSE \div 2 ELSE PAUSE)
      [] OTHER -> first

\* silence is "none" from a read on, and after a command that is to end it
\* "ordered" or, if a read was pending that had not set the reading bit yet (or
\* whose bit a SeekL had taken back), "early".
EndRead == silence' = "ordered"
PauseRead == silence' = IF ~reading /\ rd.event # None THEN "early" ELSE "ordered"

StartRead(cycles) ==
    /\ m_read_paused' = FALSE
    /\ silence' = "none"
    /\ seeking' = (seeking \/ unprocessed # NoSector)
    /\ reading' = (reading \/ unprocessed = NoSector)
    /\ m_seek_loc' = IF unprocessed # NoSector THEN unprocessed ELSE m_seek_loc
    /\ unprocessed' = NoSector
    /\ rd' = ScheduleInterrupt(rd, cycles)
    /\ UNCHANGED double_speed

Command_Stop ==
    /\ rd' = Deschedule(rd)
    /\ m_seek_loc' = 0
    /\ m_read_paused' = FALSE
    /\ reading' = FALSE
    /\ EndRead
    /\ UNCHANGED <<double_speed, seeking, unprocessed>>

Command_SeekL ==
    /\ m_seek_loc' = IF unprocessed # NoSector THEN unprocessed ELSE m_seek_loc
    /\ unprocessed' = NoSector
    /\ seeking' = FALSE
    /\ reading' = FALSE
    /\ UNCHANGED <<double_speed, m_read_paused, silence, rd>>

\* Bug: Pause leaves the read event in the scheduler.
Command_PauseKeepsReading ==
    /\ IF m_read_paused \/ ~reading
         THEN UNCHANGED <<m_read_paused, reading, rd>>
         ELSE /\ m_read_paused' = TRUE
              /\ reading' = FALSE
              /\ UNCHANGED rd
    /\ PauseRead
    /\ UNCHANGED <<double_speed, seeking, unprocessed, m_seek_loc>>

Command_Pause ==
    /\ IF m_read_paused \/ ~reading
         THEN UNCHANGED <<m_read_paused, reading, rd>>
         ELSE /\ m_read_paused' = TRUE
              /\ reading' = FALSE
              /\ rd' = Deschedule(rd)
    /\ PauseRead
    /\ UNCHANGED <<double_speed, seeking, unprocessed, m_seek_loc>>

\* Bug: Init deschedules the read event but does not reset m_stat.
Command_InitKeepsStat ==
    /\ m_read_paused' = FALSE
    /\ rd' = Deschedule(rd)
    /\ EndRead
    /\ UNCHANGED <<reading, seeking, double_speed, unprocessed, m_seek_loc>>

Command_Init ==
    /\ reading' = FALSE
    /\ seeking' = FALSE
    /\ m_read_paused' = FALSE
    /\ rd' = Deschedule(rd)
    /\ EndRead
    /\ UNCHANGED <<double_speed, unprocessed, m_seek_loc>>

\* What a command does to the reading side of the drive.
ReadSide(cmd) ==
    CASE cmd = "ReadN"   -> StartRead(ReadTime(double_speed) \div 2)
      [] cmd = "ReadS"   -> StartRead(ReadTime(double_speed))
      [] cmd = "Stop"    -> Command_Stop
      [] cmd = "SeekL"   -> Command_SeekL
      [] cmd = "Pause"   -> Command_Pause
      [] cmd = "Init"    -> Command_Init
      [] cmd = "SetLoc"  -> /\ unprocessed' \in SectorNumbers
                            /\ UNCHANGED <<double_speed, reading, seeking,
                                           m_read_paused, silence, m_seek_loc, rd>>
      [] cmd = "Setmode" -> /\ double_speed' \in BOOLEAN
                            /\ UNCHANGED <<reading, seeking, m_read_paused, silence,
                                           unprocessed, m_seek_loc, rd>>
      [] OTHER -> UNCHANGED read_vars

\* ValidateParams fails: INT5 at once, the parameters stay in their FIFO.
CommandExecute(cmd, c, ack) ==
    \/ /\ ParamsValid(cmd)
       /\ ch' = ClearFlag(Answer(IF cmd = "Init" THEN Deschedule(c) ELSE c, cmd), ack)
       /\ num_params' = IF Params(cmd) # 0 THEN 0 ELSE num_params
       /\ m_idle' = (cmd = "Test")
       /\ ReadSide(cmd)
    \/ /\ ~ParamsValid(cmd)
       /\ ch' = ClearFlag(Respond(c, INT5, 0), ack)
       /\ m_idle' = FALSE
       /\ UNCHANGED <<num_params, read_vars>>
-----------------------------------------------------------------------------
(***************************************************************************)
(* The guest's register accesses.                                          *)
(***************************************************************************)
Init ==
    /\ ch = [fifo |-> <<>>, irq |-> {}, i_stat |-> FALSE, event |-> None, stray |-> <<>>]
    /\ m_int_enable = {}
    /\ m_idle = TRUE
    /\ m_has_next_cmd = FALSE
    /\ m_new_cmd = "GetStat"
    /\ transmission_busy = FALSE
    /\ num_params = 0
    /\ double_speed = FALSE
    /\ reading = FALSE
    /\ seeking = FALSE
    /\ m_read_paused = FALSE
    /\ silence = "none"
    /\ unprocessed = NoSector
    /\ m_seek_loc = 0
    /\ rd = [event |-> None, stray |-> <<>>]
    /\ buffer = NoSector

\* The scheduler has fired everything that is due before the guest runs.
Quiet == /\ ch.event # 0 /\ rd.event # 0
         /\ \A i \in DOMAIN ch.stray : ch.stray[i] # 0
         /\ \A i \in DOMAIN rd.stray : rd.stray[i] # 0

\* The step leaves no more strays than the bound.
Room == Len(ch'.stray) <= MaxStray /\ Len(rd'.stray) <= MaxStray

Issuable(cmd) ==
    /\ "queue" \in Care /\ (FirstDelay(cmd) = 0 \/ Params(cmd) # 0) => m_idle
    /\ "init" \in Care /\ cmd = "Init" /\ m_idle => ch.fifo = <<>>
    /\ "reads" \in Care /\ cmd \in {"ReadN", "ReadS"} => rd.event = None

\* WriteReg1, index 0.
WriteCommandNow(cmd) ==
    /\ Quiet /\ Issuable(cmd)
    /\ ~transmission_busy
    /\ m_idle
    /\ CommandExecute(cmd, ch, {})
    /\ Room
    /\ transmission_busy' = FALSE
    /\ UNCHANGED <<m_int_enable, m_has_next_cmd, m_new_cmd, buffer>>

\* Bug: the busy bit is not shown for a queued command.
WriteCommandQueuedSilently(cmd) ==
    /\ Quiet /\ Issuable(cmd)
    /\ ~transmission_busy
    /\ ~m_idle
    /\ m_new_cmd' = cmd
    /\ m_has_next_cmd' = TRUE
    /\ UNCHANGED <<transmission_busy, ch, m_int_enable, m_idle, num_params, read_vars,
                   buffer>>

WriteCommandQueued(cmd) ==
    /\ Quiet /\ Issuable(cmd)
    /\ ~transmission_busy
    /\ ~m_idle
    /\ m_new_cmd' = cmd
    /\ m_has_next_cmd' = TRUE
    /\ transmission_busy' = TRUE
    /\ UNCHANGED <<ch, m_int_enable, m_idle, num_params, read_vars, buffer>>

\* WriteReg2, index 0: a full FIFO drops the byte.
WriteParam ==
    /\ Quiet
    /\ num_params' = IF num_params = PARAM_SIZE THEN num_params ELSE num_params + 1
    /\ UNCHANGED <<ch, m_int_enable, cmd_vars, read_vars, buffer>>

\* WriteReg2, index 1.
WriteIntEnable(mask) ==
    /\ Quiet
    /\ m_int_enable' = mask
    /\ UNCHANGED <<ch, cmd_vars, num_params, read_vars, buffer>>

\* WriteReg3, index 1, bit 6 alone.
ResetParams ==
    /\ Quiet
    /\ num_params' = 0
    /\ UNCHANGED <<ch, m_int_enable, cmd_vars, read_vars, buffer>>

\* WriteReg3, index 1, with a flag set and bits to acknowledge.  (Without a
\* flag the write does nothing.)
AckOk(ack) == ack # {} /\ ch.irq # {} /\ ("acks" \in Care => ch.irq \subseteq ack)

AckLate(ack) ==
    /\ Quiet /\ AckOk(ack)
    /\ ch.fifo # <<>> => Undelivered(ch)
    /\ ch' = ClearFlag(ch, ack)
    /\ UNCHANGED <<m_int_enable, cmd_vars, num_params, read_vars, buffer>>

AckMore(ack) ==
    /\ Quiet /\ AckOk(ack)
    /\ Len(ch.fifo) > 1 /\ ~Undelivered(ch)
    /\ ch' = ClearFlag(PopResponse(ch), ack)
    /\ UNCHANGED <<m_int_enable, cmd_vars, num_params, read_vars, buffer>>
    /\ Room

\* Bug: HandlePendingCommand is not called.
AckLastNoPending(ack) ==
    /\ Quiet /\ AckOk(ack)
    /\ Len(ch.fifo) = 1 /\ ~Undelivered(ch)
    /\ ch' = ClearFlag(PopResponse(ch), ack)
    /\ m_idle' = TRUE
    /\ UNCHANGED <<m_int_enable, m_has_next_cmd, m_new_cmd, transmission_busy,
                   num_params, read_vars, buffer>>

AckLast(ack) ==
    /\ Quiet /\ AckOk(ack)
    /\ Len(ch.fifo) = 1 /\ ~Undelivered(ch)
    /\ IF m_has_next_cmd
         THEN /\ CommandExecute(m_new_cmd, PopResponse(ch), ack)
              /\ Room
              /\ transmission_busy' = FALSE
              /\ m_has_next_cmd' = FALSE
              /\ UNCHANGED <<m_int_enable, m_new_cmd, buffer>>
         ELSE /\ ch' = ClearFlag(PopResponse(ch), ack)
              /\ m_idle' = TRUE
              /\ UNCHANGED <<m_int_enable, m_has_next_cmd, m_new_cmd,
                             transmission_busy, num_params, read_vars, buffer>>

\* The guest's exception handler clears the CDROM bit of I_STAT.
ClearIStat ==
    /\ Quiet
    /\ ch.i_stat
    /\ ch' = [ch EXCEPT !.i_stat = FALSE]
    /\ UNCHANGED <<m_int_enable, cmd_vars, num_params, read_vars, buffer>>
-----------------------------------------------------------------------------
(***************************************************************************)
(* The scheduler's side.                                                   *)
(***************************************************************************)

\* An event of s is due; it leaves the scheduler when its callback returns.
Due(s) == s.event = 0 \/ \E i \in DOMAIN s.stray : s.stray[i] = 0
Remove(seq, i) == SubSeq(seq, 1, i - 1) \o SubSeq(seq, i + 1, Len(seq))
WithoutDue(s) ==
    IF s.event = 0 THEN [s EXCEPT !.event = None]
    ELSE [s EXCEPT !.stray = Remove(@, CHOOSE i \in DOMAIN @ : @[i] = 0)]

DeliverInterrupt ==
    /\ Due(ch)
    /\ ch.fifo # <<>>
    /\ ch' = RequestInterrupt(WithoutDue(ch), Head(ch.fifo).interrupt)
    /\ UNCHANGED <<m_int_enable, cmd_vars, num_params, read_vars, buffer>>

\* peek on an empty queue reads slot 0, which holds some earlier response.
DeliverStale ==
    /\ Due(ch)
    /\ ch.fifo = <<>>
    /\ \E interrupt \in {INT1, INT2, INT3, INT5} :
          ch' = RequestInterrupt(WithoutDue(ch), interrupt)
    /\ UNCHANGED <<m_int_enable, cmd_vars, num_params, read_vars, buffer>>

\* Bug: a waiting INT1 does not hold back the next sector.
NoDataResponseWaits == FALSE

DataResponseWaits == \E i \in DOMAIN ch.fifo : ch.fifo[i].interrupt = INT1

\* What is under the head: "xa" goes to the SPU, "filtered" is an audio sector
\* the filter holds back, "data" is announced with INT1, "audio" belongs to an
\* audio track that the mode does not deliver.
SectorKinds == {"xa", "filtered", "data", "audio"}

ReadCallback(kind) ==
    LET Blocked == Len(ch.fifo) = FIFO_SIZE \/ DataResponseWaits
        Deliver == kind = "data" /\ ~Blocked
    IN
    /\ Due(rd)
    /\ seeking' = FALSE
    /\ reading' = TRUE
    /\ m_seek_loc' = IF kind = "audio" \/ (kind \in {"data", "filtered"} /\ Blocked)
                       THEN m_seek_loc ELSE (m_seek_loc + 1) % Sectors
    /\ ch' = IF Deliver THEN PushResponse(ch, INT1, DATA_DELAY, m_seek_loc) ELSE ch
    /\ buffer' = IF Deliver THEN m_seek_loc ELSE buffer
    /\ rd' = ScheduleInterrupt(WithoutDue(rd), ReadTime(double_speed))
    /\ Room
    /\ UNCHANGED <<m_int_enable, cmd_vars, num_params, double_speed, m_read_paused,
                   silence, unprocessed>>

Less(t) == IF t > 0 THEN t - 1 ELSE t
Sooner(response) == [response EXCEPT !.due = Less(@)]
OneCycleLess(s) ==
    [s EXCEPT !.event = Less(s.event),
              !.stray = [i \in DOMAIN s.stray |-> Less(s.stray[i])]]

\* A cycle passes; there is something to wait for.
Tick ==
    /\ Quiet
    /\ ch.event # None \/ rd.event # None \/ ch.stray # <<>> \/ rd.stray # <<>>
    /\ ch' = [OneCycleLess(ch) EXCEPT
                !.fifo = [i \in DOMAIN ch.fifo |-> Sooner(ch.fifo[i])]]
    /\ rd' = OneCycleLess(rd)
    /\ UNCHANGED <<m_int_enable, cmd_vars, num_params, double_speed, reading, seeking,
                   m_read_paused, silence, unprocessed, m_seek_loc, buffer>>
-----------------------------------------------------------------------------
Acknowledge == \E ack \in SUBSET Bits : AckLate(ack) \/ AckMore(ack) \/ AckLast(ack)

Next ==
    \/ \E cmd \in Commands : WriteCommandNow(cmd)
    \/ \E cmd \in Commands : WriteCommandQueued(cmd)
    \/ WriteParam
    \/ \E mask \in IntMasks : WriteIntEnable(mask)
    \/ ResetParams
    \/ \E ack \in SUBSET Bits : AckLate(ack)
    \/ \E ack \in SUBSET Bits : AckMore(ack)
    \/ \E ack \in SUBSET Bits : AckLast(ack)
    \/ ClearIStat
    \/ DeliverInterrupt
    \/ DeliverStale
    \/ \E kind \in SectorKinds : ReadCallback(kind)
    \/ Tick

Spec == Init /\ [][Next]_vars

\* Emulated time passes (RunInterpreter calls Scheduler::Advance after every
\* step), Advance fires what is due, and the guest, which runs between events
\* again and again, acknowledges a flag that stays.
FairSpec ==
    /\ Spec
    /\ WF_vars(Tick)
    /\ WF_vars(DeliverInterrupt \/ DeliverStale)
    /\ WF_vars(\E kind \in SectorKinds : ReadCallback(kind))
    /\ SF_vars(Acknowledge)
-----------------------------------------------------------------------------
(***************************************************************************)
(* Properties of every guest.                                              *)
(***************************************************************************)
Channel == [fifo : Seq(Response), irq : SUBSET Bits, i_stat : BOOLEAN,
            event : Nat \cup {None}, stray : Seq(Nat)]

\* Every variable has its type.
TypeOK ==
    /\ ch \in Channel
    /\ m_int_enable \subseteq Bits
    /\ m_idle \in BOOLEAN
    /\ m_has_next_cmd \in BOOLEAN
    /\ m_new_cmd \in AllCommands
    /\ transmission_busy \in BOOLEAN
    /\ num_params \in 0..PARAM_SIZE
    /\ double_speed \in BOOLEAN
    /\ reading \in BOOLEAN
    /\ seeking \in BOOLEAN
    /\ m_read_paused \in BOOLEAN
    /\ silence \in {"none", "ordered", "early"}
    /\ unprocessed \in SectorNumbers \cup {NoSector}
    /\ m_seek_loc \in SectorNumbers
    /\ rd \in [event : Nat \cup {None}, stray : Seq(Nat)]
    /\ buffer \in SectorNumbers \cup {NoSector}

\* A command is queued only while transmission_busy is shown, so the guest's
\* next write can never meet an occupied m_new_cmd (the DebugBreak at
\* CDDrive.cpp:131), and the drive is busy only while a response waits whose
\* acknowledge will make it idle again.
CommandSlot ==
    /\ m_has_next_cmd = transmission_busy
    /\ m_has_next_cmd => ~m_idle
    /\ ~m_idle => ch.fifo # <<>>

\* The sector that a waiting INT1 announces is still the one in m_curr_sector:
\* the head passes on over later sectors, but no ReadCallback overwrites the
\* buffer before the interrupt has been acknowledged (CDDrive.cpp:665-696).
AnnouncedSectorIntact ==
    \A i \in DOMAIN ch.fifo :
        ch.fifo[i].interrupt = INT1 => ch.fifo[i].sector = buffer

\* The status says "reading" only while a read event is scheduled under
\* m_read_event, so that Pause, Stop and Init find it.
ReadingIsLive == reading => rd.event # None
-----------------------------------------------------------------------------
(***************************************************************************)
(* Properties for a careful guest.                                         *)
(***************************************************************************)

\* "Interrupt requests are performed by function that emulates INT ack., here
\* we request interrupt only if there is nothing else that would do it"
\* (CDDrive.cpp:465-468): a waiting response has its interrupt raised or
\* scheduled.
NoOrphanResponse ==
    ch.fifo # <<>> => ch.irq # {} \/ ch.event # None

\* An acknowledge finds a response to remove: "ACK WHEN FIFO IS EMPTY" and the
\* DebugBreak after it (CDDrive.cpp:501-505) are not reached.
AckFindsResponse == ch.irq # {} => ch.fifo # <<>>

\* The flag the guest sees belongs to the response at the head, which has come
\* due: the bytes it reads are those of the interrupt it handles, and the
\* acknowledge removes that response and no other.
FlagMatchesHead ==
    /\ AckFindsResponse
    /\ ch.irq # {} => ch.irq = Head(ch.fifo).interrupt /\ ~Undelivered(ch)

\* While one interrupt waits for its acknowledge no second one is under way
\* that would overwrite the flag, and none is scheduled for an empty FIFO.
OneInterruptAtATime ==
    /\ ch.irq # {} => ch.event = None
    /\ ch.fifo = <<>> => ch.event = None
    /\ ch.stray = <<>>

\* After a Stop, an Init or a Pause, and until the next read command, the status
\* does not say "reading" and no sector comes in: whatever commands, queued ones
\* too, and callbacks lie between, no read event is left and a stale
\* m_read_paused never makes Pause a no-op (DriveCommands.cpp:103-121, 211-262).
\* The exception is a Pause that comes early, while the head still seeks for
\* ReadN or after SeekL has cleared the reading bit: it answers with INT3 and INT2
\* like any Pause, but by its test of the bit (DriveCommands.cpp:214) the read
\* goes on, and its sectors will be announced.
SilenceOrdered ==
    /\ silence = "ordered" => ~reading /\ rd.event = None /\ rd.stray = <<>>
    /\ silence = "early" => rd.event # None

\* Every response reaches the guest.
ResponseDelivered == ch.fifo # <<>> ~> ch.irq # {}

\* A queued command is executed, also while sectors keep coming in.
QueuedCommandRuns == m_has_next_cmd ~> ~m_has_next_cmd
=============================================================================
