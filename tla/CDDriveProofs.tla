---------------------------- MODULE CDDriveProofs ----------------------------
(***************************************************************************)
(* Proofs about CDDrive, for every FIFO size, every timing and every set   *)
(* of commands.                                                            *)
(***************************************************************************)
EXTENDS CDDrive, TLAPS, SequenceTheorems

\* Facts about the sequences the channel is made of.
LEMMA SeqFacts ==
  ASSUME NEW S, NEW s \in Seq(S), NEW e \in S
  PROVE  /\ Append(s, e) \in Seq(S)
         /\ Append(s, e) # <<>>
         /\ Len(Append(s, e)) = Len(s) + 1
         /\ s # <<>> => Head(Append(s, e)) = Head(s)
         /\ s = <<>> => Head(Append(s, e)) = e
         /\ s # <<>> => Tail(s) \in Seq(S) /\ Head(s) \in S /\ Len(Tail(s)) = Len(s) - 1
         /\ \A i \in 1..Len(s) : Append(s, e)[i] = s[i]
         /\ Append(s, e)[Len(s) + 1] = e
  <1>1. s = <<>> <=> Len(s) = 0
    OBVIOUS
  <1> QED BY <1>1

\* A response is never stored without an interrupt number.
Interrupts == {INT1, INT2, INT3, INT5}

Numbered(c) == \A i \in 1..Len(c.fifo) : c.fifo[i].interrupt # {}

\* The channel between two handlers, for a careful guest: either the head is
\* raised and nothing is scheduled, or nothing is raised and the delivery of the
\* head is scheduled for when it is due or later.
Raised(c) == /\ c.irq = Head(c.fifo).interrupt
             /\ c.event = None
             /\ Head(c.fifo).due = 0
Scheduled(c) == c.event # None /\ Head(c.fifo).due <= c.event

Sound(c) ==
    /\ c.stray = <<>>
    /\ Numbered(c)
    /\ c.fifo = <<>> => c.irq = {} /\ c.event = None
    /\ c.fifo # <<>> => Raised(c) \/ (c.irq = {} /\ Scheduled(c))

\* The channel inside WriteReg3, before the acknowledged bits are cleared.
HalfSound(c) ==
    /\ c.stray = <<>>
    /\ Numbered(c)
    /\ c.fifo = <<>> => c.event = None
    /\ c.fifo # <<>> => Scheduled(c)

LEMMA IntsOk == \A x \in Interrupts : x # {} /\ x \in SUBSET Bits
  BY DEF Interrupts, INT1, INT2, INT3, INT5, Bits

\* The new response of PushResponse.
LEMMA ResponseType ==
  ASSUME NEW x \in Interrupts, NEW d \in Nat, NEW n \in SectorNumbers \cup {NoSector}
  PROVE  [interrupt |-> x, due |-> d, sector |-> n] \in Response
  BY IntsOk DEF Response

LEMMA ScheduleType ==
  ASSUME NEW c \in Channel, NEW t \in Nat
  PROVE  ScheduleInterrupt(c, t) \in Channel
  <1>1. c.event # None => Append(c.stray, c.event) \in Seq(Nat)
    BY DEF Channel
  <1> QED BY <1>1 DEF ScheduleInterrupt, Channel

LEMMA RequestType ==
  ASSUME NEW c \in Channel, NEW x \in SUBSET Bits
  PROVE  RequestInterrupt(c, x) \in Channel
  <1>1. (c.i_stat \/ m_int_enable \cap x # {}) \in BOOLEAN
    BY Zenon DEF Channel
  <1> QED BY <1>1 DEF RequestInterrupt, Channel

LEMMA PushType ==
  ASSUME NEW c \in Channel, NEW x \in Interrupts, NEW d \in Nat,
         NEW n \in SectorNumbers \cup {NoSector}
  PROVE  PushResponse(c, x, d, n) \in Channel
  <1> DEFINE q == [c EXCEPT !.fifo =
                     Append(@, [interrupt |-> x, due |-> d, sector |-> n])]
  <1>1. q \in Channel
    BY ResponseType, SeqFacts DEF Channel
  <1>2. RequestInterrupt(q, x) \in Channel /\ ScheduleInterrupt(q, d) \in Channel
    BY <1>1, IntsOk, RequestType, ScheduleType
  <1> QED BY <1>1, <1>2 DEF PushResponse
-----------------------------------------------------------------------------
(***************************************************************************)
(* What the channel operators do to the FIFO.                              *)
(***************************************************************************)

\* Everything in the FIFO of d that is not at the same place in the FIFO of c
\* announces no sector.
NoNewData(c, d) ==
    \A i \in 1..Len(d.fifo) : \/ i <= Len(c.fifo) /\ d.fifo[i] = c.fifo[i]
                              \/ d.fifo[i].interrupt # INT1

LEMMA PushFifo ==
  ASSUME NEW c \in Channel, NEW x, NEW d, NEW n
  PROVE  PushResponse(c, x, d, n).fifo =
           IF Len(c.fifo) = FIFO_SIZE THEN c.fifo
           ELSE Append(c.fifo, [interrupt |-> x, due |-> d, sector |-> n])
  BY DEF PushResponse, RequestInterrupt, ScheduleInterrupt, Channel

LEMMA RespondFacts ==
  ASSUME NEW c \in Channel, NEW x \in Interrupts, NEW d \in Nat, x # INT1
  PROVE  /\ Respond(c, x, d) \in Channel
         /\ Respond(c, x, d).fifo # <<>>
         /\ NoNewData(c, Respond(c, x, d))
         /\ Len(c.fifo) <= Len(Respond(c, x, d).fifo)
  <1> DEFINE r == [interrupt |-> x, due |-> d, sector |-> NoSector]
  <1>1. Respond(c, x, d) \in Channel
    BY PushType DEF Respond
  <1>2. Respond(c, x, d).fifo = IF Len(c.fifo) = FIFO_SIZE THEN c.fifo ELSE Append(c.fifo, r)
    BY PushFifo DEF Respond
  <1>3. c.fifo \in Seq(Response) /\ r \in Response
    BY ResponseType DEF Channel
  <1>4. CASE Len(c.fifo) = FIFO_SIZE
    BY <1>1, <1>2, <1>3, <1>4, CDDriveAssumption DEF NoNewData
  <1>5. CASE Len(c.fifo) # FIFO_SIZE
    <2> DEFINE s == Append(c.fifo, r)
    <2>1. /\ s # <<>> /\ Len(s) = Len(c.fifo) + 1 /\ s[Len(c.fifo) + 1] = r
          /\ \A i \in 1..Len(c.fifo) : s[i] = c.fifo[i]
      BY <1>3, SeqFacts
    <2>2. r.interrupt # INT1
      OBVIOUS
    <2>3. Len(c.fifo) \in Nat
      BY <1>3
    <2> HIDE DEF r, s
    <2>4. Respond(c, x, d).fifo = s
      BY <1>2, <1>5 DEF s, r
    <2> QED BY <1>1, <2>1, <2>2, <2>3, <2>4 DEF NoNewData
  <1> QED BY <1>4, <1>5

LEMMA NoNewDataTrans ==
  ASSUME NEW c \in Channel, NEW d \in Channel, NEW e \in Channel,
         NoNewData(c, d), NoNewData(d, e)
  PROVE  NoNewData(c, e)
  <1>1. Len(c.fifo) \in Nat /\ Len(d.fifo) \in Nat /\ Len(e.fifo) \in Nat
    BY DEF Channel
  <1>2. ASSUME NEW i \in 1..Len(e.fifo), e.fifo[i].interrupt = INT1
        PROVE  i <= Len(c.fifo) /\ e.fifo[i] = c.fifo[i]
    <2>1. i \in 1..Len(d.fifo) /\ e.fifo[i] = d.fifo[i]
      BY <1>1, <1>2 DEF NoNewData
    <2> QED BY <1>1, <1>2, <2>1 DEF NoNewData
  <1> QED BY <1>2 DEF NoNewData

LEMMA Delays ==
  /\ GETSTAT_NORMAL * 2 \in Nat \ {0}
  /\ GETSTAT_NORMAL + PAUSE_PAUSED \in Nat \ {0}
  /\ PAUSE \div 2 \in Nat
  /\ \A b \in BOOLEAN : ReadTime(b) \in Nat /\ ReadTime(b) \div 2 \in Nat
  BY CDDriveAssumption DEF ReadTime

\* What a command answers: one response, or a second one with INT2 or INT5.
LEMMA AnswerCases ==
  ASSUME NEW c \in Channel, NEW cmd \in AllCommands
  PROVE  LET first == Respond(c, INT3, FirstDelay(cmd)) IN
         \/ Answer(c, cmd) = first
         \/ \E x \in {INT2, INT5}, d \in Nat : Answer(c, cmd) = Respond(first, x, d)
  <1> DEFINE first == Respond(c, INT3, FirstDelay(cmd))
  <1> HIDE DEF first
  <1>1. CASE cmd = "GetID"
    BY <1>1, CDDriveAssumption DEF Answer, first
  <1>2. CASE cmd = "Stop"
    BY <1>2, CDDriveAssumption DEF Answer, first
  <1>3. CASE cmd = "ReadTOC"
    BY <1>3, CDDriveAssumption DEF Answer, first
  <1>4. CASE cmd \in {"SeekL", "Init"}
    BY <1>4, Delays DEF Answer, first
  <1>5. CASE cmd = "Pause"
    BY <1>5, Delays, CDDriveAssumption DEF Answer, first
  <1>6. CASE cmd \notin {"GetID", "Stop", "ReadTOC", "SeekL", "Init", "Pause"}
    BY <1>6 DEF Answer, first
  <1> QED BY <1>1, <1>2, <1>3, <1>4, <1>5, <1>6

\* A command leaves at least one response and announces no sector.
LEMMA AnswerFacts ==
  ASSUME NEW c \in Channel, NEW cmd \in AllCommands
  PROVE  /\ Answer(c, cmd) \in Channel
         /\ Answer(c, cmd).fifo # <<>>
         /\ NoNewData(c, Answer(c, cmd))
  <1> DEFINE first == Respond(c, INT3, FirstDelay(cmd))
  <1>1. \A x \in {INT2, INT3, INT5} : x \in Interrupts /\ x # INT1
    BY DEF Interrupts, INT1, INT2, INT3, INT5
  <1>2. FirstDelay(cmd) \in Nat
    BY CDDriveAssumption DEF FirstDelay
  <1>3. first \in Channel /\ first.fifo # <<>> /\ NoNewData(c, first)
    BY <1>1, <1>2, RespondFacts
  <1> HIDE DEF first
  <1>4. ASSUME NEW x \in {INT2, INT5}, NEW d \in Nat
        PROVE  /\ Respond(first, x, d) \in Channel
               /\ Respond(first, x, d).fifo # <<>>
               /\ NoNewData(c, Respond(first, x, d))
    <2>1. /\ Respond(first, x, d) \in Channel
          /\ Respond(first, x, d).fifo # <<>>
          /\ NoNewData(first, Respond(first, x, d))
      BY <1>1, <1>3, RespondFacts
    <2> QED BY <1>3, <2>1, NoNewDataTrans
  <1>5. \/ Answer(c, cmd) = first
        \/ \E x \in {INT2, INT5}, d \in Nat : Answer(c, cmd) = Respond(first, x, d)
    BY AnswerCases DEF first
  <1> QED BY <1>3, <1>4, <1>5

LEMMA DescheduleFacts ==
  ASSUME NEW c \in Channel
  PROVE  /\ Deschedule(c) \in Channel
         /\ Deschedule(c).fifo = c.fifo /\ Deschedule(c).irq = c.irq
         /\ Deschedule(c).stray = c.stray /\ Deschedule(c).event = None
  BY DEF Deschedule, Channel

LEMMA ClearFlagFacts ==
  ASSUME NEW c \in Channel, NEW ack
  PROVE  /\ ClearFlag(c, ack) \in Channel
         /\ ClearFlag(c, ack).fifo = c.fifo /\ ClearFlag(c, ack).irq = c.irq \ ack
         /\ ClearFlag(c, ack).stray = c.stray /\ ClearFlag(c, ack).event = c.event
  BY DEF ClearFlag, Channel

LEMMA PopFacts ==
  ASSUME NEW c \in Channel, c.fifo # <<>>
  PROVE  /\ PopResponse(c) \in Channel
         /\ PopResponse(c).fifo = Tail(c.fifo)
         /\ PopResponse(c).irq = c.irq
  <1> DEFINE rest == [c EXCEPT !.fifo = Tail(@)]
  <1>1. Tail(c.fifo) \in Seq(Response)
    BY DEF Channel
  <1>2. rest \in Channel
    BY <1>1 DEF Channel
  <1>3. rest.fifo # <<>> => Head(rest.fifo).due \in Nat
    <2>1. rest.fifo \in Seq(Response)
      BY <1>2 DEF Channel
    <2>2. rest.fifo # <<>> => Head(rest.fifo) \in Response
      BY <2>1
    <2> QED BY <2>2 DEF Response
  <1>4. rest.fifo = Tail(c.fifo) /\ rest.irq = c.irq
    BY DEF Channel
  <1> HIDE DEF rest
  <1>5. \A t \in Nat : ScheduleInterrupt(rest, t) \in Channel
    BY <1>2, ScheduleType
  <1>6. \A t : ScheduleInterrupt(rest, t).fifo = rest.fifo
               /\ ScheduleInterrupt(rest, t).irq = rest.irq
    BY <1>2 DEF ScheduleInterrupt, Channel
  <1>7. PopResponse(c) = IF rest.fifo = <<>> THEN rest
                         ELSE ScheduleInterrupt(rest, IF Head(rest.fifo).due = 0 THEN INT_DELAY
                                                      ELSE Head(rest.fifo).due)
    BY DEF PopResponse, rest
  <1> QED BY <1>2, <1>3, <1>4, <1>5, <1>6, <1>7, CDDriveAssumption
-----------------------------------------------------------------------------
(***************************************************************************)
(* Every guest: the type invariant, the command slot, the announced sector *)
(* and the reading bit.                                                    *)
(***************************************************************************)
ReadEvents == [event : Nat \cup {None}, stray : Seq(Nat)]

ReadTypeOK ==
    /\ double_speed \in BOOLEAN
    /\ reading \in BOOLEAN
    /\ seeking \in BOOLEAN
    /\ m_read_paused \in BOOLEAN
    /\ silence \in {"none", "ordered", "early"}
    /\ unprocessed \in SectorNumbers \cup {NoSector}
    /\ m_seek_loc \in SectorNumbers
    /\ rd \in ReadEvents

LEMMA ReadEventFacts ==
  ASSUME NEW r \in ReadEvents, NEW t \in Nat
  PROVE  /\ ScheduleInterrupt(r, t) \in ReadEvents
         /\ ScheduleInterrupt(r, t).event = t
         /\ Deschedule(r) \in ReadEvents
         /\ Deschedule(r).event = None /\ Deschedule(r).stray = r.stray
  <1>1. r.event # None => Append(r.stray, r.event) \in Seq(Nat)
    BY DEF ReadEvents
  <1> QED BY <1>1 DEF ScheduleInterrupt, Deschedule, ReadEvents

\* What a command does to the reading side keeps its type and ReadingIsLive.
LEMMA ReadSideFacts ==
  ASSUME ReadTypeOK, ReadingIsLive, NEW cmd \in AllCommands, ReadSide(cmd)
  PROVE  ReadTypeOK' /\ ReadingIsLive'
  <1>0. 0 \in SectorNumbers
    BY CDDriveAssumption DEF SectorNumbers
  <1>1. ASSUME NEW t \in Nat, StartRead(t) PROVE ReadTypeOK' /\ ReadingIsLive'
    <2>1. rd' \in ReadEvents /\ rd'.event = t
      BY <1>1, ReadEventFacts DEF StartRead, ReadTypeOK
    <2>2. m_read_paused' \in BOOLEAN /\ seeking' \in BOOLEAN /\ reading' \in BOOLEAN
      BY <1>1, Zenon DEF StartRead
    <2>3. /\ m_seek_loc' \in SectorNumbers
          /\ unprocessed' \in SectorNumbers \cup {NoSector}
          /\ double_speed' = double_speed
      BY <1>1 DEF StartRead, ReadTypeOK
    <2>4. rd'.event # None
      BY <2>1 DEF None
    <2>5. silence' = "none"
      BY <1>1 DEF StartRead
    <2> QED BY <2>1, <2>2, <2>3, <2>4, <2>5 DEF ReadTypeOK, ReadingIsLive
  <1>2. CASE cmd = "ReadN"
    <2>1. StartRead(ReadTime(double_speed) \div 2)
      BY <1>2 DEF ReadSide
    <2> QED BY <1>1, <2>1, Delays DEF ReadTypeOK
  <1>3. CASE cmd = "ReadS"
    <2>1. StartRead(ReadTime(double_speed))
      BY <1>3 DEF ReadSide
    <2> QED BY <1>1, <2>1, Delays DEF ReadTypeOK
  <1>4. CASE cmd = "Stop"
    <2>1. Command_Stop
      BY <1>4 DEF ReadSide
    <2>2. rd' \in ReadEvents
      BY <2>1, ReadEventFacts DEF Command_Stop, ReadTypeOK
    <2>3. reading' \in BOOLEAN /\ m_read_paused' \in BOOLEAN
      BY <2>1, Zenon DEF Command_Stop
    <2> QED BY <1>0, <2>1, <2>2, <2>3 DEF Command_Stop, EndRead, ReadTypeOK, ReadingIsLive
  <1>5. CASE cmd = "SeekL"
    <2>1. Command_SeekL
      BY <1>5 DEF ReadSide
    <2>2. reading' \in BOOLEAN /\ seeking' \in BOOLEAN
      BY <2>1, Zenon DEF Command_SeekL
    <2> QED BY <2>1, <2>2 DEF Command_SeekL, ReadTypeOK, ReadingIsLive
  <1>6. CASE cmd = "Pause"
    <2>1. Command_Pause
      BY <1>6 DEF ReadSide
    <2>2. CASE m_read_paused \/ ~reading
      BY <2>1, <2>2 DEF Command_Pause, PauseRead, ReadTypeOK, ReadingIsLive
    <2>3. CASE ~(m_read_paused \/ ~reading)
      <3>1. rd' = Deschedule(rd) /\ m_read_paused' = TRUE /\ reading' = FALSE
        BY <2>1, <2>3 DEF Command_Pause
      <3>2. rd' \in ReadEvents
        BY <3>1, ReadEventFacts DEF ReadTypeOK
      <3>3. reading' \in BOOLEAN /\ m_read_paused' \in BOOLEAN
        BY <3>1, Zenon
      <3> QED BY <2>1, <3>1, <3>2, <3>3 DEF Command_Pause, PauseRead, ReadTypeOK, ReadingIsLive
    <2> QED BY <2>2, <2>3
  <1>7. CASE cmd = "Init"
    <2>1. Command_Init
      BY <1>7 DEF ReadSide
    <2>2. rd' \in ReadEvents
      BY <2>1, ReadEventFacts DEF Command_Init, ReadTypeOK
    <2>3. reading' \in BOOLEAN /\ m_read_paused' \in BOOLEAN /\ seeking' \in BOOLEAN
      BY <2>1, Zenon DEF Command_Init
    <2> QED BY <2>1, <2>2, <2>3 DEF Command_Init, EndRead, ReadTypeOK, ReadingIsLive
  <1>8. CASE cmd = "SetLoc"
    BY <1>8 DEF ReadSide, ReadTypeOK, ReadingIsLive
  <1>9. CASE cmd = "Setmode"
    BY <1>9 DEF ReadSide, ReadTypeOK, ReadingIsLive
  <1>10. CASE cmd \notin {"ReadN", "ReadS", "Stop", "SeekL", "Pause", "Init", "SetLoc",
                          "Setmode"}
    <2>1. UNCHANGED read_vars
      BY <1>10 DEF ReadSide
    <2> QED BY <2>1 DEF read_vars, ReadTypeOK, ReadingIsLive
  <1> QED BY <1>2, <1>3, <1>4, <1>5, <1>6, <1>7, <1>8, <1>9, <1>10

\* A command leaves a response in the FIFO and announces no sector.
LEMMA ExecuteFacts ==
  ASSUME TypeOK, ReadingIsLive, NEW cmd \in AllCommands, NEW c \in Channel, NEW ack,
         CommandExecute(cmd, c, ack)
  PROVE  /\ ch' \in Channel /\ ch'.fifo # <<>> /\ NoNewData(c, ch')
         /\ num_params' \in 0..PARAM_SIZE
         /\ m_idle' \in BOOLEAN
         /\ ReadTypeOK' /\ ReadingIsLive'
  <1>0. ReadTypeOK
    BY DEF TypeOK, ReadTypeOK, ReadEvents
  <1>1. CASE ParamsValid(cmd)
    <2> DEFINE d == IF cmd = "Init" THEN Deschedule(c) ELSE c
    <2>1. d \in Channel /\ d.fifo = c.fifo
      BY DescheduleFacts
    <2>2. /\ Answer(d, cmd) \in Channel
          /\ Answer(d, cmd).fifo # <<>>
          /\ NoNewData(d, Answer(d, cmd))
      BY <2>1, AnswerFacts
    <2>3. /\ ch' = ClearFlag(Answer(d, cmd), ack)
          /\ num_params' = IF Params(cmd) # 0 THEN 0 ELSE num_params
          /\ m_idle' = (cmd = "Test")
          /\ ReadSide(cmd)
      BY <1>1 DEF CommandExecute
    <2> HIDE DEF d
    <2>4. ch' \in Channel /\ ch'.fifo = Answer(d, cmd).fifo
      BY <2>2, <2>3, ClearFlagFacts
    <2>5. NoNewData(c, ch')
      BY <2>1, <2>2, <2>4 DEF NoNewData
    <2>6. m_idle' \in BOOLEAN
      BY <2>3, Zenon
    <2>7. num_params' \in 0..PARAM_SIZE
      BY <2>3, CDDriveAssumption DEF TypeOK
    <2> QED BY <1>0, <2>2, <2>3, <2>4, <2>5, <2>6, <2>7, ReadSideFacts
  <1>2. CASE ~ParamsValid(cmd)
    <2>1. /\ ch' = ClearFlag(Respond(c, INT5, 0), ack)
          /\ m_idle' = FALSE
          /\ UNCHANGED <<num_params, read_vars>>
      BY <1>2 DEF CommandExecute
    <2>2. INT5 \in Interrupts /\ INT5 # INT1
      BY DEF Interrupts, INT5, INT1
    <2>3. /\ Respond(c, INT5, 0) \in Channel
          /\ Respond(c, INT5, 0).fifo # <<>>
          /\ NoNewData(c, Respond(c, INT5, 0))
      BY <2>2, RespondFacts
    <2>4. ch' \in Channel /\ ch'.fifo = Respond(c, INT5, 0).fifo
      BY <2>1, <2>3, ClearFlagFacts
    <2>5. NoNewData(c, ch')
      BY <2>3, <2>4 DEF NoNewData
    <2>6. m_idle' \in BOOLEAN
      BY <2>1, Zenon
    <2>7. ReadTypeOK' /\ ReadingIsLive'
      BY <1>0, <2>1 DEF read_vars, ReadTypeOK, ReadingIsLive
    <2> QED BY <2>1, <2>3, <2>4, <2>5, <2>6, <2>7 DEF TypeOK
  <1> QED BY <1>1, <1>2

AnyInv == TypeOK /\ CommandSlot /\ AnnouncedSectorIntact /\ ReadingIsLive

\* The type invariant, split along the lemmas above.
LEMMA TypeParts ==
  TypeOK <=> /\ ch \in Channel
             /\ m_int_enable \subseteq Bits
             /\ m_idle \in BOOLEAN
             /\ m_has_next_cmd \in BOOLEAN
             /\ m_new_cmd \in AllCommands
             /\ transmission_busy \in BOOLEAN
             /\ num_params \in 0..PARAM_SIZE
             /\ ReadTypeOK
             /\ buffer \in SectorNumbers \cup {NoSector}
  BY DEF TypeOK, ReadTypeOK, ReadEvents

LEMMA InitAnyInv == Init => AnyInv
  <1> SUFFICES ASSUME Init PROVE AnyInv
    OBVIOUS
  <1>1. ch \in Channel
    <2>1. FALSE \in BOOLEAN
      BY Zenon
    <2>2. <<>> \in Seq(Response) /\ <<>> \in Seq(Nat)
      OBVIOUS
    <2> QED BY <2>1, <2>2 DEF Init, Channel, None
  <1>2. /\ m_idle \in BOOLEAN /\ m_has_next_cmd \in BOOLEAN
        /\ transmission_busy \in BOOLEAN /\ double_speed \in BOOLEAN
        /\ reading \in BOOLEAN /\ seeking \in BOOLEAN /\ m_read_paused \in BOOLEAN
    BY Zenon DEF Init
  <1>3. rd \in ReadEvents
    BY DEF Init, ReadEvents, None
  <1>4. TypeOK
    BY <1>1, <1>2, <1>3, CDDriveAssumption, TypeParts
    DEF Init, ReadTypeOK, AllCommands, SectorNumbers
  <1>5. CommandSlot
    BY Zenon DEF Init, CommandSlot
  <1>6. AnnouncedSectorIntact /\ ReadingIsLive
    BY DEF Init, AnnouncedSectorIntact, ReadingIsLive
  <1> QED BY <1>4, <1>5, <1>6 DEF AnyInv

\* A FIFO with no new announcement keeps the announced sector.
LEMMA IntactWithoutNewData ==
  ASSUME NEW c \in Channel, ch' \in Channel, NoNewData(c, ch'),
         \A i \in 1..Len(c.fifo) : c.fifo[i].interrupt = INT1 => c.fifo[i].sector = buffer,
         buffer' = buffer
  PROVE  AnnouncedSectorIntact'
  <1>1. c.fifo \in Seq(Response) /\ ch'.fifo \in Seq(Response)
    BY DEF Channel
  <1>2. DOMAIN ch'.fifo = 1..Len(ch'.fifo) /\ Len(c.fifo) \in Nat
    BY <1>1
  <1> QED BY <1>2 DEF NoNewData, AnnouncedSectorIntact

LEMMA WithoutDueFacts ==
  /\ \A c \in Channel : Due(c) => WithoutDue(c) \in Channel /\ WithoutDue(c).fifo = c.fifo
  /\ \A r \in ReadEvents : Due(r) => WithoutDue(r) \in ReadEvents
  <1>1. ASSUME NEW s \in Seq(Nat), NEW i \in DOMAIN s
        PROVE  Remove(s, i) \in Seq(Nat)
    <2>1. SubSeq(s, 1, i - 1) \in Seq(Nat) /\ SubSeq(s, i + 1, Len(s)) \in Seq(Nat)
      BY SMTT(30)
    <2> QED BY <2>1 DEF Remove
  <1>2. ASSUME NEW c \in Channel, Due(c)
        PROVE  WithoutDue(c) \in Channel /\ WithoutDue(c).fifo = c.fifo
    <2>1. CASE c.event = 0
      BY <2>1 DEF WithoutDue, Channel, None
    <2>2. CASE c.event # 0
      <3> DEFINE i == CHOOSE i \in DOMAIN c.stray : c.stray[i] = 0
      <3>1. i \in DOMAIN c.stray
        BY <1>2, <2>2 DEF Due
      <3>2. c.stray \in Seq(Nat)
        BY DEF Channel
      <3> HIDE DEF i
      <3>3. Remove(c.stray, i) \in Seq(Nat)
        BY <1>1, <3>1, <3>2
      <3>4. WithoutDue(c) = [c EXCEPT !.stray = Remove(c.stray, i)]
        BY <2>2 DEF WithoutDue, i
      <3> QED BY <3>3, <3>4 DEF Channel
    <2> QED BY <2>1, <2>2
  <1>3. ASSUME NEW r \in ReadEvents, Due(r)
        PROVE  WithoutDue(r) \in ReadEvents
    <2>1. CASE r.event = 0
      BY <2>1 DEF WithoutDue, ReadEvents, None
    <2>2. CASE r.event # 0
      <3> DEFINE i == CHOOSE i \in DOMAIN r.stray : r.stray[i] = 0
      <3>1. i \in DOMAIN r.stray
        BY <1>3, <2>2 DEF Due
      <3>2. r.stray \in Seq(Nat)
        BY DEF ReadEvents
      <3> HIDE DEF i
      <3>3. Remove(r.stray, i) \in Seq(Nat)
        BY <1>1, <3>1, <3>2
      <3>4. WithoutDue(r) = [r EXCEPT !.stray = Remove(r.stray, i)]
        BY <2>2 DEF WithoutDue, i
      <3> QED BY <3>3, <3>4 DEF ReadEvents
    <2> QED BY <2>1, <2>2
  <1> QED BY <1>2, <1>3

\* A cycle less leaves the shape of the channel and of the read events alone.
Elapsed == [OneCycleLess(ch) EXCEPT
              !.fifo = [i \in DOMAIN ch.fifo |-> Sooner(ch.fifo[i])]]

LEMMA LessNat == /\ \A t \in Nat : Less(t) \in Nat
                 /\ \A t \in Nat \cup {None} : Less(t) \in Nat \cup {None}
                 /\ \A t \in Nat \cup {None} : Less(t) = None <=> t = None
  BY DEF Less, None

LEMMA FunctionIsSeq ==
  ASSUME NEW S, NEW n \in Nat, NEW f \in [1..n -> S]
  PROVE  f \in Seq(S) /\ Len(f) = n
  <1>1. f \in Seq(S)
    BY SeqDef
  <1> QED BY <1>1

LEMMA ElapsedFacts ==
  ASSUME ch \in Channel, rd \in ReadEvents
  PROVE  /\ Elapsed \in Channel
         /\ Len(Elapsed.fifo) = Len(ch.fifo)
         /\ \A i \in 1..Len(ch.fifo) :
               /\ Elapsed.fifo[i].interrupt = ch.fifo[i].interrupt
               /\ Elapsed.fifo[i].sector = ch.fifo[i].sector
               /\ Elapsed.fifo[i].due = Less(ch.fifo[i].due)
         /\ Elapsed.irq = ch.irq
         /\ Elapsed.event = Less(ch.event)
         /\ Elapsed.stray = [i \in DOMAIN ch.stray |-> Less(ch.stray[i])]
         /\ OneCycleLess(rd) \in ReadEvents
         /\ OneCycleLess(rd).event = Less(rd.event)
         /\ OneCycleLess(rd).stray = [i \in DOMAIN rd.stray |-> Less(rd.stray[i])]
  <1> DEFINE f == [i \in DOMAIN ch.fifo |-> Sooner(ch.fifo[i])]
             g == [i \in DOMAIN ch.stray |-> Less(ch.stray[i])]
             h == [i \in DOMAIN rd.stray |-> Less(rd.stray[i])]
  <1>1. ch.fifo \in Seq(Response) /\ ch.stray \in Seq(Nat) /\ rd.stray \in Seq(Nat)
    BY DEF Channel, ReadEvents
  <1>2. /\ DOMAIN ch.fifo = 1..Len(ch.fifo) /\ DOMAIN ch.stray = 1..Len(ch.stray)
        /\ DOMAIN rd.stray = 1..Len(rd.stray)
        /\ Len(ch.fifo) \in Nat /\ Len(ch.stray) \in Nat /\ Len(rd.stray) \in Nat
    BY <1>1
  <1>3. \A i \in 1..Len(ch.fifo) : ch.fifo[i] \in Response
    BY <1>1, <1>2
  <1>4. \A i \in 1..Len(ch.fifo) :
           /\ f[i] \in Response
           /\ f[i].interrupt = ch.fifo[i].interrupt
           /\ f[i].sector = ch.fifo[i].sector
           /\ f[i].due = Less(ch.fifo[i].due)
    BY <1>2, <1>3, LessNat DEF Response, Sooner
  <1>5. f \in Seq(Response) /\ Len(f) = Len(ch.fifo)
    <2>1. f \in [1..Len(ch.fifo) -> Response]
      BY <1>2, <1>4
    <2> QED BY <1>2, <2>1, FunctionIsSeq
  <1>6. g \in Seq(Nat) /\ h \in Seq(Nat)
    <2>1. g \in [1..Len(ch.stray) -> Nat] /\ h \in [1..Len(rd.stray) -> Nat]
      <3>1. /\ \A i \in 1..Len(ch.stray) : Less(ch.stray[i]) \in Nat
            /\ \A i \in 1..Len(rd.stray) : Less(rd.stray[i]) \in Nat
        <4>1. /\ \A i \in 1..Len(ch.stray) : ch.stray[i] \in Nat
              /\ \A i \in 1..Len(rd.stray) : rd.stray[i] \in Nat
          BY <1>1, SMTT(30)
        <4> QED BY <4>1, LessNat
      <3> QED BY <1>2, <3>1
    <2> QED BY <1>2, <2>1, FunctionIsSeq
  <1>7. Elapsed = [ch EXCEPT !.event = Less(ch.event), !.stray = g, !.fifo = f]
    <2>1. OneCycleLess(ch) = [ch EXCEPT !.event = Less(ch.event), !.stray = g]
      BY DEF OneCycleLess
    <2>2. OneCycleLess(ch).fifo = ch.fifo
      BY <2>1 DEF Channel
    <2>3. Elapsed = [OneCycleLess(ch) EXCEPT !.fifo = f]
      BY <2>2 DEF Elapsed
    <2> HIDE DEF f, g
    <2> QED BY <2>1, <2>3
  <1>8. OneCycleLess(rd) = [rd EXCEPT !.event = Less(rd.event), !.stray = h]
    BY DEF OneCycleLess
  <1>9. Less(ch.event) \in Nat \cup {None} /\ Less(rd.event) \in Nat \cup {None}
    BY LessNat DEF Channel, ReadEvents
  <1> HIDE DEF f, g, h
  <1>10. /\ Elapsed \in Channel /\ Elapsed.fifo = f /\ Elapsed.irq = ch.irq
         /\ Elapsed.event = Less(ch.event) /\ Elapsed.stray = g
    BY <1>5, <1>6, <1>7, <1>9 DEF Channel
  <1>11. OneCycleLess(rd) \in ReadEvents /\ OneCycleLess(rd).event = Less(rd.event)
         /\ OneCycleLess(rd).stray = h
    BY <1>6, <1>8, <1>9 DEF ReadEvents
  <1> QED BY <1>4, <1>5, <1>10, <1>11 DEF g, h

\* A step that leaves the FIFO, the command slot and the reading side alone.
LEMMA QuietStep ==
  ASSUME AnyInv, ch' \in Channel, ch'.fifo = ch.fifo, m_int_enable' \subseteq Bits,
         UNCHANGED <<cmd_vars, read_vars, buffer>>, num_params' \in 0..PARAM_SIZE
  PROVE  AnyInv'
  <1>1. TypeOK'
    BY DEF TypeOK, AnyInv, cmd_vars, read_vars, ReadTypeOK
  <1>2. CommandSlot'
    BY DEF AnyInv, CommandSlot, cmd_vars
  <1>3. AnnouncedSectorIntact'
    BY DEF AnyInv, AnnouncedSectorIntact
  <1>4. ReadingIsLive'
    BY DEF AnyInv, ReadingIsLive, read_vars
  <1> QED BY <1>1, <1>2, <1>3, <1>4 DEF AnyInv

LEMMA AnyWriteCommandNow ==
  ASSUME AnyInv, NEW cmd \in Commands, WriteCommandNow(cmd)
  PROVE  AnyInv'
  <1>1. cmd \in AllCommands
    BY CDDriveAssumption
  <1>2. ch \in Channel /\ TypeOK /\ ReadingIsLive
    BY TypeParts DEF AnyInv
  <1>3. CommandExecute(cmd, ch, {})
    BY DEF WriteCommandNow
  <1>4. /\ ch' \in Channel /\ ch'.fifo # <<>> /\ NoNewData(ch, ch')
        /\ num_params' \in 0..PARAM_SIZE
        /\ m_idle' \in BOOLEAN
        /\ ReadTypeOK' /\ ReadingIsLive'
    BY <1>1, <1>2, <1>3, ExecuteFacts
  <1>5. transmission_busy' = FALSE /\ transmission_busy' \in BOOLEAN
    BY Zenon DEF WriteCommandNow
  <1>6. /\ m_has_next_cmd' = m_has_next_cmd /\ m_new_cmd' = m_new_cmd /\ buffer' = buffer
        /\ m_int_enable' = m_int_enable
    BY DEF WriteCommandNow
  <1>7. TypeOK'
    BY <1>4, <1>5, <1>6 DEF AnyInv, TypeOK, ReadEvents, ReadTypeOK
  <1>8. CommandSlot'
    <2>1. transmission_busy = FALSE /\ m_has_next_cmd = transmission_busy
      BY <1>2 DEF WriteCommandNow, AnyInv, CommandSlot, TypeOK
    <2> QED BY <1>4, <1>5, <1>6, <2>1 DEF CommandSlot
  <1>9. AnnouncedSectorIntact'
    <2>1. DOMAIN ch.fifo = 1..Len(ch.fifo)
      BY <1>2 DEF Channel
    <2> QED BY <1>2, <1>4, <1>6, <2>1, IntactWithoutNewData DEF AnyInv, AnnouncedSectorIntact
  <1> QED BY <1>4, <1>7, <1>8, <1>9 DEF AnyInv

LEMMA TailOfTwo ==
  ASSUME NEW S, NEW s \in Seq(S), Len(s) > 1
  PROVE  s # <<>> /\ Tail(s) # <<>>
  <1>1. s # <<>> /\ Len(s) \in Nat
    BY EmptySeq
  <1>2. DEFINE n == Len(s)
               m == Len(Tail(s))
  <1>3. m = n - 1
    BY <1>1, HeadTailProperties
  <1>4. n \in Nat /\ n > 1
    BY <1>1
  <1>5. Tail(s) = <<>> => m = 0
    BY EmptySeq
  <1> HIDE DEF n, m
  <1> QED BY <1>1, <1>3, <1>4, <1>5

LEMMA AnyAckMore ==
  ASSUME AnyInv, NEW ack \in SUBSET Bits, AckMore(ack)
  PROVE  AnyInv'
  <1>1. ch \in Channel /\ ch.fifo \in Seq(Response) /\ Len(ch.fifo) > 1
    BY TypeParts DEF AnyInv, AckMore, Channel
  <1>2. ch.fifo # <<>> /\ Tail(ch.fifo) # <<>>
    BY <1>1, TailOfTwo
  <1>3. PopResponse(ch) \in Channel /\ PopResponse(ch).fifo = Tail(ch.fifo)
    BY <1>1, <1>2, PopFacts
  <1>4. ch' \in Channel /\ ch'.fifo = Tail(ch.fifo)
    BY <1>3, ClearFlagFacts DEF AckMore
  <1>5. UNCHANGED <<m_int_enable, cmd_vars, num_params, read_vars, buffer>>
    BY DEF AckMore
  <1>6. TypeOK'
    BY <1>4, <1>5 DEF AnyInv, TypeOK, ReadEvents, ReadTypeOK, cmd_vars, read_vars
  <1>7. CommandSlot'
    BY <1>2, <1>4, <1>5 DEF AnyInv, CommandSlot, cmd_vars
  <1>8. AnnouncedSectorIntact'
    <2>1. \A i \in DOMAIN Tail(ch.fifo) : i + 1 \in DOMAIN ch.fifo
                                          /\ Tail(ch.fifo)[i] = ch.fifo[i + 1]
      BY <1>1, <1>2
    <2> QED BY <1>4, <1>5, <2>1 DEF AnyInv, AnnouncedSectorIntact
  <1>9. ReadingIsLive'
    BY <1>5 DEF AnyInv, ReadingIsLive, read_vars
  <1> QED BY <1>6, <1>7, <1>8, <1>9 DEF AnyInv

LEMMA AnyAckLast ==
  ASSUME AnyInv, NEW ack \in SUBSET Bits, AckLast(ack)
  PROVE  AnyInv'
  <1>1. ch \in Channel /\ ch.fifo \in Seq(Response) /\ Len(ch.fifo) = 1
    BY TypeParts DEF AnyInv, AckLast, Channel
  <1>2. ch.fifo # <<>> /\ Tail(ch.fifo) = <<>>
    <2>1. ch.fifo # <<>>
      BY <1>1
    <2>2. Tail(ch.fifo) \in Seq(Response) /\ Len(Tail(ch.fifo)) = 0
      BY <1>1, <2>1, HeadTailProperties
    <2> QED BY <2>1, <2>2, EmptySeq
  <1>3. PopResponse(ch) \in Channel /\ PopResponse(ch).fifo = <<>>
    BY <1>1, <1>2, PopFacts
  <1>4. Len(PopResponse(ch).fifo) = 0
    BY <1>3
  <1>5. CASE m_has_next_cmd
    <2>1. /\ CommandExecute(m_new_cmd, PopResponse(ch), ack)
          /\ transmission_busy' = FALSE /\ m_has_next_cmd' = FALSE
          /\ UNCHANGED <<m_int_enable, m_new_cmd, buffer>>
      BY <1>5 DEF AckLast
    <2>2. m_new_cmd \in AllCommands /\ TypeOK /\ ReadingIsLive
      BY DEF AnyInv, TypeOK
    <2>3. /\ ch' \in Channel /\ ch'.fifo # <<>> /\ NoNewData(PopResponse(ch), ch')
          /\ num_params' \in 0..PARAM_SIZE
          /\ m_idle' \in BOOLEAN
          /\ ReadTypeOK' /\ ReadingIsLive'
      BY <1>3, <2>1, <2>2, ExecuteFacts
    <2>4. transmission_busy' \in BOOLEAN /\ m_has_next_cmd' \in BOOLEAN
      BY <2>1, Zenon
    <2>5. TypeOK'
      BY <2>1, <2>3, <2>4 DEF AnyInv, TypeOK, ReadEvents, ReadTypeOK
    <2>6. CommandSlot'
      BY <2>1, <2>3 DEF CommandSlot
    <2>7. AnnouncedSectorIntact'
      BY <1>3, <1>4, <2>1, <2>3, IntactWithoutNewData
    <2> QED BY <2>3, <2>5, <2>6, <2>7 DEF AnyInv
  <1>6. CASE ~m_has_next_cmd
    <2>1. /\ ch' = ClearFlag(PopResponse(ch), ack)
          /\ m_idle' = TRUE
          /\ UNCHANGED <<m_int_enable, m_has_next_cmd, m_new_cmd,
                         transmission_busy, num_params, read_vars, buffer>>
      BY <1>6 DEF AckLast
    <2>2. ch' \in Channel /\ ch'.fifo = <<>>
      BY <1>3, <2>1, ClearFlagFacts
    <2>3. m_idle' \in BOOLEAN
      BY <2>1, Zenon
    <2>4. TypeOK'
      BY <2>1, <2>2, <2>3 DEF AnyInv, TypeOK, ReadEvents, ReadTypeOK, read_vars
    <2>5. CommandSlot'
      BY <1>6, <2>1 DEF AnyInv, CommandSlot
    <2>6. AnnouncedSectorIntact'
      BY <2>2 DEF AnnouncedSectorIntact
    <2>7. ReadingIsLive'
      BY <2>1 DEF AnyInv, ReadingIsLive, read_vars
    <2> QED BY <2>4, <2>5, <2>6, <2>7 DEF AnyInv
  <1> QED BY <1>5, <1>6

LEMMA AnyReadCallback ==
  ASSUME AnyInv, NEW kind \in SectorKinds, ReadCallback(kind)
  PROVE  AnyInv'
  <1> DEFINE Blocked == Len(ch.fifo) = FIFO_SIZE \/ DataResponseWaits
             Deliver == kind = "data" /\ ~Blocked
  <1>1. ch \in Channel /\ rd \in ReadEvents /\ m_seek_loc \in SectorNumbers
        /\ double_speed \in BOOLEAN
    BY TypeParts DEF AnyInv, ReadTypeOK
  <1>2. rd' \in ReadEvents /\ rd'.event # None
    <2>1. WithoutDue(rd) \in ReadEvents
      BY <1>1, WithoutDueFacts DEF ReadCallback
    <2>2. ReadTime(double_speed) \in Nat
      BY <1>1, Delays
    <2>3. ReadTime(double_speed) # None
      BY <2>2 DEF None
    <2> QED BY <2>1, <2>2, <2>3, ReadEventFacts DEF ReadCallback
  <1>3. seeking' \in BOOLEAN /\ reading' \in BOOLEAN
    BY Zenon DEF ReadCallback
  <1>4. m_seek_loc' \in SectorNumbers
    <2>1. (m_seek_loc + 1) % Sectors \in SectorNumbers
      BY <1>1, CDDriveAssumption DEF SectorNumbers
    <2> QED BY <1>1, <2>1 DEF ReadCallback
  <1>5. UNCHANGED <<m_int_enable, cmd_vars, num_params, double_speed, m_read_paused,
                    silence, unprocessed>>
    BY DEF ReadCallback
  <1>6. INT1 \in Interrupts /\ DATA_DELAY \in Nat
    BY CDDriveAssumption DEF Interrupts
  <1>7. CASE Deliver
    <2> DEFINE r == [interrupt |-> INT1, due |-> DATA_DELAY, sector |-> m_seek_loc]
    <2>1. ch' = PushResponse(ch, INT1, DATA_DELAY, m_seek_loc) /\ buffer' = m_seek_loc
      BY <1>7 DEF ReadCallback
    <2>2. ch' \in Channel
      BY <1>1, <1>6, <2>1, PushType
    <2>3. ch.fifo \in Seq(Response) /\ r \in Response
      BY <1>1, <1>6, ResponseType DEF Channel
    <2>4. ch'.fifo = Append(ch.fifo, r)
      BY <1>1, <1>7, <2>1, PushFifo
    <2> HIDE DEF r
    <2>5. /\ ch'.fifo # <<>> /\ Len(ch'.fifo) = Len(ch.fifo) + 1
          /\ \A i \in 1..Len(ch.fifo) : ch'.fifo[i] = ch.fifo[i]
          /\ ch'.fifo[Len(ch.fifo) + 1] = r
      BY <2>3, <2>4, SeqFacts
    <2>6. \A i \in 1..Len(ch.fifo) : ch.fifo[i].interrupt # INT1
      BY <1>7, <2>3 DEF DataResponseWaits
    <2>7. AnnouncedSectorIntact'
      <3>1. DOMAIN ch'.fifo = 1..(Len(ch.fifo) + 1) /\ Len(ch.fifo) \in Nat
        BY <2>2, <2>3, <2>5 DEF Channel
      <3>2. r.sector = buffer'
        BY <2>1 DEF r
      <3> QED BY <2>5, <2>6, <3>1, <3>2 DEF AnnouncedSectorIntact
    <2>8. TypeOK'
      BY <1>1, <1>2, <1>3, <1>4, <1>5, <2>1, <2>2
      DEF AnyInv, cmd_vars, ReadTypeOK, TypeOK, ReadEvents
    <2>9. CommandSlot'
      BY <1>5, <2>5 DEF AnyInv, CommandSlot, cmd_vars
    <2> QED BY <1>2, <2>7, <2>8, <2>9 DEF AnyInv, ReadingIsLive
  <1>8. CASE ~Deliver
    <2>1. ch' = ch /\ buffer' = buffer
      BY <1>8 DEF ReadCallback
    <2>2. TypeOK'
      BY <1>1, <1>2, <1>3, <1>4, <1>5, <2>1
      DEF AnyInv, cmd_vars, ReadTypeOK, TypeOK, ReadEvents
    <2>3. CommandSlot' /\ AnnouncedSectorIntact'
      BY <1>5, <2>1 DEF AnyInv, CommandSlot, cmd_vars, AnnouncedSectorIntact
    <2> QED BY <1>2, <2>2, <2>3 DEF AnyInv, ReadingIsLive
  <1> QED BY <1>7, <1>8

LEMMA NextAnyInv ==
  ASSUME AnyInv, [Next]_vars
  PROVE  AnyInv'
  <1>0. /\ ch \in Channel /\ rd \in ReadEvents /\ ReadTypeOK
        /\ num_params \in 0..PARAM_SIZE /\ m_int_enable \subseteq Bits
    BY TypeParts DEF AnyInv, ReadTypeOK
  <1>1. ASSUME NEW cmd \in Commands, WriteCommandNow(cmd) PROVE AnyInv'
    BY <1>1, AnyWriteCommandNow
  <1>2. ASSUME NEW cmd \in Commands, WriteCommandQueued(cmd) PROVE AnyInv'
    <2>1. /\ ~m_idle /\ m_new_cmd' = cmd /\ m_has_next_cmd' = TRUE
          /\ transmission_busy' = TRUE
          /\ UNCHANGED <<ch, m_int_enable, m_idle, num_params, read_vars, buffer>>
      BY <1>2 DEF WriteCommandQueued
    <2>2. m_has_next_cmd' \in BOOLEAN /\ transmission_busy' \in BOOLEAN
      BY <2>1, Zenon
    <2>3. cmd \in AllCommands
      BY CDDriveAssumption
    <2>4. TypeOK'
      BY <2>1, <2>2, <2>3 DEF AnyInv, TypeOK, read_vars
    <2>5. CommandSlot' /\ AnnouncedSectorIntact'
      BY <2>1 DEF AnyInv, CommandSlot, AnnouncedSectorIntact
    <2>6. ReadingIsLive'
      BY <2>1 DEF AnyInv, ReadingIsLive, read_vars
    <2> QED BY <2>4, <2>5, <2>6 DEF AnyInv
  <1>3. CASE WriteParam
    <2>1. num_params' \in 0..PARAM_SIZE
      BY <1>0, <1>3, CDDriveAssumption DEF WriteParam
    <2> QED BY <1>0, <1>3, <2>1, QuietStep DEF WriteParam
  <1>4. ASSUME NEW mask \in IntMasks, WriteIntEnable(mask) PROVE AnyInv'
    BY <1>0, <1>4, CDDriveAssumption, QuietStep DEF WriteIntEnable
  <1>5. CASE ResetParams
    BY <1>0, <1>5, CDDriveAssumption, QuietStep DEF ResetParams
  <1>6. ASSUME NEW ack \in SUBSET Bits, AckLate(ack) PROVE AnyInv'
    <2>1. ch' \in Channel /\ ch'.fifo = ch.fifo
      BY <1>0, <1>6, ClearFlagFacts DEF AckLate
    <2> QED BY <1>0, <1>6, <2>1, QuietStep DEF AckLate
  <1>7. ASSUME NEW ack \in SUBSET Bits, AckMore(ack) PROVE AnyInv'
    BY <1>7, AnyAckMore
  <1>8. ASSUME NEW ack \in SUBSET Bits, AckLast(ack) PROVE AnyInv'
    BY <1>8, AnyAckLast
  <1>9. CASE ClearIStat
    <2>1. FALSE \in BOOLEAN
      BY Zenon
    <2>2. ch' \in Channel /\ ch'.fifo = ch.fifo
      BY <1>0, <1>9, <2>1 DEF ClearIStat, Channel
    <2> QED BY <1>0, <1>9, <2>2, QuietStep DEF ClearIStat
  <1>10. ASSUME NEW x \in SUBSET Bits, Due(ch),
                ch' = RequestInterrupt(WithoutDue(ch), x),
                UNCHANGED <<m_int_enable, cmd_vars, num_params, read_vars, buffer>>
         PROVE  AnyInv'
    <2>1. WithoutDue(ch) \in Channel /\ WithoutDue(ch).fifo = ch.fifo
      BY <1>0, <1>10, WithoutDueFacts
    <2>2. ch' \in Channel
      BY <1>10, <2>1, RequestType
    <2>3. ch'.fifo = ch.fifo
      BY <1>10, <2>1 DEF RequestInterrupt, Channel
    <2> QED BY <1>0, <1>10, <2>2, <2>3, QuietStep
  <1>11. CASE DeliverInterrupt
    <2>1. ch.fifo \in Seq(Response) /\ ch.fifo # <<>>
      BY <1>0, <1>11 DEF DeliverInterrupt, Channel
    <2>2. Head(ch.fifo) \in Response
      BY <2>1
    <2>3. Head(ch.fifo).interrupt \in SUBSET Bits
      BY <2>2 DEF Response
    <2> QED BY <1>10, <1>11, <2>3 DEF DeliverInterrupt
  <1>12. CASE DeliverStale
    <2>1. PICK x \in Interrupts : ch' = RequestInterrupt(WithoutDue(ch), x)
      BY <1>12 DEF DeliverStale, Interrupts
    <2> QED BY <1>10, <1>12, <2>1, IntsOk DEF DeliverStale
  <1>13. ASSUME NEW kind \in SectorKinds, ReadCallback(kind) PROVE AnyInv'
    BY <1>13, AnyReadCallback
  <1>14. CASE Tick
    <2>1. ch' = Elapsed /\ rd' = OneCycleLess(rd)
      BY <1>14 DEF Tick, Elapsed
    <2>2. /\ ch' \in Channel /\ Len(ch'.fifo) = Len(ch.fifo)
          /\ \A i \in 1..Len(ch.fifo) : /\ ch'.fifo[i].interrupt = ch.fifo[i].interrupt
                                        /\ ch'.fifo[i].sector = ch.fifo[i].sector
          /\ rd' \in ReadEvents /\ rd'.event = Less(rd.event)
      BY <1>0, <2>1, ElapsedFacts
    <2>3. UNCHANGED <<m_int_enable, cmd_vars, num_params, double_speed, reading, seeking,
                      m_read_paused, silence, unprocessed, m_seek_loc, buffer>>
      BY <1>14 DEF Tick
    <2>4. ch.fifo \in Seq(Response) /\ ch'.fifo \in Seq(Response)
      BY <1>0, <2>2 DEF Channel
    <2>5. TypeOK'
      BY <1>0, <2>2, <2>3 DEF AnyInv, TypeOK, ReadEvents, cmd_vars
    <2>6. ch.fifo # <<>> => ch'.fifo # <<>>
      <3>1. ch.fifo # <<>> => Len(ch.fifo) # 0
        BY <2>4, EmptySeq
      <3>2. ch'.fifo = <<>> => Len(ch'.fifo) = 0
        BY EmptySeq
      <3> QED BY <2>2, <3>1, <3>2
    <2>7. CommandSlot'
      BY <2>3, <2>6 DEF AnyInv, CommandSlot, cmd_vars
    <2>8. AnnouncedSectorIntact'
      <3>1. DOMAIN ch.fifo = 1..Len(ch.fifo) /\ DOMAIN ch'.fifo = 1..Len(ch.fifo)
        BY <2>2, <2>4
      <3> QED BY <2>2, <2>3, <3>1 DEF AnyInv, AnnouncedSectorIntact
    <2>9. ReadingIsLive'
      <3>1. rd.event # None => rd'.event # None
        BY <1>0, <2>2, LessNat DEF ReadEvents
      <3> QED BY <2>3, <3>1 DEF AnyInv, ReadingIsLive
    <2> QED BY <2>5, <2>7, <2>8, <2>9 DEF AnyInv
  <1>15. CASE UNCHANGED vars
    BY <1>0, <1>15, QuietStep DEF vars
  <1> QED
    BY <1>1, <1>2, <1>3, <1>4, <1>5, <1>6, <1>7, <1>8, <1>9, <1>11, <1>12, <1>13,
       <1>14, <1>15 DEF Next

\* Whatever the guest writes, whenever it acknowledges and however often it
\* starts to read: the types hold, the command slot is never overwritten and
\* never waits for nothing, an announced sector stays in the buffer until the
\* announcement is acknowledged, and the reading bit tells the truth.
THEOREM CDDriveAnyGuest ==
  Spec => [](TypeOK /\ CommandSlot /\ AnnouncedSectorIntact /\ ReadingIsLive)
  <1>1. AnyInv => TypeOK /\ CommandSlot /\ AnnouncedSectorIntact /\ ReadingIsLive
    BY DEF AnyInv
  <1> QED BY <1>1, InitAnyInv, NextAnyInv, PTL DEF Spec
-----------------------------------------------------------------------------
(***************************************************************************)
(* The careful guest.                                                      *)
(***************************************************************************)

\* The fields of a channel after PushResponse.
LEMMA PushCases ==
  ASSUME NEW c \in Channel, NEW x \in Interrupts, NEW d \in Nat,
         NEW n \in SectorNumbers \cup {NoSector}, Len(c.fifo) # FIFO_SIZE,
         NEW p, p = PushResponse(c, x, d, n)
  PROVE  /\ p.fifo = Append(c.fifo, [interrupt |-> x, due |-> d, sector |-> n])
         /\ c.fifo # <<>> => p.irq = c.irq /\ p.event = c.event /\ p.stray = c.stray
         /\ c.fifo = <<>> /\ d = 0 => p.irq = x /\ p.event = c.event /\ p.stray = c.stray
         /\ c.fifo = <<>> /\ d # 0 =>
               /\ p.irq = c.irq /\ p.event = d
               /\ c.event = None => p.stray = c.stray
  BY DEF PushResponse, RequestInterrupt, ScheduleInterrupt, Channel

LEMMA PushNumbered ==
  ASSUME NEW c \in Channel, Numbered(c), NEW x \in Interrupts, NEW d \in Nat,
         NEW n \in SectorNumbers \cup {NoSector}
  PROVE  Numbered(PushResponse(c, x, d, n))
  <1> DEFINE r == [interrupt |-> x, due |-> d, sector |-> n]
             p == PushResponse(c, x, d, n)
  <1>1. CASE Len(c.fifo) = FIFO_SIZE
    BY <1>1 DEF PushResponse
  <1>2. CASE Len(c.fifo) # FIFO_SIZE
    <2>1. p.fifo = Append(c.fifo, r)
      BY <1>2, PushFifo
    <2>2. r \in Response /\ c.fifo \in Seq(Response) /\ r.interrupt # {}
      BY ResponseType, IntsOk DEF Channel
    <2> HIDE DEF r
    <2>3. /\ Len(p.fifo) = Len(c.fifo) + 1 /\ p.fifo[Len(c.fifo) + 1] = r
          /\ \A i \in 1..Len(c.fifo) : p.fifo[i] = c.fifo[i]
          /\ Len(c.fifo) \in Nat
      BY <2>1, <2>2, SeqFacts
    <2> HIDE DEF p
    <2>4. Numbered(p)
      BY <2>2, <2>3, SMTT(30) DEF Numbered
    <2> QED BY <2>4 DEF p
  <1> QED BY <1>1, <1>2

LEMMA PushSound ==
  ASSUME NEW c \in Channel, NEW x \in Interrupts, NEW d \in Nat,
         NEW n \in SectorNumbers \cup {NoSector}
  PROVE  /\ Sound(c) => Sound(PushResponse(c, x, d, n))
         /\ HalfSound(c) /\ (d # 0 \/ c.fifo # <<>>) =>
               HalfSound(PushResponse(c, x, d, n)) /\ PushResponse(c, x, d, n).irq = c.irq
  <1> DEFINE r == [interrupt |-> x, due |-> d, sector |-> n]
             p == PushResponse(c, x, d, n)
  <1>1. CASE Len(c.fifo) = FIFO_SIZE
    BY <1>1 DEF PushResponse
  <1>2. CASE Len(c.fifo) # FIFO_SIZE
    <2>1. /\ p.fifo = Append(c.fifo, r)
          /\ c.fifo # <<>> => p.irq = c.irq /\ p.event = c.event /\ p.stray = c.stray
          /\ c.fifo = <<>> /\ d = 0 => p.irq = x /\ p.event = c.event /\ p.stray = c.stray
          /\ c.fifo = <<>> /\ d # 0 =>
                /\ p.irq = c.irq /\ p.event = d
                /\ c.event = None => p.stray = c.stray
      BY <1>2, PushCases
    <2>2. r \in Response /\ c.fifo \in Seq(Response) /\ r.due = d /\ r.interrupt = x
      BY ResponseType DEF Channel
    <2> HIDE DEF r
    <2>3. /\ p.fifo # <<>>
          /\ c.fifo # <<>> => Head(p.fifo) = Head(c.fifo)
          /\ c.fifo = <<>> => Head(p.fifo) = r
      BY <2>1, <2>2, SeqFacts
    <2>4. Numbered(c) => Numbered(p)
      BY PushNumbered
    <2> HIDE DEF p
    <2>5. d # None /\ d <= d
      BY DEF None
    <2>6. Sound(c) => Sound(p)
      <3>1. CASE c.fifo # <<>>
        BY <2>1, <2>3, <2>4, <3>1 DEF Sound, Raised, Scheduled
      <3>2. CASE c.fifo = <<>> /\ d = 0
        BY <2>1, <2>2, <2>3, <2>4, <3>2 DEF Sound, Raised, Scheduled
      <3>3. CASE c.fifo = <<>> /\ d # 0
        BY <2>1, <2>2, <2>3, <2>4, <2>5, <3>3 DEF Sound, Raised, Scheduled
      <3> QED BY <3>1, <3>2, <3>3
    <2>7. HalfSound(c) /\ (d # 0 \/ c.fifo # <<>>) => HalfSound(p) /\ p.irq = c.irq
      <3>1. CASE c.fifo # <<>>
        BY <2>1, <2>3, <2>4, <3>1 DEF HalfSound, Scheduled
      <3>2. CASE c.fifo = <<>> /\ d # 0
        BY <2>1, <2>2, <2>3, <2>4, <2>5, <3>2 DEF HalfSound, Scheduled
      <3> QED BY <3>1, <3>2
    <2> QED BY <2>6, <2>7 DEF p
  <1> QED BY <1>1, <1>2

\* A command executed by WriteReg1 leaves a sound channel; one executed inside
\* the acknowledge leaves a half-sound one, provided its first response is not
\* due at once.
LEMMA AnswerSound ==
  ASSUME NEW c \in Channel, NEW cmd \in AllCommands
  PROVE  /\ Sound(c) => Sound(Answer(c, cmd))
         /\ HalfSound(c) /\ FirstDelay(cmd) # 0 =>
               HalfSound(Answer(c, cmd)) /\ Answer(c, cmd).irq = c.irq
  <1> DEFINE first == Respond(c, INT3, FirstDelay(cmd))
  <1>1. \A x \in {INT2, INT3, INT5} : x \in Interrupts /\ x # INT1
    BY DEF Interrupts, INT1, INT2, INT3, INT5
  <1>2. FirstDelay(cmd) \in Nat
    BY CDDriveAssumption DEF FirstDelay
  <1>3. first \in Channel /\ first.fifo # <<>>
    BY <1>1, <1>2, RespondFacts
  <1>4. /\ Sound(c) => Sound(first)
        /\ HalfSound(c) /\ FirstDelay(cmd) # 0 => HalfSound(first) /\ first.irq = c.irq
    BY <1>1, <1>2, PushSound DEF Respond
  <1> HIDE DEF first
  <1>5. ASSUME NEW x \in {INT2, INT5}, NEW d \in Nat
        PROVE  /\ Sound(first) => Sound(Respond(first, x, d))
               /\ HalfSound(first) => /\ HalfSound(Respond(first, x, d))
                                      /\ Respond(first, x, d).irq = first.irq
    BY <1>1, <1>3, PushSound DEF Respond
  <1>6. \/ Answer(c, cmd) = first
        \/ \E x \in {INT2, INT5}, d \in Nat : Answer(c, cmd) = Respond(first, x, d)
    BY AnswerCases DEF first
  <1> QED BY <1>4, <1>5, <1>6

LEMMA PopSound ==
  ASSUME NEW c \in Channel, Sound(c), c.fifo # <<>>, c.irq # {}
  PROVE  HalfSound(PopResponse(c))
  <1> DEFINE t == Tail(c.fifo)
             rest == [c EXCEPT !.fifo = Tail(@)]
             p == PopResponse(c)
  <1>1. c.event = None /\ c.stray = <<>> /\ Numbered(c)
    BY DEF Sound, Raised
  <1>2. c.fifo \in Seq(Response) /\ t \in Seq(Response)
    BY DEF Channel
  <1>3. /\ rest.fifo = t /\ rest.event = None /\ rest.stray = <<>>
    BY <1>1 DEF Channel
  <1>4. p.fifo = t
    BY PopFacts
  <1>5. Numbered(p)
    <2>1. \A i \in 1..Len(t) : i + 1 \in 1..Len(c.fifo) /\ t[i] = c.fifo[i + 1]
      BY <1>2
    <2> HIDE DEF t, p
    <2> QED BY <1>1, <1>4, <2>1 DEF Numbered
  <1>6. CASE t = <<>>
    <2>1. p = rest
      BY <1>3, <1>6 DEF PopResponse
    <2> HIDE DEF p, rest
    <2> QED BY <1>3, <1>4, <1>5, <1>6, <2>1 DEF HalfSound, p
  <1>7. CASE t # <<>>
    <2> DEFINE w == IF Head(t).due = 0 THEN INT_DELAY ELSE Head(t).due
    <2>1. Head(t) \in Response
      BY <1>2, <1>7
    <2>2. Head(t).due \in Nat
      BY <2>1 DEF Response
    <2>3. w \in Nat /\ Head(t).due <= w /\ w # None
      <3>1. CASE Head(t).due = 0
        <4>1. w = INT_DELAY
          BY <3>1
        <4>2. INT_DELAY \in Nat
          BY CDDriveAssumption
        <4> HIDE DEF w, t
        <4> QED BY <3>1, <4>1, <4>2 DEF None
      <3>2. CASE Head(t).due # 0
        <4>1. w = Head(t).due
          BY <3>2
        <4> HIDE DEF w, t
        <4> QED BY <2>2, <4>1 DEF None
      <3> QED BY <3>1, <3>2
    <2>4. p = ScheduleInterrupt(rest, w)
      BY <1>3, <1>7 DEF PopResponse
    <2>5. p.event = w /\ p.stray = <<>>
      <3> HIDE DEF w, p
      <3> QED BY <1>3, <2>4 DEF ScheduleInterrupt, Channel
    <2> HIDE DEF p, w, t
    <2>6. HalfSound(p)
      BY <1>4, <1>5, <1>7, <2>3, <2>5 DEF HalfSound, Scheduled
    <2> QED BY <2>6 DEF p
  <1> QED BY <1>6, <1>7

LEMMA ClearSound ==
  ASSUME NEW c \in Channel, HalfSound(c), NEW ack, c.irq \subseteq ack
  PROVE  Sound(ClearFlag(c, ack))
  <1>1. /\ ClearFlag(c, ack).fifo = c.fifo /\ ClearFlag(c, ack).irq = {}
        /\ ClearFlag(c, ack).stray = c.stray /\ ClearFlag(c, ack).event = c.event
    BY ClearFlagFacts
  <1> QED BY <1>1 DEF HalfSound, Sound, Numbered, Scheduled

\* A queued command answers later, and a queued read finds no read under way.
QueueOk ==
    m_has_next_cmd => /\ FirstDelay(m_new_cmd) # 0
                      /\ Params(m_new_cmd) = 0
                      /\ m_new_cmd \in {"ReadN", "ReadS"} => rd.event = None

\* The latch m_read_paused alone does not tell whether a read is under way; that
\* it is set only after an order that was obeyed makes the second branch of Pause
\* safe.
ReadOk == /\ rd.stray = <<>>
          /\ SilenceOrdered
          /\ m_read_paused => silence = "ordered"

CareInv == AnyInv /\ Sound(ch) /\ QueueOk /\ ReadOk

LEMMA InitCareInv == Init => CareInv
  <1> SUFFICES ASSUME Init PROVE CareInv
    OBVIOUS
  <1>1. AnyInv
    BY InitAnyInv
  <1>2. Sound(ch)
    BY DEF Init, Sound, Numbered
  <1>3. QueueOk
    BY DEF Init, QueueOk
  <1>4. ReadOk
    BY DEF Init, ReadOk, SilenceOrdered
  <1> QED BY <1>1, <1>2, <1>3, <1>4 DEF CareInv

\* The channel matters to Sound only through these fields.
LEMMA SameSound ==
  ASSUME Sound(ch), ch'.fifo = ch.fifo, ch'.irq = ch.irq, ch'.event = ch.event,
         ch'.stray = ch.stray
  PROVE  Sound(ch')
  BY DEF Sound, Numbered, Raised, Scheduled

LEMMA ReadSideCare ==
  ASSUME ReadTypeOK, ReadOk, NEW cmd \in AllCommands, ReadSide(cmd),
         cmd \in {"ReadN", "ReadS"} => rd.event = None
  PROVE  ReadOk'
  <1>0. rd \in ReadEvents /\ double_speed \in BOOLEAN
    BY DEF ReadTypeOK
  <1>1. ASSUME NEW t \in Nat, StartRead(t), rd.event = None PROVE ReadOk'
    <2>1. rd'.stray = rd.stray
      BY <1>0, <1>1 DEF StartRead, ScheduleInterrupt, ReadEvents
    <2>2. silence' = "none" /\ m_read_paused' = FALSE
      BY <1>1 DEF StartRead
    <2> QED BY <2>1, <2>2 DEF ReadOk, SilenceOrdered
  <1>2. Deschedule(rd).event = None /\ Deschedule(rd).stray = rd.stray
    BY <1>0, ReadEventFacts
  <1>3. CASE cmd = "ReadN"
    <2>1. StartRead(ReadTime(double_speed) \div 2)
      BY <1>3 DEF ReadSide
    <2> QED BY <1>0, <1>1, <1>3, <2>1, Delays
  <1>4. CASE cmd = "ReadS"
    <2>1. StartRead(ReadTime(double_speed))
      BY <1>4 DEF ReadSide
    <2> QED BY <1>0, <1>1, <1>4, <2>1, Delays
  <1>5. CASE cmd = "Stop"
    <2>1. Command_Stop
      BY <1>5 DEF ReadSide
    <2> QED BY <1>2, <2>1 DEF Command_Stop, EndRead, ReadOk, SilenceOrdered
  <1>6. CASE cmd = "SeekL"
    <2>1. Command_SeekL
      BY <1>6 DEF ReadSide
    <2> QED BY <2>1 DEF Command_SeekL, ReadOk, SilenceOrdered
  <1>7. CASE cmd = "Pause"
    <2>1. Command_Pause
      BY <1>7 DEF ReadSide
    <2>2. CASE m_read_paused \/ ~reading
      BY <2>1, <2>2 DEF Command_Pause, PauseRead, ReadOk, SilenceOrdered
    <2>3. CASE ~(m_read_paused \/ ~reading)
      BY <1>2, <2>1, <2>3 DEF Command_Pause, PauseRead, ReadOk, SilenceOrdered
    <2> QED BY <2>2, <2>3
  <1>8. CASE cmd = "Init"
    <2>1. Command_Init
      BY <1>8 DEF ReadSide
    <2> QED BY <1>2, <2>1 DEF Command_Init, EndRead, ReadOk, SilenceOrdered
  <1>9. CASE cmd \in {"SetLoc", "Setmode"}
    BY <1>9 DEF ReadSide, ReadOk, SilenceOrdered
  <1>10. CASE cmd \notin {"ReadN", "ReadS", "Stop", "SeekL", "Pause", "Init", "SetLoc",
                          "Setmode"}
    <2>1. UNCHANGED read_vars
      BY <1>10 DEF ReadSide
    <2> QED BY <2>1 DEF read_vars, ReadOk, SilenceOrdered
  <1> QED BY <1>3, <1>4, <1>5, <1>6, <1>7, <1>8, <1>9, <1>10

LEMMA CareWriteCommandNow ==
  ASSUME Care = Cares, CareInv, NEW cmd \in Commands, WriteCommandNow(cmd)
  PROVE  Sound(ch') /\ QueueOk' /\ ReadOk'
  <1>1. cmd \in AllCommands /\ ch \in Channel /\ ReadTypeOK
    BY CDDriveAssumption, TypeParts DEF CareInv, AnyInv
  <1>2. "init" \in Care /\ "reads" \in Care
    BY DEF Cares
  <1>3. /\ cmd = "Init" => ch.fifo = <<>>
        /\ cmd \in {"ReadN", "ReadS"} => rd.event = None
    BY <1>2 DEF WriteCommandNow, Issuable
  <1>4. CommandExecute(cmd, ch, {})
    BY DEF WriteCommandNow
  <1>5. ASSUME NEW c \in Channel, Sound(c), ch' = ClearFlag(c, {}) PROVE Sound(ch')
    <2>1. /\ ch'.fifo = c.fifo /\ ch'.irq = c.irq
          /\ ch'.event = c.event /\ ch'.stray = c.stray
      <3>1. \A S : S \ {} = S
        OBVIOUS
      <3> QED BY <1>5, <3>1, ClearFlagFacts, ZenonT(40)
    <2> QED BY <1>5, <2>1 DEF Sound, Numbered, Raised, Scheduled
  <1>6. QueueOk'
    <2>1. m_has_next_cmd' = m_has_next_cmd /\ ~transmission_busy
      BY DEF WriteCommandNow
    <2>2. ~m_has_next_cmd
      BY <2>1 DEF CareInv, AnyInv, CommandSlot
    <2> QED BY <2>1, <2>2 DEF QueueOk
  <1>7. CASE ParamsValid(cmd)
    <2> DEFINE d == IF cmd = "Init" THEN Deschedule(ch) ELSE ch
    <2>1. ch' = ClearFlag(Answer(d, cmd), {}) /\ ReadSide(cmd)
      BY <1>4, <1>7 DEF CommandExecute
    <2>2. d \in Channel /\ Sound(d)
      <3>1. CASE cmd = "Init"
        <4>1. /\ Deschedule(ch) \in Channel /\ Deschedule(ch).fifo = <<>>
              /\ Deschedule(ch).irq = ch.irq /\ Deschedule(ch).stray = ch.stray
              /\ Deschedule(ch).event = None
          BY <1>1, <1>3, <3>1, DescheduleFacts
        <4> QED BY <1>3, <3>1, <4>1 DEF CareInv, Sound, Numbered
      <3>2. CASE cmd # "Init"
        BY <1>1, <3>2 DEF CareInv
      <3> QED BY <3>1, <3>2
    <2> HIDE DEF d
    <2>3. Answer(d, cmd) \in Channel /\ Sound(Answer(d, cmd))
      BY <1>1, <2>2, AnswerFacts, AnswerSound
    <2>4. Sound(ch')
      BY <1>5, <2>1, <2>3
    <2>5. ReadOk'
      BY <1>1, <1>3, <2>1, ReadSideCare DEF CareInv
    <2> QED BY <1>6, <2>4, <2>5
  <1>8. CASE ~ParamsValid(cmd)
    <2>1. ch' = ClearFlag(Respond(ch, INT5, 0), {}) /\ UNCHANGED read_vars
      BY <1>4, <1>8 DEF CommandExecute
    <2>2. INT5 \in Interrupts
      BY DEF Interrupts
    <2>3. Respond(ch, INT5, 0) \in Channel /\ Sound(Respond(ch, INT5, 0))
      BY <1>1, <2>2, PushType, PushSound DEF Respond, CareInv
    <2>4. ReadOk'
      BY <2>1 DEF CareInv, ReadOk, SilenceOrdered, read_vars
    <2> QED BY <1>5, <1>6, <2>1, <2>3, <2>4
  <1> QED BY <1>7, <1>8

\* A flag the careful guest acknowledges belongs to the head, and the
\* acknowledge clears all of it.
LEMMA CareAck ==
  ASSUME Care = Cares, CareInv, NEW ack \in SUBSET Bits, AckOk(ack)
  PROVE  /\ ch \in Channel /\ ch.fifo # <<>> /\ ~Undelivered(ch)
         /\ ch.irq \subseteq ack
         /\ PopResponse(ch) \in Channel /\ HalfSound(PopResponse(ch))
         /\ PopResponse(ch).irq = ch.irq
         /\ PopResponse(ch).fifo = Tail(ch.fifo)
  <1>1. ch \in Channel /\ ch.irq # {} /\ ch.irq \subseteq ack
    BY TypeParts DEF CareInv, AnyInv, AckOk, Cares
  <1>2. ch.fifo # <<>> /\ Raised(ch)
    BY <1>1 DEF CareInv, Sound
  <1>3. ~Undelivered(ch)
    BY <1>2 DEF Raised, Undelivered
  <1>4. HalfSound(PopResponse(ch))
    BY <1>1, <1>2, PopSound DEF CareInv
  <1> QED BY <1>1, <1>2, <1>3, <1>4, PopFacts

LEMMA CareAckLast ==
  ASSUME Care = Cares, CareInv, NEW ack \in SUBSET Bits, AckLast(ack)
  PROVE  Sound(ch') /\ QueueOk' /\ ReadOk'
  <1> DEFINE c == PopResponse(ch)
  <1>1. /\ ch \in Channel /\ ch.fifo # <<>> /\ ch.irq \subseteq ack
        /\ c \in Channel /\ HalfSound(c) /\ c.irq = ch.irq /\ c.fifo = Tail(ch.fifo)
    BY CareAck DEF AckLast
  <1> HIDE DEF c
  <1>2. c.fifo = <<>>
    <2>1. ch.fifo \in Seq(Response) /\ Len(ch.fifo) = 1
      BY <1>1 DEF AckLast, Channel
    <2>2. Tail(ch.fifo) \in Seq(Response) /\ Len(Tail(ch.fifo)) = 0
      BY <1>1, <2>1, HeadTailProperties
    <2> QED BY <1>1, <2>2, EmptySeq
  <1>3. CASE ~m_has_next_cmd
    <2>1. ch' = ClearFlag(c, ack) /\ UNCHANGED <<m_has_next_cmd, m_new_cmd, read_vars>>
      BY <1>3 DEF AckLast, c
    <2>2. Sound(ch')
      BY <1>1, <2>1, ClearSound
    <2>3. QueueOk' /\ ReadOk'
      BY <1>3, <2>1 DEF CareInv, QueueOk, ReadOk, SilenceOrdered, read_vars
    <2> QED BY <2>2, <2>3
  <1>4. CASE m_has_next_cmd
    <2> DEFINE d == IF m_new_cmd = "Init" THEN Deschedule(c) ELSE c
    <2>1. /\ CommandExecute(m_new_cmd, c, ack) /\ m_has_next_cmd' = FALSE
      BY <1>4 DEF AckLast, c
    <2>2. /\ FirstDelay(m_new_cmd) # 0 /\ ParamsValid(m_new_cmd)
          /\ m_new_cmd \in {"ReadN", "ReadS"} => rd.event = None
          /\ m_new_cmd \in AllCommands /\ ReadTypeOK
      BY <1>4, TypeParts DEF CareInv, QueueOk, AnyInv, ParamsValid
    <2>3. ch' = ClearFlag(Answer(d, m_new_cmd), ack) /\ ReadSide(m_new_cmd)
      BY <2>1, <2>2 DEF CommandExecute
    <2>4. d \in Channel /\ HalfSound(d) /\ d.irq = ch.irq
      <3>1. CASE m_new_cmd = "Init"
        <4>1. /\ Deschedule(c) \in Channel /\ Deschedule(c).fifo = <<>>
              /\ Deschedule(c).irq = c.irq /\ Deschedule(c).stray = c.stray
              /\ Deschedule(c).event = None
          BY <1>1, <1>2, DescheduleFacts
        <4> QED BY <1>1, <3>1, <4>1 DEF HalfSound, Numbered
      <3>2. CASE m_new_cmd # "Init"
        BY <1>1, <3>2
      <3> QED BY <3>1, <3>2
    <2> HIDE DEF d
    <2>5. /\ Answer(d, m_new_cmd) \in Channel
          /\ HalfSound(Answer(d, m_new_cmd)) /\ Answer(d, m_new_cmd).irq = ch.irq
      BY <2>2, <2>4, AnswerFacts, AnswerSound
    <2>6. Sound(ch')
      BY <1>1, <2>3, <2>5, ClearSound
    <2>7. ReadOk'
      BY <2>2, <2>3, ReadSideCare DEF CareInv
    <2>8. QueueOk'
      BY <2>1 DEF QueueOk
    <2> QED BY <2>6, <2>7, <2>8
  <1> QED BY <1>3, <1>4

LEMMA CareTick ==
  ASSUME CareInv, Tick
  PROVE  Sound(ch') /\ QueueOk' /\ ReadOk'
  <1>1. ch \in Channel /\ rd \in ReadEvents
    BY TypeParts DEF CareInv, AnyInv, ReadTypeOK
  <1>2. ch' = Elapsed /\ rd' = OneCycleLess(rd)
    BY DEF Tick, Elapsed
  <1>3. /\ ch' \in Channel
        /\ Len(ch'.fifo) = Len(ch.fifo)
        /\ \A i \in 1..Len(ch.fifo) : /\ ch'.fifo[i].interrupt = ch.fifo[i].interrupt
                                      /\ ch'.fifo[i].due = Less(ch.fifo[i].due)
        /\ ch'.irq = ch.irq
        /\ ch'.event = Less(ch.event)
        /\ ch'.stray = [i \in DOMAIN ch.stray |-> Less(ch.stray[i])]
        /\ rd'.event = Less(rd.event)
        /\ rd'.stray = [i \in DOMAIN rd.stray |-> Less(rd.stray[i])]
    BY <1>1, <1>2, ElapsedFacts
  <1>4. ch.stray = <<>> /\ rd.stray = <<>>
    BY DEF CareInv, Sound, ReadOk
  <1>5. ch'.stray = <<>> /\ rd'.stray = <<>>
    <2>1. DOMAIN <<>> = {}
      OBVIOUS
    <2> QED BY <1>3, <1>4, <2>1
  <1>6. ch.event \in Nat \cup {None} /\ rd.event \in Nat \cup {None}
    BY <1>1 DEF Channel, ReadEvents
  <1>7. (ch'.event = None <=> ch.event = None) /\ (rd'.event = None <=> rd.event = None)
    BY <1>3, <1>6, LessNat
  <1>8. ch.fifo \in Seq(Response) /\ ch'.fifo \in Seq(Response) /\ Len(ch.fifo) \in Nat
    BY <1>1, <1>3 DEF Channel
  <1>9. ch'.fifo = <<>> <=> ch.fifo = <<>>
    <2>1. \A s \in Seq(Response) : s = <<>> <=> Len(s) = 0
      BY EmptySeq
    <2> QED BY <1>3, <1>8, <2>1
  <1>10. Numbered(ch')
    BY <1>3 DEF Numbered, CareInv, Sound
  <1>11. ASSUME ch.fifo # <<>>
         PROVE  /\ Head(ch'.fifo).interrupt = Head(ch.fifo).interrupt
                /\ Head(ch'.fifo).due = Less(Head(ch.fifo).due)
                /\ Head(ch.fifo).due \in Nat
    <2>1. Len(ch.fifo) # 0
      BY <1>8, <1>11, EmptySeq
    <2>2. 1 \in 1..Len(ch.fifo)
      BY <1>8, <2>1
    <2>3. Head(ch.fifo) = ch.fifo[1] /\ Head(ch'.fifo) = ch'.fifo[1]
      BY <1>8, <1>9, <1>11
    <2>4. ch.fifo[1] \in Response
      BY <1>8, <2>2
    <2>5. ch.fifo[1].due \in Nat
      BY <2>4 DEF Response
    <2> QED BY <1>3, <2>2, <2>3, <2>5
  <1>12. ch.fifo # <<>> /\ Raised(ch) => Raised(ch')
    BY <1>3, <1>7, <1>11 DEF Raised, Less
  <1>13. ch.fifo # <<>> /\ Scheduled(ch) => Scheduled(ch')
    BY <1>3, <1>6, <1>7, <1>11 DEF Scheduled, Less, None
  <1>14. Sound(ch')
    BY <1>3, <1>5, <1>7, <1>9, <1>10, <1>12, <1>13 DEF CareInv, Sound
  <1>15. QueueOk' /\ ReadOk'
    BY <1>5, <1>7 DEF Tick, CareInv, QueueOk, ReadOk, SilenceOrdered, cmd_vars
  <1> QED BY <1>14, <1>15

LEMMA CareReadCallback ==
  ASSUME CareInv, NEW kind \in SectorKinds, ReadCallback(kind)
  PROVE  Sound(ch') /\ QueueOk' /\ ReadOk'
  <1>1. ch \in Channel /\ rd \in ReadEvents /\ m_seek_loc \in SectorNumbers
    BY TypeParts DEF CareInv, AnyInv, ReadTypeOK
  <1>2. INT1 \in Interrupts /\ DATA_DELAY \in Nat
    BY CDDriveAssumption DEF Interrupts
  <1>3. Sound(ch')
    <2>1. Sound(PushResponse(ch, INT1, DATA_DELAY, m_seek_loc))
      BY <1>1, <1>2, PushSound DEF CareInv
    <2>2. ch' \in {PushResponse(ch, INT1, DATA_DELAY, m_seek_loc), ch}
      BY DEF ReadCallback
    <2> QED BY <2>1, <2>2 DEF CareInv
  <1>4. rd.event = 0
    BY DEF ReadCallback, Due, CareInv, ReadOk
  <1>5. rd'.stray = <<>>
    <2>1. WithoutDue(rd) = [rd EXCEPT !.event = None]
      BY <1>4 DEF WithoutDue
    <2>2. rd' = ScheduleInterrupt([rd EXCEPT !.event = None], ReadTime(double_speed))
      BY <2>1 DEF ReadCallback
    <2> QED BY <1>1, <2>2 DEF ScheduleInterrupt, ReadEvents, CareInv, ReadOk
  <1>6. silence # "ordered" /\ ~m_read_paused
    BY <1>4 DEF CareInv, ReadOk, SilenceOrdered, None
  <1>7. ReadOk'
    <2>1. rd'.event = ReadTime(double_speed)
      BY <1>1 DEF ReadCallback, ScheduleInterrupt, WithoutDue, ReadEvents
    <2>2. rd'.event # None
      BY <2>1, Delays, TypeParts DEF CareInv, AnyInv, ReadTypeOK, None
    <2> QED BY <1>5, <1>6, <2>2 DEF ReadCallback, ReadOk, SilenceOrdered
  <1>8. QueueOk'
    BY <1>4 DEF ReadCallback, CareInv, QueueOk, cmd_vars, None
  <1> QED BY <1>3, <1>7, <1>8

LEMMA NextCareInv ==
  ASSUME Care = Cares, CareInv, [Next]_vars
  PROVE  CareInv'
  <1>0. AnyInv'
    BY NextAnyInv DEF CareInv
  <1> SUFFICES Sound(ch') /\ QueueOk' /\ ReadOk'
    BY <1>0 DEF CareInv
  <1>1. ch \in Channel
    BY TypeParts DEF CareInv, AnyInv
  <1>2. ASSUME UNCHANGED <<cmd_vars, read_vars>> PROVE QueueOk' /\ ReadOk'
    BY <1>2 DEF CareInv, QueueOk, ReadOk, SilenceOrdered, cmd_vars, read_vars
  <1>3. ASSUME NEW cmd \in Commands, WriteCommandNow(cmd)
        PROVE  Sound(ch') /\ QueueOk' /\ ReadOk'
    BY <1>3, CareWriteCommandNow
  <1>4. ASSUME NEW cmd \in Commands, WriteCommandQueued(cmd)
        PROVE  Sound(ch') /\ QueueOk' /\ ReadOk'
    <2>1. "queue" \in Care /\ "reads" \in Care
      BY DEF Cares
    <2>2. /\ FirstDelay(cmd) # 0 /\ Params(cmd) = 0
          /\ cmd \in {"ReadN", "ReadS"} => rd.event = None
      BY <1>4, <2>1 DEF WriteCommandQueued, Issuable
    <2> QED BY <1>4, <2>2
            DEF WriteCommandQueued, CareInv, QueueOk, ReadOk, SilenceOrdered, read_vars
  <1>5. CASE WriteParam \/ ResetParams \/ \E mask \in IntMasks : WriteIntEnable(mask)
    BY <1>2, <1>5 DEF WriteParam, ResetParams, WriteIntEnable, CareInv
  <1>6. ASSUME NEW ack \in SUBSET Bits, AckLate(ack)
        PROVE  Sound(ch') /\ QueueOk' /\ ReadOk'
    BY <1>6, CareAck DEF AckLate
  <1>7. ASSUME NEW ack \in SUBSET Bits, AckMore(ack)
        PROVE  Sound(ch') /\ QueueOk' /\ ReadOk'
    <2>1. /\ PopResponse(ch) \in Channel /\ HalfSound(PopResponse(ch))
          /\ PopResponse(ch).irq \subseteq ack
      BY <1>7, CareAck DEF AckMore
    <2> QED BY <1>2, <1>7, <2>1, ClearSound DEF AckMore
  <1>8. ASSUME NEW ack \in SUBSET Bits, AckLast(ack)
        PROVE  Sound(ch') /\ QueueOk' /\ ReadOk'
    BY <1>8, CareAckLast
  <1>9. CASE ClearIStat
    <2>1. /\ ch'.fifo = ch.fifo /\ ch'.irq = ch.irq /\ ch'.event = ch.event
          /\ ch'.stray = ch.stray
      BY <1>1, <1>9 DEF ClearIStat, Channel
    <2> QED BY <1>2, <1>9, <2>1, SameSound DEF ClearIStat, CareInv
  <1>10. ch.fifo = <<>> => ~Due(ch)
    BY DEF CareInv, Sound, Due, None
  <1>11. CASE DeliverInterrupt
    <2>1. ch.event = 0 /\ ch.fifo # <<>>
      BY <1>11 DEF DeliverInterrupt, Due, CareInv, Sound
    <2>2. Head(ch.fifo).due = 0
      <3>1. ch.fifo \in Seq(Response)
        BY <1>1 DEF Channel
      <3>2. Head(ch.fifo) \in Response
        BY <2>1, <3>1
      <3>3. Head(ch.fifo).due \in Nat
        BY <3>2 DEF Response
      <3>4. Head(ch.fifo).due <= 0
        BY <2>1 DEF CareInv, Sound, Raised, Scheduled, None
      <3> QED BY <3>3, <3>4
    <2>3. /\ ch'.fifo = ch.fifo /\ ch'.irq = Head(ch.fifo).interrupt
          /\ ch'.event = None /\ ch'.stray = ch.stray
      BY <1>1, <1>11, <2>1 DEF DeliverInterrupt, WithoutDue, RequestInterrupt, Channel
    <2>4. Sound(ch')
      BY <2>1, <2>2, <2>3 DEF CareInv, Sound, Numbered, Raised
    <2> QED BY <1>2, <1>11, <2>4 DEF DeliverInterrupt
  <1>12. CASE DeliverStale
    BY <1>10, <1>12 DEF DeliverStale
  <1>13. ASSUME NEW kind \in SectorKinds, ReadCallback(kind)
         PROVE  Sound(ch') /\ QueueOk' /\ ReadOk'
    BY <1>13, CareReadCallback
  <1>14. CASE Tick
    BY <1>14, CareTick
  <1>15. CASE UNCHANGED vars
    BY <1>2, <1>15 DEF vars, CareInv
  <1> QED
    BY <1>3, <1>4, <1>5, <1>6, <1>7, <1>8, <1>9, <1>11, <1>12, <1>13, <1>14, <1>15
    DEF Next

\* For a guest that clears the whole flag, does not issue Init while responses
\* wait, queues no command that answers at once and starts no second read:
\* every waiting response has its interrupt raised or scheduled, the flag
\* belongs to the response at the head, there is one interrupt at a time, and
\* after Stop, Init or a Pause that is not early nothing is read until the next
\* read command - for every FIFO size and all timings.
THEOREM CDDriveCarefulGuest ==
  ASSUME Care = Cares
  PROVE  Spec => [](/\ NoOrphanResponse /\ FlagMatchesHead
                    /\ OneInterruptAtATime /\ SilenceOrdered)
  <1>1. CareInv => /\ NoOrphanResponse /\ FlagMatchesHead
                   /\ OneInterruptAtATime /\ SilenceOrdered
    <2> SUFFICES ASSUME CareInv
                 PROVE  /\ NoOrphanResponse /\ FlagMatchesHead
                        /\ OneInterruptAtATime /\ SilenceOrdered
      OBVIOUS
    <2>1. ch.fifo # <<>> => Head(ch.fifo).interrupt # {}
      <3>1. ch.fifo \in Seq(Response)
        BY TypeParts DEF CareInv, AnyInv, Channel
      <3>2. ch.fifo # <<>> => 1 \in 1..Len(ch.fifo) /\ Head(ch.fifo) = ch.fifo[1]
        BY <3>1, EmptySeq
      <3> QED BY <3>2 DEF CareInv, Sound, Numbered
    <2>2. NoOrphanResponse
      BY <2>1 DEF CareInv, Sound, Raised, Scheduled, NoOrphanResponse
    <2>3. FlagMatchesHead
      BY DEF CareInv, Sound, Raised, FlagMatchesHead, AckFindsResponse, Undelivered
    <2>4. OneInterruptAtATime
      BY <2>1 DEF CareInv, Sound, Raised, OneInterruptAtATime
    <2> QED BY <2>2, <2>3, <2>4 DEF CareInv, ReadOk
  <1> QED BY <1>1, InitCareInv, NextCareInv, PTL DEF Spec
=============================================================================
