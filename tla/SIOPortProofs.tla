---------------------------- MODULE SIOPortProofs ----------------------------
(***************************************************************************)
(* Proofs about the SIO port and the devices behind it.                    *)
(***************************************************************************)
EXTENDS SIOPort, TLAPS

SectorData == [Sector -> Bytes]

Known == [config : BOOLEAN, analog : BOOLEAN]

Drivers ==
    [selected : {"NONE", "PAD", "MEMCARD"}, pad : Pads, card : Cards, talk : Seq(Bytes),
     written : [Sectors -> SectorData], heard : Seq(Bytes), known : Known,
     misframed : BOOLEAN]

XType == [port : Ports, dev : Drivers]

LEMMA ByteFacts ==
    /\ \A n \in 0..7 : n \in Bytes
    /\ Bytes = 0..7
    /\ BYTE = 8
  BY DEF Bytes, BYTE

\* A sequence of bytes that gets one more.
LEMMA AppendFacts ==
    ASSUME NEW t \in Seq(Bytes), NEW b \in Bytes
    PROVE  LET u == Append(t, b) IN
           /\ u \in Seq(Bytes) /\ Len(u) = Len(t) + 1 /\ Len(t) \in Nat
           /\ \A i \in 1..Len(t) : u[i] = t[i] /\ t[i] \in Bytes
           /\ u[Len(t) + 1] = b
  OBVIOUS

(***************************************************************************)
(* The pad keeps its type, whatever it receives.                           *)
(***************************************************************************)
LEMMA PadFields ==
    ASSUME NEW p \in Pads
    PROVE  /\ p.status \in {"IDLE", "READ_STAT", "CONFIG", "COMMAND_END", "BREAK"}
           /\ p.conf \in {"JUST_ENTERED", "CONFIG_IDLE", "CONFIG_COMMAND_END"}
           /\ p.mode \in {"DIGITAL", "ANALOG"} /\ p.in_fifo \in Seq(Bytes)
           /\ p.response \in Nat
  BY DEF Pads

\* A pad with these members.
PadIs(q, status, conf, mode, fifo, response) ==
    /\ q \in Pads
    /\ q.status = status /\ q.conf = conf /\ q.mode = mode /\ q.in_fifo = fifo
    /\ q.response = response

Statuses == {"IDLE", "READ_STAT", "CONFIG", "COMMAND_END", "BREAK"}
Confs == {"JUST_ENTERED", "CONFIG_IDLE", "CONFIG_COMMAND_END"}
PadModes == {"DIGITAL", "ANALOG"}

LEMMA PadStatus ==
    ASSUME NEW p \in Pads, NEW s \in Statuses
    PROVE  PadIs([p EXCEPT !.status = s], s, p.conf, p.mode, p.in_fifo, p.response)
<1> DEFINE q == [p EXCEPT !.status = s]
<1>1. q \in Pads
  BY DEF Pads, Statuses
<1>2. /\ q.status = s /\ q.conf = p.conf /\ q.mode = p.mode /\ q.in_fifo = p.in_fifo
      /\ q.response = p.response
  BY DEF Pads
<1> HIDE DEF q
<1>3. PadIs(q, s, p.conf, p.mode, p.in_fifo, p.response)
  BY <1>1, <1>2 DEF PadIs
<1> QED BY <1>3 DEF q

\* A byte that an idle pad receives.
LEMMA IdleByte ==
    ASSUME NEW p \in Pads, NEW b
    PROVE  LET q == IdleProcessByte(p, b)
               r == p.response + (IF p.mode = "ANALOG" THEN 8 ELSE 4) IN
           /\ b = READ => PadIs(q, "READ_STAT", p.conf, p.mode, p.in_fifo, r)
           /\ b = CONFIG_MODE => PadIs(q, "CONFIG", "JUST_ENTERED", p.mode, p.in_fifo, r)
           /\ b \notin {READ, CONFIG_MODE}
                => PadIs(q, "BREAK", p.conf, p.mode, p.in_fifo, p.response)
<1> DEFINE r == p.response + (IF p.mode = "ANALOG" THEN 8 ELSE 4)
           q(s, k) == [p EXCEPT !.status = s, !.conf = k, !.response = r]
           brk == "BREAK"
<1>0. r \in Nat /\ brk \in Statuses
  BY PadFields DEF Statuses
<1>1. b = READ => IdleProcessByte(p, b) = q("READ_STAT", p.conf)
  BY DEF IdleProcessByte
<1>2. b = CONFIG_MODE => IdleProcessByte(p, b) = q("CONFIG", "JUST_ENTERED")
  BY DEF IdleProcessByte, CONFIG_MODE, READ
<1>3. b \notin {READ, CONFIG_MODE} => IdleProcessByte(p, b) = [p EXCEPT !.status = brk]
  BY DEF IdleProcessByte, Break
<1> HIDE DEF r, brk
<1>4. ASSUME NEW s \in Statuses, NEW k \in Confs
      PROVE  PadIs(q(s, k), s, k, p.mode, p.in_fifo, r)
  <2>1. q(s, k) \in Pads
    BY <1>0 DEF Pads, Statuses, Confs
  <2>2. /\ q(s, k).status = s /\ q(s, k).conf = k /\ q(s, k).mode = p.mode
        /\ q(s, k).in_fifo = p.in_fifo /\ q(s, k).response = r
    BY DEF Pads
  <2> HIDE DEF q
  <2> QED BY <2>1, <2>2 DEF PadIs
<1>5. "READ_STAT" \in Statuses /\ "CONFIG" \in Statuses /\ p.conf \in Confs
      /\ "JUST_ENTERED" \in Confs
  BY PadFields DEF Statuses, Confs
<1>6. b \notin {READ, CONFIG_MODE}
        => PadIs(IdleProcessByte(p, b), "BREAK", p.conf, p.mode, p.in_fifo, p.response)
  BY <1>0, <1>3, PadStatus DEF brk
<1> HIDE DEF q
<1> QED BY <1>1, <1>2, <1>4, <1>5, <1>6 DEF r

\* A byte of the command that enters the configuration mode.
LEMMA EnterByte ==
    ASSUME NEW p \in Pads, NEW b \in Bytes
    PROVE  LET q == JustEnteredByte(p, b)
               f == Append(p.in_fifo, b) IN
           /\ Len(f) # GetTransferLength(p) - 2
                => PadIs(q, p.status, p.conf, p.mode, f, p.response)
           /\ Len(f) = GetTransferLength(p) - 2 /\ f[2] = 0
                => PadIs(q, "COMMAND_END", p.conf, p.mode, <<>>, p.response)
           /\ Len(f) = GetTransferLength(p) - 2 /\ f[2] # 0
                => PadIs(q, p.status, "CONFIG_COMMAND_END", p.mode, <<>>, p.response)
<1> DEFINE f == Append(p.in_fifo, b)
           none == <<>>
           end == "COMMAND_END"
           cend == "CONFIG_COMMAND_END"
           x == [p EXCEPT !.in_fifo = f]
           y == [p EXCEPT !.in_fifo = none, !.status = end]
           z == [p EXCEPT !.in_fifo = none, !.conf = cend]
<1>0. f \in Seq(Bytes) /\ none \in Seq(Bytes) /\ end \in Statuses /\ cend \in Confs
  BY PadFields, AppendFacts DEF Statuses, Confs
<1>1. Len(f) # GetTransferLength(p) - 2 => JustEnteredByte(p, b) = x
  BY DEF JustEnteredByte
<1>2. Len(f) = GetTransferLength(p) - 2 /\ f[2] = 0 => JustEnteredByte(p, b) = y
  BY DEF JustEnteredByte
<1>3. Len(f) = GetTransferLength(p) - 2 /\ f[2] # 0 => JustEnteredByte(p, b) = z
  BY DEF JustEnteredByte
<1> HIDE DEF f, none, end, cend
<1>4. PadIs(x, p.status, p.conf, p.mode, f, p.response)
  <2>1. x \in Pads
    BY <1>0 DEF Pads
  <2>2. /\ x.status = p.status /\ x.conf = p.conf /\ x.mode = p.mode /\ x.in_fifo = f
        /\ x.response = p.response
    BY DEF Pads
  <2> HIDE DEF x
  <2> QED BY <2>1, <2>2 DEF PadIs
<1>5. PadIs(y, end, p.conf, p.mode, none, p.response)
  <2>1. y \in Pads
    BY <1>0 DEF Pads, Statuses
  <2>2. /\ y.status = end /\ y.conf = p.conf /\ y.mode = p.mode /\ y.in_fifo = none
        /\ y.response = p.response
    BY DEF Pads
  <2> HIDE DEF y
  <2> QED BY <2>1, <2>2 DEF PadIs
<1>6. PadIs(z, p.status, cend, p.mode, none, p.response)
  <2>1. z \in Pads
    BY <1>0 DEF Pads, Confs
  <2>2. /\ z.status = p.status /\ z.conf = cend /\ z.mode = p.mode /\ z.in_fifo = none
        /\ z.response = p.response
    BY DEF Pads
  <2> HIDE DEF z
  <2> QED BY <2>1, <2>2 DEF PadIs
<1> HIDE DEF x, y, z
<1> QED BY <1>1, <1>2, <1>3, <1>4, <1>5, <1>6 DEF f, none, end, cend

\* The first byte of a command in the configuration mode.
ConfigCommands == {READ, CONFIG_MODE, SET_LET_STATE, GET_VARIABLE_RESPONSE}

LEMMA ConfigByte ==
    ASSUME NEW p \in Pads, NEW b \in Bytes
    PROVE  LET q == ConfigIdleProcessByte(p, b)
               r == p.response + (IF b = GET_VARIABLE_RESPONSE THEN 2 ELSE 8) IN
           /\ b \in ConfigCommands => PadIs(q, p.status, p.conf, p.mode, <<b>>, r)
           /\ b \notin ConfigCommands
                => PadIs(q, "BREAK", p.conf, p.mode, p.in_fifo, p.response)
<1> DEFINE r == p.response + (IF b = GET_VARIABLE_RESPONSE THEN 2 ELSE 8)
           f == <<b>>
           brk == "BREAK"
           x == [p EXCEPT !.in_fifo = f, !.response = r]
<1>0. r \in Nat /\ f \in Seq(Bytes) /\ brk \in Statuses
  BY PadFields DEF Statuses
<1>1. b \in ConfigCommands => ConfigIdleProcessByte(p, b) = x
  BY DEF ConfigIdleProcessByte, ConfigCommands
<1>2. b \notin ConfigCommands => ConfigIdleProcessByte(p, b) = [p EXCEPT !.status = brk]
  BY DEF ConfigIdleProcessByte, ConfigCommands, Break
<1> HIDE DEF r, f, brk
<1>3. PadIs(x, p.status, p.conf, p.mode, f, r)
  <2>1. x \in Pads
    BY <1>0 DEF Pads
  <2>2. /\ x.status = p.status /\ x.conf = p.conf /\ x.mode = p.mode /\ x.in_fifo = f
        /\ x.response = r
    BY DEF Pads
  <2> HIDE DEF x
  <2> QED BY <2>1, <2>2 DEF PadIs
<1>4. b \notin ConfigCommands
        => PadIs(ConfigIdleProcessByte(p, b), "BREAK", p.conf, p.mode, p.in_fifo, p.response)
  BY <1>0, <1>2, PadStatus DEF brk
<1> HIDE DEF x
<1> QED BY <1>1, <1>3, <1>4 DEF r, f

\* Its arguments, and what the last one does.
ModeSet(f, mode) ==
    IF f[1] # SET_LET_STATE THEN mode ELSE IF f[3] = 1 THEN "ANALOG" ELSE "DIGITAL"

Leaves(f) == f[1] = CONFIG_MODE /\ f[3] % 2 = 0

LEMMA ArgumentByte ==
    ASSUME NEW p \in Pads, NEW b \in Bytes
    PROVE  LET q == ConfigArgument(p, b)
               f == Append(p.in_fifo, b)
               r == p.response
                      + (IF Len(f) = 3 /\ f[1] = GET_VARIABLE_RESPONSE THEN 6 ELSE 0) IN
           /\ Len(f) # 8 => PadIs(q, p.status, p.conf, p.mode, f, r)
           /\ Len(f) = 8 /\ Leaves(f)
                => PadIs(q, "COMMAND_END", "JUST_ENTERED", ModeSet(f, p.mode), <<>>, r)
           /\ Len(f) = 8 /\ ~Leaves(f)
                => PadIs(q, p.status, "CONFIG_COMMAND_END", ModeSet(f, p.mode), <<>>, r)
<1> DEFINE f == Append(p.in_fifo, b)
           r == p.response + (IF Len(f) = 3 /\ f[1] = GET_VARIABLE_RESPONSE THEN 6 ELSE 0)
           w == [p EXCEPT !.in_fifo = f, !.response = r]
           none == <<>>
<1>1. ConfigArgument(p, b) = IF Len(f) = 8 THEN ConfigCommandEnd(w) ELSE w
  BY DEF ConfigArgument, CONFIG_MODE_TRANSFER_LEN
<1>2. f \in Seq(Bytes) /\ p.response \in Nat /\ none \in Seq(Bytes)
      /\ p.mode \in PadModes /\ p.status \in Statuses
  BY PadFields, AppendFacts DEF PadModes, Statuses
<1>3. r \in Nat
  <2> HIDE DEF f
  <2> QED BY <1>2
<1> HIDE DEF f, r, none
<1>4. PadIs(w, p.status, p.conf, p.mode, f, r)
  <2>1. w \in Pads
    BY <1>2, <1>3 DEF Pads
  <2>2. /\ w.status = p.status /\ w.conf = p.conf /\ w.mode = p.mode /\ w.in_fifo = f
        /\ w.response = r
    BY DEF Pads
  <2> HIDE DEF w
  <2> QED BY <2>1, <2>2 DEF PadIs
<1> HIDE DEF w
<1> DEFINE m == ModeSet(f, p.mode)
           s == IF Leaves(f) THEN "COMMAND_END" ELSE p.status
           k == IF Leaves(f) THEN "JUST_ENTERED" ELSE "CONFIG_COMMAND_END"
           x == [w EXCEPT !.in_fifo = none, !.mode = m, !.status = s, !.conf = k]
<1>6. ConfigCommandEnd(w) = x
  BY <1>4 DEF ConfigCommandEnd, ModeSet, Leaves, PadIs, none
<1>7. /\ Leaves(f) => s = "COMMAND_END" /\ k = "JUST_ENTERED"
      /\ ~Leaves(f) => s = p.status /\ k = "CONFIG_COMMAND_END"
      /\ m \in PadModes /\ s \in Statuses /\ k \in Confs
  BY <1>2 DEF ModeSet, PadModes, Statuses, Confs
<1> HIDE DEF s, k, m
<1>8. PadIs(x, s, k, m, none, r)
  <2>0. w \in Pads /\ w.response = r
    BY <1>4 DEF PadIs
  <2>1. x \in Pads
    BY <1>2, <1>7, <2>0 DEF Pads, PadModes, Statuses, Confs
  <2>2. /\ x.status = s /\ x.conf = k /\ x.mode = m /\ x.in_fifo = none
        /\ x.response = w.response
    BY <2>0 DEF Pads
  <2> HIDE DEF x
  <2> QED BY <2>0, <2>1, <2>2 DEF PadIs
<1> HIDE DEF x
<1> QED BY <1>1, <1>4, <1>6, <1>7, <1>8 DEF f, r, m, none

\* Any byte in any state.
LEMMA ReceivesType ==
    ASSUME NEW p \in Pads, NEW b \in Bytes
    PROVE  PadReceives(p, b) \in Pads
<1>0. p.status \in Statuses /\ p.conf \in Confs
  BY PadFields DEF Statuses, Confs
<1>1. CASE p.status = "IDLE"
  <2>1. PadReceives(p, b) = IdleProcessByte(p, b)
    BY <1>1 DEF PadReceives
  <2> QED BY <2>1, IdleByte DEF PadIs
<1>2. CASE p.status = "CONFIG" /\ p.conf = "JUST_ENTERED"
  <2>1. PadReceives(p, b) = JustEnteredByte(p, b)
    BY <1>2 DEF PadReceives, ConfigProcessByte
  <2> QED BY <2>1, EnterByte DEF PadIs
<1>3. CASE p.status = "CONFIG" /\ p.conf = "CONFIG_IDLE" /\ p.in_fifo = <<>>
  <2>1. PadReceives(p, b) = ConfigIdleProcessByte(p, b)
    BY <1>3 DEF PadReceives, ConfigProcessByte
  <2> QED BY <2>1, ConfigByte DEF PadIs
<1>4. CASE p.status = "CONFIG" /\ p.conf = "CONFIG_IDLE" /\ p.in_fifo # <<>>
  <2>1. PadReceives(p, b) = ConfigArgument(p, b)
    BY <1>4 DEF PadReceives, ConfigProcessByte
  <2> QED BY <2>1, ArgumentByte DEF PadIs
<1>5. CASE p.status = "CONFIG" /\ p.conf = "CONFIG_COMMAND_END"
  <2> DEFINE brk == "BREAK"
  <2>1. PadReceives(p, b) = [p EXCEPT !.status = brk] /\ brk \in Statuses
    BY <1>5 DEF PadReceives, ConfigProcessByte, Break, Statuses
  <2> HIDE DEF brk
  <2> QED BY <2>1, PadStatus DEF PadIs
<1>6. CASE p.status = "COMMAND_END"
  <2> DEFINE idle == "IDLE"
  <2>1. PadReceives(p, b) = [p EXCEPT !.status = idle] /\ idle \in Statuses
    BY <1>6 DEF PadReceives, Statuses
  <2> HIDE DEF idle
  <2> QED BY <2>1, PadStatus DEF PadIs
<1>7. CASE p.status \in {"READ_STAT", "BREAK"}
  <2>1. PadReceives(p, b) = p
    BY <1>7 DEF PadReceives
  <2> QED BY <2>1
<1> QED BY <1>0, <1>1, <1>2, <1>3, <1>4, <1>5, <1>6, <1>7 DEF Statuses, Confs

\* One reply leaves for every byte.
LEMMA SendFacts ==
    ASSUME NEW p \in Pads, NEW b \in Bytes
    PROVE  LET q == PadReceives(p, b)
               left == IF q.response = 0 THEN 0 ELSE q.response - 1
               s == IF left = 0 /\ q.status = "READ_STAT" THEN "COMMAND_END" ELSE q.status
           IN  PadIs(PadSend(p, b), s, q.conf, q.mode, q.in_fifo, left)
<1> DEFINE q == PadReceives(p, b)
           left == IF q.response = 0 THEN 0 ELSE q.response - 1
           s == IF left = 0 /\ q.status = "READ_STAT" THEN "COMMAND_END" ELSE q.status
           x == [q EXCEPT !.response = left, !.status = s]
<1>1. q \in Pads
  BY ReceivesType
<1>2. PadSend(p, b) = x
  BY DEF PadSend
<1> HIDE DEF q
<1>3. left \in Nat /\ s \in Statuses
  BY <1>1, PadFields DEF Statuses
<1> HIDE DEF left, s
<1>4. x \in Pads
  BY <1>1, <1>3 DEF Pads, Statuses
<1>5. /\ x.status = s /\ x.conf = q.conf /\ x.mode = q.mode /\ x.in_fifo = q.in_fifo
      /\ x.response = left
  BY <1>1 DEF Pads
<1> HIDE DEF x
<1>6. PadIs(x, s, q.conf, q.mode, q.in_fifo, left)
  BY <1>4, <1>5 DEF PadIs
<1> QED BY <1>2, <1>6 DEF q, left, s

LEMMA AckedFacts ==
    ASSUME NEW p \in Pads
    PROVE  LET q == PadAcked(p) IN
           /\ p.status = "COMMAND_END"
                => PadIs(q, "IDLE", p.conf, p.mode, p.in_fifo, p.response)
           /\ p.status = "CONFIG" /\ p.conf = "CONFIG_COMMAND_END"
                => PadIs(q, p.status, "CONFIG_IDLE", p.mode, p.in_fifo, p.response)
           /\ p.status # "COMMAND_END" /\ ~(p.status = "CONFIG" /\ p.conf = "CONFIG_COMMAND_END")
                => q = p
           /\ q \in Pads
<1> DEFINE idle == "IDLE"
           cidle == "CONFIG_IDLE"
           y == [p EXCEPT !.conf = cidle]
<1>0. idle \in Statuses /\ cidle \in Confs
  BY DEF Statuses, Confs
<1>1. p.status = "COMMAND_END" => PadAcked(p) = [p EXCEPT !.status = idle]
  BY DEF PadAcked
<1>2. p.status = "CONFIG" /\ p.conf = "CONFIG_COMMAND_END" => PadAcked(p) = y
  BY DEF PadAcked
<1>3. p.status # "COMMAND_END" /\ ~(p.status = "CONFIG" /\ p.conf = "CONFIG_COMMAND_END")
        => PadAcked(p) = p
  BY DEF PadAcked
<1> HIDE DEF idle, cidle
<1>4. PadIs(y, p.status, cidle, p.mode, p.in_fifo, p.response)
  <2>1. y \in Pads
    BY <1>0 DEF Pads, Confs
  <2>2. /\ y.status = p.status /\ y.conf = cidle /\ y.mode = p.mode
        /\ y.in_fifo = p.in_fifo /\ y.response = p.response
    BY DEF Pads
  <2> HIDE DEF y
  <2> QED BY <2>1, <2>2 DEF PadIs
<1> HIDE DEF y
<1>5. p.status = "COMMAND_END"
        => PadIs(PadAcked(p), idle, p.conf, p.mode, p.in_fifo, p.response)
  BY <1>0, <1>1, PadStatus
<1> QED BY <1>2, <1>3, <1>4, <1>5 DEF idle, cidle, PadIs

LEMMA ResetFacts ==
    ASSUME NEW p \in Pads
    PROVE  LET s == IF p.status \in {"CONFIG", "BREAK"} THEN p.status ELSE "IDLE"
           IN  PadIs(PadReset(p), s, p.conf, p.mode, p.in_fifo, 0)
<1> DEFINE s == IF p.status \in {"CONFIG", "BREAK"} THEN p.status ELSE "IDLE"
           zero == 0
           x == [p EXCEPT !.response = zero, !.status = s]
<1>1. s \in Statuses /\ zero \in Nat
  BY DEF Statuses
<1>2. PadReset(p) = x
  BY DEF PadReset
<1> HIDE DEF s, zero
<1>3. x \in Pads
  BY <1>1 DEF Pads, Statuses
<1>4. /\ x.status = s /\ x.conf = p.conf /\ x.mode = p.mode /\ x.in_fifo = p.in_fifo
      /\ x.response = zero
  BY DEF Pads
<1> HIDE DEF x
<1>5. PadIs(x, s, p.conf, p.mode, p.in_fifo, zero)
  BY <1>3, <1>4 DEF PadIs
<1> QED BY <1>2, <1>5 DEF s, zero

(***************************************************************************)
(* An exchange with the pad, byte by byte.  k is the mode that the         *)
(* complete exchanges left the pad in, h the bytes of this one.            *)
(***************************************************************************)
SameMode(p, k) == p.mode = "ANALOG" <=> k.analog

\* The pad between two exchanges.
Rest(p, k) ==
    /\ p \in Pads /\ p.response = 0 /\ p.in_fifo = <<>> /\ SameMode(p, k)
    /\ k.config => p.status = "CONFIG" /\ p.conf = "CONFIG_IDLE"
    /\ ~k.config => p.status = "IDLE"

\* The replies that wait in the pad after n bytes of a configuration command.
Waiting(command, n) ==
    IF command = GET_VARIABLE_RESPONSE /\ n < 4 THEN 3 - n ELSE 9 - n

\* The pad after the command byte.
Mid(p, k, h) ==
    /\ p \in Pads /\ SameMode(p, k)
    /\ Len(h) >= 2 /\ Len(h) < Frame(k)
    /\ \/ /\ ~k.config /\ h[2] = READ
          /\ p.status = "READ_STAT" /\ p.in_fifo = <<>> /\ p.response = Frame(k) - Len(h)
       \/ /\ ~k.config /\ h[2] = CONFIG_MODE
          /\ p.status = "CONFIG" /\ p.conf = "JUST_ENTERED"
          /\ Len(p.in_fifo) = Len(h) - 2 /\ (Len(h) >= 4 => p.in_fifo[2] = h[4])
          /\ p.response = Frame(k) - Len(h)
       \/ /\ k.config /\ h[2] \in ConfigCommands
          /\ p.status = "CONFIG" /\ p.conf = "CONFIG_IDLE"
          /\ Len(p.in_fifo) = Len(h) - 1 /\ p.in_fifo[1] = h[2]
          /\ Len(h) >= 4 => p.in_fifo[3] = h[4]
          /\ p.response = Waiting(h[2], Len(h))

LEMMA FrameFacts ==
    ASSUME NEW k \in Known, NEW p \in Pads, SameMode(p, k)
    PROVE  /\ Frame(k) \in {5, 9}
           /\ k.config => Frame(k) = 9
           /\ ~k.config => GetTransferLength(p) = Frame(k)
           /\ ~k.config => (IF p.mode = "ANALOG" THEN 8 ELSE 4) = Frame(k) - 1
<1>1. k.config \in BOOLEAN /\ k.analog \in BOOLEAN
  BY DEF Known
<1>2. CASE k.analog
  <2>1. p.mode = "ANALOG"
    BY <1>2 DEF SameMode
  <2> QED BY <1>2, <2>1 DEF Frame, GetTransferLength
<1>3. CASE ~k.analog
  <2>1. p.mode # "ANALOG"
    BY <1>3 DEF SameMode
  <2> QED BY <1>3, <2>1 DEF Frame, GetTransferLength
<1> QED BY <1>2, <1>3

\* The command byte.
LEMMA Begins ==
    ASSUME NEW k \in Known, NEW p, Rest(p, k), NEW b \in Bytes,
           p.status = "IDLE" => b \in {READ, CONFIG_MODE},
           p.status = "CONFIG" => b \in ConfigCommands,
           NEW h, Len(h) = 2, h[2] = b
    PROVE  /\ Mid(PadSend(p, b), k, h)
           /\ PadReceives(p, b).response # 0
<1> DEFINE q == PadReceives(p, b)
           x == PadSend(p, b)
<1>1. p \in Pads /\ p.response = 0 /\ p.in_fifo = <<>> /\ SameMode(p, k)
  BY DEF Rest
<1>2. Len(h) = 2 /\ h[2] = b
  OBVIOUS
<1>3. Frame(k) \in {5, 9}
  BY <1>1, FrameFacts
<1>4. CASE ~k.config
  <2>0. p.status = "IDLE" /\ q = IdleProcessByte(p, b)
    BY <1>4 DEF Rest, PadReceives
  <2> HIDE DEF q
  <2> DEFINE r == p.response + (IF p.mode = "ANALOG" THEN 8 ELSE 4)
  <2>1. r = Frame(k) - 1
    BY <1>1, <1>3, <1>4, FrameFacts
  <2>2. /\ b = READ => PadIs(q, "READ_STAT", p.conf, p.mode, p.in_fifo, r)
        /\ b = CONFIG_MODE => PadIs(q, "CONFIG", "JUST_ENTERED", p.mode, p.in_fifo, r)
    BY <1>1, <2>0, IdleByte
  <2> HIDE DEF r
  <2> DEFINE left == IF q.response = 0 THEN 0 ELSE q.response - 1
             s == IF left = 0 /\ q.status = "READ_STAT" THEN "COMMAND_END" ELSE q.status
  <2>3. PadIs(x, s, q.conf, q.mode, q.in_fifo, left)
    BY <1>1, SendFacts DEF q
  <2>4. q.response = Frame(k) - 1 /\ q.mode = p.mode /\ q.in_fifo = <<>>
    BY <1>1, <2>0, <2>1, <2>2 DEF PadIs
  <2>5. left = Frame(k) - 2 /\ left # 0 /\ q.response # 0
    BY <1>3, <2>4
  <2> HIDE DEF left
  <2>6. s = q.status
    BY <2>5
  <2> HIDE DEF s, x
  <2>7. x \in Pads /\ SameMode(x, k) /\ x.response = Frame(k) - 2 /\ x.in_fifo = <<>>
        /\ x.status = q.status /\ x.conf = q.conf
    BY <1>1, <2>3, <2>4, <2>5, <2>6 DEF PadIs, SameMode
  <2>8. b = READ => q.status = "READ_STAT"
    BY <2>2 DEF PadIs
  <2>9. b = CONFIG_MODE => q.status = "CONFIG" /\ q.conf = "JUST_ENTERED"
    BY <2>2 DEF PadIs
  <2>10. Mid(x, k, h)
    <3>1. Len(x.in_fifo) = Len(h) - 2
      BY <1>2, <2>7
    <3>2. 2 < Frame(k)
      BY <1>3
    <3> QED BY <1>2, <1>4, <2>0, <2>7, <2>8, <2>9, <3>1, <3>2 DEF Mid
  <2> QED BY <2>5, <2>10 DEF x, q
<1>5. CASE k.config
  <2>0. p.status = "CONFIG" /\ p.conf = "CONFIG_IDLE" /\ q = ConfigIdleProcessByte(p, b)
    BY <1>1, <1>5 DEF Rest, PadReceives, ConfigProcessByte
  <2> HIDE DEF q
  <2> DEFINE r == p.response + (IF b = GET_VARIABLE_RESPONSE THEN 2 ELSE 8)
             f == <<b>>
  <2>1. r = Waiting(b, 2) + 1 /\ r \in Nat \ {0} /\ Waiting(b, 2) \in Nat
    BY <1>1 DEF Waiting
  <2>2. PadIs(q, p.status, p.conf, p.mode, f, r)
    BY <1>1, <2>0, ConfigByte
  <2>3. Len(f) = 1 /\ f[1] = b
    OBVIOUS
  <2> HIDE DEF r, f
  <2> DEFINE left == IF q.response = 0 THEN 0 ELSE q.response - 1
             s == IF left = 0 /\ q.status = "READ_STAT" THEN "COMMAND_END" ELSE q.status
  <2>4. PadIs(x, s, q.conf, q.mode, q.in_fifo, left)
    BY <1>1, SendFacts DEF q
  <2>5. left = Waiting(b, 2) /\ s = "CONFIG" /\ q.response # 0
    BY <2>0, <2>1, <2>2 DEF PadIs
  <2> HIDE DEF left, s, x
  <2>6. x \in Pads /\ SameMode(x, k) /\ x.response = Waiting(b, 2) /\ x.in_fifo = f
        /\ x.status = "CONFIG" /\ x.conf = "CONFIG_IDLE"
    BY <1>1, <2>0, <2>2, <2>4, <2>5 DEF PadIs, SameMode
  <2>7. Mid(x, k, h)
    BY <1>2, <1>3, <1>5, <2>0, <2>3, <2>6 DEF Mid
  <2> QED BY <2>5, <2>7 DEF x, q
<1>6. k.config \in BOOLEAN
  BY DEF Known
<1> QED BY <1>4, <1>5, <1>6

\* The next byte of a read exchange.
LEMMA ReadByte ==
    ASSUME NEW p \in Pads, NEW b \in Bytes, p.status = "READ_STAT", p.response # 0
    PROVE  LET s == IF p.response = 1 THEN "COMMAND_END" ELSE "READ_STAT" IN
           /\ PadIs(PadSend(p, b), s, p.conf, p.mode, p.in_fifo, p.response - 1)
           /\ PadReceives(p, b).response # 0
<1> DEFINE q == PadReceives(p, b)
           x == PadSend(p, b)
           left == IF q.response = 0 THEN 0 ELSE q.response - 1
           s == IF left = 0 /\ q.status = "READ_STAT" THEN "COMMAND_END" ELSE q.status
           t == IF p.response = 1 THEN "COMMAND_END" ELSE "READ_STAT"
<1>1. q = p
  BY DEF PadReceives
<1>2. PadIs(x, s, q.conf, q.mode, q.in_fifo, left)
  BY SendFacts
<1> HIDE DEF q, x
<1>3. left = p.response - 1 /\ s = t
  BY <1>1, PadFields
<1> HIDE DEF left, s
<1> QED BY <1>1, <1>2, <1>3 DEF x, q

\* Every byte but the last one keeps the relation.
LEMMA Continues ==
    ASSUME NEW k \in Known, NEW p, NEW h \in Seq(Bytes), NEW b \in Bytes,
           Mid(p, k, h), Len(h) + 1 < Frame(k)
    PROVE  /\ Mid(PadSend(p, b), k, Append(h, b))
           /\ PadReceives(p, b).response # 0
<1> DEFINE u == Append(h, b)
           q == PadReceives(p, b)
           x == PadSend(p, b)
           f == Append(p.in_fifo, b)
           n == Len(h)
           left == IF q.response = 0 THEN 0 ELSE q.response - 1
           s == IF left = 0 /\ q.status = "READ_STAT" THEN "COMMAND_END" ELSE q.status
<1>1. p \in Pads /\ SameMode(p, k) /\ n >= 2 /\ n \in Nat /\ p.response \in Nat
      /\ p.in_fifo \in Seq(Bytes)
  BY PadFields DEF Mid
<1>2. Frame(k) \in {5, 9} /\ n + 1 < Frame(k)
  BY <1>1, FrameFacts
<1>3. /\ Len(u) = n + 1 /\ u[2] = h[2] /\ u[n + 1] = b
      /\ n >= 4 => u[4] = h[4]
  BY <1>1, AppendFacts
<1>4. /\ f \in Seq(Bytes) /\ Len(f) = Len(p.in_fifo) + 1
      /\ \A i \in 1..Len(p.in_fifo) : f[i] = p.in_fifo[i]
      /\ f[Len(p.in_fifo) + 1] = b
  BY <1>1, AppendFacts
<1>5. PadIs(x, s, q.conf, q.mode, q.in_fifo, left)
  BY <1>1, SendFacts
<1> HIDE DEF n, u
<1>6. CASE ~k.config /\ h[2] = READ
  <2>1. p.status = "READ_STAT" /\ p.in_fifo = <<>> /\ p.response = Frame(k) - n
    BY <1>6 DEF Mid, n, READ, CONFIG_MODE
  <2>2. p.response # 0 /\ p.response # 1
    BY <1>1, <1>2, <2>1
  <2>3. PadIs(x, "READ_STAT", p.conf, p.mode, p.in_fifo, p.response - 1) /\ q.response # 0
    BY <1>1, <2>1, <2>2, ReadByte
  <2> HIDE DEF x, q
  <2>4. /\ x \in Pads /\ SameMode(x, k) /\ x.status = "READ_STAT" /\ x.in_fifo = <<>>
        /\ x.response = Frame(k) - (n + 1)
    BY <1>1, <1>2, <2>1, <2>3 DEF PadIs, SameMode
  <2>5. Mid(x, k, u)
    BY <1>1, <1>2, <1>3, <1>6, <2>4 DEF Mid
  <2> QED BY <2>3, <2>5 DEF x, u, q
<1>7. CASE ~k.config /\ h[2] = CONFIG_MODE
  <2>1. /\ p.status = "CONFIG" /\ p.conf = "JUST_ENTERED"
        /\ Len(p.in_fifo) = n - 2 /\ (n >= 4 => p.in_fifo[2] = h[4])
        /\ p.response = Frame(k) - n
    BY <1>7 DEF Mid, n, READ, CONFIG_MODE
  <2>2. q = JustEnteredByte(p, b)
    BY <2>1 DEF PadReceives, ConfigProcessByte
  <2>3. Len(f) # GetTransferLength(p) - 2
    BY <1>1, <1>2, <1>4, <1>7, <2>1, FrameFacts, SMTT(30)
  <2>4. PadIs(q, p.status, p.conf, p.mode, f, p.response)
    BY <1>1, <2>2, <2>3, EnterByte
  <2> HIDE DEF q, x, f
  <2>5. left = Frame(k) - (n + 1) /\ q.response # 0
    BY <1>1, <1>2, <2>1, <2>4 DEF PadIs
  <2>6. s = "CONFIG"
    BY <2>1, <2>4 DEF PadIs
  <2> HIDE DEF left, s
  <2>7. /\ x \in Pads /\ SameMode(x, k) /\ x.status = "CONFIG" /\ x.conf = "JUST_ENTERED"
        /\ x.in_fifo = f /\ x.response = Frame(k) - (n + 1)
    BY <1>1, <1>5, <2>1, <2>4, <2>5, <2>6 DEF PadIs, SameMode
  <2>8. Len(f) = (n + 1) - 2
    BY <1>1, <1>4, <2>1
  <2>9. n + 1 >= 4 => f[2] = u[4]
    <3>1. CASE n = 3
      BY <1>3, <1>4, <2>1, <3>1
    <3>2. CASE n >= 4
      BY <1>1, <1>3, <1>4, <2>1, <3>2
    <3> QED BY <1>1, <3>1, <3>2
  <2>10. Mid(x, k, u)
    BY <1>1, <1>2, <1>3, <1>7, <2>7, <2>8, <2>9 DEF Mid
  <2> QED BY <2>5, <2>10 DEF x, u, q
<1>8. CASE k.config
  <2>1. /\ p.status = "CONFIG" /\ p.conf = "CONFIG_IDLE" /\ h[2] \in ConfigCommands
        /\ Len(p.in_fifo) = n - 1 /\ p.in_fifo[1] = h[2]
        /\ n >= 4 => p.in_fifo[3] = h[4]
        /\ p.response = Waiting(h[2], n)
    BY <1>8 DEF Mid, n
  <2>2. Frame(k) = 9 /\ n \in 2..7
    BY <1>1, <1>2, <1>8, FrameFacts
  <2>3. q = ConfigArgument(p, b)
    <3>1. p.in_fifo # <<>>
      <4>1. Len(<<>>) = 0
        OBVIOUS
      <4>2. Len(p.in_fifo) # 0
        BY <2>1, <2>2
      <4> QED BY <4>1, <4>2
    <3> QED BY <2>1, <3>1 DEF PadReceives, ConfigProcessByte
  <2> DEFINE r == p.response + (IF Len(f) = 3 /\ f[1] = GET_VARIABLE_RESPONSE THEN 6 ELSE 0)
  <2>4. Len(f) = n /\ f[1] = h[2]
    BY <1>1, <1>4, <2>1, <2>2
  <2>5. PadIs(q, p.status, p.conf, p.mode, f, r)
    <3>1. Len(f) # 8
      BY <2>2, <2>4
    <3> QED BY <1>1, <2>3, <3>1, ArgumentByte
  <2> HIDE DEF q, x, f
  <2>6. r = Waiting(h[2], n + 1) + 1 /\ Waiting(h[2], n + 1) \in Nat
    BY <2>1, <2>2, <2>4 DEF Waiting
  <2> HIDE DEF r
  <2>7. left = Waiting(h[2], n + 1) /\ q.response # 0
    BY <2>5, <2>6 DEF PadIs
  <2>8. s = "CONFIG"
    BY <2>1, <2>5 DEF PadIs
  <2> HIDE DEF left, s
  <2>9. /\ x \in Pads /\ SameMode(x, k) /\ x.status = "CONFIG" /\ x.conf = "CONFIG_IDLE"
        /\ x.in_fifo = f /\ x.response = Waiting(h[2], n + 1)
    BY <1>1, <1>5, <2>1, <2>5, <2>7, <2>8 DEF PadIs, SameMode
  <2>10. n + 1 >= 4 => f[3] = u[4]
    <3>1. CASE n = 3
      BY <1>3, <1>4, <2>1, <3>1
    <3>2. CASE n >= 4
      <4>1. 3 \in 1..Len(p.in_fifo)
        BY <1>1, <2>1, <3>2
      <4>2. f[3] = p.in_fifo[3]
        BY <1>4, <4>1
      <4> QED BY <1>3, <2>1, <3>2, <4>2
    <3> QED BY <1>1, <3>1, <3>2
  <2>11. Mid(x, k, u)
    BY <1>1, <1>2, <1>3, <1>8, <2>1, <2>4, <2>9, <2>10 DEF Mid
  <2> QED BY <2>7, <2>11 DEF x, u, q
<1> QED BY <1>6, <1>7, <1>8 DEF Mid

\* The mode that a complete exchange leaves.
LEMMA ModeAfterFacts ==
    ASSUME NEW k \in Known, NEW u
    PROVE  LET m == ModeAfter(k, u) IN
           /\ m \in Known
           /\ u[2] = CONFIG_MODE /\ ~k.config
                => m.config = (u[4] # 0) /\ m.analog = k.analog
           /\ u[2] = CONFIG_MODE /\ k.config
                => m.config = (u[4] % 2 = 1) /\ m.analog = k.analog
           /\ u[2] = SET_LET_STATE => m.config = k.config /\ m.analog = (u[4] = 1)
           /\ u[2] \notin {CONFIG_MODE, SET_LET_STATE} => m = k
<1> DEFINE m == ModeAfter(k, u)
           a == u[4] # 0
           o == u[4] % 2 = 1
           one == u[4] = 1
<1>1. a \in BOOLEAN /\ o \in BOOLEAN /\ one \in BOOLEAN
  OBVIOUS
<1>2. /\ u[2] = CONFIG_MODE /\ ~k.config => m = [k EXCEPT !.config = a]
      /\ u[2] = CONFIG_MODE /\ k.config => m = [k EXCEPT !.config = o]
      /\ u[2] = SET_LET_STATE => m = [k EXCEPT !.analog = one]
      /\ u[2] \notin {CONFIG_MODE, SET_LET_STATE} => m = k
  BY DEF ModeAfter, CONFIG_MODE, SET_LET_STATE
<1> HIDE DEF a, o, one
<1>3. ASSUME NEW v \in BOOLEAN
      PROVE  /\ [k EXCEPT !.config = v] \in Known
             /\ [k EXCEPT !.config = v].config = v
             /\ [k EXCEPT !.config = v].analog = k.analog
             /\ [k EXCEPT !.analog = v] \in Known
             /\ [k EXCEPT !.analog = v].config = k.config
             /\ [k EXCEPT !.analog = v].analog = v
  BY DEF Known
<1>4. k.config \in BOOLEAN
  BY DEF Known
<1> HIDE DEF m
<1>5. CASE u[2] = CONFIG_MODE /\ ~k.config
  <2>1. m \in Known /\ m.config = a /\ m.analog = k.analog
    BY <1>1, <1>2, <1>3, <1>5
  <2> QED BY <1>5, <2>1 DEF m, a, CONFIG_MODE, SET_LET_STATE
<1>6. CASE u[2] = CONFIG_MODE /\ k.config
  <2>1. m \in Known /\ m.config = o /\ m.analog = k.analog
    BY <1>1, <1>2, <1>3, <1>6
  <2> QED BY <1>6, <2>1 DEF m, o, CONFIG_MODE, SET_LET_STATE
<1>7. CASE u[2] = SET_LET_STATE
  <2>1. m \in Known /\ m.config = k.config /\ m.analog = one
    BY <1>1, <1>2, <1>3, <1>7
  <2> QED BY <1>7, <2>1 DEF m, one, CONFIG_MODE, SET_LET_STATE
<1>8. CASE u[2] \notin {CONFIG_MODE, SET_LET_STATE}
  BY <1>2, <1>8 DEF m
<1> QED BY <1>4, <1>5, <1>6, <1>7, <1>8

\* The last byte: the pad drops out, and is in the mode that the exchange asked for.
LEMMA Ends ==
    ASSUME NEW k \in Known, NEW p, NEW h \in Seq(Bytes), NEW b \in Bytes,
           Mid(p, k, h), Len(h) + 1 = Frame(k)
    PROVE  LET x == PadSend(p, b)
               u == Append(h, b) IN
           /\ ~PadAck(x)
           /\ Rest(PadAcked(x), ModeAfter(k, u))
           /\ PadReceives(p, b).response # 0
<1> DEFINE u == Append(h, b)
           q == PadReceives(p, b)
           x == PadSend(p, b)
           f == Append(p.in_fifo, b)
           n == Len(h)
           m == ModeAfter(k, u)
           left == IF q.response = 0 THEN 0 ELSE q.response - 1
           s == IF left = 0 /\ q.status = "READ_STAT" THEN "COMMAND_END" ELSE q.status
<1>1. p \in Pads /\ SameMode(p, k) /\ n >= 2 /\ n \in Nat /\ p.response \in Nat
      /\ p.in_fifo \in Seq(Bytes)
  BY PadFields DEF Mid
<1>2. Frame(k) \in {5, 9} /\ n + 1 = Frame(k)
  BY <1>1, FrameFacts
<1>3. u[2] = h[2] /\ u[4] = h[4] /\ u[4] \in Nat
  <2>1. 2 \in 1..n /\ 4 \in 1..n
    BY <1>1, <1>2
  <2>2. \A i \in 1..n : u[i] = h[i] /\ h[i] \in Bytes
    BY AppendFacts
  <2>3. u[4] \in Bytes
    BY <2>1, <2>2
  <2> QED BY <2>1, <2>2, <2>3 DEF Bytes
<1>4. /\ f \in Seq(Bytes) /\ Len(f) = Len(p.in_fifo) + 1
      /\ \A i \in 1..Len(p.in_fifo) : f[i] = p.in_fifo[i]
  BY <1>1, AppendFacts
<1>5. PadIs(x, s, q.conf, q.mode, q.in_fifo, left)
  BY <1>1, SendFacts
<1>m. /\ m \in Known
      /\ u[2] = CONFIG_MODE /\ ~k.config
           => m.config = (u[4] # 0) /\ m.analog = k.analog
      /\ u[2] = CONFIG_MODE /\ k.config
           => m.config = (u[4] % 2 = 1) /\ m.analog = k.analog
      /\ u[2] = SET_LET_STATE => m.config = k.config /\ m.analog = (u[4] = 1)
      /\ u[2] \notin {CONFIG_MODE, SET_LET_STATE} => m = k
  BY ModeAfterFacts
<1> HIDE DEF n, u, m
<1>6. CASE ~k.config /\ h[2] = READ
  <2>1. p.status = "READ_STAT" /\ p.in_fifo = <<>> /\ p.response = Frame(k) - n
    BY <1>6 DEF Mid, n, READ, CONFIG_MODE
  <2>2. p.response = 1
    BY <1>1, <1>2, <2>1
  <2>3. PadIs(x, "COMMAND_END", p.conf, p.mode, p.in_fifo, p.response - 1)
        /\ q.response # 0
    BY <1>1, <2>1, <2>2, ReadByte
  <2> HIDE DEF x, q
  <2>4. /\ x \in Pads /\ x.status = "COMMAND_END" /\ x.mode = p.mode /\ x.in_fifo = <<>>
        /\ x.response = 0
    BY <2>1, <2>2, <2>3 DEF PadIs
  <2>5. ~PadAck(x)
    BY <2>4 DEF PadAck
  <2>6. PadIs(PadAcked(x), "IDLE", x.conf, x.mode, x.in_fifo, x.response)
    BY <2>4, AckedFacts
  <2>7. m = k
    BY <1>3, <1>6, <1>m DEF READ, CONFIG_MODE, SET_LET_STATE
  <2>8. Rest(PadAcked(x), m)
    BY <1>1, <1>6, <2>4, <2>6, <2>7 DEF PadIs, Rest, SameMode
  <2> QED BY <2>3, <2>5, <2>8 DEF x, u, q, m
<1>7. CASE ~k.config /\ h[2] = CONFIG_MODE
  <2>1. /\ p.status = "CONFIG" /\ p.conf = "JUST_ENTERED"
        /\ Len(p.in_fifo) = n - 2 /\ p.in_fifo[2] = h[4]
        /\ p.response = Frame(k) - n
    BY <1>1, <1>2, <1>7 DEF Mid, n, READ, CONFIG_MODE
  <2>2. q = JustEnteredByte(p, b)
    BY <2>1 DEF PadReceives, ConfigProcessByte
  <2>3. Len(f) = GetTransferLength(p) - 2
    BY <1>1, <1>2, <1>4, <1>7, <2>1, FrameFacts
  <2>4. f[2] = u[4]
    <3>1. 2 \in 1..Len(p.in_fifo)
      BY <1>1, <1>2, <2>1
    <3> QED BY <1>3, <1>4, <2>1, <3>1
  <2>5. /\ u[4] = 0 => PadIs(q, "COMMAND_END", p.conf, p.mode, <<>>, p.response)
        /\ u[4] # 0 => PadIs(q, p.status, "CONFIG_COMMAND_END", p.mode, <<>>, p.response)
    BY <1>1, <2>2, <2>3, <2>4, EnterByte
  <2> HIDE DEF q, x, f
  <2>6. left = 0 /\ q.response # 0
    BY <1>1, <1>2, <2>1, <2>5 DEF PadIs
  <2>7. s = q.status
    BY <2>1, <2>5 DEF PadIs
  <2> HIDE DEF left, s
  <2>8. /\ x \in Pads /\ x.mode = p.mode /\ x.response = 0 /\ x.in_fifo = <<>>
        /\ u[4] = 0 => x.status = "COMMAND_END"
        /\ u[4] # 0 => x.status = "CONFIG" /\ x.conf = "CONFIG_COMMAND_END"
    BY <1>5, <2>1, <2>5, <2>6, <2>7 DEF PadIs
  <2>9. ~PadAck(x)
    BY <2>8 DEF PadAck
  <2>10. /\ u[4] = 0 => PadIs(PadAcked(x), "IDLE", x.conf, x.mode, x.in_fifo, x.response)
         /\ u[4] # 0 => PadIs(PadAcked(x), "CONFIG", "CONFIG_IDLE", x.mode, x.in_fifo,
                              x.response)
    BY <2>8, AckedFacts
  <2>11. m.config = (u[4] # 0) /\ m.analog = k.analog
    BY <1>3, <1>7, <1>m
  <2>12. Rest(PadAcked(x), m)
    BY <1>1, <2>8, <2>10, <2>11 DEF PadIs, Rest, SameMode
  <2> QED BY <2>6, <2>9, <2>12 DEF x, u, q, m
<1>8. CASE k.config
  <2>1. /\ p.status = "CONFIG" /\ p.conf = "CONFIG_IDLE" /\ h[2] \in ConfigCommands
        /\ Len(p.in_fifo) = n - 1 /\ p.in_fifo[1] = h[2]
        /\ n >= 4 => p.in_fifo[3] = h[4]
        /\ p.response = Waiting(h[2], n)
    BY <1>8 DEF Mid, n
  <2>2. n = 8
    BY <1>1, <1>2, <1>8, FrameFacts
  <2>3. q = ConfigArgument(p, b)
    <3>1. p.in_fifo # <<>>
      <4>1. Len(<<>>) = 0
        OBVIOUS
      <4>2. Len(p.in_fifo) # 0
        BY <2>1, <2>2
      <4> QED BY <4>1, <4>2
    <3> QED BY <2>1, <3>1 DEF PadReceives, ConfigProcessByte
  <2> DEFINE r == p.response + (IF Len(f) = 3 /\ f[1] = GET_VARIABLE_RESPONSE THEN 6 ELSE 0)
             w == ModeSet(f, p.mode)
  <2>4. Len(f) = 8 /\ f[1] = u[2] /\ f[3] = u[4]
    <3>1. 1 \in 1..Len(p.in_fifo) /\ 3 \in 1..Len(p.in_fifo)
      BY <2>1, <2>2
    <3>2. f[1] = p.in_fifo[1] /\ f[3] = p.in_fifo[3]
      BY <1>4, <3>1
    <3> QED BY <1>3, <1>4, <2>1, <2>2, <3>2
  <2>5. r = 1
    BY <2>1, <2>2, <2>4 DEF Waiting
  <2>6. /\ Leaves(f) => PadIs(q, "COMMAND_END", "JUST_ENTERED", w, <<>>, r)
        /\ ~Leaves(f) => PadIs(q, p.status, "CONFIG_COMMAND_END", w, <<>>, r)
    BY <1>1, <2>3, <2>4, ArgumentByte
  <2> HIDE DEF r, w
  <2>7. /\ Leaves(f) <=> u[2] = CONFIG_MODE /\ u[4] % 2 = 0
        /\ w = IF u[2] # SET_LET_STATE THEN p.mode
               ELSE IF u[4] = 1 THEN "ANALOG" ELSE "DIGITAL"
    BY <2>4 DEF Leaves, ModeSet, w
  <2> HIDE DEF q, x, f
  <2>8. left = 0 /\ q.response # 0
    BY <2>5, <2>6 DEF PadIs
  <2>9. s = q.status
    BY <2>1, <2>6 DEF PadIs
  <2> HIDE DEF left, s
  <2>10. /\ x \in Pads /\ x.mode = w /\ x.response = 0 /\ x.in_fifo = <<>>
         /\ Leaves(f) => x.status = "COMMAND_END"
         /\ ~Leaves(f) => x.status = "CONFIG" /\ x.conf = "CONFIG_COMMAND_END"
    BY <1>5, <2>1, <2>6, <2>8, <2>9 DEF PadIs
  <2>11. ~PadAck(x)
    BY <2>10 DEF PadAck
  <2>12. /\ Leaves(f) => PadIs(PadAcked(x), "IDLE", x.conf, x.mode, x.in_fifo, x.response)
         /\ ~Leaves(f) => PadIs(PadAcked(x), "CONFIG", "CONFIG_IDLE", x.mode, x.in_fifo,
                                x.response)
    BY <2>10, AckedFacts
  <2>13. w = "ANALOG" <=> m.analog
    <3>1. u[2] = SET_LET_STATE => (w = "ANALOG" <=> u[4] = 1)
      BY <2>7
    <3>2. u[2] # SET_LET_STATE => w = p.mode /\ m.analog = k.analog
      BY <1>8, <1>m, <2>7
    <3> QED BY <1>1, <1>m, <3>1, <3>2 DEF SameMode
  <2>14. m.config <=> ~Leaves(f)
    <3>1. u[4] % 2 = 0 <=> ~(u[4] % 2 = 1)
      BY <1>3
    <3>2. u[2] = CONFIG_MODE => m.config = (u[4] % 2 = 1)
      BY <1>8, <1>m
    <3>3. u[2] # CONFIG_MODE => m.config
      BY <1>8, <1>m
    <3> QED BY <2>7, <3>1, <3>2, <3>3
  <2>15. Rest(PadAcked(x), m)
    BY <2>10, <2>12, <2>13, <2>14 DEF PadIs, Rest, SameMode
  <2> QED BY <2>8, <2>11, <2>15 DEF x, u, q, m
<1> QED BY <1>6, <1>7, <1>8 DEF Mid

(***************************************************************************)
(* The memory card.                                                        *)
(***************************************************************************)
CardStates == {"IDLE", "GETID", "READ", "WRITE", "BREAK"}
Numbers == 0..(BYTE * BYTE - 1)

\* A card with these members.
CardIs(c, state, status, step, sector, sector_valid, checksum_valid, temp, buffer) ==
    /\ c \in Cards
    /\ c.state = state /\ c.status = status /\ c.step = step /\ c.sector = sector
    /\ c.sector_valid = sector_valid /\ c.checksum_valid = checksum_valid
    /\ c.temp = temp /\ c.buffer = buffer

LEMMA CardFields ==
    ASSUME NEW c \in Cards
    PROVE  /\ c.state \in CardStates /\ c.status \in 1..7 /\ c.step \in Nat
           /\ c.sector \in Numbers /\ c.sector_valid \in BOOLEAN
           /\ c.checksum_valid \in BOOLEAN /\ c.temp \in SectorData
           /\ c.buffer \in [Sectors -> SectorData]
  BY DEF Cards, CardStates, Numbers, SectorData

\* The three ways in which a step is counted.
LEMMA CardCounts ==
    ASSUME NEW d \in Cards, NEW k \in Nat, NEW s \in 1..7
    PROVE  /\ CardIs([d EXCEPT !.step = k], d.state, d.status, k, d.sector,
                     d.sector_valid, d.checksum_valid, d.temp, d.buffer)
           /\ CardIs([d EXCEPT !.step = 0, !.status = s], d.state, s, 0, d.sector,
                     d.sector_valid, d.checksum_valid, d.temp, d.buffer)
           /\ CardIs([d EXCEPT !.step = 0, !.state = "IDLE", !.sector = 0], "IDLE",
                     d.status, 0, 0, d.sector_valid, d.checksum_valid, d.temp, d.buffer)
<1> DEFINE zero == 0
           idle == "IDLE"
           x == [d EXCEPT !.step = k]
           y == [d EXCEPT !.step = zero, !.status = s]
           z == [d EXCEPT !.step = zero, !.state = idle, !.sector = zero]
<1>1. zero \in Nat /\ zero \in Numbers /\ idle \in CardStates
  BY DEF Numbers, BYTE, CardStates
<1> HIDE DEF zero, idle
<1>2. CardIs(x, d.state, d.status, k, d.sector, d.sector_valid, d.checksum_valid,
             d.temp, d.buffer)
  <2>1. x \in Cards
    BY DEF Cards
  <2>2. /\ x.state = d.state /\ x.status = d.status /\ x.step = k /\ x.sector = d.sector
        /\ x.sector_valid = d.sector_valid /\ x.checksum_valid = d.checksum_valid
        /\ x.temp = d.temp /\ x.buffer = d.buffer
    BY DEF Cards
  <2> HIDE DEF x
  <2> QED BY <2>1, <2>2 DEF CardIs
<1>3. CardIs(y, d.state, s, zero, d.sector, d.sector_valid, d.checksum_valid,
             d.temp, d.buffer)
  <2>1. y \in Cards
    BY <1>1 DEF Cards
  <2>2. /\ y.state = d.state /\ y.status = s /\ y.step = zero /\ y.sector = d.sector
        /\ y.sector_valid = d.sector_valid /\ y.checksum_valid = d.checksum_valid
        /\ y.temp = d.temp /\ y.buffer = d.buffer
    BY DEF Cards
  <2> HIDE DEF y
  <2> QED BY <2>1, <2>2 DEF CardIs
<1>4. CardIs(z, idle, d.status, zero, zero, d.sector_valid, d.checksum_valid,
             d.temp, d.buffer)
  <2>1. z \in Cards
    BY <1>1 DEF Cards, Numbers, CardStates
  <2>2. /\ z.state = idle /\ z.status = d.status /\ z.step = zero /\ z.sector = zero
        /\ z.sector_valid = d.sector_valid /\ z.checksum_valid = d.checksum_valid
        /\ z.temp = d.temp /\ z.buffer = d.buffer
    BY DEF Cards
  <2> HIDE DEF z
  <2> QED BY <2>1, <2>2 DEF CardIs
<1> HIDE DEF x, y, z
<1> QED BY <1>2, <1>3, <1>4 DEF x, y, z, zero, idle

\* The phases of the commands and their lengths.
LEMMA WritePhases ==
    /\ WRITE_STATUS[1] = "ID" /\ WRITE_STATUS[2] = "RECV_SECTOR"
    /\ WRITE_STATUS[3] = "RECV_DATA" /\ WRITE_STATUS[4] = "RECV_CHECKSUM"
    /\ WRITE_STATUS[5] = "SEND_ACK" /\ WRITE_STATUS[6] = "SEND_END_BYTE"
    /\ WRITE_MAX_STEPS[1] = 2 /\ WRITE_MAX_STEPS[2] = 2 /\ WRITE_MAX_STEPS[3] = SECTOR
    /\ WRITE_MAX_STEPS[4] = 1 /\ WRITE_MAX_STEPS[5] = 2 /\ WRITE_MAX_STEPS[6] = 1
  BY DEF WRITE_STATUS, WRITE_MAX_STEPS

LEMMA ReadPhases ==
    /\ READ_STATUS[1] = "ID" /\ READ_STATUS[2] = "RECV_SECTOR"
    /\ READ_STATUS[3] = "SEND_ACK" /\ READ_STATUS[4] = "SEND_CONFIRM"
    /\ READ_STATUS[5] = "SEND_SECTOR" /\ READ_STATUS[6] = "SEND_CHECKSUM"
    /\ READ_STATUS[7] = "SEND_END_BYTE"
    /\ READ_MAX_STEPS[1] = 2 /\ READ_MAX_STEPS[2] = 2 /\ READ_MAX_STEPS[3] = 2
    /\ READ_MAX_STEPS[4] = 2 /\ READ_MAX_STEPS[5] = SECTOR /\ READ_MAX_STEPS[6] = 1
    /\ READ_MAX_STEPS[7] = 1
  BY DEF READ_STATUS, READ_MAX_STEPS

\* What the byte does to the card in each phase.
LEMMA CardReceivesFacts ==
    ASSUME NEW c \in Cards, NEW b \in Bytes, c.state \in {"READ", "WRITE"},
           NEW phase, Phase(c) = phase,
           phase \in {"RECV_DATA", "RECV_CHECKSUM"} => c.state = "WRITE",
           phase = "RECV_DATA" => c.step \in Sector
    PROVE  LET d == CardReceives(c, b)
               number == (c.sector * BYTE + b) % (BYTE * BYTE)
               sum == c.sector_valid /\ ComputeTempSectorChecksum(c.sector, c.temp) = b
               stored == [c.buffer EXCEPT ![c.sector] = c.temp] IN
           /\ phase = "RECV_SECTOR"
                => CardIs(d, c.state, c.status, c.step, number, number <= MAX_SECTOR,
                          c.checksum_valid, c.temp, c.buffer)
           /\ phase = "RECV_DATA"
                => CardIs(d, c.state, c.status, c.step, c.sector, c.sector_valid,
                          c.checksum_valid, [c.temp EXCEPT ![c.step] = b], c.buffer)
           /\ phase = "RECV_CHECKSUM"
                => CardIs(d, c.state, c.status, c.step, c.sector, c.sector_valid,
                          sum, c.temp, c.buffer)
           /\ c.state = "WRITE" /\ phase = "SEND_END_BYTE"
                => CardIs(d, c.state, c.status, c.step, c.sector, c.sector_valid,
                          c.checksum_valid, c.temp,
                          IF c.sector_valid /\ c.checksum_valid THEN stored ELSE c.buffer)
           /\ /\ phase \notin {"RECV_SECTOR", "RECV_DATA", "RECV_CHECKSUM"}
              /\ ~(c.state = "WRITE" /\ phase = "SEND_END_BYTE")
              => d = c
<1> DEFINE d == CardReceives(c, b)
           number == (c.sector * BYTE + b) % (BYTE * BYTE)
           valid == number <= MAX_SECTOR
           sum == c.sector_valid /\ ComputeTempSectorChecksum(c.sector, c.temp) = b
           stored == [c.buffer EXCEPT ![c.sector] = c.temp]
           data == [c.temp EXCEPT ![c.step] = b]
           w == [c EXCEPT !.sector = number, !.sector_valid = valid]
           x == [c EXCEPT !.temp = data]
           y == [c EXCEPT !.checksum_valid = sum]
           z == [c EXCEPT !.buffer = stored]
<1>1. /\ phase = "RECV_SECTOR" => d = w
      /\ phase = "RECV_DATA" => d = x
      /\ phase = "RECV_CHECKSUM" => d = y
      /\ c.state = "WRITE" /\ phase = "SEND_END_BYTE"
           => d = IF c.sector_valid /\ c.checksum_valid THEN z ELSE c
      /\ /\ phase \notin {"RECV_SECTOR", "RECV_DATA", "RECV_CHECKSUM"}
         /\ ~(c.state = "WRITE" /\ phase = "SEND_END_BYTE")
         => d = c
  BY Zenon DEF CardReceives, ReceiveSector
<1>2. /\ c.sector \in Numbers /\ c.sector_valid \in BOOLEAN /\ c.temp \in SectorData
      /\ c.buffer \in [Sectors -> SectorData]
  BY CardFields
<1>3. number \in Numbers
  BY <1>2 DEF Numbers, Bytes, BYTE
<1>4. valid \in BOOLEAN /\ sum \in BOOLEAN
  BY <1>2
<1>5. stored \in [Sectors -> SectorData]
  BY <1>2
<1>6. phase = "RECV_DATA" => data \in SectorData
  BY <1>2 DEF SectorData
<1> HIDE DEF d, number, valid, sum, stored, data
<1>7. CardIs(w, c.state, c.status, c.step, number, valid, c.checksum_valid, c.temp, c.buffer)
  <2>1. w \in Cards
    BY <1>3, <1>4 DEF Cards, Numbers
  <2>2. /\ w.state = c.state /\ w.status = c.status /\ w.step = c.step
        /\ w.sector = number /\ w.sector_valid = valid
        /\ w.checksum_valid = c.checksum_valid /\ w.temp = c.temp /\ w.buffer = c.buffer
    BY DEF Cards
  <2> HIDE DEF w
  <2> QED BY <2>1, <2>2 DEF CardIs
<1>8. phase = "RECV_DATA" => CardIs(x, c.state, c.status, c.step, c.sector, c.sector_valid,
             c.checksum_valid, data, c.buffer)
  <2> SUFFICES ASSUME phase = "RECV_DATA"
               PROVE  CardIs(x, c.state, c.status, c.step, c.sector, c.sector_valid,
                             c.checksum_valid, data, c.buffer)
    OBVIOUS
  <2>1. x \in Cards
    BY <1>6 DEF Cards, SectorData
  <2>2. /\ x.state = c.state /\ x.status = c.status /\ x.step = c.step
        /\ x.sector = c.sector /\ x.sector_valid = c.sector_valid
        /\ x.checksum_valid = c.checksum_valid /\ x.temp = data /\ x.buffer = c.buffer
    BY DEF Cards
  <2> HIDE DEF x
  <2> QED BY <2>1, <2>2 DEF CardIs
<1>9. CardIs(y, c.state, c.status, c.step, c.sector, c.sector_valid, sum, c.temp, c.buffer)
  <2>1. y \in Cards
    BY <1>4 DEF Cards
  <2>2. /\ y.state = c.state /\ y.status = c.status /\ y.step = c.step
        /\ y.sector = c.sector /\ y.sector_valid = c.sector_valid
        /\ y.checksum_valid = sum /\ y.temp = c.temp /\ y.buffer = c.buffer
    BY DEF Cards
  <2> HIDE DEF y
  <2> QED BY <2>1, <2>2 DEF CardIs
<1>10. CardIs(z, c.state, c.status, c.step, c.sector, c.sector_valid, c.checksum_valid,
              c.temp, stored)
  <2>1. z \in Cards
    BY <1>5 DEF Cards, SectorData
  <2>2. /\ z.state = c.state /\ z.status = c.status /\ z.step = c.step
        /\ z.sector = c.sector /\ z.sector_valid = c.sector_valid
        /\ z.checksum_valid = c.checksum_valid /\ z.temp = c.temp /\ z.buffer = stored
    BY DEF Cards
  <2> HIDE DEF z
  <2> QED BY <2>1, <2>2 DEF CardIs
<1>11. CardIs(c, c.state, c.status, c.step, c.sector, c.sector_valid, c.checksum_valid,
              c.temp, c.buffer)
  BY DEF CardIs
<1> HIDE DEF w, x, y, z
<1>12. phase = "RECV_SECTOR" => CardIs(d, c.state, c.status, c.step, number, valid,
                                        c.checksum_valid, c.temp, c.buffer)
  BY <1>1, <1>7
<1>13. phase = "RECV_DATA" => CardIs(d, c.state, c.status, c.step, c.sector,
                                      c.sector_valid, c.checksum_valid, data, c.buffer)
  BY <1>1, <1>8
<1>14. phase = "RECV_CHECKSUM" => CardIs(d, c.state, c.status, c.step, c.sector,
                                          c.sector_valid, sum, c.temp, c.buffer)
  BY <1>1, <1>9
<1>15. c.state = "WRITE" /\ phase = "SEND_END_BYTE"
         => CardIs(d, c.state, c.status, c.step, c.sector, c.sector_valid,
                   c.checksum_valid, c.temp,
                   IF c.sector_valid /\ c.checksum_valid THEN stored ELSE c.buffer)
  <2>1. CASE c.sector_valid /\ c.checksum_valid
    BY <1>1, <1>10, <2>1
  <2>2. CASE ~(c.sector_valid /\ c.checksum_valid)
    BY <1>1, <1>11, <2>2
  <2> QED BY <2>1, <2>2
<1> QED BY <1>1, <1>12, <1>13, <1>14, <1>15 DEF d, number, valid, sum, data, stored

\* The step of a read or a write command, whatever it received.
LEMMA CardStepFacts ==
    ASSUME NEW c \in Cards, NEW b, NEW d \in Cards, d = CardReceives(c, b),
           c.state \in {"READ", "WRITE"}, NEW max \in Nat,
           max = (IF c.state = "READ" THEN READ_MAX_STEPS ELSE WRITE_MAX_STEPS)[c.status]
    PROVE  LET e == CardSend(c, b)
               last == \/ Phase(c) = "SEND_END_BYTE"
                       \/ Phase(c) = "SEND_CONFIRM" /\ ~c.sector_valid IN
           /\ c.step + 1 # max
                => CardIs(e, d.state, d.status, c.step + 1, d.sector, d.sector_valid,
                          d.checksum_valid, d.temp, d.buffer)
           /\ c.step + 1 = max /\ last
                => CardIs(e, "IDLE", d.status, 0, 0, d.sector_valid, d.checksum_valid,
                          d.temp, d.buffer)
           /\ c.step + 1 = max /\ ~last /\ c.status < 7
                => CardIs(e, d.state, c.status + 1, 0, d.sector, d.sector_valid,
                          d.checksum_valid, d.temp, d.buffer)
<1> DEFINE e == CardSend(c, b)
           last == \/ Phase(c) = "SEND_END_BYTE"
                   \/ Phase(c) = "SEND_CONFIRM" /\ ~c.sector_valid
           k == c.step + 1
           s == c.status + 1
<1>1. e = CardStep(c, b)
  BY DEF CardSend
<1>2. e = IF k # max THEN [d EXCEPT !.step = k]
          ELSE IF last THEN [d EXCEPT !.step = 0, !.state = "IDLE", !.sector = 0]
          ELSE [d EXCEPT !.step = 0, !.status = s]
  BY <1>1 DEF CardStep
<1>3. k \in Nat /\ c.status \in 1..7
  BY CardFields
<1>4. c.status < 7 => s \in 1..7
  BY <1>3
<1> HIDE DEF e, k, s, last
<1>5. CASE k # max
  BY <1>2, <1>3, <1>5, CardCounts DEF e, k, s, last
<1>6. CASE k = max /\ last
  <2>1. e = [d EXCEPT !.step = 0, !.state = "IDLE", !.sector = 0]
    BY <1>2, <1>6
  <2>2. CardIs(e, "IDLE", d.status, 0, 0, d.sector_valid, d.checksum_valid, d.temp, d.buffer)
    BY <1>3, <2>1, CardCounts
  <2> QED BY <1>6, <2>2 DEF e, k, last
<1>7. CASE k = max /\ ~last
  <2>1. e = [d EXCEPT !.step = 0, !.status = s]
    BY <1>2, <1>7
  <2>2. c.status < 7 => CardIs(e, d.state, s, 0, d.sector, d.sector_valid, d.checksum_valid,
                               d.temp, d.buffer)
    BY <1>3, <1>4, <2>1, CardCounts
  <2> QED BY <1>7, <2>2 DEF e, k, s, last
<1> QED BY <1>5, <1>6, <1>7

(***************************************************************************)
(* The card and what it received of a command.                             *)
(***************************************************************************)
\* The number of the sector arrives in the bytes 4 and 5.
NumberSoFar(c, t) ==
    /\ c.status = 1 \/ (c.status = 2 /\ c.step = 0) => c.sector = 0
    /\ c.status = 2 /\ c.step = 1 => c.sector = t[4]
    /\ c.status >= 3 => /\ c.sector = Number(t)
                        /\ c.sector_valid <=> Number(t) <= MAX_SECTOR

WriteOffset(s) ==
    IF s = 1 THEN 1 ELSE IF s = 2 THEN 3 ELSE IF s = 3 THEN 5 ELSE IF s = 4 THEN 5 + SECTOR
    ELSE IF s = 5 THEN 6 + SECTOR ELSE 8 + SECTOR

Writing(c, t) ==
    /\ c.status \in 1..6 /\ c.step < WRITE_MAX_STEPS[c.status]
    /\ Len(t) = WriteOffset(c.status) + c.step
    /\ t[1] = WRITE
    /\ NumberSoFar(c, t)
    /\ c.status = 3 => \A i \in Sector : i < c.step => c.temp[i] = t[6 + i]
    /\ c.status >= 4 => c.temp = Data(t)
    /\ c.status >= 5 =>
         (c.checksum_valid <=> c.sector_valid
                                 /\ ComputeTempSectorChecksum(c.sector, c.temp) = t[6 + SECTOR])

ReadOffset(s) ==
    IF s = 1 THEN 1 ELSE IF s = 2 THEN 3 ELSE IF s = 3 THEN 5 ELSE IF s = 4 THEN 7
    ELSE IF s = 5 THEN 9 ELSE IF s = 6 THEN 9 + SECTOR ELSE 10 + SECTOR

Reading(c, t) ==
    /\ c.step < READ_MAX_STEPS[c.status]
    /\ Len(t) = ReadOffset(c.status) + c.step
    /\ t[1] = READ
    /\ NumberSoFar(c, t)
    /\ c.status >= 5 => c.sector_valid

CardInv(c, t, w) ==
    /\ c \in Cards /\ t \in Seq(Bytes) /\ c.buffer = w
    /\ c.state \in {"IDLE", "GETID"} => t = <<>>
    /\ c.state = "IDLE" => c.sector = 0
    /\ c.state = "WRITE" => Writing(c, t)
    /\ c.state = "READ" => Reading(c, t)

\* A byte more does not change the bytes before it.
LEMMA Longer ==
    ASSUME NEW t \in Seq(Bytes), NEW b \in Bytes, Len(t) >= 1
    PROVE  LET u == Append(t, b) IN
           /\ u \in Seq(Bytes) /\ Len(u) = Len(t) + 1 /\ u[Len(t) + 1] = b
           /\ u[1] = t[1]
           /\ Len(t) >= 4 => u[4] = t[4] /\ t[4] \in Bytes
           /\ Len(t) >= 5 => Number(u) = Number(t) /\ Number(u) \in Nat
           /\ Len(t) >= 5 + SECTOR => Data(u) = Data(t)
           /\ Len(t) >= 6 + SECTOR => u[6 + SECTOR] = t[6 + SECTOR]
<1> DEFINE u == Append(t, b)
<1>1. /\ u \in Seq(Bytes) /\ Len(u) = Len(t) + 1 /\ Len(t) \in Nat
      /\ \A i \in 1..Len(t) : u[i] = t[i] /\ t[i] \in Bytes
      /\ u[Len(t) + 1] = b
  BY AppendFacts
<1> HIDE DEF u
<1>2. u[1] = t[1]
  BY <1>1
<1>3. Len(t) >= 4 => u[4] = t[4] /\ t[4] \in Bytes
  <2>1. Len(t) >= 4 => 4 \in 1..Len(t)
    BY <1>1
  <2> QED BY <1>1, <2>1
<1>4. Len(t) >= 5 => Number(u) = Number(t) /\ Number(u) \in Nat
  <2>1. Len(t) >= 5 => 4 \in 1..Len(t) /\ 5 \in 1..Len(t)
    BY <1>1
  <2>2. Len(t) >= 5 => u[4] = t[4] /\ u[5] = t[5] /\ t[4] \in Bytes /\ t[5] \in Bytes
    BY <1>1, <2>1
  <2>3. ASSUME Len(t) >= 5 PROVE Number(u) = Number(t)
    BY <2>2, <2>3 DEF Number
  <2>4. \A x, y \in Bytes : x * BYTE + y \in Nat
    BY DEF Bytes, BYTE
  <2>5. ASSUME Len(t) >= 5 PROVE Number(t) \in Nat
    BY <2>2, <2>4, <2>5 DEF Number
  <2> QED BY <2>3, <2>5
<1>5. SECTOR \in Nat \ {0}
  BY PadCardAssumption
<1>6. Len(t) >= 5 + SECTOR => Data(u) = Data(t)
  <2> SUFFICES ASSUME Len(t) >= 5 + SECTOR PROVE Data(u) = Data(t)
    OBVIOUS
  <2>1. \A i \in Sector : 6 + i \in 1..Len(t)
    BY <1>1, <1>5 DEF Sector
  <2>2. \A i \in Sector : u[6 + i] = t[6 + i]
    BY <1>1, <2>1
  <2> QED BY <2>2 DEF Data
<1>7. Len(t) >= 6 + SECTOR => u[6 + SECTOR] = t[6 + SECTOR]
  <2>1. Len(t) >= 6 + SECTOR => 6 + SECTOR \in 1..Len(t)
    BY <1>1, <1>5
  <2> QED BY <1>1, <2>1
<1> QED BY <1>1, <1>2, <1>3, <1>4, <1>6, <1>7 DEF u

\* The number of the sector, byte by byte.
LEMMA NumberBytes ==
    /\ \A b \in Bytes : (0 * BYTE + b) % (BYTE * BYTE) = b
    /\ \A a, b \in Bytes : (a * BYTE + b) % (BYTE * BYTE) = a * BYTE + b
  BY DEF Bytes, BYTE

\* The history of the card after a byte.
TalkAfter(t, b) ==
    LET u == Append(t, b) IN IF Len(u) = CommandLength(u) THEN <<>> ELSE u

WrittenAfter(t, b, w) ==
    LET u == Append(t, b)
    IN  IF Len(u) = CommandLength(u) /\ GoodWrite(u)
          THEN [w EXCEPT ![Number(u)] = Data(u)] ELSE w

\* A byte of a write command that is not its last one.
LEMMA WriteGoesOn ==
    ASSUME NEW c \in Cards, NEW t \in Seq(Bytes), NEW b \in Bytes,
           c.state = "WRITE", Writing(c, t), c.status # 6
    PROVE  LET e == CardSend(c, b)
               u == Append(t, b) IN
           /\ e \in Cards /\ e.state = "WRITE" /\ e.buffer = c.buffer
           /\ Writing(e, u)
           /\ Len(u) # SECTOR + 9
<1> DEFINE e == CardSend(c, b)
           u == Append(t, b)
           d == CardReceives(c, b)
           n == Len(t)
           Good(x) == x \in Cards /\ x.state = "WRITE" /\ x.buffer = c.buffer /\ Writing(x, u)
<1>0. SECTOR \in Nat /\ SECTOR >= 1
  BY PadCardAssumption
<1>1. /\ c.status \in 1..5 /\ c.step \in Nat /\ c.sector \in Numbers
      /\ c.sector_valid \in BOOLEAN /\ c.temp \in SectorData
      /\ c.step < WRITE_MAX_STEPS[c.status] /\ n = WriteOffset(c.status) + c.step
      /\ t[1] = WRITE /\ NumberSoFar(c, t) /\ n \in Nat
  BY CardFields DEF Writing
<1>2. n >= 1
  BY <1>0, <1>1 DEF WriteOffset
<1>3. /\ u \in Seq(Bytes) /\ Len(u) = n + 1 /\ u[n + 1] = b
      /\ u[1] = t[1]
      /\ n >= 4 => u[4] = t[4] /\ t[4] \in Bytes
      /\ n >= 5 => Number(u) = Number(t)
      /\ n >= 5 + SECTOR => Data(u) = Data(t)
      /\ n >= 6 + SECTOR => u[6 + SECTOR] = t[6 + SECTOR]
  BY <1>2, Longer
<1>4. Phase(c) = WRITE_STATUS[c.status]
  BY DEF Phase
<1> DEFINE max == WRITE_MAX_STEPS[c.status]
<1>5. max \in Nat /\ c.step < max
  BY <1>0, <1>1, WritePhases
<1>6. ASSUME d \in Cards, Phase(c) \notin {"SEND_END_BYTE", "SEND_CONFIRM"}
      PROVE  /\ c.step + 1 # max
                  => CardIs(e, d.state, d.status, c.step + 1, d.sector, d.sector_valid,
                            d.checksum_valid, d.temp, d.buffer)
             /\ c.step + 1 = max
                  => CardIs(e, d.state, c.status + 1, 0, d.sector, d.sector_valid,
                            d.checksum_valid, d.temp, d.buffer)
  <2>1. c.status < 7 /\ c.state \in {"READ", "WRITE"}
    BY <1>1
  <2>2. max = (IF c.state = "READ" THEN READ_MAX_STEPS ELSE WRITE_MAX_STEPS)[c.status]
    OBVIOUS
  <2> QED BY <1>5, <1>6, <2>1, <2>2, CardStepFacts
<1>7. Len(u) # SECTOR + 9
  BY <1>0, <1>1, <1>3, <1>5, WritePhases, SMTT(30) DEF WriteOffset
<1> HIDE DEF e, d, u, n
<1>10. ASSUME c.status = 1 PROVE Good(e)
  <2>1. Phase(c) = "ID" /\ max = 2
    BY <1>4, <1>10, WritePhases
  <2>2. d = c
    BY <2>1, CardReceivesFacts DEF d
  <2>3. \/ c.step = 0 /\ CardIs(e, c.state, 1, 1, c.sector, c.sector_valid,
                                c.checksum_valid, c.temp, c.buffer)
        \/ c.step = 1 /\ CardIs(e, c.state, 2, 0, c.sector, c.sector_valid,
                                c.checksum_valid, c.temp, c.buffer)
    BY <1>1, <1>5, <1>6, <1>10, <2>1, <2>2
  <2>4. c.sector = 0
    BY <1>1, <1>10 DEF NumberSoFar
  <2>5. /\ e \in Cards /\ e.state = "WRITE" /\ e.buffer = c.buffer /\ e.sector = 0
        /\ \/ e.status = 1 /\ e.step = 1 /\ c.step = 0
           \/ e.status = 2 /\ e.step = 0 /\ c.step = 1
    BY <2>3, <2>4 DEF CardIs
  <2>6. NumberSoFar(e, u)
    BY <2>5 DEF NumberSoFar
  <2>7. Writing(e, u)
    BY <1>1, <1>3, <1>10, <2>5, <2>6, WritePhases, SMTT(30) DEF Writing, WriteOffset
  <2> QED BY <2>5, <2>7
<1>11. ASSUME c.status = 2 PROVE Good(e)
  <2> DEFINE number == (c.sector * BYTE + b) % (BYTE * BYTE)
             valid == number <= MAX_SECTOR
  <2>1. Phase(c) = "RECV_SECTOR" /\ max = 2
    BY <1>4, <1>11, WritePhases
  <2>2. CardIs(d, c.state, c.status, c.step, number, valid, c.checksum_valid, c.temp,
               c.buffer)
    BY <2>1, CardReceivesFacts DEF d
  <2>3. c.step \in {0, 1}
    BY <1>1, <1>5, <2>1
  <2>4. c.step = 0 => number = b /\ u[4] = b
    <3>1. c.step = 0 => c.sector = 0 /\ n + 1 = 4
      BY <1>1, <1>11 DEF NumberSoFar, WriteOffset
    <3> QED BY <1>3, <3>1, NumberBytes
  <2>5. c.step = 1 => number = Number(u)
    <3>1. c.step = 1 => c.sector = t[4] /\ n = 4
      BY <1>1, <1>11 DEF NumberSoFar, WriteOffset
    <3>2. c.step = 1 => u[4] = t[4] /\ u[5] = b /\ t[4] \in Bytes
      BY <1>3, <3>1
    <3> QED BY <3>1, <3>2, NumberBytes DEF Number
  <2> HIDE DEF number, valid
  <2>6. /\ e \in Cards /\ e.state = "WRITE" /\ e.buffer = c.buffer /\ e.sector = number
        /\ e.sector_valid = valid
        /\ \/ e.status = 2 /\ e.step = 1 /\ c.step = 0
           \/ e.status = 3 /\ e.step = 0 /\ c.step = 1
    BY <1>6, <1>11, <2>1, <2>2, <2>3 DEF CardIs
  <2>7. NumberSoFar(e, u)
    <3>1. CASE e.status = 2 /\ e.step = 1 /\ c.step = 0
      BY <2>4, <2>6, <3>1 DEF NumberSoFar
    <3>2. CASE e.status = 3 /\ e.step = 0 /\ c.step = 1
      <4>1. e.sector = Number(u)
        BY <2>5, <2>6, <3>2
      <4>2. e.sector_valid <=> Number(u) <= MAX_SECTOR
        BY <2>5, <2>6, <3>2 DEF valid
      <4> QED BY <3>2, <4>1, <4>2 DEF NumberSoFar
    <3> QED BY <2>6, <3>1, <3>2
  <2>8. \A i \in Sector : ~(i < 0)
    BY DEF Sector
  <2>9. /\ Len(u) = WriteOffset(e.status) + e.step
        /\ e.status \in 2..3 /\ e.step < WRITE_MAX_STEPS[e.status]
        /\ e.status = 3 => e.step = 0
    BY <1>0, <1>1, <1>3, <1>11, <2>6, WritePhases, SMTT(30) DEF WriteOffset
  <2>10. Writing(e, u)
    BY <1>1, <1>3, <2>7, <2>8, <2>9 DEF Writing
  <2> QED BY <2>6, <2>10
<1>12. ASSUME c.status = 3 PROVE Good(e)
  <2> DEFINE data == [c.temp EXCEPT ![c.step] = b]
  <2>1. Phase(c) = "RECV_DATA" /\ max = SECTOR
    BY <1>4, <1>12, WritePhases
  <2>2. c.step \in Sector
    BY <1>0, <1>1, <1>5, <2>1 DEF Sector
  <2>3. CardIs(d, c.state, c.status, c.step, c.sector, c.sector_valid, c.checksum_valid,
               data, c.buffer)
    BY <2>1, <2>2, CardReceivesFacts DEF d
  <2>4. n = 5 + c.step
    BY <1>1, <1>12 DEF WriteOffset
  <2>5. \A i \in Sector : i < c.step + 1 => data[i] = u[6 + i]
    <3> SUFFICES ASSUME NEW i \in Sector, i < c.step + 1 PROVE data[i] = u[6 + i]
      OBVIOUS
    <3>1. CASE i = c.step
      <4>1. 6 + i = n + 1
        BY <1>1, <2>4, <3>1
      <4>2. data[i] = b
        BY <1>1, <2>2, <3>1 DEF SectorData
      <4> QED BY <1>3, <4>1, <4>2
    <3>2. CASE i # c.step
      <4>1. i < c.step /\ 6 + i \in 1..n
        BY <1>0, <1>1, <2>4, <3>2 DEF Sector
      <4>2. c.temp[i] = t[6 + i]
        BY <1>12, <4>1 DEF Writing
      <4>3. u[6 + i] = t[6 + i]
        BY <4>1, AppendFacts DEF u, n
      <4>4. data[i] = c.temp[i]
        BY <1>1, <3>2 DEF SectorData
      <4> QED BY <4>2, <4>3, <4>4
    <3> QED BY <3>1, <3>2
  <2>6. c.step + 1 = SECTOR => data = Data(u)
    <3> SUFFICES ASSUME c.step + 1 = SECTOR PROVE data = Data(u)
      OBVIOUS
    <3>1. \A i \in Sector : i < c.step + 1
      BY <1>0, <1>1 DEF Sector
    <3>2. \A i \in Sector : data[i] = u[6 + i]
      BY <2>5, <3>1
    <3>3. data \in SectorData
      BY <1>1 DEF SectorData
    <3> HIDE DEF data
    <3>4. data = [i \in Sector |-> data[i]]
      BY <3>3 DEF SectorData
    <3> QED BY <3>2, <3>4 DEF Data
  <2> HIDE DEF data
  <2>7. /\ e \in Cards /\ e.state = "WRITE" /\ e.buffer = c.buffer /\ e.sector = c.sector
        /\ e.sector_valid = c.sector_valid /\ e.temp = data
        /\ \/ e.status = 3 /\ e.step = c.step + 1 /\ c.step + 1 # SECTOR
           \/ e.status = 4 /\ e.step = 0 /\ c.step + 1 = SECTOR
    BY <1>6, <1>12, <2>1, <2>3 DEF CardIs
  <2>8. Number(u) = Number(t)
    BY <1>1, <1>3, <2>4
  <2>9. NumberSoFar(e, u)
    BY <1>1, <1>12, <2>7, <2>8 DEF NumberSoFar
  <2>10. /\ Len(u) = WriteOffset(e.status) + e.step
         /\ e.status \in 3..4 /\ e.step < WRITE_MAX_STEPS[e.status]
    <3>1. CASE e.status = 3 /\ e.step = c.step + 1 /\ c.step + 1 # SECTOR
      <4>1. c.step < SECTOR /\ c.step \in Nat
        BY <1>1, <1>5, <2>1
      <4>2. c.step + 1 < SECTOR
        BY <1>0, <3>1, <4>1
      <4>3. Len(u) = WriteOffset(3) + e.step
        BY <1>3, <2>4, <3>1, <4>1 DEF WriteOffset
      <4>4. WRITE_MAX_STEPS[3] = SECTOR
        BY WritePhases
      <4> QED BY <3>1, <4>2, <4>3, <4>4
    <3>2. CASE e.status = 4 /\ e.step = 0 /\ c.step + 1 = SECTOR
      <4>1. SECTOR \in Nat /\ SECTOR > 0 /\ c.step \in Nat
        BY <1>0, <1>1
      <4>2. Len(u) = 6 + c.step
        BY <1>3, <2>4, <4>1
      <4>3. WriteOffset(4) = 5 + SECTOR /\ WRITE_MAX_STEPS[4] > 0
        BY WritePhases DEF WriteOffset
      <4> QED BY <3>2, <4>1, <4>2, <4>3
    <3> QED BY <2>7, <3>1, <3>2
  <2>11. Writing(e, u)
    BY <1>1, <1>3, <2>5, <2>6, <2>7, <2>9, <2>10 DEF Writing
  <2> QED BY <2>7, <2>11
<1>13. ASSUME c.status = 4 PROVE Good(e)
  <2> DEFINE sum == c.sector_valid /\ ComputeTempSectorChecksum(c.sector, c.temp) = b
  <2>1. Phase(c) = "RECV_CHECKSUM" /\ max = 1
    BY <1>4, <1>13, WritePhases
  <2>2. CardIs(d, c.state, c.status, c.step, c.sector, c.sector_valid, sum, c.temp, c.buffer)
    BY <2>1, CardReceivesFacts DEF d
  <2>3. c.step = 0 /\ n = 5 + SECTOR /\ u[6 + SECTOR] = b
    BY <1>0, <1>1, <1>3, <1>5, <1>13, <2>1 DEF WriteOffset
  <2>4. sum <=> c.sector_valid /\ ComputeTempSectorChecksum(c.sector, c.temp) = u[6 + SECTOR]
    BY <2>3
  <2> HIDE DEF sum
  <2>5. /\ e \in Cards /\ e.state = "WRITE" /\ e.buffer = c.buffer /\ e.sector = c.sector
        /\ e.sector_valid = c.sector_valid /\ e.temp = c.temp /\ e.checksum_valid = sum
        /\ e.status = 5 /\ e.step = 0
    BY <1>6, <1>13, <2>1, <2>2, <2>3 DEF CardIs
  <2>6. Number(u) = Number(t) /\ Data(u) = Data(t)
    BY <1>0, <1>1, <1>3, <2>3
  <2>7. NumberSoFar(e, u)
    BY <1>1, <1>13, <2>5, <2>6 DEF NumberSoFar
  <2>8. c.temp = Data(t)
    BY <1>13 DEF Writing
  <2>9. Len(u) = WriteOffset(5) + 0 /\ 5 \in 1..6 /\ 0 < WRITE_MAX_STEPS[5]
    BY <1>0, <1>1, <1>3, <2>3, WritePhases DEF WriteOffset
  <2>10. Writing(e, u)
    BY <1>1, <1>3, <2>4, <2>5, <2>6, <2>7, <2>8, <2>9 DEF Writing
  <2> QED BY <2>5, <2>10
<1>14. ASSUME c.status = 5 PROVE Good(e)
  <2>1. Phase(c) = "SEND_ACK" /\ max = 2
    BY <1>4, <1>14, WritePhases
  <2>2. d = c
    BY <2>1, CardReceivesFacts DEF d
  <2>3. c.step \in {0, 1} /\ n = 6 + SECTOR + c.step
    BY <1>1, <1>5, <1>14, <2>1 DEF WriteOffset
  <2>4. /\ e \in Cards /\ e.state = "WRITE" /\ e.buffer = c.buffer /\ e.sector = c.sector
        /\ e.sector_valid = c.sector_valid /\ e.temp = c.temp
        /\ e.checksum_valid = c.checksum_valid
        /\ \/ e.status = 5 /\ e.step = 1 /\ c.step = 0
           \/ e.status = 6 /\ e.step = 0 /\ c.step = 1
    BY <1>6, <1>14, <2>1, <2>2, <2>3 DEF CardIs
  <2>5. Number(u) = Number(t) /\ Data(u) = Data(t) /\ u[6 + SECTOR] = t[6 + SECTOR]
    BY <1>0, <1>1, <1>3, <2>3
  <2>6. NumberSoFar(e, u)
    BY <1>1, <1>14, <2>4, <2>5 DEF NumberSoFar
  <2>7. /\ c.temp = Data(t)
        /\ c.checksum_valid <=> c.sector_valid
             /\ ComputeTempSectorChecksum(c.sector, c.temp) = t[6 + SECTOR]
    BY <1>14 DEF Writing
  <2>8. /\ Len(u) = WriteOffset(e.status) + e.step
        /\ e.status \in 5..6 /\ e.step < WRITE_MAX_STEPS[e.status]
    <3>1. CASE e.status = 5 /\ e.step = 1 /\ c.step = 0
      BY <1>0, <1>1, <1>3, <2>3, <3>1, WritePhases DEF WriteOffset
    <3>2. CASE e.status = 6 /\ e.step = 0 /\ c.step = 1
      BY <1>0, <1>1, <1>3, <2>3, <3>2, WritePhases DEF WriteOffset
    <3> QED BY <2>4, <3>1, <3>2
  <2>9. Writing(e, u)
    BY <1>1, <1>3, <2>4, <2>5, <2>6, <2>7, <2>8 DEF Writing
  <2> QED BY <2>4, <2>9
<1>15. Good(e)
  BY <1>1, <1>10, <1>11, <1>12, <1>13, <1>14
<1> QED BY <1>7, <1>15 DEF e, u

\* The last byte of a write command: the data go into the card exactly if number and
\* checksum were right.
LEMMA WriteEnds ==
    ASSUME NEW c \in Cards, NEW t \in Seq(Bytes), NEW b \in Bytes,
           c.state = "WRITE", Writing(c, t), c.status = 6
    PROVE  LET e == CardSend(c, b)
               u == Append(t, b) IN
           /\ e \in Cards /\ e.state = "IDLE" /\ e.sector = 0
           /\ Len(u) = SECTOR + 9
           /\ e.buffer = IF GoodWrite(u) THEN [c.buffer EXCEPT ![Number(u)] = Data(u)]
                                         ELSE c.buffer
<1> DEFINE e == CardSend(c, b)
           u == Append(t, b)
           d == CardReceives(c, b)
           n == Len(t)
           max == WRITE_MAX_STEPS[c.status]
           stored == [c.buffer EXCEPT ![c.sector] = c.temp]
           buffer == IF c.sector_valid /\ c.checksum_valid THEN stored ELSE c.buffer
<1>0. SECTOR \in Nat /\ SECTOR >= 1
  BY PadCardAssumption
<1>1. Phase(c) = "SEND_END_BYTE" /\ max = 1
  BY WritePhases DEF Phase
<1>2. c.step = 0 /\ n = 8 + SECTOR /\ t[1] = WRITE /\ NumberSoFar(c, t)
  <2>1. c.step \in Nat /\ c.step < 1
    BY <1>1, CardFields DEF Writing
  <2>2. c.step = 0
    BY <2>1
  <2>3. n = WriteOffset(c.status) + c.step /\ t[1] = WRITE /\ NumberSoFar(c, t)
    BY DEF Writing
  <2>4. WriteOffset(6) = 8 + SECTOR
    BY <1>0 DEF WriteOffset
  <2>5. n = 8 + SECTOR
    BY <1>0, <2>2, <2>3, <2>4
  <2> QED BY <2>2, <2>3, <2>5
<1>3. /\ Len(u) = n + 1 /\ u[1] = t[1]
      /\ Number(u) = Number(t) /\ Data(u) = Data(t) /\ u[6 + SECTOR] = t[6 + SECTOR]
  BY <1>0, <1>2, Longer
<1>4. CardIs(d, c.state, c.status, c.step, c.sector, c.sector_valid, c.checksum_valid,
             c.temp, buffer)
  BY <1>1, CardReceivesFacts
<1>5. CardIs(e, "IDLE", d.status, 0, 0, d.sector_valid, d.checksum_valid, d.temp, d.buffer)
  <2>1. d \in Cards /\ c.state \in {"READ", "WRITE"}
    BY <1>4 DEF CardIs
  <2>2. max = (IF c.state = "READ" THEN READ_MAX_STEPS ELSE WRITE_MAX_STEPS)[c.status]
        /\ max \in Nat /\ c.step + 1 = max
    BY <1>1, <1>2
  <2> QED BY <1>1, <2>1, <2>2, CardStepFacts
<1> HIDE DEF e, d, u, n, buffer
<1>6. e \in Cards /\ e.state = "IDLE" /\ e.sector = 0 /\ e.buffer = buffer
  BY <1>4, <1>5 DEF CardIs
<1>7. /\ c.sector = Number(u) /\ c.temp = Data(u)
      /\ c.sector_valid <=> Number(u) <= MAX_SECTOR
      /\ c.checksum_valid <=> c.sector_valid
           /\ ComputeTempSectorChecksum(c.sector, c.temp) = u[6 + SECTOR]
  BY <1>2, <1>3 DEF Writing, NumberSoFar
<1>8. GoodWrite(u) <=> c.sector_valid /\ c.checksum_valid
  BY <1>2, <1>3, <1>7 DEF GoodWrite
<1>9. buffer = IF GoodWrite(u) THEN [c.buffer EXCEPT ![Number(u)] = Data(u)] ELSE c.buffer
  BY <1>7, <1>8 DEF buffer
<1>10. Len(u) = SECTOR + 9
  BY <1>0, <1>2, <1>3
<1> QED BY <1>6, <1>9, <1>10 DEF e, u

\* A byte of a read command.
LEMMA ReadSteps ==
    ASSUME NEW c \in Cards, NEW t \in Seq(Bytes), NEW b \in Bytes,
           c.state = "READ", Reading(c, t)
    PROVE  LET e == CardSend(c, b)
               u == Append(t, b)
               stop == c.status = 7 \/ (c.status = 4 /\ c.step = 1 /\ ~c.sector_valid) IN
           /\ e \in Cards /\ e.buffer = c.buffer /\ u[1] = READ
           /\ stop => e.state = "IDLE" /\ e.sector = 0 /\ Len(u) = CommandLength(u)
           /\ ~stop => e.state = "READ" /\ Reading(e, u) /\ Len(u) # CommandLength(u)
<1> DEFINE e == CardSend(c, b)
           u == Append(t, b)
           d == CardReceives(c, b)
           n == Len(t)
           max == READ_MAX_STEPS[c.status]
           stop == c.status = 7 \/ (c.status = 4 /\ c.step = 1 /\ ~c.sector_valid)
           number == (c.sector * BYTE + b) % (BYTE * BYTE)
           valid == number <= MAX_SECTOR
<1>0. SECTOR \in Nat /\ SECTOR >= 1
  BY PadCardAssumption
<1>1. /\ c.status \in 1..7 /\ c.step \in Nat /\ c.sector_valid \in BOOLEAN
      /\ n = ReadOffset(c.status) + c.step /\ t[1] = READ /\ NumberSoFar(c, t) /\ n \in Nat
      /\ c.status >= 5 => c.sector_valid
  BY CardFields DEF Reading
<1>2. max \in Nat /\ c.step < max
  <2>1. max \in Nat
    BY <1>0, <1>1, ReadPhases
  <2> QED BY <2>1 DEF Reading
<1>3. /\ u \in Seq(Bytes) /\ Len(u) = n + 1 /\ u[n + 1] = b /\ u[1] = READ
      /\ n >= 4 => u[4] = t[4] /\ t[4] \in Bytes
      /\ n >= 5 => Number(u) = Number(t) /\ Number(u) \in Nat
  <2>1. n >= 1
    BY <1>0, <1>1 DEF ReadOffset
  <2> QED BY <1>1, <2>1, Longer
<1>4. Phase(c) = READ_STATUS[c.status]
  BY DEF Phase
<1>5. \/ c.status = 2 /\ CardIs(d, c.state, c.status, c.step, number, valid,
                                c.checksum_valid, c.temp, c.buffer)
      \/ c.status # 2 /\ d = c
  <2>1. CASE c.status = 2
    <3>1. Phase(c) = "RECV_SECTOR"
      BY <1>4, <2>1, ReadPhases
    <3> QED BY <2>1, <3>1, CardReceivesFacts
  <2>2. CASE c.status # 2
    <3>1. Phase(c) \in {"ID", "SEND_ACK", "SEND_CONFIRM", "SEND_SECTOR", "SEND_CHECKSUM",
                        "SEND_END_BYTE"}
      BY <1>1, <1>4, <2>2, ReadPhases
    <3>2. d = c
      BY <3>1, CardReceivesFacts
    <3> QED BY <2>2, <3>2
  <2> QED BY <2>1, <2>2
<1>6. d \in Cards /\ d.buffer = c.buffer /\ d.state = "READ" /\ d.status = c.status
  BY <1>5 DEF CardIs
<1> DEFINE last == \/ Phase(c) = "SEND_END_BYTE"
                   \/ Phase(c) = "SEND_CONFIRM" /\ ~c.sector_valid
<1>7. /\ c.step + 1 # max
           => CardIs(e, d.state, d.status, c.step + 1, d.sector, d.sector_valid,
                     d.checksum_valid, d.temp, d.buffer)
      /\ c.step + 1 = max /\ last
           => CardIs(e, "IDLE", d.status, 0, 0, d.sector_valid, d.checksum_valid,
                     d.temp, d.buffer)
      /\ c.step + 1 = max /\ ~last /\ c.status < 7
           => CardIs(e, d.state, c.status + 1, 0, d.sector, d.sector_valid,
                     d.checksum_valid, d.temp, d.buffer)
  <2>1. max = (IF c.state = "READ" THEN READ_MAX_STEPS ELSE WRITE_MAX_STEPS)[c.status]
        /\ c.state \in {"READ", "WRITE"}
    OBVIOUS
  <2> QED BY <1>2, <1>6, <2>1, CardStepFacts
<1>8. stop <=> c.step + 1 = max /\ last
  <2>1. CASE c.status = 7
    <3>1. Phase(c) = "SEND_END_BYTE" /\ max = 1
      BY <1>4, <2>1, ReadPhases
    <3> QED BY <1>1, <1>2, <2>1, <3>1
  <2>2. CASE c.status = 4
    <3>1. Phase(c) = "SEND_CONFIRM" /\ max = 2
      BY <1>4, <2>2, ReadPhases
    <3> QED BY <1>1, <1>2, <2>2, <3>1
  <2>3. CASE c.status \notin {4, 7}
    <3>1. Phase(c) \in {"ID", "SEND_ACK", "RECV_SECTOR", "SEND_SECTOR", "SEND_CHECKSUM"}
      BY <1>1, <1>4, <2>3, ReadPhases
    <3> QED BY <2>3, <3>1
  <2> QED BY <2>1, <2>2, <2>3
<1>9. c.status = 7 => stop
  OBVIOUS
<1>10. /\ c.status = 1 => max = 2 /\ n = 1 + c.step
       /\ c.status = 2 => max = 2 /\ n = 3 + c.step
       /\ c.status = 3 => max = 2 /\ n = 5 + c.step
       /\ c.status = 4 => max = 2 /\ n = 7 + c.step
       /\ c.status = 5 => max = SECTOR /\ n = 9 + c.step
       /\ c.status = 6 => max = 1 /\ n = 9 + SECTOR + c.step
       /\ c.status = 7 => max = 1 /\ n = 10 + SECTOR + c.step
  BY <1>1, ReadPhases DEF ReadOffset
<1> HIDE DEF e, d, u, n, stop, last, number, valid, max
<1>11. /\ e \in Cards /\ e.buffer = c.buffer
       /\ stop => e.state = "IDLE" /\ e.sector = 0
       /\ ~stop => /\ e.state = "READ" /\ e.sector = d.sector
                   /\ e.sector_valid = d.sector_valid
                   /\ \/ c.step + 1 # max /\ e.status = c.status /\ e.step = c.step + 1
                      \/ c.step + 1 = max /\ e.status = c.status + 1 /\ e.step = 0
  <2>1. c.status < 7 \/ c.status = 7
    BY <1>1
  <2>2. CASE stop
    BY <1>6, <1>7, <1>8, <2>2 DEF CardIs
  <2>3. CASE ~stop /\ c.step + 1 # max
    BY <1>6, <1>7, <2>3 DEF CardIs
  <2>4. CASE ~stop /\ c.step + 1 = max
    BY <1>6, <1>7, <1>8, <1>9, <2>1, <2>4 DEF CardIs
  <2> QED BY <2>2, <2>3, <2>4
<1>12. c.step = 0 /\ c.status = 2 => number = b /\ u[4] = b
  <2>1. c.step = 0 /\ c.status = 2 => c.sector = 0 /\ n + 1 = 4
    BY <1>1, <1>10 DEF NumberSoFar
  <2> QED BY <1>3, <2>1, NumberBytes DEF number
<1>13. c.step = 1 /\ c.status = 2 => number = Number(u)
  <2>1. c.step = 1 /\ c.status = 2 => c.sector = t[4] /\ n = 4
    BY <1>1, <1>10 DEF NumberSoFar
  <2>2. c.step = 1 /\ c.status = 2 => u[4] = t[4] /\ u[5] = b /\ t[4] \in Bytes
    BY <1>3, <2>1
  <2> QED BY <2>1, <2>2, NumberBytes DEF Number, number
<1>14. /\ CommandLength(u) = IF n + 1 >= 5 /\ Number(u) > MAX_SECTOR THEN 9 ELSE SECTOR + 11
  <2>1. u[1] # WRITE /\ u[1] = READ
    BY <1>3 DEF READ, WRITE
  <2>2. Len(u) \in Nat /\ MAX_SECTOR \in Nat
    BY <1>1, <1>3, PadCardAssumption
  <2>3. Len(u) >= 5 => Number(u) \in Nat
    <3>1. Len(u) >= 5 => 4 \in 1..Len(u) /\ 5 \in 1..Len(u)
      BY <2>2
    <3>2. Len(u) >= 5 => u[4] \in Bytes /\ u[5] \in Bytes
      BY <1>3, <3>1
    <3>3. \A x, y \in Bytes : x * BYTE + y \in Nat
      BY DEF Bytes, BYTE
    <3> QED BY <3>2, <3>3 DEF Number
  <2> DEFINE far == Len(u) >= 5 /\ Number(u) > MAX_SECTOR
             near == Len(u) < 5 \/ Number(u) <= MAX_SECTOR
  <2>4. near <=> ~far
    BY <2>2, <2>3
  <2>5. far <=> n + 1 >= 5 /\ Number(u) > MAX_SECTOR
    BY <1>3
  <2>6. CommandLength(u) = CASE u[1] = WRITE -> SECTOR + 9
                             [] u[1] = READ /\ far -> 9
                             [] u[1] = READ /\ near -> SECTOR + 11
                             [] u[1] \notin {READ, WRITE} -> 1
    BY DEF CommandLength
  <2> HIDE DEF far, near
  <2>7. CASE far
    <3>1. CommandLength(u) = 9
      BY <2>1, <2>4, <2>6, <2>7
    <3> QED BY <2>5, <2>7, <3>1
  <2>8. CASE ~far
    <3>1. CommandLength(u) = SECTOR + 11
      BY <2>1, <2>4, <2>6, <2>8
    <3> QED BY <2>5, <2>8, <3>1
  <2> QED BY <2>7, <2>8
<1>15. c.status >= 3 => /\ n >= 5 /\ c.sector = Number(u)
                        /\ c.sector_valid <=> Number(u) <= MAX_SECTOR
                        /\ c.sector_valid <=> ~(Number(u) > MAX_SECTOR)
  <2> SUFFICES ASSUME c.status >= 3
               PROVE  /\ n >= 5 /\ c.sector = Number(u)
                      /\ c.sector_valid <=> Number(u) <= MAX_SECTOR
                      /\ c.sector_valid <=> ~(Number(u) > MAX_SECTOR)
    OBVIOUS
  <2>1. n >= 5
    <3>1. c.status \in 3..7
      BY <1>1
    <3>2. c.step \in Nat /\ SECTOR \in Nat
      BY <1>0, <1>1
    <3>3. n \in {5 + c.step, 7 + c.step, 9 + c.step, 9 + SECTOR + c.step, 10 + SECTOR + c.step}
      BY <1>10, <3>1
    <3> QED BY <3>2, <3>3
  <2>2. c.sector = Number(u) /\ (c.sector_valid <=> Number(u) <= MAX_SECTOR)
    BY <1>1, <1>3, <2>1 DEF NumberSoFar
  <2>3. Number(u) \in Nat /\ MAX_SECTOR \in Nat
    BY <1>3, <2>1, PadCardAssumption
  <2>4. Number(u) <= MAX_SECTOR <=> ~(Number(u) > MAX_SECTOR)
    BY <2>3
  <2> QED BY <2>1, <2>2, <2>4
<1>16. stop => Len(u) = CommandLength(u)
  <2>1. CASE c.status = 7
    BY <1>0, <1>1, <1>2, <1>3, <1>10, <1>14, <1>15, <2>1
  <2>2. CASE c.status = 4 /\ c.step = 1 /\ ~c.sector_valid
    BY <1>0, <1>1, <1>3, <1>10, <1>14, <1>15, <2>2
  <2> QED BY <2>1, <2>2 DEF stop
<1>17. ~stop => Len(u) # CommandLength(u)
  <2> SUFFICES ASSUME ~stop PROVE Len(u) # CommandLength(u)
    OBVIOUS
  <2>1. CASE c.status \in 1..3
    BY <1>0, <1>1, <1>2, <1>3, <1>10, <1>14, <2>1
  <2>2. CASE c.status = 4
    <3>1. c.step = 0 \/ (c.step = 1 /\ c.sector_valid)
      BY <1>1, <1>2, <1>10, <2>2 DEF stop
    <3>2. CASE c.step = 0
      BY <1>0, <1>3, <1>10, <1>14, <2>2, <3>2
    <3>3. CASE c.step = 1 /\ c.sector_valid
      BY <1>0, <1>3, <1>10, <1>14, <1>15, <2>2, <3>3
    <3> QED BY <3>1, <3>2, <3>3
  <2>3. CASE c.status \in 5..6
    <3>1. CommandLength(u) = SECTOR + 11
      BY <1>1, <1>14, <1>15, <2>3
    <3> QED BY <1>0, <1>1, <1>2, <1>3, <1>10, <2>3, <3>1
  <2>4. c.status # 7
    BY <1>9
  <2> QED BY <1>1, <2>1, <2>2, <2>3, <2>4
<1>18. ~stop => Reading(e, u)
  <2> SUFFICES ASSUME ~stop PROVE Reading(e, u)
    OBVIOUS
  <2>1. c.status \in 1..6
    BY <1>1, <1>9
  <2>2. /\ e.sector = d.sector /\ e.sector_valid = d.sector_valid
        /\ \/ c.step + 1 # max /\ e.status = c.status /\ e.step = c.step + 1
           \/ c.step + 1 = max /\ e.status = c.status + 1 /\ e.step = 0
    BY <1>11
  <2>3. e.step < READ_MAX_STEPS[e.status]
    <3>1. CASE c.step + 1 # max /\ e.status = c.status /\ e.step = c.step + 1
      BY <1>1, <1>2, <3>1 DEF max
    <3>2. CASE c.step + 1 = max /\ e.status = c.status + 1 /\ e.step = 0
      BY <1>0, <2>1, <3>2, ReadPhases
    <3> QED BY <2>2, <3>1, <3>2
  <2>4. Len(u) = ReadOffset(e.status) + e.step
    <3>1. CASE c.step + 1 # max /\ e.status = c.status /\ e.step = c.step + 1
      <4>1. ReadOffset(c.status) \in Nat
        BY <1>0 DEF ReadOffset
      <4> QED BY <1>1, <1>3, <3>1, <4>1
    <3>2. CASE c.step + 1 = max /\ e.status = c.status + 1 /\ e.step = 0
      <4>1. /\ ReadOffset(2) = 3 /\ ReadOffset(3) = 5 /\ ReadOffset(4) = 7
            /\ ReadOffset(5) = 9 /\ ReadOffset(6) = 9 + SECTOR
            /\ ReadOffset(7) = 10 + SECTOR
        BY <1>0 DEF ReadOffset
      <4>2. n + 1 = ReadOffset(c.status + 1)
        <5>1. CASE c.status = 1
          <6>1. c.step = 1 /\ n = 1 + c.step
            BY <1>1, <1>2, <1>10, <3>2, <5>1
          <6> QED BY <4>1, <5>1, <6>1
        <5>2. CASE c.status = 2
          <6>1. c.step = 1 /\ n = 3 + c.step
            BY <1>1, <1>2, <1>10, <3>2, <5>2
          <6> QED BY <4>1, <5>2, <6>1
        <5>3. CASE c.status = 3
          <6>1. c.step = 1 /\ n = 5 + c.step
            BY <1>1, <1>2, <1>10, <3>2, <5>3
          <6> QED BY <4>1, <5>3, <6>1
        <5>4. CASE c.status = 4
          <6>1. c.step = 1 /\ n = 7 + c.step
            BY <1>1, <1>2, <1>10, <3>2, <5>4
          <6> QED BY <4>1, <5>4, <6>1
        <5>5. CASE c.status = 5
          <6>1. c.step + 1 = SECTOR /\ n = 9 + c.step
            BY <1>1, <1>10, <3>2, <5>5
          <6>2. n + 1 = 9 + SECTOR
            BY <1>0, <1>1, <6>1
          <6> QED BY <4>1, <5>5, <6>2
        <5>6. CASE c.status = 6
          <6>1. c.step = 0 /\ n = 9 + SECTOR + c.step
            BY <1>1, <1>10, <3>2, <5>6
          <6>2. n + 1 = 10 + SECTOR
            BY <1>0, <6>1
          <6> QED BY <4>1, <5>6, <6>2
        <5> QED BY <2>1, <5>1, <5>2, <5>3, <5>4, <5>5, <5>6
      <4> QED BY <1>0, <1>1, <1>3, <3>2, <4>2
    <3> QED BY <2>2, <3>1, <3>2
  <2>5. NumberSoFar(e, u)
    <3>1. CASE c.status = 1
      <4>1. c.sector = 0 /\ d = c
        BY <1>1, <1>5, <3>1 DEF NumberSoFar
      <4>2. e.status = 1 \/ (e.status = 2 /\ e.step = 0)
        BY <2>2, <3>1
      <4> QED BY <2>2, <4>1, <4>2 DEF NumberSoFar
    <3>2. CASE c.status = 2
      <4>1. d.sector = number /\ d.sector_valid = valid
        BY <1>5, <3>2 DEF CardIs
      <4>2. CASE c.step = 0
        <5>1. e.status = 2 /\ e.step = 1
          BY <1>10, <2>2, <3>2, <4>2
        <5> QED BY <1>12, <2>2, <3>2, <4>1, <4>2, <5>1 DEF NumberSoFar
      <4>3. CASE c.step = 1
        <5>1. e.status = 3 /\ e.step = 0
          BY <1>10, <2>2, <3>2, <4>3
        <5>2. e.sector = Number(u) /\ (e.sector_valid <=> Number(u) <= MAX_SECTOR)
          BY <1>13, <2>2, <3>2, <4>1, <4>3 DEF valid
        <5> QED BY <5>1, <5>2 DEF NumberSoFar
      <4> QED BY <1>1, <1>2, <1>10, <3>2, <4>2, <4>3
    <3>3. CASE c.status >= 3
      <4>1. d = c /\ e.status >= 3
        BY <1>1, <1>5, <2>2, <3>3
      <4> QED BY <1>15, <2>2, <3>3, <4>1 DEF NumberSoFar
    <3> QED BY <2>1, <3>1, <3>2, <3>3
  <2>6. e.status >= 5 => e.sector_valid
    <3>1. CASE c.status <= 3
      BY <2>1, <2>2, <3>1
    <3>2. CASE c.status = 4
      <4>1. d = c
        BY <1>5, <3>2
      <4>2. e.status >= 5 => c.step = 1
        BY <1>1, <1>10, <2>2, <3>2
      <4> QED BY <2>2, <3>2, <4>1, <4>2 DEF stop
    <3>3. CASE c.status >= 5
      BY <1>1, <1>5, <2>2, <3>3
    <3> QED BY <2>1, <3>1, <3>2, <3>3
  <2> QED BY <1>3, <2>3, <2>4, <2>5, <2>6 DEF Reading
<1> QED BY <1>3, <1>11, <1>16, <1>17, <1>18 DEF e, u, stop

\* A card that waits for a command.
LEMMA IdleCard ==
    ASSUME NEW c \in Cards, NEW b \in Bytes, c.state = "IDLE"
    PROVE  LET s == CASE b = READ -> "READ" [] b = WRITE -> "WRITE"
                      [] b = GETID -> "GETID" [] OTHER -> "IDLE"
           IN  CardIs(CardSend(c, b), s, 1, 0, c.sector, c.sector_valid, c.checksum_valid,
                      c.temp, c.buffer)
<1> DEFINE s == CASE b = READ -> "READ" [] b = WRITE -> "WRITE"
                  [] b = GETID -> "GETID" [] OTHER -> "IDLE"
           one == 1
           zero == 0
           x == [c EXCEPT !.state = s, !.status = one, !.step = zero]
<1>1. CardSend(c, b) = x
  BY Zenon DEF CardSend, CardIdle
<1>2. s \in CardStates
  <2>1. /\ b = READ => s = "READ" 
        /\ b = WRITE => s = "WRITE"
        /\ b = GETID => s = "GETID"
        /\ b \notin {READ, WRITE, GETID} => s = "IDLE"
    BY DEF READ, WRITE, GETID
  <2> QED BY <2>1 DEF CardStates
<1>3. one \in 1..7 /\ zero \in Nat
  OBVIOUS
<1> HIDE DEF s, one, zero
<1>4. x \in Cards
  BY <1>2, <1>3 DEF Cards, CardStates
<1>5. /\ x.state = s /\ x.status = one /\ x.step = zero /\ x.sector = c.sector
      /\ x.sector_valid = c.sector_valid /\ x.checksum_valid = c.checksum_valid
      /\ x.temp = c.temp /\ x.buffer = c.buffer
  BY DEF Cards
<1> HIDE DEF x
<1>6. CardIs(x, s, one, zero, c.sector, c.sector_valid, c.checksum_valid, c.temp, c.buffer)
  BY <1>4, <1>5 DEF CardIs
<1> QED BY <1>1, <1>6 DEF s, one, zero

LEMMA CardBreaks ==
    ASSUME NEW c \in Cards, NEW b \in Bytes, c.state \in {"GETID", "BREAK"}
    PROVE  /\ CardSend(c, b) \in Cards /\ CardSend(c, b).state = "BREAK"
           /\ CardSend(c, b).buffer = c.buffer
<1> DEFINE s == "BREAK"
           x == [c EXCEPT !.state = s]
<1>1. CardSend(c, b) = x
  BY DEF CardSend
<1>2. s \in CardStates
  BY DEF CardStates
<1> HIDE DEF s
<1>3. x \in Cards
  BY <1>2 DEF Cards, CardStates
<1>4. x.state = s /\ x.buffer = c.buffer
  BY DEF Cards
<1> HIDE DEF x
<1> QED BY <1>1, <1>3, <1>4 DEF s

\* The first byte of the history is the command.
LEMMA FirstByte ==
    ASSUME NEW b \in Bytes
    PROVE  LET u == Append(<<>>, b) IN
           /\ u = <<b>> /\ u \in Seq(Bytes) /\ Len(u) = 1 /\ u[1] = b
           /\ b \in {READ, WRITE} => CommandLength(u) # 1
           /\ b \notin {READ, WRITE} => CommandLength(u) = 1 /\ ~GoodWrite(u)
<1> DEFINE u == Append(<<>>, b)
<1>0. SECTOR \in Nat
  BY PadCardAssumption
<1>1. u = <<b>> /\ u \in Seq(Bytes) /\ Len(u) = 1 /\ u[1] = b
  OBVIOUS
<1> HIDE DEF u
<1>2. b = WRITE => CommandLength(u) = SECTOR + 9
  <2>1. b = WRITE => u[1] = WRITE /\ u[1] # READ
    BY <1>1 DEF READ, WRITE
  <2> QED BY <2>1, Zenon DEF CommandLength
<1>3. b = READ => CommandLength(u) = SECTOR + 11
  <2>1. b = READ => ~(u[1] = WRITE) /\ u[1] = READ /\ Len(u) < 5 /\ ~(Len(u) >= 5)
    BY <1>1 DEF READ, WRITE
  <2> QED BY <2>1, Zenon DEF CommandLength
<1>4. b \notin {READ, WRITE} => CommandLength(u) = 1
  BY <1>1 DEF CommandLength
<1>5. b # WRITE => ~GoodWrite(u)
  BY <1>1 DEF GoodWrite
<1> QED BY <1>0, <1>1, <1>2, <1>3, <1>4, <1>5 DEF u

\* The card keeps in step with the commands, whatever it receives.
LEMMA CardSendInv ==
    ASSUME NEW c, NEW t, NEW w, CardInv(c, t, w), NEW b \in Bytes, c.state # "BREAK"
    PROVE  CardInv(CardSend(c, b), TalkAfter(t, b), WrittenAfter(t, b, w))
<1> DEFINE e == CardSend(c, b)
           u == Append(t, b)
           tt == TalkAfter(t, b)
           ww == WrittenAfter(t, b, w)
<1>0. SECTOR \in Nat /\ SECTOR >= 1
  BY PadCardAssumption
<1>1. c \in Cards /\ t \in Seq(Bytes) /\ c.buffer = w
  BY DEF CardInv
<1>2. /\ Len(u) = CommandLength(u) => tt = <<>>
      /\ Len(u) # CommandLength(u) => tt = u
      /\ Len(u) = CommandLength(u) /\ GoodWrite(u) => ww = [w EXCEPT ![Number(u)] = Data(u)]
      /\ ~(Len(u) = CommandLength(u) /\ GoodWrite(u)) => ww = w
  BY DEF TalkAfter, WrittenAfter
<1>e. <<>> \in Seq(Bytes)
  OBVIOUS
<1>3. CASE c.state = "IDLE"
  <2> DEFINE s == CASE b = READ -> "READ" [] b = WRITE -> "WRITE"
                    [] b = GETID -> "GETID" [] OTHER -> "IDLE"
  <2>1. t = <<>> /\ c.sector = 0
    BY <1>3 DEF CardInv
  <2>2. CardIs(e, s, 1, 0, c.sector, c.sector_valid, c.checksum_valid, c.temp, c.buffer)
    BY <1>1, <1>3, IdleCard
  <2>3. /\ u \in Seq(Bytes) /\ Len(u) = 1 /\ u[1] = b
        /\ b \in {READ, WRITE} => CommandLength(u) # 1
        /\ b \notin {READ, WRITE} => CommandLength(u) = 1 /\ ~GoodWrite(u)
    BY <2>1, FirstByte
  <2>4. /\ b = READ => s = "READ"
        /\ b = WRITE => s = "WRITE"
        /\ b \notin {READ, WRITE} => s \in {"GETID", "IDLE"}
    BY DEF READ, WRITE, GETID
  <2> HIDE DEF e, u, tt, ww, s
  <2>5. /\ e \in Cards /\ e.state = s /\ e.status = 1 /\ e.step = 0 /\ e.sector = 0
        /\ e.buffer = w
    BY <1>1, <2>1, <2>2 DEF CardIs
  <2>6. NumberSoFar(e, u)
    BY <2>5 DEF NumberSoFar
  <2>7. CASE b = READ
    <3>1. tt = u /\ ww = w
      BY <1>2, <2>3, <2>7
    <3>2. e.step < READ_MAX_STEPS[e.status]
      BY <2>5, ReadPhases
    <3>3. Len(u) = ReadOffset(e.status) + e.step
      BY <2>3, <2>5 DEF ReadOffset
    <3>4. Reading(e, u)
      BY <2>3, <2>5, <2>6, <2>7, <3>2, <3>3 DEF Reading
    <3> QED BY <2>3, <2>4, <2>5, <2>7, <3>1, <3>4 DEF CardInv, e, tt, ww
  <2>8. CASE b = WRITE
    <3>1. tt = u /\ ww = w
      BY <1>2, <2>3, <2>8
    <3>2. e.step < WRITE_MAX_STEPS[e.status]
      BY <2>5, WritePhases
    <3>3. Len(u) = WriteOffset(e.status) + e.step
      BY <2>3, <2>5 DEF WriteOffset
    <3>4. Writing(e, u)
      BY <2>3, <2>5, <2>6, <2>8, <3>2, <3>3 DEF Writing
    <3> QED BY <2>3, <2>4, <2>5, <2>8, <3>1, <3>4 DEF CardInv, e, tt, ww
  <2>9. CASE b \notin {READ, WRITE}
    <3>1. tt = <<>> /\ ww = w
      BY <1>2, <2>3, <2>9
    <3> QED BY <1>e, <2>4, <2>5, <2>9, <3>1 DEF CardInv, e, tt, ww
  <2> QED BY <2>7, <2>8, <2>9
<1>4. CASE c.state = "GETID"
  <2>1. t = <<>>
    BY <1>4 DEF CardInv
  <2>2. e \in Cards /\ e.state = "BREAK" /\ e.buffer = w
    BY <1>1, <1>4, CardBreaks
  <2>3. u \in Seq(Bytes)
    BY <2>1, FirstByte
  <2>4. ~GoodWrite(u) \/ Len(u) # CommandLength(u)
    BY <2>1, FirstByte
  <2>5. ww = w /\ tt \in Seq(Bytes)
    BY <1>2, <1>e, <2>3, <2>4
  <2> HIDE DEF e, tt, ww
  <2> QED BY <2>2, <2>5 DEF CardInv, e, tt, ww
<1>5. CASE c.state = "WRITE"
  <2>1. Writing(c, t)
    BY <1>5 DEF CardInv
  <2>2. u \in Seq(Bytes) /\ u[1] = WRITE
    <3>1. Len(t) >= 1
      BY <1>0, <1>1, <2>1, CardFields DEF Writing, WriteOffset
    <3> QED BY <1>1, <2>1, <3>1, Longer DEF Writing
  <2>3. CommandLength(u) = SECTOR + 9
    <3>1. u[1] # READ
      BY <2>2 DEF READ, WRITE
    <3> QED BY <2>2, <3>1, Zenon DEF CommandLength
  <2>4. CASE c.status # 6
    <3>1. /\ e \in Cards /\ e.state = "WRITE" /\ e.buffer = c.buffer
          /\ Writing(e, u) /\ Len(u) # SECTOR + 9
      BY <1>1, <1>5, <2>1, <2>4, WriteGoesOn
    <3>2. tt = u /\ ww = w
      BY <1>2, <2>3, <3>1
    <3> HIDE DEF e, tt, ww, u
    <3> QED BY <1>1, <2>2, <3>1, <3>2 DEF CardInv, e, tt, ww
  <2>5. CASE c.status = 6
    <3>1. /\ e \in Cards /\ e.state = "IDLE" /\ e.sector = 0
          /\ Len(u) = SECTOR + 9
          /\ e.buffer = IF GoodWrite(u) THEN [c.buffer EXCEPT ![Number(u)] = Data(u)]
                                        ELSE c.buffer
      BY <1>1, <1>5, <2>1, <2>5, WriteEnds
    <3>2. tt = <<>>
      BY <1>2, <2>3, <3>1
    <3>3. e.buffer = ww
      BY <1>1, <1>2, <2>3, <3>1
    <3> HIDE DEF e, tt, ww, u
    <3> QED BY <1>e, <3>1, <3>2, <3>3 DEF CardInv, e, tt, ww
  <2> QED BY <2>4, <2>5
<1>6. CASE c.state = "READ"
  <2> DEFINE stop == c.status = 7 \/ (c.status = 4 /\ c.step = 1 /\ ~c.sector_valid)
  <2>1. /\ e \in Cards /\ e.buffer = c.buffer /\ u[1] = READ
        /\ stop => e.state = "IDLE" /\ e.sector = 0 /\ Len(u) = CommandLength(u)
        /\ ~stop => e.state = "READ" /\ Reading(e, u) /\ Len(u) # CommandLength(u)
    <3>1. Reading(c, t)
      BY <1>6 DEF CardInv
    <3> QED BY <1>1, <1>6, <3>1, ReadSteps
  <2>2. ~GoodWrite(u) /\ u \in Seq(Bytes)
    BY <1>1, <2>1 DEF GoodWrite, READ, WRITE
  <2>3. ww = w
    BY <1>2, <2>2
  <2> HIDE DEF e, tt, ww, u, stop
  <2>4. CASE stop
    <3>1. tt = <<>>
      BY <1>2, <2>1, <2>4
    <3> QED BY <1>1, <1>e, <2>1, <2>3, <2>4, <3>1 DEF CardInv, e, tt, ww
  <2>5. CASE ~stop
    <3>1. tt = u
      BY <1>2, <2>1, <2>5
    <3> QED BY <1>1, <2>1, <2>2, <2>3, <2>5, <3>1 DEF CardInv, e, tt, ww
  <2> QED BY <2>4, <2>5
<1> QED BY <1>1, <1>3, <1>4, <1>5, <1>6, CardFields DEF CardStates

\* A reset drops the command.
LEMMA CardResetInv ==
    ASSUME NEW c, NEW t, NEW w, CardInv(c, t, w)
    PROVE  CardInv(CardReset(c), <<>>, w) /\ CardReset(c).state = "IDLE"
<1> DEFINE idle == "IDLE"
           one == 1
           zero == 0
           no == FALSE
           x == [c EXCEPT !.state = idle, !.status = one, !.step = zero, !.sector = zero,
                          !.sector_valid = no, !.checksum_valid = no]
<1>1. c \in Cards /\ c.buffer = w
  BY DEF CardInv
<1>2. CardReset(c) = x
  BY DEF CardReset
<1>3. idle \in CardStates /\ one \in 1..7 /\ zero \in Nat /\ zero \in Numbers
      /\ no \in BOOLEAN
  BY DEF CardStates, Numbers, BYTE
<1> HIDE DEF idle, one, zero, no
<1>4. x \in Cards
  BY <1>1, <1>3 DEF Cards, CardStates, Numbers
<1>5. x.state = idle /\ x.sector = zero /\ x.buffer = w
  BY <1>1 DEF Cards
<1> HIDE DEF x
<1>6. x.state = "IDLE" /\ x.sector = 0
  BY <1>5 DEF idle, zero
<1>7. <<>> \in Seq(Bytes)
  OBVIOUS
<1>8. CardInv(x, <<>>, w)
  BY <1>4, <1>5, <1>6, <1>7 DEF CardInv
<1> QED BY <1>2, <1>6, <1>8

(***************************************************************************)
(* The driver.                                                             *)
(***************************************************************************)
\* A driver with these members.
DriverIs(d, selected, pad, card, talk, written, heard, known, misframed) ==
    /\ d \in Drivers
    /\ d.selected = selected /\ d.pad = pad /\ d.card = card /\ d.talk = talk
    /\ d.written = written /\ d.heard = heard /\ d.known = known
    /\ d.misframed = misframed

Selections == {"NONE", "PAD", "MEMCARD"}

LEMMA DriverFields ==
    ASSUME NEW d \in Drivers
    PROVE  /\ d.selected \in Selections /\ d.pad \in Pads /\ d.card \in Cards
           /\ d.talk \in Seq(Bytes) /\ d.written \in [Sectors -> SectorData]
           /\ d.heard \in Seq(Bytes) /\ d.known \in Known /\ d.misframed \in BOOLEAN
  BY DEF Drivers, Selections

\* A byte for the driver.
LEMMA DriverSendFacts ==
    ASSUME NEW d \in Drivers, NEW b \in Bytes, d.card.state # "BREAK",
           CardInv(d.card, d.talk, d.written)
    PROVE  LET e == DriverSend(d, b)
               late == d.misframed \/ PadReceives(d.pad, b).response = 0 IN
           /\ d.selected = "NONE"
                => DriverIs(e, SelectDevice(b), d.pad, d.card, d.talk, d.written, <<b>>,
                            d.known, d.misframed)
           /\ d.selected = "PAD"
                => DriverIs(e, d.selected, PadSend(d.pad, b), d.card, d.talk, d.written,
                            Append(d.heard, b), d.known, late)
           /\ d.selected = "MEMCARD"
                => DriverIs(e, d.selected, d.pad, CardSend(d.card, b),
                            TalkAfter(d.talk, b), WrittenAfter(d.talk, b, d.written),
                            d.heard, d.known, d.misframed)
<1> DEFINE e == DriverSend(d, b)
           late == d.misframed \/ PadReceives(d.pad, b).response = 0
           s == SelectDevice(b)
           f == <<b>>
           g == Append(d.heard, b)
           p == PadSend(d.pad, b)
           c == CardSend(d.card, b)
           t == TalkAfter(d.talk, b)
           w == WrittenAfter(d.talk, b, d.written)
           x == [d EXCEPT !.selected = s, !.heard = f]
           y == [d EXCEPT !.pad = p, !.heard = g, !.misframed = late]
           v == [d EXCEPT !.talk = t, !.written = w]
           z == [v EXCEPT !.card = c]
<1>1. /\ d.selected = "NONE" => e = x
      /\ d.selected = "PAD" => e = y
  BY DEF DriverSend
<1>2. d.selected = "MEMCARD" => e = z
  <2>1. CardTalk(d, b) = v
    BY Zenon DEF CardTalk, TalkAfter, WrittenAfter
  <2> HIDE DEF v
  <2> QED BY <2>1 DEF DriverSend
<1>3. s \in Selections /\ f \in Seq(Bytes) /\ g \in Seq(Bytes) /\ late \in BOOLEAN
  <2>1. s \in Selections
    BY DEF SelectDevice, Selections
  <2>2. f \in Seq(Bytes)
    OBVIOUS
  <2>3. g \in Seq(Bytes)
    BY DriverFields
  <2>4. late \in BOOLEAN
    BY DriverFields, Zenon
  <2> QED BY <2>1, <2>2, <2>3, <2>4
<1>4. p \in Pads
  BY DriverFields, SendFacts DEF PadIs
<1>5. c \in Cards /\ t \in Seq(Bytes) /\ w \in [Sectors -> SectorData]
  <2>1. CardInv(c, t, w)
    BY CardSendInv
  <2>2. c \in Cards /\ t \in Seq(Bytes) /\ c.buffer = w
    BY <2>1 DEF CardInv
  <2> QED BY <2>2, CardFields
<1> HIDE DEF e, late, s, f, g, p, c, t, w
<1>6. DriverIs(x, s, d.pad, d.card, d.talk, d.written, f, d.known, d.misframed)
  <2>1. x \in Drivers
    BY <1>3 DEF Drivers, Selections
  <2>2. /\ x.selected = s /\ x.pad = d.pad /\ x.card = d.card /\ x.talk = d.talk
        /\ x.written = d.written /\ x.heard = f /\ x.known = d.known
        /\ x.misframed = d.misframed
    BY DEF Drivers
  <2> HIDE DEF x
  <2> QED BY <2>1, <2>2 DEF DriverIs
<1>7. DriverIs(y, d.selected, p, d.card, d.talk, d.written, g, d.known, late)
  <2>1. y \in Drivers
    BY <1>3, <1>4 DEF Drivers
  <2>2. /\ y.selected = d.selected /\ y.pad = p /\ y.card = d.card /\ y.talk = d.talk
        /\ y.written = d.written /\ y.heard = g /\ y.known = d.known
        /\ y.misframed = late
    BY DEF Drivers
  <2> HIDE DEF y
  <2> QED BY <2>1, <2>2 DEF DriverIs
<1>8. DriverIs(z, d.selected, d.pad, c, t, w, d.heard, d.known, d.misframed)
  <2>1. v \in Drivers
    BY <1>5 DEF Drivers
  <2>2. /\ v.selected = d.selected /\ v.pad = d.pad /\ v.card = d.card /\ v.talk = t
        /\ v.written = w /\ v.heard = d.heard /\ v.known = d.known
        /\ v.misframed = d.misframed
    BY DEF Drivers
  <2> HIDE DEF v
  <2>3. z \in Drivers
    BY <1>5, <2>1 DEF Drivers
  <2>4. /\ z.selected = v.selected /\ z.pad = v.pad /\ z.card = c /\ z.talk = v.talk
        /\ z.written = v.written /\ z.heard = v.heard /\ z.known = v.known
        /\ z.misframed = v.misframed
    BY <2>1 DEF Drivers
  <2> HIDE DEF z
  <2> QED BY <2>2, <2>3, <2>4 DEF DriverIs
<1> HIDE DEF x, y, z, v
<1> QED BY <1>1, <1>2, <1>6, <1>7, <1>8 DEF e, late, s, f, g, p, c, t, w

\* The question for the acknowledge.
LEMMA DriverAckedFacts ==
    ASSUME NEW d \in Drivers
    PROVE  LET e == DriverAcked(d)
               done == d.selected = "PAD" /\ Len(d.heard) = Frame(d.known)
               s == IF DriverAck(d) THEN d.selected ELSE "NONE"
               p == IF d.selected = "PAD" THEN PadAcked(d.pad) ELSE d.pad
               h == IF d.selected = "PAD" /\ PadAck(d.pad) THEN d.heard ELSE <<>>
               k == IF done THEN ModeAfter(d.known, d.heard) ELSE d.known
               m == d.misframed \/ (d.selected = "PAD" /\ (PadAck(d.pad) <=> done))
           IN  DriverIs(e, s, p, d.card, d.talk, d.written, h, k, m)
<1> DEFINE e == DriverAcked(d)
           done == d.selected = "PAD" /\ Len(d.heard) = Frame(d.known)
           s == IF DriverAck(d) THEN d.selected ELSE "NONE"
           p == IF d.selected = "PAD" THEN PadAcked(d.pad) ELSE d.pad
           h == IF d.selected = "PAD" /\ PadAck(d.pad) THEN d.heard ELSE <<>>
           k == IF done THEN ModeAfter(d.known, d.heard) ELSE d.known
           m == d.misframed \/ (d.selected = "PAD" /\ (PadAck(d.pad) <=> done))
           x == [d EXCEPT !.selected = s, !.pad = p, !.heard = h, !.known = k,
                          !.misframed = m]
<1>1. e = x
  BY DEF DriverAcked
<1>2. s \in Selections /\ p \in Pads
  BY DriverFields, AckedFacts DEF Selections
<1>3. h \in Seq(Bytes)
  <2>1. <<>> \in Seq(Bytes)
    OBVIOUS
  <2> QED BY <2>1, DriverFields
<1>4. k \in Known
  BY DriverFields, ModeAfterFacts
<1>5. m \in BOOLEAN
  BY DriverFields, Zenon
<1> HIDE DEF e, done, s, p, h, k, m
<1>6. x \in Drivers
  BY <1>2, <1>3, <1>4, <1>5 DEF Drivers, Selections
<1>7. /\ x.selected = s /\ x.pad = p /\ x.card = d.card /\ x.talk = d.talk
      /\ x.written = d.written /\ x.heard = h /\ x.known = k /\ x.misframed = m
  BY DEF Drivers
<1> HIDE DEF x
<1>8. DriverIs(x, s, p, d.card, d.talk, d.written, h, k, m)
  BY <1>6, <1>7 DEF DriverIs
<1> QED BY <1>1, <1>8 DEF e, done, s, p, h, k, m

LEMMA UnselectFacts ==
    ASSUME NEW d \in Drivers
    PROVE  CardReset(d.card) \in Cards
              => DriverIs(Unselect(d), "NONE", PadReset(d.pad), CardReset(d.card), <<>>,
                          d.written, <<>>, d.known, d.misframed)
<1> DEFINE s == "NONE"
           p == PadReset(d.pad)
           c == CardReset(d.card)
           h == <<>>
           x == [d EXCEPT !.selected = s, !.pad = p, !.card = c, !.talk = h, !.heard = h]
<1> SUFFICES ASSUME c \in Cards
             PROVE  DriverIs(Unselect(d), s, p, c, h, d.written, h, d.known, d.misframed)
  OBVIOUS
<1>1. Unselect(d) = x
  BY DEF Unselect
<1>2. s \in Selections /\ h \in Seq(Bytes)
  BY DEF Selections
<1>3. p \in Pads
  BY DriverFields, ResetFacts DEF PadIs
<1> HIDE DEF s, p, c, h
<1>4. x \in Drivers
  BY <1>2, <1>3 DEF Drivers, Selections
<1>5. /\ x.selected = s /\ x.pad = p /\ x.card = c /\ x.talk = h
      /\ x.written = d.written /\ x.heard = h /\ x.known = d.known
      /\ x.misframed = d.misframed
  BY DEF Drivers
<1> HIDE DEF x
<1>6. DriverIs(x, s, p, c, h, d.written, h, d.known, d.misframed)
  BY <1>4, <1>5 DEF DriverIs
<1> QED BY <1>1, <1>6

(***************************************************************************)
(* What holds of the devices: for every guest, and for a careful one.      *)
(***************************************************************************)
DevInv(d) == d \in Drivers /\ CardInv(d.card, d.talk, d.written)

\* The driver after a byte and the question for its acknowledge.
Exchanged(d, b) == DriverAcked(DriverSend(d, b))

\* The byte and the question, together.
LEMMA ExchangedFacts ==
    ASSUME NEW d, DevInv(d), ~Broken(d), NEW b \in Bytes
    PROVE  LET c == DriverSend(d, b)
               e == Exchanged(d, b) IN
           /\ DevInv(e) /\ c \in Drivers /\ e.card = c.card
<1> DEFINE c == DriverSend(d, b)
           e == Exchanged(d, b)
           t == TalkAfter(d.talk, b)
           w == WrittenAfter(d.talk, b, d.written)
           late == d.misframed \/ PadReceives(d.pad, b).response = 0
<1>1. d \in Drivers /\ CardInv(d.card, d.talk, d.written) /\ d.card.state # "BREAK"
  BY DEF DevInv, Broken
<1>2. d.selected \in Selections
  BY <1>1, DriverFields
<1>3. /\ d.selected = "NONE"
           => DriverIs(c, SelectDevice(b), d.pad, d.card, d.talk, d.written, <<b>>,
                       d.known, d.misframed)
      /\ d.selected = "PAD"
           => DriverIs(c, d.selected, PadSend(d.pad, b), d.card, d.talk, d.written,
                       Append(d.heard, b), d.known, late)
      /\ d.selected = "MEMCARD"
           => DriverIs(c, d.selected, d.pad, CardSend(d.card, b), t, w,
                       d.heard, d.known, d.misframed)
  BY <1>1, DriverSendFacts
<1>4. CardInv(CardSend(d.card, b), t, w)
  BY <1>1, CardSendInv
<1> HIDE DEF c, t, w, late
<1>5. c \in Drivers /\ CardInv(c.card, c.talk, c.written)
  <2>1. CASE d.selected = "NONE"
    BY <1>1, <1>3, <2>1 DEF DriverIs
  <2>2. CASE d.selected = "PAD"
    BY <1>1, <1>3, <2>2 DEF DriverIs
  <2>3. CASE d.selected = "MEMCARD"
    BY <1>3, <1>4, <2>3 DEF DriverIs
  <2> QED BY <1>2, <2>1, <2>2, <2>3 DEF Selections
<1>6. e \in Drivers /\ e.card = c.card /\ e.talk = c.talk /\ e.written = c.written
  <2>1. e = DriverAcked(c)
    BY DEF Exchanged, c
  <2> HIDE DEF e
  <2> QED BY <1>5, <2>1, DriverAckedFacts DEF DriverIs
<1> HIDE DEF e
<1> QED BY <1>5, <1>6 DEF DevInv, c, e

LEMMA UnselectInv ==
    ASSUME NEW d, DevInv(d)
    PROVE  /\ DevInv(Unselect(d))
           /\ DriverIs(Unselect(d), "NONE", PadReset(d.pad), CardReset(d.card), <<>>,
                       d.written, <<>>, d.known, d.misframed)
           /\ CardReset(d.card).state = "IDLE"
<1>1. d \in Drivers /\ CardInv(d.card, d.talk, d.written)
  BY DEF DevInv
<1>2. CardInv(CardReset(d.card), <<>>, d.written) /\ CardReset(d.card).state = "IDLE"
  BY <1>1, CardResetInv
<1>3. CardReset(d.card) \in Cards
  BY <1>2 DEF CardInv
<1>4. DriverIs(Unselect(d), "NONE", PadReset(d.pad), CardReset(d.card), <<>>,
               d.written, <<>>, d.known, d.misframed)
  BY <1>1, <1>3, UnselectFacts
<1>5. DevInv(Unselect(d))
  BY <1>2, <1>4 DEF DevInv, DriverIs
<1> QED BY <1>2, <1>4, <1>5

\* Every exchange with the pad is in step, and the card gets no command that it
\* cannot take.
PadOK(d) ==
    /\ ~d.misframed /\ d.card.state \notin {"GETID", "BREAK"}
    /\ d.selected = "PAD" => \/ d.heard = <<PAD>> /\ Rest(d.pad, d.known)
                             \/ Mid(d.pad, d.known, d.heard)
    /\ d.selected # "PAD" => Rest(d.pad, d.known)

\* The bytes that go to the devices in their state.
FitsDevice(d, b) ==
    /\ d.selected = "PAD" /\ d.pad.status = "IDLE" => b \in {READ, CONFIG_MODE}
    /\ d.selected = "PAD" /\ d.pad.status = "CONFIG" /\ d.pad.conf = "CONFIG_IDLE"
         /\ d.pad.in_fifo = <<>> => b \in ConfigCommands
    /\ d.selected = "MEMCARD" /\ d.card.state = "IDLE" => b \in {READ, WRITE}

\* A pad in an exchange acknowledges, and a pad at rest does when it is selected.
LEMMA MidAck ==
    ASSUME NEW k \in Known, NEW p, NEW h \in Seq(Bytes), Mid(p, k, h)
    PROVE  PadAck(p) /\ PadAcked(p) = p /\ Len(h) # Frame(k) /\ p.status # "BREAK"
<1>1. p \in Pads /\ Len(h) \in Nat /\ Frame(k) \in {5, 9} /\ Len(h) < Frame(k)
  BY FrameFacts DEF Mid
<1>2. CASE ~k.config /\ h[2] = READ
  <2>1. p.status = "READ_STAT" /\ p.response = Frame(k) - Len(h)
    BY <1>2 DEF Mid, READ, CONFIG_MODE
  <2>2. p.response # 0
    BY <1>1, <2>1
  <2> QED BY <1>1, <2>1, <2>2 DEF PadAck, PadAcked
<1>3. CASE ~k.config /\ h[2] = CONFIG_MODE
  <2>1. p.status = "CONFIG" /\ p.conf = "JUST_ENTERED" /\ p.response = Frame(k) - Len(h)
    BY <1>3 DEF Mid, READ, CONFIG_MODE
  <2>2. p.response # 0
    BY <1>1, <2>1
  <2> QED BY <1>1, <2>1, <2>2 DEF PadAck, PadAcked
<1>4. CASE k.config
  <2>1. p.status = "CONFIG" /\ p.conf = "CONFIG_IDLE"
    BY <1>4 DEF Mid
  <2> QED BY <1>1, <2>1 DEF PadAck, PadAcked
<1> QED BY <1>2, <1>3, <1>4 DEF Mid

LEMMA RestAck ==
    ASSUME NEW k \in Known, NEW p, Rest(p, k)
    PROVE  PadAck(p) /\ PadAcked(p) = p /\ p.status # "BREAK" /\ PadReset(p) \in Pads
           /\ Rest(PadReset(p), k)
<1>0. k.config \in BOOLEAN
  BY DEF Known
<1>1. \/ p.status = "IDLE" /\ ~k.config
      \/ p.status = "CONFIG" /\ p.conf = "CONFIG_IDLE" /\ k.config
  BY <1>0 DEF Rest
<1>2. PadAck(p) /\ PadAcked(p) = p
  BY <1>1 DEF PadAck, PadAcked
<1>3. p \in Pads /\ p.in_fifo = <<>> /\ SameMode(p, k)
  BY DEF Rest
<1>4. PadIs(PadReset(p), p.status, p.conf, p.mode, p.in_fifo, 0)
  BY <1>1, <1>3, ResetFacts
<1>5. Rest(PadReset(p), k)
  BY <1>1, <1>3, <1>4 DEF Rest, PadIs, SameMode
<1> QED BY <1>1, <1>2, <1>4, <1>5 DEF PadIs

\* A reset in the middle of a read exchange leaves the pad at rest.
LEMMA MidReset ==
    ASSUME NEW k \in Known, NEW p, NEW h \in Seq(Bytes), Mid(p, k, h),
           ~(p.status = "CONFIG" /\ (p.conf = "JUST_ENTERED" \/ p.in_fifo # <<>>))
    PROVE  Rest(PadReset(p), k)
<1>0. k.config \in BOOLEAN /\ p \in Pads /\ SameMode(p, k) /\ Len(h) >= 2 /\ Len(h) \in Nat
  BY DEF Known, Mid
<1>1. ~k.config /\ p.status = "READ_STAT" /\ p.in_fifo = <<>>
  <2>1. CASE ~k.config /\ h[2] = CONFIG_MODE
    BY <2>1 DEF Mid, READ, CONFIG_MODE
  <2>2. CASE k.config
    <3>1. p.status = "CONFIG" /\ Len(p.in_fifo) = Len(h) - 1
      BY <2>2 DEF Mid
    <3>2. Len(p.in_fifo) # 0
      BY <1>0, <3>1
    <3>3. Len(<<>>) = 0
      OBVIOUS
    <3> QED BY <3>1, <3>2, <3>3
  <2>3. CASE ~k.config /\ h[2] = READ
    BY <2>3 DEF Mid, READ, CONFIG_MODE
  <2> QED BY <2>1, <2>2, <2>3 DEF Mid
<1>2. PadIs(PadReset(p), "IDLE", p.conf, p.mode, p.in_fifo, 0)
  BY <1>0, <1>1, ResetFacts
<1> QED BY <1>0, <1>1, <1>2 DEF Rest, PadIs, SameMode

\* A card that gets only commands it knows does not break.
LEMMA CardWell ==
    ASSUME NEW c, NEW t, NEW w, CardInv(c, t, w), NEW b \in Bytes,
           c.state \notin {"GETID", "BREAK"}, c.state = "IDLE" => b \in {READ, WRITE}
    PROVE  CardSend(c, b).state \notin {"GETID", "BREAK"}
<1>1. c \in Cards /\ t \in Seq(Bytes)
  BY DEF CardInv
<1>2. CASE c.state = "IDLE"
  <2>1. b \in {READ, WRITE}
    BY <1>2
  <2>2. (CASE b = READ -> "READ" [] b = WRITE -> "WRITE"
           [] b = GETID -> "GETID" [] OTHER -> "IDLE") \in {"READ", "WRITE"}
    BY <2>1 DEF READ, WRITE, GETID
  <2> DEFINE s == CASE b = READ -> "READ" [] b = WRITE -> "WRITE"
                    [] b = GETID -> "GETID" [] OTHER -> "IDLE"
  <2>3. CardIs(CardSend(c, b), s, 1, 0, c.sector, c.sector_valid, c.checksum_valid,
               c.temp, c.buffer)
    BY <1>1, <1>2, IdleCard
  <2>4. s \in {"READ", "WRITE"}
    BY <2>2
  <2> HIDE DEF s
  <2>5. CardSend(c, b).state = s
    BY <2>3 DEF CardIs
  <2> QED BY <2>4, <2>5
<1>3. CASE c.state = "WRITE"
  <2>1. Writing(c, t)
    BY <1>3 DEF CardInv
  <2>2. CASE c.status # 6
    BY <1>1, <1>3, <2>1, <2>2, WriteGoesOn
  <2>3. CASE c.status = 6
    BY <1>1, <1>3, <2>1, <2>3, WriteEnds
  <2> QED BY <2>2, <2>3
<1>4. CASE c.state = "READ"
  <2>1. Reading(c, t)
    BY <1>4 DEF CardInv
  <2> DEFINE stop == c.status = 7 \/ (c.status = 4 /\ c.step = 1 /\ ~c.sector_valid)
  <2>2. /\ stop => CardSend(c, b).state = "IDLE"
        /\ ~stop => CardSend(c, b).state = "READ"
    BY <1>1, <1>4, <2>1, ReadSteps
  <2> QED BY <2>2
<1> QED BY <1>1, <1>2, <1>3, <1>4, CardFields DEF CardStates

\* The pad stays in step, byte by byte.
LEMMA PadKeepsStep ==
    ASSUME NEW d, DevInv(d), PadOK(d), NEW b \in Bytes, FitsDevice(d, b)
    PROVE  PadOK(Exchanged(d, b))
<1> DEFINE c == DriverSend(d, b)
           e == Exchanged(d, b)
           k == d.known
           late == d.misframed \/ PadReceives(d.pad, b).response = 0
           t == TalkAfter(d.talk, b)
           w == WrittenAfter(d.talk, b, d.written)
<1>1. d \in Drivers /\ CardInv(d.card, d.talk, d.written) /\ d.card.state # "BREAK"
  BY DEF DevInv, PadOK
<1>2. /\ k \in Known /\ d.heard \in Seq(Bytes) /\ d.selected \in Selections
      /\ d.pad \in Pads /\ d.misframed = FALSE
  BY <1>1, DriverFields DEF PadOK
<1>3. /\ d.selected = "NONE"
           => DriverIs(c, SelectDevice(b), d.pad, d.card, d.talk, d.written, <<b>>,
                       k, d.misframed)
      /\ d.selected = "PAD"
           => DriverIs(c, d.selected, PadSend(d.pad, b), d.card, d.talk, d.written,
                       Append(d.heard, b), k, late)
      /\ d.selected = "MEMCARD"
           => DriverIs(c, d.selected, d.pad, CardSend(d.card, b), t, w, d.heard, k,
                       d.misframed)
  BY <1>1, DriverSendFacts
<1>4. c \in Drivers
  <2>1. CASE d.selected = "NONE"
    BY <1>3, <2>1 DEF DriverIs
  <2>2. CASE d.selected = "PAD"
    BY <1>3, <2>2 DEF DriverIs
  <2>3. CASE d.selected = "MEMCARD"
    BY <1>3, <2>3 DEF DriverIs
  <2> QED BY <1>2, <2>1, <2>2, <2>3 DEF Selections
<1> HIDE DEF c
<1> DEFINE done == c.selected = "PAD" /\ Len(c.heard) = Frame(c.known)
           s == IF DriverAck(c) THEN c.selected ELSE "NONE"
           p == IF c.selected = "PAD" THEN PadAcked(c.pad) ELSE c.pad
           h == IF c.selected = "PAD" /\ PadAck(c.pad) THEN c.heard ELSE <<>>
           l == IF done THEN ModeAfter(c.known, c.heard) ELSE c.known
           m == c.misframed \/ (c.selected = "PAD" /\ (PadAck(c.pad) <=> done))
<1>5. DriverIs(e, s, p, c.card, c.talk, c.written, h, l, m)
  <2>1. e = DriverAcked(c)
    BY DEF Exchanged, c
  <2> HIDE DEF e
  <2> QED BY <1>4, <2>1, DriverAckedFacts
<1> HIDE DEF e, t, w, late
\* The pad does not take part.
<1>6. ASSUME c.selected # "PAD", c.pad = d.pad, c.known = k, Rest(d.pad, k),
             c.misframed = FALSE, c.card.state \notin {"GETID", "BREAK"}
      PROVE  PadOK(e)
  <2>1. s # "PAD" /\ p = d.pad /\ l = k
    BY <1>6
  <2>2. m = FALSE
    BY <1>6
  <2> HIDE DEF s, p, l, m, h
  <2> QED BY <1>5, <1>6, <2>1, <2>2 DEF DriverIs, PadOK
\* The pad acknowledges before the end of the exchange.
<1>7. ASSUME c.selected = "PAD", c.known = k, c.misframed = FALSE,
             c.card.state \notin {"GETID", "BREAK"},
             PadAck(c.pad), PadAcked(c.pad) = c.pad, Len(c.heard) # Frame(k),
             \/ c.heard = <<PAD>> /\ Rest(c.pad, k)
             \/ Mid(c.pad, k, c.heard)
      PROVE  PadOK(e)
  <2>1. DriverAck(c)
    BY <1>7 DEF DriverAck
  <2>2. done = FALSE
    BY <1>7
  <2>3. s = "PAD" /\ p = c.pad /\ h = c.heard /\ l = k
    BY <1>7, <2>1, <2>2
  <2>4. m = FALSE
    BY <1>7, <2>2
  <2> HIDE DEF s, p, l, m, h, done
  <2> QED BY <1>5, <1>7, <2>3, <2>4 DEF DriverIs, PadOK
<1>8. CASE d.selected = "NONE"
  <2>1. /\ c.selected = SelectDevice(b) /\ c.pad = d.pad /\ c.card = d.card
        /\ c.heard = <<b>> /\ c.known = k /\ c.misframed = FALSE
    BY <1>2, <1>3, <1>8 DEF DriverIs
  <2>2. Rest(d.pad, k) /\ c.card.state \notin {"GETID", "BREAK"}
    BY <1>8, <2>1 DEF PadOK
  <2>3. CASE b = PAD
    <3>1. c.selected = "PAD"
      BY <2>1, <2>3 DEF SelectDevice, PAD, MEMCARD
    <3>2. PadAck(c.pad) /\ PadAcked(c.pad) = c.pad /\ Rest(c.pad, k)
      BY <1>2, <2>1, <2>2, RestAck
    <3>3. Len(c.heard) # Frame(k)
      <4>1. SameMode(d.pad, k)
        BY <2>2 DEF Rest
      <4>2. Frame(k) \in {5, 9}
        BY <1>2, <4>1, FrameFacts
      <4>3. Len(c.heard) = 1
        BY <2>1
      <4> QED BY <4>2, <4>3
    <3> QED BY <1>7, <2>1, <2>2, <2>3, <3>1, <3>2, <3>3 DEF e
  <2>4. CASE b # PAD
    <3>1. c.selected # "PAD"
      BY <2>1, <2>4 DEF SelectDevice
    <3> QED BY <1>6, <2>1, <2>2, <3>1 DEF e
  <2> QED BY <2>3, <2>4
<1>9. CASE d.selected = "MEMCARD"
  <2>1. /\ c.selected = "MEMCARD" /\ c.pad = d.pad /\ c.card = CardSend(d.card, b)
        /\ c.known = k /\ c.misframed = FALSE
    BY <1>2, <1>3, <1>9 DEF DriverIs
  <2>2. Rest(d.pad, k)
    BY <1>9 DEF PadOK
  <2>3. CardSend(d.card, b).state \notin {"GETID", "BREAK"}
    <3>1. d.card.state = "IDLE" => b \in {READ, WRITE}
      BY <1>9 DEF FitsDevice
    <3>2. d.card.state \notin {"GETID", "BREAK"}
      BY DEF PadOK
    <3> QED BY <1>1, <3>1, <3>2, CardWell
  <2> QED BY <1>6, <2>1, <2>2, <2>3 DEF e
<1>10. CASE d.selected = "PAD"
  <2>1. /\ c.selected = "PAD" /\ c.pad = PadSend(d.pad, b) /\ c.card = d.card
        /\ c.heard = Append(d.heard, b) /\ c.known = k
        /\ c.misframed = late
    BY <1>3, <1>10 DEF DriverIs
  <2>2. c.card.state \notin {"GETID", "BREAK"}
    BY <2>1 DEF PadOK
  <2>3. PadReceives(d.pad, b).response # 0 => c.misframed = FALSE
    BY <1>2, <2>1 DEF late
  <2>4. c.heard \in Seq(Bytes)
    BY <1>4, DriverFields
  <2>5. CASE Mid(c.pad, k, c.heard) /\ PadReceives(d.pad, b).response # 0
    <3>1. PadAck(c.pad) /\ PadAcked(c.pad) = c.pad /\ Len(c.heard) # Frame(k)
      BY <1>2, <2>4, <2>5, MidAck
    <3> QED BY <1>7, <2>1, <2>2, <2>3, <2>5, <3>1 DEF e
  <2>6. CASE d.heard = <<PAD>> /\ Rest(d.pad, k)
    <3>1. /\ d.pad.status = "IDLE" => b \in {READ, CONFIG_MODE}
          /\ d.pad.status = "CONFIG" => b \in ConfigCommands
      <4>1. k.config \in BOOLEAN
        BY <1>2 DEF Known
      <4>2. d.pad.status = "CONFIG" => d.pad.conf = "CONFIG_IDLE" /\ d.pad.in_fifo = <<>>
        BY <2>6, <4>1 DEF Rest
      <4> QED BY <1>10, <4>2 DEF FitsDevice
    <3>2. Len(c.heard) = 2 /\ c.heard[2] = b
      <4>1. d.heard \in Seq(Bytes) /\ Len(d.heard) = 1
        BY <1>2, <2>6
      <4>2. /\ Len(Append(d.heard, b)) = Len(d.heard) + 1
            /\ Append(d.heard, b)[Len(d.heard) + 1] = b
        BY <4>1, AppendFacts
      <4> QED BY <2>1, <4>1, <4>2
    <3>3. Mid(c.pad, k, c.heard) /\ PadReceives(d.pad, b).response # 0
      BY <1>2, <2>1, <2>6, <3>1, <3>2, Begins
    <3> QED BY <2>5, <3>3
  <2>7. CASE Mid(d.pad, k, d.heard)
    <3>1. Len(d.heard) \in Nat /\ Frame(k) \in {5, 9} /\ Len(d.heard) < Frame(k)
      BY <1>2, <2>7, FrameFacts DEF Mid
    <3>2. CASE Len(d.heard) + 1 < Frame(k)
      <4>1. Mid(c.pad, k, c.heard) /\ PadReceives(d.pad, b).response # 0
        BY <1>2, <2>1, <2>7, <3>2, Continues
      <4> QED BY <2>5, <4>1
    <3>3. CASE Len(d.heard) + 1 = Frame(k)
      <4>1. /\ ~PadAck(c.pad)
            /\ Rest(PadAcked(c.pad), ModeAfter(k, c.heard))
            /\ PadReceives(d.pad, b).response # 0
        BY <1>2, <2>1, <2>7, <3>3, Ends
      <4>2. Len(c.heard) = Frame(k)
        BY <1>2, <2>1, <3>3
      <4>3. done /\ ~DriverAck(c)
        BY <2>1, <4>1, <4>2 DEF DriverAck
      <4>4. s = "NONE" /\ p = PadAcked(c.pad) /\ l = ModeAfter(k, c.heard)
        BY <2>1, <4>3
      <4>5. m = FALSE
        BY <2>1, <2>3, <4>1, <4>3
      <4> HIDE DEF s, p, l, m, h, done
      <4> QED BY <1>5, <2>2, <4>1, <4>4, <4>5 DEF DriverIs, PadOK, e
    <3> QED BY <3>1, <3>2, <3>3
  <2> QED BY <1>10, <2>6, <2>7 DEF PadOK
<1> QED BY <1>2, <1>8, <1>9, <1>10 DEF Selections, e

\* Leaving out the pad in the middle of a configuration command, it can be dropped.
LEMMA UnselectKeepsStep ==
    ASSUME NEW d, DevInv(d), PadOK(d),
           ~(d.selected = "PAD" /\ d.pad.status = "CONFIG"
               /\ (d.pad.conf = "JUST_ENTERED" \/ d.pad.in_fifo # <<>>))
    PROVE  PadOK(Unselect(d))
<1> DEFINE e == Unselect(d)
<1>1. d \in Drivers
  BY DEF DevInv
<1>2. d.known \in Known /\ d.heard \in Seq(Bytes)
  BY <1>1, DriverFields
<1>3. /\ DriverIs(e, "NONE", PadReset(d.pad), CardReset(d.card), <<>>,
                  d.written, <<>>, d.known, d.misframed)
      /\ CardReset(d.card).state = "IDLE"
  BY UnselectInv
<1>4. Rest(PadReset(d.pad), d.known)
  <2>1. CASE Rest(d.pad, d.known)
    BY <1>2, <2>1, RestAck
  <2>2. CASE d.selected = "PAD" /\ Mid(d.pad, d.known, d.heard)
    BY <1>2, <2>2, MidReset
  <2> QED BY <2>1, <2>2 DEF PadOK
<1> HIDE DEF e
<1>5. PadOK(e)
  BY <1>3, <1>4 DEF PadOK, DriverIs
<1> QED BY <1>5 DEF e

(***************************************************************************)
(* The port.                                                               *)
(***************************************************************************)
XInv(x) == x \in XType /\ DevInv(x.dev)

LEMMA PortFields ==
    ASSUME NEW p \in Ports
    PROVE  /\ p.pending \in BOOLEAN /\ p.new \in BOOLEAN /\ p.latch \in BOOLEAN
           /\ p.old_tx \in Bytes /\ p.tx_data \in Bytes /\ p.tx_not_full \in BOOLEAN
           /\ p.tx_idle \in BOOLEAN /\ p.has_ack \in BOOLEAN /\ p.rx \in 0..RX_SIZE
           /\ p.int_req \in BOOLEAN /\ p.ctrl \in Control /\ p.event \in BOOLEAN
           /\ p.owed \in Int /\ p.unread \in Int
  BY DEF Ports

LEMMA ControlFields ==
    ASSUME NEW c \in Control
    PROVE  /\ c.tx_enable \in BOOLEAN /\ c.dtr \in BOOLEAN /\ c.rx_enable \in BOOLEAN
           /\ c.dsr_int_enable \in BOOLEAN /\ c.rx_int_after \in 0..8 /\ c.port \in {1, 2}
  BY DEF Control

LEMMA StateFacts ==
    ASSUME NEW p, NEW d
    PROVE  /\ State(p, d).port = p /\ State(p, d).dev = d
           /\ p \in Ports /\ d \in Drivers => State(p, d) \in XType
  BY DEF State, XType

LEMMA XFields ==
    ASSUME NEW x \in XType
    PROVE  x.port \in Ports /\ x.dev \in Drivers
  BY DEF XType

LEMMA CountedFacts ==
    ASSUME NEW n \in Int
    PROVE  Counted(n) \in Int /\ (Careful => Counted(n) = n)
  BY DEF Counted

\* A byte leaves, if it may.
LEMMA HandleFacts ==
    ASSUME NEW x, XInv(x)
    PROVE  LET p == x.port
               y == HandlePendingTransfer(x)
               go == /\ p.pending /\ (p.ctrl.tx_enable \/ p.latch) /\ p.tx_idle /\ p.ctrl.dtr
                     /\ ~Broken(x.dev)
           IN  /\ XInv(y)
               /\ ~go => y = x
               /\ go => /\ y.port.tx_idle = FALSE /\ y.port.event = TRUE
                        /\ y.port.owed = Counted(p.owed - 1)
                        /\ y.port.pending = p.pending /\ y.port.new = p.new
                        /\ y.port.rx = p.rx /\ y.port.ctrl = p.ctrl
                        /\ y.port.unread = p.unread
                        /\ y.dev = IF p.ctrl.port = 1 THEN Exchanged(x.dev, p.old_tx)
                                   ELSE x.dev
<1> DEFINE p == x.port
           y == HandlePendingTransfer(x)
           go == /\ p.pending /\ (p.ctrl.tx_enable \/ p.latch) /\ p.tx_idle /\ p.ctrl.dtr
                 /\ ~Broken(x.dev)
           d == IF p.ctrl.port = 1 THEN DriverSend(x.dev, p.old_tx) ELSE x.dev
           no == FALSE
           yes == TRUE
           ack == p.ctrl.port = 1 /\ DriverAck(d)
           left == Counted(p.owed - 1)
           q == [p EXCEPT !.tx_idle = no, !.tx_not_full = yes, !.has_ack = ack,
                          !.event = yes, !.owed = left]
           e == IF p.ctrl.port = 1 THEN DriverAcked(d) ELSE x.dev
<1>1. y = IF go THEN State(q, e) ELSE x
  BY DEF HandlePendingTransfer
<1>2. e = IF p.ctrl.port = 1 THEN Exchanged(x.dev, p.old_tx) ELSE x.dev
  BY DEF Exchanged
<1>3. x \in XType /\ DevInv(x.dev) /\ p \in Ports
  BY XFields DEF XInv
<1>4. no \in BOOLEAN /\ yes \in BOOLEAN /\ ack \in BOOLEAN
  BY Zenon DEF DriverAck, PadAck
<1>5. left \in Int
  BY <1>3, PortFields, CountedFacts
<1> HIDE DEF y, d, no, yes, ack, left, e
<1>6. q \in Ports
  BY <1>3, <1>4, <1>5 DEF Ports
<1>7. /\ q.tx_idle = no /\ q.event = yes /\ q.owed = left /\ q.pending = p.pending
      /\ q.new = p.new /\ q.rx = p.rx /\ q.ctrl = p.ctrl /\ q.unread = p.unread
  BY <1>3 DEF Ports
<1> HIDE DEF q
<1>8. CASE go
  <2>1. p.old_tx \in Bytes /\ ~Broken(x.dev)
    BY <1>3, <1>8, PortFields
  <2>2. DevInv(e)
    BY <1>2, <1>3, <2>1, ExchangedFacts
  <2>3. e \in Drivers
    BY <2>2 DEF DevInv
  <2>4. y = State(q, e)
    BY <1>1, <1>8
  <2>5. y.port = q /\ y.dev = e /\ y \in XType
    BY <1>6, <2>3, <2>4, StateFacts
  <2> QED BY <1>2, <1>7, <1>8, <2>2, <2>5 DEF XInv, y, no, yes, left
<1>9. CASE ~go
  BY <1>1, <1>9 DEF y
<1> QED BY <1>8, <1>9

\* The end of a transfer.
LEMMA ReceivedFacts ==
    ASSUME NEW x, XInv(x)
    PROVE  LET p == x.port
               y == Received(x)
               fits == (p.ctrl.dtr \/ p.ctrl.rx_enable) /\ p.rx < RX_SIZE
           IN  /\ XInv(y) /\ y.dev = x.dev
               /\ y.port.tx_idle = TRUE /\ y.port.event = FALSE
               /\ y.port.pending = p.new /\ y.port.new = p.new
               /\ y.port.rx = IF fits THEN p.rx + 1 ELSE p.rx
               /\ y.port.owed = p.owed /\ y.port.unread = p.unread
<1> DEFINE p == x.port
           y == Received(x)
           takes == p.ctrl.dtr \/ p.ctrl.rx_enable
           fits == takes /\ p.rx < RX_SIZE
           count == IF fits THEN p.rx + 1 ELSE p.rx
           request == \/ p.has_ack /\ p.ctrl.dsr_int_enable
                      \/ fits /\ p.ctrl.rx_int_after # 0 /\ count = p.ctrl.rx_int_after
           no == FALSE
           yes == TRUE
           int == p.int_req \/ request
           c == [p.ctrl EXCEPT !.rx_enable = no]
           q == [p EXCEPT !.tx_idle = yes, !.pending = p.new, !.old_tx = p.tx_data,
                          !.rx = count, !.ctrl = c, !.int_req = int, !.event = no]
<1>1. y = State(q, x.dev)
  BY DEF Received
<1>2. x \in XType /\ DevInv(x.dev) /\ p \in Ports /\ x.dev \in Drivers
  BY XFields DEF XInv
<1>3. no \in BOOLEAN /\ yes \in BOOLEAN
  OBVIOUS
<1>4. int \in BOOLEAN
  BY <1>2, PortFields, Zenon
<1>5. count \in 0..RX_SIZE
  BY <1>2, PortFields, SIOAssumption
<1>6. p.new \in BOOLEAN /\ p.tx_data \in Bytes /\ p.ctrl \in Control
  BY <1>2, PortFields
<1> HIDE DEF y, no, yes, int, count, fits
<1>7. c \in Control
  BY <1>3, <1>6 DEF Control
<1> HIDE DEF c
<1>8. q \in Ports
  BY <1>2, <1>3, <1>4, <1>5, <1>6, <1>7 DEF Ports
<1>9. /\ q.tx_idle = yes /\ q.event = no /\ q.pending = p.new /\ q.new = p.new
      /\ q.rx = count /\ q.owed = p.owed /\ q.unread = p.unread
  BY <1>2 DEF Ports
<1> HIDE DEF q
<1>10. y.port = q /\ y.dev = x.dev /\ y \in XType
  BY <1>1, <1>2, <1>8, StateFacts
<1> QED BY <1>2, <1>9, <1>10 DEF XInv, y, no, yes, count, fits

LEMMA CompleteInv ==
    ASSUME NEW x, XInv(x)
    PROVE  XInv(TransferComplete(x)) /\ XInv(CompleteEarly(x))
<1>1. XInv(Received(x))
  BY ReceivedFacts
<1>2. XInv(TransferComplete(x))
  BY <1>1, HandleFacts DEF TransferComplete
<1> QED BY <1>2 DEF CompleteEarly

\* A byte is taken from the FIFO.
LEMMA TakenFacts ==
    ASSUME NEW y, XInv(y), y.port.rx # 0
    PROVE  LET p == y.port
               z == [y EXCEPT !.port = [p EXCEPT !.rx = p.rx - 1,
                                                 !.unread = Counted(p.unread - 1)]]
           IN  /\ XInv(z) /\ z.dev = y.dev
               /\ z.port.rx = p.rx - 1 /\ z.port.unread = Counted(p.unread - 1)
               /\ z.port.tx_idle = p.tx_idle /\ z.port.event = p.event
               /\ z.port.pending = p.pending /\ z.port.new = p.new
               /\ z.port.ctrl = p.ctrl /\ z.port.owed = p.owed
<1> DEFINE p == y.port
           m == p.rx - 1
           u == Counted(p.unread - 1)
           q == [p EXCEPT !.rx = m, !.unread = u]
           z == [y EXCEPT !.port = q]
<1>1. y \in XType /\ p \in Ports /\ DevInv(y.dev) /\ y.dev \in Drivers
  BY XFields DEF XInv
<1>2. m \in 0..RX_SIZE /\ u \in Int
  <2>1. p.rx \in 0..RX_SIZE /\ p.unread \in Int
    BY <1>1, PortFields
  <2>2. m \in 0..RX_SIZE
    BY <2>1, SIOAssumption
  <2> QED BY <2>1, <2>2, CountedFacts
<1> HIDE DEF m, u
<1>3. q \in Ports
  BY <1>1, <1>2 DEF Ports
<1>4. /\ q.rx = m /\ q.unread = u /\ q.tx_idle = p.tx_idle /\ q.event = p.event
      /\ q.pending = p.pending /\ q.new = p.new /\ q.ctrl = p.ctrl /\ q.owed = p.owed
  BY <1>1 DEF Ports
<1> HIDE DEF q
<1>5. z \in XType /\ z.port = q /\ z.dev = y.dev
  BY <1>1, <1>3 DEF XType
<1> HIDE DEF z
<1>6. XInv(z)
  BY <1>1, <1>5 DEF XInv
<1> QED BY <1>4, <1>5, <1>6 DEF z, q, m, u

LEMMA Read8Inv ==
    ASSUME NEW x, XInv(x)
    PROVE  XInv(Read8(x))
<1> DEFINE y == CompleteEarly(x)
<1>1. XInv(y)
  BY CompleteInv
<1>2. Read8(x) = IF y.port.rx = 0 THEN y
                 ELSE [y EXCEPT !.port = [y.port EXCEPT !.rx = y.port.rx - 1,
                                                        !.unread = Counted(y.port.unread - 1)]]
  BY DEF Read8
<1> HIDE DEF y
<1>3. CASE y.port.rx = 0
  BY <1>1, <1>2, <1>3
<1>4. CASE y.port.rx # 0
  BY <1>1, <1>2, <1>4, TakenFacts
<1> QED BY <1>3, <1>4

(***************************************************************************)
(* The port of a careful guest.                                            *)
(***************************************************************************)
PortOK(p) ==
    /\ p.owed = 0 /\ p.new = FALSE
    /\ p.unread = p.rx + (IF p.tx_idle THEN 0 ELSE 1)
    /\ p.event <=> ~p.tx_idle
    /\ p.tx_idle => ~p.pending
    /\ ~p.tx_idle => p.rx = 0 /\ p.ctrl.dtr

CInv(x) == XInv(x) /\ PortOK(x.port) /\ PadOK(x.dev)

LEMMA CompleteOK ==
    ASSUME NEW x, CInv(x), x.port.event
    PROVE  CInv(TransferComplete(x)) /\ TransferComplete(x).port.tx_idle
<1> DEFINE y == Received(x)
           p == x.port
           fits == (p.ctrl.dtr \/ p.ctrl.rx_enable) /\ p.rx < RX_SIZE
<1>1. /\ XInv(y) /\ y.dev = x.dev
      /\ y.port.tx_idle = TRUE /\ y.port.event = FALSE
      /\ y.port.pending = p.new /\ y.port.new = p.new
      /\ y.port.rx = IF fits THEN p.rx + 1 ELSE p.rx
      /\ y.port.owed = p.owed /\ y.port.unread = p.unread
  BY ReceivedFacts DEF CInv
<1>2. XInv(x) /\ PortOK(p) /\ PadOK(x.dev)
  BY DEF CInv
<1> HIDE DEF y
<1>3. ~p.tx_idle /\ p.rx = 0 /\ p.ctrl.dtr /\ p.unread = 1 /\ p.owed = 0 /\ p.new = FALSE
  BY <1>2 DEF PortOK
<1>4. fits
  BY <1>3, SIOAssumption
<1>5. y.port.rx = 1 /\ y.port.pending = FALSE /\ y.port.new = FALSE
      /\ y.port.owed = 0 /\ y.port.unread = 1
  BY <1>1, <1>3, <1>4
<1>6. PortOK(y.port)
  BY <1>1, <1>5 DEF PortOK
<1>7. HandlePendingTransfer(y) = y
  BY <1>1, <1>5, HandleFacts
<1>8. TransferComplete(x) = y
  BY <1>7 DEF TransferComplete, y
<1> QED BY <1>1, <1>2, <1>6, <1>8 DEF CInv

LEMMA EarlyOK ==
    ASSUME NEW x, CInv(x)
    PROVE  CInv(CompleteEarly(x)) /\ CompleteEarly(x).port.tx_idle
<1>1. CASE x.port.event
  BY <1>1, CompleteOK DEF CompleteEarly
<1>2. CASE ~x.port.event
  <2>1. x.port.tx_idle
    <3>1. PortOK(x.port) /\ x.port.tx_idle \in BOOLEAN
      BY XFields, PortFields DEF CInv, XInv
    <3> QED BY <1>2, <3>1 DEF PortOK
  <2> QED BY <1>2, <2>1 DEF CompleteEarly
<1> QED BY <1>1, <1>2

LEMMA Read8OK ==
    ASSUME NEW x, CInv(x), Careful
    PROVE  CInv(Read8(x))
<1> DEFINE y == CompleteEarly(x)
           p == y.port
           z == [y EXCEPT !.port = [p EXCEPT !.rx = p.rx - 1,
                                             !.unread = Counted(p.unread - 1)]]
<1>1. CInv(y) /\ p.tx_idle
  BY EarlyOK
<1>2. Read8(x) = IF p.rx = 0 THEN y ELSE z
  BY DEF Read8
<1> HIDE DEF y
<1>3. CASE p.rx = 0
  BY <1>1, <1>2, <1>3
<1>4. CASE p.rx # 0
  <2>1. XInv(y) /\ PortOK(p) /\ PadOK(y.dev)
    BY <1>1 DEF CInv
  <2>2. /\ XInv(z) /\ z.dev = y.dev
        /\ z.port.rx = p.rx - 1 /\ z.port.unread = Counted(p.unread - 1)
        /\ z.port.tx_idle = p.tx_idle /\ z.port.event = p.event
        /\ z.port.pending = p.pending /\ z.port.new = p.new
        /\ z.port.ctrl = p.ctrl /\ z.port.owed = p.owed
    BY <1>4, <2>1, TakenFacts
  <2> HIDE DEF z
  <2>3. p \in Ports
    BY <2>1, XFields DEF XInv
  <2>4. p.rx \in Nat /\ p.unread \in Int /\ p.unread = p.rx
    BY <1>1, <2>1, <2>3, PortFields DEF PortOK
  <2>5. Counted(p.unread - 1) = p.rx - 1
    BY <2>4, CountedFacts
  <2>6. PortOK(z.port)
    <3>1. z.port.unread = z.port.rx + (IF z.port.tx_idle THEN 0 ELSE 1)
      BY <1>1, <2>2, <2>4, <2>5
    <3> QED BY <1>1, <2>1, <2>2, <3>1 DEF PortOK
  <2> QED BY <1>2, <1>4, <2>1, <2>2, <2>6 DEF CInv
<1> QED BY <1>3, <1>4

(***************************************************************************)
(* The invariant.                                                          *)
(***************************************************************************)
Inv ==
    /\ XInv(Now) /\ guest \in SUBSET Cares
    /\ Careful => CInv(Now)

LEMMA BecomeInv ==
    ASSUME guest \in SUBSET Cares, guest' = guest,
           NEW x, Become(x), XInv(x), Careful => CInv(x)
    PROVE  Inv'
<1>1. port' = x.port /\ dev' = x.dev
  BY DEF Become
<1>2. x.port \in Ports /\ x.dev \in Drivers /\ DevInv(x.dev)
  BY XFields DEF XInv
<1>3. /\ State(x.port, x.dev).port = x.port /\ State(x.port, x.dev).dev = x.dev
      /\ State(x.port, x.dev) \in XType
  BY <1>2, StateFacts
<1> DEFINE y == State(x.port, x.dev)
<1>4. Now' = y
  BY <1>1 DEF Now, State
<1> HIDE DEF y
<1>5. XInv(y) /\ (CInv(x) => CInv(y))
  BY <1>2, <1>3 DEF XInv, CInv, y
<1>6. XInv(Now') /\ (Careful => CInv(Now'))
  BY <1>4, <1>5
<1>7. Careful' <=> Careful
  BY DEF Careful
<1>8. XInv(Now)' = XInv(Now') /\ CInv(Now)' = CInv(Now')
  BY DEF XInv, CInv, DevInv, Ports, Drivers, Cards, Pads, PortOK, PadOK, XType
<1> QED BY <1>6, <1>7, <1>8 DEF Inv

LEMMA InitInv == Init => Inv
<1> SUFFICES ASSUME Init PROVE Inv
  OBVIOUS
<1>0. SECTOR \in Nat /\ SECTOR >= 1 /\ MAX_SECTOR \in Nat
  BY PadCardAssumption
<1>1. port \in Ports /\ PortOK(port)
  <2>1. Off \in Control /\ 0 \in Bytes /\ 0 \in 0..RX_SIZE
    BY SIOAssumption DEF Off, Control, Bytes, BYTE
  <2>2. port \in Ports
    BY <2>1 DEF Init, Ports
  <2>3. PortOK(port)
    BY DEF Init, PortOK
  <2> QED BY <2>2, <2>3
<1>2. NewPad \in Pads /\ NewPad.status = "IDLE" /\ NewPad.response = 0
      /\ NewPad.in_fifo = <<>> /\ NewPad.mode = "DIGITAL"
  BY DEF NewPad, Pads
<1>3. NewCard \in Cards /\ NewCard.state = "IDLE" /\ NewCard.sector = 0
  <2> DEFINE blank == [i \in Sector |-> 0]
             empty == [s \in Sectors |-> blank]
             zero == 0
  <2>1. 0 \in Bytes /\ zero \in 0..(BYTE * BYTE - 1)
    BY DEF Bytes, BYTE
  <2>2. blank \in [Sector -> Bytes]
    BY <2>1
  <2> HIDE DEF blank
  <2>3. empty \in [Sectors -> [Sector -> Bytes]]
    BY <2>2
  <2>4. NewCard = [state |-> "IDLE", status |-> 1, step |-> 0, sector |-> zero,
                   sector_valid |-> FALSE, checksum_valid |-> FALSE, temp |-> blank,
                   buffer |-> empty]
    BY DEF NewCard, blank
  <2> HIDE DEF empty, zero
  <2>5. NewCard \in Cards
    BY <2>1, <2>2, <2>3, <2>4 DEF Cards
  <2> QED BY <2>4, <2>5 DEF zero
<1>4. /\ dev.selected = "NONE" /\ dev.pad = NewPad /\ dev.card = NewCard
      /\ dev.talk = <<>> /\ dev.written = NewCard.buffer /\ dev.heard = <<>>
      /\ dev.known = [config |-> FALSE, analog |-> FALSE] /\ dev.misframed = FALSE
  BY DEF Init, NewDriver
<1>5. dev \in Drivers
  <2>1. NewCard.buffer \in [Sectors -> SectorData]
    BY <1>3, CardFields
  <2>2. [config |-> FALSE, analog |-> FALSE] \in Known
    BY DEF Known
  <2>3. <<>> \in Seq(Bytes)
    OBVIOUS
  <2> QED BY <1>2, <1>3, <2>1, <2>2, <2>3 DEF Init, NewDriver, Drivers
<1>6. DevInv(dev)
  <2>1. dev.talk \in Seq(Bytes)
    BY <1>4
  <2> QED BY <1>3, <1>4, <1>5, <2>1 DEF DevInv, CardInv
<1>7. PadOK(dev)
  <2>1. ~dev.known.config /\ ~dev.known.analog
    BY <1>4
  <2>2. Rest(dev.pad, dev.known)
    BY <1>2, <1>4, <2>1 DEF Rest, SameMode
  <2> QED BY <1>3, <1>4, <2>2 DEF PadOK
<1>8. Now.port = port /\ Now.dev = dev /\ Now \in XType
  BY <1>1, <1>5, StateFacts DEF Now
<1>9. guest \in SUBSET Cares
  BY SIOAssumption DEF Init
<1> QED BY <1>1, <1>6, <1>7, <1>8, <1>9 DEF Inv, XInv, CInv

LEMMA NowFacts ==
    ASSUME Inv
    PROVE  /\ Now.port = port /\ Now.dev = dev /\ port \in Ports /\ DevInv(dev)
           /\ dev \in Drivers /\ guest \in SUBSET Cares
           /\ Careful => PortOK(port) /\ PadOK(dev)
<1>1. Now.port = port /\ Now.dev = dev
  BY StateFacts DEF Now
<1> QED BY <1>1, XFields DEF Inv, XInv, CInv

LEMMA CarefulMeans ==
    Careful => "wait" \in guest /\ "read" \in guest /\ "hold" \in guest
                 /\ "finish" \in guest
  BY DEF Careful, Cares

\* The bytes a guest sends are bytes, and fit the device.
LEMMA NextByteFacts ==
    ASSUME Inv, NEW b \in NextBytes
    PROVE  b \in Bytes /\ (port.ctrl.port = 1 => FitsDevice(dev, b))
<1>0. port.ctrl.port \in {1, 2} /\ dev.selected \in Selections
  BY NowFacts, PortFields, ControlFields, DriverFields
<1>c. {0, 1, PAD, MEMCARD, READ, WRITE, CONFIG_MODE, SET_LET_STATE, GET_VARIABLE_RESPONSE}
        \subseteq Bytes
  BY DEF PAD, MEMCARD, READ, WRITE, CONFIG_MODE, SET_LET_STATE, GET_VARIABLE_RESPONSE,
         Bytes, BYTE
<1>1. CASE port.ctrl.port = 2
  BY <1>1, <1>c DEF NextBytes
<1>2. CASE port.ctrl.port = 1 /\ dev.selected = "NONE"
  <2>1. b \in {0, PAD, MEMCARD}
    BY <1>2 DEF NextBytes
  <2> QED BY <1>2, <1>c, <2>1 DEF FitsDevice
<1>3. CASE port.ctrl.port = 1 /\ dev.selected = "PAD"
  <2> DEFINE p == dev.pad
             idle == p.status = "CONFIG" /\ p.conf = "CONFIG_IDLE" /\ p.in_fifo = <<>>
             arg == p.status = "CONFIG" /\ Len(p.in_fifo) \in {1, 2}
  <2>1. b \in CASE p.status = "IDLE" -> {READ, CONFIG_MODE}
                [] idle -> {READ, CONFIG_MODE, SET_LET_STATE, GET_VARIABLE_RESPONSE}
                [] arg -> {0, 1}
                [] OTHER -> {0}
    BY <1>3 DEF NextBytes
  <2>2. idle => ~arg
    <3>1. Len(<<>>) = 0
      OBVIOUS
    <3> QED BY <3>1
  <2>3. p.status = "IDLE" => ~idle /\ ~arg
    OBVIOUS
  <2>4. (p.status = "IDLE" => b \in {READ, CONFIG_MODE})
    <3> HIDE DEF idle, arg
    <3> QED BY <2>1, <2>3
  <2>5. idle => b \in {READ, CONFIG_MODE, SET_LET_STATE, GET_VARIABLE_RESPONSE}
    <3> HIDE DEF idle, arg
    <3> QED BY <2>1, <2>2, <2>3
  <2>6. b \in Bytes
    <3> HIDE DEF idle, arg
    <3>1. CASE p.status = "IDLE"
      BY <1>c, <2>4, <3>1
    <3>2. CASE idle
      BY <1>c, <2>5, <3>2
    <3>3. CASE p.status # "IDLE" /\ ~idle
      <4>1. b \in {0, 1}
        BY <2>1, <3>3
      <4> QED BY <1>c, <4>1
    <3> QED BY <3>1, <3>2, <3>3
  <2> QED BY <1>3, <2>4, <2>5, <2>6 DEF FitsDevice, ConfigCommands
<1>4. CASE port.ctrl.port = 1 /\ dev.selected = "MEMCARD"
  <2> DEFINE recv == Phase(dev.card) \in {"RECV_SECTOR", "RECV_DATA", "RECV_CHECKSUM"}
  <2>1. b \in CASE dev.card.state = "IDLE" -> {READ, WRITE}
                [] recv -> {0, 1}
                [] OTHER -> {0}
    BY <1>4 DEF NextBytes
  <2>2. dev.card.state = "IDLE" => ~recv
    BY DEF Phase
  <2> HIDE DEF recv
  <2>3. dev.card.state = "IDLE" => b \in {READ, WRITE}
    BY <2>1, <2>2
  <2>4. dev.card.state # "IDLE" => b \in {0, 1}
    BY <2>1
  <2> QED BY <1>4, <1>c, <2>3, <2>4 DEF FitsDevice
<1> QED BY <1>0, <1>1, <1>2, <1>3, <1>4 DEF Selections

(***************************************************************************)
(* The actions.                                                            *)
(***************************************************************************)
LEMMA WriteDataInv ==
    ASSUME Inv, NEW b \in NextBytes, WriteData(b)
    PROVE  Inv'
<1> DEFINE latch == port.ctrl.tx_enable
           no == FALSE
           yes == TRUE
           owed == Counted(port.owed + 1)
           unread == Counted(port.unread + 1)
           p == [port EXCEPT !.latch = latch, !.tx_not_full = no, !.owed = owed,
                             !.unread = unread]
           q == IF port.pending THEN [p EXCEPT !.new = yes, !.tx_data = b]
                ELSE [p EXCEPT !.pending = yes, !.old_tx = b]
           x == State(q, dev)
           y == HandlePendingTransfer(x)
<1>1. /\ port \in Ports /\ DevInv(dev) /\ dev \in Drivers /\ guest \in SUBSET Cares
      /\ Careful => PortOK(port) /\ PadOK(dev)
  BY NowFacts
<1>2. b \in Bytes /\ (port.ctrl.port = 1 => FitsDevice(dev, b))
  BY NextByteFacts
<1>3. latch \in BOOLEAN /\ no \in BOOLEAN /\ yes \in BOOLEAN
  BY <1>1, PortFields, ControlFields
<1>4. owed \in Int /\ unread \in Int
  BY <1>1, PortFields, CountedFacts
<1>5. guest' = guest /\ Running
  BY DEF WriteData
<1>6. \/ port' = port /\ dev' = dev
      \/ port.tx_not_full /\ Become(y)
  BY DEF WriteData
<1>7. Careful => /\ ~Busy /\ port.rx = 0 /\ port.ctrl.dtr /\ port.ctrl.tx_enable
  BY CarefulMeans DEF WriteData
<1> HIDE DEF no, yes, latch, owed, unread
<1>8. p \in Ports
  BY <1>1, <1>3, <1>4 DEF Ports
<1>9. /\ p.latch = latch /\ p.owed = owed /\ p.unread = unread /\ p.pending = port.pending
      /\ p.new = port.new /\ p.tx_idle = port.tx_idle /\ p.rx = port.rx
      /\ p.ctrl = port.ctrl /\ p.event = port.event
  BY <1>1 DEF Ports
<1> HIDE DEF p
<1>10. q \in Ports
  BY <1>2, <1>3, <1>8 DEF Ports
<1>11. ~port.pending => /\ q.pending = yes /\ q.old_tx = b
                        /\ q.latch = p.latch /\ q.owed = p.owed /\ q.unread = p.unread
                        /\ q.new = p.new /\ q.tx_idle = p.tx_idle /\ q.rx = p.rx
                        /\ q.ctrl = p.ctrl /\ q.event = p.event
  <2> SUFFICES ASSUME ~port.pending
               PROVE  /\ q.pending = yes /\ q.old_tx = b
                      /\ q.latch = p.latch /\ q.owed = p.owed /\ q.unread = p.unread
                      /\ q.new = p.new /\ q.tx_idle = p.tx_idle /\ q.rx = p.rx
                      /\ q.ctrl = p.ctrl /\ q.event = p.event
    OBVIOUS
  <2> DEFINE r == [p EXCEPT !.pending = yes, !.old_tx = b]
  <2>1. q = r
    OBVIOUS
  <2>2. /\ r.pending = yes /\ r.old_tx = b
        /\ r.latch = p.latch /\ r.owed = p.owed /\ r.unread = p.unread
        /\ r.new = p.new /\ r.tx_idle = p.tx_idle /\ r.rx = p.rx
        /\ r.ctrl = p.ctrl /\ r.event = p.event
    BY <1>8 DEF Ports
  <2> HIDE DEF q, r
  <2> QED BY <2>1, <2>2
<1> HIDE DEF q
<1>12. x.port = q /\ x.dev = dev /\ x \in XType
  BY <1>1, <1>10, StateFacts
<1> HIDE DEF x
<1>13. XInv(x)
  BY <1>1, <1>12 DEF XInv
<1> DEFINE go == /\ q.pending /\ (q.ctrl.tx_enable \/ q.latch) /\ q.tx_idle /\ q.ctrl.dtr
                 /\ ~Broken(dev)
<1>14. /\ XInv(y)
       /\ go => /\ y.port.tx_idle = FALSE /\ y.port.event = TRUE
                /\ y.port.owed = Counted(q.owed - 1)
                /\ y.port.pending = q.pending /\ y.port.new = q.new
                /\ y.port.rx = q.rx /\ y.port.ctrl = q.ctrl
                /\ y.port.unread = q.unread
                /\ y.dev = IF q.ctrl.port = 1 THEN Exchanged(dev, q.old_tx) ELSE dev
  BY <1>12, <1>13, HandleFacts
<1> HIDE DEF y
<1>15. Careful => CInv(y)
  <2> SUFFICES ASSUME Careful PROVE CInv(y)
    OBVIOUS
  <2>1. PortOK(port) /\ PadOK(dev) /\ ~Busy
    BY <1>1, <1>7
  <2>2. port.tx_idle /\ ~port.pending
    BY <1>1, <2>1, PortFields DEF Busy
  <2>3. /\ q.pending /\ q.ctrl.tx_enable /\ q.tx_idle /\ q.ctrl.dtr
        /\ q.old_tx = b /\ q.ctrl = port.ctrl
    BY <1>7, <1>9, <1>11, <2>2 DEF yes
  <2>4. go
    BY <1>5, <2>3 DEF Running
  <2>5. owed = 1 /\ unread = 1
    <3>1. port.owed = 0 /\ port.unread = 0
      BY <1>7, <2>1, <2>2 DEF PortOK
    <3> QED BY <3>1, CountedFacts DEF owed, unread
  <2>6. y.port.owed = 0
    <3>1. q.owed = 1
      BY <1>9, <1>11, <2>2, <2>5
    <3>2. Counted(1 - 1) = 0
      BY CountedFacts
    <3> QED BY <1>14, <2>4, <3>1, <3>2
  <2>7. /\ y.port.unread = 1 /\ y.port.rx = 0 /\ y.port.tx_idle = FALSE
        /\ y.port.event = TRUE /\ y.port.new = FALSE /\ y.port.ctrl.dtr
    <3>1. port.new = FALSE
      BY <2>1 DEF PortOK
    <3> QED BY <1>7, <1>9, <1>11, <1>14, <2>2, <2>3, <2>4, <2>5, <3>1
  <2>8. PortOK(y.port)
    BY <2>6, <2>7 DEF PortOK
  <2>9. PadOK(y.dev)
    <3>1. CASE port.ctrl.port = 1
      <4>1. y.dev = Exchanged(dev, b)
        BY <1>14, <2>3, <2>4, <3>1
      <4>2. PadOK(Exchanged(dev, b))
        BY <1>1, <1>2, <2>1, <3>1, PadKeepsStep
      <4> QED BY <4>1, <4>2
    <3>2. CASE port.ctrl.port # 1
      <4>1. y.dev = dev
        BY <1>14, <2>3, <2>4, <3>2
      <4> QED BY <2>1, <4>1
    <3> QED BY <3>1, <3>2
  <2> QED BY <1>14, <2>8, <2>9 DEF CInv
<1>16. CASE port' = port /\ dev' = dev
  <2>1. XInv(Now) /\ (Careful => CInv(Now)) /\ Now.port = port /\ Now.dev = dev
    BY NowFacts DEF Inv
  <2>2. Become(Now)
    BY <1>16, <2>1 DEF Become
  <2> QED BY <1>1, <1>5, <2>1, <2>2, BecomeInv
<1>17. CASE Become(y)
  BY <1>1, <1>5, <1>14, <1>15, <1>17, BecomeInv
<1> QED BY <1>6, <1>16, <1>17

LEMMA WriteControlInv ==
    ASSUME Inv, NEW c \in Controls, NEW ack \in BOOLEAN, WriteControl(c, ack)
    PROVE  Inv'
<1> DEFINE moved == port.ctrl.port # c.port
           rx == IF moved THEN 0 ELSE port.rx
           unread == IF moved THEN 0 ELSE port.unread
           p == [port EXCEPT !.ctrl = c, !.rx = rx, !.unread = unread]
           drop == (moved /\ port.ctrl.port = 1) \/ ~c.dtr
           d == IF drop THEN Unselect(dev) ELSE dev
           x == State(p, d)
           y == IF ~port.ctrl.tx_enable /\ c.tx_enable THEN HandlePendingTransfer(x) ELSE x
           no == FALSE
           q == [y.port EXCEPT !.int_req = no]
           z == [y EXCEPT !.port = q]
           last == IF ack THEN z ELSE y
<1>1. /\ port \in Ports /\ DevInv(dev) /\ dev \in Drivers /\ guest \in SUBSET Cares
      /\ Careful => PortOK(port) /\ PadOK(dev)
  BY NowFacts
<1>2. c \in Control
  BY SIOAssumption
<1>3. rx \in 0..RX_SIZE /\ unread \in Int
  BY <1>1, PortFields, SIOAssumption
<1>4. guest' = guest
  BY DEF WriteControl
<1>5. Careful => ~Busy /\ (MidCommand => ~drop)
  BY CarefulMeans DEF WriteControl
<1>6. Become(last)
  BY DEF WriteControl
<1>7. no \in BOOLEAN
  OBVIOUS
<1> HIDE DEF no
<1>r. Careful /\ PortOK(port) /\ ~Busy => unread = rx + 0
  <2>1. Careful /\ PortOK(port) /\ ~Busy => port.tx_idle
    BY <1>1, PortFields DEF Busy
  <2>2. port.rx \in Int /\ port.unread \in Int
    BY <1>1, PortFields
  <2> QED BY <2>1, <2>2 DEF PortOK
<1> HIDE DEF rx, unread
<1>8. p \in Ports
  BY <1>1, <1>2, <1>3 DEF Ports
<1>9. /\ p.owed = port.owed /\ p.new = port.new /\ p.rx = rx /\ p.unread = unread
      /\ p.tx_idle = port.tx_idle /\ p.pending = port.pending /\ p.event = port.event
  BY <1>1 DEF Ports
<1> HIDE DEF p
<1>10. DevInv(d) /\ d \in Drivers
  BY <1>1, UnselectInv DEF DevInv
<1>11. Careful => PadOK(d)
  <2> SUFFICES ASSUME Careful PROVE PadOK(d)
    OBVIOUS
  <2>1. CASE ~drop
    BY <1>1, <2>1
  <2>2. CASE drop
    <3>1. ~MidCommand
      BY <1>5, <2>2
    <3>2. PadOK(Unselect(dev))
      BY <1>1, <3>1, UnselectKeepsStep DEF MidCommand
    <3> QED BY <2>2, <3>2
  <2> QED BY <2>1, <2>2
<1> HIDE DEF d, drop, moved
<1>12. x.port = p /\ x.dev = d /\ x \in XType
  BY <1>8, <1>10, StateFacts
<1> HIDE DEF x
<1>13. XInv(x)
  BY <1>10, <1>12 DEF XInv
<1>14. Careful => CInv(x) /\ ~x.port.pending
  <2> SUFFICES ASSUME Careful PROVE CInv(x) /\ ~x.port.pending
    OBVIOUS
  <2>1. PortOK(port) /\ port.tx_idle /\ ~port.pending
    BY <1>1, <1>5, PortFields DEF Busy
  <2>2. p.unread = p.rx + (IF p.tx_idle THEN 0 ELSE 1)
    BY <1>5, <1>9, <1>r, <2>1
  <2>3. PortOK(p)
    BY <1>9, <2>1, <2>2 DEF PortOK
  <2> QED BY <1>9, <1>11, <1>12, <1>13, <2>1, <2>3 DEF CInv
<1>15. XInv(y) /\ (Careful => y = x)
  BY <1>13, <1>14, HandleFacts
<1> HIDE DEF y
<1>16. y \in XType /\ y.port \in Ports /\ DevInv(y.dev)
  BY <1>15, XFields DEF XInv
<1>17. q \in Ports
  BY <1>7, <1>16 DEF Ports
<1>18. /\ q.owed = y.port.owed /\ q.new = y.port.new /\ q.rx = y.port.rx
       /\ q.unread = y.port.unread /\ q.tx_idle = y.port.tx_idle
       /\ q.pending = y.port.pending /\ q.event = y.port.event /\ q.ctrl = y.port.ctrl
  BY <1>16 DEF Ports
<1> HIDE DEF q
<1>19. z \in XType /\ z.port = q /\ z.dev = y.dev
  BY <1>16, <1>17 DEF XType
<1> HIDE DEF z
<1>20. XInv(z)
  BY <1>16, <1>19 DEF XInv
<1>21. Careful => CInv(z)
  <2> SUFFICES ASSUME Careful PROVE CInv(z)
    OBVIOUS
  <2>1. CInv(y)
    BY <1>14, <1>15
  <2>2. PortOK(q)
    BY <1>18, <2>1 DEF PortOK, CInv
  <2> QED BY <1>19, <1>20, <2>1, <2>2 DEF CInv
<1>22. XInv(last) /\ (Careful => CInv(last))
  BY <1>14, <1>15, <1>20, <1>21
<1> HIDE DEF last
<1> QED BY <1>1, <1>4, <1>6, <1>22, BecomeInv

LEMMA ReadStatInv ==
    ASSUME Inv, ReadStat
    PROVE  Inv'
<1> DEFINE x == CompleteEarly(Now)
<1>1. XInv(x) /\ (Careful => CInv(x))
  BY CompleteInv, EarlyOK DEF Inv
<1>2. guest \in SUBSET Cares /\ guest' = guest /\ Become(x)
  BY DEF Inv, ReadStat
<1> HIDE DEF x
<1> QED BY <1>1, <1>2, BecomeInv

LEMMA ReadDataInv ==
    ASSUME Inv, NEW n \in {1, 2, 4}, ReadData(n)
    PROVE  Inv'
<1> DEFINE a == Read8(Now)
           b == Read8(a)
           c == Read8(b)
           d == Read8(c)
<1>1. XInv(Now) /\ (Careful => CInv(Now)) /\ guest \in SUBSET Cares
  BY DEF Inv
<1>2. guest' = guest
  BY DEF ReadData
<1>3. Become(a) \/ Become(b) \/ Become(d)
  <2>1. n = 1 => Become(a)
    BY DEF ReadData
  <2>2. n = 2 => Become(b)
    BY DEF ReadData
  <2>3. n = 4 => Become(d)
    BY DEF ReadData
  <2> QED BY <2>1, <2>2, <2>3
<1>4. XInv(a) /\ (Careful => CInv(a))
  BY <1>1, Read8Inv, Read8OK
<1> HIDE DEF a
<1>5. XInv(b) /\ (Careful => CInv(b))
  BY <1>4, Read8Inv, Read8OK
<1> HIDE DEF b
<1>6. XInv(c) /\ (Careful => CInv(c))
  BY <1>5, Read8Inv, Read8OK
<1> HIDE DEF c
<1>7. XInv(d) /\ (Careful => CInv(d))
  BY <1>6, Read8Inv, Read8OK
<1> HIDE DEF d
<1>8. CASE Become(a)
  BY <1>1, <1>2, <1>4, <1>8, BecomeInv
<1>9. CASE Become(b)
  BY <1>1, <1>2, <1>5, <1>9, BecomeInv
<1>10. CASE Become(d)
  BY <1>1, <1>2, <1>7, <1>10, BecomeInv
<1> QED BY <1>3, <1>8, <1>9, <1>10

LEMMA TransferEndsInv ==
    ASSUME Inv, TransferEnds
    PROVE  Inv'
<1> DEFINE x == TransferComplete(Now)
<1>1. guest \in SUBSET Cares /\ guest' = guest /\ Become(x) /\ Now.port.event
  BY NowFacts DEF Inv, TransferEnds
<1>2. XInv(x) /\ (Careful => CInv(x))
  BY <1>1, CompleteInv, CompleteOK DEF Inv
<1> HIDE DEF x
<1> QED BY <1>1, <1>2, BecomeInv

LEMMA NextInv == Inv /\ [Next]_vars => Inv'
<1> SUFFICES ASSUME Inv, [Next]_vars PROVE Inv'
  OBVIOUS
<1>1. ASSUME NEW b \in NextBytes, WriteData(b) PROVE Inv'
  BY <1>1, WriteDataInv
<1>2. ASSUME NEW c \in Controls, NEW ack \in BOOLEAN, WriteControl(c, ack) PROVE Inv'
  BY <1>2, WriteControlInv
<1>3. CASE ReadStat
  BY <1>3, ReadStatInv
<1>4. ASSUME NEW n \in {1, 2, 4}, ReadData(n) PROVE Inv'
  BY <1>4, ReadDataInv
<1>5. CASE TransferEnds
  BY <1>5, TransferEndsInv
<1>6. CASE UNCHANGED vars
  <2>1. port' = port /\ dev' = dev /\ guest' = guest
    BY <1>6 DEF vars
  <2>2. XInv(Now) /\ (Careful => CInv(Now)) /\ guest \in SUBSET Cares
        /\ Now.port = port /\ Now.dev = dev
    BY NowFacts DEF Inv
  <2>3. Become(Now)
    BY <2>1, <2>2 DEF Become
  <2> QED BY <2>1, <2>2, <2>3, BecomeInv
<1> QED BY <1>1, <1>2, <1>3, <1>4, <1>5, <1>6 DEF Next

LEMMA AlwaysInv == Spec => []Inv
  BY InitInv, NextInv, PTL DEF Spec

LEMMA InvImplies == Inv => CardHoldsWrites /\ OneReplyPerByte /\ PadFrames /\ TypeOK
<1> SUFFICES ASSUME Inv PROVE CardHoldsWrites /\ OneReplyPerByte /\ PadFrames /\ TypeOK
  OBVIOUS
<1>1. /\ port \in Ports /\ DevInv(dev) /\ dev \in Drivers /\ guest \in SUBSET Cares
      /\ Careful => PortOK(port) /\ PadOK(dev)
  BY NowFacts
<1>2. TypeOK
  BY <1>1, DriverFields DEF TypeOK
<1>3. CardHoldsWrites
  BY <1>1 DEF CardHoldsWrites, DevInv, CardInv
<1>4. OneReplyPerByte
  BY <1>1 DEF OneReplyPerByte, PortOK
<1>5. PadFrames
  <2> SUFFICES ASSUME Careful PROVE ~dev.misframed /\ ~Broken(dev)
    BY DEF PadFrames
  <2>1. PadOK(dev) /\ dev.known \in Known /\ dev.heard \in Seq(Bytes)
    BY <1>1, DriverFields
  <2>2. dev.pad.status # "BREAK"
    <3>1. CASE Rest(dev.pad, dev.known)
      BY <2>1, <3>1, RestAck
    <3>2. CASE Mid(dev.pad, dev.known, dev.heard)
      BY <2>1, <3>2, MidAck
    <3> QED BY <2>1, <3>1, <3>2 DEF PadOK
  <2> QED BY <2>1, <2>2 DEF PadOK, Broken
<1> QED BY <1>2, <1>3, <1>4, <1>5

\* Every variable keeps its type.
THEOREM SIOPortTypeOK == Spec => []TypeOK
  BY AlwaysInv, InvImplies, PTL

\* Whatever the guest writes to the registers and however it interrupts the commands,
\* OfficialMemcard::WRITE_ProcessByte stores exactly the complete writes whose number
\* and checksum are right, at any size of sector and card.
THEOREM SIOPortCardHoldsWrites == Spec => []CardHoldsWrites
  BY AlwaysInv, InvImplies, PTL

\* SIOPort sends every byte of a careful guest once and keeps one reply for it, whether
\* the transfer ends by its event or early by a read.
THEOREM SIOPortOneReplyPerByte == Spec => []OneReplyPerByte
  BY AlwaysInv, InvImplies, PTL

\* StandardController answers a careful guest for exactly the bytes of an exchange in
\* the mode that the complete exchanges left it in, and never breaks.
THEOREM SIOPortPadFrames == Spec => []PadFrames
  BY AlwaysInv, InvImplies, PTL
=============================================================================
