------------------------------- MODULE PadCard -------------------------------
(***************************************************************************)
(* The devices behind a connector of the SIO port, as functions of their   *)
(* state: StandardController (a pad), OfficialMemcard (a memory card) and   *)
(* SIOPadCardDriver, which passes the bytes on to one of the two.          *)
(*                                                                         *)
(* A byte is one of 0..BYTE-1 and the codes of devices and commands are    *)
(* small numbers.  The replies of the pad are counted and those of the     *)
(* card left out.  Commands of the pad that only differ in the bytes they  *)
(* answer are one: READ stands for GET_LED_STATE, GET_WHATEVER and          *)
(* GET_SET_RUMBLE_PROTOCOL too, GET_VARIABLE_RESPONSE for both variants.   *)
(* error::DebugBreak and error::Unreachable end the emulator.              *)
(***************************************************************************)
EXTENDS Naturals, Sequences, FiniteSets

CONSTANTS
    SECTOR,        \* LOGICAL_SECTOR_SIZE
    MAX_SECTOR     \* the last sector of the card

ASSUME PadCardAssumption == SECTOR \in Nat \ {0} /\ MAX_SECTOR \in Nat

BYTE == 8
Bytes == 0..(BYTE - 1)

\* SelectedDevice and the commands of the pad and of the card.
PAD == 1
MEMCARD == 2
READ == 2
CONFIG_MODE == 3
SET_LET_STATE == 4
GET_VARIABLE_RESPONSE == 5
WRITE == 3
GETID == 4

Sector == 0..(SECTOR - 1)
Sectors == 0..MAX_SECTOR

Pads ==
    [status : {"IDLE", "READ_STAT", "CONFIG", "COMMAND_END", "BREAK"},
     conf : {"JUST_ENTERED", "CONFIG_IDLE", "CONFIG_COMMAND_END"},
     mode : {"DIGITAL", "ANALOG"}, in_fifo : Seq(Bytes), response : Nat]

Cards ==
    [state : {"IDLE", "GETID", "READ", "WRITE", "BREAK"}, status : 1..7, step : Nat,
     sector : 0..(BYTE * BYTE - 1), sector_valid : BOOLEAN, checksum_valid : BOOLEAN,
     temp : [Sector -> Bytes], buffer : [Sectors -> [Sector -> Bytes]]]
-----------------------------------------------------------------------------
(***************************************************************************)
(* StandardController                                                      *)
(***************************************************************************)
NewPad ==
    [status |-> "IDLE", conf |-> "JUST_ENTERED", mode |-> "DIGITAL",
     in_fifo |-> <<>>, response |-> 0]

GetTransferLength(p) == IF p.mode = "ANALOG" THEN 9 ELSE 5
CONFIG_MODE_TRANSFER_LEN == 9

Break(p) == [p EXCEPT !.status = "BREAK"]

\* With EnqueueStatus.
IdleProcessByte(p, b) ==
    IF b \notin {READ, CONFIG_MODE} THEN Break(p)
    ELSE [p EXCEPT !.status = IF b = READ THEN "READ_STAT" ELSE "CONFIG",
                   !.conf = IF b = READ THEN p.conf ELSE "JUST_ENTERED",
                   !.response = p.response + (IF p.mode = "ANALOG" THEN 8 ELSE 4)]

\* The second byte of the command says whether to enter.
JustEnteredByte(p, b) ==
    LET fifo == Append(p.in_fifo, b)
    IN  IF Len(fifo) # GetTransferLength(p) - 2 THEN [p EXCEPT !.in_fifo = fifo]
        ELSE IF fifo[2] = 0 THEN [p EXCEPT !.in_fifo = <<>>, !.status = "COMMAND_END"]
        ELSE [p EXCEPT !.in_fifo = <<>>, !.conf = "CONFIG_COMMAND_END"]

ConfigIdleProcessByte(p, b) ==
    IF b \notin {READ, CONFIG_MODE, SET_LET_STATE, GET_VARIABLE_RESPONSE} THEN Break(p)
    ELSE [p EXCEPT !.in_fifo = <<b>>,
                   !.response = p.response + (IF b = GET_VARIABLE_RESPONSE THEN 2 ELSE 8)]

\* Bug: leaving the configuration mode keeps the pad there.
ConfigCommandEndStays(p) ==
    LET cmd == p.in_fifo[1] arg == p.in_fifo[3]
    IN  [p EXCEPT !.in_fifo = <<>>,
                  !.mode = IF cmd # SET_LET_STATE THEN p.mode
                           ELSE IF arg = 1 THEN "ANALOG" ELSE "DIGITAL",
                  !.conf = IF cmd = CONFIG_MODE /\ arg % 2 = 0 THEN "JUST_ENTERED"
                           ELSE "CONFIG_COMMAND_END"]

ConfigCommandEnd(p) ==
    LET cmd == p.in_fifo[1]
        arg == p.in_fifo[3]
        exit == cmd = CONFIG_MODE /\ arg % 2 = 0
    IN  [p EXCEPT !.in_fifo = <<>>,
                  !.mode = IF cmd # SET_LET_STATE THEN p.mode
                           ELSE IF arg = 1 THEN "ANALOG" ELSE "DIGITAL",
                  !.status = IF exit THEN "COMMAND_END" ELSE p.status,
                  !.conf = IF exit THEN "JUST_ENTERED" ELSE "CONFIG_COMMAND_END"]

\* A byte after the command; the third one completes a request for a variable.
ConfigArgument(p, b) ==
    LET fifo == Append(p.in_fifo, b)
        more == IF Len(fifo) = 3 /\ fifo[1] = GET_VARIABLE_RESPONSE THEN 6 ELSE 0
        q == [p EXCEPT !.in_fifo = fifo, !.response = p.response + more]
    IN  IF Len(fifo) = CONFIG_MODE_TRANSFER_LEN - 1 THEN ConfigCommandEnd(q) ELSE q

ConfigProcessByte(p, b) ==
    CASE p.conf = "JUST_ENTERED" -> JustEnteredByte(p, b)
      [] p.conf = "CONFIG_IDLE" /\ p.in_fifo = <<>> -> ConfigIdleProcessByte(p, b)
      [] p.conf = "CONFIG_IDLE" /\ p.in_fifo # <<>> -> ConfigArgument(p, b)
      [] p.conf = "CONFIG_COMMAND_END" -> Break(p)

PadReceives(p, b) ==
    CASE p.status = "IDLE" -> IdleProcessByte(p, b)
      [] p.status = "CONFIG" -> ConfigProcessByte(p, b)
      [] p.status = "COMMAND_END" -> [p EXCEPT !.status = "IDLE"]
      [] p.status \in {"READ_STAT", "BREAK"} -> p

\* StandardController::Send: the byte is processed and one reply leaves.
PadSend(p, b) ==
    LET q == PadReceives(p, b)
        left == IF q.response = 0 THEN 0 ELSE q.response - 1
    IN  [q EXCEPT !.response = left,
                  !.status = IF left = 0 /\ q.status = "READ_STAT" THEN "COMMAND_END"
                             ELSE q.status]

\* StandardController::Ack: the answer, and what the question does to the pad.
PadAck(p) ==
    \/ p.status = "IDLE"
    \/ p.status = "CONFIG" /\ p.conf = "CONFIG_IDLE"
    \/ p.response # 0

PadAcked(p) ==
    CASE p.status = "COMMAND_END" -> [p EXCEPT !.status = "IDLE"]
      [] p.status = "CONFIG" /\ p.conf = "CONFIG_COMMAND_END" ->
             [p EXCEPT !.conf = "CONFIG_IDLE"]
      [] OTHER -> p

PadReset(p) ==
    [p EXCEPT !.response = 0,
              !.status = IF p.status \in {"CONFIG", "BREAK"} THEN p.status ELSE "IDLE"]
-----------------------------------------------------------------------------
(***************************************************************************)
(* OfficialMemcard                                                         *)
(***************************************************************************)
NewCard ==
    [state |-> "IDLE", status |-> 1, step |-> 0, sector |-> 0, sector_valid |-> FALSE,
     checksum_valid |-> FALSE, temp |-> [i \in Sector |-> 0],
     buffer |-> [s \in Sectors |-> [i \in Sector |-> 0]]]

READ_STATUS == <<"ID", "RECV_SECTOR", "SEND_ACK", "SEND_CONFIRM", "SEND_SECTOR",
                 "SEND_CHECKSUM", "SEND_END_BYTE">>
READ_MAX_STEPS == <<2, 2, 2, 2, SECTOR, 1, 1>>

WRITE_STATUS == <<"ID", "RECV_SECTOR", "RECV_DATA", "RECV_CHECKSUM", "SEND_ACK",
                  "SEND_END_BYTE">>
WRITE_MAX_STEPS == <<2, 2, SECTOR, 1, 2, 1>>

Phase(c) ==
    CASE c.state = "READ" -> READ_STATUS[c.status]
      [] c.state = "WRITE" -> WRITE_STATUS[c.status]
      [] c.state \notin {"READ", "WRITE"} -> c.state

\* The checksum is the exclusive or of the sector number's bytes and the data.
Bit(n, v) == (v \div n) % 2

Odd(n, number, data) ==
    LET set == {i \in DOMAIN data : Bit(n, data[i]) = 1}
    IN  (Bit(n, number \div BYTE) + Bit(n, number) + Cardinality(set)) % 2

ComputeTempSectorChecksum(number, data) ==
    Odd(1, number, data) + 2 * Odd(2, number, data) + 4 * Odd(4, number, data)

CardIdle(c, b) ==
    [c EXCEPT !.state = CASE b = READ -> "READ" [] b = WRITE -> "WRITE"
                          [] b = GETID -> "GETID" [] OTHER -> "IDLE",
              !.status = 1, !.step = 0]

\* Both commands receive the number of the sector in two bytes.
ReceiveSector(c, b) ==
    LET number == (c.sector * BYTE + b) % (BYTE * BYTE)
    IN  [c EXCEPT !.sector = number, !.sector_valid = number <= MAX_SECTOR]

\* Bug: the data go into the card as they arrive.
CardReceivesThrough(c, b) ==
    CASE Phase(c) = "RECV_SECTOR" -> ReceiveSector(c, b)
      [] Phase(c) = "RECV_DATA" ->
             IF c.sector_valid THEN [c EXCEPT !.buffer[c.sector][c.step] = b] ELSE c
      [] OTHER -> c

\* What the byte does to the card, before the step is counted.
CardReceives(c, b) ==
    CASE Phase(c) = "RECV_SECTOR" -> ReceiveSector(c, b)
      [] Phase(c) = "RECV_DATA" -> [c EXCEPT !.temp[c.step] = b]
      [] Phase(c) = "RECV_CHECKSUM" ->
             [c EXCEPT !.checksum_valid =
                  c.sector_valid /\ ComputeTempSectorChecksum(c.sector, c.temp) = b]
      [] c.state = "WRITE" /\ Phase(c) = "SEND_END_BYTE" ->
             IF c.sector_valid /\ c.checksum_valid
               THEN [c EXCEPT !.buffer[c.sector] = c.temp] ELSE c
      [] OTHER -> c

\* READ_ProcessByte and WRITE_ProcessByte.
CardStep(c, b) ==
    LET d == CardReceives(c, b)
        max == IF c.state = "READ" THEN READ_MAX_STEPS ELSE WRITE_MAX_STEPS
        last == \/ Phase(c) = "SEND_END_BYTE"
                \/ Phase(c) = "SEND_CONFIRM" /\ ~c.sector_valid
    IN  IF c.step + 1 # max[c.status] THEN [d EXCEPT !.step = c.step + 1]
        ELSE IF last THEN [d EXCEPT !.step = 0, !.state = "IDLE", !.sector = 0]
        ELSE [d EXCEPT !.step = 0, !.status = c.status + 1]

\* OfficialMemcard::Send.
CardSend(c, b) ==
    CASE c.state = "IDLE" -> CardIdle(c, b)
      [] c.state \in {"READ", "WRITE"} -> CardStep(c, b)
      [] c.state \in {"GETID", "BREAK"} -> [c EXCEPT !.state = "BREAK"]

CardReset(c) ==
    [c EXCEPT !.state = "IDLE", !.status = 1, !.step = 0, !.sector = 0,
              !.sector_valid = FALSE, !.checksum_valid = FALSE]
-----------------------------------------------------------------------------
(***************************************************************************)
(* SIOPadCardDriver, with a history that follows the dialogue by whole     *)
(* commands: talk is what the card received since its last command was     *)
(* complete, written the card that results from its complete commands;     *)
(* heard is what was said since the pad was selected, known the mode that  *)
(* results from the complete exchanges with it; misframed tells that it    *)
(* left an exchange early or late or had nothing to say in it.             *)
(***************************************************************************)
NewDriver ==
    [selected |-> "NONE", pad |-> NewPad, card |-> NewCard,
     talk |-> <<>>, written |-> NewCard.buffer,
     heard |-> <<>>, known |-> [config |-> FALSE, analog |-> FALSE], misframed |-> FALSE]

SelectDevice(b) == CASE b = PAD -> "PAD" [] b = MEMCARD -> "MEMCARD" [] OTHER -> "NONE"

\* An exchange with the pad has five bytes, or nine in analog or configuration mode.
Frame(k) == IF k.config \/ k.analog THEN 9 ELSE 5

\* The mode after a complete exchange; its second byte is the command, its fourth the
\* argument.
ModeAfter(k, f) ==
    CASE f[2] = CONFIG_MODE /\ ~k.config -> [k EXCEPT !.config = f[4] # 0]
      [] f[2] = CONFIG_MODE /\ k.config -> [k EXCEPT !.config = f[4] % 2 = 1]
      [] f[2] = SET_LET_STATE -> [k EXCEPT !.analog = f[4] = 1]
      [] OTHER -> k

\* The commands of the card by their bytes alone.
Number(t) == t[4] * BYTE + t[5]
CommandLength(t) ==
    CASE t[1] = WRITE -> SECTOR + 9
      [] t[1] = READ /\ Len(t) >= 5 /\ Number(t) > MAX_SECTOR -> 9
      [] t[1] = READ /\ (Len(t) < 5 \/ Number(t) <= MAX_SECTOR) -> SECTOR + 11
      [] t[1] \notin {READ, WRITE} -> 1
Data(t) == [i \in Sector |-> t[6 + i]]
GoodWrite(t) ==
    /\ t[1] = WRITE /\ Number(t) <= MAX_SECTOR
    /\ t[6 + SECTOR] = ComputeTempSectorChecksum(Number(t), Data(t))

CardTalk(d, b) ==
    LET t == Append(d.talk, b)
        done == Len(t) = CommandLength(t)
    IN  [d EXCEPT !.talk = IF done THEN <<>> ELSE t,
                  !.written = IF done /\ GoodWrite(t)
                                THEN [d.written EXCEPT ![Number(t)] = Data(t)]
                                ELSE d.written]

DriverSend(d, b) ==
    CASE d.selected = "NONE" ->
             [d EXCEPT !.selected = SelectDevice(b), !.heard = <<b>>]
      [] d.selected = "PAD" ->
             [d EXCEPT !.pad = PadSend(d.pad, b), !.heard = Append(d.heard, b),
                       !.misframed = d.misframed \/ PadReceives(d.pad, b).response = 0]
      [] d.selected = "MEMCARD" -> [CardTalk(d, b) EXCEPT !.card = CardSend(d.card, b)]

\* SIOPadCardDriver::Ack: the answer, and the driver after the question.
DriverAck(d) ==
    \/ d.selected = "PAD" /\ PadAck(d.pad)
    \/ d.selected = "MEMCARD"

DriverAcked(d) ==
    LET done == d.selected = "PAD" /\ Len(d.heard) = Frame(d.known)
    IN  [d EXCEPT !.selected = IF DriverAck(d) THEN d.selected ELSE "NONE",
                  !.pad = IF d.selected = "PAD" THEN PadAcked(d.pad) ELSE d.pad,
                  !.heard = IF d.selected = "PAD" /\ PadAck(d.pad) THEN d.heard ELSE <<>>,
                  !.known = IF done THEN ModeAfter(d.known, d.heard) ELSE d.known,
                  !.misframed = d.misframed \/ (d.selected = "PAD" /\ (PadAck(d.pad) <=> done))]

Unselect(d) ==
    [d EXCEPT !.selected = "NONE", !.pad = PadReset(d.pad), !.card = CardReset(d.card),
              !.talk = <<>>, !.heard = <<>>]

Broken(d) == d.pad.status = "BREAK" \/ d.card.state = "BREAK"
=============================================================================
