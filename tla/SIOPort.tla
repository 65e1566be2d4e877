------------------------------- MODULE SIOPort -------------------------------
(***************************************************************************)
(* The serial port SIO0 with a pad and a memory card at its first          *)
(* connector and nothing at the second one: transmitter, receive FIFO,     *)
(* control register, the event that ends a transfer, and a guest that      *)
(* writes and reads the registers in any order or with some care.          *)
(***************************************************************************)
EXTENDS PadCard, Integers

CONSTANTS
    RX_SIZE,     \* entries of the receive FIFO
    Controls,    \* values the guest writes to CTRL
    Guests       \* what the guests take care of: subsets of Cares

\* "wait": the guest writes a byte when the last one has been sent; "read": it has
\* read the reply by then; "hold": it sends only while transmitter and DTR are on
\* and leaves CTRL alone during a transfer; "finish": it does not take DTR or the
\* connector away from a pad that has received a part of a configuration command.
Cares == {"wait", "read", "hold", "finish"}

Control == [tx_enable : BOOLEAN, dtr : BOOLEAN, rx_enable : BOOLEAN,
            dsr_int_enable : BOOLEAN, rx_int_after : 0..8, port : {1, 2}]

ASSUME SIOAssumption ==
    /\ RX_SIZE \in Nat \ {0}
    /\ Controls \subseteq Control
    /\ Guests \subseteq SUBSET Cares

VARIABLES
    port,     \* m_stat, m_control, the transmitter and m_rx_fifo of SIOPort
    dev,      \* the driver at connector 1 with its devices
    guest     \* what the guest takes care of

vars == <<port, dev, guest>>

Ports ==
    [pending : BOOLEAN, new : BOOLEAN, latch : BOOLEAN, old_tx : Bytes, tx_data : Bytes,
     tx_not_full : BOOLEAN, tx_idle : BOOLEAN, has_ack : BOOLEAN, rx : 0..RX_SIZE,
     int_req : BOOLEAN, ctrl : Control, event : BOOLEAN, owed : Int, unread : Int]

Off == [tx_enable |-> FALSE, dtr |-> FALSE, rx_enable |-> FALSE, dsr_int_enable |-> FALSE,
        rx_int_after |-> 0, port |-> 1]

\* owed and unread are history: bytes that were accepted and not sent, and bytes whose
\* reply the guest has not read.
Init ==
    /\ port = [pending |-> FALSE, new |-> FALSE, latch |-> FALSE, old_tx |-> 0,
               tx_data |-> 0, tx_not_full |-> TRUE, tx_idle |-> TRUE, has_ack |-> FALSE,
               rx |-> 0, int_req |-> FALSE, ctrl |-> Off, event |-> FALSE,
               owed |-> 0, unread |-> 0]
    /\ dev = NewDriver
    /\ guest \in Guests
-----------------------------------------------------------------------------
(***************************************************************************)
(* The functions of SIOPort, on the port with its device.                  *)
(***************************************************************************)
State(p, d) == [port |-> p, dev |-> d]

Now == State(port, dev)

Become(x) == port' = x.port /\ dev' = x.dev

\* The history is kept for a careful guest.
Careful == guest = Cares
Counted(n) == IF Careful THEN n ELSE 0

\* Nothing is connected to the second port: its driver selects and drops the null
\* devices.  A device that breaks ends the emulator: nothing is sent after that.
HandlePendingTransfer(x) ==
    LET p == x.port
        d == IF p.ctrl.port = 1 THEN DriverSend(x.dev, p.old_tx) ELSE x.dev
    IN  IF /\ p.pending /\ (p.ctrl.tx_enable \/ p.latch) /\ p.tx_idle /\ p.ctrl.dtr
           /\ ~Broken(x.dev)
          THEN State([p EXCEPT !.tx_idle = FALSE, !.tx_not_full = TRUE,
                               !.has_ack = p.ctrl.port = 1 /\ DriverAck(d),
                               !.event = TRUE, !.owed = Counted(p.owed - 1)],
                     IF p.ctrl.port = 1 THEN DriverAcked(d) ELSE x.dev)
          ELSE x

\* Bug: the byte stays pending.
ReceivedPending(x) ==
    LET p == x.port
    IN  State([p EXCEPT !.tx_idle = TRUE, !.rx = IF p.rx = RX_SIZE THEN p.rx ELSE p.rx + 1,
                        !.event = FALSE], x.dev)

\* The transfer ends: the reply goes into the FIFO, or over its last entry, and the
\* interrupt is requested, in STAT and of the CPU.
Received(x) ==
    LET p == x.port
        takes == p.ctrl.dtr \/ p.ctrl.rx_enable
        fits == takes /\ p.rx < RX_SIZE
        count == IF fits THEN p.rx + 1 ELSE p.rx
        request == \/ p.has_ack /\ p.ctrl.dsr_int_enable
                   \/ fits /\ p.ctrl.rx_int_after # 0 /\ count = p.ctrl.rx_int_after
    IN  State([p EXCEPT !.tx_idle = TRUE, !.pending = p.new, !.old_tx = p.tx_data,
                        !.rx = count, !.ctrl.rx_enable = FALSE,
                        !.int_req = p.int_req \/ request, !.event = FALSE],
              x.dev)

TransferComplete(x) == HandlePendingTransfer(Received(x))

\* Bug: the event is removed and nothing else done.
CompleteEarlyQuiet(x) == [x EXCEPT !.port.event = FALSE]

\* A read of DATA or STAT does not wait for the event.
CompleteEarly(x) == IF x.port.event THEN TransferComplete(x) ELSE x

\* Read8 of DATA.
Read8(x) ==
    LET y == CompleteEarly(x)
        p == y.port
    IN  IF p.rx = 0 THEN y
        ELSE [y EXCEPT !.port = [p EXCEPT !.rx = p.rx - 1, !.unread = Counted(p.unread - 1)]]
-----------------------------------------------------------------------------
Running == ~Broken(dev)

\* A transfer is under way or waits.
Busy == ~port.tx_idle \/ port.pending

\* The bytes a guest may want to send next.
NextBytes ==
    IF port.ctrl.port = 2 THEN {PAD}
    ELSE CASE dev.selected = "NONE" -> {0, PAD, MEMCARD}
           [] dev.selected = "PAD" ->
                CASE dev.pad.status = "IDLE" -> {READ, CONFIG_MODE}
                  [] dev.pad.status = "CONFIG" /\ dev.pad.conf = "CONFIG_IDLE"
                       /\ dev.pad.in_fifo = <<>> ->
                           {READ, CONFIG_MODE, SET_LET_STATE, GET_VARIABLE_RESPONSE}
                  [] dev.pad.status = "CONFIG" /\ Len(dev.pad.in_fifo) \in {1, 2} -> {0, 1}
                  [] OTHER -> {0}
           [] dev.selected = "MEMCARD" ->
                CASE dev.card.state = "IDLE" -> {READ, WRITE}
                  [] Phase(dev.card) \in {"RECV_SECTOR", "RECV_DATA", "RECV_CHECKSUM"} -> {0, 1}
                  [] OTHER -> {0}

\* Write16 to DATA.
WriteData(b) ==
    /\ Running
    /\ "wait" \in guest => ~Busy
    /\ "read" \in guest => port.rx = 0
    /\ "hold" \in guest => port.ctrl.dtr /\ port.ctrl.tx_enable
    /\ LET p == [port EXCEPT !.latch = port.ctrl.tx_enable, !.tx_not_full = FALSE,
                             !.owed = Counted(port.owed + 1),
                             !.unread = Counted(port.unread + 1)]
           q == IF port.pending THEN [p EXCEPT !.new = TRUE, !.tx_data = b]
                ELSE [p EXCEPT !.pending = TRUE, !.old_tx = b]
       IN  IF port.tx_not_full THEN Become(HandlePendingTransfer(State(q, dev)))
           ELSE UNCHANGED <<port, dev>>
    /\ UNCHANGED guest

\* The pad has received a part of a configuration command.
MidCommand ==
    /\ dev.selected = "PAD" /\ dev.pad.status = "CONFIG"
    /\ dev.pad.conf = "JUST_ENTERED" \/ dev.pad.in_fifo # <<>>

\* Write16 to CTRL.
WriteControl(c, ack) ==
    LET moved == port.ctrl.port # c.port
        p == [port EXCEPT !.ctrl = c, !.rx = IF moved THEN 0 ELSE port.rx,
                          !.unread = IF moved THEN 0 ELSE port.unread]
        d == IF (moved /\ port.ctrl.port = 1) \/ ~c.dtr THEN Unselect(dev) ELSE dev
        x == State(p, d)
        y == IF ~port.ctrl.tx_enable /\ c.tx_enable THEN HandlePendingTransfer(x) ELSE x
    IN  /\ Running
        /\ "hold" \in guest => ~Busy
        /\ "finish" \in guest /\ MidCommand => c.dtr /\ ~moved
        /\ Become(IF ack THEN [y EXCEPT !.port.int_req = FALSE] ELSE y)
        /\ UNCHANGED guest

\* Read16 or Read32 of STAT.
ReadStat ==
    /\ Running
    /\ Become(CompleteEarly(Now))
    /\ UNCHANGED guest

\* Read8, Read16 or Read32 of DATA.
ReadData(n) ==
    /\ Running
    /\ Become(CASE n = 1 -> Read8(Now) [] n = 2 -> Read8(Read8(Now))
                [] n = 4 -> Read8(Read8(Read8(Read8(Now)))))
    /\ UNCHANGED guest

\* transfer_end_callback.
TransferEnds ==
    /\ Running /\ port.event
    /\ Become(TransferComplete(Now))
    /\ UNCHANGED guest

Next ==
    \/ \E b \in NextBytes : WriteData(b)
    \/ \E c \in Controls, ack \in BOOLEAN : WriteControl(c, ack)
    \/ ReadStat
    \/ \E n \in {1, 2, 4} : ReadData(n)
    \/ TransferEnds

Spec == Init /\ [][Next]_vars

\* The scheduler runs the event.
FairSpec == Spec /\ WF_vars(TransferEnds)
-----------------------------------------------------------------------------
\* Every variable has its type.
TypeOK ==
    /\ port \in Ports
    /\ dev.pad \in Pads /\ dev.card \in Cards
    /\ guest \in SUBSET Cares

\* Every byte of a careful guest is sent once and every byte has one reply: none is
\* lost, none is sent again by a completion that still finds it pending.
OneReplyPerByte ==
    Careful => /\ port.owed = 0
               /\ port.unread = port.rx + (IF port.tx_idle THEN 0 ELSE 1)

\* A pad that a careful guest talks to drops out of the exchange exactly at its last
\* byte, five or nine bytes after it was selected, in every mode and after every
\* exchange that was cut short; it never gets to a case it calls unreachable.
PadFrames == Careful => ~dev.misframed /\ ~Broken(dev)

\* The card holds what complete write commands with a right checksum wrote, and
\* nothing of an aborted, rejected or half received one, whatever the guest does.
CardHoldsWrites == dev.card.buffer = dev.written

\* A transfer that is under way ends in an interrupt if the device acknowledged it
\* and the guest does not mask it, also if the guest looks before the event.
AckInterrupts ==
    port.event /\ port.has_ack /\ port.ctrl.dsr_int_enable /\ ~port.int_req
        ~> port.int_req \/ ~port.ctrl.dsr_int_enable \/ ~Running
=============================================================================
