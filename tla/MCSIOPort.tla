------------------------------ MODULE MCSIOPort ------------------------------
(***************************************************************************)
(* A guest that only waits for its bytes to be sent and one that takes all *)
(* care; a card with two sectors of two bytes.                             *)
(***************************************************************************)
EXTENDS SIOPort

On == [Off EXCEPT !.tx_enable = TRUE, !.dtr = TRUE, !.dsr_int_enable = TRUE]

MCControls ==
    {Off, On, [On EXCEPT !.tx_enable = FALSE],
     [On EXCEPT !.port = 2, !.rx_enable = TRUE, !.rx_int_after = 1]}

MCGuests == {{"wait"}, Cares}

\* Nothing is claimed of a pad that a careless guest talks to; it stays at the first
\* connector.  A careful one switches the transmitter and DTR together.
MCSpec ==
    /\ Init
    /\ [][Next /\ IF Careful THEN port'.ctrl.tx_enable = port'.ctrl.dtr
                  ELSE dev'.selected # "PAD" /\ port'.ctrl.port = 1]_vars
    /\ WF_vars(TransferEnds)
=============================================================================
