-------------------------------- MODULE MCWire --------------------------------
(* Instances of AshWire for TLC.                                           *)
EXTENDS AshWire

Data(frm, ack, reTx, pay) ==
  [type |-> "DATA", frmNum |-> frm, ackNum |-> ack, reTx |-> reTx,
   payload |-> pay, cancels |-> 0]

Control(type, ack, pay, cancels) ==
  [type |-> type, frmNum |-> 0, ackNum |-> ack, reTx |-> FALSE,
   payload |-> pay, cancels |-> cancels]

(* A control byte 0x7E and a payload that is 0x7D 0x7E when randomized; a  *)
(* frame that is too large; frames of three bytes; RST.                    *)
MCMessages ==
  {Data(7, 6, TRUE, <<63, 95>>), Data(1, 0, FALSE, [k \in 1 .. 12 |-> 0]),
   Control("ACK", 1, <<>>, 0), Control("RST", 0, <<>>, 2)}

(* Every pair of numbers, and all that the NCP adds.                       *)
MCSingles ==
  {Data(f, a, r, <<170>>) : f \in 0 .. 7, a \in 0 .. 7, r \in BOOLEAN}
    \cup {Control("NAK", 5, <<>>, 0), Control("RSTACK", 0, <<2, 11>>, 0)}
==============================================================================
