------------------------------ MODULE MCAshConn ------------------------------
(* Instances of AshConn for TLC.                                           *)
EXTENDS AshConn

CONSTANTS p

MCPayload == {p}

(* Frames that the host tells apart: an ACK that fits frmNum 0 and so does *)
(* not fit frmNum 1, and a DATA frame.  A damaged frame takes the branches *)
(* of a NAK in Reset and those of an ERROR in Send and Recv.               *)
MCArrivals ==
  {ControlFrame(t, 1) : t \in {"ACK", "NAK", "RSTACK", "ERROR"}}
    \cup {DataFrame(0, 0, FALSE, p)}
==============================================================================
