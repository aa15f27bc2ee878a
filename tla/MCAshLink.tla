------------------------------ MODULE MCAshLink ------------------------------
(* Instances of AshLink for TLC.                                           *)
EXTENDS AshLink

MCPayload == Message
MCArrivals == Frame
==============================================================================
