----------------------------- MODULE MCEzspClient -----------------------------
(* Instances of EzspClient for TLC.  f and g are two frame IDs.            *)
EXTENDS EzspClient

CONSTANTS f, g
==============================================================================
