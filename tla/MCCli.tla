-------------------------------- MODULE MCCli --------------------------------
(* Instances of Cli for TLC.                                               *)
EXTENDS Cli

(* Default flags; all in range; none in range: the PAN ID becomes 0, the   *)
(* channel 44, the power -56.                                              *)
MCSettings ==
  {[panID |-> 65535, channel |-> 11, txPower |-> 8],
   [panID |-> 6699, channel |-> 26, txPower |-> -5],
   [panID |-> 65536, channel |-> 300, txPower |-> 200]}

MCPanIDs == {0, 4660}

MCIDs == {1, 3, -1}

MCConfigIDs == <<1, 3, 2>>

(* ID 3 is not supported.                                                  *)
MCDefaults == 1 :> 513 @@ 2 :> 16

MCEndpoints ==
  <<[ep |-> 1, clusters |-> <<<<0, 1030>>, <<6>>>>],
    [ep |-> 242, clusters |-> <<<<>>, <<33>>>>]>>

MCNcpKinds ==
  {[version |-> 8, resumes |-> FALSE], [version |-> 13, resumes |-> TRUE],
   [version |-> 14, resumes |-> FALSE]}
==============================================================================
