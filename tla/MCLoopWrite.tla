---------------------------- MODULE MCLoopWrite ----------------------------
(* Model-checking instance of LoopWrite: TLC gives the constants values   *)
(* in the .cfg files (MCLoopWriteTCP, MCLoopWriteUDP, MCLoopWriteUDPShut). *)
EXTENDS LoopWrite

=============================================================================
