----------------------------- MODULE MCIncoming -----------------------------
(* Model-checking instance of Incoming; constants are set in the .cfg.   *)
EXTENDS Incoming

=============================================================================
