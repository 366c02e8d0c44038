----------------------------- MODULE MCLoopRead -----------------------------
(* Model values for LoopRead: two datagram senders.                       *)
EXTENDS LoopRead

CONSTANTS s1, s2

MCSenders == {s1, s2}

=============================================================================
