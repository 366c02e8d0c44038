------------------------------ MODULE MCIfInfo ------------------------------
(* Model-checking instance of IfInfo: two non-loopback NICs and a third   *)
(* the netstack may add, with a C array of two entries, so that a listing *)
(* can see the list change and buildIfInfos can overflow.                 *)
EXTENDS IfInfo

CONSTANTS c1, c2, lo, n1, n2, n3

MCClients1 == {c1}
MCClients2 == {c1, c2}
MCNics == {lo, n1, n2, n3}

=============================================================================
