---------------------------- MODULE SocketStream ----------------------------
(***************************************************************************)
(* What one direction of the netstack socket bridge promises, whichever   *)
(* goroutine implements it: loopWrite (client to endpoint) or loopRead    *)
(* (endpoint to client).  The producer appends units to sent; the bridge  *)
(* hands on a longer prefix of sent at each step; end of stream reaches   *)
(* the consumer only once everything sent has been handed on; and once    *)
(* the socket is closed nothing more is handed on.                        *)
(***************************************************************************)
EXTENDS Naturals, Sequences

CONSTANT Data           \* the units of the stream: bytes or datagrams

VARIABLES
    sent,       \* everything the producer has put in, in order
    delivered,  \* everything the bridge has handed to the consumer
    ended,      \* the consumer has been told end of stream
    closed      \* the socket is closed: the bridge hands on nothing more

svars == <<sent, delivered, ended, closed>>

Init ==
    /\ sent = <<>>
    /\ delivered = <<>>
    /\ ended = FALSE
    /\ closed = FALSE

\* The producer puts in one more unit; none after end of stream.
Send ==
    /\ ~ended
    /\ \E d \in Data : sent' = Append(sent, d)
    /\ UNCHANGED <<delivered, ended, closed>>

\* The bridge hands on the next n units, in order, none twice.
Deliver ==
    /\ ~ended /\ ~closed
    /\ \E n \in 1..(Len(sent) - Len(delivered)) :
          delivered' = SubSeq(sent, 1, Len(delivered) + n)
    /\ UNCHANGED <<sent, ended, closed>>

\* End of stream, after the last unit.
End ==
    /\ ~ended /\ ~closed
    /\ delivered = sent
    /\ ended' = TRUE
    /\ UNCHANGED <<sent, delivered, closed>>

Close ==
    /\ ~closed
    /\ closed' = TRUE
    /\ UNCHANGED <<sent, delivered, ended>>

Next == Send \/ Deliver \/ End \/ Close

Spec == Init /\ [][Next]_svars

=============================================================================
