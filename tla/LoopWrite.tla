----------------------------- MODULE LoopWrite -----------------------------
(***************************************************************************)
(* The client-to-endpoint half of one netstack socket (socket_server.go):  *)
(* the goroutine iostate.loopWrite, which drains the zircon socket         *)
(* (dataHandle) into the tcpip.Endpoint, and iostate.Close, which asserts  *)
(* LOCAL_SIGNAL_CLOSING, joins loopWrite through loopWriteDone and only    *)
(* then closes the endpoint.                                               *)
(*                                                                         *)
(* The client, the zircon socket and the endpoint are the environment.    *)
(* Data is abstracted to records [seq, to]: seq numbers every client write *)
(* (so a dropped, duplicated or reordered unit is visible) and to is the   *)
(* destination in a datagram's fdio_socket_msg header (NoAddr when         *)
(* addrlen = 0, BadAddr when the header does not decode).  For TCP one     *)
(* record is one byte of the stream; for UDP one record is one datagram.   *)
(***************************************************************************)
EXTENDS Naturals, Sequences

CONSTANTS
    Proto,          \* the socket's transport protocol, TCP or UDP
    Addrs,          \* destinations a datagram header may carry
    NoAddr,         \* addrlen = 0: no destination in the header
    BadAddr,        \* a header whose address fails to decode
    MaxWrites,      \* bound on the number of client writes
    PipeCap,        \* capacity of the zircon socket, in records
    MaxRead,        \* records one dataHandle.Read returns at most (2048 bytes)
    SndCap          \* TCP send buffer of the endpoint, in records

TCP == "tcp"
UDP == "udp"

ASSUME ConstAssumption ==
    /\ Proto \in {TCP, UDP}
    /\ NoAddr \notin Addrs /\ BadAddr \notin Addrs /\ NoAddr # BadAddr
    /\ MaxWrites \in Nat
    /\ PipeCap \in Nat \ {0}
    /\ MaxRead \in Nat \ {0}
    /\ SndCap \in Nat \ {0}

VARIABLES
    clientSent,   \* history: every record the client wrote, in order
    pipeIn,       \* records in the zircon socket, client -> netstack
    clientShut,   \* client shut down its write side (our ReadDisabled)
    clientClosed, \* client closed its handle (our PeerClosed)
    closeReq,     \* client sent the Close control request
    wpc,          \* loopWrite's position
    buf,          \* loopWrite's v: records read and not yet written
    wErr,         \* loopWrite returned an error
    wDoneAt,      \* Len(clientSent) when loopWrite returned
    resolved,     \* UDP: link address of the destination resolved
    outNotify,    \* notifyCh: pending EventOut notification (capacity 1)
    epSent,       \* history: every record Endpoint.Write accepted, in order
    sndUsed,      \* TCP: records in the endpoint's send buffer
    epErr,        \* the endpoint hit a hard error (reset, no route)
    epShutWr,     \* Endpoint.Shutdown(ShutdownWrite) was called
    closing,      \* LOCAL_SIGNAL_CLOSING asserted and ios.closing closed
    cpc           \* Close's position: idle, joining (on loopWriteDone), closed

vars == <<clientSent, pipeIn, clientShut, clientClosed, closeReq, wpc, buf,
          wErr, wDoneAt, resolved, outNotify, epSent, sndUsed, epErr,
          epShutWr, closing, cpc>>

clientVars == <<clientSent, clientShut, clientClosed, closeReq>>
writerVars == <<wpc, buf, wErr, wDoneAt, resolved>>
epVars == <<epSent, sndUsed, epErr, epShutWr>>

Rec == [seq : 1..MaxWrites, to : Addrs \cup {NoAddr, BadAddr}]

MinNat(a, b) == IF a < b THEN a ELSE b

\* Destinations the client may put in a write: a TCP stream has none.
ClientDests == IF Proto = TCP THEN {NoAddr} ELSE Addrs \cup {NoAddr, BadAddr}

\* waitEntry is registered for EventOut from line 133 to line 171.
Registered == wpc \in {"write", "waitOut", "waitRes"}

\* Mutant: the recorded count is off by one.
FinishOffByOne(err) == /\ wpc' = "done"
                       /\ wErr' = err
                       /\ wDoneAt' = Len(clientSent) - 1

\* loopWrite returns: record when, and whether with an error.
Finish(err) == /\ wpc' = "done"
               /\ wErr' = err
               /\ wDoneAt' = Len(clientSent)

-----------------------------------------------------------------------------
(* The client.                                                             *)

ClientWrite(a) ==
    /\ ~clientShut /\ ~clientClosed
    /\ Len(clientSent) < MaxWrites
    /\ Len(pipeIn) < PipeCap
    /\ LET r == [seq |-> Len(clientSent) + 1, to |-> a]
       IN /\ pipeIn' = Append(pipeIn, r)
          /\ clientSent' = Append(clientSent, r)
    /\ UNCHANGED <<clientShut, clientClosed, closeReq, writerVars, outNotify,
                   epVars, closing, cpc>>

ClientShutdown ==
    /\ ~clientShut /\ ~clientClosed
    /\ clientShut' = TRUE
    /\ UNCHANGED <<clientSent, pipeIn, clientClosed, closeReq, writerVars,
                   outNotify, epVars, closing, cpc>>

ClientCloseRequest ==
    /\ ~closeReq /\ ~clientClosed
    /\ closeReq' = TRUE
    /\ UNCHANGED <<clientSent, pipeIn, clientShut, clientClosed, writerVars,
                   outNotify, epVars, closing, cpc>>

ClientCloseHandle ==
    /\ ~clientClosed
    /\ clientClosed' = TRUE
    /\ UNCHANGED <<clientSent, pipeIn, clientShut, closeReq, writerVars,
                   outNotify, epVars, closing, cpc>>

-----------------------------------------------------------------------------
(* loopWrite.  WRead is the dataHandle.Read at line 80 with its error     *)
(* cases and, for UDP, the header parse of lines 117-131.                  *)

\* A stream Read takes what is there up to the buffer; a datagram Read one.
ReadCount == IF Proto = TCP THEN MinNat(Len(pipeIn), MaxRead) ELSE 1

\* Mutant: the last record read stays in the socket.
PipeAfterReadKeepLast(k) == SubSeq(pipeIn, k, Len(pipeIn))

\* The socket after a Read of k records.
PipeAfterRead(k) == SubSeq(pipeIn, k + 1, Len(pipeIn))

WRead ==
    /\ wpc = "read"
    /\ \/ /\ pipeIn # <<>>
          /\ LET k == ReadCount
                 v == SubSeq(pipeIn, 1, k)
             IN /\ pipeIn' = PipeAfterRead(k)
                /\ IF Proto = UDP /\ Head(pipeIn).to = BadAddr
                   THEN /\ Finish(TRUE)
                        /\ buf' = <<>>
                   ELSE /\ wpc' = "write"
                        /\ buf' = v
                        /\ UNCHANGED <<wErr, wDoneAt>>
          /\ UNCHANGED epShutWr
       \/ /\ pipeIn = <<>> /\ clientShut
          /\ epShutWr' = TRUE
          /\ Finish(FALSE)
          /\ UNCHANGED <<pipeIn, buf>>
       \/ /\ pipeIn = <<>> /\ clientClosed
          /\ Finish(FALSE)
          /\ UNCHANGED <<pipeIn, buf, epShutWr>>
       \/ /\ pipeIn = <<>> /\ ~clientShut /\ ~clientClosed
          /\ wpc' = "wait"
          /\ UNCHANGED <<pipeIn, buf, wErr, wDoneAt, epShutWr>>
    /\ UNCHANGED <<clientVars, resolved, outNotify, epSent, sndUsed, epErr,
                   closing, cpc>>

\* Mutant: LOCAL_SIGNAL_CLOSING left out of sigs.
WaitSignalsNoClosing == pipeIn # <<>> \/ clientShut \/ clientClosed

\* The signal set sigs of line 69: Readable, ReadDisabled, PeerClosed, CLOSING.
WaitSignals == pipeIn # <<>> \/ clientShut \/ clientClosed \/ closing

\* Mutant: PeerClosed and CLOSING tested before Readable.
WWaitClosingFirst ==
    /\ wpc = "wait"
    /\ WaitSignals
    /\ \/ /\ clientShut
          /\ IF Proto = TCP THEN wpc' = "write" ELSE wpc' = "crashed"
          /\ buf' = <<>>
          /\ UNCHANGED <<wErr, wDoneAt>>
       \/ /\ ~clientShut /\ ~clientClosed /\ ~closing
          /\ wpc' = "read"
          /\ UNCHANGED <<buf, wErr, wDoneAt>>
       \/ /\ ~clientShut /\ (clientClosed \/ closing)
          /\ Finish(FALSE)
          /\ UNCHANGED buf
    /\ UNCHANGED <<clientVars, pipeIn, resolved, outNotify, epVars, closing,
                   cpc>>

(* zxwait.Wait at line 91 returns once one of the signals is asserted;   *)
(* the switch at lines 93-105 tests ReadDisabled first.  That case is    *)
(* empty, so control falls out of the switch to line 117 with v empty:   *)
(* TCP goes on to write an empty payload, UDP slices v[HEADER_SIZE:] of  *)
(* an empty slice and panics.                                            *)
WWait ==
    /\ wpc = "wait"
    /\ WaitSignals
    /\ \/ /\ clientShut
          /\ IF Proto = TCP THEN wpc' = "write" ELSE wpc' = "crashed"
          /\ buf' = <<>>
          /\ UNCHANGED <<wErr, wDoneAt>>
       \/ /\ ~clientShut /\ pipeIn # <<>>
          /\ wpc' = "read"
          /\ UNCHANGED <<buf, wErr, wDoneAt>>
       \/ /\ ~clientShut /\ pipeIn = <<>>
          /\ Finish(FALSE)
          /\ UNCHANGED buf
    /\ UNCHANGED <<clientVars, pipeIn, resolved, outNotify, epVars, closing,
                   cpc>>

(* Endpoint.Write at line 135 and its outcomes, lines 136-169.           *)
WriteCounts ==
    IF buf = <<>> THEN {0}
    ELSE IF Proto = UDP THEN {Len(buf)}
    ELSE 1..MinNat(Len(buf), SndCap - sndUsed)

WWrite ==
    /\ wpc = "write"
    /\ \/ /\ epErr
          /\ Finish(TRUE)
          /\ UNCHANGED <<buf, resolved, epSent, sndUsed>>
       \/ /\ ~epErr /\ Proto = UDP /\ ~resolved
          /\ wpc' = "waitRes"
          /\ UNCHANGED <<buf, wErr, wDoneAt, resolved, epSent, sndUsed>>
       \/ /\ ~epErr /\ Proto = TCP /\ sndUsed = SndCap
          /\ wpc' = "waitOut"
          /\ UNCHANGED <<buf, wErr, wDoneAt, resolved, epSent, sndUsed>>
       \/ /\ ~epErr
          /\ Proto = UDP => resolved
          /\ Proto = TCP => sndUsed < SndCap
          /\ \E n \in WriteCounts :
                /\ epSent' = epSent \o SubSeq(buf, 1, n)
                /\ buf' = SubSeq(buf, n + 1, Len(buf))
                /\ sndUsed' = IF Proto = TCP THEN sndUsed + n ELSE sndUsed
                /\ wpc' = IF n = Len(buf) THEN "read" ELSE "write"
          /\ UNCHANGED <<wErr, wDoneAt, resolved>>
    /\ UNCHANGED <<clientVars, pipeIn, outNotify, epErr, epShutWr, closing,
                   cpc>>

(* <-resCh at line 143: wait for link address resolution, then retry.    *)
WWaitRes ==
    /\ wpc = "waitRes"
    /\ wpc' = "write"
    /\ resolved' = TRUE
    /\ UNCHANGED <<clientVars, pipeIn, buf, wErr, wDoneAt, outNotify, epVars,
                   closing, cpc>>

(* <-notifyCh at line 151: not interrupted by Close.                      *)
WWaitOut ==
    /\ wpc = "waitOut"
    /\ outNotify
    /\ outNotify' = FALSE
    /\ wpc' = "write"
    /\ UNCHANGED <<clientVars, pipeIn, buf, wErr, wDoneAt, resolved, epVars,
                   closing, cpc>>

-----------------------------------------------------------------------------
(* The endpoint.  The network drains the TCP send buffer; a hard error    *)
(* (reset, no route) makes every later Write fail.  Both notify EventOut  *)
(* waiters; a notification to a full notifyCh is dropped.                 *)

EpDrain ==
    /\ Proto = TCP /\ ~epErr /\ sndUsed > 0
    /\ \E k \in 1..sndUsed : sndUsed' = sndUsed - k
    /\ outNotify' = (outNotify \/ Registered)
    /\ UNCHANGED <<clientVars, pipeIn, writerVars, epSent, epErr, epShutWr,
                   closing, cpc>>

EpFail ==
    /\ ~epErr /\ cpc # "closed"
    /\ epErr' = TRUE
    /\ sndUsed' = 0
    /\ outNotify' = (outNotify \/ Registered)
    /\ UNCHANGED <<clientVars, pipeIn, writerVars, epSent, epShutWr, closing,
                   cpc>>

-----------------------------------------------------------------------------
(* Close, lines 718-741, run by loopControl on a Close request or when    *)
(* loopControl returns because the client closed its handle.              *)

CloseBegin ==
    /\ cpc = "idle"
    /\ closeReq \/ clientClosed
    /\ closing' = TRUE
    /\ cpc' = "joining"
    /\ UNCHANGED <<clientVars, pipeIn, writerVars, outNotify, epVars>>

\* Mutant: Close closes the endpoint without joining loopWrite.
CloseJoinNoWait ==
    /\ cpc = "joining"
    /\ cpc' = "closed"
    /\ UNCHANGED <<clientVars, pipeIn, writerVars, outNotify, epVars, closing>>

\* <-ios.loopWriteDone, then ios.ep.Close().
CloseJoin ==
    /\ cpc = "joining"
    /\ wpc = "done"
    /\ cpc' = "closed"
    /\ UNCHANGED <<clientVars, pipeIn, writerVars, outNotify, epVars, closing>>

-----------------------------------------------------------------------------

Init ==
    /\ clientSent = <<>>
    /\ pipeIn = <<>>
    /\ clientShut = FALSE
    /\ clientClosed = FALSE
    /\ closeReq = FALSE
    /\ wpc = "read"
    /\ buf = <<>>
    /\ wErr = FALSE
    /\ wDoneAt = 0
    /\ resolved = FALSE
    /\ outNotify = FALSE
    /\ epSent = <<>>
    /\ sndUsed = 0
    /\ epErr = FALSE
    /\ epShutWr = FALSE
    /\ closing = FALSE
    /\ cpc = "idle"

\* The socket's life is over (Close has returned, loopWrite is done), or a
\* panic in loopWrite has ended the process.
Terminated ==
    /\ \/ cpc = "closed" /\ clientClosed /\ sndUsed = 0
       \/ wpc = "crashed"
    /\ UNCHANGED vars

Next ==
    \/ /\ wpc # "crashed"
       /\ \/ \E a \in ClientDests : ClientWrite(a)
          \/ ClientShutdown \/ ClientCloseRequest \/ ClientCloseHandle
          \/ WRead \/ WWait \/ WWrite \/ WWaitRes \/ WWaitOut
          \/ EpDrain \/ EpFail
          \/ CloseBegin \/ CloseJoin
    \/ Terminated

\* The goroutines are scheduled fairly; the network eventually drains the
\* send buffer or fails the connection.
Fairness ==
    /\ WF_vars(WRead) /\ WF_vars(WWait) /\ WF_vars(WWrite)
    /\ WF_vars(WWaitRes) /\ WF_vars(WWaitOut)
    /\ WF_vars(CloseBegin) /\ WF_vars(CloseJoin)
    /\ WF_vars(EpDrain \/ EpFail)

Spec == Init /\ [][Next]_vars
FairSpec == Spec /\ Fairness

-----------------------------------------------------------------------------
(* Properties.                                                             *)

\* The Boolean-valued variables, and the rest, typed separately.
FlagsTyped ==
    /\ clientShut \in BOOLEAN /\ clientClosed \in BOOLEAN
    /\ closeReq \in BOOLEAN /\ wErr \in BOOLEAN
    /\ resolved \in BOOLEAN /\ outNotify \in BOOLEAN
    /\ epErr \in BOOLEAN /\ epShutWr \in BOOLEAN
    /\ closing \in BOOLEAN

StateTyped ==
    /\ clientSent \in Seq(Rec)
    /\ pipeIn \in Seq(Rec)
    /\ buf \in Seq(Rec)
    /\ epSent \in Seq(Rec)
    /\ wpc \in {"read", "wait", "write", "waitRes", "waitOut", "done", "crashed"}
    /\ wDoneAt \in Nat
    /\ sndUsed \in 0..SndCap
    /\ cpc \in {"idle", "joining", "closed"}

TypeOK == FlagsTyped /\ StateTyped

(* Spec 3, invariant 6: what the endpoint accepted is exactly the start  *)
(* of what the client wrote, in order, nothing dropped, duplicated or    *)
(* reordered, across partial TCP writes, WouldBlock retries and link     *)
(* address resolution in loopWrite's inner loop.                         *)
StreamFidelity ==
    /\ Len(epSent) <= Len(clientSent)
    /\ \A i \in 1..Len(epSent) : epSent[i] = clientSent[i]

(* Close drains: when loopWrite returned without an error (on CLOSING,   *)
(* PeerClosed or ReadDisabled), every record the client had written by   *)
(* then reached the endpoint.  It rests on the order of the tests after  *)
(* zxwait.Wait: Readable is tested before PeerClosed and CLOSING.        *)
CloseDrains ==
    (wpc = "done" /\ ~wErr) => epSent = SubSeq(clientSent, 1, wDoneAt)

(* Close joins loopWrite before it closes the endpoint: no Endpoint.Write *)
(* is accepted once Close has returned.                                  *)
NoWriteAfterClose == [][cpc = "closed" => epSent' = epSent]_vars

(* A panic in loopWrite takes the whole netstack down.                    *)
NoPanic == wpc # "crashed"

(* Close returns: once begun, the join on loopWriteDone completes, since  *)
(* loopWrite's uninterruptible wait on EventOut ends when the network     *)
(* drains the send buffer or fails (unless loopWrite panicked).          *)
CloseCompletes == (cpc = "joining") ~> (cpc = "closed" \/ wpc = "crashed")

(* loopWrite and Close implement the client-to-endpoint direction of a   *)
(* socket: the client's writes are the stream, Endpoint.Write hands on a *)
(* longer prefix of it at each step, the Endpoint.Shutdown(ShutdownWrite) *)
(* of line 86 comes only after the last byte, and nothing reaches the    *)
(* endpoint once Close has closed it (line 735).                         *)
Stream == INSTANCE SocketStream
              WITH Data <- Rec, sent <- clientSent, delivered <- epSent,
                   ended <- epShutWr, closed <- (cpc = "closed")

ImplementsStream == Stream!Spec

-----------------------------------------------------------------------------
(* Inductive strengthening of StreamFidelity and CloseDrains, used by     *)
(* LoopWriteProofs.                                                        *)

\* loopWrite holds no records between writes, nor when it has returned
\* normally; a failed Write returns with its buffer unsent.
BufEmptyAtRest ==
    (wpc \in {"read", "wait", "crashed"} \/ (wpc = "done" /\ ~wErr))
        => buf = <<>>

\* Until loopWrite fails, every record the client wrote is at the endpoint,
\* in loopWrite's hands or in the socket, in that order.
Conserved == ~wErr => epSent \o buf \o pipeIn = clientSent

\* A failed loopWrite is done, and wrote only a prefix of the stream.
FailedPrefix == wErr => (wpc = "done" /\ StreamFidelity)

\* A loopWrite that returned normally had written all the client's records.
DoneCount == (wpc = "done" /\ ~wErr) => Len(epSent) = wDoneAt

\* Close has returned only after joining loopWrite, which never restarts.
ClosedJoined == cpc = "closed" => wpc = "done"

IInv ==
    TypeOK /\ BufEmptyAtRest /\ Conserved /\ FailedPrefix /\ DoneCount
      /\ ClosedJoined

=============================================================================
