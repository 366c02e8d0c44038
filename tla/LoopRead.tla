------------------------------ MODULE LoopRead ------------------------------
(***************************************************************************)
(* The endpoint-to-client half of one netstack socket (socket_server.go):  *)
(* the goroutine iostate.loopRead, lines 176-328, with the connect         *)
(* signalling of a TCP socket, the waits on the EventIn/EventOut channels  *)
(* inCh and outCh, and the write-out of what it read to the zircon socket. *)
(* Close (lines 718-741) signals CLOSING and closes the endpoint without   *)
(* joining loopRead; loopControl then closes dataHandle (line 338).        *)
(*                                                                         *)
(* The client, the zircon socket and the endpoint are the environment.    *)
(* The endpoint's Read results follow its state (ReadResult).  Data is     *)
(* abstracted to records [seq, from]: seq numbers every unit the endpoint  *)
(* received and from is a datagram's sender (NoAddr for TCP).  For TCP a  *)
(* record is one byte of the stream, for UDP one datagram.                 *)
(***************************************************************************)
EXTENDS Naturals, Sequences

CONSTANTS
    Proto,          \* the socket's transport protocol, TCP or UDP
    Senders,        \* source addresses of datagrams
    NoAddr,         \* no source: a TCP stream
    MaxData,        \* bound on the records the endpoint receives
    PipeCap,        \* capacity of the zircon socket, in records
    MaxConnects,    \* bound on the Connect requests of the client
    Reconnect       \* the endpoint accepts a Connect after a refused one

TCP == "tcp"
UDP == "udp"

ASSUME LoopReadAssumption ==
    /\ Proto \in {TCP, UDP}
    /\ NoAddr \notin Senders
    /\ MaxData \in Nat
    /\ PipeCap \in Nat \ {0}
    /\ MaxConnects \in Nat
    /\ Reconnect \in BOOLEAN

VARIABLES
    epState,      \* the endpoint: init, connecting, connected, refused, closed
    epArrived,    \* history: every record the endpoint received, in order
    readN,        \* how many of them Endpoint.Read has returned
    epFin,        \* TCP: the peer closed its side (rcvClosed)
    estab,        \* how many times the endpoint became connected
    connects,     \* Connect requests served
    inReg,        \* inEntry registered for EventIn
    outReg,       \* outEntry registered for EventOut
    inCh,         \* inCh holds a notification (capacity 1)
    outCh,        \* outCh holds a notification (capacity 1)
    rpc,          \* loopRead's position
    connected,    \* loopRead's local variable connected
    v,            \* loopRead's v: records read and not yet written out
    connSig,      \* how many times CONNECTED was asserted on the peer
    incoming,     \* INCOMING asserted on the peer
    pipeOut,      \* records in the zircon socket, netstack -> client
    clientGot,    \* history: every record the client read, in order
    pipeShutWr,   \* dataHandle.Shutdown(SocketShutdownWrite) was called
    clientShutRd, \* client shut down its read side (our WriteDisabled)
    clientClosed, \* client closed its handle (our PeerClosed)
    closeReq,     \* client sent the Close control request
    closing,      \* LOCAL_SIGNAL_CLOSING asserted and ios.closing closed
    cpc,          \* Close's position: idle, joining, closed
    handleClosed  \* loopControl closed dataHandle after Close

vars == <<epState, epArrived, readN, epFin, estab, connects, inReg, outReg,
          inCh, outCh, rpc, connected, v, connSig, incoming, pipeOut,
          clientGot, pipeShutWr, clientShutRd, clientClosed, closeReq,
          closing, cpc, handleClosed>>

epVars == <<epState, epArrived, readN, epFin, estab, connects>>
clientVars == <<clientGot, clientShutRd, clientClosed, closeReq>>
closeVars == <<closing, cpc, handleClosed>>

Rec == [seq : 1..MaxData, from : Senders \cup {NoAddr}]

MinNat(a, b) == IF a < b THEN a ELSE b

\* Sources a received unit may carry: a TCP stream has none.
Sources == IF Proto = TCP THEN {NoAddr} ELSE Senders

Unread == Len(epArrived) - readN

Space == PipeCap - Len(pipeOut)

(* Endpoint.Read: data while there is some, even once closed; a socket    *)
(* that is not yet connected answers ErrInvalidEndpointState, a refused   *)
(* one its hard error; ErrClosedForReceive once nothing is left and the  *)
(* peer closed or the endpoint is closed, ErrWouldBlock otherwise.        *)
ReadResult ==
    CASE Unread > 0 /\ epState \in {"connected", "closed"} -> "ok"
      [] epState \in {"init", "connecting"}              -> "invalid"
      [] epState = "refused"                              -> "refused"
      [] Unread = 0 /\ (epState = "closed" \/ epFin)     -> "closedRcv"
      [] OTHER                                            -> "wouldBlock"

\* A stream Read returns part or all of what is there; a datagram Read one.
ReadCounts ==
    IF ReadResult # "ok" THEN {0}
    ELSE IF Proto = UDP THEN {1} ELSE 1..Unread

\* Mutant: CONNECTED asserted only on a Read that returned data.
ConnectSignalOnData(r) ==
    IF connected THEN UNCHANGED <<connected, outReg, connSig>>
    ELSE /\ connected' = (r = "ok")
         /\ outReg' = (outReg /\ r # "ok")
         /\ connSig' = IF r = "ok" THEN connSig + 1 ELSE connSig

\* Mutant: the connected flag is never set, so every Read signals again.
ConnectSignalNoLatch(r) ==
    IF connected THEN UNCHANGED <<connected, outReg, connSig>>
    ELSE /\ connected' = FALSE
         /\ outReg' = (outReg /\ r \notin {"ok", "wouldBlock"})
         /\ connSig' = IF r \in {"ok", "wouldBlock"} THEN connSig + 1 ELSE connSig

\* Mutant: connected = true taken out of the switch of line 229, so a
\* refused Read also marks the socket connected.
ConnectSignalOnRefused(r) ==
    IF connected THEN UNCHANGED <<connected, outReg, connSig>>
    ELSE /\ connected' = TRUE
         /\ outReg' = (outReg /\ r \notin {"ok", "wouldBlock"})
         /\ connSig' = IF r \in {"ok", "wouldBlock"} THEN connSig + 1 ELSE connSig

\* Lines 227-235: the first Read of a TCP socket that is neither invalid
\* nor closed marks it connected, unregisters outEntry and adds CONNECTED
\* to the OUTGOING signal, unless the Read was refused.
ConnectSignal(r) ==
    IF connected THEN UNCHANGED <<connected, outReg, connSig>>
    ELSE /\ connected' = (r \in {"ok", "wouldBlock"})
         /\ outReg' = (outReg /\ r \notin {"ok", "wouldBlock"})
         /\ connSig' = IF r \in {"ok", "wouldBlock"} THEN connSig + 1
                       ELSE connSig

\* SignalPeer fails with PeerClosed or BadHandle (lines 237-240, 215-218).
SignalFails == clientClosed \/ handleClosed

\* Where the error switch of lines 245-266 sends loopRead.
AfterRead(r) ==
    CASE r = "ok"      -> "write"
      [] r = "refused" -> "waitOut"
      [] OTHER         -> "waitIn"

\* loopRead returns; the deferred EventUnregister calls of lines 181, 187.
Return == /\ rpc' = "done"
          /\ inReg' = FALSE
          /\ outReg' = FALSE

-----------------------------------------------------------------------------
(* loopRead.                                                               *)

(* One turn of the inner loop: the Endpoint.Read at line 197, the        *)
(* ClosedForReceive and InvalidEndpointState cases (198-204), the connect *)
(* signalling (227-244), the error switch (245-266) and the unregister   *)
(* of inEntry at line 269.  For UDP the header of lines 271-282 carries  *)
(* the sender, kept in the record.                                        *)
RRead ==
    /\ rpc = "read"
    /\ \/ /\ ReadResult = "closedRcv"
          /\ pipeShutWr' = ~handleClosed
          /\ Return
          /\ UNCHANGED <<readN, v, connected, connSig>>
       \/ /\ ReadResult = "invalid"
          /\ rpc' = IF connected THEN "crashed" ELSE "select"
          /\ UNCHANGED <<pipeShutWr, readN, v, connected, connSig, inReg,
                         outReg>>
       \/ /\ ReadResult \in {"ok", "wouldBlock", "refused"}
          /\ \E k \in ReadCounts :
                /\ readN' = readN + k
                /\ IF ~connected /\ SignalFails
                   THEN /\ v' = <<>>
                        /\ Return
                        /\ UNCHANGED <<connected, connSig>>
                   ELSE /\ ConnectSignal(ReadResult)
                        /\ v' = SubSeq(epArrived, readN + 1, readN + k)
                        /\ rpc' = AfterRead(ReadResult)
                        /\ inReg' = (rpc' # "write")
          /\ UNCHANGED pipeShutWr
    /\ UNCHANGED <<epState, epArrived, epFin, estab, connects, inCh, outCh,
                   incoming, pipeOut, clientVars, closeVars>>

(* The select of lines 205-226, taken when the endpoint is not yet        *)
(* connected.  Go picks at random among the ready cases.  A notification  *)
(* in inCh is taken for an incoming connection: outEntry is unregistered  *)
(* and INCOMING asserted under incomingAssertedMu.                        *)
RSelect ==
    /\ rpc = "select"
    /\ \/ /\ closing
          /\ Return
          /\ UNCHANGED <<inCh, outCh, incoming>>
       \/ /\ inCh
          /\ inCh' = FALSE
          /\ outReg' = FALSE
          /\ IF SignalFails
             THEN /\ rpc' = "done" /\ inReg' = FALSE
                  /\ UNCHANGED incoming
             ELSE /\ incoming' = TRUE /\ rpc' = "read"
                  /\ UNCHANGED inReg
          /\ UNCHANGED outCh
       \/ /\ outCh
          /\ outCh' = FALSE
          /\ rpc' = "read"
          /\ UNCHANGED <<inCh, incoming, inReg, outReg>>
    /\ UNCHANGED <<epVars, connected, v, connSig, pipeOut, pipeShutWr,
                   clientVars, closeVars>>

\* Mutant: the select of line 251 without its CLOSING case.
RWaitOutNoClosing ==
    /\ rpc = "waitOut"
    /\ outCh
    /\ outCh' = FALSE
    /\ rpc' = "read"
    /\ UNCHANGED <<epVars, inCh, inReg, outReg, connected, v, connSig,
                   incoming, pipeOut, pipeShutWr, clientVars, closeVars>>

(* Lines 251-256: after ConnectionRefused, wait for a fresh EventOut      *)
(* edge (a new Connect) or CLOSING.                                       *)
RWaitOut ==
    /\ rpc = "waitOut"
    /\ \/ /\ outCh
          /\ outCh' = FALSE
          /\ rpc' = "read"
          /\ UNCHANGED <<inReg, outReg>>
       \/ /\ closing
          /\ Return
          /\ UNCHANGED outCh
    /\ UNCHANGED <<epVars, inCh, connected, v, connSig, incoming, pipeOut,
                   pipeShutWr, clientVars, closeVars>>

(* Lines 257-263: after ErrWouldBlock, wait for EventIn or CLOSING.       *)
RWaitIn ==
    /\ rpc = "waitIn"
    /\ \/ /\ inCh
          /\ inCh' = FALSE
          /\ rpc' = "read"
          /\ UNCHANGED <<inReg, outReg>>
       \/ /\ closing
          /\ Return
          /\ UNCHANGED inCh
    /\ UNCHANGED <<epVars, outCh, connected, v, connSig, incoming, pipeOut,
                   pipeShutWr, clientVars, closeVars>>

\* Mutant: a TCP write that ignores how much the socket has room for.
WriteCountsNoSpace ==
    IF Proto = TCP THEN 1..Len(v) ELSE {Len(v)}

\* What one dataHandle.Write of v may take: part of a stream, a whole
\* datagram.
WriteCounts ==
    IF Proto = TCP THEN 1..MinNat(Len(v), Space) ELSE {Len(v)}

\* Mutant: a partial write starts over at the last record it wrote.
RestAfterWriteOffByOne(n) == SubSeq(v, n, Len(v))

\* v = v[n:] at line 293.
RestAfterWrite(n) == SubSeq(v, n + 1, Len(v))

\* Mutant: the write-out loop ends after the first successful write.
WriteOutDoneAlways(rest) == TRUE

\* if len(v) == 0 { break writeLoop }, lines 294-296.
WriteOutDone(rest) == rest = <<>>

(* dataHandle.Write at line 286 and its outcomes: a write of what fits    *)
(* (and back to line 194 once v is empty), BadState when the client shut *)
(* its read side (Endpoint.Shutdown(ShutdownRead), then return),         *)
(* PeerClosed or BadHandle (return), ShouldWait when the socket is full. *)
RWrite ==
    /\ rpc = "write"
    /\ \/ /\ handleClosed \/ clientClosed \/ clientShutRd
          /\ Return
          /\ UNCHANGED <<v, pipeOut>>
       \/ /\ ~handleClosed /\ ~clientClosed /\ ~clientShutRd
          /\ Space > 0
          /\ \E n \in WriteCounts :
                /\ pipeOut' = pipeOut \o SubSeq(v, 1, n)
                /\ v' = RestAfterWrite(n)
                /\ IF WriteOutDone(RestAfterWrite(n))
                   THEN rpc' = "read" /\ inReg' = TRUE
                   ELSE UNCHANGED <<rpc, inReg>>
          /\ UNCHANGED outReg
       \/ /\ ~handleClosed /\ ~clientClosed /\ ~clientShutRd
          /\ Space = 0
          /\ rpc' = "wwait"
          /\ UNCHANGED <<v, pipeOut, inReg, outReg>>
    /\ UNCHANGED <<epVars, inCh, outCh, connected, connSig, incoming,
                   pipeShutWr, clientVars, closeVars>>

\* The signal set sigs of line 177: WriteDisabled, Writable, PeerClosed,
\* CLOSING.
WriteSignals == clientShutRd \/ Space > 0 \/ clientClosed \/ closing

(* zxwait.Wait at line 304.  The switch of lines 306-315 tests           *)
(* WriteDisabled first (an empty case: the next Write fails with         *)
(* BadState), then Writable (retry), then PeerClosed and CLOSING         *)
(* (return).  A closed dataHandle cancels the wait (line 316).           *)
RWWait ==
    /\ rpc = "wwait"
    /\ \/ /\ handleClosed
          /\ Return
       \/ /\ ~handleClosed
          /\ WriteSignals
          /\ IF clientShutRd \/ Space > 0
             THEN rpc' = "write" /\ UNCHANGED <<inReg, outReg>>
             ELSE Return
    /\ UNCHANGED <<epVars, inCh, outCh, connected, v, connSig, incoming,
                   pipeOut, pipeShutWr, clientVars, closeVars>>

-----------------------------------------------------------------------------
(* The client and the endpoint.  The endpoint notifies EventIn when data  *)
(* or the peer's FIN arrives, EventOut when a connect completes, both     *)
(* when it fails or is closed; a notification reaches a channel only      *)
(* while its entry is registered, and a full channel drops it.            *)

(* The Connect request, lines 587-596: Endpoint.Connect starts a          *)
(* handshake from the initial state, or after a refusal where the         *)
(* endpoint permits it; otherwise it returns an error and changes        *)
(* nothing.  The address decode is abstracted to success.                 *)
ClientConnect ==
    /\ Proto = TCP /\ cpc = "idle" /\ ~clientClosed
    /\ connects < MaxConnects
    /\ connects' = connects + 1
    /\ epState' = IF epState = "init" \/ (epState = "refused" /\ Reconnect)
                  THEN "connecting" ELSE epState
    /\ UNCHANGED <<epArrived, readN, epFin, estab, inReg, outReg, inCh, outCh,
                   rpc, connected, v, connSig, incoming, pipeOut, pipeShutWr,
                   clientVars, closeVars>>

EpEstablish ==
    /\ epState = "connecting"
    /\ epState' = "connected"
    /\ estab' = estab + 1
    /\ outCh' = (outCh \/ outReg)
    /\ UNCHANGED <<epArrived, readN, epFin, connects, inReg, outReg, inCh,
                   rpc, connected, v, connSig, incoming, pipeOut, pipeShutWr,
                   clientVars, closeVars>>

EpRefuse ==
    /\ epState = "connecting"
    /\ epState' = "refused"
    /\ inCh' = (inCh \/ inReg)
    /\ outCh' = (outCh \/ outReg)
    /\ UNCHANGED <<epArrived, readN, epFin, estab, connects, inReg, outReg,
                   rpc, connected, v, connSig, incoming, pipeOut, pipeShutWr,
                   clientVars, closeVars>>

EpArrive(s) ==
    /\ epState = "connected" /\ ~epFin
    /\ Len(epArrived) < MaxData
    /\ epArrived' = Append(epArrived, [seq |-> Len(epArrived) + 1, from |-> s])
    /\ inCh' = (inCh \/ inReg)
    /\ UNCHANGED <<epState, readN, epFin, estab, connects, inReg, outReg,
                   outCh, rpc, connected, v, connSig, incoming, pipeOut,
                   pipeShutWr, clientVars, closeVars>>

EpFin ==
    /\ Proto = TCP /\ epState = "connected" /\ ~epFin
    /\ epFin' = TRUE
    /\ inCh' = (inCh \/ inReg)
    /\ UNCHANGED <<epState, epArrived, readN, estab, connects, inReg, outReg,
                   outCh, rpc, connected, v, connSig, incoming, pipeOut,
                   pipeShutWr, clientVars, closeVars>>

ClientRead ==
    /\ ~clientClosed /\ pipeOut # <<>>
    /\ clientGot' = Append(clientGot, Head(pipeOut))
    /\ pipeOut' = Tail(pipeOut)
    /\ UNCHANGED <<epVars, inReg, outReg, inCh, outCh, rpc, connected, v,
                   connSig, incoming, pipeShutWr, clientShutRd, clientClosed,
                   closeReq, closeVars>>

ClientShutRd ==
    /\ ~clientShutRd /\ ~clientClosed
    /\ clientShutRd' = TRUE
    /\ UNCHANGED <<epVars, inReg, outReg, inCh, outCh, rpc, connected, v,
                   connSig, incoming, pipeOut, clientGot, pipeShutWr,
                   clientClosed, closeReq, closeVars>>

ClientCloseRequest ==
    /\ ~closeReq /\ ~clientClosed
    /\ closeReq' = TRUE
    /\ UNCHANGED <<epVars, inReg, outReg, inCh, outCh, rpc, connected, v,
                   connSig, incoming, pipeOut, clientGot, pipeShutWr,
                   clientShutRd, clientClosed, closeVars>>

ClientCloseHandle ==
    /\ ~clientClosed
    /\ clientClosed' = TRUE
    /\ UNCHANGED <<epVars, inReg, outReg, inCh, outCh, rpc, connected, v,
                   connSig, incoming, pipeOut, clientGot, pipeShutWr,
                   clientShutRd, closeReq, closeVars>>

-----------------------------------------------------------------------------
(* Close, run by loopControl on a Close request or when it returns       *)
(* because the client closed its handle.  The join on loopWriteDone is   *)
(* abstracted to an arbitrary delay between the two steps.               *)

\* Lines 719-729: CLOSING is signalled and ios.closing closed; a call that
\* finds ios.closing closed takes the empty case of line 720.
CloseBegin ==
    /\ cpc = "idle"
    /\ closeReq \/ clientClosed
    /\ closing' = TRUE
    /\ cpc' = "joining"
    /\ UNCHANGED <<epVars, inReg, outReg, inCh, outCh, rpc, connected, v,
                   connSig, incoming, pipeOut, pipeShutWr, clientVars,
                   handleClosed>>

\* Line 735: ios.ep.Close(), which wakes both kinds of waiters.
CloseEndpoint ==
    /\ cpc = "joining"
    /\ cpc' = "closed"
    /\ epState' = "closed"
    /\ inCh' = (inCh \/ inReg)
    /\ outCh' = (outCh \/ outReg)
    /\ UNCHANGED <<epArrived, readN, epFin, estab, connects, inReg, outReg,
                   rpc, connected, v, connSig, incoming, pipeOut, pipeShutWr,
                   clientVars, closing, handleClosed>>

\* Lines 330-340: loopControl's deferred function.  Its call of Close
\* finds ios.closing closed (the request, or the same defer, ran the body
\* already) and returns at once; then dataHandle.Close().
ControlExit ==
    /\ cpc = "closed" /\ ~handleClosed
    /\ handleClosed' = TRUE
    /\ UNCHANGED <<epVars, inReg, outReg, inCh, outCh, rpc, connected, v,
                   connSig, incoming, pipeOut, pipeShutWr, clientVars,
                   closing, cpc>>

-----------------------------------------------------------------------------

Init ==
    /\ epState = IF Proto = TCP THEN "init" ELSE "connected"
    /\ epArrived = <<>>
    /\ readN = 0
    /\ epFin = FALSE
    /\ estab = 0
    /\ connects = 0
    /\ inReg = TRUE
    /\ outReg = (Proto = TCP)
    /\ inCh = FALSE
    /\ outCh = FALSE
    /\ rpc = "read"
    /\ connected = (Proto = UDP)
    /\ v = <<>>
    /\ connSig = 0
    /\ incoming = FALSE
    /\ pipeOut = <<>>
    /\ clientGot = <<>>
    /\ pipeShutWr = FALSE
    /\ clientShutRd = FALSE
    /\ clientClosed = FALSE
    /\ closeReq = FALSE
    /\ closing = FALSE
    /\ cpc = "idle"
    /\ handleClosed = FALSE

\* The socket's life is over once the client has closed its end and
\* loopControl has closed the zircon socket; a loopRead still blocked then
\* is a leaked goroutine, which LoopReadExits rules out.
Terminated ==
    /\ clientClosed /\ handleClosed
    /\ UNCHANGED vars

Next ==
    \/ RRead \/ RSelect \/ RWaitOut \/ RWaitIn \/ RWrite \/ RWWait
    \/ ClientConnect \/ EpEstablish \/ EpRefuse \/ EpFin
    \/ \E s \in Sources : EpArrive(s)
    \/ ClientRead \/ ClientShutRd \/ ClientCloseRequest \/ ClientCloseHandle
    \/ CloseBegin \/ CloseEndpoint \/ ControlExit
    \/ Terminated

\* The goroutines are scheduled fairly; loopControl serves a pending Close.
Fairness ==
    /\ WF_vars(RRead) /\ WF_vars(RSelect) /\ WF_vars(RWaitOut)
    /\ WF_vars(RWaitIn) /\ WF_vars(RWrite) /\ WF_vars(RWWait)
    /\ WF_vars(CloseBegin) /\ WF_vars(CloseEndpoint) /\ WF_vars(ControlExit)

Spec == Init /\ [][Next]_vars
FairSpec == Spec /\ Fairness

-----------------------------------------------------------------------------
(* Properties.                                                             *)

\* The flags of loopRead, the endpoint, the client and Close.
FlagsTyped ==
    /\ epFin \in BOOLEAN /\ inReg \in BOOLEAN /\ outReg \in BOOLEAN
    /\ inCh \in BOOLEAN /\ outCh \in BOOLEAN /\ connected \in BOOLEAN
    /\ incoming \in BOOLEAN /\ pipeShutWr \in BOOLEAN
    /\ clientShutRd \in BOOLEAN /\ clientClosed \in BOOLEAN
    /\ closeReq \in BOOLEAN /\ closing \in BOOLEAN /\ handleClosed \in BOOLEAN

\* The positions, counters and sequences; the zircon socket never holds
\* more than its capacity.
StateTyped ==
    /\ epState \in {"init", "connecting", "connected", "refused", "closed"}
    /\ epArrived \in Seq(Rec) /\ Len(epArrived) <= MaxData
    /\ readN \in 0..Len(epArrived)
    /\ estab \in Nat /\ connects \in 0..MaxConnects
    /\ rpc \in {"read", "select", "waitOut", "waitIn", "write", "wwait",
                "done", "crashed"}
    /\ v \in Seq(Rec) /\ pipeOut \in Seq(Rec) /\ Len(pipeOut) <= PipeCap
    /\ clientGot \in Seq(Rec)
    /\ connSig \in Nat
    /\ cpc \in {"idle", "joining", "closed"}

TypeOK == FlagsTyped /\ StateTyped

(* The client reads what the endpoint received, in order, each unit once: *)
(* the partial writes of line 293 and the reads of line 197 neither drop, *)
(* repeat nor reorder a byte or a datagram (with its sender).            *)
ReadFidelity ==
    /\ Len(clientGot) <= Len(epArrived)
    /\ \A i \in 1..Len(clientGot) : clientGot[i] = epArrived[i]

(* loopRead shuts down the client's read direction (line 199) only after *)
(* everything the endpoint received has been written to the zircon       *)
(* socket: the client sees end of stream after the last byte.             *)
EOFAfterAllData == pipeShutWr => clientGot \o pipeOut = epArrived

(* Spec 8.2: CONNECTED is asserted at most once, and not before the       *)
(* endpoint has connected (the connected flag of lines 184 and 231).      *)
ConnectedOnce == connSig <= 1 /\ connSig <= estab

(* A TCP connect that succeeds is announced with CONNECTED (spec 8.2),   *)
(* unless the peer closes or the socket is closed first: the outCh wake   *)
(* of lines 223-225 and 252-253 brings loopRead to the Read that asserts  *)
(* it.                                                                     *)
ConnectAnnounced ==
    (epState = "connected") ~> (connSig > 0 \/ epFin \/ closing \/ clientClosed)

(* A TCP socket that connected is announced before its stream ends: when *)
(* loopRead shuts down the client's read direction on ClosedForReceive   *)
(* (line 199) without a Close, it has asserted CONNECTED.                *)
ConnectedBeforeEOF == (pipeShutWr /\ estab > 0 /\ ~closing) => connSig > 0

(* The panic of line 202 never fires: an endpoint that loopRead has seen *)
(* connected never again answers Read with ErrInvalidEndpointState, even *)
(* when the client connects again after a refusal.                      *)
NoReadPanic == rpc # "crashed"

(* Once Close has signalled CLOSING, loopRead returns: every wait of     *)
(* loopRead (lines 205, 251, 258, 304) includes CLOSING, so Close need   *)
(* not join it (the comment at lines 737-738 fears that it could not).   *)
LoopReadExits == closing ~> (rpc = "done")

-----------------------------------------------------------------------------
(* Inductive strengthening of the properties above, used by              *)
(* LoopReadProofs.                                                         *)

\* What loopRead has handed to the client: read by it, or in the socket.
Delivered == clientGot \o pipeOut

\* loopRead holds records only between a Read that returned data and the
\* end of its write-out.
VAtRest == rpc \in {"read", "select", "waitOut", "waitIn"} => v = <<>>
VPending == rpc \in {"write", "wwait"} => v # <<>>

\* Until loopRead returns, every record Read returned is with the client,
\* in the socket or in v, in that order.
Conserved == rpc # "done" => Delivered \o v = SubSeq(epArrived, 1, readN)

\* What was handed on is the start of what the endpoint received.
DeliveredPrefix ==
    /\ Len(Delivered) <= Len(epArrived)
    /\ Delivered = SubSeq(epArrived, 1, Len(Delivered))

\* The client's read direction is shut down only by a loopRead that has
\* returned after handing on everything, on an endpoint that gets no more.
EOFDone ==
    pipeShutWr =>
        /\ rpc = "done"
        /\ Delivered = epArrived
        /\ epFin \/ epState = "closed"

\* Once loopRead has seen the endpoint connected, it stays connected or
\* closed; CONNECTED has been asserted exactly when a TCP loopRead has
\* seen that, and only after the handshake completed.
ConnectedState == connected => epState \in {"connected", "closed"}
SignalCount == connSig = IF Proto = TCP /\ connected THEN 1 ELSE 0
EstabSeen ==
    (Proto = TCP /\ (connected \/ epState = "connected" \/ epArrived # <<>>))
        => estab >= 1

\* The peer's FIN reaches only a connected endpoint; a datagram socket is
\* connected from the start.
FinState == epFin => epState \in {"connected", "closed"}
DatagramConnected == Proto = UDP => connected

\* A datagram Read returns one datagram, which one Write hands on whole.
DatagramV == Proto = UDP => Len(v) <= 1

IInv ==
    /\ TypeOK /\ VAtRest /\ VPending /\ Conserved /\ DeliveredPrefix
    /\ EOFDone /\ ConnectedState /\ SignalCount /\ EstabSeen /\ DatagramV
    /\ FinState /\ DatagramConnected /\ NoReadPanic

(* loopRead implements the endpoint-to-client direction of the socket:   *)
(* what the endpoint received is the stream, the writes of line 286 hand *)
(* on a longer prefix of it into the zircon socket, the Shutdown of line *)
(* 199 comes only after the last unit, and nothing is written once       *)
(* loopControl has closed the zircon socket (line 338).                 *)
Stream == INSTANCE SocketStream
              WITH Data <- Rec, sent <- epArrived,
                   delivered <- clientGot \o pipeOut,
                   ended <- pipeShutWr, closed <- handleClosed

ImplementsStream == Stream!Spec

=============================================================================
