------------------------------ MODULE Incoming ------------------------------
(***************************************************************************)
(* The accept-side signalling of one listening netstack socket             *)
(* (socket_server.go): the branch of iostate.loopRead that, on             *)
(* ErrInvalidEndpointState, waits for an EventIn notification and asserts  *)
(* MXSIO_SIGNAL_INCOMING on the client's handle (lines 201-222), and       *)
(* iostate.Accept, which takes a connection from the endpoint and then,    *)
(* under incomingAssertedMu, clears INCOMING when the endpoint's EventIn   *)
(* readiness is zero (lines 617-637).  Listen and Close are the other      *)
(* control operations that change what these two see.                      *)
(*                                                                         *)
(* The endpoint's accept queue is a count; an arriving connection notifies *)
(* inCh, a channel of capacity 1 (waiter.NewChannelEntry), so              *)
(* notifications coalesce.                                                 *)
(***************************************************************************)
EXTENDS Naturals

CONSTANTS
    Backlog,            \* the endpoint's accept queue capacity
    MaxConns            \* bound on the connections that arrive

ASSUME IncomingAssumption ==
    /\ Backlog \in Nat \ {0}
    /\ MaxConns \in Nat

VARIABLES
    listening,    \* Endpoint.Listen has succeeded
    epClosed,     \* Close has called Endpoint.Close
    acceptQ,      \* connections waiting in the endpoint's accept queue
    arrivals,     \* connections that have arrived so far
    inCh,         \* loopRead's inCh holds an EventIn notification
    incoming,     \* MXSIO_SIGNAL_INCOMING asserted on the client's handle
    mu,           \* holder of incomingAssertedMu: "free", "read" or "accept"
    rpc,          \* loopRead's position
    apc,          \* position of loopControl serving Accept ("idle" between)
    got,          \* Accept: Endpoint.Accept returned a connection
    ready,        \* Accept: Readiness(EventIn) # 0 when it was read
    closeReq,     \* the client sent the Close request
    clientClosed, \* the client closed its handle
    closing,      \* LOCAL_SIGNAL_CLOSING asserted and ios.closing closed
    crashed       \* a panic ended the process

vars == <<listening, epClosed, acceptQ, arrivals, inCh, incoming, mu, rpc,
          apc, got, ready, closeReq, clientClosed, closing, crashed>>

-----------------------------------------------------------------------------
(* The client: control requests are served one at a time by loopControl. *)

ClientListen ==
    /\ apc = "idle" /\ ~closeReq /\ ~clientClosed /\ ~listening
    /\ listening' = TRUE
    /\ UNCHANGED <<epClosed, acceptQ, arrivals, inCh, incoming, mu, rpc, apc,
                   got, ready, closeReq, clientClosed, closing, crashed>>

ClientAccept ==
    /\ apc = "idle" /\ ~closeReq /\ ~clientClosed
    /\ apc' = "accept"
    /\ UNCHANGED <<listening, epClosed, acceptQ, arrivals, inCh, incoming, mu,
                   rpc, got, ready, closeReq, clientClosed, closing, crashed>>

ClientCloseRequest ==
    /\ apc = "idle" /\ ~closeReq /\ ~clientClosed
    /\ closeReq' = TRUE
    /\ UNCHANGED <<listening, epClosed, acceptQ, arrivals, inCh, incoming, mu,
                   rpc, apc, got, ready, clientClosed, closing, crashed>>

\* The client process closes its handle, or dies, at any moment.
ClientCloseHandle ==
    /\ ~clientClosed
    /\ clientClosed' = TRUE
    /\ UNCHANGED <<listening, epClosed, acceptQ, arrivals, inCh, incoming, mu,
                   rpc, apc, got, ready, closeReq, closing, crashed>>

-----------------------------------------------------------------------------
(* The endpoint: a connection completes the handshake and is queued; the *)
(* waiter queue notifies loopRead's inEntry, registered from line 194     *)
(* until loopRead returns.                                                *)

Arrive ==
    /\ listening /\ ~epClosed
    /\ arrivals < MaxConns /\ acceptQ < Backlog
    /\ acceptQ' = acceptQ + 1
    /\ arrivals' = arrivals + 1
    /\ inCh' = (inCh \/ rpc # "done")
    /\ UNCHANGED <<listening, epClosed, incoming, mu, rpc, apc, got, ready,
                   closeReq, clientClosed, closing, crashed>>

-----------------------------------------------------------------------------
(* loopRead on a socket that is not connected.                            *)

\* Endpoint.Read at line 197: a listening or unconnected endpoint answers
\* ErrInvalidEndpointState; a closed one ErrClosedForReceive, on which
\* loopRead shuts down the dataHandle's write side and returns.
RRead ==
    /\ rpc = "read"
    /\ rpc' = IF epClosed THEN "done" ELSE "select"
    /\ UNCHANGED <<listening, epClosed, acceptQ, arrivals, inCh, incoming, mu,
                   apc, got, ready, closeReq, clientClosed, closing, crashed>>

\* Mutant: the select has no inCh case.
RSelectClosingOnly ==
    /\ rpc = "select"
    /\ closing
    /\ rpc' = "done"
    /\ UNCHANGED <<listening, epClosed, acceptQ, arrivals, inCh, incoming, mu,
                   apc, got, ready, closeReq, clientClosed, closing, crashed>>

\* The select at line 205; outCh never fires on a listening endpoint.
RSelect ==
    /\ rpc = "select"
    /\ \/ /\ closing
          /\ rpc' = "done"
          /\ UNCHANGED inCh
       \/ /\ inCh
          /\ inCh' = FALSE
          /\ rpc' = "lock"
    /\ UNCHANGED <<listening, epClosed, acceptQ, arrivals, incoming, mu, apc,
                   got, ready, closeReq, clientClosed, closing, crashed>>

\* incomingAssertedMu.Lock() at line 212.
RLock ==
    /\ rpc = "lock" /\ mu = "free"
    /\ mu' = "read"
    /\ rpc' = "signal"
    /\ UNCHANGED <<listening, epClosed, acceptQ, arrivals, inCh, incoming, apc,
                   got, ready, closeReq, clientClosed, closing, crashed>>

\* SignalPeer(0, INCOMING), Unlock, and the status switch, lines 213-222:
\* on a closed peer loopRead returns.
RSignal ==
    /\ rpc = "signal"
    /\ mu' = "free"
    /\ IF clientClosed
       THEN /\ rpc' = "done"
            /\ UNCHANGED incoming
       ELSE /\ incoming' = TRUE
            /\ rpc' = "read"
    /\ UNCHANGED <<listening, epClosed, acceptQ, arrivals, inCh, apc, got,
                   ready, closeReq, clientClosed, closing, crashed>>

-----------------------------------------------------------------------------
(* Accept, served by loopControl.                                          *)

\* Mutant: a connection is taken whether or not one is queued.
AAcceptUnchecked ==
    /\ apc = "accept"
    /\ acceptQ' = acceptQ - 1
    /\ got' = TRUE
    /\ apc' = "lock"
    /\ UNCHANGED <<listening, epClosed, arrivals, inCh, incoming, mu, rpc,
                   ready, closeReq, clientClosed, closing, crashed>>

\* Endpoint.Accept at line 618: a queued connection, or ErrWouldBlock
\* (ErrInvalidEndpointState when not listening); the error is looked at
\* only after the signal is dealt with.
AAccept ==
    /\ apc = "accept"
    /\ acceptQ' = IF acceptQ > 0 THEN acceptQ - 1 ELSE acceptQ
    /\ got' = (acceptQ > 0)
    /\ apc' = "lock"
    /\ UNCHANGED <<listening, epClosed, arrivals, inCh, incoming, mu, rpc,
                   ready, closeReq, clientClosed, closing, crashed>>

\* Mutant: Accept does not take incomingAssertedMu.
ALockSkipped ==
    /\ apc = "lock"
    /\ apc' = "check"
    /\ UNCHANGED <<listening, epClosed, acceptQ, arrivals, inCh, incoming, mu,
                   rpc, got, ready, closeReq, clientClosed, closing, crashed>>

\* incomingAssertedMu.Lock() at line 624.
ALock ==
    /\ apc = "lock" /\ mu = "free"
    /\ mu' = "accept"
    /\ apc' = "check"
    /\ UNCHANGED <<listening, epClosed, acceptQ, arrivals, inCh, incoming, rpc,
                   got, ready, closeReq, clientClosed, closing, crashed>>

\* ios.ep.Readiness(waiter.EventIn) at line 625.
ACheck ==
    /\ apc = "check"
    /\ ready' = (acceptQ > 0)
    /\ apc' = "clear"
    /\ UNCHANGED <<listening, epClosed, acceptQ, arrivals, inCh, incoming, mu,
                   rpc, got, closeReq, clientClosed, closing, crashed>>

\* SignalPeer(INCOMING, 0) when readiness was zero, then Unlock, lines
\* 626-630.  Any error of SignalPeer panics, ZX_ERR_PEER_CLOSED included.
AClear ==
    /\ apc = "clear"
    /\ \/ /\ ready
          /\ mu' = "free"
          /\ apc' = "share"
          /\ UNCHANGED <<incoming, crashed>>
       \/ /\ ~ready /\ ~clientClosed
          /\ incoming' = FALSE
          /\ mu' = "free"
          /\ apc' = "share"
          /\ UNCHANGED crashed
       \/ /\ ~ready /\ clientClosed
          /\ crashed' = TRUE
          /\ UNCHANGED <<incoming, mu, apc>>
    /\ UNCHANGED <<listening, epClosed, acceptQ, arrivals, inCh, rpc, got,
                   ready, closeReq, clientClosed, closing>>

\* Lines 631-637: on an error the errno is the reply; otherwise a new
\* iostate is made for the connection and its handle passed to the client
\* with dataHandle.Share, whose error also panics.
AShare ==
    /\ apc = "share"
    /\ \/ /\ ~got \/ ~clientClosed
          /\ apc' = "idle"
          /\ UNCHANGED crashed
       \/ /\ got /\ clientClosed
          /\ crashed' = TRUE
          /\ UNCHANGED apc
    /\ UNCHANGED <<listening, epClosed, acceptQ, arrivals, inCh, incoming, mu,
                   rpc, got, ready, closeReq, clientClosed, closing>>

-----------------------------------------------------------------------------
(* Close (lines 718-741), run by loopControl on the Close request or when *)
(* it returns because the client closed its handle: CLOSING, then, after *)
(* joining loopWrite, Endpoint.Close, which drops queued connections.     *)

CloseBegin ==
    /\ apc = "idle" /\ ~closing
    /\ closeReq \/ clientClosed
    /\ closing' = TRUE
    /\ UNCHANGED <<listening, epClosed, acceptQ, arrivals, inCh, incoming, mu,
                   rpc, apc, got, ready, closeReq, clientClosed, crashed>>

CloseEndpoint ==
    /\ closing /\ ~epClosed
    /\ epClosed' = TRUE
    /\ acceptQ' = 0
    /\ UNCHANGED <<listening, arrivals, inCh, incoming, mu, rpc, apc, got,
                   ready, closeReq, clientClosed, closing, crashed>>

-----------------------------------------------------------------------------

Init ==
    /\ listening = FALSE
    /\ epClosed = FALSE
    /\ acceptQ = 0
    /\ arrivals = 0
    /\ inCh = FALSE
    /\ incoming = FALSE
    /\ mu = "free"
    /\ rpc = "read"
    /\ apc = "idle"
    /\ got = FALSE
    /\ ready = FALSE
    /\ closeReq = FALSE
    /\ clientClosed = FALSE
    /\ closing = FALSE
    /\ crashed = FALSE

\* The socket is gone (the endpoint is closed and loopRead has returned),
\* or a panic has ended the process.
Terminated ==
    /\ \/ epClosed /\ rpc = "done" /\ clientClosed
       \/ crashed
    /\ UNCHANGED vars

Next ==
    \/ /\ ~crashed
       /\ \/ ClientListen \/ ClientAccept \/ ClientCloseRequest
          \/ ClientCloseHandle
          \/ Arrive
          \/ RRead \/ RSelect \/ RLock \/ RSignal
          \/ AAccept \/ ALock \/ ACheck \/ AClear \/ AShare
          \/ CloseBegin \/ CloseEndpoint
    \/ Terminated

\* Goroutines are scheduled fairly and incoming mutex waiters get the lock
\* (sync.Mutex switches to starvation mode).
Fairness ==
    /\ WF_vars(RRead) /\ WF_vars(RSelect) /\ WF_vars(RLock)
    /\ WF_vars(RSignal)
    /\ WF_vars(AAccept) /\ WF_vars(ALock) /\ WF_vars(ACheck)
    /\ WF_vars(AClear) /\ WF_vars(AShare)
    /\ WF_vars(CloseBegin) /\ WF_vars(CloseEndpoint)

Spec == Init /\ [][Next]_vars
FairSpec == Spec /\ Fairness

-----------------------------------------------------------------------------
(* Properties.                                                             *)

\* The Boolean-valued variables, and the rest, typed separately.
FlagsTyped ==
    /\ listening \in BOOLEAN /\ epClosed \in BOOLEAN
    /\ inCh \in BOOLEAN /\ incoming \in BOOLEAN
    /\ got \in BOOLEAN /\ ready \in BOOLEAN
    /\ closeReq \in BOOLEAN /\ clientClosed \in BOOLEAN
    /\ closing \in BOOLEAN /\ crashed \in BOOLEAN

StateTyped ==
    /\ acceptQ \in 0..Backlog
    /\ arrivals \in 0..MaxConns
    /\ mu \in {"free", "read", "accept"}
    /\ rpc \in {"read", "select", "lock", "signal", "done"}
    /\ apc \in {"idle", "accept", "lock", "check", "clear", "share"}

TypeOK == FlagsTyped /\ StateTyped

(* No lost INCOMING: while loopRead listens, a queued connection is       *)
(* either visible to the client as INCOMING or still owed a signal by     *)
(* loopRead (a notification in inCh, or loopRead between the select and  *)
(* SignalPeer).  Accept's readiness check and clear under                 *)
(* incomingAssertedMu is what keeps a clear from overwriting an assertion *)
(* made for a connection that arrived after the check.                    *)
NoLostIncoming ==
    (acceptQ > 0 /\ rpc \in {"read", "select"} /\ ~inCh) => incoming

(* A queued connection is eventually announced with INCOMING, unless it  *)
(* is accepted or the socket is closing.                                  *)
IncomingAnnounced ==
    (acceptQ > 0) ~> (incoming \/ acceptQ = 0 \/ closing \/ clientClosed)

(* Spec 8.2: INCOMING is asserted only while an accept is pending: once  *)
(* Accept and loopRead are both at rest, with no notification left in   *)
(* inCh, an asserted INCOMING means a connection is queued.             *)
IncomingOnlyWhenPending ==
    (incoming /\ ~closing /\ apc = "idle" /\ rpc \in {"read", "select"} /\ ~inCh)
        => acceptQ > 0

(* A panic in Accept takes the whole netstack down.                       *)
NoPanic == ~crashed

(* Inductive strengthening of NoLostIncoming, used by IncomingProofs.     *)
MutexOK ==
    /\ mu = "read" <=> rpc = "signal"
    /\ mu = "accept" <=> apc \in {"check", "clear"}

\* An Accept about to clear INCOMING read zero readiness; a connection
\* queued since then has left loopRead a notification, or loopRead has
\* taken it and waits for the mutex.
ClearOwed ==
    (apc = "clear" /\ ~ready /\ acceptQ > 0 /\ rpc # "done")
        => (inCh \/ rpc = "lock")

IInv == TypeOK /\ MutexOK /\ ClearOwed /\ NoLostIncoming

=============================================================================
