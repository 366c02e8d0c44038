--------------------------- MODULE IncomingProofs ---------------------------
(***************************************************************************)
(* Proofs about Incoming for every Backlog and MaxConns: the type          *)
(* invariant, and that INCOMING is never lost while loopRead listens.      *)
(* Zenon proves the Boolean-valued parts, SMT the counters and positions.  *)
(***************************************************************************)
EXTENDS Incoming, TLAPS

(* The variables keep their types: Incoming's state space is what TypeOK *)
(* says, whatever the backlog and the number of connections.             *)
LEMMA TypeCorrect == Spec => []TypeOK
<1>1. Init => TypeOK
  <2> SUFFICES ASSUME Init PROVE TypeOK
    OBVIOUS
  <2>1. FlagsTyped
    BY Zenon DEF Init, FlagsTyped
  <2>2. StateTyped
    BY IncomingAssumption DEF Init, StateTyped
  <2>3. QED
    BY <2>1, <2>2 DEF TypeOK
<1>2. TypeOK /\ [Next]_vars => TypeOK'
  <2> SUFFICES ASSUME TypeOK, [Next]_vars PROVE TypeOK'
    OBVIOUS
  <2>1. FlagsTyped'
    <3> USE DEF TypeOK, FlagsTyped
    <3>1. CASE ClientListen  BY <3>1, Zenon DEF ClientListen
    <3>2. CASE ClientAccept  BY <3>2, Zenon DEF ClientAccept
    <3>3. CASE ClientCloseRequest  BY <3>3, Zenon DEF ClientCloseRequest
    <3>4. CASE ClientCloseHandle  BY <3>4, Zenon DEF ClientCloseHandle
    <3>5. CASE Arrive  BY <3>5, Zenon DEF Arrive
    <3>6. CASE RRead  BY <3>6, Zenon DEF RRead
    <3>7. CASE RSelect  BY <3>7, Zenon DEF RSelect
    <3>8. CASE RLock  BY <3>8, Zenon DEF RLock
    <3>9. CASE RSignal  BY <3>9, Zenon DEF RSignal
    <3>10. CASE AAccept  BY <3>10, SMT DEF AAccept
    <3>11. CASE ALock  BY <3>11, Zenon DEF ALock
    <3>12. CASE ACheck  BY <3>12, SMT DEF ACheck
    <3>13. CASE AClear  BY <3>13, Zenon DEF AClear
    <3>14. CASE AShare  BY <3>14, Zenon DEF AShare
    <3>15. CASE CloseBegin  BY <3>15, Zenon DEF CloseBegin
    <3>16. CASE CloseEndpoint  BY <3>16, Zenon DEF CloseEndpoint
    <3>17. CASE Terminated  BY <3>17, Zenon DEF Terminated, vars
    <3>18. CASE UNCHANGED vars  BY <3>18, Zenon DEF vars
    <3>19. QED
      BY <3>1, <3>2, <3>3, <3>4, <3>5, <3>6, <3>7, <3>8, <3>9, <3>10, <3>11, <3>12, <3>13, <3>14, <3>15, <3>16, <3>17, <3>18 DEF Next
  <2>2. StateTyped'
    BY IncomingAssumption DEF TypeOK, StateTyped, Next, vars, ClientListen,
       ClientAccept, ClientCloseRequest, ClientCloseHandle, Arrive, RRead,
       RSelect, RLock, RSignal, AAccept, ALock, ACheck, AClear, AShare,
       CloseBegin, CloseEndpoint, Terminated
  <2>3. QED
    BY <2>1, <2>2 DEF TypeOK
<1>3. QED
  BY <1>1, <1>2, PTL DEF Spec

(* MutexOK, ClearOwed and NoLostIncoming are preserved by every step of *)
(* loopRead, Accept, the client, the endpoint and Close, given the types. *)
LEMMA SafetyInductive ==
    TypeOK /\ MutexOK /\ ClearOwed /\ NoLostIncoming /\ [Next]_vars
        => (MutexOK /\ ClearOwed /\ NoLostIncoming)'
<1> SUFFICES ASSUME TypeOK, MutexOK, ClearOwed, NoLostIncoming, [Next]_vars
             PROVE  (MutexOK /\ ClearOwed /\ NoLostIncoming)'
  OBVIOUS
<1> USE DEF TypeOK, FlagsTyped, StateTyped, MutexOK, ClearOwed, NoLostIncoming
<1>1. CASE ClientListen  BY <1>1 DEF ClientListen
<1>2. CASE ClientAccept  BY <1>2 DEF ClientAccept
<1>3. CASE ClientCloseRequest  BY <1>3 DEF ClientCloseRequest
<1>4. CASE ClientCloseHandle  BY <1>4 DEF ClientCloseHandle
<1>5. CASE Arrive  BY <1>5 DEF Arrive
<1>6. CASE RRead  BY <1>6 DEF RRead
<1>7. CASE RSelect  BY <1>7 DEF RSelect
<1>8. CASE RLock  BY <1>8 DEF RLock
<1>9. CASE RSignal  BY <1>9 DEF RSignal
<1>10. CASE AAccept  BY <1>10 DEF AAccept
<1>11. CASE ALock  BY <1>11 DEF ALock
<1>12. CASE ACheck  BY <1>12 DEF ACheck
<1>13. CASE AClear  BY <1>13 DEF AClear
<1>14. CASE AShare  BY <1>14 DEF AShare
<1>15. CASE CloseBegin  BY <1>15 DEF CloseBegin
<1>16. CASE CloseEndpoint  BY <1>16 DEF CloseEndpoint
<1>17. CASE Terminated  BY <1>17 DEF Terminated, vars
<1>18. CASE UNCHANGED vars  BY <1>18 DEF vars
<1>19. QED
  BY <1>1, <1>2, <1>3, <1>4, <1>5, <1>6, <1>7, <1>8, <1>9, <1>10, <1>11, <1>12, <1>13, <1>14, <1>15, <1>16, <1>17, <1>18 DEF Next

(* No lost INCOMING, for every backlog and number of connections:      *)
(* Accept's readiness check and clear under incomingAssertedMu never      *)
(* erase the INCOMING of a queued connection that loopRead will not       *)
(* assert again.  IInv is TypeOK with MutexOK and ClearOwed.              *)
THEOREM NoLostIncomingHolds == Spec => []NoLostIncoming
<1>1. Init => MutexOK /\ ClearOwed /\ NoLostIncoming
  BY DEF Init, MutexOK, ClearOwed, NoLostIncoming
<1>2. QED
  BY <1>1, TypeCorrect, SafetyInductive, PTL DEF Spec

=============================================================================
