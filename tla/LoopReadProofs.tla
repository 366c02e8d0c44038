--------------------------- MODULE LoopReadProofs ---------------------------
(***************************************************************************)
(* Proofs about loopRead (LoopRead.tla) for every protocol, every bound   *)
(* on the data, every capacity of the zircon socket and every number of  *)
(* Connect requests: the inductive invariant IInv, the safety properties  *)
(* the runs check, and that loopRead implements the stream SocketStream. *)
(***************************************************************************)
EXTENDS LoopRead, SequenceLemmas, SequenceTheorems, TLAPS

(* Concatenation of records is associative. *)
LEMMA RecConcatAssoc ==
    \A s, t, u \in Seq(Rec) : (s \o t) \o u = s \o (t \o u)
BY ConcatAssociative

(* What Endpoint.Read answers (ReadResult), in an endpoint whose FIN      *)
(* came only while it was connected: data only when there is some, the   *)
(* invalid-state error only before a connect completed, ClosedForReceive *)
(* only once everything has been read, and how many records it returns. *)
LEMMA ReadFacts ==
    ASSUME TypeOK, FinState
    PROVE  /\ ReadResult = "ok" => Unread > 0 /\ epState \in {"connected", "closed"}
           /\ ReadResult = "invalid" => epState \in {"init", "connecting"}
           /\ ReadResult = "closedRcv" =>
                 readN = Len(epArrived) /\ (epFin \/ epState = "closed")
           /\ ReadResult = "wouldBlock" => epState = "connected"
           /\ ReadResult # "ok" => ReadCounts = {0}
           /\ ReadResult = "ok" =>
                 /\ ReadCounts \subseteq 1..Unread
                 /\ Proto = UDP => ReadCounts = {1}
<1> USE LoopReadAssumption DEF TypeOK, StateTyped, FlagsTyped, FinState, Unread
<1>1. CASE Unread > 0 /\ epState \in {"connected", "closed"}
  BY <1>1 DEF ReadResult, ReadCounts
<1>2. CASE epState \in {"init", "connecting"}
  BY <1>2 DEF ReadResult, ReadCounts
<1>3. CASE epState = "refused"
  BY <1>3 DEF ReadResult, ReadCounts
<1>4. CASE epState \in {"connected", "closed"} /\ Unread <= 0
  BY <1>4 DEF ReadResult, ReadCounts
<1>5. QED
  BY <1>1, <1>2, <1>3, <1>4
(* A write of n records, as line 286 may make it, takes a prefix of v   *)
(* that fits in the zircon socket.                                       *)
LEMMA WriteFacts ==
    ASSUME TypeOK, DatagramV, Space > 0, v # <<>>, NEW n \in WriteCounts
    PROVE  /\ n \in 1..Len(v)
           /\ Len(pipeOut) + n <= PipeCap
<1> USE LoopReadAssumption DEF TypeOK, StateTyped, DatagramV, Space
<1>1. Len(v) \in Nat /\ Len(v) # 0
  BY LenProperties, EmptySeq
<1>2. CASE Proto = TCP
  BY <1>1, <1>2 DEF WriteCounts, MinNat, TCP, UDP
<1>3. CASE Proto = UDP
  BY <1>1, <1>3 DEF WriteCounts, TCP, UDP
<1>4. QED
  BY <1>2, <1>3

(* When what was handed on, followed by v, is the first r records the    *)
(* endpoint received, what was handed on is a prefix of them.           *)
LEMMA ConservedPrefix ==
    ASSUME NEW D \in Seq(Rec), NEW w \in Seq(Rec), NEW E \in Seq(Rec),
           NEW r \in 0..Len(E), D \o w = SubSeq(E, 1, r)
    PROVE  Len(D) <= Len(E) /\ D = SubSeq(E, 1, Len(D))
<1>1. SubSeq(E, 1, r) \in Seq(Rec) /\ Len(SubSeq(E, 1, r)) = r
  BY SplitSeq
<1>2. Len(D) \in 0..r
  BY <1>1, PrefixOfConcat, LenProperties
<1>3. SubSeq(D \o w, 1, Len(D)) = D
  BY ConcatPrefix
<1>4. SubSeq(SubSeq(E, 1, r), 1, Len(D)) = SubSeq(E, 1, Len(D))
  BY <1>2, PrefixOfPrefix
<1>5. QED
  BY <1>2, <1>3, <1>4

(* The flags stay Boolean. *)
LEMMA FlagsStep ==
    ASSUME FlagsTyped, [Next]_vars
    PROVE  FlagsTyped'
<1> USE DEF FlagsTyped, epVars, clientVars, closeVars
<1>1. CASE RRead
  <2>1. UNCHANGED <<epFin, inCh, outCh, incoming, clientShutRd, clientClosed,
                    closeReq, closing, handleClosed>>
    BY <1>1, Zenon DEF RRead
  <2>2. inReg' \in BOOLEAN /\ outReg' \in BOOLEAN /\ connected' \in BOOLEAN
        /\ pipeShutWr' \in BOOLEAN
    <3>1. pipeShutWr' \in BOOLEAN
      BY <1>1, Zenon DEF RRead
    <3>2. inReg' \in BOOLEAN
      BY <1>1, Zenon DEF RRead, Return
    <3>3. connected' \in BOOLEAN /\ outReg' \in BOOLEAN
      <4>1. CASE ReadResult \in {"ok", "wouldBlock", "refused"}
        <5>1. PICK k \in ReadCounts :
                IF ~connected /\ SignalFails
                THEN UNCHANGED connected /\ outReg' = FALSE
                ELSE ConnectSignal(ReadResult)
          BY <1>1, <4>1, Zenon DEF RRead, Return
        <5>2. CASE ~connected /\ SignalFails
          BY <5>1, <5>2
        <5>3. CASE connected
          BY <5>1, <5>3 DEF ConnectSignal
        <5>4. CASE ~connected /\ ~SignalFails
          <6>1. connected' = (ReadResult \in {"ok", "wouldBlock"})
                /\ outReg' = (outReg /\ ReadResult \notin {"ok", "wouldBlock"})
            BY <5>1, <5>4 DEF ConnectSignal
          <6>2. QED
            BY <6>1
        <5>5. QED
          BY <5>2, <5>3, <5>4
      <4>2. CASE ReadResult \notin {"ok", "wouldBlock", "refused"}
        BY <1>1, <4>2, Zenon DEF RRead, Return
      <4>3. QED
        BY <4>1, <4>2
    <3>4. QED
      BY <3>1, <3>2, <3>3
  <2>3. QED
    BY <2>1, <2>2, Zenon
<1>2. CASE RSelect
  <2>1. UNCHANGED <<epFin, connected, pipeShutWr, clientShutRd, clientClosed,
                    closeReq, closing, handleClosed>>
    BY <1>2, Zenon DEF RSelect
  <2>2. inReg' \in BOOLEAN /\ outReg' \in BOOLEAN /\ inCh' \in BOOLEAN
        /\ outCh' \in BOOLEAN /\ incoming' \in BOOLEAN
    BY <1>2, Zenon DEF RSelect, Return
  <2>3. QED
    BY <2>1, <2>2, Zenon
<1>3. CASE RWaitOut
  <2>1. UNCHANGED <<epFin, inCh, connected, incoming, pipeShutWr, clientShutRd,
                    clientClosed, closeReq, closing, handleClosed>>
    BY <1>3, Zenon DEF RWaitOut
  <2>2. inReg' \in BOOLEAN /\ outReg' \in BOOLEAN /\ outCh' \in BOOLEAN
    BY <1>3, Zenon DEF RWaitOut, Return
  <2>3. QED
    BY <2>1, <2>2, Zenon
<1>4. CASE RWaitIn
  <2>1. UNCHANGED <<epFin, outCh, connected, incoming, pipeShutWr, clientShutRd,
                    clientClosed, closeReq, closing, handleClosed>>
    BY <1>4, Zenon DEF RWaitIn
  <2>2. inReg' \in BOOLEAN /\ outReg' \in BOOLEAN /\ inCh' \in BOOLEAN
    BY <1>4, Zenon DEF RWaitIn, Return
  <2>3. QED
    BY <2>1, <2>2, Zenon
<1>5. CASE RWrite
  <2>1. UNCHANGED <<epFin, inCh, outCh, connected, incoming, pipeShutWr, clientShutRd,
                    clientClosed, closeReq, closing, handleClosed>>
    BY <1>5, Zenon DEF RWrite
  <2>2. inReg' \in BOOLEAN /\ outReg' \in BOOLEAN
    BY <1>5, Zenon DEF RWrite, Return
  <2>3. QED
    BY <2>1, <2>2, Zenon
<1>6. CASE RWWait
  <2>1. UNCHANGED <<epFin, inCh, outCh, connected, incoming, pipeShutWr, clientShutRd,
                    clientClosed, closeReq, closing, handleClosed>>
    BY <1>6, Zenon DEF RWWait
  <2>2. inReg' \in BOOLEAN /\ outReg' \in BOOLEAN
    BY <1>6, Zenon DEF RWWait, Return
  <2>3. QED
    BY <2>1, <2>2, Zenon
<1>7. CASE ClientConnect  BY <1>7, Zenon DEF ClientConnect
<1>8. CASE EpEstablish  BY <1>8, Zenon DEF EpEstablish
<1>9. CASE EpRefuse  BY <1>9, Zenon DEF EpRefuse
<1>10. CASE EpFin  BY <1>10, Zenon DEF EpFin
<1>11. CASE \E s \in Sources : EpArrive(s)  BY <1>11, Zenon DEF EpArrive
<1>12. CASE ClientRead  BY <1>12, Zenon DEF ClientRead
<1>13. CASE ClientShutRd  BY <1>13, Zenon DEF ClientShutRd
<1>14. CASE ClientCloseRequest  BY <1>14, Zenon DEF ClientCloseRequest
<1>15. CASE ClientCloseHandle  BY <1>15, Zenon DEF ClientCloseHandle
<1>16. CASE CloseBegin  BY <1>16, Zenon DEF CloseBegin
<1>17. CASE CloseEndpoint  BY <1>17, Zenon DEF CloseEndpoint
<1>18. CASE ControlExit  BY <1>18, Zenon DEF ControlExit
<1>19. CASE Terminated \/ UNCHANGED vars  BY <1>19 DEF Terminated, vars
<1>20. QED
  BY <1>1, <1>2, <1>3, <1>4, <1>5, <1>6, <1>7, <1>8, <1>9, <1>10, <1>11,
     <1>12, <1>13, <1>14, <1>15, <1>16, <1>17, <1>18, <1>19 DEF Next

(* The positions, counters and sequences keep their types, and the      *)
(* zircon socket its capacity: a Read returns at most what is unread, a *)
(* datagram Read one datagram, and a Write at most what fits.           *)
LEMMA StateStep ==
    ASSUME TypeOK, VPending, DatagramV, FinState, [Next]_vars
    PROVE  StateTyped'
<1> USE LoopReadAssumption DEF TypeOK, StateTyped, epVars, clientVars,
        closeVars
<1>1. CASE RRead
  <2>1. CASE ReadResult = "closedRcv"
    BY <1>1, <2>1 DEF RRead, Return
  <2>2. CASE ReadResult = "invalid"
    BY <1>1, <2>2 DEF RRead
  <2>3. CASE ReadResult \in {"ok", "wouldBlock", "refused"}
    <3>1. PICK k \in ReadCounts :
            /\ readN' = readN + k
            /\ IF ~connected /\ SignalFails
               THEN /\ v' = <<>> /\ Return /\ UNCHANGED <<connected, connSig>>
               ELSE /\ ConnectSignal(ReadResult)
                    /\ v' = SubSeq(epArrived, readN + 1, readN + k)
                    /\ rpc' = AfterRead(ReadResult)
                    /\ inReg' = (rpc' # "write")
      BY <1>1, <2>3 DEF RRead
    <3>2. k \in 0..(Len(epArrived) - readN)
      <4>1. CASE ReadResult = "ok"
        BY <4>1, ReadFacts DEF Unread
      <4>2. CASE ReadResult # "ok"
        BY <4>2, ReadFacts DEF Unread
      <4>3. QED
        BY <4>1, <4>2
    <3>3. SubSeq(epArrived, readN + 1, readN + k) \in Seq(Rec)
      <4>1. readN + 1 \in 1..Len(epArrived) + 1
            /\ readN + k \in (readN + 1) - 1..Len(epArrived)
        BY <3>2
      <4>2. QED
        BY <4>1, SubSeqProperties
    <3>4. UNCHANGED <<epState, epArrived, estab, connects, pipeOut, clientGot,
                      cpc>>
      BY <1>1 DEF RRead
    <3>5. readN' \in 0..Len(epArrived')
      BY <3>1, <3>2, <3>4
    <3>6. CASE ~connected /\ SignalFails
      BY <3>1, <3>4, <3>5, <3>6, EmptySeq DEF Return
    <3>7. CASE ~(~connected /\ SignalFails)
      <4>1. /\ ConnectSignal(ReadResult)
            /\ v' = SubSeq(epArrived, readN + 1, readN + k)
            /\ rpc' = AfterRead(ReadResult)
        BY <3>1, <3>7, Zenon
      <4>2. rpc' \in {"write", "waitOut", "waitIn"}
        <5>1. CASE ReadResult = "ok"  BY <4>1, <5>1 DEF AfterRead
        <5>2. CASE ReadResult = "refused"  BY <4>1, <5>2 DEF AfterRead
        <5>3. CASE ReadResult = "wouldBlock"  BY <4>1, <5>3 DEF AfterRead
        <5>4. QED  BY <2>3, <5>1, <5>2, <5>3
      <4>3. connSig' \in Nat
        BY <4>1 DEF ConnectSignal
      <4>4. QED
        BY <3>3, <3>4, <3>5, <4>1, <4>2, <4>3
    <3>8. QED
      BY <3>6, <3>7
  <2>4. QED
    BY <1>1, <2>1, <2>2, <2>3 DEF RRead
<1>2. CASE RSelect
  BY <1>2 DEF RSelect, Return
<1>3. CASE RWaitOut
  BY <1>3 DEF RWaitOut, Return
<1>4. CASE RWaitIn
  BY <1>4 DEF RWaitIn, Return
<1>5. CASE RWrite
  <2>1. ASSUME NEW n \in WriteCounts, Space > 0
        PROVE  /\ pipeOut \o SubSeq(v, 1, n) \in Seq(Rec)
               /\ Len(pipeOut \o SubSeq(v, 1, n)) <= PipeCap
               /\ RestAfterWrite(n) \in Seq(Rec)
    <3>1. v # <<>>
      BY <1>5 DEF RWrite, VPending
    <3>2. n \in 1..Len(v) /\ Len(pipeOut) + n <= PipeCap
      BY <2>1, <3>1, WriteFacts
    <3>3. SubSeq(v, 1, n) \in Seq(Rec) /\ Len(SubSeq(v, 1, n)) = n
          /\ RestAfterWrite(n) \in Seq(Rec)
      BY <3>2, SplitSeq DEF RestAfterWrite
    <3>4. QED
      BY <3>2, <3>3, ConcatProperties
  <2>2. QED
    BY <1>5, <2>1 DEF RWrite, Return
<1>6. CASE RWWait
  BY <1>6 DEF RWWait, Return
<1>7. CASE ClientConnect
  BY <1>7 DEF ClientConnect
<1>8. CASE EpEstablish
  BY <1>8 DEF EpEstablish
<1>9. CASE EpRefuse
  BY <1>9 DEF EpRefuse
<1>10. CASE EpFin
  BY <1>10 DEF EpFin
<1>11. CASE \E s \in Sources : EpArrive(s)
  <2>1. PICK s \in Sources : EpArrive(s)
    BY <1>11
  <2>2. [seq |-> Len(epArrived) + 1, from |-> s] \in Rec
    BY <2>1 DEF EpArrive, Rec, Sources
  <2>3. QED
    BY <2>1, <2>2, AppendProperties DEF EpArrive
<1>12. CASE ClientRead
  BY <1>12, HeadTailProperties, AppendProperties DEF ClientRead
<1>13. CASE ClientShutRd
  BY <1>13 DEF ClientShutRd
<1>14. CASE ClientCloseRequest
  BY <1>14 DEF ClientCloseRequest
<1>15. CASE ClientCloseHandle
  BY <1>15 DEF ClientCloseHandle
<1>16. CASE CloseBegin
  BY <1>16 DEF CloseBegin
<1>17. CASE CloseEndpoint
  BY <1>17 DEF CloseEndpoint
<1>18. CASE ControlExit
  BY <1>18 DEF ControlExit
<1>19. CASE Terminated \/ UNCHANGED vars
  BY <1>19 DEF Terminated, vars
<1>20. QED
  BY <1>1, <1>2, <1>3, <1>4, <1>5, <1>6, <1>7, <1>8, <1>9, <1>10, <1>11,
     <1>12, <1>13, <1>14, <1>15, <1>16, <1>17, <1>18, <1>19 DEF Next

(* The connect signalling keeps its invariants: loopRead's connected    *)
(* flag is set only by a Read of a connected (or closed, data-holding)   *)
(* endpoint, CONNECTED is asserted exactly once when it is set, and the  *)
(* panic of line 202 is unreachable because an endpoint loopRead saw     *)
(* connected never returns to init or connecting.                       *)
LEMMA ConnectStep ==
    ASSUME TypeOK, ConnectedState, SignalCount, EstabSeen, FinState,
           DatagramConnected, NoReadPanic, [Next]_vars
    PROVE  (ConnectedState /\ SignalCount /\ EstabSeen /\ FinState
              /\ DatagramConnected /\ NoReadPanic)'
<1> USE LoopReadAssumption DEF TypeOK, StateTyped, FlagsTyped, epVars,
        clientVars, closeVars
<1> DEFINE CInv == ConnectedState /\ SignalCount /\ EstabSeen /\ FinState
                    /\ DatagramConnected
<1>0. ASSUME UNCHANGED <<connected, epState, connSig, estab, epArrived, epFin>>,
             rpc' # "crashed"
      PROVE  CInv' /\ NoReadPanic'
  BY <1>0 DEF ConnectedState, SignalCount, EstabSeen, FinState,
     DatagramConnected, NoReadPanic
<1>1. CASE RRead
  <2>1. UNCHANGED <<epState, estab, epArrived, epFin>>
    BY <1>1 DEF RRead
  <2>2. CASE ReadResult = "closedRcv"
    BY <1>0, <1>1, <2>1, <2>2 DEF RRead, Return
  <2>3. CASE ReadResult = "invalid"
    <3>1. ~connected
      BY <2>3, ReadFacts DEF ConnectedState
    <3>2. QED
      BY <1>0, <1>1, <2>1, <2>3, <3>1 DEF RRead
  <2>4. CASE ReadResult \in {"ok", "wouldBlock", "refused"}
    <3>1. PICK k \in ReadCounts :
            IF ~connected /\ SignalFails
            THEN UNCHANGED <<connected, connSig>> /\ rpc' = "done"
            ELSE ConnectSignal(ReadResult) /\ rpc' = AfterRead(ReadResult)
      BY <1>1, <2>4, Zenon DEF RRead, Return
    <3>2. CASE connected \/ SignalFails
      <4>1. UNCHANGED <<connected, connSig>>
        BY <3>1, <3>2 DEF ConnectSignal
      <4>2. rpc' # "crashed"
        BY <3>1, <2>4 DEF AfterRead
      <4>3. QED
        BY <1>0, <2>1, <4>1, <4>2
    <3>3. CASE ~connected /\ ~SignalFails
      <4>1. /\ connected' = (ReadResult \in {"ok", "wouldBlock"})
            /\ connSig' = IF ReadResult \in {"ok", "wouldBlock"}
                          THEN connSig + 1 ELSE connSig
            /\ rpc' = AfterRead(ReadResult)
        BY <3>1, <3>3 DEF ConnectSignal
      <4>2. Proto = TCP /\ connSig = 0
        BY <3>3 DEF DatagramConnected, SignalCount, TCP, UDP
      <4>3. ReadResult \in {"ok", "wouldBlock"}
              => epState \in {"connected", "closed"} /\ estab >= 1
        <5>1. CASE ReadResult = "ok"
          <6>1. epArrived # <<>>
            BY <5>1, ReadFacts DEF Unread
          <6>2. QED
            BY <4>2, <5>1, <6>1, ReadFacts DEF EstabSeen
        <5>2. CASE ReadResult = "wouldBlock"
          BY <4>2, <5>2, ReadFacts DEF EstabSeen
        <5>3. QED
          BY <5>1, <5>2
      <4>4. rpc' # "crashed"
        <5>1. CASE ReadResult = "ok"  BY <4>1, <5>1 DEF AfterRead
        <5>2. CASE ReadResult = "refused"  BY <4>1, <5>2 DEF AfterRead
        <5>3. CASE ReadResult = "wouldBlock"  BY <4>1, <5>3 DEF AfterRead
        <5>4. QED  BY <2>4, <5>1, <5>2, <5>3
      <4>5. ConnectedState' /\ FinState' /\ DatagramConnected'
        <5>1. ConnectedState'
          BY <2>1, <4>1, <4>3, Zenon DEF ConnectedState
        <5>2. FinState'
          BY <2>1 DEF FinState
        <5>3. DatagramConnected'
          BY <4>2 DEF DatagramConnected, TCP, UDP
        <5>4. QED
          BY <5>1, <5>2, <5>3
      <4>6. SignalCount'
        <5>1. CASE ReadResult \in {"ok", "wouldBlock"}
          <6>1. connected' /\ connSig' = 1
            <7>1. connected'
              BY <4>1, <5>1, Zenon
            <7>2. connSig' = 1
              BY <4>1, <4>2, <5>1
            <7>3. QED
              BY <7>1, <7>2
          <6>2. QED
            BY <4>2, <6>1 DEF SignalCount
        <5>2. CASE ReadResult \notin {"ok", "wouldBlock"}
          <6>1. ~connected' /\ connSig' = 0
            <7>1. ~connected'
              BY <4>1, <5>2, Zenon
            <7>2. connSig' = 0
              BY <4>1, <4>2, <5>2
            <7>3. QED
              BY <7>1, <7>2
          <6>2. QED
            BY <6>1 DEF SignalCount
        <5>3. QED
          BY <5>1, <5>2
      <4>7. EstabSeen'
        BY <2>1, <4>1, <4>3, Zenon DEF EstabSeen
      <4>8. QED
        BY <4>4, <4>5, <4>6, <4>7 DEF NoReadPanic
    <3>4. QED
      BY <3>2, <3>3
  <2>5. QED
    BY <1>1, <2>2, <2>3, <2>4 DEF RRead
<1>2. ASSUME UNCHANGED <<connected, epState, connSig, estab, epArrived, epFin>>,
             rpc' \in {"read", "write", "wwait", "done"}
      PROVE  CInv' /\ NoReadPanic'
  BY <1>0, <1>2
<1>11. CASE RSelect
  BY <1>2, <1>11 DEF RSelect, Return
<1>12. CASE RWaitOut
  BY <1>2, <1>12 DEF RWaitOut, Return
<1>13. CASE RWaitIn
  BY <1>2, <1>13 DEF RWaitIn, Return
<1>14. CASE RWrite
  BY <1>2, <1>14 DEF RWrite, Return
<1>15. CASE RWWait
  BY <1>2, <1>15 DEF RWWait, Return
<1>3. CASE ClientConnect
  BY <1>3 DEF ClientConnect, ConnectedState, SignalCount, EstabSeen, FinState,
     DatagramConnected, NoReadPanic
<1>4. CASE EpEstablish
  BY <1>4 DEF EpEstablish, ConnectedState, SignalCount, EstabSeen, FinState,
     DatagramConnected, NoReadPanic
<1>5. CASE EpRefuse
  BY <1>5 DEF EpRefuse, ConnectedState, SignalCount, EstabSeen, FinState,
     DatagramConnected, NoReadPanic
<1>6. CASE EpFin
  BY <1>6 DEF EpFin, ConnectedState, SignalCount, EstabSeen, FinState,
     DatagramConnected, NoReadPanic
<1>7. CASE \E s \in Sources : EpArrive(s)
  BY <1>7 DEF EpArrive, ConnectedState, SignalCount, EstabSeen, FinState,
     DatagramConnected, NoReadPanic
<1>8. CASE CloseEndpoint
  BY <1>8 DEF CloseEndpoint, ConnectedState, SignalCount, EstabSeen, FinState,
     DatagramConnected, NoReadPanic
<1>9. ASSUME UNCHANGED <<connected, epState, connSig, estab, epArrived, epFin,
                           rpc>>
      PROVE  CInv' /\ NoReadPanic'
  BY <1>0, <1>9 DEF NoReadPanic
<1>16. CASE ClientRead  BY <1>9, <1>16 DEF ClientRead
<1>17. CASE ClientShutRd  BY <1>9, <1>17 DEF ClientShutRd
<1>18. CASE ClientCloseRequest  BY <1>9, <1>18 DEF ClientCloseRequest
<1>19. CASE ClientCloseHandle  BY <1>9, <1>19 DEF ClientCloseHandle
<1>20. CASE CloseBegin  BY <1>9, <1>20 DEF CloseBegin
<1>21. CASE ControlExit  BY <1>9, <1>21 DEF ControlExit
<1>22. CASE Terminated \/ UNCHANGED vars  BY <1>9, <1>22 DEF Terminated, vars
<1>10. QED
  BY <1>1, <1>3, <1>4, <1>5, <1>6, <1>7, <1>8, <1>11, <1>12, <1>13, <1>14,
     <1>15, <1>16, <1>17, <1>18, <1>19, <1>20, <1>21, <1>22 DEF Next

(* The stream invariants: until loopRead returns, what the client read, *)
(* what is in the zircon socket and v are, in that order, exactly what   *)
(* Read returned; v is empty between write-outs and holds one datagram  *)
(* at most; and the read direction is shut down only after the last     *)
(* record was handed on.                                                 *)
LEMMA StreamStep ==
    ASSUME TypeOK, VAtRest, VPending, DatagramV, Conserved, DeliveredPrefix,
           EOFDone, FinState, [Next]_vars, TypeOK'
    PROVE  (VAtRest /\ VPending /\ DatagramV /\ Conserved /\ DeliveredPrefix
              /\ EOFDone)'
<1>a. StateTyped
  BY DEF TypeOK
<1> USE LoopReadAssumption, <1>a DEF StateTyped, epVars, clientVars, closeVars
<1> DEFINE SInv == VAtRest /\ VPending /\ DatagramV /\ Conserved
                    /\ DeliveredPrefix /\ EOFDone
<1>0. ASSUME UNCHANGED <<rpc, v, epArrived, readN, pipeShutWr>>,
             Delivered' = Delivered,
             pipeShutWr => epFin' \/ epState' = "closed"
      PROVE  SInv'
  BY <1>0 DEF VAtRest, VPending, DatagramV, Conserved, DeliveredPrefix,
     EOFDone
\* Before loopRead returns, the read direction is not shut down.
<1>1. rpc # "done" => ~pipeShutWr
  BY DEF EOFDone
<1>2. CASE RRead
  <2>1. UNCHANGED <<epArrived, epFin, epState, clientGot, pipeOut>>
    BY <1>2 DEF RRead
  <2>2. v = <<>> /\ Delivered = SubSeq(epArrived, 1, readN)
        /\ Delivered \in Seq(Rec)
    BY <1>2, ConcatEmptySeq, ConcatProperties DEF RRead, VAtRest, Conserved,
       Delivered
  <2>3. CASE ReadResult = "closedRcv"
    <3>1. readN = Len(epArrived) /\ (epFin \/ epState = "closed")
      BY <2>3, ReadFacts
    <3>2. Delivered = epArrived
      BY <2>2, <3>1, SubSeqFull
    <3>3. rpc' = "done" /\ UNCHANGED <<v, readN>>
      BY <1>2, <2>3 DEF RRead, Return
    <3>4. QED
      BY <2>1, <3>1, <3>2, <3>3 DEF VAtRest, VPending, DatagramV, Conserved,
         DeliveredPrefix, EOFDone, Delivered
  <2>4. CASE ReadResult = "invalid"
    <3>1. rpc' \in {"select", "crashed"} /\ UNCHANGED <<v, readN, pipeShutWr>>
      BY <1>2, <2>4 DEF RRead
    <3>2. QED
      BY <1>1, <1>2, <2>1, <2>2, <3>1 DEF RRead, VAtRest, VPending, DatagramV,
         Conserved, DeliveredPrefix, EOFDone, Delivered
  <2>5. CASE ReadResult \in {"ok", "wouldBlock", "refused"}
    <3>1. PICK k \in ReadCounts :
            /\ readN' = readN + k
            /\ IF ~connected /\ SignalFails
               THEN v' = <<>> /\ rpc' = "done"
               ELSE /\ v' = SubSeq(epArrived, readN + 1, readN + k)
                    /\ rpc' = AfterRead(ReadResult)
      BY <1>2, <2>5, Zenon DEF RRead, Return
    <3>2. pipeShutWr' = pipeShutWr /\ ~pipeShutWr
      BY <1>1, <1>2, <2>5 DEF RRead
    <3>3. CASE ~connected /\ SignalFails
      BY <2>1, <2>2, <3>1, <3>2, <3>3 DEF VAtRest, VPending, DatagramV,
         Conserved, DeliveredPrefix, EOFDone, Delivered
    <3>4. CASE ~(~connected /\ SignalFails)
      <4>1. v' = SubSeq(epArrived, readN + 1, readN + k)
            /\ rpc' = AfterRead(ReadResult)
        BY <3>1, <3>4
      <4>2. k \in 0..(Len(epArrived) - readN)
        <5>1. CASE ReadResult = "ok"
          BY <5>1, ReadFacts DEF Unread
        <5>2. CASE ReadResult # "ok"
          BY <5>2, ReadFacts DEF Unread
        <5>3. QED
          BY <5>1, <5>2
      <4>3. Len(v') = k
        <5>1. readN + 1 \in 1..Len(epArrived) + 1
              /\ readN + k \in (readN + 1) - 1..Len(epArrived)
          BY <4>2
        <5>2. QED
          BY <4>1, <4>2, <5>1, SubSeqProperties
      <4>4. VAtRest' /\ VPending' /\ DatagramV'
        <5>1. CASE ReadResult = "ok"
          <6>1. rpc' = "write" /\ k >= 1 /\ (Proto = UDP => k = 1)
            BY <4>1, <5>1, ReadFacts DEF AfterRead
          <6>2. QED
            BY <4>3, <6>1, EmptySeq DEF VAtRest, VPending, DatagramV
        <5>2. CASE ReadResult # "ok"
          <6>1. rpc' \in {"waitOut", "waitIn"} /\ k = 0
            BY <2>5, <4>1, <5>2, ReadFacts DEF AfterRead
          <6>2. QED
            BY <4>3, <6>1, EmptySeq DEF VAtRest, VPending, DatagramV
        <5>3. QED
          BY <5>1, <5>2
      <4>5. Conserved'
        <5>1. SubSeq(epArrived, 1, readN) \o SubSeq(epArrived, readN + 1, readN + k)
                = SubSeq(epArrived, 1, readN + k)
          BY <4>2, ExtendPrefix
        <5>2. QED
          BY <2>1, <2>2, <3>1, <4>1, <5>1 DEF Conserved, Delivered
      <4>6. QED
        BY <2>1, <3>2, <4>4, <4>5 DEF DeliveredPrefix, EOFDone, Delivered
    <3>5. QED
      BY <3>3, <3>4
  <2>6. QED
    BY <1>2, <2>3, <2>4, <2>5 DEF RRead
<1>3. CASE RSelect \/ RWaitOut \/ RWaitIn
  <2>1. rpc \in {"select", "waitOut", "waitIn"} /\ rpc' \in {"read", "done"}
    BY <1>3 DEF RSelect, RWaitOut, RWaitIn, Return
  <2>2. UNCHANGED <<v, epArrived, readN, pipeShutWr, clientGot, pipeOut>>
    BY <1>3 DEF RSelect, RWaitOut, RWaitIn
  <2>3. QED
    BY <1>1, <2>1, <2>2 DEF VAtRest, VPending, DatagramV, Conserved,
       DeliveredPrefix, EOFDone, Delivered
<1>4. CASE RWWait
  <2>1. rpc = "wwait" /\ rpc' \in {"write", "done"}
    BY <1>4 DEF RWWait, Return
  <2>2. UNCHANGED <<v, epArrived, readN, pipeShutWr, clientGot, pipeOut>>
    BY <1>4 DEF RWWait
  <2>3. QED
    BY <1>1, <2>1, <2>2 DEF VAtRest, VPending, DatagramV, Conserved,
       DeliveredPrefix, EOFDone, Delivered
<1>5. CASE RWrite
  <2>1. rpc = "write" /\ v # <<>> /\ ~pipeShutWr
    BY <1>1, <1>5 DEF RWrite, VPending
  <2>2. UNCHANGED <<epArrived, readN, pipeShutWr, clientGot>>
    BY <1>5 DEF RWrite
  <2>3. CASE handleClosed \/ clientClosed \/ clientShutRd
    <3>1. rpc' = "done" /\ UNCHANGED <<v, pipeOut>>
      BY <1>5, <2>3 DEF RWrite, Return
    <3>2. QED
      BY <2>1, <2>2, <3>1 DEF VAtRest, VPending, DatagramV, Conserved,
         DeliveredPrefix, EOFDone, Delivered
  <2>4. CASE ~handleClosed /\ ~clientClosed /\ ~clientShutRd /\ Space > 0
    <3>1. PICK n \in WriteCounts :
            /\ pipeOut' = pipeOut \o SubSeq(v, 1, n)
            /\ v' = RestAfterWrite(n)
            /\ IF WriteOutDone(RestAfterWrite(n))
               THEN rpc' = "read"
               ELSE rpc' = rpc
      <4>1. \E n \in WriteCounts :
                /\ pipeOut' = pipeOut \o SubSeq(v, 1, n)
                /\ v' = RestAfterWrite(n)
                /\ IF WriteOutDone(RestAfterWrite(n))
                   THEN rpc' = "read" /\ inReg' = TRUE
                   ELSE UNCHANGED <<rpc, inReg>>
        <5>1. Space # 0
          BY <2>4
        <5>2. QED
          BY <1>5, <2>4, <5>1, Zenon DEF RWrite
      <4>2. QED
        BY <4>1, Zenon
    <3>2. n \in 1..Len(v)
      BY <2>1, <2>4, WriteFacts
    <3>3. Len(v') = Len(v) - n
      BY <3>1, <3>2, SplitSeq DEF RestAfterWrite
    <3>4. VAtRest' /\ VPending' /\ DatagramV'
      <4>1. CASE v' = <<>>
        BY <2>1, <3>1, <4>1 DEF WriteOutDone, VAtRest, VPending, DatagramV
      <4>2. CASE v' # <<>>
        BY <2>1, <3>1, <3>2, <3>3, <4>2 DEF WriteOutDone, VAtRest, VPending,
           DatagramV
      <4>3. QED
        BY <4>1, <4>2
    <3>5. Conserved'
      <4>0. (clientGot \o (pipeOut \o SubSeq(v, 1, n))) \o SubSeq(v, n + 1, Len(v))
              = (clientGot \o pipeOut) \o v
        <5>1. n \in 0..Len(v)
          BY <3>2
        <5>2. SubSeq(v, 1, n) \in Seq(Rec)
              /\ SubSeq(v, n + 1, Len(v)) \in Seq(Rec)
              /\ SubSeq(v, 1, n) \o SubSeq(v, n + 1, Len(v)) = v
          BY <5>1, SplitSeq
        <5>3. (clientGot \o pipeOut) \o SubSeq(v, 1, n)
                = clientGot \o (pipeOut \o SubSeq(v, 1, n))
          BY <5>2, RecConcatAssoc
        <5>4. clientGot \o pipeOut \in Seq(Rec)
          BY ConcatProperties
        <5>5. ((clientGot \o pipeOut) \o SubSeq(v, 1, n)) \o SubSeq(v, n + 1, Len(v))
                = (clientGot \o pipeOut)
                     \o (SubSeq(v, 1, n) \o SubSeq(v, n + 1, Len(v)))
          BY <5>2, <5>4, RecConcatAssoc
        <5>6. QED
          BY <5>2, <5>3, <5>5
      <4>1. (clientGot \o pipeOut') \o v' = (clientGot \o pipeOut) \o v
        BY <2>2, <3>1, <4>0 DEF RestAfterWrite
      <4>2. QED
        BY <2>1, <2>2, <4>1 DEF Conserved, Delivered
    <3>6. DeliveredPrefix'
      <4>1. Delivered' \in Seq(Rec) /\ v' \in Seq(Rec)
        BY ConcatProperties DEF TypeOK, StateTyped, Delivered
      <4>2. Delivered' \o v' = SubSeq(epArrived', 1, readN')
        <5>1. rpc' # "done"
          BY <2>1, <3>1
        <5>2. QED
          BY <3>5, <5>1 DEF Conserved
      <4>3. QED
        BY <2>2, <4>1, <4>2, ConservedPrefix DEF DeliveredPrefix
    <3>7. QED
      BY <2>1, <2>2, <3>4, <3>5, <3>6 DEF EOFDone
  <2>5. CASE ~handleClosed /\ ~clientClosed /\ ~clientShutRd /\ Space = 0
    <3>1. rpc' = "wwait" /\ UNCHANGED <<v, pipeOut>>
      BY <1>5, <2>5 DEF RWrite, Space
    <3>2. QED
      BY <2>1, <2>2, <3>1 DEF VAtRest, VPending, DatagramV, Conserved,
         DeliveredPrefix, EOFDone, Delivered
  <2>6. QED
    BY <1>5, <2>3, <2>4, <2>5, LenProperties DEF RWrite, Space
<1>6. CASE ClientRead
  <2>1. Delivered' = Delivered
    <3>1. pipeOut # <<>> /\ clientGot' = Append(clientGot, Head(pipeOut))
          /\ pipeOut' = Tail(pipeOut)
      BY <1>6 DEF ClientRead
    <3>2. QED
      BY <3>1, HeadToEnd DEF Delivered
  <2>2. UNCHANGED <<rpc, v, epArrived, readN, pipeShutWr, epFin, epState>>
    BY <1>6 DEF ClientRead
  <2>3. QED
    BY <1>0, <2>1, <2>2 DEF EOFDone
<1>7. CASE \E s \in Sources : EpArrive(s)
  <2>1. PICK s \in Sources : EpArrive(s)
    BY <1>7
  <2>2. [seq |-> Len(epArrived) + 1, from |-> s] \in Rec
    BY <2>1 DEF EpArrive, Rec, Sources
  <2>3. epArrived' = Append(epArrived, [seq |-> Len(epArrived) + 1, from |-> s])
        /\ UNCHANGED <<rpc, v, readN, pipeShutWr, clientGot, pipeOut>>
        /\ ~pipeShutWr
    BY <2>1 DEF EpArrive, EOFDone
  <2>4. SubSeq(epArrived', 1, readN) = SubSeq(epArrived, 1, readN)
    BY <2>2, <2>3, PrefixOfAppend
  <2>5. DeliveredPrefix'
    <3>1. Len(Delivered) \in 0..Len(epArrived)
      BY ConcatProperties DEF DeliveredPrefix, Delivered
    <3>2. SubSeq(epArrived', 1, Len(Delivered))
            = SubSeq(epArrived, 1, Len(Delivered))
      BY <2>2, <2>3, <3>1, PrefixOfAppend
    <3>3. QED
      BY <2>3, <3>1, <3>2, AppendProperties DEF DeliveredPrefix, Delivered
  <2>6. QED
    BY <2>3, <2>4, <2>5 DEF VAtRest, VPending, DatagramV, Conserved, EOFDone,
       Delivered
<1>8. CASE EpFin \/ ClientConnect \/ EpEstablish \/ EpRefuse \/ CloseEndpoint
  <2>1. UNCHANGED <<rpc, v, epArrived, readN, pipeShutWr, clientGot, pipeOut>>
    BY <1>8 DEF EpFin, ClientConnect, EpEstablish, EpRefuse, CloseEndpoint
  <2>2. pipeShutWr => epFin' \/ epState' = "closed"
    BY <1>8 DEF EpFin, ClientConnect, EpEstablish, EpRefuse, CloseEndpoint,
       EOFDone, FinState
  <2>3. QED
    BY <1>0, <2>1, <2>2 DEF Delivered
<1>9. CASE ClientShutRd \/ ClientCloseRequest \/ ClientCloseHandle
             \/ CloseBegin \/ ControlExit \/ Terminated \/ UNCHANGED vars
  <2>1. UNCHANGED <<rpc, v, epArrived, readN, pipeShutWr, clientGot, pipeOut,
                    epFin, epState>>
    BY <1>9 DEF ClientShutRd, ClientCloseRequest, ClientCloseHandle,
       CloseBegin, ControlExit, Terminated, vars
  <2>2. QED
    BY <1>0, <2>1 DEF EOFDone, Delivered
<1>10. QED
  BY <1>2, <1>3, <1>4, <1>5, <1>6, <1>7, <1>8, <1>9 DEF Next


(* The initial state satisfies the inductive invariant. *)
LEMMA InitIInv == Init => IInv
<1> SUFFICES ASSUME Init PROVE IInv
  OBVIOUS
<1> USE LoopReadAssumption DEF Init
<1>1. FlagsTyped
  BY Zenon DEF FlagsTyped
<1>2. StateTyped
  BY EmptySeq DEF StateTyped, TCP, UDP
<1>3. Delivered = <<>> /\ SubSeq(epArrived, 1, readN) = <<>>
  BY EmptySeq, ConcatEmptySeq DEF Delivered
<1>4. VAtRest /\ VPending /\ Conserved /\ DeliveredPrefix /\ EOFDone
        /\ DatagramV /\ NoReadPanic
  BY <1>3, EmptySeq
     DEF VAtRest, VPending, Conserved, DeliveredPrefix, EOFDone, DatagramV,
         NoReadPanic
<1>5. ConnectedState /\ DatagramConnected /\ FinState
  BY Zenon DEF ConnectedState, DatagramConnected, FinState, TCP, UDP
<1>6. SignalCount /\ EstabSeen
  <2>1. CASE Proto = TCP
    <3>1. ~connected /\ epState = "init"
      BY <2>1, Zenon DEF TCP, UDP
    <3>2. QED
      BY <2>1, <3>1 DEF SignalCount, EstabSeen
  <2>2. CASE Proto = UDP
    BY <2>2 DEF SignalCount, EstabSeen, TCP, UDP
  <2>3. QED
    BY <2>1, <2>2
<1>7. QED
  BY <1>1, <1>2, <1>4, <1>5, <1>6 DEF IInv, TypeOK

(* IInv holds in every reachable state of loopRead, the client, the       *)
(* endpoint and Close, for every protocol and every bound.                 *)
THEOREM IInvHolds == Spec => []IInv
<1>1. Init => IInv
  BY InitIInv
<1>2. IInv /\ [Next]_vars => IInv'
  <2> SUFFICES ASSUME IInv, [Next]_vars PROVE IInv'
    OBVIOUS
  <2>1. FlagsTyped'
    BY FlagsStep DEF IInv, TypeOK
  <2>2. StateTyped'
    BY StateStep DEF IInv
  <2>3. (ConnectedState /\ SignalCount /\ EstabSeen /\ FinState
           /\ DatagramConnected /\ NoReadPanic)'
    BY ConnectStep DEF IInv
  <2>4. (VAtRest /\ VPending /\ DatagramV /\ Conserved /\ DeliveredPrefix
           /\ EOFDone)'
    BY <2>1, <2>2, StreamStep DEF IInv, TypeOK
  <2>5. QED
    BY <2>1, <2>2, <2>3, <2>4 DEF IInv, TypeOK
<1>3. QED
  BY <1>1, <1>2, PTL DEF Spec

(* The variables of loopRead and its environment keep their types. *)
THEOREM TypeCorrect == Spec => []TypeOK
BY IInvHolds, PTL DEF IInv

(* The client reads a prefix of what the endpoint received, in order:    *)
(* neither the partial writes of line 293 nor the reads of line 197 drop, *)
(* repeat or reorder a record.                                           *)
THEOREM ReadFidelityHolds == Spec => []ReadFidelity
<1>1. IInv => ReadFidelity
  <2> SUFFICES ASSUME IInv PROVE ReadFidelity
    OBVIOUS
  <2> USE DEF IInv, TypeOK, StateTyped
  <2>1. Delivered \in Seq(Rec) /\ Len(clientGot) <= Len(Delivered)
        /\ \A i \in 1..Len(clientGot) : clientGot[i] = Delivered[i]
    BY ConcatProperties, PrefixOfConcat DEF Delivered
  <2>2. Len(Delivered) <= Len(epArrived)
        /\ Delivered = SubSeq(epArrived, 1, Len(Delivered))
    BY DEF DeliveredPrefix
  <2>3. \A i \in 1..Len(Delivered) : Delivered[i] = epArrived[i]
    BY <2>1, <2>2, SubSeqProperties
  <2>4. Len(clientGot) <= Len(epArrived)
    BY <2>1, <2>2
  <2>5. \A i \in 1..Len(clientGot) : clientGot[i] = epArrived[i]
    BY <2>1, <2>3
  <2>6. QED
    BY <2>4, <2>5 DEF ReadFidelity
<1>2. QED
  BY <1>1, IInvHolds, PTL

(* loopRead shuts down the client's read direction only after the last   *)
(* record reached the zircon socket.                                     *)
THEOREM EOFAfterAllDataHolds == Spec => []EOFAfterAllData
<1>1. IInv => EOFAfterAllData
  BY DEF IInv, EOFDone, EOFAfterAllData, Delivered
<1>2. QED
  BY <1>1, IInvHolds, PTL

(* CONNECTED is asserted at most once, and only after a handshake.       *)
THEOREM ConnectedOnceHolds == Spec => []ConnectedOnce
<1>1. IInv => ConnectedOnce
  BY DEF IInv, TypeOK, StateTyped, SignalCount, EstabSeen, ConnectedOnce
<1>2. QED
  BY <1>1, IInvHolds, PTL

(* The panic of line 202 is unreachable. *)
THEOREM NoReadPanicHolds == Spec => []NoReadPanic
BY IInvHolds, PTL DEF IInv


(* loopRead, the client, the endpoint and Close implement the            *)
(* endpoint-to-client direction of SocketStream: a unit arriving at the  *)
(* endpoint is a Send, a dataHandle.Write of line 286 that takes n        *)
(* records hands on the next n, the ShutdownWrite of line 199 is an end  *)
(* of stream after the last record, loopControl's dataHandle.Close is    *)
(* the Close; every other step is a stutter.  The argument rests on IInv *)
(* in the states before and after the step (Conserved, DeliveredPrefix,  *)
(* EOFDone, VAtRest).                                                     *)
THEOREM LoopReadImplementsStream == Spec => ImplementsStream
<1>1. Init => Stream!Init
  <2> SUFFICES ASSUME Init PROVE Stream!Init
    OBVIOUS
  <2>1. clientGot \o pipeOut = <<>>
    BY ConcatEmptySeq DEF Init
  <2>2. QED
    BY <2>1 DEF Init, Stream!Init
<1>2. IInv /\ IInv' /\ [Next]_vars => [Stream!Next]_Stream!svars
  <2> SUFFICES ASSUME IInv, IInv', [Next]_vars
               PROVE  [Stream!Next]_Stream!svars
    OBVIOUS
  <2>a. StateTyped /\ StateTyped'
    BY DEF IInv, TypeOK
  <2> USE LoopReadAssumption, <2>a DEF StateTyped
  <2>0. Delivered \in Seq(Rec) /\ Delivered' \in Seq(Rec)
    BY ConcatProperties DEF Delivered
  \* A step that keeps all four mapped variables is a stutter.
  <2>s. ASSUME UNCHANGED <<epArrived, clientGot, pipeOut, pipeShutWr,
                            handleClosed>>
        PROVE  [Stream!Next]_Stream!svars
    BY <2>s DEF Stream!svars
  <2>1. ASSUME NEW s \in Sources, EpArrive(s)
        PROVE  [Stream!Next]_Stream!svars
    <3>1. [seq |-> Len(epArrived) + 1, from |-> s] \in Rec
      BY <2>1 DEF EpArrive, Rec, Sources
    <3>2. ~pipeShutWr
      BY <2>1, Zenon DEF EpArrive, IInv, EOFDone
    <3>3. Stream!Send
      BY <2>1, <3>1, <3>2 DEF EpArrive, Stream!Send, Delivered, clientVars,
         closeVars
    <3>4. QED
      BY <3>3 DEF Stream!Next
  <2>2. CASE RWrite
    <3>1. rpc = "write" /\ ~pipeShutWr
      BY <2>2 DEF RWrite, IInv, EOFDone
    <3>2. CASE ~handleClosed /\ ~clientClosed /\ ~clientShutRd /\ Space > 0
      <4>0. Space # 0
        BY <3>2
      <4>1. PICK n \in WriteCounts : pipeOut' = pipeOut \o SubSeq(v, 1, n)
        BY <2>2, <3>2, <4>0, Zenon DEF RWrite
      <4>2. n \in 1..Len(v)
        BY <3>1, <3>2, WriteFacts DEF IInv, VPending
      <4>3. SubSeq(v, 1, n) \in Seq(Rec) /\ Len(SubSeq(v, 1, n)) = n
        <5>1. n \in 0..Len(v)
          BY <4>2
        <5>2. QED
          BY <5>1, SplitSeq
      <4>4. UNCHANGED <<epArrived, readN, clientGot, pipeShutWr, handleClosed>>
        BY <2>2 DEF RWrite, epVars, clientVars, closeVars
      <4>5. Len(Delivered') = Len(Delivered) + n
        BY <4>1, <4>3, <4>4, ConcatProperties DEF Delivered
      <4>6. Len(Delivered) + Len(v) = readN /\ readN <= Len(epArrived)
        <5>1. Delivered \o v = SubSeq(epArrived, 1, readN)
          BY <3>1 DEF IInv, Conserved
        <5>2. Len(SubSeq(epArrived, 1, readN)) = readN
          BY SubSeqProperties
        <5>3. Len(Delivered \o v) = Len(Delivered) + Len(v)
          BY <2>0, ConcatProperties
        <5>4. QED
          BY <5>1, <5>2, <5>3
      <4>7. Delivered' = SubSeq(epArrived, 1, Len(Delivered'))
        BY <4>4 DEF IInv, DeliveredPrefix
      <4>8. Stream!Deliver
        <5>1. n \in 1..(Len(epArrived) - Len(Delivered))
          BY <4>2, <4>6
        <5>2. clientGot' \o pipeOut'
                = SubSeq(epArrived, 1, Len(clientGot \o pipeOut) + n)
          BY <4>5, <4>7 DEF Delivered
        <5>3. QED
          BY <3>1, <3>2, <4>4, <5>1, <5>2 DEF Stream!Deliver, Delivered
      <4>9. QED
        BY <4>8 DEF Stream!Next
    <3>3. CASE ~(~handleClosed /\ ~clientClosed /\ ~clientShutRd /\ Space > 0)
      <4>1. UNCHANGED <<epArrived, clientGot, pipeOut, pipeShutWr, handleClosed>>
        BY <2>2, <3>3 DEF RWrite, epVars, clientVars, closeVars
      <4>2. QED
        BY <4>1, <2>s
    <3>4. QED
      BY <3>2, <3>3
  <2>3. CASE RRead
    <3>1. rpc = "read" /\ ~pipeShutWr
      BY <2>3 DEF RRead, IInv, EOFDone
    <3>2. UNCHANGED <<epArrived, clientGot, pipeOut, handleClosed>>
      BY <2>3 DEF RRead, clientVars, closeVars
    <3>3. CASE ReadResult = "closedRcv" /\ ~handleClosed
      <4>1. pipeShutWr' = TRUE
        <5>1. ReadResult # "invalid" /\ ReadResult \notin {"ok", "wouldBlock", "refused"}
          BY <3>3
        <5>2. QED
          BY <2>3, <3>3, <5>1, Zenon DEF RRead
      <4>2. Unread = 0
        BY <3>3 DEF ReadResult
      <4>3. v = <<>>
        BY <3>1 DEF IInv, VAtRest
      <4>4. Delivered = SubSeq(epArrived, 1, readN)
        BY <3>1, <4>3, ConcatEmptySeq DEF IInv, Conserved
      <4>5. Delivered = epArrived
        BY <4>2, <4>4 DEF Unread
      <4>6. Stream!End
        BY <3>1, <3>2, <3>3, <4>1, <4>5 DEF Stream!End, Delivered
      <4>7. QED
        BY <4>6 DEF Stream!Next
    <3>4. CASE ~(ReadResult = "closedRcv" /\ ~handleClosed)
      <4>1. pipeShutWr' = pipeShutWr
        <5>1. CASE ReadResult = "closedRcv"
          <6>1. ReadResult # "invalid" /\ ReadResult \notin {"ok", "wouldBlock", "refused"}
            BY <5>1
          <6>2. pipeShutWr' = ~handleClosed
            BY <2>3, <5>1, <6>1, Zenon DEF RRead
          <6>3. QED
            BY <3>1, <3>4, <5>1, <6>2, Zenon DEF IInv, TypeOK, FlagsTyped
        <5>2. CASE ReadResult # "closedRcv"
          BY <2>3, <5>2, Zenon DEF RRead
        <5>3. QED
          BY <5>1, <5>2
      <4>2. QED
        BY <3>2, <4>1, <2>s
    <3>5. QED
      BY <3>3, <3>4
  <2>4. CASE ClientRead
    <3>1. pipeOut # <<>> /\ clientGot' = Append(clientGot, Head(pipeOut))
          /\ pipeOut' = Tail(pipeOut)
      BY <2>4 DEF ClientRead
    <3>2. Delivered' = Delivered
      BY <3>1, HeadToEnd DEF Delivered
    <3>3. UNCHANGED <<epArrived, pipeShutWr, handleClosed>>
      BY <2>4 DEF ClientRead, epVars, closeVars
    <3>4. QED
      BY <3>2, <3>3 DEF Stream!svars, Delivered
  <2>5. CASE ControlExit
    <3>1. Stream!Close
      BY <2>5 DEF ControlExit, Stream!Close, Delivered, epVars, clientVars
    <3>2. QED
      BY <3>1 DEF Stream!Next
  <2>6. CASE \/ RSelect \/ RWaitOut \/ RWaitIn \/ RWWait
             \/ ClientConnect \/ EpEstablish \/ EpRefuse \/ EpFin
             \/ ClientShutRd \/ ClientCloseRequest \/ ClientCloseHandle
             \/ CloseBegin \/ CloseEndpoint \/ Terminated
    <3>1. UNCHANGED <<epArrived, clientGot, pipeOut, pipeShutWr, handleClosed>>
      BY <2>6 DEF RSelect, RWaitOut, RWaitIn, RWWait, ClientConnect,
         EpEstablish, EpRefuse, EpFin, ClientShutRd, ClientCloseRequest,
         ClientCloseHandle, CloseBegin, CloseEndpoint, Terminated, vars,
         epVars, clientVars, closeVars
    <3>2. QED
      BY <3>1, <2>s
  <2>7. CASE UNCHANGED vars
    BY <2>7, <2>s DEF vars
  <2>8. QED
    BY <2>1, <2>2, <2>3, <2>4, <2>5, <2>6, <2>7 DEF Next
<1>3. QED
  BY <1>1, <1>2, IInvHolds, PTL DEF Spec, ImplementsStream, Stream!Spec


=============================================================================
