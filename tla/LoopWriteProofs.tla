-------------------------- MODULE LoopWriteProofs --------------------------
(***************************************************************************)
(* Proofs about LoopWrite for every protocol, capacity and bound: the type *)
(* invariant, that the endpoint receives exactly a prefix of the client's  *)
(* stream, and that a loopWrite which returns normally has drained it.     *)
(***************************************************************************)
EXTENDS LoopWrite, SequenceLemmas, SequenceTheorems, TLAPS

(* Concatenation of records is associative. *)
LEMMA RecConcatAssoc ==
    \A s, t, u \in Seq(Rec) : (s \o t) \o u = s \o (t \o u)
BY ConcatAssociative

(* What Conserved says when loopWrite has not failed: the endpoint has a *)
(* prefix of the client's stream.                                        *)
LEMMA ConservedFidelity ==
    ASSUME TypeOK, epSent \o buf \o pipeIn = clientSent
    PROVE  StreamFidelity
<1> USE DEF TypeOK, StateTyped
<1>1. epSent \o buf \o pipeIn = epSent \o (buf \o pipeIn)
  BY RecConcatAssoc
<1>2. buf \o pipeIn \in Seq(Rec)
  BY ConcatProperties
<1>3. QED
  BY <1>1, <1>2, PrefixOfConcat DEF StreamFidelity

(* Cutting loopWrite's buffer (or the socket) after n records and moving *)
(* the first part to the endpoint (or to the buffer) keeps the stream.    *)
LEMMA MoveKeepsStream ==
    ASSUME NEW a \in Seq(Rec), NEW b \in Seq(Rec), NEW n \in 0..Len(b)
    PROVE  (a \o SubSeq(b, 1, n)) \o SubSeq(b, n + 1, Len(b)) = a \o b
<1>1. SubSeq(b, 1, n) \in Seq(Rec) /\ SubSeq(b, n + 1, Len(b)) \in Seq(Rec)
      /\ SubSeq(b, 1, n) \o SubSeq(b, n + 1, Len(b)) = b
  BY SplitSeq
<1>2. (a \o SubSeq(b, 1, n)) \o SubSeq(b, n + 1, Len(b))
         = a \o (SubSeq(b, 1, n) \o SubSeq(b, n + 1, Len(b)))
  BY <1>1, RecConcatAssoc
<1>3. QED
  BY <1>1, <1>2

(* The records loopWrite handles keep their type. *)
LEMMA RecordsTyped ==
    ASSUME StateTyped
    PROVE  /\ ReadCount \in 1..Len(pipeIn) \/ pipeIn = <<>>
           /\ WriteCounts \subseteq 0..Len(buf)
           /\ \A a \in ClientDests :
                 [seq |-> Len(clientSent) + 1, to |-> a] \in Rec
                    \/ Len(clientSent) >= MaxWrites
<1> USE ConstAssumption DEF StateTyped
<1>1. ReadCount \in 1..Len(pipeIn) \/ pipeIn = <<>>
  BY EmptySeq DEF ReadCount, MinNat
<1>2. WriteCounts \subseteq 0..Len(buf)
  BY DEF WriteCounts, MinNat
<1>3. \A a \in ClientDests :
         [seq |-> Len(clientSent) + 1, to |-> a] \in Rec
            \/ Len(clientSent) >= MaxWrites
  BY DEF ClientDests, Rec
<1>4. QED
  BY <1>1, <1>2, <1>3

(* The variables keep their types, whatever the protocol, the capacities *)
(* of the socket and of the send buffer, and the number of writes.       *)
LEMMA TypeCorrect == Spec => []TypeOK
<1>1. Init => TypeOK
  <2> SUFFICES ASSUME Init PROVE TypeOK
    OBVIOUS
  <2>1. FlagsTyped
    BY Zenon DEF Init, FlagsTyped
  <2>2. StateTyped
    BY ConstAssumption DEF Init, StateTyped
  <2>3. QED
    BY <2>1, <2>2 DEF TypeOK
<1>2. TypeOK /\ [Next]_vars => TypeOK'
  <2> SUFFICES ASSUME TypeOK, [Next]_vars PROVE TypeOK'
    OBVIOUS
  <2>1. FlagsTyped'
    <3> USE DEF TypeOK, FlagsTyped, clientVars, writerVars, epVars
    <3>1. CASE \E a \in ClientDests : ClientWrite(a)
      BY <3>1, Zenon DEF ClientWrite
    <3>2. CASE ClientShutdown  BY <3>2, Zenon DEF ClientShutdown
    <3>3. CASE ClientCloseRequest  BY <3>3, Zenon DEF ClientCloseRequest
    <3>4. CASE ClientCloseHandle  BY <3>4, Zenon DEF ClientCloseHandle
    <3>5. CASE WRead  BY <3>5, Zenon DEF WRead, Finish
    <3>6. CASE WWait  BY <3>6, Zenon DEF WWait, Finish
    <3>7. CASE WWrite  BY <3>7, Zenon DEF WWrite, Finish
    <3>8. CASE WWaitRes  BY <3>8, Zenon DEF WWaitRes
    <3>9. CASE WWaitOut  BY <3>9, Zenon DEF WWaitOut
    <3>10. CASE EpDrain  BY <3>10, Zenon DEF EpDrain
    <3>11. CASE EpFail  BY <3>11, Zenon DEF EpFail
    <3>12. CASE CloseBegin  BY <3>12, Zenon DEF CloseBegin
    <3>13. CASE CloseJoin  BY <3>13, Zenon DEF CloseJoin
    <3>14. CASE Terminated  BY <3>14, Zenon DEF Terminated, vars
    <3>15. CASE UNCHANGED vars  BY <3>15, Zenon DEF vars
    <3>16. QED
      BY <3>1, <3>2, <3>3, <3>4, <3>5, <3>6, <3>7, <3>8, <3>9, <3>10,
         <3>11, <3>12, <3>13, <3>14, <3>15 DEF Next
  <2>2. StateTyped'
    <3> USE ConstAssumption DEF TypeOK, StateTyped, clientVars, writerVars,
            epVars
    <3>1. CASE \E a \in ClientDests : ClientWrite(a)
      BY <3>1, RecordsTyped, AppendProperties DEF ClientWrite
    <3>2. CASE ClientShutdown  BY <3>2 DEF ClientShutdown
    <3>3. CASE ClientCloseRequest  BY <3>3 DEF ClientCloseRequest
    <3>4. CASE ClientCloseHandle  BY <3>4 DEF ClientCloseHandle
    <3>0. Finish(TRUE) \/ Finish(FALSE) => wDoneAt' \in Nat
      BY LenProperties DEF Finish
    <3>5. CASE WRead
      <4>1. CASE pipeIn # <<>>
        <5>1. ReadCount \in 0..Len(pipeIn)
          BY <4>1, RecordsTyped
        <5>2. PipeAfterRead(ReadCount) \in Seq(Rec)
              /\ SubSeq(pipeIn, 1, ReadCount) \in Seq(Rec)
          BY <5>1, SplitSeq DEF PipeAfterRead
        <5>3. QED
          BY <3>0, <3>5, <4>1, <5>2, EmptySeq DEF WRead, Finish
      <4>2. CASE pipeIn = <<>>
        BY <3>0, <3>5, <4>2 DEF WRead, Finish
      <4>3. QED
        BY <4>1, <4>2
    <3>6. CASE WWait  BY <3>0, <3>6, EmptySeq DEF WWait, Finish
    <3>7. CASE WWrite
      <4>1. ASSUME NEW n \in WriteCounts
            PROVE  /\ epSent \o SubSeq(buf, 1, n) \in Seq(Rec)
                   /\ SubSeq(buf, n + 1, Len(buf)) \in Seq(Rec)
                   /\ (Proto = TCP => sndUsed + n \in 0..SndCap)
        <5>1. n \in 0..Len(buf)
          BY RecordsTyped
        <5>2. SubSeq(buf, 1, n) \in Seq(Rec)
              /\ SubSeq(buf, n + 1, Len(buf)) \in Seq(Rec)
          BY <5>1, SplitSeq
        <5>3. Proto = TCP => sndUsed + n \in 0..SndCap
          <6>1. Len(buf) \in Nat
            BY LenProperties
          <6>2. CASE buf = <<>>
            BY <6>2 DEF WriteCounts
          <6>3. CASE buf # <<>> /\ Proto = TCP
            <7>1. n \in 1..MinNat(Len(buf), SndCap - sndUsed)
              BY <6>3 DEF WriteCounts, TCP, UDP
            <7>2. QED
              BY <6>1, <7>1 DEF MinNat
          <6>4. QED
            BY <6>2, <6>3
        <5>4. QED
          BY <5>2, <5>3, ConcatProperties
      <4>2. QED
        BY <3>0, <3>7, <4>1 DEF WWrite, Finish
    <3>8. CASE WWaitRes  BY <3>8 DEF WWaitRes
    <3>9. CASE WWaitOut  BY <3>9 DEF WWaitOut
    <3>10. CASE EpDrain  BY <3>10 DEF EpDrain
    <3>11. CASE EpFail  BY <3>11 DEF EpFail
    <3>12. CASE CloseBegin  BY <3>12 DEF CloseBegin
    <3>13. CASE CloseJoin  BY <3>13 DEF CloseJoin
    <3>14. CASE Terminated  BY <3>14 DEF Terminated, vars
    <3>15. CASE UNCHANGED vars  BY <3>15 DEF vars
    <3>16. QED
      BY <3>1, <3>2, <3>3, <3>4, <3>5, <3>6, <3>7, <3>8, <3>9, <3>10,
         <3>11, <3>12, <3>13, <3>14, <3>15 DEF Next
  <2>3. QED
    BY <2>1, <2>2 DEF TypeOK
<1>3. QED
  BY <1>1, <1>2, PTL DEF Spec


(* Every step of the client, loopWrite, the endpoint and Close keeps the *)
(* stream conserved: a Read moves records from the socket to the buffer, *)
(* a partial Write from the buffer to the endpoint, and loopWrite returns *)
(* normally only with both empty.  Each case first states, with Zenon,    *)
(* what the step does to the stream's variables, then checks the four    *)
(* conjuncts with SMT.                                                    *)
LEMMA SafetyInductive ==
    TypeOK /\ BufEmptyAtRest /\ Conserved /\ FailedPrefix /\ DoneCount
      /\ [Next]_vars
      => (BufEmptyAtRest /\ Conserved /\ FailedPrefix /\ DoneCount)'
<1> SUFFICES ASSUME TypeOK, BufEmptyAtRest, Conserved, FailedPrefix,
                    DoneCount, [Next]_vars
             PROVE  (BufEmptyAtRest /\ Conserved /\ FailedPrefix /\ DoneCount)'
  OBVIOUS
<1> USE ConstAssumption DEF TypeOK, FlagsTyped, StateTyped
<1> DEFINE Inv2 == BufEmptyAtRest /\ Conserved /\ FailedPrefix /\ DoneCount
<1>0. ~wErr => StreamFidelity
  BY ConservedFidelity DEF Conserved
\* Steps that leave the stream, loopWrite's state and the history alone.
<1>1. ASSUME UNCHANGED <<clientSent, pipeIn, wpc, buf, wErr, wDoneAt, epSent>>
      PROVE  Inv2'
  BY <1>1 DEF BufEmptyAtRest, Conserved, FailedPrefix, DoneCount,
     StreamFidelity
<1>2. CASE \E a \in ClientDests : ClientWrite(a)
  <2>1. PICK a \in ClientDests : ClientWrite(a)
    BY <1>2
  <2> DEFINE r == [seq |-> Len(clientSent) + 1, to |-> a]
  <2>2. r \in Rec
    BY <2>1, RecordsTyped DEF ClientWrite
  <2>3. /\ pipeIn' = Append(pipeIn, r) /\ clientSent' = Append(clientSent, r)
        /\ UNCHANGED <<wpc, buf, wErr, wDoneAt, epSent>>
    BY <2>1, Zenon DEF ClientWrite, writerVars, epVars
  <2>4. Conserved'
    <3>1. epSent \o buf \in Seq(Rec)
      BY ConcatProperties
    <3>2. ~wErr => epSent \o buf \o Append(pipeIn, r) = Append(clientSent, r)
      BY <2>2, <3>1, AppendConcat DEF Conserved
    <3>3. QED
      BY <2>3, <3>2 DEF Conserved
  <2>5. FailedPrefix'
    BY <2>2, <2>3, AppendProperties DEF FailedPrefix, StreamFidelity
  <2>6. QED
    BY <2>3, <2>4, <2>5 DEF BufEmptyAtRest, DoneCount
<1>3. CASE ClientShutdown \/ ClientCloseRequest \/ ClientCloseHandle
  <2>1. UNCHANGED <<clientSent, pipeIn, wpc, buf, wErr, wDoneAt, epSent>>
    BY <1>3, Zenon DEF ClientShutdown, ClientCloseRequest, ClientCloseHandle,
       writerVars, epVars
  <2>2. QED
    BY <1>1, <2>1
<1>4. CASE WRead
  <2>1. ~wErr /\ buf = <<>> /\ wpc = "read"
    BY <1>4 DEF WRead, FailedPrefix, BufEmptyAtRest
  <2>2. epSent \o pipeIn = clientSent
    BY <2>1, ConcatEmptySeq DEF Conserved
  <2>3. UNCHANGED <<clientSent, epSent>>
    BY <1>4, Zenon DEF WRead, clientVars
  <2>4. CASE pipeIn # <<>>
    <3> DEFINE k == ReadCount
    <3>1. k \in 0..Len(pipeIn)
      BY <2>4, RecordsTyped
    <3>2. \/ /\ ~wErr' /\ wpc' = "write" /\ buf' = SubSeq(pipeIn, 1, k)
             /\ pipeIn' = SubSeq(pipeIn, k + 1, Len(pipeIn))
          \/ wErr' /\ wpc' = "done"
      BY <1>4, <2>1, <2>4, Zenon DEF WRead, Finish, PipeAfterRead
    <3>3. epSent \o SubSeq(pipeIn, 1, k) \o SubSeq(pipeIn, k + 1, Len(pipeIn))
            = clientSent
      BY <2>2, <3>1, MoveKeepsStream
    <3>4. QED
      BY <1>0, <2>1, <2>3, <3>2, <3>3
         DEF BufEmptyAtRest, Conserved, FailedPrefix, DoneCount,
             StreamFidelity
  <2>5. CASE pipeIn = <<>>
    <3>1. Len(epSent) = Len(clientSent)
      BY <2>2, <2>5, ConcatEmptySeq
    <3>2. /\ UNCHANGED <<pipeIn, buf>> /\ ~wErr'
          /\ \/ wpc' = "wait"
             \/ wpc' = "done" /\ wDoneAt' = Len(clientSent)
      BY <1>4, <2>1, <2>5 DEF WRead, Finish
    <3>3. QED
      BY <2>1, <2>3, <3>1, <3>2
         DEF BufEmptyAtRest, Conserved, FailedPrefix, DoneCount
  <2>6. QED
    BY <2>4, <2>5
<1>5. CASE WWait
  <2>1. ~wErr /\ buf = <<>>
    BY <1>5 DEF WWait, FailedPrefix, BufEmptyAtRest
  <2>2. epSent \o pipeIn = clientSent
    BY <2>1, ConcatEmptySeq DEF Conserved
  <2>3. /\ UNCHANGED <<clientSent, pipeIn, epSent>> /\ buf' = <<>> /\ ~wErr'
        /\ \/ wpc' \in {"read", "write", "crashed"}
           \/ wpc' = "done" /\ wDoneAt' = Len(clientSent) /\ pipeIn = <<>>
    BY <1>5, <2>1 DEF WWait, Finish, clientVars, epVars
  <2>4. pipeIn = <<>> => Len(epSent) = Len(clientSent)
    BY <2>2, ConcatEmptySeq
  <2>5. QED
    BY <2>1, <2>2, <2>3, <2>4
       DEF BufEmptyAtRest, Conserved, FailedPrefix, DoneCount
<1>6. CASE WWrite
  <2>1. ~wErr
    BY <1>6 DEF WWrite, FailedPrefix
  <2>2. UNCHANGED <<clientSent, pipeIn>>
    BY <1>6, Zenon DEF WWrite, clientVars
  <2>3. CASE epErr
    <3>1. wErr' /\ wpc' = "done" /\ UNCHANGED epSent
      BY <1>6, <2>3, Zenon DEF WWrite, Finish
    <3>2. QED
      BY <1>0, <2>1, <2>2, <3>1
         DEF BufEmptyAtRest, Conserved, FailedPrefix, DoneCount,
             StreamFidelity
  <2>4. CASE ~epErr
    <3>1. \/ \E n \in WriteCounts :
                /\ epSent' = epSent \o SubSeq(buf, 1, n)
                /\ buf' = SubSeq(buf, n + 1, Len(buf))
                /\ wpc' = IF n = Len(buf) THEN "read" ELSE "write"
                /\ UNCHANGED <<wErr, wDoneAt>>
          \/ /\ wpc' \in {"waitRes", "waitOut"}
             /\ UNCHANGED <<buf, wErr, wDoneAt, epSent>>
      BY <1>6, <2>4, Zenon DEF WWrite
    <3>2. CASE wpc' \in {"waitRes", "waitOut"}
                /\ UNCHANGED <<buf, wErr, wDoneAt, epSent>>
      BY <2>1, <2>2, <3>2
         DEF BufEmptyAtRest, Conserved, FailedPrefix, DoneCount
    <3>3. ASSUME NEW n \in WriteCounts,
                 epSent' = epSent \o SubSeq(buf, 1, n),
                 buf' = SubSeq(buf, n + 1, Len(buf)),
                 wpc' = IF n = Len(buf) THEN "read" ELSE "write",
                 UNCHANGED <<wErr, wDoneAt>>
          PROVE  Inv2'
      <4>1. n \in 0..Len(buf)
        BY RecordsTyped
      <4>2. n = Len(buf) => SubSeq(buf, n + 1, Len(buf)) = <<>>
        BY <4>1, SplitSeq, EmptySeq
      <4>3. (epSent \o SubSeq(buf, 1, n)) \o SubSeq(buf, n + 1, Len(buf))
              = epSent \o buf
        BY <4>1, MoveKeepsStream
      <4>4. QED
        BY <2>1, <2>2, <3>3, <4>2, <4>3
           DEF BufEmptyAtRest, Conserved, FailedPrefix, DoneCount
    <3>4. QED
      BY <3>1, <3>2, <3>3
  <2>5. QED
    BY <2>3, <2>4
<1>7. CASE WWaitRes \/ WWaitOut
  <2>1. wpc \in {"waitRes", "waitOut"} /\ wpc' = "write"
        /\ UNCHANGED <<clientSent, pipeIn, buf, wErr, wDoneAt, epSent>>
    BY <1>7, Zenon DEF WWaitRes, WWaitOut, clientVars, epVars
  <2>2. QED
    BY <2>1 DEF BufEmptyAtRest, Conserved, FailedPrefix, DoneCount
<1>8. CASE EpDrain \/ EpFail \/ CloseBegin \/ CloseJoin \/ Terminated
           \/ UNCHANGED vars
  <2>1. UNCHANGED <<clientSent, pipeIn, wpc, buf, wErr, wDoneAt, epSent>>
    BY <1>8, Zenon DEF EpDrain, EpFail, CloseBegin, CloseJoin, Terminated,
       vars, clientVars, writerVars, epVars
  <2>2. QED
    BY <1>1, <2>1
<1>9. QED
  BY <1>2, <1>3, <1>4, <1>5, <1>6, <1>7, <1>8 DEF Next


(* Close returns only after loopWrite has returned, and loopWrite never  *)
(* runs again: no step of loopWrite starts from "done".                   *)
LEMMA ClosedJoinedInductive ==
    ClosedJoined /\ [Next]_vars => ClosedJoined'
<1> SUFFICES ASSUME ClosedJoined, [Next]_vars PROVE ClosedJoined'
  OBVIOUS
<1>1. CASE WRead \/ WWait \/ WWrite \/ WWaitRes \/ WWaitOut
  <2>1. wpc # "done" /\ UNCHANGED cpc
    BY <1>1 DEF WRead, WWait, WWrite, WWaitRes, WWaitOut
  <2>2. QED
    BY <2>1 DEF ClosedJoined
<1>2. CASE CloseBegin \/ CloseJoin
  BY <1>2 DEF CloseBegin, CloseJoin, ClosedJoined, writerVars
<1>3. CASE \/ \E a \in ClientDests : ClientWrite(a)
           \/ ClientShutdown \/ ClientCloseRequest \/ ClientCloseHandle
           \/ EpDrain \/ EpFail \/ Terminated \/ UNCHANGED vars
  <2>1. UNCHANGED <<wpc, cpc>>
    BY <1>3 DEF ClientWrite, ClientShutdown, ClientCloseRequest,
       ClientCloseHandle, EpDrain, EpFail, Terminated, vars, writerVars
  <2>2. QED
    BY <2>1 DEF ClosedJoined
<1>4. QED
  BY <1>1, <1>2, <1>3 DEF Next

\* IInv without its type invariant.
StreamInv ==
    BufEmptyAtRest /\ Conserved /\ FailedPrefix /\ DoneCount /\ ClosedJoined

(* The inductive invariant: TypeOK with the four stream conjuncts and    *)
(* ClosedJoined holds in every reachable state.                           *)
LEMMA IInvHolds == Spec => []IInv
<1>1. Init => StreamInv
  <2> SUFFICES ASSUME Init PROVE StreamInv
    OBVIOUS
  <2>1. <<>> \o <<>> \o <<>> = <<>>
    <3>1. <<>> \in Seq(Rec)
      BY EmptySeq
    <3>2. QED
      BY <3>1, ConcatEmptySeq
  <2>2. QED
    BY <2>1 DEF Init, StreamInv, BufEmptyAtRest, Conserved, FailedPrefix,
       DoneCount, ClosedJoined
<1>2. TypeOK /\ StreamInv /\ [Next]_vars => StreamInv'
  BY SafetyInductive, ClosedJoinedInductive DEF StreamInv
<1>3. Spec => []StreamInv
  BY <1>1, <1>2, TypeCorrect, PTL DEF Spec
<1>4. QED
  BY <1>3, TypeCorrect, PTL DEF IInv, StreamInv

(* Spec 3, invariant 6, for every protocol and capacity: the endpoint    *)
(* accepts exactly a prefix of the client's stream, across partial TCP   *)
(* writes, WouldBlock waits and UDP link resolution in loopWrite.         *)
THEOREM StreamFidelityHolds == Spec => []StreamFidelity
<1>1. IInv => StreamFidelity
  BY ConservedFidelity DEF IInv, Conserved, FailedPrefix
<1>2. QED
  BY <1>1, IInvHolds, PTL

(* Close drains, for every protocol and capacity: a loopWrite that       *)
(* returned without an error had passed every record the client wrote   *)
(* before it returned to the endpoint.                                    *)
THEOREM CloseDrainsHolds == Spec => []CloseDrains
<1>1. IInv => CloseDrains
  <2> SUFFICES ASSUME IInv, wpc = "done", ~wErr
               PROVE  epSent = SubSeq(clientSent, 1, wDoneAt)
    BY DEF CloseDrains
  <2> USE DEF IInv, TypeOK, StateTyped
  <2>1. buf = <<>> /\ Len(epSent) = wDoneAt
    BY DEF BufEmptyAtRest, DoneCount
  <2>2. epSent \o pipeIn = clientSent
    BY <2>1, ConcatEmptySeq DEF Conserved
  <2>3. wDoneAt \in 0..Len(clientSent)
        /\ \A i \in 1..wDoneAt : epSent[i] = clientSent[i]
    BY <2>1, <2>2, PrefixOfConcat
  <2>4. SubSeq(clientSent, 1, wDoneAt) \in Seq(Rec)
        /\ Len(SubSeq(clientSent, 1, wDoneAt)) = wDoneAt
        /\ \A i \in 1..wDoneAt :
              SubSeq(clientSent, 1, wDoneAt)[i] = clientSent[i]
    BY <2>3, SubSeqProperties, LenProperties
  <2>5. QED
    BY <2>1, <2>3, <2>4, SeqEqual
<1>2. QED
  BY <1>1, IInvHolds, PTL

(* Close joins loopWrite before it closes the endpoint, for every        *)
(* protocol and capacity: once Close has returned no Endpoint.Write is   *)
(* accepted.                                                              *)
THEOREM NoWriteAfterCloseHolds == Spec => NoWriteAfterClose
<1>1. ClosedJoined /\ [Next]_vars => [cpc = "closed" => epSent' = epSent]_vars
  <2> SUFFICES ASSUME ClosedJoined, [Next]_vars, cpc = "closed"
               PROVE  epSent' = epSent
    BY DEF vars
  <2>1. wpc = "done"
    BY DEF ClosedJoined
  <2>2. QED
    BY <2>1 DEF Next, vars, ClientWrite, ClientShutdown, ClientCloseRequest,
       ClientCloseHandle, WRead, WWait, WWrite, WWaitRes, WWaitOut, EpDrain,
       EpFail, CloseBegin, CloseJoin, Terminated, epVars
<1>2. Spec => []ClosedJoined
  <2>1. IInv => ClosedJoined
    BY DEF IInv
  <2>2. QED
    BY <2>1, IInvHolds, PTL
<1>3. QED
  BY <1>1, <1>2, PTL DEF Spec, NoWriteAfterClose

-----------------------------------------------------------------------------
(* Refinement: loopWrite and Close implement SocketStream.                 *)

(* The endpoint's write side is shut down only by a loopWrite that has   *)
(* returned after the client shut down its own: after Shutdown nothing   *)
(* more is written or sent.                                               *)
ShutDone == epShutWr => (wpc = "done" /\ clientShut)

LEMMA ShutDoneInductive == ShutDone /\ [Next]_vars => ShutDone'
<1> SUFFICES ASSUME ShutDone, [Next]_vars PROVE ShutDone'
  OBVIOUS
<1>1. CASE WRead
  BY <1>1 DEF WRead, Finish, ShutDone, clientVars
<1>2. CASE WWait \/ WWrite \/ WWaitRes \/ WWaitOut
  <2>1. wpc # "done" /\ UNCHANGED <<epShutWr, clientShut>>
    BY <1>2 DEF WWait, WWrite, WWaitRes, WWaitOut, epVars, clientVars
  <2>2. QED
    BY <2>1 DEF ShutDone
<1>3. CASE \/ \E a \in ClientDests : ClientWrite(a)
           \/ ClientShutdown \/ ClientCloseRequest \/ ClientCloseHandle
           \/ EpDrain \/ EpFail \/ CloseBegin \/ CloseJoin \/ Terminated
           \/ UNCHANGED vars
  <2>1. CASE \E a \in ClientDests : ClientWrite(a)
    BY <2>1 DEF ClientWrite, writerVars, epVars, ShutDone
  <2>2. CASE ClientShutdown \/ ClientCloseRequest \/ ClientCloseHandle
    BY <2>2 DEF ClientShutdown, ClientCloseRequest, ClientCloseHandle,
       writerVars, epVars, ShutDone
  <2>3. CASE EpDrain \/ EpFail
    BY <2>3 DEF EpDrain, EpFail, writerVars, clientVars, ShutDone
  <2>4. CASE CloseBegin \/ CloseJoin
    BY <2>4 DEF CloseBegin, CloseJoin, writerVars, clientVars, epVars,
       ShutDone
  <2>5. CASE Terminated \/ UNCHANGED vars
    BY <2>5 DEF Terminated, vars, ShutDone
  <2>6. QED
    BY <1>3, <2>1, <2>2, <2>3, <2>4, <2>5
<1>4. QED
  BY <1>1, <1>2, <1>3 DEF Next

LEMMA ShutDoneHolds == Spec => []ShutDone
<1>1. Init => ShutDone
  BY DEF Init, ShutDone
<1>2. QED
  BY <1>1, ShutDoneInductive, PTL DEF Spec

(* A step of Endpoint.Write that accepts n > 0 records hands on the next *)
(* n records of the client's stream.                                      *)
LEMMA WriteDelivers ==
    ASSUME StateTyped, epSent \o buf \o pipeIn = clientSent,
           NEW n \in 1..Len(buf)
    PROVE  /\ n \in 1..(Len(clientSent) - Len(epSent))
           /\ epSent \o SubSeq(buf, 1, n)
                 = SubSeq(clientSent, 1, Len(epSent) + n)
<1> USE DEF StateTyped
<1> DEFINE head == epSent \o SubSeq(buf, 1, n)
           rest == SubSeq(buf, n + 1, Len(buf))
<1>1. SubSeq(buf, 1, n) \in Seq(Rec) /\ rest \in Seq(Rec)
      /\ Len(SubSeq(buf, 1, n)) = n
  BY SplitSeq
<1>2. head \in Seq(Rec) /\ Len(head) = Len(epSent) + n
  BY <1>1, ConcatProperties
<1>3. head \o rest = epSent \o buf
  <2>1. n \in 0..Len(buf)
    OBVIOUS
  <2>2. QED
    BY <2>1, MoveKeepsStream
<1>4. clientSent = head \o (rest \o pipeIn)
  <2>1. clientSent = (head \o rest) \o pipeIn
    BY <1>3
  <2>2. QED
    BY <1>1, <1>2, <2>1, RecConcatAssoc
<1>5. rest \o pipeIn \in Seq(Rec)
  BY <1>1, ConcatProperties
<1>6. SubSeq(clientSent, 1, Len(head)) = head
  BY <1>2, <1>4, <1>5, ConcatPrefix
<1>7. Len(head) <= Len(clientSent)
  BY <1>2, <1>4, <1>5, PrefixOfConcat
<1>8. QED
  BY <1>2, <1>6, <1>7

(* loopWrite and Close implement the client-to-endpoint direction of    *)
(* SocketStream, for every protocol and capacity: each client write is  *)
(* a Send, each Endpoint.Write that accepts bytes hands on the next     *)
(* ones, the Shutdown(ShutdownWrite) of line 86 is an end of stream     *)
(* after the last byte, and ep.Close after the join is the Close after   *)
(* which nothing is written; every other step is a stutter.  The        *)
(* argument rests on IInv (Conserved gives the prefix, ClosedJoined and *)
(* ShutDone rule out a write after Close or after Shutdown).            *)
THEOREM ImplementsStreamHolds == Spec => ImplementsStream
<1>1. Init => Stream!Init
  BY DEF Init, Stream!Init
<1>2. IInv /\ ShutDone /\ [Next]_vars => [Stream!Next]_Stream!svars
  <2> SUFFICES ASSUME IInv, ShutDone, [Next]_vars
               PROVE  [Stream!Next]_Stream!svars
    OBVIOUS
  <2> USE DEF IInv, TypeOK
  <2>1. CASE \E a \in ClientDests : ClientWrite(a)
    <3>1. PICK a \in ClientDests : ClientWrite(a)
      BY <2>1
    <3>2. [seq |-> Len(clientSent) + 1, to |-> a] \in Rec
      <4>1. Len(clientSent) < MaxWrites
        BY <3>1 DEF ClientWrite
      <4>2. ~(Len(clientSent) >= MaxWrites)
        BY <4>1, ConstAssumption DEF StateTyped
      <4>3. QED
        BY <3>1, <4>2, RecordsTyped
    <3>3. ~epShutWr
      BY <3>1 DEF ClientWrite, ShutDone
    <3>4. Stream!Send
      BY <3>1, <3>2, <3>3 DEF ClientWrite, Stream!Send, writerVars, epVars
    <3>5. QED
      BY <3>4 DEF Stream!Next
  <2>2. CASE WWrite
    <3>1. wpc = "write" /\ ~wErr /\ cpc # "closed" /\ ~epShutWr
      BY <2>2 DEF WWrite, FailedPrefix, ClosedJoined, ShutDone
    <3>2. epSent \o buf \o pipeIn = clientSent
      BY <3>1 DEF Conserved
    <3>3. UNCHANGED <<clientSent, epShutWr, cpc>>
      BY <2>2 DEF WWrite, clientVars
    <3>4. CASE epSent' = epSent
      BY <3>3, <3>4 DEF Stream!svars
    <3>5. CASE epSent' # epSent
      <4>1. PICK n \in WriteCounts : epSent' = epSent \o SubSeq(buf, 1, n)
        BY <2>2, <3>5 DEF WWrite
      <4>2. n \in 0..Len(buf)
        BY RecordsTyped
      <4>3. n # 0
        <5>1. SubSeq(buf, 1, 0) = <<>>
          OBVIOUS
        <5>2. QED
          BY <3>5, <4>1, <5>1, ConcatEmptySeq DEF StateTyped
      <4>4. n \in 1..(Len(clientSent) - Len(epSent))
            /\ epSent' = SubSeq(clientSent, 1, Len(epSent) + n)
        BY <3>2, <4>1, <4>2, <4>3, WriteDelivers
      <4>5. Stream!Deliver
        BY <3>1, <3>3, <4>4 DEF Stream!Deliver
      <4>6. QED
        BY <4>5 DEF Stream!Next
    <3>6. QED
      BY <3>4, <3>5
  <2>3. CASE WRead
    <3>1. wpc = "read" /\ ~epShutWr /\ UNCHANGED <<clientSent, epSent, cpc>>
      BY <2>3 DEF WRead, ShutDone, clientVars
    <3>2. CASE epShutWr' # epShutWr
      <4>1. pipeIn = <<>> /\ epShutWr' = TRUE
        BY <2>3, <3>1, <3>2 DEF WRead
      <4>2. buf = <<>> /\ ~wErr /\ cpc # "closed"
        BY <3>1 DEF BufEmptyAtRest, FailedPrefix, ClosedJoined
      <4>3. epSent = clientSent
        BY <4>1, <4>2, ConcatEmptySeq DEF Conserved, StateTyped
      <4>4. Stream!End
        BY <3>1, <4>1, <4>2, <4>3 DEF Stream!End
      <4>5. QED
        BY <4>4 DEF Stream!Next
    <3>3. CASE epShutWr' = epShutWr
      BY <3>1, <3>3 DEF Stream!svars
    <3>4. QED
      BY <3>2, <3>3
  <2>4. CASE CloseJoin
    <3>1. Stream!Close
      BY <2>4 DEF CloseJoin, Stream!Close, clientVars, epVars
    <3>2. QED
      BY <3>1 DEF Stream!Next
  <2>5. CASE \/ ClientShutdown \/ ClientCloseRequest \/ ClientCloseHandle
             \/ WWait \/ WWaitRes \/ WWaitOut \/ EpDrain \/ EpFail
             \/ CloseBegin \/ Terminated \/ UNCHANGED vars
    BY <2>5 DEF ClientShutdown, ClientCloseRequest, ClientCloseHandle, WWait,
       WWaitRes, WWaitOut, EpDrain, EpFail, CloseBegin, Terminated, vars,
       clientVars, writerVars, epVars, Stream!svars
  <2>6. QED
    BY <2>1, <2>2, <2>3, <2>4, <2>5 DEF Next
<1>3. QED
  BY <1>1, <1>2, IInvHolds, ShutDoneHolds, PTL
     DEF Spec, ImplementsStream, Stream!Spec

=============================================================================
