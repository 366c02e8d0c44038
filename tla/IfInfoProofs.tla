---------------------------- MODULE IfInfoProofs ----------------------------
(***************************************************************************)
(* Proofs about IfInfo: the interface-listing handlers keep their state   *)
(* typed for any number of clients, NICs and any NETC_IFINFO_MAX; and a   *)
(* client that lists alone gets a consistent listing however the         *)
(* interfaces change between its calls.                                   *)
(***************************************************************************)
EXTENDS IfInfo, FiniteSetTheorems, SequenceTheorems, TLAPS

(* A rep that buildIfInfos returns without panicking is a sequence of     *)
(* entries that fits in the C array.                                      *)
LEMMA SnapshotFacts ==
    ASSUME NEW ifs \in SUBSET Nics,
           Cardinality(ifs \ {Loopback}) <= InfoMax,
           NEW r \in Snapshots(ifs)
    PROVE  r \in Seq(Entry) /\ Len(r) <= InfoMax
<1> DEFINE listed == ifs \ {Loopback}
           k == Cardinality(listed)
<1> USE DEF listed, k
<1>1. IsFiniteSet(listed) /\ k \in Nat /\ Cardinality(Nics) \in Nat
      /\ k <= Cardinality(Nics)
  <2>1. listed \subseteq Nics
    OBVIOUS
  <2>2. QED
    BY <2>1, IfInfoAssumption, FS_Subset, FS_CardinalityType
<1>2. PICK s \in Bijection(1..k, listed) :
           r = [i \in 1..k |-> [nic |-> s[i], index |-> i]]
  BY DEF Snapshots
<1>3. \A i \in 1..k : s[i] \in Nics
  BY <1>2 DEF Bijection, Injection
<1>4. \A i \in 1..k : [nic |-> s[i], index |-> i] \in Entry
  <2> TAKE i \in 1..k
  <2>0. i \in Nat /\ i <= k
    OBVIOUS
  <2>a. s[i] \in Nics
    BY <1>3
  <2>b. i \in 0..Cardinality(Nics)
    BY <2>0, <1>1
  <2>1. s[i] \in Nics \cup {NoNic} /\ i \in 0..Cardinality(Nics)
    BY <2>a, <2>b
  <2>2. QED
    BY <2>1 DEF Entry
<1>5. r \in [1..k -> Entry]
  BY <1>2, <1>4
<1>6. r \in Seq(Entry)
  BY <1>1, <1>5, SeqDef
<1>7. Len(r) = k
  <2>1. DOMAIN r = 1..Len(r) /\ DOMAIN r = 1..k
    BY <1>5, <1>6, LenProperties
  <2>2. QED
    BY <1>1, <1>6, <2>1, LenProperties
<1>8. QED
  BY <1>6, <1>7

(* The zeroed entry returned on an error is an entry. *)
LEMMA ZeroEntryType == ZeroEntry \in Entry
BY IfInfoAssumption, FS_CardinalityType DEF ZeroEntry, Entry

-----------------------------------------------------------------------------
(* The type invariant, strengthened by the counters of a listing.        *)

LEMMA InitTypeInv == Init => TypeInv
<1> SUFFICES ASSUME Init PROVE TypeInv
  OBVIOUS
<1>1. TypeOK
  <2>1. ifStates \in SUBSET Nics /\ Loopback \in ifStates /\ changes \in 0..MaxChanges
        /\ lastIfInfo = NoInfo
    BY IfInfoAssumption DEF Init
  <2>2. /\ pc \in [Clients -> {"idle", "build", "assign", "count", "query",
                               "fetch", "stray", "strayFetch"}]
        /\ rep \in [Clients -> Seq(Entry)] /\ mine \in [Clients -> Seq(Entry)]
        /\ got \in [Clients -> Seq(Reply)]
    BY DEF Init
  <2>3. /\ cn \in [Clients -> 0..InfoMax] /\ ci \in [Clients -> 0..InfoMax]
        /\ qlen \in [Clients -> {3, 4}]
    BY IfInfoAssumption DEF Init
  <2>4. crashed \in BOOLEAN
    BY Zenon DEF Init
  <2>5. QED
    BY <2>1, <2>2, <2>3, <2>4 DEF TypeOK
<1>2. CountInv
  BY IfInfoAssumption DEF Init, CountInv
<1>3. QED
  BY <1>1, <1>2 DEF TypeInv

(* Under TypeInv, a GetNumIfs that reads back the global gets an entry   *)
(* sequence, and a fetch reads an entry.                                  *)
LEMMA GlobalFacts ==
    ASSUME TypeInv, NEW c \in Clients,
           pc[c] \in {"count", "fetch", "strayFetch"}
    PROVE  /\ lastIfInfo \in Seq(Entry) /\ Len(lastIfInfo) \in 0..InfoMax
           /\ EntryAt(c) \in Entry
<1>1. lastIfInfo \in Seq(Entry)
  BY DEF TypeInv, TypeOK, CountInv
<1>2. Len(lastIfInfo) \in 0..InfoMax
  BY <1>1 DEF TypeInv, CountInv
<1>3. EntryAt(c) \in Entry
  BY <1>1, ZeroEntryType DEF EntryAt, TypeInv, TypeOK
<1>4. QED
  BY <1>1, <1>2, <1>3


(* Every step of the handlers, the clients and the netstack keeps TypeInv. *)
LEMMA TypeInvStep == TypeInv /\ [Next]_vars => TypeInv'
<1> SUFFICES ASSUME TypeInv, [Next]_vars PROVE TypeInv'
  OBVIOUS
<1> USE IfInfoAssumption DEF TypeInv, TypeOK, CountInv
<1>1. ASSUME NEW n \in Nics, AddNic(n) \/ RemoveNic(n)
      PROVE  TypeInv'
  BY <1>1 DEF AddNic, RemoveNic
<1>2. ASSUME NEW c \in Clients, StartListing(c) \/ StrayQuery(c)
      PROVE  TypeInv'
  <2>1. CASE StartListing(c)
    BY <2>1 DEF StartListing
  <2>2. CASE StrayQuery(c)
    <3>1. PICK len \in {3, 4} : qlen' = [qlen EXCEPT ![c] = len]
      BY <2>2 DEF StrayQuery
    <3>2. QED
      BY <2>2, <3>1 DEF StrayQuery
  <2>3. QED
    BY <1>2, <2>1, <2>2
<1>3. ASSUME NEW c \in Clients, NumBuild(c)
      PROVE  TypeInv'
  <2>1. CASE Cardinality(ifStates \ {Loopback}) > InfoMax
    BY <1>3, <2>1, Zenon DEF NumBuild
  <2>2. CASE ~(Cardinality(ifStates \ {Loopback}) > InfoMax)
    <3>1. Cardinality(ifStates \ {Loopback}) <= InfoMax
      <4>1. IsFiniteSet(ifStates \ {Loopback})
        BY FS_Subset
      <4>2. QED
        BY <2>2, <4>1, FS_CardinalityType
    <3>2. PICK r \in Snapshots(ifStates) :
               /\ rep' = [rep EXCEPT ![c] = r]
               /\ pc' = [pc EXCEPT ![c] = "assign"]
               /\ crashed' = crashed
      BY <1>3, <2>2 DEF NumBuild
    <3>3. r \in Seq(Entry) /\ Len(r) <= InfoMax
      BY <3>1, SnapshotFacts
    <3>4. UNCHANGED <<ifStates, changes, lastIfInfo, mine, cn, ci, qlen, got>>
      BY <1>3 DEF NumBuild
    <3>5. QED
      BY <3>2, <3>3, <3>4
  <2>3. QED
    BY <2>1, <2>2
<1>4. ASSUME NEW c \in Clients, NumAssign(c)
      PROVE  TypeInv'
  <2>1. rep[c] # NoInfo
    OBVIOUS
  <2>2. QED
    BY <1>4, <2>1 DEF NumAssign
<1>5. ASSUME NEW c \in Clients, NumCount(c)
      PROVE  TypeInv'
  <2>1. lastIfInfo \in Seq(Entry) /\ Len(lastIfInfo) \in 0..InfoMax
    BY <1>5, GlobalFacts DEF NumCount
  <2>2. QED
    BY <1>5, <2>1 DEF NumCount
<1>6. ASSUME NEW c \in Clients, AtCheck(c)
      PROVE  TypeInv'
  <2>1. [code |-> "EINVAL", entry |-> ZeroEntry] \in Reply
    BY ZeroEntryType DEF Reply
  <2>2. ASSUME NEW r \in Reply, AfterReply(c, r),
               UNCHANGED <<ifStates, changes, lastIfInfo, rep, mine, cn, qlen,
                           crashed>>
        PROVE  TypeInv'
    <3>1. CASE pc[c] = "stray"
      BY <2>2, <3>1 DEF AfterReply
    <3>2. CASE pc[c] = "query"
      <4>a. ci[c] < cn[c]
        BY <3>2
      <4>b. got' = [got EXCEPT ![c] = Append(got[c], r)]
            /\ ci' = [ci EXCEPT ![c] = ci[c] + 1]
            /\ pc' = [pc EXCEPT ![c] = IF r.code = "ok" /\ ci[c] + 1 < cn[c]
                                       THEN "query" ELSE "idle"]
        BY <2>2, <3>2 DEF AfterReply
      <4>c. QED
        BY <2>2, <4>a, <4>b
    <3>3. QED
      BY <1>6, <3>1, <3>2 DEF AtCheck
  <2>3. CASE lastIfInfo # NoInfo /\ qlen[c] = 4 /\ ci[c] < Len(lastIfInfo)
             /\ pc' = [pc EXCEPT ![c] = IF pc[c] = "stray" THEN "strayFetch"
                                                            ELSE "fetch"]
             /\ UNCHANGED <<got, ci>>
    BY <1>6, <2>3 DEF AtCheck
  <2>4. QED
    BY <1>6, <2>1, <2>2, <2>3 DEF AtCheck
<1>7. ASSUME NEW c \in Clients, AtFetch(c)
      PROVE  TypeInv'
  <2>1. [code |-> "ok", entry |-> EntryAt(c)] \in Reply
    BY <1>7, GlobalFacts DEF AtFetch, Reply
  <2>2. CASE pc[c] = "strayFetch"
    BY <1>7, <2>2 DEF AtFetch
  <2>3. CASE pc[c] = "fetch"
    <3>1. ci[c] < cn[c]
      BY <2>3
    <3>2. /\ got' = [got EXCEPT ![c] = Append(got[c],
                                        [code |-> "ok", entry |-> EntryAt(c)])]
          /\ ci' = [ci EXCEPT ![c] = ci[c] + 1]
          /\ pc' = [pc EXCEPT ![c] = IF ci[c] + 1 < cn[c] THEN "query" ELSE "idle"]
      BY <1>7, <2>3 DEF AtFetch, AfterReply
    <3>3. UNCHANGED <<ifStates, changes, lastIfInfo, rep, mine, cn, qlen, crashed>>
      BY <1>7 DEF AtFetch
    <3>4. QED
      BY <2>1, <3>1, <3>2, <3>3
  <2>4. QED
    BY <1>7, <2>2, <2>3 DEF AtFetch
<1>8. CASE Terminated \/ UNCHANGED vars
  BY <1>8 DEF Terminated, vars
<1>9. QED
  BY <1>1, <1>2, <1>3, <1>4, <1>5, <1>6, <1>7, <1>8 DEF Next


(* The handlers keep their state typed, for any number of clients and    *)
(* NICs and any NETC_IFINFO_MAX, as long as buildIfInfos does not panic. *)
THEOREM TypeCorrect == Spec => []TypeOK
<1>1. Spec => []TypeInv
  BY InitTypeInv, TypeInvStep, PTL DEF Spec
<1>2. QED
  BY <1>1, PTL DEF TypeInv

-----------------------------------------------------------------------------
(* A listing that no other client's GetNumIfs interrupts.                 *)

LEMMA ListingStep ==
    ASSUME NEW c0, Clients = {c0},
           TypeInv, ListingInv(c0), [Next]_vars
    PROVE  ListingInv(c0)'
<1> USE IfInfoAssumption DEF ListingInv
<1>a. /\ pc[c0] \in {"idle", "build", "assign", "count", "query", "fetch",
                     "stray", "strayFetch"}
      /\ rep[c0] \in Seq(Entry) /\ mine[c0] \in Seq(Entry)
      /\ got[c0] \in Seq(Reply) /\ ci[c0] \in 0..InfoMax /\ cn[c0] \in 0..InfoMax
      /\ ci[c0] <= cn[c0]
      /\ pc[c0] \in {"query", "fetch"} => ci[c0] < cn[c0]
      /\ c0 \in Clients
      /\ DOMAIN pc = Clients /\ DOMAIN got = Clients /\ DOMAIN ci = Clients
      /\ DOMAIN cn = Clients /\ DOMAIN qlen = Clients /\ DOMAIN rep = Clients
      /\ DOMAIN mine = Clients
  BY DEF TypeInv, TypeOK, CountInv
<1>0. ASSUME UNCHANGED <<pc, got, rep, mine, lastIfInfo, cn, qlen, ci>>
      PROVE  ListingInv(c0)'
  BY <1>0
<1>1. ASSUME NEW n \in Nics, AddNic(n) \/ RemoveNic(n)
      PROVE  ListingInv(c0)'
  BY <1>1, <1>0 DEF AddNic, RemoveNic
<1>2. CASE StartListing(c0)
  BY <1>a, <1>2 DEF StartListing
<1>3. CASE StrayQuery(c0)
  BY <1>a, <1>3 DEF StrayQuery
<1>4. CASE NumBuild(c0)
  <2>1. pc[c0] = "build" /\ got[c0] = <<>>
    BY <1>4 DEF NumBuild
  <2>2. UNCHANGED <<got, mine, lastIfInfo, cn, qlen, ci>>
    BY <1>4 DEF NumBuild
  <2>3. pc'[c0] \in {"build", "assign"}
    BY <1>a, <1>4 DEF NumBuild
  <2>4. QED
    BY <1>a, <2>1, <2>2, <2>3
<1>5. CASE NumAssign(c0)
  BY <1>a, <1>5 DEF NumAssign
<1>6. CASE NumCount(c0)
  <2>1. pc[c0] = "count" /\ got[c0] = <<>> /\ lastIfInfo = rep[c0]
    BY <1>6 DEF NumCount
  <2>2. /\ mine'[c0] = lastIfInfo /\ cn'[c0] = Len(lastIfInfo) /\ qlen'[c0] = 4
        /\ ci'[c0] = 0 /\ got' = got /\ lastIfInfo' = lastIfInfo
        /\ pc'[c0] \in {"idle", "query"}
    BY <1>a, <2>1, <1>6 DEF NumCount
  <2>3. QED
    BY <1>a, <2>1, <2>2
<1>7. CASE AtCheck(c0)
  <2>1. CASE pc[c0] = "query"
    <3>1. lastIfInfo # NoInfo /\ qlen[c0] = 4 /\ ci[c0] < Len(lastIfInfo)
      BY <1>a, <2>1
    <3>2. pc' = [pc EXCEPT ![c0] = "fetch"] /\ UNCHANGED <<got, ci>>
      BY <1>7, <2>1, <3>1 DEF AtCheck
    <3>3. UNCHANGED <<rep, mine, lastIfInfo, cn, qlen>>
      BY <1>7 DEF AtCheck
    <3>4. QED
      BY <1>a, <2>1, <3>1, <3>2, <3>3
  <2>2. CASE pc[c0] = "stray"
    <3>1. pc'[c0] \in {"idle", "strayFetch"}
          /\ UNCHANGED <<got, ci, rep, mine, lastIfInfo, cn, qlen>>
      BY <1>a, <1>7, <2>2 DEF AtCheck, AfterReply
    <3>2. QED
      BY <1>a, <3>1
  <2>3. QED
    BY <1>7, <2>1, <2>2 DEF AtCheck
<1>8. CASE AtFetch(c0)
  <2>1. CASE pc[c0] = "strayFetch"
    <3>1. pc'[c0] = "idle" /\ UNCHANGED <<got, ci, rep, mine, lastIfInfo, cn, qlen>>
      BY <1>a, <1>8, <2>1 DEF AtFetch
    <3>2. QED
      BY <1>a, <3>1
  <2>2. CASE pc[c0] = "fetch"
    <3>1. ci[c0] < Len(mine[c0]) /\ lastIfInfo = mine[c0]
      BY <1>a, <2>1, <2>2
    <3>2. EntryAt(c0) = mine[c0][ci[c0] + 1]
      BY <1>a, <3>1 DEF EntryAt
    <3>3. /\ got'[c0] = Append(got[c0], [code |-> "ok", entry |-> mine[c0][ci[c0] + 1]])
          /\ ci'[c0] = ci[c0] + 1
          /\ pc'[c0] \in {"query", "idle"}
      BY <1>a, <1>8, <2>2, <3>2 DEF AtFetch, AfterReply
    <3>4. UNCHANGED <<rep, mine, lastIfInfo, cn, qlen>>
      BY <1>8 DEF AtFetch
    <3>5. Len(got[c0]) = ci[c0]
      BY <2>2
    <3>6. QED
      BY <1>a, <2>2, <3>1, <3>3, <3>4, <3>5
  <2>3. QED
    BY <1>8, <2>1, <2>2 DEF AtFetch
<1>9. CASE Terminated \/ UNCHANGED vars
  BY <1>9, <1>0 DEF Terminated, vars
<1>10. QED
  BY <1>1, <1>2, <1>3, <1>4, <1>5, <1>6, <1>7, <1>8, <1>9 DEF Next

(* The comment at lines 497-498 holds for a client that lists alone: its *)
(* replies are the entries of the snapshot its own GetNumIfs built, and  *)
(* its count is that snapshot's length, however the netstack adds and    *)
(* removes interfaces between its calls.  (With a second client the      *)
(* global is overwritten between the calls: run ifinfo_race.)            *)
THEOREM ListingConsistentAlone ==
    ASSUME NEW c0, Clients = {c0}
    PROVE  Spec => []ListingConsistent
<1>1. Init => ListingInv(c0)
  BY DEF Init, ListingInv
<1>2. TypeInv /\ ListingInv(c0) /\ [Next]_vars => ListingInv(c0)'
  BY ListingStep
<1>3. TypeInv /\ ListingInv(c0) => ListingConsistent
  BY DEF TypeInv, TypeOK, ListingInv, ListingConsistent
<1>4. Spec => []TypeInv
  BY InitTypeInv, TypeInvStep, PTL DEF Spec
<1>5. QED
  BY <1>1, <1>2, <1>3, <1>4, PTL DEF Spec

=============================================================================
