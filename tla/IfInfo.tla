------------------------------- MODULE IfInfo -------------------------------
(***************************************************************************)
(* The interface-listing ioctls of socket_server.go: Ioctl's GetNumIfs,    *)
(* which builds a snapshot of the netstack's interfaces (buildIfInfos)     *)
(* into the process-wide lastIfInfo, and GetIfInfoAt, which returns one    *)
(* entry of it.  Every socket's loopControl goroutine serves its own       *)
(* client's Ioctls, so the handlers of different clients interleave on     *)
(* the one global.                                                         *)
(*                                                                         *)
(* An entry is abstracted to the NIC it describes and its index field;     *)
(* name, flags, address, netmask and broadcast are per-NIC data that the   *)
(* properties do not tell apart.  Go's map iteration order is random, so   *)
(* a snapshot lists the non-loopback NICs in any order.                    *)
(***************************************************************************)
EXTENDS Naturals, Sequences, FiniteSets, Functions

CONSTANTS
    Clients,      \* sockets whose clients list the interfaces
    Nics,         \* NIC ids the netstack may have
    Loopback,     \* the loopback NIC, which buildIfInfos skips
    NoNic,        \* the NIC of a zeroed entry
    NoInfo,       \* lastIfInfo before the first GetNumIfs (nil)
    InfoMax,      \* NETC_IFINFO_MAX: entries in netc_get_if_info_t.info
    MaxChanges    \* bound on interfaces added or removed

\* An entry of netc_get_if_info_t, abstracted to its NIC and index.
Entry == [nic : Nics \cup {NoNic}, index : 0..Cardinality(Nics)]

ASSUME IfInfoAssumption ==
    /\ IsFiniteSet(Nics)
    /\ Loopback \in Nics /\ NoNic \notin Nics
    /\ NoInfo \notin Seq(Entry)
    /\ InfoMax \in Nat \ {0}
    /\ MaxChanges \in Nat

VARIABLES
    ifStates,     \* ns.mu.ifStates: the NICs the netstack has
    changes,      \* interfaces added or removed so far
    lastIfInfo,   \* the global snapshot: NoInfo (nil) or a sequence of entries
    pc,           \* per client: where its Ioctl handler, or the client, is
    rep,          \* per client: the rep its buildIfInfos returned
    mine,         \* per client: the snapshot its own GetNumIfs built
    cn,           \* per client: the count its GetNumIfs returned
    ci,           \* per client: the index of its current GetIfInfoAt
    qlen,         \* per client: length of the GetIfInfoAt input (4 is right)
    got,          \* per client: replies to the GetIfInfoAt calls of a listing
    crashed       \* a handler panicked

vars == <<ifStates, changes, lastIfInfo, pc, rep, mine, cn, ci, qlen, got,
          crashed>>

\* A zeroed netc_if_info_t, past n_info of a rep.
ZeroEntry == [nic |-> NoNic, index |-> 0]

Reply == [code : {"ok", "EINVAL"}, entry : Entry]

\* The reps buildIfInfos can return for the NICs in ifs: the non-loopback
\* NICs once each, in the order the map iteration visits them, with the
\* one-based index of line 472.
Snapshots(ifs) ==
    LET listed == ifs \ {Loopback}
        D == 1..Cardinality(listed)
    IN  { [i \in D |-> [nic |-> s[i], index |-> i]] : s \in Bijection(D, listed) }

-----------------------------------------------------------------------------
(* The netstack adds and removes interfaces under ns.mu.                   *)

AddNic(n) ==
    /\ changes < MaxChanges /\ n \notin ifStates
    /\ ifStates' = ifStates \cup {n}
    /\ changes' = changes + 1
    /\ UNCHANGED <<lastIfInfo, pc, rep, mine, cn, ci, qlen, got, crashed>>

RemoveNic(n) ==
    /\ changes < MaxChanges /\ n \in ifStates /\ n # Loopback
    /\ ifStates' = ifStates \ {n}
    /\ changes' = changes + 1
    /\ UNCHANGED <<lastIfInfo, pc, rep, mine, cn, ci, qlen, got, crashed>>

-----------------------------------------------------------------------------
(* A client: GetNumIfs, then GetIfInfoAt for every index below the count  *)
(* (the listing of dart's socket_base_fuchsia.cc); or a GetIfInfoAt of    *)
(* its own, with a right or a wrong input length.                         *)

StartListing(c) ==
    /\ pc[c] = "idle"
    /\ pc' = [pc EXCEPT ![c] = "build"]
    /\ got' = [got EXCEPT ![c] = <<>>]
    /\ UNCHANGED <<ifStates, changes, lastIfInfo, rep, mine, cn, ci, qlen,
                   crashed>>

StrayQuery(c) ==
    /\ pc[c] = "idle"
    /\ \E len \in {3, 4} : qlen' = [qlen EXCEPT ![c] = len]
    /\ ci' = [ci EXCEPT ![c] = 0]
    /\ pc' = [pc EXCEPT ![c] = "stray"]
    /\ UNCHANGED <<ifStates, changes, lastIfInfo, rep, mine, cn, got,
                   crashed>>

-----------------------------------------------------------------------------
(* GetNumIfs, lines 679-683.  buildIfInfos (lines 451-489) runs under     *)
(* ns.mu and fills rep.info[index] for each non-loopback NIC; an index    *)
(* past the C array is a Go index panic.  The result is stored in the     *)
(* global at line 680, and line 682 reads the count back from the global. *)

\* Mutant: buildIfInfos without the bound of the C array.
NumBuildUnbounded(c) ==
    /\ pc[c] = "build"
    /\ \E r \in Snapshots(ifStates) : rep' = [rep EXCEPT ![c] = r]
    /\ pc' = [pc EXCEPT ![c] = "assign"]
    /\ UNCHANGED <<ifStates, changes, lastIfInfo, mine, cn, ci, qlen, got,
                   crashed>>

NumBuild(c) ==
    /\ pc[c] = "build"
    /\ IF Cardinality(ifStates \ {Loopback}) > InfoMax
       THEN /\ crashed' = TRUE
            /\ UNCHANGED <<pc, rep>>
       ELSE /\ \E r \in Snapshots(ifStates) : rep' = [rep EXCEPT ![c] = r]
            /\ pc' = [pc EXCEPT ![c] = "assign"]
            /\ UNCHANGED crashed
    /\ UNCHANGED <<ifStates, changes, lastIfInfo, mine, cn, ci, qlen, got>>

NumAssign(c) ==
    /\ pc[c] = "assign"
    /\ lastIfInfo' = rep[c]
    /\ pc' = [pc EXCEPT ![c] = "count"]
    /\ UNCHANGED <<ifStates, changes, rep, mine, cn, ci, qlen, got, crashed>>

\* The count the client receives, and where its listing goes next.
NumCount(c) ==
    /\ pc[c] = "count"
    /\ cn' = [cn EXCEPT ![c] = Len(lastIfInfo)]
    /\ mine' = [mine EXCEPT ![c] = rep[c]]
    /\ ci' = [ci EXCEPT ![c] = 0]
    /\ qlen' = [qlen EXCEPT ![c] = 4]
    /\ pc' = [pc EXCEPT ![c] = IF Len(lastIfInfo) = 0 THEN "idle" ELSE "query"]
    /\ UNCHANGED <<ifStates, changes, lastIfInfo, rep, got, crashed>>

-----------------------------------------------------------------------------
(* GetIfInfoAt, lines 686-700: three checks against the global, each     *)
(* reading it afresh, then line 700 reads the entry from it once more.   *)

\* The client goes on after a reply: a listing asks for the next index
\* until it has asked for cn of them, or stops at an error.
AfterReply(c, r) ==
    IF pc[c] = "stray"
    THEN /\ pc' = [pc EXCEPT ![c] = "idle"]
         /\ UNCHANGED <<got, ci>>
    ELSE /\ got' = [got EXCEPT ![c] = Append(got[c], r)]
         /\ ci' = [ci EXCEPT ![c] = ci[c] + 1]
         /\ pc' = [pc EXCEPT ![c] = IF r.code = "ok" /\ ci[c] + 1 < cn[c]
                                    THEN "query" ELSE "idle"]

AtCheck(c) ==
    /\ pc[c] \in {"query", "stray"}
    /\ \/ /\ lastIfInfo = NoInfo
          /\ AfterReply(c, [code |-> "EINVAL", entry |-> ZeroEntry])
       \/ /\ lastIfInfo # NoInfo /\ qlen[c] # 4
          /\ AfterReply(c, [code |-> "EINVAL", entry |-> ZeroEntry])
       \/ /\ lastIfInfo # NoInfo /\ qlen[c] = 4 /\ ci[c] >= Len(lastIfInfo)
          /\ AfterReply(c, [code |-> "EINVAL", entry |-> ZeroEntry])
       \/ /\ lastIfInfo # NoInfo /\ qlen[c] = 4 /\ ci[c] < Len(lastIfInfo)
          /\ pc' = [pc EXCEPT ![c] = IF pc[c] = "stray" THEN "strayFetch"
                                                         ELSE "fetch"]
          /\ UNCHANGED <<got, ci>>
    /\ UNCHANGED <<ifStates, changes, lastIfInfo, rep, mine, cn, qlen,
                   crashed>>

\* Mutant: the zero-based request indexes the array as if one-based.
EntryAtOneBased(c) ==
    IF 0 < ci[c] /\ ci[c] <= Len(lastIfInfo) THEN lastIfInfo[ci[c]]
    ELSE ZeroEntry

\* lastIfInfo.info[requestedIndex]: a fixed-size C array, zeroed past n_info.
EntryAt(c) ==
    IF ci[c] < Len(lastIfInfo) THEN lastIfInfo[ci[c] + 1] ELSE ZeroEntry

AtFetch(c) ==
    /\ pc[c] \in {"fetch", "strayFetch"}
    /\ LET r == [code |-> "ok", entry |-> EntryAt(c)]
       IN IF pc[c] = "strayFetch"
          THEN /\ pc' = [pc EXCEPT ![c] = "idle"]
               /\ UNCHANGED <<got, ci>>
          ELSE AfterReply(c, r)
    /\ UNCHANGED <<ifStates, changes, lastIfInfo, rep, mine, cn, qlen,
                   crashed>>

-----------------------------------------------------------------------------

Init ==
    /\ ifStates \in {s \in SUBSET Nics : Loopback \in s}
    /\ changes = 0
    /\ lastIfInfo = NoInfo
    /\ pc = [c \in Clients |-> "idle"]
    /\ rep = [c \in Clients |-> <<>>]
    /\ mine = [c \in Clients |-> <<>>]
    /\ cn = [c \in Clients |-> 0]
    /\ ci = [c \in Clients |-> 0]
    /\ qlen = [c \in Clients |-> 4]
    /\ got = [c \in Clients |-> <<>>]
    /\ crashed = FALSE

\* A panic in a handler ends the netstack process.
Terminated ==
    /\ crashed
    /\ UNCHANGED vars

Next ==
    \/ /\ ~crashed
       /\ \/ \E n \in Nics : AddNic(n) \/ RemoveNic(n)
          \/ \E c \in Clients :
                \/ StartListing(c) \/ StrayQuery(c)
                \/ NumBuild(c) \/ NumAssign(c) \/ NumCount(c)
                \/ AtCheck(c) \/ AtFetch(c)
    \/ Terminated

Spec == Init /\ [][Next]_vars

-----------------------------------------------------------------------------
(* Properties.                                                             *)

TypeOK ==
    /\ ifStates \in SUBSET Nics /\ Loopback \in ifStates
    /\ changes \in 0..MaxChanges
    /\ lastIfInfo = NoInfo \/ lastIfInfo \in Seq(Entry)
    /\ pc \in [Clients -> {"idle", "build", "assign", "count", "query",
                           "fetch", "stray", "strayFetch"}]
    /\ rep \in [Clients -> Seq(Entry)]
    /\ mine \in [Clients -> Seq(Entry)]
    /\ cn \in [Clients -> 0..InfoMax]
    /\ ci \in [Clients -> 0..InfoMax]
    /\ qlen \in [Clients -> {3, 4}]
    /\ got \in [Clients -> Seq(Reply)]
    /\ crashed \in BOOLEAN

(* The comment at lines 497-498: remembering the list of the last         *)
(* GetNumIfs makes a listing consistent even when the interfaces change   *)
(* between the calls.  Every reply a client gets while listing is the     *)
(* entry, at the index it asked for, of the snapshot its own GetNumIfs    *)
(* built, and the count it got is that snapshot's length.                 *)
ListingConsistent ==
    \A c \in Clients :
        /\ pc[c] \in {"query", "fetch"} => cn[c] = Len(mine[c])
        /\ \A k \in 1..Len(got[c]) :
              /\ k <= Len(mine[c])
              /\ got[c][k] = [code |-> "ok", entry |-> mine[c][k]]


-----------------------------------------------------------------------------
(* Inductive strengthenings, used by IfInfoProofs.                         *)

\* The counters a listing keeps: GetNumIfs read its count from a global
\* that some GetNumIfs had filled, the global never outgrows the C array,
\* and a listing asks only for indices below its count.
CountInv ==
    /\ lastIfInfo # NoInfo => Len(lastIfInfo) <= InfoMax
    /\ \A c \in Clients :
          /\ Len(rep[c]) <= InfoMax
          /\ ci[c] <= cn[c]
          /\ pc[c] \in {"query", "fetch"} => ci[c] < cn[c]
          /\ pc[c] \in {"count", "fetch", "strayFetch"} => lastIfInfo # NoInfo

TypeInv == TypeOK /\ CountInv

\* A listing of client c that no other GetNumIfs interrupts: between its
\* own GetNumIfs and its last GetIfInfoAt the global is its own snapshot,
\* and the replies so far are that snapshot's first entries.
ListingInv(c) ==
    /\ pc[c] \in {"build", "assign", "count"} => got[c] = <<>>
    /\ pc[c] = "count" => lastIfInfo = rep[c]
    /\ pc[c] \in {"query", "fetch"} =>
          /\ lastIfInfo = mine[c] /\ cn[c] = Len(mine[c]) /\ qlen[c] = 4
          /\ Len(got[c]) = ci[c]
    /\ Len(got[c]) <= Len(mine[c])
    /\ \A k \in 1..Len(got[c]) : got[c][k] = [code |-> "ok", entry |-> mine[c][k]]

=============================================================================
