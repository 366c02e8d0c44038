# TLA+ models of the netstack socket bridge

This directory holds a TLA+ verification development for
`src/garnet/go/src/netstack/socket_server.go`. That file is the bridge between
a client's zircon socket and a netstack `tcpip.Endpoint`. Each socket has an
`iostate` and three goroutines, started by `newIostate` (lines 406-449):

* **loopWrite** (67-173) moves what the client writes into the socket to the
  endpoint with `Endpoint.Write`. For UDP it first parses the fdio datagram
  header. It waits on the socket's signals when the socket is empty, and on
  EventOut when the endpoint's send buffer is full. It closes `loopWriteDone`
  when it returns (441).
* **loopRead** (176-328) moves endpoint data to the client. On a listening
  endpoint it asserts `MXSIO_SIGNAL_INCOMING` when a connection arrives,
  under `incomingAssertedMu` (205-222).
* **loopControl** (330-404) serves the control requests: Listen, Accept,
  Ioctl, Close and the rest.
  * `Accept` (617-638) dequeues a connection. Under the same mutex it clears
    INCOMING if the endpoint reports nothing more to accept. Then it shares
    the new socket.
  * `Close` (718-741) asserts the local CLOSING signal and closes `closing`.
    It joins loopWrite through `loopWriteDone` and then closes the endpoint.
    It does not join loopRead.
* The **interface listing** Ioctls (676-700) are `GetNumIfs`, which builds a
  snapshot with `buildIfInfos` (451-489) into the process-wide `lastIfInfo`
  (499), and `GetIfInfoAt`, which reads an entry of it.

The components interact through shared objects:
* the socket's signals (Readable, PeerClosed, CLOSING, INCOMING);
* the channels `closing` and `loopWriteDone`;
* the capacity-1 notification channels registered on the endpoint's wait queue;
* `incomingAssertedMu`;
* the global `lastIfInfo`, shared by every socket.

## Modules

| Module | Models | Runs |
|---|---|---|
| `LoopWrite` | loopWrite, Close, loopWriteDone | `MCLoopWriteTCP.cfg`, `MCLoopWriteUDP.cfg`, `MCLoopWriteUDPShut.cfg` |
| `LoopWriteProofs` | TLAPS proofs about `LoopWrite` | (tlapm) |
| `Incoming` | loopRead's listening branch, Listen, Accept, Close | `MCIncoming.cfg`, `MCIncomingStale.cfg`, `MCIncomingPanic.cfg` |
| `IncomingProofs` | TLAPS proofs about `Incoming` | (tlapm) |
| `LoopRead` | loopRead's data and connect paths, the write-out loop, Connect, Close and loopControl's deferred exit | `MCLoopReadTCP.cfg`, `MCLoopReadUDP.cfg`, `MCLoopReadFin.cfg`, `MCLoopReadReconnect.cfg` |
| `LoopReadProofs` | TLAPS proofs about `LoopRead` | (tlapm) |
| `SocketStream` | the abstract promise of one direction of the bridge | (instanced by `LoopWrite` and `LoopRead`) |
| `SequenceLemmas` | lemmas on `SubSeq`, `\o` and `Append` used by both proof modules | (tlapm) |
| `IfInfo` | GetNumIfs, buildIfInfos, GetIfInfoAt, `lastIfInfo` | `MCIfInfo.cfg`, `MCIfInfoRace.cfg` |
| `IfInfoProofs` | TLAPS proofs about `IfInfo` | (tlapm) |
| `MCLoopWrite`, `MCIncoming`, `MCLoopRead`, `MCIfInfo` | model values and constant definitions for TLC | |

`PROJECT.json` maps every definition to the lines it translates.

### LoopWrite

**Data.** A record the client writes is abstracted to its position in the
stream. For UDP it also carries its header destination: an address, none
(`NoAddr`), or an undecodable header (`BadAddr`). The history `clientSent` and
the endpoint's accepted sequence `epSent` make the stream properties
statable. `pipeIn` is the zircon socket, bounded by `PipeCap`. `sndQ` is the
endpoint send buffer, bounded by `SndCap`.

**Control.** `wpc` is loopWrite's program counter, one value per blocking
point:

| Action | Code |
|---|---|
| `WRead` | the Read at 80 with its ErrOk, BadState and PeerClosed cases, and the header parse at 117-131 |
| `WWait` | zxwait and the tie-break at 93-105 |
| `WWrite` | one `Endpoint.Write`, with partial TCP writes at 166 |
| `WWaitRes` | `<-resCh` at 143 |
| `WWaitOut` | the uninterruptible `<-notifyCh` at 151 |
| `CloseBegin`, `CloseJoin` | Close, 718-735 |

* `WWait` also covers the empty ReadDisabled case, which falls through.
* `WWrite` also covers the register/unregister at 133/171, which decides
  whether an EventOut notification reaches `notifyCh`.
* `CloseJoin` blocks until `wpc = "done"`.

**Environment.** The client (`ClientWrite`, `ClientShutdown`,
`ClientCloseRequest`, `ClientCloseHandle`) and the network (`EpDrain`,
`EpFail`) are modelled from the spec, since their code is not in this
repository.

**Panics.** A panic moves `wpc` to `"crashed"`, and `Terminated` then
stutters.

### Incoming

* **loopRead** is the actions `RRead`, `RSelect`, `RLock` and `RSignal`. They
  cover the Read returning ErrInvalidEndpointState, the select on `closing`
  and `inCh`, and `SignalPeer` under the mutex.
* **Accept** is the actions `AAccept`, `ALock`, `ACheck`, `AClear` and
  `AShare`. Their program counter follows the code's order: dequeue, lock,
  read readiness, clear, unlock, share.
* **inCh** is a Boolean, because a capacity-1 channel coalesces
  notifications.
* **The endpoint's accept queue** is the counter `acceptQ`, bounded by
  `Backlog`. The environment action `Arrive` adds a connection and notifies
  `inCh`.

### LoopRead

**Data.** A unit the endpoint receives is a record of its position and, for
UDP, its sender (`Sources`). `epArrived` is everything the endpoint has
received, `readN` how much of it loopRead has read, `v` the records loopRead
holds between its Read and its writes, `pipeOut` the zircon socket (bounded
by `PipeCap`) and `clientGot` what the client has read from it. The endpoint
state `epState` (init, connecting, connected, refused, closed) and `epFin`
(the peer's FIN) decide what `Endpoint.Read` returns (`ReadResult`). `inCh`
and `outCh` are the capacity-1 notification channels; `inReg` and `outReg`
say whether their entries are registered, so a notification reaches the
channel only while registered.

**Control.** `rpc` is loopRead's program counter:

| Action | Code |
|---|---|
| `RRead` | the Read at 197, ClosedForReceive (198-200, ShutdownWrite), InvalidEndpointState (201-204, the panic if connected), the connect signalling at 227-244 (`ConnectSignal`, `SignalFails`), the error switch at 245-266 (`AfterRead`) and the unregister at 269 |
| `RSelect` | the select of 205-226: CLOSING, inCh (assert INCOMING), outCh |
| `RWaitOut` | the wait for a new EventOut after ConnectionRefused, 251-256 |
| `RWaitIn` | the wait for EventIn after ErrWouldBlock, 257-263 |
| `RWrite` | one `dataHandle.Write` at 286 with its outcomes, and `v = v[n:]` (293-296) |
| `RWWait` | the zxwait at 304 and its switch, 306-320 |
| `CloseBegin`, `CloseEndpoint` | Close, 718-735 |
| `ControlExit` | loopControl's defer, 330-340: the second Close (a no-op) and `dataHandle.Close` |

`Return` is loopRead's deferred unregistering at 180-187. `ClientConnect` is
the Connect request (587-596): it starts a handshake from the initial state,
or after a refusal when the endpoint allows it (`Reconnect`).

**Environment.** The endpoint (`EpEstablish`, `EpRefuse`, `EpArrive`, `EpFin`)
and the client (`ClientRead`, `ClientShutRd`, `ClientCloseRequest`,
`ClientCloseHandle`) are modelled from the spec. Their code is not in this
repository. The endpoint notifies inCh and outCh as spec 8.2 describes.

### SocketStream

`SocketStream` is what one direction of the bridge promises: a sequence
`sent` put in by a producer, a prefix `delivered` handed on, an end of
stream only after the last unit, and nothing handed on after `closed`.

* `LoopWrite` maps `sent` to `clientSent`, `delivered` to `epSent`, `ended`
  to the endpoint's write shutdown and `closed` to Close having returned.
* `LoopRead` maps `sent` to `epArrived`, `delivered` to
  `clientGot \o pipeOut` (what has reached the zircon socket), `ended` to
  loopRead's ShutdownWrite at 199 and `closed` to loopControl's
  `dataHandle.Close`.

Each module states the refinement as `ImplementsStream == Stream!Spec`.

### IfInfo

* **Interfaces.** They are model values. `AddNic` and `RemoveNic` change the
  set; the loopback is never removed.
* **GetNumIfs** is `NumBuild`, `NumAssign` and `NumCount`. `NumBuild` is
  buildIfInfos; it picks any order of the non-loopback interfaces
  (`Snapshots`), because Go map iteration order is random. `NumAssign` is the
  write of `lastIfInfo` at 680. `NumCount` is its re-read at 682. More
  interfaces than `InfoMax` (NETC_IFINFO_MAX) is the index panic at 465.
* **GetIfInfoAt** is `AtCheck` (686-699: nil, bad length, index out of range)
  and `AtFetch` (700). Each reads `lastIfInfo` afresh.
* **Clients.** A client either lists, calling GetNumIfs and then GetIfInfoAt
  for each index, or sends a query of its own (`StrayQuery`).
* **Entries.** An entry is abstracted to its interface and index. Name
  truncation and address encoding are not modelled.

## Runs

| Run | Expect | What it shows |
|---|---|---|
| `MCLoopWriteTCP.cfg` | pass | See below. |
| `MCLoopWriteUDP.cfg` | pass | The same properties for datagrams: to an address, to none, or with an undecodable header (which ends loopWrite at 120-127). Link resolution is retried. |
| `MCLoopWriteUDPShut.cfg` | violation of `NoPanic` | A UDP client shuts down its write side while loopWrite waits. The ReadDisabled case at 94 is empty, so control reaches line 130 with an empty buffer and `v[HEADER_SIZE:]` panics. |
| `MCIncoming.cfg` | pass | Three connections into a backlog of two. `NoLostIncoming`: while loopRead listens, a queued connection is INCOMING or still owed a signal. `IncomingAnnounced`: every queued connection is eventually announced, accepted, or the socket closes. |
| `MCIncomingStale.cfg` | violation of `IncomingOnlyWhenPending` | Accept takes a connection before loopRead has asserted INCOMING for it. INCOMING then stays asserted over an empty queue, contrary to "asserted iff an accept is pending" (spec 3, 8.2). |
| `MCIncomingPanic.cfg` | violation of `NoPanic` | The client closes its handle while Accept runs. `SignalPeer` fails with PEER_CLOSED and line 627 panics. Spec 7 calls that outcome benign, and loopRead treats it so at 217-218. |
| `MCLoopReadTCP.cfg` | pass | See below. |
| `MCLoopReadUDP.cfg` | pass | Three datagrams from two senders pass through a socket that holds one. `ReadFidelity` and `ImplementsStream`: each reaches the client whole, in order and with its sender. |
| `MCLoopReadFin.cfg` | violation of `ConnectedBeforeEOF` | The peer's FIN arrives before loopRead's first Read after the handshake. The Read returns ClosedForReceive, and line 198 returns before the connect signalling at 227. The client's read side is shut, but CONNECTED is never asserted. |
| `MCLoopReadReconnect.cfg` | violation of `ConnectAnnounced` | A refused connect notifies both channels. The select at 205 may take inCh, which asserts INCOMING on a socket that never listened and unregisters outEntry (210). The comment at 248-250 expects an EventOut from a second connect, but that EventOut now reaches no channel. When the second Connect succeeds, CONNECTED is never asserted. |
| `MCIfInfo.cfg` | pass | One client lists while interfaces come and go. `ListingConsistent`: it receives exactly the entries of the snapshot its own GetNumIfs counted. |
| `MCIfInfoRace.cfg` | violation of `ListingConsistent` | See below. |

**MCLoopWriteTCP.cfg.** Four writes go through a 2-record socket into a
2-record send buffer, with shutdown and Close at any point. It checks:
* `StreamFidelity`: the endpoint gets a prefix of the client's stream;
* `CloseDrains`: a normal return of loopWrite has passed on everything
  written before it;
* `NoWriteAfterClose`: no write is accepted after Close returns;
* `CloseCompletes`: Close returns.

**MCLoopReadTCP.cfg.** A connect may be refused and tried again. Two bytes
pass through a one-byte socket, the peer may send FIN, and the client may
read, shut down or close at any point. It checks:
* `ReadFidelity`: the client reads a prefix of what the endpoint received;
* `EOFAfterAllData`: the read side is shut only after the last byte reached
  the socket;
* `ConnectedOnce`: CONNECTED is asserted at most once, and only after a
  handshake;
* `NoReadPanic`: the panic at 202 is unreachable, even when a reconnect
  follows a refusal;
* `LoopReadExits`: once CLOSING is signalled, loopRead returns. The comment
  at 737-738 says Close cannot join loopRead because the socket may be full.
  Every wait of loopRead includes CLOSING or a closed handle, so loopRead
  still exits without the join;
* `ImplementsStream`: the refinement of `SocketStream`.

**MCIfInfoRace.cfg.** Two clients list an unchanging set of interfaces. The
second client's GetNumIfs replaces `lastIfInfo` with another map order, so an entry
the first client fetches belongs to a different order than the one its
count came from. The comment at 497-498
says the global avoids this race.

Each property of a passing run has a mutant in `PROJECT.json`: a plausible
bug in the mapped code that TLC finds. Examples are Readable tested after
CLOSING, Accept without the mutex, and a 1-based index at 700.

### Bounds

**LoopWrite.** The bounds are `PipeCap = SndCap = 2`, `MaxRead = 2` and
four writes. Together they reach:
* a read that takes part of the socket;
* a send buffer that fills, so the write blocks on EventOut;
* a TCP write that is accepted in part;
* client shutdown and Close at every program point.

UDP uses three datagrams, one of each header kind.

**LoopRead.** For TCP, `MaxData = 2`, `PipeCap = 1` and `MaxConnects = 2`
with `Reconnect`. That reaches:
* a write-out loop that blocks on a full socket and resumes;
* a refusal followed by a second handshake;
* FIN after data;
* Close and every client action at every program point.

For UDP, three datagrams from two senders reach a socket that holds one.

**Incoming.** `MaxConns = 3` exceeds `Backlog = 2`. That lets arrivals
coalesce in `inCh` while Accept holds the mutex.

**IfInfo.** Four interfaces, one of them loopback, with `InfoMax = 2`. That
reaches both a non-trivial reordering and the overflow branch. Two
additions or removals let a listing overlap a change.

## Fairness

The liveness runs use `FairSpec`.

* **LoopWrite.** It assumes weak fairness of loopWrite's and Close's steps:
  Go schedules runnable goroutines. It also assumes weak fairness of
  `EpDrain \/ EpFail`: the network eventually drains the send buffer or fails
  the connection. TCP's retransmission timeout gives this for a peer that
  has gone away. It does not hold for a live peer that stops reading: the
  zero window is probed and acknowledged forever, the wait at 151 is never
  woken, and Close, which joins loopWrite, would hang (hazard at 151). So
  `CloseCompletes` shows only that CLOSING wakes the wait at 91 and that
  nothing else blocks Close; that hang is assumed away, not checked.
* **Incoming.** It assumes weak fairness of loopRead's and Accept's steps and
  of Close.
* **LoopRead.** It assumes weak fairness of loopRead's six actions, and of
  `CloseBegin`, `CloseEndpoint` and `ControlExit`: loopControl serves a
  pending Close and then returns. The endpoint's actions are not fair: a
  handshake may never complete.
* **Not fair.** The client's actions are never fair: the client may stop at
  any point.

## Proofs

TLAPS proves the following for every value of the constants under the
module's `ASSUME`.

`LoopWriteProofs` proves `TypeCorrect`, `StreamFidelityHolds`,
`CloseDrainsHolds` and `NoWriteAfterCloseHolds`. `StreamFidelity` is not
inductive. The strengthening `IInv` in `LoopWrite` adds these conjuncts:
* `BufEmptyAtRest`: loopWrite holds no records at rest, or after a normal
  return;
* `Conserved`: without an error, `epSent \o buf \o pipeIn = clientSent`. No
  record is lost or duplicated between the socket, loopWrite's buffer and
  the endpoint.
* `FailedPrefix`: after an endpoint error, loopWrite is done and the stream
  is still a prefix;
* `DoneCount`: a normal return has sent exactly the `wDoneAt` records
  written before it;
* `ClosedJoined`: a returned Close implies loopWrite is done, which gives
  `NoWriteAfterClose`.

The argument has these steps:
* `Conserved` is preserved by each action through lemmas on sequence
  concatenation: associativity at `Rec`, and the split of a prefix taken by
  a read or a partial write.
* `StreamFidelity` and `CloseDrains` follow from `Conserved`.
* `DoneCount` and `BufEmptyAtRest` make the return cases work.

`IncomingProofs` proves `TypeCorrect` and `NoLostIncomingHolds`. The
strengthening adds two conjuncts:
* `MutexOK` ties the mutex owner to the program counters.
* `ClearOwed` says that an Accept about to clear INCOMING after reading zero
  readiness leaves any connection queued since then owed by loopRead: a
  notification in `inCh`, or loopRead waiting for the mutex.

Both facts are needed, because the clear at 626 is safe only since loopRead
cannot be between its wake-up and its `SignalPeer` while Accept holds the
mutex.

`LoopWriteProofs` also proves `ImplementsStreamHolds`: `LoopWrite` refines
`SocketStream`.
* Each client write is a `Send`.
* An `Endpoint.Write` that accepts `n > 0` records is a `Deliver` of the next
  `n` (lemma `WriteDelivers`).
* The endpoint's write shutdown is `End`.
* The Close after the join is `Close`.
* Every other step is a stutter.

`SequenceLemmas` holds the generic facts these proofs cite. Examples: a split
of a sequence at `n`, a prefix of a prefix, appending the head of one
sequence to another.

`LoopReadProofs` proves `TypeCorrect`, `ReadFidelityHolds`,
`EOFAfterAllDataHolds`, `ConnectedOnceHolds`, `NoReadPanicHolds` and
`LoopReadImplementsStream`. All rest on `IInvHolds`: `Spec => []IInv`. The
conjuncts of `IInv` are:
* `Conserved`: until loopRead returns,
  `clientGot \o pipeOut \o v = SubSeq(epArrived, 1, readN)`. This is the
  read side's conservation law. It carries `ReadFidelity` through partial
  writes (293).
* `DeliveredPrefix`: what reached the socket is a prefix of `epArrived`,
  even after loopRead returned.
* `VAtRest` and `VPending`: v is empty except while writing. `EOFDone` needs
  this, because ShutdownWrite happens from a Read state.
* `EOFDone`: after ShutdownWrite, loopRead is done and everything was
  delivered.
* `ConnectedState`, `SignalCount` and `EstabSeen`: `connected` is set only
  once the endpoint is connected or closed, CONNECTED was asserted exactly
  when `connected` is set for TCP, and a handshake came before it. These
  give `ConnectedOnce` and rule out the panic at 202.
* `FinState`, `DatagramConnected` and `DatagramV`: what `ReadResult` and a
  datagram write need. A FIN arrives only on a connected endpoint. UDP is
  always connected. Datagram reads take one record.

The step proof has one lemma per group of conjuncts:
* `FlagsStep` and `StateStep` for the types;
* `ConnectStep` for the connect bookkeeping;
* `StreamStep` for the sequence conjuncts.

Each has one case per action. The refinement maps:
* `EpArrive` to `Send`;
* `RWrite`'s successful write to `Deliver`;
* `RRead`'s ClosedForReceive, with dataHandle still open, to `End`;
* `ControlExit` to `Close`;
* everything else to a stutter.

`ClientRead` keeps `clientGot \o pipeOut` unchanged.

`IfInfoProofs` proves two theorems about the interface listing.
`IfInfo` builds a snapshot from `Bijection` of the Functions module, so
nothing it reaches is RECURSIVE.
* `TypeCorrect`: `Spec => []TypeOK` for any number of clients and any
  finite set of interfaces. `TypeOK` alone is not inductive. `CountInv`
  adds what GetIfInfoAt's reads need:
  * the stored snapshot has at most `InfoMax` entries;
  * a client's index never passes the count it fetched;
  * a client in `count`, `fetch` or `strayFetch` finds `lastIfInfo`
    already built.
  The lemma `SnapshotFacts` shows that every snapshot that passes the
  NETC_IFINFO_MAX check is a sequence of at most `InfoMax` entries.
* `ListingConsistentAlone`: `ListingConsistent` holds when one client is
  the only one listing, whatever interfaces come and go. That is the
  instance `MCIfInfo.cfg` checks. `ListingInv(c)` is the strengthening:
  * from GetNumIfs' store to its read at 682, `lastIfInfo` is the
    snapshot built;
  * while querying, `lastIfInfo` is still the client's own snapshot
    `mine[c]`, and the count is its length;
  * the entries received so far are the first `ci[c]` of `mine[c]`.
  The hypothesis `Clients = {c0}` cannot be dropped: with two clients the
  second one's GetNumIfs replaces `lastIfInfo` under the first. That is
  the `ifinfo_race` violation.

**Only model-checked.** Some things stay with TLC:
* the liveness properties `CloseCompletes`, `IncomingAnnounced` and
  `LoopReadExits`, which
  need fairness and ENABLED, both outside TLAPS;
* `ListingConsistent` with several clients, which is false (`ifinfo_race`).

## Not modelled

* **loopControl's request loop** (345-404): reading, decoding and answering
  FIDL messages is I/O over the control channel. Its state-changing effects
  are modelled where they matter: the Close request (`ClientCloseRequest`),
  Connect, Listen and Accept, and the deferred exit (`ControlExit`).
* **tcpipErrorToCode** (503-585): a stateless switch from tcpip errors to
  errno codes, with a panic for an error it does not list. Whether an
  endpoint can return an unlisted error depends on the tcpip package, which
  is not in this repository.
* **Bind, GetSockOpt, SetSockOpt, GetSockName, GetPeerName, and the address
  codec:** each is a single endpoint call and an errno conversion, and the
  bridge keeps no state for them. The marshalling is cgo-generated code that
  is not in this repository.
* **The NETC_IFINFO_MAX overflow at 465:** `IfInfo` reaches the panic
  branch. Whether it can happen depends on how many interfaces the netstack
  may have, which is defined outside this repository.
* **`netstack_test.go`:** it tests NIC configuration code outside this file.
* **loopWrite and loopRead together:** they share only Close and the
  client's handle. Each module models Close with the goroutine it joins or
  does not join. A composition would add no interaction that either module
  lacks.
