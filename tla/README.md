# TLA+ models of the RIC E2 termination

The E2 termination (`RIC-E2-TERMINATION`) sits between E2 nodes, which connect
over SCTP and speak E2AP, and the RIC platform, which it reaches over RMR. One
thread, the listener, does nearly all of the work: it accepts associations,
registers each E2 node under its RAN name when it sets up, relays PDUs in both
directions, reports associations that end, and follows its configuration file.
The main thread starts everything and announces the instance to the E2 manager;
a third thread follows the log level. This directory models these threads,
states what has to hold of them, checks it with TLC on small instances and
proves the safety part with TLAPS for instances of any size.

## The system

| Part | State | Operations | Correct if |
| --- | --- | --- | --- |
| Listener (`listener`, `receiveDataFromSctp`, `receiveXappMessages`, `handlepoll_error`) | the `ConnectedCU_t` objects, the epoll batch, the object being read | accept, read and dispatch, tear down, serve the RIC | no freed object or null counter is used; messages reach the node they are for |
| Name map (`mapWrapper`, `sctpMap`) | RAN name -> object | `setkey`, `erase`, `find`, `clear`, `getKeys` | it leads to live objects that carry the name |
| Procedure map (`connectionHandlingPerE2NodeMap`) | RAN name -> procedure status, transaction id of the setup | insert, set, remove, look up | it knows the same E2 nodes as the name map |
| Reports to the E2 manager | what was sent over RMR | `RIC_E2_SETUP_REQ`, `RIC_SCTP_CONNECTION_FAILURE` | a reader of the reports knows which E2 nodes can be reached |
| Event loop | kernel ready list, accept queue, receive buffers | `epoll_wait`, `accept`, read until `EAGAIN` | nothing waits unannounced behind an edge-triggered descriptor; everyone gets a turn |
| Stream selection | `isSingleStream`, `singleStreamId` | `fetchStreamId` | the stream exists, or is the one the node that takes one stream only asked on |
| Main thread (`main`, `handleTermInit`) | what was set up, `num_of_XAPP_messages`, `transactionCounter` | set up RMR, inotify, the port and the listener; resend `E2_TERM_INIT` | nobody learns of an instance that does not listen; it is announced until a first message is counted |
| RMR send path (`sendRmrMessage`) | `sendMessage`, `rcvMessage`, the buffer of `buildAndSendSetupRequest` | write, send, one retry, reallocate | no buffer is leaked or used after it was given away; a message carries what was meant |
| RAN names (`BuildRunName.h`) | - | format PLMN and node id | identities whose parts print alike only when equal have different names; names fit in `enodbName`, and in an RMR meid where PLMNs are decimal |
| Configuration watch (`buildConfiguration`, `handleConfigChange`) | the trace switch | read at start, watch the directory, read again | the switch ends up as the file says |
| Log level watch (`monitor_loglevel_change_handler`) | the severity | the same, in a thread of its own | the level ends up as the file says |
| Base64 and the trace record | the buffer of a read loop | encode, print | the record decodes to the message |
| XML, OpenTracing, Prometheus | - | helpers | - |

The parts meet in the listener. A PDU goes through `getE2tProcedureOngoingStatus`
(procedure map) before it is relayed; a message of the RIC goes through
`sctpMap->find` (name map). A setup request writes to the name map, to the
object, to RMR and to the procedure map, in this order and with an early return
in between; the end of an association undoes all four, in two handlers that
were written separately; `RIC_SCTP_CLEAR_ALL` undoes three of them for all
nodes at once. The main thread shares only two counters with the listener.

What is hard here is not parallelism but order: events are fetched in batches
and handled later, objects are freed while the batch or the name map still
points to them, addresses are reused, E2 nodes reconnect before their old
association is noticed to be gone, setup requests are repeated, changed or
incomplete, and two of the three kinds of descriptors are edge triggered.
`PROJECT.json` lists these hazards at their lines, with the properties that
cover them.

## Modules

| Module | Models |
| --- | --- |
| `ProcedureMap` | the procedure map as pure operators, and `getSendMsgBitSetValue`. An absent key is mapped to `NoEntry`; `E2_SETUP_PROCEDURE_NOT_INITIATED` is what the code returns for absent keys and never stores |
| `E2Term` | the listener thread, one action per event or PDU kind; see below |
| `E2Relay` | the abstract specification: a set `up` of E2 nodes, changed only by a reported setup and a reported failure, and PDUs relayed for members of `up` only |
| `E2TermProperties` | type invariant, invariants and the refinement mapping (`up` is the set of names that `sctpMap` has) |
| `E2TermProofs` | theorems about `E2Term` |
| `MCE2Term` | stream configurations and symmetry for TLC |
| `EventLoop` | epoll, the accept queue, receive buffers and the loop that serves them; leaves out what the handlers do with a PDU |
| `EventLoopProperties`, `MCEventLoop`, `EventLoopProofs` | its properties, the module TLC runs and the proofs |
| `RmrBuffers`, `MCRmrBuffers`, `RmrBuffersProofs` | the RMR buffers of the listener thread through every handler that sends |
| `TermInit`, `TermInitProofs` | start-up and announcement of the instance, losses and restarts |
| `RanName`, `MCRanName`, `RanNameProofs` | the name of an E2 node as a function of its identity, and registration under it |
| `WatchedFile` | a file in a watched directory, what other processes do to it, and the inotify queue |
| `ConfigWatch`, `ConfigWatchProofs` | the watcher of the configuration file (extends `WatchedFile`) |
| `LogLevelWatch`, `LogLevelWatchProofs` | the watcher of the log level file (extends `WatchedFile`) |
| `Base64`, `Base64Proofs` | `encode`, `decode` and `buildJsonMessage` |

`E2Term` and `EventLoop` are two views of the same thread: `E2Term` lets
`epoll_wait` return any set of live descriptors and models what handlers do to
the maps; `EventLoop` models which events there are. Every sequence of events
of the second is one that the first allows. `RmrBuffers` is a third view: a
handler of `E2Term` is there the sequence of messages it sends, one step per call
of RMR. `RanName` opens what is a model value in `E2Term`. `TermInit`,
`ConfigWatch` and `LogLevelWatch` share no state with `E2Term`: of the listener
`TermInit` keeps only its count of messages, and the trace switch and the level
decide nothing but what is logged.

### How `E2Term` corresponds to the code

- `Peers` are heap addresses; `alloc` has those that hold a `ConnectedCU_t`.
  Allocation takes any free address, so a stale pointer may come to lead to
  another node's object.
- `enodbName`, `single`, `assoc` and `counters` are fields of the object:
  RAN name, `singleStreamId` (or `NoStream`), what the association negotiated,
  and whether `buildPrometheusList` has set the counters.
- `batch` are the events `epoll_wait` returned and the loop has not reached,
  `cur` is the object whose read loop runs. A handler is one step because there
  is one listener thread (`num_cpus = numberOne` in `main`).
- `crashed` stands for undefined behaviour: an event of a freed object,
  a message of the RIC that `sctpMap` leads to a freed object or to an object
  without counters, a `RIC_SCTP_CLEAR_ALL` over such entries, a PDU that is
  dispatched on an object without counters. These states have no other
  successor for the step concerned, and nothing is promised after it.
- `rmrOut` and `sctpOut` are the messages of the last step; `e2mView` is what
  somebody knows who was sent all reports so far.
- `Env` says what the surroundings may do, so that each run and each theorem
  names what it depends on: `"renames"` (a later setup request of an association
  with another, a bad or no identity), `"omitsTid"` (a setup request without
  TransactionID), `"overlaps"` (a node connects again before the old association
  ended), `"clears"` (`RIC_SCTP_CLEAR_ALL`), `"rmrLoss"` (a message does not
  reach the RIC), `"statusFails"` (`getsockopt(SCTP_STATUS)` fails and the
  stream counts are read uninitialized).
- `StreamConfigs` are the numbers of streams an association may have negotiated,
  in each direction. With one inbound or one outbound stream
  `handleE2SetupReq` keeps the stream of the request, also where it does not
  exist in the other direction.

Names are model values. `collectSetupRequestData` copies a new name over the old
one without a terminator, so with `"renames"` the model assumes names of equal
length.

### How the other modules correspond to the code

**`RmrBuffers`.** `owner` says who may use an `rmr_mbuf_t`, `payload` what it
holds of ours, `asndata` where `message.asndata` points. `todo` is the rest of the
running handler: for each message the slot it is sent from, whether the handler
writes the payload or relies on it, and whether `sendRmrMessage` retries. RMR
may take a buffer and return another, take it and return null, or refuse it
with or without a retryable state. With `"subMgr"` in `Env` an ErrorIndication
may be one that also goes to the subscription manager.

**`TermInit`.** `main` walks through `getRmrContext`, `buildInotify`,
`buildListeningPort` and the creation of the listener thread with its mutex, any
of which can end the process, then through the loop of `handleTermInit`. The wait is a
counter modulo `Period`. The check of `num_of_XAPP_messages` and the send are
separate steps. `Restart` starts the container again; `"old"` stands for
what the E2 manager knew, or had under way, of the instance before. Its messages
count like those of the new one, so `StopsKnown` speaks of both.

**`RanName`.** A name is a record of prefix, PLMN digits, bit string digits and
suffix, made as `snprintf` and the shifts make it: a nibble above nine printed as
two characters by `%1d`, the PLMN cut to what is left of 19 characters, octets
combined before they are masked. Nodes connect and leave under their names.

**`WatchedFile`, `ConfigWatch`, `LogLevelWatch`.** Others write (open and
truncate, write, close: three steps), move another file over, remove or read.
The kernel merges an event with an equal one at the end of the queue. Of
`handleConfigChange` the read of events, `exists`, `file_size` and the reading of
the file are separate steps, and the reading raises events itself, because the
directory is watched for opening and closing.

**`Base64`.** Symbols are indices of `base64_table`. A record is made of a
message in the buffer that holds the text of the one before it. What `decode` keeps
and what it puts where is written by position, not as a loop.

## Runs

| Run | Instance | Shows |
| --- | --- | --- |
| `relay` | 2 nodes, 3 objects, batches of 2, `overlaps` | both maps, the E2 manager and the relay contract agree, messages reach their node, nothing freed is used |
| `clear_all` | 2 nodes, 2 objects, batches of 1, `clears`, `statusFails` | with one event per batch `RIC_SCTP_CLEAR_ALL` is harmless although the procedure map keeps its entries; every named association stays reachable |
| `lossy` | 1 node, 2 objects, batches of 2, one or two streams in each direction, `overlaps`, `omitsTid`, `rmrLoss` | what still holds when reports get lost and setups are ignored; messages go out on a stream that exists, or, if there is one outbound stream only, on the stream of the setup request |
| `event_loop` | 2 nodes, buffers of 2, 2 RMR messages | no data and no connection is missed; losses and connections are got round to |
| `event_loop_errors` | 3 nodes, buffers of 1, garbage, bursts and accept errors | the RIC is served nevertheless; no event is dropped or overtaken |
| `rmr_buffers` | 4 buffers, 2 contents | no buffer is lost, messages carry their data, traces read owned bytes |
| `term_init` | period 2, 2 waiting messages, 1 restart, lost `E2_TERM_INIT`s | only a listening instance is known; the announcements end, after RMR took one of this instance and a message of somebody who knows it or the one before was counted |
| `ran_names` | up to 3 of 24 identities of 8 kinds (10 prefixes), 4 of them with a PLMN that is not decimal | names are unique there, have the value of the identity and fit in `enodbName`; in an RMR meid all but those of CU-UPs and DUs whose PLMN is not decimal |
| `config_watch` | 4 changes, batches of 3 events, 4 contents, removals | the trace switch settles on what the file says, the watcher comes to rest, and every step of it leaves less to do |
| `log_level_watch` | 3 changes, batches of 2, 6 contents, moves and removals | the level settles on what the file says |
| `base64` | messages of up to 5 octets | every record decodes to its message, broken into lines or not |
| `clear_in_batch` | as `clear_all` with batches of 2 and without `statusFails` | **violation**: the use of a freed object, see the finding in `PROJECT.json` |

The bounds are the sets of nodes, objects and transaction ids, `MaxEvents`
(128 in the code), and in `EventLoop` the sizes of receive buffers and of the
RMR queue. Two nodes and three objects are enough for an overlap of one node
beside another node, with a free address left over, and for the reuse of a freed
address by the same or another node; a batch of two is the least in which one
event can spoil another. `clear_all` has batches of one on purpose: with two,
`clear_in_batch` shows the use of a freed object. One or two streams are what
`fetchStreamId` tells apart, since it uses streams 0, 1 and the kept one; two
outbound streams with one inbound are like one with one, because stream 0 is
kept in both cases. `lossy` and `clear_in_batch`
switch the deadlock check off because undefined behaviour ends the model, the two
watches because they wait when nobody changes the file. Objects and names are
symmetric in `E2Term`, buffers and contents in `RmrBuffers`.

Four RMR buffers are one more than a handler holds at once, so that one given
away can come back as another. `Period` is 1000 in the code; with 2 both a wait
with and one without a resend occur. One restart gives one old and one current
instance, which is all the messages tell apart. Three nodes that are connected
at a time can collide in pairs and leave in any order. `MaxChanges` and
`MaxEvents` of the watches bound what others do; four changes and batches of
three let changes fall before, into and behind a batch. Five octets are one
whole group and a rest of each size; 10 symbols of room are the 200 percent that
`buildJsonMessage` has, and a message of 4 octets leaves less than a group of it.

`clear_all` leaves `"overlaps"` out. With both, a node that reconnected without a
setup request could use the procedure entry of the cleared one; that is a
combination for a model of the E2 manager, which sends the clear.

## Liveness and fairness

`EventLoop!Spec` has one fairness assumption, `WF_vars(Listener)`: the thread
keeps running. The code justifies it, since every blocking call of the loop
either returns with an event or times out (`sleep(1)` after a clear apart).
Nothing is assumed of E2 nodes or the RIC. The read loop of
`receiveDataFromSctp` has no bound, so a node that never stops sending does
starve everyone else; the liveness properties therefore say "if every read loop
ends" (`ReadingEnds`). That is an assumption about E2 nodes, not about the code.

`ConfigWatch!Spec` and `LogLevelWatch!Spec` assume the same of the thread that
watches, and nothing of those who change the file: `WatchQuiets` holds because
changes are bounded, so it says "once nobody changes the file".

Two of these liveness properties have a safety core that needs no fairness and is
proved. `HandlingEnds` bounds the steps of the watching listener thread by what
others caused (`Work`). `NoOvertaking`, with a line of bounded length
(`LineIsBounded`), bounds the turns an event waits for; that a turn ends is what
`ReadingEnds` adds.

`TermInit!Spec` assumes that both threads are scheduled (`Scheduled`) and three
things of the RIC (`RicWorks`): RMR takes a message that is offered again and
again, an `E2_TERM_INIT` that is sent again and again arrives, and the E2 manager
sends keep-alive requests to an instance it knows. All three are needed for
the loop to end, and no code of the E2 termination can provide them.

## Proofs

`E2TermProofs` proves, for all sizes of all constants:

| Theorem | Assumes of `Env` | States |
| --- | --- | --- |
| `TypeCorrect` | nothing | `TypeOK` |
| `MapIsSound` | no `renames` | `MapSound` |
| `DownlinkReachesOwner` | no `renames` | `DownlinkToOwner` |
| `NamedStayRegistered` | no `overlaps` | `NamedIsRegistered` |
| `StreamsExist` | nothing | `StreamExists` |
| `PointersValid` | no `renames`, `omitsTid`; `clears` only with `MaxEvents = 1` | `NoUndefinedBehaviour` |
| `MapsAgree` | no `omitsTid`, `clears`; not `renames` with `overlaps` | `ProcRegistered` |
| `E2ManagerKnows` | no `omitsTid`, `rmrLoss`; not `renames` with `clears` or `overlaps` | `E2MgrView` |
| `RelayedOfRegistered` | not `overlaps` with `renames` or `clears` | `UplinkRegistered` |
| `RelayedAfterSetup` | no `rmrLoss`; not `clears` with `omitsTid` or `overlaps` | `UplinkAfterSetup` |
| `ListenerIsRelay` | no `omitsTid`; at most one of `renames`, `clears`, `overlaps` | `ImplementsRelay` (refinement) |

What is assumed is needed, and nothing more is: for each of these conditions TLC
finds a counterexample when it alone is dropped, on two or three objects (the first
rows of "Where the code departs" below are some of them). So the table also says
which combinations the code tolerates. The constants'
assumptions are `NamesAssumption`, `TidsAssumption`, `PeersAssumption`,
`StreamAssumption`, `BadIdAssumption`, `MaxEventsAssumption`, `EnvAssumption`.

The argument: `MapSound` alone is not inductive, because a setup request
registers the object of the read loop, which has to be allocated. `Loop` says so,
and that its event is not in the batch any more; the latter is what makes a
teardown inside the read loop safe for the batch. With `EventsLive` (events in
the batch are of allocated objects) and `NamedCounted` (an object with a name has
counters) no disjunct of `UndefinedBehaviour` is enabled. A clear keeps
`EventsLive` only if the batch has no other event, which `OneEvent` says of batches
of one; that needs the number of objects to be finite, since `EpollWait` counts.
What `handleE2SetupReq` keeps is an inbound stream of the association
(`StreamKept`). If the counts can be read, it keeps one whenever there is a
single outbound stream; so stream 1 is used only where there are two, and a kept
stream is out of range only for one outbound stream with several inbound ones.

For the views, each step is shown to do the same to the names in `sctpMap`, in
the procedure map and in the E2 manager's view; the status functions never produce
the value that stands for "absent" (`StatusNeverReset`). What can part them is a
request without a GlobalE2node_ID, which is reported under the old name:
`OldNameRegistered` says that this name is still in `sctpMap`. A clear takes all
of `sctpMap` away and reports the names the objects carry, which are the same ones where
`MapSound` holds. `RelayedFrom` says what may be in an RMR message of any step;
with it, `UplinkRegistered` and `UplinkAfterSetup` come down to what is known of an
association whose setup was seen, `SeenRegistered` and `SeenKnown`. Each has
two proofs: from the two maps (`EntryRegistered`, `EntryKnown`: an entry of the
procedure map is a name in `sctpMap`, or one the E2 manager knows), or from the
object (`NamedIsRegistered`, `NamedKnown`) where clears leave entries behind. The
refinement follows: setup is `ComeUp`, teardown and clear are `GoDown`, and relayed
PDUs are of a node that is `up` by `UplinkRegistered`.

The other proof modules, again for all sizes of all constants:

| Theorem | Assumes | States |
| --- | --- | --- |
| `EventLoopProofs!LoopTypeCorrect`, `RmrNeverMissed` | nothing | `TypeOK`, `NoMissedRmr` |
| `EventLoopProofs!DataNeverMissed` | no `garbage` | `NoMissedData` |
| `EventLoopProofs!ConnectionNeverMissed` | no `bursts`, `acceptErrors` | `NoMissedConnection` |
| `EventLoopProofs!NobodyOvertakes` | nothing | `NoOvertaking` |
| `EventLoopProofs!LineIsBounded` | finitely many nodes | at most `2 * (nodes + 2)` events wait |
| `RmrBuffersProofs!BuffersTypeCorrect`, `BuffersAccounted` | nothing | `TypeOK`, `NoBufferLost` |
| `RmrBuffersProofs!TracesAreOwn`, `MessagesCarryTheirData` | no `subMgr` | `TracesOwnBuffer`, `CarriesItsData` |
| `TermInitProofs!StartUpTypeCorrect` | nothing | `TypeOK` |
| `TermInitProofs!KnownIsReachable`, `StopsAreAnnounced`, `StopsAreKnown`, `OneIsLate` | nothing | `KnownIsListening`, `StopsAnnounced`, `StopsKnown`, `AtMostOneLate` |
| `RanNameProofs!NamesFit`, `DigitsCarryValue` | nothing | `NameFitsMeid`, `DigitsAreValue` |
| `RanNameProofs!NamesTypeCorrect`, `NamesRoute` | `Fits`, `SameSizes`, `DecimalPlmns` | `TypeOK`, `RoutedToOwner` |
| `ConfigWatchProofs!WatchTypeCorrect`, `HandlingIsBounded` | nothing | `TypeOK`, `HandlingEnds` |
| `ConfigWatchProofs!TraceIsSettled` | no `early`, `moved` | `TraceSettled` |
| `LogLevelWatchProofs!LevelIsSettled` | no `early` | `TypeOK`, `LevelSettled` |
| `Base64Proofs!RecordsDecode` | nothing | `RecordDecodes` |

- Event loop: "not missed" is preserved only if a descriptor is at most once in the
  ready list and in a batch (`Once`), if the ones that are announced or read are
  accepted and not closed (`Phases`), and if every announcement of the RMR
  descriptor has a message of its own (`RmrBacked`). `Once` also bounds the line.
  What waits in the line is followed place by place: it keeps its place when
  something is added at the end or `EpollWait` moves the front to the batch, and comes
  one nearer when the batch loses its head or a closed descriptor is taken out
  (`LineMoves`, from `StaysReady`).
- Buffers: what a message relies on is set by the order of the handler's messages.
  `TodoShape` says that only the first use of `sendMessage` relies on its
  payload, `HeadSlot` that only the buffer under way can be null, `Holds`
  that the payload is there until it is sent. The second message of an error
  indication to the subscription manager breaks that, so the parts that speak of
  payloads are conditional on `NotForSubMgr`; those that account for buffers are not.
- Start-up: `Progress` has what is set up and sent at each place of main,
  `Origin` that a message that counts comes from somebody who knows an instance.
- Names: the octets of a bit string can be computed back from the digits when the
  number of unused bits is the same (`SameSizes`), PLMN digits when they are
  decimal (`DecimalPlmns`, which 3GPP requires of MCC and MNC but the code does not
  check), not cut (`Fits`), and all MNCs have two digits, or all three: 310-12 and
  310-120 print alike (the third digit of an MNC comes first in the text), which is
  why that is assumed. How long a name gets follows from its parts (`NameLength`):
  a PLMN has seven characters if it is decimal (`PlmnOfDecimal`), thirteen at
  most if it is not, and never more than the cut leaves (`PlmnLength`).
  The value of the digits needs none of this: what an octet loses at the top is what the
  octet before it already printed (`PrintedIs`), so each octet adds itself with its unused
  bits as the remainder (`OctetAdded`). Bit strings have four octets at most,
  which lets the recursion of `Value` be written out (`ValueUnrolled`) instead of
  proved by induction. `OwnersNamed`, the invariant behind both, holds where
  E2 nodes share a name, too.
- Watches: `Following` says that a switch or level that is not current will be
  set again: an event waits, is in the batch, or the file is about to be read. `Work`
  weighs a close after writing (11) more than the step that ends the reading (at
  most 3) and the two events that the reading adds (4 each), and an event in the
  queue (4) more than one in the batch (1) and the way between (`Place`); `WritesSplit`
  says that a read of events loses none.
- Base64: no induction is needed, since text and message are defined by position.
  The octets of a group come back from its four symbols (`OctetsRecovered`,
  `GroupDecodes`); only the last group is padded, by as many symbols as octets are
  missing (`LastGroup`); the break is the one symbol that is skipped
  (`BreakSkipped`). The invariant is that the buffer holds symbols and the record the
  text of the message, because the first zero is the one behind that text
  (`TextPrinted`). `MaxLengthAssumption` has messages of five octets at least, from
  where on a text and its zero fit in twice the length; the code has 128 * 1024.

Every invariant and every safety property of the runs has a theorem. Only
model-checked are the liveness properties `MainStops`, `LossReported`,
`ConnectionAccepted`, `RicServed`, `WatchQuiets` and `LevelFollows`, since the prover
handles neither fairness nor `ENABLED`. The type invariants of `TermInit`, `ConfigWatch`
and `LogLevelWatch` are proved and not run.

## Where the code departs from its comments and tests

"Closing descriptor make epoll remove it" (`sctpThread.cpp:1677`) is not true of
events that were already fetched: the run `clear_in_batch` keeps that
counterexample. The models have other departures as well. A property that is checked
elsewhere is violated when the constant named here is set:

| Where | What happens | In the model |
| --- | --- | --- |
| `sctpThread.cpp:2128` | a setup under another identity leaves the old name in `sctpMap`, which dangles after the teardown | `relay` with `Env = {"renames"}`: `NoUndefinedBehaviour` |
| `sctpThread.cpp:2143` | a setup request without TransactionID is ignored after its name was registered | `relay` with `"omitsTid"`: `ProcRegistered` |
| `sctpThread.cpp:1341` | the teardown of an old association removes the registration by name, also when the E2 node has set up again on a new one | `clear_all` with `"overlaps"`: `NamedIsRegistered` |
| `sctpThread.cpp:3163` | a node that takes one stream and sends on several is answered on the stream of its setup request, which need not exist; the log line at 3173 says that it is used nevertheless | `lossy` without the second disjunct of `StreamExists` |
| `sctpThread.cpp:1031` | the accept loop, written to run until `EAGAIN`, ends after one accept; the socket is edge triggered | `event_loop` with `"bursts"`, and likewise `"acceptErrors"`: `NoMissedConnection` |
| `sctpThread.cpp:1588` | "we must read whatever data is available completely" (line 1496), but an undecodable PDU ends the read loop | `event_loop` with `"garbage"`: `NoMissedData` |
| `sctpThread.cpp:2421` | an ErrorIndication for the subscription manager is sent on to the xApps from the empty buffer RMR returned; line 2420 says the second send must not be broken | `rmr_buffers` with `"subMgr"`: `CarriesItsData` |
| `BuildRunName.h:47` | the PLMN is cut to fit 19 characters for `ng_enB_*` prefixes; two such nodes of networks that differ in the digit printed last, like 310-410 and 310-420, share a name | `ran_names` with two such `ng_macro` identities: `RoutedToOwner` |
| `BuildRunName.h:47` | `%1d` is a minimum width and PLMN nibbles are not checked: MCCs that begin with the nibbles 1 and 10, or 11 and 0, print alike | `ran_names` with two such identities: `RoutedToOwner` |
| `BuildRunName.h:105` | with such a PLMN the name of a CU-UP or DU has up to 37 characters, and an RMR meid has room for 31 | `ran_names` without the condition on the suffix or the PLMN: `NameFitsMeid` |
| `sctpThread.cpp:669` | the configuration is read before it is watched, and a file that is moved over it later raises no event the mask has | `config_watch` with `"early"` or `"moved"`: `TraceSettled` |

These are not expressed by a property of a run, but are steps of the models:
`handleTermInit` sends one `E2_TERM_INIT` after the first message was counted, in spite of
"until first message from xApp" (line 706; `AtMostOneLate` bounds it);
after a restart a keep-alive meant for the instance before is counted and ends its
loop, also when the only `E2_TERM_INIT` that was sent got lost and nobody knows the new instance;
`file_size` throws when the file goes after `exists` (line 1143), where line 1149
means to survive that (`listener = "aborted"`); a repeated setup keeps the
first TransactionID in the procedure map (line 3042); `base64::encode` accepts 133
percent of room where its message says 140 (`base64.cpp:38`; its caller has 200).

## Not modelled

- `handleEinprogressMessages`: nothing registers for `EPOLLOUT` any more.
- `BuildXml.h`: its include and its only call are commented out; and the code
  under `#if 0` (`sctpThread.cpp:1842` to 1950).
- Text: XML, trace lines, logging, `openTracing.h`, values of counters. When a
  payload is replaced by its XML and whether that fails is modelled.
- The codecs under `3rdparty`: a PDU is what it decodes to, or garbage.
- A failing `fcntl(F_GETFD)` in the teardown (the descriptor was just read from),
  a failing `epoll_ctl` for a new descriptor, a failing allocation.
- Octets of names beyond `RanName`: `collectSetupRequestData` copies a shorter name over a
  longer one without its zero. `E2Term` has names as model values.
- Values of the configuration other than the trace switch; a log level key without a
  value; an unset environment variable; an inotify queue that overflows at
  16384 events.
- The parsing in `ReadConfigFile.h` below the level of "usable, and says start".
- `transactionCounter`, which both threads increment without synchronisation:
  nothing relies on the ids being unique.

## What could come next

The first modules are complete as planned: listener, event loop, buffers, start-up,
names, watches and Base64, each with its runs and theorems. Left are:

1. Error indications: a module on the procedure status under interleaved
   procedures of both directions, and on the transaction id that a repeated
   setup keeps; what `getSendMsgBitSetValue` then routes where.
2. `E2Manager`: the RIC side (setup response, clear after restart, keep-alive)
   composed with `E2Term` and `TermInit`, for stale responses and for `clears`
   with `overlaps`.
3. Proofs: the same for the modules of 1 and 2; in `E2Term`, what still holds
   of the environments the theorems exclude, as `EntryKnown` does where sctpMap and
   the E2 manager disagree.
