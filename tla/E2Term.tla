------------------------------- MODULE E2Term -------------------------------
(***************************************************************************)
(* The listener thread of the E2 termination (sctpThread.cpp): the epoll   *)
(* batch loop, accepting SCTP associations, the read loop of an            *)
(* association with the E2AP dispatch, the teardown of an association, and *)
(* the messages that arrive over RMR from the RIC.                         *)
(*                                                                         *)
(* There is one listener thread, so every handler is one step.  What       *)
(* interleaves is the work of the E2 nodes, of the RIC and of the loop:    *)
(* epoll_wait hands over a batch of events that are handled one by one     *)
(* later, a ConnectedCU_t can be freed while other pointers to it remain   *)
(* (the rest of the batch, sctpMap), and its address can be reused.        *)
(***************************************************************************)
EXTENDS ProcedureMap, Naturals, FiniteSets

CONSTANTS
  Peers,          \* heap addresses at which a ConnectedCU_t can live
  Null,           \* nullptr
  BadId,          \* a GlobalE2node_ID that buildRanName rejects
  NoStream,       \* isSingleStream = false
  StreamConfigs,  \* negotiated inbound and outbound stream counts
  MaxEvents,      \* MAXEVENTS, the most events one epoll_wait returns
  Env             \* what the E2 nodes, the RIC and the network may do

ASSUME PeersAssumption == /\ Null \notin Peers
                          /\ Peers \cap {"rmr", "listen"} = {}
ASSUME StreamAssumption == /\ StreamConfigs \subseteq [ins : Nat \ {0}, outs : Nat \ {0}]
                           /\ NoStream \notin Nat
ASSUME BadIdAssumption == BadId \notin Keys
ASSUME MaxEventsAssumption == MaxEvents \in Nat \ {0}
(* "renames":     an E2 node whose setup was read sends another setup request *)
(*                that has a different, no or a bad GlobalE2node_ID           *)
(* "omitsTid":    a setup request may lack the TransactionID                  *)
(* "overlaps":    an E2 node may set up a new association while an older one  *)
(*                of the same node is still open here                         *)
(* "clears":      the E2 manager may send RIC_SCTP_CLEAR_ALL                  *)
(* "rmrLoss":     a message may not reach the RIC: RMR does not take it, or   *)
(*                its buffer cannot be allocated or encoded                   *)
(* "statusFails": getsockopt(SCTP_STATUS) may fail and leave the stream       *)
(*                counts uninitialized                                        *)
ASSUME EnvAssumption ==
  Env \subseteq {"renames", "omitsTid", "overlaps", "clears", "rmrLoss", "statusFails"}

VARIABLES
  alloc,      \* the ConnectedCU_t objects that are allocated (and their descriptors open)
  enodbName,  \* ConnectedCU_t.enodbName
  counters,   \* the objects whose Prometheus counters buildPrometheusList has set
  single,     \* ConnectedCU_t.singleStreamId, NoStream unless isSingleStream
  assoc,      \* the streams the SCTP association of the object negotiated
  sctpMap,    \* RAN name -> ConnectedCU_t, Null where the key is absent
  procMap,    \* connectionHandlingPerE2NodeMap
  batch,      \* events epoll_wait returned that are not handled yet
  cur,        \* the object whose read loop runs, Null outside receiveDataFromSctp
  rmrOut,     \* RMR messages the last step sent to the RIC
  sctpOut,    \* E2AP PDUs the last step sent to E2 nodes
  e2mView,    \* the E2 manager: setup it was told of and not told the loss of
  crashed     \* the process reached undefined behaviour

conn == <<alloc, enodbName, counters, single, assoc>>
maps == <<sctpMap, procMap>>
loop == <<batch, cur>>
out  == <<rmrOut, sctpOut, e2mView>>
vars == <<conn, maps, loop, out, crashed>>

-----------------------------------------------------------------------------
(* Messages towards the RIC.                                               *)

ConnectionFailure(n) == [type |-> "RIC_SCTP_CONNECTION_FAILURE", meid |-> n]
SetupReq(n) == [type |-> "RIC_E2_SETUP_REQ", meid |-> n]

\* sendRmrMessage and the send in buildAndSendSetupRequest: after one retry a
\* message that RMR does not take is dropped and the handler goes on.  tid is
\* the transaction id inside a setup request.
SendToRic(msgs, tid) ==
  /\ rmrOut' \in IF "rmrLoss" \in Env THEN SUBSET msgs ELSE {msgs}
  /\ e2mView' = [n \in Names |->
                   IF SetupReq(n) \in rmrOut' THEN tid
                   ELSE IF ConnectionFailure(n) \in rmrOut' THEN NoTid
                   ELSE e2mView[n]]

Quiet == rmrOut' = {} /\ sctpOut' = {} /\ UNCHANGED e2mView

-----------------------------------------------------------------------------
(* ConnectedCU_t objects.                                                  *)

\* free(): nobody reads the content of a freed object without undefined
\* behaviour, so it is kept as calloc will leave it.
Free(ps) ==
  /\ alloc' = alloc \ ps
  /\ enodbName' = [p \in Peers |-> IF p \in ps THEN NoName ELSE enodbName[p]]
  /\ counters' = counters \ ps
  /\ single' = [p \in Peers |-> IF p \in ps THEN NoStream ELSE single[p]]
  /\ UNCHANGED assoc

\* Mutant: the name stays in sctpMap.
TeardownKeepsKey(p) ==
  /\ SendToRic({ConnectionFailure(enodbName[p])}, NoTid)
  /\ sctpOut' = {}
  /\ procMap' = removeE2ConnectionEntryFromMap(procMap, enodbName[p])
  /\ UNCHANGED sctpMap
  /\ Free({p})

\* Mutant: the failure is not reported.
TeardownSilent(p) ==
  /\ Quiet
  /\ procMap' = removeE2ConnectionEntryFromMap(procMap, enodbName[p])
  /\ sctpMap' = [n \in Names |-> IF n = enodbName[p] THEN Null ELSE sctpMap[n]]
  /\ Free({p})

\* The end of an association: report it, forget its RAN name in both maps
\* (whichever object sctpMap has under the name) and free the object.
Teardown(p) ==
  /\ SendToRic({ConnectionFailure(enodbName[p])}, NoTid)
  /\ sctpOut' = {}
  /\ procMap' = removeE2ConnectionEntryFromMap(procMap, enodbName[p])
  /\ sctpMap' = [n \in Names |-> IF n = enodbName[p] THEN Null ELSE sctpMap[n]]
  /\ Free({p})

-----------------------------------------------------------------------------
(* The epoll loop.                                                         *)

Idle == ~crashed /\ cur = Null
Handling(e) == Idle /\ e \in batch
Reading(p) == ~crashed /\ cur = p

EpollWait ==
  /\ Idle
  /\ batch = {}
  /\ batch' \in {b \in SUBSET (alloc \cup {"rmr", "listen"}) :
                   b # {} /\ Cardinality(b) <= MaxEvents}
  /\ Quiet
  /\ UNCHANGED <<conn, maps, cur, crashed>>

\* An event on the listening socket: one accept per event.  Every failure
\* (calloc, accept, fcntl, getnameinfo, epoll_ctl) frees the object again.
Accept ==
  /\ Handling("listen")
  /\ batch' = batch \ {"listen"}
  /\ \/ \E p \in Peers \ alloc, s \in StreamConfigs :
          /\ alloc' = alloc \cup {p}
          /\ enodbName' = [enodbName EXCEPT ![p] = NoName]
          /\ counters' = counters \ {p}
          /\ single' = [single EXCEPT ![p] = NoStream]
          /\ assoc' = [assoc EXCEPT ![p] = s]
     \/ UNCHANGED conn
  /\ Quiet
  /\ UNCHANGED <<maps, cur, crashed>>

\* EPOLLERR or EPOLLHUP.
handlepoll_error(p) ==
  /\ Handling(p)
  /\ p \in alloc
  /\ batch' = batch \ {p}
  /\ Teardown(p)
  /\ UNCHANGED <<cur, crashed>>

\* EPOLLIN: enter the read loop of receiveDataFromSctp.
StartReading(p) ==
  /\ Handling(p)
  /\ p \in alloc
  /\ batch' = batch \ {p}
  /\ cur' = p
  /\ Quiet
  /\ UNCHANGED <<conn, maps, crashed>>

\* EAGAIN, or a PDU that asn_decode rejects.
StopReading(p) ==
  /\ Reading(p)
  /\ cur' = Null
  /\ Quiet
  /\ UNCHANGED <<conn, maps, batch, crashed>>

\* End of file or a read error.
Disconnect(p) ==
  /\ Reading(p)
  /\ cur' = Null
  /\ Teardown(p)
  /\ UNCHANGED <<batch, crashed>>

-----------------------------------------------------------------------------
(* E2 setup.                                                               *)

\* What an E2 node may put in a setup request on the association of p.
SetupAllowed(p, id, tid) ==
  /\ "omitsTid" \in Env \/ tid # NoTid
  /\ "renames" \in Env \/ enodbName[p] \in {NoName, id}
  /\ "overlaps" \in Env \/ \A q \in alloc \ {p} : id \in Names => enodbName[q] # id

\* Mutant: the name is filled in before the identity is checked.
CollectBadName(p, id) ==
  /\ enodbName' = [enodbName EXCEPT ![p] = id]
  /\ sctpMap' = [n \in Names |-> IF n = id THEN p ELSE sctpMap[n]]

\* collectSetupRequestData: the name is cleared first and the object is
\* registered as soon as the GlobalE2node_ID was read.
collectSetupRequestData(p, id) ==
  /\ enodbName' = [enodbName EXCEPT ![p] = IF id \in Names THEN id ELSE NoName]
  /\ sctpMap' = [n \in Names |-> IF n = id THEN p ELSE sctpMap[n]]

\* Mutant: the Prometheus counters are not built.
SetupWithoutCounters(p, meid, tid, stream) ==
  /\ UNCHANGED <<counters, single>>
  /\ SendToRic({SetupReq(meid)}, tid)
  /\ procMap' = insertE2SetupProcedureOngoing(procMap, meid, tid)

\* handleE2SetupReq: meid is the name in the message, which keeps the name
\* the object had when the PDU was read if the request carries none.
handleE2SetupReq(p, meid, tid, stream) ==
  /\ counters' = counters \cup {p}
  /\ \E isSingle \in IF "statusFails" \in Env THEN BOOLEAN
                   ELSE {assoc[p].outs = 1 \/ assoc[p].ins = 1} :
       single' = IF isSingle THEN [single EXCEPT ![p] = stream] ELSE single
  /\ SendToRic({SetupReq(meid)}, tid)
  /\ procMap' = insertE2SetupProcedureOngoing(procMap, meid, tid)

\* Mutant: the request is reported under the name the object had before.
SetupUnderOldName(p, id, tid, stream) ==
  /\ Reading(p)
  /\ SetupAllowed(p, id, tid)
  /\ collectSetupRequestData(p, id)
  /\ IF tid = NoTid \/ id = BadId
     THEN rmrOut' = {} /\ UNCHANGED <<counters, single, procMap, e2mView>>
     ELSE handleE2SetupReq(p, enodbName[p], tid, stream)
  /\ sctpOut' = {}
  /\ UNCHANGED <<alloc, assoc, loop, crashed>>

E2setup(p, id, tid, stream) ==
  /\ Reading(p)
  /\ SetupAllowed(p, id, tid)
  /\ collectSetupRequestData(p, id)
  /\ IF tid = NoTid \/ id = BadId
     THEN rmrOut' = {} /\ UNCHANGED <<counters, single, procMap, e2mView>>
     ELSE handleE2SetupReq(p, IF id \in Names THEN id ELSE enodbName[p], tid, stream)
  /\ sctpOut' = {}
  /\ UNCHANGED <<alloc, assoc, loop, crashed>>

-----------------------------------------------------------------------------
(* The other PDUs of an E2 node.                                           *)

\* The RMR type each PDU is relayed as.
RmrTypeOf ==
  [ RICserviceUpdate              |-> "RIC_SERVICE_UPDATE",
    E2nodeConfigurationUpdate     |-> "RIC_E2NODE_CONFIG_UPDATE",
    Reset                         |-> "RIC_E2_RESET_REQ",
    RICindication                 |-> "RIC_INDICATION",
    RICsubscriptionDeleteRequired |-> "RIC_SUB_DEL_REQUIRED",
    ResetResponse                 |-> "RIC_E2_RESET_RESP",
    RICcontrolAcknowledge         |-> "RIC_CONTROL_ACK",
    RICsubscriptionResponse       |-> "RIC_SUB_RESP",
    RICsubscriptionDeleteResponse |-> "RIC_SUB_DEL_RESP",
    RICcontrolFailure             |-> "RIC_CONTROL_FAILURE",
    RICsubscriptionFailure        |-> "RIC_SUB_FAILURE",
    RICsubscriptionDeleteFailure  |-> "RIC_SUB_FAILURE" ]

RelayedKinds == DOMAIN RmrTypeOf

\* Relayed only if they carry a RICrequestID.
NeedsRequestId == {"RICindication", "RICcontrolAcknowledge", "RICcontrolFailure"}

\* Relayed as XML: XML_From_PER can fail, and then nothing is sent.
NeedsXml == {"Reset", "ResetResponse"}

\* The procedure status after the PDU was handled, sent tells whether it
\* reached the call that sends it.
StatusAfterUplink(kind, sent, status) ==
  CASE kind = "RICserviceUpdate" -> "RIC_SERVICE_UPDATE_PROCEDURE_ONGOING"
    [] kind = "RICindication" /\ sent -> "RIC_INDICATION_PROCEDURE_COMPLETED"
    [] kind = "RICindication" /\ ~sent -> "RIC_INDICATION_PROCEDURE_ONGOING"
    [] kind = "RICcontrolAcknowledge" /\ sent -> "CONTROL_PROCEDURE_COMPLETED"
    [] kind \in {"RICsubscriptionResponse", "RICsubscriptionDeleteResponse"} ->
         "RIC_INDICATION_PROCEDURE_ONGOING"
    [] OTHER -> status

\* The handler increments the counters of the object without a null check:
\* before XML_From_PER, after the RICrequestID was found, and never for a
\* reset response (its instance counter, which guards it, is not registered).
UsesCounters(kind, complete) ==
  /\ kind # "ResetResponse"
  /\ kind \in NeedsRequestId => complete

\* Mutant: PDUs are relayed whether or not a setup request was seen.
SetupNotNeeded(p) == TRUE

SetupSeen(p) == getE2tProcedureOngoingStatus(procMap, enodbName[p])

\* complete: the RICrequestID is there, or XML_From_PER succeeds.
Relay(p, kind, complete) ==
  LET sent == kind \in NeedsRequestId \cup NeedsXml => complete
      n == enodbName[p]
  IN  /\ Reading(p)
      /\ SetupSeen(p)
      /\ UsesCounters(kind, complete) => p \in counters
      /\ SendToRic(IF sent THEN {[type |-> RmrTypeOf[kind], meid |-> n]} ELSE {}, NoTid)
      /\ procMap' = setE2ProcedureOngoingStatus(procMap, n,
                      StatusAfterUplink(kind, sent, procMap[n].status))
      /\ sctpOut' = {}
      /\ UNCHANGED <<conn, sctpMap, loop, crashed>>

ErrorIndicationTo ==
  [E2M |-> "RIC_E2_RIC_ERROR_INDICATION", SubMgr |-> "RIC_E2_RAN_ERROR_INDICATION"]

\* The indication goes to the E2 manager or the subscription manager if
\* getSendMsgBitSetValue says so, and to the xApps in any case.
ErrorIndication(p, code, tid, ies) ==
  LET n == enodbName[p]
      matched == ies \cup (IF tid = procMap[n].tid THEN {"transactionId"} ELSE {})
      to == getSendMsgBitSetValue(code, matched, procMap[n].status)
  IN  /\ Reading(p)
      /\ SetupSeen(p)
      /\ p \in counters
      /\ SendToRic({[type |-> "RIC_ERROR_INDICATION", meid |-> n]} \cup
                   {[type |-> ErrorIndicationTo[t], meid |-> n] : t \in {to} \ {"none"}},
                   NoTid)
      /\ sctpOut' = {}
      /\ UNCHANGED <<conn, maps, loop, crashed>>

\* A PDU other than a setup request from an association whose setup was not
\* seen, or one of an unsupported procedure or with an unknown choice.
IgnorePdu(p) ==
  /\ Reading(p)
  /\ Quiet
  /\ UNCHANGED <<conn, maps, loop, crashed>>

-----------------------------------------------------------------------------
(* Messages from the RIC.                                                  *)

DownlinkTypes ==
  { "RIC_E2_SETUP_RESP", "RIC_E2_SETUP_FAILURE",
    "RIC_E2NODE_CONFIG_UPDATE_ACK", "RIC_E2NODE_CONFIG_UPDATE_FAILURE",
    "RIC_ERROR_INDICATION", "RIC_SUB_REQ", "RIC_SUB_DEL_REQ", "RIC_CONTROL_REQ",
    "RIC_SERVICE_QUERY", "RIC_SERVICE_UPDATE_ACK", "RIC_SERVICE_UPDATE_FAILURE",
    "RIC_E2_RESET_REQ", "RIC_E2_RESET_RESP" }

\* The two setup outcomes check their counters for null.
NullChecked == {"RIC_E2_SETUP_RESP", "RIC_E2_SETUP_FAILURE"}

\* Requests that set the procedure completed before they are sent.
RequestTypes == {"RIC_SUB_REQ", "RIC_SUB_DEL_REQ", "RIC_CONTROL_REQ"}

StatusAfterDownlink(type, sent, status) ==
  CASE type \in NullChecked /\ sent -> "E2_SETUP_PROCEDURE_COMPLETED"
    [] type = "RIC_SERVICE_QUERY" /\ sent -> "RIC_SERVICE_UPDATE_PROCEDURE_ONGOING"
    [] type = "RIC_SUB_REQ" /\ sent -> "RIC_SUBS_PROCEDURE_ONGOING"
    [] type = "RIC_SUB_DEL_REQ" /\ sent -> "RIC_SUBS_DEL_PROCEDURE_ONGOING"
    [] type = "RIC_CONTROL_REQ" /\ sent -> "CONTROL_PROCEDURE_ONGOING"
    [] type \in RequestTypes /\ ~sent -> "E2_SETUP_PROCEDURE_COMPLETED"
    [] OTHER -> status

\* Mutant: the stream follows from the message type alone.
StreamOfType(p, type) == IF type \in RequestTypes THEN 1 ELSE 0

fetchStreamId(p, type) ==
  IF single[p] # NoStream THEN single[p]
  ELSE IF type \in RequestTypes THEN 1 ELSE 0

\* sctp_sendmsg may fail; isConnected is never set, so the failure is taken for
\* a connection in progress and the association is left alone.  A stream that the
\* association does not have is asked for like any other.
sendSctpMsg(p, n, type, sent) ==
  sctpOut' = IF sent
             THEN {[peer |-> p, meid |-> n, type |-> type, stream |-> fetchStreamId(p, type)]}
             ELSE {}

\* A message for a registered E2 node; sent tells whether it leaves.
Downlink(n, type, sent) ==
  LET p == sctpMap[n]
  IN  /\ Handling("rmr")
      /\ p \in alloc
      /\ type \in NullChecked \/ p \in counters
      /\ batch' = batch \ {"rmr"}
      /\ sendSctpMsg(p, n, type, sent)
      /\ procMap' = setE2ProcedureOngoingStatus(procMap, n,
                      StatusAfterDownlink(type, sent, procMap[n].status))
      /\ rmrOut' = {}
      /\ UNCHANGED <<conn, sctpMap, cur, e2mView, crashed>>

\* Messages without effect on the maps: the receive fails, no E2 node is
\* registered under the meid, the type is unsupported, PER_FromXML fails, or
\* it is a health check (answered with rmr_rts_msg).
DropDownlink ==
  /\ Handling("rmr")
  /\ batch' = batch \ {"rmr"}
  /\ Quiet
  /\ UNCHANGED <<conn, maps, cur, crashed>>

\* The answer is sent without setting a meid.
KeepAlive ==
  /\ Handling("rmr")
  /\ batch' = batch \ {"rmr"}
  /\ SendToRic({[type |-> "E2_TERM_KEEP_ALIVE_RESP", meid |-> NoName]}, NoTid)
  /\ sctpOut' = {}
  /\ UNCHANGED <<conn, maps, cur, crashed>>

Registered == {sctpMap[n] : n \in Names} \ {Null}

\* Mutant: the keys stay in sctpMap.
ClearAllKeepsKeys ==
  /\ Handling("rmr")
  /\ "clears" \in Env
  /\ Registered \subseteq alloc
  /\ batch' = batch \ {"rmr"}
  /\ SendToRic({ConnectionFailure(enodbName[p]) : p \in Registered}, NoTid)
  /\ sctpOut' = {}
  /\ Free(Registered)
  /\ UNCHANGED <<maps, cur, crashed>>

\* Mutant: the associations stay open.
ClearAllKeepsOpen ==
  /\ Handling("rmr")
  /\ "clears" \in Env
  /\ batch' = batch \ {"rmr"}
  /\ SendToRic({ConnectionFailure(enodbName[p]) : p \in Registered}, NoTid)
  /\ sctpOut' = {}
  /\ sctpMap' = [n \in Names |-> Null]
  /\ UNCHANGED <<conn, procMap, cur, crashed>>

\* RIC_SCTP_CLEAR_ALL: close and free every registered object, then clear
\* sctpMap.  connectionHandlingPerE2NodeMap and the batch stay as they are.
ClearAll ==
  /\ Handling("rmr")
  /\ "clears" \in Env
  /\ Registered \subseteq alloc
  /\ \A n, k \in Names : sctpMap[n] = sctpMap[k] => n = k \/ sctpMap[n] = Null
  /\ batch' = batch \ {"rmr"}
  /\ SendToRic({ConnectionFailure(enodbName[p]) : p \in Registered}, NoTid)
  /\ sctpOut' = {}
  /\ Free(Registered)
  /\ sctpMap' = [n \in Names |-> Null]
  /\ UNCHANGED <<procMap, cur, crashed>>

-----------------------------------------------------------------------------
(* Undefined behaviour: where the code dereferences a pointer to a freed   *)
(* object or a null counter.  Nothing is promised after it.                *)

\* An event of the batch points to an object freed since epoll_wait.
StaleEvent == cur = Null /\ \E p \in batch \ {"rmr", "listen"} : p \notin alloc

\* sctpMap leads a message from the RIC to a freed object or to null counters.
BadDownlink ==
  /\ cur = Null
  /\ "rmr" \in batch
  /\ \E p \in Registered : p \notin alloc \/ p \notin counters

\* RIC_SCTP_CLEAR_ALL frees a freed object, or the same object under two keys.
BadClear ==
  /\ cur = Null
  /\ "rmr" \in batch
  /\ "clears" \in Env
  /\ \/ ~ Registered \subseteq alloc
     \/ \E n, k \in Names : n # k /\ sctpMap[n] = sctpMap[k] /\ sctpMap[n] # Null

\* A PDU passes the check of the procedure map on an object whose counters
\* were never set.
NullCounters == cur # Null /\ SetupSeen(cur) /\ cur \notin counters

UndefinedBehaviour ==
  /\ ~crashed
  /\ StaleEvent \/ BadDownlink \/ BadClear \/ NullCounters
  /\ crashed' = TRUE
  /\ Quiet
  /\ UNCHANGED <<conn, maps, loop>>

-----------------------------------------------------------------------------
Init ==
  /\ alloc = {}
  /\ enodbName = [p \in Peers |-> NoName]
  /\ counters = {}
  /\ single = [p \in Peers |-> NoStream]
  /\ assoc \in {[p \in Peers |-> s] : s \in StreamConfigs}
  /\ sctpMap = [n \in Names |-> Null]
  /\ procMap = [k \in Keys |-> NoEntry]
  /\ batch = {}
  /\ cur = Null
  /\ rmrOut = {}
  /\ sctpOut = {}
  /\ e2mView = [n \in Names |-> NoTid]
  /\ crashed = FALSE

ReadPdu(p) ==
  \/ \E id \in Keys \cup {BadId}, tid \in Tids \cup {NoTid}, s \in 0 .. assoc[p].ins - 1 :
       E2setup(p, id, tid, s)
  \/ \E kind \in RelayedKinds, complete \in BOOLEAN : Relay(p, kind, complete)
  \/ \E code \in Codes, tid \in Tids \cup {NoTid}, ies \in SUBSET {"ricRequestId", "cause"} :
       ErrorIndication(p, code, tid, ies)
  \/ IgnorePdu(p)

FromRic ==
  \/ \E n \in Names, type \in DownlinkTypes, sent \in BOOLEAN : Downlink(n, type, sent)
  \/ DropDownlink
  \/ KeepAlive
  \/ ClearAll

Next ==
  \/ EpollWait
  \/ Accept
  \/ \E p \in Peers : handlepoll_error(p) \/ StartReading(p) \/ StopReading(p)
                      \/ Disconnect(p) \/ ReadPdu(p)
  \/ FromRic
  \/ UndefinedBehaviour

Spec == Init /\ [][Next]_vars
=============================================================================
