---------------------------- MODULE E2TermProofs ----------------------------
(***************************************************************************)
(* Proofs about the listener thread, for every number of E2 nodes, objects *)
(* and events.  TypeCorrect and LoopInvariant hold in every environment;   *)
(* the other theorems use them through the temporal step only.  What makes *)
(* the properties inductive:                                               *)
(*                                                                         *)
(*   Loop              the object of the read loop is allocated and has no *)
(*                     event left in the batch                             *)
(*   EventsLive        every event of the batch is of an allocated object  *)
(*   OneEvent          the events of a batch that has room for one are one *)
(*   NamedCounted      every object with a name has its counters           *)
(*   StreamKept        the stream kept in an object is one of those its    *)
(*                     association has                                     *)
(*   OldNameRegistered the name of an association that sends another setup *)
(*                     request is still registered                         *)
(*   SeenRegistered    an association whose setup was seen has a name that *)
(*                     is in sctpMap                                       *)
(*   SeenKnown         and that the E2 manager knows                       *)
(*                                                                         *)
(* Each theorem assumes of Env what it needs and no more: TLC finds a      *)
(* counterexample for each assumption that is left out.                    *)
(***************************************************************************)
EXTENDS E2TermProperties, FiniteSetTheorems, TLAPS

-----------------------------------------------------------------------------
(* Types.                                                                  *)

\* What is reported to the RIC keeps its view a map from names to transaction
\* ids (sendRmrMessage).
LEMMA SendTypes ==
  ASSUME e2mView \in [Names -> Tids \cup {NoTid}],
         NEW msgs, NEW tid \in Tids \cup {NoTid}, SendToRic(msgs, tid)
  PROVE  e2mView' \in [Names -> Tids \cup {NoTid}]
BY DEF SendToRic

\* free() keeps the types of the object fields.
LEMMA FreeTypes ==
  ASSUME TypeOK, NEW ps, Free(ps)
  PROVE  /\ alloc' \subseteq Peers
         /\ enodbName' \in [Peers -> Keys]
         /\ counters' \subseteq Peers
         /\ single' \in [Peers -> Nat \cup {NoStream}]
         /\ assoc' \in [Peers -> StreamConfigs]
BY DEF TypeOK, Free, Keys

\* The three operations on connectionHandlingPerE2NodeMap keep its type.
LEMMA ProcMapTypes ==
  ASSUME NEW m \in ProcMap, NEW name \in Keys
  PROVE  /\ \A state \in Status : setE2ProcedureOngoingStatus(m, name, state) \in ProcMap
         /\ \A tid \in Tids \cup {NoTid} : insertE2SetupProcedureOngoing(m, name, tid) \in ProcMap
         /\ removeE2ConnectionEntryFromMap(m, name) \in ProcMap
<1>1. \A state \in Status : setE2ProcedureOngoingStatus(m, name, state) \in ProcMap
  BY DEF setE2ProcedureOngoingStatus, ProcMap, Entry
<1>2. "E2_SETUP_PROCEDURE_ONGOING" \in Status
  BY DEF Status
<1>3. \A tid \in Tids \cup {NoTid} : insertE2SetupProcedureOngoing(m, name, tid) \in ProcMap
  BY <1>1, <1>2 DEF insertE2SetupProcedureOngoing, ProcMap, Entry
<1>4. NoEntry \in Entry
  BY DEF NoEntry, Entry, Status
<1>5. removeE2ConnectionEntryFromMap(m, name) \in ProcMap
  BY <1>4 DEF removeE2ConnectionEntryFromMap, ProcMap
<1>. QED BY <1>1, <1>3, <1>5

\* The end of an association keeps the types of all it touches (cleanHashEntry,
\* removeE2ConnectionEntryFromMap, sendRequestToXapp).
LEMMA TeardownTypes ==
  ASSUME TypeOK, NEW p \in Peers, Teardown(p)
  PROVE  /\ alloc' \subseteq Peers
         /\ enodbName' \in [Peers -> Keys]
         /\ counters' \subseteq Peers
         /\ single' \in [Peers -> Nat \cup {NoStream}]
         /\ assoc' \in [Peers -> StreamConfigs]
         /\ sctpMap' \in [Names -> Peers \cup {Null}]
         /\ procMap' \in ProcMap
         /\ e2mView' \in [Names -> Tids \cup {NoTid}]
<1>1. enodbName[p] \in Keys /\ procMap \in ProcMap
  BY DEF TypeOK
<1>2. procMap' \in ProcMap
  BY <1>1, ProcMapTypes DEF Teardown
<1>3. sctpMap' \in [Names -> Peers \cup {Null}]
  BY DEF Teardown, TypeOK
<1>4. e2mView' \in [Names -> Tids \cup {NoTid}]
  BY SendTypes DEF Teardown, TypeOK
<1>5. Free({p})
  BY DEF Teardown
<1>. QED BY <1>2, <1>3, <1>4, <1>5, FreeTypes

\* The handlers only set procedure statuses that are members of
\* E2T_Procedure_States.
LEMMA StatusTypes ==
  ASSUME NEW status \in Status, NEW sent \in BOOLEAN
  PROVE  /\ \A kind \in RelayedKinds : StatusAfterUplink(kind, sent, status) \in Status
         /\ \A type \in DownlinkTypes : StatusAfterDownlink(type, sent, status) \in Status
BY DEF StatusAfterUplink, StatusAfterDownlink, Status

\* Every handler of the listener thread keeps the types of its state: in
\* particular a rejected GlobalE2node_ID never becomes a name, and a procedure
\* status never leaves E2T_Procedure_States.
THEOREM TypeCorrect == Spec => []TypeOK
<1>1. Init => TypeOK
  <2>1. NoEntry \in Entry
    BY DEF NoEntry, Entry, Status
  <2>. QED BY <2>1 DEF Init, TypeOK, ProcMap, Keys
<1>2. TypeOK /\ [Next]_vars => TypeOK'
  <2>. SUFFICES ASSUME TypeOK, [Next]_vars PROVE TypeOK'
    OBVIOUS
  <2>. USE DEF TypeOK
  <2>1. CASE EpollWait
    BY <2>1 DEF EpollWait, Quiet, conn, maps
  <2>2. CASE Accept
    BY <2>2 DEF Accept, Quiet, maps, conn, Keys
  <2>3. ASSUME NEW p \in Peers, handlepoll_error(p) PROVE TypeOK'
    BY <2>3, TeardownTypes DEF handlepoll_error
  <2>4. ASSUME NEW p \in Peers, StartReading(p) PROVE TypeOK'
    BY <2>4 DEF StartReading, Quiet, conn, maps
  <2>5. ASSUME NEW p \in Peers, StopReading(p) PROVE TypeOK'
    BY <2>5 DEF StopReading, Quiet, conn, maps
  <2>6. ASSUME NEW p \in Peers, Disconnect(p) PROVE TypeOK'
    BY <2>6, TeardownTypes DEF Disconnect
  <2>7. ASSUME NEW p \in Peers, NEW id \in Keys \cup {BadId}, NEW tid \in Tids \cup {NoTid},
               NEW stream \in 0 .. assoc[p].ins - 1, E2setup(p, id, tid, stream)
        PROVE  TypeOK'
    <3>1. /\ enodbName' \in [Peers -> Keys]
          /\ sctpMap' \in [Names -> Peers \cup {Null}]
      BY <2>7 DEF E2setup, collectSetupRequestData, Keys
    <3>2. CASE tid = NoTid \/ id = BadId
      BY <2>7, <3>1, <3>2 DEF E2setup, loop
    <3>3. CASE ~(tid = NoTid \/ id = BadId)
      <4>. DEFINE meid == IF id \in Names THEN id ELSE enodbName[p]
      <4>1. handleE2SetupReq(p, meid, tid, stream)
        BY <2>7, <3>3 DEF E2setup
      <4>2. meid \in Keys
        BY DEF Keys
      <4>3. procMap' \in ProcMap
        BY <4>1, <4>2, ProcMapTypes DEF handleE2SetupReq
      <4>4. e2mView' \in [Names -> Tids \cup {NoTid}]
        BY <4>1, SendTypes DEF handleE2SetupReq
      <4>5. stream \in Nat
        BY StreamAssumption
      <4>6. counters' \subseteq Peers /\ single' \in [Peers -> Nat \cup {NoStream}]
        BY <4>1, <4>5 DEF handleE2SetupReq
      <4>. QED BY <2>7, <3>1, <4>3, <4>4, <4>6 DEF E2setup, loop
    <3>. QED BY <3>2, <3>3
  <2>8. ASSUME NEW p \in Peers, NEW kind \in RelayedKinds,
               NEW complete \in BOOLEAN,
               Relay(p, kind, complete)
        PROVE  TypeOK'
    <3>. DEFINE sent == kind \in NeedsRequestId \cup NeedsXml => complete
    <3>1. e2mView' \in [Names -> Tids \cup {NoTid}]
      BY <2>8, SendTypes DEF Relay
    <3>2. enodbName[p] \in Keys /\ procMap[enodbName[p]].status \in Status
      BY DEF ProcMap, Entry
    <3>3. StatusAfterUplink(kind, sent, procMap[enodbName[p]].status) \in Status
      BY <3>2, StatusTypes
    <3>4. procMap' \in ProcMap
      BY <2>8, <3>2, <3>3, ProcMapTypes DEF Relay
    <3>. QED BY <2>8, <3>1, <3>4 DEF Relay, conn, loop
  <2>9. ASSUME NEW p \in Peers, NEW code \in Codes, NEW tid \in Tids \cup {NoTid},
               NEW ies \in SUBSET {"ricRequestId", "cause"}, ErrorIndication(p, code, tid, ies)
        PROVE  TypeOK'
    BY <2>9, SendTypes DEF ErrorIndication, conn, maps, loop
  <2>10. ASSUME NEW p \in Peers, IgnorePdu(p) PROVE TypeOK'
    BY <2>10 DEF IgnorePdu, Quiet, conn, maps, loop
  <2>11. ASSUME NEW n \in Names, NEW type \in DownlinkTypes, NEW sent \in BOOLEAN,
                Downlink(n, type, sent)
         PROVE  TypeOK'
    <3>1. n \in Keys /\ procMap[n].status \in Status
      BY DEF ProcMap, Entry, Keys
    <3>2. StatusAfterDownlink(type, sent, procMap[n].status) \in Status
      BY <3>1, StatusTypes
    <3>3. procMap' \in ProcMap
      BY <2>11, <3>1, <3>2, ProcMapTypes DEF Downlink
    <3>. QED BY <2>11, <3>3 DEF Downlink, conn
  <2>12. CASE DropDownlink
    BY <2>12 DEF DropDownlink, Quiet, conn, maps
  <2>13. CASE KeepAlive
    BY <2>13, SendTypes DEF KeepAlive, conn, maps
  <2>14. CASE ClearAll
    <3>1. Free(Registered)
      BY <2>14 DEF ClearAll
    <3>. QED BY <2>14, <3>1, FreeTypes, SendTypes DEF ClearAll
  <2>15. CASE UndefinedBehaviour
    BY <2>15 DEF UndefinedBehaviour, Quiet, conn, maps, loop
  <2>16. CASE UNCHANGED vars
    BY <2>16 DEF vars, conn, maps, loop, out
  <2>. QED
    BY <2>1, <2>2, <2>3, <2>4, <2>5, <2>6, <2>7, <2>8, <2>9, <2>10, <2>11, <2>12, <2>13,
       <2>14, <2>15, <2>16 DEF Next, ReadPdu, FromRic
<1>. QED BY <1>1, <1>2, PTL DEF Spec

-----------------------------------------------------------------------------
(* The read loop.                                                          *)

\* The read loop of receiveDataFromSctp runs on an allocated object, whose
\* event was taken out of the batch.
Loop == cur # Null => cur \in alloc \ batch

\* That is so in every environment: while the loop runs nothing else is handled.
LEMMA LoopInvariant == Spec => []Loop
<1>. USE PeersAssumption
<1>1. Init => Loop
  BY DEF Init, Loop
<1>2. Loop /\ [Next]_vars => Loop'
  <2>. SUFFICES ASSUME Loop, [Next]_vars PROVE Loop'
    OBVIOUS
  <2>1. ASSUME NEW p \in Peers, StartReading(p) PROVE Loop'
    BY <2>1 DEF StartReading, conn, Loop
  <2>2. ASSUME cur' = Null PROVE Loop'
    BY <2>2 DEF Loop
  <2>3. ASSUME UNCHANGED <<alloc, batch, cur>> PROVE Loop'
    BY <2>3 DEF Loop
  <2>4. ASSUME NEW p \in Peers
        PROVE  /\ handlepoll_error(p) => cur' = Null
               /\ StopReading(p) \/ Disconnect(p) => cur' = Null
    BY DEF handlepoll_error, Handling, Idle, StopReading, Disconnect
  <2>5. ASSUME NEW p \in Peers, ReadPdu(p) PROVE UNCHANGED <<alloc, batch, cur>>
    BY <2>5 DEF ReadPdu, E2setup, Relay, ErrorIndication, IgnorePdu, conn, loop
  <2>6. EpollWait \/ Accept \/ FromRic => cur' = Null
    BY DEF EpollWait, Accept, FromRic, Downlink, DropDownlink, KeepAlive, ClearAll, Handling, Idle
  <2>7. UndefinedBehaviour \/ UNCHANGED vars => UNCHANGED <<alloc, batch, cur>>
    BY DEF UndefinedBehaviour, conn, loop, vars
  <2>. QED BY <2>1, <2>2, <2>3, <2>4, <2>5, <2>6, <2>7 DEF Next
<1>. QED BY <1>1, <1>2, PTL DEF Spec

-----------------------------------------------------------------------------
(* sctpMap.                                                                *)

\* The end of an association leaves no key that leads to the freed object.
LEMMA TeardownMap ==
  ASSUME TypeOK, MapSound, NEW p \in Peers, Teardown(p)
  PROVE  MapSound'
<1>. SUFFICES ASSUME NEW n \in Names, sctpMap'[n] # Null
              PROVE  sctpMap'[n] \in alloc' /\ enodbName'[sctpMap'[n]] = n
  BY DEF MapSound
<1>1. sctpMap'[n] = sctpMap[n] /\ n # enodbName[p]
  BY DEF Teardown
<1>2. sctpMap[n] \in alloc /\ enodbName[sctpMap[n]] = n /\ sctpMap[n] \in Peers
  BY <1>1 DEF MapSound, TypeOK
<1>3. sctpMap[n] # p
  BY <1>1, <1>2
<1>. QED BY <1>1, <1>2, <1>3 DEF Teardown, Free

\* If no E2 node sets up again under another identity, sctpMap only leads to
\* objects that are allocated and carry the name they are registered under,
\* whatever associations overlap, fail, or reuse the memory of old ones
\* (collectSetupRequestData, cleanHashEntry, RIC_SCTP_CLEAR_ALL).
THEOREM MapIsSound ==
  ASSUME "renames" \notin Env
  PROVE  Spec => []MapSound
<1>1. Init => MapSound
  BY DEF Init, MapSound
<1>2. TypeOK /\ Loop /\ MapSound /\ [Next]_vars => MapSound'
  <2>. SUFFICES ASSUME TypeOK, Loop, MapSound, [Next]_vars PROVE MapSound'
    OBVIOUS
  <2>. USE PeersAssumption
  <2>1. ASSUME UNCHANGED <<alloc, enodbName, sctpMap>> PROVE MapSound'
    BY <2>1 DEF MapSound
  <2>2. CASE Accept
    <3>1. CASE UNCHANGED conn
      BY <2>1, <2>2, <3>1 DEF Accept, conn, maps
    <3>2. ASSUME NEW p \in Peers \ alloc, alloc' = alloc \cup {p},
                 enodbName' = [enodbName EXCEPT ![p] = NoName]
          PROVE  MapSound'
      BY <2>2, <3>2 DEF Accept, MapSound, TypeOK, maps
    <3>. QED BY <2>2, <3>1, <3>2 DEF Accept
  <2>3. ASSUME NEW p \in Peers, handlepoll_error(p) \/ Disconnect(p) PROVE MapSound'
    BY <2>3, TeardownMap DEF handlepoll_error, Disconnect
  <2>4. ASSUME NEW p \in Peers, NEW id \in Keys \cup {BadId}, NEW tid \in Tids \cup {NoTid},
               NEW stream \in 0 .. assoc[p].ins - 1, E2setup(p, id, tid, stream)
        PROVE  MapSound'
    <3>1. enodbName[p] \in {NoName, id} /\ p \in alloc /\ alloc' = alloc
      BY <2>4 DEF E2setup, SetupAllowed, Reading, Loop
    <3>2. ASSUME NEW n \in Names, sctpMap'[n] # Null
          PROVE  sctpMap'[n] \in alloc' /\ enodbName'[sctpMap'[n]] = n
      <4>1. CASE n = id
        BY <2>4, <3>1, <4>1 DEF E2setup, collectSetupRequestData, TypeOK
      <4>2. CASE n # id
        <5>1. sctpMap'[n] = sctpMap[n]
          BY <2>4, <4>2 DEF E2setup, collectSetupRequestData
        <5>2. sctpMap[n] \in alloc /\ enodbName[sctpMap[n]] = n
          BY <3>2, <5>1 DEF MapSound
        <5>3. sctpMap[n] # p
          BY <3>1, <4>2, <5>2, NamesAssumption
        <5>. QED BY <2>4, <3>1, <5>1, <5>2, <5>3 DEF E2setup, collectSetupRequestData, TypeOK
      <4>. QED BY <4>1, <4>2
    <3>. QED BY <3>2 DEF MapSound
  <2>5. CASE ClearAll
    BY <2>5 DEF ClearAll, MapSound
  <2>6. ASSUME NEW n \in Names, NEW type \in DownlinkTypes, NEW sent \in BOOLEAN,
               Downlink(n, type, sent)
        PROVE  MapSound'
    BY <2>1, <2>6 DEF Downlink, conn
  <2>7. CASE UNCHANGED vars
    BY <2>1, <2>7 DEF vars, conn, maps
  <2>. QED
    BY <2>1, <2>2, <2>3, <2>4, <2>5, <2>6, <2>7
    DEF Next, ReadPdu, FromRic, EpollWait, StartReading, StopReading, Relay, ErrorIndication,
        IgnorePdu, DropDownlink, KeepAlive, UndefinedBehaviour, conn, maps
<1>. QED BY <1>1, <1>2, TypeCorrect, LoopInvariant, PTL DEF Spec

\* Under the same condition a message of the RIC is only ever sent on an
\* allocated association of the E2 node it is for (receiveXappMessages).
THEOREM DownlinkReachesOwner ==
  ASSUME "renames" \notin Env
  PROVE  Spec => []DownlinkToOwner
<1>1. Init => DownlinkToOwner
  BY DEF Init, DownlinkToOwner
<1>2. TypeOK /\ MapSound /\ DownlinkToOwner /\ [Next]_vars => DownlinkToOwner'
  <2>. SUFFICES ASSUME TypeOK, MapSound, DownlinkToOwner, [Next]_vars PROVE DownlinkToOwner'
    OBVIOUS
  <2>1. ASSUME sctpOut' = {} PROVE DownlinkToOwner'
    BY <2>1 DEF DownlinkToOwner
  <2>2. ASSUME NEW n \in Names, NEW type \in DownlinkTypes, NEW sent \in BOOLEAN,
               Downlink(n, type, sent)
        PROVE  DownlinkToOwner'
    <3>. DEFINE p == sctpMap[n]
    <3>1. p \in alloc /\ p # Null
      BY <2>2, PeersAssumption DEF Downlink, TypeOK
    <3>2. enodbName[p] = n
      BY <3>1 DEF MapSound
    <3>3. \A m \in sctpOut' : m.peer = p /\ m.meid = n
      BY <2>2 DEF Downlink, sendSctpMsg
    <3>. QED BY <2>2, <3>1, <3>2, <3>3 DEF Downlink, DownlinkToOwner, conn
  <2>3. CASE UNCHANGED vars
    BY <2>3 DEF vars, conn, out, DownlinkToOwner
  <2>. QED
    BY <2>1, <2>2, <2>3
    DEF Next, ReadPdu, FromRic, EpollWait, Accept, handlepoll_error, StartReading, StopReading,
        Disconnect, E2setup, Relay, ErrorIndication, IgnorePdu, DropDownlink, KeepAlive,
        ClearAll, UndefinedBehaviour, Teardown, Quiet
<1>. QED BY <1>1, <1>2, TypeCorrect, MapIsSound, PTL DEF Spec

\* The end of an association leaves the names of the others registered.
LEMMA TeardownKeepsOthers ==
  ASSUME TypeOK, NamedIsRegistered, NEW p \in alloc, Teardown(p)
  PROVE  NamedIsRegistered'
<1>. SUFFICES ASSUME NEW q \in alloc', enodbName'[q] \in Names
              PROVE  sctpMap'[enodbName'[q]] = q
  BY DEF NamedIsRegistered
<1>1. q \in alloc /\ q # p /\ enodbName'[q] = enodbName[q]
  BY DEF Teardown, Free, TypeOK
<1>2. sctpMap[enodbName[q]] = q
  BY <1>1 DEF NamedIsRegistered
<1>3. enodbName[p] # enodbName[q]
  BY <1>1, <1>2 DEF NamedIsRegistered
<1>. QED BY <1>1, <1>2, <1>3 DEF Teardown

\* As long as an E2 node does not open a second association, each association
\* that carries a name is the one the RIC reaches under it, whatever names and
\* transaction ids the setups carry, whatever is lost and cleared and however
\* large the batches are (cleanHashEntry removes by name, not by object).
THEOREM NamedStayRegistered ==
  ASSUME "overlaps" \notin Env
  PROVE  Spec => []NamedIsRegistered
<1>. USE PeersAssumption, NamesAssumption
<1>1. Init => NamedIsRegistered
  BY DEF Init, NamedIsRegistered
<1>2. TypeOK /\ Loop /\ NamedIsRegistered /\ [Next]_vars => NamedIsRegistered'
  <2>. SUFFICES ASSUME TypeOK, Loop, NamedIsRegistered, [Next]_vars PROVE NamedIsRegistered'
    OBVIOUS
  <2>1. ASSUME UNCHANGED <<alloc, enodbName, sctpMap>> PROVE NamedIsRegistered'
    BY <2>1 DEF NamedIsRegistered
  <2>2. CASE Accept
    <3>1. CASE UNCHANGED conn
      BY <2>1, <2>2, <3>1 DEF Accept, conn, maps
    <3>2. ASSUME NEW p \in Peers \ alloc, alloc' = alloc \cup {p},
                 enodbName' = [enodbName EXCEPT ![p] = NoName]
          PROVE  NamedIsRegistered'
      BY <2>2, <3>2 DEF Accept, NamedIsRegistered, TypeOK, maps
    <3>. QED BY <2>2, <3>1, <3>2 DEF Accept
  <2>3. ASSUME NEW p \in Peers, handlepoll_error(p) \/ Disconnect(p) PROVE NamedIsRegistered'
    <3>1. p \in alloc /\ Teardown(p)
      BY <2>3 DEF handlepoll_error, Disconnect, Reading, Loop
    <3>. QED BY <3>1, TeardownKeepsOthers
  <2>4. ASSUME NEW p \in Peers, NEW id \in Keys \cup {BadId}, NEW tid \in Tids \cup {NoTid},
               NEW stream \in 0 .. assoc[p].ins - 1, E2setup(p, id, tid, stream)
        PROVE  NamedIsRegistered'
    <3>1. alloc' = alloc /\ collectSetupRequestData(p, id)
      BY <2>4 DEF E2setup
    <3>2. \A q \in alloc \ {p} : id \in Names => enodbName[q] # id
      BY <2>4 DEF E2setup, SetupAllowed
    <3>3. ASSUME NEW q \in alloc, enodbName'[q] \in Names
          PROVE  sctpMap'[enodbName'[q]] = q
      <4>1. CASE q = p
        <5>1. enodbName'[q] = id
          BY <3>1, <3>3, <4>1 DEF collectSetupRequestData, TypeOK
        <5>. QED BY <3>1, <3>3, <4>1, <5>1 DEF collectSetupRequestData
      <4>2. CASE q # p
        <5>1. enodbName'[q] = enodbName[q]
          BY <3>1, <4>2 DEF collectSetupRequestData, TypeOK
        <5>2. sctpMap[enodbName[q]] = q /\ enodbName[q] # id
          BY <3>2, <3>3, <4>2, <5>1 DEF NamedIsRegistered
        <5>. QED BY <3>1, <3>3, <5>1, <5>2 DEF collectSetupRequestData
      <4>. QED BY <4>1, <4>2
    <3>. QED BY <3>1, <3>3 DEF NamedIsRegistered
  <2>5. CASE ClearAll
    <3>1. ASSUME NEW q \in alloc', enodbName'[q] \in Names PROVE FALSE
      <4>1. q \in alloc \ Registered /\ enodbName'[q] = enodbName[q]
        BY <2>5, <3>1 DEF ClearAll, Free, TypeOK
      <4>2. sctpMap[enodbName[q]] = q /\ q # Null
        BY <3>1, <4>1 DEF NamedIsRegistered, TypeOK
      <4>. QED BY <3>1, <4>1, <4>2 DEF Registered
    <3>. QED BY <3>1 DEF NamedIsRegistered
  <2>6. ASSUME NEW n \in Names, NEW type \in DownlinkTypes, NEW sent \in BOOLEAN,
               Downlink(n, type, sent)
        PROVE  NamedIsRegistered'
    BY <2>1, <2>6 DEF Downlink, conn
  <2>7. CASE UNCHANGED vars
    BY <2>1, <2>7 DEF vars, conn, maps
  <2>. QED
    BY <2>1, <2>2, <2>3, <2>4, <2>5, <2>6, <2>7
    DEF Next, ReadPdu, FromRic, EpollWait, StartReading, StopReading, Relay, ErrorIndication,
        IgnorePdu, DropDownlink, KeepAlive, UndefinedBehaviour, conn, maps
<1>. QED BY <1>1, <1>2, TypeCorrect, LoopInvariant, PTL DEF Spec

-----------------------------------------------------------------------------
(* Streams.                                                                *)

\* An object that keeps to one stream keeps to one that a setup request came in on.
\* If the stream counts can be read, that is one its association has, unless there
\* is one outbound stream only; and in that case it does keep to one once its setup was
\* read.
StreamKept ==
  \A p \in Peers :
    /\ single[p] # NoStream => single[p] \in Nat /\ single[p] < assoc[p].ins
    /\ "statusFails" \in Env \/ single[p] = NoStream
       \/ single[p] < assoc[p].outs \/ assoc[p].outs = 1
    /\ "statusFails" \in Env \/ p \notin counters
       \/ assoc[p].outs # 1 \/ single[p] # NoStream

\* Whatever numbers of streams are negotiated and whether or not getsockopt can tell
\* them: what is sent to an E2 node goes to a stream its association has, except for
\* an E2 node that takes one stream and sends on several, which is answered on the
\* stream of its setup request, and for counts that could not be read
\* (handleE2SetupReq, fetchStreamId).
THEOREM StreamsExist == Spec => []StreamExists
<1>. USE PeersAssumption, StreamAssumption
<1>1. Init => StreamKept /\ StreamExists
  BY DEF Init, StreamKept, StreamExists
<1>2. TypeOK /\ StreamKept /\ StreamExists /\ [Next]_vars => StreamKept' /\ StreamExists'
  <2>. SUFFICES ASSUME TypeOK, StreamKept, StreamExists, [Next]_vars
                PROVE  StreamKept' /\ StreamExists'
    OBVIOUS
  <2>1. ASSUME UNCHANGED <<counters, single, assoc>> PROVE StreamKept'
    BY <2>1 DEF StreamKept
  <2>2. ASSUME sctpOut' = {} PROVE StreamExists'
    BY <2>2 DEF StreamExists
  <2>3. CASE Accept
    <3>1. CASE UNCHANGED conn
      BY <2>1, <2>2, <2>3, <3>1 DEF Accept, Quiet, conn
    <3>2. ASSUME NEW p \in Peers, NEW s \in StreamConfigs, counters' = counters \ {p},
                 single' = [single EXCEPT ![p] = NoStream], assoc' = [assoc EXCEPT ![p] = s]
          PROVE  StreamKept'
      BY <3>2 DEF StreamKept, TypeOK
    <3>. QED BY <2>2, <2>3, <3>1, <3>2 DEF Accept, Quiet
  <2>4. ASSUME NEW ps, Free(ps) PROVE StreamKept'
    BY <2>4 DEF Free, StreamKept, TypeOK
  <2>5. ASSUME NEW p \in Peers, handlepoll_error(p) \/ Disconnect(p)
        PROVE  StreamKept' /\ StreamExists'
    BY <2>2, <2>4, <2>5 DEF handlepoll_error, Disconnect, Teardown
  <2>6. ASSUME NEW p \in Peers, NEW id \in Keys \cup {BadId}, NEW tid \in Tids \cup {NoTid},
               NEW stream \in 0 .. assoc[p].ins - 1, E2setup(p, id, tid, stream)
        PROVE  StreamKept' /\ StreamExists'
    <3>1. StreamExists'
      BY <2>2, <2>6 DEF E2setup
    <3>2. CASE UNCHANGED <<counters, single>>
      BY <2>1, <2>6, <3>2, <3>1 DEF E2setup
    <3>3. CASE ~ UNCHANGED <<counters, single>>
      <4>1. /\ counters' = counters \cup {p} /\ assoc' = assoc
            /\ \E isSingle \in IF "statusFails" \in Env THEN BOOLEAN
                              ELSE {assoc[p].outs = 1 \/ assoc[p].ins = 1} :
                 single' = IF isSingle THEN [single EXCEPT ![p] = stream] ELSE single
        BY <2>6, <3>3 DEF E2setup, handleE2SetupReq
      <4>2. /\ assoc[p].outs \in Nat \ {0} /\ assoc[p].ins \in Nat \ {0}
            /\ stream \in Nat /\ stream < assoc[p].ins /\ stream # NoStream
        BY DEF TypeOK
      <4>3. ASSUME single' = [single EXCEPT ![p] = stream],
                   "statusFails" \in Env \/ assoc[p].outs = 1 \/ assoc[p].ins = 1
            PROVE  StreamKept'
        BY <4>1, <4>2, <4>3 DEF StreamKept, TypeOK
      <4>4. ASSUME single' = single,
                   "statusFails" \in Env \/ ~ (assoc[p].outs = 1 \/ assoc[p].ins = 1)
            PROVE  StreamKept'
        BY <4>1, <4>2, <4>4 DEF StreamKept, TypeOK
      <4>. QED BY <3>1, <4>1, <4>3, <4>4
    <3>. QED BY <3>2, <3>3
  <2>7. ASSUME NEW n \in Names, NEW type \in DownlinkTypes, NEW sent \in BOOLEAN,
               Downlink(n, type, sent)
        PROVE  StreamKept' /\ StreamExists'
    <3>. DEFINE p == sctpMap[n]
    <3>1. StreamKept' /\ assoc' = assoc /\ single' = single
      BY <2>1, <2>7 DEF Downlink, conn
    <3>2. p \in Peers /\ (type \in NullChecked \/ p \in counters)
      BY <2>7 DEF Downlink, TypeOK
    <3>3. assoc[p].outs \in Nat \ {0} /\ assoc[p].ins \in Nat \ {0}
      BY <3>2 DEF TypeOK
    <3>. DEFINE f == fetchStreamId(p, type)
                kept == f = single[p] /\ f < assoc[p].ins
    <3>4. \/ f < assoc[p].outs
          \/ assoc[p].outs = 1 /\ kept
          \/ "statusFails" \in Env /\ (kept \/ f = 1)
      <4>1. CASE single[p] # NoStream
        BY <3>2, <4>1 DEF fetchStreamId, StreamKept
      <4>2. CASE single[p] = NoStream /\ type \in RequestTypes
        <5>1. p \in counters
          BY <3>2, <4>2 DEF RequestTypes, NullChecked
        <5>2. "statusFails" \in Env \/ assoc[p].outs # 1
          BY <3>2, <4>2, <5>1 DEF StreamKept
        <5>. QED BY <3>3, <4>2, <5>2 DEF fetchStreamId
      <4>3. CASE single[p] = NoStream /\ type \notin RequestTypes
        BY <3>3, <4>3 DEF fetchStreamId
      <4>. QED BY <4>1, <4>2, <4>3
    <3>5. \A m \in sctpOut' : m.peer = p /\ m.stream = f
      BY <2>7 DEF Downlink, sendSctpMsg
    <3>. HIDE DEF f
    <3>. QED BY <3>1, <3>4, <3>5 DEF StreamExists
  <2>8. CASE ClearAll
    BY <2>2, <2>4, <2>8 DEF ClearAll
  <2>9. CASE UNCHANGED vars
    BY <2>1, <2>9 DEF vars, conn, out, StreamExists
  <2>. QED
    BY <2>1, <2>2, <2>3, <2>5, <2>6, <2>7, <2>8, <2>9
    DEF Next, ReadPdu, FromRic, EpollWait, StartReading, StopReading, Relay, ErrorIndication,
        IgnorePdu, DropDownlink, KeepAlive, UndefinedBehaviour, Quiet, conn
<1>. QED BY <1>1, <1>2, TypeCorrect, PTL DEF Spec

-----------------------------------------------------------------------------
(* Undefined behaviour.                                                    *)

\* No event that waits in the batch is of a freed object.
EventsLive == batch \ {"rmr", "listen"} \subseteq alloc

\* An object gets a name only together with its Prometheus counters.
NamedCounted == \A p \in alloc : enodbName[p] # NoName => p \in counters

\* Two events of one batch are the same if epoll_wait returns one at a time.
OneEvent == MaxEvents = 1 => \A e, f \in batch : e = f

\* The objects are finitely many, so a batch has a size.
LEMMA BatchInvariant == Spec => [](IsFiniteSet(alloc) /\ OneEvent)
<1>. DEFINE Inv == IsFiniteSet(alloc) /\ OneEvent
<1>1. Init => Inv
  BY FS_EmptySet DEF Init, OneEvent
<1>2. Inv /\ [Next]_vars => Inv'
  <2>. SUFFICES ASSUME Inv, [Next]_vars PROVE Inv'
    OBVIOUS
  <2>1. ASSUME alloc' = alloc, batch' \subseteq batch PROVE Inv'
    BY <2>1 DEF OneEvent
  <2>2. CASE EpollWait
    <3>1. alloc' = alloc
      BY <2>2 DEF EpollWait, conn
    <3>2. ASSUME MaxEvents = 1, NEW e \in batch', NEW f \in batch' PROVE e = f
      <4>1. batch' \in SUBSET (alloc \cup {"rmr", "listen"}) /\ Cardinality(batch') <= 1
        BY <2>2, <3>2 DEF EpollWait
      <4>2. IsFiniteSet({"rmr", "listen"})
        <5>1. IsFiniteSet({"rmr"} \cup {"listen"})
          BY FS_Singleton, FS_AddElement
        <5>2. {"rmr"} \cup {"listen"} = {"rmr", "listen"}
          OBVIOUS
        <5>. QED BY <5>1, <5>2
      <4>3. IsFiniteSet(alloc \cup {"rmr", "listen"})
        BY <4>2, FS_Union
      <4>4. IsFiniteSet(batch')
        BY <4>1, <4>3, FS_Subset
      <4>5. Cardinality(batch') \in Nat /\ Cardinality(batch') # 0
        BY <3>2, <4>4, FS_CardinalityType, FS_EmptySet
      <4>6. Cardinality(batch') = 1
        BY <4>1, <4>5
      <4>7. PICK x : batch' = {x}
        BY <4>4, <4>6, FS_Singleton
      <4>. QED BY <3>2, <4>7
    <3>. QED BY <3>1, <3>2 DEF OneEvent
  <2>3. CASE Accept
    <3>1. batch' \subseteq batch
      BY <2>3 DEF Accept
    <3>2. ASSUME NEW p \in Peers, alloc' = alloc \cup {p} PROVE IsFiniteSet(alloc')
      BY <3>2, FS_AddElement
    <3>3. IsFiniteSet(alloc')
      BY <2>3, <3>2 DEF Accept, conn
    <3>. QED BY <3>1, <3>3 DEF OneEvent
  <2>4. ASSUME NEW ps, Free(ps), batch' \subseteq batch PROVE Inv'
    <3>1. IsFiniteSet(alloc')
      BY <2>4, FS_Difference DEF Free
    <3>. QED BY <2>4, <3>1 DEF OneEvent
  <2>5. ASSUME NEW p \in Peers
        PROVE  /\ handlepoll_error(p) \/ Disconnect(p) => Free({p}) /\ batch' \subseteq batch
               /\ StartReading(p) \/ StopReading(p) => alloc' = alloc /\ batch' \subseteq batch
               /\ ReadPdu(p) => alloc' = alloc /\ batch' \subseteq batch
    BY DEF handlepoll_error, Disconnect, Teardown, StartReading, StopReading, ReadPdu, E2setup,
           Relay, ErrorIndication, IgnorePdu, conn, loop
  <2>6. (FromRic /\ ~ ClearAll) \/ UndefinedBehaviour \/ UNCHANGED vars
          => alloc' = alloc /\ batch' \subseteq batch
    BY DEF FromRic, Downlink, DropDownlink, KeepAlive, UndefinedBehaviour, conn, loop, vars
  <2>7. CASE ClearAll
    BY <2>4, <2>7 DEF ClearAll
  <2>. QED BY <2>1, <2>2, <2>3, <2>4, <2>5, <2>6, <2>7 DEF Next
<1>. QED BY <1>1, <1>2, PTL DEF Spec

\* If no E2 node sets up again under another identity or leaves out the
\* TransactionID, and RIC_SCTP_CLEAR_ALL does not come or finds no other event
\* in its batch, the listener thread never follows a pointer to a freed object
\* or a null counter, however associations overlap (cleanHashEntry,
\* receiveXappMessages, buildPrometheusList).
THEOREM PointersValid ==
  ASSUME Env \cap {"renames", "omitsTid"} = {},
         "clears" \in Env => MaxEvents = 1
  PROVE  Spec => []NoUndefinedBehaviour
<1>. DEFINE Safe == EventsLive /\ NamedCounted /\ NoUndefinedBehaviour
<1>. USE PeersAssumption
<1>1. Init => Safe
  BY DEF Init, EventsLive, NamedCounted, NoUndefinedBehaviour
<1>2. TypeOK /\ MapSound /\ Loop /\ OneEvent /\ Safe /\ [Next]_vars => Safe'
  <2>. SUFFICES ASSUME TypeOK, MapSound, Loop, OneEvent, Safe, [Next]_vars
                PROVE  EventsLive' /\ NamedCounted' /\ NoUndefinedBehaviour'
    OBVIOUS
  <2>. USE DEF NoUndefinedBehaviour
  <2>1. CASE EpollWait
    BY <2>1 DEF EpollWait, conn, EventsLive, NamedCounted
  <2>2. CASE Accept
    <3>1. CASE UNCHANGED conn
      BY <2>2, <3>1 DEF Accept, conn, EventsLive, NamedCounted
    <3>2. ASSUME NEW p \in Peers \ alloc, alloc' = alloc \cup {p},
                 enodbName' = [enodbName EXCEPT ![p] = NoName], counters' = counters \ {p}
          PROVE  EventsLive' /\ NamedCounted' /\ crashed' = crashed
      BY <2>2, <3>2 DEF Accept, EventsLive, NamedCounted, TypeOK
    <3>. QED BY <2>2, <3>1, <3>2 DEF Accept
  <2>3. ASSUME NEW p \in Peers, Teardown(p), batch' \subseteq batch \ {p}
        PROVE  EventsLive' /\ NamedCounted'
    <3>1. EventsLive'
      BY <2>3 DEF Teardown, Free, EventsLive
    <3>2. NamedCounted'
      BY <2>3 DEF Teardown, Free, NamedCounted, TypeOK
    <3>. QED BY <3>1, <3>2
  <2>4. ASSUME NEW p \in Peers, handlepoll_error(p)
        PROVE  EventsLive' /\ NamedCounted' /\ NoUndefinedBehaviour'
    BY <2>3, <2>4 DEF handlepoll_error
  <2>5. ASSUME NEW p \in Peers, Disconnect(p)
        PROVE  EventsLive' /\ NamedCounted' /\ NoUndefinedBehaviour'
    <3>1. p \notin batch /\ batch' = batch /\ crashed' = crashed
      BY <2>5 DEF Disconnect, Reading, Loop
    <3>. QED BY <2>3, <2>5, <3>1 DEF Disconnect
  <2>6. ASSUME NEW p \in Peers, NEW id \in Keys \cup {BadId}, NEW tid \in Tids \cup {NoTid},
               NEW stream \in 0 .. assoc[p].ins - 1, E2setup(p, id, tid, stream)
        PROVE  EventsLive' /\ NamedCounted' /\ NoUndefinedBehaviour'
    <3>1. tid # NoTid
      BY <2>6 DEF E2setup, SetupAllowed
    <3>2. EventsLive' /\ crashed' = crashed
      BY <2>6 DEF E2setup, EventsLive, loop
    <3>3. CASE id = BadId
      <4>1. enodbName' = [enodbName EXCEPT ![p] = NoName] /\ counters' = counters
        BY <2>6, <3>3, BadIdAssumption DEF E2setup, collectSetupRequestData, Keys
      <4>. QED BY <2>6, <3>2, <4>1 DEF E2setup, NamedCounted, TypeOK
    <3>4. CASE id # BadId
      <4>1. counters' = counters \cup {p}
        BY <2>6, <3>1, <3>4 DEF E2setup, handleE2SetupReq
      <4>2. \A q \in Peers \ {p} : enodbName'[q] = enodbName[q]
        BY <2>6 DEF E2setup, collectSetupRequestData, TypeOK
      <4>. QED BY <2>6, <3>2, <4>1, <4>2 DEF E2setup, NamedCounted, TypeOK
    <3>. QED BY <3>3, <3>4
  <2>7. ASSUME UNCHANGED <<conn, crashed>>, batch' \subseteq batch
        PROVE  EventsLive' /\ NamedCounted' /\ NoUndefinedBehaviour'
    BY <2>7 DEF conn, EventsLive, NamedCounted
  <2>8. ASSUME NEW p \in Peers, NEW kind \in RelayedKinds,
               NEW complete \in BOOLEAN,
               Relay(p, kind, complete)
        PROVE  EventsLive' /\ NamedCounted' /\ NoUndefinedBehaviour'
    BY <2>7, <2>8 DEF Relay, loop
  <2>9. ASSUME NEW n \in Names, NEW type \in DownlinkTypes, NEW sent \in BOOLEAN,
               Downlink(n, type, sent)
        PROVE  EventsLive' /\ NamedCounted' /\ NoUndefinedBehaviour'
    BY <2>7, <2>9 DEF Downlink
  <2>10. ~ UndefinedBehaviour
    <3>1. ~ StaleEvent
      BY DEF StaleEvent, EventsLive
    <3>2. \A p \in Registered : p \in alloc /\ p \in counters
      BY NamesAssumption DEF Registered, MapSound, NamedCounted
    <3>3. ~ NullCounters
      BY DEF NullCounters, SetupSeen, getE2tProcedureOngoingStatus, Loop, NamedCounted
    <3>4. ~ BadClear
      BY <3>2 DEF BadClear, MapSound
    <3>. QED BY <3>1, <3>2, <3>3, <3>4 DEF UndefinedBehaviour, BadDownlink
  <2>11. CASE ClearAll
    <3>1. batch = {"rmr"} /\ batch' = {}
      BY <2>11 DEF ClearAll, Handling, OneEvent
    <3>2. NamedCounted' /\ crashed' = crashed
      BY <2>11 DEF ClearAll, Free, NamedCounted, TypeOK
    <3>. QED BY <3>1, <3>2 DEF EventsLive
  <2>12. CASE UNCHANGED vars
    BY <2>7, <2>12 DEF vars, loop
  <2>13. ASSUME NEW p \in Peers
         PROVE  /\ StartReading(p) => batch' \subseteq batch /\ UNCHANGED <<conn, crashed>>
                /\ StopReading(p) => batch' \subseteq batch /\ UNCHANGED <<conn, crashed>>
                /\ IgnorePdu(p) => batch' \subseteq batch /\ UNCHANGED <<conn, crashed>>
    BY DEF StartReading, StopReading, IgnorePdu, loop
  <2>14. ASSUME NEW p \in Peers, NEW code \in Codes, NEW tid \in Tids \cup {NoTid},
                NEW ies \in SUBSET {"ricRequestId", "cause"}, ErrorIndication(p, code, tid, ies)
         PROVE  EventsLive' /\ NamedCounted' /\ NoUndefinedBehaviour'
    BY <2>7, <2>14 DEF ErrorIndication, loop
  <2>15. CASE DropDownlink \/ KeepAlive
    BY <2>7, <2>15 DEF DropDownlink, KeepAlive
  <2>. QED
    BY <2>1, <2>2, <2>4, <2>5, <2>6, <2>7, <2>8, <2>9, <2>10, <2>11, <2>12, <2>13, <2>14, <2>15
    DEF Next, ReadPdu, FromRic
<1>3. "renames" \notin Env
  OBVIOUS
<1>. QED BY <1>1, <1>2, <1>3, TypeCorrect, LoopInvariant, MapIsSound, BatchInvariant, PTL DEF Spec

-----------------------------------------------------------------------------
(* The E2 nodes that the two maps and the E2 manager know.                 *)

\* No PDU and no message of the RIC resets a procedure status to the value
\* that stands for an absent entry.
LEMMA StatusNeverReset ==
  ASSUME NEW status \in Status, status # "E2_SETUP_PROCEDURE_NOT_INITIATED"
  PROVE  /\ \A kind \in RelayedKinds, sent \in BOOLEAN :
              StatusAfterUplink(kind, sent, status) # "E2_SETUP_PROCEDURE_NOT_INITIATED"
         /\ \A type \in DownlinkTypes, sent \in BOOLEAN :
              StatusAfterDownlink(type, sent, status) # "E2_SETUP_PROCEDURE_NOT_INITIATED"
BY DEF StatusAfterUplink, StatusAfterDownlink

\* Entries appear with the insertion of an E2 setup and disappear with the
\* removal; setting a status does neither.
LEMMA ProcMapPresence ==
  ASSUME NEW m \in ProcMap, NEW name \in Keys, NEW k \in Keys
  PROVE  /\ \A state : state # "E2_SETUP_PROCEDURE_NOT_INITIATED" =>
              (Present(setE2ProcedureOngoingStatus(m, name, state), k) <=> Present(m, k))
         /\ \A tid : Present(insertE2SetupProcedureOngoing(m, name, tid), k)
                      <=> (k = name \/ Present(m, k))
         /\ Present(removeE2ConnectionEntryFromMap(m, name), k)
              <=> (k # name /\ Present(m, k))
BY DEF ProcMap, Entry, NoEntry, Present, currentE2tProcedureOngoingStatus,
       setE2ProcedureOngoingStatus, insertE2SetupProcedureOngoing,
       removeE2ConnectionEntryFromMap

\* What each step does to the set of names the two maps hold: a relayed PDU or
\* message leaves both as they are.
LEMMA RelayKeepsMaps ==
  ASSUME TypeOK,
         \/ \E p \in Peers, kind \in RelayedKinds, complete \in BOOLEAN : Relay(p, kind, complete)
         \/ \E n \in Names, type \in DownlinkTypes, sent \in BOOLEAN : Downlink(n, type, sent)
  PROVE  /\ sctpMap' = sctpMap
         /\ \A k \in Keys : Present(procMap', k) <=> Present(procMap, k)
<1>1. ASSUME NEW name \in Keys, NEW status,
             procMap' = setE2ProcedureOngoingStatus(procMap, name, status),
             Present(procMap, name) => status # "E2_SETUP_PROCEDURE_NOT_INITIATED"
      PROVE  \A k \in Keys : Present(procMap', k) <=> Present(procMap, k)
  <2>1. CASE Present(procMap, name)
    BY <1>1, <2>1, ProcMapPresence DEF TypeOK
  <2>2. CASE ~ Present(procMap, name)
    BY <1>1, <2>2 DEF setE2ProcedureOngoingStatus
  <2>. QED BY <2>1, <2>2
<1>2. \A name \in Keys : procMap[name].status \in Status
  BY DEF TypeOK, ProcMap, Entry
<1>3. ASSUME NEW p \in Peers, NEW kind \in RelayedKinds,
             NEW complete \in BOOLEAN,
               Relay(p, kind, complete)
      PROVE  /\ sctpMap' = sctpMap
             /\ \A k \in Keys : Present(procMap', k) <=> Present(procMap, k)
  <2>. DEFINE sent == kind \in NeedsRequestId \cup NeedsXml => complete
              n == enodbName[p]
  <2>1. n \in Keys
    BY DEF TypeOK
  <2>2. procMap' = setE2ProcedureOngoingStatus(procMap, n,
                     StatusAfterUplink(kind, sent, procMap[n].status))
    BY <1>3 DEF Relay
  <2>3. Present(procMap, n) =>
          StatusAfterUplink(kind, sent, procMap[n].status) # "E2_SETUP_PROCEDURE_NOT_INITIATED"
    BY <1>2, <2>1, StatusNeverReset DEF Present, currentE2tProcedureOngoingStatus
  <2>4. sctpMap' = sctpMap
    BY <1>3 DEF Relay
  <2>. QED BY <1>1, <2>1, <2>2, <2>3, <2>4
<1>4. ASSUME NEW n \in Names, NEW type \in DownlinkTypes, NEW sent \in BOOLEAN,
             Downlink(n, type, sent)
      PROVE  /\ sctpMap' = sctpMap
             /\ \A k \in Keys : Present(procMap', k) <=> Present(procMap, k)
  <2>1. n \in Keys
    BY DEF Keys
  <2>2. procMap' = setE2ProcedureOngoingStatus(procMap, n,
                     StatusAfterDownlink(type, sent, procMap[n].status))
    BY <1>4 DEF Downlink
  <2>3. Present(procMap, n) =>
          StatusAfterDownlink(type, sent, procMap[n].status) # "E2_SETUP_PROCEDURE_NOT_INITIATED"
    BY <1>2, <2>1, StatusNeverReset DEF Present, currentE2tProcedureOngoingStatus
  <2>4. sctpMap' = sctpMap
    BY <1>4 DEF Downlink
  <2>. QED BY <1>1, <2>1, <2>2, <2>3, <2>4
<1>. QED BY <1>3, <1>4

\* The name in a setup request: without a GlobalE2node_ID message.enodbName
\* still has the name of the association.
Meid(p, id) == IF id \in Names THEN id ELSE enodbName[p]

\* What lets the listener answer for a name it did not just read: it is the one
\* in the request, or the association is registered under it.
OldNameRegistered == "renames" \notin Env \/ NamedIsRegistered

\* That holds unless E2 nodes rename and overlap at the same time.
LEMMA OldNamesRegistered ==
  ASSUME ~ {"renames", "overlaps"} \subseteq Env
  PROVE  Spec => []OldNameRegistered
<1>1. CASE "renames" \notin Env
  BY <1>1, PTL DEF OldNameRegistered
<1>2. CASE "overlaps" \notin Env
  <2>1. NamedIsRegistered => OldNameRegistered
    BY DEF OldNameRegistered
  <2>. QED BY <1>2, <2>1, NamedStayRegistered, PTL
<1>. QED BY <1>1, <1>2

\* A setup request that is not ignored enters one name in both maps, the one
\* it reports.
LEMMA SetupMaps ==
  ASSUME TypeOK, Loop, OldNameRegistered, NEW p \in Peers, NEW id \in Keys,
         NEW tid \in Tids, NEW stream, E2setup(p, id, tid, stream)
  PROVE  /\ Meid(p, id) \in Keys
         /\ handleE2SetupReq(p, Meid(p, id), tid, stream)
         /\ \A n \in Names : sctpMap'[n] # Null <=> n = Meid(p, id) \/ sctpMap[n] # Null
         /\ \A k \in Keys : Present(procMap', k) <=> k = Meid(p, id) \/ Present(procMap, k)
<1>. USE PeersAssumption, NamesAssumption
<1>1. id # BadId /\ tid # NoTid
  BY BadIdAssumption, TidsAssumption
<1>2. Meid(p, id) \in Keys
  BY DEF Meid, Keys, TypeOK
<1>3. handleE2SetupReq(p, Meid(p, id), tid, stream)
  BY <1>1 DEF E2setup, Meid
<1>4. \A n \in Names : sctpMap'[n] # Null <=> n = id \/ sctpMap[n] # Null
  BY DEF E2setup, collectSetupRequestData
<1>5. Meid(p, id) # id /\ Meid(p, id) \in Names => sctpMap[Meid(p, id)] # Null
  <2>1. p \in alloc /\ ("renames" \in Env \/ enodbName[p] \in {NoName, id})
    BY DEF E2setup, Reading, SetupAllowed, Loop
  <2>. QED BY <2>1 DEF Meid, OldNameRegistered, NamedIsRegistered, Keys
<1>6. id \in Names => Meid(p, id) = id
  BY DEF Meid
<1>7. \A n \in Names : sctpMap'[n] # Null <=> n = Meid(p, id) \/ sctpMap[n] # Null
  BY <1>4, <1>5, <1>6
<1>8. \A k \in Keys : Present(procMap', k) <=> k = Meid(p, id) \/ Present(procMap, k)
  BY <1>2, <1>3, ProcMapPresence DEF handleE2SetupReq, TypeOK
<1>. QED BY <1>2, <1>3, <1>7, <1>8

\* A setup request with a bad GlobalE2node_ID enters nothing in either map and
\* is not reported.
LEMMA BadSetupMaps ==
  ASSUME NEW p \in Peers, NEW tid, NEW stream, E2setup(p, BadId, tid, stream)
  PROVE  /\ UNCHANGED <<procMap, e2mView>> /\ rmrOut' = {} /\ sctpOut' = {}
         /\ \A n \in Names : sctpMap'[n] = sctpMap[n]
BY BadIdAssumption DEF E2setup, collectSetupRequestData, Keys

\* The end of an association takes its name out of both maps.
LEMMA TeardownMaps ==
  ASSUME TypeOK, NEW p \in Peers, Teardown(p)
  PROVE  /\ sctpMap' = [n \in Names |-> IF n = enodbName[p] THEN Null ELSE sctpMap[n]]
         /\ \A k \in Keys : Present(procMap', k) <=> k # enodbName[p] /\ Present(procMap, k)
BY ProcMapPresence DEF Teardown, TypeOK

\* Without RIC_SCTP_CLEAR_ALL and setup requests that lack the TransactionID,
\* and unless E2 nodes both rename and overlap, sctpMap and
\* connectionHandlingPerE2NodeMap always know the same E2 nodes.
THEOREM MapsAgree ==
  ASSUME Env \cap {"omitsTid", "clears"} = {},
         ~ {"renames", "overlaps"} \subseteq Env
  PROVE  Spec => []ProcRegistered
<1>. USE PeersAssumption, NamesAssumption
<1>1. Init => ProcRegistered
  <2>. SUFFICES ASSUME Init, NEW n \in Names
                PROVE  ~ Present(procMap, n) /\ sctpMap[n] = Null
    BY DEF ProcRegistered
  <2>1. procMap[n] = NoEntry /\ sctpMap[n] = Null
    BY DEF Init, Keys
  <2>. QED BY <2>1 DEF Present, currentE2tProcedureOngoingStatus, NoEntry
<1>2. TypeOK /\ Loop /\ OldNameRegistered /\ ProcRegistered /\ [Next]_vars => ProcRegistered'
  <2>. SUFFICES ASSUME TypeOK, Loop, OldNameRegistered, ProcRegistered, [Next]_vars
                PROVE  ProcRegistered'
    OBVIOUS
  <2>1. ASSUME UNCHANGED maps PROVE ProcRegistered'
    BY <2>1 DEF maps, ProcRegistered
  <2>2. ASSUME NEW p \in Peers, Teardown(p) PROVE ProcRegistered'
    BY <2>2, TeardownMaps DEF ProcRegistered, TypeOK, Keys
  <2>3. ASSUME NEW p \in Peers, NEW id \in Keys \cup {BadId}, NEW tid \in Tids \cup {NoTid},
               NEW stream \in 0 .. assoc[p].ins - 1, E2setup(p, id, tid, stream)
        PROVE  ProcRegistered'
    <3>1. tid \in Tids
      BY <2>3 DEF E2setup, SetupAllowed
    <3>2. CASE id = BadId
      BY <2>3, <3>2, BadSetupMaps DEF ProcRegistered
    <3>3. CASE id \in Keys
      BY <2>3, <3>1, <3>3, SetupMaps DEF ProcRegistered, Keys
    <3>. QED BY <3>2, <3>3
  <2>4. ASSUME NEW p \in Peers, NEW kind \in RelayedKinds,
               NEW complete \in BOOLEAN,
               Relay(p, kind, complete)
        PROVE  ProcRegistered'
    BY <2>4, RelayKeepsMaps DEF ProcRegistered, Keys
  <2>5. ASSUME NEW n \in Names, NEW type \in DownlinkTypes, NEW sent \in BOOLEAN,
               Downlink(n, type, sent)
        PROVE  ProcRegistered'
    BY <2>5, RelayKeepsMaps DEF ProcRegistered, Keys
  <2>6. ~ ClearAll
    BY DEF ClearAll
  <2>7. CASE UNCHANGED vars
    BY <2>1, <2>7 DEF vars
  <2>. QED
    BY <2>1, <2>2, <2>3, <2>4, <2>5, <2>6, <2>7
    DEF Next, ReadPdu, FromRic, EpollWait, Accept, handlepoll_error, StartReading, StopReading,
        Disconnect, ErrorIndication, IgnorePdu, DropDownlink, KeepAlive, UndefinedBehaviour, maps
<1>. QED BY <1>1, <1>2, TypeCorrect, LoopInvariant, OldNamesRegistered, PTL DEF Spec

\* A relayed PDU is of a kind that neither reports a setup nor a failure, so
\* it leaves the E2 manager's view as it is (sendRmrMessage).
LEMMA RelayedNotReported ==
  \A kind \in RelayedKinds :
    RmrTypeOf[kind] \notin {"RIC_E2_SETUP_REQ", "RIC_SCTP_CONNECTION_FAILURE"}
BY DEF RelayedKinds, RmrTypeOf

\* Other messages than those two change no entry of that view.
LEMMA UnreportedSend ==
  ASSUME TypeOK, NEW msgs, NEW tid, SendToRic(msgs, tid),
         \A m \in msgs : m.type \notin {"RIC_E2_SETUP_REQ", "RIC_SCTP_CONNECTION_FAILURE"}
  PROVE  e2mView' = e2mView /\ rmrOut' \subseteq msgs
BY DEF SendToRic, SetupReq, ConnectionFailure, TypeOK

\* What a PDU other than a setup request makes the listener send is for the
\* name of its association, whose setup was seen, and is no such report.
LEMMA UplinkSends ==
  ASSUME TypeOK, NEW p \in Peers,
         \/ \E kind \in RelayedKinds, complete \in BOOLEAN : Relay(p, kind, complete)
         \/ \E code \in Codes, tid \in Tids \cup {NoTid},
              ies \in SUBSET {"ricRequestId", "cause"} : ErrorIndication(p, code, tid, ies)
  PROVE  /\ SetupSeen(p)
         /\ e2mView' = e2mView
         /\ \A m \in rmrOut' :
              /\ m.meid = enodbName[p]
              /\ m.type \notin {"RIC_E2_SETUP_REQ", "RIC_SCTP_CONNECTION_FAILURE"}
<1>1. ASSUME NEW kind \in RelayedKinds,
             NEW complete \in BOOLEAN,
               Relay(p, kind, complete)
      PROVE  \E msgs \in SUBSET {[type |-> RmrTypeOf[kind], meid |-> enodbName[p]]} :
               SendToRic(msgs, NoTid) /\ SetupSeen(p)
  BY <1>1 DEF Relay
<1>2. ASSUME NEW code \in Codes, NEW tid \in Tids \cup {NoTid},
             NEW ies \in SUBSET {"ricRequestId", "cause"}, ErrorIndication(p, code, tid, ies)
      PROVE  \E msgs \in SUBSET {[type |-> t, meid |-> enodbName[p]] :
                 t \in {"RIC_ERROR_INDICATION", "RIC_E2_RIC_ERROR_INDICATION",
                        "RIC_E2_RAN_ERROR_INDICATION"}} :
               SendToRic(msgs, NoTid) /\ SetupSeen(p)
  BY <1>2 DEF ErrorIndication, ErrorIndicationTo, getSendMsgBitSetValue
<1>. QED BY <1>1, <1>2, UnreportedSend, RelayedNotReported

\* sctpMap is sound in an environment in which nobody renames (MapIsSound).
SoundUnlessRenamed == "renames" \notin Env => MapSound

LEMMA RegisteredSound == Spec => []SoundUnlessRenamed
<1>1. CASE "renames" \in Env
  <2>1. SoundUnlessRenamed
    BY <1>1 DEF SoundUnlessRenamed
  <2>. QED BY <2>1, PTL
<1>2. CASE "renames" \notin Env
  <2>1. MapSound => SoundUnlessRenamed
    BY DEF SoundUnlessRenamed
  <2>. QED BY <1>2, <2>1, MapIsSound, PTL
<1>. QED BY <1>1, <1>2

\* What RIC_SCTP_CLEAR_ALL reports covers every name it takes out of sctpMap.
LEMMA ClearAllMaps ==
  ASSUME MapSound, ClearAll
  PROVE  /\ \A n \in Names : sctpMap'[n] = Null
         /\ \A n \in Names : sctpMap[n] # Null => n \in {enodbName[p] : p \in Registered}
<1>1. ASSUME NEW n \in Names, sctpMap[n] # Null
      PROVE  sctpMap[n] \in Registered /\ n = enodbName[sctpMap[n]]
  BY <1>1 DEF Registered, MapSound
<1>. QED BY <1>1 DEF ClearAll

\* If RMR delivers, the failures of names reset these entries of the E2
\* manager's view, and a setup request sets the one of its name.
LEMMA FailuresReport ==
  ASSUME "rmrLoss" \notin Env, NEW ns, SendToRic({ConnectionFailure(n) : n \in ns}, NoTid)
  PROVE  \A n \in Names : e2mView'[n] = IF n \in ns THEN NoTid ELSE e2mView[n]
<1>1. rmrOut' = {ConnectionFailure(n) : n \in ns}
  BY DEF SendToRic
<1>2. \A n \in Names : /\ SetupReq(n) \notin rmrOut'
                       /\ ConnectionFailure(n) \in rmrOut' <=> n \in ns
  BY <1>1 DEF SetupReq, ConnectionFailure
<1>. QED BY <1>2 DEF SendToRic

LEMMA TeardownReports ==
  ASSUME "rmrLoss" \notin Env, NEW p \in Peers, Teardown(p)
  PROVE  \A n \in Names : e2mView'[n] = IF n = enodbName[p] THEN NoTid ELSE e2mView[n]
<1>. DEFINE ns == {enodbName[p]}
<1>1. {ConnectionFailure(n) : n \in ns} = {ConnectionFailure(enodbName[p])}
  OBVIOUS
<1>2. SendToRic({ConnectionFailure(n) : n \in ns}, NoTid)
  BY <1>1 DEF Teardown
<1>3. \A n \in Names : e2mView'[n] = IF n \in ns THEN NoTid ELSE e2mView[n]
  BY <1>2, FailuresReport
<1>. QED BY <1>3

LEMMA SetupReports ==
  ASSUME "rmrLoss" \notin Env, NEW p \in Peers, NEW meid, NEW tid, NEW stream,
         handleE2SetupReq(p, meid, tid, stream)
  PROVE  \A n \in Names : e2mView'[n] = IF n = meid THEN tid ELSE e2mView[n]
<1>1. rmrOut' = {SetupReq(meid)}
  BY DEF handleE2SetupReq, SendToRic
<1>2. \A n \in Names : /\ SetupReq(n) \in rmrOut' <=> n = meid
                       /\ ConnectionFailure(n) \notin rmrOut'
  BY <1>1 DEF SetupReq, ConnectionFailure
<1>. QED BY <1>2 DEF handleE2SetupReq, SendToRic

\* If every setup request carries the TransactionID and RMR delivers, the E2
\* manager, which only learns of setups and connection failures, knows exactly
\* the E2 nodes sctpMap leads to; if E2 nodes rename, they must not overlap
\* and RIC_SCTP_CLEAR_ALL must not come.
THEOREM E2ManagerKnows ==
  ASSUME Env \cap {"omitsTid", "rmrLoss"} = {},
         "renames" \in Env => Env \cap {"clears", "overlaps"} = {}
  PROVE  Spec => []E2MgrView
<1>. USE PeersAssumption, NamesAssumption
<1>1. Init => E2MgrView
  BY DEF Init, E2MgrView
<1>2. TypeOK /\ Loop /\ OldNameRegistered /\ SoundUnlessRenamed /\ E2MgrView /\ [Next]_vars
        => E2MgrView'
  <2>. SUFFICES ASSUME TypeOK, Loop, OldNameRegistered, SoundUnlessRenamed, E2MgrView, [Next]_vars
                PROVE  E2MgrView'
    OBVIOUS
  <2>1. ASSUME UNCHANGED <<sctpMap, e2mView>> PROVE E2MgrView'
    BY <2>1 DEF E2MgrView
  <2>2. ASSUME NEW p \in Peers, Teardown(p) PROVE E2MgrView'
    <3>1. \A n \in Names : e2mView'[n] = IF n = enodbName[p] THEN NoTid ELSE e2mView[n]
      BY <2>2, TeardownReports
    <3>. QED BY <2>2, <3>1, TeardownMaps DEF E2MgrView
  <2>3. ASSUME NEW p \in Peers, NEW id \in Keys \cup {BadId}, NEW tid \in Tids \cup {NoTid},
               NEW stream \in 0 .. assoc[p].ins - 1, E2setup(p, id, tid, stream)
        PROVE  E2MgrView'
    <3>1. tid \in Tids /\ tid # NoTid
      BY <2>3, TidsAssumption DEF E2setup, SetupAllowed
    <3>2. CASE id = BadId
      BY <2>3, <3>2, BadSetupMaps DEF E2MgrView
    <3>3. CASE id \in Keys
      <4>. DEFINE meid == Meid(p, id)
      <4>1. /\ handleE2SetupReq(p, meid, tid, stream)
            /\ \A n \in Names : sctpMap'[n] # Null <=> n = meid \/ sctpMap[n] # Null
        BY <2>3, <3>1, <3>3, SetupMaps
      <4>2. \A n \in Names : e2mView'[n] = IF n = meid THEN tid ELSE e2mView[n]
        BY <4>1, SetupReports
      <4>. QED BY <3>1, <4>1, <4>2 DEF E2MgrView
    <3>. QED BY <3>2, <3>3
  <2>4. ASSUME NEW p \in Peers, NEW kind \in RelayedKinds, NEW complete \in BOOLEAN,
               Relay(p, kind, complete)
        PROVE  E2MgrView'
    BY <2>1, <2>4, UplinkSends, RelayKeepsMaps
  <2>5. ASSUME NEW p \in Peers, NEW code \in Codes, NEW tid \in Tids \cup {NoTid},
               NEW ies \in SUBSET {"ricRequestId", "cause"}, ErrorIndication(p, code, tid, ies)
        PROVE  E2MgrView'
    <3>1. sctpMap' = sctpMap
      BY <2>5 DEF ErrorIndication, maps
    <3>. QED BY <2>1, <2>5, <3>1, UplinkSends
  <2>6. ASSUME NEW n \in Names, NEW type \in DownlinkTypes, NEW sent \in BOOLEAN,
               Downlink(n, type, sent)
        PROVE  E2MgrView'
    BY <2>1, <2>6 DEF Downlink
  <2>7. CASE KeepAlive
    BY <2>1, <2>7, UnreportedSend DEF KeepAlive, maps
  <2>8. CASE ClearAll
    <3>. DEFINE ns == {enodbName[p] : p \in Registered}
    <3>1. MapSound
      BY <2>8 DEF ClearAll, SoundUnlessRenamed
    <3>2. {ConnectionFailure(n) : n \in ns} = {ConnectionFailure(enodbName[p]) : p \in Registered}
      OBVIOUS
    <3>3. \A n \in Names : e2mView'[n] = IF n \in ns THEN NoTid ELSE e2mView[n]
      <4>1. SendToRic({ConnectionFailure(n) : n \in ns}, NoTid)
        BY <2>8, <3>2 DEF ClearAll
      <4>. QED BY <4>1, FailuresReport
    <3>. QED BY <2>8, <3>1, <3>3, ClearAllMaps DEF E2MgrView
  <2>9. CASE UNCHANGED vars
    BY <2>1, <2>9 DEF vars, maps, out
  <2>. QED
    BY <2>1, <2>2, <2>3, <2>4, <2>5, <2>6, <2>7, <2>8, <2>9
    DEF Next, ReadPdu, FromRic, EpollWait, Accept, handlepoll_error, StartReading, StopReading,
        Disconnect, IgnorePdu, DropDownlink, UndefinedBehaviour, Quiet, maps
<1>3. ~ {"renames", "overlaps"} \subseteq Env
  OBVIOUS
<1>. QED
  BY <1>1, <1>2, <1>3, TypeCorrect, LoopInvariant, OldNamesRegistered, RegisteredSound,
     PTL DEF Spec

-----------------------------------------------------------------------------
(* What is relayed to the RIC.                                             *)

\* An association whose setup was seen has a name the RIC can reach.
SeenRegistered == \A p \in alloc : SetupSeen(p) => sctpMap[enodbName[p]] # Null

\* Names with an entry in connectionHandlingPerE2NodeMap are in sctpMap, if
\* neither a setup under another identity nor RIC_SCTP_CLEAR_ALL parts them.
EntryRegistered == \A n \in Names : Present(procMap, n) => sctpMap[n] # Null

\* Unlike the other way round that needs no TransactionID: a request without
\* one is registered and ignored (collectSetupRequestData, handleE2SetupReq).
LEMMA EntriesRegistered ==
  ASSUME Env \cap {"renames", "clears"} = {}
  PROVE  Spec => []EntryRegistered
<1>. USE PeersAssumption, NamesAssumption
<1>1. Init => EntryRegistered
  BY DEF Init, EntryRegistered, Keys, Present, currentE2tProcedureOngoingStatus, NoEntry
<1>2. TypeOK /\ Loop /\ EntryRegistered /\ [Next]_vars => EntryRegistered'
  <2>. SUFFICES ASSUME TypeOK, Loop, EntryRegistered, [Next]_vars PROVE EntryRegistered'
    OBVIOUS
  <2>1. ASSUME UNCHANGED maps PROVE EntryRegistered'
    BY <2>1 DEF maps, EntryRegistered
  <2>2. ASSUME NEW p \in Peers, Teardown(p) PROVE EntryRegistered'
    BY <2>2, TeardownMaps DEF EntryRegistered, TypeOK, Keys
  <2>3. ASSUME NEW p \in Peers, NEW id \in Keys \cup {BadId}, NEW tid \in Tids \cup {NoTid},
               NEW stream \in 0 .. assoc[p].ins - 1, E2setup(p, id, tid, stream)
        PROVE  EntryRegistered'
    <3>1. \A n \in Names : sctpMap'[n] # Null <=> n = id \/ sctpMap[n] # Null
      BY <2>3 DEF E2setup, collectSetupRequestData
    <3>2. CASE tid = NoTid \/ id = BadId
      BY <2>3, <3>1, <3>2 DEF E2setup, EntryRegistered
    <3>3. CASE tid \in Tids /\ id \in Keys
      BY <2>3, <3>1, <3>3, SetupMaps DEF OldNameRegistered, EntryRegistered, Keys
    <3>. QED BY <3>2, <3>3
  <2>4. ASSUME NEW p \in Peers, NEW kind \in RelayedKinds, NEW complete \in BOOLEAN,
               Relay(p, kind, complete)
        PROVE  EntryRegistered'
    BY <2>4, RelayKeepsMaps DEF EntryRegistered, Keys
  <2>5. ASSUME NEW n \in Names, NEW type \in DownlinkTypes, NEW sent \in BOOLEAN,
               Downlink(n, type, sent)
        PROVE  EntryRegistered'
    BY <2>5, RelayKeepsMaps DEF EntryRegistered, Keys
  <2>6. ~ ClearAll
    BY DEF ClearAll
  <2>7. CASE UNCHANGED vars
    BY <2>1, <2>7 DEF vars
  <2>. QED
    BY <2>1, <2>2, <2>3, <2>4, <2>5, <2>6, <2>7
    DEF Next, ReadPdu, FromRic, EpollWait, Accept, handlepoll_error, StartReading, StopReading,
        Disconnect, ErrorIndication, IgnorePdu, DropDownlink, KeepAlive, UndefinedBehaviour, maps
<1>. QED BY <1>1, <1>2, TypeCorrect, LoopInvariant, PTL DEF Spec

\* Either way to it suffices: no association of an E2 node overlaps another, or
\* the two maps are not parted.
LEMMA SeenAreRegistered ==
  ASSUME "overlaps" \notin Env \/ Env \cap {"renames", "clears"} = {}
  PROVE  Spec => []SeenRegistered
<1>1. CASE "overlaps" \notin Env
  <2>1. TypeOK /\ NamedIsRegistered => SeenRegistered
    BY PeersAssumption
    DEF TypeOK, NamedIsRegistered, SeenRegistered, SetupSeen, getE2tProcedureOngoingStatus, Keys
  <2>. QED BY <1>1, <2>1, TypeCorrect, NamedStayRegistered, PTL
<1>2. CASE Env \cap {"renames", "clears"} = {}
  <2>1. TypeOK /\ EntryRegistered => SeenRegistered
    BY DEF TypeOK, EntryRegistered, SeenRegistered, SetupSeen, getE2tProcedureOngoingStatus, Keys
  <2>. QED BY <1>2, <2>1, TypeCorrect, EntriesRegistered, PTL
<1>. QED BY <1>1, <1>2

\* What a step gives to RMR speaks of the listener itself, of a setup or of a
\* failure, or it is for the name of the association that is read, whose setup
\* was seen; then sctpMap and the E2 manager's view stay as they are.
LEMMA RelayedFrom ==
  ASSUME TypeOK, [Next]_vars
  PROVE  \/ UNCHANGED vars
         \/ \A m \in rmrOut' : m.type \in Unsolicited
         \/ \E p \in Peers : /\ Reading(p) /\ SetupSeen(p) /\ enodbName[p] \in Names
                            /\ \A m \in rmrOut' : m.meid = enodbName[p]
                            /\ sctpMap' = sctpMap /\ e2mView' = e2mView
<1>. DEFINE Own == \A m \in rmrOut' : m.type \in Unsolicited
            From(p) == /\ Reading(p) /\ SetupSeen(p) /\ enodbName[p] \in Names
                       /\ \A m \in rmrOut' : m.meid = enodbName[p]
                       /\ sctpMap' = sctpMap /\ e2mView' = e2mView
            Goal == UNCHANGED vars \/ Own \/ \E p \in Peers : From(p)
<1>1. ASSUME NEW p \in Peers, Reading(p), SetupSeen(p), sctpMap' = sctpMap, e2mView' = e2mView,
             \A m \in rmrOut' : m.meid = enodbName[p]
      PROVE  Goal
  <2>1. enodbName[p] \in Names
    BY <1>1 DEF SetupSeen, getE2tProcedureOngoingStatus, TypeOK, Keys
  <2>. QED BY <1>1, <2>1
<1>2. ASSUME NEW p \in Peers, NEW kind \in RelayedKinds, NEW complete \in BOOLEAN,
             Relay(p, kind, complete)
      PROVE  Goal
  <2>1. Reading(p) /\ sctpMap' = sctpMap
    BY <1>2 DEF Relay
  <2>2. SetupSeen(p) /\ e2mView' = e2mView /\ \A m \in rmrOut' : m.meid = enodbName[p]
    BY <1>2, UplinkSends
  <2>. QED BY <1>1, <2>1, <2>2
<1>3. ASSUME NEW p \in Peers, NEW code \in Codes, NEW tid \in Tids \cup {NoTid},
             NEW ies \in SUBSET {"ricRequestId", "cause"}, ErrorIndication(p, code, tid, ies)
      PROVE  Goal
  <2>1. Reading(p) /\ sctpMap' = sctpMap
    BY <1>3 DEF ErrorIndication, maps
  <2>2. SetupSeen(p) /\ e2mView' = e2mView /\ \A m \in rmrOut' : m.meid = enodbName[p]
    BY <1>3, UplinkSends
  <2>. QED BY <1>1, <2>1, <2>2
<1>4. ASSUME NEW p \in Peers, Teardown(p) PROVE Goal
  BY <1>4 DEF Teardown, SendToRic, ConnectionFailure, Unsolicited
<1>5. ASSUME NEW p \in Peers, NEW id \in Keys \cup {BadId}, NEW tid \in Tids \cup {NoTid},
             NEW stream \in 0 .. assoc[p].ins - 1, E2setup(p, id, tid, stream)
      PROVE  Goal
  BY <1>5 DEF E2setup, handleE2SetupReq, SendToRic, SetupReq, Unsolicited
<1>6. ASSUME KeepAlive PROVE Goal
  BY <1>6 DEF KeepAlive, SendToRic, Unsolicited
<1>7. ASSUME ClearAll PROVE Goal
  BY <1>7 DEF ClearAll, SendToRic, ConnectionFailure, Unsolicited
<1>8. ASSUME rmrOut' = {} PROVE Goal
  BY <1>8
<1>9. ASSUME UNCHANGED vars PROVE Goal
  BY <1>9
<1>. HIDE DEF Goal
<1>10. ASSUME NEW p \in Peers,
              \/ handlepoll_error(p) \/ StartReading(p) \/ StopReading(p)
              \/ Disconnect(p) \/ ReadPdu(p)
       PROVE  Goal
  BY <1>2, <1>3, <1>4, <1>5, <1>8, <1>10
  DEF ReadPdu, handlepoll_error, StartReading, StopReading, Disconnect, IgnorePdu, Quiet
<1>11. ASSUME FromRic PROVE Goal
  BY <1>6, <1>7, <1>8, <1>11 DEF FromRic, Downlink, DropDownlink, Quiet
<1>12. ASSUME EpollWait \/ Accept \/ UndefinedBehaviour PROVE Goal
  BY <1>8, <1>12 DEF EpollWait, Accept, UndefinedBehaviour, Quiet
<1>13. Goal
  BY <1>9, <1>10, <1>11, <1>12 DEF Next
<1>. QED BY <1>13, Zenon DEF Goal

\* Nothing is relayed to the RIC of an E2 node that its messages would not
\* reach, even if reports get lost, setups lack the TransactionID and are
\* ignored, and unless E2 nodes that overlap also rename or get cleared
\* (getE2tProcedureOngoingStatus before each PDU that is relayed).
THEOREM RelayedOfRegistered ==
  ASSUME "overlaps" \notin Env \/ Env \cap {"renames", "clears"} = {}
  PROVE  Spec => []UplinkRegistered
<1>1. Init => UplinkRegistered
  BY DEF Init, UplinkRegistered
<1>2. TypeOK /\ Loop /\ SeenRegistered /\ UplinkRegistered /\ [Next]_vars => UplinkRegistered'
  <2>. SUFFICES ASSUME TypeOK, Loop, SeenRegistered, UplinkRegistered, [Next]_vars
                PROVE  UplinkRegistered'
    OBVIOUS
  <2>1. CASE UNCHANGED vars
    BY <2>1 DEF vars, out, maps, UplinkRegistered
  <2>2. CASE \A m \in rmrOut' : m.type \in Unsolicited
    BY <2>2 DEF UplinkRegistered
  <2>3. ASSUME NEW p \in Peers, Reading(p), SetupSeen(p), enodbName[p] \in Names,
               sctpMap' = sctpMap, \A m \in rmrOut' : m.meid = enodbName[p]
        PROVE  UplinkRegistered'
    <3>1. p \in alloc
      BY <2>3, PeersAssumption DEF Reading, Loop
    <3>2. sctpMap[enodbName[p]] # Null
      BY <2>3, <3>1 DEF SeenRegistered
    <3>. QED BY <2>3, <3>2 DEF UplinkRegistered
  <2>. QED BY <2>1, <2>2, <2>3, RelayedFrom
<1>. QED BY <1>1, <1>2, TypeCorrect, LoopInvariant, SeenAreRegistered, PTL DEF Spec

\* An association whose setup was seen has a name the E2 manager knows.
SeenKnown == \A p \in alloc : SetupSeen(p) => e2mView[enodbName[p]] # NoTid

\* connectionHandlingPerE2NodeMap has the names the E2 manager knows, unless
\* RIC_SCTP_CLEAR_ALL leaves entries behind: both follow the same setup
\* requests and failures, whatever sctpMap does in between.
EntryKnown == \A n \in Names : Present(procMap, n) <=> e2mView[n] # NoTid

LEMMA EntriesKnown ==
  ASSUME Env \cap {"clears", "rmrLoss"} = {}
  PROVE  Spec => []EntryKnown
<1>. USE NamesAssumption
<1>1. Init => EntryKnown
  <2>. SUFFICES ASSUME Init, NEW n \in Names PROVE ~ Present(procMap, n) /\ e2mView[n] = NoTid
    BY DEF EntryKnown
  <2>. QED BY DEF Init, Keys, Present, currentE2tProcedureOngoingStatus, NoEntry
<1>2. TypeOK /\ EntryKnown /\ [Next]_vars => EntryKnown'
  <2>. SUFFICES ASSUME TypeOK, EntryKnown, [Next]_vars PROVE EntryKnown'
    OBVIOUS
  <2>1. ASSUME UNCHANGED <<procMap, e2mView>> PROVE EntryKnown'
    BY <2>1 DEF EntryKnown
  <2>2. ASSUME NEW p \in Peers, Teardown(p) PROVE EntryKnown'
    <3>1. \A n \in Names : e2mView'[n] = IF n = enodbName[p] THEN NoTid ELSE e2mView[n]
      BY <2>2, TeardownReports
    <3>. QED BY <2>2, <3>1, TeardownMaps DEF EntryKnown, Keys
  <2>3. ASSUME NEW p \in Peers, NEW id \in Keys \cup {BadId}, NEW tid \in Tids \cup {NoTid},
               NEW stream \in 0 .. assoc[p].ins - 1, E2setup(p, id, tid, stream)
        PROVE  EntryKnown'
    <3>1. CASE tid = NoTid \/ id = BadId
      BY <2>1, <2>3, <3>1 DEF E2setup
    <3>2. CASE tid \in Tids /\ id \in Keys
      <4>. DEFINE meid == Meid(p, id)
      <4>1. meid \in Keys /\ handleE2SetupReq(p, meid, tid, stream)
        BY <2>3, <3>2, BadIdAssumption, TidsAssumption DEF E2setup, Meid, Keys, TypeOK
      <4>2. \A n \in Names : e2mView'[n] = IF n = meid THEN tid ELSE e2mView[n]
        BY <4>1, SetupReports
      <4>3. \A n \in Names : Present(procMap', n) <=> n = meid \/ Present(procMap, n)
        BY <4>1, ProcMapPresence DEF handleE2SetupReq, TypeOK, Keys
      <4>. QED BY <3>2, <4>2, <4>3, TidsAssumption DEF EntryKnown
    <3>. QED BY <3>1, <3>2
  <2>4. ASSUME NEW p \in Peers, NEW kind \in RelayedKinds, NEW complete \in BOOLEAN,
               Relay(p, kind, complete)
        PROVE  EntryKnown'
    BY <2>4, RelayKeepsMaps, UplinkSends DEF EntryKnown, Keys
  <2>5. ASSUME NEW p \in Peers, NEW code \in Codes, NEW tid \in Tids \cup {NoTid},
               NEW ies \in SUBSET {"ricRequestId", "cause"}, ErrorIndication(p, code, tid, ies)
        PROVE  EntryKnown'
    <3>1. procMap' = procMap
      BY <2>5 DEF ErrorIndication, maps
    <3>. QED BY <2>1, <2>5, <3>1, UplinkSends
  <2>6. ASSUME NEW n \in Names, NEW type \in DownlinkTypes, NEW sent \in BOOLEAN,
               Downlink(n, type, sent)
        PROVE  EntryKnown'
    <3>1. e2mView' = e2mView
      BY <2>6 DEF Downlink
    <3>. QED BY <2>6, <3>1, RelayKeepsMaps DEF EntryKnown, Keys
  <2>7. CASE KeepAlive
    BY <2>1, <2>7, UnreportedSend DEF KeepAlive, maps
  <2>8. ~ ClearAll
    BY DEF ClearAll
  <2>9. CASE UNCHANGED vars
    BY <2>1, <2>9 DEF vars, maps, out
  <2>. QED
    BY <2>1, <2>2, <2>3, <2>4, <2>5, <2>6, <2>7, <2>8, <2>9
    DEF Next, ReadPdu, FromRic, EpollWait, Accept, handlepoll_error, StartReading, StopReading,
        Disconnect, IgnorePdu, DropDownlink, UndefinedBehaviour, Quiet, maps
<1>. QED BY <1>1, <1>2, TypeCorrect, PTL DEF Spec

\* If associations of an E2 node do not overlap, RIC_SCTP_CLEAR_ALL frees every
\* association with a name, and a name comes with a setup request that is reported.
NamedKnown == \A p \in alloc : enodbName[p] \in Names => e2mView[enodbName[p]] # NoTid

LEMMA NamedAreKnown ==
  ASSUME Env \cap {"omitsTid", "overlaps", "rmrLoss"} = {}
  PROVE  Spec => []NamedKnown
<1>. USE NamesAssumption, PeersAssumption
<1>1. Init => NamedKnown
  BY DEF Init, NamedKnown
<1>2. TypeOK /\ Loop /\ NamedIsRegistered /\ NamedKnown /\ [Next]_vars => NamedKnown'
  <2>. SUFFICES ASSUME TypeOK, Loop, NamedIsRegistered, NamedKnown, [Next]_vars PROVE NamedKnown'
    OBVIOUS
  <2>1. ASSUME UNCHANGED <<alloc, enodbName, e2mView>> PROVE NamedKnown'
    BY <2>1 DEF NamedKnown
  <2>2. CASE Accept
    <3>1. e2mView' = e2mView
      BY <2>2 DEF Accept, Quiet
    <3>2. \A q \in alloc' : (q \in alloc /\ enodbName'[q] = enodbName[q]) \/ enodbName'[q] = NoName
      BY <2>2 DEF Accept, conn, TypeOK
    <3>. QED BY <3>1, <3>2 DEF NamedKnown
  <2>3. ASSUME NEW p \in Peers, Teardown(p), p \in alloc PROVE NamedKnown'
    <3>1. \A n \in Names : e2mView'[n] = IF n = enodbName[p] THEN NoTid ELSE e2mView[n]
      BY <2>3, TeardownReports
    <3>2. \A q \in alloc' : q \in alloc /\ q # p /\ enodbName'[q] = enodbName[q]
      BY <2>3 DEF Teardown, Free, TypeOK
    <3>3. \A q \in alloc : q # p /\ enodbName[q] \in Names => enodbName[q] # enodbName[p]
      BY <2>3 DEF NamedIsRegistered
    <3>. QED BY <3>1, <3>2, <3>3 DEF NamedKnown
  <2>4. ASSUME NEW p \in Peers, NEW id \in Keys \cup {BadId}, NEW tid \in Tids \cup {NoTid},
               NEW stream \in 0 .. assoc[p].ins - 1, E2setup(p, id, tid, stream)
        PROVE  NamedKnown'
    <3>1. alloc' = alloc /\ tid \in Tids /\ tid # NoTid
      BY <2>4, TidsAssumption DEF E2setup, SetupAllowed
    <3>2. \A q \in Peers : enodbName'[q] = IF q # p THEN enodbName[q]
                                            ELSE IF id \in Names THEN id ELSE NoName
      BY <2>4 DEF E2setup, collectSetupRequestData, TypeOK
    <3>3. CASE id = BadId
      <4>1. e2mView' = e2mView
        BY <2>4, <3>3, BadSetupMaps
      <4>. QED BY <3>1, <3>2, <3>3, <4>1, BadIdAssumption DEF NamedKnown, TypeOK, Keys
    <3>4. CASE id \in Keys
      <4>. DEFINE meid == Meid(p, id)
      <4>1. handleE2SetupReq(p, meid, tid, stream)
        BY <2>4, <3>1, <3>4, BadIdAssumption DEF E2setup, Meid
      <4>2. \A n \in Names : e2mView'[n] = IF n = meid THEN tid ELSE e2mView[n]
        BY <4>1, SetupReports
      <4>3. id \in Names => meid = id
        BY DEF Meid
      <4>. QED BY <3>1, <3>2, <4>2, <4>3 DEF NamedKnown, TypeOK
    <3>. QED BY <3>3, <3>4
  <2>5. ASSUME NEW p \in Peers, NEW kind \in RelayedKinds, NEW complete \in BOOLEAN,
               Relay(p, kind, complete)
        PROVE  NamedKnown'
    <3>1. UNCHANGED <<alloc, enodbName>>
      BY <2>5 DEF Relay, conn
    <3>. QED BY <2>1, <2>5, <3>1, UplinkSends
  <2>6. ASSUME NEW p \in Peers, NEW code \in Codes, NEW tid \in Tids \cup {NoTid},
               NEW ies \in SUBSET {"ricRequestId", "cause"}, ErrorIndication(p, code, tid, ies)
        PROVE  NamedKnown'
    <3>1. UNCHANGED <<alloc, enodbName>>
      BY <2>6 DEF ErrorIndication, conn
    <3>. QED BY <2>1, <2>6, <3>1, UplinkSends
  <2>7. CASE KeepAlive
    <3>1. UNCHANGED <<alloc, enodbName>>
      BY <2>7 DEF KeepAlive, conn
    <3>. QED BY <2>1, <2>7, <3>1, UnreportedSend DEF KeepAlive
  <2>8. CASE ClearAll
    <3>1. alloc' = alloc \ Registered /\ \A q \in alloc' : enodbName'[q] = enodbName[q]
      BY <2>8 DEF ClearAll, Free, TypeOK
    <3>2. \A q \in alloc : enodbName[q] \in Names => q \in Registered
      BY DEF NamedIsRegistered, Registered, TypeOK
    <3>. QED BY <3>1, <3>2 DEF NamedKnown
  <2>9. CASE UNCHANGED vars
    BY <2>1, <2>9 DEF vars, conn, out
  <2>. QED
    BY <2>1, <2>2, <2>3, <2>4, <2>5, <2>6, <2>7, <2>8, <2>9
    DEF Next, ReadPdu, FromRic, EpollWait, handlepoll_error, StartReading, StopReading,
        Disconnect, Reading, Loop, IgnorePdu, Downlink, DropDownlink, UndefinedBehaviour, Quiet,
        conn
<1>3. "overlaps" \notin Env
  OBVIOUS
<1>. QED BY <1>1, <1>2, <1>3, TypeCorrect, LoopInvariant, NamedStayRegistered, PTL DEF Spec

LEMMA SeenAreKnown ==
  ASSUME "rmrLoss" \notin Env,
         "clears" \in Env => Env \cap {"omitsTid", "overlaps"} = {}
  PROVE  Spec => []SeenKnown
<1>1. CASE "clears" \notin Env
  <2>1. TypeOK /\ EntryKnown => SeenKnown
    BY DEF TypeOK, EntryKnown, SeenKnown, SetupSeen, getE2tProcedureOngoingStatus, Keys
  <2>2. Env \cap {"clears", "rmrLoss"} = {}
    BY <1>1
  <2>. QED BY <2>1, <2>2, TypeCorrect, EntriesKnown, PTL
<1>2. CASE "clears" \in Env
  <2>1. TypeOK /\ NamedKnown => SeenKnown
    BY DEF TypeOK, NamedKnown, SeenKnown, SetupSeen, getE2tProcedureOngoingStatus, Keys
  <2>2. Env \cap {"omitsTid", "overlaps", "rmrLoss"} = {}
    BY <1>2
  <2>. QED BY <2>1, <2>2, TypeCorrect, NamedAreKnown, PTL
<1>. QED BY <1>1, <1>2

\* If RMR delivers, nothing is relayed of an E2 node whose setup request the E2
\* manager was not sent, or whose connection failure it was sent since, whatever
\* is renamed, ignored or overlaps; only where RIC_SCTP_CLEAR_ALL leaves the entries
\* of connectionHandlingPerE2NodeMap behind, an E2 node must not be able to
\* use one without a new setup request that is reported.
THEOREM RelayedAfterSetup ==
  ASSUME "rmrLoss" \notin Env,
         "clears" \in Env => Env \cap {"omitsTid", "overlaps"} = {}
  PROVE  Spec => []UplinkAfterSetup
<1>1. Init => UplinkAfterSetup
  BY DEF Init, UplinkAfterSetup
<1>2. TypeOK /\ Loop /\ SeenKnown /\ UplinkAfterSetup /\ [Next]_vars => UplinkAfterSetup'
  <2>. SUFFICES ASSUME TypeOK, Loop, SeenKnown, UplinkAfterSetup, [Next]_vars
                PROVE  UplinkAfterSetup'
    OBVIOUS
  <2>1. CASE UNCHANGED vars
    BY <2>1 DEF vars, out, UplinkAfterSetup
  <2>2. CASE \A m \in rmrOut' : m.type \in Unsolicited
    BY <2>2 DEF UplinkAfterSetup
  <2>3. ASSUME NEW p \in Peers, Reading(p), SetupSeen(p), enodbName[p] \in Names,
               e2mView' = e2mView, \A m \in rmrOut' : m.meid = enodbName[p]
        PROVE  UplinkAfterSetup'
    <3>1. p \in alloc
      BY <2>3, PeersAssumption DEF Reading, Loop
    <3>2. e2mView[enodbName[p]] # NoTid
      BY <2>3, <3>1 DEF SeenKnown
    <3>. QED BY <2>3, <3>2 DEF UplinkAfterSetup
  <2>. QED BY <2>1, <2>2, <2>3, RelayedFrom
<1>. QED BY <1>1, <1>2, TypeCorrect, LoopInvariant, SeenAreKnown, PTL DEF Spec

-----------------------------------------------------------------------------
(* The listener implements the relay.                                      *)

\* The E2 nodes that are up, as ImplementsRelay maps them.
Up == {n \in Names : sctpMap[n] # Null}

\* The end of an association is the relay's GoDown.
LEMMA TeardownGoesDown ==
  ASSUME TypeOK, NEW p \in Peers, Teardown(p)
  PROVE  RanRelay!GoDown({enodbName[p]})
<1>1. Up' = Up \ {enodbName[p]}
  BY TeardownMaps, PeersAssumption DEF Up
<1>2. RanRelay!Report("RIC_SCTP_CONNECTION_FAILURE", {enodbName[p]})
        = {ConnectionFailure(enodbName[p])}
  BY DEF RanRelay!Report, ConnectionFailure
<1>. QED BY <1>1, <1>2 DEF Teardown, SendToRic, RanRelay!GoDown, RanRelay!Send, Up

\* A setup request that is not ignored is the relay's ComeUp, of the name it
\* carries or, without a GlobalE2node_ID, of the name of its association.
LEMMA SetupComesUp ==
  ASSUME TypeOK, Loop, OldNameRegistered, NEW p \in Peers, NEW id \in Keys,
         NEW tid \in Tids, NEW stream, E2setup(p, id, tid, stream)
  PROVE  RanRelay!ComeUp(Meid(p, id))
<1>. DEFINE meid == Meid(p, id)
<1>. USE PeersAssumption
<1>1. /\ handleE2SetupReq(p, meid, tid, stream)
      /\ \A n \in Names : sctpMap'[n] # Null <=> n = meid \/ sctpMap[n] # Null
  BY SetupMaps
<1>2. Up' = Up \cup ({meid} \cap Names)
  BY <1>1 DEF Up
<1>3. RanRelay!Report("RIC_E2_SETUP_REQ", {meid}) = {SetupReq(meid)}
  BY DEF RanRelay!Report, SetupReq
<1>4. sctpOut' = {}
  BY DEF E2setup
<1>. QED BY <1>1, <1>2, <1>3, <1>4
     DEF handleE2SetupReq, SendToRic, RanRelay!ComeUp, RanRelay!Send, Up

\* RIC_SCTP_CLEAR_ALL is the relay's GoDown of all that is up.
LEMMA ClearAllGoesDown ==
  ASSUME MapSound, ClearAll
  PROVE  RanRelay!GoDown({enodbName[p] : p \in Registered})
<1>. DEFINE ns == {enodbName[p] : p \in Registered}
<1>1. Up' = Up \ ns
  BY ClearAllMaps DEF Up
<1>2. RanRelay!Report("RIC_SCTP_CONNECTION_FAILURE", ns)
        = {ConnectionFailure(enodbName[p]) : p \in Registered}
  BY DEF RanRelay!Report, ConnectionFailure
<1>. QED BY <1>1, <1>2 DEF ClearAll, SendToRic, RanRelay!GoDown, RanRelay!Send, Up

\* If every setup request carries the TransactionID and at most one of
\* renaming, clearing and overlapping happens, and whether or not RMR delivers,
\* the listener thread implements E2Relay: a reader of its reports can tell
\* which E2 nodes are up, and PDUs pass in either direction for those only.
THEOREM ListenerIsRelay ==
  ASSUME "omitsTid" \notin Env,
         \A a, b \in Env \cap {"renames", "clears", "overlaps"} : a = b
  PROVE  Spec => ImplementsRelay
<1>. USE PeersAssumption, NamesAssumption
<1>1. Init => RanRelay!Init
  BY DEF Init, RanRelay!Init
<1>2. TypeOK /\ Loop /\ OldNameRegistered /\ SoundUnlessRenamed /\ SeenRegistered /\ [Next]_vars
        => [RanRelay!Next]_<<Up, rmrOut, sctpOut>>
  <2>. SUFFICES ASSUME TypeOK, Loop, OldNameRegistered, SoundUnlessRenamed, SeenRegistered,
                       [Next]_vars
                PROVE  RanRelay!Next \/ UNCHANGED <<Up, rmrOut, sctpOut>>
    OBVIOUS
  <2>1. ASSUME rmrOut' = {}, sctpOut' = {}, \A n \in Names : sctpMap'[n] = sctpMap[n]
        PROVE  RanRelay!Next
    BY <2>1 DEF RanRelay!Next, RanRelay!Other
  <2>2. ASSUME NEW p \in Peers, Teardown(p) PROVE RanRelay!Next
    <3>1. {enodbName[p]} \in SUBSET RanRelay!Keys
      BY DEF TypeOK, Keys, RanRelay!Keys
    <3>2. RanRelay!GoDown({enodbName[p]})
      BY <2>2, TeardownGoesDown
    <3>3. \E ns \in SUBSET RanRelay!Keys : RanRelay!GoDown(ns)
      BY <3>1, <3>2 DEF RanRelay!GoDown, RanRelay!Send, RanRelay!Report
    <3>. QED BY <3>3 DEF RanRelay!Next
  <2>3. ASSUME NEW p \in Peers, NEW id \in Keys \cup {BadId}, NEW tid \in Tids \cup {NoTid},
               NEW stream \in 0 .. assoc[p].ins - 1, E2setup(p, id, tid, stream)
        PROVE  RanRelay!Next
    <3>1. tid \in Tids
      BY <2>3 DEF E2setup, SetupAllowed
    <3>2. CASE id = BadId
      BY <2>1, <2>3, <3>2, BadSetupMaps
    <3>3. CASE id \in Keys
      <4>1. Meid(p, id) \in RanRelay!Keys
        BY DEF Meid, TypeOK, Keys, RanRelay!Keys
      <4>2. RanRelay!ComeUp(Meid(p, id))
        BY <2>3, <3>1, <3>3, SetupComesUp
      <4>3. \E n \in RanRelay!Keys : RanRelay!ComeUp(n)
        BY <4>1, <4>2 DEF RanRelay!ComeUp, RanRelay!Send, RanRelay!Report
      <4>. QED BY <4>3 DEF RanRelay!Next
    <3>. QED BY <3>2, <3>3
  <2>4. ASSUME NEW p \in Peers, Reading(p), SetupSeen(p), sctpMap' = sctpMap, sctpOut' = {},
               \A m \in rmrOut' :
                 /\ m.meid = enodbName[p]
                 /\ m.type \notin {"RIC_E2_SETUP_REQ", "RIC_SCTP_CONNECTION_FAILURE"}
        PROVE  RanRelay!Next
    <3>1. enodbName[p] \in Names
      BY <2>4 DEF SetupSeen, getE2tProcedureOngoingStatus, TypeOK, Keys
    <3>2. sctpMap[enodbName[p]] # Null
      BY <2>4 DEF Reading, Loop, SeenRegistered
    <3>3. RanRelay!RelayUplink(enodbName[p])
      BY <2>4, <3>1, <3>2 DEF RanRelay!RelayUplink, RanRelay!Reports
    <3>. QED BY <3>1, <3>3 DEF RanRelay!Next
  <2>5. ASSUME NEW p \in Peers, NEW kind \in RelayedKinds,
               NEW complete \in BOOLEAN,
               Relay(p, kind, complete)
        PROVE  RanRelay!Next
    BY <2>4, <2>5, UplinkSends DEF Relay
  <2>6. ASSUME NEW p \in Peers, NEW code \in Codes, NEW tid \in Tids \cup {NoTid},
               NEW ies \in SUBSET {"ricRequestId", "cause"}, ErrorIndication(p, code, tid, ies)
        PROVE  RanRelay!Next
    BY <2>4, <2>6, UplinkSends DEF ErrorIndication, maps
  <2>7. ASSUME NEW n \in Names, NEW type \in DownlinkTypes, NEW sent \in BOOLEAN,
               Downlink(n, type, sent)
        PROVE  RanRelay!Next
    <3>1. sctpMap[n] # Null /\ sctpMap' = sctpMap
      BY <2>7 DEF Downlink, TypeOK
    <3>2. rmrOut' = {} /\ \A m \in sctpOut' : m.meid = n
      BY <2>7 DEF Downlink, sendSctpMsg
    <3>3. RanRelay!RelayDownlink(n)
      BY <3>1, <3>2 DEF RanRelay!RelayDownlink
    <3>. QED BY <3>3 DEF RanRelay!Next
  <2>8. CASE KeepAlive
    BY <2>8 DEF KeepAlive, SendToRic, maps, RanRelay!Next, RanRelay!Other, RanRelay!Reports
  <2>9. CASE ClearAll
    <3>. DEFINE ns == {enodbName[p] : p \in Registered}
    <3>1. MapSound
      BY <2>9 DEF ClearAll, SoundUnlessRenamed
    <3>2. ns \in SUBSET RanRelay!Keys
      BY DEF Registered, TypeOK, Keys, RanRelay!Keys
    <3>3. RanRelay!GoDown(ns)
      BY <2>9, <3>1, ClearAllGoesDown
    <3>4. \E down \in SUBSET RanRelay!Keys : RanRelay!GoDown(down)
      BY <3>2, <3>3 DEF RanRelay!GoDown, RanRelay!Send, RanRelay!Report
    <3>. QED BY <3>4 DEF RanRelay!Next
  <2>10. CASE UNCHANGED vars
    BY <2>10 DEF vars, maps, out, Up
  <2>. QED
    BY <2>1, <2>2, <2>3, <2>5, <2>6, <2>7, <2>8, <2>9, <2>10
    DEF Next, ReadPdu, FromRic, EpollWait, Accept, handlepoll_error, StartReading, StopReading,
        Disconnect, IgnorePdu, DropDownlink, UndefinedBehaviour, Quiet, maps
<1>3. /\ "overlaps" \notin Env \/ Env \cap {"renames", "clears"} = {}
      /\ ~ {"renames", "overlaps"} \subseteq Env
  OBVIOUS
<1>. QED
  BY <1>1, <1>2, <1>3, TypeCorrect, LoopInvariant, OldNamesRegistered, RegisteredSound,
     SeenAreRegistered, PTL
  DEF Spec, ImplementsRelay, RanRelay!Spec, Up
=============================================================================
