-------------------------- MODULE E2TermProperties --------------------------
(***************************************************************************)
(* What has to hold of the listener thread's maps, of what it tells the    *)
(* RIC and of what it sends to E2 nodes.                                   *)
(***************************************************************************)
EXTENDS E2Term

\* The types of the variables: RAN names, pointers and statuses are what
\* sctpThread.h declares, and a rejected GlobalE2node_ID leaves no name.
TypeOK ==
  /\ alloc \subseteq Peers
  /\ enodbName \in [Peers -> Keys]
  /\ counters \subseteq Peers
  /\ single \in [Peers -> Nat \cup {NoStream}]
  /\ assoc \in [Peers -> StreamConfigs]
  /\ sctpMap \in [Names -> Peers \cup {Null}]
  /\ procMap \in ProcMap
  /\ batch \subseteq Peers \cup {"rmr", "listen"}
  /\ cur \in Peers \cup {Null}
  /\ e2mView \in [Names -> Tids \cup {NoTid}]
  /\ crashed \in BOOLEAN

-----------------------------------------------------------------------------
(* The maps.                                                               *)

\* As long as an association does not change its identity, whatever overlapping
\* associations, repeated or ignored setups, failures and reuse of memory came
\* before: sctpMap leads to an object that was not freed and that carries the
\* name it is registered under (collectSetupRequestData, cleanHashEntry).
MapSound ==
  \A n \in Names : sctpMap[n] # Null =>
    sctpMap[n] \in alloc /\ enodbName[sctpMap[n]] = n

\* As long as an E2 node does not open a second association, the association
\* that carries its name is the one sctpMap has: no teardown of another one
\* and no RIC_SCTP_CLEAR_ALL takes it out of reach of the RIC.
NamedIsRegistered ==
  \A p \in alloc : enodbName[p] \in Names => sctpMap[enodbName[p]] = p

\* The two maps agree on which E2 nodes there are: connectionHandlingPerE2NodeMap
\* has an entry exactly for the names sctpMap has (handleE2SetupReq inserts in
\* one, collectSetupRequestData in the other, the teardown removes from both).
ProcRegistered == \A n \in Names : Present(procMap, n) <=> sctpMap[n] # Null

-----------------------------------------------------------------------------
(* What the RIC sees.                                                      *)

\* E2 manager, which only sees RIC_E2_SETUP_REQ and
\* RIC_SCTP_CONNECTION_FAILURE, knows exactly the E2 nodes that can be reached
\* through sctpMap.
E2MgrView == \A n \in Names : e2mView[n] # NoTid <=> sctpMap[n] # Null

Unsolicited ==
  {"RIC_E2_SETUP_REQ", "RIC_SCTP_CONNECTION_FAILURE", "E2_TERM_KEEP_ALIVE_RESP"}

\* The PDUs of an E2 node are relayed only between the setup request and the
\* connection failure that were sent for it, so the RIC never gets an
\* indication of a node it does not know (getE2tProcedureOngoingStatus).
UplinkAfterSetup ==
  \A m \in rmrOut :
    \/ m.type \in Unsolicited
    \/ m.meid \in Names /\ e2mView[m.meid] # NoTid

\* Even if reports get lost and setup requests are ignored, what is relayed
\* comes from a name that the RIC's messages can be delivered to.
UplinkRegistered ==
  \A m \in rmrOut :
    \/ m.type \in Unsolicited
    \/ m.meid \in Names /\ sctpMap[m.meid] # Null

\* The listener is a relay for the E2 nodes that are up: see E2Relay.
RanRelay == INSTANCE E2Relay WITH
  up <- {n \in Names : sctpMap[n] # Null}, Lossy <- "rmrLoss" \in Env
ImplementsRelay == RanRelay!Spec

-----------------------------------------------------------------------------
(* What E2 nodes see.                                                      *)

\* A message of the RIC for an E2 node goes to an open association of that
\* node, also when memory of an old one was reused (receiveXappMessages).
DownlinkToOwner ==
  \A m \in sctpOut : m.peer \in alloc /\ enodbName[m.peer] = m.meid

\* A message is sent on a stream the association has, also for the request
\* types that go to stream 1 (fetchStreamId).  The one exception is an E2 node that
\* takes one stream and sends on several ("mismatch in number of in & out
\* streams", handleE2SetupReq): it is answered on the stream that its setup request
\* came in on, and on no other.  Only if the stream counts could not be read, the
\* stream of a setup request or stream 1 is used with any number of streams.
StreamExists ==
  \A m \in sctpOut :
    LET s == assoc[m.peer]
        kept == m.stream = single[m.peer] /\ m.stream < s.ins
    IN  \/ m.stream < s.outs
        \/ s.outs = 1 /\ kept
        \/ "statusFails" \in Env /\ (kept \/ m.stream = 1)

-----------------------------------------------------------------------------
\* No event, map entry or counter that the listener uses is gone: it never
\* follows a pointer to a freed ConnectedCU_t or a null counter.
NoUndefinedBehaviour == ~crashed
=============================================================================
