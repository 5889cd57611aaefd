------------------------------ MODULE E2Relay -------------------------------
(***************************************************************************)
(* What the E2 termination promises to the RIC: a relay for the E2 nodes   *)
(* that are up.  A node comes up with the setup request that is reported   *)
(* for it, goes down with the connection failure that is reported for it,  *)
(* and in between - and only then - its PDUs are relayed to the RIC and    *)
(* the RIC's PDUs are relayed to it.  A reader who folds the reports in    *)
(* order therefore knows which nodes are up.                               *)
(***************************************************************************)
CONSTANTS
  Names,    \* RAN names
  NoName,   \* the name of an association that did not set up
  Lossy     \* whether RMR may drop messages

VARIABLES
  up,       \* the E2 nodes that are up
  rmrOut,   \* the last messages to the RIC, records with type and meid
  sctpOut   \* the last PDUs to E2 nodes, records with meid

Keys == Names \cup {NoName}
Reports == {"RIC_E2_SETUP_REQ", "RIC_SCTP_CONNECTION_FAILURE"}
Report(type, ns) == {[type |-> type, meid |-> n] : n \in ns}

\* The messages msgs are given to RMR.
Send(msgs) == rmrOut' \in IF Lossy THEN SUBSET msgs ELSE {msgs}

\* A setup request; one without a RAN name brings no node up.
ComeUp(n) ==
  /\ up' = up \cup ({n} \cap Names)
  /\ Send(Report("RIC_E2_SETUP_REQ", {n}))
  /\ sctpOut' = {}

\* Associations end; a node that was already down may be reported again.
GoDown(ns) ==
  /\ up' = up \ ns
  /\ Send(Report("RIC_SCTP_CONNECTION_FAILURE", ns))
  /\ sctpOut' = {}

\* A PDU of a node that is up, or nothing of it.
RelayUplink(n) ==
  /\ n \in up
  /\ \A m \in rmrOut' : m.meid = n /\ m.type \notin Reports
  /\ sctpOut' = {}
  /\ UNCHANGED up

\* A message of the RIC for a node that is up, to that node or lost.
RelayDownlink(n) ==
  /\ n \in up
  /\ rmrOut' = {}
  /\ \A m \in sctpOut' : m.meid = n
  /\ UNCHANGED up

\* The E2 termination speaks for itself, or says nothing.
Other ==
  /\ \A m \in rmrOut' : m.meid = NoName /\ m.type \notin Reports
  /\ sctpOut' = {}
  /\ UNCHANGED up

Init == up = {} /\ rmrOut = {} /\ sctpOut = {}

Next ==
  \/ \E n \in Keys : ComeUp(n)
  \/ \E ns \in SUBSET Keys : GoDown(ns)
  \/ \E n \in Names : RelayUplink(n) \/ RelayDownlink(n)
  \/ Other

Spec == Init /\ [][Next]_<<up, rmrOut, sctpOut>>
=============================================================================
