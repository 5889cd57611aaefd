---------------------------- MODULE ProcedureMap ----------------------------
(***************************************************************************)
(* connectionHandlingPerE2NodeMap: for every RAN name the procedure the    *)
(* E2 termination believes to be ongoing and the transaction id of the E2  *)
(* setup that created the entry, with the operations of sctpThread.cpp on  *)
(* it.  The map is a total function on keys; a key that std::map does not  *)
(* hold is mapped to NoEntry (E2_SETUP_PROCEDURE_NOT_INITIATED is returned *)
(* for absent keys and never stored).                                      *)
(***************************************************************************)
CONSTANTS
  Names,      \* RAN names an E2 node can have
  NoName,     \* the empty RAN name
  Tids,       \* transaction ids of E2 setup requests
  NoTid       \* no TransactionID

ASSUME NamesAssumption == NoName \notin Names
ASSUME TidsAssumption == NoTid \notin Tids

Keys == Names \cup {NoName}

\* E2T_Procedure_States, the members the code assigns.
Status ==
  { "E2_SETUP_PROCEDURE_NOT_INITIATED",
    "E2_SETUP_PROCEDURE_ONGOING",
    "E2_SETUP_PROCEDURE_COMPLETED",
    "RIC_SERVICE_UPDATE_PROCEDURE_ONGOING",
    "RIC_SUBS_PROCEDURE_ONGOING",
    "RIC_INDICATION_PROCEDURE_ONGOING",
    "RIC_INDICATION_PROCEDURE_COMPLETED",
    "RIC_SUBS_DEL_PROCEDURE_ONGOING",
    "RIC_SUBS_DEL_PROCEDURE_COMPLETED",
    "CONTROL_PROCEDURE_ONGOING",
    "CONTROL_PROCEDURE_COMPLETED" }

\* E2NodeConnectionHandling, and the whole map.
Entry == [status : Status, tid : Tids \cup {NoTid}]
NoEntry == [status |-> "E2_SETUP_PROCEDURE_NOT_INITIATED", tid |-> NoTid]
ProcMap == [Keys -> Entry]

-----------------------------------------------------------------------------
currentE2tProcedureOngoingStatus(m, name) == m[name].status

Present(m, name) ==
  currentE2tProcedureOngoingStatus(m, name) # "E2_SETUP_PROCEDURE_NOT_INITIATED"

\* TRUE iff an E2 setup request has been handled under this name; the empty
\* name is never found, whatever the map holds.
getE2tProcedureOngoingStatus(m, name) == name # NoName /\ Present(m, name)

setE2ProcedureOngoingStatus(m, name, state) ==
  IF Present(m, name) THEN [m EXCEPT ![name].status = state] ELSE m

\* A second setup request under the same name resets the status only.
insertE2SetupProcedureOngoing(m, name, tid) ==
  IF Present(m, name)
  THEN setE2ProcedureOngoingStatus(m, name, "E2_SETUP_PROCEDURE_ONGOING")
  ELSE [m EXCEPT ![name] = [status |-> "E2_SETUP_PROCEDURE_ONGOING", tid |-> tid]]

\* Mutant: the entry of a lost E2 node stays.
KeepEntry(m, name) == m

removeE2ConnectionEntryFromMap(m, name) == [m EXCEPT ![name] = NoEntry]

-----------------------------------------------------------------------------
\* CriticalityDiagnostics.procedureCode of an ErrorIndication: absent (0), one
\* of the three codes the code knows, or any other.
Codes == {"absent", "E2setup", "RICserviceUpdate", "RICsubscription", "other"}

\* ies: which of the IEs "transactionId" (present and equal to the entry's),
\* "ricRequestId" and "cause" the ErrorIndication carries.  The result is the
\* component the indication is also reported to: "E2M", "SubMgr" or "none".
getSendMsgBitSetValue(code, ies, status) ==
  LET setup == "transactionId" \in ies
      subscription == {"ricRequestId", "cause"} \subseteq ies
      setupOngoing == status \in {"E2_SETUP_PROCEDURE_COMPLETED",
                                  "RIC_SERVICE_UPDATE_PROCEDURE_ONGOING"}
  IN  CASE code = "absent" /\ setupOngoing /\ setup -> "E2M"
        [] code = "absent" /\ status = "RIC_SUBS_PROCEDURE_ONGOING"
                           /\ subscription -> "SubMgr"
        [] code \in {"E2setup", "RICserviceUpdate"} /\ setup -> "E2M"
        [] code = "RICsubscription" /\ subscription -> "SubMgr"
        [] OTHER -> "none"
=============================================================================
