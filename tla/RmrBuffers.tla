----------------------------- MODULE RmrBuffers -----------------------------
(***************************************************************************)
(* The RMR message buffers of the listener thread and the path of a        *)
(* message through them.                                                   *)
(*                                                                         *)
(* The thread keeps two buffers for its whole life, sendMessage and        *)
(* rcvMessage (RmrMessagesBuffer_t); buildAndSendSetupRequest allocates a  *)
(* third one for the time of a call.  rmr_send_msg takes the buffer it     *)
(* sends and returns another, empty one; a PDU is read from the socket     *)
(* directly into the payload of sendMessage, and message.asndata goes on   *)
(* pointing there.  So whether a message carries what its handler means to *)
(* send depends on what the earlier sends of the same handler did with the *)
(* buffer.                                                                 *)
(*                                                                         *)
(* A handler is the sequence of messages it sends, todo; one step of it is *)
(* one call of RMR.  E2Term decides which handler runs.                    *)
(***************************************************************************)
EXTENDS Naturals, Sequences

CONSTANTS
  Buffers,  \* rmr_mbuf_t objects
  Null,     \* nullptr
  Contents, \* what distinguishes one PDU, failure text or request from another
  Env       \* a subset of {"subMgr"}: an ErrorIndication may be one that also
            \* goes to the subscription manager

ASSUME BuffersAssumption == Null \notin Buffers

VARIABLES
  sendMessage,  \* RmrMessagesBuffer_t.sendMessage
  rcvMessage,   \* RmrMessagesBuffer_t.rcvMessage
  rmrMsg,       \* the buffer of buildAndSendSetupRequest, Null outside it
  asndata,      \* the buffer message.asndata points into
  owner,        \* who may use a buffer: "e2t", "rmr", or nobody ("free")
  payload,      \* what a buffer holds that is the E2 termination's
  todo,         \* the messages the running handler has still to send
  stage,        \* how far the first of them is
  accepted      \* the payload RMR took in the last step, and the message meant

pointers == <<sendMessage, rcvMessage, rmrMsg>>
vars == <<pointers, asndata, owner, payload, todo, stage, accepted>>

Forms == {"pdu", "xml", "text", "keepAlive", "request", "health"}
Data == [form : Forms, of : Contents]
Empty == [form |-> "empty", of |-> Null]

\* A message: the slot it is sent from, what it is meant to carry, and whether
\* the handler writes it there or relies on the buffer holding it already.
Slots == {"sendMessage", "rmrMsg", "rcvMessage"}
Message == [slot : Slots, retry : BOOLEAN, data : Data, write : BOOLEAN]

Buffer(slot) ==
  IF slot = "sendMessage" THEN sendMessage
  ELSE IF slot = "rmrMsg" THEN rmrMsg ELSE rcvMessage

Point(slot, b) ==
  /\ sendMessage' = IF slot = "sendMessage" THEN b ELSE sendMessage
  /\ rmrMsg' = IF slot = "rmrMsg" THEN b ELSE rmrMsg
  /\ rcvMessage' = IF slot = "rcvMessage" THEN b ELSE rcvMessage

Free == {b \in Buffers : owner[b] = "free"}
Idle == todo = <<>>
At(s) == ~ Idle /\ stage = s

-----------------------------------------------------------------------------
(* The messages of the handlers.                                           *)

\* sendRequestToXapp with the bytes as they were received.
Relayed(c) == [slot |-> "sendMessage", retry |-> TRUE,
               data |-> [form |-> "pdu", of |-> c], write |-> FALSE]

\* sendRequestToXapp after the payload was written: by XML_From_PER, or with
\* the text of a lost or cleared association.
Written(form, c) == [slot |-> "sendMessage", retry |-> TRUE,
                     data |-> [form |-> form, of |-> c], write |-> TRUE]

\* buildAndSendSetupRequest.
AsXml(c) == [slot |-> "rmrMsg", retry |-> TRUE,
             data |-> [form |-> "xml", of |-> c], write |-> TRUE]

\* The answers to E2_TERM_KEEP_ALIVE_REQ and RIC_HEALTH_CHECK_REQ.
KeepAlive(c) == [slot |-> "sendMessage", retry |-> FALSE,
                 data |-> [form |-> "keepAlive", of |-> c], write |-> TRUE]
HealthCheck(c) == [slot |-> "rcvMessage", retry |-> FALSE,
                   data |-> [form |-> "health", of |-> c], write |-> TRUE]

\* Mutant: the XML for the E2 manager is written where the PDU is.
ErrorIndicationInPlace(c) ==
  {<<Relayed(c)>>, <<Written("xml", c), Relayed(c)>>}

\* ErrorIndication: to the E2 manager or to the subscription manager if the
\* procedure it belongs to says so, and in any case to the xApps.
ErrorIndication(c) ==
  {<<Relayed(c)>>, <<AsXml(c), Relayed(c)>>}
    \cup IF "subMgr" \in Env THEN {<<Relayed(c), Relayed(c)>>} ELSE {}

\* What the handlers of a PDU may have to send; nothing if it is ignored.
PduMessages(c) ==
  {<<>>, <<Relayed(c)>>, <<AsXml(c)>>, <<Written("xml", c)>>} \cup ErrorIndication(c)

\* What the handlers of a message from the RIC may have to send;
\* RIC_SCTP_CLEAR_ALL reports every association (bound: two of them).
RequestMessages(c) ==
  {<<>>, <<KeepAlive(c)>>, <<HealthCheck(c)>>}
    \cup {<<Written("text", c), Written("text", d)>> : d \in Contents}

-----------------------------------------------------------------------------
(* The events a handler starts with.                                       *)

\* sctp_recvmsg reads into the payload of sendMessage; the end of the
\* association makes it a text.
receiveDataFromSctp(c) ==
  /\ Idle
  /\ asndata' = sendMessage
  /\ payload' = [payload EXCEPT ![sendMessage] = [form |-> "pdu", of |-> c]]
  /\ todo' \in PduMessages(c) \cup {<<Written("text", c)>>}
  /\ stage' = "prepare"
  /\ accepted' = <<>>
  /\ UNCHANGED <<pointers, owner>>

\* rmr_rcv_msg returns the buffer with a message, another one, or nothing, for
\* which a new buffer is allocated.
receiveXappMessages(c) ==
  /\ Idle
  /\ \E b \in Free \cup {rcvMessage} :
       /\ rcvMessage' = b
       /\ owner' = [owner EXCEPT ![rcvMessage] = "free", ![b] = "e2t"]
       /\ \/ /\ payload' = [payload EXCEPT ![rcvMessage] = Empty,
                                           ![b] = [form |-> "request", of |-> c]]
             /\ asndata' = b
             /\ todo' \in RequestMessages(c)
          \/ /\ payload' = [payload EXCEPT ![rcvMessage] = Empty, ![b] = Empty]
             /\ UNCHANGED <<asndata, todo>>
  /\ stage' = "prepare"
  /\ accepted' = <<>>
  /\ UNCHANGED <<sendMessage, rmrMsg>>

-----------------------------------------------------------------------------
(* One message.                                                            *)

\* The payload is written, for buildAndSendSetupRequest into a new buffer.
\* What sendRmrMessage does first, the trace of buildJsonMessage, reads
\* asndata: it changes nothing.
Prepare ==
  /\ At("prepare")
  /\ LET m == Head(todo)
     IN  IF m.slot = "rmrMsg"
         THEN \E b \in Free :
                /\ Point(m.slot, b)
                /\ owner' = [owner EXCEPT ![b] = "e2t"]
                /\ payload' = [payload EXCEPT ![b] = m.data]
                /\ UNCHANGED asndata
         ELSE /\ payload' = IF m.write
                            THEN [payload EXCEPT ![Buffer(m.slot)] = m.data]
                            ELSE payload
              /\ asndata' = IF m.write /\ m.retry THEN Buffer(m.slot) ELSE asndata
              /\ UNCHANGED <<pointers, owner>>
  /\ stage' = "try"
  /\ accepted' = <<>>
  /\ UNCHANGED todo

\* RMR takes the message and returns an empty buffer.
Taken(m) ==
  /\ \E b \in Free :
       /\ Point(m.slot, b)
       /\ owner' = [owner EXCEPT ![Buffer(m.slot)] = "rmr", ![b] = "e2t"]
  /\ payload' = [payload EXCEPT ![Buffer(m.slot)] = Empty]
  /\ accepted' = <<payload[Buffer(m.slot)], m.data>>

\* RMR returns the buffer with a state, or takes it and returns nothing.
Refused == accepted' = <<>> /\ UNCHANGED <<pointers, owner, payload>>

Swallowed(m) ==
  /\ Point(m.slot, Null)
  /\ owner' = [owner EXCEPT ![Buffer(m.slot)] = "free"]
  /\ payload' = [payload EXCEPT ![Buffer(m.slot)] = Empty]
  /\ accepted' = <<>>

\* Mutant: the retry does not look at the state.
RetryAnyway ==
  /\ At("try") \/ At("retry")
  /\ Taken(Head(todo)) \/ Swallowed(Head(todo)) \/ Refused
  /\ stage' = IF At("try") THEN "retry" ELSE "finish"
  /\ UNCHANGED <<asndata, todo>>

\* rmr_send_msg and rmr_rts_msg; RMR_ERR_RETRY leads to one retry.
rmr_send_msg ==
  /\ At("try") \/ At("retry")
  /\ \/ /\ Taken(Head(todo)) \/ Swallowed(Head(todo)) \/ Refused
        /\ stage' = "finish"
     \/ /\ At("try")
        /\ Head(todo).retry
        /\ Refused
        /\ stage' = "retry"
  /\ UNCHANGED <<asndata, todo>>

\* Mutant: the buffer that RMR returned is not freed.
FinishKeepsBuffer ==
  /\ At("finish")
  /\ IF Head(todo).slot = "rmrMsg"
     THEN Point("rmrMsg", Null) /\ UNCHANGED <<owner, payload>>
     ELSE UNCHANGED <<pointers, owner, payload>>
  /\ todo' = Tail(todo)
  /\ stage' = "prepare"
  /\ accepted' = <<>>
  /\ UNCHANGED asndata

\* Mutant: no new buffer is allocated.
FinishKeepsNull ==
  /\ At("finish")
  /\ IF Head(todo).slot = "rmrMsg"
     THEN /\ Point("rmrMsg", Null)
          /\ owner' = [b \in Buffers |-> IF b = rmrMsg THEN "free" ELSE owner[b]]
          /\ payload' = [b \in Buffers |-> IF b = rmrMsg THEN Empty ELSE payload[b]]
     ELSE UNCHANGED <<pointers, owner, payload>>
  /\ todo' = Tail(todo)
  /\ stage' = "prepare"
  /\ accepted' = <<>>
  /\ UNCHANGED asndata

\* What RMR returned is freed (buildAndSendSetupRequest, after the trace), or
\* kept for the next message; a buffer RMR did not return is replaced.
Finish ==
  /\ At("finish")
  /\ LET m == Head(todo)
     IN  IF m.slot = "rmrMsg"
         THEN /\ Point(m.slot, Null)
              /\ owner' = [b \in Buffers |-> IF b = rmrMsg THEN "free" ELSE owner[b]]
              /\ payload' = [b \in Buffers |-> IF b = rmrMsg THEN Empty ELSE payload[b]]
         ELSE IF Buffer(m.slot) = Null
         THEN \E b \in Free :
                /\ Point(m.slot, b)
                /\ owner' = [owner EXCEPT ![b] = "e2t"]
                /\ UNCHANGED payload
         ELSE UNCHANGED <<pointers, owner, payload>>
  /\ todo' = Tail(todo)
  /\ stage' = "prepare"
  /\ accepted' = <<>>
  /\ UNCHANGED asndata

\* RMR is done with a buffer it took.
Transmitted(b) ==
  /\ owner[b] = "rmr"
  /\ owner' = [owner EXCEPT ![b] = "free"]
  /\ accepted' = <<>>
  /\ UNCHANGED <<pointers, asndata, payload, todo, stage>>

-----------------------------------------------------------------------------
\* listener: two buffers are allocated before the loop.
Init ==
  /\ \E s, r \in Buffers :
       /\ s # r
       /\ sendMessage = s
       /\ rcvMessage = r
       /\ owner = [b \in Buffers |-> IF b \in {s, r} THEN "e2t" ELSE "free"]
  /\ rmrMsg = Null
  /\ asndata = Null
  /\ payload = [b \in Buffers |-> Empty]
  /\ todo = <<>>
  /\ stage = "prepare"
  /\ accepted = <<>>

Next ==
  \/ \E c \in Contents : receiveDataFromSctp(c) \/ receiveXappMessages(c)
  \/ Prepare \/ rmr_send_msg \/ Finish
  \/ \E b \in Buffers : Transmitted(b)

Spec == Init /\ [][Next]_vars

-----------------------------------------------------------------------------
(* Properties.                                                             *)

\* Types of the variables; a pointer to a permanent buffer is null only where
\* the code checks for it, at the end of a send.
TypeOK ==
  /\ sendMessage \in Buffers \cup IF At("finish") THEN {Null} ELSE {}
  /\ rcvMessage \in Buffers \cup IF At("finish") THEN {Null} ELSE {}
  /\ rmrMsg \in IF stage = "prepare" THEN {Null} ELSE Buffers \cup {Null}
  /\ asndata \in Buffers \cup {Null}
  /\ owner \in [Buffers -> {"free", "e2t", "rmr"}]
  /\ payload \in [Buffers -> Data \cup {Empty}]
  /\ todo \in Seq(Message)
  /\ stage \in {"prepare", "try", "retry", "finish"}

\* Every buffer the E2 termination owns is reachable from exactly one of its
\* pointers and every pointer is to a buffer it owns: over any sequence of
\* sends, refusals, retries and null returns no buffer is leaked, freed twice
\* or used by two messages (sendRmrMessage, buildAndSendSetupRequest, the
\* answers in receiveXappMessages).
NoBufferLost ==
  /\ {b \in Buffers : owner[b] = "e2t"} = {sendMessage, rcvMessage, rmrMsg} \ {Null}
  /\ sendMessage # Null => sendMessage \notin {rcvMessage, rmrMsg}
  /\ rcvMessage # Null => rcvMessage # rmrMsg

\* The points at which buildJsonMessage reads asndata.
Tracing ==
  \/ At("prepare") /\ Head(todo).retry /\ ~ Head(todo).write
  \/ At("finish") /\ Head(todo).slot = "rmrMsg"

\* buildJsonMessage traces bytes that are still ours: asndata, which points
\* into a payload since the PDU was read or the text written, is not read after
\* the buffer was handed to RMR or replaced.
TracesOwnBuffer == Tracing => asndata \in Buffers /\ owner[asndata] = "e2t"

\* What RMR takes is what the handler means to send: the PDU just read, its
\* XML, the text of this association, not what an earlier message, a refused
\* one or an empty buffer left in the payload.
CarriesItsData == accepted # <<>> => accepted[1] = accepted[2]
=============================================================================
