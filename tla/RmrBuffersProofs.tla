-------------------------- MODULE RmrBuffersProofs --------------------------
(***************************************************************************)
(* Proofs about RmrBuffers, for any number of buffers and contents and any *)
(* sequence of results of RMR.  One invariant carries all four properties. *)
(* Its first half, about the pointers and the owners, holds for every      *)
(* handler: no buffer is lost.  Its second half, about the bytes, needs    *)
(* that no ErrorIndication also goes to the subscription manager: then a   *)
(* trace reads a buffer that is ours and a message carries what its        *)
(* handler meant.                                                          *)
(***************************************************************************)
EXTENDS RmrBuffers, TLAPS

\* An ErrorIndication is not one for the subscription manager.
NotForSubMgr == "subMgr" \notin Env

\* What the running handler has left to send: buildAndSendSetupRequest comes
\* first, and a message that relies on the payload of sendMessage comes before
\* every other use of sendMessage.
TodoShape ==
  \A i \in 1..Len(todo) :
    /\ i > 1 => todo[i].slot # "rmrMsg"
    /\ ~ todo[i].write => /\ todo[i].slot = "sendMessage"
                          /\ NotForSubMgr => i = 1 \/ (i = 2 /\ todo[1].slot = "rmrMsg")

\* Only the buffer of the message that is being sent can be missing.
HeadSlot ==
  /\ Idle => stage = "prepare"
  /\ stage # "prepare" => /\ Head(todo).slot # "rmrMsg" => rmrMsg = Null
                          /\ Head(todo).slot # "sendMessage" => sendMessage \in Buffers
                          /\ Head(todo).slot # "rcvMessage" => rcvMessage \in Buffers
  /\ stage \in {"try", "retry"} => Buffer(Head(todo).slot) \in Buffers

\* The payload is there until it was sent.
Holds ==
  NotForSubMgr =>
    /\ stage \in {"try", "retry"} => payload[Buffer(Head(todo).slot)] = Head(todo).data
    /\ \A i \in 1..Len(todo) :
         /\ ~ todo[i].write /\ (i > 1 \/ stage = "prepare") =>
              payload[sendMessage] = todo[i].data /\ asndata = sendMessage
         /\ todo[i].slot = "rmrMsg" => asndata = sendMessage

IInv == TypeOK /\ NoBufferLost /\ TodoShape /\ HeadSlot /\ Holds

\* What RMR took in the last step carries its data, under the same condition.
Carried == NotForSubMgr => CarriesItsData

-----------------------------------------------------------------------------
(* The handlers as a whole.                                                *)

\* The messages of a handler are messages, in the order TodoShape asks for.
LEMMA HandlerShape ==
  ASSUME NEW c \in Contents,
         NEW t \in PduMessages(c) \cup {<<Written("text", c)>>} \cup RequestMessages(c)
  PROVE  /\ t \in Seq(Message)
         /\ \A i \in 1..Len(t) :
              /\ i > 1 => t[i].slot # "rmrMsg"
              /\ ~ t[i].write => /\ t[i].slot = "sendMessage"
                                 /\ t[i].data = [form |-> "pdu", of |-> c]
                                 /\ NotForSubMgr => i = 1 \/ (i = 2 /\ t[1].slot = "rmrMsg")
<1> DEFINE R == Relayed(c)
           X == AsXml(c)
           W(f, d) == Written(f, d)
<1>1. /\ R \in Message /\ R.slot = "sendMessage" /\ R.data = [form |-> "pdu", of |-> c]
      /\ X \in Message /\ X.write /\ X.slot = "rmrMsg"
  BY DEF Relayed, AsXml, Message, Slots, Data, Forms
<1>2. ASSUME NEW f \in Forms, NEW d \in Contents
      PROVE  W(f, d) \in Message /\ W(f, d).write /\ W(f, d).slot # "rmrMsg"
  BY DEF Written, Message, Slots, Data, Forms
<1>3. /\ KeepAlive(c) \in Message /\ KeepAlive(c).write /\ KeepAlive(c).slot # "rmrMsg"
      /\ HealthCheck(c) \in Message /\ HealthCheck(c).write /\ HealthCheck(c).slot # "rmrMsg"
  BY DEF KeepAlive, HealthCheck, Message, Slots, Data, Forms
<1>4. {"xml", "text"} \subseteq Forms
  BY DEF Forms
<1> HIDE DEF R, X, W
<1>5. \/ t = <<>>
      \/ t = <<R>>
      \/ t = <<X>>
      \/ t = <<X, R>>
      \/ ~ NotForSubMgr /\ t = <<R, R>>
      \/ \E m \in {W("xml", c), W("text", c), KeepAlive(c), HealthCheck(c)} : t = <<m>>
      \/ \E d \in Contents : t = <<W("text", c), W("text", d)>>
  BY DEF PduMessages, ErrorIndication, RequestMessages, NotForSubMgr, R, X, W
<1>6. CASE \/ t = <<>> \/ t = <<R>> \/ t = <<X>> \/ t = <<X, R>>
           \/ ~ NotForSubMgr /\ t = <<R, R>>
  <2>1. CASE t = <<>>
    BY <2>1
  <2>2. CASE t = <<R>>
    BY <1>1, <2>2
  <2>3. CASE t = <<X>>
    BY <1>1, <2>3
  <2>4. CASE t = <<X, R>>
    <3>1. t \in Seq(Message) /\ Len(t) = 2 /\ t[1] = X /\ t[2] = R
      BY <1>1, <2>4
    <3> QED
      BY <1>1, <3>1
  <2>5. CASE ~ NotForSubMgr /\ t = <<R, R>>
    <3>1. t \in Seq(Message) /\ Len(t) = 2 /\ t[1] = R /\ t[2] = R
      BY <1>1, <2>5
    <3> QED
      BY <1>1, <2>5, <3>1
  <2> QED
    BY <1>6, <2>1, <2>2, <2>3, <2>4, <2>5
<1>7. CASE \E m \in {W("xml", c), W("text", c), KeepAlive(c), HealthCheck(c)} : t = <<m>>
  BY <1>2, <1>3, <1>4, <1>7
<1>8. CASE \E d \in Contents : t = <<W("text", c), W("text", d)>>
  BY <1>2, <1>4, <1>8
<1> QED
  BY <1>5, <1>6, <1>7, <1>8

\* NoBufferLost, buffer by buffer.
LEMMA Owned ==
  ASSUME NoBufferLost
  PROVE  \A b \in Buffers : owner[b] = "e2t" <=> b \in {sendMessage, rcvMessage, rmrMsg}
<1> SUFFICES ASSUME NEW b \in Buffers
             PROVE  owner[b] = "e2t" <=> b \in {sendMessage, rcvMessage, rmrMsg}
  OBVIOUS
<1>1. b \in {d \in Buffers : owner[d] = "e2t"} <=>
        b \in {sendMessage, rcvMessage, rmrMsg} \ {Null}
  BY DEF NoBufferLost
<1> QED
  BY <1>1, BuffersAssumption

LEMMA InitIInv == Init => IInv
<1> SUFFICES ASSUME Init PROVE IInv
  OBVIOUS
<1>1. TypeOK
  BY BuffersAssumption DEF Init, TypeOK, At, Idle, Data, Empty
<1>2. NoBufferLost
  BY BuffersAssumption DEF Init, NoBufferLost
<1>3. TodoShape /\ HeadSlot /\ Holds
  BY DEF Init, TodoShape, HeadSlot, Holds, Idle
<1> QED
  BY <1>1, <1>2, <1>3 DEF IInv

LEMMA ReceiveDataStep ==
  ASSUME IInv, NEW c \in Contents, receiveDataFromSctp(c)
  PROVE  IInv' /\ Carried'
<1> USE DEF IInv
<1>1. sendMessage \in Buffers /\ rcvMessage \in Buffers /\ rmrMsg = Null
  BY DEF receiveDataFromSctp, TypeOK, HeadSlot, Idle, At
<1>2. /\ todo' \in Seq(Message)
      /\ \A i \in 1..Len(todo') :
           /\ i > 1 => todo'[i].slot # "rmrMsg"
           /\ ~ todo'[i].write => /\ todo'[i].slot = "sendMessage"
                                  /\ todo'[i].data = [form |-> "pdu", of |-> c]
                                  /\ NotForSubMgr =>
                                       i = 1 \/ (i = 2 /\ todo'[1].slot = "rmrMsg")
  <2>1. todo' \in PduMessages(c) \cup {<<Written("text", c)>>} \cup RequestMessages(c)
    BY DEF receiveDataFromSctp
  <2> QED
    BY <2>1, HandlerShape
<1>3. TypeOK'
  BY <1>1, <1>2 DEF receiveDataFromSctp, pointers, TypeOK, At, Idle, Data, Forms
<1>4. NoBufferLost'
  BY DEF receiveDataFromSctp, pointers, NoBufferLost
<1>5. TodoShape'
  BY <1>2 DEF TodoShape
<1>6. HeadSlot'
  BY DEF receiveDataFromSctp, HeadSlot
<1>7. Holds'
  BY <1>1, <1>2 DEF receiveDataFromSctp, pointers, Holds, TypeOK
<1>8. Carried'
  BY DEF receiveDataFromSctp, Carried, CarriesItsData
<1> QED
  BY <1>3, <1>4, <1>5, <1>6, <1>7, <1>8

\* A handler of a message from the RIC writes what it sends itself.
LEMMA RequestShape ==
  ASSUME NEW c \in Contents, NEW t \in RequestMessages(c), NEW i \in 1..Len(t)
  PROVE  t[i].write /\ t[i].slot # "rmrMsg"
<1>1. KeepAlive(c).write /\ KeepAlive(c).slot # "rmrMsg"
  BY DEF KeepAlive
<1>2. HealthCheck(c).write /\ HealthCheck(c).slot # "rmrMsg"
  BY DEF HealthCheck
<1>3. \A d \in Contents : Written("text", d).write /\ Written("text", d).slot # "rmrMsg"
  BY DEF Written
<1>4. \/ t = <<>>
      \/ t = <<KeepAlive(c)>>
      \/ t = <<HealthCheck(c)>>
      \/ \E d \in Contents : t = <<Written("text", c), Written("text", d)>>
  BY DEF RequestMessages
<1>5. CASE t = <<>> \/ t = <<KeepAlive(c)>> \/ t = <<HealthCheck(c)>>
  BY <1>1, <1>2, <1>5
<1>6. CASE \E d \in Contents : t = <<Written("text", c), Written("text", d)>>
  BY <1>3, <1>6
<1> QED
  BY <1>4, <1>5, <1>6

LEMMA ReceiveRequestStep ==
  ASSUME IInv, NEW c \in Contents, receiveXappMessages(c)
  PROVE  IInv' /\ Carried'
<1> USE DEF IInv
<1>1. sendMessage \in Buffers /\ rcvMessage \in Buffers /\ rmrMsg = Null
      /\ todo = <<>> /\ sendMessage # rcvMessage
  BY BuffersAssumption
     DEF receiveXappMessages, TypeOK, NoBufferLost, HeadSlot, Idle, At
<1>2. PICK b \in Free \cup {rcvMessage} :
        /\ rcvMessage' = b
        /\ owner' = [owner EXCEPT ![rcvMessage] = "free", ![b] = "e2t"]
        /\ \/ /\ payload' = [payload EXCEPT ![rcvMessage] = Empty,
                                            ![b] = [form |-> "request", of |-> c]]
              /\ asndata' = b
              /\ todo' \in RequestMessages(c)
           \/ /\ payload' = [payload EXCEPT ![rcvMessage] = Empty, ![b] = Empty]
              /\ UNCHANGED <<asndata, todo>>
  BY DEF receiveXappMessages
<1>3. b \in Buffers /\ b # sendMessage
  BY <1>1, <1>2, Owned DEF Free
<1>4. /\ todo' \in Seq(Message)
      /\ \A i \in 1..Len(todo') : todo'[i].write /\ todo'[i].slot # "rmrMsg"
  <2>1. CASE todo' \in RequestMessages(c)
    BY <2>1, HandlerShape, RequestShape
  <2>2. CASE todo' = <<>>
    BY <2>2
  <2> QED
    BY <1>1, <1>2, <2>1, <2>2
<1>5. UNCHANGED <<sendMessage, rmrMsg>> /\ stage' = "prepare" /\ accepted' = <<>>
  BY DEF receiveXappMessages
<1>6. TypeOK'
  <2>1. /\ owner' \in [Buffers -> {"free", "e2t", "rmr"}]
        /\ payload' \in [Buffers -> Data \cup {Empty}]
        /\ asndata' \in Buffers \cup {Null}
    BY <1>2, <1>3 DEF TypeOK, Data, Forms
  <2> QED
    BY <1>1, <1>2, <1>3, <1>4, <1>5, <2>1 DEF TypeOK, At, Idle
<1>7. NoBufferLost'
  BY <1>1, <1>2, <1>3, <1>5, BuffersAssumption DEF NoBufferLost, TypeOK
<1>8. TodoShape' /\ Holds'
  BY <1>4, <1>5 DEF TodoShape, Holds
<1>9. HeadSlot' /\ Carried'
  BY <1>5 DEF HeadSlot, Carried, CarriesItsData
<1> QED
  BY <1>6, <1>7, <1>8, <1>9

LEMMA PrepareStep ==
  ASSUME IInv, Prepare
  PROVE  IInv' /\ Carried'
<1> USE DEF IInv
<1> DEFINE m == Head(todo)
<1>1. /\ todo # <<>> /\ todo \in Seq(Message) /\ m \in Message /\ m = todo[1]
      /\ Len(todo) \in Nat /\ Len(todo) > 0 /\ stage = "prepare"
  BY DEF Prepare, At, Idle, TypeOK
<1>2. sendMessage \in Buffers /\ rcvMessage \in Buffers /\ rmrMsg = Null
      /\ sendMessage # rcvMessage
  BY <1>1, BuffersAssumption DEF TypeOK, NoBufferLost, At
<1>3. todo' = todo /\ stage' = "try" /\ accepted' = <<>>
  BY DEF Prepare
<1>4. TodoShape' /\ Carried'
  BY <1>3 DEF TodoShape, Carried, CarriesItsData
<1>5. CASE m.slot = "rmrMsg"
  <2>1. PICK b \in Free : /\ Point("rmrMsg", b)
                          /\ owner' = [owner EXCEPT ![b] = "e2t"]
                          /\ payload' = [payload EXCEPT ![b] = m.data]
                          /\ UNCHANGED asndata
    BY <1>5 DEF Prepare
  <2>2. rmrMsg' = b /\ UNCHANGED <<sendMessage, rcvMessage>>
    BY <2>1 DEF Point
  <2>3. b \in Buffers /\ b # sendMessage /\ b # rcvMessage
    BY <1>2, <2>1, Owned DEF Free
  <2>4. TypeOK'
    BY <1>1, <1>2, <1>3, <2>1, <2>2, <2>3 DEF TypeOK, At, Idle, Message
  <2>5. NoBufferLost'
    BY <1>2, <2>1, <2>2, <2>3, BuffersAssumption DEF NoBufferLost, TypeOK
  <2>6. Buffer(m.slot)' = b
    BY <1>3, <1>5, <2>2 DEF Buffer
  <2>7. HeadSlot'
    BY <1>1, <1>2, <1>3, <1>5, <2>2, <2>3, <2>6 DEF HeadSlot, Idle, Buffer
  <2>8. payload'[b] = m.data /\ payload'[sendMessage] = payload[sendMessage]
    BY <1>2, <2>1, <2>3 DEF TypeOK
  <2>9. Holds'
    BY <1>1, <1>3, <1>5, <2>1, <2>2, <2>8 DEF Holds, Buffer
  <2> QED
    BY <1>4, <2>4, <2>5, <2>7, <2>9
<1>6. CASE m.slot # "rmrMsg"
  <2>1. /\ payload' = IF m.write THEN [payload EXCEPT ![Buffer(m.slot)] = m.data]
                                 ELSE payload
        /\ asndata' = IF m.write /\ m.retry THEN Buffer(m.slot) ELSE asndata
        /\ UNCHANGED <<sendMessage, rcvMessage, rmrMsg, owner>>
    BY <1>6 DEF Prepare, pointers
  <2>2. Buffer(m.slot) \in Buffers /\ Buffer(m.slot)' = Buffer(m.slot)
    BY <1>1, <1>2, <1>3, <1>6, <2>1 DEF Buffer, Message, Slots
  <2>3. TypeOK'
    BY <1>1, <1>2, <1>3, <2>1, <2>2 DEF TypeOK, At, Idle, Message
  <2>4. NoBufferLost' /\ HeadSlot'
    BY <1>1, <1>2, <1>3, <2>1, <2>2 DEF NoBufferLost, HeadSlot, Idle, Buffer
  <2>5. NotForSubMgr => payload'[Buffer(m.slot)] = m.data
    BY <1>1, <2>1, <2>2 DEF TypeOK, Holds, TodoShape, Buffer
  <2>6. \A i \in 1..Len(todo) : todo[i].slot # "rmrMsg"
    BY <1>1, <1>6 DEF TodoShape
  <2>7. NotForSubMgr => \A i \in 1..Len(todo) : i > 1 => todo[i].write
    BY <1>1, <1>6 DEF TodoShape
  <2>8. Holds'
    BY <1>1, <1>3, <2>1, <2>2, <2>5, <2>6, <2>7 DEF Holds, Buffer
  <2> QED
    BY <1>4, <2>3, <2>4, <2>8
<1> QED
  BY <1>5, <1>6

\* The first message is the only one a call of RMR touches; what it does to
\* the buffers is the same whether RMR took the message or swallowed it.
LEMMA SendStep ==
  ASSUME IInv, rmr_send_msg
  PROVE  IInv' /\ Carried'
<1> USE DEF IInv
<1> DEFINE m == Head(todo)
           buf == Buffer(m.slot)
<1>1. /\ todo # <<>> /\ todo \in Seq(Message) /\ m \in Message /\ m = todo[1]
      /\ Len(todo) \in Nat /\ Len(todo) > 0 /\ stage \in {"try", "retry"}
  BY DEF rmr_send_msg, At, Idle, TypeOK
<1>2. /\ sendMessage \in Buffers /\ rcvMessage \in Buffers
      /\ sendMessage # rcvMessage /\ sendMessage # rmrMsg /\ rcvMessage # rmrMsg
      /\ rmrMsg \in Buffers \cup {Null}
      /\ buf \in Buffers
      /\ m.slot # "rmrMsg" => rmrMsg = Null
  BY <1>1, BuffersAssumption DEF TypeOK, NoBufferLost, HeadSlot, At
<1>3. todo' = todo /\ asndata' = asndata /\ stage' \in {"retry", "finish"}
  BY <1>1 DEF rmr_send_msg
<1>4. TodoShape'
  BY <1>3 DEF TodoShape
<1>5. m.slot \in Slots
  BY <1>1 DEF Message
<1>6. NotForSubMgr => \A i \in 1..Len(todo) : i > 1 /\ ~ todo[i].write => m.slot = "rmrMsg"
  BY <1>1 DEF TodoShape
<1>7. \A i \in 1..Len(todo) : todo[i].slot = "rmrMsg" => m.slot = "rmrMsg"
  BY <1>1 DEF TodoShape
<1>8. NotForSubMgr => payload[buf] = m.data
  BY <1>1 DEF Holds
<1>9. CASE Refused
  <2>1. UNCHANGED <<sendMessage, rcvMessage, rmrMsg, owner, payload>> /\ accepted' = <<>>
    BY <1>9 DEF Refused, pointers
  <2>2. TypeOK'
    BY <1>1, <1>2, <1>3, <2>1 DEF TypeOK, At, Idle
  <2>3. NoBufferLost' /\ Carried'
    BY <2>1 DEF NoBufferLost, Carried, CarriesItsData
  <2>4. HeadSlot' /\ Holds'
    BY <1>1, <1>2, <1>3, <1>8, <2>1 DEF HeadSlot, Holds, Idle, Buffer
  <2> QED
    BY <1>4, <2>2, <2>3, <2>4
<1>10. ASSUME stage' = "finish",
              NEW b \in Buffers \cup {Null},
              b \notin {sendMessage, rcvMessage, rmrMsg} \/ b = Null,
              Point(m.slot, b),
              NEW o \in {"free", "rmr"},
              owner' = [d \in Buffers |-> IF d = buf THEN o
                                         ELSE IF d = b THEN "e2t" ELSE owner[d]],
              payload' = [payload EXCEPT ![buf] = Empty],
              Carried'
       PROVE  IInv' /\ Carried'
  <2>1. /\ sendMessage' = IF m.slot = "sendMessage" THEN b ELSE sendMessage
        /\ rmrMsg' = IF m.slot = "rmrMsg" THEN b ELSE rmrMsg
        /\ rcvMessage' = IF m.slot = "rcvMessage" THEN b ELSE rcvMessage
    BY <1>10 DEF Point
  <2>2. TypeOK'
    <3>1. /\ owner' \in [Buffers -> {"free", "e2t", "rmr"}]
          /\ payload' \in [Buffers -> Data \cup {Empty}]
      BY <1>10 DEF TypeOK
    <3> QED
      BY <1>1, <1>2, <1>3, <1>10, <2>1, <3>1 DEF TypeOK, At, Idle
  <2>3. NoBufferLost'
    <3>1. buf = IF m.slot = "sendMessage" THEN sendMessage
                ELSE IF m.slot = "rmrMsg" THEN rmrMsg ELSE rcvMessage
      BY DEF Buffer
    <3>2. ASSUME NEW d \in Buffers
          PROVE  owner'[d] = "e2t" <=> d \in {sendMessage', rcvMessage', rmrMsg'}
      <4>1. d # Null
        BY BuffersAssumption
      <4> HIDE DEF buf
      <4> QED
        BY <1>2, <1>5, <1>10, <2>1, <3>1, <4>1, Owned DEF Slots
    <3>3. {sendMessage', rcvMessage', rmrMsg'} \subseteq Buffers \cup {Null}
      BY <1>2, <1>10, <2>1
    <3>4. {d \in Buffers : owner'[d] = "e2t"} = {sendMessage', rcvMessage', rmrMsg'} \ {Null}
      BY <3>2, <3>3, BuffersAssumption
    <3>5. /\ sendMessage' # Null => sendMessage' \notin {rcvMessage', rmrMsg'}
          /\ rcvMessage' # Null => rcvMessage' # rmrMsg'
      BY <1>2, <1>10, <2>1, BuffersAssumption
    <3> QED
      BY <3>4, <3>5 DEF NoBufferLost
  <2>4. HeadSlot'
    BY <1>1, <1>2, <1>3, <1>10, <2>1 DEF HeadSlot, Idle
  <2>5. Holds'
    <3>1. CASE m.slot = "rmrMsg"
      <4>1. buf # sendMessage /\ sendMessage' = sendMessage
        BY <1>2, <2>1, <3>1 DEF Buffer
      <4>2. payload'[sendMessage] = payload[sendMessage]
        BY <1>2, <1>10, <4>1 DEF TypeOK
      <4> QED
        BY <1>3, <1>10, <4>1, <4>2 DEF Holds
    <3>2. CASE m.slot # "rmrMsg"
      BY <1>3, <1>6, <1>7, <1>10, <3>2 DEF Holds
    <3> QED
      BY <3>1, <3>2
  <2> QED
    BY <1>4, <1>10, <2>2, <2>3, <2>4, <2>5
<1>11. CASE Taken(m) /\ stage' = "finish"
  <2>1. PICK b \in Free : /\ Point(m.slot, b)
                          /\ owner' = [owner EXCEPT ![buf] = "rmr", ![b] = "e2t"]
    BY <1>11 DEF Taken
  <2>2. b \in Buffers /\ b \notin {sendMessage, rcvMessage, rmrMsg} /\ b # buf
    BY <1>2, <2>1, Owned DEF Free, Buffer
  <2>3. owner' = [d \in Buffers |-> IF d = buf THEN "rmr"
                                   ELSE IF d = b THEN "e2t" ELSE owner[d]]
    BY <1>2, <2>1, <2>2 DEF TypeOK
  <2>4. payload' = [payload EXCEPT ![buf] = Empty] /\ Carried'
    BY <1>8, <1>11 DEF Taken, Carried, CarriesItsData
  <2> HIDE DEF buf
  <2> QED
    BY <1>10, <1>11, <2>1, <2>2, <2>3, <2>4
<1>12. CASE Swallowed(m) /\ stage' = "finish"
  <2>1. /\ Point(m.slot, Null)
        /\ owner' = [d \in Buffers |-> IF d = buf THEN "free"
                                       ELSE IF d = Null THEN "e2t" ELSE owner[d]]
        /\ payload' = [payload EXCEPT ![buf] = Empty] /\ Carried'
    BY <1>2, <1>12, BuffersAssumption DEF Swallowed, Carried, CarriesItsData, TypeOK
  <2> HIDE DEF buf
  <2> QED
    BY <1>10, <1>12, <2>1
<1> QED
  BY <1>9, <1>11, <1>12 DEF rmr_send_msg

LEMMA FinishStep ==
  ASSUME IInv, Finish
  PROVE  IInv' /\ Carried'
<1> USE DEF IInv
<1> DEFINE m == Head(todo)
<1>1. /\ todo # <<>> /\ todo \in Seq(Message) /\ m \in Message /\ m = todo[1]
      /\ Len(todo) \in Nat /\ Len(todo) > 0 /\ stage = "finish"
  BY DEF Finish, At, Idle, TypeOK
<1>2. /\ todo' = Tail(todo) /\ stage' = "prepare" /\ accepted' = <<>>
      /\ asndata' = asndata
  BY DEF Finish
<1>3. /\ todo' \in Seq(Message) /\ Len(todo') = Len(todo) - 1
      /\ \A i \in 1..Len(todo') : i + 1 \in 1..Len(todo) /\ todo'[i] = todo[i + 1]
  BY <1>1, <1>2
<1>4. TodoShape' /\ HeadSlot' /\ Carried'
  BY <1>1, <1>2, <1>3 DEF TodoShape, HeadSlot, Carried, CarriesItsData
<1>5. \A i \in 1..Len(todo') : /\ todo'[i].slot # "rmrMsg"
                               /\ NotForSubMgr /\ ~ todo'[i].write => m.slot = "rmrMsg"
  BY <1>1, <1>3 DEF TodoShape
<1>6. m.slot \in Slots
  BY <1>1 DEF Message
<1>7. CASE m.slot = "rmrMsg"
  <2>1. /\ rmrMsg' = Null /\ UNCHANGED <<sendMessage, rcvMessage>>
        /\ owner' = [b \in Buffers |-> IF b = rmrMsg THEN "free" ELSE owner[b]]
        /\ payload' = [b \in Buffers |-> IF b = rmrMsg THEN Empty ELSE payload[b]]
    BY <1>7 DEF Finish, Point
  <2>2. /\ sendMessage \in Buffers /\ rcvMessage \in Buffers
        /\ sendMessage # rmrMsg /\ rcvMessage # rmrMsg
    BY <1>1, <1>7, BuffersAssumption DEF HeadSlot, NoBufferLost
  <2>3. TypeOK'
    BY <1>2, <1>3, <2>1, <2>2 DEF TypeOK
  <2>4. NoBufferLost'
    BY <2>1, <2>2, Owned, BuffersAssumption DEF NoBufferLost
  <2>5. Holds'
    <3>1. payload'[sendMessage'] = payload[sendMessage]
      BY <2>1, <2>2
    <3>2. ASSUME NotForSubMgr, NEW i \in 1..Len(todo'), ~ todo'[i].write
          PROVE  payload[sendMessage] = todo'[i].data /\ asndata = sendMessage
      <4>1. i + 1 \in 1..Len(todo) /\ todo'[i] = todo[i + 1] /\ i + 1 > 1
        BY <1>3
      <4> QED
        BY <3>2, <4>1 DEF Holds
    <3> QED
      BY <1>2, <1>5, <2>1, <3>1, <3>2 DEF Holds
  <2> QED
    BY <1>4, <2>3, <2>4, <2>5
<1>8. CASE m.slot # "rmrMsg"
  <2>1. rmrMsg = Null
    BY <1>1, <1>8 DEF HeadSlot
  <2>2. CASE Buffer(m.slot) = Null
    <3>1. PICK b \in Free : /\ Point(m.slot, b)
                            /\ owner' = [owner EXCEPT ![b] = "e2t"]
                            /\ UNCHANGED payload
      BY <1>8, <2>2 DEF Finish
    <3>2. /\ sendMessage' = IF m.slot = "sendMessage" THEN b ELSE sendMessage
          /\ rmrMsg' = Null
          /\ rcvMessage' = IF m.slot = "rcvMessage" THEN b ELSE rcvMessage
      BY <1>8, <2>1, <3>1 DEF Point
    <3>3. IF m.slot = "sendMessage" THEN sendMessage = Null /\ rcvMessage \in Buffers
                                    ELSE rcvMessage = Null /\ sendMessage \in Buffers
      BY <1>1, <1>6, <1>8, <2>2 DEF Buffer, HeadSlot, Slots
    <3>4. b \in Buffers /\ b # Null /\ b \notin {sendMessage, rcvMessage}
      BY <3>1, Owned, BuffersAssumption DEF Free
    <3>5. TypeOK'
      BY <1>2, <1>3, <1>6, <1>8, <3>1, <3>2, <3>3, <3>4 DEF TypeOK, Slots
    <3>6. NoBufferLost'
      <4>1. ASSUME NEW d \in Buffers
            PROVE  owner'[d] = "e2t" <=> d \in {sendMessage', rcvMessage', rmrMsg'}
        BY <1>6, <1>8, <2>1, <3>1, <3>2, <3>3, <3>4, Owned, BuffersAssumption
           DEF TypeOK, Slots
      <4> QED
        BY <1>6, <1>8, <3>2, <3>3, <3>4, <4>1, BuffersAssumption DEF NoBufferLost, Slots
    <3>7. Holds'
      BY <1>2, <1>5, <1>8 DEF Holds
    <3> QED
      BY <1>4, <3>5, <3>6, <3>7
  <2>3. CASE Buffer(m.slot) # Null
    <3>1. UNCHANGED <<sendMessage, rcvMessage, rmrMsg, owner, payload>>
      BY <1>8, <2>3 DEF Finish, pointers
    <3>2. sendMessage \in Buffers /\ rcvMessage \in Buffers
      BY <1>1, <1>6, <1>8, <2>3 DEF Buffer, HeadSlot, Slots, TypeOK
    <3>3. TypeOK' /\ NoBufferLost'
      BY <1>2, <1>3, <2>1, <3>1, <3>2 DEF TypeOK, NoBufferLost
    <3>4. Holds'
      BY <1>2, <1>5, <1>8 DEF Holds
    <3> QED
      BY <1>4, <3>3, <3>4
  <2> QED
    BY <2>2, <2>3
<1> QED
  BY <1>7, <1>8

LEMMA TransmittedStep ==
  ASSUME IInv, NEW b \in Buffers, Transmitted(b)
  PROVE  IInv' /\ Carried'
<1> USE DEF IInv
<1>1. /\ UNCHANGED <<sendMessage, rcvMessage, rmrMsg, asndata, payload, todo, stage>>
      /\ owner[b] = "rmr" /\ owner' = [owner EXCEPT ![b] = "free"] /\ accepted' = <<>>
  BY DEF Transmitted, pointers
<1>2. TypeOK'
  BY <1>1 DEF TypeOK, At, Idle
<1>3. \A d \in Buffers : owner'[d] = "e2t" <=> owner[d] = "e2t"
  BY <1>1 DEF TypeOK
<1>4. NoBufferLost'
  BY <1>1, <1>3 DEF NoBufferLost
<1>5. TodoShape' /\ HeadSlot' /\ Holds' /\ Carried'
  BY <1>1 DEF TodoShape, HeadSlot, Holds, Idle, Buffer, Carried, CarriesItsData
<1> QED
  BY <1>2, <1>4, <1>5

\* A state of IInv is one in which a trace reads a buffer that is ours.
LEMMA TraceLemma == IInv /\ NotForSubMgr => TracesOwnBuffer
<1> SUFFICES ASSUME IInv, NotForSubMgr, Tracing
             PROVE  asndata \in Buffers /\ owner[asndata] = "e2t"
  BY DEF TracesOwnBuffer
<1>1. todo # <<>> /\ todo \in Seq(Message) /\ Head(todo) = todo[1] /\ 1 \in 1..Len(todo)
  BY DEF IInv, Tracing, At, Idle, TypeOK
<1>2. asndata = sendMessage /\ sendMessage \in Buffers
  BY <1>1 DEF IInv, Tracing, At, TypeOK, Holds, HeadSlot, Idle
<1> QED
  BY <1>2, Owned DEF IInv

\* Every step keeps the invariant.
LEMMA BuffersInvariant == Spec => [](IInv /\ Carried)
<1>1. Init => IInv /\ Carried
  BY InitIInv DEF Init, Carried, CarriesItsData
<1>2. IInv /\ Carried /\ [Next]_vars => IInv' /\ Carried'
  <2> SUFFICES ASSUME IInv, Carried, [Next]_vars PROVE IInv' /\ Carried'
    OBVIOUS
  <2>1. CASE \E c \in Contents : receiveDataFromSctp(c) \/ receiveXappMessages(c)
    BY <2>1, ReceiveDataStep, ReceiveRequestStep
  <2>2. CASE Prepare
    BY <2>2, PrepareStep
  <2>3. CASE rmr_send_msg
    BY <2>3, SendStep
  <2>4. CASE Finish
    BY <2>4, FinishStep
  <2>5. CASE \E b \in Buffers : Transmitted(b)
    BY <2>5, TransmittedStep
  <2>6. CASE UNCHANGED vars
    BY <2>6 DEF vars, pointers, IInv, TypeOK, NoBufferLost, TodoShape, HeadSlot,
                Holds, Carried, CarriesItsData, Idle, At, Buffer
  <2> QED
    BY <2>1, <2>2, <2>3, <2>4, <2>5, <2>6 DEF Next
<1> QED
  BY <1>1, <1>2, PTL DEF Spec

-----------------------------------------------------------------------------
\* Over any run of the listener thread, with any results of RMR, a pointer to a
\* permanent buffer is null only within the send that RMR returned nothing for
\* (sendRmrMessage and the answers of receiveXappMessages allocate another).
THEOREM BuffersTypeCorrect == Spec => []TypeOK
<1>1. IInv => TypeOK
  BY DEF IInv
<1> QED
  BY <1>1, BuffersInvariant, PTL

\* No buffer is leaked, freed twice or shared by two pointers, whatever the
\* handlers send and RMR answers (sendRmrMessage, buildAndSendSetupRequest).
THEOREM BuffersAccounted == Spec => []NoBufferLost
<1>1. IInv => NoBufferLost
  BY DEF IInv
<1> QED
  BY <1>1, BuffersInvariant, PTL

\* If no ErrorIndication is one that also goes to the subscription manager, no
\* trace reads a buffer that was handed over or replaced (buildJsonMessage).
THEOREM TracesAreOwn ==
  ASSUME NotForSubMgr
  PROVE  Spec => []TracesOwnBuffer
<1>1. IInv => TracesOwnBuffer
  BY TraceLemma
<1> QED
  BY <1>1, BuffersInvariant, PTL

\* Under the same condition every message RMR takes carries the bytes its
\* handler meant: the PDU in sendMessage is not sent twice, nor after it was
\* overwritten (sendRequestToXapp).
THEOREM MessagesCarryTheirData ==
  ASSUME NotForSubMgr
  PROVE  Spec => []CarriesItsData
<1>1. Carried => CarriesItsData
  BY DEF Carried
<1> QED
  BY <1>1, BuffersInvariant, PTL
=============================================================================
