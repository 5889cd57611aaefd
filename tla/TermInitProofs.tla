--------------------------- MODULE TermInitProofs ---------------------------
(***************************************************************************)
(* Proofs about TermInit: the safety of the start-up handshake for any     *)
(* resend period and any number of restarts and waiting messages.          *)
(***************************************************************************)
EXTENDS TermInit, TLAPS

\* What main has set up when it reaches a step, what it has sent when it
\* reaches a place of handleTermInit, and that it looks at num_of_XAPP_messages
\* before it sends again.
Progress ==
  /\ main \in {"inotify", "port", "listener"} => "rmr" \in prepared
  /\ main = "listener" => "port" \in prepared
  /\ main \in {"send", "check", "join"} => Listening
  /\ main \in {"check", "join"} => announced
  /\ main = "join" => xapp
  /\ late # 0 => late = 1 /\ xapp /\ main \in {"check", "join"}

\* An E2_TERM_INIT of this instance was sent in handleTermInit, and messages
\* that count come from somebody who knows an instance.
Origin ==
  /\ "current" \in network \cup {known} => main \in {"send", "check", "join"}
  /\ known = "none" => ~ xapp /\ \A i \in 1..Len(inbox) : inbox[i] # "keepAlive"

IInv == TypeOK /\ Progress /\ Origin

\* The counters can start at 0.
LEMMA Zero == 0 \in 0..(Period - 1) /\ 0 \in 0..MaxRestarts /\ 0 <= MaxInbox
BY PeriodAssumption, BoundAssumption

LEMMA InitIInv == Init => IInv
<1> SUFFICES ASSUME Init PROVE IInv
  OBVIOUS
<1>1. inbox \in Seq(Kinds) /\ Len(inbox) = 0
  BY DEF Init
<1>2. TypeOK
  BY <1>1, Zero DEF Init, TypeOK, Parts
<1>3. Progress
  BY DEF Init, Progress
<1>4. Origin
  BY <1>1 DEF Init, Origin
<1> QED
  BY <1>2, <1>3, <1>4 DEF IInv

LEMMA SetUpStep ==
  ASSUME IInv, SetUp
  PROVE  IInv'
<1> USE DEF IInv, ric
<1>1. /\ main \in Parts
      /\ UNCHANGED <<waited, announced, late, xapp, inbox, network, known, restarts>>
  BY DEF SetUp, getRmrContext, buildInotify, buildListeningPort, StartListener, Done, Fails,
         Parts
<1>2. "current" \notin network \cup {known} /\ late = 0
  BY <1>1 DEF Parts, Origin, Progress
<1>3. \/ main = "rmr" /\ prepared' = prepared \cup {"rmr"} /\ main' = "inotify"
      \/ main = "inotify" /\ prepared' = prepared \cup {"inotify"} /\ main' = "port"
      \/ main = "port" /\ prepared' = prepared \cup {"port"} /\ main' = "listener"
      \/ main = "listener" /\ prepared' = prepared \cup {"listener"} /\ main' = "send"
      \/ main' = "exited" /\ UNCHANGED prepared
  BY DEF SetUp, getRmrContext, buildInotify, buildListeningPort, StartListener, Done, Fails
<1>4. TypeOK'
  BY <1>1, <1>3 DEF TypeOK, Parts
<1>5. Progress'
  BY <1>1, <1>2, <1>3 DEF Progress, Listening
<1>6. Origin'
  BY <1>1, <1>2 DEF Origin
<1> QED
  BY <1>4, <1>5, <1>6

LEMMA MainStep ==
  ASSUME IInv, sendTermInit \/ handleTermInit
  PROVE  IInv'
<1> USE DEF IInv, ric
<1>1. CASE SendTaken
  BY <1>1 DEF SendTaken, TypeOK, Progress, Origin, Parts, Instances, Listening
<1>2. CASE SendRefused
  BY <1>2 DEF SendRefused, vars, thread, TypeOK, Progress, Origin, Listening
<1>3. CASE handleTermInit
  <2>1. waited' \in 0..(Period - 1)
    BY <1>3, PeriodAssumption DEF handleTermInit, TypeOK
  <2>2. TypeOK'
    BY <1>3, <2>1 DEF handleTermInit, TypeOK
  <2>3. Progress' /\ Origin'
    BY <1>3 DEF handleTermInit, Progress, Origin, Listening
  <2> QED
    BY <2>2, <2>3
<1> QED
  BY <1>1, <1>2, <1>3 DEF sendTermInit

LEMMA ListenerStep ==
  ASSUME IInv, receiveXappMessages
  PROVE  IInv'
<1> USE DEF IInv, ric, thread
<1>1. /\ inbox # <<>> /\ inbox' = Tail(inbox) /\ xapp' = (xapp \/ inbox[1] = "keepAlive")
      /\ UNCHANGED <<main, prepared, waited, announced, late, network, known, restarts>>
      /\ inbox \in Seq(Kinds) /\ Len(inbox) \in Nat /\ Len(inbox) > 0
  BY DEF receiveXappMessages, TypeOK
<1>2. /\ inbox' \in Seq(Kinds) /\ Len(inbox') = Len(inbox) - 1
      /\ \A i \in 1..Len(inbox') : i + 1 \in 1..Len(inbox) /\ inbox'[i] = inbox[i + 1]
  BY <1>1
<1>3. xapp' \in BOOLEAN /\ (xapp => xapp')
  BY <1>1 DEF TypeOK
<1>4. TypeOK'
  BY <1>1, <1>2, <1>3, BoundAssumption DEF TypeOK
<1>5. Progress'
  BY <1>1, <1>3 DEF Progress, Listening
<1>6. Origin'
  <2>1. known = "none" => ~ xapp'
    BY <1>1 DEF Origin, TypeOK
  <2> QED
    BY <1>1, <1>2, <2>1 DEF Origin
<1> QED
  BY <1>4, <1>5, <1>6

LEMMA RicStep ==
  ASSUME IInv,
         \/ \E k \in Kinds : Arrive(k)
         \/ \E i \in Instances : Deliver(i) \/ Lose(i)
         \/ Restart
  PROVE  IInv'
<1> USE DEF IInv, thread
<1>1. ASSUME NEW k \in Kinds, Arrive(k) PROVE IInv'
  <2>1. /\ inbox' = Append(inbox, k) /\ inbox \in Seq(Kinds) /\ Len(inbox) \in Nat
        /\ Len(inbox) < MaxInbox /\ (k = "keepAlive" => known \in Instances)
        /\ UNCHANGED <<main, prepared, waited, announced, late, xapp, network, known,
                       restarts>>
    BY <1>1 DEF Arrive, TypeOK, ric
  <2>2. /\ inbox' \in Seq(Kinds) /\ Len(inbox') = Len(inbox) + 1
        /\ \A i \in 1..Len(inbox') : inbox'[i] = IF i = Len(inbox') THEN k ELSE inbox[i]
    BY <2>1
  <2>3. TypeOK'
    BY <2>1, <2>2, BoundAssumption DEF TypeOK
  <2>4. Progress' /\ Origin'
    BY <2>1, <2>2 DEF Progress, Origin, Listening, Instances
  <2> QED
    BY <2>3, <2>4
<1>2. ASSUME NEW i \in Instances, Deliver(i) \/ Lose(i) PROVE IInv'
  <2>1. /\ i \in network /\ network' = network \ {i}
        /\ known' \in {known, i} /\ (known = "current" => known' = "current")
        /\ UNCHANGED <<main, prepared, waited, announced, late, xapp, inbox, restarts>>
    BY <1>2 DEF Deliver, Lose
  <2>2. TypeOK'
    BY <2>1 DEF TypeOK, Instances
  <2>3. Progress'
    BY <2>1 DEF Progress, Listening
  <2>4. Origin'
    BY <2>1 DEF Origin, Instances
  <2> QED
    BY <2>2, <2>3, <2>4
<1>3. CASE Restart
  <2>1. inbox' \in Seq(Kinds) /\ Len(inbox') = 0
    BY <1>3 DEF Restart
  <2>5. /\ network' \subseteq {"old"}
        /\ known' \in {"old", "none"} /\ (known' = "none" => known = "none")
        /\ xapp' = FALSE /\ main' = "rmr"
    BY <1>3 DEF Restart, TypeOK, Instances
  <2>6. restarts' \in 0..MaxRestarts
    BY <1>3, BoundAssumption DEF Restart, TypeOK
  <2>2. TypeOK'
    BY <1>3, <2>1, <2>5, <2>6, Zero DEF Restart, TypeOK, Instances, Parts
  <2>3. Progress'
    BY <1>3 DEF Restart, Progress
  <2>4. Origin'
    BY <2>1, <2>5 DEF Origin
  <2> QED
    BY <2>2, <2>3, <2>4
<1> QED
  BY <1>1, <1>2, <1>3

\* Every step keeps the invariant.
LEMMA StartUpInvariant == Spec => []IInv
<1>1. Init => IInv
  BY InitIInv
<1>2. IInv /\ [Next]_vars => IInv'
  <2> SUFFICES ASSUME IInv, [Next]_vars PROVE IInv'
    OBVIOUS
  <2>1. CASE Main
    BY <2>1, SetUpStep, MainStep DEF Main
  <2>2. CASE receiveXappMessages
    BY <2>2, ListenerStep
  <2>3. CASE \/ \E k \in Kinds : Arrive(k)
             \/ \E i \in Instances : Deliver(i) \/ Lose(i)
             \/ Restart
    BY <2>3, RicStep
  <2>4. CASE Waiting \/ UNCHANGED vars
    BY <2>4 DEF Waiting, vars, thread, ric, IInv, TypeOK, Progress, Origin, Listening
  <2> QED
    BY <2>1, <2>2, <2>3, <2>4 DEF Next
<1> QED
  BY <1>1, <1>2, PTL DEF Spec

-----------------------------------------------------------------------------
\* The start-up state keeps its types over any number of restarts: the counter
\* of handleTermInit stays below the resend period.
THEOREM StartUpTypeCorrect == Spec => []TypeOK
<1>1. IInv => TypeOK
  BY DEF IInv
<1> QED
  BY <1>1, StartUpInvariant, PTL

\* Whoever learns of this instance finds RMR ready, the SCTP port open and the
\* listener thread running, whatever is lost or restarted (the order of main).
THEOREM KnownIsReachable == Spec => []KnownIsListening
<1>1. IInv => KnownIsListening
  BY DEF IInv, Progress, Origin, KnownIsListening
<1> QED
  BY <1>1, StartUpInvariant, PTL

\* handleTermInit ends only after RMR took an E2_TERM_INIT of this instance and
\* a message was counted, also when one for the instance before comes first.
THEOREM StopsAreAnnounced == Spec => []StopsAnnounced
<1>1. IInv => StopsAnnounced
  BY DEF IInv, Progress, StopsAnnounced
<1> QED
  BY <1>1, StartUpInvariant, PTL

\* The message that ends the loop comes from somebody who knows this instance
\* or the one before a restart (num_of_XAPP_messages counts no others).
THEOREM StopsAreKnown == Spec => []StopsKnown
<1>1. IInv => StopsKnown
  BY DEF IInv, Progress, Origin, StopsKnown
<1> QED
  BY <1>1, StartUpInvariant, PTL

\* At most one E2_TERM_INIT follows the message that ends the loop, for any
\* resend period (handleTermInit reads the counter before each resend).
THEOREM OneIsLate == Spec => []AtMostOneLate
<1>1. IInv => AtMostOneLate
  BY DEF IInv, TypeOK, Progress, AtMostOneLate
<1> QED
  BY <1>1, StartUpInvariant, PTL
=============================================================================
