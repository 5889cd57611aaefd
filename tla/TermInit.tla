------------------------------ MODULE TermInit ------------------------------
(***************************************************************************)
(* Start-up of the E2 termination (main) and how it makes itself known:    *)
(* handleTermInit resends E2_TERM_INIT to the E2 manager until the         *)
(* listener thread has counted a first message of the RIC in               *)
(* num_of_XAPP_messages, the only state the two threads share for it.      *)
(*                                                                         *)
(* RMR takes a message or not; a message it took can be lost.  The process *)
(* can be restarted at any time; the E2 manager then goes on sending to    *)
(* the instance it knows.                                                  *)
(***************************************************************************)
EXTENDS Naturals, Sequences

CONSTANTS
  Period,      \* waits between two E2_TERM_INIT, 1000 in handleTermInit
  MaxInbox,    \* bound: messages of the RIC that wait to be received
  MaxRestarts, \* bound: restarts of the process
  Env          \* a subset of {"initLoss"}: an E2_TERM_INIT that RMR took may
               \* not arrive

ASSUME PeriodAssumption == Period \in Nat \ {0}
ASSUME BoundAssumption == MaxInbox \in Nat \ {0} /\ MaxRestarts \in Nat

VARIABLES
  main,       \* where the main thread is
  prepared,   \* what main has set up
  waited,     \* count of handleTermInit modulo Period
  xapp,       \* num_of_XAPP_messages > 0
  inbox,      \* messages of the RIC that RMR has for the listener thread
  network,    \* E2_TERM_INITs on their way, of this instance and an old one
  known,      \* the instance the E2 manager knows
  announced,  \* RMR took an E2_TERM_INIT of this instance
  late,       \* how many it took after a message was counted
  restarts

thread == <<main, prepared, waited, announced, late>>
ric == <<network, known>>
vars == <<thread, xapp, inbox, ric, restarts>>

Instances == {"current", "old"}

\* What main sets up before handleTermInit.
Parts == {"rmr", "inotify", "port", "listener"}

\* E2_TERM_KEEP_ALIVE_REQ and other messages that count, RIC_HEALTH_CHECK_REQ,
\* and a message for an E2 node that sctpMap does not have.
Kinds == {"keepAlive", "healthCheck", "unknownNode"}

Listening == {"rmr", "port", "listener"} \subseteq prepared

-----------------------------------------------------------------------------
(* The main thread.                                                        *)

\* A step of main before handleTermInit: the part is set up, or main exits.
Done(part, next) ==
  /\ prepared' = prepared \cup {part}
  /\ main' = next
  /\ UNCHANGED <<waited, announced, late, xapp, inbox, ric, restarts>>

Fails ==
  /\ main' = "exited"
  /\ UNCHANGED <<prepared, waited, announced, late, xapp, inbox, ric, restarts>>

\* It returns when RMR is ready, however long that takes.
getRmrContext == main = "rmr" /\ (Done("rmr", "inotify") \/ Fails)

buildInotify == main = "inotify" /\ (Done("inotify", "port") \/ Fails)

\* Mutant: its result is not looked at.
PortOrNot ==
  /\ main = "port"
  /\ \/ Done("port", "listener")
     \/ /\ main' = "listener"
        /\ UNCHANGED <<prepared, waited, announced, late, xapp, inbox, ric, restarts>>

buildListeningPort == main = "port" /\ (Done("port", "listener") \/ Fails)

\* The mutex and the thread; std::thread throws if there is none to be had.
StartListener == main = "listener" /\ (Done("listener", "send") \/ Fails)

SetUp == getRmrContext \/ buildInotify \/ buildListeningPort \/ StartListener

\* sendTermInit, one rmr_send_msg: RMR takes the message or does not.
SendTaken ==
  /\ main = "send"
  /\ main' = "check"
  /\ network' = network \cup {"current"}
  /\ announced' = TRUE
  /\ late' = IF xapp THEN late + 1 ELSE late
  /\ UNCHANGED <<prepared, waited, xapp, inbox, known, restarts>>

SendRefused ==
  /\ main = "send"
  /\ UNCHANGED vars

\* Mutant: it does not wait for RMR to take the message.
SendOnce ==
  \/ SendTaken
  \/ /\ main = "send"
     /\ main' = "check"
     /\ UNCHANGED <<prepared, waited, announced, late, xapp, inbox, ric, restarts>>

\* Mutant: it does not return when RMR took the message.
SendForEver ==
  /\ main = "send"
  /\ network' = network \cup {"current"}
  /\ announced' = TRUE
  /\ late' = IF xapp THEN late + 1 ELSE late
  /\ UNCHANGED <<main, prepared, waited, xapp, inbox, known, restarts>>

\* It returns when RMR took the message, and tries again, after a second or with
\* a new buffer, until then.
sendTermInit == SendTaken \/ SendRefused

\* Mutant: E2_TERM_INIT is sent once.
WaitOnly ==
  /\ main = "check"
  /\ main' = IF xapp THEN "join" ELSE "check"
  /\ UNCHANGED <<prepared, waited, announced, late, xapp, inbox, ric, restarts>>

\* handleTermInit: one round of its loop.
handleTermInit ==
  /\ main = "check"
  /\ IF xapp
     THEN main' = "join" /\ UNCHANGED waited
     ELSE /\ waited' = (waited + 1) % Period
          /\ main' = IF waited' = 0 THEN "send" ELSE "check"
  /\ UNCHANGED <<prepared, announced, late, xapp, inbox, ric, restarts>>

-----------------------------------------------------------------------------
(* The listener thread.                                                    *)

\* Mutant: a message is counted before its E2 node is looked up.
CountsAll ==
  /\ "listener" \in prepared
  /\ inbox # <<>>
  /\ inbox' = Tail(inbox)
  /\ xapp' = (xapp \/ Head(inbox) # "keepAlive")
  /\ UNCHANGED <<thread, ric, restarts>>

\* receiveXappMessages: neither health checks nor messages that are dropped
\* are counted.
receiveXappMessages ==
  /\ "listener" \in prepared
  /\ inbox # <<>>
  /\ inbox' = Tail(inbox)
  /\ xapp' = (xapp \/ Head(inbox) = "keepAlive")
  /\ UNCHANGED <<thread, ric, restarts>>

-----------------------------------------------------------------------------
(* The RIC, the network and restarts.                                      *)

\* A message arrives: from the E2 manager once it knows an instance, the
\* others from anybody and at any time.
Arrive(kind) ==
  /\ kind = "keepAlive" => known \in Instances
  /\ "rmr" \in prepared /\ main # "exited"
  /\ Len(inbox) < MaxInbox
  /\ inbox' = Append(inbox, kind)
  /\ UNCHANGED <<thread, xapp, ric, restarts>>

\* An E2_TERM_INIT arrives at the E2 manager, or is lost.
Deliver(i) ==
  /\ i \in network
  /\ network' = network \ {i}
  /\ known' = IF known = "current" THEN known ELSE i
  /\ UNCHANGED <<thread, xapp, inbox, restarts>>

Lose(i) ==
  /\ "initLoss" \in Env
  /\ i \in network
  /\ network' = network \ {i}
  /\ UNCHANGED <<thread, xapp, inbox, known, restarts>>

\* The container is started again.  What the old instance had is gone.
Restart ==
  /\ restarts < MaxRestarts
  /\ restarts' = restarts + 1
  /\ main' = "rmr"
  /\ prepared' = {}
  /\ waited' = 0
  /\ announced' = FALSE
  /\ late' = 0
  /\ xapp' = FALSE
  /\ inbox' = <<>>
  /\ network' = IF network = {} THEN {} ELSE {"old"}
  /\ known' = IF known \in Instances THEN "old" ELSE known

-----------------------------------------------------------------------------
Init ==
  /\ main = "rmr"
  /\ prepared = {}
  /\ waited = 0
  /\ xapp = FALSE
  /\ inbox = <<>>
  /\ network = {}
  /\ known = "none"
  /\ announced = FALSE
  /\ late = 0
  /\ restarts = 0

Main == SetUp \/ sendTermInit \/ handleTermInit

\* The E2 termination may wait for messages for ever once main has joined the
\* listener thread, or it exited.
Waiting == main \in {"join", "exited"} /\ UNCHANGED vars

Next ==
  \/ Main
  \/ receiveXappMessages
  \/ \E k \in Kinds : Arrive(k)
  \/ \E i \in Instances : Deliver(i) \/ Lose(i)
  \/ Restart
  \/ Waiting

\* Both threads are scheduled.
Scheduled == WF_vars(Main) /\ WF_vars(receiveXappMessages)

\* RMR takes a message that is offered again and again, one that is sent again
\* and again arrives, and the E2 manager keeps asking an instance it knows.
RicWorks ==
  /\ SF_vars(SendTaken)
  /\ \A i \in Instances : SF_vars(Deliver(i))
  /\ SF_vars(Arrive("keepAlive"))

Spec == Init /\ [][Next]_vars /\ Scheduled /\ RicWorks

-----------------------------------------------------------------------------
(* Properties.                                                             *)

\* Types of the variables.
TypeOK ==
  /\ main \in Parts \cup {"send", "check", "join", "exited"}
  /\ prepared \subseteq Parts
  /\ waited \in 0..(Period - 1)
  /\ xapp \in BOOLEAN /\ announced \in BOOLEAN
  /\ inbox \in Seq(Kinds) /\ Len(inbox) <= MaxInbox
  /\ network \subseteq Instances
  /\ known \in Instances \cup {"none"}
  /\ late \in Nat /\ restarts \in 0..MaxRestarts

\* Whoever learns of this instance can use it: no E2_TERM_INIT of it is on its
\* way or has arrived before RMR is ready, the SCTP port is open and the
\* listener thread runs (the order of main).
KnownIsListening == "current" \in network \cup {known} => Listening

\* The loop of handleTermInit ends only after RMR took an E2_TERM_INIT of this
\* instance: a message that was meant for the instance before a restart, and
\* comes first, does not keep it from being announced.
StopsAnnounced == main = "join" => announced /\ xapp

\* What ends the loop is a message of somebody who knows this instance or the
\* one before a restart: neither health checks nor messages the listener
\* thread drops, which come from anybody, keep it from being announced.
StopsKnown == main = "join" => known # "none"

\* The counter is read before each resend, so once a message was counted only the
\* E2_TERM_INIT that was already decided on is sent (handleTermInit).
AtMostOneLate == late <= 1

\* Lost E2_TERM_INITs and restarts notwithstanding, the main thread ends up
\* waiting for the listener thread (or main exited because it could not start).
MainStops == <>(main \in {"join", "exited"})
=============================================================================
