------------------------ MODULE EventLoopProperties -------------------------
(***************************************************************************)
(* What the event loop must not lose, and what it must get round to.       *)
(***************************************************************************)
EXTENDS EventLoop

\* An event that will be handled: epoll has it or returned it.
Announced(e) == Contains(ready, e) \/ Contains(batch, e)

\* The types of the variables; the accept queue holds exactly the associations
\* that are not accepted, and no RMR message is received that is not there
\* (receiveXappMessages is called once per event).
TypeOK ==
  /\ phase \in [Nodes -> {"away", "waiting", "open", "closed"}]
  /\ ToSet(backlog) = {n \in Nodes : phase[n] = "waiting"}
  /\ \A n \in Nodes : ToSet(inbox[n]) \subseteq {"pdu", "garbage", "eof"}
  /\ pending \in 0 .. MaxPending
  /\ ToSet(ready) \cup ToSet(batch) \subseteq Nodes \cup {"rmr", "listen"}
  /\ cur \in Nodes \cup {Null}

-----------------------------------------------------------------------------
(* Nothing waits behind a descriptor that epoll will not announce again.   *)

\* Data of an accepted association is announced or being read: its descriptor
\* is edge triggered, so receiveDataFromSctp has to read until EAGAIN.
NoMissedData ==
  \A n \in Nodes : phase[n] = "open" /\ inbox[n] # <<>> => Announced(n) \/ cur = n

\* An association that waits to be accepted is announced: the listening socket
\* is edge triggered (buildListeningPort) and the listener accepts once per event.
NoMissedConnection == backlog # <<>> => Announced("listen")

\* A message of the RIC is announced, whatever garbage, bursts of connections
\* and accept errors do to the loop: its descriptor is level triggered
\* (getRmrContext).
NoMissedRmr == pending > 0 => Announced("rmr")

-----------------------------------------------------------------------------
(* Turns.                                                                  *)

\* The events in the order in which they get their turn.
Line == batch \o ready

TurnTaken == Len(batch') < Len(batch)

\* The event at place i had its turn, or its association was closed, or it is still
\* there: not farther back, and nearer by one place if another had its turn.
MovesUp(i) ==
  \/ i = 1 /\ TurnTaken
  \/ Line[i] \in Nodes /\ phase'[Line[i]] = "closed"
  \/ \E j \in 1..i : j <= Len(Line') /\ Line'[j] = Line[i] /\ (TurnTaken => j < i)

\* No event is dropped or overtaken, neither by what arrives nor by what a handler
\* leaves for later: the listener thread handles the whole batch before it calls
\* epoll_wait again, so a busy E2 node or the RIC delays the others by its one turn.
NoOvertaking == [][\A i \in 1..Len(Line) : MovesUp(i)]_vars

-----------------------------------------------------------------------------
(* What the loop gets round to.  The read loop of receiveDataFromSctp has  *)
(* no bound, so an E2 node that never stops sending keeps the thread: all  *)
(* of these assume that every read loop ends.                              *)

ReadingEnds == []<>(cur = Null)

\* The end of an accepted association is always noticed: it is torn down and
\* reported (receiveDataFromSctp, handlepoll_error).
LossReported ==
  ReadingEnds => \A n \in Nodes :
    (phase[n] = "open" /\ Contains(inbox[n], "eof")) ~> (phase[n] = "closed")

\* An association the kernel set up is accepted (the accept branch of listener).
ConnectionAccepted ==
  ReadingEnds => \A n \in Nodes : (phase[n] = "waiting") ~> (phase[n] = "open")

\* The E2 nodes cannot starve the RIC: as long as RMR messages wait, one is
\* received again and again (receiveXappMessages).
RicServed == ReadingEnds => []<>(pending = 0 \/ Handling("rmr"))
=============================================================================
