----------------------------- MODULE EventLoop ------------------------------
(***************************************************************************)
(* How the listener thread is driven (listener, receiveDataFromSctp): the  *)
(* kernel's epoll ready list, the batches epoll_wait takes from it, and    *)
(* the work that is waiting behind each descriptor.                        *)
(*                                                                         *)
(* The listening socket and the associations are edge triggered: what is   *)
(* left behind when their event was handled is announced again only when   *)
(* something new arrives.  The RMR descriptor is level triggered.          *)
(*                                                                         *)
(* E2Term models what the handlers do to the maps and leaves open which    *)
(* events a batch has; this module models which events there are and       *)
(* leaves out what the handlers do with a PDU.                             *)
(***************************************************************************)
EXTENDS Naturals, Sequences, SequencesExt, FiniteSets

CONSTANTS
  Nodes,      \* E2 nodes, one association each
  Null,       \* no read loop is running
  MaxEvents,  \* MAXEVENTS
  MaxInbox,   \* bound: what the receive buffer of an association holds
  MaxPending, \* bound: RMR messages that wait to be received
  Env         \* what the network and the E2 nodes may do, a subset of
              \* {"garbage", "bursts", "acceptErrors"}

ASSUME NodesAssumption == Null \notin Nodes /\ Nodes \cap {"rmr", "listen"} = {}
ASSUME BoundsAssumption == {MaxEvents, MaxInbox, MaxPending} \subseteq Nat \ {0}

VARIABLES
  phase,    \* "away", "waiting" to be accepted, "open" or "closed"
  backlog,  \* associations the kernel set up that are not accepted yet
  inbox,    \* received and not read: "pdu", "garbage" (no E2AP PDU) or "eof"
  pending,  \* number of RMR messages not received yet
  ready,    \* the epoll ready list
  batch,    \* what epoll_wait returned and is not handled yet
  cur       \* the association whose read loop runs

net  == <<phase, backlog, inbox>>
vars == <<net, pending, ready, batch, cur>>

\* ep_poll_callback: a descriptor is in the ready list at most once.
Arm(e) == IF Contains(ready, e) THEN ready ELSE Append(ready, e)

-----------------------------------------------------------------------------
(* E2 nodes, kernel and RIC.                                               *)

\* The kernel completes an association; without "bursts" it does so only when
\* the previous one was accepted.
Connect(n) ==
  /\ phase[n] = "away"
  /\ "bursts" \in Env \/ backlog = <<>>
  /\ phase' = [phase EXCEPT ![n] = "waiting"]
  /\ backlog' = Append(backlog, n)
  /\ ready' = Arm("listen")
  /\ UNCHANGED <<inbox, pending, batch, cur>>

\* A message or the end of the association arrives.
Arrive(n, item) ==
  /\ phase[n] \in {"waiting", "open"}
  /\ ~ Contains(inbox[n], "eof")
  /\ Len(inbox[n]) < MaxInbox
  /\ item = "garbage" => "garbage" \in Env
  /\ inbox' = [inbox EXCEPT ![n] = Append(@, item)]
  /\ ready' = IF phase[n] = "open" THEN Arm(n) ELSE ready
  /\ UNCHANGED <<phase, backlog, pending, batch, cur>>

RmrArrive ==
  /\ pending < MaxPending
  /\ pending' = pending + 1
  /\ ready' = Arm("rmr")
  /\ UNCHANGED <<net, batch, cur>>

-----------------------------------------------------------------------------
(* The listener thread.                                                    *)

\* Events are reported oldest first and leave the ready list.
EpollWait ==
  /\ cur = Null
  /\ batch = <<>>
  /\ ready # <<>>
  /\ LET n == IF Len(ready) < MaxEvents THEN Len(ready) ELSE MaxEvents
     IN  /\ batch' = SubSeq(ready, 1, n)
         /\ ready' = SubSeq(ready, n + 1, Len(ready))
  /\ UNCHANGED <<net, pending, cur>>

Handling(e) == cur = Null /\ batch # <<>> /\ Head(batch) = e

\* One accept per event.  accept() may fail and leave the association where
\* it is; a later failure closes the new descriptor.  Data that came before is
\* announced when the descriptor is added to epoll.
Accept ==
  /\ Handling("listen")
  /\ batch' = Tail(batch)
  /\ \/ /\ backlog # <<>>
        /\ backlog' = Tail(backlog)
        /\ \/ /\ phase' = [phase EXCEPT ![Head(backlog)] = "open"]
              /\ ready' = IF inbox[Head(backlog)] = <<>> THEN ready ELSE Arm(Head(backlog))
              /\ UNCHANGED inbox
           \/ /\ "acceptErrors" \in Env
              /\ phase' = [phase EXCEPT ![Head(backlog)] = "closed"]
              /\ inbox' = [inbox EXCEPT ![Head(backlog)] = <<>>]
              /\ UNCHANGED ready
     \/ /\ backlog = <<>> \/ "acceptErrors" \in Env
        /\ UNCHANGED <<net, ready>>
  /\ UNCHANGED <<pending, cur>>

\* Mutant: the descriptor is edge triggered, like the others.
ReceiveRmrOnEdge ==
  /\ Handling("rmr")
  /\ batch' = Tail(batch)
  /\ pending' = pending - 1
  /\ UNCHANGED <<net, ready, cur>>

\* Mutant: a message of the RIC is handled and the loop waits again at once.
ReceiveRmrLast ==
  /\ Handling("rmr")
  /\ batch' = <<>>
  /\ pending' = pending - 1
  /\ ready' = IF pending > 1 THEN Arm("rmr") ELSE ready
  /\ UNCHANGED <<net, cur>>

\* Mutant: two messages are taken for one event.
ReceiveTwoRmr ==
  /\ Handling("rmr")
  /\ batch' = Tail(batch)
  /\ pending' = pending - 2
  /\ ready' = IF pending > 1 THEN Arm("rmr") ELSE ready
  /\ UNCHANGED <<net, cur>>

\* receiveXappMessages takes one message; the descriptor stays ready while
\* there are more.
ReceiveRmr ==
  /\ Handling("rmr")
  /\ batch' = Tail(batch)
  /\ pending' = pending - 1
  /\ ready' = IF pending > 1 THEN Arm("rmr") ELSE ready
  /\ UNCHANGED <<net, cur>>

\* Mutant: the events behind a read are dropped.
StartReadingLast(n) ==
  /\ Handling(n)
  /\ batch' = <<>>
  /\ cur' = n
  /\ UNCHANGED <<net, pending, ready>>

StartReading(n) ==
  /\ Handling(n)
  /\ batch' = Tail(batch)
  /\ cur' = n
  /\ UNCHANGED <<net, pending, ready>>

\* Mutant: one PDU per event.
ReadOnePdu(n) ==
  /\ cur = n
  /\ inbox[n] # <<>>
  /\ Head(inbox[n]) = "pdu"
  /\ inbox' = [inbox EXCEPT ![n] = Tail(@)]
  /\ cur' = Null
  /\ UNCHANGED <<phase, backlog, pending, ready, batch>>

\* A PDU was read and dispatched; the loop goes on reading.
ReadPdu(n) ==
  /\ cur = n
  /\ inbox[n] # <<>>
  /\ Head(inbox[n]) = "pdu"
  /\ inbox' = [inbox EXCEPT ![n] = Tail(@)]
  /\ UNCHANGED <<phase, backlog, pending, ready, batch, cur>>

\* EAGAIN: back to the batch.
StopReading(n) ==
  /\ cur = n
  /\ inbox[n] = <<>>
  /\ cur' = Null
  /\ UNCHANGED <<net, pending, ready, batch>>

\* What was read cannot be decoded: back to the batch as well.
DecodeError(n) ==
  /\ cur = n
  /\ inbox[n] # <<>>
  /\ Head(inbox[n]) = "garbage"
  /\ inbox' = [inbox EXCEPT ![n] = Tail(@)]
  /\ cur' = Null
  /\ UNCHANGED <<phase, backlog, pending, ready, batch>>

\* The failure is reported and the descriptor closed: unread data is gone and
\* epoll forgets the descriptor.
Close(n) ==
  /\ phase' = [phase EXCEPT ![n] = "closed"]
  /\ inbox' = [inbox EXCEPT ![n] = <<>>]
  /\ \/ ~ Contains(ready, n) /\ UNCHANGED ready
     \/ \E i \in 1..Len(ready) : ready[i] = n /\ ready' = RemoveAt(ready, i)
  /\ UNCHANGED <<backlog, pending>>

\* Mutant: the end of file is taken for EAGAIN.
EofIgnored(n) ==
  /\ cur = n
  /\ inbox[n] # <<>>
  /\ Head(inbox[n]) = "eof"
  /\ cur' = Null
  /\ UNCHANGED <<net, pending, ready, batch>>

\* End of file or a read error.
Disconnect(n) ==
  /\ cur = n
  /\ inbox[n] # <<>>
  /\ Head(inbox[n]) = "eof"
  /\ Close(n)
  /\ cur' = Null
  /\ UNCHANGED batch

\* The end of the association was announced with EPOLLERR or EPOLLHUP.
handlepoll_error(n) ==
  /\ Handling(n)
  /\ Contains(inbox[n], "eof")
  /\ Close(n)
  /\ batch' = Tail(batch)
  /\ UNCHANGED cur

-----------------------------------------------------------------------------
Init ==
  /\ phase = [n \in Nodes |-> "away"]
  /\ backlog = <<>>
  /\ inbox = [n \in Nodes |-> <<>>]
  /\ pending = 0
  /\ ready = <<>>
  /\ batch = <<>>
  /\ cur = Null

Listener ==
  \/ EpollWait
  \/ Accept
  \/ ReceiveRmr
  \/ \E n \in Nodes : \/ StartReading(n) \/ ReadPdu(n) \/ StopReading(n)
                      \/ DecodeError(n) \/ Disconnect(n) \/ handlepoll_error(n)

Environment ==
  \/ RmrArrive
  \/ \E n \in Nodes : \/ Connect(n)
                      \/ \E item \in {"pdu", "garbage", "eof"} : Arrive(n, item)

Next == Listener \/ Environment

\* The thread runs; nothing is assumed of the E2 nodes and the RIC.
Spec == Init /\ [][Next]_vars /\ WF_vars(Listener)
=============================================================================
