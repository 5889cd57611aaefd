----------------------------- MODULE ConfigWatch -----------------------------
(***************************************************************************)
(* The configuration file: main reads it (buildConfiguration) and later    *)
(* has its directory watched (buildInotify); the listener thread follows   *)
(* the trace entry while the process runs (handleConfigChange).            *)
(*                                                                         *)
(* Contents are "start", "stop", "wrong" and "none" by the trace entry     *)
(* they have, "partial" if another mandatory entry is missing, "large" for *)
(* more than 2048 octets, and "badSection".                                *)
(***************************************************************************)
EXTENDS WatchedFile, FiniteSets

CONSTANT
  BatchSize \* how many events a read of 4096 octets returns

ASSUME BatchAssumption == BatchSize \in Nat \ {0}

VARIABLES
  main,     \* where the main thread is
  listener, \* where the listener thread is
  batch,    \* the events it has read and not looked at
  handled,  \* not endlessLoop
  trace     \* sctpParams.trace and jsonTrace

vars == <<fileVars, main, listener, batch, handled, trace>>

\* What buildInotify asks for.
Mask == {"OPEN", "CLOSE_WRITE", "CLOSE_NOWRITE", "OTHER"}

-----------------------------------------------------------------------------
(* The content of the file.                                                *)

\* openConfigFile reads all lines.
Readable(content) == content \notin {"absent", "badSection"}

\* Any other value than start is taken for stop, and so is none.
TraceOf(content) == content = "start"

\* The entries main needs are there.
Complete(content) == content \in {"start", "stop", "wrong", "none"}

-----------------------------------------------------------------------------
(* The main thread.                                                        *)

\* The process ends if the file cannot be used.
buildConfiguration ==
  /\ main = "configure"
  /\ IF Complete(file)
     THEN main' = "inotify" /\ trace' = TraceOf(file)
     ELSE main' = "exited" /\ UNCHANGED trace
  /\ UNCHANGED <<fileVars, listener, batch, handled>>

\* After getRmrContext.
buildInotify ==
  /\ main = "inotify"
  /\ \/ watching' = TRUE /\ main' = "listen"
     \/ main' = "exited" /\ UNCHANGED watching
  /\ UNCHANGED <<file, writer, queue, changes, listener, batch, handled, trace>>

-----------------------------------------------------------------------------
(* The listener thread.                                                    *)

\* The descriptor is level triggered.
Wake ==
  /\ main = "listen" /\ listener = "wait"
  /\ queue # <<>>
  /\ listener' = "read"
  /\ handled' = FALSE
  /\ UNCHANGED <<fileVars, main, batch, trace>>

\* One round of the outer loop: EAGAIN ends it.
ReadEvents ==
  /\ listener = "read"
  /\ IF queue = <<>>
     THEN /\ listener' = "wait"
          /\ UNCHANGED <<queue, batch>>
     ELSE LET n == IF Len(queue) < BatchSize THEN Len(queue) ELSE BatchSize
          IN  /\ batch' = SubSeq(queue, 1, n)
              /\ queue' = SubSeq(queue, n + 1, Len(queue))
              /\ listener' = "event"
  /\ UNCHANGED <<file, writer, watching, changes, main, handled, trace>>

\* Mutant: IN_CLOSE instead of IN_CLOSE_WRITE.
NextClose ==
  /\ listener = "event"
  /\ IF batch = <<>>
     THEN listener' = (IF handled THEN "wait" ELSE "read") /\ UNCHANGED batch
     ELSE IF Head(batch) \in {"CLOSE_WRITE", "CLOSE_NOWRITE"}
     THEN listener' = "exists" /\ UNCHANGED batch
     ELSE batch' = Tail(batch) /\ UNCHANGED listener
  /\ UNCHANGED <<fileVars, main, handled, trace>>

\* Mutant: events that came meanwhile are taken to be those of the reading.
NextEventAndDrain ==
  /\ listener = "event"
  /\ IF batch = <<>>
     THEN /\ listener' = (IF handled THEN "wait" ELSE "read")
          /\ queue' = <<>>
          /\ UNCHANGED batch
     ELSE /\ IF Head(batch) = "CLOSE_WRITE"
             THEN listener' = "exists" /\ UNCHANGED batch
             ELSE batch' = Tail(batch) /\ UNCHANGED listener
          /\ UNCHANGED queue
  /\ UNCHANGED <<file, writer, watching, changes, main, handled, trace>>

\* One round of the inner loop, up to the handling of IN_CLOSE_WRITE.
NextEvent ==
  /\ listener = "event"
  /\ IF batch = <<>>
     THEN listener' = (IF handled THEN "wait" ELSE "read") /\ UNCHANGED batch
     ELSE IF Head(batch) = "CLOSE_WRITE"
     THEN listener' = "exists" /\ UNCHANGED batch
     ELSE batch' = Tail(batch) /\ UNCHANGED listener
  /\ UNCHANGED <<fileVars, main, handled, trace>>

\* Mutant: the events are kept for the next time.
ReturnLater == listener' = "wait" /\ UNCHANGED batch

\* The handler returns; what is left of the batch is gone.
Return == listener' = "wait" /\ batch' = <<>>

\* exists(p).
Exists ==
  /\ listener = "exists"
  /\ IF file = "absent" THEN Return ELSE listener' = "size" /\ UNCHANGED batch
  /\ UNCHANGED <<fileVars, main, handled, trace>>

\* file_size(p), which throws if there is no file.
Size ==
  /\ listener = "size"
  /\ IF file = "absent" THEN listener' = "aborted" /\ UNCHANGED batch
     ELSE IF file = "large" THEN Return
     ELSE listener' = "open" /\ UNCHANGED batch
  /\ UNCHANGED <<fileVars, main, handled, trace>>

\* The file is read, which is watched too, and the trace is set.
ReadFile ==
  /\ listener = "open"
  /\ IF Readable(file)
     THEN /\ trace' = TraceOf(file)
          /\ handled' = TRUE
          /\ listener' = "event"
          /\ batch' = Tail(batch)
     ELSE Return /\ UNCHANGED <<trace, handled>>
  /\ queue' = IF file = "absent" THEN queue ELSE NotifiedOfReading(queue, Mask)
  /\ UNCHANGED <<file, writer, watching, changes, main>>

handleConfigChange == ReadEvents \/ NextEvent \/ Exists \/ Size \/ ReadFile

-----------------------------------------------------------------------------

Init ==
  /\ FileInit
  /\ main = "configure"
  /\ listener = "wait"
  /\ batch = <<>>
  /\ handled = FALSE
  /\ trace = FALSE

Main == buildConfiguration \/ buildInotify
Listener == Wake \/ handleConfigChange

Next ==
  \/ Main
  \/ Listener
  \/ Others(Mask) /\ UNCHANGED <<main, listener, batch, handled, trace>>

\* The listener thread keeps running.
Spec == Init /\ [][Next]_vars /\ WF_vars(Listener)

-----------------------------------------------------------------------------
(* Properties.                                                             *)

\* The type of the state; a batch is not there while the thread waits, and
\* an event of the file is at its head while it is handled.
TypeOK ==
  /\ FileTypeOK
  /\ main \in {"configure", "inotify", "listen", "exited"}
  /\ listener \in {"wait", "read", "event", "exists", "size", "open", "aborted"}
  /\ batch \in Seq(EventKinds)
  /\ Len(batch) <= BatchSize
  /\ listener \in {"wait", "read"} => batch = <<>>
  /\ listener \in {"exists", "size", "open"} => batch # <<>> /\ Head(batch) = "CLOSE_WRITE"
  /\ handled \in BOOLEAN
  /\ trace \in BOOLEAN

\* The entry can be taken from the file.
Usable(content) == Readable(content) /\ content # "large"

\* When the listener thread waits and no event does, and nobody writes, trace is
\* what the file says: handleConfigChange reads the file after the event, so a
\* change during its steps is not lost, and neither is one after a file that
\* could not be used.
TraceSettled ==
  (main = "listen" /\ listener = "wait" /\ queue = <<>> /\ writer = "nobody" /\ Usable(file))
    => trace = TraceOf(file)

\* What the listener thread has to do until it waits, if nobody changes the file:
\* an event is read and looked at; for a close after writing the file is read too,
\* which brings two more events.
Writes(events) == Cardinality({i \in 1..Len(events) : events[i] = "CLOSE_WRITE"})

Place ==
  CASE listener = "event" -> 3
    [] listener = "exists" -> 2
    [] listener = "wait" -> IF queue = <<>> THEN 0 ELSE 2
    [] listener \in {"read", "size"} -> 1
    [] listener \in {"open", "aborted"} -> 0

Work == 4 * Len(queue) + Len(batch) + 11 * (Writes(queue) + Writes(batch)) + Place

\* Every step of the listener thread leaves it less to do, also the reading of the
\* file, of which inotify tells handleConfigChange again: the rounds of its
\* loops are bounded by the events that others caused.
HandlingEnds == [][Listener => Work' < Work]_vars

\* Once nobody changes the file the listener thread waits: its own reading of
\* the file, of which inotify tells it too, does not make it read the file again.
\* With TraceSettled, trace ends up as the file says.
WatchQuiets == <>[](listener = "aborted" \/ (listener = "wait" /\ queue = <<>>))
=============================================================================
