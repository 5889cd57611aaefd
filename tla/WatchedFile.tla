----------------------------- MODULE WatchedFile -----------------------------
(***************************************************************************)
(* A file in a directory that an inotify descriptor watches: what other    *)
(* processes do to the file, and the events the descriptor has for it.     *)
(* All of this is outside the E2 termination.  ConfigWatch and             *)
(* LogLevelWatch extend it with the two watchers that the E2 termination   *)
(* has, each of a file of its own.                                         *)
(***************************************************************************)
EXTENDS Naturals, Sequences, SequencesExt

CONSTANTS
  Contents,   \* what others write to the file
  Faults,     \* a subset of {"early", "moved", "removed"}: changes before the
              \* watch, other files moved over it, the file removed
  MaxChanges, \* bound: what others do with the file or beside it
  MaxEvents   \* bound: events that wait when others do something; the limit of
              \* inotify, 16384, is not reached

ASSUME FaultsAssumption == Faults \subseteq {"early", "moved", "removed"}
ASSUME ContentsAssumption == Contents \cap {"absent", "empty", "nobody"} = {}
ASSUME BoundsAssumption == MaxChanges \in Nat /\ MaxEvents \in Nat

VARIABLES
  file,     \* the content, or "absent"
  writer,   \* what a process that has the file open for writing writes to it,
            \* or "nobody"
  watching, \* inotify_add_watch was called
  queue,    \* the events that wait to be read
  changes   \* what others did so far

fileVars == <<file, writer, watching, queue, changes>>

\* Events of the file, and those of other files in its directory.
EventKinds == {"OPEN", "CLOSE_WRITE", "CLOSE_NOWRITE", "MOVED_TO", "OTHER"}

\* The queue after an event; the kernel drops an event that is like the last one.
Notified(q, e, mask) ==
  IF watching /\ e \in mask /\ (q = <<>> \/ Last(q) # e) THEN Append(q, e) ELSE q

\* The queue after somebody read the file.
NotifiedOfReading(q, mask) == Notified(Notified(q, "OPEN", mask), "CLOSE_NOWRITE", mask)

FileInit ==
  /\ file \in Contents \cup {"absent"}
  /\ writer = "nobody"
  /\ watching = FALSE
  /\ queue = <<>>
  /\ changes = 0

Change ==
  /\ watching \/ "early" \in Faults
  /\ writer = "nobody"
  /\ changes < MaxChanges
  /\ Len(queue) < MaxEvents
  /\ changes' = changes + 1
  /\ UNCHANGED watching

\* The file is opened, truncated or created; it is written; it is closed.
OpenToWrite(mask) ==
  /\ Change
  /\ writer' \in Contents
  /\ file' = "empty"
  /\ queue' = Notified(queue, "OPEN", mask)

Write ==
  /\ writer # "nobody" /\ file # writer
  /\ file' = writer
  /\ UNCHANGED <<writer, watching, queue, changes>>

Close(mask) ==
  /\ writer # "nobody" /\ file = writer
  /\ writer' = "nobody"
  /\ queue' = Notified(queue, "CLOSE_WRITE", mask)
  /\ UNCHANGED <<file, watching, changes>>

MoveTo(mask) ==
  /\ "moved" \in Faults
  /\ Change
  /\ file' \in Contents
  /\ queue' = Notified(queue, "MOVED_TO", mask)
  /\ UNCHANGED writer

Unlink ==
  /\ "removed" \in Faults
  /\ Change
  /\ file' = "absent"
  /\ UNCHANGED <<writer, queue>>

\* Somebody reads the file, or does something to another file.
Look(mask) ==
  /\ Change
  /\ \/ file # "absent" /\ queue' = NotifiedOfReading(queue, mask)
     \/ queue' = Notified(queue, "OTHER", mask)
  /\ UNCHANGED <<file, writer>>

Others(mask) ==
  OpenToWrite(mask) \/ Write \/ Close(mask) \/ MoveTo(mask) \/ Unlink \/ Look(mask)

FileTypeOK ==
  /\ file \in Contents \cup {"absent", "empty"}
  /\ writer \in Contents \cup {"nobody"}
  /\ watching \in BOOLEAN
  /\ queue \in Seq(EventKinds)
  /\ changes \in 0..MaxChanges
=============================================================================
