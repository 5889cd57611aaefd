---------------------------- MODULE LogLevelWatch ----------------------------
(***************************************************************************)
(* The log level: main reads it from the file that an environment variable *)
(* names (dynamic_log_level_change) and starts a thread that watches the   *)
(* directory of the file and reads the level again after every event       *)
(* (monitor_loglevel_change_handler).                                      *)
(*                                                                         *)
(* Contents are "1" to "4" by the value of the log-level entry, "wrong"    *)
(* for any other value and "none" for a file without the entry.            *)
(***************************************************************************)
EXTENDS WatchedFile

CONSTANT
  BatchSize \* how many events a read of 4096 octets returns

ASSUME BatchAssumption == BatchSize \in Nat \ {0}

VARIABLES
  main,    \* where the main thread is
  monitor, \* where the watching thread is
  level    \* the severity of mdclog

vars == <<fileVars, main, monitor, level>>

\* Mutant: only close write changes.
MaskOfWriting == {"CLOSE_WRITE", "OTHER"}

\* What the thread asks for.
Mask == {"MOVED_TO", "CLOSE_WRITE", "OTHER"}

Levels == {"ERR", "WARN", "INFO", "DEBUG"}

-----------------------------------------------------------------------------

\* parse_file: the value of the entry, or none, also if there is no file.
parse_file(content) == IF content \in {"1", "2", "3", "4", "wrong"} THEN content ELSE "null"

update_mdc_log_level_severity(value) ==
  CASE value = "2" -> "WARN"
    [] value = "3" -> "INFO"
    [] value = "4" -> "DEBUG"
    [] OTHER -> "ERR"

LevelOf(content) == update_mdc_log_level_severity(parse_file(content))

\* dynamic_log_level_change.
dynamic_log_level_change ==
  /\ main = "read"
  /\ level' = LevelOf(file)
  /\ main' = "notify"
  /\ UNCHANGED <<fileVars, monitor>>

\* There is no thread if there is no file, or none can be started.
enable_log_change_notify ==
  /\ main = "notify"
  /\ main' = "started"
  /\ \/ file # "absent" /\ monitor' = "watch"
     \/ UNCHANGED monitor
  /\ UNCHANGED <<fileVars, level>>

AddWatch ==
  /\ monitor = "watch"
  /\ \/ watching' = TRUE /\ monitor' = "select"
     \/ monitor' = "ended" /\ UNCHANGED watching
  /\ UNCHANGED <<file, writer, queue, changes, main, level>>

\* select and read: the events are all the same to the thread.
ReadEvents ==
  /\ monitor = "select"
  /\ queue # <<>>
  /\ queue' = IF Len(queue) <= BatchSize THEN <<>> ELSE SubSeq(queue, BatchSize + 1, Len(queue))
  /\ monitor' = "parse"
  /\ UNCHANGED <<file, writer, watching, changes, main, level>>

\* Mutant: a file without a level leaves the level alone.
KeepLevel ==
  /\ monitor = "parse"
  /\ level' = IF parse_file(file) = "null" THEN level ELSE LevelOf(file)
  /\ monitor' = "select"
  /\ UNCHANGED <<fileVars, main>>

\* The level is read again and set.
ReadLevel ==
  /\ monitor = "parse"
  /\ level' = LevelOf(file)
  /\ monitor' = "select"
  /\ UNCHANGED <<fileVars, main>>

monitor_loglevel_change_handler == AddWatch \/ ReadEvents \/ ReadLevel

Init ==
  /\ FileInit
  /\ main = "read"
  /\ monitor = "none"
  /\ level = "ERR"

Next ==
  \/ dynamic_log_level_change
  \/ enable_log_change_notify
  \/ monitor_loglevel_change_handler
  \/ Others(Mask) /\ UNCHANGED <<main, monitor, level>>

\* The watching thread keeps running.
Spec == Init /\ [][Next]_vars /\ WF_vars(monitor_loglevel_change_handler)

-----------------------------------------------------------------------------
(* Properties.                                                             *)

\* The type of the state; main starts the thread, and only the thread watches.
TypeOK ==
  /\ FileTypeOK
  /\ main \in {"read", "notify", "started"}
  /\ monitor \in {"none", "watch", "select", "parse", "ended"}
  /\ main # "started" => monitor = "none"
  /\ watching <=> monitor \in {"select", "parse"}
  /\ level \in Levels

\* When the thread waits and no event does, and nobody writes, the level is what
\* the file says, whether it was written in place or another file was moved
\* over it.
LevelSettled ==
  (monitor = "select" /\ queue = <<>> /\ writer = "nobody" /\ file # "absent")
    => level = LevelOf(file)

\* Once nobody changes the file the level is what it says, if the thread is there.
LevelFollows ==
  <>[](\/ monitor \in {"none", "ended"} \/ writer # "nobody" \/ file = "absent"
       \/ level = LevelOf(file))
=============================================================================
