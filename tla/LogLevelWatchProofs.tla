------------------------- MODULE LogLevelWatchProofs -------------------------
(***************************************************************************)
(* Proofs about LogLevelWatch, for any contents, bounds and sizes of       *)
(* batches.                                                                *)
(***************************************************************************)
EXTENDS LogLevelWatch, SequenceTheorems, TLAPS

\* The file does not change before it is watched.
NotEarly == "early" \notin Faults

\* Before the watch nobody changes the file; while it is watched a level that is
\* not that of the file will be set again.
Following ==
  /\ ~ watching => writer = "nobody"
  /\ \/ main = "read"
     \/ writer # "nobody" \/ file = "absent" \/ level = LevelOf(file)
     \/ monitor \in {"none", "ended", "parse"}
     \/ watching /\ queue # <<>>
  /\ (main = "notify" \/ monitor = "watch") => (file = "absent" \/ level = LevelOf(file))

IInv == TypeOK /\ Following

-----------------------------------------------------------------------------
(* The events of the watched file.                                         *)

LEMMA NotifiedTyped ==
  ASSUME NEW q \in Seq(EventKinds), NEW e \in EventKinds, NEW mask
  PROVE  Notified(q, e, mask) \in Seq(EventKinds)
BY AppendProperties DEF Notified

LEMMA NotifiedOfReadingTyped ==
  ASSUME NEW q \in Seq(EventKinds), NEW mask
  PROVE  NotifiedOfReading(q, mask) \in Seq(EventKinds)
<1>1. "OPEN" \in EventKinds /\ "CLOSE_NOWRITE" \in EventKinds
  BY DEF EventKinds
<1> QED
  BY <1>1, NotifiedTyped DEF NotifiedOfReading

LEMMA FileInitTyped == FileInit => FileTypeOK
<1> SUFFICES ASSUME FileInit PROVE FileTypeOK
  OBVIOUS
<1>1. queue \in Seq(EventKinds)
  BY DEF FileInit
<1>2. changes \in 0..MaxChanges
  BY BoundsAssumption DEF FileInit
<1> QED
  BY <1>1, <1>2 DEF FileInit, FileTypeOK

\* What others do keeps the type.
LEMMA FileOthersTyped ==
  ASSUME FileTypeOK, NEW mask, Others(mask) PROVE FileTypeOK'
<1> USE BoundsAssumption DEF FileTypeOK, Change
<1>1. /\ "OPEN" \in EventKinds /\ "CLOSE_WRITE" \in EventKinds
      /\ "MOVED_TO" \in EventKinds /\ "OTHER" \in EventKinds
  BY DEF EventKinds
<1>2. CASE OpenToWrite(mask)
  BY <1>1, <1>2, NotifiedTyped DEF OpenToWrite
<1>3. CASE Write
  BY <1>3 DEF Write
<1>4. CASE Close(mask)
  BY <1>1, <1>4, NotifiedTyped DEF Close
<1>5. CASE MoveTo(mask)
  BY <1>1, <1>5, NotifiedTyped DEF MoveTo
<1>6. CASE Unlink
  BY <1>6 DEF Unlink
<1>7. CASE Look(mask)
  <2>1. queue' \in Seq(EventKinds)
    BY <1>1, <1>7, NotifiedTyped, NotifiedOfReadingTyped DEF Look
  <2> QED
    BY <1>7, <2>1 DEF Look
<1> QED
  BY <1>2, <1>3, <1>4, <1>5, <1>6, <1>7 DEF Others

-----------------------------------------------------------------------------

LEMMA LevelTyped == \A content : LevelOf(content) \in Levels
BY DEF LevelOf, update_mdc_log_level_severity, Levels

LEMMA InitTyped == Init => TypeOK
BY FileInitTyped DEF Init, FileInit, TypeOK, Levels

LEMMA StepTyped == TypeOK /\ [Next]_vars => TypeOK'
<1> SUFFICES ASSUME TypeOK, [Next]_vars PROVE TypeOK'
  OBVIOUS
<1>1. CASE dynamic_log_level_change
  BY <1>1, LevelTyped DEF dynamic_log_level_change, TypeOK, FileTypeOK, fileVars
<1>2. CASE enable_log_change_notify
  BY <1>2 DEF enable_log_change_notify, TypeOK, FileTypeOK, fileVars
<1>3. CASE AddWatch
  <2>1. CASE watching' = TRUE /\ monitor' = "select"
    BY <1>3, <2>1 DEF AddWatch, TypeOK, FileTypeOK
  <2>2. CASE monitor' = "ended" /\ UNCHANGED watching
    BY <1>3, <2>2 DEF AddWatch, TypeOK, FileTypeOK
  <2> QED
    BY <1>3, <2>1, <2>2 DEF AddWatch
<1>4. CASE ReadEvents
  <2>1. queue' \in Seq(EventKinds)
    <3>1. CASE Len(queue) <= BatchSize
      BY <1>4, <3>1 DEF ReadEvents
    <3>2. CASE ~ (Len(queue) <= BatchSize)
      <4>1. /\ queue \in Seq(EventKinds) /\ BatchSize + 1 \in 1..Len(queue)
            /\ \A i \in (BatchSize + 1)..Len(queue) : queue[i] \in EventKinds
        BY <3>2, BatchAssumption DEF TypeOK, FileTypeOK
      <4>2. SubSeq(queue, BatchSize + 1, Len(queue)) \in Seq(EventKinds)
        BY <4>1, SubSeqProperties
      <4> QED
        BY <1>4, <3>2, <4>2 DEF ReadEvents
    <3> QED
      BY <3>1, <3>2
  <2> QED
    BY <1>4, <2>1 DEF ReadEvents, TypeOK, FileTypeOK
<1>5. CASE ReadLevel
  BY <1>5, LevelTyped DEF ReadLevel, TypeOK, FileTypeOK, fileVars
<1>6. CASE Others(Mask) /\ UNCHANGED <<main, monitor, level>>
  <2>1. watching' = watching
    BY <1>6 DEF Others, OpenToWrite, Write, Close, MoveTo, Unlink, Look, Change
  <2> QED
    BY <1>6, <2>1, FileOthersTyped DEF TypeOK
<1>7. CASE UNCHANGED vars
  BY <1>7 DEF TypeOK, FileTypeOK, vars, fileVars
<1> QED
  BY <1>1, <1>2, <1>3, <1>4, <1>5, <1>6, <1>7 DEF Next, monitor_loglevel_change_handler

\* What others do to the file is announced, as long as it is watched.
LEMMA OthersFollowed ==
  ASSUME NotEarly, IInv, Others(Mask), UNCHANGED <<main, monitor, level>>
  PROVE  Following'
<1> USE DEF IInv, Following, Change, NotEarly
<1>1. /\ "OPEN" \in EventKinds /\ "CLOSE_WRITE" \in EventKinds /\ "MOVED_TO" \in EventKinds
      /\ "OTHER" \in EventKinds /\ {"CLOSE_WRITE", "MOVED_TO"} \subseteq Mask
      /\ queue \in Seq(EventKinds)
  BY DEF EventKinds, Mask, TypeOK, FileTypeOK
<1>2. watching /\ UNCHANGED watching
  BY DEF Others, OpenToWrite, Write, Close, MoveTo, Unlink, Look, TypeOK
<1>3. monitor \in {"select", "parse"} /\ main # "read"
  BY <1>2 DEF TypeOK
<1>4. main = "started"
  BY <1>3 DEF TypeOK
<1>5. \A q \in Seq(EventKinds), e \in EventKinds :
        /\ q # <<>> => Notified(q, e, Mask) # <<>>
        /\ e \in Mask => Notified(q, e, Mask) # <<>>
  BY <1>2 DEF Notified
<1>6. CASE OpenToWrite(Mask)
  BY <1>2, <1>3, <1>4, <1>6, ContentsAssumption DEF OpenToWrite
<1>7. CASE Write
  BY <1>2, <1>3, <1>4, <1>7 DEF Write
<1>8. CASE Close(Mask)
  BY <1>1, <1>2, <1>3, <1>4, <1>5, <1>8 DEF Close
<1>9. CASE MoveTo(Mask)
  BY <1>1, <1>2, <1>3, <1>4, <1>5, <1>9 DEF MoveTo
<1>10. CASE Unlink
  BY <1>2, <1>3, <1>4, <1>10 DEF Unlink
<1>11. CASE Look(Mask)
  <2>1. queue # <<>> => queue' # <<>>
    <3>1. NotifiedOfReading(queue, Mask) = queue
      BY DEF NotifiedOfReading, Notified, Mask
    <3> QED
      BY <1>1, <1>5, <1>11, <3>1 DEF Look
  <2> QED
    BY <1>2, <1>3, <1>4, <1>11, <2>1 DEF Look
<1> QED
  BY <1>6, <1>7, <1>8, <1>9, <1>10, <1>11 DEF Others

LEMMA ThreadsFollowed ==
  ASSUME IInv,
         dynamic_log_level_change \/ enable_log_change_notify \/ monitor_loglevel_change_handler
  PROVE  Following'
<1> USE DEF IInv, Following, TypeOK
<1>1. CASE dynamic_log_level_change
  BY <1>1 DEF dynamic_log_level_change, fileVars
<1>2. CASE enable_log_change_notify
  BY <1>2 DEF enable_log_change_notify, fileVars
<1>3. CASE AddWatch
  BY <1>3 DEF AddWatch
<1>4. CASE ReadEvents
  BY <1>4 DEF ReadEvents
<1>5. CASE ReadLevel
  BY <1>5 DEF ReadLevel, fileVars
<1> QED
  BY <1>1, <1>2, <1>3, <1>4, <1>5 DEF monitor_loglevel_change_handler

-----------------------------------------------------------------------------

\* If the file does not change before it is watched, the level is that of the
\* file whenever the thread waits, even if other files are moved over it
\* (monitor_loglevel_change_handler).
THEOREM LevelIsSettled == NotEarly => (Spec => [](TypeOK /\ LevelSettled))
<1> SUFFICES ASSUME NotEarly PROVE Spec => [](TypeOK /\ LevelSettled)
  OBVIOUS
<1>1. Init => IInv
  BY InitTyped DEF IInv, Following, Init, FileInit
<1>2. IInv /\ [Next]_vars => IInv'
  <2>1. IInv /\ UNCHANGED vars => Following'
    BY DEF IInv, Following, vars, fileVars
  <2> QED
    BY <2>1, StepTyped, ThreadsFollowed, OthersFollowed DEF IInv, Next
<1>3. IInv => TypeOK /\ LevelSettled
  BY DEF IInv, Following, LevelSettled, TypeOK
<1> QED
  BY <1>1, <1>2, <1>3, PTL DEF Spec
=============================================================================
