-------------------------- MODULE ConfigWatchProofs --------------------------
(***************************************************************************)
(* Proofs about ConfigWatch, for any contents, bounds and batch sizes.     *)
(***************************************************************************)
EXTENDS ConfigWatch, SequenceTheorems, FunctionTheorems, FiniteSetTheorems, TLAPS

\* A close after writing waits among these events.
Told(events) == \E i \in 1..Len(events) : events[i] = "CLOSE_WRITE"

\* Files are written in place, and not before they are watched.
InPlace == Faults \cap {"early", "moved"} = {}

Current == Usable(file) => trace = TraceOf(file)

\* Before the watch nobody changes the file; while it is watched a trace that is
\* not current will become so.
WillBeRead ==
  \/ Current \/ listener = "aborted" \/ writer # "nobody" \/ Told(queue) \/ Told(batch)

Following ==
  /\ main = "configure" => ~ watching
  /\ main = "inotify" => ~ watching /\ Current
  /\ main = "listen" => watching /\ WillBeRead
  /\ ~ watching => writer = "nobody"
  /\ listener # "wait" => main = "listen"

IInv == TypeOK /\ Following

-----------------------------------------------------------------------------
(* The events of the watched file.                                         *)

LEMMA NotifiedTyped ==
  ASSUME NEW q \in Seq(EventKinds), NEW e \in EventKinds, NEW mask
  PROVE  /\ Notified(q, e, mask) \in Seq(EventKinds)
         /\ Told(q) => Told(Notified(q, e, mask))
         /\ (watching /\ e = "CLOSE_WRITE" /\ e \in mask) => Told(Notified(q, e, mask))
<1>1. CASE watching /\ e \in mask /\ (q = <<>> \/ Last(q) # e)
  <2>1. Notified(q, e, mask) = Append(q, e)
    BY <1>1 DEF Notified
  <2>2. /\ Append(q, e) \in Seq(EventKinds) /\ Len(Append(q, e)) = Len(q) + 1 /\ Len(q) \in Nat
        /\ Append(q, e)[Len(q) + 1] = e /\ \A i \in 1..Len(q) : Append(q, e)[i] = q[i]
    BY AppendProperties
  <2> QED
    BY <2>1, <2>2 DEF Told
<1>2. CASE ~ (watching /\ e \in mask /\ (q = <<>> \/ Last(q) # e))
  <2>1. Notified(q, e, mask) = q
    BY <1>2, Zenon DEF Notified
  <2>2. (watching /\ e \in mask /\ e = "CLOSE_WRITE") => Told(q)
    BY <1>2 DEF Last, Told
  <2> QED
    BY <2>1, <2>2
<1> QED
  BY <1>1, <1>2

LEMMA NotifiedOfReadingTyped ==
  ASSUME NEW q \in Seq(EventKinds), NEW mask
  PROVE  /\ NotifiedOfReading(q, mask) \in Seq(EventKinds)
         /\ Told(q) => Told(NotifiedOfReading(q, mask))
<1>1. "OPEN" \in EventKinds /\ "CLOSE_NOWRITE" \in EventKinds
  BY DEF EventKinds
<1> QED
  BY <1>1, NotifiedTyped DEF NotifiedOfReading

LEMMA FileInitTyped == FileInit => FileTypeOK
<1> SUFFICES ASSUME FileInit PROVE FileTypeOK
  OBVIOUS
<1>1. queue \in Seq(EventKinds)
  BY DEF FileInit
<1>2. changes \in 0..MaxChanges
  BY BoundsAssumption DEF FileInit
<1> QED
  BY <1>1, <1>2 DEF FileInit, FileTypeOK

\* What others do keeps the type.
LEMMA FileOthersTyped ==
  ASSUME FileTypeOK, NEW mask, Others(mask) PROVE FileTypeOK'
<1> USE BoundsAssumption DEF FileTypeOK, Change
<1>1. /\ "OPEN" \in EventKinds /\ "CLOSE_WRITE" \in EventKinds
      /\ "MOVED_TO" \in EventKinds /\ "OTHER" \in EventKinds
  BY DEF EventKinds
<1>2. CASE OpenToWrite(mask)
  BY <1>1, <1>2, NotifiedTyped DEF OpenToWrite
<1>3. CASE Write
  BY <1>3 DEF Write
<1>4. CASE Close(mask)
  BY <1>1, <1>4, NotifiedTyped DEF Close
<1>5. CASE MoveTo(mask)
  BY <1>1, <1>5, NotifiedTyped DEF MoveTo
<1>6. CASE Unlink
  BY <1>6 DEF Unlink
<1>7. CASE Look(mask)
  <2>1. queue' \in Seq(EventKinds)
    BY <1>1, <1>7, NotifiedTyped, NotifiedOfReadingTyped DEF Look
  <2> QED
    BY <1>7, <2>1 DEF Look
<1> QED
  BY <1>2, <1>3, <1>4, <1>5, <1>6, <1>7 DEF Others

-----------------------------------------------------------------------------
(* Batches of events.                                                      *)

\* A read of n events takes them from the front of the queue.
LEMMA Split ==
  ASSUME NEW q \in Seq(EventKinds), NEW n \in 1..Len(q)
  PROVE  /\ SubSeq(q, 1, n) \in Seq(EventKinds) /\ Len(SubSeq(q, 1, n)) = n
         /\ SubSeq(q, n + 1, Len(q)) \in Seq(EventKinds)
         /\ Told(q) => Told(SubSeq(q, 1, n)) \/ Told(SubSeq(q, n + 1, Len(q)))
<1> DEFINE front == SubSeq(q, 1, n)
           rest == SubSeq(q, n + 1, Len(q))
<1>1. front \in Seq(EventKinds) /\ Len(front) = n /\ \A i \in 1..n : front[i] = q[i]
  BY SubSeqProperties
<1>2. /\ rest \in Seq(EventKinds) /\ Len(rest) = Len(q) - n
      /\ \A i \in 1..(Len(q) - n) : rest[i] = q[n + i]
  <2>1. CASE n = Len(q)
    BY <2>1, SubSeqEmpty
  <2>2. CASE n < Len(q)
    BY <2>2, SubSeqProperties
  <2> QED
    BY <2>1, <2>2
<1>3. ASSUME NEW i \in 1..Len(q), q[i] = "CLOSE_WRITE" PROVE Told(front) \/ Told(rest)
  <2>1. CASE i <= n
    BY <1>1, <1>3, <2>1 DEF Told
  <2>2. CASE i > n
    <3>1. i - n \in 1..(Len(q) - n) /\ n + (i - n) = i
      BY <2>2
    <3>2. rest[i - n] = "CLOSE_WRITE"
      BY <1>2, <1>3, <3>1
    <3> QED
      BY <1>2, <3>1, <3>2 DEF Told
  <2> QED
    BY <2>1, <2>2
<1> QED
  BY <1>1, <1>2, <1>3 DEF Told

LEMMA TailTold ==
  ASSUME NEW q \in Seq(EventKinds), q # <<>>
  PROVE  /\ Tail(q) \in Seq(EventKinds) /\ Len(Tail(q)) = Len(q) - 1
         /\ Told(q) => Head(q) = "CLOSE_WRITE" \/ Told(Tail(q))
         /\ Head(q) = "CLOSE_WRITE" => Told(q)
<1>1. /\ Tail(q) \in Seq(EventKinds) /\ Len(Tail(q)) = Len(q) - 1 /\ Head(q) = q[1]
      /\ Len(q) \in Nat \ {0} /\ \A i \in 1..(Len(q) - 1) : Tail(q)[i] = q[i + 1]
  OBVIOUS
<1>2. ASSUME NEW i \in 1..Len(q), q[i] = "CLOSE_WRITE", i # 1 PROVE Told(Tail(q))
  <2>1. i - 1 \in 1..(Len(q) - 1) /\ (i - 1) + 1 = i
    BY <1>1, <1>2
  <2> QED
    BY <1>1, <1>2, <2>1 DEF Told
<1> QED
  BY <1>1, <1>2 DEF Told

-----------------------------------------------------------------------------
(* The type of the state.                                                  *)

LEMMA InitTyped == Init => TypeOK
<1> SUFFICES ASSUME Init PROVE TypeOK
  OBVIOUS
<1>1. batch \in Seq(EventKinds) /\ Len(batch) <= BatchSize
  BY BatchAssumption DEF Init
<1> QED
  BY <1>1, FileInitTyped DEF Init, TypeOK

LEMMA MainTyped == TypeOK /\ Main => TypeOK'
<1>1. TypeOK /\ buildConfiguration => TypeOK'
  BY DEF buildConfiguration, TypeOK, FileTypeOK, TraceOf, fileVars
<1>2. TypeOK /\ buildInotify => TypeOK'
  BY DEF buildInotify, TypeOK, FileTypeOK
<1> QED
  BY <1>1, <1>2 DEF Main

LEMMA OthersTyped ==
  TypeOK /\ Others(Mask) /\ UNCHANGED <<main, listener, batch, handled, trace>> => TypeOK'
BY FileOthersTyped DEF TypeOK

LEMMA ListenerTyped == TypeOK /\ Listener => TypeOK'
<1> SUFFICES ASSUME TypeOK, Listener PROVE TypeOK'
  OBVIOUS
<1> USE BatchAssumption DEF TypeOK, FileTypeOK
<1>1. CASE Wake
  BY <1>1 DEF Wake, fileVars
<1>2. CASE ReadEvents
  <2>1. CASE queue = <<>>
    BY <1>2, <2>1 DEF ReadEvents
  <2>2. CASE queue # <<>>
    <3> DEFINE n == IF Len(queue) < BatchSize THEN Len(queue) ELSE BatchSize
    <3>1. n \in 1..Len(queue) /\ n <= BatchSize
      BY <2>2
    <3>2. /\ batch' = SubSeq(queue, 1, n) /\ queue' = SubSeq(queue, n + 1, Len(queue))
          /\ listener' = "event"
      BY <1>2, <2>2 DEF ReadEvents
    <3> HIDE DEF n
    <3>3. /\ batch' \in Seq(EventKinds) /\ Len(batch') = n /\ queue' \in Seq(EventKinds)
      BY <3>1, <3>2, Split
    <3> QED
      BY <1>2, <3>1, <3>2, <3>3 DEF ReadEvents
  <2> QED
    BY <2>1, <2>2
<1>3. CASE NextEvent
  <2>1. CASE batch = <<>>
    BY <1>3, <2>1 DEF NextEvent, fileVars
  <2>2. CASE batch # <<>> /\ Head(batch) = "CLOSE_WRITE"
    BY <1>3, <2>2 DEF NextEvent, fileVars
  <2>3. CASE batch # <<>> /\ Head(batch) # "CLOSE_WRITE"
    BY <1>3, <2>3, TailTold DEF NextEvent, fileVars
  <2> QED
    BY <2>1, <2>2, <2>3
<1>4. CASE Exists
  <2>1. CASE file = "absent"
    BY <1>4, <2>1 DEF Exists, Return, fileVars
  <2>2. CASE file # "absent"
    BY <1>4, <2>2 DEF Exists, fileVars
  <2> QED
    BY <2>1, <2>2
<1>5. CASE Size
  <2>1. CASE file = "absent"
    BY <1>5, <2>1 DEF Size, fileVars
  <2>2. CASE file = "large"
    BY <1>5, <2>2 DEF Size, Return, fileVars
  <2>3. CASE file \notin {"absent", "large"}
    BY <1>5, <2>3 DEF Size, fileVars
  <2> QED
    BY <2>1, <2>2, <2>3
<1>6. CASE ReadFile
  <2>1. queue' \in Seq(EventKinds)
    BY <1>6, NotifiedOfReadingTyped DEF ReadFile
  <2>2. CASE Readable(file)
    BY <1>6, <2>1, <2>2, TailTold DEF ReadFile, TraceOf
  <2>3. CASE ~ Readable(file)
    BY <1>6, <2>1, <2>3 DEF ReadFile, Return
  <2> QED
    BY <2>2, <2>3
<1> QED
  BY <1>1, <1>2, <1>3, <1>4, <1>5, <1>6 DEF Listener, handleConfigChange

LEMMA StepTyped == TypeOK /\ [Next]_vars => TypeOK'
<1>1. TypeOK /\ UNCHANGED vars => TypeOK'
  BY DEF TypeOK, FileTypeOK, vars, fileVars
<1> QED
  BY <1>1, MainTyped, ListenerTyped, OthersTyped DEF Next

-----------------------------------------------------------------------------
(* A trace that is not current.                                            *)

LEMMA OthersFollowed ==
  ASSUME InPlace, IInv, Others(Mask), UNCHANGED <<main, listener, batch, handled, trace>>
  PROVE  Following'
<1> USE DEF IInv, Following, WillBeRead, Current, Change
<1>1. /\ "OPEN" \in EventKinds /\ "CLOSE_WRITE" \in EventKinds /\ "CLOSE_WRITE" \in Mask
      /\ "OTHER" \in EventKinds /\ queue \in Seq(EventKinds)
  BY DEF EventKinds, Mask, TypeOK, FileTypeOK
<1>2. CASE OpenToWrite(Mask)
  <2>1. writer' # "nobody" /\ watching /\ UNCHANGED watching
    BY <1>2, ContentsAssumption DEF OpenToWrite, InPlace
  <2> QED
    BY <2>1
<1>3. CASE Write
  BY <1>3 DEF Write
<1>4. CASE Close(Mask)
  <2>1. watching /\ UNCHANGED watching
    BY <1>4 DEF Close
  <2>2. Told(queue')
    BY <1>1, <1>4, <2>1, NotifiedTyped DEF Close
  <2> QED
    BY <2>1, <2>2
<1>5. CASE MoveTo(Mask)
  BY <1>5 DEF MoveTo, InPlace
<1>6. CASE Unlink
  <2>1. watching /\ UNCHANGED watching /\ file' = "absent" /\ UNCHANGED writer
    BY <1>6 DEF Unlink, InPlace
  <2> QED
    BY <2>1 DEF Usable, Readable
<1>7. CASE Look(Mask)
  <2>1. Told(queue) => Told(queue')
    BY <1>1, <1>7, NotifiedTyped, NotifiedOfReadingTyped DEF Look
  <2>2. UNCHANGED <<file, writer, watching>>
    BY <1>7 DEF Look
  <2> QED
    BY <2>1, <2>2 DEF Told
<1> QED
  BY <1>2, <1>3, <1>4, <1>5, <1>6, <1>7 DEF Others

LEMMA MainFollowed == IInv /\ Main => Following'
BY DEF IInv, Following, WillBeRead, Current, Main, buildConfiguration, buildInotify, Usable,
       Readable, Complete, fileVars, Told

LEMMA ListenerFollowed == IInv /\ Listener => Following'
<1> SUFFICES ASSUME IInv, Listener PROVE Following'
  OBVIOUS
<1>1. UNCHANGED <<file, writer, watching, main>>
  BY DEF Listener, handleConfigChange, Wake, ReadEvents, NextEvent, Exists, Size, ReadFile, fileVars
<1>2. main = "listen"
  BY DEF IInv, Following, Listener, handleConfigChange, Wake, ReadEvents, NextEvent, Exists, Size,
         ReadFile
<1>3. WillBeRead'
  <2> USE <1>1, <1>2 DEF IInv, Following, WillBeRead, Current
  <2>1. CASE Wake
    BY <2>1 DEF Wake, fileVars, Told
  <2>2. CASE ReadEvents
    <3>1. CASE queue = <<>>
      BY <2>2, <3>1 DEF ReadEvents, Told
    <3>2. CASE queue # <<>>
      <4> DEFINE n == IF Len(queue) < BatchSize THEN Len(queue) ELSE BatchSize
      <4>1. queue \in Seq(EventKinds) /\ n \in 1..Len(queue)
        BY <3>2, BatchAssumption DEF TypeOK, FileTypeOK
      <4>2. /\ batch' = SubSeq(queue, 1, n) /\ queue' = SubSeq(queue, n + 1, Len(queue))
            /\ batch = <<>> /\ listener = "read" /\ UNCHANGED trace
        BY <2>2, <3>2 DEF ReadEvents, TypeOK
      <4> HIDE DEF n
      <4>3. Told(queue) => Told(batch') \/ Told(queue')
        BY <4>1, <4>2, Split
      <4>4. ~ Told(batch)
        BY <4>2 DEF Told
      <4> QED
        BY <4>2, <4>3, <4>4
    <3> QED
      BY <3>1, <3>2
  <2>3. CASE NextEvent
    <3>1. Told(batch) => Told(batch')
      BY <2>3, TailTold DEF NextEvent, TypeOK
    <3> QED
      BY <2>3, <3>1 DEF NextEvent, fileVars, Told
  <2>4. CASE Exists
    BY <2>4 DEF Exists, Return, fileVars, Usable, Readable, Told
  <2>5. CASE Size
    BY <2>5 DEF Size, Return, fileVars, Usable, Readable, Told
  <2>6. CASE ReadFile
    BY <2>6 DEF ReadFile, Usable
  <2> QED
    BY <2>1, <2>2, <2>3, <2>4, <2>5, <2>6 DEF Listener, handleConfigChange
<1> QED
  BY <1>1, <1>2, <1>3 DEF IInv, Following

-----------------------------------------------------------------------------
(* The work of the listener thread.                                        *)

LEMMA WritesTyped ==
  ASSUME NEW q \in Seq(EventKinds)
  PROVE  Writes(q) \in Nat
<1>1. IsFiniteSet(1..Len(q))
  BY FS_Interval
<1>2. {i \in 1..Len(q) : q[i] = "CLOSE_WRITE"} \in SUBSET (1..Len(q))
  OBVIOUS
<1>3. IsFiniteSet({i \in 1..Len(q) : q[i] = "CLOSE_WRITE"})
  BY <1>1, <1>2, FS_Subset
<1> QED
  BY <1>3, FS_CardinalityType DEF Writes

\* The places behind the first n elements, counted from there.
LEMMA WritesBehind ==
  ASSUME NEW q \in Seq(EventKinds), NEW n \in 0..Len(q)
  PROVE  /\ IsFiniteSet({i \in (n + 1)..Len(q) : q[i] = "CLOSE_WRITE"})
         /\ Cardinality({i \in (n + 1)..Len(q) : q[i] = "CLOSE_WRITE"})
              = Cardinality({i \in 1..(Len(q) - n) : q[n + i] = "CLOSE_WRITE"})
<1> DEFINE S == {i \in 1..(Len(q) - n) : q[n + i] = "CLOSE_WRITE"}
           T == {i \in (n + 1)..Len(q) : q[i] = "CLOSE_WRITE"}
           f == [i \in S |-> n + i]
<1>1. f \in [S -> T]
  OBVIOUS
<1>2. \A i, j \in S : f[i] = f[j] => i = j
  OBVIOUS
<1>3. ASSUME NEW k \in T PROVE \E i \in S : f[i] = k
  <2>1. k - n \in S /\ n + (k - n) = k
    OBVIOUS
  <2> QED
    BY <2>1
<1>4. IsFiniteSet(S)
  <2>1. S \in SUBSET (1..(Len(q) - n))
    OBVIOUS
  <2>2. IsFiniteSet(1..(Len(q) - n))
    BY FS_Interval
  <2> HIDE DEF S
  <2> QED
    BY <2>1, <2>2, FS_Subset
<1> HIDE DEF f
<1>5. f \in Bijection(S, T)
  BY <1>1, <1>2, <1>3, Fun_IsBij, Zenon
<1>6. ExistsBijection(S, T)
  BY <1>5, Zenon DEF ExistsBijection
<1> QED
  BY <1>4, <1>6, FS_Bijection

LEMMA WritesSplit ==
  ASSUME NEW q \in Seq(EventKinds), NEW n \in 1..Len(q)
  PROVE  Writes(q) = Writes(SubSeq(q, 1, n)) + Writes(SubSeq(q, n + 1, Len(q)))
<1> DEFINE front == SubSeq(q, 1, n)
           rest == SubSeq(q, n + 1, Len(q))
           A == {i \in 1..n : q[i] = "CLOSE_WRITE"}
           B == {i \in (n + 1)..Len(q) : q[i] = "CLOSE_WRITE"}
<1>1. Len(front) = n /\ \A i \in 1..n : front[i] = q[i]
  BY SubSeqProperties
<1>2. /\ Len(rest) = Len(q) - n
      /\ \A i \in 1..(Len(q) - n) : rest[i] = q[n + i]
  <2>1. CASE n = Len(q)
    BY <2>1, SubSeqEmpty
  <2>2. CASE n < Len(q)
    BY <2>2, SubSeqProperties
  <2> QED
    BY <2>1, <2>2
<1>3. Writes(front) = Cardinality(A)
  <2>1. {i \in 1..Len(front) : front[i] = "CLOSE_WRITE"} = A
    BY <1>1
  <2> QED
    BY <2>1, Zenon DEF Writes
<1>4. IsFiniteSet(B) /\ Writes(rest) = Cardinality(B)
  <2>1. {i \in 1..Len(rest) : rest[i] = "CLOSE_WRITE"}
          = {i \in 1..(Len(q) - n) : q[n + i] = "CLOSE_WRITE"}
    BY <1>2
  <2>2. IsFiniteSet(B) /\ Cardinality(B) = Cardinality({i \in 1..(Len(q) - n) : q[n + i] = "CLOSE_WRITE"})
    <3>1. n \in 0..Len(q)
      OBVIOUS
    <3> QED
      BY <3>1, WritesBehind
  <2> QED
    BY <2>1, <2>2, Zenon DEF Writes
<1>5. IsFiniteSet(A)
  <2>1. A \in SUBSET (1..n) /\ IsFiniteSet(1..n)
    BY FS_Interval
  <2> QED
    BY <2>1, FS_Subset
<1>6. {i \in 1..Len(q) : q[i] = "CLOSE_WRITE"} = A \cup B /\ A \cap B = {}
  OBVIOUS
<1>7. Writes(q) = Cardinality(A \cup B)
  BY <1>6, Zenon DEF Writes
<1> HIDE DEF A, B
<1>8. Cardinality(A \cup B) = Cardinality(A) + Cardinality(B) - 0
  BY <1>4, <1>5, <1>6, FS_Union, FS_EmptySet
<1>9. Cardinality(A) \in Nat /\ Cardinality(B) \in Nat
  BY <1>4, <1>5, FS_CardinalityType
<1> QED
  BY <1>3, <1>4, <1>7, <1>8, <1>9

\* An event of reading the file adds an event, and no close after writing.
LEMMA WorkOfNotified ==
  ASSUME NEW q \in Seq(EventKinds), NEW e \in EventKinds \ {"CLOSE_WRITE"}, NEW mask
  PROVE  /\ Notified(q, e, mask) \in Seq(EventKinds)
         /\ Len(Notified(q, e, mask)) <= Len(q) + 1
         /\ Writes(Notified(q, e, mask)) = Writes(q)
<1>1. CASE watching /\ e \in mask /\ (q = <<>> \/ Last(q) # e)
  <2> DEFINE r == Append(q, e)
  <2>1. Notified(q, e, mask) = r
    BY <1>1 DEF Notified
  <2>2. /\ r \in Seq(EventKinds) /\ Len(r) = Len(q) + 1 /\ Len(q) \in Nat
        /\ r[Len(q) + 1] = e /\ \A i \in 1..Len(q) : r[i] = q[i]
    BY AppendProperties
  <2> HIDE DEF r
  <2>3. {i \in 1..Len(r) : r[i] = "CLOSE_WRITE"} = {i \in 1..Len(q) : q[i] = "CLOSE_WRITE"}
    BY <2>2
  <2>4. Writes(r) = Writes(q)
    BY <2>3, Zenon DEF Writes
  <2> QED
    BY <2>1, <2>2, <2>4
<1>2. CASE ~ (watching /\ e \in mask /\ (q = <<>> \/ Last(q) # e))
  <2>1. Notified(q, e, mask) = q
    BY <1>2, Zenon DEF Notified
  <2> QED
    BY <2>1
<1> QED
  BY <1>1, <1>2

LEMMA WorkOfReading ==
  ASSUME NEW q \in Seq(EventKinds), NEW mask
  PROVE  /\ NotifiedOfReading(q, mask) \in Seq(EventKinds)
         /\ Len(NotifiedOfReading(q, mask)) <= Len(q) + 2
         /\ Writes(NotifiedOfReading(q, mask)) = Writes(q)
<1> DEFINE opened == Notified(q, "OPEN", mask)
<1>1. /\ "OPEN" \in EventKinds \ {"CLOSE_WRITE"}
      /\ "CLOSE_NOWRITE" \in EventKinds \ {"CLOSE_WRITE"}
  BY DEF EventKinds
<1>2. opened \in Seq(EventKinds) /\ Len(opened) <= Len(q) + 1 /\ Writes(opened) = Writes(q)
  BY <1>1, WorkOfNotified
<1>3. NotifiedOfReading(q, mask) = Notified(opened, "CLOSE_NOWRITE", mask)
  BY DEF NotifiedOfReading
<1> HIDE DEF opened
<1>4. /\ Notified(opened, "CLOSE_NOWRITE", mask) \in Seq(EventKinds)
      /\ Len(Notified(opened, "CLOSE_NOWRITE", mask)) <= Len(opened) + 1
      /\ Writes(Notified(opened, "CLOSE_NOWRITE", mask)) = Writes(opened)
  BY <1>1, <1>2, WorkOfNotified
<1> QED
  BY <1>2, <1>3, <1>4

\* The first event of a batch is handled, or the whole batch is left.
LEMMA WorkOfHead ==
  ASSUME NEW q \in Seq(EventKinds), q # <<>>
  PROVE  /\ Tail(q) \in Seq(EventKinds) /\ Len(q) \in Nat /\ Len(Tail(q)) = Len(q) - 1
         /\ Writes(Tail(q)) = Writes(q) - (IF Head(q) = "CLOSE_WRITE" THEN 1 ELSE 0)
<1>1. /\ Tail(q) \in Seq(EventKinds) /\ Len(Tail(q)) = Len(q) - 1 /\ Head(q) = q[1]
      /\ Len(q) \in Nat \ {0} /\ \A i \in 1..(Len(q) - 1) : Tail(q)[i] = q[1 + i]
  OBVIOUS
<1> DEFINE S == {i \in 1..Len(q) : q[i] = "CLOSE_WRITE"}
           T == {i \in 2..Len(q) : q[i] = "CLOSE_WRITE"}
<1>2. IsFiniteSet(T) /\ Writes(Tail(q)) = Cardinality(T)
  <2>1. {i \in 1..Len(Tail(q)) : Tail(q)[i] = "CLOSE_WRITE"}
          = {i \in 1..(Len(q) - 1) : q[1 + i] = "CLOSE_WRITE"}
    BY <1>1
  <2>2. 1 \in 0..Len(q) /\ 1 + 1 = 2
    BY <1>1
  <2>3. IsFiniteSet(T) /\ Cardinality(T) = Cardinality({i \in 1..(Len(q) - 1) : q[1 + i] = "CLOSE_WRITE"})
    BY <2>2, WritesBehind
  <2> QED
    BY <2>1, <2>3, Zenon DEF Writes
<1>3. Writes(q) = Cardinality(S)
  BY Zenon DEF Writes
<1>4. Cardinality(T) \in Nat
  BY <1>2, FS_CardinalityType
<1>5. CASE Head(q) = "CLOSE_WRITE"
  <2>1. S = T \cup {1} /\ 1 \notin T
    BY <1>1, <1>5
  <2> HIDE DEF S, T
  <2>2. Cardinality(S) = Cardinality(T) + 1
    BY <1>2, <2>1, FS_AddElement
  <2> QED
    BY <1>1, <1>2, <1>3, <1>4, <1>5, <2>2
<1>6. CASE Head(q) # "CLOSE_WRITE"
  <2>1. S = T
    BY <1>1, <1>6
  <2> HIDE DEF S, T
  <2> QED
    BY <1>1, <1>2, <1>3, <1>4, <1>6, <2>1
<1> QED
  BY <1>5, <1>6

LEMMA WorkOfNothing == Writes(<<>>) = 0
<1>1. {i \in 1..Len(<<>>) : <<>>[i] = "CLOSE_WRITE"} = {}
  OBVIOUS
<1> QED
  BY <1>1, FS_EmptySet, Zenon DEF Writes

\* The handler returns in the middle of a batch.
LEMMA ReturnWorks ==
  ASSUME TypeOK, batch # <<>>, Head(batch) = "CLOSE_WRITE", Return,
         listener \in {"exists", "size", "open"},
         queue' \in Seq(EventKinds), Writes(queue') = Writes(queue),
         Len(queue') <= Len(queue) + 2
  PROVE  Work' < Work
<1>1. batch \in Seq(EventKinds) /\ queue \in Seq(EventKinds)
  BY DEF TypeOK, FileTypeOK
<1>2. listener' = "wait" /\ batch' = <<>>
  BY DEF Return
<1>3. /\ Writes(queue) \in Nat /\ Writes(Tail(batch)) \in Nat /\ Len(queue) \in Nat
      /\ Len(queue') \in Nat
      /\ Len(batch) \in Nat \ {0} /\ Writes(batch) = Writes(Tail(batch)) + 1
  <2>1. /\ Tail(batch) \in Seq(EventKinds) /\ Len(batch) \in Nat \ {0}
        /\ Writes(Tail(batch)) = Writes(batch) - 1
    BY <1>1, WorkOfHead
  <2>2. Writes(queue) \in Nat /\ Writes(Tail(batch)) \in Nat /\ Writes(batch) \in Nat
    BY <1>1, <2>1, WritesTyped
  <2> QED
    BY <1>1, <2>1, <2>2
<1>4. Work = 4 * Len(queue) + Len(batch) + 11 * (Writes(queue) + Writes(batch)) + Place
  BY DEF Work
<1>5. Work' = 4 * Len(queue') + Len(batch') + 11 * (Writes(queue') + Writes(batch')) + Place'
  BY DEF Work, Writes
<1>6. Len(batch') = 0 /\ Writes(batch') = 0
  BY <1>2, WorkOfNothing
<1>7. Place' \in 0..2
  BY <1>2 DEF Place
<1>8. Place \in 0..2
  BY DEF Place
<1>9. \A q, r, b, w, t, now, then \in Nat :
        (r <= q + 2 /\ b > 0 /\ then <= 2)
          => 4 * r + 0 + 11 * (w + 0) + then < 4 * q + b + 11 * (w + (t + 1)) + now
  OBVIOUS
<1> HIDE DEF Place, Work
<1>10. /\ Place \in Nat /\ Place' \in Nat /\ Place' <= 2 /\ Len(batch) \in Nat /\ Len(batch) > 0
       /\ Len(queue') <= Len(queue) + 2
  BY <1>3, <1>7, <1>8
<1>11. 4 * Len(queue') + 0 + 11 * (Writes(queue) + 0) + Place'
         < 4 * Len(queue) + Len(batch) + 11 * (Writes(queue) + (Writes(Tail(batch)) + 1)) + Place
  BY <1>3, <1>9, <1>10, Zenon
<1>12. Work' = 4 * Len(queue') + 0 + 11 * (Writes(queue) + 0) + Place'
  BY <1>5, <1>6, Zenon
<1>13. Work = 4 * Len(queue) + Len(batch) + 11 * (Writes(queue) + (Writes(Tail(batch)) + 1)) + Place
  BY <1>3, <1>4, Zenon
<1> QED
  BY <1>11, <1>12, <1>13, Zenon

LEMMA ListenerWorks ==
  ASSUME TypeOK, Listener
  PROVE  Work' < Work
<1>1. queue \in Seq(EventKinds) /\ batch \in Seq(EventKinds)
  BY DEF TypeOK, FileTypeOK
<1>2. /\ Len(queue) \in Nat /\ Len(batch) \in Nat
      /\ Writes(queue) \in Nat /\ Writes(batch) \in Nat
  BY <1>1, WritesTyped
<1> DEFINE Events == 4 * Len(queue) + Len(batch) + 11 * (Writes(queue) + Writes(batch))
<1>3. Events \in Nat
  BY <1>2
<1>4. Work = Events + Place
  BY DEF Work
<1>5. Work' = 4 * Len(queue') + Len(batch') + 11 * (Writes(queue') + Writes(batch')) + Place'
  BY DEF Work, Writes
<1>6. (queue' = queue /\ batch' = batch) => Work' = Events + Place'
  BY <1>5, Zenon
<1> HIDE DEF Work
<1>7. CASE Wake
  <2>1. queue' = queue /\ batch' = batch /\ Place = 2 /\ Place' = 1
    BY <1>7 DEF Wake, fileVars, Place
  <2> HIDE DEF Events, Place
  <2> QED
    BY <1>3, <1>4, <1>6, <2>1
<1>8. CASE ReadEvents
  <2>1. CASE queue = <<>>
    <3>1. queue' = queue /\ batch' = batch /\ Place = 1 /\ Place' = 0
      BY <1>8, <2>1 DEF ReadEvents, Place
    <3> HIDE DEF Events, Place
    <3> QED
      BY <1>3, <1>4, <1>6, <3>1
  <2>2. CASE queue # <<>>
    <3> DEFINE n == IF Len(queue) < BatchSize THEN Len(queue) ELSE BatchSize
    <3>1. n \in 1..Len(queue)
      BY <1>1, <2>2, BatchAssumption
    <3>2. batch' = SubSeq(queue, 1, n) /\ queue' = SubSeq(queue, n + 1, Len(queue))
      BY <1>8, <2>2 DEF ReadEvents
    <3>3. Place = 1 /\ Place' = 3
      BY <1>8, <2>2 DEF ReadEvents, Place
    <3>4. Len(batch) = 0 /\ Writes(batch) = 0
      BY <1>8, WorkOfNothing DEF ReadEvents, TypeOK
    <3> HIDE DEF n
    <3>5. /\ batch' \in Seq(EventKinds) /\ Len(batch') = n
          /\ queue' \in Seq(EventKinds) /\ Len(queue') = Len(queue) - n
      <4>1. SubSeq(queue, 1, n) \in Seq(EventKinds) /\ Len(SubSeq(queue, 1, n)) = n
        BY <1>1, <3>1, Split
      <4>2. SubSeq(queue, n + 1, Len(queue)) \in Seq(EventKinds)
        BY <1>1, <3>1, Split
      <4>3. Len(SubSeq(queue, n + 1, Len(queue))) = Len(queue) - n
        BY <1>1, <1>2, <3>1
      <4> QED
        BY <3>2, <4>1, <4>2, <4>3, Zenon
    <3>6. Writes(queue) = Writes(batch') + Writes(queue')
      BY <1>1, <3>1, <3>2, WritesSplit
    <3>7. Writes(batch') \in Nat /\ Writes(queue') \in Nat
      BY <3>5, WritesTyped
    <3>8. \A q, w, v \in Nat : \A k \in 1..q :
            4 * (q - k) + k + 11 * (w + v) + 3 < 4 * q + 0 + 11 * ((v + w) + 0) + 1
      OBVIOUS
    <3>9. Work' = 4 * (Len(queue) - n) + n + 11 * (Writes(queue') + Writes(batch')) + 3
      BY <1>5, <3>3, <3>5, Zenon
    <3>10. Work = 4 * Len(queue) + 0 + 11 * ((Writes(batch') + Writes(queue')) + 0) + 1
      BY <1>4, <3>3, <3>4, <3>6, Zenon
    <3> QED
      BY <1>2, <3>1, <3>7, <3>8, <3>9, <3>10, Zenon
  <2> QED
    BY <2>1, <2>2
<1>9. CASE NextEvent
  <2>1. CASE batch = <<>> \/ Head(batch) = "CLOSE_WRITE"
    <3>1. queue' = queue /\ batch' = batch /\ Place = 3 /\ Place' \in 0..2
      BY <1>9, <2>1 DEF NextEvent, fileVars, Place
    <3>2. Place \in Nat /\ Place' \in Nat /\ Place' < Place
      BY <3>1
    <3>3. \A e, p, q \in Nat : q < p => e + q < e + p
      OBVIOUS
    <3> HIDE DEF Events, Place
    <3> QED
      BY <1>3, <1>4, <1>6, <3>1, <3>2, <3>3, Zenon
  <2>2. CASE batch # <<>> /\ Head(batch) # "CLOSE_WRITE"
    <3>1. queue' = queue /\ batch' = Tail(batch) /\ Place' = 3 /\ Place = 3
      BY <1>9, <2>2 DEF NextEvent, fileVars, Place
    <3>2. Len(Tail(batch)) = Len(batch) - 1 /\ Writes(Tail(batch)) = Writes(batch)
      BY <1>1, <1>2, <2>2, WorkOfHead
    <3>3. Work' = 4 * Len(queue) + (Len(batch) - 1) + 11 * (Writes(queue) + Writes(batch)) + 3
      BY <1>5, <3>1, <3>2, Zenon
    <3>4. Work = 4 * Len(queue) + Len(batch) + 11 * (Writes(queue) + Writes(batch)) + 3
      BY <1>4, <3>1, Zenon
    <3>5. \A q, b, w, v \in Nat :
            4 * q + (b - 1) + 11 * (w + v) + 3 < 4 * q + b + 11 * (w + v) + 3
      OBVIOUS
    <3> QED
      BY <1>2, <3>3, <3>4, <3>5, Zenon
  <2> QED
    BY <2>1, <2>2
<1>10. CASE Exists
  <2>1. batch # <<>> /\ Head(batch) = "CLOSE_WRITE" /\ listener = "exists" /\ queue' = queue
    BY <1>10 DEF Exists, TypeOK, fileVars
  <2>2. CASE file = "absent"
    <3>1. Return
      BY <1>10, <2>2 DEF Exists
    <3> QED
      BY <1>1, <1>2, <2>1, <3>1, ReturnWorks
  <2>3. CASE file # "absent"
    <3>1. queue' = queue /\ batch' = batch /\ Place = 2 /\ Place' = 1
      BY <1>10, <2>3 DEF Exists, Place, fileVars
    <3> HIDE DEF Events, Place
    <3> QED
      BY <1>3, <1>4, <1>6, <3>1
  <2> QED
    BY <2>2, <2>3
<1>11. CASE Size
  <2>1. batch # <<>> /\ Head(batch) = "CLOSE_WRITE" /\ listener = "size" /\ queue' = queue
    BY <1>11 DEF Size, TypeOK, fileVars
  <2>2. CASE file = "large"
    <3>1. Return
      BY <1>11, <2>2 DEF Size
    <3> QED
      BY <1>1, <1>2, <2>1, <3>1, ReturnWorks
  <2>3. CASE file # "large"
    <3>1. queue' = queue /\ batch' = batch /\ Place = 1 /\ Place' = 0
      BY <1>11, <2>3 DEF Size, Place, fileVars
    <3> HIDE DEF Events, Place
    <3> QED
      BY <1>3, <1>4, <1>6, <3>1
  <2> QED
    BY <2>2, <2>3
<1>12. CASE ReadFile
  <2>1. batch # <<>> /\ Head(batch) = "CLOSE_WRITE" /\ listener = "open"
    BY <1>12 DEF ReadFile, TypeOK
  <2>2. /\ queue' \in Seq(EventKinds) /\ Len(queue') <= Len(queue) + 2
        /\ Writes(queue') = Writes(queue)
    <3>1. queue' = queue \/ queue' = NotifiedOfReading(queue, Mask)
      BY <1>12 DEF ReadFile
    <3> QED
      BY <1>1, <1>2, <3>1, WorkOfReading
  <2>3. CASE Readable(file)
    <3>1. batch' = Tail(batch) /\ Place' = 3 /\ Place = 0
      BY <1>12, <2>1, <2>3 DEF ReadFile, Place
    <3>2. Len(Tail(batch)) = Len(batch) - 1 /\ Writes(Tail(batch)) = Writes(batch) - 1
      BY <1>1, <2>1, WorkOfHead
    <3>3. Work' = 4 * Len(queue') + (Len(batch) - 1) + 11 * (Writes(queue) + (Writes(batch) - 1)) + 3
      BY <1>5, <2>2, <3>1, <3>2, Zenon
    <3>4. Work = 4 * Len(queue) + Len(batch) + 11 * (Writes(queue) + Writes(batch)) + 0
      BY <1>4, <3>1, Zenon
    <3>5. \A q, r, b, w, v \in Nat :
            r <= q + 2 => 4 * r + (b - 1) + 11 * (w + (v - 1)) + 3 < 4 * q + b + 11 * (w + v) + 0
      OBVIOUS
    <3>6. Len(queue') \in Nat
      BY <2>2
    <3> QED
      BY <1>2, <2>2, <3>3, <3>4, <3>5, <3>6, Zenon
  <2>4. CASE ~ Readable(file)
    <3>1. Return
      BY <1>12, <2>4 DEF ReadFile
    <3> QED
      BY <2>1, <2>2, <3>1, ReturnWorks
  <2> QED
    BY <2>3, <2>4
<1> QED
  BY <1>7, <1>8, <1>9, <1>10, <1>11, <1>12 DEF Listener, handleConfigChange

-----------------------------------------------------------------------------

\* Batches have the size of a read and are only there while they are handled
\* (TypeOK).
THEOREM WatchTypeCorrect == Spec => []TypeOK
<1> QED
  BY InitTyped, StepTyped, PTL DEF Spec

\* If the file is written in place, and not before it is watched, trace is what
\* the file says whenever the listener thread waits for events
\* (handleConfigChange).
THEOREM TraceIsSettled == InPlace => (Spec => []TraceSettled)
<1> SUFFICES ASSUME InPlace PROVE Spec => []TraceSettled
  OBVIOUS
<1>1. Init => IInv
  BY InitTyped DEF IInv, Following, Init, FileInit
<1>2. IInv /\ [Next]_vars => IInv'
  <2>1. IInv /\ UNCHANGED vars => Following'
    BY DEF IInv, Following, WillBeRead, Current, Told, vars, fileVars
  <2> QED
    BY <2>1, StepTyped, MainFollowed, ListenerFollowed, OthersFollowed DEF IInv, Next
<1>3. IInv => TraceSettled
  BY DEF IInv, Following, WillBeRead, Current, Told, TraceSettled, TypeOK
<1> QED
  BY <1>1, <1>2, <1>3, PTL DEF Spec

\* Every step of the listener thread leaves it less to do, for batches of any size and
\* any number of changes, although handleConfigChange opens and closes the file in
\* the directory that is watched: only others can keep it busy.
THEOREM HandlingIsBounded == Spec => HandlingEnds
<1>1. TypeOK /\ [Next]_vars => (Listener => Work' < Work)
  BY ListenerWorks
<1>2. TypeOK /\ [Next]_vars => [Listener => Work' < Work]_vars
  BY <1>1
<1> QED
  BY <1>2, InitTyped, StepTyped, PTL DEF Spec, HandlingEnds
=============================================================================
