-------------------------- MODULE EventLoopProofs ---------------------------
(***************************************************************************)
(* Proofs about EventLoop, for any number of E2 nodes and any sizes of     *)
(* batches, receive buffers and queues: nothing waits behind a descriptor  *)
(* that epoll will not announce again.                                     *)
(***************************************************************************)
EXTENDS EventLoopProperties, SequenceTheorems, FiniteSetTheorems, TLAPS

Items == {"pdu", "garbage", "eof"}
Events == Nodes \cup {"rmr", "listen"}

NoDuplicates(s) == \A i, j \in 1..Len(s) : s[i] = s[j] => i = j

Types ==
  /\ phase \in [Nodes -> {"away", "waiting", "open", "closed"}]
  /\ inbox \in [Nodes -> Seq(Items)]
  /\ backlog \in Seq(Nodes)
  /\ pending \in 0..MaxPending
  /\ ready \in Seq(Events) /\ batch \in Seq(Events)
  /\ cur \in Nodes \cup {Null}

\* A descriptor is in the ready list and in a batch at most once.
Once == NoDuplicates(ready) /\ NoDuplicates(batch) /\ NoDuplicates(backlog)

\* The accept queue; only accepted associations have events or are read, and
\* what is read is not in the batch any more.
Phases ==
  /\ \A n \in Nodes : Contains(backlog, n) <=> phase[n] = "waiting"
  /\ \A n \in Nodes : Announced(n) \/ cur = n => phase[n] = "open"
  /\ \A n \in Nodes : cur = n => ~ Contains(batch, n)

\* Every event of the RMR descriptor has a message of its own.
RmrBacked ==
  /\ Announced("rmr") => pending >= 1
  /\ Contains(ready, "rmr") /\ Contains(batch, "rmr") => pending >= 2

Base == Types /\ Once /\ Phases /\ RmrBacked

\* With well-formed PDUs only a read loop ends when nothing is left to read;
\* with one connection at a time and no failure one accept per event suffices.
DataInv ==
  "garbage" \notin Env =>
    NoMissedData /\ \A n \in Nodes : inbox[n] \in Seq({"pdu", "eof"})
ConnectionInv ==
  {"bursts", "acceptErrors"} \cap Env = {} =>
    NoMissedConnection /\ Len(backlog) <= 1

IInv == Base /\ NoMissedRmr /\ DataInv /\ ConnectionInv

-----------------------------------------------------------------------------
(* Sequences of events.                                                    *)

LEMMA ArmFacts ==
  ASSUME ready \in Seq(Events), NoDuplicates(ready), NEW e \in Events
  PROVE  /\ Arm(e) \in Seq(Events) /\ NoDuplicates(Arm(e))
         /\ \A x : Contains(Arm(e), x) <=> Contains(ready, x) \/ x = e
BY DEF Arm, Contains, NoDuplicates

LEMMA AppendFacts ==
  ASSUME NEW S, NEW s \in Seq(S), NEW e \in S
  PROVE  /\ Append(s, e) \in Seq(S) /\ Append(s, e) # <<>>
         /\ NoDuplicates(s) /\ ~ Contains(s, e) => NoDuplicates(Append(s, e))
         /\ \A x : Contains(Append(s, e), x) <=> Contains(s, x) \/ x = e
BY DEF Contains, NoDuplicates

LEMMA TailFacts ==
  ASSUME NEW S, NEW s \in Seq(S), s # <<>>
  PROVE  /\ Tail(s) \in Seq(S) /\ Head(s) \in S /\ Contains(s, Head(s))
         /\ \A x : Contains(s, x) <=> Contains(Tail(s), x) \/ x = Head(s)
         /\ NoDuplicates(s) => NoDuplicates(Tail(s)) /\ ~ Contains(Tail(s), Head(s))
<1>1. /\ Len(s) \in Nat /\ Len(s) > 0 /\ Head(s) = s[1] /\ Tail(s) \in Seq(S)
      /\ Len(Tail(s)) = Len(s) - 1
      /\ \A i \in 1..Len(Tail(s)) : i + 1 \in 1..Len(s) /\ Tail(s)[i] = s[i + 1]
  OBVIOUS
<1>2. ASSUME NEW x PROVE Contains(s, x) <=> Contains(Tail(s), x) \/ x = Head(s)
  <2>1. ASSUME Contains(s, x) PROVE Contains(Tail(s), x) \/ x = Head(s)
    <3>1. PICK i \in 1..Len(s) : s[i] = x
      BY <2>1 DEF Contains
    <3>2. CASE i = 1
      BY <1>1, <3>1, <3>2
    <3>3. CASE i # 1
      <4>1. i - 1 \in 1..Len(Tail(s)) /\ Tail(s)[i - 1] = x
        BY <1>1, <3>1, <3>3
      <4> QED
        BY <4>1 DEF Contains
    <3> QED
      BY <3>2, <3>3
  <2>2. ASSUME Contains(Tail(s), x) \/ x = Head(s) PROVE Contains(s, x)
    BY <1>1, <2>2 DEF Contains
  <2> QED
    BY <2>1, <2>2
<1>3. NoDuplicates(s) => NoDuplicates(Tail(s)) /\ ~ Contains(Tail(s), Head(s))
  BY <1>1 DEF NoDuplicates, Contains
<1> QED
  BY <1>1, <1>2, <1>3 DEF Contains

\* What epoll_wait takes and what it leaves.
LEMMA SplitFacts ==
  ASSUME NEW S, NEW s \in Seq(S), NoDuplicates(s), NEW n \in 0..Len(s)
  PROVE  LET front == SubSeq(s, 1, n)
             rest == SubSeq(s, n + 1, Len(s))
         IN  /\ front \in Seq(S) /\ rest \in Seq(S)
             /\ NoDuplicates(front) /\ NoDuplicates(rest)
             /\ \A x : Contains(s, x) <=> Contains(front, x) \/ Contains(rest, x)
             /\ \A x : ~ (Contains(front, x) /\ Contains(rest, x))
<1> DEFINE front == SubSeq(s, 1, n)
           rest == SubSeq(s, n + 1, Len(s))
<1>1. /\ front \in Seq(S) /\ Len(front) = n
      /\ \A i \in 1..n : front[i] = s[i] /\ i \in 1..Len(s)
  OBVIOUS
<1>2. /\ rest \in Seq(S) /\ Len(rest) = Len(s) - n
      /\ \A i \in 1..(Len(s) - n) : rest[i] = s[i + n] /\ i + n \in 1..Len(s)
  OBVIOUS
<1> HIDE DEF front, rest
<1>3. NoDuplicates(front) /\ NoDuplicates(rest)
  <2>1. NoDuplicates(front)
    BY <1>1 DEF NoDuplicates
  <2>2. ASSUME NEW i \in 1..(Len(s) - n), NEW j \in 1..(Len(s) - n), rest[i] = rest[j]
        PROVE  i = j
    <3>1. s[i + n] = s[j + n] /\ i + n \in 1..Len(s) /\ j + n \in 1..Len(s)
      BY <1>2, <2>2
    <3>2. i + n = j + n
      BY <3>1 DEF NoDuplicates
    <3> QED
      BY <3>2
  <2>3. NoDuplicates(rest)
    BY <1>2, <2>2 DEF NoDuplicates
  <2> QED
    BY <2>1, <2>3
<1>4. ASSUME NEW x PROVE Contains(s, x) <=> Contains(front, x) \/ Contains(rest, x)
  <2>1. ASSUME Contains(s, x) PROVE Contains(front, x) \/ Contains(rest, x)
    <3>1. PICK i \in 1..Len(s) : s[i] = x
      BY <2>1 DEF Contains
    <3>2. CASE i <= n
      BY <1>1, <3>1, <3>2 DEF Contains
    <3>3. CASE i > n
      <4>1. i - n \in 1..Len(rest) /\ rest[i - n] = x
        BY <1>2, <3>1, <3>3
      <4> QED
        BY <4>1 DEF Contains
    <3> QED
      BY <3>2, <3>3
  <2>2. ASSUME Contains(front, x) \/ Contains(rest, x) PROVE Contains(s, x)
    BY <1>1, <1>2, <2>2 DEF Contains
  <2> QED
    BY <2>1, <2>2
<1>5. ASSUME NEW x, Contains(front, x), Contains(rest, x) PROVE FALSE
  <2>1. PICK i \in 1..n : s[i] = x
    BY <1>1, <1>5 DEF Contains
  <2>2. PICK j \in 1..(Len(s) - n) : s[j + n] = x
    BY <1>2, <1>5 DEF Contains
  <2> QED
    BY <1>1, <1>2, <2>1, <2>2 DEF NoDuplicates
<1> QED
  BY <1>1, <1>2, <1>3, <1>4, <1>5 DEF front, rest

\* A descriptor is closed.
LEMMA Removed ==
  ASSUME NEW S, NEW s \in Seq(S), NEW k \in 1..Len(s)
  PROVE  LET r == RemoveAt(s, k)
         IN  /\ r \in Seq(S) /\ Len(r) = Len(s) - 1
             /\ \A i \in 1..Len(r) : r[i] = IF i < k THEN s[i] ELSE s[i + 1]
<1> DEFINE r == RemoveAt(s, k)
           a == SubSeq(s, 1, k - 1)
           b == SubSeq(s, k + 1, Len(s))
<1>1. /\ a \in Seq(S) /\ Len(a) = k - 1
      /\ \A i \in 1..(k - 1) : a[i] = s[i]
  OBVIOUS
<1>2. /\ b \in Seq(S) /\ Len(b) = Len(s) - k
      /\ \A i \in 1..(Len(s) - k) : b[i] = s[i + k]
  OBVIOUS
<1>3. r = a \o b
  BY DEF RemoveAt
<1> HIDE DEF a, b, r
<1>4. /\ r \in Seq(S) /\ Len(r) = Len(a) + Len(b)
      /\ \A i \in 1 .. Len(a) + Len(b) :
           r[i] = IF i <= Len(a) THEN a[i] ELSE b[i - Len(a)]
  BY <1>1, <1>2, <1>3, ConcatProperties, Zenon
<1>5. ASSUME NEW i \in 1..(Len(s) - 1)
      PROVE  r[i] = IF i < k THEN s[i] ELSE s[i + 1]
  <2>1. i \in 1 .. Len(a) + Len(b)
    BY <1>1, <1>2
  <2>2. r[i] = IF i <= Len(a) THEN a[i] ELSE b[i - Len(a)]
    BY <1>4, <2>1, Zenon
  <2>3. CASE i < k
    <3>1. i <= Len(a) /\ i \in 1..(k - 1)
      BY <1>1, <2>3
    <3>2. a[i] = s[i]
      BY <1>1, <3>1, Zenon
    <3> QED
      BY <2>2, <2>3, <3>1, <3>2, Zenon
  <2>4. CASE ~ (i < k)
    <3>1. i - (k - 1) \in 1..(Len(s) - k) /\ i - (k - 1) + k = i + 1 /\ ~ (i <= k - 1)
      BY <2>4
    <3>2. b[i - (k - 1)] = s[i - (k - 1) + k]
      BY <1>2, <3>1, Zenon
    <3>3. r[i] = b[i - (k - 1)]
      BY <1>1, <2>2, <3>1, Zenon
    <3> QED
      BY <2>4, <3>1, <3>2, <3>3, Zenon
  <2> QED
    BY <2>3, <2>4, Zenon
<1>6. Len(r) = Len(s) - 1
  <2>1. Len(r) = Len(a) + Len(b) /\ Len(a) = k - 1 /\ Len(b) = Len(s) - k
    BY <1>1, <1>2, <1>4, Zenon
  <2>2. Len(s) \in Nat /\ k \in Nat
    OBVIOUS
  <2> QED
    BY <2>1, <2>2
<1> QED
  BY <1>4, <1>5, <1>6, Zenon DEF r

LEMMA RemoveFacts ==
  ASSUME NEW S, NEW s \in Seq(S), NoDuplicates(s), NEW k \in 1..Len(s)
  PROVE  /\ RemoveAt(s, k) \in Seq(S) /\ NoDuplicates(RemoveAt(s, k))
         /\ \A x : Contains(RemoveAt(s, k), x) <=> Contains(s, x) /\ x # s[k]
<1> DEFINE r == RemoveAt(s, k)
<1>1. /\ r \in Seq(S) /\ Len(r) = Len(s) - 1
      /\ \A i \in 1..Len(r) : r[i] = IF i < k THEN s[i] ELSE s[i + 1]
  BY Removed
<1> HIDE DEF r
<1>2. NoDuplicates(r)
  <2>1. ASSUME NEW i \in 1..Len(r), NEW j \in 1..Len(r), r[i] = r[j] PROVE i = j
    <3> DEFINE at(x) == IF x < k THEN x ELSE x + 1
    <3>1. at(i) \in 1..Len(s) /\ at(j) \in 1..Len(s) /\ s[at(i)] = s[at(j)]
      BY <1>1, <2>1
    <3>2. at(i) = at(j)
      BY <3>1 DEF NoDuplicates
    <3> QED
      BY <3>2
  <2> QED
    BY <2>1 DEF NoDuplicates
<1>3. ASSUME NEW x PROVE Contains(r, x) <=> Contains(s, x) /\ x # s[k]
  <2>1. ASSUME Contains(r, x) PROVE Contains(s, x) /\ x # s[k]
    <3>1. PICK i \in 1..Len(r) : r[i] = x
      BY <2>1 DEF Contains
    <3>2. CASE i < k
      BY <1>1, <3>1, <3>2 DEF Contains, NoDuplicates
    <3>3. CASE i >= k
      <4>1. i + 1 \in 1..Len(s) /\ s[i + 1] = x /\ i + 1 # k
        BY <1>1, <3>1, <3>3
      <4> QED
        BY <4>1 DEF Contains, NoDuplicates
    <3> QED
      BY <3>2, <3>3
  <2>2. ASSUME Contains(s, x), x # s[k] PROVE Contains(r, x)
    <3>1. PICK i \in 1..Len(s) : s[i] = x /\ i # k
      BY <2>2 DEF Contains
    <3>2. CASE i < k
      BY <1>1, <3>1, <3>2 DEF Contains
    <3>3. CASE i > k
      <4>1. i - 1 \in 1..Len(r) /\ r[i - 1] = x
        BY <1>1, <3>1, <3>3
      <4> QED
        BY <4>1 DEF Contains
    <3> QED
      BY <3>1, <3>2, <3>3
  <2> QED
    BY <2>1, <2>2
<1> QED
  BY <1>1, <1>2, <1>3 DEF r

-----------------------------------------------------------------------------
(* The invariant.                                                          *)

LEMMA NotNodes == \A n \in Nodes : n # "rmr" /\ n # "listen" /\ n # Null
BY NodesAssumption

LEMMA InitIInv == Init => IInv
<1> SUFFICES ASSUME Init PROVE IInv
  OBVIOUS
<1>1. \A x : ~ Contains(ready, x) /\ ~ Contains(batch, x) /\ ~ Contains(backlog, x)
  BY DEF Init, Contains
<1>2. Types
  BY BoundsAssumption DEF Init, Types
<1>3. Once
  BY DEF Init, Once, NoDuplicates
<1>4. Phases
  BY <1>1, NotNodes DEF Init, Phases, Announced
<1>5. RmrBacked
  BY <1>1 DEF RmrBacked, Announced
<1>6. NoMissedRmr /\ DataInv /\ ConnectionInv
  BY DEF Init, NoMissedRmr, DataInv, NoMissedData, ConnectionInv, NoMissedConnection
<1> QED
  BY <1>2, <1>3, <1>4, <1>5, <1>6 DEF IInv, Base

LEMMA IInvConnect == ASSUME IInv, NEW n \in Nodes, Connect(n) PROVE IInv'
<1> USE DEF IInv, Base
<1>1. /\ ready' \in Seq(Events) /\ NoDuplicates(ready')
      /\ \A x : Contains(ready', x) <=> Contains(ready, x) \/ x = "listen"
  BY ArmFacts DEF Connect, Types, Once, Events
<1>2. ~ Contains(backlog, n)
  BY DEF Connect, Phases
<1>3. /\ backlog' \in Seq(Nodes) /\ NoDuplicates(backlog')
      /\ \A x : Contains(backlog', x) <=> Contains(backlog, x) \/ x = n
  BY <1>2, AppendFacts DEF Connect, Types, Once
<1>4. Types' /\ Once'
  BY <1>1, <1>3 DEF Connect, Types, Once
<1>5. Phases'
  BY <1>1, <1>3, NotNodes DEF Connect, Types, Phases, Announced
<1>6. RmrBacked' /\ NoMissedRmr'
  BY <1>1 DEF Connect, RmrBacked, Announced, NoMissedRmr
<1>7. DataInv'
  BY <1>1 DEF Connect, Types, DataInv, NoMissedData, Announced
<1>8. ConnectionInv'
  <2>1. "bursts" \notin Env => Len(backlog') <= 1
    BY DEF Connect
  <2> QED
    BY <1>1, <2>1 DEF ConnectionInv, NoMissedConnection, Announced
<1> QED
  BY <1>4, <1>5, <1>6, <1>7, <1>8

LEMMA IInvArrive ==
  ASSUME IInv, NEW n \in Nodes, NEW item \in Items, Arrive(n, item) PROVE IInv'
<1> USE DEF IInv, Base
<1>1. /\ ready' \in Seq(Events) /\ NoDuplicates(ready')
      /\ \A x : Contains(ready', x) <=> Contains(ready, x) \/ (x = n /\ phase[n] = "open")
  BY ArmFacts DEF Arrive, Types, Once, Events
<1>2. /\ inbox' \in [Nodes -> Seq(Items)]
      /\ "garbage" \notin Env /\ inbox[n] \in Seq({"pdu", "eof"})
           => inbox'[n] \in Seq({"pdu", "eof"})
      /\ \A m \in Nodes \ {n} : inbox'[m] = inbox[m]
  BY DEF Arrive, Types, Items
<1>3. Types' /\ Once'
  BY <1>1, <1>2 DEF Arrive, net, Types, Once
<1>4. Phases'
  BY <1>1 DEF Arrive, Types, Phases, Announced
<1>5. RmrBacked' /\ NoMissedRmr'
  BY <1>1, NotNodes DEF Arrive, RmrBacked, Announced, NoMissedRmr
<1>6. DataInv'
  BY <1>1, <1>2 DEF Arrive, Types, DataInv, NoMissedData, Announced
<1>7. ConnectionInv'
  BY <1>1 DEF Arrive, ConnectionInv, NoMissedConnection, Announced
<1> QED
  BY <1>3, <1>4, <1>5, <1>6, <1>7

LEMMA IInvRmrArrive == ASSUME IInv, RmrArrive PROVE IInv'
<1> USE DEF IInv, Base
<1>1. /\ ready' \in Seq(Events) /\ NoDuplicates(ready')
      /\ \A x : Contains(ready', x) <=> Contains(ready, x) \/ x = "rmr"
  BY ArmFacts DEF RmrArrive, Types, Once, Events
<1>2. pending \in Nat /\ pending' = pending + 1 /\ pending' \in 0..MaxPending
  BY BoundsAssumption DEF RmrArrive, Types
<1>3. Types' /\ Once'
  BY <1>1, <1>2 DEF RmrArrive, net, Types, Once
<1>4. Phases'
  BY <1>1, NotNodes DEF RmrArrive, net, Phases, Announced
<1>5. RmrBacked' /\ NoMissedRmr'
  BY <1>1, <1>2 DEF RmrArrive, RmrBacked, Announced, NoMissedRmr
<1>6. DataInv' /\ ConnectionInv'
  BY <1>1 DEF RmrArrive, net, DataInv, NoMissedData, ConnectionInv, NoMissedConnection, Announced
<1> QED
  BY <1>3, <1>4, <1>5, <1>6

LEMMA IInvEpollWait == ASSUME IInv, EpollWait PROVE IInv'
<1> USE DEF IInv, Base
<1> DEFINE n == IF Len(ready) < MaxEvents THEN Len(ready) ELSE MaxEvents
<1>1. n \in 0..Len(ready)
  BY BoundsAssumption DEF Types
<1>2. batch' = SubSeq(ready, 1, n) /\ ready' = SubSeq(ready, n + 1, Len(ready))
  BY DEF EpollWait
<1> HIDE DEF n
<1>3. /\ batch' \in Seq(Events) /\ ready' \in Seq(Events)
      /\ NoDuplicates(batch') /\ NoDuplicates(ready')
      /\ \A x : Contains(ready, x) <=> Contains(batch', x) \/ Contains(ready', x)
      /\ \A x : ~ (Contains(batch', x) /\ Contains(ready', x))
  BY <1>1, <1>2, SplitFacts DEF Types, Once
<1>4. \A x : ~ Contains(batch, x)
  BY DEF EpollWait, Contains
<1>5. \A x : Announced(x) <=> Announced(x)'
  BY <1>3, <1>4 DEF Announced
<1>6. Types' /\ Once'
  BY <1>3 DEF EpollWait, net, Types, Once
<1>7. Phases'
  BY <1>5, NotNodes DEF EpollWait, net, Phases
<1>8. RmrBacked' /\ NoMissedRmr'
  BY <1>3, <1>5 DEF EpollWait, RmrBacked, NoMissedRmr
<1>9. DataInv' /\ ConnectionInv'
  BY <1>5 DEF EpollWait, net, DataInv, NoMissedData, ConnectionInv, NoMissedConnection
<1> QED
  BY <1>6, <1>7, <1>8, <1>9

\* An event leaves the batch.
LEMMA BatchFacts ==
  ASSUME Base, NEW e, Handling(e), batch' = Tail(batch)
  PROVE  /\ batch' \in Seq(Events) /\ NoDuplicates(batch')
         /\ Contains(batch, e) /\ ~ Contains(batch', e)
         /\ \A x : Contains(batch, x) <=> Contains(batch', x) \/ x = e
BY TailFacts DEF Base, Types, Once, Handling

LEMMA IInvAccept == ASSUME IInv, Accept PROVE IInv'
<1> USE DEF IInv, Base
<1>1. /\ batch' \in Seq(Events) /\ NoDuplicates(batch')
      /\ Contains(batch, "listen") /\ ~ Contains(batch', "listen")
      /\ \A x : Contains(batch, x) <=> Contains(batch', x) \/ x = "listen"
  BY BatchFacts DEF Accept
<1>2. cur = Null /\ cur' = Null /\ pending' = pending
  BY DEF Accept, Handling
<1>3. CASE UNCHANGED <<net, ready>> /\ (backlog = <<>> \/ "acceptErrors" \in Env)
  <2>1. Types' /\ Once'
    BY <1>1, <1>2, <1>3 DEF net, Types, Once
  <2>2. Phases'
    BY <1>1, <1>2, <1>3, NotNodes DEF net, Phases, Announced
  <2>3. RmrBacked' /\ NoMissedRmr'
    BY <1>1, <1>2, <1>3 DEF RmrBacked, NoMissedRmr, Announced
  <2>4. DataInv'
    BY <1>1, <1>2, <1>3, NotNodes DEF net, DataInv, NoMissedData, Announced
  <2>5. ConnectionInv'
    BY <1>3 DEF net, ConnectionInv, NoMissedConnection
  <2> QED
    BY <2>1, <2>2, <2>3, <2>4, <2>5
<1> DEFINE n == Head(backlog)
           Opened == /\ phase' = [phase EXCEPT ![n] = "open"]
                     /\ ready' = IF inbox[n] = <<>> THEN ready ELSE Arm(n)
                     /\ inbox' = inbox
           Failed == /\ "acceptErrors" \in Env
                     /\ phase' = [phase EXCEPT ![n] = "closed"]
                     /\ inbox' = [inbox EXCEPT ![n] = <<>>]
                     /\ ready' = ready
<1>4. CASE backlog # <<>> /\ backlog' = Tail(backlog) /\ (Opened \/ Failed)
  <2>1. /\ n \in Nodes /\ backlog' \in Seq(Nodes) /\ NoDuplicates(backlog')
        /\ Contains(backlog, n) /\ ~ Contains(backlog', n)
        /\ \A x : Contains(backlog, x) <=> Contains(backlog', x) \/ x = n
    BY <1>4, TailFacts DEF Types, Once
  <2>2. phase[n] = "waiting"
    BY <2>1 DEF Phases
  <2> HIDE DEF n
  <2>3. /\ phase' \in [Nodes -> {"away", "waiting", "open", "closed"}]
        /\ inbox' \in [Nodes -> Seq(Items)]
        /\ phase'[n] \in {"open", "closed"}
        /\ phase'[n] = "closed" => inbox'[n] = <<>>
        /\ inbox'[n] \in {inbox[n], <<>>}
        /\ \A m \in Nodes \ {n} : phase'[m] = phase[m] /\ inbox'[m] = inbox[m]
    <3>1. CASE Opened
      BY <2>1, <3>1 DEF Types
    <3>2. CASE Failed
      BY <2>1, <3>2 DEF Types
    <3> QED
      BY <1>4, <3>1, <3>2
  <2>4. /\ ready' \in Seq(Events) /\ NoDuplicates(ready')
        /\ \A x : Contains(ready', x) => Contains(ready, x) \/ (x = n /\ phase'[n] = "open")
        /\ \A x : Contains(ready, x) => Contains(ready', x)
        /\ phase'[n] = "open" /\ inbox'[n] # <<>> => Contains(ready', n)
    <3>1. /\ Arm(n) \in Seq(Events) /\ NoDuplicates(Arm(n))
          /\ \A x : Contains(Arm(n), x) <=> Contains(ready, x) \/ x = n
      BY <2>1, ArmFacts DEF Types, Once, Events
    <3>2. CASE Opened
      BY <2>1, <3>1, <3>2 DEF Types, Once
    <3>3. CASE Failed
      BY <2>1, <3>3 DEF Types, Once
    <3> QED
      BY <1>4, <3>2, <3>3
  <2>5. Types' /\ Once'
    BY <1>1, <1>2, <2>1, <2>3, <2>4 DEF Types, Once
  <2>6. Phases'
    BY <1>1, <1>2, <2>1, <2>2, <2>3, <2>4, NotNodes DEF Types, Phases, Announced
  <2>7. RmrBacked' /\ NoMissedRmr'
    BY <1>1, <1>2, <2>1, <2>4, NotNodes DEF RmrBacked, NoMissedRmr, Announced
  <2>8. DataInv'
    <3>1. SUFFICES ASSUME "garbage" \notin Env, NEW m \in Nodes
                   PROVE  /\ phase'[m] = "open" /\ inbox'[m] # <<>> => (Announced(m) \/ cur = m)'
                          /\ inbox'[m] \in Seq({"pdu", "eof"})
      BY DEF DataInv, NoMissedData
    <3>2. inbox[m] \in Seq({"pdu", "eof"})
      BY <3>1 DEF DataInv
    <3>3. CASE m = n
      <4>1. inbox'[m] \in Seq({"pdu", "eof"})
        BY <2>3, <3>2, <3>3
      <4> QED
        BY <2>4, <3>3, <4>1 DEF Announced
    <3>4. CASE m # n
      BY <1>1, <1>2, <2>1, <2>3, <2>4, <3>1, <3>2, <3>4, NotNodes
      DEF Types, DataInv, NoMissedData, Announced
    <3> QED
      BY <3>3, <3>4
  <2>9. ConnectionInv'
    BY <1>4 DEF Types, ConnectionInv, NoMissedConnection
  <2> QED
    BY <2>5, <2>6, <2>7, <2>8, <2>9
<1> QED
  BY <1>3, <1>4 DEF Accept, net

LEMMA IInvReceiveRmr == ASSUME IInv, ReceiveRmr PROVE IInv'
<1> USE DEF IInv, Base
<1>1. /\ batch' \in Seq(Events) /\ NoDuplicates(batch')
      /\ Contains(batch, "rmr") /\ ~ Contains(batch', "rmr")
      /\ \A x : Contains(batch, x) <=> Contains(batch', x) \/ x = "rmr"
  BY BatchFacts DEF ReceiveRmr
<1>2. /\ ready' \in Seq(Events) /\ NoDuplicates(ready')
      /\ \A x : Contains(ready', x) <=> Contains(ready, x) \/ (x = "rmr" /\ pending > 1)
  BY ArmFacts DEF ReceiveRmr, Types, Once, Events
<1>3. pending \in Nat /\ pending >= 1 /\ pending' = pending - 1 /\ pending' \in 0..MaxPending
  BY <1>1, BoundsAssumption DEF ReceiveRmr, Types, RmrBacked, Announced
<1>4. Types' /\ Once'
  BY <1>1, <1>2, <1>3 DEF ReceiveRmr, net, Types, Once
<1>5. Phases'
  BY <1>1, <1>2, NotNodes DEF ReceiveRmr, net, Phases, Announced
<1>6. RmrBacked' /\ NoMissedRmr'
  BY <1>1, <1>2, <1>3 DEF ReceiveRmr, RmrBacked, Announced, NoMissedRmr
<1>7. DataInv' /\ ConnectionInv'
  BY <1>1, <1>2, NotNodes
  DEF ReceiveRmr, net, DataInv, NoMissedData, ConnectionInv, NoMissedConnection, Announced
<1> QED
  BY <1>4, <1>5, <1>6, <1>7

LEMMA IInvStartReading == ASSUME IInv, NEW n \in Nodes, StartReading(n) PROVE IInv'
<1> USE DEF IInv, Base
<1>1. /\ batch' \in Seq(Events) /\ NoDuplicates(batch')
      /\ Contains(batch, n) /\ ~ Contains(batch', n)
      /\ \A x : Contains(batch, x) <=> Contains(batch', x) \/ x = n
  BY BatchFacts DEF StartReading
<1>2. Types' /\ Once'
  BY <1>1 DEF StartReading, net, Types, Once
<1>3. Phases'
  BY <1>1, NotNodes DEF StartReading, net, Phases, Announced
<1>4. RmrBacked' /\ NoMissedRmr'
  BY <1>1, NotNodes DEF StartReading, RmrBacked, Announced, NoMissedRmr
<1>5. DataInv' /\ ConnectionInv'
  BY <1>1, NotNodes
  DEF StartReading, Handling, net, DataInv, NoMissedData, ConnectionInv, NoMissedConnection, Announced
<1> QED
  BY <1>2, <1>3, <1>4, <1>5

\* ReadPdu, StopReading and DecodeError.
LEMMA IInvRead ==
  ASSUME IInv, NEW n \in Nodes, ReadPdu(n) \/ StopReading(n) \/ DecodeError(n)
  PROVE  IInv'
<1> USE DEF IInv, Base
<1>1. /\ UNCHANGED <<phase, backlog, pending, ready, batch>>
      /\ cur = n /\ cur' \in {n, Null}
      /\ \A m \in Nodes \ {n} : inbox'[m] = inbox[m]
      /\ inbox' \in [Nodes -> Seq(Items)]
  <2>1. ASSUME inbox[n] # <<>> PROVE Tail(inbox[n]) \in Seq(Items)
    BY <2>1 DEF Types
  <2>2. CASE ReadPdu(n)
    BY <2>1, <2>2 DEF ReadPdu, Types
  <2>3. CASE StopReading(n)
    BY <2>3 DEF StopReading, net, Types
  <2>4. CASE DecodeError(n)
    BY <2>1, <2>4 DEF DecodeError, Types
  <2> QED
    BY <2>2, <2>3, <2>4
<1>2. Types' /\ Once'
  BY <1>1 DEF Types, Once
<1>3. Phases' /\ RmrBacked' /\ NoMissedRmr' /\ ConnectionInv'
  BY <1>1, NotNodes
  DEF Phases, RmrBacked, NoMissedRmr, ConnectionInv, NoMissedConnection, Announced
<1>4. DataInv'
  <2> SUFFICES ASSUME "garbage" \notin Env PROVE DataInv'
    BY DEF DataInv
  <2>1. inbox[n] \in Seq({"pdu", "eof"}) /\ ~ DecodeError(n)
    <3>1. inbox[n] \in Seq({"pdu", "eof"})
      BY DEF DataInv
    <3>2. inbox[n] # <<>> => Head(inbox[n]) \in {"pdu", "eof"}
      BY <3>1
    <3> QED
      BY <3>1, <3>2 DEF DecodeError
  <2>2. inbox'[n] \in Seq({"pdu", "eof"})
    <3>1. inbox[n] # <<>> => Tail(inbox[n]) \in Seq({"pdu", "eof"})
      BY <2>1
    <3>2. inbox' = inbox \/ (inbox[n] # <<>> /\ inbox' = [inbox EXCEPT ![n] = Tail(@)])
      BY <2>1 DEF ReadPdu, StopReading, net
    <3> QED
      BY <2>1, <3>1, <3>2 DEF Types
  <2>3. inbox'[n] = <<>> \/ cur' = n
    BY <2>1 DEF ReadPdu, StopReading, net
  <2> QED
    BY <1>1, <2>2, <2>3 DEF DataInv, NoMissedData, Announced
<1> QED
  BY <1>2, <1>3, <1>4

\* What Close leaves behind.
LEMMA CloseFacts ==
  ASSUME Base, NEW n \in Nodes, Close(n)
  PROVE  /\ ready' \in Seq(Events) /\ NoDuplicates(ready')
         /\ \A x : Contains(ready', x) <=> Contains(ready, x) /\ x # n
         /\ phase' = [phase EXCEPT ![n] = "closed"]
         /\ inbox' = [inbox EXCEPT ![n] = <<>>]
         /\ UNCHANGED <<backlog, pending>>
<1>1. CASE ~ Contains(ready, n) /\ UNCHANGED ready
  BY <1>1 DEF Close, Base, Types, Once
<1>2. CASE \E i \in 1..Len(ready) : ready[i] = n /\ ready' = RemoveAt(ready, i)
  <2>1. PICK i \in 1..Len(ready) : ready[i] = n /\ ready' = RemoveAt(ready, i)
    BY <1>2
  <2> QED
    BY <2>1, RemoveFacts DEF Close, Base, Types, Once
<1> QED
  BY <1>1, <1>2 DEF Close

\* Disconnect and handlepoll_error.
LEMMA IInvClose ==
  ASSUME IInv, NEW n \in Nodes, Disconnect(n) \/ handlepoll_error(n) PROVE IInv'
<1> USE DEF IInv, Base
<1>1. /\ batch' \in Seq(Events) /\ NoDuplicates(batch')
      /\ ~ Contains(batch', n) /\ phase[n] = "open"
      /\ \A x : Contains(batch', x) <=> Contains(batch, x) /\ x # n
      /\ cur' = Null /\ cur \in {n, Null}
  <2>1. CASE Disconnect(n)
    BY <2>1 DEF Disconnect, Types, Once, Phases, Announced
  <2>2. CASE handlepoll_error(n)
    <3>1. /\ batch' \in Seq(Events) /\ NoDuplicates(batch')
          /\ Contains(batch, n) /\ ~ Contains(batch', n)
          /\ \A x : Contains(batch, x) <=> Contains(batch', x) \/ x = n
      BY <2>2, BatchFacts DEF handlepoll_error
    <3> QED
      BY <2>2, <3>1 DEF handlepoll_error, Handling, Phases, Announced
  <2> QED
    BY <2>1, <2>2
<1>2. /\ ready' \in Seq(Events) /\ NoDuplicates(ready')
      /\ \A x : Contains(ready', x) <=> Contains(ready, x) /\ x # n
      /\ phase' = [phase EXCEPT ![n] = "closed"]
      /\ inbox' = [inbox EXCEPT ![n] = <<>>]
      /\ UNCHANGED <<backlog, pending>>
  BY CloseFacts DEF Disconnect, handlepoll_error
<1>3. Types' /\ Once'
  BY <1>1, <1>2 DEF Types, Once
<1>4. Phases'
  BY <1>1, <1>2, NotNodes DEF Types, Phases, Announced
<1>5. RmrBacked' /\ NoMissedRmr' /\ ConnectionInv'
  BY <1>1, <1>2, NotNodes
  DEF RmrBacked, NoMissedRmr, ConnectionInv, NoMissedConnection, Announced
<1>6. DataInv'
  BY <1>1, <1>2, NotNodes DEF Types, DataInv, NoMissedData, Announced
<1> QED
  BY <1>3, <1>4, <1>5, <1>6

LEMMA IInvNext == IInv /\ [Next]_vars => IInv'
<1> SUFFICES ASSUME IInv, [Next]_vars PROVE IInv'
  OBVIOUS
<1>1. CASE UNCHANGED vars
  BY <1>1
  DEF vars, net, IInv, Base, Types, Once, Phases, RmrBacked, NoMissedRmr, DataInv, NoMissedData,
      ConnectionInv, NoMissedConnection, Announced
<1>2. CASE Listener
  BY <1>2, IInvEpollWait, IInvAccept, IInvReceiveRmr, IInvStartReading, IInvRead, IInvClose
  DEF Listener
<1>3. CASE Environment
  BY <1>3, IInvConnect, IInvArrive, IInvRmrArrive DEF Environment, Items
<1> QED
  BY <1>1, <1>2, <1>3 DEF Next

LEMMA IInvImpliesTypeOK == IInv => TypeOK
<1> SUFFICES ASSUME IInv PROVE TypeOK
  OBVIOUS
<1> USE DEF IInv, Base
<1>1. \A S : \A s \in Seq(S) : ToSet(s) \subseteq S /\ \A x : x \in ToSet(s) <=> Contains(s, x)
  BY DEF ToSet, Contains
<1>2. ToSet(backlog) = {n \in Nodes : phase[n] = "waiting"}
  BY <1>1 DEF Types, Phases
<1>3. \A n \in Nodes : ToSet(inbox[n]) \subseteq {"pdu", "garbage", "eof"}
  BY <1>1 DEF Types, Items
<1>4. ToSet(ready) \cup ToSet(batch) \subseteq Nodes \cup {"rmr", "listen"}
  BY <1>1 DEF Types, Events
<1> QED
  BY <1>2, <1>3, <1>4 DEF Types, TypeOK

LEMMA Invariance == Spec => []IInv
<1>1. Init => IInv
  BY InitIInv
<1>2. IInv /\ [Next]_vars => IInv'
  BY IInvNext
<1> QED
  BY <1>1, <1>2, PTL DEF Spec

-----------------------------------------------------------------------------
(* Turns.                                                                  *)

\* An event of the ready list stays there, not farther back, unless its
\* association is closed.
StaysReady(i) ==
  \/ ready[i] \in Nodes /\ phase'[ready[i]] = "closed"
  \/ \E j \in 1..i : j <= Len(ready') /\ ready'[j] = ready[i]

\* The places of the line: those of the batch, and behind them the ready list.
LEMMA Places ==
  ASSUME NEW b \in Seq(Events), NEW r \in Seq(Events)
  PROVE  /\ Len(b \o r) = Len(b) + Len(r)
         /\ \A i \in 1..Len(b) : (b \o r)[i] = b[i]
         /\ \A i \in 1..Len(r) : (b \o r)[Len(b) + i] = r[i]
<1>1. /\ Len(b \o r) = Len(b) + Len(r)
      /\ \A i \in 1 .. Len(b) + Len(r) :
           (b \o r)[i] = IF i <= Len(b) THEN b[i] ELSE r[i - Len(b)]
  BY ConcatProperties, Zenon
<1>2. ASSUME NEW i \in 1..Len(b) PROVE (b \o r)[i] = b[i]
  <2>1. i \in 1 .. Len(b) + Len(r) /\ i <= Len(b)
    OBVIOUS
  <2> QED
    BY <1>1, <2>1, Zenon
<1>3. ASSUME NEW i \in 1..Len(r) PROVE (b \o r)[Len(b) + i] = r[i]
  <2> DEFINE k == Len(b) + i
  <2>1. k \in 1 .. Len(b) + Len(r) /\ ~ (k <= Len(b)) /\ k - Len(b) = i
    OBVIOUS
  <2>2. (b \o r)[k] = r[k - Len(b)]
    BY <1>1, <2>1, Zenon
  <2> QED
    BY <2>1, <2>2, Zenon
<1> QED
  BY <1>1, <1>2, <1>3

LEMMA LineMoves ==
  ASSUME Base, batch' \in Seq(Events), ready' \in Seq(Events),
         batch' = batch \/ (batch # <<>> /\ batch' = Tail(batch)),
         \A i \in 1..Len(ready) : StaysReady(i),
         NEW i \in 1..Len(Line)
  PROVE  MovesUp(i)
<1>1. batch \in Seq(Events) /\ ready \in Seq(Events)
  BY DEF Base, Types
<1>2. /\ Len(Line) = Len(batch) + Len(ready)
      /\ \A k \in 1..Len(batch) : Line[k] = batch[k]
      /\ \A k \in 1..Len(ready) : Line[Len(batch) + k] = ready[k]
  BY <1>1, Places, Zenon DEF Line
<1>3. /\ Len(Line') = Len(batch') + Len(ready')
      /\ \A k \in 1..Len(batch') : Line'[k] = batch'[k]
      /\ \A k \in 1..Len(ready') : Line'[Len(batch') + k] = ready'[k]
  BY Places, Zenon DEF Line
<1>4. Len(batch) \in Nat /\ Len(ready) \in Nat /\ Len(batch') \in Nat /\ Len(ready') \in Nat
  BY <1>1
<1>5. CASE i <= Len(batch)
  <2>1. i \in 1..Len(batch) /\ Line[i] = batch[i]
    BY <1>2, <1>4, <1>5
  <2>2. CASE batch' = batch
    <3>1. i <= Len(Line') /\ Line'[i] = Line[i] /\ ~ TurnTaken /\ i \in 1..i
      BY <1>3, <1>4, <2>1, <2>2 DEF TurnTaken
    <3> QED
      BY <3>1, Zenon DEF MovesUp
  <2>3. CASE batch # <<>> /\ batch' = Tail(batch)
    <3>1. /\ Len(batch') = Len(batch) - 1
          /\ \A k \in 1..(Len(batch) - 1) : batch'[k] = batch[k + 1]
      BY <1>1, <2>3
    <3>2. TurnTaken
      BY <1>4, <3>1 DEF TurnTaken
    <3>3. CASE i = 1
      BY <3>2, <3>3, Zenon DEF MovesUp
    <3>4. CASE i # 1
      <4> DEFINE j == i - 1
      <4>1. j \in 1..Len(batch') /\ j \in 1..i /\ j < i /\ j + 1 = i /\ j \in 1..(Len(batch) - 1)
        BY <1>4, <2>1, <3>1, <3>4
      <4>2. Line'[j] = Line[i]
        <5>1. Line'[j] = batch'[j]
          BY <1>3, <4>1, Zenon
        <5>2. batch'[j] = batch[j + 1]
          BY <3>1, <4>1, Zenon
        <5> QED
          BY <2>1, <4>1, <5>1, <5>2, Zenon
      <4>3. j <= Len(Line')
        BY <1>3, <1>4, <4>1
      <4> HIDE DEF j
      <4> QED
        BY <4>1, <4>2, <4>3, Zenon DEF MovesUp
    <3> QED
      BY <3>3, <3>4
  <2> QED
    BY <2>2, <2>3
<1>6. CASE ~ (i <= Len(batch))
  <2> DEFINE k == i - Len(batch)
  <2>1. k \in 1..Len(ready) /\ Len(batch) + k = i
    BY <1>2, <1>4, <1>6
  <2>2. Line[i] = ready[k]
    BY <1>2, <2>1, Zenon
  <2>3. StaysReady(k)
    BY <2>1, Zenon
  <2> HIDE DEF k
  <2>4. CASE ready[k] \in Nodes /\ phase'[ready[k]] = "closed"
    BY <2>2, <2>4, Zenon DEF MovesUp
  <2>5. CASE \E j \in 1..k : j <= Len(ready') /\ ready'[j] = ready[k]
    <3>1. PICK j \in 1..k : j <= Len(ready') /\ ready'[j] = ready[k]
      BY <2>5
    <3> DEFINE at == Len(batch') + j
    <3>2. Len(batch') <= Len(batch) /\ (TurnTaken => Len(batch') < Len(batch))
      <4>1. batch # <<>> => Len(Tail(batch)) = Len(batch) - 1
        BY <1>1
      <4> QED
        BY <1>4, <4>1 DEF TurnTaken
    <3>3. j \in 1..Len(ready')
      BY <1>4, <3>1
    <3>4. Line'[at] = Line[i]
      BY <1>3, <2>2, <3>1, <3>3, Zenon
    <3>5. at \in 1..i /\ at <= Len(Line') /\ (TurnTaken => at < i)
      BY <1>3, <1>4, <2>1, <3>2, <3>3
    <3> HIDE DEF at
    <3> QED
      BY <3>4, <3>5, Zenon DEF MovesUp
  <2> QED
    BY <2>3, <2>4, <2>5 DEF StaysReady
<1> QED
  BY <1>5, <1>6

\* An event is added at the end.
LEMMA ArmStays ==
  ASSUME Base, NEW e \in Events, ready' = ready \/ ready' = Arm(e)
  PROVE  ready' \in Seq(Events) /\ \A i \in 1..Len(ready) : StaysReady(i)
<1>1. ready \in Seq(Events)
  BY DEF Base, Types
<1>2. /\ ready' \in Seq(Events) /\ Len(ready) <= Len(ready')
      /\ \A i \in 1..Len(ready) : ready'[i] = ready[i]
  BY <1>1 DEF Arm
<1>3. ASSUME NEW i \in 1..Len(ready) PROVE StaysReady(i)
  <2>1. i \in 1..i /\ i <= Len(ready') /\ ready'[i] = ready[i]
    BY <1>1, <1>2
  <2> QED
    BY <2>1, Zenon DEF StaysReady
<1> QED
  BY <1>2, <1>3

LEMMA CloseStays ==
  ASSUME Base, NEW n \in Nodes, Close(n)
  PROVE  ready' \in Seq(Events) /\ \A i \in 1..Len(ready) : StaysReady(i)
<1>1. ready \in Seq(Events) /\ NoDuplicates(ready) /\ phase \in [Nodes -> {"away", "waiting", "open", "closed"}]
  BY DEF Base, Types, Once
<1>2. phase'[n] = "closed"
  BY <1>1 DEF Close
<1>3. CASE ready' = ready
  <2>1. ASSUME NEW i \in 1..Len(ready) PROVE StaysReady(i)
    <3>1. i \in 1..i /\ i <= Len(ready') /\ ready'[i] = ready[i]
      BY <1>1, <1>3
    <3> QED
      BY <3>1, Zenon DEF StaysReady
  <2> QED
    BY <1>1, <1>3, <2>1
<1>4. CASE \E k \in 1..Len(ready) : ready[k] = n /\ ready' = RemoveAt(ready, k)
  <2>1. PICK k \in 1..Len(ready) : ready[k] = n /\ ready' = RemoveAt(ready, k)
    BY <1>4
  <2>2. /\ ready' \in Seq(Events) /\ Len(ready') = Len(ready) - 1
        /\ \A j \in 1..Len(ready') : ready'[j] = IF j < k THEN ready[j] ELSE ready[j + 1]
    BY <1>1, <2>1, Removed, Zenon
  <2>3. ASSUME NEW i \in 1..Len(ready) PROVE StaysReady(i)
    <3>1. CASE i = k
      BY <1>2, <2>1, <3>1, Zenon DEF StaysReady
    <3>2. CASE i < k
      <4>1. i \in 1..i /\ i <= Len(ready') /\ ready'[i] = ready[i]
        BY <1>1, <2>2, <3>2
      <4> QED
        BY <4>1, Zenon DEF StaysReady
    <3>3. CASE i > k
      <4>1. i - 1 \in 1..i /\ i - 1 <= Len(ready') /\ ready'[i - 1] = ready[i]
        BY <1>1, <2>2, <3>3
      <4> QED
        BY <4>1, Zenon DEF StaysReady
    <3> QED
      BY <3>1, <3>2, <3>3
  <2> QED
    BY <2>2, <2>3
<1> QED
  BY <1>3, <1>4 DEF Close

LEMMA EpollWaitMoves ==
  ASSUME Base, EpollWait, NEW i \in 1..Len(Line)
  PROVE  MovesUp(i)
<1> DEFINE n == IF Len(ready) < MaxEvents THEN Len(ready) ELSE MaxEvents
<1>1. ready \in Seq(Events) /\ Len(ready) \in Nat /\ batch = <<>>
  BY DEF Base, Types, EpollWait
<1>2. n \in 0..Len(ready)
  BY <1>1, BoundsAssumption
<1>3. batch' = SubSeq(ready, 1, n) /\ ready' = SubSeq(ready, n + 1, Len(ready))
  BY DEF EpollWait
<1> HIDE DEF n
<1>4. /\ batch' \in Seq(Events) /\ Len(batch') = n
      /\ \A k \in 1..n : batch'[k] = ready[k]
  BY <1>1, <1>2, <1>3
<1>5. /\ ready' \in Seq(Events) /\ Len(ready') = Len(ready) - n
      /\ \A k \in 1..(Len(ready) - n) : ready'[k] = ready[k + n]
  BY <1>1, <1>2, <1>3
<1>6. Line = ready
  BY <1>1 DEF Line
<1>7. /\ Len(Line') = Len(batch') + Len(ready')
      /\ \A k \in 1..Len(batch') : Line'[k] = batch'[k]
      /\ \A k \in 1..Len(ready') : Line'[Len(batch') + k] = ready'[k]
  BY <1>4, <1>5, Places, Zenon DEF Line
<1>8. ~ TurnTaken
  BY <1>1, <1>2, <1>4 DEF TurnTaken
<1>9. i \in 1..Len(ready) /\ Len(Line') = Len(ready)
  BY <1>1, <1>2, <1>4, <1>5, <1>6, <1>7
<1>10. Line'[i] = ready[i]
  <2>1. CASE i <= n
    <3>1. i \in 1..n
      BY <1>9, <2>1
    <3> QED
      BY <1>4, <1>7, <3>1, Zenon
  <2>2. CASE ~ (i <= n)
    <3> DEFINE k == i - n
    <3>1. k \in 1..(Len(ready) - n) /\ k + n = i /\ n + k = i
      BY <1>2, <1>9, <2>2
    <3>2. Line'[n + k] = ready'[k] /\ ready'[k] = ready[k + n]
      BY <1>4, <1>5, <1>7, <3>1, Zenon
    <3> QED
      BY <3>1, <3>2, Zenon
  <2> QED
    BY <2>1, <2>2
<1>11. i \in 1..i /\ i <= Len(Line')
  BY <1>1, <1>9
<1> QED
  BY <1>6, <1>8, <1>10, <1>11, Zenon DEF MovesUp

LEMMA StepMoves ==
  ASSUME Base, Next
  PROVE  \A i \in 1..Len(Line) : MovesUp(i)
<1>1. batch \in Seq(Events) /\ (batch # <<>> => Tail(batch) \in Seq(Events))
  BY DEF Base, Types
<1>2. "listen" \in Events /\ "rmr" \in Events /\ Nodes \subseteq Events
  BY DEF Events
<1>3. CASE EpollWait
  BY <1>3, EpollWaitMoves
<1> DEFINE Kept == batch' = batch \/ (batch # <<>> /\ batch' = Tail(batch))
<1>4. ASSUME NEW e \in Events, Kept, ready' = ready \/ ready' = Arm(e)
      PROVE  \A i \in 1..Len(Line) : MovesUp(i)
  <2>1. batch' \in Seq(Events)
    BY <1>1, <1>4
  <2>2. ready' \in Seq(Events) /\ \A i \in 1..Len(ready) : StaysReady(i)
    BY <1>4, ArmStays
  <2> QED
    BY <1>4, <2>1, <2>2, LineMoves
<1>5. ASSUME NEW n \in Nodes, Kept, Close(n)
      PROVE  \A i \in 1..Len(Line) : MovesUp(i)
  <2>1. batch' \in Seq(Events)
    BY <1>1, <1>5
  <2>2. ready' \in Seq(Events) /\ \A i \in 1..Len(ready) : StaysReady(i)
    BY <1>5, CloseStays
  <2> QED
    BY <1>5, <2>1, <2>2, LineMoves
<1>6. CASE Accept
  <2>1. Kept
    BY <1>6 DEF Accept, Handling
  <2>2. \E e \in Events : ready' = ready \/ ready' = Arm(e)
    <3>1. backlog # <<>> => Head(backlog) \in Nodes
      BY DEF Base, Types
    <3> QED
      BY <1>2, <1>6, <3>1 DEF Accept
  <2> HIDE DEF Kept
  <2> QED
    BY <1>4, <2>1, <2>2
<1>7. CASE ReceiveRmr
  <2>1. Kept /\ (ready' = ready \/ ready' = Arm("rmr"))
    BY <1>7 DEF ReceiveRmr, Handling
  <2> HIDE DEF Kept
  <2> QED
    BY <1>2, <1>4, <2>1
<1>8. ASSUME NEW n \in Nodes, StartReading(n) \/ ReadPdu(n) \/ StopReading(n) \/ DecodeError(n)
      PROVE  \A i \in 1..Len(Line) : MovesUp(i)
  <2>1. Kept /\ ready' = ready
    BY <1>8 DEF StartReading, ReadPdu, StopReading, DecodeError, Handling
  <2> HIDE DEF Kept
  <2> QED
    BY <1>2, <1>4, <2>1
<1>9. ASSUME NEW n \in Nodes, Disconnect(n) \/ handlepoll_error(n)
      PROVE  \A i \in 1..Len(Line) : MovesUp(i)
  <2>1. Kept /\ Close(n)
    BY <1>9 DEF Disconnect, handlepoll_error, Handling
  <2> HIDE DEF Kept
  <2> QED
    BY <1>5, <2>1
<1>10. CASE Environment
  <2>1. Kept /\ \E e \in Events : ready' = ready \/ ready' = Arm(e)
    BY <1>2, <1>10 DEF Environment, RmrArrive, Connect, Arrive
  <2> HIDE DEF Kept
  <2> QED
    BY <1>4, <2>1
<1> QED
  BY <1>3, <1>6, <1>7, <1>8, <1>9, <1>10 DEF Next, Listener

LEMMA NoLongerThanSet ==
  ASSUME NEW S, IsFiniteSet(S), NEW s \in Seq(S), NoDuplicates(s)
  PROVE  Len(s) <= Cardinality(S)
<1>1. Len(s) \in Nat /\ s \in [1..Len(s) -> S]
  OBVIOUS
<1>2. s \in Injection(1..Len(s), S)
  BY <1>1 DEF NoDuplicates, Injection, IsInjective
<1>3. IsFiniteSet(1..Len(s)) /\ Cardinality(1..Len(s)) = Len(s)
  <2>1. IsFiniteSet(1..Len(s)) /\ Cardinality(1..Len(s)) = IF 1 > Len(s) THEN 0 ELSE Len(s) - 1 + 1
    BY <1>1, FS_Interval
  <2> QED
    BY <1>1, <2>1
<1>4. Cardinality(1..Len(s)) <= Cardinality(S)
  BY <1>2, FS_Injection DEF ExistsInjection
<1> QED
  BY <1>3, <1>4

-----------------------------------------------------------------------------
(* The theorems.                                                           *)

\* The bookkeeping of the loop, for any Env: the types, an accept queue that is
\* exactly the associations not accepted yet, and no RMR message received that
\* is not there (EpollWait, Accept, ReceiveRmr).
THEOREM LoopTypeCorrect == Spec => []TypeOK
<1>1. IInv => TypeOK
  BY IInvImpliesTypeOK
<1> QED
  BY <1>1, Invariance, PTL

\* A message of the RIC never waits behind a descriptor that epoll will not
\* announce, whatever the E2 nodes and the network do (receiveXappMessages
\* takes one message per event of a level triggered descriptor).
THEOREM RmrNeverMissed == Spec => []NoMissedRmr
<1>1. IInv => NoMissedRmr
  BY DEF IInv
<1> QED
  BY <1>1, Invariance, PTL

\* As long as every PDU can be decoded, no data of an accepted association
\* waits unannounced: bursts of connections and failing accepts do not matter
\* (the read loop of receiveDataFromSctp).
THEOREM DataNeverMissed == "garbage" \notin Env => (Spec => []NoMissedData)
<1> SUFFICES ASSUME "garbage" \notin Env PROVE Spec => []NoMissedData
  OBVIOUS
<1>1. IInv => NoMissedData
  BY DEF IInv, DataInv
<1> QED
  BY <1>1, Invariance, PTL

\* As long as associations come one at a time and accepting them does not fail,
\* none waits unannounced; undecodable PDUs do not matter (the accept branch of
\* listener).
THEOREM ConnectionNeverMissed ==
  {"bursts", "acceptErrors"} \cap Env = {} => (Spec => []NoMissedConnection)
<1> SUFFICES ASSUME {"bursts", "acceptErrors"} \cap Env = {} PROVE Spec => []NoMissedConnection
  OBVIOUS
<1>1. IInv => NoMissedConnection
  BY DEF IInv, ConnectionInv
<1> QED
  BY <1>1, Invariance, PTL

\* No event is dropped or overtaken, for any Env: with each turn of another
\* the events that wait move up by one place, which is the safety behind the
\* fairness of the loop (a batch is handled to its end before epoll_wait).
THEOREM NobodyOvertakes == Spec => NoOvertaking
<1>1. IInv /\ [Next]_vars => [\A i \in 1..Len(Line) : MovesUp(i)]_vars
  BY StepMoves DEF IInv
<1> QED
  BY <1>1, Invariance, PTL DEF Spec, NoOvertaking

\* The line is never longer than two events of each descriptor, so with
\* NobodyOvertakes an event has its turn after at most that many turns of others
\* (EpollWait).
THEOREM LineIsBounded ==
  ASSUME IsFiniteSet(Nodes)
  PROVE  Spec => [](Len(Line) <= 2 * (Cardinality(Nodes) + 2))
<1>1. IsFiniteSet(Events) /\ Cardinality(Events) = Cardinality(Nodes) + 2
  <2>1. IsFiniteSet(Nodes \cup {"rmr"}) /\ Cardinality(Nodes \cup {"rmr"}) = Cardinality(Nodes) + 1
    BY NotNodes, FS_AddElement
  <2>2. "listen" \notin Nodes \cup {"rmr"} /\ Events = (Nodes \cup {"rmr"}) \cup {"listen"}
    BY NotNodes DEF Events
  <2>3. /\ IsFiniteSet((Nodes \cup {"rmr"}) \cup {"listen"})
        /\ Cardinality((Nodes \cup {"rmr"}) \cup {"listen"}) = Cardinality(Nodes \cup {"rmr"}) + 1
    BY <2>1, <2>2, FS_AddElement
  <2>4. Cardinality(Nodes) \in Nat
    BY FS_CardinalityType
  <2>5. Cardinality(Nodes) + 1 + 1 = Cardinality(Nodes) + 2
    BY <2>4
  <2> QED
    BY <2>1, <2>2, <2>3, <2>5, Zenon
<1>2. ASSUME IInv PROVE Len(Line) <= 2 * (Cardinality(Nodes) + 2)
  <2>1. batch \in Seq(Events) /\ NoDuplicates(batch) /\ ready \in Seq(Events) /\ NoDuplicates(ready)
    BY <1>2 DEF IInv, Base, Types, Once
  <2>2. Len(batch) <= Cardinality(Events) /\ Len(ready) <= Cardinality(Events)
    BY <1>1, <2>1, NoLongerThanSet
  <2>3. Len(Line) = Len(batch) + Len(ready)
    BY <2>1, Places DEF Line
  <2>4. Cardinality(Nodes) \in Nat /\ Len(batch) \in Nat /\ Len(ready) \in Nat
    BY <2>1, FS_CardinalityType
  <2> QED
    BY <1>1, <2>2, <2>3, <2>4
<1>3. IInv => Len(Line) <= 2 * (Cardinality(Nodes) + 2)
  BY <1>2
<1> QED
  BY <1>3, Invariance, PTL
=============================================================================
