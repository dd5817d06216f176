------------------------- MODULE DownstreamProofs -------------------------
(***************************************************************************)
(* Proofs about what hangs off an order or a person once it is committed:  *)
(* the status stream fed by the order outbox (module OrderNotify), the     *)
(* cache of an order (module OrderCache, here `Cache`) and the             *)
(* provisioning of a registered person (module Provisioning, `People`).    *)
(***************************************************************************)
EXTENDS OrderNotify, OrderCacheState, ProvisioningState, FiniteSetTheorems,
        WellFoundedInduction, TLAPS

Event == [id : Nat, row : Rows]

Ascending(events) == \A j, k \in DOMAIN events : j < k => events[j].id < events[k].id

\* Induction over the numbers, for a set instead of a predicate.
LEMMA SetInduction ==
  ASSUME NEW S \in SUBSET Nat, 0 \in S, \A n \in S : n + 1 \in S
  PROVE  S = Nat
<1> DEFINE Less == {p \in Nat \X Nat : p[1] < p[2]}
           Others == Nat \ S
<1>1. IsWellFoundedOn(Less, Nat)
  BY NatLessThanWellFounded DEF OpToRel
<1>2. \A m, n \in Nat : m < n => <<m, n>> \in Less
  OBVIOUS
<1> HIDE DEF Less
<1> SUFFICES ASSUME Others # {} PROVE FALSE
  OBVIOUS
<1>3. PICK x \in Others : \A y \in Others : ~(<<y, x>> \in Less)
  BY <1>1, WFMin
<1>4. x \in Nat /\ x # 0
  BY <1>3
<1>5. x - 1 \in Nat /\ x - 1 < x /\ (x - 1) + 1 = x
  BY <1>4
<1>6. x - 1 \in S
  BY <1>2, <1>3, <1>4, <1>5
<1> QED
  BY <1>3, <1>5, <1>6

\* One turn of the loop over the history.
Turn(events, h, f, n) ==
  IF n = 0 THEN events
  ELSE IF IsAfter(h[n], LastId(events)) THEN Written(f[n - 1], h[n])
  ELSE f[n - 1]

\* An event is written at the end or not at all.
LEMMA WrittenType ==
  ASSUME NEW events \in Seq(Event), NEW e \in Event
  PROVE  Written(events, e) \in Seq(Event)
BY DEF Written

\* The loop ends, with the turns as the code takes them.
LEMMA LoopExists ==
  ASSUME NEW events \in Seq(Event), NEW h \in Seq(Event)
  PROVE  \E w \in [0 .. Len(h) -> Seq(Event)] :
           w = [n \in 0 .. Len(h) |-> Turn(events, h, w, n)]
<1> DEFINE Runs(m) == \E f \in [0 .. m -> Seq(Event)] :
                        \A n \in 0 .. m : f[n] = Turn(events, h, f, n)
           S == {m \in Nat : m <= Len(h) => Runs(m)}
<1>1. 0 \in S
  <2> DEFINE f == [n \in 0 .. 0 |-> events]
  <2>1. f \in [0 .. 0 -> Seq(Event)] /\ \A n \in 0 .. 0 : f[n] = Turn(events, h, f, n)
    BY DEF Turn
  <2> HIDE DEF f
  <2> QED
    BY <2>1
<1>2. ASSUME NEW m \in Nat, m + 1 <= Len(h), Runs(m) PROVE Runs(m + 1)
  <2>1. m \in Nat /\ m + 1 \in 1 .. Len(h)
    BY <1>2
  <2>2. PICK f \in [0 .. m -> Seq(Event)] : \A n \in 0 .. m : f[n] = Turn(events, h, f, n)
    BY <1>2
  <2> DEFINE g == [n \in 0 .. m + 1 |-> IF n <= m THEN f[n] ELSE Turn(events, h, f, m + 1)]
  <2>3. Turn(events, h, f, m + 1) \in Seq(Event)
    <3>1. f[m] \in Seq(Event) /\ h[m + 1] \in Event
      BY <2>1, <2>2
    <3>2. Written(f[m], h[m + 1]) \in Seq(Event)
      BY <3>1, WrittenType
    <3> QED
      BY <2>1, <3>1, <3>2 DEF Turn
  <2>4. g \in [0 .. m + 1 -> Seq(Event)]
    BY <2>1, <2>2, <2>3
  <2>5. \A n \in 0 .. m : g[n] = f[n]
    BY <2>1
  <2>6. g[m + 1] = Turn(events, h, f, m + 1)
    BY <2>1
  <2> HIDE DEF g
  <2>7. ASSUME NEW n \in 0 .. m + 1 PROVE g[n] = Turn(events, h, g, n)
    <3>1. Turn(events, h, g, n) = Turn(events, h, f, n)
      <4>1. CASE n = 0
        BY <4>1 DEF Turn
      <4>2. CASE n # 0
        <5>1. n - 1 \in 0 .. m
          BY <2>1, <4>2
        <5> QED
          BY <5>1, <2>5 DEF Turn
      <4> QED
        BY <4>1, <4>2
    <3>2. CASE n \in 0 .. m
      BY <2>2, <2>5, <3>1, <3>2
    <3>3. CASE n = m + 1
      BY <2>6, <3>1, <3>3
    <3> QED
      BY <2>1, <3>2, <3>3
  <2> QED
    BY <2>4, <2>7
<1> HIDE DEF Runs
<1>3. S = Nat
  <2>1. ASSUME NEW m \in S PROVE m + 1 \in S
    BY <1>2
  <2> QED
    BY <1>1, <2>1, SetInduction
<1>4. Runs(Len(h))
  BY <1>3
<1>5. PICK f \in [0 .. Len(h) -> Seq(Event)] :
        \A n \in 0 .. Len(h) : f[n] = Turn(events, h, f, n)
  BY <1>4 DEF Runs
<1>6. f = [n \in 0 .. Len(h) |-> Turn(events, h, f, n)]
  BY <1>5
<1> QED
  BY <1>6

\* What is replayed is the last turn of such a loop.
LEMMA ReplayedIsLoop ==
  ASSUME NEW events \in Seq(Event), NEW h \in Seq(Event)
  PROVE  \E w : /\ w = [n \in 0 .. Len(h) |-> Turn(events, h, w, n)]
                /\ Replayed(events, h) = w[Len(h)]
<1> DEFINE Loop(w) == w = [n \in 0 .. Len(h) |-> Turn(events, h, w, n)]
           c == CHOOSE w : Loop(w)
<1>1. \E w : Loop(w)
  BY LoopExists
<1>2. Loop(c)
  BY <1>1, Zenon
<1>3. Replayed(events, h) = c[Len(h)]
  BY DEF Replayed, Turn
<1> QED
  BY <1>2, <1>3
-----------------------------------------------------------------------------
\* The last id of a sequence of events is the greatest.
LEMMA LastIsGreatest ==
  ASSUME NEW s \in Seq(Event), Ascending(s)
  PROVE  /\ LastId(s) \in Nat
         /\ \A j \in DOMAIN s : s[j] \in Event /\ s[j].id <= LastId(s)
         /\ s # << >> => Len(s) \in DOMAIN s /\ LastId(s) = s[Len(s)].id
         /\ \A id : Has(s, id) => id <= LastId(s)
<1>1. Len(s) \in Nat /\ DOMAIN s = 1 .. Len(s) /\ \A j \in 1 .. Len(s) : s[j] \in Event
  OBVIOUS
<1>2. CASE s = << >>
  BY <1>1, <1>2 DEF LastId, Has
<1>3. CASE s # << >>
  <2>1. Len(s) \in 1 .. Len(s) /\ LastId(s) = s[Len(s)].id
    BY <1>1, <1>3 DEF LastId
  <2>2. s[Len(s)] \in Event
    BY <1>1, <2>1
  <2>3. LastId(s) \in Nat
    BY <2>1, <2>2 DEF Event
  <2>4. ASSUME NEW j \in DOMAIN s PROVE s[j].id <= LastId(s)
    <3>1. CASE j = Len(s)
      BY <2>1, <2>3, <3>1
    <3>2. CASE j # Len(s)
      <4>1. j < Len(s)
        BY <1>1, <3>2
      <4>2. s[j].id < s[Len(s)].id
        BY <1>1, <2>1, <4>1 DEF Ascending
      <4>3. s[j].id \in Nat
        BY <1>1 DEF Event
      <4> QED
        BY <2>1, <2>3, <4>2, <4>3
    <3> QED
      BY <3>1, <3>2
  <2> QED
    BY <1>1, <2>1, <2>3, <2>4 DEF Has
<1> QED
  BY <1>2, <1>3

\* A newer event at the end.
LEMMA AppendEvent ==
  ASSUME NEW s \in Seq(Event), Ascending(s), NEW e \in Event, s = << >> \/ LastId(s) < e.id
  PROVE  LET w == Append(s, e)
         IN  /\ w \in Seq(Event) /\ Ascending(w) /\ LastId(w) = e.id
             /\ Len(w) = Len(s) + 1 /\ DOMAIN w = 1 .. Len(s) + 1
             /\ w[Len(s) + 1] = e /\ \A j \in DOMAIN s : w[j] = s[j]
             /\ \A id : Has(w, id) <=> Has(s, id) \/ id = e.id
<1> DEFINE w == Append(s, e)
           n == Len(s)
<1>1. /\ n \in Nat /\ DOMAIN s = 1 .. n /\ \A j \in 1 .. n : s[j] \in Event
      /\ w \in Seq(Event) /\ Len(w) = n + 1 /\ DOMAIN w = 1 .. n + 1
      /\ w[n + 1] = e /\ (\A j \in 1 .. n : w[j] = s[j]) /\ w # << >>
  OBVIOUS
<1>2. \A j \in 1 .. n : s[j].id < e.id
  <2> SUFFICES ASSUME NEW j \in 1 .. n PROVE s[j].id < e.id
    OBVIOUS
  <2>1. s # << >>
    BY <1>1
  <2>2. s[j].id <= LastId(s) /\ LastId(s) \in Nat /\ s[j].id \in Nat /\ e.id \in Nat
    BY <1>1, LastIsGreatest DEF Event
  <2> QED
    BY <2>1, <2>2
<1> HIDE DEF w, n
<1>3. Ascending(w)
  <2> SUFFICES ASSUME NEW j \in 1 .. n + 1, NEW k \in 1 .. n + 1, j < k PROVE w[j].id < w[k].id
    BY <1>1 DEF Ascending
  <2>1. j \in 1 .. n /\ w[j] = s[j]
    BY <1>1
  <2>2. CASE k = n + 1
    BY <1>1, <1>2, <2>1, <2>2
  <2>3. CASE k \in 1 .. n
    BY <1>1, <2>1, <2>3 DEF Ascending
  <2> QED
    BY <1>1, <2>2, <2>3
<1>4. LastId(w) = e.id
  BY <1>1 DEF LastId
<1>5. \A id : Has(w, id) <=> Has(s, id) \/ id = e.id
  <2> SUFFICES ASSUME NEW id PROVE Has(w, id) <=> Has(s, id) \/ id = e.id
    OBVIOUS
  <2>1. n + 1 \in 1 .. n + 1 /\ \A j \in 1 .. n + 1 : j \in 1 .. n \/ j = n + 1
    BY <1>1
  <2>2. \A j \in 1 .. n : j \in 1 .. n + 1
    BY <1>1
  <2> QED
    BY <1>1, <2>1, <2>2 DEF Has
<1> QED
  BY <1>1, <1>3, <1>4, <1>5 DEF w, n

\* The client's events after turn n: those it had, and the newer ones of the history.
After(events, h, n, w) ==
  /\ w \in Seq(Event) /\ Ascending(w)
  /\ \A j \in DOMAIN w : \/ \E k \in DOMAIN events : w[j] = events[k]
                         \/ \E k \in 1 .. n : w[j] = h[k]
  /\ \A id : Has(events, id) => Has(w, id)
  /\ \A k \in 1 .. n : h[k].id > LastId(events) => Has(w, h[k].id)

\* What a client has after it connected.
LEMMA ReplayIsComplete ==
  ASSUME NEW events \in Seq(Event), Ascending(events), NEW h \in Seq(Event), Ascending(h)
  PROVE  After(events, h, Len(h), Replayed(events, h))
<1>1. PICK w : /\ w = [n \in 0 .. Len(h) |-> Turn(events, h, w, n)]
               /\ Replayed(events, h) = w[Len(h)]
  BY ReplayedIsLoop
<1>2. /\ Len(h) \in Nat /\ DOMAIN h = 1 .. Len(h)
      /\ \A n \in 0 .. Len(h) : w[n] = Turn(events, h, w, n)
  <2>1. \A u, v : u = [n \in 0 .. Len(h) |-> Turn(events, h, v, n)] =>
                 \A n \in 0 .. Len(h) : u[n] = Turn(events, h, v, n)
    BY Zenon
  <2>2. \A n \in 0 .. Len(h) : w[n] = Turn(events, h, w, n)
    BY <1>1, <2>1, Zenon
  <2> QED
    BY <2>2
<1>3. After(events, h, 0, w[0])
  <2>1. w[0] = events
    BY <1>2 DEF Turn
  <2>2. \A k \in 1 .. 0 : FALSE
    OBVIOUS
  <2> QED
    BY <2>1, <2>2, Zenon DEF After
<1>4. ASSUME NEW m \in Nat, m + 1 <= Len(h), After(events, h, m, w[m])
      PROVE  After(events, h, m + 1, w[m + 1])
  <2> DEFINE v == w[m]
             e == h[m + 1]
  <2>1. m + 1 \in 1 .. Len(h) /\ m + 1 \in 0 .. Len(h) /\ m + 1 # 0 /\ (m + 1) - 1 = m
    BY <1>2, <1>4
  <2>2. w[m + 1] = IF IsAfter(e, LastId(events)) THEN Written(v, e) ELSE v
    BY <1>2, <2>1 DEF Turn
  <2>3. v \in Seq(Event) /\ Ascending(v) /\ e \in Event /\ e.id \in Nat
    <3>1. e \in Event
      BY <1>2, <2>1
    <3> QED
      BY <1>4, <3>1 DEF After, Event
  <2>4. \A k \in 1 .. m + 1 : k \in 1 .. m \/ k = m + 1
    BY <1>4
  <2>5. \A k \in 1 .. m : k \in 1 .. m + 1
    BY <1>4
  <2>6. LastId(events) \in Nat
    BY LastIsGreatest
  <2>7. ASSUME e.id > LastId(events) PROVE v = << >> \/ LastId(v) < e.id
    <3> SUFFICES ASSUME v # << >> PROVE LastId(v) < e.id
      OBVIOUS
    <3>1. Len(v) \in DOMAIN v /\ LastId(v) = v[Len(v)].id
      BY <2>3, LastIsGreatest
    <3>2. CASE \E k \in DOMAIN events : v[Len(v)] = events[k]
      <4>1. LastId(v) <= LastId(events) /\ LastId(v) \in Nat
        BY <2>3, <3>1, <3>2, LastIsGreatest
      <4> QED
        BY <2>3, <2>6, <2>7, <4>1
    <3>3. CASE \E k \in 1 .. m : v[Len(v)] = h[k]
      <4>1. PICK k \in 1 .. m : v[Len(v)] = h[k]
        BY <3>3
      <4>2. k \in DOMAIN h /\ m + 1 \in DOMAIN h /\ k < m + 1
        BY <1>2, <1>4, <2>1
      <4> QED
        BY <3>1, <4>1, <4>2 DEF Ascending
    <3> QED
      BY <1>4, <3>1, <3>2, <3>3 DEF After
  <2> HIDE DEF v, e
  <2>8. CASE e.id > LastId(events)
    <3>1. (v = << >> => LastId(v) = 0) /\ LastId(v) \in Nat
      BY <2>3, LastIsGreatest DEF LastId
    <3>2. w[m + 1] = Append(v, e)
      BY <2>2, <2>3, <2>6, <2>7, <2>8, <3>1 DEF IsAfter, Written
    <3>3. /\ Append(v, e) \in Seq(Event) /\ Ascending(Append(v, e))
          /\ Len(v) \in Nat /\ DOMAIN v = 1 .. Len(v) /\ DOMAIN Append(v, e) = 1 .. Len(v) + 1
          /\ Append(v, e)[Len(v) + 1] = e /\ \A j \in DOMAIN v : Append(v, e)[j] = v[j]
          /\ \A id : Has(Append(v, e), id) <=> Has(v, id) \/ id = e.id
      BY <2>3, <2>7, <2>8, AppendEvent
    <3>4. \A j \in 1 .. Len(v) + 1 : j \in 1 .. Len(v) \/ j = Len(v) + 1
      BY <3>3
    <3>5. \A j \in DOMAIN Append(v, e) : \/ \E k \in DOMAIN events : Append(v, e)[j] = events[k]
                                         \/ \E k \in 1 .. m + 1 : Append(v, e)[j] = h[k]
      <4>1. m + 1 \in 1 .. m + 1 /\ h[m + 1] = e
        BY <1>4 DEF e
      <4>2. \A j \in DOMAIN v : \/ \E k \in DOMAIN events : v[j] = events[k]
                               \/ \E k \in 1 .. m : v[j] = h[k]
        BY <1>4 DEF After, v
      <4> QED
        BY <2>5, <3>3, <3>4, <4>1, <4>2
    <3>6. \A k \in 1 .. m + 1 : h[k].id > LastId(events) => Has(Append(v, e), h[k].id)
      BY <1>4, <2>4, <3>3 DEF After, v, e
    <3>7. \A id : Has(events, id) => Has(Append(v, e), id)
      BY <1>4, <3>3 DEF After, v
    <3> QED
      BY <3>2, <3>3, <3>5, <3>6, <3>7 DEF After
  <2>9. CASE ~(e.id > LastId(events))
    <3>1. w[m + 1] = v
      BY <2>2, <2>9 DEF IsAfter
    <3> QED
      BY <1>4, <2>4, <2>5, <2>9, <3>1 DEF After, v, e
  <2> QED
    BY <2>8, <2>9
<1> DEFINE S == {m \in Nat : m <= Len(h) => After(events, h, m, w[m])}
<1>5. S = Nat
  <2>1. 0 \in S
    BY <1>3
  <2>2. ASSUME NEW m \in S PROVE m + 1 \in S
    BY <1>2, <1>4
  <2> QED
    BY <2>1, <2>2, SetInduction
<1> QED
  BY <1>1, <1>2, <1>5
-----------------------------------------------------------------------------
\* The state of the instances and of the clients, within the log.
NotifyTypes ==
  /\ log \in Seq(Rows)
  /\ since \in [Instances -> Nat] /\ position \in [Instances -> Nat]
  /\ \A i \in Instances : since[i] <= position[i] /\ position[i] <= Len(log)
  /\ history \in [Instances -> [Orders -> Seq(Event)]]
  /\ at \in [Clients -> Instances \cup {NoInstance}]
  /\ received \in [Clients -> Seq(Event)]
  /\ restarts \in Nat
  /\ restarts = 0 => \A i \in Instances : since[i] = 0

\* The ids of the events a client may get.
IdsOf(c) == EventIds(Watched[c], 0, Len(log))

\* What a client got is in the log as it got it.
ReceivedInOrder == \A c \in Clients : InOrder(received[c], IdsOf(c))

\* No instance has forgotten an event of the client's order.
NothingLost(c) == restarts = 0 /\ Cardinality(IdsOf(c)) <= HistoryLimit

\* Then a client has all events before its last, and while its stream is open
\* all that its instance has consumed.
Complete(c) ==
  /\ \A k \in IdsOf(c) : k <= LastId(received[c]) => Has(received[c], k)
  /\ at[c] # NoInstance =>
       \A k \in EventIds(Watched[c], 0, position[at[c]]) : Has(received[c], k)

ReceivedAll == \A c \in Clients : NothingLost(c) => Complete(c)

NotifyInv == NotifyTypes /\ HistoryIsLog /\ ReceivedInOrder /\ ReceivedAll

\* What HistoryIsLog says of one history.
Keeps(h, ids) ==
  /\ InOrder(h, ids) /\ Len(h) <= HistoryLimit
  /\ \A k \in ids : Has(h, k) \/ (Len(h) = HistoryLimit /\ k < h[1].id)

-----------------------------------------------------------------------------
\* Nothing was sent at first.
LEMMA NotifyInit == Init => NotifyInv
<1> SUFFICES ASSUME Init PROVE NotifyInv
  OBVIOUS
<1>1. log = << >> /\ Len(log) = 0
  BY DEF Init, Relay!Init
<1>2. \A o : EventIds(o, 0, 0) = {}
  BY DEF EventIds
<1>3. NotifyTypes
  BY <1>1, NotifyAssumption DEF Init, NotifyTypes
<1>4. \A i \in Instances : \A o \in Orders :
        history[i][o] = << >> /\ since[i] = 0 /\ position[i] = 0
  BY DEF Init
<1>5. \A c \in Clients : received[c] = << >> /\ at[c] = NoInstance /\ IdsOf(c) = {}
  BY <1>1, <1>2 DEF Init, IdsOf
<1>6. HistoryIsLog
  BY <1>2, <1>4, NotifyAssumption DEF HistoryIsLog, InOrder
<1>7. ReceivedInOrder /\ ReceivedAll
  BY <1>5 DEF ReceivedInOrder, ReceivedAll, Complete, InOrder
<1> QED
  BY <1>3, <1>6, <1>7 DEF NotifyInv

\* The ids of an order's events are places in the log.
LEMMA IdsInLog ==
  ASSUME NotifyTypes, NEW c \in Clients
  PROVE  /\ IdsOf(c) \subseteq 1 .. Len(log) /\ Len(log) \in Nat
         /\ IsFiniteSet(IdsOf(c)) /\ Cardinality(IdsOf(c)) \in Nat
<1>1. Len(log) \in Nat
  BY DEF NotifyTypes
<1>2. IdsOf(c) \subseteq 1 .. Len(log)
  BY <1>1 DEF IdsOf, EventIds
<1>3. IsFiniteSet(1 .. Len(log))
  BY <1>1, FS_Interval
<1> QED
  BY <1>1, <1>2, <1>3, FS_Subset, FS_CardinalityType

\* A step of a relay appends to the log, or leaves it.
LEMMA RelayAppends ==
  ASSUME Relay!Next PROVE log' = log \/ \E r \in Rows : log' = Append(log, r)
BY DEF Relay!Next, Relay!Insert, Relay!Claim, Relay!Commit, Relay!Rollback, Relay!Publish,
       Relay!PublishFails, Relay!DeletePublished

\* What the instances and clients have is not touched by it.
LEMMA RelayStep ==
  ASSUME NotifyInv, NEW r \in Rows, log' = Append(log, r),
         UNCHANGED <<since, position, history, at, received, restarts>>
  PROVE  NotifyInv'
<1> DEFINE n == Len(log)
<1>1. /\ n \in Nat /\ log' \in Seq(Rows) /\ Len(log') = n + 1
      /\ \A k \in 1 .. n : log'[k] = log[k]
  BY DEF NotifyInv, NotifyTypes
<1> HIDE DEF n
<1>2. NotifyTypes'
  BY <1>1 DEF NotifyInv, NotifyTypes, n
<1>3. ASSUME NEW o, NEW a \in Nat, NEW b \in Nat, b <= n
      PROVE  EventIds(o, a, b)' = EventIds(o, a, b)
  BY <1>1, <1>3 DEF EventIds
<1>4. HistoryIsLog'
  <2> SUFFICES ASSUME NEW i \in Instances, NEW o \in Orders
               PROVE  Keeps(history[i][o], EventIds(o, since[i], position[i]))'
    BY DEF HistoryIsLog, Keeps
  <2> DEFINE h == history[i][o]
             ids == EventIds(o, since[i], position[i])
  <2>1. since[i] \in Nat /\ position[i] \in Nat /\ position[i] <= n
    BY DEF NotifyInv, NotifyTypes, n
  <2>2. ids' = ids /\ h' = h
    BY <1>3, <2>1
  <2>3. \A k \in ids : k \in 1 .. n
    BY <1>1, <2>1 DEF EventIds
  <2>4. Keeps(h, ids)
    BY DEF NotifyInv, HistoryIsLog, Keeps
  <2> HIDE DEF h, ids
  <2>5. \A j \in DOMAIN h : h[j].id \in ids /\ h[j].row = log'[h[j].id]
    BY <1>1, <2>3, <2>4 DEF Keeps, InOrder
  <2>6. Keeps(h, ids)'
    BY <2>2, <2>4, <2>5 DEF Keeps, InOrder, Has
  <2> QED
    BY <2>6 DEF h, ids
<1>5. ASSUME NEW c \in Clients
      PROVE  /\ IdsOf(c) \subseteq IdsOf(c)' /\ \A k \in IdsOf(c) : k \in 1 .. n
             /\ \A k \in IdsOf(c)' : k \in IdsOf(c) \/ k = n + 1
  BY <1>1 DEF IdsOf, EventIds, n
<1>6. ReceivedInOrder'
  BY <1>1, <1>5 DEF NotifyInv, ReceivedInOrder, InOrder
<1>7. ReceivedAll'
  <2> SUFFICES ASSUME NEW c \in Clients, NothingLost(c)' PROVE Complete(c)'
    BY DEF ReceivedAll
  <2>1. NothingLost(c)
    <3>1. IsFiniteSet(IdsOf(c)) /\ IdsOf(c)' \subseteq IdsOf(c) \cup {n + 1}
      BY <1>5, IdsInLog DEF NotifyInv
    <3>2. IsFiniteSet(IdsOf(c)')
      BY <3>1, FS_AddElement, FS_Subset
    <3>3. Cardinality(IdsOf(c)) <= Cardinality(IdsOf(c)')
      BY <1>5, <3>2, FS_Subset
    <3>4. /\ Cardinality(IdsOf(c)) \in Nat /\ Cardinality(IdsOf(c)') \in Nat
      BY <3>2, FS_CardinalityType, IdsInLog DEF NotifyInv
    <3>5. Cardinality(IdsOf(c))' = Cardinality(IdsOf(c)')
      OBVIOUS
    <3> QED
      BY <3>3, <3>4, <3>5, NotifyAssumption DEF NothingLost
  <2>2. Complete(c)
    BY <2>1 DEF NotifyInv, ReceivedAll
  <2> DEFINE got == received[c]
  <2>3. got' = got /\ at'[c] = at[c] /\ position' = position
    OBVIOUS
  <2>4. LastId(got) <= n /\ LastId(got) \in Nat
    <3>1. got \in Seq(Event) /\ Ascending(got)
      BY DEF NotifyInv, NotifyTypes, ReceivedInOrder, InOrder, Ascending
    <3>2. \A j \in DOMAIN got : got[j].id \in 1 .. n
      BY <1>5 DEF NotifyInv, ReceivedInOrder, InOrder
    <3>3. got = << >> => LastId(got) = 0
      BY DEF LastId
    <3> HIDE DEF got
    <3>4. /\ LastId(got) \in Nat
          /\ got # << >> => Len(got) \in DOMAIN got /\ LastId(got) = got[Len(got)].id
      BY <3>1, LastIsGreatest
    <3> QED
      BY <1>1, <3>2, <3>3, <3>4
  <2>5. \A k \in IdsOf(c)' : k <= LastId(got) => Has(got, k)
    <3>1. \A k \in IdsOf(c)' : k <= LastId(got) => k \in IdsOf(c)
      BY <1>1, <1>5, <2>4
    <3> QED
      BY <2>2, <3>1 DEF Complete
  <2>6. ASSUME at[c] # NoInstance
        PROVE  EventIds(Watched[c], 0, position[at[c]])'
                 = EventIds(Watched[c], 0, position[at[c]])
    <3>1. position[at[c]] \in Nat /\ position[at[c]] <= n
      BY <2>6 DEF NotifyInv, NotifyTypes, n
    <3>2. EventIds(Watched[c], 0, position[at[c]])' =
            {k \in 0 + 1 .. position[at[c]] : Aggregate[log'[k]] = Watched[c]}
      BY <2>3 DEF EventIds
    <3>3. \A k \in 0 + 1 .. position[at[c]] : log'[k] = log[k]
      BY <1>1, <3>1
    <3> QED
      BY <3>2, <3>3 DEF EventIds
  <2> QED
    BY <2>2, <2>3, <2>5, <2>6 DEF Complete, LastId, Has
<1> QED
  BY <1>2, <1>4, <1>6, <1>7 DEF NotifyInv

-----------------------------------------------------------------------------
\* record and the limit: the new event is kept, and what is dropped is the oldest.
LEMMA CappedKeeps ==
  ASSUME NEW h \in Seq(Event), NEW ids \in SUBSET Nat, Keeps(h, ids),
         NEW e \in Event, e.row = log[e.id], \A k \in ids : k < e.id
  PROVE  /\ IsNew(h, e) /\ Capped(Append(h, e)) \in Seq(Event)
         /\ Keeps(Capped(Append(h, e)), ids \cup {e.id})
<1> DEFINE w == Append(h, e)
           n == Len(h)
<1>1. /\ Ascending(h) /\ n \in Nat /\ n <= HistoryLimit /\ DOMAIN h = 1 .. n
      /\ \A j \in 1 .. n : h[j] \in Event /\ h[j].id \in ids /\ h[j].row = log[h[j].id]
  BY DEF Keeps, InOrder, Ascending
<1>2. e.id \in Nat /\ HistoryLimit \in Nat /\ HistoryLimit >= 1
  BY NotifyAssumption DEF Event
<1>3. h = << >> \/ LastId(h) < e.id
  BY <1>1, LastIsGreatest
<1>4. /\ w \in Seq(Event) /\ Ascending(w) /\ Len(w) = n + 1 /\ DOMAIN w = 1 .. n + 1
      /\ w[n + 1] = e /\ \A j \in 1 .. n : w[j] = h[j]
      /\ \A id : Has(w, id) <=> Has(h, id) \/ id = e.id
  BY <1>1, <1>3, AppendEvent
<1> HIDE DEF w, n
<1>5. \A j \in 1 .. n + 1 :
        w[j] \in Event /\ w[j].id \in ids \cup {e.id} /\ w[j].row = log[w[j].id]
  <2>1. \A j \in 1 .. n + 1 : j \in 1 .. n \/ j = n + 1
    BY <1>1
  <2> QED
    BY <1>1, <1>4, <2>1
<1>6. \A k \in ids \cup {e.id} : Has(w, k) \/ (n = HistoryLimit /\ k < h[1].id)
  BY <1>4 DEF Keeps, n
<1>7. CASE n < HistoryLimit
  <2>1. Capped(w) = w /\ Len(w) <= HistoryLimit
    BY <1>1, <1>2, <1>4, <1>7 DEF Capped
  <2>2. \A k \in ids \cup {e.id} : Has(w, k)
    BY <1>1, <1>2, <1>6, <1>7
  <2> QED
    BY <1>3, <1>4, <1>5, <2>1, <2>2 DEF IsNew, Keeps, InOrder, Ascending, w
<1>8. CASE n = HistoryLimit
  <2> DEFINE t == Tail(w)
  <2>1. /\ Capped(w) = t /\ t \in Seq(Event) /\ Len(t) = n /\ DOMAIN t = 1 .. n
        /\ \A j \in 1 .. n : t[j] = w[j + 1]
    <3>1. Len(w) > HistoryLimit /\ w # << >>
      BY <1>1, <1>2, <1>4, <1>8
    <3>2. Capped(w) = t
      BY <3>1 DEF Capped
    <3> QED
      BY <1>1, <1>4, <3>1, <3>2
  <2> HIDE DEF t
  <2>2. \A j \in 1 .. n : j + 1 \in 1 .. n + 1
    BY <1>1
  <2>3. InOrder(t, ids \cup {e.id})
    <3>1. \A j \in 1 .. n : t[j].id \in ids \cup {e.id} /\ t[j].row = log[t[j].id]
      BY <1>5, <2>1, <2>2
    <3>2. ASSUME NEW j \in 1 .. n, NEW k \in 1 .. n, j < k PROVE t[j].id < t[k].id
      <4>1. j + 1 < k + 1 /\ j + 1 \in DOMAIN w /\ k + 1 \in DOMAIN w
        BY <1>1, <1>4, <2>2, <3>2
      <4>2. w[j + 1].id < w[k + 1].id
        BY <1>4, <4>1 DEF Ascending
      <4> QED
        BY <2>1, <4>2
    <3> QED
      BY <2>1, <3>1, <3>2 DEF InOrder
  <2>4. w[1].id < t[1].id /\ w[1] = h[1] /\ w[1].id \in Nat /\ t[1].id \in Nat
    <3>1. 1 \in 1 .. n /\ 2 \in 1 .. n + 1 /\ 1 \in 1 .. n + 1 /\ 1 + 1 = 2
      BY <1>1, <1>2, <1>8
    <3>2. t[1] = w[2]
      BY <2>1, <3>1
    <3>3. w[1].id < w[2].id
      BY <1>4, <3>1 DEF Ascending
    <3> QED
      BY <1>4, <1>5, <3>1, <3>2, <3>3 DEF Event
  <2>5. ASSUME NEW k \in ids \cup {e.id} PROVE Has(t, k) \/ k < t[1].id
    <3>1. k \in Nat
      BY <1>2
    <3>2. CASE k < h[1].id
      BY <2>4, <3>1, <3>2
    <3>3. CASE Has(w, k)
      <4>1. PICK j \in 1 .. n + 1 : w[j].id = k
        BY <1>4, <3>3 DEF Has
      <4>2. CASE j = 1
        BY <2>4, <4>1, <4>2
      <4>3. CASE j # 1
        <5>1. j - 1 \in 1 .. n /\ (j - 1) + 1 = j
          BY <1>1, <4>3
        <5>2. t[j - 1].id = k
          BY <2>1, <4>1, <5>1
        <5> QED
          BY <2>1, <5>1, <5>2 DEF Has
      <4> QED
        BY <4>2, <4>3
    <3> QED
      BY <1>6, <3>2, <3>3
  <2> QED
    BY <1>1, <1>3, <1>8, <2>1, <2>3, <2>5 DEF IsNew, Keeps, w
<1> QED
  BY <1>1, <1>2, <1>7, <1>8

\* writeEvent keeps what a client has in order.
LEMMA WrittenKeeps ==
  ASSUME NEW s \in Seq(Event), NEW ids, InOrder(s, ids),
         NEW e \in Event, e.id \in ids, e.row = log[e.id]
  PROVE  LET w == Written(s, e)
         IN  /\ w \in Seq(Event) /\ InOrder(w, ids)
             /\ \A id : Has(s, id) => Has(w, id)
             /\ \/ e.id <= LastId(s) /\ w = s
                \/ Has(w, e.id) /\ LastId(w) = e.id
<1>1. /\ Ascending(s) /\ LastId(s) \in Nat /\ e.id \in Nat
      /\ DOMAIN s = 1 .. Len(s) /\ Len(s) \in Nat
  <2>1. Ascending(s)
    BY DEF InOrder, Ascending
  <2>2. e.id \in Nat
    BY DEF Event
  <2> QED
    BY <2>1, <2>2, LastIsGreatest
<1>2. CASE e.id <= LastId(s)
  <2>1. Written(s, e) = s
    BY <1>2 DEF Written
  <2> QED
    BY <1>2, <2>1
<1>3. CASE ~(e.id <= LastId(s))
  <2> DEFINE w == Append(s, e)
             n == Len(s)
  <2>1. Written(s, e) = w
    BY <1>3 DEF Written
  <2>2. /\ w \in Seq(Event) /\ Ascending(w) /\ LastId(w) = e.id /\ DOMAIN w = 1 .. n + 1
        /\ w[n + 1] = e /\ \A j \in 1 .. n : w[j] = s[j]
        /\ \A id : Has(w, id) <=> Has(s, id) \/ id = e.id
    BY <1>1, <1>3, AppendEvent
  <2>3. \A j \in 1 .. n + 1 : j \in 1 .. n \/ j = n + 1
    BY <1>1
  <2> HIDE DEF w, n
  <2>4. \A j \in 1 .. n + 1 : w[j].id \in ids /\ w[j].row = log[w[j].id]
    BY <1>1, <2>2, <2>3 DEF InOrder, n
  <2>5. InOrder(w, ids)
    BY <2>2, <2>4 DEF InOrder, Ascending
  <2> QED
    BY <2>1, <2>2, <2>5
<1> QED
  BY <1>2, <1>3

\* The event a consumer has come to, and the ids it adds.
LEMMA NextEvent ==
  ASSUME NotifyTypes, NEW i \in Instances, NEW n \in Nat,
         since[i] <= n, n < Len(log)
  PROVE  /\ EventAt(n) \in Event /\ EventAt(n).id = n + 1
         /\ EventAt(n).row = log[n + 1]
         /\ Aggregate[log[n + 1]] \in Orders
         /\ \A o, a : a \in Nat /\ a <= n =>
              EventIds(o, a, n + 1) =
                IF o = Aggregate[log[n + 1]] THEN EventIds(o, a, n) \cup {n + 1}
                ELSE EventIds(o, a, n)
<1>1. n + 1 \in 1 .. Len(log) /\ log[n + 1] \in Rows
  BY DEF NotifyTypes
<1>2. /\ EventAt(n) \in Event /\ EventAt(n).id = n + 1
      /\ EventAt(n).row = log[n + 1]
  BY <1>1 DEF EventAt, EventId, Event
<1>3. Aggregate[log[n + 1]] \in Orders
  BY <1>1 DEF Orders
<1>4. ASSUME NEW o, NEW a \in Nat, a <= n
      PROVE  EventIds(o, a, n + 1) =
                IF o = Aggregate[log[n + 1]] THEN EventIds(o, a, n) \cup {n + 1}
                ELSE EventIds(o, a, n)
  <2>1. \A k : k \in a + 1 .. n + 1 <=> k \in a + 1 .. n \/ k = n + 1
    BY <1>4
  <2> QED
    BY <2>1 DEF EventIds
<1> QED
  BY <1>2, <1>3, <1>4

\* A consumer records the next event of the log and passes it on.
LEMMA ConsumeStep ==
  ASSUME NotifyInv, NEW i \in Instances, Consume(i)
  PROVE  NotifyInv'
<1> DEFINE p == position[i]
           e == EventAt(p)
           o == Aggregate[log[p + 1]]
           h == history[i][o]
<1>1. /\ p \in Nat /\ since[i] \in Nat /\ since[i] <= p /\ p < Len(log) /\ Len(log) \in Nat
      /\ NotifyTypes
  BY DEF Consume, NotifyInv, NotifyTypes
<1>2. /\ e \in Event /\ e.id = p + 1 /\ e.row = log[p + 1] /\ o \in Orders
  BY <1>1, NextEvent
<1>3. \A x, a : a \in Nat /\ a <= p =>
        EventIds(x, a, p + 1) =
          IF x = o THEN EventIds(x, a, p) \cup {p + 1} ELSE EventIds(x, a, p)
  BY <1>1, NextEvent
<1>4. /\ position' = [position EXCEPT ![i] = p + 1]
      /\ UNCHANGED <<log, since, at, restarts>>
      /\ \/ /\ IsNew(h, e)
            /\ history' = [history EXCEPT ![i][o] = Capped(Append(@, e))]
            /\ received' = [c \in Clients |->
                 IF at[c] = i /\ Watched[c] = o THEN Written(received[c], e) ELSE received[c]]
         \/ ~IsNew(h, e)
  BY <1>2 DEF Consume, Handle, relayVars
<1>5. h \in Seq(Event) /\ Keeps(h, EventIds(o, since[i], p))
  BY <1>2 DEF NotifyInv, NotifyTypes, HistoryIsLog, Keeps
<1> HIDE DEF p, e, o, h
<1>6. /\ IsNew(h, e) /\ Capped(Append(h, e)) \in Seq(Event)
      /\ Keeps(Capped(Append(h, e)), EventIds(o, since[i], p) \cup {p + 1})
  <2>1. EventIds(o, since[i], p) \in SUBSET Nat /\ \A k \in EventIds(o, since[i], p) : k < e.id
    BY <1>1, <1>2 DEF EventIds
  <2> QED
    BY <1>2, <1>5, <2>1, CappedKeeps
<1>7. /\ history' = [history EXCEPT ![i][o] = Capped(Append(h, e))]
      /\ received' = [c \in Clients |->
           IF at[c] = i /\ Watched[c] = o THEN Written(received[c], e) ELSE received[c]]
  BY <1>4, <1>6 DEF h
<1>8. \A c \in Clients : /\ received[c] \in Seq(Event) /\ InOrder(received[c], IdsOf(c))
                         /\ Watched[c] = o => e.id \in IdsOf(c)
  <2>1. p + 1 \in 0 + 1 .. Len(log)
    BY <1>1
  <2> QED
    BY <1>2, <2>1 DEF NotifyInv, NotifyTypes, ReceivedInOrder, IdsOf, EventIds, o
<1>9. ASSUME NEW c \in Clients, at[c] = i, Watched[c] = o
      PROVE  LET w == Written(received[c], e)
             IN  /\ received'[c] = w /\ w \in Seq(Event) /\ InOrder(w, IdsOf(c))
                 /\ \A id : Has(received[c], id) => Has(w, id)
                 /\ \/ p + 1 <= LastId(received[c]) /\ w = received[c]
                    \/ Has(w, p + 1) /\ LastId(w) = p + 1
  BY <1>2, <1>7, <1>8, <1>9, WrittenKeeps
<1>10. NotifyTypes'
  <2>1. history' \in [Instances -> [Orders -> Seq(Event)]]
    BY <1>1, <1>2, <1>6, <1>7 DEF NotifyTypes
  <2>2. received' \in [Clients -> Seq(Event)]
    BY <1>7, <1>8, <1>9
  <2>3. /\ position' \in [Instances -> Nat]
        /\ \A j \in Instances : since[j] <= position'[j] /\ position'[j] <= Len(log)
    BY <1>1, <1>4 DEF NotifyTypes
  <2> QED
    BY <1>1, <1>4, <2>1, <2>2, <2>3 DEF NotifyTypes
<1>11. HistoryIsLog'
  <2> SUFFICES ASSUME NEW j \in Instances, NEW x \in Orders
               PROVE  Keeps(history[j][x], EventIds(x, since[j], position[j]))'
    BY DEF HistoryIsLog, Keeps
  <2> DEFINE new == history'[j][x]
             ids == EventIds(x, since[j], position'[j])
  <2>1. Keeps(history[j][x], EventIds(x, since[j], position[j]))
    BY DEF NotifyInv, HistoryIsLog, Keeps
  <2>2. Keeps(new, ids)
    <3>1. CASE j = i /\ x = o
      <4>1. new = Capped(Append(h, e))
        BY <1>1, <1>2, <1>7, <3>1 DEF NotifyTypes
      <4>2. ids = EventIds(o, since[i], p) \cup {p + 1}
        BY <1>1, <1>3, <1>4, <3>1 DEF NotifyTypes
      <4> QED
        BY <1>6, <4>1, <4>2
    <3>2. CASE ~(j = i /\ x = o)
      <4>1. new = history[j][x]
        BY <1>1, <1>2, <1>7, <3>2 DEF NotifyTypes
      <4>2. ids = EventIds(x, since[j], position[j])
        BY <1>1, <1>3, <1>4, <3>2 DEF NotifyTypes, p
      <4> QED
        BY <2>1, <4>1, <4>2
    <3> QED
      BY <3>1, <3>2
  <2>3. EventIds(x, since[j], position[j])' = ids
    BY <1>4 DEF EventIds
  <2> QED
    BY <1>4, <2>2, <2>3 DEF Keeps, InOrder, Has
<1>12. \A c \in Clients : IdsOf(c)' = IdsOf(c) /\ (NothingLost(c)' <=> NothingLost(c))
  BY <1>4 DEF IdsOf, EventIds, NothingLost
<1>13. ReceivedInOrder'
  <2> SUFFICES ASSUME NEW c \in Clients PROVE InOrder(received'[c], IdsOf(c))
    BY <1>4, <1>12 DEF ReceivedInOrder, InOrder
  <2> QED
    BY <1>7, <1>8, <1>9
<1>14. ReceivedAll'
  <2> SUFFICES ASSUME NEW c \in Clients, NothingLost(c) PROVE Complete(c)'
    BY <1>12 DEF ReceivedAll
  <2> DEFINE got == received[c]
             new == received'[c]
             ids == EventIds(Watched[c], 0, p)
  <2>1. Complete(c)
    BY DEF NotifyInv, ReceivedAll
  <2>2. CASE at[c] = i /\ Watched[c] = o
    <3>1. /\ \A id : Has(got, id) => Has(new, id)
          /\ \/ p + 1 <= LastId(got) /\ new = got
             \/ Has(new, p + 1) /\ LastId(new) = p + 1
      BY <1>9, <2>2
    <3>2. i # NoInstance /\ position'[i] = p + 1
      BY <1>1, <1>4, NotifyAssumption DEF NotifyTypes
    <3>3. \A k \in ids : Has(got, k)
      BY <2>1, <2>2, <3>2 DEF Complete, p
    <3>4. p + 1 \in IdsOf(c) /\ \A k \in IdsOf(c) : k \in Nat /\ (k <= p => k \in ids)
      <4>1. p + 1 \in IdsOf(c)
        BY <1>2, <1>8, <2>2
      <4> QED
        BY <1>1, <4>1 DEF IdsOf, EventIds
    <3>5. Has(new, p + 1)
      BY <2>1, <3>1, <3>4 DEF Complete
    <3> HIDE DEF got, new, ids
    <3>6. ASSUME NEW k \in IdsOf(c), k <= LastId(new) PROVE Has(new, k)
      <4>1. CASE new = got
        BY <2>1, <3>6, <4>1 DEF Complete, got
      <4>2. CASE LastId(new) = p + 1
        <5>1. k = p + 1 \/ k \in ids
          BY <1>1, <3>4, <3>6, <4>2
        <5> QED
          BY <3>1, <3>3, <3>5, <5>1
      <4> QED
        BY <3>1, <4>1, <4>2
    <3>7. \A k \in EventIds(Watched[c], 0, p + 1) : Has(new, k)
      <4>1. 0 \in Nat /\ 0 <= p
        BY <1>1
      <4>2. EventIds(Watched[c], 0, p + 1) = ids \cup {p + 1}
        BY <1>3, <2>2, <4>1 DEF ids
      <4> QED
        BY <3>1, <3>3, <3>5, <4>2
    <3>8. EventIds(Watched[c], 0, position[at[c]])' = EventIds(Watched[c], 0, p + 1)
      BY <1>4, <2>2, <3>2 DEF EventIds
    <3>9. Complete(c)' <=> /\ \A k \in IdsOf(c) : k <= LastId(new) => Has(new, k)
                           /\ \A k \in EventIds(Watched[c], 0, p + 1) : Has(new, k)
      BY <1>4, <1>12, <2>2, <3>2, <3>8 DEF Complete, LastId, Has, new
    <3> QED
      BY <3>6, <3>7, <3>9
  <2>3. CASE ~(at[c] = i /\ Watched[c] = o)
    <3>1. new = got
      BY <1>7, <2>3
    <3>2. ASSUME at[c] # NoInstance
          PROVE  EventIds(Watched[c], 0, position[at[c]])'
                 = EventIds(Watched[c], 0, position[at[c]])
      <4>1. EventIds(Watched[c], 0, position[at[c]])'
              = EventIds(Watched[c], 0, position'[at[c]])
        BY <1>4 DEF EventIds
      <4>2. CASE at[c] = i
        <5>1. position'[i] = p + 1 /\ Watched[c] # o
          BY <1>1, <1>4, <2>3, <4>2 DEF NotifyTypes
        <5>2. EventIds(Watched[c], 0, p + 1) = EventIds(Watched[c], 0, p)
          <6>1. 0 \in Nat /\ 0 <= p
            BY <1>1
          <6> QED
            BY <1>3, <5>1, <6>1
        <5> QED
          BY <4>1, <4>2, <5>1, <5>2 DEF p
      <4>3. CASE at[c] # i
        BY <1>1, <1>4, <3>2, <4>1, <4>3 DEF NotifyTypes
      <4> QED
        BY <4>2, <4>3
    <3> QED
      BY <1>4, <1>12, <2>1, <3>1, <3>2 DEF Complete, LastId, Has
  <2> QED
    BY <2>2, <2>3
<1> QED
  BY <1>10, <1>11, <1>13, <1>14 DEF NotifyInv

\* A redelivered event is the last of its order's history: record returns early.
LEMMA RedeliverChangesNothing ==
  ASSUME NotifyInv, NEW i \in Instances, Redeliver(i)
  PROVE  UNCHANGED <<history, received>>
<1> DEFINE p == position[i] - 1
           e == EventAt(p)
           o == Aggregate[log[p + 1]]
           h == history[i][o]
           ids == EventIds(o, since[i], position[i])
<1>1. /\ p \in Nat /\ position[i] \in Nat /\ p + 1 = position[i] /\ since[i] \in Nat
      /\ since[i] <= p /\ p < Len(log) /\ NotifyTypes
  BY DEF Redeliver, NotifyInv, NotifyTypes
<1>2. e.id = p + 1 /\ e.row = log[p + 1] /\ o \in Orders
  BY <1>1, NextEvent
<1>3. h \in Seq(Event) /\ Keeps(h, ids)
  BY <1>1, <1>2 DEF NotifyTypes, NotifyInv, HistoryIsLog, Keeps
<1>4. p + 1 \in ids /\ \A k \in ids : k \in Nat /\ k <= p + 1
  BY <1>1 DEF EventIds
<1>5. IsNew(h, e) \/ UNCHANGED <<history, received>>
  BY <1>2 DEF Redeliver, Handle
<1> HIDE DEF p, e, o, h, ids
<1>6. Len(h) = HistoryLimit => 1 \in DOMAIN h
  BY <1>3, NotifyAssumption
<1>7. Has(h, p + 1)
  <2>1. ASSUME Len(h) = HistoryLimit PROVE ~(p + 1 < h[1].id)
    <3>1. h[1].id \in ids
      BY <1>3, <1>6, <2>1 DEF Keeps, InOrder
    <3> QED
      BY <1>1, <1>4, <3>1
  <2> QED
    BY <1>3, <1>4, <2>1 DEF Keeps
<1>8. h # << >> /\ ~(LastId(h) < e.id)
  <2>1. Ascending(h) /\ h # << >>
    BY <1>3, <1>7 DEF Keeps, InOrder, Ascending, Has
  <2>2. LastId(h) \in Nat /\ p + 1 <= LastId(h)
    BY <1>3, <1>7, <2>1, LastIsGreatest
  <2> QED
    BY <1>1, <1>2, <2>1, <2>2
<1> QED
  BY <1>5, <1>8 DEF IsNew

\* While nothing was lost, an instance has every event of the order it consumed:
\* a full history that dropped one would be more events than there are.
LEMMA HistoryHasAll ==
  ASSUME NotifyInv, NEW c \in Clients, NothingLost(c), NEW i \in Instances,
         NEW k \in EventIds(Watched[c], 0, position[i])
  PROVE  Has(history[i][Watched[c]], k)
<1> DEFINE h == history[i][Watched[c]]
           ids == EventIds(Watched[c], 0, position[i])
           f == [j \in 0 .. HistoryLimit |-> IF j = 0 THEN k ELSE h[j].id]
<1>1. Watched[c] \in Orders /\ HistoryLimit \in Nat /\ 0 \in Int
  BY NotifyAssumption DEF Orders
<1>2. since[i] = 0 /\ h \in Seq(Event) /\ Keeps(h, ids)
  BY <1>1 DEF NothingLost, NotifyInv, NotifyTypes, HistoryIsLog, Keeps
<1>3. ids \subseteq IdsOf(c) /\ \A x \in ids : x \in Nat
  BY DEF NotifyInv, NotifyTypes, IdsOf, EventIds
<1> HIDE DEF ids, h
<1> SUFFICES ASSUME Len(h) = HistoryLimit, k < h[1].id PROVE FALSE
  BY <1>2 DEF Keeps, ids, h
<1>4. /\ \A j \in 1 .. HistoryLimit : h[j].id \in ids
      /\ \A j, m \in 1 .. HistoryLimit : j < m => h[j].id < h[m].id
  BY <1>2 DEF Keeps, InOrder
<1>5. k \in ids
  BY DEF ids
<1>6. \A j \in 1 .. HistoryLimit : k < h[j].id
  <2> SUFFICES ASSUME NEW j \in 1 .. HistoryLimit PROVE k < h[j].id
    OBVIOUS
  <2>1. 1 \in 1 .. HistoryLimit /\ (j = 1 \/ 1 < j)
    BY <1>1
  <2>2. h[1].id \in Nat /\ h[j].id \in Nat /\ k \in Nat /\ (j = 1 \/ h[1].id < h[j].id)
    BY <1>3, <1>4, <1>5, <2>1
  <2> QED
    BY <2>2
<1>7. f \in [0 .. HistoryLimit -> ids]
  BY <1>1, <1>4, <1>5
<1>8. ASSUME NEW j \in 0 .. HistoryLimit, NEW m \in 0 .. HistoryLimit, j < m PROVE f[j] # f[m]
  <2>1. m \in 1 .. HistoryLimit /\ f[m] = h[m].id
    BY <1>1, <1>8
  <2>2. CASE j = 0
    <3>1. f[j] = k /\ k < h[m].id /\ k \in Nat /\ h[m].id \in Nat
      BY <1>1, <1>3, <1>4, <1>5, <1>6, <2>1, <2>2
    <3> QED
      BY <2>1, <3>1
  <2>3. CASE j # 0
    <3>1. j \in 1 .. HistoryLimit /\ f[j] = h[j].id
      BY <1>1, <2>3
    <3>2. h[j].id < h[m].id /\ h[j].id \in Nat /\ h[m].id \in Nat
      BY <1>3, <1>4, <1>8, <2>1, <3>1
    <3> QED
      BY <2>1, <3>1, <3>2
  <2> QED
    BY <2>2, <2>3
<1> HIDE DEF f
<1>9. f \in Injection(0 .. HistoryLimit, ids)
  <2>1. \A j, m \in 0 .. HistoryLimit : f[j] = f[m] => j = m
    <3>1. \A j, m \in 0 .. HistoryLimit : j < m \/ m < j \/ j = m
      BY <1>1
    <3> QED
      BY <1>8, <3>1
  <2> QED
    BY <1>7, <2>1 DEF Injection, IsInjective
<1>10. /\ IsFiniteSet(IdsOf(c)) /\ Cardinality(IdsOf(c)) \in Nat
  BY IdsInLog DEF NotifyInv
<1>11. /\ IsFiniteSet(ids) /\ Cardinality(ids) \in Nat
       /\ Cardinality(ids) <= Cardinality(IdsOf(c))
  BY <1>3, <1>10, FS_Subset, FS_CardinalityType
<1>12. Cardinality(0 .. HistoryLimit) = HistoryLimit + 1
  BY <1>1, FS_Interval
<1>13. Cardinality(0 .. HistoryLimit) <= Cardinality(ids)
  BY <1>9, <1>11, FS_Injection
<1> QED
  BY <1>1, <1>10, <1>11, <1>12, <1>13 DEF NothingLost

\* A client connects: it gets what it has not seen of the instance's history.
LEMMA ConnectStep ==
  ASSUME NotifyInv, NEW c \in Clients, NEW i \in Instances, Connect(c, i)
  PROVE  NotifyInv'
<1> DEFINE got == received[c]
           h == history[i][Watched[c]]
           new == Replayed(got, h)
<1>1. /\ at' = [at EXCEPT ![c] = i] /\ received' = [received EXCEPT ![c] = new]
      /\ UNCHANGED <<log, since, position, history, restarts>>
  BY DEF Connect, relayVars
<1>2. /\ Watched[c] \in Orders /\ i # NoInstance
  BY NotifyAssumption DEF Orders
<1>3. /\ got \in Seq(Event) /\ InOrder(got, IdsOf(c)) /\ Ascending(got) /\ NotifyTypes
      /\ position[i] \in Nat /\ position[i] <= Len(log) /\ since[i] \in Nat
  BY DEF NotifyInv, NotifyTypes, ReceivedInOrder, InOrder, Ascending
<1>4. h \in Seq(Event) /\ Keeps(h, EventIds(Watched[c], since[i], position[i]))
  BY <1>2, <1>3 DEF NotifyTypes, NotifyInv, HistoryIsLog, Keeps
<1>5. Ascending(h) /\ DOMAIN h = 1 .. Len(h)
  BY <1>4 DEF Keeps, InOrder, Ascending
<1>6. After(got, h, Len(h), new)
  BY <1>3, <1>4, <1>5, ReplayIsComplete
<1>7. \A k \in EventIds(Watched[c], since[i], position[i]) : k \in IdsOf(c) /\ k <= position[i]
  BY <1>3 DEF NotifyTypes, IdsOf, EventIds
<1> HIDE DEF got, h, new
<1>8. InOrder(new, IdsOf(c))
  <2>1. \A j \in DOMAIN h : h[j].id \in IdsOf(c) /\ h[j].row = log[h[j].id]
    BY <1>4, <1>7 DEF Keeps, InOrder
  <2>2. \A j \in DOMAIN got : got[j].id \in IdsOf(c) /\ got[j].row = log[got[j].id]
    BY <1>3 DEF InOrder
  <2>3. \A j \in DOMAIN new : new[j].id \in IdsOf(c) /\ new[j].row = log[new[j].id]
    BY <1>5, <1>6, <2>1, <2>2 DEF After
  <2> QED
    BY <1>6, <2>3 DEF After, InOrder, Ascending
<1>9. NotifyTypes'
  <2>1. received' \in [Clients -> Seq(Event)]
    BY <1>1, <1>3, <1>6 DEF NotifyTypes, After
  <2>2. at' \in [Clients -> Instances \cup {NoInstance}]
    BY <1>1, <1>3 DEF NotifyTypes
  <2> QED
    BY <1>1, <1>3, <2>1, <2>2 DEF NotifyTypes
<1>10. HistoryIsLog'
  BY <1>1 DEF NotifyInv, HistoryIsLog, EventIds, InOrder, Has
<1>11. /\ \A d \in Clients : IdsOf(d)' = IdsOf(d) /\ (NothingLost(d)' <=> NothingLost(d))
       /\ \A d \in Clients : received'[d] = IF d = c THEN new ELSE received[d]
       /\ \A d \in Clients : at'[d] = IF d = c THEN i ELSE at[d]
  BY <1>1, <1>3 DEF IdsOf, EventIds, NothingLost, NotifyTypes
<1>12. ReceivedInOrder'
  <2> SUFFICES ASSUME NEW d \in Clients PROVE InOrder(received'[d], IdsOf(d))
    BY <1>1, <1>11 DEF ReceivedInOrder, InOrder
  <2> QED
    BY <1>8, <1>11 DEF NotifyInv, ReceivedInOrder
<1>13. ASSUME NothingLost(c)
       PROVE  /\ \A k \in EventIds(Watched[c], 0, position[i]) : Has(new, k)
              /\ \A k \in IdsOf(c) : k <= LastId(new) => Has(new, k)
  <2>1. Complete(c)
    BY <1>13 DEF NotifyInv, ReceivedAll
  <2>2. LastId(got) \in Nat
    BY <1>3, LastIsGreatest
  <2>3. \A k \in IdsOf(c) : k \in Nat /\ (k <= LastId(got) => Has(new, k))
    <3>1. \A k \in IdsOf(c) : k \in Nat
      BY <1>3, IdsInLog
    <3>2. \A k \in IdsOf(c) : k <= LastId(got) => Has(got, k)
      BY <2>1 DEF Complete, got
    <3> QED
      BY <1>6, <3>1, <3>2 DEF After
  <2>4. ASSUME NEW k \in EventIds(Watched[c], 0, position[i]) PROVE Has(new, k)
    <3>1. k \in IdsOf(c)
      BY <1>3 DEF IdsOf, EventIds, NotifyTypes
    <3>2. Has(h, k)
      BY <1>13, HistoryHasAll DEF h
    <3>3. k > LastId(got) => Has(new, k)
      BY <1>5, <1>6, <3>2 DEF After, Has
    <3> QED
      BY <2>2, <2>3, <3>1, <3>3
  <2>5. ASSUME NEW k \in IdsOf(c), k <= LastId(new), ~(k <= LastId(got)) PROVE Has(new, k)
    <3>1. new # << >>
      BY <2>2, <2>3, <2>5 DEF LastId
    <3>2. Len(new) \in DOMAIN new /\ LastId(new) = new[Len(new)].id /\ LastId(new) \in Nat
      BY <1>6, <3>1, LastIsGreatest DEF After
    <3>3. ASSUME NEW j \in DOMAIN got, new[Len(new)] = got[j] PROVE FALSE
      <4>1. LastId(new) <= LastId(got)
        BY <1>3, <3>2, <3>3, LastIsGreatest
      <4> QED
        BY <2>2, <2>3, <2>5, <3>2, <4>1
    <3>4. PICK j \in 1 .. Len(h) : new[Len(new)] = h[j]
      BY <1>6, <3>2, <3>3 DEF After
    <3>5. LastId(new) <= position[i]
      BY <1>4, <1>5, <1>7, <3>2, <3>4 DEF Keeps, InOrder
    <3>6. k <= position[i]
      BY <1>3, <2>3, <2>5, <3>2, <3>5
    <3>7. k \in EventIds(Watched[c], 0, position[i])
      BY <1>3, <2>3, <3>6 DEF IdsOf, EventIds
    <3> QED
      BY <2>4, <3>7
  <2> QED
    BY <2>3, <2>4, <2>5
<1>14. ReceivedAll'
  <2> SUFFICES ASSUME NEW d \in Clients, NothingLost(d) PROVE Complete(d)'
    BY <1>11 DEF ReceivedAll
  <2>1. EventIds(Watched[d], 0, position[at[d]])' = EventIds(Watched[d], 0, position[at'[d]])
    BY <1>1 DEF EventIds
  <2>2. Complete(d)' <=>
          /\ \A k \in IdsOf(d) : k <= LastId(received'[d]) => Has(received'[d], k)
          /\ at'[d] # NoInstance =>
               \A k \in EventIds(Watched[d], 0, position[at'[d]]) : Has(received'[d], k)
    BY <1>11, <2>1 DEF Complete, LastId, Has
  <2>3. CASE d = c
    BY <1>11, <1>13, <2>2, <2>3
  <2>4. CASE d # c
    <3>1. Complete(d)
      BY DEF NotifyInv, ReceivedAll
    <3> QED
      BY <1>11, <2>2, <2>4, <3>1 DEF Complete
  <2> QED
    BY <2>3, <2>4
<1> QED
  BY <1>9, <1>10, <1>12, <1>14 DEF NotifyInv

\* A stream ends: the client keeps what it got.
LEMMA DisconnectStep ==
  ASSUME NotifyInv, NEW c \in Clients, Disconnect(c)
  PROVE  NotifyInv'
<1>1. /\ at' = [at EXCEPT ![c] = NoInstance]
      /\ UNCHANGED <<log, since, position, history, received, restarts>>
  BY DEF Disconnect, relayVars
<1>2. NotifyTypes'
  BY <1>1 DEF NotifyInv, NotifyTypes
<1>3. HistoryIsLog' /\ ReceivedInOrder'
  BY <1>1 DEF NotifyInv, HistoryIsLog, ReceivedInOrder, IdsOf, EventIds, InOrder, Has
<1>4. ReceivedAll'
  <2> SUFFICES ASSUME NEW d \in Clients, NothingLost(d)' PROVE Complete(d)'
    BY DEF ReceivedAll
  <2>1. NothingLost(d) /\ IdsOf(d)' = IdsOf(d)
    BY <1>1 DEF NothingLost, IdsOf, EventIds
  <2>2. Complete(d)
    BY <2>1 DEF NotifyInv, ReceivedAll
  <2>3. at'[d] # NoInstance => at'[d] = at[d]
    BY <1>1 DEF NotifyInv, NotifyTypes
  <2>4. at'[d] # NoInstance =>
          EventIds(Watched[d], 0, position[at[d]])' = EventIds(Watched[d], 0, position[at[d]])
    BY <1>1, <2>3 DEF EventIds
  <2> QED
    BY <1>1, <2>1, <2>2, <2>3, <2>4 DEF Complete, LastId, Has
<1> QED
  BY <1>2, <1>3, <1>4 DEF NotifyInv

\* An instance restarts with an empty history, at the end of the log.
LEMMA RestartStep ==
  ASSUME NotifyInv, NEW i \in Instances, Restart(i)
  PROVE  NotifyInv'
<1>1. /\ restarts' = restarts + 1
      /\ since' = [since EXCEPT ![i] = Len(log)]
      /\ position' = [position EXCEPT ![i] = Len(log)]
      /\ history' = [history EXCEPT ![i] = [o \in Orders |-> << >>]]
      /\ at' = [c \in Clients |-> IF at[c] = i THEN NoInstance ELSE at[c]]
      /\ UNCHANGED <<log, received>> /\ NotifyTypes /\ Len(log) \in Nat
  BY DEF Restart, relayVars, NotifyInv, NotifyTypes
<1>2. restarts' \in Nat /\ restarts' # 0
  BY <1>1 DEF NotifyTypes
<1>3. NotifyTypes'
  <2>1. history' \in [Instances -> [Orders -> Seq(Event)]]
    <3>1. [o \in Orders |-> << >>] \in [Orders -> Seq(Event)]
      OBVIOUS
    <3> QED
      BY <1>1, <3>1 DEF NotifyTypes
  <2>2. /\ since' \in [Instances -> Nat] /\ position' \in [Instances -> Nat]
        /\ \A j \in Instances : since'[j] <= position'[j] /\ position'[j] <= Len(log)
    BY <1>1 DEF NotifyTypes
  <2>3. at' \in [Clients -> Instances \cup {NoInstance}]
    BY <1>1 DEF NotifyTypes
  <2> QED
    BY <1>1, <1>2, <2>1, <2>2, <2>3 DEF NotifyTypes
<1>4. HistoryIsLog'
  <2> SUFFICES ASSUME NEW j \in Instances, NEW o \in Orders
               PROVE  Keeps(history[j][o], EventIds(o, since[j], position[j]))'
    BY DEF HistoryIsLog, Keeps
  <2>1. EventIds(o, since[j], position[j])' = EventIds(o, since'[j], position'[j])
    BY <1>1 DEF EventIds
  <2>2. Keeps(history'[j][o], EventIds(o, since'[j], position'[j]))
    <3>1. CASE j = i
      <4>1. history'[j][o] = << >> /\ since'[j] = Len(log) /\ position'[j] = Len(log)
        BY <1>1, <3>1 DEF NotifyTypes
      <4>2. EventIds(o, Len(log), Len(log)) = {}
        BY <1>1 DEF EventIds
      <4> QED
        BY <4>1, <4>2, NotifyAssumption DEF Keeps, InOrder
    <3>2. CASE j # i
      <4>1. history'[j] = history[j] /\ since'[j] = since[j] /\ position'[j] = position[j]
        BY <1>1, <3>2 DEF NotifyTypes
      <4> QED
        BY <4>1 DEF NotifyInv, HistoryIsLog, Keeps
    <3> QED
      BY <3>1, <3>2
  <2> QED
    BY <1>1, <2>1, <2>2 DEF Keeps, InOrder, Has
<1>5. ReceivedInOrder'
  BY <1>1 DEF NotifyInv, ReceivedInOrder, IdsOf, EventIds, InOrder
<1>6. ReceivedAll'
  BY <1>2 DEF ReceivedAll, NothingLost
<1> QED
  BY <1>3, <1>4, <1>5, <1>6 DEF NotifyInv

\* A step that changes nothing the invariant speaks of.
LEMMA NotifyStutter ==
  ASSUME NotifyInv, UNCHANGED <<log, since, position, history, at, received, restarts>>
  PROVE  NotifyInv'
<1>1. NotifyTypes'
  BY DEF NotifyInv, NotifyTypes
<1>2. HistoryIsLog' /\ ReceivedInOrder'
  BY DEF NotifyInv, HistoryIsLog, ReceivedInOrder, IdsOf, EventIds, InOrder, Has
<1>3. ReceivedAll'
  BY DEF NotifyInv, ReceivedAll, NothingLost, Complete, IdsOf, EventIds, LastId, Has
<1> QED
  BY <1>1, <1>2, <1>3 DEF NotifyInv

\* Every step keeps the invariant.
LEMMA NotifyNext == NotifyInv /\ [Next]_vars => NotifyInv'
<1> SUFFICES ASSUME NotifyInv, [Next]_vars PROVE NotifyInv'
  OBVIOUS
<1>1. CASE UNCHANGED vars
  BY <1>1, NotifyStutter DEF vars, relayVars
<1>2. CASE Relay!Next /\ UNCHANGED <<since, position, history, at, received, restarts>>
  BY <1>2, RelayAppends, RelayStep, NotifyStutter
<1>3. ASSUME NEW i \in Instances, Redeliver(i) PROVE NotifyInv'
  <2>1. UNCHANGED <<history, received>>
    BY <1>3, RedeliverChangesNothing
  <2>2. UNCHANGED <<log, since, position, at, restarts>>
    BY <1>3 DEF Redeliver, relayVars
  <2> QED
    BY <2>1, <2>2, NotifyStutter
<1> QED
  BY <1>1, <1>2, <1>3, ConsumeStep, RestartStep, ConnectStep, DisconnectStep DEF Next

\* The consumers, their histories and the clients fit together.
THEOREM NotifyInvariant == Spec => []NotifyInv
  BY NotifyInit, NotifyNext, PTL DEF Spec

\* Every instance's history is the end of the order's part of the log it has
\* consumed, for any number of orders, instances and restarts, whatever is
\* redelivered and however often a relay sends an event again.
THEOREM HistoryIsTheLog == Spec => []HistoryIsLog
<1>1. NotifyInv => HistoryIsLog
  BY DEF NotifyInv
<1> QED
  BY <1>1, NotifyInvariant, PTL

\* Until an instance restarts or an order outgrows the history, a client that
\* reconnects with the last id it has seen, to whichever instance, misses no
\* event and gets none twice.
THEOREM StreamsResume == Spec => []ResumesOnAnyInstance
<1>1. NotifyInv => ResumesOnAnyInstance
  BY DEF NotifyInv, ReceivedInOrder, ReceivedAll, NothingLost, Complete, IdsOf,
         ResumesOnAnyInstance
<1> QED
  BY <1>1, NotifyInvariant, PTL

-----------------------------------------------------------------------------
\* The outbox this stream is fed from, with what is proved of it.
Outbox == INSTANCE OutboxRelayProofs

\* The two instances of OutboxRelay, `Relay` of OrderNotify and `Outbox`, are
\* the same specification.
LEMMA SameCounts ==
  ASSUME NEW S
  PROVE  /\ Outbox!IsFiniteSet(S) <=> Relay!IsFiniteSet(S)
         /\ Outbox!Cardinality(S) = Relay!Cardinality(S)
BY DEF Outbox!IsFiniteSet, Relay!IsFiniteSet, Outbox!Cardinality, Relay!Cardinality

\* They claim the same rows,
LEMMA SameBatch == Outbox!Batch = Relay!Batch
<1>1. Outbox!Free = Relay!Free
  BY DEF Outbox!Free, Relay!Free
<1> QED
  BY <1>1, SameCounts DEF Outbox!Batch, Relay!Batch

\* and take the same steps.
LEMMA SameNext == Outbox!Next <=> Relay!Next
BY SameBatch
   DEF Outbox!Next, Outbox!Insert, Outbox!Claim, Outbox!Publish, Outbox!PublishFails,
       Outbox!Commit, Outbox!Rollback, Outbox!DeletePublished, Outbox!IsNext, Outbox!Marked,
       Outbox!AfterError, Outbox!Earlier,
       Relay!Next, Relay!Insert, Relay!Claim, Relay!Publish, Relay!PublishFails,
       Relay!Commit, Relay!Rollback, Relay!DeletePublished, Relay!IsNext, Relay!Marked,
       Relay!AfterError, Relay!Earlier

\* The consumers and the clients never touch the outbox or the topic: what the
\* relays do here is what OutboxRelay says, and every theorem about it holds.
THEOREM StreamIsFedByTheOutbox == Spec => Relay!Spec
<1>1. Init => Relay!Init
  BY DEF Init
<1>2. [Next]_vars => [Relay!Next]_(Relay!vars)
  BY DEF Next, Consume, Redeliver, Restart, Connect, Disconnect, vars, relayVars, Relay!vars
<1> QED
  BY <1>1, <1>2, PTL DEF Spec, Relay!Spec

\* The same of the instance the theorems are taken from.
LEMMA OutboxSpec == Relay!Spec => Outbox!Spec
<1>1. Relay!Init => Outbox!Init
  BY DEF Relay!Init, Outbox!Init
<1>2. [Relay!Next]_(Relay!vars) => [Outbox!Next]_(Outbox!vars)
  BY SameNext DEF Relay!vars, Outbox!vars
<1> QED
  BY <1>1, <1>2, PTL DEF Relay!Spec, Outbox!Spec

\* What the theorems assume of the constants is assumed here.
LEMMA OutboxAssumed == Outbox!OutboxAssumption
BY RelayAssumption, SameCounts DEF Relay!OutboxAssumption, Outbox!OutboxAssumption

\* As long as no run has failed, the events of an order are in the log in the
\* order they were written.
LEMMA LogMovesForward ==
  ASSUME Outbox!AggregateOrder, Outbox!SentOnce, faults = 0, log \in Seq(Rows),
         NEW j \in DOMAIN log, NEW k \in DOMAIN log, j < k,
         Aggregate[log[j]] = Aggregate[log[k]]
  PROVE  log[j] < log[k]
<1>1. /\ log[j] \in Rows /\ log[k] \in Rows /\ j \in Nat /\ k \in Nat /\ j \in 1 .. Len(log)
      /\ log[j] \in Nat /\ log[k] \in Nat
  BY RelayAssumption DEF Relay!OutboxAssumption
<1>2. log[j] # log[k]
  BY DEF Outbox!SentOnce
<1>3. ASSUME log[k] < log[j] PROVE FALSE
  <2>1. log[k] \in Outbox!Earlier(log[j])
    BY <1>1, <1>3 DEF Outbox!Earlier
  <2>2. PICK m \in 1 .. j - 1 : log[m] = log[k]
    BY <2>1 DEF Outbox!AggregateOrder
  <2>3. m \in DOMAIN log /\ m # k
    BY <1>1, <2>2
  <2> QED
    BY <2>2, <2>3 DEF Outbox!SentOnce
<1> QED
  BY <1>1, <1>2, <1>3

\* No client gets an event twice, or one older than the last it has, and with one
\* relay whose runs have all ended well no status follows a later one, whatever
\* instances the client moves between, and however far one is behind the other.
THEOREM StreamsMoveForward == Outbox!SingleRelay => (Spec => []StreamMovesForward)
<1> SUFFICES ASSUME Outbox!SingleRelay PROVE Spec => []StreamMovesForward
  OBVIOUS
<1>1. Spec => []Outbox!AggregateOrder /\ []Outbox!SentOnce
  <2>1. Outbox!Spec => []Outbox!AggregateOrder
    BY OutboxAssumed, Outbox!OneRelayKeepsOrder
  <2>2. Outbox!Spec => []Outbox!SentOnce
    BY OutboxAssumed, Outbox!RelaysSendOnce
  <2> QED
    BY <2>1, <2>2, StreamIsFedByTheOutbox, OutboxSpec, PTL
<1>2. NotifyInv /\ Outbox!AggregateOrder /\ Outbox!SentOnce => StreamMovesForward
  <2> SUFFICES ASSUME NotifyInv, Outbox!AggregateOrder, Outbox!SentOnce, NEW c \in Clients,
                      NEW j \in DOMAIN received[c], NEW k \in DOMAIN received[c], j < k
               PROVE  /\ received[c][j].id < received[c][k].id
                      /\ faults = 0 => received[c][j].row < received[c][k].row
    BY DEF StreamMovesForward
  <2> DEFINE a == received[c][j].id
             b == received[c][k].id
  <2>1. /\ a \in IdsOf(c) /\ b \in IdsOf(c) /\ a < b
        /\ received[c][j].row = log[a] /\ received[c][k].row = log[b]
    BY DEF NotifyInv, ReceivedInOrder, InOrder
  <2>2. log \in Seq(Rows) /\ a \in DOMAIN log /\ b \in DOMAIN log
    BY <2>1, IdsInLog DEF NotifyInv, NotifyTypes
  <2>3. Aggregate[log[a]] = Aggregate[log[b]]
    BY <2>1 DEF IdsOf, EventIds
  <2> HIDE DEF a, b
  <2>4. faults = 0 => log[a] < log[b]
    BY <2>1, <2>2, <2>3, LogMovesForward
  <2> QED
    BY <2>1, <2>4 DEF a, b
<1> QED
  BY <1>1, <1>2, NotifyInvariant, PTL

-----------------------------------------------------------------------------
(***************************************************************************)
(* The cache of an order.  Nothing it keeps is shared with the stream.     *)
(***************************************************************************)
Cache == INSTANCE OrderCache

Statuses == {"pending_payment", "settled"}

ReaderSteps ==
  {"idle", "wait", "acquire", "load", "store", "release", "loadAlone", "storeAlone"}

CacheTypes ==
  /\ status \in Statuses /\ writer \in 0 .. 2 /\ settledAt \in Nat
  /\ entry \in Statuses \cup {NoEntry} /\ expiresAt \in Nat
  /\ pc \in [Readers -> ReaderSteps]
  /\ value \in [Readers -> Statuses]
  /\ lapsed \subseteq Readers /\ straddles \subseteq Readers
  /\ raced \in BOOLEAN
  /\ now \in Nat

\* A request past its SET NX holds the lock until it gives it back, unless the
\* lock has expired under it.
LockHeld ==
  \A r \in Readers \ lapsed : pc[r] \in {"load", "store", "release"} => lock = r

\* Before the status changes, everybody knows the one there is.
BeforeCommit ==
  status = "pending_payment" =>
    /\ writer = 0 /\ straddles = {} /\ ~raced
    /\ entry \in {NoEntry, "pending_payment"}

\* A request about to store something else than the status read it before the
\* status changed.
OldValues ==
  \A r \in Readers \ straddles :
    pc[r] \in {"store", "storeAlone"} => value[r] = status

\* An entry that is there has not expired, and was given its lifetime in the past.
EntryLives == entry # NoEntry => now < expiresAt /\ expiresAt <= now + Ttl + Jitter

\* What is left of the entry of before the commit was stored before it.
OldEntry ==
  entry # NoEntry /\ entry # status /\ ~raced =>
    writer < 2 /\ expiresAt <= settledAt + Ttl + Jitter

CacheInv == CacheTypes /\ LockHeld /\ BeforeCommit /\ OldValues /\ EntryLives /\ OldEntry
-----------------------------------------------------------------------------
\* Nothing is cached, and nobody reads, at first.
LEMMA CacheInit ==
  ASSUME Cache!Init PROVE CacheInv
<1>1. CacheTypes
  <2>1. raced \in BOOLEAN
    BY Zenon DEF Cache!Init
  <2>2. writer \in 0 .. 2 /\ settledAt \in Nat /\ expiresAt \in Nat /\ now \in Nat
    BY DEF Cache!Init
  <2>3. pc \in [Readers -> ReaderSteps] /\ value \in [Readers -> Statuses]
    BY DEF Cache!Init, Statuses, ReaderSteps
  <2> QED
    BY <2>1, <2>2, <2>3 DEF Cache!Init, CacheTypes, Statuses
<1>2. LockHeld /\ OldValues
  BY DEF Cache!Init, LockHeld, OldValues
<1>3. BeforeCommit /\ EntryLives /\ OldEntry
  BY DEF Cache!Init, BeforeCommit, EntryLives, OldEntry
<1> QED
  BY <1>1, <1>2, <1>3 DEF CacheInv

\* A step that leaves Redis' entry, the order and the clock alone keeps what is
\* said about them, whatever else it does.
LEMMA ReaderStep ==
  ASSUME CacheInv, CacheTypes', LockHeld',
         UNCHANGED <<status, writer, settledAt, entry, expiresAt, raced, now>>,
         straddles' \subseteq straddles,
         \A r \in Readers \ straddles' :
           pc'[r] \in {"store", "storeAlone"} =>
             \/ value'[r] = status
             \/ r \notin straddles /\ pc[r] \in {"store", "storeAlone"} /\ value'[r] = value[r]
  PROVE  CacheInv'
BY DEF CacheInv, BeforeCommit, OldValues, EntryLives, OldEntry

\* A read finds the entry, or goes on to the lock.
LEMMA ReadStep ==
  ASSUME CacheInv, NEW r \in Readers, Cache!Read(r)
  PROVE  CacheInv'
<1> USE DEF Cache!Read, Cache!Return, Cache!Goto, Cache!redisVars, Cache!writerVars
<1>1. CacheTypes'
  BY DEF CacheInv, CacheTypes, ReaderSteps
<1>2. LockHeld'
  BY DEF CacheInv, CacheTypes, LockHeld
<1> QED
  BY <1>1, <1>2, ReaderStep DEF CacheInv, CacheTypes

\* A waiter's time runs out.
LEMMA DeadlineStep ==
  ASSUME CacheInv, NEW r \in Readers, Cache!DeadlinePasses(r)
  PROVE  CacheInv'
<1> USE DEF Cache!DeadlinePasses, Cache!redisVars, Cache!writerVars, Cache!historyVars
<1>1. CacheTypes' /\ LockHeld'
  BY DEF CacheInv, CacheTypes, LockHeld
<1> QED
  BY <1>1, ReaderStep DEF CacheInv, CacheTypes

\* SET NX: nobody who still counts on the lock had it.
LEMMA AcquireStep ==
  ASSUME CacheInv, NEW r \in Readers, Cache!AcquireLock(r)
  PROVE  CacheInv'
<1> USE DEF Cache!AcquireLock, Cache!Goto, Cache!writerVars, Cache!historyVars
<1>1. CacheTypes'
  BY DEF CacheInv, CacheTypes, ReaderSteps
<1>2. LockHeld'
  BY CacheAssumption DEF CacheInv, CacheTypes, LockHeld
<1> QED
  BY <1>1, <1>2, ReaderStep DEF CacheInv, CacheTypes

\* The query returns the status there is.
LEMMA LoadStep ==
  ASSUME CacheInv, NEW r \in Readers, Cache!Load(r)
  PROVE  CacheInv'
<1> USE DEF Cache!Load, Cache!Goto, Cache!redisVars, Cache!writerVars, Cache!historyVars
<1>1. CacheTypes'
  BY DEF CacheInv, CacheTypes, ReaderSteps
<1>2. LockHeld'
  BY DEF CacheInv, CacheTypes, LockHeld
<1> QED
  BY <1>1, <1>2, ReaderStep DEF CacheInv, CacheTypes

\* The query or the SET fails.
LEMMA LoadFailsStep ==
  ASSUME CacheInv, NEW r \in Readers, Cache!LoadFails(r)
  PROVE  CacheInv'
<1> USE DEF Cache!LoadFails, Cache!Return, Cache!Goto, Cache!redisVars, Cache!writerVars
<1>1. CacheTypes'
  BY DEF CacheInv, CacheTypes, ReaderSteps
<1>2. LockHeld'
  BY DEF CacheInv, CacheTypes, LockHeld
<1> QED
  BY <1>1, <1>2, ReaderStep DEF CacheInv, CacheTypes

\* The entry is stored, and is old only if its request straddles the commit.
LEMMA StoreStep ==
  ASSUME CacheInv, NEW r \in Readers, Cache!Store(r)
  PROVE  CacheInv'
<1>1. /\ entry' = value[r] /\ raced' = (r \in straddles) /\ pc[r] \in {"store", "storeAlone"}
      /\ UNCHANGED <<value, lock, status, writer, settledAt, now>>
      /\ straddles' \subseteq straddles /\ lapsed' \subseteq lapsed
      /\ \A s \in Readers \ {r} : pc'[s] = pc[s] /\ (s \in straddles' <=> s \in straddles)
      /\ pc'[r] \in {"release", "idle"} /\ pc' \in [Readers -> ReaderSteps]
  BY DEF Cache!Store, Cache!Return, Cache!Goto, Cache!writerVars, CacheInv, CacheTypes,
         ReaderSteps
<1>2. PICK j \in 0 .. Jitter : expiresAt' = now + (Ttl + j)
  BY DEF Cache!Store, Cache!Lifetimes
<1>3. expiresAt' \in Nat /\ now < expiresAt' /\ expiresAt' <= now + Ttl + Jitter
  BY <1>2, CacheAssumption DEF CacheInv, CacheTypes
<1>4. CacheTypes'
  BY <1>1, <1>3 DEF CacheInv, CacheTypes
<1>5. LockHeld'
  BY DEF Cache!Store, Cache!Return, Cache!Goto, CacheInv, CacheTypes, LockHeld
<1>6. OldValues'
  BY <1>1 DEF CacheInv, OldValues
<1>7. r \notin straddles => value[r] = status
  BY <1>1 DEF CacheInv, OldValues
<1>8. BeforeCommit' /\ OldEntry'
  BY <1>1, <1>7 DEF CacheInv, BeforeCommit, OldEntry
<1>9. EntryLives'
  BY <1>1, <1>3 DEF EntryLives
<1> QED
  BY <1>4, <1>5, <1>6, <1>8, <1>9 DEF CacheInv

\* DELEX IFEQ leaves the lock of anybody else.
LEMMA ReleaseStep ==
  ASSUME CacheInv, NEW r \in Readers, Cache!ReleaseLock(r) \/ Cache!Crash(r)
  PROVE  CacheInv'
<1> USE DEF Cache!ReleaseLock, Cache!Crash, Cache!Released, Cache!Return, Cache!Goto,
       Cache!writerVars
<1>1. CacheTypes'
  BY DEF CacheInv, CacheTypes, ReaderSteps
<1>2. LockHeld'
  BY DEF CacheInv, CacheTypes, LockHeld
<1> QED
  BY <1>1, <1>2, ReaderStep DEF CacheInv, CacheTypes

\* The lock expires under its owner.
LEMMA LockExpiresStep ==
  ASSUME CacheInv, Cache!LockExpires
  PROVE  CacheInv'
<1> USE DEF Cache!LockExpires, Cache!readerVars, Cache!writerVars
<1>1. CacheTypes' /\ LockHeld'
  BY DEF CacheInv, CacheTypes, LockHeld
<1> QED
  BY <1>1, ReaderStep DEF CacheInv, CacheTypes

\* The entry goes: evicted, deleted by the activity, or expired as time passes.
LEMMA EntryGoesStep ==
  ASSUME CacheInv, Cache!EntryEvicted \/ Cache!DeleteKey \/ Cache!Tick
  PROVE  CacheInv'
<1> USE DEF Cache!EntryEvicted, Cache!DeleteKey, Cache!Tick, Cache!InPhase, Cache!Phases,
       Cache!readerVars, Cache!writerVars, Cache!historyVars
<1>1. /\ UNCHANGED <<pc, value, lock, status, settledAt, lapsed, straddles, raced>>
      /\ now' \in Nat /\ now' >= now /\ writer' \in 0 .. 2
      /\ writer' = writer \/ (writer = 1 /\ entry' = NoEntry)
      /\ \/ entry' = NoEntry /\ expiresAt' = 0
         \/ UNCHANGED <<entry, expiresAt>> /\ (entry # NoEntry => now' < expiresAt)
  BY DEF CacheInv, CacheTypes, EntryLives
<1>2. CacheTypes'
  BY <1>1 DEF CacheInv, CacheTypes
<1>3. LockHeld' /\ OldValues'
  BY <1>1 DEF CacheInv, LockHeld, OldValues
<1>4. BeforeCommit'
  BY <1>1 DEF CacheInv, BeforeCommit
<1>5. EntryLives'
  BY <1>1, CacheAssumption DEF CacheInv, CacheTypes, EntryLives
<1>6. OldEntry'
  BY <1>1 DEF CacheInv, OldEntry
<1> QED
  BY <1>2, <1>3, <1>4, <1>5, <1>6 DEF CacheInv

\* The status changes: who is about to store straddles the commit, and the entry
\* there is has a lifetime given before it.
LEMMA CommitStep ==
  ASSUME CacheInv, Cache!Commit
  PROVE  CacheInv'
<1> USE DEF Cache!Commit, Cache!InPhase, Cache!Phases, Cache!readerVars, Cache!redisVars
<1>1. writer = 0
  BY DEF CacheInv, CacheTypes
<1>2. CacheTypes' /\ LockHeld' /\ EntryLives'
  BY <1>1 DEF CacheInv, CacheTypes, Statuses, LockHeld, EntryLives
<1>3. BeforeCommit'
  BY DEF BeforeCommit
<1>4. OldValues'
  BY DEF CacheInv, CacheTypes, Statuses, OldValues
<1>5. OldEntry'
  BY <1>1 DEF CacheInv, CacheTypes, Statuses, BeforeCommit, EntryLives, OldEntry
<1> QED
  BY <1>2, <1>3, <1>4, <1>5 DEF CacheInv

\* The activity starts over.
LEMMA RetryStep ==
  ASSUME CacheInv, Cache!Retry
  PROVE  CacheInv'
BY DEF Cache!Retry, Cache!readerVars, Cache!redisVars, Cache!historyVars, CacheInv,
       CacheTypes, LockHeld, BeforeCommit, OldValues, EntryLives, OldEntry

\* Every step keeps the invariant.
LEMMA CacheNext ==
  ASSUME CacheInv, [Cache!Next]_(Cache!vars)
  PROVE  CacheInv'
<1>1. CASE UNCHANGED Cache!vars
  BY <1>1
  DEF Cache!vars, Cache!readerVars, Cache!redisVars, Cache!writerVars, Cache!historyVars,
      CacheInv, CacheTypes, LockHeld, BeforeCommit, OldValues, EntryLives, OldEntry
<1>2. CASE Cache!Next
  BY <1>2, ReadStep, DeadlineStep, AcquireStep, LoadStep, LoadFailsStep, StoreStep,
     ReleaseStep, LockExpiresStep, EntryGoesStep, CommitStep, RetryStep
  DEF Cache!Next, Cache!Step
<1> QED
  BY <1>1, <1>2

\* The lock, the entry and the requests under way fit together, for any number
\* of requests on any instances, whatever crashes, expires or is evicted.
THEOREM CacheInvariant == Cache!Spec => []CacheInv
<1>1. Cache!Init => CacheInv
  BY CacheInit
<1>2. CacheInv /\ [Cache!Next]_(Cache!vars) => CacheInv'
  BY CacheNext
<1> QED
  BY <1>1, <1>2, PTL DEF Cache!Spec

\* No stampede: as long as no lock expires under its owner and nobody has waited
\* out his 5 s, one request at a time reads the database for a missing entry.
THEOREM OneReaderLoads == Cache!Spec => []OneLoads
<1>1. Cache!Spec => []CacheInv
  BY CacheInvariant
<1>2. CacheInv => OneLoads
  BY DEF CacheInv, LockHeld, OneLoads
<1> QED
  BY <1>1, <1>2, PTL

\* What is cached of an order is its status, or the status of before a commit
\* whose DEL is still to come and no older than the longest lifetime, or was
\* stored by a request that read before the commit.
THEOREM StaleEntriesAreRaced == Cache!Spec => []StaleOnlyByRace
<1>1. Cache!Spec => []CacheInv
  BY CacheInvariant
<1>2. CacheInv => StaleOnlyByRace
  BY CacheAssumption DEF CacheInv, CacheTypes, EntryLives, OldEntry, StaleOnlyByRace
<1> QED
  BY <1>1, <1>2, PTL

-----------------------------------------------------------------------------
(***************************************************************************)
(* Provisioning.  Its relays are as many as the order outbox has: every    *)
(* instance of the application runs one for each outbox.                   *)
(***************************************************************************)
People == INSTANCE Provisioning

RowStates == {"absent", "unpublished", "published", "deleted"}

ProvisioningTypes ==
  /\ iRow \in [Requests -> RowStates] /\ uRow \in [Requests -> RowStates]
  /\ iClaimed \in [Relays -> SUBSET Requests] /\ iSent \in [Relays -> SUBSET Requests]
  /\ uClaimed \in [Relays -> SUBSET Requests] /\ uSent \in [Relays -> SUBSET Requests]
  /\ iLog \in Seq(Requests) /\ uLog \in Seq(Requests)
  /\ offset \in [People!Groups -> Nat]

\* The identity outbox, its relays and its topic know of registered identities only.
IdentityEvents ==
  /\ \A q \in Requests : iRow[q] # "absent" => q \in identities
  /\ \A i \in Relays : iClaimed[i] \cup iSent[i] \subseteq identities
  /\ \A k \in DOMAIN iLog : iLog[k] \in identities

\* The user outbox, its relays and its topic know of committed users only.
UserEvents ==
  /\ \A q \in Requests : uRow[q] # "absent" => q \in users
  /\ \A i \in Relays : uClaimed[i] \cup uSent[i] \subseteq users
  /\ \A k \in DOMAIN uLog : uLog[k] \in users

PeopleInv == ProvisioningTypes /\ IdentityEvents /\ UserEvents /\ ProvisionedInOrder

-----------------------------------------------------------------------------
\* Nobody is registered at first.
LEMMA PeopleInit == People!Init => PeopleInv
BY DEF People!Init, People!IdentityRelay!Init, People!UserRelay!Init, PeopleInv,
       ProvisioningTypes, RowStates, IdentityEvents, UserEvents, ProvisionedInOrder

\* What is appended to a topic is its last message.
LEMMA AppendRequest ==
  ASSUME NEW s \in Seq(Requests), NEW q \in Requests
  PROVE  /\ Append(s, q) \in Seq(Requests)
         /\ \A k \in DOMAIN Append(s, q) :
              Append(s, q)[k] = q \/ (k \in DOMAIN s /\ Append(s, q)[k] = s[k])
OBVIOUS

\* A registration commits the identity with its event.
LEMMA RegisterStep ==
  ASSUME PeopleInv, NEW q \in Requests, People!Register(q)
  PROVE  PeopleInv'
<1>1. /\ UNCHANGED <<users, accounts, buyers, offset, uRow, uClaimed, uSent, uLog>>
      /\ UNCHANGED <<iClaimed, iSent, iLog>>
      /\ \/ UNCHANGED <<identities, iRow>>
         \/ identities' = identities \cup {q} /\ iRow' = [iRow EXCEPT ![q] = "unpublished"]
  BY DEF People!Register, People!IdentityRelay!Insert, People!userVars, People!identityVars
<1>2. ProvisioningTypes' /\ UserEvents'
  BY <1>1 DEF PeopleInv, ProvisioningTypes, RowStates, UserEvents
<1>3. IdentityEvents'
  BY <1>1 DEF PeopleInv, ProvisioningTypes, IdentityEvents
<1>4. ProvisionedInOrder'
  BY <1>1 DEF PeopleInv, ProvisionedInOrder
<1> QED
  BY <1>2, <1>3, <1>4 DEF PeopleInv

\* The identity relay sends what it claimed, and claims what is committed.
LEMMA IdentityRelayStep ==
  ASSUME PeopleInv, NEW i \in Relays,
         People!IdentityRelayRuns(i) \/ People!IdentityRelayFails(i)
  PROVE  PeopleInv'
<1>1. UNCHANGED <<identities, users, accounts, buyers, offset, uRow, uClaimed, uSent, uLog>>
  BY DEF People!IdentityRelayRuns, People!IdentityRelayFails, People!tableVars,
         People!userVars
<1>2. ASSUME People!IdentityRelay!Claim(i) PROVE ProvisioningTypes' /\ IdentityEvents'
  <2>1. People!IdentityRelay!Batch \subseteq {q \in Requests : iRow[q] # "absent"}
    BY DEF People!IdentityRelay!Batch, People!IdentityRelay!Free
  <2> QED
    BY <1>1, <1>2, <2>1
    DEF People!IdentityRelay!Claim, PeopleInv, ProvisioningTypes, IdentityEvents
<1>3. ASSUME People!IdentityRelay!Commit(i) PROVE ProvisioningTypes' /\ IdentityEvents'
  BY <1>1, <1>3
  DEF People!IdentityRelay!Commit, People!IdentityRelay!Marked, PeopleInv,
      ProvisioningTypes, RowStates, IdentityEvents
<1>4. ASSUME People!IdentityRelay!Rollback(i) PROVE ProvisioningTypes' /\ IdentityEvents'
  BY <1>1, <1>4
  DEF People!IdentityRelay!Rollback, PeopleInv, ProvisioningTypes, IdentityEvents
<1>5. ASSUME NEW q \in Requests,
             People!IdentityRelay!Publish(i, q) \/ People!IdentityRelay!PublishFails(i, q)
      PROVE  ProvisioningTypes' /\ IdentityEvents'
  <2>1. /\ q \in iClaimed[i] /\ iLog' \in {iLog, Append(iLog, q)}
        /\ UNCHANGED <<iRow, iClaimed>>
        /\ iSent' = iSent \/ iSent' = [iSent EXCEPT ![i] = @ \cup {q}]
    BY <1>5
    DEF People!IdentityRelay!Publish, People!IdentityRelay!PublishFails,
        People!IdentityRelay!IsNext
  <2>2. q \in identities
    BY <2>1 DEF PeopleInv, IdentityEvents
  <2>3. iLog' \in Seq(Requests) /\ \A k \in DOMAIN iLog' : iLog'[k] \in identities
    <3>1. iLog \in Seq(Requests) /\ \A k \in DOMAIN iLog : iLog[k] \in identities
      BY DEF PeopleInv, ProvisioningTypes, IdentityEvents
    <3>2. CASE iLog' = Append(iLog, q)
      BY <2>2, <3>1, <3>2, AppendRequest
    <3> QED
      BY <2>1, <3>1, <3>2
  <2>4. /\ iSent' \in [Relays -> SUBSET Requests]
        /\ \A j \in Relays : iSent'[j] \subseteq iSent[j] \cup {q}
    <3>1. iSent \in [Relays -> SUBSET Requests]
      BY DEF PeopleInv, ProvisioningTypes
    <3>2. CASE iSent' = iSent
      BY <3>1, <3>2
    <3>3. CASE iSent' = [iSent EXCEPT ![i] = @ \cup {q}]
      BY <3>1, <3>3
    <3> QED
      BY <2>1, <3>2, <3>3
  <2>5. ProvisioningTypes'
    BY <1>1, <2>1, <2>3, <2>4 DEF PeopleInv, ProvisioningTypes
  <2>6. IdentityEvents'
    BY <1>1, <2>1, <2>2, <2>3, <2>4 DEF PeopleInv, IdentityEvents
  <2> QED
    BY <2>5, <2>6
<1>6. ProvisioningTypes' /\ IdentityEvents'
  BY <1>2, <1>3, <1>4, <1>5 DEF People!IdentityRelayRuns, People!IdentityRelayFails
<1>7. UserEvents' /\ ProvisionedInOrder'
  BY <1>1 DEF PeopleInv, UserEvents, ProvisionedInOrder
<1> QED
  BY <1>6, <1>7 DEF PeopleInv

\* The user relay sends what it claimed, and claims what is committed.
LEMMA UserRelayStep ==
  ASSUME PeopleInv, NEW i \in Relays, People!UserRelayRuns(i) \/ People!UserRelayFails(i)
  PROVE  PeopleInv'
<1>1. UNCHANGED <<identities, users, accounts, buyers, offset, iRow, iClaimed, iSent, iLog>>
  BY DEF People!UserRelayRuns, People!UserRelayFails, People!tableVars, People!identityVars
<1>2. ASSUME People!UserRelay!Claim(i) PROVE ProvisioningTypes' /\ UserEvents'
  <2>1. People!UserRelay!Batch \subseteq {q \in Requests : uRow[q] # "absent"}
    BY DEF People!UserRelay!Batch, People!UserRelay!Free
  <2> QED
    BY <1>1, <1>2, <2>1 DEF People!UserRelay!Claim, PeopleInv, ProvisioningTypes, UserEvents
<1>3. ASSUME People!UserRelay!Commit(i) PROVE ProvisioningTypes' /\ UserEvents'
  BY <1>1, <1>3
  DEF People!UserRelay!Commit, People!UserRelay!Marked, PeopleInv, ProvisioningTypes,
      RowStates, UserEvents
<1>4. ASSUME People!UserRelay!Rollback(i) PROVE ProvisioningTypes' /\ UserEvents'
  BY <1>1, <1>4 DEF People!UserRelay!Rollback, PeopleInv, ProvisioningTypes, UserEvents
<1>5. ASSUME NEW q \in Requests,
             People!UserRelay!Publish(i, q) \/ People!UserRelay!PublishFails(i, q)
      PROVE  ProvisioningTypes' /\ UserEvents'
  <2>1. /\ q \in uClaimed[i] /\ uLog' \in {uLog, Append(uLog, q)}
        /\ UNCHANGED <<uRow, uClaimed>>
        /\ uSent' = uSent \/ uSent' = [uSent EXCEPT ![i] = @ \cup {q}]
    BY <1>5
    DEF People!UserRelay!Publish, People!UserRelay!PublishFails, People!UserRelay!IsNext
  <2>2. q \in users
    BY <2>1 DEF PeopleInv, UserEvents
  <2>3. uLog' \in Seq(Requests) /\ \A k \in DOMAIN uLog' : uLog'[k] \in users
    <3>1. uLog \in Seq(Requests) /\ \A k \in DOMAIN uLog : uLog[k] \in users
      BY DEF PeopleInv, ProvisioningTypes, UserEvents
    <3>2. CASE uLog' = Append(uLog, q)
      BY <2>2, <3>1, <3>2, AppendRequest
    <3> QED
      BY <2>1, <3>1, <3>2
  <2>4. /\ uSent' \in [Relays -> SUBSET Requests]
        /\ \A j \in Relays : uSent'[j] \subseteq uSent[j] \cup {q}
    <3>1. uSent \in [Relays -> SUBSET Requests]
      BY DEF PeopleInv, ProvisioningTypes
    <3>2. CASE uSent' = uSent
      BY <3>1, <3>2
    <3>3. CASE uSent' = [uSent EXCEPT ![i] = @ \cup {q}]
      BY <3>1, <3>3
    <3> QED
      BY <2>1, <3>2, <3>3
  <2>5. ProvisioningTypes'
    BY <1>1, <2>1, <2>3, <2>4 DEF PeopleInv, ProvisioningTypes
  <2>6. UserEvents'
    BY <1>1, <2>1, <2>2, <2>3, <2>4 DEF PeopleInv, UserEvents
  <2> QED
    BY <2>5, <2>6
<1>6. ProvisioningTypes' /\ UserEvents'
  BY <1>2, <1>3, <1>4, <1>5 DEF People!UserRelayRuns, People!UserRelayFails
<1>7. IdentityEvents' /\ ProvisionedInOrder'
  BY <1>1 DEF PeopleInv, IdentityEvents, ProvisionedInOrder
<1> QED
  BY <1>6, <1>7 DEF PeopleInv

\* A consumer group handles a message of its topic: whoever it is about is there.
LEMMA EachMessageStep ==
  ASSUME PeopleInv, NEW g \in People!Groups, offset[g] < Len(People!Topic(g)),
         People!EachMessage(g, People!Topic(g)[offset[g] + 1]),
         UNCHANGED <<identities, People!identityVars>>,
         offset' \in [People!Groups -> Nat]
  PROVE  PeopleInv'
<1> DEFINE q == People!Topic(g)[offset[g] + 1]
<1>1. /\ q \in Requests
      /\ g = "user.profile" => q \in identities
      /\ g # "user.profile" => q \in users
  <2>1. offset[g] \in Nat /\ People!Topic(g) \in Seq(Requests)
    BY DEF PeopleInv, ProvisioningTypes, People!Topic
  <2>2. offset[g] + 1 \in DOMAIN People!Topic(g) /\ q \in Requests
    BY <2>1
  <2> QED
    BY <2>2 DEF People!Topic, PeopleInv, IdentityEvents, UserEvents
<1> HIDE DEF q
<1>2. UNCHANGED <<iRow, iClaimed, iSent, iLog, identities>>
  BY DEF People!identityVars
<1>3. CASE g = "user.profile"
  <2>1. /\ UNCHANGED <<accounts, buyers, uClaimed, uSent, uLog>>
        /\ \/ UNCHANGED <<users, uRow>>
           \/ users' = users \cup {q} /\ uRow' = [uRow EXCEPT ![q] = "unpublished"]
    BY <1>3
    DEF q, People!EachMessage, People!Reject, People!Effect, People!CreateUser,
        People!UserRelay!Insert, People!userVars
  <2>2. ProvisioningTypes' /\ IdentityEvents'
    BY <1>1, <1>2, <2>1 DEF PeopleInv, ProvisioningTypes, RowStates, IdentityEvents
  <2>3. UserEvents'
    BY <1>1, <2>1 DEF PeopleInv, ProvisioningTypes, UserEvents
  <2>4. ProvisionedInOrder'
    BY <1>1, <1>2, <1>3, <2>1 DEF PeopleInv, ProvisionedInOrder
  <2> QED
    BY <2>2, <2>3, <2>4 DEF PeopleInv
<1>4. CASE g # "user.profile"
  <2>1. /\ UNCHANGED <<users, uRow, uClaimed, uSent, uLog>>
        /\ accounts' \subseteq accounts \cup {q} /\ buyers' \subseteq buyers \cup {q}
    BY <1>4 DEF q, People!EachMessage, People!Rejects, People!Effect, People!userVars
  <2>2. ProvisioningTypes' /\ IdentityEvents' /\ UserEvents'
    BY <1>2, <2>1 DEF PeopleInv, ProvisioningTypes, IdentityEvents, UserEvents
  <2>3. ProvisionedInOrder'
    BY <1>1, <1>2, <1>4, <2>1 DEF PeopleInv, ProvisionedInOrder
  <2> QED
    BY <2>2, <2>3 DEF PeopleInv
<1> QED
  BY <1>3, <1>4

\* Every step keeps the invariant.
LEMMA PeopleNext == PeopleInv /\ [People!Next]_(People!vars) => PeopleInv'
<1> SUFFICES ASSUME PeopleInv, [People!Next]_(People!vars) PROVE PeopleInv'
  OBVIOUS
<1>1. CASE UNCHANGED People!vars
  BY <1>1
  DEF People!vars, People!tableVars, People!identityVars, People!userVars, PeopleInv,
      ProvisioningTypes, IdentityEvents, UserEvents, ProvisionedInOrder
<1>2. ASSUME NEW g \in People!Groups, People!Handle(g) \/ People!HandleUncommitted(g)
      PROVE  PeopleInv'
  <2>1. offset' \in [People!Groups -> Nat]
    BY <1>2 DEF People!Handle, People!HandleUncommitted, PeopleInv, ProvisioningTypes
  <2> QED
    BY <1>2, <2>1, EachMessageStep DEF People!Handle, People!HandleUncommitted
<1> QED
  BY <1>1, <1>2, RegisterStep, IdentityRelayStep, UserRelayStep DEF People!Next

\* Every state of a behaviour is one of the invariant.
LEMMA PeopleInvariant == People!Spec => []PeopleInv
<1>1. People!Init => PeopleInv
  BY PeopleInit
<1>2. PeopleInv /\ [People!Next]_(People!vars) => PeopleInv'
  BY PeopleNext
<1> QED
  BY <1>1, <1>2, PTL DEF People!Spec

\* A person is provisioned in order, for any number of registrations, relays,
\* failed runs and redeliveries: an account or a buyer only for a committed user,
\* a user only for a committed identity.
LEMMA PeopleAreProvisionedInOrder == People!Spec => []ProvisionedInOrder
<1>1. PeopleInv => ProvisionedInOrder
  BY DEF PeopleInv
<1> QED
  BY <1>1, PeopleInvariant, PTL

\* Group g is done with the message of q.
IsDone(g, q) ==
  /\ g = "user.profile" => q \in IF Login[q] \in Refused THEN deadLetters ELSE users
  /\ g = "account.provisioning" => q \in accounts
  /\ g = "order.buyers" => q \in buyers

\* The offset of a group is within its topic, and it is done with what is behind.
OffsetsInv ==
  \A g \in People!Groups :
    /\ offset[g] <= Len(People!Topic(g))
    /\ \A k \in 1 .. offset[g] : IsDone(g, People!Topic(g)[k])

\* Log t is log s, and perhaps more.
IsExtendedBy(s, t) == Len(s) <= Len(t) /\ \A k \in 1 .. Len(s) : t[k] = s[k]

\* A relay only appends to its topic.
LEMMA TopicsGrow ==
  ASSUME PeopleInv, [People!Next]_(People!vars)
  PROVE  IsExtendedBy(iLog, iLog') /\ IsExtendedBy(uLog, uLog')
<1>1. iLog \in Seq(Requests) /\ uLog \in Seq(Requests)
  BY DEF PeopleInv, ProvisioningTypes
<1>2. IsExtendedBy(iLog, iLog) /\ IsExtendedBy(uLog, uLog)
  BY <1>1 DEF IsExtendedBy
<1>3. \A q \in Requests : /\ IsExtendedBy(iLog, Append(iLog, q))
                         /\ IsExtendedBy(uLog, Append(uLog, q))
  BY <1>1 DEF IsExtendedBy
<1>4. CASE UNCHANGED People!vars
  BY <1>2, <1>4 DEF People!vars, People!identityVars, People!userVars
<1>5. ASSUME NEW q \in Requests, People!Register(q) PROVE UNCHANGED <<iLog, uLog>>
  BY <1>5
  DEF People!Register, People!IdentityRelay!Insert, People!identityVars, People!userVars
<1>6. ASSUME NEW i \in Relays, People!IdentityRelayRuns(i) \/ People!IdentityRelayFails(i)
      PROVE  (iLog' = iLog \/ \E q \in Requests : iLog' = Append(iLog, q)) /\ uLog' = uLog
  BY <1>6
  DEF People!IdentityRelayRuns, People!IdentityRelayFails, People!userVars,
      People!IdentityRelay!Claim, People!IdentityRelay!Commit, People!IdentityRelay!Rollback,
      People!IdentityRelay!Publish, People!IdentityRelay!PublishFails
<1>7. ASSUME NEW i \in Relays, People!UserRelayRuns(i) \/ People!UserRelayFails(i)
      PROVE  (uLog' = uLog \/ \E q \in Requests : uLog' = Append(uLog, q)) /\ iLog' = iLog
  BY <1>7
  DEF People!UserRelayRuns, People!UserRelayFails, People!identityVars,
      People!UserRelay!Claim, People!UserRelay!Commit, People!UserRelay!Rollback,
      People!UserRelay!Publish, People!UserRelay!PublishFails
<1>8. ASSUME NEW g \in People!Groups, People!Handle(g) \/ People!HandleUncommitted(g)
      PROVE  UNCHANGED <<iLog, uLog>>
  BY <1>8
  DEF People!Handle, People!HandleUncommitted, People!EachMessage, People!Reject,
      People!Effect, People!CreateUser, People!UserRelay!Insert, People!identityVars,
      People!userVars
<1> QED
  BY <1>2, <1>3, <1>4, <1>5, <1>6, <1>7, <1>8 DEF People!Next

\* A row, or a dead letter, is never taken back, so what is done stays done.
LEMMA DoneStaysDone ==
  ASSUME [People!Next]_(People!vars), NEW g, NEW q, IsDone(g, q)
  PROVE  IsDone(g, q)'
<1>1. /\ users \subseteq users' /\ accounts \subseteq accounts'
      /\ buyers \subseteq buyers' /\ deadLetters \subseteq deadLetters'
  BY DEF People!Next, People!vars, People!tableVars, People!userVars, People!Register,
     People!IdentityRelayRuns, People!IdentityRelayFails, People!UserRelayRuns,
     People!UserRelayFails, People!Handle, People!HandleUncommitted, People!EachMessage,
     People!Reject, People!Effect, People!CreateUser
<1> QED
  BY <1>1 DEF IsDone

\* An offset moves past one message, which its group is done with in that step.
LEMMA OffsetMoves ==
  ASSUME PeopleInv, [People!Next]_(People!vars), NEW g \in People!Groups,
         offset'[g] # offset[g]
  PROVE  /\ offset'[g] = offset[g] + 1 /\ offset[g] < Len(People!Topic(g))
         /\ \A q : q = People!Topic(g)[offset[g] + 1] => IsDone(g, q)'
<1>1. PICK h \in People!Groups : People!Handle(h)
  BY DEF People!Next, People!vars, People!tableVars, People!Register,
     People!IdentityRelayRuns, People!IdentityRelayFails, People!UserRelayRuns,
     People!UserRelayFails, People!HandleUncommitted
<1>2. h = g /\ offset'[g] = offset[g] + 1 /\ offset[g] < Len(People!Topic(g))
  BY <1>1 DEF People!Handle, PeopleInv, ProvisioningTypes
<1>3. ASSUME NEW q, q = People!Topic(g)[offset[g] + 1] PROVE IsDone(g, q)'
  <2>1. People!EachMessage(g, q)
    BY <1>1, <1>2, <1>3 DEF People!Handle
  <2>2. CASE People!Rejects(g, q)
    BY <2>1, <2>2 DEF People!EachMessage, People!Rejects, People!Reject, IsDone
  <2>3. CASE ~People!Rejects(g, q)
    BY <2>1, <2>3
    DEF People!EachMessage, People!Rejects, People!Effect, People!CreateUser, IsDone
  <2> QED
    BY <2>2, <2>3
<1> QED
  BY <1>2, <1>3

\* Every step keeps the offsets behind what is done.
LEMMA OffsetsStep ==
  ASSUME PeopleInv, OffsetsInv, [People!Next]_(People!vars)
  PROVE  OffsetsInv'
<1> SUFFICES ASSUME NEW g \in People!Groups
             PROVE  /\ offset'[g] <= Len(People!Topic(g)')
                    /\ \A k \in 1 .. offset'[g] : IsDone(g, People!Topic(g)[k])'
  BY DEF OffsetsInv
<1> DEFINE s == People!Topic(g)
           t == People!Topic(g)'
<1>1. IsExtendedBy(s, t) /\ s \in Seq(Requests) /\ offset[g] \in Nat
  BY TopicsGrow DEF People!Topic, PeopleInv, ProvisioningTypes
<1>2. t \in Seq(Requests) /\ offset'[g] \in Nat
  BY PeopleNext DEF People!Topic, PeopleInv, ProvisioningTypes
<1>3. offset[g] <= Len(s) /\ \A k \in 1 .. offset[g] : IsDone(g, s[k])
  BY DEF OffsetsInv
<1>4. offset'[g] = offset[g] \/ (offset'[g] = offset[g] + 1 /\ offset[g] < Len(s))
  <2>1. CASE offset'[g] # offset[g]
    BY <2>1, OffsetMoves, Zenon
  <2> QED
    BY <2>1
<1>5. offset'[g] <= Len(t)
  BY <1>1, <1>2, <1>3, <1>4 DEF IsExtendedBy
<1>6. ASSUME NEW k \in 1 .. offset'[g], NEW q, q = t[k] PROVE IsDone(g, q)'
  <2>1. k \in 1 .. Len(s) /\ q = s[k]
    BY <1>1, <1>2, <1>3, <1>4, <1>6 DEF IsExtendedBy
  <2>2. CASE k \in 1 .. offset[g]
    BY <1>3, <2>1, <2>2, DoneStaysDone
  <2>3. CASE k \notin 1 .. offset[g]
    <3>1. offset'[g] # offset[g] /\ k = offset[g] + 1
      BY <1>1, <1>2, <1>4, <2>1, <2>3
    <3> QED
      BY <2>1, <3>1, OffsetMoves
  <2> QED
    BY <2>2, <2>3
<1>7. \A k \in 1 .. offset'[g] : IsDone(g, People!Topic(g)[k])'
  BY <1>6 DEF IsDone
<1> QED
  BY <1>5, <1>7

\* Commit after the effect, for any number of registrations and consumers that
\* die or fail at any moment: a group has done what its offset is past, except
\* for the events its schema refuses, each of which is in the dead-letter topic.
LEMMA OffsetsSkipNothing == People!Spec => []NothingIsSkipped
<1>1. People!Init => OffsetsInv
  BY DEF People!Init, People!IdentityRelay!Init, People!UserRelay!Init, OffsetsInv,
     People!Topic
<1>2. PeopleInv /\ OffsetsInv /\ [People!Next]_(People!vars) => OffsetsInv'
  BY OffsetsStep
<1>3. OffsetsInv => NothingIsSkipped
  BY DEF OffsetsInv, IsDone, NothingIsSkipped, People!Groups, People!Topic
<1> QED
  BY <1>1, <1>2, <1>3, PeopleInvariant, PTL DEF People!Spec

\* A person is provisioned in order and by the topics, through any failures: a
\* table holds all that its group's offset is past, except for the dead letters,
\* and nothing whose cause was not committed.
THEOREM PeopleFollowTopics == People!Spec => []TablesFollowTopics
  BY PeopleAreProvisionedInOrder, OffsetsSkipNothing, PTL DEF TablesFollowTopics

\* Both outboxes of a registration are relays of module OutboxRelay: what is
\* proved of it holds of identity.events and of user.events.
THEOREM OutboxesOfPeople == People!Spec => People!IdentityRelay!Spec /\ People!UserRelay!Spec
<1>1. People!Init => People!IdentityRelay!Init /\ People!UserRelay!Init
  BY DEF People!Init
<1> DEFINE IdentityStep == [People!IdentityRelay!Next]_(People!IdentityRelay!vars)
           UserStep == [People!UserRelay!Next]_(People!UserRelay!vars)
<1>2. ASSUME UNCHANGED People!identityVars PROVE IdentityStep
  BY <1>2 DEF People!identityVars, People!IdentityRelay!vars
<1>3. ASSUME UNCHANGED People!userVars PROVE UserStep
  BY <1>3 DEF People!userVars, People!UserRelay!vars
<1>4. ASSUME NEW q \in Requests, People!IdentityRelay!Insert(q) PROVE IdentityStep
  BY <1>4 DEF People!IdentityRelay!Next
<1>5. ASSUME NEW q \in Requests, People!UserRelay!Insert(q) PROVE UserStep
  BY <1>5 DEF People!UserRelay!Next
<1> HIDE DEF IdentityStep, UserStep
<1>6. ASSUME NEW q \in Requests, People!Register(q) PROVE IdentityStep /\ UserStep
  BY <1>2, <1>3, <1>4, <1>6 DEF People!Register
<1>7. ASSUME NEW i \in Relays, People!IdentityRelayRuns(i) \/ People!IdentityRelayFails(i)
      PROVE  IdentityStep /\ UserStep
  <2>1. UserStep
    BY <1>3, <1>7 DEF People!IdentityRelayRuns, People!IdentityRelayFails
  <2>2. IdentityStep
    BY <1>7
    DEF IdentityStep, People!IdentityRelayRuns, People!IdentityRelayFails,
        People!IdentityRelay!Next
  <2> QED
    BY <2>1, <2>2
<1>8. ASSUME NEW i \in Relays, People!UserRelayRuns(i) \/ People!UserRelayFails(i)
      PROVE  IdentityStep /\ UserStep
  <2>1. IdentityStep
    BY <1>2, <1>8 DEF People!UserRelayRuns, People!UserRelayFails
  <2>2. UserStep
    BY <1>8 DEF UserStep, People!UserRelayRuns, People!UserRelayFails, People!UserRelay!Next
  <2> QED
    BY <2>1, <2>2
<1>9. ASSUME PeopleInv, NEW g \in People!Groups,
             People!Handle(g) \/ People!HandleUncommitted(g)
      PROVE  IdentityStep /\ UserStep
  <2>1. IdentityStep
    BY <1>2, <1>9 DEF People!Handle, People!HandleUncommitted
  <2> DEFINE q == People!Topic(g)[offset[g] + 1]
  <2>2. q \in Requests
    <3>1. offset[g] \in Nat /\ People!Topic(g) \in Seq(Requests)
      BY <1>9 DEF PeopleInv, ProvisioningTypes, People!Topic
    <3> QED
      BY <1>9, <3>1 DEF People!Handle, People!HandleUncommitted
  <2>3. People!UserRelay!Insert(q) \/ UNCHANGED People!userVars
    BY <1>9
    DEF People!Handle, People!HandleUncommitted, People!EachMessage, People!Reject,
        People!Effect, People!CreateUser
  <2> HIDE DEF q
  <2> QED
    BY <1>3, <1>5, <2>1, <2>2, <2>3
<1>10. PeopleInv /\ [People!Next]_(People!vars) => IdentityStep /\ UserStep
  BY <1>2, <1>3, <1>6, <1>7, <1>8, <1>9 DEF People!Next, People!vars
<1>11. People!Spec => []PeopleInv
  BY PeopleInit, PeopleNext, PTL DEF People!Spec
<1> QED
  BY <1>1, <1>10, <1>11, PTL
  DEF People!Spec, People!IdentityRelay!Spec, People!UserRelay!Spec, IdentityStep, UserStep

=============================================================================
