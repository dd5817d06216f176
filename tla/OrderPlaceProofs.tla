-------------------------- MODULE OrderPlaceProofs --------------------------
(***************************************************************************)
(* Proofs about OrderPlace, for any requests, buyers, keys and relays.     *)
(***************************************************************************)
EXTENDS OrderPlace, FiniteSetTheorems, TLAPS

(***************************************************************************)
(* The requests.  A transaction that has looked its key up holds the lock  *)
(* of the key; no two hold the same lock; so what the look-up found stays  *)
(* true until the transaction ends, and the insert meets no other order.   *)
(***************************************************************************)
Labels == {"idle", "lock", "find", "price", "create", "commit", "done"}
StoredKeys == {"none"} \cup {Key[q] : q \in Requests}
Codes == {"none", "202", "404", "409", "500", "lost", "unique violation"}
Replies == [code : Codes, orders : SUBSET Requests]

RequestTypes ==
  /\ pc \in [Requests -> Labels]
  /\ locked \in SUBSET Requests
  /\ order \in [Requests -> StoredKeys]
  /\ reply \in [Requests -> Replies]

\* The advisory lock is held from its statement to the transaction's end.
LockedWhileOpen ==
  \A q \in Requests :
    /\ q \in locked <=> pc[q] \in {"find", "price", "create", "commit"} /\ Key[q] # NoKey
    /\ pc[q] \in {"lock", "find"} => Key[q] # NoKey

LocksApart == \A p, q \in locked : SameKey(p, q) => p = q

\* What findByIdempotencyKey found is still so.
LookupStands ==
  \A q \in Requests :
    pc[q] \in {"price", "create", "commit"} /\ Key[q] # NoKey => WithKey(q, Key[q]) = {}

PlacedWhenDone ==
  \A q \in Requests : order[q] \in {"none", Key[q]} /\ (order[q] # "none" => pc[q] = "done")

OrdersApart == \A p, q \in Ordered : SameKey(p, q) => p = q

\* A reply names the request's own order or the one its key had already.
RepliesNameOrders ==
  \A q \in Requests :
    /\ reply[q].code # "unique violation"
    /\ \A o \in reply[q].orders : o \in Ordered /\ (o = q \/ SameKey(o, q))

RequestInv ==
  /\ RequestTypes /\ LockedWhileOpen /\ LocksApart /\ LookupStands
  /\ PlacedWhenDone /\ OrdersApart /\ RepliesNameOrders

\* A key is not the mark of a missing row.
LEMMA KeyIsNotNone == \A q \in Requests : Key[q] # "none"
BY OrderPlaceAssumption

\* The transaction of q goes on to its next statement.
LEMMA MovesStep ==
  ASSUME RequestInv, NEW q \in Requests, NEW label \in Labels \ {"idle", "done"},
         pc[q] # "done",
         pc' = [pc EXCEPT ![q] = label], UNCHANGED <<order, reply>>,
         locked' = IF pc[q] = "lock" THEN locked \cup {q} ELSE locked,
         pc[q] = "lock" => label = "find" /\ CanLock(q),
         pc[q] = "idle" => label = IF Key[q] = NoKey THEN "price" ELSE "lock",
         pc[q] \notin {"idle", "lock"} => label \in {"price", "create", "commit"},
         pc[q] = "find" => WithKey(q, Key[q]) = {}
  PROVE  RequestInv'
<1> USE DEF RequestInv
<1>1. /\ \A p \in Requests : pc'[p] = IF p = q THEN label ELSE pc[p]
      /\ pc' \in [Requests -> Labels] /\ pc[q] \in Labels /\ label \in Labels
  BY DEF RequestTypes
<1>2. RequestTypes'
  BY <1>1 DEF RequestTypes
<1>3. LockedWhileOpen'
  <2> SUFFICES ASSUME NEW p \in Requests
               PROVE  /\ p \in locked' <=> pc'[p] \in {"find", "price", "create", "commit"} /\ Key[p] # NoKey
                      /\ pc'[p] \in {"lock", "find"} => Key[p] # NoKey
    BY DEF LockedWhileOpen
  <2>1. CASE p # q
    BY <1>1, <2>1 DEF LockedWhileOpen
  <2>2. CASE p = q
    BY <1>1, <2>2 DEF LockedWhileOpen, Labels
  <2>3. QED BY <2>1, <2>2
<1>4. LocksApart'
  BY DEF LocksApart, CanLock, SameKey
<1>5. LookupStands'
  <2> SUFFICES ASSUME NEW p \in Requests, pc'[p] \in {"price", "create", "commit"}, Key[p] # NoKey
               PROVE  WithKey(p, Key[p]) = {}
    BY DEF LookupStands, WithKey
  <2>1. CASE p # q
    BY <1>1, <2>1 DEF LookupStands
  <2>2. CASE p = q
    BY <1>1, <2>2 DEF LookupStands, Labels
  <2>3. QED BY <2>1, <2>2
<1>6. PlacedWhenDone' /\ OrdersApart' /\ RepliesNameOrders'
  BY <1>1 DEF PlacedWhenDone, OrdersApart, RepliesNameOrders, Ordered
<1>7. QED BY <1>2, <1>3, <1>4, <1>5, <1>6

\* The transaction of q ends without an order of its own.
LEMMA AnsweredStep ==
  ASSUME RequestInv, NEW q \in Requests, pc[q] # "done", UNCHANGED order,
         NEW code \in Codes \ {"unique violation"},
         NEW orders \in SUBSET Requests, Answer(q, code, orders),
         \A o \in orders : o \in Ordered /\ SameKey(o, q)
  PROVE  RequestInv'
<1> USE DEF RequestInv
<1>1. /\ \A p \in Requests : pc'[p] = IF p = q THEN "done" ELSE pc[p]
      /\ pc' \in [Requests -> Labels]
      /\ locked' = locked \ {q}
  BY DEF RequestTypes, Answer, Unlocked, Labels
<1> DEFINE new == [code |-> code, orders |-> orders]
<1>2. new \in Replies /\ new.code = code /\ new.orders = orders
  BY DEF Replies
<1>3. reply' = [reply EXCEPT ![q] = new]
  BY DEF Answer
<1> HIDE DEF new
<1>4. reply' \in [Requests -> Replies] /\ \A p \in Requests : reply'[p] = IF p = q THEN new ELSE reply[p]
  BY <1>2, <1>3 DEF RequestTypes
<1>5. RequestTypes'
  BY <1>1, <1>4 DEF RequestTypes
<1>6. LockedWhileOpen' /\ LocksApart'
  BY <1>1 DEF LockedWhileOpen, LocksApart
<1>7. LookupStands'
  BY <1>1 DEF LookupStands, WithKey
<1>8. PlacedWhenDone' /\ OrdersApart'
  BY <1>1 DEF PlacedWhenDone, OrdersApart, Ordered
<1>9. RepliesNameOrders'
  BY <1>2, <1>4 DEF RepliesNameOrders, Ordered
<1>10. QED BY <1>5, <1>6, <1>7, <1>8, <1>9

\* The transaction of q ends and tells of no order.
LEMMA RefusedStep ==
  ASSUME RequestInv, NEW q \in Requests, pc[q] # "done", UNCHANGED order,
         NEW code \in Codes \ {"unique violation"}, Answer(q, code, {})
  PROVE  RequestInv'
<1> DEFINE orders == {}
<1>1. orders \in SUBSET Requests /\ Answer(q, code, orders) /\ \A o \in orders : FALSE
  OBVIOUS
<1> HIDE DEF orders
<1>2. QED BY <1>1, AnsweredStep

\* The transaction of q commits its order.
LEMMA CommitStep ==
  ASSUME RequestInv, NEW q \in Requests, CommitOrder(q)
  PROVE  RequestInv'
<1> USE DEF RequestInv
<1>1. PICK code \in {"202", "lost"}, orders \in SUBSET {q} : Answer(q, code, orders)
  BY DEF CommitOrder
<1>2. /\ pc[q] = "commit" /\ locked' = locked \ {q}
      /\ \A p \in Requests : pc'[p] = IF p = q THEN "done" ELSE pc[p]
      /\ pc' \in [Requests -> Labels]
  BY <1>1 DEF RequestTypes, CommitOrder, Answer, Unlocked, Labels
<1>3. /\ order' \in [Requests -> StoredKeys]
      /\ \A p \in Requests : order'[p] = IF p = q THEN Key[q] ELSE order[p]
  BY DEF RequestTypes, CommitOrder, StoredKey, StoredKeys
<1> DEFINE new == [code |-> code, orders |-> orders]
<1>4. new \in Replies /\ new.code # "unique violation" /\ new.orders \subseteq {q}
  <2>1. code \in Codes /\ code # "unique violation" /\ orders \in SUBSET Requests
    BY DEF Codes
  <2>2. QED BY <2>1 DEF Replies
<1>5. reply' = [reply EXCEPT ![q] = new]
  BY <1>1 DEF Answer
<1> HIDE DEF new
<1>6. reply' \in [Requests -> Replies] /\ \A p \in Requests : reply'[p] = IF p = q THEN new ELSE reply[p]
  BY <1>4, <1>5 DEF RequestTypes
<1>7. Key[q] # "none" /\ order[q] = "none" /\ Ordered' = Ordered \cup {q}
  BY <1>2, <1>3, KeyIsNotNone DEF Ordered, PlacedWhenDone
<1>8. \A p \in Ordered : ~SameKey(p, q)
  BY <1>2 DEF LookupStands, WithKey, SameKey, Ordered, PlacedWhenDone
<1>9. RequestTypes'
  BY <1>2, <1>3, <1>6 DEF RequestTypes
<1>10. LockedWhileOpen' /\ LocksApart'
  BY <1>2 DEF LockedWhileOpen, LocksApart
<1>11. LookupStands'
  <2> SUFFICES ASSUME NEW p \in Requests, pc'[p] \in {"price", "create", "commit"}, Key[p] # NoKey
               PROVE  WithKey(p, Key[p])' = {}
    BY DEF LookupStands, WithKey
  <2>1. p # q /\ pc[p] = pc'[p]
    BY <1>2
  <2>2. ~SameKey(p, q)
    BY <1>2, <2>1 DEF LockedWhileOpen, LocksApart, SameKey
  <2>3. WithKey(p, Key[p]) = {}
    BY <2>1 DEF LookupStands
  <2>4. QED BY <1>3, <2>2, <2>3 DEF WithKey, SameKey
<1>12. PlacedWhenDone'
  BY <1>2, <1>3 DEF PlacedWhenDone
<1>13. OrdersApart'
  BY <1>7, <1>8 DEF OrdersApart, SameKey
<1>14. RepliesNameOrders'
  BY <1>4, <1>6, <1>7 DEF RepliesNameOrders
<1>15. QED BY <1>9, <1>10, <1>11, <1>12, <1>13, <1>14

\* Every step of requests and relays keeps RequestInv.
LEMMA RequestStep ==
  ASSUME RequestInv, [Next]_vars
  PROVE  RequestInv'
<1>1. ASSUME UNCHANGED <<pc, locked, order, reply>> PROVE RequestInv'
  <2> USE <1>1 DEF RequestInv
  <2>1. RequestTypes' /\ LockedWhileOpen' /\ LocksApart'
    BY DEF RequestTypes, LockedWhileOpen, LocksApart
  <2>2. LookupStands'
    BY DEF LookupStands, WithKey
  <2>3. PlacedWhenDone' /\ OrdersApart'
    BY DEF PlacedWhenDone, OrdersApart, Ordered
  <2>4. RepliesNameOrders'
    BY DEF RepliesNameOrders, Ordered
  <2>5. QED BY <2>1, <2>2, <2>3, <2>4
<1>2. ASSUME NEW q \in Requests, Receive(q) PROVE RequestInv'
  <2>1. CASE Answer(q, "409", {})
    BY <1>2, <2>1, RefusedStep DEF Receive, Codes
  <2>2. CASE /\ pc' = [pc EXCEPT ![q] = IF Key[q] = NoKey THEN "price" ELSE "lock"]
             /\ UNCHANGED <<locked, reply>>
    <3>1. PICK label \in {"price", "lock"} : label = IF Key[q] = NoKey THEN "price" ELSE "lock"
      OBVIOUS
    <3>2. label \in Labels \ {"idle", "done"}
      BY DEF Labels
    <3>3. QED BY <1>2, <2>2, <3>1, <3>2, MovesStep DEF Receive
  <2>3. QED BY <1>2, <2>1, <2>2 DEF Receive
<1>3. ASSUME NEW q \in Requests, LockIdempotencyKey(q) PROVE RequestInv'
  BY <1>3, MovesStep DEF LockIdempotencyKey, Labels
<1>4. ASSUME NEW q \in Requests, FindByIdempotencyKey(q) PROVE RequestInv'
  <2>1. ASSUME NEW p \in WithKey(q, Key[q]), Answer(q, "202", {p}) PROVE RequestInv'
    <3>1. p \in Requests /\ order[p] = Key[q] /\ Buyer[p] = Buyer[q]
      BY DEF WithKey
    <3>2. p \in Ordered /\ SameKey(p, q)
      BY <1>4, <3>1, KeyIsNotNone
      DEF Ordered, SameKey, FindByIdempotencyKey, RequestInv, PlacedWhenDone, LockedWhileOpen
    <3>3. QED BY <1>4, <2>1, <3>1, <3>2, AnsweredStep DEF FindByIdempotencyKey, Codes
  <2>2. CASE WithKey(q, Key[q]) = {} /\ pc' = [pc EXCEPT ![q] = "price"] /\ UNCHANGED <<locked, reply>>
    BY <1>4, <2>2, MovesStep DEF FindByIdempotencyKey, Labels
  <2>3. QED BY <1>4, <2>1, <2>2 DEF FindByIdempotencyKey
<1>5. ASSUME NEW q \in Requests, Price(q) PROVE RequestInv'
  <2>1. CASE Answer(q, "404", {})
    BY <1>5, <2>1, RefusedStep DEF Price, Codes
  <2>2. CASE pc' = [pc EXCEPT ![q] = "create"] /\ UNCHANGED <<locked, reply>>
    BY <1>5, <2>2, MovesStep DEF Price, Labels
  <2>3. QED BY <1>5, <2>1, <2>2 DEF Price
<1>6. ASSUME NEW q \in Requests, CreateOrder(q) PROVE RequestInv'
  <2>1. ~(Key[q] # NoKey /\ WithKey(q, Key[q]) # {})
    BY <1>6 DEF CreateOrder, RequestInv, LookupStands
  <2>2. pc' = [pc EXCEPT ![q] = "commit"] /\ UNCHANGED <<locked, reply, order>> /\ pc[q] = "create"
    BY <1>6, <2>1 DEF CreateOrder
  <2>3. QED BY <2>2, MovesStep DEF Labels
<1>7. ASSUME NEW q \in Requests, CommitOrder(q) PROVE RequestInv'
  BY <1>7, CommitStep
<1>8. ASSUME NEW q \in Requests, Abort(q) PROVE RequestInv'
  BY <1>8, RefusedStep DEF Abort, Codes
<1>9. ASSUME NEW b \in Buyers, RegisterBuyer(b) PROVE RequestInv'
  BY <1>1, <1>9 DEF RegisterBuyer
<1>10. ASSUME NEW q \in Requests, CloseWorkflow(q) PROVE RequestInv'
  BY <1>1, <1>10 DEF CloseWorkflow, requestVars
<1>11. ASSUME NEW i \in Relays, NEW q \in Requests, Start(i, q) \/ StartFails(i, q) PROVE RequestInv'
  BY <1>1, <1>11 DEF Start, StartFails, requestVars
<1>12. ASSUME NEW i \in Relays, RelayStep(i) PROVE RequestInv'
  BY <1>1, <1>12 DEF RelayStep, requestVars
<1>13. CASE DeleteStarted
  BY <1>1, <1>13 DEF DeleteStarted, requestVars
<1>14. CASE UNCHANGED vars
  BY <1>1, <1>14 DEF vars, requestVars
<1>15. QED BY <1>2, <1>3, <1>4, <1>5, <1>6, <1>7, <1>8, <1>9, <1>10, <1>11, <1>12, <1>13, <1>14
       DEF Next, Handle

\* The invariant holds of the requests, whatever the relays and Temporal do.
THEOREM RequestInvariant == Spec => []RequestInv
<1>1. Init => RequestInv
  <2> SUFFICES ASSUME Init PROVE RequestInv
    OBVIOUS
  <2>1. /\ pc = [q \in Requests |-> "idle"] /\ locked = {}
        /\ order = [q \in Requests |-> "none"]
        /\ reply = [q \in Requests |-> [code |-> "none", orders |-> {}]]
    BY DEF Init
  <2>2. RequestTypes
    BY <2>1 DEF RequestTypes, Labels, StoredKeys, Replies, Codes
  <2>3. QED BY <2>1, <2>2 DEF RequestInv, LockedWhileOpen, LocksApart, LookupStands,
                             PlacedWhenDone, OrdersApart, RepliesNameOrders, Ordered
<1>2. QED BY <1>1, RequestStep, PTL DEF Spec

\* A set whose elements are all equal has one element at most.
LEMMA AtMostOneElement ==
  ASSUME NEW S, \A x, y \in S : x = y
  PROVE  Cardinality(S) <= 1
<1>1. CASE S = {}
  BY <1>1, FS_EmptySet
<1>2. CASE S # {}
  <2>1. PICK x : S = {x}
    BY <1>2
  <2>2. QED BY <2>1, FS_Singleton
<1>3. QED BY <1>1, <1>2

\* POST /order is idempotent: however the retries of a key interleave, abort or
\* lose their replies, they create one order and are told of no other, and the
\* unique constraint behind the advisory lock is never met.
THEOREM OneKeyOneOrder == Spec => []OneOrderPerKey
<1>1. RequestInv => OneOrderPerKey
  <2> SUFFICES ASSUME RequestInv PROVE OneOrderPerKey
    OBVIOUS
  <2>1. \A q \in Requests : reply[q].code # "unique violation"
    BY DEF RequestInv, RepliesNameOrders
  <2>2. ASSUME NEW q \in Requests
        PROVE  LET retries == {p \in Requests : SameKey(p, q)}
               IN  Cardinality((retries \cap Ordered) \cup UNION {reply[p].orders : p \in retries}) <= 1
    <3> DEFINE retries == {p \in Requests : SameKey(p, q)}
               S == (retries \cap Ordered) \cup UNION {reply[p].orders : p \in retries}
    <3>1. ASSUME NEW x \in S PROVE x \in Ordered /\ SameKey(x, q)
      <4>1. CASE x \in retries \cap Ordered
        BY <4>1
      <4>2. CASE x \in UNION {reply[p].orders : p \in retries}
        <5>1. PICK p \in Requests : SameKey(p, q) /\ x \in reply[p].orders
          BY <4>2
        <5>2. x \in Ordered /\ (x = p \/ SameKey(x, p))
          BY <5>1 DEF RequestInv, RepliesNameOrders
        <5>3. QED BY <5>1, <5>2 DEF SameKey
      <4>3. QED BY <3>1, <4>1, <4>2
    <3>2. \A x, y \in S : x = y
      <4> HIDE DEF S
      <4>1. ASSUME NEW x \in S, NEW y \in S PROVE x = y
        BY <3>1 DEF RequestInv, OrdersApart, SameKey
      <4>2. QED BY <4>1
    <3>3. Cardinality(S) <= 1
      <4> HIDE DEF S
      <4> QED BY <3>2, AtMostOneElement
    <3>4. QED BY <3>3
  <2>3. QED BY <2>1, <2>2 DEF OneOrderPerKey
<1>2. QED BY <1>1, RequestInvariant, PTL

-----------------------------------------------------------------------------
(***************************************************************************)
(* The workflows.  A relay starts only what it has claimed, which is a     *)
(* committed row, and the row was committed with its order; Temporal takes *)
(* the start of an id once.                                                *)
(***************************************************************************)
RelayTypes ==
  /\ row \in [Requests -> {"absent", "unpublished", "published", "deleted"}]
  /\ claimed \in [Relays -> SUBSET Requests]
  /\ sent \in [Relays -> SUBSET Requests]
  /\ execution \in [Requests -> {"none", "running", "closed"}]
  /\ runs \in [Requests -> Nat]

RowsHaveOrders == \A q \in Requests : row[q] # "absent" => q \in Ordered

ClaimsHaveRows ==
  \A i \in Relays : \A q \in claimed[i] \cup sent[i] : row[q] # "absent"

StartedOnce ==
  \A q \in Requests :
    /\ execution[q] = "none" => runs[q] = 0
    /\ runs[q] <= 1
    /\ runs[q] # 0 => row[q] # "absent"

WorkflowInv == RelayTypes /\ RowsHaveOrders /\ ClaimsHaveRows /\ StartedOnce

\* What a start that reaches Temporal does.
LEMMA StartReachesStep ==
  ASSUME WorkflowInv, NEW q \in Requests, StartReaches(q), row[q] # "absent", UNCHANGED row
  PROVE  /\ execution' \in [Requests -> {"none", "running", "closed"}]
         /\ runs' \in [Requests -> Nat]
         /\ StartedOnce'
<1>1. CASE AcceptsStart(q)
  <2>1. /\ execution' = [execution EXCEPT ![q] = "running"]
        /\ runs' = [runs EXCEPT ![q] = @ + 1]
        /\ runs[q] = 0
    BY <1>1 DEF StartReaches, AcceptsStart, WorkflowInv, StartedOnce
  <2>2. /\ execution' \in [Requests -> {"none", "running", "closed"}]
        /\ runs' \in [Requests -> Nat]
        /\ \A p \in Requests : execution'[p] = IF p = q THEN "running" ELSE execution[p]
        /\ \A p \in Requests : runs'[p] = IF p = q THEN 1 ELSE runs[p]
    BY <2>1 DEF WorkflowInv, RelayTypes
  <2>3. QED BY <2>2 DEF WorkflowInv, StartedOnce
<1>2. CASE ~AcceptsStart(q)
  BY <1>2 DEF StartReaches, WorkflowInv, RelayTypes, StartedOnce, temporalVars
<1>3. QED BY <1>1, <1>2

\* A relay has come to the row of q: it is committed.
LEMMA NextHasRow ==
  ASSUME WorkflowInv, NEW i \in Relays, NEW q \in Requests, Relay!IsNext(i, q)
  PROVE  row[q] # "absent" /\ q \in claimed[i]
BY DEF Relay!IsNext, WorkflowInv, ClaimsHaveRows

\* Every step of requests and relays keeps WorkflowInv.
LEMMA WorkflowStep ==
  ASSUME RequestInv, WorkflowInv, [Next]_vars
  PROVE  WorkflowInv'
<1> USE DEF WorkflowInv
<1>1. ASSUME UNCHANGED <<order, relayVars, temporalVars>> PROVE WorkflowInv'
  BY <1>1 DEF RelayTypes, RowsHaveOrders, Ordered, ClaimsHaveRows, StartedOnce, relayVars, temporalVars
<1>2. ASSUME NEW q \in Requests, CommitOrder(q) PROVE WorkflowInv'
  <2>1. /\ \A p \in Requests : row'[p] = IF p = q THEN "unpublished" ELSE row[p]
        /\ row' \in [Requests -> {"absent", "unpublished", "published", "deleted"}]
        /\ UNCHANGED <<claimed, sent, execution, runs>>
    BY <1>2 DEF CommitOrder, WorkflowRow, Relay!Insert, RelayTypes, temporalVars
  <2>2. Ordered' = Ordered \cup {q}
    BY <1>2, KeyIsNotNone DEF CommitOrder, StoredKey, Ordered, RequestInv, RequestTypes
  <2>3. RelayTypes'
    BY <2>1 DEF RelayTypes
  <2>4. RowsHaveOrders'
    BY <2>1, <2>2 DEF RowsHaveOrders
  <2>5. ClaimsHaveRows'
    BY <2>1 DEF ClaimsHaveRows, RelayTypes
  <2>6. StartedOnce'
    BY <2>1 DEF StartedOnce
  <2>7. QED BY <2>3, <2>4, <2>5, <2>6
<1>3. ASSUME NEW q \in Requests, CloseWorkflow(q) PROVE WorkflowInv'
  <2>1. /\ \A p \in Requests : execution'[p] = IF p = q THEN "closed" ELSE execution[p]
        /\ execution' \in [Requests -> {"none", "running", "closed"}]
        /\ UNCHANGED <<order, row, claimed, sent, runs>>
    BY <1>3 DEF CloseWorkflow, RelayTypes, requestVars, relayVars
  <2>2. QED BY <2>1 DEF RelayTypes, RowsHaveOrders, Ordered, ClaimsHaveRows, StartedOnce
<1>4. ASSUME NEW i \in Relays, NEW q \in Requests, Start(i, q) PROVE WorkflowInv'
  <2>1. row[q] # "absent" /\ q \in claimed[i]
    BY <1>4, NextHasRow DEF Start, Relay!Publish
  <2>2. /\ UNCHANGED <<order, row, claimed>>
        /\ sent' \in [Relays -> SUBSET Requests]
        /\ \A j \in Relays : sent'[j] \subseteq sent[j] \cup {q}
    BY <1>4 DEF Start, Relay!Publish, requestVars, RelayTypes
  <2>3. RelayTypes' /\ StartedOnce'
    BY <1>4, <2>1, <2>2, StartReachesStep DEF Start, RelayTypes
  <2>4. RowsHaveOrders' /\ ClaimsHaveRows'
    BY <2>1, <2>2 DEF RowsHaveOrders, Ordered, ClaimsHaveRows
  <2>5. QED BY <2>3, <2>4
<1>5. ASSUME NEW i \in Relays, NEW q \in Requests, StartFails(i, q) PROVE WorkflowInv'
  <2>1. row[q] # "absent" /\ q \in claimed[i]
    BY <1>5, NextHasRow DEF StartFails, Relay!PublishFails
  <2>2. UNCHANGED <<order, row, claimed, sent>>
    BY <1>5 DEF StartFails, Relay!PublishFails, requestVars
  <2>3. RowsHaveOrders' /\ ClaimsHaveRows'
    BY <2>2 DEF RowsHaveOrders, Ordered, ClaimsHaveRows
  <2>4. CASE UNCHANGED temporalVars
    BY <2>2, <2>3, <2>4 DEF RelayTypes, StartedOnce, temporalVars
  <2>5. CASE StartReaches(q)
    BY <2>1, <2>2, <2>3, <2>5, StartReachesStep DEF RelayTypes
  <2>6. QED BY <1>5, <2>4, <2>5 DEF StartFails
<1>6. ASSUME NEW i \in Relays, RelayStep(i) PROVE WorkflowInv'
  <2>1. UNCHANGED <<order, execution, runs>>
    BY <1>6 DEF RelayStep, requestVars, temporalVars
  <2>2. CASE Relay!Claim(i)
    <3>1. /\ UNCHANGED <<row, sent>> /\ Relay!Batch \subseteq Requests
          /\ claimed' \in [Relays -> SUBSET Requests]
          /\ \A j \in Relays : claimed'[j] = IF j = i THEN Relay!Batch ELSE claimed[j]
      BY <2>2 DEF Relay!Claim, Relay!Batch, Relay!Free, RelayTypes
    <3>2. \A q \in Relay!Batch : row[q] # "absent"
      BY DEF Relay!Batch, Relay!Free
    <3>3. ClaimsHaveRows'
      BY <3>1, <3>2 DEF ClaimsHaveRows
    <3>4. QED BY <2>1, <3>1, <3>3 DEF RelayTypes, RowsHaveOrders, Ordered, StartedOnce
  <2>3. CASE Relay!Commit(i)
    <3>1. /\ \A q \in Requests : row'[q] = IF q \in sent[i] THEN "published" ELSE row[q]
          /\ row' \in [Requests -> {"absent", "unpublished", "published", "deleted"}]
      BY <2>3 DEF Relay!Commit, Relay!Marked, RelayTypes
    <3>2. /\ claimed' \in [Relays -> SUBSET Requests] /\ sent' \in [Relays -> SUBSET Requests]
          /\ \A j \in Relays : claimed'[j] \subseteq claimed[j] /\ sent'[j] \subseteq sent[j]
      BY <2>3 DEF Relay!Commit, RelayTypes
    <3>3. \A q \in Requests : row'[q] = "absent" <=> row[q] = "absent"
      BY <3>1 DEF ClaimsHaveRows
    <3>4. \A i1 \in Relays : claimed[i1] \subseteq Requests /\ sent[i1] \subseteq Requests
      BY DEF RelayTypes
    <3>5. ClaimsHaveRows'
      BY <3>2, <3>3, <3>4 DEF ClaimsHaveRows
    <3>6. QED BY <2>1, <3>1, <3>2, <3>3, <3>5 DEF RelayTypes, RowsHaveOrders, Ordered, StartedOnce
  <2>4. CASE Relay!Rollback(i)
    <3>1. /\ UNCHANGED row
          /\ claimed' \in [Relays -> SUBSET Requests] /\ sent' \in [Relays -> SUBSET Requests]
          /\ \A j \in Relays : claimed'[j] \subseteq claimed[j] /\ sent'[j] \subseteq sent[j]
      BY <2>4 DEF Relay!Rollback, RelayTypes
    <3>2. QED BY <2>1, <3>1 DEF RelayTypes, RowsHaveOrders, Ordered, ClaimsHaveRows, StartedOnce
  <2>5. QED BY <1>6, <2>2, <2>3, <2>4 DEF RelayStep
<1>7. CASE DeleteStarted
  <2>1. /\ UNCHANGED <<order, execution, runs, claimed, sent>>
        /\ \A q \in Requests : row'[q] = row[q] \/ (row[q] = "published" /\ row'[q] = "deleted")
        /\ row' \in [Requests -> {"absent", "unpublished", "published", "deleted"}]
    BY <1>7 DEF DeleteStarted, Relay!DeletePublished, requestVars, temporalVars, RelayTypes
  <2>2. QED BY <2>1 DEF RelayTypes, RowsHaveOrders, Ordered, ClaimsHaveRows, StartedOnce
<1>8. ASSUME NEW b \in Buyers, RegisterBuyer(b) PROVE WorkflowInv'
  BY <1>1, <1>8 DEF RegisterBuyer
<1>9. ASSUME NEW q \in Requests,
             \/ Receive(q) \/ LockIdempotencyKey(q) \/ FindByIdempotencyKey(q)
             \/ Price(q) \/ CreateOrder(q) \/ Abort(q)
      PROVE  WorkflowInv'
  BY <1>1, <1>9 DEF Receive, LockIdempotencyKey, FindByIdempotencyKey, Price, CreateOrder, Abort
<1>10. CASE UNCHANGED vars
  BY <1>1, <1>10 DEF vars, requestVars
<1>11. QED BY <1>2, <1>3, <1>4, <1>5, <1>6, <1>7, <1>8, <1>9, <1>10 DEF Next, Handle

\* OrderWorkflowOutboxRelayService starts the workflow of an order once at most,
\* through crashes, lost replies and several relays, and none for an order that
\* was rolled back.
THEOREM OneOrderOneWorkflow == Spec => []OneWorkflowPerOrder
<1>1. Init => WorkflowInv
  BY DEF Init, Relay!Init, WorkflowInv, RelayTypes, RowsHaveOrders, ClaimsHaveRows, StartedOnce
<1>2. RequestInv /\ WorkflowInv => OneWorkflowPerOrder
  <2> SUFFICES ASSUME RequestInv, WorkflowInv, NEW q \in Requests
               PROVE  runs[q] <= IF q \in Ordered THEN 1 ELSE 0
    BY DEF OneWorkflowPerOrder
  <2>1. runs[q] \in Nat /\ runs[q] <= 1 /\ (q \notin Ordered => runs[q] = 0)
    BY DEF WorkflowInv, RelayTypes, StartedOnce, RowsHaveOrders
  <2>2. QED BY <2>1
<1>3. QED BY <1>1, <1>2, WorkflowStep, RequestInvariant, PTL DEF Spec

=============================================================================
