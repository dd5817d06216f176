----------------------------- MODULE OrderPlace -----------------------------
(***************************************************************************)
(* POST /order and what it promises: OrderPlaceCommandHandler writes the   *)
(* order and its OrderWorkflowOutbox row in one transaction, and           *)
(* OrderWorkflowOutboxRelayService starts the workflow of each row, with   *)
(* the order's id as the workflow's.                                       *)
(*                                                                         *)
(* A request stands for the order it creates, if it creates one, and for   *)
(* that order's outbox row.  Requests with one key are a client's retries. *)
(* The relay is OutboxRelay, with starts for sends; what it starts is      *)
(* recorded by Temporal, which outlives a crash of any instance.           *)
(***************************************************************************)
EXTENDS Naturals, Sequences, FiniteSets

CONSTANTS Requests,   \* POST /order requests, by the start of their transaction
          Buyers,     \* identities that order
          Buyer,      \* Buyer[q]: who sent request q
          Key,        \* Key[q]: its Idempotency-Key, or NoKey
          NoKey,
          Relays, BatchSize, MaxFaults   \* see OutboxRelay

ASSUME OrderPlaceAssumption ==
  /\ Requests \subseteq Nat /\ IsFiniteSet(Requests)
  /\ Buyer \in [Requests -> Buyers]
  /\ DOMAIN Key = Requests
  /\ \A q \in Requests : Key[q] # "none"   \* which stands for no row
  /\ BatchSize \in Nat \ {0} /\ MaxFaults \in Nat

VARIABLES buyers,     \* buyers with an OrderBuyer row
          pc,         \* the next statement of each request's transaction
          locked,     \* requests whose transaction holds its advisory lock
          order,      \* order[q]: the idempotencyKey stored, or "none" (no row)
          reply,      \* the status request q was answered with, and its order
          row, phase, claimed, sent, log, faults,   \* see OutboxRelay
          execution,  \* Temporal's state of workflow order-place-<q>
          runs        \* how often that workflow was run (history)

Relay == INSTANCE OutboxRelay WITH Rows <- Requests, Aggregate <- [q \in Requests |-> q]

requestVars == <<buyers, pc, locked, order, reply>>
relayVars == <<row, phase, claimed, sent, log, faults>>
temporalVars == <<execution, runs>>
vars == <<requestVars, relayVars, temporalVars>>

Init ==
  /\ buyers = {}
  /\ pc = [q \in Requests |-> "idle"]
  /\ locked = {}
  /\ order = [q \in Requests |-> "none"]
  /\ reply = [q \in Requests |-> [code |-> "none", orders |-> {}]]
  /\ Relay!Init
  /\ execution = [q \in Requests |-> "none"]
  /\ runs = [q \in Requests |-> 0]

-----------------------------------------------------------------------------
(***************************************************************************)
(* The request's transaction, READ COMMITTED, a step for each statement    *)
(* another transaction can be told apart from.                             *)
(***************************************************************************)

\* user.created reaches OrderUserEventsGateway; INSERT ... ON CONFLICT DO NOTHING.
RegisterBuyer(b) ==
  /\ buyers' = buyers \cup {b}
  /\ UNCHANGED <<pc, locked, order, reply, relayVars, temporalVars>>

SameKey(p, q) == Buyer[p] = Buyer[q] /\ Key[p] = Key[q] /\ Key[q] # NoKey

\* Variant: the lock belongs to the session, and so to a pooled connection.
UnlockedNever(q) == locked

\* pg_advisory_xact_lock is released by the end of the transaction.
Unlocked(q) == locked \ {q}

\* The transaction of q is over and the request answered.
Answer(q, code, orders) ==
  /\ pc' = [pc EXCEPT ![q] = "done"]
  /\ reply' = [reply EXCEPT ![q] = [code |-> code, orders |-> orders]]
  /\ locked' = Unlocked(q)

\* execute: the buyer must exist; createPending begins.
Receive(q) ==
  /\ pc[q] = "idle"
  /\ \/ /\ Buyer[q] \notin buyers
        /\ Answer(q, "409", {})
     \/ /\ Buyer[q] \in buyers
        /\ pc' = [pc EXCEPT ![q] = IF Key[q] = NoKey THEN "price" ELSE "lock"]
        /\ UNCHANGED <<locked, reply>>
  /\ UNCHANGED <<buyers, order, relayVars, temporalVars>>

\* Variant: no advisory lock.
CanLockAlways(q) == TRUE

\* lockIdempotencyKey waits for every other holder of (buyer, key).
CanLock(q) == \A p \in locked : ~SameKey(p, q)

LockIdempotencyKey(q) ==
  /\ pc[q] = "lock"
  /\ CanLock(q)
  /\ locked' = locked \cup {q}
  /\ pc' = [pc EXCEPT ![q] = "find"]
  /\ UNCHANGED <<buyers, order, reply, relayVars, temporalVars>>

\* The committed orders of the buyer with key k.
WithKey(q, k) == {p \in Requests : order[p] = k /\ Buyer[p] = Buyer[q]}

\* findByIdempotencyKey: an order already placed is the answer.
FindByIdempotencyKey(q) ==
  /\ pc[q] = "find"
  /\ \/ \E p \in WithKey(q, Key[q]) : Answer(q, "202", {p})
     \/ /\ WithKey(q, Key[q]) = {}
        /\ pc' = [pc EXCEPT ![q] = "price"]
        /\ UNCHANGED <<locked, reply>>
  /\ UNCHANGED <<buyers, order, relayVars, temporalVars>>

\* offers.findByIds, createRecipient and toPriceItemOrFail: an unknown offer
\* rolls the recipient back.
Price(q) ==
  /\ pc[q] = "price"
  /\ \/ Answer(q, "404", {})
     \/ /\ pc' = [pc EXCEPT ![q] = "create"]
        /\ UNCHANGED <<locked, reply>>
  /\ UNCHANGED <<buyers, order, relayVars, temporalVars>>

\* INSERT of the order.  Order_userId_idempotencyKey_key makes it wait for a
\* transaction that inserted the key, and fail once that has committed.
CreateOrder(q) ==
  /\ pc[q] = "create"
  /\ \A p \in Requests : pc[p] = "commit" => ~SameKey(p, q)
  /\ \/ /\ Key[q] # NoKey /\ WithKey(q, Key[q]) # {}
        /\ Answer(q, "unique violation", {})
     \/ /\ Key[q] = NoKey \/ WithKey(q, Key[q]) = {}
        /\ pc' = [pc EXCEPT ![q] = "commit"]
        /\ UNCHANGED <<locked, reply>>
  /\ UNCHANGED <<buyers, order, relayVars, temporalVars>>

\* The idempotencyKey that createOrder passes on.
StoredKey(q) == Key[q]

\* Variant: the workflow's row is left to be written after the commit.
WorkflowRowMissing(q) == UNCHANGED relayVars

\* workflowOutbox.create, in the order's transaction.
WorkflowRow(q) == Relay!Insert(q)

\* createItems, the two outbox rows, commit.  The client may not get the reply.
CommitOrder(q) ==
  /\ pc[q] = "commit"
  /\ order' = [order EXCEPT ![q] = StoredKey(q)]
  /\ WorkflowRow(q)
  /\ Answer(q, "202", {q}) \/ Answer(q, "lost", {})
  /\ UNCHANGED <<buyers, temporalVars>>

\* A statement fails or the instance dies: nothing is written.
Abort(q) ==
  /\ pc[q] \notin {"idle", "done"}
  /\ Answer(q, "500", {})
  /\ UNCHANGED <<buyers, order, relayVars, temporalVars>>

-----------------------------------------------------------------------------
(***************************************************************************)
(* The relay and Temporal.                                                 *)
(***************************************************************************)

\* Variant: workflowIdReusePolicy ALLOW_DUPLICATE.
AcceptsStartIfNotRunning(q) == execution[q] # "running"

\* USE_EXISTING while it runs, REJECT_DUPLICATE once it has closed: an id is
\* started once.
AcceptsStart(q) == execution[q] = "none"

\* workflow.start reaches Temporal.  An already-started error is a success.
StartReaches(q) ==
  IF AcceptsStart(q)
  THEN /\ execution' = [execution EXCEPT ![q] = "running"]
       /\ runs' = [runs EXCEPT ![q] = @ + 1]
  ELSE UNCHANGED temporalVars

\* start resolves.
Start(i, q) ==
  /\ Relay!Publish(i, q)
  /\ StartReaches(q)
  /\ UNCHANGED requestVars

\* start rejects, after its deadline perhaps with the workflow started.
StartFails(i, q) ==
  /\ Relay!PublishFails(i, q)
  /\ IF log' = log THEN UNCHANGED temporalVars ELSE StartReaches(q)
  /\ UNCHANGED requestVars

\* claimUnstarted, markStarted, a rollback, deleteStarted.
RelayStep(i) ==
  /\ Relay!Claim(i) \/ Relay!Commit(i) \/ Relay!Rollback(i)
  /\ UNCHANGED <<requestVars, temporalVars>>

DeleteStarted ==
  /\ Relay!DeletePublished
  /\ UNCHANGED <<requestVars, temporalVars>>

\* The workflow ends (see Placement).
CloseWorkflow(q) ==
  /\ execution[q] = "running"
  /\ execution' = [execution EXCEPT ![q] = "closed"]
  /\ UNCHANGED <<requestVars, relayVars, runs>>

\* A request's own steps.
Handle(q) ==
  \/ LockIdempotencyKey(q) \/ FindByIdempotencyKey(q)
  \/ Price(q) \/ CreateOrder(q) \/ CommitOrder(q)

Next ==
  \/ \E b \in Buyers : RegisterBuyer(b)
  \/ \E q \in Requests :
       \/ Receive(q) \/ Handle(q) \/ Abort(q) \/ CloseWorkflow(q)
       \/ \E i \in Relays : Start(i, q) \/ StartFails(i, q)
  \/ \E i \in Relays : RelayStep(i)
  \/ DeleteStarted

Spec == Init /\ [][Next]_vars

\* Statements end, a transaction lock is granted in turn, the relay runs on an
\* interval.
Fairness ==
  /\ \A q \in Requests : WF_vars(Handle(q))
  /\ \A i \in Relays :
       WF_vars(RelayStep(i) \/ \E q \in Requests : Start(i, q))

FairSpec == Spec /\ Fairness

-----------------------------------------------------------------------------
Ordered == {q \in Requests : order[q] # "none"}

\* README: "so one key gives one order": the requests of a key create one order
\* at most and are answered with no other, however they interleave, fail or
\* lose their replies.  The second "sees the first one's committed order": the
\* lock makes the look-up decisive, the unique constraint never has to be.
OneOrderPerKey ==
  \A q \in Requests :
    LET retries == {p \in Requests : SameKey(p, q)}
    IN  /\ Cardinality((retries \cap Ordered) \cup UNION {reply[p].orders : p \in retries}) <= 1
        /\ reply[q].code # "unique violation"

\* README: "a start retried after a lost reply never runs a second workflow for
\* the same order"; and no workflow runs for an order that was rolled back.
OneWorkflowPerOrder ==
  \A q \in Requests : runs[q] <= IF q \in Ordered THEN 1 ELSE 0

\* README: "there is never an order without its promise to be placed": a
\* committed order's workflow is started in the end, or has been.
EveryOrderIsStarted ==
  \A q \in Requests : q \in Ordered ~> execution[q] # "none"

\* Every request whose transaction has begun is answered: nobody keeps the
\* advisory lock another request of the key waits for.
EveryRequestIsAnswered ==
  \A q \in Requests : pc[q] # "idle" ~> pc[q] = "done"

=============================================================================
