----------------------------- MODULE Placement -----------------------------
(***************************************************************************)
(* The order placement saga: orderPlaceWorkflow (src/order/workflow) and   *)
(* its activities (src/order/activity) over the account and seller-offer   *)
(* contexts, which answer its RPCs.                                        *)
(*                                                                         *)
(* The workflow is durable: Temporal records every completed activity, so  *)
(* its stage survives a worker crash.  An activity runs as a series of     *)
(* attempts.  An attempt of the four RPC activities publishes a request    *)
(* that expires if it is still queued after the RPC timeout; one of        *)
(* markPaid and markFailed is a database transaction in the worker.  The   *)
(* workflow stops waiting for an attempt that times out, whose activity    *)
(* runs out of time, or when it is cancelled; what the attempt started may *)
(* still run, and is then a late request.                                  *)
(***************************************************************************)
EXTENDS Naturals, Sequences, FiniteSets

CONSTANTS Orders, Customers, Customer, Amount, Opening,  \* see Account
          Offers, OnHand, Quantity,                      \* see Stock
          LateKinds,     \* activities whose abandoned requests may still run
          Cancellable,   \* orders whose workflow an operator may cancel
          Withdrawable   \* offers a seller may soft-delete

VARIABLES stage,        \* the activity the workflow waits for, or how it ended
          failureType,  \* toFailureType of the error it caught, "none" before
          attempt,      \* the awaited attempt of that activity: "idle" (not started, or due
                        \* for a retry), "queued" at the broker, "delivered" to a handler,
                        \* "lost" (no reply will come), or answered "ok" or "rejected"
          late,         \* <<activity, order>> requests nobody waits for
          handledLate,  \* history: reserves and charges that ran once the order had failed
          status,       \* Order.status
          outbox,       \* types of the order's OrderOutbox rows, oldest first
          account, balance, ledger, inbox,         \* see Account
          reservedQuantity, reservation, deleted   \* see Stock

Accounts == INSTANCE Account
Stocks == INSTANCE Stock

accountVars == <<account, balance, ledger, inbox>>
stockVars == <<reservedQuantity, reservation, deleted>>
orderVars == <<status, outbox>>
workflowVars == <<stage, failureType, attempt, late, handledLate>>
vars == <<workflowVars, orderVars, accountVars, stockVars>>

Rpc == {"reserveStock", "chargeCustomer", "refundCustomer", "releaseStock"}
Activities == Rpc \cup {"markPaid", "markFailed"}
Forward == {"reserveStock", "chargeCustomer"}
Closed == {"completed", "failed", "cancelled"}

ASSUME PlacementAssumption ==
  /\ LateKinds \subseteq Activities
  /\ Cancellable \subseteq Orders
  /\ Withdrawable \subseteq Offers

Init ==
  /\ stage = [o \in Orders |-> "outbox"]
  /\ failureType = [o \in Orders |-> "none"]
  /\ attempt = [o \in Orders |-> "idle"]
  /\ late = {}
  /\ handledLate = {}
  /\ status = [o \in Orders |-> "pending_payment"]
  /\ outbox = [o \in Orders |-> <<"order.created">>]
  /\ Accounts!Init
  /\ Stocks!Init

-----------------------------------------------------------------------------
(***************************************************************************)
(* The workflow.                                                           *)
(***************************************************************************)

\* The order's OrderWorkflowOutbox row is relayed: its workflow begins.
StartWorkflow(o) ==
  /\ stage[o] = "outbox"
  /\ stage' = [stage EXCEPT ![o] = "reserveStock"]
  /\ UNCHANGED <<failureType, attempt, late, handledLate, orderVars, accountVars, stockVars>>

\* Variant: a failed charge is compensated by releasing the stock only.
FirstCompensationNoRefund(failed, type) ==
  IF type # "INSUFFICIENT_STOCK" THEN "releaseStock" ELSE "markFailed"

\* Variant: the stock is released for no failure type at all.
FirstCompensationNoRelease(failed, type) ==
  IF failed = "chargeCustomer" /\ type = "other" THEN "refundCustomer" ELSE "markFailed"

\* The first step of the catch block when activity `failed` fails: the charge
\* was sent exactly when chargeCustomer is the activity that failed.
FirstCompensation(failed, type) ==
  IF failed = "chargeCustomer" /\ type # "PAYMENT_REJECTED" THEN "refundCustomer"
  ELSE IF type # "INSUFFICIENT_STOCK" THEN "releaseStock"
  ELSE "markFailed"

\* Variant: the compensation ends with the release, the order is not marked.
NextStageUnmarked(a, type) ==
  CASE a = "reserveStock" -> "chargeCustomer"
    [] a = "chargeCustomer" -> "markPaid"
    [] a = "refundCustomer" -> "releaseStock"
    [] OTHER -> "completed"

\* The stage after activity a succeeded.
NextStage(a, type) ==
  CASE a = "reserveStock" -> "chargeCustomer"
    [] a = "chargeCustomer" -> "markPaid"
    [] a = "markPaid" -> "completed"
    [] a = "refundCustomer" -> IF type # "INSUFFICIENT_STOCK" THEN "releaseStock" ELSE "markFailed"
    [] a = "releaseStock" -> "markFailed"
    [] a = "markFailed" -> IF type = "other" THEN "failed" ELSE "completed"

\* The activity's rejection, a non-retryable ApplicationFailure.
Rejection(a) == IF a = "reserveStock" THEN "INSUFFICIENT_STOCK" ELSE "PAYMENT_REJECTED"

\* toFailure(failureType).status.
FailureStatus(type) == IF type = "PAYMENT_REJECTED" THEN "failed_payment" ELSE "canceled"

\* An attempt of the awaited activity starts, the first or a retry.
StartAttempt(o) ==
  /\ stage[o] \in Activities
  /\ attempt[o] = "idle"
  /\ attempt' = [attempt EXCEPT ![o] = IF stage[o] \in Rpc THEN "queued" ELSE "delivered"]
  /\ UNCHANGED <<stage, failureType, late, handledLate, orderVars, accountVars, stockVars>>

\* The awaited attempt answers in time and the workflow moves on.
Complete(o) ==
  /\ \/ /\ attempt[o] = "ok"
        /\ stage' = [stage EXCEPT ![o] = NextStage(@, failureType[o])]
        /\ UNCHANGED failureType
     \/ /\ attempt[o] = "rejected"
        /\ failureType' = [failureType EXCEPT ![o] = Rejection(stage[o])]
        /\ stage' = [stage EXCEPT ![o] = FirstCompensation(@, Rejection(@))]
  /\ attempt' = [attempt EXCEPT ![o] = "idle"]
  /\ UNCHANGED <<late, handledLate, orderVars, accountVars, stockVars>>

\* Nobody waits for the attempt any longer; in one of the phases given, what
\* it started may still run.
Abandon(o, phases) ==
  /\ attempt' = [attempt EXCEPT ![o] = "idle"]
  /\ \/ UNCHANGED late
     \/ /\ attempt[o] \in phases
        /\ stage[o] \in LateKinds
        /\ late' = late \cup {<<stage[o], o>>}

\* The attempt times out (RPC timeout or startToCloseTimeout, or its worker
\* died) and is retried.  A request still queued has expired by then.
AttemptTimeout(o) ==
  /\ attempt[o] # "idle"
  /\ Abandon(o, {"delivered"})
  /\ UNCHANGED <<stage, failureType, handledLate, orderVars, accountVars, stockVars>>

\* A technical failure: the error is not one of OrderPlaceFailureTypeEnum.  The
\* request of the attempt under way can be queued or delivered.
Fail(o) ==
  /\ stage[o] \in Forward
  /\ failureType' = [failureType EXCEPT ![o] = "other"]
  /\ stage' = [stage EXCEPT ![o] = FirstCompensation(@, "other")]
  /\ Abandon(o, {"queued", "delivered"})
  /\ UNCHANGED <<handledLate, orderVars, accountVars, stockVars>>

\* scheduleToCloseTimeout of reserveStock or chargeCustomer.
GiveUp(o) == Fail(o)

\* Variant: the compensations can be cancelled as well, like markPaid.
CancelInterrupts(o) ==
  /\ o \in Cancellable
  /\ \/ Fail(o)
     \/ /\ stage[o] \in Activities \ Forward
        /\ stage' = [stage EXCEPT ![o] = IF @ = "markPaid" THEN "cancelled" ELSE "failed"]
        /\ Abandon(o, {"delivered"})
        /\ UNCHANGED <<failureType, handledLate, orderVars, accountVars, stockVars>>

\* An operator cancels the workflow.  The catch block runs in a nonCancellable
\* scope, markPaid does not: cancelled there, the workflow just ends.
Cancel(o) ==
  /\ o \in Cancellable
  /\ \/ Fail(o)
     \/ /\ stage[o] = "markPaid"
        /\ stage' = [stage EXCEPT ![o] = "cancelled"]
        /\ Abandon(o, {"delivered"})
        /\ UNCHANGED <<failureType, handledLate, orderVars, accountVars, stockVars>>

-----------------------------------------------------------------------------
(***************************************************************************)
(* The handlers.                                                           *)
(***************************************************************************)

\* Variant: the status is written without WHERE status = 'pending_payment'.
UpdatePendingStatusAlways(o, s, event) ==
  /\ status' = [status EXCEPT ![o] = s]
  /\ outbox' = [outbox EXCEPT ![o] = Append(@, event)]

\* updatePendingStatusById and, if the row changed, its outbox event.
UpdatePendingStatus(o, s, event) ==
  \/ /\ status[o] = "pending_payment"
     /\ status' = [status EXCEPT ![o] = s]
     /\ outbox' = [outbox EXCEPT ![o] = Append(@, event)]
  \/ /\ status[o] # "pending_payment"
     /\ UNCHANGED orderVars

\* The effect of one activity request for order o.
Effect(a, o) ==
  \/ a = "reserveStock" /\ Stocks!Reserve(o) /\ UNCHANGED <<orderVars, accountVars>>
  \/ a = "releaseStock" /\ Stocks!Release(o) /\ UNCHANGED <<orderVars, accountVars>>
  \/ a = "chargeCustomer" /\ Accounts!Charge(o) /\ UNCHANGED <<orderVars, stockVars>>
  \/ a = "refundCustomer" /\ Accounts!Refund(o) /\ UNCHANGED <<orderVars, stockVars>>
  \/ a = "markPaid" /\ UpdatePendingStatus(o, "paid", "order.paid")
       /\ UNCHANGED <<accountVars, stockVars>>
  \/ a = "markFailed"
       /\ UpdatePendingStatus(o, FailureStatus(failureType[o]), "order.failed")
       /\ UNCHANGED <<accountVars, stockVars>>

\* Variant: the activity does not look at the type of the reply.
ReplyAlwaysOk(a, o) == "ok"

\* What the waiting attempt gets back; a nacked request gets no reply.
Reply(a, o) ==
  CASE a = "reserveStock" -> IF Stocks!ReserveReply(o) = "reserved" THEN "ok" ELSE "rejected"
    [] a = "chargeCustomer" ->
         (CASE Accounts!ChargeReply(o) = "success" -> "ok"
            [] Accounts!ChargeReply(o) = "nack" -> "lost"
            [] OTHER -> "rejected")
    [] a = "refundCustomer" -> IF Accounts!RefundReply(o) = "nack" THEN "lost" ELSE "ok"
    [] OTHER -> "ok"

Deliver(o) ==
  /\ attempt[o] = "queued"
  /\ attempt' = [attempt EXCEPT ![o] = "delivered"]
  /\ UNCHANGED <<stage, failureType, late, handledLate, orderVars, accountVars, stockVars>>

\* The handler runs and acknowledges the request.
Handle(o) ==
  /\ attempt[o] = "delivered"
  /\ Effect(stage[o], o)
  /\ attempt' = [attempt EXCEPT ![o] = Reply(stage[o], o)]
  /\ UNCHANGED <<stage, failureType, late, handledLate>>

\* The handler fails, or its process dies after the commit and before the
\* acknowledgement: the broker queues the request again.
Redeliver(o) ==
  /\ stage[o] \in Rpc
  /\ attempt[o] = "delivered"
  /\ Effect(stage[o], o) \/ UNCHANGED <<orderVars, accountVars, stockVars>>
  /\ attempt' = [attempt EXCEPT ![o] = "queued"]
  /\ UNCHANGED <<stage, failureType, late, handledLate>>

\* A late request is handled; nobody reads the reply.  It may be redelivered,
\* or another late attempt of the same activity may follow, so it may stay.
HandleLate(a, o) ==
  /\ <<a, o>> \in late
  /\ Effect(a, o)
  /\ late' \in {late, late \ {<<a, o>>}}
  /\ handledLate' = IF a \in Forward /\ (stage[o] \notin Forward \/ attempt[o] = "rejected")
                    THEN handledLate \cup {<<a, o>>} ELSE handledLate
  /\ UNCHANGED <<stage, failureType, attempt>>

\* A late request expires in its queue, or dies with its worker.
DropLate(a, o) ==
  /\ <<a, o>> \in late
  /\ late' = late \ {<<a, o>>}
  /\ UNCHANGED <<stage, failureType, attempt, handledLate, orderVars, accountVars, stockVars>>

\* The environment: a seller withdraws an offer, a customer's account is created.
Environment ==
  \/ /\ \E f \in Withdrawable : Stocks!SoftDelete(f)
     /\ UNCHANGED <<workflowVars, orderVars, accountVars>>
  \/ /\ \E c \in Customers : Accounts!CreateAccount(c)
     /\ UNCHANGED <<workflowVars, orderVars, stockVars>>

Next ==
  \/ \E o \in Orders :
       \/ StartWorkflow(o) \/ StartAttempt(o) \/ Complete(o)
       \/ AttemptTimeout(o) \/ GiveUp(o) \/ Cancel(o)
       \/ Deliver(o) \/ Handle(o) \/ Redeliver(o)
       \/ \E a \in Activities : HandleLate(a, o) \/ DropLate(a, o)
  \/ Environment

Spec == Init /\ [][Next]_vars

(***************************************************************************)
(* Fairness.  The relay starts every workflow and Temporal every attempt;  *)
(* an RPC that gets no reply times out and scheduleToCloseTimeout ends     *)
(* reserveStock and chargeCustomer.  The other activities are retried      *)
(* without limit, and a service that keeps being asked does, once, deliver *)
(* handle and answer in time: strong fairness.                             *)
(***************************************************************************)
Fairness ==
  \A o \in Orders :
    /\ WF_vars(StartWorkflow(o)) /\ WF_vars(StartAttempt(o))
    /\ WF_vars(AttemptTimeout(o)) /\ WF_vars(GiveUp(o))
    /\ SF_vars(Deliver(o)) /\ SF_vars(Handle(o)) /\ SF_vars(Complete(o))

FairSpec == Spec /\ Fairness

-----------------------------------------------------------------------------
Charged(o) == ledger[o]["PAYMENT"] > ledger[o]["REFUND"]
Holds(o) == \E f \in Offers : reservation[o][f] = "reserved"

\* A paid order has been charged once and holds every one of its items, now
\* and for as long as it is paid, whatever late requests are still handled.  So
\* does one whose workflow was cancelled while it waited for markPaid.
PaidIsBacked ==
  \A o \in Orders : status[o] = "paid" \/ stage[o] = "cancelled" =>
    Charged(o) /\ \A f \in Stocks!Items(o) : reservation[o][f] = "reserved"

\* An order that failed costs nothing: README, "compensates what may already
\* have happened: refundCustomer if the charge was sent".  A charge handled
\* after the refund meets the fence the refund left.  An order whose payment was
\* rejected is not refunded and has no fence: a charge that nobody waited for,
\* and only that, can have been applied to it all the same.
UnpaidIsNotCharged ==
  \A o \in Orders :
    status[o] \in {"canceled", "failed_payment"} /\ Charged(o) =>
      status[o] = "failed_payment" /\ <<"chargeCustomer", o>> \in handledLate

\* A workflow that ended without a paid order left no stock reserved.  Two
\* things can undo it, and no third: a reserve handled when nobody waited for
\* it any more, which no release follows, and an offer withdrawn between a
\* reserve and its retry.
EndedHoldsNoStock ==
  \A o \in Orders :
    stage[o] \in Closed \ {"cancelled"} /\ status[o] # "paid" /\ Holds(o) =>
      <<"reserveStock", o>> \in handledLate \/ deleted \cap Stocks!Items(o) # {}

\* The outbox tells the order's history: one event for its creation and exactly
\* one for the final status, though markPaid and markFailed are retried.
OutboxTellsStatus ==
  \A o \in Orders :
    outbox[o] = CASE status[o] = "pending_payment" -> <<"order.created">>
                  [] status[o] = "paid" -> <<"order.created", "order.paid">>
                  [] OTHER -> <<"order.created", "order.failed">>

\* Every order leaves pending_payment, paid or not: README, "there is never an
\* order without its promise to be placed".  Two kinds do not: one whose workflow
\* was cancelled while it waited for markPaid, and a free one whose charge was
\* sent: charge and refund are both dead-lettered without a reply, and the
\* refund is retried for ever.
EveryOrderSettles ==
  \A o \in Orders :
    <>(\/ status[o] # "pending_payment"
       \/ stage[o] = "cancelled"
       \/ Amount[o] = 0 /\ stage[o] = "refundCustomer")

=============================================================================
