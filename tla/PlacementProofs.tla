-------------------------- MODULE PlacementProofs --------------------------
(***************************************************************************)
(* Proofs about Placement, for any orders, customers, offers, amounts and  *)
(* quantities, with every activity's requests allowed to come late, every  *)
(* workflow cancelled and every offer withdrawn.                           *)
(***************************************************************************)
EXTENDS Placement, TLAPS

Stages == Activities \cup {"outbox", "completed", "failed", "cancelled"}
FailureTypes == {"none", "INSUFFICIENT_STOCK", "PAYMENT_REJECTED", "other"}
Attempts == {"idle", "queued", "delivered", "lost", "ok", "rejected"}
Statuses == {"pending_payment", "paid", "canceled", "failed_payment"}
Events == {"order.created", "order.paid", "order.failed"}
RowStates == {"none", "reserved", "released"}

WorkflowTypes ==
  /\ stage \in [Orders -> Stages]
  /\ failureType \in [Orders -> FailureTypes]
  /\ attempt \in [Orders -> Attempts]

DataTypes ==
  /\ status \in [Orders -> Statuses]
  /\ outbox \in [Orders -> Seq(Events)]
  /\ ledger \in [Orders -> [{"PAYMENT", "REFUND"} -> Nat]]
  /\ reservation \in [Orders -> [Offers -> RowStates]]

-----------------------------------------------------------------------------
(***************************************************************************)
(* What the two contexts keep of an order.                                 *)
(***************************************************************************)
ChargeDone(o) == Accounts!Processed("CUSTOMER_CHARGE", o)
RefundDone(o) == Accounts!Processed("CUSTOMER_REFUND", o)

\* The inbox explains the ledger (as in AccountProofs): an order is charged
\* exactly when its charge is in the inbox and its refund is not.
InboxAgrees(o) ==
  /\ ~ChargeDone(o) => ~RefundDone(o) /\ ledger[o]["PAYMENT"] = 0
  /\ ~RefundDone(o) => ledger[o]["REFUND"] = 0
  /\ ChargeDone(o) /\ ~RefundDone(o) => ledger[o]["PAYMENT"] = 1
  /\ RefundDone(o) => ledger[o]["REFUND"] = ledger[o]["PAYMENT"]

\* The rows of an order are those of its items, all in one state.
RowsAgree(o) ==
  /\ \A f \in Offers : reservation[o][f] # "none" => f \in Stocks!Items(o)
  /\ \A f, g \in Stocks!Items(o) : reservation[o][f] = reservation[o][g]

AllHeld(o) == \A f \in Stocks!Items(o) : reservation[o][f] = "reserved"

\* An order is charged exactly when its charge was processed and no refund was.
LEMMA ChargedIs ==
  ASSUME DataTypes, NEW o \in Orders, InboxAgrees(o)
  PROVE  Charged(o) <=> ChargeDone(o) /\ ~RefundDone(o)
<1>1. CASE ~ChargeDone(o)
  BY <1>1 DEF InboxAgrees, Charged
<1>2. CASE ChargeDone(o) /\ ~RefundDone(o)
  BY <1>2 DEF InboxAgrees, Charged
<1>3. CASE RefundDone(o) /\ ChargeDone(o)
  <2>1. ledger[o]["REFUND"] = ledger[o]["PAYMENT"] /\ ledger[o]["PAYMENT"] \in Nat
    BY <1>3 DEF InboxAgrees, DataTypes
  <2>2. ~(ledger[o]["PAYMENT"] > ledger[o]["REFUND"])
    BY <2>1
  <2>3. QED BY <1>3, <2>2 DEF Charged
<1>4. QED BY <1>1, <1>2, <1>3

\* The contexts' state of order o is left alone.
SameAccount(o) ==
  /\ ledger'[o] = ledger[o]
  /\ ChargeDone(o)' <=> ChargeDone(o)
  /\ RefundDone(o)' <=> RefundDone(o)

SameStock(o) == reservation'[o] = reservation[o]
SameOrder(o) == status'[o] = status[o] /\ outbox'[o] = outbox[o]

\* A charge touches its own order only; a success is in the inbox, a rejection
\* leaves nothing behind.
LEMMA ChargeEffect ==
  ASSUME DataTypes, NEW p \in Orders, InboxAgrees(p), Accounts!Charge(p)
  PROVE  /\ ledger' \in [Orders -> [{"PAYMENT", "REFUND"} -> Nat]]
         /\ \A o \in Orders : o # p => SameAccount(o)
         /\ InboxAgrees(p)'
         /\ RefundDone(p)' <=> RefundDone(p)
         /\ ChargeDone(p) => ChargeDone(p)'
         /\ Accounts!ChargeReply(p) = "success" => ChargeDone(p)'
         /\ Accounts!ChargeReply(p) # "success" => (ChargeDone(p)' <=> ChargeDone(p))
         /\ Accounts!ChargeReply(p) \notin {"success", "nack"} => ~ChargeDone(p)'
<1>1. CASE UNCHANGED accountVars
  <2>1. UNCHANGED <<ledger, inbox>>
    BY <1>1 DEF accountVars
  <2>2. \A o \in Orders : SameAccount(o)
    BY <2>1 DEF SameAccount, ChargeDone, RefundDone, Accounts!Processed
  <2>3. InboxAgrees(p)'
    BY <2>1, <2>2 DEF InboxAgrees, SameAccount
  <2>4. Accounts!ChargeReply(p) = "success" => ChargeDone(p)
    BY <1>1, <2>1 DEF Accounts!ChargeReply, Accounts!Charge, ChargeDone, Accounts!Processed
  <2>5. Accounts!ChargeReply(p) \notin {"success", "nack"} => ~ChargeDone(p)
    BY DEF Accounts!ChargeReply, ChargeDone
  <2>6. QED BY <2>1, <2>2, <2>3, <2>4, <2>5 DEF DataTypes, SameAccount
<1>2. CASE ~UNCHANGED accountVars
  <2>1. /\ Accounts!IsValidMovement(p) /\ Accounts!CanDebit(p) /\ ~ChargeDone(p)
        /\ inbox' = inbox \cup {<<"CUSTOMER_CHARGE", p>>}
        /\ ledger' = [ledger EXCEPT ![p]["PAYMENT"] = @ + 1]
    BY <1>2 DEF Accounts!Charge, Accounts!Row, ChargeDone, accountVars, Accounts!accountVars
  <2>2. /\ ledger' \in [Orders -> [{"PAYMENT", "REFUND"} -> Nat]]
        /\ \A o \in Orders : o # p => ledger'[o] = ledger[o]
        /\ ledger'[p]["PAYMENT"] = ledger[p]["PAYMENT"] + 1
        /\ ledger'[p]["REFUND"] = ledger[p]["REFUND"]
    BY <2>1 DEF DataTypes
  <2>3. \A o \in Orders : /\ ChargeDone(o)' <=> ChargeDone(o) \/ o = p
                          /\ RefundDone(o)' <=> RefundDone(o)
    BY <2>1 DEF ChargeDone, RefundDone, Accounts!Processed
  <2>4. Accounts!ChargeReply(p) = "success"
    BY <2>1 DEF Accounts!ChargeReply
  <2>5. InboxAgrees(p)'
    BY <2>1, <2>2, <2>3 DEF InboxAgrees
  <2>6. QED BY <2>1, <2>2, <2>3, <2>4, <2>5 DEF SameAccount
<1>3. QED BY <1>1, <1>2

\* A refund that is answered is in the inbox, and keeps charges out from then on.
LEMMA RefundEffect ==
  ASSUME DataTypes, NEW p \in Orders, InboxAgrees(p), Accounts!Refund(p)
  PROVE  /\ ledger' \in [Orders -> [{"PAYMENT", "REFUND"} -> Nat]]
         /\ \A o \in Orders : o # p => SameAccount(o)
         /\ InboxAgrees(p)'
         /\ RefundDone(p) => RefundDone(p)'
         /\ Accounts!RefundReply(p) # "nack" => RefundDone(p)'
         /\ RefundDone(p)' \/ SameAccount(p)
<1>1. CASE UNCHANGED accountVars
  <2>1. UNCHANGED <<ledger, inbox>>
    BY <1>1 DEF accountVars
  <2>2. \A o \in Orders : SameAccount(o)
    BY <2>1 DEF SameAccount, ChargeDone, RefundDone, Accounts!Processed
  <2>3. InboxAgrees(p)'
    BY <2>1, <2>2 DEF InboxAgrees, SameAccount
  <2>4. Accounts!RefundReply(p) # "nack" => RefundDone(p)
    BY <1>1, <2>1 DEF Accounts!RefundReply, Accounts!Refund, RefundDone, Accounts!Processed,
                      Accounts!FenceRows
  <2>5. QED BY <2>1, <2>2, <2>3, <2>4 DEF DataTypes, SameAccount
<1>2. CASE /\ ~RefundDone(p) /\ ~ChargeDone(p)
           /\ inbox' = inbox \cup Accounts!FenceRows(p) /\ UNCHANGED ledger
  <2>1. \A o \in Orders : /\ ChargeDone(o)' <=> ChargeDone(o) \/ o = p
                          /\ RefundDone(o)' <=> RefundDone(o) \/ o = p
    BY <1>2 DEF ChargeDone, RefundDone, Accounts!Processed, Accounts!FenceRows
  <2>2. InboxAgrees(p)'
    BY <1>2, <2>1 DEF InboxAgrees
  <2>3. QED BY <1>2, <2>1, <2>2 DEF SameAccount, DataTypes
<1>3. CASE /\ ~RefundDone(p) /\ ChargeDone(p)
           /\ inbox' = inbox \cup {<<"CUSTOMER_REFUND", p>>}
           /\ ledger' = [ledger EXCEPT ![p]["REFUND"] = @ + 1]
  <2>1. \A o \in Orders : /\ ChargeDone(o)' <=> ChargeDone(o)
                          /\ RefundDone(o)' <=> RefundDone(o) \/ o = p
    BY <1>3 DEF ChargeDone, RefundDone, Accounts!Processed
  <2>2. /\ ledger' \in [Orders -> [{"PAYMENT", "REFUND"} -> Nat]]
        /\ \A o \in Orders : o # p => ledger'[o] = ledger[o]
        /\ ledger'[p]["REFUND"] = ledger[p]["REFUND"] + 1
        /\ ledger'[p]["PAYMENT"] = ledger[p]["PAYMENT"]
    BY <1>3 DEF DataTypes
  <2>3. InboxAgrees(p)'
    BY <1>3, <2>1, <2>2 DEF InboxAgrees
  <2>4. QED BY <2>1, <2>2, <2>3 DEF SameAccount
<1>4. QED BY <1>1, <1>2, <1>3 DEF Accounts!Refund, Accounts!Row, ChargeDone, RefundDone,
                                  accountVars, Accounts!accountVars

\* A reserve never undoes a release or a hold, and one that is rejected found
\* nothing held, unless an offer was withdrawn.
LEMMA ReserveEffect ==
  ASSUME DataTypes, NEW p \in Orders, RowsAgree(p), Stocks!Reserve(p)
  PROVE  /\ reservation' \in [Orders -> [Offers -> RowStates]]
         /\ \A o \in Orders : o # p => SameStock(o)
         /\ deleted' = deleted
         /\ RowsAgree(p)'
         /\ \A f \in Offers : reservation'[p][f] = "released" => reservation[p][f] = "released"
         /\ AllHeld(p) => AllHeld(p)'
         /\ /\ Stocks!ReserveReply(p) = "reserved"
            /\ \A f \in Offers : reservation[p][f] # "released"
            => AllHeld(p)'
         /\ Stocks!ReserveReply(p) # "reserved" => ~Holds(p)' \/ deleted \cap Stocks!Items(p) # {}
<1>0. Stocks!Items(p) \subseteq Offers
  BY DEF Stocks!Items
<1>1. CASE Stocks!ReserveReply(p) = "reserved"
  <2>1. /\ reservation' = [reservation EXCEPT ![p] =
             [f \in Offers |-> IF f \in Stocks!Inserted(p) THEN "reserved" ELSE @[f]]]
        /\ deleted' = deleted
    BY <1>1 DEF Stocks!Reserve
  <2>2. /\ reservation' \in [Orders -> [Offers -> RowStates]]
        /\ \A o \in Orders : o # p => reservation'[o] = reservation[o]
        /\ \A f \in Offers : reservation'[p][f] = IF f \in Stocks!Inserted(p) THEN "reserved"
                                                  ELSE reservation[p][f]
    BY <2>1 DEF DataTypes, RowStates
  <2>3. \A f \in Offers : f \in Stocks!Inserted(p)
                            <=> f \in Stocks!Items(p) /\ reservation[p][f] = "none"
    BY <1>0 DEF Stocks!Inserted
  <2>4. RowsAgree(p)'
    BY <1>0, <2>2, <2>3 DEF RowsAgree, Stocks!Items
  <2>5. AllHeld(p) => AllHeld(p)'
    BY <1>0, <2>2, <2>3 DEF AllHeld, Stocks!Items
  <2>6. (\A f \in Offers : reservation[p][f] # "released") => AllHeld(p)'
    BY <1>0, <2>2, <2>3 DEF AllHeld, Stocks!Items, DataTypes, RowStates
  <2>7. QED BY <1>1, <2>1, <2>2, <2>4, <2>5, <2>6 DEF SameStock
<1>2. CASE Stocks!ReserveReply(p) # "reserved"
  <2>1. UNCHANGED <<reservation, deleted>>
    BY <1>2 DEF Stocks!Reserve, Stocks!stockVars
  <2>2. ~Holds(p) \/ deleted \cap Stocks!Items(p) # {}
    <3>1. CASE Stocks!Missing(p) # {}
      BY <3>1 DEF Stocks!Missing
    <3>2. CASE Stocks!Failed(p) # {}
      <4>1. PICK f \in Stocks!Items(p) : reservation[p][f] = "none"
        BY <3>2 DEF Stocks!Failed, Stocks!Inserted
      <4>2. QED BY <4>1 DEF Holds, RowsAgree
    <3>3. QED BY <1>2, <3>1, <3>2 DEF Stocks!ReserveReply
  <2>3. QED BY <1>2, <2>1, <2>2 DEF SameStock, DataTypes, RowsAgree, AllHeld, Holds
<1>3. QED BY <1>1, <1>2

\* After a release its order holds nothing.
LEMMA ReleaseEffect ==
  ASSUME DataTypes, NEW p \in Orders, RowsAgree(p), Stocks!Release(p)
  PROVE  /\ reservation' \in [Orders -> [Offers -> RowStates]]
         /\ \A o \in Orders : o # p => SameStock(o)
         /\ deleted' = deleted
         /\ RowsAgree(p)'
         /\ ~Holds(p)'
<1>0. Stocks!Items(p) \subseteq Offers
  BY DEF Stocks!Items
<1>1. /\ reservation' \in [Orders -> [Offers -> RowStates]]
      /\ \A o \in Orders : o # p => reservation'[o] = reservation[o]
      /\ \A f \in Offers : reservation'[p][f] = IF reservation[p][f] = "reserved" THEN "released"
                                                ELSE reservation[p][f]
      /\ deleted' = deleted
  BY DEF Stocks!Release, Stocks!Active, DataTypes, RowStates
<1>2. RowsAgree(p)'
  BY <1>0, <1>1 DEF RowsAgree, Stocks!Items
<1>3. ~Holds(p)'
  BY <1>1 DEF Holds
<1>4. QED BY <1>1, <1>2, <1>3 DEF SameStock

\* markPaid and markFailed write the status of a pending order, once.
LEMMA StatusEffect ==
  ASSUME DataTypes, NEW p \in Orders, NEW s \in Statuses, NEW e \in Events,
         UpdatePendingStatus(p, s, e)
  PROVE  /\ status' \in [Orders -> Statuses] /\ outbox' \in [Orders -> Seq(Events)]
         /\ \A o \in Orders : o # p => SameOrder(o)
         /\ \/ status[p] # "pending_payment" /\ SameOrder(p)
            \/ /\ status[p] = "pending_payment" /\ status'[p] = s
               /\ outbox'[p] = Append(outbox[p], e)
<1>1. CASE status[p] # "pending_payment"
  BY <1>1 DEF UpdatePendingStatus, orderVars, SameOrder, DataTypes
<1>2. CASE status[p] = "pending_payment"
  <2>1. /\ status' = [status EXCEPT ![p] = s]
        /\ outbox' = [outbox EXCEPT ![p] = Append(@, e)]
    BY <1>2 DEF UpdatePendingStatus
  <2>2. Append(outbox[p], e) \in Seq(Events)
    BY DEF DataTypes
  <2>3. QED BY <1>2, <2>1, <2>2 DEF SameOrder, DataTypes
<1>3. QED BY <1>1, <1>2

-----------------------------------------------------------------------------
(***************************************************************************)
(* The inductive invariant, order by order.  An order's workflow is on its *)
(* way to paid until failureType is set, and never comes back: requests    *)
(* that undo what was done exist only afterwards, and markPaid, awaited or *)
(* late, only before.                                                      *)
(***************************************************************************)
Succeeding == {"outbox", "reserveStock", "chargeCustomer", "markPaid", "completed", "cancelled"}
Recovering == {"refundCustomer", "releaseStock", "markFailed", "completed", "failed"}
PastCharge == {"markPaid", "completed", "cancelled"}
PastRelease == {"markFailed", "completed", "failed"}

Late(a, o) == <<a, o>> \in late
HandledLate(a, o) == <<a, o>> \in handledLate

\* Where the workflow can be, and what can still be under way.
FlowInv(o) ==
  /\ failureType[o] = "none" => stage[o] \in Succeeding
  /\ failureType[o] # "none" => stage[o] \in Recovering
  /\ stage[o] = "refundCustomer" => failureType[o] = "other"
  /\ failureType[o] = "INSUFFICIENT_STOCK" => stage[o] \in PastRelease
  /\ attempt[o] # "idle" => stage[o] \in Activities
  /\ attempt[o] = "rejected" => stage[o] \in Forward
  /\ Late("markPaid", o) => failureType[o] = "none" /\ stage[o] \in PastCharge
  /\ Late("refundCustomer", o) => failureType[o] = "other"
  /\ Late("releaseStock", o) => failureType[o] # "none"
  /\ Late("markFailed", o) => failureType[o] # "none" /\ stage[o] \in PastRelease

\* No charge of the order was applied, and none is under way.
Unsent(o) == ~ChargeDone(o) /\ ~Late("chargeCustomer", o)

MoneyInv(o) ==
  /\ InboxAgrees(o)
  /\ stage[o] \in {"outbox", "reserveStock"} => Unsent(o)
  /\ failureType[o] = "INSUFFICIENT_STOCK" => Unsent(o)
  /\ failureType[o] = "none" => ~RefundDone(o)
  /\ failureType[o] = "none" /\ stage[o] \in PastCharge => ChargeDone(o)
  /\ stage[o] = "chargeCustomer" /\ attempt[o] = "ok" => ChargeDone(o)
  /\ \/ stage[o] = "chargeCustomer" /\ attempt[o] = "rejected"
     \/ failureType[o] = "PAYMENT_REJECTED"
     => ~ChargeDone(o) \/ HandledLate("chargeCustomer", o)
  /\ stage[o] = "refundCustomer" /\ attempt[o] = "ok" => RefundDone(o)
  /\ failureType[o] = "other" /\ stage[o] # "refundCustomer" => RefundDone(o) \/ Unsent(o)

\* The order holds no stock, but for the two causes EndedHoldsNoStock names.
StockSettled(o) ==
  \/ ~Holds(o)
  \/ HandledLate("reserveStock", o)
  \/ deleted \cap Stocks!Items(o) # {}

HoldInv(o) ==
  /\ RowsAgree(o)
  /\ failureType[o] = "none" => \A f \in Offers : reservation[o][f] # "released"
  /\ failureType[o] = "none" /\ stage[o] \in PastCharge \cup {"chargeCustomer"} => AllHeld(o)
  /\ stage[o] = "reserveStock" /\ attempt[o] = "ok" => AllHeld(o)
  /\ \/ stage[o] = "reserveStock" /\ attempt[o] = "rejected"
     \/ stage[o] = "releaseStock" /\ attempt[o] = "ok"
     \/ failureType[o] # "none" /\ stage[o] \in PastRelease
     => StockSettled(o)

StatusInv(o) ==
  /\ status[o] = "paid" => failureType[o] = "none" /\ stage[o] \in PastCharge
  /\ status[o] \notin {"pending_payment", "paid"} =>
       /\ failureType[o] # "none" /\ stage[o] \in PastRelease
       /\ status[o] = FailureStatus(failureType[o])
  /\ stage[o] = "markPaid" /\ attempt[o] = "ok" => status[o] = "paid"
  /\ failureType[o] = "none" /\ stage[o] = "completed" => status[o] = "paid"
  /\ outbox[o] = CASE status[o] = "pending_payment" -> <<"order.created">>
                   [] status[o] = "paid" -> <<"order.created", "order.paid">>
                   [] OTHER -> <<"order.created", "order.failed">>

OrderInv(o) == FlowInv(o) /\ MoneyInv(o) /\ HoldInv(o) /\ StatusInv(o)

Inv == WorkflowTypes /\ DataTypes /\ \A o \in Orders : OrderInv(o)

-----------------------------------------------------------------------------
(***************************************************************************)
(* Frames: a step of one order's saga leaves the other orders alone.       *)
(***************************************************************************)
SameWorkflow(o) ==
  stage'[o] = stage[o] /\ failureType'[o] = failureType[o] /\ attempt'[o] = attempt[o]

SameRequests(o) ==
  \A a \in Activities : /\ Late(a, o)' <=> Late(a, o)
                        /\ HandledLate(a, o)' <=> HandledLate(a, o)

SameContexts(o) == SameAccount(o) /\ SameStock(o) /\ SameOrder(o)

\* What depends on the contexts only.
LEMMA ContextFrame ==
  ASSUME NEW o \in Orders, SameAccount(o), SameStock(o), deleted \subseteq deleted'
  PROVE  /\ InboxAgrees(o) => InboxAgrees(o)'
         /\ RowsAgree(o) => RowsAgree(o)'
         /\ AllHeld(o)' <=> AllHeld(o)
         /\ Holds(o)' <=> Holds(o)
         /\ (\A f \in Offers : reservation'[o][f] # "released")
              <=> (\A f \in Offers : reservation[o][f] # "released")
         /\ deleted \cap Stocks!Items(o) # {} => (deleted \cap Stocks!Items(o) # {})'
<1>1. Stocks!Items(o)' = Stocks!Items(o)
  BY DEF Stocks!Items
<1>2. InboxAgrees(o) => InboxAgrees(o)'
  BY DEF SameAccount, InboxAgrees
<1>3. RowsAgree(o) => RowsAgree(o)'
  BY <1>1 DEF SameStock, RowsAgree
<1>4. (AllHeld(o)' <=> AllHeld(o)) /\ (Holds(o)' <=> Holds(o))
  BY <1>1 DEF SameStock, AllHeld, Holds
<1>5. QED BY <1>1, <1>2, <1>3, <1>4 DEF SameStock

\* The invariant of an order outlives every step that leaves the order alone.
LEMMA OrderFrame ==
  ASSUME NEW o \in Orders, OrderInv(o), SameWorkflow(o), SameRequests(o), SameContexts(o),
         deleted \subseteq deleted'
  PROVE  OrderInv(o)'
<1> USE DEF SameContexts, OrderInv
<1>1. FlowInv(o)'
  BY DEF FlowInv, SameWorkflow, SameRequests, Activities, Rpc
<1>2. MoneyInv(o)'
  BY ContextFrame DEF MoneyInv, Unsent, SameWorkflow, SameRequests, SameAccount, Activities, Rpc
<1>3. HoldInv(o)'
  <2>1. StockSettled(o) => StockSettled(o)'
    BY ContextFrame DEF StockSettled, SameRequests, Activities, Rpc
  <2>2. QED BY <2>1, ContextFrame DEF HoldInv, SameWorkflow
<1>4. StatusInv(o)'
  BY DEF StatusInv, SameWorkflow, SameOrder, FailureStatus
<1>5. QED BY <1>1, <1>2, <1>3, <1>4

\* All orders but p are left alone.
OnlyOrder(p) ==
  /\ \A o \in Orders : o # p => SameWorkflow(o) /\ SameRequests(o) /\ SameContexts(o)
  /\ deleted' = deleted

\* A step of order p keeps the invariant if it keeps that of p.
LEMMA OneOrderStep ==
  ASSUME Inv, NEW p \in Orders, OnlyOrder(p), WorkflowTypes', DataTypes', OrderInv(p)'
  PROVE  Inv'
<1>1. ASSUME NEW o \in Orders, o # p PROVE OrderInv(o)'
  BY <1>1, OrderFrame DEF OnlyOrder, Inv
<1>2. QED BY <1>1 DEF Inv

\* The contexts are untouched by a step of the workflow.
LEMMA NoEffect ==
  ASSUME DataTypes, UNCHANGED <<orderVars, accountVars, stockVars>>
  PROVE  /\ DataTypes' /\ deleted' = deleted
         /\ \A o \in Orders : SameContexts(o)
BY DEF DataTypes, orderVars, accountVars, stockVars, SameContexts, SameAccount, SameStock, SameOrder,
       ChargeDone, RefundDone, Accounts!Processed

\* A step of the workflow of p alone: what is left to check is p's own invariant.
LEMMA WorkflowOnly ==
  ASSUME Inv, NEW p \in Orders,
         UNCHANGED <<handledLate, orderVars, accountVars, stockVars>>, WorkflowTypes',
         \A o \in Orders : o # p => SameWorkflow(o),
         \A o \in Orders, a \in Activities : o # p => (Late(a, o)' <=> Late(a, o)),
         FlowInv(p)',
         /\ FlowInv(p)' /\ OrderInv(p) /\ SameContexts(p) /\ deleted' = deleted
         /\ \A a \in Activities : HandledLate(a, p)' <=> HandledLate(a, p)
         => MoneyInv(p)' /\ HoldInv(p)' /\ StatusInv(p)'
  PROVE  Inv'
<1>1. DataTypes' /\ deleted' = deleted /\ \A o \in Orders : SameContexts(o)
  BY NoEffect DEF Inv
<1>2. \A o \in Orders, a \in Activities : HandledLate(a, o)' <=> HandledLate(a, o)
  BY DEF HandledLate
<1>3. OnlyOrder(p)
  BY <1>1, <1>2 DEF OnlyOrder, SameRequests
<1>4. OrderInv(p)'
  BY <1>1, <1>2 DEF OrderInv, Inv
<1>5. QED BY <1>1, <1>3, <1>4, OneOrderStep

\* What an abandoned attempt leaves behind.
LEMMA Abandoned ==
  ASSUME WorkflowTypes, NEW p \in Orders, NEW phases, Abandon(p, phases)
  PROVE  /\ attempt' \in [Orders -> Attempts] /\ attempt'[p] = "idle"
         /\ \A o \in Orders : o # p => attempt'[o] = attempt[o]
         /\ \A o \in Orders, a \in Activities : o # p => (Late(a, o)' <=> Late(a, o))
         /\ \A a \in Activities : Late(a, p)' => Late(a, p) \/ (a = stage[p] /\ attempt[p] \in phases)
<1>1. /\ attempt' \in [Orders -> Attempts] /\ attempt'[p] = "idle"
      /\ \A o \in Orders : o # p => attempt'[o] = attempt[o]
  BY DEF Abandon, WorkflowTypes, Attempts
<1>2. CASE late' = late
  BY <1>1, <1>2 DEF Late
<1>3. CASE attempt[p] \in phases /\ late' = late \cup {<<stage[p], p>>}
  BY <1>1, <1>3 DEF Late
<1>4. QED BY <1>2, <1>3 DEF Abandon

\* A step that changes the awaited attempt, to nothing that says it was answered.
LEMMA AttemptStep ==
  ASSUME Inv, NEW p \in Orders,
         UNCHANGED <<stage, failureType, handledLate, orderVars, accountVars, stockVars>>,
         attempt' \in [Orders -> Attempts],
         \/ attempt'[p] \in {attempt[p], "idle"}
         \/ stage[p] \in Activities /\ attempt'[p] \in {"queued", "delivered"},
         \A o \in Orders : o # p => attempt'[o] = attempt[o],
         \A o \in Orders, a \in Activities : o # p => (Late(a, o)' <=> Late(a, o)),
         \A a \in Activities : Late(a, p)' => Late(a, p) \/ a = stage[p]
  PROVE  Inv'
<1>1. WorkflowTypes' /\ \A o \in Orders : o # p => SameWorkflow(o)
  BY DEF Inv, WorkflowTypes, SameWorkflow
<1>2. OrderInv(p)
  BY DEF Inv
<1>3. FlowInv(p)'
  BY <1>2 DEF OrderInv, FlowInv, Activities, Rpc, Forward, Succeeding, Recovering, PastCharge, PastRelease
<1>4. ASSUME SameContexts(p), deleted' = deleted,
             \A a \in Activities : HandledLate(a, p)' <=> HandledLate(a, p)
      PROVE  MoneyInv(p)' /\ HoldInv(p)' /\ StatusInv(p)'
  <2> USE <1>4 DEF SameContexts
  <2>1. Unsent(p) => Unsent(p)' \/ stage[p] = "chargeCustomer"
    BY DEF Unsent, SameAccount, Activities, Rpc
  <2>2. MoneyInv(p)'
    BY <1>2, <2>1, ContextFrame
    DEF OrderInv, FlowInv, MoneyInv, SameAccount, Activities, Rpc, Recovering
  <2>3. StockSettled(p) => StockSettled(p)'
    BY ContextFrame DEF StockSettled, Activities, Rpc
  <2>4. HoldInv(p)'
    BY <1>2, <2>3, ContextFrame DEF OrderInv, HoldInv
  <2>5. StatusInv(p)'
    BY <1>2 DEF OrderInv, StatusInv, SameOrder, FailureStatus
  <2>6. QED BY <2>2, <2>4, <2>5
<1>5. QED BY <1>1, <1>3, <1>4, WorkflowOnly

\* The relay starts the workflow.
LEMMA StartWorkflowStep ==
  ASSUME Inv, NEW p \in Orders, StartWorkflow(p)
  PROVE  Inv'
<1>1. OrderInv(p)
  BY DEF Inv
<1>2. /\ stage[p] = "outbox" /\ stage'[p] = "reserveStock" /\ UNCHANGED <<failureType, attempt, late>>
      /\ stage' \in [Orders -> Stages]
      /\ \A o \in Orders : o # p => stage'[o] = stage[o]
  BY DEF StartWorkflow, Inv, WorkflowTypes, Stages, Activities, Rpc
<1>3. failureType[p] = "none" /\ attempt[p] = "idle"
  BY <1>1, <1>2 DEF OrderInv, FlowInv, Recovering, Activities, Rpc
<1>4. WorkflowTypes' /\ \A o \in Orders : o # p => SameWorkflow(o)
  BY <1>2 DEF Inv, WorkflowTypes, SameWorkflow
<1>5. \A o \in Orders, a \in Activities : Late(a, o)' <=> Late(a, o)
  BY <1>2 DEF Late
<1>6. FlowInv(p)'
  BY <1>1, <1>2, <1>3, <1>5 DEF OrderInv, FlowInv, Succeeding, PastCharge, PastRelease, Activities, Rpc
<1>7. ASSUME SameContexts(p), deleted' = deleted,
             \A a \in Activities : HandledLate(a, p)' <=> HandledLate(a, p)
      PROVE  MoneyInv(p)' /\ HoldInv(p)' /\ StatusInv(p)'
  <2> USE <1>7 DEF SameContexts
  <2>1. MoneyInv(p)'
    BY <1>1, <1>2, <1>3, <1>5, ContextFrame
    DEF OrderInv, MoneyInv, Unsent, SameAccount, PastCharge, Activities, Rpc
  <2>2. HoldInv(p)'
    BY <1>1, <1>2, <1>3, ContextFrame DEF OrderInv, HoldInv, PastCharge
  <2>3. StatusInv(p)'
    BY <1>1, <1>2, <1>3 DEF OrderInv, StatusInv, SameOrder, FailureStatus, PastCharge
  <2>4. QED BY <2>1, <2>2, <2>3
<1>8. UNCHANGED <<handledLate, orderVars, accountVars, stockVars>>
  BY DEF StartWorkflow
<1>9. QED BY <1>4, <1>5, <1>6, <1>7, <1>8, WorkflowOnly

\* A step of the workflow that awaits an activity leaves it: p's new stage and
\* failure type are s and t.
LEMMA LeaveStep ==
  ASSUME Inv, NEW p \in Orders, NEW s \in Stages, NEW t \in FailureTypes,
         UNCHANGED <<handledLate, orderVars, accountVars, stockVars>>,
         stage' = [stage EXCEPT ![p] = s],
         failureType' = [failureType EXCEPT ![p] = t],
         attempt' \in [Orders -> Attempts], attempt'[p] = "idle",
         \A o \in Orders : o # p => attempt'[o] = attempt[o],
         \A o \in Orders, a \in Activities : o # p => (Late(a, o)' <=> Late(a, o)),
         \A a \in Activities : Late(a, p)' => Late(a, p) \/ a = stage[p],
         stage'[p] = s /\ failureType'[p] = t => FlowInv(p)',
         /\ stage'[p] = s /\ failureType'[p] = t /\ SameContexts(p) /\ deleted' = deleted
         /\ \A a \in Activities : HandledLate(a, p)' <=> HandledLate(a, p)
         => MoneyInv(p)' /\ HoldInv(p)' /\ StatusInv(p)'
  PROVE  Inv'
<1>1. /\ stage' \in [Orders -> Stages] /\ failureType' \in [Orders -> FailureTypes]
      /\ stage'[p] = s /\ failureType'[p] = t
      /\ \A o \in Orders : o # p => stage'[o] = stage[o] /\ failureType'[o] = failureType[o]
  BY DEF Inv, WorkflowTypes
<1>2. WorkflowTypes' /\ \A o \in Orders : o # p => SameWorkflow(o)
  BY <1>1 DEF WorkflowTypes, SameWorkflow
<1>3. QED BY <1>1, <1>2, WorkflowOnly

\* The awaited activity succeeded.
LEMMA SucceededStep ==
  ASSUME Inv, NEW p \in Orders, Complete(p), attempt[p] = "ok"
  PROVE  Inv'
<1> DEFINE s == NextStage(stage[p], failureType[p])
           t == failureType[p]
<1>1. OrderInv(p) /\ stage[p] \in Stages /\ failureType[p] \in FailureTypes
  BY DEF Inv, WorkflowTypes
<1>2. stage[p] \in Activities
  BY <1>1 DEF OrderInv, FlowInv
<1>3. /\ stage' = [stage EXCEPT ![p] = s]
      /\ failureType' = [failureType EXCEPT ![p] = t]
      /\ UNCHANGED <<late, handledLate, orderVars, accountVars, stockVars>>
  BY DEF Complete, Inv, WorkflowTypes
<1>4. /\ attempt' \in [Orders -> Attempts] /\ attempt'[p] = "idle"
      /\ \A o \in Orders : o # p => attempt'[o] = attempt[o]
  BY DEF Complete, Inv, WorkflowTypes, Attempts
<1>5. \A o \in Orders, a \in Activities : Late(a, o)' <=> Late(a, o)
  BY <1>3 DEF Late
<1>6. /\ stage[p] = "reserveStock" => s = "chargeCustomer"
      /\ stage[p] = "chargeCustomer" => s = "markPaid"
      /\ stage[p] = "markPaid" => s = "completed"
      /\ stage[p] = "refundCustomer" => s = "releaseStock"
      /\ stage[p] = "releaseStock" => s = "markFailed"
      /\ stage[p] = "markFailed" => s \in {"failed", "completed"}
  BY <1>1 DEF NextStage, OrderInv, FlowInv
<1>7. s \in Stages /\ t \in FailureTypes
  BY <1>1, <1>2, <1>6 DEF Stages, Activities, Rpc
<1> HIDE DEF s, t
<1>8. t = failureType[p]
  BY DEF t
<1>9. ASSUME stage'[p] = s, failureType'[p] = t PROVE FlowInv(p)'
  BY <1>1, <1>2, <1>4, <1>5, <1>6, <1>8, <1>9
  DEF OrderInv, FlowInv, Succeeding, Recovering, PastCharge, PastRelease, Activities, Rpc
<1>10. ASSUME stage'[p] = s, failureType'[p] = t, SameContexts(p), deleted' = deleted,
              \A a \in Activities : HandledLate(a, p)' <=> HandledLate(a, p)
       PROVE  MoneyInv(p)' /\ HoldInv(p)' /\ StatusInv(p)'
  <2> USE <1>10 DEF SameContexts
  <2>1. Unsent(p)' <=> Unsent(p)
    BY <1>5 DEF Unsent, SameAccount, Activities, Rpc
  <2>2. MoneyInv(p)'
    BY <1>1, <1>2, <1>4, <1>6, <1>8, <2>1, ContextFrame
    DEF OrderInv, FlowInv, MoneyInv, SameAccount, Succeeding, Recovering, PastCharge, PastRelease,
        Activities, Rpc
  <2>3. StockSettled(p) => StockSettled(p)'
    BY ContextFrame DEF StockSettled, Activities, Rpc
  <2>4. HoldInv(p)'
    BY <1>1, <1>2, <1>4, <1>6, <1>8, <2>3, ContextFrame
    DEF OrderInv, FlowInv, HoldInv, Succeeding, Recovering, PastCharge, PastRelease, Activities, Rpc
  <2>5. StatusInv(p)'
    BY <1>1, <1>2, <1>4, <1>6, <1>8
    DEF OrderInv, FlowInv, StatusInv, SameOrder, FailureStatus, Succeeding, Recovering, PastCharge,
        PastRelease, Activities, Rpc
  <2>6. QED BY <2>2, <2>4, <2>5
<1>11. QED BY <1>3, <1>4, <1>5, <1>7, <1>9, <1>10, LeaveStep

\* The awaited activity was rejected.
LEMMA RejectedStep ==
  ASSUME Inv, NEW p \in Orders, Complete(p), attempt[p] = "rejected"
  PROVE  Inv'
<1> DEFINE t == Rejection(stage[p])
           s == FirstCompensation(stage[p], t)
<1>1. OrderInv(p)
  BY DEF Inv
<1>2. stage[p] \in Forward /\ failureType[p] = "none"
  BY <1>1 DEF OrderInv, FlowInv, Forward, Recovering
<1>3. /\ stage' = [stage EXCEPT ![p] = s]
      /\ failureType' = [failureType EXCEPT ![p] = t]
      /\ UNCHANGED <<late, handledLate, orderVars, accountVars, stockVars>>
  BY DEF Complete
<1>4. /\ attempt' \in [Orders -> Attempts] /\ attempt'[p] = "idle"
      /\ \A o \in Orders : o # p => attempt'[o] = attempt[o]
  BY DEF Complete, Inv, WorkflowTypes, Attempts
<1>5. \A o \in Orders, a \in Activities : Late(a, o)' <=> Late(a, o)
  BY <1>3 DEF Late
<1>6. \/ stage[p] = "reserveStock" /\ t = "INSUFFICIENT_STOCK" /\ s = "markFailed"
      \/ stage[p] = "chargeCustomer" /\ t = "PAYMENT_REJECTED" /\ s = "releaseStock"
  BY <1>2 DEF Forward, Rejection, FirstCompensation
<1> HIDE DEF s, t
<1>7. s \in Stages /\ t \in FailureTypes
  BY <1>6 DEF Stages, FailureTypes, Activities, Rpc
<1>8. ASSUME stage'[p] = s, failureType'[p] = t PROVE FlowInv(p)'
  BY <1>1, <1>2, <1>4, <1>5, <1>6, <1>8
  DEF OrderInv, FlowInv, Recovering, PastCharge, PastRelease, Activities, Rpc
<1>9. ASSUME stage'[p] = s, failureType'[p] = t, SameContexts(p), deleted' = deleted,
              \A a \in Activities : HandledLate(a, p)' <=> HandledLate(a, p)
       PROVE  MoneyInv(p)' /\ HoldInv(p)' /\ StatusInv(p)'
  <2> USE <1>9 DEF SameContexts
  <2>1. Unsent(p)' <=> Unsent(p)
    BY <1>5 DEF Unsent, SameAccount, Activities, Rpc
  <2>2. MoneyInv(p)'
    BY <1>1, <1>2, <1>4, <1>6, <2>1, ContextFrame
    DEF OrderInv, MoneyInv, SameAccount, PastCharge, Activities, Rpc
  <2>3. StockSettled(p) => StockSettled(p)'
    BY ContextFrame DEF StockSettled, Activities, Rpc
  <2>4. HoldInv(p)'
    BY <1>1, <1>2, <1>4, <1>6, <2>3, ContextFrame DEF OrderInv, HoldInv, PastCharge, PastRelease
  <2>5. StatusInv(p)'
    BY <1>1, <1>2, <1>4, <1>6
    DEF OrderInv, StatusInv, SameOrder, PastCharge
  <2>6. QED BY <2>2, <2>4, <2>5
<1>10. QED BY <1>3, <1>4, <1>5, <1>7, <1>8, <1>9, LeaveStep

\* The workflow gives reserveStock or chargeCustomer up, or is cancelled there.
LEMMA FailStep ==
  ASSUME Inv, NEW p \in Orders, Fail(p)
  PROVE  Inv'
<1> DEFINE t == "other"
           s == FirstCompensation(stage[p], t)
<1>1. OrderInv(p) /\ WorkflowTypes
  BY DEF Inv
<1>2. stage[p] \in Forward /\ failureType[p] = "none"
  BY <1>1 DEF Fail, OrderInv, FlowInv, Forward, Recovering
<1>3. /\ stage' = [stage EXCEPT ![p] = s]
      /\ failureType' = [failureType EXCEPT ![p] = t]
      /\ UNCHANGED <<handledLate, orderVars, accountVars, stockVars>>
  BY DEF Fail
<1>4. /\ attempt' \in [Orders -> Attempts] /\ attempt'[p] = "idle"
      /\ \A o \in Orders : o # p => attempt'[o] = attempt[o]
      /\ \A o \in Orders, a \in Activities : o # p => (Late(a, o)' <=> Late(a, o))
      /\ \A a \in Activities : Late(a, p)' => Late(a, p) \/ a = stage[p]
  BY <1>1, Abandoned DEF Fail
<1>5. /\ t = "other"
      /\ \/ stage[p] = "reserveStock" /\ s = "releaseStock"
         \/ stage[p] = "chargeCustomer" /\ s = "refundCustomer"
  BY <1>2 DEF Forward, FirstCompensation
<1> HIDE DEF s, t
<1>6. s \in Stages /\ t \in FailureTypes
  BY <1>5 DEF Stages, FailureTypes, Activities, Rpc
<1>7. ASSUME stage'[p] = s, failureType'[p] = t PROVE FlowInv(p)'
  BY <1>1, <1>2, <1>4, <1>5, <1>7
  DEF OrderInv, FlowInv, Recovering, PastCharge, PastRelease, Activities, Rpc
<1>8. ASSUME stage'[p] = s, failureType'[p] = t, SameContexts(p), deleted' = deleted,
              \A a \in Activities : HandledLate(a, p)' <=> HandledLate(a, p)
       PROVE  MoneyInv(p)' /\ HoldInv(p)' /\ StatusInv(p)'
  <2> USE <1>8 DEF SameContexts
  <2>1. stage[p] = "reserveStock" /\ Unsent(p) => Unsent(p)'
    BY <1>4 DEF Unsent, SameAccount, Activities, Rpc
  <2>2. MoneyInv(p)'
    BY <1>1, <1>2, <1>4, <1>5, <2>1, ContextFrame
    DEF OrderInv, MoneyInv, SameAccount, PastCharge
  <2>3. HoldInv(p)'
    BY <1>1, <1>2, <1>4, <1>5, ContextFrame DEF OrderInv, HoldInv, PastRelease
  <2>4. StatusInv(p)'
    BY <1>1, <1>2, <1>4, <1>5 DEF OrderInv, StatusInv, SameOrder, PastCharge
  <2>5. QED BY <2>2, <2>3, <2>4
<1>9. QED BY <1>3, <1>4, <1>6, <1>7, <1>8, LeaveStep

\* An operator cancels a workflow that waits for markPaid.
LEMMA CancelPaidStep ==
  ASSUME Inv, NEW p \in Orders, stage[p] = "markPaid",
         stage' = [stage EXCEPT ![p] = "cancelled"], Abandon(p, {"delivered"}),
         UNCHANGED <<failureType, handledLate, orderVars, accountVars, stockVars>>
  PROVE  Inv'
<1> DEFINE s == "cancelled"
           t == failureType[p]
<1>1. OrderInv(p) /\ WorkflowTypes
  BY DEF Inv
<1>2. t = "none" /\ failureType[p] = "none" /\ s = "cancelled"
  BY <1>1 DEF OrderInv, FlowInv, Recovering
<1>3. /\ stage' = [stage EXCEPT ![p] = s]
      /\ failureType' = [failureType EXCEPT ![p] = t]
  BY <1>1 DEF WorkflowTypes
<1>4. /\ attempt' \in [Orders -> Attempts] /\ attempt'[p] = "idle"
      /\ \A o \in Orders : o # p => attempt'[o] = attempt[o]
      /\ \A o \in Orders, a \in Activities : o # p => (Late(a, o)' <=> Late(a, o))
      /\ \A a \in Activities : Late(a, p)' => Late(a, p) \/ a = stage[p]
  BY <1>1, Abandoned
<1> HIDE DEF s, t
<1>5. s \in Stages /\ t \in FailureTypes
  BY <1>2 DEF Stages, FailureTypes
<1>6. ASSUME stage'[p] = s, failureType'[p] = t PROVE FlowInv(p)'
  BY <1>1, <1>2, <1>4, <1>6
  DEF OrderInv, FlowInv, Succeeding, PastCharge, PastRelease, Activities, Rpc
<1>7. ASSUME stage'[p] = s, failureType'[p] = t, SameContexts(p), deleted' = deleted,
              \A a \in Activities : HandledLate(a, p)' <=> HandledLate(a, p)
       PROVE  MoneyInv(p)' /\ HoldInv(p)' /\ StatusInv(p)'
  <2> USE <1>7 DEF SameContexts
  <2>1. MoneyInv(p)'
    BY <1>1, <1>2, <1>4, ContextFrame DEF OrderInv, MoneyInv, SameAccount, PastCharge
  <2>2. HoldInv(p)'
    BY <1>1, <1>2, <1>4, ContextFrame DEF OrderInv, HoldInv, PastCharge
  <2>3. StatusInv(p)'
    BY <1>1, <1>2, <1>4 DEF OrderInv, StatusInv, SameOrder, PastCharge
  <2>4. QED BY <2>1, <2>2, <2>3
<1>8. QED BY <1>3, <1>4, <1>5, <1>6, <1>7, LeaveStep

-----------------------------------------------------------------------------
(***************************************************************************)
(* The handlers.  A request of activity a runs for order p: the awaited    *)
(* one, or a late one.  A late reserve or charge that runs once its order  *)
(* has failed is recorded.                                                 *)
(***************************************************************************)
Runs(a, p) ==
  /\ a = stage[p] \/ Late(a, p)
  /\ UNCHANGED <<stage, failureType>>
  /\ attempt' \in [Orders -> Attempts]
  /\ \A o \in Orders : o # p => attempt'[o] = attempt[o]
  /\ \/ attempt'[p] = attempt[p]
     \/ a = stage[p] /\ attempt'[p] \in {"queued", Reply(a, p)}
  /\ \A o \in Orders, x \in Activities : o # p =>
       /\ Late(x, o)' <=> Late(x, o)
       /\ HandledLate(x, o)' <=> HandledLate(x, o)
  /\ \A x \in Activities : (Late(x, p)' => Late(x, p)) /\ (HandledLate(x, p) => HandledLate(x, p)')
  /\ a \in Forward /\ (stage[p] \notin Forward \/ attempt[p] = "rejected") => HandledLate(a, p)'

\* A handler's step: what is left to check is p's own invariant and the types.
LEMMA RunStep ==
  ASSUME Inv, NEW p \in Orders, NEW a \in Activities, Runs(a, p), DataTypes', deleted' = deleted,
         \A o \in Orders : o # p => SameContexts(o),
         FlowInv(p)' => MoneyInv(p)' /\ HoldInv(p)' /\ StatusInv(p)'
  PROVE  Inv'
<1>1. OrderInv(p)
  BY DEF Inv
<1>2. WorkflowTypes' /\ \A o \in Orders : o # p => SameWorkflow(o)
  BY DEF Runs, Inv, WorkflowTypes, SameWorkflow
<1>3. a = stage[p] /\ attempt'[p] = Reply(a, p) /\ Reply(a, p) = "rejected" => a \in Forward
  BY DEF Reply, Forward, Activities, Rpc
<1>4. FlowInv(p)'
  BY <1>1, <1>3 DEF Runs, OrderInv, FlowInv, Activities, Rpc
<1>5. OrderInv(p)'
  BY <1>4 DEF OrderInv
<1>6. OnlyOrder(p)
  BY <1>2 DEF OnlyOrder, Runs, SameRequests
<1>7. QED BY <1>2, <1>5, <1>6, OneOrderStep

\* What a handler that leaves the order's money alone keeps of it.
LEMMA MoneyKept ==
  ASSUME NEW p \in Orders, OrderInv(p), NEW a \in Activities \ {"chargeCustomer", "refundCustomer"},
         Runs(a, p), SameAccount(p)
  PROVE  MoneyInv(p)'
<1>1. InboxAgrees(p)'
  BY DEF OrderInv, MoneyInv, InboxAgrees, SameAccount
<1>2. Unsent(p) => Unsent(p)'
  BY DEF Unsent, Runs, SameAccount, Activities, Rpc
<1>3. HandledLate("chargeCustomer", p) => HandledLate("chargeCustomer", p)'
  BY DEF Runs, Activities, Rpc
<1>4. QED BY <1>1, <1>2, <1>3 DEF OrderInv, MoneyInv, Runs, SameAccount

\* What a handler that leaves the order's stock alone keeps of it.
LEMMA HoldKept ==
  ASSUME NEW p \in Orders, OrderInv(p), NEW a \in Activities \ {"reserveStock", "releaseStock"},
         Runs(a, p), SameStock(p), deleted' = deleted
  PROVE  HoldInv(p)'
<1>1. /\ RowsAgree(p)'
      /\ AllHeld(p)' <=> AllHeld(p)
      /\ Holds(p)' <=> Holds(p)
  <2>1. Stocks!Items(p)' = Stocks!Items(p)
    BY DEF Stocks!Items
  <2>2. QED BY <2>1 DEF OrderInv, HoldInv, RowsAgree, AllHeld, Holds, SameStock
<1>2. StockSettled(p) => StockSettled(p)'
  <2>1. Stocks!Items(p)' = Stocks!Items(p)
    BY DEF Stocks!Items
  <2>2. HandledLate("reserveStock", p) => HandledLate("reserveStock", p)'
    BY DEF Runs, Activities, Rpc
  <2>3. QED BY <1>1, <2>1, <2>2 DEF StockSettled
<1>3. QED BY <1>1, <1>2 DEF OrderInv, HoldInv, Runs, SameStock

\* What a handler that leaves the order's row alone keeps of it.
LEMMA StatusKept ==
  ASSUME NEW p \in Orders, OrderInv(p), NEW a \in Activities \ {"markPaid", "markFailed"},
         Runs(a, p), SameOrder(p)
  PROVE  StatusInv(p)'
BY DEF OrderInv, StatusInv, Runs, SameOrder, FailureStatus

\* A reserve runs; one that runs once the order has failed is recorded.
LEMMA ReserveStep ==
  ASSUME Inv, NEW p \in Orders, Runs("reserveStock", p),
         Stocks!Reserve(p), UNCHANGED <<orderVars, accountVars>>
  PROVE  Inv'
<1> DEFINE a == "reserveStock"
<1>1. OrderInv(p) /\ RowsAgree(p) /\ DataTypes
  BY DEF Inv, OrderInv, HoldInv
<1>2. /\ reservation' \in [Orders -> [Offers -> RowStates]]
      /\ \A o \in Orders : o # p => SameStock(o)
      /\ deleted' = deleted /\ RowsAgree(p)'
      /\ \A f \in Offers : reservation'[p][f] = "released" => reservation[p][f] = "released"
      /\ AllHeld(p) => AllHeld(p)'
      /\ Stocks!ReserveReply(p) = "reserved" /\ (\A f \in Offers : reservation[p][f] # "released")
           => AllHeld(p)'
      /\ Stocks!ReserveReply(p) # "reserved" => ~Holds(p)' \/ deleted \cap Stocks!Items(p) # {}
  BY <1>1, ReserveEffect
<1>3. \A o \in Orders : SameAccount(o) /\ SameOrder(o)
  BY DEF orderVars, accountVars, SameAccount, SameOrder, ChargeDone, RefundDone, Accounts!Processed
<1>4. DataTypes'
  BY <1>1, <1>2 DEF DataTypes, orderVars, accountVars
<1>5. a \in Activities /\ a \notin {"chargeCustomer", "refundCustomer", "markPaid", "markFailed"}
  BY DEF Activities, Rpc
<1>6. MoneyInv(p)' /\ StatusInv(p)'
  BY <1>1, <1>3, <1>5, MoneyKept, StatusKept
<1>7. HoldInv(p)'
  <2>1. attempt'[p] = attempt[p] \/ (stage[p] = a /\ attempt'[p] = "queued")
          \/ (stage[p] = a /\ Stocks!ReserveReply(p) = "reserved" /\ attempt'[p] = "ok")
          \/ (stage[p] = a /\ Stocks!ReserveReply(p) # "reserved" /\ attempt'[p] = "rejected")
    BY DEF Runs, Reply
  <2>2. stage[p] = a => failureType[p] = "none"
    BY <1>1 DEF OrderInv, FlowInv, Recovering
  <2>3. stage[p] \notin Forward \/ attempt[p] = "rejected" => StockSettled(p)'
    BY DEF Runs, StockSettled, Forward
  <2>4. Stocks!ReserveReply(p) # "reserved" => StockSettled(p)'
    BY <1>2 DEF StockSettled, Stocks!Items
  <2>5. UNCHANGED <<stage, failureType>>
    BY DEF Runs
  <2>6. QED BY <1>1, <1>2, <2>1, <2>2, <2>3, <2>4, <2>5
        DEF OrderInv, FlowInv, HoldInv, Forward, PastRelease, Succeeding, Recovering
<1>8. QED BY <1>2, <1>3, <1>4, <1>5, <1>6, <1>7, RunStep DEF SameContexts

\* A release runs, which happens only once the workflow has failed.
LEMMA ReleaseStep ==
  ASSUME Inv, NEW p \in Orders, Runs("releaseStock", p),
         Stocks!Release(p), UNCHANGED <<orderVars, accountVars>>
  PROVE  Inv'
<1> DEFINE a == "releaseStock"
<1>1. OrderInv(p) /\ RowsAgree(p) /\ DataTypes
  BY DEF Inv, OrderInv, HoldInv
<1>2. /\ reservation' \in [Orders -> [Offers -> RowStates]]
      /\ \A o \in Orders : o # p => SameStock(o)
      /\ deleted' = deleted /\ RowsAgree(p)' /\ ~Holds(p)'
  BY <1>1, ReleaseEffect
<1>3. \A o \in Orders : SameAccount(o) /\ SameOrder(o)
  BY DEF orderVars, accountVars, SameAccount, SameOrder, ChargeDone, RefundDone, Accounts!Processed
<1>4. DataTypes'
  BY <1>1, <1>2 DEF DataTypes, orderVars, accountVars
<1>5. a \in Activities /\ a \notin {"chargeCustomer", "refundCustomer", "markPaid", "markFailed"}
  BY DEF Activities, Rpc
<1>6. MoneyInv(p)' /\ StatusInv(p)'
  BY <1>1, <1>3, <1>5, MoneyKept, StatusKept
<1>7. HoldInv(p)'
  <2>1. failureType[p] # "none"
    BY <1>1 DEF Runs, OrderInv, FlowInv, Succeeding
  <2>2. stage[p] # "reserveStock"
    BY <1>1, <2>1 DEF OrderInv, FlowInv, Recovering
  <2>3. StockSettled(p)' /\ UNCHANGED <<stage, failureType>>
    BY <1>2 DEF StockSettled, Runs
  <2>4. QED BY <1>2, <2>1, <2>2, <2>3 DEF HoldInv
<1>8. QED BY <1>2, <1>3, <1>4, <1>5, <1>6, <1>7, RunStep DEF SameContexts

\* A charge runs.  After a refund it meets the fence; after a rejection it is
\* recorded as late.
LEMMA ChargeStep ==
  ASSUME Inv, NEW p \in Orders, Runs("chargeCustomer", p),
         Accounts!Charge(p), UNCHANGED <<orderVars, stockVars>>
  PROVE  Inv'
<1> DEFINE a == "chargeCustomer"
<1>1. OrderInv(p) /\ InboxAgrees(p) /\ DataTypes
  BY DEF Inv, OrderInv, MoneyInv
<1>2. /\ ledger' \in [Orders -> [{"PAYMENT", "REFUND"} -> Nat]]
      /\ \A o \in Orders : o # p => SameAccount(o)
      /\ InboxAgrees(p)'
      /\ RefundDone(p)' <=> RefundDone(p)
      /\ ChargeDone(p) => ChargeDone(p)'
      /\ Accounts!ChargeReply(p) = "success" => ChargeDone(p)'
      /\ Accounts!ChargeReply(p) \notin {"success", "nack"} => ~ChargeDone(p)'
  BY <1>1, ChargeEffect
<1>3. deleted' = deleted /\ \A o \in Orders : SameStock(o) /\ SameOrder(o)
  BY DEF orderVars, stockVars, SameStock, SameOrder
<1>4. DataTypes'
  BY <1>1, <1>2 DEF DataTypes, orderVars, stockVars
<1>5. a \in Activities /\ a \notin {"reserveStock", "releaseStock", "markPaid", "markFailed"}
  BY DEF Activities, Rpc
<1>6. HoldInv(p)' /\ StatusInv(p)'
  BY <1>1, <1>3, <1>5, HoldKept, StatusKept
<1>7. MoneyInv(p)'
  <2>1. attempt'[p] = attempt[p] \/ (stage[p] = a /\ attempt'[p] \in {"queued", "lost"})
          \/ (stage[p] = a /\ Accounts!ChargeReply(p) = "success" /\ attempt'[p] = "ok")
          \/ (/\ stage[p] = a /\ Accounts!ChargeReply(p) \notin {"success", "nack"}
              /\ attempt'[p] = "rejected")
    BY DEF Runs, Reply
  <2>2. /\ stage[p] \notin {"outbox", "reserveStock"} /\ failureType[p] # "INSUFFICIENT_STOCK"
        /\ failureType[p] = "other" /\ stage[p] # "refundCustomer" => RefundDone(p)
    BY <1>1 DEF Runs, OrderInv, FlowInv, MoneyInv, Unsent, PastRelease, Recovering
  <2>3. stage[p] \notin Forward \/ attempt[p] = "rejected" => HandledLate(a, p)'
    BY DEF Runs, Forward
  <2>4. UNCHANGED <<stage, failureType>>
    BY DEF Runs
  <2>5. failureType[p] # "none" => stage[p] \notin Forward
    BY <1>1 DEF OrderInv, FlowInv, Recovering, Forward
  <2>6. QED BY <1>1, <1>2, <2>1, <2>2, <2>3, <2>4, <2>5 DEF OrderInv, MoneyInv
<1>8. QED BY <1>2, <1>3, <1>4, <1>5, <1>6, <1>7, RunStep DEF SameContexts

\* A refund runs, which happens only after a technical failure.
LEMMA RefundStep ==
  ASSUME Inv, NEW p \in Orders, Runs("refundCustomer", p),
         Accounts!Refund(p), UNCHANGED <<orderVars, stockVars>>
  PROVE  Inv'
<1> DEFINE a == "refundCustomer"
<1>1. OrderInv(p) /\ InboxAgrees(p) /\ DataTypes
  BY DEF Inv, OrderInv, MoneyInv
<1>2. /\ ledger' \in [Orders -> [{"PAYMENT", "REFUND"} -> Nat]]
      /\ \A o \in Orders : o # p => SameAccount(o)
      /\ InboxAgrees(p)'
      /\ RefundDone(p) => RefundDone(p)'
      /\ Accounts!RefundReply(p) # "nack" => RefundDone(p)'
      /\ RefundDone(p)' \/ SameAccount(p)
  BY <1>1, RefundEffect
<1>3. deleted' = deleted /\ \A o \in Orders : SameStock(o) /\ SameOrder(o)
  BY DEF orderVars, stockVars, SameStock, SameOrder
<1>4. DataTypes'
  BY <1>1, <1>2 DEF DataTypes, orderVars, stockVars
<1>5. a \in Activities /\ a \notin {"reserveStock", "releaseStock", "markPaid", "markFailed"}
  BY DEF Activities, Rpc
<1>6. HoldInv(p)' /\ StatusInv(p)'
  BY <1>1, <1>3, <1>5, HoldKept, StatusKept
<1>7. MoneyInv(p)'
  <2>1. attempt'[p] \in {attempt[p], "queued", "lost"} \/ Accounts!RefundReply(p) # "nack"
    BY DEF Runs, Reply
  <2>2. failureType[p] = "other" /\ stage[p] \notin {"outbox", "reserveStock", "chargeCustomer"}
    BY <1>1 DEF Runs, OrderInv, FlowInv, Recovering
  <2>3. Unsent(p) /\ SameAccount(p) => Unsent(p)'
    BY DEF Unsent, SameAccount, Runs, Activities, Rpc
  <2>4. UNCHANGED <<stage, failureType>>
    BY DEF Runs
  <2>5. QED BY <1>1, <1>2, <2>1, <2>2, <2>3, <2>4 DEF OrderInv, MoneyInv
<1>8. QED BY <1>2, <1>3, <1>4, <1>5, <1>6, <1>7, RunStep DEF SameContexts

\* markPaid runs, which happens only once the order is charged and reserved.
LEMMA MarkPaidStep ==
  ASSUME Inv, NEW p \in Orders, Runs("markPaid", p),
         UpdatePendingStatus(p, "paid", "order.paid"), UNCHANGED <<accountVars, stockVars>>
  PROVE  Inv'
<1> DEFINE a == "markPaid"
<1>1. OrderInv(p) /\ DataTypes
  BY DEF Inv
<1>2. /\ status' \in [Orders -> Statuses] /\ outbox' \in [Orders -> Seq(Events)]
      /\ \A o \in Orders : o # p => SameOrder(o)
      /\ \/ status[p] # "pending_payment" /\ SameOrder(p)
         \/ /\ status[p] = "pending_payment" /\ status'[p] = "paid"
            /\ outbox'[p] = Append(outbox[p], "order.paid")
  BY <1>1, StatusEffect DEF Statuses, Events
<1>3. deleted' = deleted /\ \A o \in Orders : SameStock(o) /\ SameAccount(o)
  BY DEF accountVars, stockVars, SameStock, SameAccount, ChargeDone, RefundDone, Accounts!Processed
<1>4. DataTypes'
  BY <1>1, <1>2 DEF DataTypes, accountVars, stockVars
<1>5. a \in Activities /\ a \notin {"reserveStock", "releaseStock", "chargeCustomer", "refundCustomer"}
  BY DEF Activities, Rpc
<1>6. HoldInv(p)' /\ MoneyInv(p)'
  BY <1>1, <1>3, <1>5, HoldKept, MoneyKept
<1>7. StatusInv(p)'
  <2>1. failureType[p] = "none" /\ stage[p] \in PastCharge /\ UNCHANGED <<stage, failureType>>
    BY <1>1 DEF Runs, OrderInv, FlowInv, Recovering, PastCharge
  <2>2. status[p] \in {"pending_payment", "paid"}
    BY <1>1, <2>1 DEF OrderInv, StatusInv
  <2>3. status'[p] = "paid"
    BY <1>2, <2>2 DEF SameOrder
  <2>4. outbox'[p] = <<"order.created", "order.paid">>
    <3>1. CASE status[p] = "paid"
      BY <1>1, <1>2, <3>1 DEF OrderInv, StatusInv, SameOrder
    <3>2. CASE status[p] = "pending_payment"
      BY <1>1, <1>2, <3>2 DEF OrderInv, StatusInv
    <3>3. QED BY <2>2, <3>1, <3>2
  <2>5. QED BY <2>1, <2>3, <2>4 DEF StatusInv
<1>8. QED BY <1>2, <1>3, <1>4, <1>5, <1>6, <1>7, RunStep DEF SameContexts

\* markFailed runs, which happens only once the order is compensated.
LEMMA MarkFailedStep ==
  ASSUME Inv, NEW p \in Orders, Runs("markFailed", p),
         UpdatePendingStatus(p, FailureStatus(failureType[p]), "order.failed"),
         UNCHANGED <<accountVars, stockVars>>
  PROVE  Inv'
<1> DEFINE a == "markFailed"
           s == FailureStatus(failureType[p])
<1>1. OrderInv(p) /\ DataTypes
  BY DEF Inv
<1>2. s \in {"canceled", "failed_payment"} /\ UpdatePendingStatus(p, s, "order.failed")
  BY DEF FailureStatus
<1>3. s = FailureStatus(failureType[p])
  OBVIOUS
<1> HIDE DEF s
<1>4. /\ status' \in [Orders -> Statuses] /\ outbox' \in [Orders -> Seq(Events)]
      /\ \A o \in Orders : o # p => SameOrder(o)
      /\ \/ status[p] # "pending_payment" /\ SameOrder(p)
         \/ /\ status[p] = "pending_payment" /\ status'[p] = s
            /\ outbox'[p] = Append(outbox[p], "order.failed")
  BY <1>1, <1>2, StatusEffect DEF Statuses, Events
<1>5. deleted' = deleted /\ \A o \in Orders : SameStock(o) /\ SameAccount(o)
  BY DEF accountVars, stockVars, SameStock, SameAccount, ChargeDone, RefundDone, Accounts!Processed
<1>6. DataTypes'
  BY <1>1, <1>4 DEF DataTypes, accountVars, stockVars
<1>7. a \in Activities /\ a \notin {"reserveStock", "releaseStock", "chargeCustomer", "refundCustomer"}
  BY DEF Activities, Rpc
<1>8. HoldInv(p)' /\ MoneyInv(p)'
  BY <1>1, <1>5, <1>7, HoldKept, MoneyKept
<1>9. StatusInv(p)'
  <2>1. failureType[p] # "none" /\ stage[p] \in PastRelease /\ UNCHANGED <<stage, failureType>>
    BY <1>1 DEF Runs, OrderInv, FlowInv, Succeeding, PastRelease
  <2>2. status[p] \notin {"paid"} /\ stage[p] # "markPaid"
    BY <1>1, <2>1 DEF OrderInv, StatusInv, PastRelease
  <2>3. status'[p] = s
    BY <1>1, <1>3, <1>4, <2>2 DEF OrderInv, StatusInv, SameOrder
  <2>4. outbox'[p] = <<"order.created", "order.failed">>
    <3>1. CASE status[p] # "pending_payment"
      BY <1>1, <1>4, <2>2, <3>1 DEF OrderInv, StatusInv, SameOrder
    <3>2. CASE status[p] = "pending_payment"
      BY <1>1, <1>4, <3>2 DEF OrderInv, StatusInv
    <3>3. QED BY <3>1, <3>2
  <2>5. FailureStatus(failureType'[p]) = s
    BY <1>3, <2>1
  <2>6. QED BY <1>2, <2>1, <2>2, <2>3, <2>4, <2>5 DEF StatusInv, FailureStatus
<1>10. QED BY <1>4, <1>5, <1>6, <1>7, <1>8, <1>9, RunStep DEF SameContexts

\* Whatever activity the request is of.
LEMMA EffectStep ==
  ASSUME Inv, NEW p \in Orders, NEW a \in Activities, Runs(a, p), Effect(a, p)
  PROVE  Inv'
BY ReserveStep, ReleaseStep, ChargeStep, RefundStep, MarkPaidStep, MarkFailedStep DEF Effect

\* What an attempt can get back.
LEMMA Replies ==
  ASSUME NEW p \in Orders, NEW a \in Activities
  PROVE  Reply(a, p) \in {"ok", "rejected", "lost"}
<1>1. CASE a = "reserveStock"
  BY <1>1 DEF Reply
<1>2. CASE a = "chargeCustomer"
  BY <1>2 DEF Reply
<1>3. CASE a = "refundCustomer"
  BY <1>3 DEF Reply
<1>4. CASE a \notin {"reserveStock", "chargeCustomer", "refundCustomer"}
  BY <1>4 DEF Reply
<1>5. QED BY <1>1, <1>2, <1>3, <1>4

\* The awaited request is handled, and acknowledged or not.
LEMMA AwaitedStep ==
  ASSUME Inv, NEW p \in Orders, Handle(p) \/ Redeliver(p)
  PROVE  Inv'
<1>1. OrderInv(p) /\ WorkflowTypes
  BY DEF Inv
<1>2. /\ stage[p] \in Activities /\ attempt[p] = "delivered"
      /\ UNCHANGED <<stage, failureType, late, handledLate>>
  BY <1>1 DEF Handle, Redeliver, OrderInv, FlowInv
<1>3. \A o \in Orders, a \in Activities : /\ Late(a, o)' <=> Late(a, o)
                                          /\ HandledLate(a, o)' <=> HandledLate(a, o)
  BY <1>2 DEF Late, HandledLate
<1>4. /\ attempt' \in [Orders -> Attempts]
      /\ attempt'[p] \in {"queued", Reply(stage[p], p)}
      /\ \A o \in Orders : o # p => attempt'[o] = attempt[o]
  <2>1. Reply(stage[p], p) \in Attempts
    BY <1>2, Replies DEF Attempts
  <2>2. QED BY <1>1, <2>1 DEF Handle, Redeliver, WorkflowTypes, Attempts
<1>5. CASE Effect(stage[p], p)
  <2>1. Runs(stage[p], p)
    BY <1>2, <1>3, <1>4 DEF Runs
  <2>2. QED BY <1>2, <1>5, <2>1, EffectStep
<1>6. CASE Redeliver(p) /\ UNCHANGED <<orderVars, accountVars, stockVars>>
  <2>1. attempt'[p] = "queued"
    BY <1>1, <1>6 DEF Redeliver, WorkflowTypes
  <2>2. QED BY <1>2, <1>3, <1>4, <1>6, <2>1, AttemptStep
<1>7. QED BY <1>5, <1>6 DEF Handle, Redeliver

\* A late request is handled.
LEMMA LateStep ==
  ASSUME Inv, NEW p \in Orders, NEW a \in Activities, HandleLate(a, p)
  PROVE  Inv'
<1>1. /\ Late(a, p) /\ Effect(a, p) /\ UNCHANGED <<stage, failureType, attempt>>
      /\ late' \in {late, late \ {<<a, p>>}}
      /\ handledLate' = IF a \in Forward /\ (stage[p] \notin Forward \/ attempt[p] = "rejected")
                        THEN handledLate \cup {<<a, p>>} ELSE handledLate
  BY DEF HandleLate, Late
<1>2. \A o \in Orders, x \in Activities : o # p =>
        /\ Late(x, o)' <=> Late(x, o)
        /\ HandledLate(x, o)' <=> HandledLate(x, o)
  BY <1>1 DEF Late, HandledLate
<1>3. \A x \in Activities : (Late(x, p)' => Late(x, p)) /\ (HandledLate(x, p) => HandledLate(x, p)')
  BY <1>1 DEF Late, HandledLate
<1>4. a \in Forward /\ (stage[p] \notin Forward \/ attempt[p] = "rejected") => HandledLate(a, p)'
  BY <1>1 DEF HandledLate
<1>5. Runs(a, p)
  BY <1>1, <1>2, <1>3, <1>4 DEF Runs, Inv, WorkflowTypes
<1>6. QED BY <1>1, <1>5, EffectStep

\* The steps that only move the awaited attempt or lose a late request.
LEMMA DeliveryStep ==
  ASSUME Inv, NEW p \in Orders,
         \/ StartAttempt(p) \/ Deliver(p) \/ AttemptTimeout(p)
         \/ \E a \in Activities : DropLate(a, p)
  PROVE  Inv'
<1>1. OrderInv(p) /\ WorkflowTypes
  BY DEF Inv
<1>2. CASE StartAttempt(p) \/ Deliver(p)
  <2>1. /\ stage[p] \in Activities /\ attempt'[p] \in {"queued", "delivered"}
        /\ attempt' \in [Orders -> Attempts]
        /\ \A o \in Orders : o # p => attempt'[o] = attempt[o]
    BY <1>1, <1>2 DEF StartAttempt, Deliver, WorkflowTypes, Attempts, OrderInv, FlowInv
  <2>2. UNCHANGED <<stage, failureType, late, handledLate, orderVars, accountVars, stockVars>>
    BY <1>2 DEF StartAttempt, Deliver
  <2>3. \A o \in Orders, a \in Activities : Late(a, o)' <=> Late(a, o)
    BY <2>2 DEF Late
  <2>4. QED BY <2>1, <2>2, <2>3, AttemptStep
<1>3. CASE AttemptTimeout(p)
  <2>1. /\ Abandon(p, {"delivered"})
        /\ UNCHANGED <<stage, failureType, handledLate, orderVars, accountVars, stockVars>>
    BY <1>3 DEF AttemptTimeout
  <2>2. QED BY <1>1, <2>1, Abandoned, AttemptStep
<1>4. ASSUME NEW a \in Activities, DropLate(a, p) PROVE Inv'
  <2>1. UNCHANGED <<stage, failureType, attempt, handledLate, orderVars, accountVars, stockVars>>
    BY <1>4 DEF DropLate
  <2>2. \A o \in Orders, x \in Activities : /\ o # p => (Late(x, o)' <=> Late(x, o))
                                            /\ Late(x, o)' => Late(x, o)
    BY <1>4 DEF DropLate, Late
  <2>3. QED BY <1>1, <2>1, <2>2, AttemptStep DEF WorkflowTypes
<1>5. QED BY <1>2, <1>3, <1>4

\* A step that leaves the workflows and the orders' rows alone: an account is
\* created, an offer is withdrawn, or nothing happens.
LEMMA EnvironmentStep ==
  ASSUME Inv, UNCHANGED <<workflowVars, orderVars, ledger, inbox, reservation>>, deleted \subseteq deleted'
  PROVE  Inv'
<1>1. \A o \in Orders : SameWorkflow(o) /\ SameRequests(o) /\ SameContexts(o)
  BY DEF workflowVars, orderVars, SameWorkflow, SameRequests, SameContexts, SameAccount, SameStock,
         SameOrder, Late, HandledLate, ChargeDone, RefundDone, Accounts!Processed
<1>2. WorkflowTypes' /\ DataTypes'
  BY DEF Inv, WorkflowTypes, DataTypes, workflowVars, orderVars
<1>3. \A o \in Orders : OrderInv(o)'
  BY <1>1, OrderFrame DEF Inv
<1>4. QED BY <1>2, <1>3 DEF Inv

\* An order that was just placed.
LEMMA InitInv == Init => Inv
<1> SUFFICES ASSUME Init PROVE Inv
  OBVIOUS
<1>1. WorkflowTypes
  BY DEF Init, WorkflowTypes, Stages, FailureTypes, Attempts
<1>2. DataTypes
  <2>1. ledger = [o \in Orders |-> [t \in {"PAYMENT", "REFUND"} |-> 0]]
    BY DEF Init, Accounts!Init, Accounts!RowTypes
  <2>2. reservation = [o \in Orders |-> [f \in Offers |-> "none"]]
    BY DEF Init, Stocks!Init
  <2>3. outbox \in [Orders -> Seq(Events)] /\ status \in [Orders -> Statuses]
    BY DEF Init, Events, Statuses
  <2>4. QED BY <2>1, <2>2, <2>3 DEF DataTypes, RowStates
<1>3. ASSUME NEW o \in Orders PROVE OrderInv(o)
  <2>1. /\ stage[o] = "outbox" /\ failureType[o] = "none" /\ attempt[o] = "idle"
        /\ status[o] = "pending_payment" /\ outbox[o] = <<"order.created">>
        /\ late = {} /\ handledLate = {} /\ inbox = {}
        /\ ledger[o]["PAYMENT"] = 0 /\ ledger[o]["REFUND"] = 0
        /\ \A f \in Offers : reservation[o][f] = "none"
    BY DEF Init, Accounts!Init, Accounts!RowTypes, Stocks!Init
  <2>2. FlowInv(o)
    BY <2>1 DEF FlowInv, Succeeding, Late
  <2>3. MoneyInv(o)
    BY <2>1 DEF MoneyInv, InboxAgrees, Unsent, ChargeDone, RefundDone, Accounts!Processed, Late, PastCharge
  <2>4. HoldInv(o)
    BY <2>1 DEF HoldInv, RowsAgree, Stocks!Items, PastCharge, PastRelease
  <2>5. StatusInv(o)
    BY <2>1 DEF StatusInv
  <2>6. QED BY <2>2, <2>3, <2>4, <2>5 DEF OrderInv
<1>4. QED BY <1>1, <1>2, <1>3 DEF Inv

\* Every step keeps the invariant, action by action.
LEMMA NextInv == Inv /\ [Next]_vars => Inv'
<1> SUFFICES ASSUME Inv, [Next]_vars PROVE Inv'
  OBVIOUS
<1>1. CASE UNCHANGED vars
  BY <1>1, EnvironmentStep DEF vars, accountVars, stockVars
<1>2. CASE Environment
  <2>1. CASE /\ \E f \in Withdrawable : Stocks!SoftDelete(f)
             /\ UNCHANGED <<workflowVars, orderVars, accountVars>>
    BY <2>1, EnvironmentStep DEF Stocks!SoftDelete, accountVars
  <2>2. CASE /\ \E c \in Customers : Accounts!CreateAccount(c)
             /\ UNCHANGED <<workflowVars, orderVars, stockVars>>
    BY <2>2, EnvironmentStep DEF Accounts!CreateAccount, stockVars
  <2>3. QED BY <1>2, <2>1, <2>2 DEF Environment
<1>3. ASSUME NEW o \in Orders,
             \/ StartWorkflow(o) \/ StartAttempt(o) \/ Complete(o)
             \/ AttemptTimeout(o) \/ GiveUp(o) \/ Cancel(o)
             \/ Deliver(o) \/ Handle(o) \/ Redeliver(o)
             \/ \E a \in Activities : HandleLate(a, o) \/ DropLate(a, o)
      PROVE  Inv'
  <2>1. CASE StartWorkflow(o)
    BY <2>1, StartWorkflowStep
  <2>2. CASE Complete(o)
    <3>1. attempt[o] = "ok" \/ attempt[o] = "rejected"
      BY <2>2 DEF Complete
    <3>2. QED BY <2>2, <3>1, SucceededStep, RejectedStep
  <2>3. CASE GiveUp(o)
    BY <2>3, FailStep DEF GiveUp
  <2>4. CASE Cancel(o)
    BY <2>4, FailStep, CancelPaidStep DEF Cancel
  <2>5. CASE Handle(o) \/ Redeliver(o)
    BY <2>5, AwaitedStep
  <2>6. CASE \E a \in Activities : HandleLate(a, o)
    BY <2>6, LateStep
  <2>7. CASE StartAttempt(o) \/ Deliver(o) \/ AttemptTimeout(o) \/ \E a \in Activities : DropLate(a, o)
    BY <2>7, DeliveryStep
  <2>8. QED BY <1>3, <2>1, <2>2, <2>3, <2>4, <2>5, <2>6, <2>7
<1>4. QED BY <1>1, <1>2, <1>3 DEF Next

-----------------------------------------------------------------------------
(***************************************************************************)
(* The theorems.                                                           *)
(***************************************************************************)

\* The saga keeps its types and, order by order, the workflow's position, the
\* inbox and ledger, the reservations and the status row in agreement, at every
\* interleaving of attempts, redeliveries, late requests and cancellations.
THEOREM PlacementInvariant == Spec => []Inv
<1>1. QED BY InitInv, NextInv, PTL DEF Spec

\* A paid order is charged and holds its items, however many late or repeated
\* requests of orderPlaceWorkflow's activities are still handled.
THEOREM PaidStaysBacked == Spec => []PaidIsBacked
<1>1. Inv => PaidIsBacked
  <2> SUFFICES ASSUME Inv, NEW o \in Orders, status[o] = "paid" \/ stage[o] = "cancelled"
               PROVE  Charged(o) /\ \A f \in Stocks!Items(o) : reservation[o][f] = "reserved"
    BY DEF PaidIsBacked
  <2>1. OrderInv(o) /\ DataTypes
    BY DEF Inv
  <2>2. failureType[o] = "none" /\ stage[o] \in PastCharge
    BY <2>1 DEF OrderInv, FlowInv, StatusInv, Recovering, PastCharge
  <2>3. ChargeDone(o) /\ ~RefundDone(o) /\ InboxAgrees(o) /\ AllHeld(o)
    BY <2>1, <2>2 DEF OrderInv, MoneyInv, HoldInv
  <2>4. QED BY <2>1, <2>3, ChargedIs DEF AllHeld
<1>2. QED BY <1>1, PlacementInvariant, PTL

\* The catch block of orderPlaceWorkflow and the refund's fence in the inbox:
\* a failed order is charged only by a charge that nobody waited for, and only
\* if its payment was rejected.
THEOREM FailedCostsNothing == Spec => []UnpaidIsNotCharged
<1>1. Inv => UnpaidIsNotCharged
  <2> SUFFICES ASSUME Inv, NEW o \in Orders, status[o] \in {"canceled", "failed_payment"}, Charged(o)
               PROVE  status[o] = "failed_payment" /\ <<"chargeCustomer", o>> \in handledLate
    BY DEF UnpaidIsNotCharged
  <2>1. OrderInv(o) /\ DataTypes /\ failureType[o] \in FailureTypes
    BY DEF Inv, WorkflowTypes
  <2>2. ChargeDone(o) /\ ~RefundDone(o)
    BY <2>1, ChargedIs DEF OrderInv, MoneyInv
  <2>3. /\ failureType[o] # "none" /\ stage[o] \in PastRelease
        /\ status[o] = FailureStatus(failureType[o])
    BY <2>1 DEF OrderInv, StatusInv
  <2>4. failureType[o] # "INSUFFICIENT_STOCK" /\ failureType[o] # "other"
    BY <2>1, <2>2, <2>3 DEF OrderInv, MoneyInv, Unsent, PastRelease
  <2>5. failureType[o] = "PAYMENT_REJECTED"
    BY <2>1, <2>3, <2>4 DEF FailureTypes
  <2>6. QED BY <2>1, <2>2, <2>3, <2>5 DEF OrderInv, MoneyInv, FailureStatus, HandledLate
<1>2. QED BY <1>1, PlacementInvariant, PTL

\* releaseStock in the catch block: a workflow that ended unpaid keeps stock
\* only through a reserve nobody waited for or an offer that was withdrawn.
THEOREM EndedReleasesStock == Spec => []EndedHoldsNoStock
<1>1. Inv => EndedHoldsNoStock
  <2> SUFFICES ASSUME Inv, NEW o \in Orders, stage[o] \in Closed \ {"cancelled"},
                      status[o] # "paid", Holds(o)
               PROVE  <<"reserveStock", o>> \in handledLate \/ deleted \cap Stocks!Items(o) # {}
    BY DEF EndedHoldsNoStock
  <2>1. OrderInv(o)
    BY DEF Inv
  <2>2. failureType[o] # "none" /\ stage[o] \in PastRelease
    BY <2>1 DEF OrderInv, FlowInv, StatusInv, Closed, Succeeding, PastRelease
  <2>3. StockSettled(o)
    BY <2>1, <2>2 DEF OrderInv, HoldInv
  <2>4. QED BY <2>3 DEF StockSettled, HandledLate
<1>2. QED BY <1>1, PlacementInvariant, PTL

\* updatePendingStatusById and the event in its transaction: one event per
\* status change, whatever is retried.
THEOREM OutboxFollowsStatus == Spec => []OutboxTellsStatus
<1>1. Inv => OutboxTellsStatus
  BY DEF Inv, OrderInv, StatusInv, OutboxTellsStatus
<1>2. QED BY <1>1, PlacementInvariant, PTL

-----------------------------------------------------------------------------
(***************************************************************************)
(* The contexts of the saga.  Whatever the workflow retries, abandons or   *)
(* finds handled late, it asks each context only for what the context's    *)
(* own specification allows, so what is proved of Account and Stock holds  *)
(* of the whole.                                                           *)
(***************************************************************************)

\* An activity's request is one transaction of one context, or of none.
LEMMA EffectOnContexts ==
  ASSUME NEW a, NEW o \in Orders, Effect(a, o)
  PROVE  [Accounts!Next]_accountVars /\ [Stocks!Next]_stockVars
BY DEF Effect, Accounts!Next, Stocks!Next

\* Every step of the saga is a step of each context, or leaves it alone.
LEMMA ContextStep ==
  ASSUME [Next]_vars
  PROVE  [Accounts!Next]_accountVars /\ [Stocks!Next]_stockVars
<1>1. CASE UNCHANGED vars
  BY <1>1 DEF vars
<1>2. ASSUME NEW o \in Orders,
             \/ StartWorkflow(o) \/ StartAttempt(o) \/ Complete(o) \/ AttemptTimeout(o)
             \/ GiveUp(o) \/ Cancel(o) \/ Deliver(o) \/ \E a \in Activities : DropLate(a, o)
      PROVE  UNCHANGED <<accountVars, stockVars>>
  BY <1>2 DEF StartWorkflow, StartAttempt, Complete, AttemptTimeout, GiveUp, Cancel, Fail,
              Deliver, DropLate
<1>3. ASSUME NEW o \in Orders,
             Handle(o) \/ Redeliver(o) \/ \E a \in Activities : HandleLate(a, o)
      PROVE  [Accounts!Next]_accountVars /\ [Stocks!Next]_stockVars
  BY <1>3, EffectOnContexts DEF Handle, Redeliver, HandleLate
<1>4. CASE Environment
  BY <1>4, PlacementAssumption DEF Environment, Accounts!Next, Stocks!Next
<1> QED
  BY <1>1, <1>2, <1>3, <1>4 DEF Next

\* The saga is a behaviour of the account context and of the stock context.
THEOREM SagaKeepsContracts == Spec => Accounts!Spec /\ Stocks!Spec
<1>1. Init => Accounts!Init /\ Stocks!Init
  BY DEF Init
<1>2. [Next]_vars => [Accounts!Next]_(Accounts!accountVars) /\ [Stocks!Next]_(Stocks!stockVars)
  BY ContextStep DEF accountVars, stockVars, Accounts!accountVars, Stocks!stockVars
<1> QED
  BY <1>1, <1>2, PTL DEF Spec, Accounts!Spec, Stocks!Spec

\* The contexts' modules with their proofs; the replies of the one and the single
\* transactions of the other have no part in the saga.
Ledger == INSTANCE AccountProofs WITH answered <- {}

Warehouse == INSTANCE StockProofs WITH Tx <- {}, MaxAttempts <- 1, tx <- << >>

\* The one is the account context of the saga.
LEMMA SameAccounts == Accounts!Spec => Ledger!Spec
<1>1. Accounts!Init => Ledger!Init
  BY DEF Accounts!Init, Ledger!Init, Accounts!RowTypes, Ledger!RowTypes
<1>2. Accounts!Next => Ledger!Next
  BY DEF Accounts!Next, Accounts!Charge, Accounts!Refund, Accounts!CreateAccount,
         Accounts!IsValidMovement, Accounts!Processed, Accounts!CanDebit, Accounts!Row,
         Accounts!FenceRows, Accounts!accountVars,
         Ledger!Next, Ledger!Charge, Ledger!Refund, Ledger!CreateAccount,
         Ledger!IsValidMovement, Ledger!Processed, Ledger!CanDebit, Ledger!Row,
         Ledger!FenceRows, Ledger!accountVars
<1>3. [Accounts!Next]_(Accounts!accountVars) => [Ledger!Next]_(Ledger!accountVars)
  BY <1>2 DEF Accounts!accountVars, Ledger!accountVars
<1> QED
  BY <1>1, <1>3, PTL DEF Accounts!Spec, Ledger!Spec

\* The other is its stock context.
LEMMA SameStocks == Stocks!Spec => Warehouse!Spec
<1>1. Stocks!Init => Warehouse!Init
  BY DEF Stocks!Init, Warehouse!Init
<1>2. Stocks!Next => Warehouse!Next
  BY DEF Stocks!Next, Stocks!Reserve, Stocks!Release, Stocks!SoftDelete, Stocks!ReserveReply,
         Stocks!Missing, Stocks!Failed, Stocks!Inserted, Stocks!Items, Stocks!Available,
         Stocks!Active, Stocks!stockVars,
         Warehouse!Next, Warehouse!Reserve, Warehouse!Release, Warehouse!SoftDelete,
         Warehouse!ReserveReply, Warehouse!Missing, Warehouse!Failed, Warehouse!Inserted,
         Warehouse!Items, Warehouse!Available, Warehouse!Active, Warehouse!stockVars
<1>3. [Stocks!Next]_(Stocks!stockVars) => [Warehouse!Next]_(Warehouse!stockVars)
  BY <1>2 DEF Stocks!stockVars, Warehouse!stockVars
<1> QED
  BY <1>1, <1>3, PTL DEF Stocks!Spec, Warehouse!Spec

\* What the one promises is what the context does,
LEMMA SameMoney ==
  /\ Ledger!BalanceIsLedger => Accounts!BalanceIsLedger
  /\ Ledger!AtMostOnce => Accounts!AtMostOnce
<1>1. \A S : Ledger!Cardinality(S) = Accounts!Cardinality(S)
  BY DEF Ledger!Cardinality, Accounts!Cardinality, Ledger!IsFiniteSet, Accounts!IsFiniteSet
<1>2. \A t, c : Ledger!Cents(t, c) = Accounts!Cents(t, c)
  BY DEF Ledger!Cents, Accounts!Cents
<1> QED
  BY <1>1, <1>2 DEF Ledger!BalanceIsLedger, Accounts!BalanceIsLedger, Ledger!AtMostOnce,
                    Accounts!AtMostOnce

\* and the same of the other.
LEMMA SamePieces ==
  /\ Warehouse!ReservedIsHeld => Stocks!ReservedIsHeld
  /\ Warehouse!NotOversold => Stocks!NotOversold
  /\ Warehouse!AllOrNothing => Stocks!AllOrNothing
<1>1. \A S : Warehouse!Cardinality(S) = Stocks!Cardinality(S)
  BY DEF Warehouse!Cardinality, Stocks!Cardinality, Warehouse!IsFiniteSet, Stocks!IsFiniteSet
<1>2. \A f : Warehouse!Pieces(f) = Stocks!Pieces(f)
  BY DEF Warehouse!Pieces, Stocks!Pieces
<1> QED
  BY <1>1, <1>2 DEF Warehouse!ReservedIsHeld, Stocks!ReservedIsHeld, Warehouse!NotOversold,
                    Stocks!NotOversold, Warehouse!AllOrNothing, Stocks!AllOrNothing,
                    Warehouse!Items, Stocks!Items

\* What Account and Stock assume of the constants; offers are numbered.
ContextsAssumption ==
  Accounts!AccountAssumption /\ Stocks!StockAssumption /\ Offers \subseteq Nat

ContextsInv ==
  /\ Accounts!BalanceIsLedger /\ Accounts!AtMostOnce
  /\ Stocks!ReservedIsHeld /\ Stocks!NotOversold /\ Stocks!AllOrNothing

\* Through every retry, timeout, cancellation and late request of the saga the
\* balance of each customer is the sum of his ledger rows, no order pays or is
\* refunded twice, and no offer is oversold or reserved by an order in part.
THEOREM SagaKeepsMoneyAndStock == ContextsAssumption => (Spec => []ContextsInv)
<1> SUFFICES ASSUME ContextsAssumption PROVE Spec => []ContextsInv
  OBVIOUS
<1>1. Ledger!AccountAssumption
  BY DEF ContextsAssumption, Ledger!AccountAssumption, Accounts!AccountAssumption
<1>2. Warehouse!StockAssumption /\ Warehouse!StockTransactionsAssumption
  BY DEF ContextsAssumption, Stocks!StockAssumption, Warehouse!StockAssumption,
         Warehouse!StockTransactionsAssumption
<1>3. Ledger!Spec => []Ledger!BalanceIsLedger /\ []Ledger!AtMostOnce
  BY <1>1, Ledger!BalanceEqualsLedger, Ledger!MoneyMovesAtMostOnce
<1>4. Warehouse!Spec => /\ []Warehouse!ReservedIsHeld /\ []Warehouse!NotOversold
                        /\ []Warehouse!AllOrNothing
  BY <1>2, Warehouse!ReservedEqualsHeld, Warehouse!NeverOversold, Warehouse!WholeOrders
<1> QED
  BY <1>3, <1>4, SagaKeepsContracts, SameAccounts, SameStocks, SameMoney, SamePieces, PTL
  DEF ContextsInv

=============================================================================
