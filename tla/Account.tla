------------------------------ MODULE Account ------------------------------
(***************************************************************************)
(* The account context (src/account): the balance of each customer, the    *)
(* Transaction ledger and the AccountInbox that makes a charge and a       *)
(* refund apply at most once.  Every handler is one database transaction,  *)
(* so it is one action here; a handler that throws rolls back and leaves   *)
(* every variable alone.                                                   *)
(*                                                                         *)
(* A charge and a refund both carry id = the order's publicId, so an order *)
(* stands for its two messages.  An amount is a number of cents.           *)
(***************************************************************************)
EXTENDS Naturals, FiniteSets

CONSTANTS Orders,     \* orders that may be charged and refunded
          Customers,  \* customer ids
          Customer,   \* Customer[o]: who pays for order o
          Amount,     \* Amount[o]: the order's totalAmount
          Opening     \* Opening[c]: deposits already in the ledger

ASSUME AccountAssumption ==
  /\ Customer \in [Orders -> Customers]
  /\ Amount \in [Orders -> Nat]
  /\ Opening \in [Customers -> Nat]

VARIABLES account,   \* customers that have an Account row
          balance,   \* Account.balance, 0 while there is no row
          ledger,    \* ledger[o][t]: Transaction rows of type t written for o
          inbox      \* AccountInbox rows, <<consumer, order>>

accountVars == <<account, balance, ledger, inbox>>

RowTypes == {"PAYMENT", "REFUND"}

Consumers == {"CUSTOMER_CHARGE", "CUSTOMER_REFUND"}

Init ==
  /\ account = {c \in Customers : Opening[c] > 0}
  /\ balance = Opening
  /\ ledger = [o \in Orders |-> [t \in RowTypes |-> 0]]
  /\ inbox = {}

\* Sensitivity variants (each weakens the definition that follows it): the
\* inbox is never consulted.
ProcessedNever(consumer, o) == FALSE

\* AccountInboxRepository.createIfAbsent inserts nothing when the row exists.
Processed(consumer, o) == <<consumer, o>> \in inbox

\* Variant: a row written with the column's default type.
RowDefaultType(o, t) == [ledger EXCEPT ![o]["PAYMENT"] = @ + 1]

\* AccountRepository.create: one more ledger row of type t for order o.
Row(o, t) == [ledger EXCEPT ![o][t] = @ + 1]

(***************************************************************************)
(* AccountRepository.debit: one guarded UPDATE.                            *)
(***************************************************************************)
CanDebit(o) ==
  /\ Customer[o] \in account
  /\ balance[Customer[o]] >= Amount[o]

\* AccountGateway.isValidMovement: an amount must be positive.  The schema's
\* "amount" domain allows a price, and so an order's total, of zero.
IsValidMovement(o) == Amount[o] > 0

\* What handleCustomerCharge answers: "nack" dead-letters the request, which
\* then gets no reply at all.
ChargeReply(o) ==
  IF ~IsValidMovement(o) THEN "nack"
  ELSE IF Processed("CUSTOMER_CHARGE", o) \/ CanDebit(o) THEN "success"
  ELSE IF Customer[o] \in account THEN "insufficient_amount" ELSE "customer_not_found"

(***************************************************************************)
(* A charge delivered to handleCustomerCharge: skipped when its inbox row  *)
(* exists, applied when the debit is covered, else rejected, which rolls   *)
(* back the inbox row as well; nacked when the amount is not positive.     *)
(***************************************************************************)
Charge(o) ==
  \/ /\ IsValidMovement(o)
     /\ ~Processed("CUSTOMER_CHARGE", o)
     /\ CanDebit(o)
     /\ balance' = [balance EXCEPT ![Customer[o]] = @ - Amount[o]]
     /\ ledger' = Row(o, "PAYMENT")
     /\ inbox' = inbox \cup {<<"CUSTOMER_CHARGE", o>>}
     /\ UNCHANGED account
  \/ /\ \/ ~IsValidMovement(o)
        \/ Processed("CUSTOMER_CHARGE", o)
        \/ ~CanDebit(o)
     /\ UNCHANGED accountVars

\* Variant: the answer does not depend on what the effect found.
RefundReplyUncharged(o) ==
  IF ~IsValidMovement(o) THEN "nack"
  ELSE IF Processed("CUSTOMER_REFUND", o) THEN "refunded" ELSE "not_charged"

\* What handleCustomerRefund answers.
RefundReply(o) ==
  IF ~IsValidMovement(o) THEN "nack"
  ELSE IF Processed("CUSTOMER_REFUND", o) \/ Processed("CUSTOMER_CHARGE", o)
  THEN "refunded"
  ELSE "not_charged"

\* Variant: an uncharged refund leaves no fence behind.
FenceRowsMissing(o) == {<<"CUSTOMER_REFUND", o>>}

\* The rows an uncharged refund leaves: its own, and the charge's.
FenceRows(o) == {<<"CUSTOMER_REFUND", o>>, <<"CUSTOMER_CHARGE", o>>}

(***************************************************************************)
(* A refund delivered to handleCustomerRefund.  When the charge's inbox    *)
(* row is missing the refund inserts it, a fence against a late charge.    *)
(* The credit is an upsert of the Account row.                             *)
(***************************************************************************)
Refund(o) ==
  \/ /\ ~IsValidMovement(o) \/ Processed("CUSTOMER_REFUND", o)
     /\ UNCHANGED accountVars
  \/ /\ IsValidMovement(o)
     /\ ~Processed("CUSTOMER_REFUND", o)
     /\ ~Processed("CUSTOMER_CHARGE", o)
     /\ inbox' = inbox \cup FenceRows(o)
     /\ UNCHANGED <<account, balance, ledger>>
  \/ /\ IsValidMovement(o)
     /\ ~Processed("CUSTOMER_REFUND", o)
     /\ Processed("CUSTOMER_CHARGE", o)
     /\ inbox' = inbox \cup {<<"CUSTOMER_REFUND", o>>}
     /\ account' = account \cup {Customer[o]}
     /\ balance' = [balance EXCEPT ![Customer[o]] = @ + Amount[o]]
     /\ ledger' = Row(o, "REFUND")

(***************************************************************************)
(* user.created reaches AccountUserEventsGateway: INSERT ... ON CONFLICT   *)
(* DO NOTHING, so a redelivered event changes nothing.                     *)
(***************************************************************************)
CreateAccount(c) ==
  /\ account' = account \cup {c}
  /\ UNCHANGED <<balance, ledger, inbox>>

Next ==
  \/ \E o \in Orders : Charge(o) \/ Refund(o)
  \/ \E c \in Customers : CreateAccount(c)

Spec == Init /\ [][Next]_accountVars

-----------------------------------------------------------------------------
TypeOK ==
  /\ account \subseteq Customers
  /\ balance \in [Customers -> Nat]
  /\ ledger \in [Orders -> [RowTypes -> Nat]]
  /\ inbox \subseteq Consumers \X Orders

(***************************************************************************)
(* The cents of every row of type t written for the orders of customer c:  *)
(* cent u of row k of order o is <<<<o, k>>, u>>, so the cardinality of    *)
(* the set is the SUM(amount) of those rows.                               *)
(***************************************************************************)
Cents(t, c) ==
  UNION {({o} \X (1 .. ledger[o][t])) \X (1 .. Amount[o]) :
           o \in {p \in Orders : Customer[p] = c}}

\* README: "The invariant is Account.balance = SUM(ledger) per customer".
\* The charge and refund handlers move the balance and the ledger together,
\* and charges that each fit the balance do not overdraw it together.
BalanceIsLedger ==
  \A c \in Customers :
    /\ balance[c] >= 0
    /\ balance[c] + Cardinality(Cents("PAYMENT", c))
         = Opening[c] + Cardinality(Cents("REFUND", c))

\* However often charge and refund are delivered, in whatever order, an order
\* pays at most once and gets back at most what it paid.
AtMostOnce ==
  \A o \in Orders :
    ledger[o]["REFUND"] <= ledger[o]["PAYMENT"] /\ ledger[o]["PAYMENT"] <= 1

\* Once a refund of an order is committed its money no longer moves: a charge
\* that comes late, or comes again, meets the inbox row the refund left.
RefundIsFinal ==
  [][\A o \in Orders :
       Processed("CUSTOMER_REFUND", o) =>
         /\ Processed("CUSTOMER_REFUND", o)'
         /\ ledger'[o] = ledger[o]
         /\ ledger[o]["REFUND"] = ledger[o]["PAYMENT"]]_accountVars

=============================================================================
