--------------------------- MODULE AccountProofs ---------------------------
(***************************************************************************)
(* Proofs about Account and AccountReplies, for any set of orders,         *)
(* customers, amounts and opening balances.                                *)
(***************************************************************************)
EXTENDS AccountReplies, FiniteSetTheorems, TLAPS

(***************************************************************************)
(* AtMostOnce is not inductive: it needs what the inbox says about the     *)
(* ledger.  No charge row means no ledger row; a charge row without a      *)
(* refund row is exactly one payment (nothing but an applied charge leaves *)
(* it that way); a refund row means the order is settled for good.         *)
(***************************************************************************)
InboxAgrees(o) ==
    /\ ledger[o]["REFUND"] <= ledger[o]["PAYMENT"] /\ ledger[o]["PAYMENT"] <= 1
    /\ ~Processed("CUSTOMER_CHARGE", o) =>
         ledger[o]["PAYMENT"] = 0 /\ ~Processed("CUSTOMER_REFUND", o)
    /\ ~Processed("CUSTOMER_REFUND", o) => ledger[o]["REFUND"] = 0
    /\ Processed("CUSTOMER_CHARGE", o) /\ ~Processed("CUSTOMER_REFUND", o) =>
         ledger[o]["PAYMENT"] = 1
    /\ Processed("CUSTOMER_REFUND", o) =>
         ledger[o]["REFUND"] = ledger[o]["PAYMENT"]

InboxMatchesLedger == \A o \in Orders : InboxAgrees(o)

\* The ledger after one more row: only the row's own counter moves.
LEMMA RowValue ==
  ASSUME TypeOK, NEW o \in Orders, NEW t \in RowTypes
  PROVE  /\ Row(o, t) \in [Orders -> [RowTypes -> Nat]]
         /\ \A p \in Orders, s \in RowTypes :
              Row(o, t)[p][s] = IF p = o /\ s = t THEN ledger[o][t] + 1 ELSE ledger[p][s]
         /\ \A p \in Orders : p # o => Row(o, t)[p] = ledger[p]
BY DEF TypeOK, Row

\* Type correctness: in particular the guarded debit never takes a balance
\* below zero, however charges and refunds interleave.
THEOREM TypeCorrect == Spec => []TypeOK
<1>1. Init => TypeOK
  BY AccountAssumption DEF Init, TypeOK, RowTypes, Consumers
<1>2. TypeOK /\ [Next]_accountVars => TypeOK'
  <2> SUFFICES ASSUME TypeOK, [Next]_accountVars
               PROVE  TypeOK'
    OBVIOUS
  <2>1. ASSUME NEW o \in Orders, Charge(o) PROVE TypeOK'
    <3>1. CASE UNCHANGED accountVars
      BY <3>1 DEF TypeOK, accountVars
    <3>2. CASE ~UNCHANGED accountVars
      <4>1. balance' \in [Customers -> Nat]
        BY <2>1, <3>2, AccountAssumption DEF TypeOK, Charge, CanDebit
      <4>2. ledger' \in [Orders -> [RowTypes -> Nat]]
        BY <2>1, <3>2, RowValue DEF Charge, RowTypes
      <4>3. account' \subseteq Customers
        BY <2>1, <3>2 DEF TypeOK, Charge
      <4>4. <<"CUSTOMER_CHARGE", o>> \in Consumers \X Orders
        BY DEF Consumers
      <4>5. inbox' = inbox \cup {<<"CUSTOMER_CHARGE", o>>}
        BY <2>1, <3>2 DEF Charge
      <4>6. inbox' \subseteq Consumers \X Orders
        <5> HIDE DEF Consumers
        <5> QED BY <4>4, <4>5, Zenon DEF TypeOK
      <4>7. QED BY <4>1, <4>2, <4>3, <4>6 DEF TypeOK
    <3>3. QED BY <3>1, <3>2
  <2>2. ASSUME NEW o \in Orders, Refund(o) PROVE TypeOK'
    <3>1. /\ Customer[o] \in Customers /\ Amount[o] \in Nat
          /\ balance[Customer[o]] + Amount[o] \in Nat
      BY AccountAssumption DEF TypeOK
    <3>5. balance' \in [Customers -> Nat]
      BY <2>2, <3>1 DEF TypeOK, Refund, accountVars
    <3>6. account' \subseteq Customers
      BY <2>2, <3>1 DEF TypeOK, Refund, accountVars
    <3>2. ledger' \in [Orders -> [RowTypes -> Nat]]
      BY <2>2, RowValue DEF TypeOK, Refund, RowTypes, accountVars
    <3>3. inbox' \subseteq Consumers \X Orders
      BY <2>2 DEF TypeOK, Refund, FenceRows, Consumers, accountVars
    <3>4. QED BY <3>2, <3>3, <3>5, <3>6 DEF TypeOK
  <2>3. ASSUME NEW c \in Customers, CreateAccount(c) PROVE TypeOK'
    BY <2>3 DEF TypeOK, CreateAccount
  <2>4. CASE UNCHANGED accountVars
    BY <2>4 DEF TypeOK, accountVars
  <2>5. QED BY <2>1, <2>2, <2>3, <2>4 DEF Next
<1>3. QED BY <1>1, <1>2, PTL DEF Spec

\* One step keeps the inbox and the ledger in agreement.
LEMMA InboxStep ==
  ASSUME TypeOK, InboxMatchesLedger, [Next]_accountVars
  PROVE  InboxMatchesLedger'
<1>1. ASSUME NEW o \in Orders, Charge(o) PROVE InboxMatchesLedger'
  <2>1. CASE UNCHANGED accountVars
    BY <2>1 DEF InboxMatchesLedger, InboxAgrees, Processed, accountVars
  <2>2. CASE ~UNCHANGED accountVars
    <3>1. /\ ~Processed("CUSTOMER_CHARGE", o)
          /\ ledger' = Row(o, "PAYMENT")
          /\ inbox' = inbox \cup {<<"CUSTOMER_CHARGE", o>>}
      BY <1>1, <2>2 DEF Charge
    <3>2. \A p \in Orders :
            /\ Processed("CUSTOMER_CHARGE", p)' <=> (p = o \/ Processed("CUSTOMER_CHARGE", p))
            /\ Processed("CUSTOMER_REFUND", p)' <=> Processed("CUSTOMER_REFUND", p)
      BY <3>1 DEF Processed
    <3>3. \A p \in Orders :
            /\ ledger'[p]["PAYMENT"] = IF p = o THEN ledger[o]["PAYMENT"] + 1 ELSE ledger[p]["PAYMENT"]
            /\ ledger'[p]["REFUND"] = ledger[p]["REFUND"]
      BY <3>1, RowValue DEF RowTypes
    <3>4. SUFFICES ASSUME NEW p \in Orders PROVE InboxAgrees(p)'
      BY DEF InboxMatchesLedger
    <3>5. CASE p = o
      BY <3>1, <3>2, <3>3, <3>5 DEF InboxMatchesLedger, InboxAgrees, TypeOK, RowTypes
    <3>6. CASE p # o
      BY <3>1, <3>2, <3>3, <3>6 DEF InboxMatchesLedger, InboxAgrees, TypeOK, RowTypes
    <3>7. QED BY <3>5, <3>6
  <2>3. QED BY <2>1, <2>2
<1>2. ASSUME NEW o \in Orders, Refund(o) PROVE InboxMatchesLedger'
  <2>1. CASE UNCHANGED accountVars
    BY <2>1 DEF InboxMatchesLedger, InboxAgrees, Processed, accountVars
  <2>2. CASE /\ ~Processed("CUSTOMER_REFUND", o) /\ ~Processed("CUSTOMER_CHARGE", o)
             /\ inbox' = inbox \cup FenceRows(o) /\ UNCHANGED ledger
    <3>1. \A p \in Orders :
            /\ Processed("CUSTOMER_CHARGE", p)' <=> (p = o \/ Processed("CUSTOMER_CHARGE", p))
            /\ Processed("CUSTOMER_REFUND", p)' <=> (p = o \/ Processed("CUSTOMER_REFUND", p))
      BY <2>2 DEF Processed, FenceRows
    <3>2. QED BY <2>2, <3>1 DEF InboxMatchesLedger, InboxAgrees, TypeOK, RowTypes
  <2>3. CASE /\ ~Processed("CUSTOMER_REFUND", o) /\ Processed("CUSTOMER_CHARGE", o)
             /\ inbox' = inbox \cup {<<"CUSTOMER_REFUND", o>>} /\ ledger' = Row(o, "REFUND")
    <3>1. \A p \in Orders :
            /\ Processed("CUSTOMER_CHARGE", p)' <=> Processed("CUSTOMER_CHARGE", p)
            /\ Processed("CUSTOMER_REFUND", p)' <=> (p = o \/ Processed("CUSTOMER_REFUND", p))
      BY <2>3 DEF Processed
    <3>2. \A p \in Orders :
            /\ ledger'[p]["REFUND"] = IF p = o THEN ledger[o]["REFUND"] + 1 ELSE ledger[p]["REFUND"]
            /\ ledger'[p]["PAYMENT"] = ledger[p]["PAYMENT"]
      BY <2>3, RowValue DEF RowTypes
    <3>3. SUFFICES ASSUME NEW p \in Orders PROVE InboxAgrees(p)'
      BY DEF InboxMatchesLedger
    <3>4. CASE p = o
      BY <2>3, <3>1, <3>2, <3>4 DEF InboxMatchesLedger, InboxAgrees, TypeOK, RowTypes
    <3>5. CASE p # o
      BY <2>3, <3>1, <3>2, <3>5 DEF InboxMatchesLedger, InboxAgrees, TypeOK, RowTypes
    <3>6. QED BY <3>4, <3>5
  <2>4. QED BY <1>2, <2>1, <2>2, <2>3 DEF Refund
<1>3. ASSUME NEW c \in Customers, CreateAccount(c) PROVE InboxMatchesLedger'
  BY <1>3 DEF InboxMatchesLedger, InboxAgrees, CreateAccount, Processed
<1>4. CASE UNCHANGED accountVars
  BY <1>4 DEF InboxMatchesLedger, InboxAgrees, Processed, accountVars
<1>5. QED BY <1>1, <1>2, <1>3, <1>4 DEF Next

\* The inbox always explains the ledger.
LEMMA InboxInvariant == Spec => []InboxMatchesLedger
<1>1. Init => InboxMatchesLedger
  BY DEF Init, InboxMatchesLedger, InboxAgrees, Processed, RowTypes
<1>2. QED BY <1>1, InboxStep, TypeCorrect, PTL DEF Spec

\* A charge and a refund are each applied at most once per order, and a
\* refund only to a charged order, whatever is redelivered or reordered.
THEOREM MoneyMovesAtMostOnce == Spec => []AtMostOnce
<1>1. InboxMatchesLedger => AtMostOnce
  BY DEF InboxMatchesLedger, InboxAgrees, AtMostOnce
<1>2. QED BY <1>1, InboxInvariant, PTL

\* What a step leaves of an order whose refund is committed.
Settled(o) ==
  Processed("CUSTOMER_REFUND", o) =>
    /\ Processed("CUSTOMER_REFUND", o)'
    /\ ledger'[o] = ledger[o]
    /\ ledger[o]["REFUND"] = ledger[o]["PAYMENT"]

\* No step moves money of an order whose refund was processed.
LEMMA SettledStep ==
  ASSUME TypeOK, InboxMatchesLedger, Next
  PROVE  \A o \in Orders : Settled(o)
<1>1. ASSUME NEW p \in Orders, Charge(p) PROVE \A o \in Orders : Settled(o)
  BY <1>1 DEF Settled, InboxMatchesLedger, InboxAgrees, TypeOK, Charge, Processed, Row, RowTypes, accountVars
<1>2. ASSUME NEW p \in Orders, Refund(p) PROVE \A o \in Orders : Settled(o)
  BY <1>2 DEF Settled, InboxMatchesLedger, InboxAgrees, TypeOK, Refund, Processed, Row, FenceRows, RowTypes, accountVars
<1>3. ASSUME NEW c \in Customers, CreateAccount(c) PROVE \A o \in Orders : Settled(o)
  BY <1>3 DEF Settled, InboxMatchesLedger, InboxAgrees, CreateAccount, Processed
<1>4. QED BY <1>1, <1>2, <1>3 DEF Next

\* After a refund, applied or fenced, the ledger of the order never changes.
THEOREM RefundSettles == Spec => RefundIsFinal
<1>1. TypeOK /\ InboxMatchesLedger /\ [Next]_accountVars
        => [\A o \in Orders : Settled(o)]_accountVars
  BY SettledStep
<1>2. QED BY <1>1, TypeCorrect, InboxInvariant, PTL DEF Spec, RefundIsFinal, Settled

-----------------------------------------------------------------------------
(***************************************************************************)
(* The answers.  A reply changes nothing of Account, so every behaviour of *)
(* SpecReplies is one of Spec and what is proved above holds of it.        *)
(***************************************************************************)
LEMMA RepliesStep ==
  ASSUME [NextReplies]_vars
  PROVE  [Next]_accountVars
BY DEF NextReplies, HandleCustomerCharge, HandleCustomerRefund, HandleUserCreated,
       Next, vars, accountVars

\* The answers change nothing of what the handlers do.
LEMMA RepliesAreAccount == SpecReplies => Spec
<1>1. InitReplies => Init
  BY DEF InitReplies
<1>2. QED BY <1>1, RepliesStep, PTL DEF SpecReplies, Spec

(***************************************************************************)
(* An answered refund is a committed one, which is what keeps the answer   *)
(* true: RefundAnswerStands alone does not say why a late charge of an     *)
(* order answered "not_charged" cannot be applied.                         *)
(***************************************************************************)
AnswersCommitted ==
  \A o \in Orders :
    /\ <<"CUSTOMER_REFUND", o, "not_charged">> \in answered =>
         Processed("CUSTOMER_REFUND", o) /\ ledger[o]["PAYMENT"] = 0
    /\ <<"CUSTOMER_REFUND", o, "refunded">> \in answered =>
         Processed("CUSTOMER_REFUND", o)

\* What a refund's transaction has done when its reply is sent.
LEMMA RefundAnswered ==
  ASSUME TypeOK, InboxMatchesLedger, NEW o \in Orders, Refund(o), RefundReply(o) # "nack"
  PROVE  /\ Processed("CUSTOMER_REFUND", o)'
         /\ RefundReply(o) = "not_charged" => ledger'[o]["PAYMENT"] = 0
<1>1. IsValidMovement(o)
  BY DEF RefundReply
<1>2. Processed("CUSTOMER_REFUND", o)'
  BY <1>1 DEF Refund, Processed, FenceRows, accountVars
<1>3. ASSUME RefundReply(o) = "not_charged" PROVE ledger'[o]["PAYMENT"] = 0
  <2>1. ~Processed("CUSTOMER_REFUND", o) /\ ~Processed("CUSTOMER_CHARGE", o)
    BY <1>1, <1>3 DEF RefundReply
  <2>2. UNCHANGED ledger
    BY <1>1, <2>1 DEF Refund
  <2>3. QED BY <2>1, <2>2 DEF InboxMatchesLedger, InboxAgrees
<1>4. QED BY <1>2, <1>3

\* A step gives only answers that are committed, and unsettles none.
LEMMA AnswersStep ==
  ASSUME TypeOK, InboxMatchesLedger, AnswersCommitted, [NextReplies]_vars
  PROVE  AnswersCommitted'
<1>1. CASE UNCHANGED vars
  BY <1>1 DEF AnswersCommitted, Processed, vars, accountVars
<1>2. CASE NextReplies
  <2>1. \A o \in Orders : Settled(o)
    <3>1. Next
      BY <1>2 DEF NextReplies, HandleCustomerCharge, HandleCustomerRefund, HandleUserCreated, Next
    <3>2. QED BY <3>1, SettledStep
  <2> SUFFICES ASSUME NEW p \in Orders
               PROVE  /\ <<"CUSTOMER_REFUND", p, "not_charged">> \in answered' =>
                           Processed("CUSTOMER_REFUND", p)' /\ ledger'[p]["PAYMENT"] = 0
                      /\ <<"CUSTOMER_REFUND", p, "refunded">> \in answered' =>
                           Processed("CUSTOMER_REFUND", p)'
    BY DEF AnswersCommitted, Processed
  <2>2. /\ <<"CUSTOMER_REFUND", p, "not_charged">> \in answered =>
             Processed("CUSTOMER_REFUND", p)' /\ ledger'[p]["PAYMENT"] = 0
        /\ <<"CUSTOMER_REFUND", p, "refunded">> \in answered =>
             Processed("CUSTOMER_REFUND", p)'
    BY <2>1 DEF AnswersCommitted, Settled
  <2>3. ASSUME NEW o \in Orders, HandleCustomerRefund(o),
               NEW reply, <<"CUSTOMER_REFUND", p, reply>> \in answered' \ answered
        PROVE  p = o /\ reply = RefundReply(o) /\ RefundReply(o) # "nack"
    BY <2>3 DEF HandleCustomerRefund, Reply
  <2>4. ASSUME NEW o \in Orders, HandleCustomerCharge(o),
               NEW reply, <<"CUSTOMER_REFUND", p, reply>> \in answered'
        PROVE  <<"CUSTOMER_REFUND", p, reply>> \in answered
    BY <2>4 DEF HandleCustomerCharge, Reply
  <2>5. ASSUME NEW o \in Orders, HandleCustomerRefund(o)
        PROVE  /\ RefundReply(o) # "nack" => Processed("CUSTOMER_REFUND", o)'
               /\ RefundReply(o) = "not_charged" => ledger'[o]["PAYMENT"] = 0
    BY <2>5, RefundAnswered DEF HandleCustomerRefund
  <2>6. CASE \E o \in Orders : HandleCustomerRefund(o)
    BY <2>2, <2>3, <2>5, <2>6
  <2>7. CASE \E o \in Orders : HandleCustomerCharge(o)
    BY <2>2, <2>4, <2>7
  <2>8. CASE \E c \in Customers : HandleUserCreated(c)
    BY <2>2, <2>8 DEF HandleUserCreated
  <2>9. QED BY <1>2, <2>6, <2>7, <2>8 DEF NextReplies
<1>3. QED BY <1>1, <1>2

\* handleCustomerRefund never takes an answer back: whatever is redelivered or
\* comes late, an order answered "not_charged" is never charged, and one
\* answered "refunded" has got back what it paid.
THEOREM RefundAnswersStand == SpecReplies => []RefundAnswerStands
<1>1. InitReplies => AnswersCommitted
  BY DEF InitReplies, AnswersCommitted
<1>2. TypeOK /\ InboxMatchesLedger /\ AnswersCommitted => RefundAnswerStands
  <2> SUFFICES ASSUME InboxMatchesLedger, AnswersCommitted, NEW o \in Orders
               PROVE  /\ <<"CUSTOMER_REFUND", o, "not_charged">> \in answered => ~Paid(o)
                      /\ <<"CUSTOMER_REFUND", o, "refunded">> \in answered =>
                           ledger[o]["REFUND"] = ledger[o]["PAYMENT"]
    BY DEF RefundAnswerStands
  <2>1. ledger[o]["PAYMENT"] = 0 => ~Paid(o)
    BY DEF Paid
  <2>2. Processed("CUSTOMER_REFUND", o) => ledger[o]["REFUND"] = ledger[o]["PAYMENT"]
    BY DEF InboxMatchesLedger, InboxAgrees
  <2>3. QED BY <2>1, <2>2 DEF AnswersCommitted
<1>3. SpecReplies => []TypeOK /\ []InboxMatchesLedger
  BY RepliesAreAccount, TypeCorrect, InboxInvariant
<1>4. QED BY <1>1, <1>2, <1>3, AnswersStep, PTL DEF SpecReplies

-----------------------------------------------------------------------------
(***************************************************************************)
(* Balance = ledger.  The sum of the rows of a type is the number of their *)
(* cents; a new row adds a block of Amount[o] new cents.                   *)
(***************************************************************************)
CentsFinite == \A t \in RowTypes, c \in Customers : IsFiniteSet(Cents(t, c))

\* The cents of one row.
Block(o, k) == ({o} \X {k}) \X (1 .. Amount[o])

\* A ledger row is worth its order's amount.
LEMMA BlockSize ==
  ASSUME NEW o \in Orders, NEW k
  PROVE  IsFiniteSet(Block(o, k)) /\ Cardinality(Block(o, k)) = Amount[o]
<1>1. Amount[o] \in Nat
  BY AccountAssumption
<1>2. IsFiniteSet(1 .. Amount[o]) /\ Cardinality(1 .. Amount[o]) = Amount[o]
  <2>1. 1 \in Int /\ Amount[o] \in Int
    BY <1>1
  <2>2. /\ IsFiniteSet(1 .. Amount[o])
        /\ Cardinality(1 .. Amount[o]) = IF 1 > Amount[o] THEN 0 ELSE Amount[o] - 1 + 1
    BY <2>1, FS_Interval, Zenon
  <2>3. QED BY <1>1, <2>2
<1>3. IsFiniteSet({o}) /\ Cardinality({o}) = 1 /\ IsFiniteSet({k}) /\ Cardinality({k}) = 1
  BY FS_Singleton
<1>4. IsFiniteSet({o} \X {k}) /\ Cardinality({o} \X {k}) = 1
  BY <1>3, FS_Product
<1> DEFINE Row1 == {o} \X {k}
           Amounts == 1 .. Amount[o]
<1>5. /\ IsFiniteSet(Row1 \X Amounts)
      /\ Cardinality(Row1 \X Amounts) = Cardinality(Row1) * Cardinality(Amounts)
  <2> HIDE DEF Row1, Amounts
  <2>1. IsFiniteSet(Row1) /\ IsFiniteSet(Amounts)
    BY <1>2, <1>4 DEF Row1, Amounts
  <2>2. QED BY <2>1, FS_Product
<1>6. Cardinality(Row1) * Cardinality(Amounts) = Amount[o]
  BY <1>1, <1>2, <1>4
<1>7. QED BY <1>5, <1>6 DEF Block

\* One more row of type t for order o adds one block to its customer's cents
\* of that type, and touches no other customer and no other type.
LEMMA RowAddsBlock ==
  ASSUME TypeOK, NEW o \in Orders, NEW t \in RowTypes, ledger' = Row(o, t)
  PROVE  \A s \in RowTypes, c \in Customers :
           Cents(s, c)' = IF s = t /\ c = Customer[o]
                          THEN Cents(s, c) \cup Block(o, ledger[o][t] + 1)
                          ELSE Cents(s, c)
<1> SUFFICES ASSUME NEW s \in RowTypes, NEW c \in Customers
             PROVE  Cents(s, c)' = IF s = t /\ c = Customer[o]
                                   THEN Cents(s, c) \cup Block(o, ledger[o][t] + 1)
                                   ELSE Cents(s, c)
  OBVIOUS
<1>1. \A p \in Orders : ledger[p][s] \in Nat /\ ledger'[p][s] \in Nat
  BY RowValue DEF TypeOK
<1>2. \A p \in Orders :
        ledger'[p][s] = IF p = o /\ s = t THEN ledger[p][s] + 1 ELSE ledger[p][s]
  BY RowValue
<1>3. CASE ~(s = t /\ c = Customer[o])
  <2>1. \A p \in Orders : Customer[p] = c => ledger'[p][s] = ledger[p][s]
    BY <1>2, <1>3
  <2>2. {({p} \X (1 .. ledger'[p][s])) \X (1 .. Amount[p]) :
             p \in {q \in Orders : Customer[q] = c}}
          = {({p} \X (1 .. ledger[p][s])) \X (1 .. Amount[p]) :
               p \in {q \in Orders : Customer[q] = c}}
    BY <2>1
  <2>3. QED BY <1>3, <2>2 DEF Cents
<1>4. CASE s = t /\ c = Customer[o]
  <2>1. ledger'[o][s] = ledger[o][s] + 1
    BY <1>2, <1>4
  <2>2. 1 .. ledger'[o][s] = (1 .. ledger[o][s]) \cup {ledger[o][s] + 1}
    BY <1>1, <2>1
  <2>3. \A p \in Orders : p # o => ledger'[p][s] = ledger[p][s]
    BY <1>2
  <2>4. ({o} \X (1 .. ledger'[o][s])) \X (1 .. Amount[o])
          = (({o} \X (1 .. ledger[o][s])) \X (1 .. Amount[o]))
              \cup Block(o, ledger[o][s] + 1)
    BY <2>2 DEF Block
  <2>5. QED BY <1>4, <2>3, <2>4 DEF Cents
<1>5. QED BY <1>3, <1>4

\* The block of a new row is disjoint from the cents already there.
LEMMA BlockIsNew ==
  ASSUME TypeOK, NEW o \in Orders, NEW t \in RowTypes
  PROVE  Cents(t, Customer[o]) \cap Block(o, ledger[o][t] + 1) = {}
<1>1. ledger[o][t] \in Nat
  BY DEF TypeOK
<1>2. ledger[o][t] + 1 \notin 1 .. ledger[o][t]
  BY <1>1
<1>3. QED BY <1>2 DEF Cents, Block

\* So the sum of the type's rows grows by exactly the order's amount.
LEMMA RowAddsAmount ==
  ASSUME TypeOK, CentsFinite, NEW o \in Orders, NEW t \in RowTypes, ledger' = Row(o, t)
  PROVE  /\ CentsFinite'
         /\ \A s \in RowTypes, c \in Customers :
              Cardinality(Cents(s, c)') = IF s = t /\ c = Customer[o]
                                          THEN Cardinality(Cents(s, c)) + Amount[o]
                                          ELSE Cardinality(Cents(s, c))
<1> DEFINE B == Block(o, ledger[o][t] + 1)
           Old == Cents(t, Customer[o])
<1>1. IsFiniteSet(B) /\ Cardinality(B) = Amount[o]
  BY BlockSize
<1>2. Cardinality(Old \cap B) = 0
  BY BlockIsNew, FS_EmptySet
<1>3. Customer[o] \in Customers /\ Amount[o] \in Nat
  BY AccountAssumption
<1>4. IsFiniteSet(Old) /\ Cardinality(Old) \in Nat
  BY <1>3, FS_CardinalityType DEF CentsFinite
<1>5. /\ IsFiniteSet(Old \cup B)
      /\ Cardinality(Old \cup B) = Cardinality(Old) + Cardinality(B) - Cardinality(Old \cap B)
  <2> HIDE DEF B, Old
  <2> QED BY <1>1, <1>4, FS_Union
<1>6. Cardinality(Old \cup B) = Cardinality(Old) + Amount[o]
  <2> HIDE DEF B, Old
  <2> QED BY <1>1, <1>2, <1>3, <1>4, <1>5
<1>7. \A s \in RowTypes, c \in Customers :
        Cents(s, c)' = IF s = t /\ c = Customer[o] THEN Cents(s, c) \cup B ELSE Cents(s, c)
  BY RowAddsBlock
<1> HIDE DEF B
<1>8. CentsFinite'
  BY <1>5, <1>7 DEF CentsFinite
<1>9. QED BY <1>6, <1>7, <1>8

\* The step of the conservation argument.
LEMMA BalanceStep ==
  ASSUME TypeOK, CentsFinite, BalanceIsLedger, [Next]_accountVars
  PROVE  CentsFinite' /\ BalanceIsLedger'
<1>1. CASE UNCHANGED <<balance, ledger>>
  <2>1. \A t \in RowTypes, c \in Customers : Cents(t, c)' = Cents(t, c)
    BY <1>1 DEF Cents
  <2>2. QED BY <1>1, <2>1 DEF CentsFinite, BalanceIsLedger, RowTypes
<1>2. \A t \in RowTypes, c \in Customers : Cardinality(Cents(t, c)) \in Nat
  BY FS_CardinalityType DEF CentsFinite
<1>3. ASSUME NEW o \in Orders, CanDebit(o), ledger' = Row(o, "PAYMENT"),
             balance' = [balance EXCEPT ![Customer[o]] = @ - Amount[o]]
      PROVE  CentsFinite' /\ BalanceIsLedger'
  <2>1. /\ CentsFinite'
        /\ \A s \in RowTypes, c \in Customers :
             Cardinality(Cents(s, c)') = IF s = "PAYMENT" /\ c = Customer[o]
                                         THEN Cardinality(Cents(s, c)) + Amount[o]
                                         ELSE Cardinality(Cents(s, c))
    BY <1>3, RowAddsAmount DEF RowTypes
  <2>2. \A c \in Customers :
          balance'[c] = IF c = Customer[o] THEN balance[c] - Amount[o] ELSE balance[c]
    BY <1>3 DEF TypeOK
  <2>3. SUFFICES ASSUME NEW c \in Customers
                 PROVE  /\ balance'[c] >= 0
                        /\ balance'[c] + Cardinality(Cents("PAYMENT", c)')
                             = Opening[c] + Cardinality(Cents("REFUND", c)')
    BY <2>1 DEF BalanceIsLedger
  <2>4. /\ balance[c] + Cardinality(Cents("PAYMENT", c)) = Opening[c] + Cardinality(Cents("REFUND", c))
        /\ balance[c] \in Nat /\ Opening[c] \in Nat /\ Amount[o] \in Nat
    BY AccountAssumption DEF BalanceIsLedger, TypeOK
  <2>5. /\ Cardinality(Cents("PAYMENT", c)) \in Nat /\ Cardinality(Cents("REFUND", c)) \in Nat
        /\ Cardinality(Cents("REFUND", c)') = Cardinality(Cents("REFUND", c))
        /\ Cardinality(Cents("PAYMENT", c)') = IF c = Customer[o]
                                                THEN Cardinality(Cents("PAYMENT", c)) + Amount[o]
                                                ELSE Cardinality(Cents("PAYMENT", c))
    BY <1>2, <2>1 DEF RowTypes
  <2>6. balance[Customer[o]] >= Amount[o]
    BY <1>3 DEF CanDebit
  <2>7. QED BY <2>2, <2>4, <2>5, <2>6
<1>4. ASSUME NEW o \in Orders, ledger' = Row(o, "REFUND"),
             balance' = [balance EXCEPT ![Customer[o]] = @ + Amount[o]]
      PROVE  CentsFinite' /\ BalanceIsLedger'
  <2>1. /\ CentsFinite'
        /\ \A s \in RowTypes, c \in Customers :
             Cardinality(Cents(s, c)') = IF s = "REFUND" /\ c = Customer[o]
                                         THEN Cardinality(Cents(s, c)) + Amount[o]
                                         ELSE Cardinality(Cents(s, c))
    BY <1>4, RowAddsAmount DEF RowTypes
  <2>2. \A c \in Customers :
          balance'[c] = IF c = Customer[o] THEN balance[c] + Amount[o] ELSE balance[c]
    BY <1>4 DEF TypeOK
  <2>3. SUFFICES ASSUME NEW c \in Customers
                 PROVE  /\ balance'[c] >= 0
                        /\ balance'[c] + Cardinality(Cents("PAYMENT", c)')
                             = Opening[c] + Cardinality(Cents("REFUND", c)')
    BY <2>1 DEF BalanceIsLedger
  <2>4. /\ balance[c] + Cardinality(Cents("PAYMENT", c)) = Opening[c] + Cardinality(Cents("REFUND", c))
        /\ balance[c] \in Nat /\ Opening[c] \in Nat /\ Amount[o] \in Nat
    BY AccountAssumption DEF BalanceIsLedger, TypeOK
  <2>5. /\ Cardinality(Cents("PAYMENT", c)) \in Nat /\ Cardinality(Cents("REFUND", c)) \in Nat
        /\ Cardinality(Cents("PAYMENT", c)') = Cardinality(Cents("PAYMENT", c))
        /\ Cardinality(Cents("REFUND", c)') = IF c = Customer[o]
                                               THEN Cardinality(Cents("REFUND", c)) + Amount[o]
                                               ELSE Cardinality(Cents("REFUND", c))
    BY <1>2, <2>1 DEF RowTypes
  <2>6. QED BY <2>2, <2>4, <2>5
<1>5. QED BY <1>1, <1>3, <1>4 DEF Next, Charge, Refund, CreateAccount, accountVars

\* README's ledger invariant, for every number of orders and every amount:
\* each customer's balance is the opening balance minus payments plus refunds.
THEOREM BalanceEqualsLedger == Spec => []BalanceIsLedger
<1>1. Init => CentsFinite /\ BalanceIsLedger
  <2> SUFFICES ASSUME Init PROVE CentsFinite /\ BalanceIsLedger
    OBVIOUS
  <2>1. \A t \in RowTypes, c \in Customers : Cents(t, c) = {}
    BY DEF Init, Cents
  <2>2. \A t \in RowTypes, c \in Customers :
          IsFiniteSet(Cents(t, c)) /\ Cardinality(Cents(t, c)) = 0
    BY <2>1, FS_EmptySet
  <2>3. \A c \in Customers : balance[c] = Opening[c] /\ Opening[c] \in Nat
    BY AccountAssumption DEF Init
  <2>4. QED BY <2>2, <2>3 DEF CentsFinite, BalanceIsLedger, RowTypes
<1>2. QED BY <1>1, BalanceStep, TypeCorrect, PTL DEF Spec

=============================================================================
