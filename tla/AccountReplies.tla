--------------------------- MODULE AccountReplies ---------------------------
(***************************************************************************)
(* The answers of AccountGateway (src/account/gateway): Account, with the  *)
(* history of what handleCustomerCharge and handleCustomerRefund replied.  *)
(* A caller acts on the reply it gets, which need not be the first one: a  *)
(* reply is lost when the instance dies after the commit, and the request  *)
(* is answered again when it is delivered again.                           *)
(***************************************************************************)
EXTENDS Account

VARIABLE answered   \* <<consumer, order, reply>> of every reply sent

vars == <<accountVars, answered>>

InitReplies == Init /\ answered = {}

\* The handler's transaction, and the reply that follows its commit or is lost.
\* A nacked message gets none.
Reply(consumer, o, reply) ==
  \/ answered' = answered
  \/ reply # "nack" /\ answered' = answered \cup {<<consumer, o, reply>>}

HandleCustomerCharge(o) ==
  /\ Charge(o)
  /\ Reply("CUSTOMER_CHARGE", o, ChargeReply(o))

HandleCustomerRefund(o) ==
  /\ Refund(o)
  /\ Reply("CUSTOMER_REFUND", o, RefundReply(o))

HandleUserCreated(c) ==
  /\ CreateAccount(c)
  /\ UNCHANGED answered

NextReplies ==
  \/ \E o \in Orders : HandleCustomerCharge(o) \/ HandleCustomerRefund(o)
  \/ \E c \in Customers : HandleUserCreated(c)

SpecReplies == InitReplies /\ [][NextReplies]_vars

-----------------------------------------------------------------------------
Paid(o) == ledger[o]["PAYMENT"] > 0

\* Once a refund is answered the answer stays true, whatever is delivered again
\* later: the order has got back all it paid, and one answered "not_charged" has
\* not paid and will not, though its charge may still be on its way.  The two
\* answers say no more: a refund that found no charge is answered "not_charged"
\* once, and "refunded" when it is delivered again.
RefundAnswerStands ==
  \A o \in Orders :
    /\ <<"CUSTOMER_REFUND", o, "not_charged">> \in answered => ~Paid(o)
    /\ <<"CUSTOMER_REFUND", o, "refunded">> \in answered =>
         ledger[o]["REFUND"] = ledger[o]["PAYMENT"]

=============================================================================
