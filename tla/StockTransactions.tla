------------------------- MODULE StockTransactions -------------------------
(***************************************************************************)
(* The transactions of the seller-offer context statement by statement,    *)
(* with the rows they lock, the waits and the deadlocks between them, and  *)
(* the adapter that retries a deadlock's victim (src/generic/db).  The     *)
(* variables of Stock are what is committed; Stock says what one whole     *)
(* transaction may do to it.                                               *)
(*                                                                         *)
(* A transaction asks for one lock at a time: the reservation row of an    *)
(* item, which it inserts or updates, and then the row of the offer.  The  *)
(* statement that reserves an item reads the offer when it has its row.    *)
(***************************************************************************)
EXTENDS Stock, FiniteSetsExt

CONSTANTS Tx,          \* database connections that run a transaction
          MaxAttempts  \* maxAttempts of the retry adapter

ASSUME StockTransactionsAssumption == Offers \subseteq Nat /\ MaxAttempts \in Nat \ {0}

VARIABLES tx  \* the transaction on each connection

vars == <<stockVars, tx>>

(***************************************************************************)
(* todo: items whose reservation row it has not reached; rows, held: the   *)
(* reservation rows and offers it has changed; short: offers it could not  *)
(* hold; want: what it asks for next; attempt: of the retry adapter.       *)
(***************************************************************************)
Idle == [kind |-> "none", order |-> "none", todo |-> {}, rows |-> {}, held |-> {},
         short |-> {}, want |-> <<"none">>, attempt |-> 0]

TxInit ==
  /\ Init
  /\ tx = [t \in Tx |-> Idle]

-----------------------------------------------------------------------------
\* Variant: the items are taken in the order of the request.
FirstInAnyOrder(items) == items

\* reserve sorts the items by offerId.
First(items) == {Min(items)}

\* Offers whose reservation row a transaction has, and which it asks for next.
Owed(x) == x.rows \ (x.held \cup x.short)

\* reserve runs one statement per item; release is one statement, which takes
\* a reservation row before its offer and is otherwise in the planner's order.
Wants(x) ==
  LET rows == IF x.todo = {} \/ (x.kind = "reserve" /\ Owed(x) # {}) THEN {}
              ELSE IF x.kind = "reserve" THEN First(x.todo) ELSE x.todo
      next == {<<"row", f>> : f \in rows} \cup {<<"offer", f>> : f \in Owed(x)}
  IN  IF next = {} THEN {<<"commit">>} ELSE next

\* The transaction on t is x from now on, and asks for its next lock.
Proceed(t, x) ==
  /\ \E w \in Wants(x) : tx' = [tx EXCEPT ![t] = [x EXCEPT !.want = w]]
  /\ UNCHANGED stockVars

End(t) == tx' = [tx EXCEPT ![t] = Idle]

\* A request reaches handleStockReserve or handleStockRelease.
Receive(t, kind, o) ==
  /\ tx[t] = Idle
  /\ tx' = [tx EXCEPT ![t] = [Idle EXCEPT !.kind = kind, !.order = o, !.want = <<"begin">>,
                                          !.attempt = 1]]
  /\ UNCHANGED stockVars

\* findByIds of the reserve handler, or the snapshot of the releasing statement.
Begin(t) ==
  /\ tx[t].want = <<"begin">>
  /\ LET o == tx[t].order
     IN  \/ tx[t].kind = "reserve" /\ Missing(o) # {} /\ End(t) /\ UNCHANGED stockVars
         \/ tx[t].kind = "reserve" /\ Missing(o) = {} /\ Proceed(t, [tx[t] EXCEPT !.todo = Items(o)])
         \/ tx[t].kind = "release" /\ Proceed(t, [tx[t] EXCEPT !.todo = Active(o)])

\* The transaction whose uncommitted row the wanted lock is on, if any.
WaitsFor(t) ==
  {u \in Tx \ {t} :
     \/ tx[t].want[1] = "row" /\ tx[u].order = tx[t].order /\ tx[t].want[2] \in tx[u].rows
     \/ tx[t].want[1] = "offer" /\ tx[t].want[2] \in tx[u].held}

\* INSERT ... ON CONFLICT DO NOTHING, or the update of a row that is still
\* active once nobody else has it.
LockRow(t) ==
  /\ tx[t].want[1] = "row" /\ WaitsFor(t) = {}
  /\ LET x == tx[t]
         f == x.want[2]
         own == IF x.kind = "reserve" THEN Inserted(x.order) ELSE Active(x.order)
     IN  Proceed(t, [x EXCEPT !.todo = @ \ {f}, !.rows = @ \cup ({f} \cap own)])

\* Variant: deletedAt is looked at by findByIds only.
CanHoldDeleted(f, n) == Available(f, n)

\* The WHERE clause of the UPDATE that holds stock, on the latest row.
CanHold(f, n) == f \notin deleted /\ Available(f, n)

LockOffer(t) ==
  /\ tx[t].want[1] = "offer"
  /\ LET x == tx[t]
         f == x.want[2]
     IN  \/ /\ x.kind = "release" \/ CanHold(f, Quantity[x.order][f])
            /\ WaitsFor(t) = {}
            /\ Proceed(t, [x EXCEPT !.held = @ \cup {f}])
         \/ /\ x.kind = "reserve" /\ ~CanHold(f, Quantity[x.order][f])
            /\ Proceed(t, [x EXCEPT !.short = @ \cup {f}])

\* The transaction commits, or is rolled back for an item it could not hold.
Commit(t) ==
  /\ tx[t].want = <<"commit">>
  /\ End(t)
  /\ LET x == tx[t]
     IN  IF x.short # {} THEN UNCHANGED stockVars
         ELSE /\ reservation' = [reservation EXCEPT ![x.order] = [f \in Offers |->
                   IF f \notin x.rows THEN @[f]
                   ELSE IF x.kind = "reserve" THEN "reserved" ELSE "released"]]
              /\ reservedQuantity' = [f \in Offers |->
                   IF f \notin x.held THEN reservedQuantity[f]
                   ELSE IF x.kind = "reserve" THEN reservedQuantity[f] + Quantity[x.order][f]
                   ELSE reservedQuantity[f] - Quantity[x.order][f]]
              /\ UNCHANGED deleted

\* Every transaction has one lock to wait for, so this is one or more cycles.
IsCycle(S) == S # {} /\ UNION {WaitsFor(t) : t \in S} = S

\* Postgres aborts a transaction of a cycle (40P01), which the adapter begins
\* again from its first statement, until the last attempt.
Deadlock(t) ==
  /\ \E S \in SUBSET Tx : t \in S /\ IsCycle(S)
  /\ IF tx[t].attempt = MaxAttempts THEN End(t)
     ELSE tx' = [tx EXCEPT ![t] = [Idle EXCEPT
            !.kind = tx[t].kind, !.order = tx[t].order, !.want = <<"begin">>,
            !.attempt = tx[t].attempt + 1]]
  /\ UNCHANGED stockVars

\* The connection or the instance is lost: rolled back.
Crash(t) ==
  /\ tx[t] # Idle
  /\ End(t)
  /\ UNCHANGED stockVars

\* See Stock; this UPDATE waits as well.
SoftDeleteOffer(f) ==
  /\ \A t \in Tx : f \notin tx[t].held
  /\ SoftDelete(f)
  /\ UNCHANGED tx

TxNext ==
  \/ \E t \in Tx :
       \/ \E o \in Orders, kind \in {"reserve", "release"} : Receive(t, kind, o)
       \/ Begin(t) \/ LockRow(t) \/ LockOffer(t) \/ Commit(t) \/ Deadlock(t) \/ Crash(t)
  \/ \E f \in Offers : SoftDeleteOffer(f)

TxSpec == TxInit /\ [][TxNext]_vars

-----------------------------------------------------------------------------
\* Interleaved, waiting, aborted and retried, the transactions do to the stock
\* what the same handlers do one at a time: all of Stock's properties carry
\* over to the statements of src/seller-offer/repository.
AtomicStock == Spec

\* Reserves never deadlock among themselves, since they take their offers in
\* one order: every cycle of waits has a release in it, whose one statement
\* does not.  The retry adapter is there for those.
OnlyReleasesDeadlock ==
  \A S \in SUBSET Tx : IsCycle(S) => \E t \in S : tx[t].kind = "release"

=============================================================================
