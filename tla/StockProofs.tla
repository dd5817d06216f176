---------------------------- MODULE StockProofs ----------------------------
(***************************************************************************)
(* Proofs about Stock, for any set of orders, offers and quantities, and   *)
(* about its transactions: run statement by statement on any number of     *)
(* connections, they implement Stock.                                      *)
(***************************************************************************)
EXTENDS StockTransactions, FiniteSetTheorems, TLAPS

(***************************************************************************)
(* Type correctness alone is not inductive: release subtracts, so it needs *)
(* that what it subtracts is part of reservedQuantity, which is what       *)
(* ReservedIsHeld says.  PiecesFinite makes the cardinalities meaningful.  *)
(***************************************************************************)
PiecesFinite == \A f \in Offers : IsFiniteSet(Pieces(f))

StockInv == TypeOK /\ PiecesFinite /\ ReservedIsHeld /\ NotOversold

\* Rows exist for the items of an order only, and are all in the same state.
RowsAreItems ==
  \A o \in Orders, f \in Offers : reservation[o][f] # "none" => f \in Items(o)

OrdersInv == AllOrNothing /\ RowsAreItems

\* The pieces one order holds, or asks for, of one offer.
Block(o, f) == {o} \X (1 .. Quantity[o][f])

\* An order holds as many pieces of an offer as it asked for.
LEMMA BlockSize ==
  ASSUME NEW o \in Orders, NEW f \in Offers
  PROVE  /\ Quantity[o][f] \in Nat
         /\ IsFiniteSet(Block(o, f))
         /\ Cardinality(Block(o, f)) = Quantity[o][f]
<1> DEFINE N == 1 .. Quantity[o][f]
           O == {o}
<1>1. Quantity[o][f] \in Nat
  BY StockAssumption
<1>2. IsFiniteSet(N) /\ Cardinality(N) = Quantity[o][f]
  <2>1. \A n \in Nat : IsFiniteSet(1 .. n) /\ Cardinality(1 .. n) = n
    BY FS_Interval
  <2>2. QED BY <1>1, <2>1
<1>3. IsFiniteSet(O) /\ Cardinality(O) = 1
  BY FS_Singleton
<1>4. IsFiniteSet(O \X N) /\ Cardinality(O \X N) = Cardinality(O) * Cardinality(N)
  <2> HIDE DEF O, N
  <2> QED BY <1>2, <1>3, FS_Product
<1>5. QED BY <1>1, <1>2, <1>3, <1>4 DEF Block

\* The pieces depend only on which orders hold the offer.
LEMMA PiecesUnchanged ==
  ASSUME NEW f \in Offers,
         \A p \in Orders : reservation'[p][f] = "reserved" <=> reservation[p][f] = "reserved"
  PROVE  Pieces(f)' = Pieces(f)
<1>1. {p \in Orders : reservation'[p][f] = "reserved"} = {p \in Orders : reservation[p][f] = "reserved"}
  OBVIOUS
<1>2. QED BY <1>1 DEF Pieces

\* One more order holding the offer adds its block, which is new.
LEMMA PiecesAdded ==
  ASSUME PiecesFinite, NEW f \in Offers, NEW o \in Orders, reservation[o][f] # "reserved",
         \A p \in Orders : reservation'[p][f] = "reserved"
                             <=> p = o \/ reservation[p][f] = "reserved"
  PROVE  /\ IsFiniteSet(Pieces(f)')
         /\ Cardinality(Pieces(f)') = Cardinality(Pieces(f)) + Quantity[o][f]
<1> DEFINE B == Block(o, f)
           P == Pieces(f)
<1>1. IsFiniteSet(B) /\ Cardinality(B) = Quantity[o][f] /\ Quantity[o][f] \in Nat
  BY BlockSize
<1>2. {p \in Orders : reservation'[p][f] = "reserved"}
        = {p \in Orders : reservation[p][f] = "reserved"} \cup {o}
  OBVIOUS
<1>3. Pieces(f)' = P \cup B
  BY <1>2 DEF Pieces, Block
<1>4. P \cap B = {}
  BY DEF Pieces, Block
<1>5. Cardinality(P \cap B) = 0
  BY <1>4, FS_EmptySet
<1>6. IsFiniteSet(P) /\ Cardinality(P) \in Nat
  BY FS_CardinalityType DEF PiecesFinite
<1> HIDE DEF P, B
<1>7. IsFiniteSet(P \cup B) /\ Cardinality(P \cup B) = Cardinality(P) + Cardinality(B) - Cardinality(P \cap B)
  BY <1>1, <1>6, FS_Union
<1>8. Cardinality(P \cup B) = Cardinality(P) + Quantity[o][f]
  BY <1>1, <1>5, <1>6, <1>7
<1>9. QED BY <1>3, <1>7, <1>8 DEF P

\* One order less removes its block, which was there.
LEMMA PiecesRemoved ==
  ASSUME PiecesFinite, NEW f \in Offers, NEW o \in Orders, reservation[o][f] = "reserved",
         \A p \in Orders : reservation'[p][f] = "reserved"
                             <=> p # o /\ reservation[p][f] = "reserved"
  PROVE  /\ IsFiniteSet(Pieces(f)')
         /\ Cardinality(Pieces(f)') = Cardinality(Pieces(f)) - Quantity[o][f]
         /\ Quantity[o][f] <= Cardinality(Pieces(f))
<1> DEFINE B == Block(o, f)
           P == Pieces(f)
<1>1. IsFiniteSet(B) /\ Cardinality(B) = Quantity[o][f] /\ Quantity[o][f] \in Nat
  BY BlockSize
<1>2. {p \in Orders : reservation'[p][f] = "reserved"}
        = {p \in Orders : reservation[p][f] = "reserved"} \ {o}
  OBVIOUS
<1>3. Pieces(f)' = P \ B
  BY <1>2 DEF Pieces, Block
<1>4. B \subseteq P /\ P \cap B = B
  BY DEF Pieces, Block
<1>5. IsFiniteSet(P) /\ Cardinality(P) \in Nat
  BY FS_CardinalityType DEF PiecesFinite
<1> HIDE DEF P, B
<1>6. Cardinality(B) <= Cardinality(P)
  BY <1>4, <1>5, FS_Subset
<1>7. IsFiniteSet(P \ B) /\ Cardinality(P \ B) = Cardinality(P) - Cardinality(P \cap B)
  BY <1>5, FS_Difference
<1>8. Cardinality(P \ B) = Cardinality(P) - Quantity[o][f]
  BY <1>1, <1>4, <1>7
<1>9. QED BY <1>1, <1>3, <1>6, <1>7, <1>8 DEF P

-----------------------------------------------------------------------------
\* What one request does to one offer and one reservation row.
LEMMA ReserveStep ==
  ASSUME StockInv, NEW o \in Orders, Reserve(o)
  PROVE  StockInv'
<1>1. CASE UNCHANGED stockVars
  <2>1. \A f \in Offers : Pieces(f)' = Pieces(f)
    BY <1>1, PiecesUnchanged DEF stockVars
  <2>2. QED BY <1>1, <2>1 DEF StockInv, TypeOK, PiecesFinite, ReservedIsHeld, NotOversold, stockVars
<1>2. CASE ~UNCHANGED stockVars
  <2>1. /\ Failed(o) = {}
        /\ reservedQuantity' = [f \in Offers |->
             IF f \in Inserted(o) THEN reservedQuantity[f] + Quantity[o][f] ELSE reservedQuantity[f]]
        /\ reservation' = [reservation EXCEPT ![o] =
             [f \in Offers |-> IF f \in Inserted(o) THEN "reserved" ELSE @[f]]]
        /\ UNCHANGED deleted
    BY <1>2 DEF Reserve, ReserveReply
  <2>2. \A p \in Orders, f \in Offers :
          reservation'[p][f] = IF p = o /\ f \in Inserted(o) THEN "reserved" ELSE reservation[p][f]
    BY <2>1 DEF StockInv, TypeOK
  <2>3. ASSUME NEW f \in Offers, f \in Inserted(o)
        PROVE  /\ IsFiniteSet(Pieces(f)')
               /\ reservedQuantity'[f] = Cardinality(Pieces(f)')
               /\ reservedQuantity'[f] \in Nat
               /\ reservedQuantity'[f] <= OnHand[f]
    <3>1. reservation[o][f] = "none" /\ Available(f, Quantity[o][f])
      BY <2>1, <2>3 DEF Failed, Inserted
    <3>2. /\ IsFiniteSet(Pieces(f)')
          /\ Cardinality(Pieces(f)') = Cardinality(Pieces(f)) + Quantity[o][f]
      BY <2>2, <2>3, <3>1, PiecesAdded DEF StockInv
    <3>3. reservedQuantity'[f] = reservedQuantity[f] + Quantity[o][f]
      BY <2>1, <2>3
    <3>4. /\ reservedQuantity[f] = Cardinality(Pieces(f))
          /\ reservedQuantity[f] \in Nat /\ Quantity[o][f] \in Nat
      BY BlockSize DEF StockInv, ReservedIsHeld, TypeOK
    <3>5. QED BY <3>1, <3>2, <3>3, <3>4 DEF Available
  <2>4. ASSUME NEW f \in Offers, f \notin Inserted(o)
        PROVE  /\ IsFiniteSet(Pieces(f)')
               /\ reservedQuantity'[f] = Cardinality(Pieces(f)')
               /\ reservedQuantity'[f] \in Nat
               /\ reservedQuantity'[f] <= OnHand[f]
    <3>1. Pieces(f)' = Pieces(f)
      BY <2>2, <2>4, PiecesUnchanged
    <3>2. QED BY <2>1, <2>4, <3>1 DEF StockInv, TypeOK, PiecesFinite, ReservedIsHeld, NotOversold
  <2>5. reservation' \in [Orders -> [Offers -> ReservationStatus]]
    BY <2>1 DEF StockInv, TypeOK, ReservationStatus
  <2>6. reservedQuantity' \in [Offers -> Nat] /\ deleted' \subseteq Offers
    BY <2>1, <2>3, <2>4 DEF StockInv, TypeOK
  <2>7. QED BY <2>3, <2>4, <2>5, <2>6 DEF StockInv, TypeOK, PiecesFinite, ReservedIsHeld, NotOversold
<1>3. QED BY <1>1, <1>2

\* A release gives back exactly what its order held.
LEMMA ReleaseStep ==
  ASSUME StockInv, NEW o \in Orders, Release(o)
  PROVE  StockInv'
<1>1. \A p \in Orders, f \in Offers :
        reservation'[p][f] = IF p = o /\ f \in Active(o) THEN "released" ELSE reservation[p][f]
  BY DEF Release, StockInv, TypeOK
<1>2. ASSUME NEW f \in Offers, f \in Active(o)
      PROVE  /\ IsFiniteSet(Pieces(f)')
             /\ reservedQuantity'[f] = Cardinality(Pieces(f)')
             /\ reservedQuantity'[f] \in Nat
             /\ reservedQuantity'[f] <= OnHand[f]
  <2>1. /\ IsFiniteSet(Pieces(f)')
        /\ Cardinality(Pieces(f)') = Cardinality(Pieces(f)) - Quantity[o][f]
        /\ Quantity[o][f] <= Cardinality(Pieces(f))
    BY <1>1, <1>2, PiecesRemoved DEF StockInv, Active
  <2>2. reservedQuantity'[f] = reservedQuantity[f] - Quantity[o][f]
    BY <1>2 DEF Release
  <2>3. /\ reservedQuantity[f] = Cardinality(Pieces(f)) /\ reservedQuantity[f] <= OnHand[f]
        /\ reservedQuantity[f] \in Nat /\ Quantity[o][f] \in Nat /\ OnHand[f] \in Nat
    BY BlockSize, StockAssumption DEF StockInv, ReservedIsHeld, NotOversold, TypeOK
  <2>4. QED BY <2>1, <2>2, <2>3
<1>3. ASSUME NEW f \in Offers, f \notin Active(o)
      PROVE  /\ IsFiniteSet(Pieces(f)')
             /\ reservedQuantity'[f] = Cardinality(Pieces(f)')
             /\ reservedQuantity'[f] \in Nat
             /\ reservedQuantity'[f] <= OnHand[f]
  <2>1. Pieces(f)' = Pieces(f)
    BY <1>1, <1>3, PiecesUnchanged
  <2>2. QED BY <1>3, <2>1 DEF Release, StockInv, TypeOK, PiecesFinite, ReservedIsHeld, NotOversold
<1>4. reservation' \in [Orders -> [Offers -> ReservationStatus]]
  BY DEF Release, StockInv, TypeOK, ReservationStatus
<1>5. reservedQuantity' \in [Offers -> Nat] /\ deleted' \subseteq Offers
  BY <1>2, <1>3 DEF Release, StockInv, TypeOK
<1>6. QED BY <1>2, <1>3, <1>4, <1>5 DEF StockInv, TypeOK, PiecesFinite, ReservedIsHeld, NotOversold

\* Nothing is reserved.
LEMMA StockInit == Init => StockInv /\ OrdersInv
<1> SUFFICES ASSUME Init PROVE StockInv /\ OrdersInv
  OBVIOUS
<1>1. \A f \in Offers : Pieces(f) = {}
  BY DEF Init, Pieces
<1>2. TypeOK
  BY DEF Init, TypeOK, ReservationStatus
<1>3. StockInv
  BY <1>1, <1>2, FS_EmptySet, StockAssumption
  DEF Init, StockInv, PiecesFinite, ReservedIsHeld, NotOversold
<1>4. OrdersInv
  BY DEF Init, OrdersInv, AllOrNothing, RowsAreItems, Items
<1> QED BY <1>3, <1>4

\* Every handler keeps the count of the pieces held.
LEMMA StockStep == StockInv /\ [Next]_stockVars => StockInv'
<1> SUFFICES ASSUME StockInv, [Next]_stockVars PROVE StockInv'
  OBVIOUS
<1>1. ASSUME UNCHANGED <<reservedQuantity, reservation>>, deleted' \subseteq Offers
      PROVE  StockInv'
  <2>1. \A f \in Offers : Pieces(f)' = Pieces(f)
    BY <1>1, PiecesUnchanged
  <2>2. QED BY <1>1, <2>1 DEF StockInv, TypeOK, PiecesFinite, ReservedIsHeld, NotOversold
<1>2. CASE UNCHANGED stockVars
  BY <1>1, <1>2 DEF stockVars, StockInv, TypeOK
<1>3. ASSUME NEW f \in Offers, SoftDelete(f) PROVE StockInv'
  BY <1>1, <1>3 DEF SoftDelete, StockInv, TypeOK
<1> QED BY <1>2, <1>3, ReserveStep, ReleaseStep DEF Next

\* Since an order's rows are all alike, a reserve inserts all of them or none,
\* and a release updates all of them or none.
LEMMA OrdersStep == TypeOK /\ OrdersInv /\ [Next]_stockVars => OrdersInv'
<1> SUFFICES ASSUME TypeOK, OrdersInv, [Next]_stockVars PROVE OrdersInv'
  OBVIOUS
<1>1. CASE UNCHANGED reservation
  BY <1>1 DEF OrdersInv, AllOrNothing, RowsAreItems, Items
<1>2. ASSUME NEW o \in Orders, Reserve(o), ~UNCHANGED reservation PROVE OrdersInv'
  <2>1. \A p \in Orders, f \in Offers :
          reservation'[p][f] = IF p = o /\ f \in Inserted(o) THEN "reserved" ELSE reservation[p][f]
    BY <1>2 DEF Reserve, TypeOK, stockVars
  <2>2. \A f \in Inserted(o) : f \in Items(o) /\ reservation[o][f] = "none"
    BY DEF Inserted
  <2>3. \A f \in Items(o) : reservation[o][f] = "none" => f \in Inserted(o)
    BY DEF Inserted
  <2> QED BY <2>1, <2>2, <2>3 DEF OrdersInv, AllOrNothing, RowsAreItems, Items
<1>3. ASSUME NEW o \in Orders, Release(o) PROVE OrdersInv'
  <2>1. \A p \in Orders, f \in Offers :
          reservation'[p][f] = IF p = o /\ f \in Active(o) THEN "released" ELSE reservation[p][f]
    BY <1>3 DEF Release, TypeOK
  <2> QED BY <2>1 DEF OrdersInv, AllOrNothing, RowsAreItems, Items, Active
<1> QED BY <1>1, <1>2, <1>3 DEF Next, SoftDelete, stockVars

\* The inductive invariant holds throughout.
LEMMA StockInvariant == Spec => [](StockInv /\ OrdersInv)
<1>1. StockInv => TypeOK
  BY DEF StockInv
<1> QED BY <1>1, StockInit, StockStep, OrdersStep, PTL DEF Spec

\* Type correctness of the stock tables: in particular a release never takes
\* reservedQuantity below zero.
THEOREM TypeCorrect == Spec => []TypeOK
BY StockInvariant, PTL DEF StockInv

\* reservedQuantity is the sum of the active reservations, for any number of
\* orders and offers and any order of reserves, releases and redeliveries.
THEOREM ReservedEqualsHeld == Spec => []ReservedIsHeld
BY StockInvariant, PTL DEF StockInv

\* No interleaving of reserves and releases oversells an offer.
THEOREM NeverOversold == Spec => []NotOversold
BY StockInvariant, PTL DEF StockInv

\* An order holds all of its items or none of them.
THEOREM WholeOrders == Spec => []AllOrNothing
BY StockInvariant, PTL DEF OrdersInv

-----------------------------------------------------------------------------
(***************************************************************************)
(* The transactions.                                                       *)
(***************************************************************************)
Want == {<<"none">>, <<"begin">>, <<"commit">>} \cup ({"row", "offer"} \X Offers)

TxType ==
  [kind : {"none", "reserve", "release"}, order : Orders \cup {"none"}, todo : SUBSET Offers,
   rows : SUBSET Offers, held : SUBSET Offers, short : SUBSET Offers, want : Want, attempt : Nat]

\* What a transaction asks for is what it needs next.
WantOK(x) ==
  /\ x.want = <<"begin">> => x.todo = {} /\ x.rows = {} /\ x.held = {} /\ x.short = {}
  /\ x.want = <<"commit">> => x.todo = {} /\ Owed(x) = {}
  /\ x.want[1] = "row" => x.want[2] \in x.todo
  /\ x.want[1] = "offer" => x.want[2] \in Owed(x)

\* A running reserve has inserted the rows that the order did not have, and the
\* offers it has locked still have the stock.
ReserveOK(x) ==
  /\ \A f \in x.rows : reservation[x.order][f] = "none"
  /\ \A f \in Items(x.order) \ (x.todo \cup x.rows) : reservation[x.order][f] # "none"
  /\ \A f \in x.held : f \notin deleted /\ Available(f, Quantity[x.order][f])

\* It goes through its offers in ascending order.
AscendingOK(x) ==
  /\ \A g \in x.rows, f \in x.todo : g < f
  /\ \A g \in x.rows, f \in Owed(x) : g <= f
  /\ x.want[1] = "row" =>
       /\ Owed(x) = {}
       /\ \A f \in x.todo : x.want[2] <= f

\* A running release has updated the rows that were still active.
ReleaseOK(x) ==
  /\ x.short = {}
  /\ \A f \in x.rows : reservation[x.order][f] = "reserved"
  /\ \A f \in x.todo : reservation[x.order][f] \in {"reserved", "released"}
  /\ x.todo \cup x.rows # {} =>
       \A f \in Items(x.order) \ (x.todo \cup x.rows) : reservation[x.order][f] = "released"

TxOK(x) ==
  /\ x.kind = "none" => x = Idle
  /\ x.kind # "none" => x.order \in Orders /\ x.rows \subseteq Items(x.order)
  /\ x.held \subseteq x.rows
  /\ WantOK(x)
  /\ x.kind = "reserve" => (x.want = <<"begin">> \/ ReserveOK(x)) /\ AscendingOK(x)
  /\ x.kind = "release" => ReleaseOK(x)

\* A row lock has one owner.
Apart(x, y) == (x.order = y.order => x.rows \cap y.rows = {}) /\ x.held \cap y.held = {}

TxInv ==
  /\ tx \in [Tx -> TxType]
  /\ \A t \in Tx : TxOK(tx[t])
  /\ \A t, u \in Tx : t # u => Apart(tx[t], tx[u])

IInv == StockInv /\ OrdersInv /\ TxInv

\* A set of numbers that is not empty has a least one.
LEMMA MinOf ==
  ASSUME NEW S \in SUBSET Nat, S # {}
  PROVE  Min(S) \in S /\ \A y \in S : Min(S) <= y
<1> DEFINE Less == {p \in Nat \X Nat : p[1] < p[2]}
<1>1. IsWellFoundedOn(Less, Nat)
  BY NatLessThanWellFounded DEF OpToRel
<1> HIDE DEF Less
<1>2. PICK x \in S : \A y \in S : ~(<<y, x>> \in Less)
  BY <1>1, WFMin
<1>3. \A m, n \in Nat : m < n => <<m, n>> \in Less
  BY DEF Less
<1>4. \A y \in S : ~(y < x)
  BY <1>2, <1>3
<1>5. \A y \in S : x <= y
  BY <1>4
<1> QED BY <1>5 DEF Min

\* What a transaction asks for next.
LEMMA WantsNext ==
  ASSUME NEW x \in TxType, NEW w \in Wants(x)
  PROVE  /\ w \in Want /\ w # <<"begin">>
         /\ w = <<"commit">> => x.todo = {} /\ Owed(x) = {}
         /\ w[1] = "offer" => w[2] \in Owed(x)
         /\ w[1] = "row" => w[2] \in x.todo
         /\ w[1] = "row" /\ x.kind = "reserve" =>
              /\ Owed(x) = {}
              /\ \A f \in x.todo : w[2] <= f
<1>1. x.todo \subseteq Offers /\ Owed(x) \subseteq Offers /\ x.todo \subseteq Nat
  BY StockTransactionsAssumption DEF TxType, Owed
<1>2. x.todo # {} => Min(x.todo) \in x.todo /\ \A f \in x.todo : Min(x.todo) <= f
  BY <1>1, MinOf
<1>3. \/ w = <<"commit">> /\ x.todo = {} /\ Owed(x) = {}
      \/ \E f \in Owed(x) : w = <<"offer", f>>
      \/ \E f \in x.todo : /\ w = <<"row", f>>
                           /\ x.kind = "reserve" => Owed(x) = {} /\ f = Min(x.todo)
  <2> DEFINE rows == IF x.todo = {} \/ (x.kind = "reserve" /\ Owed(x) # {}) THEN {}
                     ELSE IF x.kind = "reserve" THEN First(x.todo) ELSE x.todo
             next == {<<"row", f>> : f \in rows} \cup {<<"offer", f>> : f \in Owed(x)}
  <2>1. \A f \in rows : /\ f \in x.todo
                        /\ x.kind = "reserve" => Owed(x) = {} /\ f = Min(x.todo)
    BY <1>2 DEF First
  <2>2. x.todo # {} => rows # {} \/ Owed(x) # {}
    BY DEF First
  <2>3. w \in IF next = {} THEN {<<"commit">>} ELSE next
    BY DEF Wants
  <2> HIDE DEF rows
  <2>4. CASE next = {}
    BY <2>2, <2>3, <2>4
  <2>5. CASE next # {}
    BY <2>1, <2>3, <2>5
  <2>6. QED BY <2>4, <2>5
<1>4. CASE w = <<"commit">> /\ x.todo = {} /\ Owed(x) = {}
  BY <1>4 DEF Want
<1>5. CASE \E f \in Owed(x) : w = <<"offer", f>>
  BY <1>1, <1>5 DEF Want
<1>6. CASE \E f \in x.todo : /\ w = <<"row", f>>
                             /\ x.kind = "reserve" => Owed(x) = {} /\ f = Min(x.todo)
  BY <1>1, <1>2, <1>6 DEF Want
<1> QED BY <1>3, <1>4, <1>5, <1>6

\* One transaction moves on and commits nothing.
LEMMA OneTxStep ==
  ASSUME TxInv, NEW t \in Tx, NEW y \in TxType, tx' = [tx EXCEPT ![t] = y],
         UNCHANGED stockVars, TxOK(y), \A u \in Tx \ {t} : Apart(y, tx[u])
  PROVE  TxInv'
<1>1. tx' \in [Tx -> TxType] /\ tx'[t] = y /\ \A u \in Tx \ {t} : tx'[u] = tx[u]
  BY DEF TxInv
<1>2. \A u \in Tx : TxOK(tx'[u])
  BY <1>1 DEF TxInv
<1>3. \A u \in Tx : TxOK(tx[u])'
  BY <1>2 DEF TxOK, WantOK, ReserveOK, AscendingOK, ReleaseOK, Available, Owed, Items, stockVars
<1>4. \A u, v \in Tx : u # v => Apart(tx'[u], tx'[v])
  BY <1>1 DEF TxInv, Apart
<1>5. \A u, v \in Tx : u # v => Apart(tx[u], tx[v])'
  BY <1>4 DEF Apart
<1> QED BY <1>1, <1>3, <1>5 DEF TxInv

\* A transaction that goes on asks for what it needs next.
LEMMA ProceedStep ==
  ASSUME TxInv, NEW t \in Tx, NEW x \in TxType, Proceed(t, x),
         x.kind \in {"reserve", "release"}, x.order \in Orders, x.rows \subseteq Items(x.order),
         x.held \subseteq x.rows,
         x.kind = "reserve" => /\ ReserveOK(x)
                               /\ \A g \in x.rows, f \in x.todo : g < f
                               /\ \A g \in x.rows, f \in Owed(x) : g <= f,
         x.kind = "release" => ReleaseOK(x),
         \A u \in Tx \ {t} : Apart(x, tx[u])
  PROVE  TxInv'
<1>1. PICK w \in Wants(x) : tx' = [tx EXCEPT ![t] = [x EXCEPT !.want = w]]
  BY DEF Proceed
<1> DEFINE y == [x EXCEPT !.want = w]
<1>2. /\ w \in Want /\ w # <<"begin">>
      /\ w = <<"commit">> => x.todo = {} /\ Owed(x) = {}
      /\ w[1] = "offer" => w[2] \in Owed(x)
      /\ w[1] = "row" => w[2] \in x.todo
      /\ w[1] = "row" /\ x.kind = "reserve" =>
           /\ Owed(x) = {}
           /\ \A f \in x.todo : w[2] <= f
  BY WantsNext
<1>3. y \in TxType
  BY <1>2 DEF TxType
<1>4. /\ y.want = w /\ y.kind = x.kind /\ y.order = x.order /\ y.todo = x.todo
      /\ y.rows = x.rows /\ y.held = x.held /\ y.short = x.short
  BY DEF TxType
<1> HIDE DEF y
<1>5. Owed(y) = Owed(x)
  BY <1>4 DEF Owed
<1>6. TxOK(y)
  BY <1>2, <1>4, <1>5 DEF TxOK, WantOK, ReserveOK, AscendingOK, ReleaseOK
<1>7. \A u \in Tx \ {t} : Apart(y, tx[u])
  BY <1>4 DEF Apart
<1>8. UNCHANGED stockVars /\ tx' = [tx EXCEPT ![t] = y]
  BY <1>1 DEF Proceed, y
<1> QED BY <1>3, <1>6, <1>7, <1>8, OneTxStep

\* A connection without a transaction.
LEMMA IdleOK ==
  /\ Idle \in TxType /\ TxOK(Idle)
  /\ \A y : Apart(Idle, y)
  /\ Idle.kind = "none" /\ Idle.todo = {} /\ Idle.rows = {} /\ Idle.held = {} /\ Idle.short = {}
  BY DEF Idle, TxType, Want, TxOK, WantOK, Apart

\* A transaction that ends without a commit leaves its connection idle.
LEMMA EndStep ==
  ASSUME TxInv, NEW t \in Tx, End(t), UNCHANGED stockVars
  PROVE  TxInv'
  BY IdleOK, OneTxStep DEF End

\* A transaction that is about to begin, for the first time or again.
LEMMA StartStep ==
  ASSUME TxInv, NEW t \in Tx, NEW k \in {"reserve", "release"}, NEW o \in Orders, NEW n \in Nat,
         tx' = [tx EXCEPT ![t] = [Idle EXCEPT !.kind = k, !.order = o, !.want = <<"begin">>,
                                              !.attempt = n]],
         UNCHANGED stockVars
  PROVE  TxInv'
<1> DEFINE y == [Idle EXCEPT !.kind = k, !.order = o, !.want = <<"begin">>, !.attempt = n]
<1>1. <<"begin">> \in Want
  BY DEF Want
<1>2. /\ y \in TxType /\ y.kind = k /\ y.order = o /\ y.want = <<"begin">>
      /\ y.todo = {} /\ y.rows = {} /\ y.held = {} /\ y.short = {}
  BY <1>1, IdleOK DEF TxType
<1>3. tx' = [tx EXCEPT ![t] = y]
  OBVIOUS
<1> HIDE DEF y
<1>4. TxOK(y)
  BY <1>2 DEF TxOK, WantOK, AscendingOK, ReleaseOK, Owed
<1>5. \A u \in Tx : Apart(y, tx[u])
  BY <1>2 DEF Apart
<1> QED BY <1>2, <1>3, <1>4, <1>5, OneTxStep

\* Since an order's rows are all alike, the snapshot of a release holds all of
\* them or none.
LEMMA BeginStep ==
  ASSUME IInv, NEW t \in Tx, Begin(t)
  PROVE  TxInv'
<1> DEFINE o == tx[t].order
<1>1. TxInv /\ tx[t] \in TxType /\ TxOK(tx[t]) /\ tx[t].want = <<"begin">>
  BY DEF IInv, TxInv, Begin
<1>2. tx[t].todo = {} /\ tx[t].rows = {} /\ tx[t].held = {} /\ tx[t].short = {}
  BY <1>1 DEF TxOK, WantOK
<1>3. CASE End(t) /\ UNCHANGED stockVars
  BY <1>1, <1>3, EndStep
<1>4. CASE tx[t].kind = "reserve" /\ Proceed(t, [tx[t] EXCEPT !.todo = Items(o)])
  <2> DEFINE x == [tx[t] EXCEPT !.todo = Items(o)]
  <2>1. o \in Orders
    BY <1>1, <1>4 DEF TxOK
  <2>2. /\ x \in TxType /\ x.kind = "reserve" /\ x.order = o /\ x.todo = Items(o)
        /\ x.rows = {} /\ x.held = {} /\ x.short = {}
    BY <1>1, <1>2, <1>4 DEF TxType, Items
  <2>3. Proceed(t, x)
    BY <1>4
  <2> HIDE DEF x
  <2>4. ReserveOK(x) /\ Owed(x) = {}
    BY <2>2 DEF ReserveOK, Owed
  <2>5. \A u \in Tx : Apart(x, tx[u])
    BY <2>2 DEF Apart
  <2> QED BY <1>1, <2>1, <2>2, <2>3, <2>4, <2>5, ProceedStep
<1>5. CASE tx[t].kind = "release" /\ Proceed(t, [tx[t] EXCEPT !.todo = Active(o)])
  <2> DEFINE x == [tx[t] EXCEPT !.todo = Active(o)]
  <2>1. o \in Orders
    BY <1>1, <1>5 DEF TxOK
  <2>2. /\ x \in TxType /\ x.kind = "release" /\ x.order = o /\ x.todo = Active(o)
        /\ x.rows = {} /\ x.held = {} /\ x.short = {}
    BY <1>1, <1>2, <1>5 DEF TxType, Active
  <2>3. Proceed(t, x)
    BY <1>5
  <2> HIDE DEF x
  <2>4. Active(o) # {} => Items(o) \subseteq Active(o)
    BY <2>1 DEF IInv, OrdersInv, AllOrNothing, RowsAreItems, Active, Items
  <2>5. ReleaseOK(x) /\ Owed(x) = {}
    BY <2>2, <2>4 DEF ReleaseOK, Owed, Active
  <2>6. \A u \in Tx : Apart(x, tx[u])
    BY <2>2 DEF Apart
  <2> QED BY <1>1, <2>1, <2>2, <2>3, <2>5, <2>6, ProceedStep
<1> QED BY <1>3, <1>4, <1>5 DEF Begin

\* A reservation row is inserted or updated, or turns out to need neither.
LEMMA LockRowStep ==
  ASSUME IInv, NEW t \in Tx, LockRow(t)
  PROVE  TxInv'
<1> DEFINE f == tx[t].want[2]
           o == tx[t].order
           own == IF tx[t].kind = "reserve" THEN Inserted(o) ELSE Active(o)
           x == [tx[t] EXCEPT !.todo = @ \ {f}, !.rows = @ \cup ({f} \cap own)]
<1>1. /\ TxInv /\ tx[t] \in TxType /\ TxOK(tx[t]) /\ tx[t].want[1] = "row" /\ WaitsFor(t) = {}
      /\ Proceed(t, x)
  BY DEF IInv, TxInv, LockRow
<1>2. tx[t].kind \in {"reserve", "release"}
  BY <1>1 DEF TxType, TxOK, Idle
<1>3. o \in Orders /\ tx[t].rows \subseteq Items(o) /\ tx[t].held \subseteq tx[t].rows
  BY <1>1, <1>2 DEF TxOK
<1>4. own \subseteq Items(o) /\ own \subseteq Offers
  BY <1>3 DEF IInv, OrdersInv, RowsAreItems, Inserted, Active, Items
<1> HIDE DEF own
<1>5. /\ x \in TxType /\ x.kind = tx[t].kind /\ x.order = o /\ x.todo = tx[t].todo \ {f}
      /\ x.rows = tx[t].rows \cup ({f} \cap own) /\ x.held = tx[t].held /\ x.short = tx[t].short
  BY <1>1, <1>4 DEF TxType
<1> HIDE DEF x
<1>6. \A u \in Tx \ {t} : Apart(x, tx[u])
  <2>1. \A u \in Tx \ {t} : tx[u].order = o => f \notin tx[u].rows
    BY <1>1 DEF WaitsFor
  <2> QED BY <1>1, <1>5, <2>1 DEF TxInv, Apart
<1>7. x.rows \subseteq Items(o) /\ x.held \subseteq x.rows
  BY <1>3, <1>4, <1>5
<1>8. CASE x.kind = "reserve"
  <2>1. ReserveOK(tx[t]) /\ AscendingOK(tx[t])
    BY <1>1, <1>5, <1>8 DEF TxOK
  <2>2. own = Inserted(o)
    BY <1>5, <1>8 DEF own
  <2>3. ReserveOK(x)
    BY <1>5, <2>1, <2>2 DEF ReserveOK, Inserted
  <2>4. f \in tx[t].todo /\ Owed(tx[t]) = {} /\ \A g \in tx[t].todo : f <= g
    BY <1>1, <2>1 DEF TxOK, WantOK, AscendingOK
  <2>5. tx[t].todo \subseteq Nat
    BY <1>1, StockTransactionsAssumption DEF TxType
  <2>6. \A g \in x.rows, d \in x.todo : g < d
    BY <1>5, <2>1, <2>4, <2>5 DEF AscendingOK
  <2>7. Owed(x) \subseteq {f}
    BY <1>5, <2>4 DEF Owed
  <2>8. \A g \in x.rows, d \in Owed(x) : g <= d
    <3>1. \A g \in x.rows : g = f \/ g < f
      BY <1>5, <2>1, <2>4 DEF AscendingOK
    <3>2. x.rows \subseteq Nat /\ f \in Nat
      BY <1>5, <2>4, <2>5, StockTransactionsAssumption DEF TxType
    <3> QED BY <2>7, <3>1, <3>2
  <2> QED BY <1>1, <1>3, <1>5, <1>6, <1>7, <1>8, <2>3, <2>6, <2>8, ProceedStep
<1>9. CASE x.kind = "release"
  <2>1. ReleaseOK(tx[t])
    BY <1>1, <1>5, <1>9 DEF TxOK
  <2>2. own = Active(o)
    BY <1>5, <1>9 DEF own
  <2>3. \A g \in x.rows : reservation[o][g] = "reserved"
    BY <1>5, <2>1, <2>2 DEF ReleaseOK, Active
  <2>4. \A g \in tx[t].todo \ (x.todo \cup x.rows) : reservation[o][g] = "released"
    BY <1>1, <1>5, <2>1, <2>2 DEF ReleaseOK, Active, TxType
  <2>5. tx[t].todo # {}
    BY <1>1 DEF TxOK, WantOK
  <2>6. ReleaseOK(x)
    BY <1>5, <2>1, <2>3, <2>4, <2>5 DEF ReleaseOK
  <2> QED BY <1>1, <1>3, <1>5, <1>6, <1>7, <1>9, <2>6, ProceedStep
<1> QED BY <1>2, <1>5, <1>8, <1>9

\* An offer is locked, with the stock the order asks for, or comes up short.
LEMMA LockOfferStep ==
  ASSUME IInv, NEW t \in Tx, LockOffer(t)
  PROVE  TxInv'
<1> DEFINE f == tx[t].want[2]
           o == tx[t].order
<1>1. TxInv /\ tx[t] \in TxType /\ TxOK(tx[t]) /\ tx[t].want[1] = "offer" /\ f \in Owed(tx[t])
  BY DEF IInv, TxInv, TxOK, WantOK, LockOffer
<1>2. tx[t].kind \in {"reserve", "release"} /\ tx[t].want # <<"begin">>
  BY <1>1 DEF TxType, TxOK, Idle
<1>3. o \in Orders /\ tx[t].rows \subseteq Items(o) /\ tx[t].held \subseteq tx[t].rows
  BY <1>1, <1>2 DEF TxOK
<1>4. CASE /\ tx[t].kind = "release" \/ CanHold(f, Quantity[o][f])
           /\ WaitsFor(t) = {} /\ Proceed(t, [tx[t] EXCEPT !.held = @ \cup {f}])
  <2> DEFINE x == [tx[t] EXCEPT !.held = @ \cup {f}]
  <2>1. /\ x \in TxType /\ x.kind = tx[t].kind /\ x.order = o /\ x.todo = tx[t].todo
        /\ x.rows = tx[t].rows /\ x.held = tx[t].held \cup {f} /\ x.short = tx[t].short
    BY <1>1 DEF TxType, Owed
  <2>2. Proceed(t, x)
    BY <1>4
  <2> HIDE DEF x
  <2>3. \A u \in Tx \ {t} : Apart(x, tx[u])
    <3>1. \A u \in Tx \ {t} : f \notin tx[u].held
      BY <1>1, <1>4 DEF WaitsFor
    <3> QED BY <1>1, <2>1, <3>1 DEF TxInv, Apart
  <2>4. Owed(x) \subseteq Owed(tx[t]) /\ x.held \subseteq x.rows
    BY <1>1, <1>3, <2>1 DEF Owed
  <2>5. x.kind = "reserve" => ReserveOK(x)
    BY <1>1, <1>2, <1>4, <2>1 DEF TxOK, ReserveOK, CanHold
  <2>6. x.kind = "reserve" => /\ \A g \in x.rows, d \in x.todo : g < d
                              /\ \A g \in x.rows, d \in Owed(x) : g <= d
    BY <1>1, <2>1, <2>4 DEF TxOK, AscendingOK
  <2>7. x.kind = "release" => ReleaseOK(x)
    BY <1>1, <2>1 DEF TxOK, ReleaseOK
  <2> QED BY <1>1, <1>2, <1>3, <2>1, <2>2, <2>3, <2>4, <2>5, <2>6, <2>7, ProceedStep
<1>5. CASE /\ tx[t].kind = "reserve"
           /\ Proceed(t, [tx[t] EXCEPT !.short = @ \cup {f}])
  <2> DEFINE x == [tx[t] EXCEPT !.short = @ \cup {f}]
  <2>1. /\ x \in TxType /\ x.kind = tx[t].kind /\ x.order = o /\ x.todo = tx[t].todo
        /\ x.rows = tx[t].rows /\ x.held = tx[t].held /\ x.short = tx[t].short \cup {f}
    BY <1>1 DEF TxType, Owed
  <2>2. Proceed(t, x)
    BY <1>5
  <2> HIDE DEF x
  <2>3. \A u \in Tx \ {t} : Apart(x, tx[u])
    BY <1>1, <2>1 DEF TxInv, Apart
  <2>4. Owed(x) \subseteq Owed(tx[t])
    BY <2>1 DEF Owed
  <2>5. ReserveOK(x)
    BY <1>1, <1>2, <1>5, <2>1 DEF TxOK, ReserveOK
  <2>6. /\ \A g \in x.rows, d \in x.todo : g < d
        /\ \A g \in x.rows, d \in Owed(x) : g <= d
    BY <1>1, <1>5, <2>1, <2>4 DEF TxOK, AscendingOK
  <2> QED BY <1>1, <1>3, <1>5, <2>1, <2>2, <2>3, <2>5, <2>6, ProceedStep
<1> QED BY <1>4, <1>5 DEF LockOffer

\* A transaction that commits has been through all items of its order, and its
\* changes are those of the whole handler on what is committed now.
LEMMA CommitIsHandler ==
  ASSUME IInv, NEW t \in Tx, Commit(t), tx[t].short = {}
  PROVE  /\ tx[t].order \in Orders /\ tx[t].held = tx[t].rows
         /\ \/ UNCHANGED stockVars
            \/ tx[t].kind = "reserve" /\ Reserve(tx[t].order)
            \/ tx[t].kind = "release" /\ Release(tx[t].order)
<1> DEFINE x == tx[t]
           o == tx[t].order
<1>1. /\ x \in TxType /\ TxOK(x) /\ x.want = <<"commit">>
      /\ x.kind \in {"reserve", "release"} /\ o \in Orders
      /\ x.rows \subseteq Items(o) /\ x.held \subseteq x.rows /\ x.todo = {} /\ Owed(x) = {}
  BY DEF IInv, TxInv, TxType, TxOK, WantOK, Idle, Commit
<1>2. x.held = x.rows
  BY <1>1 DEF Owed
<1>3. /\ reservation' = [reservation EXCEPT ![o] = [f \in Offers |->
           IF f \notin x.rows THEN @[f] ELSE IF x.kind = "reserve" THEN "reserved" ELSE "released"]]
      /\ reservedQuantity' = [f \in Offers |->
           IF f \notin x.rows THEN reservedQuantity[f]
           ELSE IF x.kind = "reserve" THEN reservedQuantity[f] + Quantity[o][f]
           ELSE reservedQuantity[f] - Quantity[o][f]]
      /\ UNCHANGED deleted
  BY <1>2 DEF Commit
<1>4. CASE x.rows = {}
  <2>1. reservation' = reservation /\ reservedQuantity' = reservedQuantity
    BY <1>1, <1>3, <1>4 DEF IInv, StockInv, TypeOK
  <2> QED BY <1>1, <1>2, <1>3, <2>1 DEF stockVars
<1>5. CASE x.kind = "reserve" /\ x.rows # {}
  <2>1. ReserveOK(x)
    BY <1>1, <1>5 DEF TxOK
  <2>2. \A f \in Items(o) : reservation[o][f] = "none"
    BY <1>1, <1>5, <2>1 DEF ReserveOK, IInv, OrdersInv, AllOrNothing
  <2>3. x.rows = Items(o) /\ Inserted(o) = Items(o)
    BY <1>1, <2>1, <2>2 DEF ReserveOK, Inserted
  <2>4. Missing(o) = {} /\ Failed(o) = {}
    BY <1>2, <2>1, <2>3 DEF ReserveOK, Missing, Failed
  <2>5. ReserveReply(o) = "reserved"
    BY <2>4 DEF ReserveReply
  <2>6. Reserve(o)
    BY <1>3, <1>5, <2>3, <2>5, Zenon DEF Reserve
  <2> QED BY <1>1, <1>2, <1>5, <2>6
<1>6. CASE x.kind = "release" /\ x.rows # {}
  <2>1. ReleaseOK(x)
    BY <1>1, <1>6 DEF TxOK
  <2>2. \A f \in Items(o) : reservation[o][f] = "reserved"
    BY <1>1, <1>6, <2>1 DEF ReleaseOK, IInv, OrdersInv, AllOrNothing
  <2>3. x.rows = Items(o)
    BY <1>1, <1>6, <2>1, <2>2 DEF ReleaseOK
  <2>4. Active(o) = x.rows
    BY <1>1, <2>2, <2>3 DEF Active, Items, IInv, OrdersInv, RowsAreItems
  <2>5. Release(o)
    BY <1>3, <1>6, <2>4 DEF Release
  <2> QED BY <1>1, <1>2, <1>6, <2>5
<1> QED BY <1>1, <1>4, <1>5, <1>6

\* What a commit changes is locked, so nothing another transaction relies on.
LEMMA CommitStep ==
  ASSUME IInv, NEW t \in Tx, Commit(t)
  PROVE  TxInv'
<1> DEFINE x == tx[t]
           o == tx[t].order
<1>1. TxInv /\ End(t)
  BY DEF IInv, Commit
<1>2. CASE x.short # {}
  BY <1>1, <1>2, EndStep DEF Commit
<1>3. CASE x.short = {}
  <2>1. o \in Orders /\ x.held = x.rows
    BY <1>3, CommitIsHandler
  <2>2. /\ x \in TxType /\ TxOK(x) /\ x.want = <<"commit">>
        /\ x.kind \in {"reserve", "release"} /\ x.rows \subseteq Items(o)
    BY <1>1 DEF TxInv, TxType, TxOK, Idle, Commit
  <2>3. /\ x.kind = "reserve" => \A f \in x.rows : reservation[o][f] = "none"
        /\ x.kind = "release" => \A f \in x.rows : reservation[o][f] = "reserved"
    BY <2>2 DEF TxOK, ReserveOK, ReleaseOK
  <2>4. /\ \A p \in Orders, f \in Offers :
             p # o \/ f \notin x.rows => reservation'[p][f] = reservation[p][f]
        /\ \A f \in x.rows : \/ reservation[o][f] = "none" /\ reservation'[o][f] = "reserved"
                             \/ reservation[o][f] = "reserved" /\ reservation'[o][f] = "released"
        /\ \A f \in Offers \ x.held : reservedQuantity'[f] = reservedQuantity[f]
        /\ deleted' = deleted
    BY <1>3, <2>1, <2>2, <2>3 DEF Commit, IInv, StockInv, TypeOK, TxType
  <2>5. tx' \in [Tx -> TxType] /\ tx'[t] = Idle /\ \A u \in Tx \ {t} : tx'[u] = tx[u]
    BY <1>1, IdleOK DEF TxInv, End
  <2>6. ASSUME NEW u \in Tx PROVE TxOK(tx[u])'
    <3>1. CASE u = t
      <4>1. TxOK(Idle)'
        BY IdleOK DEF TxOK, WantOK, Owed, Idle
      <4> QED BY <2>5, <3>1, <4>1 DEF TxOK, WantOK, ReserveOK, AscendingOK, ReleaseOK, Owed, Idle
    <3>2. CASE u # t
      <4> DEFINE y == tx[u]
      <4>1. /\ y \in TxType /\ TxOK(y) /\ Apart(x, y) /\ tx'[u] = y
            /\ y.rows \subseteq Offers /\ y.held \subseteq Offers /\ y.todo \subseteq Offers
        BY <1>1, <2>5, <3>2 DEF TxInv, TxType
      <4>2. y.kind # "none" => y.order \in Orders
        BY <4>1 DEF TxOK
      <4>3. \A f \in y.rows : y.kind # "none" => reservation'[y.order][f] = reservation[y.order][f]
        BY <2>4, <4>1, <4>2 DEF Apart
      <4>4. \A f \in y.held : reservedQuantity'[f] = reservedQuantity[f]
        BY <2>4, <4>1 DEF Apart
      <4>5. \A f \in Offers : y.kind # "none" =>
              /\ reservation[y.order][f] # "none" => reservation'[y.order][f] # "none"
              /\ reservation[y.order][f] \in {"reserved", "released"} =>
                   reservation'[y.order][f] \in {"reserved", "released"}
              /\ reservation[y.order][f] = "released" => reservation'[y.order][f] = "released"
        BY <2>4, <4>2
      <4>6. Items(y.order) \subseteq Offers
        BY DEF Items
      <4> HIDE DEF y, x
      <4>7. y.kind = "reserve" /\ ReserveOK(y) =>
              /\ \A f \in y.rows : reservation'[y.order][f] = "none"
              /\ \A f \in Items(y.order) \ (y.todo \cup y.rows) : reservation'[y.order][f] # "none"
              /\ \A f \in y.held : /\ f \notin deleted'
                                   /\ OnHand[f] >= reservedQuantity'[f] + Quantity[y.order][f]
        BY <2>4, <4>3, <4>4, <4>5, <4>6 DEF ReserveOK, Available
      <4>8. y.kind = "release" /\ ReleaseOK(y) =>
              /\ \A f \in y.rows : reservation'[y.order][f] = "reserved"
              /\ \A f \in y.todo : reservation'[y.order][f] \in {"reserved", "released"}
              /\ y.todo \cup y.rows # {} =>
                   \A f \in Items(y.order) \ (y.todo \cup y.rows) : reservation'[y.order][f] = "released"
        BY <4>1, <4>3, <4>5, <4>6 DEF ReleaseOK
      <4> QED
        BY <4>1, <4>7, <4>8
        DEF TxOK, WantOK, ReserveOK, AscendingOK, ReleaseOK, Available, Owed, Items
    <3> QED BY <3>1, <3>2
  <2>7. \A u, v \in Tx : u # v => Apart(tx[u], tx[v])'
    BY <1>1, <2>5, IdleOK DEF TxInv, Apart
  <2> QED BY <2>5, <2>6, <2>7 DEF TxInv
<1> QED BY <1>2, <1>3

\* A deadlock's victim begins again or gives up.
LEMMA DeadlockStep ==
  ASSUME IInv, NEW t \in Tx, Deadlock(t)
  PROVE  TxInv'
<1>1. TxInv /\ UNCHANGED stockVars /\ tx[t] \in TxType /\ TxOK(tx[t])
  BY DEF IInv, TxInv, Deadlock
<1>2. CASE End(t)
  BY <1>1, <1>2, EndStep
<1>3. CASE /\ tx[t].kind # "none"
           /\ tx' = [tx EXCEPT ![t] = [Idle EXCEPT !.kind = tx[t].kind, !.order = tx[t].order,
                                       !.want = <<"begin">>, !.attempt = tx[t].attempt + 1]]
  <2>1. /\ tx[t].kind \in {"reserve", "release"} /\ tx[t].order \in Orders
        /\ tx[t].attempt + 1 \in Nat
    BY <1>1, <1>3 DEF TxType, TxOK
  <2> QED BY <1>1, <1>3, <2>1, StartStep
<1>4. tx[t].kind # "none"
  <2>1. PICK S \in SUBSET Tx : t \in S /\ IsCycle(S)
    BY DEF Deadlock
  <2>2. PICK u \in S : t \in WaitsFor(u)
    BY <2>1 DEF IsCycle
  <2>3. tx[t].rows # {} \/ tx[t].held # {}
    BY <2>2 DEF WaitsFor
  <2> QED BY <1>1, <2>3, IdleOK DEF TxOK
<1> QED BY <1>2, <1>3, <1>4 DEF Deadlock

\* An offer that a reserve has locked is not deleted under it.
LEMMA SoftDeleteStep ==
  ASSUME IInv, NEW f \in Offers, SoftDeleteOffer(f)
  PROVE  TxInv'
<1>1. /\ tx' = tx /\ deleted' = deleted \cup {f} /\ UNCHANGED <<reservedQuantity, reservation>>
      /\ \A t \in Tx : f \notin tx[t].held
  BY DEF SoftDeleteOffer, SoftDelete
<1>2. \A t \in Tx : TxOK(tx[t]) => TxOK(tx[t])'
  BY <1>1 DEF TxOK, WantOK, ReserveOK, AscendingOK, ReleaseOK, Available, Owed, Items
<1>3. \A t, u \in Tx : Apart(tx[t], tx[u]) => Apart(tx[t], tx[u])'
  BY <1>1 DEF Apart
<1> QED BY <1>1, <1>2, <1>3 DEF IInv, TxInv

\* No transaction is running and nothing is reserved.
LEMMA TxInitInv == TxInit => IInv
<1> SUFFICES ASSUME TxInit PROVE IInv
  OBVIOUS
<1>1. StockInv /\ OrdersInv
  BY StockInit DEF TxInit
<1>2. TxInv
  BY IdleOK DEF TxInit, TxInv
<1> QED BY <1>1, <1>2 DEF IInv

\* A statement changes nothing that is committed; a commit is a whole handler.
LEMMA TxRefines == IInv /\ [TxNext]_vars => [Next]_stockVars
<1> SUFFICES ASSUME IInv, [TxNext]_vars PROVE [Next]_stockVars
  OBVIOUS
<1>1. CASE UNCHANGED vars
  BY <1>1 DEF vars
<1>2. ASSUME NEW t \in Tx, Commit(t) PROVE [Next]_stockVars
  <2>1. CASE tx[t].short # {}
    BY <1>2, <2>1 DEF Commit
  <2>2. CASE tx[t].short = {}
    BY <1>2, <2>2, CommitIsHandler DEF Next
  <2> QED BY <2>1, <2>2
<1>3. ASSUME NEW t \in Tx,
             \/ \E o \in Orders, kind \in {"reserve", "release"} : Receive(t, kind, o)
             \/ Begin(t) \/ LockRow(t) \/ LockOffer(t) \/ Deadlock(t) \/ Crash(t)
      PROVE  UNCHANGED stockVars
  BY <1>3 DEF Receive, Begin, LockRow, LockOffer, Deadlock, Crash, Proceed
<1>4. ASSUME NEW f \in Offers, SoftDeleteOffer(f) PROVE Next
  BY <1>4 DEF SoftDeleteOffer, Next
<1> QED BY <1>1, <1>2, <1>3, <1>4 DEF TxNext

\* Every statement, commit, abort and retry keeps the invariant.
LEMMA TxStepInv == IInv /\ [TxNext]_vars => IInv'
<1> SUFFICES ASSUME IInv, [TxNext]_vars PROVE IInv'
  OBVIOUS
<1>1. StockInv' /\ OrdersInv'
  BY TxRefines, StockStep, OrdersStep DEF IInv, StockInv
<1>2. CASE UNCHANGED vars
  <2>1. tx' = tx /\ UNCHANGED stockVars
    BY <1>2 DEF vars
  <2>2. \A t \in Tx : TxOK(tx[t]) => TxOK(tx[t])'
    BY <2>1 DEF TxOK, WantOK, ReserveOK, AscendingOK, ReleaseOK, Available, Owed, Items, stockVars
  <2>3. \A t, u \in Tx : Apart(tx[t], tx[u]) => Apart(tx[t], tx[u])'
    BY <2>1 DEF Apart
  <2> QED BY <1>1, <2>1, <2>2, <2>3 DEF IInv, TxInv
<1>3. ASSUME NEW t \in Tx, NEW o \in Orders, NEW kind \in {"reserve", "release"},
             Receive(t, kind, o)
      PROVE  TxInv'
  <2>1. 1 \in Nat
    OBVIOUS
  <2> QED BY <1>3, <2>1, StartStep DEF Receive, IInv
<1>4. ASSUME NEW t \in Tx, Crash(t) PROVE TxInv'
  BY <1>4, EndStep DEF Crash, IInv
<1>5. CASE TxNext
  BY <1>1, <1>3, <1>4, <1>5, BeginStep, LockRowStep, LockOfferStep, CommitStep, DeadlockStep,
     SoftDeleteStep DEF TxNext, IInv
<1> QED BY <1>2, <1>5

\* What is committed and what each transaction has locked fit together.
THEOREM TransactionsInvariant == TxSpec => []IInv
  BY TxInitInv, TxStepInv, PTL DEF TxSpec

\* The transactions, interleaved statement by statement, with waits, deadlocks,
\* retries and crashes, implement the handlers that run one at a time.
THEOREM TransactionsImplementStock == TxSpec => AtomicStock
<1>1. TxInit => Init
  BY DEF TxInit
<1> QED BY <1>1, TransactionsInvariant, TxRefines, PTL DEF TxSpec, AtomicStock, Spec

\* Statement by statement too, no offer is oversold, reservedQuantity is what
\* is held, and an order holds all of its items or none.
THEOREM TransactionsKeepStock == TxSpec => [](NotOversold /\ ReservedIsHeld /\ AllOrNothing)
<1>1. IInv => NotOversold /\ ReservedIsHeld /\ AllOrNothing
  BY DEF IInv, StockInv, OrdersInv
<1> QED BY <1>1, TransactionsInvariant, PTL

-----------------------------------------------------------------------------
\* The place of a lock in the order in which a reserve takes its locks.
Place(w) == IF w[1] = "row" THEN 2 * w[2] ELSE 2 * w[2] + 1

Waiting(t) == tx[t].want[1] \in {"row", "offer"}

\* A reserve that is waited for asks for a later lock than the one it has.
LEMMA WaitsAscend ==
  ASSUME IInv, NEW t \in Tx, NEW u \in Tx, t \in WaitsFor(u), tx[t].kind = "reserve", Waiting(t)
  PROVE  Place(tx[u].want) < Place(tx[t].want)
<1> DEFINE g == tx[u].want[2]
           f == tx[t].want[2]
<1>1. /\ tx[t] \in TxType /\ tx[u] \in TxType /\ TxOK(tx[t]) /\ AscendingOK(tx[t])
      /\ tx[t].held \subseteq tx[t].rows
  BY DEF IInv, TxInv, TxOK
<1>2. /\ tx[u].want[1] \in {"row", "offer"} /\ g \in tx[t].rows
      /\ tx[u].want[1] = "offer" => g \in tx[t].held
  BY <1>1 DEF WaitsFor
<1>3. g \in Nat
  BY <1>1, <1>2, StockTransactionsAssumption DEF TxType
<1>4. CASE tx[t].want[1] = "row"
  <2>1. f \in tx[t].todo
    BY <1>1, <1>4 DEF TxOK, WantOK
  <2>2. f \in Nat /\ g < f
    BY <1>1, <1>2, <2>1, StockTransactionsAssumption DEF AscendingOK, TxType
  <2> HIDE DEF f, g
  <2>3. 2 * g < 2 * f /\ 2 * g + 1 < 2 * f
    BY <1>3, <2>2
  <2> QED BY <1>2, <1>4, <2>3 DEF Place, f, g
<1>5. CASE tx[t].want[1] = "offer"
  <2>1. f \in Owed(tx[t]) /\ f \in tx[t].rows /\ f \notin tx[t].held
    BY <1>1, <1>5 DEF TxOK, WantOK, Owed
  <2>a. f \in Nat
    BY <1>1, <2>1, StockTransactionsAssumption DEF TxType
  <2>b. g <= f /\ (g \in tx[t].held => g # f)
    BY <1>1, <1>2, <2>1 DEF AscendingOK
  <2>2. f \in Nat /\ g <= f /\ (g \in tx[t].held => g < f)
    BY <1>3, <2>a, <2>b
  <2> HIDE DEF f, g
  <2>3. 2 * g < 2 * f + 1 /\ (g < f => 2 * g + 1 < 2 * f + 1)
    BY <1>3, <2>2
  <2> QED BY <1>2, <1>5, <2>2, <2>3 DEF Place, f, g
<1> QED BY <1>4, <1>5 DEF Waiting

\* A reserve waits only for what comes after all it holds, so that reserves
\* alone never wait in a circle.
LEMMA NoCycleOfReserves == IInv => OnlyReleasesDeadlock
<1> SUFFICES ASSUME IInv, NEW S \in SUBSET Tx, IsCycle(S), \A t \in S : tx[t].kind # "release"
             PROVE  FALSE
  BY DEF OnlyReleasesDeadlock
<1>1. \A t \in S : \E u \in S : t \in WaitsFor(u)
  BY DEF IsCycle
<1>2. \A u \in S : WaitsFor(u) # {} => Waiting(u)
  BY DEF WaitsFor, Waiting
<1>3. \A t \in S : tx[t].kind = "reserve"
  <2> SUFFICES ASSUME NEW t \in S, tx[t].kind = "none" PROVE FALSE
    BY DEF IInv, TxInv, TxType
  <2>1. tx[t].rows = {} /\ tx[t].held = {}
    BY IdleOK DEF IInv, TxInv, TxOK
  <2> QED BY <1>1, <2>1 DEF WaitsFor
<1> DEFINE Places == {Place(tx[t].want) : t \in {u \in S : Waiting(u)}}
<1>4. Places \in SUBSET Nat
  <2> SUFFICES ASSUME NEW t \in S, Waiting(t) PROVE Place(tx[t].want) \in Nat
    OBVIOUS
  <2>1. tx[t] \in TxType /\ WantOK(tx[t])
    BY DEF IInv, TxInv, TxOK
  <2>2. tx[t].want[2] \in tx[t].todo \cup tx[t].rows
    BY <2>1 DEF WantOK, Waiting, Owed
  <2>3. tx[t].want[2] \in Nat
    BY <2>1, <2>2, StockTransactionsAssumption DEF TxType
  <2> QED BY <2>3 DEF Place
<1>5. Places # {}
  BY <1>1, <1>2 DEF IsCycle
<1> HIDE DEF Places
<1>6. Min(Places) \in Places /\ \A n \in Places : Min(Places) <= n
  BY <1>4, <1>5, MinOf
<1>7. PICK t \in S : Waiting(t) /\ Place(tx[t].want) = Min(Places)
  BY <1>6 DEF Places
<1>8. PICK u \in S : t \in WaitsFor(u)
  BY <1>1
<1>9. Place(tx[u].want) < Place(tx[t].want)
  BY <1>3, <1>7, <1>8, WaitsAscend
<1>10. Place(tx[u].want) \in Places
  BY <1>2, <1>8 DEF Places
<1>11. Min(Places) <= Place(tx[u].want) /\ Min(Places) \in Nat /\ Place(tx[u].want) \in Nat
  BY <1>4, <1>6, <1>10
<1> QED BY <1>7, <1>9, <1>11

\* Reserves never deadlock among themselves, on any number of connections:
\* along a chain of waits the locks they ask for only go up.
THEOREM ReservesNeverDeadlock == TxSpec => []OnlyReleasesDeadlock
  BY TransactionsInvariant, NoCycleOfReserves, PTL

=============================================================================
