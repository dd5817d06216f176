------------------------------- MODULE Stock -------------------------------
(***************************************************************************)
(* The seller-offer context (src/seller-offer): the stock of each offer    *)
(* and the StockReservation rows that hold part of it for an order.  Each  *)
(* handler is one database transaction, so it is one action; a rejected    *)
(* reserve rolls back and leaves every variable alone.                     *)
(***************************************************************************)
EXTENDS Naturals, FiniteSets

CONSTANTS Orders,    \* orders that may hold stock
          Offers,    \* seller offers
          OnHand,    \* OnHand[f]: SellerOffer.onHandQuantity
          Quantity   \* Quantity[o][f]: pieces of offer f that order o asks for

ASSUME StockAssumption ==
  /\ OnHand \in [Offers -> Nat]
  /\ Quantity \in [Orders -> [Offers -> Nat]]

VARIABLES reservedQuantity,  \* SellerOffer.reservedQuantity
          reservation,       \* StockReservation.status, "none" while there is no row
          deleted            \* offers with SellerOffer.deletedAt set

stockVars == <<reservedQuantity, reservation, deleted>>

\* 'confirmed' and 'fulfilled' of StockReservationStatusEnum are never written.
ReservationStatus == {"none", "reserved", "released"}

Init ==
  /\ reservedQuantity = [f \in Offers |-> 0]
  /\ reservation = [o \in Orders |-> [f \in Offers |-> "none"]]
  /\ deleted = {}

\* The offers of the request's items; OrderLine's primary key makes them distinct.
Items(o) == {f \in Offers : Quantity[o][f] > 0}

\* Items for which findByIds, which skips soft-deleted offers, finds no offer.
Missing(o) == Items(o) \cap deleted

\* Variant: on-hand stock is compared without what is already reserved.
AvailableIgnoringReserved(f, n) == OnHand[f] >= n

\* The WHERE clause of the UPDATE that holds the stock.
Available(f, n) == OnHand[f] >= reservedQuantity[f] + n

\* Variant: an item that does not fit is skipped, not the whole order.
InsertedIfAvailable(o) ==
  {f \in Items(o) : reservation[o][f] = "none" /\ Available(f, Quantity[o][f])}

\* Items whose row the INSERT ... ON CONFLICT DO NOTHING creates.
Inserted(o) == {f \in Items(o) : reservation[o][f] = "none"}

\* Inserted items whose UPDATE matched no offer: inserted > 0 and held = 0.
Failed(o) == {f \in Inserted(o) : ~Available(f, Quantity[o][f])}

\* What handleStockReserve answers.
ReserveReply(o) ==
  IF Missing(o) # {} THEN "offer_not_found"
  ELSE IF Failed(o) # {} THEN "insufficient_stock"
  ELSE "reserved"

(***************************************************************************)
(* A reserve request delivered to handleStockReserve.                      *)
(***************************************************************************)
Reserve(o) ==
  \/ /\ ReserveReply(o) = "reserved"
     /\ reservedQuantity' = [f \in Offers |->
          IF f \in Inserted(o) THEN reservedQuantity[f] + Quantity[o][f]
          ELSE reservedQuantity[f]]
     /\ reservation' = [reservation EXCEPT ![o] =
          [f \in Offers |-> IF f \in Inserted(o) THEN "reserved" ELSE @[f]]]
     /\ UNCHANGED deleted
  \/ /\ ReserveReply(o) # "reserved"
     /\ UNCHANGED stockVars

\* Variant: a release that does not look at the row's status.
ActiveAnyRow(o) == {f \in Offers : reservation[o][f] # "none"}

\* Rows that release moves to 'released'.
Active(o) == {f \in Offers : reservation[o][f] = "reserved"}

(***************************************************************************)
(* A release request delivered to handleStockRelease: one statement.  It   *)
(* leaves no row behind for an order that holds nothing.                   *)
(***************************************************************************)
Release(o) ==
  /\ reservation' = [reservation EXCEPT ![o] =
       [f \in Offers |-> IF f \in Active(o) THEN "released" ELSE @[f]]]
  /\ reservedQuantity' = [f \in Offers |->
       IF f \in Active(o) THEN reservedQuantity[f] - Quantity[o][f]
       ELSE reservedQuantity[f]]
  /\ UNCHANGED deleted

(***************************************************************************)
(* A seller's offer is soft-deleted.  No code under src/ writes deletedAt; *)
(* the reserve path reads it in both of its statements.                    *)
(***************************************************************************)
SoftDelete(f) ==
  /\ deleted' = deleted \cup {f}
  /\ UNCHANGED <<reservedQuantity, reservation>>

Next ==
  \/ \E o \in Orders : Reserve(o) \/ Release(o)
  \/ \E f \in Offers : SoftDelete(f)

Spec == Init /\ [][Next]_stockVars

-----------------------------------------------------------------------------
TypeOK ==
  /\ reservedQuantity \in [Offers -> Nat]
  /\ reservation \in [Orders -> [Offers -> ReservationStatus]]
  /\ deleted \subseteq Offers

\* The pieces of offer f held by reservations: piece n of order o is <<o, n>>,
\* so the cardinality is the sum of the quantities of the active rows.
Pieces(f) ==
  UNION {{o} \X (1 .. Quantity[o][f]) : o \in {p \in Orders : reservation[p][f] = "reserved"}}

\* SellerOffer.reservedQuantity is always the sum of the active reservations,
\* through redelivered reserves, rejected reserves and repeated releases.
ReservedIsHeld == \A f \in Offers : reservedQuantity[f] = Cardinality(Pieces(f))

\* The check SellerOffer_reserved_range never fires: an offer is not oversold.
NotOversold == \A f \in Offers : reservedQuantity[f] <= OnHand[f]

\* An order holds all of its items, or none of them, or has released them all:
\* a reserve that cannot hold one item keeps no other.
AllOrNothing ==
  \A o \in Orders : \A f, g \in Items(o) : reservation[o][f] = reservation[o][g]

=============================================================================
