--------------------------- MODULE MCOutboxRelay ---------------------------
(***************************************************************************)
(* Models of OutboxRelay: two orders, the events of which interleave; a    *)
(* batch is smaller than the backlog can be.                               *)
(***************************************************************************)
EXTENDS OutboxRelay

CONSTANTS i1, i2, o1, o2

ThreeRows == 1 .. 3
MCAggregate == [r \in Rows |-> IF r % 2 = 1 THEN o1 ELSE o2]
TwoRelays == {i1, i2}

=============================================================================
