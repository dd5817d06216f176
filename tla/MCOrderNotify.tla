--------------------------- MODULE MCOrderNotify ---------------------------
(***************************************************************************)
(* Models of OrderNotify: two events of the order that is followed, one of *)
(* another in between; the history is shorter than a relay that resends    *)
(* can make the order's part of the log.                                   *)
(***************************************************************************)
EXTENDS OrderNotify, TLC

CONSTANTS i1, i2, c1, o1, o2

MCRows == 1 .. 3
MCAggregate == [r \in Rows |-> IF r = 2 THEN o2 ELSE o1]
MCRelays == {i1}
MCInstances == {i1, i2}
MCClients == {c1}
MCWatched == [c \in Clients |-> o1]

=============================================================================
