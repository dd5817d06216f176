------------------------------ MODULE EventLog ------------------------------
(***************************************************************************)
(* What a transactional outbox promises the consumers of its topic: every  *)
(* committed row reaches the log, none other does, and a row is appended   *)
(* again only because a run of the relay failed, at most a batch of rows   *)
(* for each failure.  Module OutboxRelay implements this specification.    *)
(***************************************************************************)
EXTENDS Naturals, Sequences, FiniteSets

CONSTANTS Rows,       \* rows ever written
          BatchSize,  \* rows a relay run claims at most
          MaxFaults   \* bound: failed runs

VARIABLES rows,    \* rows committed to the outbox
          log,     \* what Kafka holds, in the order it was appended
          faults   \* failed runs so far

logVars == <<rows, log, faults>>

Init == rows = {} /\ log = << >> /\ faults = 0

Appended == {log[k] : k \in DOMAIN log}
Repeats == Len(log) - Cardinality(Appended)

Add(r) ==
  /\ r \notin rows
  /\ rows' = rows \cup {r}
  /\ UNCHANGED <<log, faults>>

CanSend(r) ==
  /\ r \in rows
  /\ r \in Appended => Repeats < BatchSize * faults

Send(r) ==
  /\ CanSend(r)
  /\ log' = Append(log, r)
  /\ UNCHANGED <<rows, faults>>

\* A run fails: what it was sending may have arrived.
Fail ==
  /\ faults < MaxFaults
  /\ faults' = faults + 1
  /\ UNCHANGED log \/ \E r \in Rows : CanSend(r) /\ log' = Append(log, r)
  /\ UNCHANGED rows

Next ==
  \/ \E r \in Rows : Add(r) \/ Send(r)
  \/ Fail

Spec == Init /\ [][Next]_logVars

=============================================================================
