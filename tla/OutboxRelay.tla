---------------------------- MODULE OutboxRelay ----------------------------
(***************************************************************************)
(* The transactional outbox and its relay.  OrderOutboxRelayService,       *)
(* IdentityOutboxRelayService and UserOutboxRelayService are three copies  *)
(* of this code; each app instance runs one relay per outbox.  A relay run *)
(* is one database transaction around a loop of Kafka sends: the claimed   *)
(* rows stay locked until it ends, the sends do not wait for its commit.   *)
(*                                                                         *)
(* A row is its rank in (createdAt, id) order.  An event's Kafka key is    *)
(* its aggregateId, so the events of an aggregate share a partition; `log` *)
(* is all partitions together, and only the order within an aggregate of   *)
(* it means anything.                                                      *)
(***************************************************************************)
EXTENDS Naturals, Sequences, FiniteSets

CONSTANTS Rows,       \* the outbox rows ever written
          Aggregate,  \* Aggregate[r]: aggregateId of row r
          Relays,     \* app instances
          BatchSize,  \* rows a run claims at most
          MaxFaults   \* bound: failed sends, crashes and rollbacks

ASSUME OutboxAssumption ==
  /\ Rows \subseteq Nat /\ IsFiniteSet(Rows)
  /\ DOMAIN Aggregate = Rows
  /\ BatchSize \in Nat \ {0}
  /\ MaxFaults \in Nat

VARIABLES row,      \* "absent" until its transaction commits, then its publishedAt
          phase,    \* what each relay is doing
          claimed,  \* rows locked by each relay's transaction
          sent,     \* the relay's local variable `published`
          log,      \* what Kafka holds, in the order it was appended
          faults    \* failures so far

vars == <<row, phase, claimed, sent, log, faults>>

Init ==
  /\ row = [r \in Rows |-> "absent"]
  /\ phase = [i \in Relays |-> "idle"]
  /\ claimed = [i \in Relays |-> {}]
  /\ sent = [i \in Relays |-> {}]
  /\ log = << >>
  /\ faults = 0

\* Rows of the aggregate of r that come before r.
Earlier(r) == {q \in Rows : q < r /\ Aggregate[q] = Aggregate[r]}

(***************************************************************************)
(* A transaction of the owning context commits its outbox row.  One event  *)
(* of an aggregate leads to the next, so they commit in order; rows of     *)
(* different aggregates commit in any order, whatever their createdAt.     *)
(***************************************************************************)
Insert(r) ==
  /\ row[r] = "absent"
  /\ \A q \in Earlier(r) : row[q] # "absent"
  /\ row' = [row EXCEPT ![r] = "unpublished"]
  /\ UNCHANGED <<phase, claimed, sent, log, faults>>

\* Variant: FOR UPDATE without the lock ever being looked at.
FreeIgnoringLocks == {r \in Rows : row[r] = "unpublished"}

\* What claimUnpublished selects from: unpublished and not locked.
Free == {r \in Rows : row[r] = "unpublished" /\ \A i \in Relays : r \notin claimed[i]}

\* Variant: the oldest row is passed over, by a cursor one row too far.
BatchAfterOldest == {r \in Free : Cardinality({q \in Free : q < r}) \in 1 .. BatchSize}

\* The first BatchSize of them, oldest first.
Batch == {r \in Free : Cardinality({q \in Free : q < r}) < BatchSize}

Claim(i) ==
  /\ phase[i] = "idle"
  /\ Batch # {}
  /\ phase' = [phase EXCEPT ![i] = "sending"]
  /\ claimed' = [claimed EXCEPT ![i] = Batch]
  /\ UNCHANGED <<row, sent, log, faults>>

\* Row r is the one the loop has come to.
IsNext(i, r) ==
  r \in claimed[i] \ sent[i] /\ \A q \in claimed[i] \ sent[i] : r <= q

Publish(i, r) ==
  /\ phase[i] = "sending"
  /\ IsNext(i, r)
  /\ log' = Append(log, r)
  /\ sent' = [sent EXCEPT ![i] = @ \cup {r}]
  /\ UNCHANGED <<row, phase, claimed, faults>>

\* publish rejects: recordFailure, and the loop breaks.  A send that timed out
\* may have arrived.
PublishFails(i, r) ==
  /\ phase[i] = "sending"
  /\ IsNext(i, r)
  /\ faults < MaxFaults
  /\ faults' = faults + 1
  /\ phase' = [phase EXCEPT ![i] = "failed"]
  /\ log' \in {log, Append(log, r)}
  /\ UNCHANGED <<row, claimed, sent>>

\* Variant: the whole batch is marked.
MarkedAll(i) == claimed[i]

\* The ids markPublished gets.
Marked(i) == sent[i]

\* Variant: without it the running flag stays set.
AfterErrorRunning == "running"

\* The finally block of relay().
AfterError == "idle"

\* The loop is over, all rows sent or one failed: markPublished, commit.
Commit(i) ==
  /\ \/ phase[i] = "sending" /\ sent[i] = claimed[i]
     \/ phase[i] = "failed"
  /\ row' = [r \in Rows |-> IF r \in Marked(i) THEN "published" ELSE row[r]]
  /\ phase' = [phase EXCEPT ![i] = "idle"]
  /\ claimed' = [claimed EXCEPT ![i] = {}]
  /\ sent' = [sent EXCEPT ![i] = {}]
  /\ UNCHANGED <<log, faults>>

\* A statement or the commit fails, or the instance dies and restarts: the
\* locks are gone and no row is marked, whatever was sent.
Rollback(i) ==
  /\ phase[i] # "idle"
  /\ faults < MaxFaults
  /\ faults' = faults + 1
  /\ phase' = [phase EXCEPT ![i] = AfterError]
  /\ claimed' = [claimed EXCEPT ![i] = {}]
  /\ sent' = [sent EXCEPT ![i] = {}]
  /\ UNCHANGED <<row, log>>

\* The daily deletePublished removes the rows published before its cutoff.
DeletePublished ==
  \E old \in SUBSET {r \in Rows : row[r] = "published"} :
    /\ old # {}
    /\ row' = [r \in Rows |-> IF r \in old THEN "deleted" ELSE row[r]]
    /\ UNCHANGED <<phase, claimed, sent, log, faults>>

Next ==
  \/ \E r \in Rows : Insert(r)
  \/ \E i \in Relays :
       \/ Claim(i) \/ Commit(i) \/ Rollback(i)
       \/ \E r \in Rows : Publish(i, r) \/ PublishFails(i, r)
  \/ DeletePublished

Spec == Init /\ [][Next]_vars

\* The relay runs on an interval and every await of a run ends.
Fairness ==
  \A i \in Relays :
    WF_vars(Claim(i) \/ Commit(i) \/ \E r \in Rows : Publish(i, r))

FairSpec == Spec /\ Fairness

-----------------------------------------------------------------------------
Elements(s) == {s[k] : k \in DOMAIN s}

TypeOK ==
  /\ row \in [Rows -> {"absent", "unpublished", "published", "deleted"}]
  /\ phase \in [Relays -> {"idle", "sending", "failed"}]
  /\ claimed \in [Relays -> SUBSET Rows]
  /\ sent \in [Relays -> SUBSET Rows]
  /\ \A i \in Relays : sent[i] \subseteq claimed[i] /\ (phase[i] = "idle" => claimed[i] = {})
  /\ log \in Seq(Rows)
  /\ faults \in 0 .. MaxFaults

\* README: "if it commits, the event is guaranteed to be sent": no row is
\* marked published, or deleted, whose event Kafka does not hold.
PublishedIsSent ==
  \A r \in Rows : row[r] \in {"published", "deleted"} => r \in Elements(log)

\* README: "so later rows never overtake it": an event reaches the log only
\* after every earlier event of its aggregate has, through failures, resends
\* and crashes.  True of a single relay, see OutboxRelayProofs.
AggregateOrder ==
  \A k \in DOMAIN log : \A q \in Earlier(log[k]) : \E j \in 1 .. k - 1 : log[j] = q

\* The promise of module EventLog, kept by rows that are claimed, sent and marked.
Promise == INSTANCE EventLog WITH rows <- {r \in Rows : row[r] # "absent"}

\* README: "SKIP LOCKED lets every instance run the relay without sending a row
\* twice": the relays together behave as EventLog says.  Only a failed run makes
\* them send an event again, and then no more than the batch it had claimed.
AtLeastOnceLog == Promise!Spec

\* README: "all events of one order stay ordered".  With several instances they
\* do not: while one relay holds a row, another skips it and may send a later
\* row of the same order first.  As long as no run has failed that is the only
\* way an event overtakes another of its aggregate.
OvertakenOnlyWhileHeld ==
  [][\A r \in Rows : log' = Append(log, r) =>
       \A q \in Earlier(r) \ Elements(log) :
         faults > 0 \/ \E i, j \in Relays : i # j /\ q \in claimed[i] /\ r \in claimed[j]]_vars

\* Every committed row is published in the end, if the failures stop.
EveryRowIsPublished ==
  \A r \in Rows : row[r] = "unpublished" ~> row[r] \in {"published", "deleted"}

=============================================================================
