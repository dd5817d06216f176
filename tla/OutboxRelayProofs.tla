------------------------- MODULE OutboxRelayProofs -------------------------
(***************************************************************************)
(* Proofs about OutboxRelay, for any rows, aggregates, relays, batch size  *)
(* and number of faults.                                                   *)
(***************************************************************************)
EXTENDS OutboxRelay, FiniteSetTheorems, TLAPS

\* Appending an element keeps what the log holds, in place, and adds it.
LEMMA AppendRow ==
  ASSUME NEW s \in Seq(Rows), NEW r \in Rows
  PROVE  /\ Append(s, r) \in Seq(Rows)
         /\ Len(Append(s, r)) = Len(s) + 1
         /\ Len(s) \in Nat /\ DOMAIN s = 1 .. Len(s)
         /\ \A k \in 1 .. Len(s) : Append(s, r)[k] = s[k]
         /\ Append(s, r)[Len(s) + 1] = r
         /\ Elements(s) \subseteq Elements(Append(s, r))
         /\ r \in Elements(Append(s, r))
BY DEF Elements

\* Type correctness; a relay's `published` is always part of its claim.
THEOREM TypeCorrect == Spec => []TypeOK
<1>1. Init => TypeOK
  BY OutboxAssumption DEF Init, TypeOK
<1>2. TypeOK /\ [Next]_vars => TypeOK'
  <2> SUFFICES ASSUME TypeOK, [Next]_vars
               PROVE  TypeOK'
    OBVIOUS
  <2> USE OutboxAssumption
  <2>1. ASSUME NEW r \in Rows, Insert(r) PROVE TypeOK'
    BY <2>1 DEF TypeOK, Insert
  <2>2. ASSUME NEW i \in Relays, Claim(i) PROVE TypeOK'
    <3>1. Batch \subseteq Rows
      BY DEF Batch, Free
    <3>2. sent' = sent /\ claimed' \in [Relays -> SUBSET Rows]
      BY <2>2, <3>1 DEF TypeOK, Claim
    <3>3. sent[i] = {}
      BY <2>2 DEF TypeOK, Claim
    <3>4. QED BY <2>2, <3>2, <3>3 DEF TypeOK, Claim
  <2>3. ASSUME NEW i \in Relays, NEW r \in Rows, Publish(i, r) PROVE TypeOK'
    BY <2>3, AppendRow DEF TypeOK, Publish, IsNext
  <2>4. ASSUME NEW i \in Relays, NEW r \in Rows, PublishFails(i, r) PROVE TypeOK'
    <3>1. log' \in Seq(Rows)
      <4>1. log \in Seq(Rows) /\ (log' = log \/ log' = Append(log, r))
        BY <2>4 DEF TypeOK, PublishFails
      <4>2. Append(log, r) \in Seq(Rows)
        BY <4>1, AppendRow
      <4>3. QED BY <4>1, <4>2
    <3>2. faults' \in 0 .. MaxFaults
      BY <2>4 DEF TypeOK, PublishFails
    <3>3. QED BY <2>4, <3>1, <3>2 DEF TypeOK, PublishFails
  <2>5. ASSUME NEW i \in Relays, Commit(i) PROVE TypeOK'
    BY <2>5 DEF TypeOK, Commit
  <2>6. ASSUME NEW i \in Relays, Rollback(i) PROVE TypeOK'
    BY <2>6 DEF TypeOK, Rollback, AfterError
  <2>7. CASE DeletePublished
    BY <2>7 DEF TypeOK, DeletePublished
  <2>8. CASE UNCHANGED vars
    BY <2>8 DEF TypeOK, vars
  <2>9. QED BY <2>1, <2>2, <2>3, <2>4, <2>5, <2>6, <2>7, <2>8 DEF Next
<1>3. QED BY <1>1, <1>2, PTL DEF Spec

(***************************************************************************)
(* PublishedIsSent is not inductive: what Commit marks is the relay's      *)
(* `published`, so that, too, must be in the log.                          *)
(***************************************************************************)
SentInv ==
  /\ PublishedIsSent
  /\ \A i \in Relays : sent[i] \subseteq Elements(log)

\* Every step keeps SentInv.
LEMMA SentStep ==
  ASSUME TypeOK, SentInv, [Next]_vars
  PROVE  SentInv'
<1>1. ASSUME NEW r \in Rows, Insert(r) PROVE SentInv'
  BY <1>1 DEF TypeOK, SentInv, PublishedIsSent, Insert, Elements
<1>2. ASSUME NEW i \in Relays, Claim(i) PROVE SentInv'
  BY <1>2 DEF SentInv, PublishedIsSent, Claim, Elements
<1>3. ASSUME NEW i \in Relays, NEW r \in Rows, Publish(i, r) PROVE SentInv'
  <2>1. /\ Elements(log) \subseteq Elements(log') /\ r \in Elements(log')
        /\ row' = row
        /\ \A j \in Relays : sent'[j] \subseteq sent[j] \cup {r}
    BY <1>3, AppendRow DEF TypeOK, Publish
  <2> HIDE DEF Elements
  <2>2. \A q \in Rows : q \in Elements(log) => q \in Elements(log')
    BY <2>1
  <2>3. Elements(log)' = Elements(log')
    BY DEF Elements
  <2>4. QED BY <2>1, <2>2, <2>3 DEF SentInv, PublishedIsSent
<1>4. ASSUME NEW i \in Relays, NEW r \in Rows, PublishFails(i, r) PROVE SentInv'
  <2>1. Elements(log) \subseteq Elements(log') /\ row' = row /\ sent' = sent
    BY <1>4, AppendRow DEF TypeOK, PublishFails
  <2>2. Elements(log)' = Elements(log')
    BY DEF Elements
  <2>3. QED BY <2>1, <2>2 DEF SentInv, PublishedIsSent
<1>5. ASSUME NEW i \in Relays, Commit(i) PROVE SentInv'
  <2>1. /\ log' = log
        /\ \A j \in Relays : sent'[j] = IF j = i THEN {} ELSE sent[j]
        /\ \A r \in Rows : row'[r] = IF r \in sent[i] THEN "published" ELSE row[r]
    BY <1>5 DEF TypeOK, Commit, Marked
  <2>2. Elements(log)' = Elements(log)
    BY <2>1 DEF Elements
  <2>3. QED BY <2>1, <2>2 DEF SentInv, PublishedIsSent
<1>6. ASSUME NEW i \in Relays, Rollback(i) PROVE SentInv'
  BY <1>6 DEF TypeOK, SentInv, PublishedIsSent, Rollback, Elements
<1>7. CASE DeletePublished
  BY <1>7 DEF TypeOK, SentInv, PublishedIsSent, DeletePublished, Elements
<1>8. CASE UNCHANGED vars
  BY <1>8 DEF SentInv, PublishedIsSent, vars, Elements
<1>9. QED BY <1>1, <1>2, <1>3, <1>4, <1>5, <1>6, <1>7, <1>8 DEF Next

\* relayBatch never loses an event: what it marks published, and so what the
\* cleanup may delete, is in Kafka's log, with any number of relays and faults.
THEOREM MarkedOnlyIfSent == Spec => []PublishedIsSent
<1>1. Init => SentInv
  BY DEF Init, SentInv, PublishedIsSent
<1>2. TypeOK /\ SentInv /\ [Next]_vars => SentInv'
  BY SentStep
<1>3. SentInv => PublishedIsSent
  BY DEF SentInv
<1>4. QED BY <1>1, <1>2, <1>3, TypeCorrect, PTL DEF Spec

-----------------------------------------------------------------------------
SingleRelay == \A i, j \in Relays : i = j

(***************************************************************************)
(* With one relay the claim is closed: a row is claimed together with the  *)
(* earlier rows of its aggregate, unless those are published.  Claimed     *)
(* rows are present rows, so marking them keeps the present rows closed.   *)
(***************************************************************************)
Present == \A r \in Rows : row[r] # "absent" => \A q \in Earlier(r) : row[q] # "absent"

ClaimClosed ==
  \A i \in Relays : \A r \in claimed[i] :
    /\ row[r] # "absent"
    /\ \A q \in Earlier(r) : q \in claimed[i] \/ row[q] \in {"published", "deleted"}

OrderInv == AggregateOrder /\ Present /\ ClaimClosed

\* The batch takes the oldest free rows, so it is closed downwards.
LEMMA BatchClosed ==
  ASSUME NEW r \in Batch, NEW q \in Free, q < r
  PROVE  q \in Batch
<1>1. Free \subseteq Rows /\ r \in Free /\ r \in Nat /\ q \in Nat
  BY OutboxAssumption DEF Batch, Free
<1> DEFINE B(x) == {p \in Free : p < x}
<1>2. IsFiniteSet(Free)
  BY <1>1, OutboxAssumption, FS_Subset
<1>3. B(r) \subseteq Free
  OBVIOUS
<1>4. IsFiniteSet(B(r))
  <2> HIDE DEF B
  <2> QED BY <1>2, <1>3, FS_Subset
<1>5. \A p \in Free : p \in Nat
  BY <1>1, OutboxAssumption
<1>6. B(q) \subseteq B(r)
  <2>1. ASSUME NEW p \in Free, p < q PROVE p < r
    <3>1. p \in Nat
      BY <1>5
    <3>2. QED BY <1>1, <2>1, <3>1
  <2>2. QED BY <2>1
<1>7. /\ Cardinality(B(r)) \in Nat /\ Cardinality(B(q)) \in Nat
      /\ Cardinality(B(q)) <= Cardinality(B(r))
  <2> HIDE DEF B
  <2>1. IsFiniteSet(B(q)) /\ Cardinality(B(q)) <= Cardinality(B(r))
    BY <1>4, <1>6, FS_Subset
  <2>2. QED BY <1>4, <2>1, FS_CardinalityType
<1>8. Cardinality(B(r)) < BatchSize
  BY DEF Batch
<1>9. Cardinality(B(q)) < BatchSize
  <2> HIDE DEF B
  <2> QED BY <1>7, <1>8, OutboxAssumption
<1>10. QED BY <1>9 DEF Batch

\* An event appended to an ordered log after all the earlier ones of its
\* aggregate leaves it ordered.
LEMMA AppendOrdered ==
  ASSUME TypeOK, AggregateOrder, NEW r \in Rows,
         \A q \in Earlier(r) : q \in Elements(log), log' = Append(log, r)
  PROVE  AggregateOrder'
<1>1. /\ log \in Seq(Rows) /\ DOMAIN log = 1 .. Len(log) /\ Len(log) \in Nat
      /\ \A k \in 1 .. Len(log) : log'[k] = log[k]
      /\ log'[Len(log) + 1] = r
      /\ DOMAIN log' = 1 .. Len(log) + 1
  BY AppendRow DEF TypeOK
<1>2. SUFFICES ASSUME NEW k \in DOMAIN log', NEW q \in Earlier(log'[k])
               PROVE  \E j \in 1 .. k - 1 : log'[j] = q
  BY DEF AggregateOrder, Earlier
<1>3. CASE k \in DOMAIN log
  <2>1. PICK j \in 1 .. k - 1 : log[j] = q
    BY <1>1, <1>2, <1>3 DEF AggregateOrder
  <2>2. QED BY <1>1, <1>3, <2>1
<1>4. CASE k = Len(log) + 1
  <2>1. PICK j \in DOMAIN log : log[j] = q
    BY <1>1, <1>2, <1>4 DEF Elements
  <2>2. QED BY <1>1, <1>4, <2>1
<1>5. QED BY <1>1, <1>3, <1>4

\* When the loop comes to a row, the earlier events of its aggregate are sent.
LEMMA NextIsOrdered ==
  ASSUME TypeOK, SentInv, ClaimClosed,
         NEW i \in Relays, NEW r \in Rows, IsNext(i, r)
  PROVE  \A q \in Earlier(r) : q \in Elements(log)
<1> SUFFICES ASSUME NEW q \in Earlier(r) PROVE q \in Elements(log)
  OBVIOUS
<1>1. q \in Rows /\ q \in Nat /\ r \in Nat /\ q < r
  BY OutboxAssumption DEF Earlier
<1>2. CASE q \in claimed[i]
  <2>1. q \in sent[i]
    BY <1>1, <1>2 DEF IsNext
  <2>2. QED BY <2>1 DEF SentInv
<1>3. CASE row[q] \in {"published", "deleted"}
  BY <1>1, <1>3 DEF SentInv, PublishedIsSent
<1>4. QED BY <1>2, <1>3 DEF ClaimClosed, IsNext

\* With a single relay every step keeps the order of the claims and of the log.
LEMMA OrderStep ==
  ASSUME SingleRelay, TypeOK, SentInv, OrderInv, [Next]_vars
  PROVE  OrderInv'
<1> USE DEF OrderInv
<1>1. ASSUME NEW r \in Rows, Insert(r) PROVE OrderInv'
  <2>1. AggregateOrder'
    BY <1>1 DEF Insert, AggregateOrder, Earlier
  <2>2. Present'
    <3>1. \A q \in Rows : row'[q] = IF q = r THEN "unpublished" ELSE row[q]
      BY <1>1 DEF TypeOK, Insert
    <3>2. QED BY <1>1, <3>1 DEF Insert, Present, Earlier
  <2>3. ClaimClosed'
    BY <1>1 DEF TypeOK, Insert, ClaimClosed, Earlier
  <2>4. QED BY <2>1, <2>2, <2>3
<1>2. ASSUME NEW i \in Relays, Claim(i) PROVE OrderInv'
  <2>1. AggregateOrder' /\ Present'
    BY <1>2 DEF Claim, AggregateOrder, Present, Earlier
  <2>2. \A j \in Relays : claimed[j] = {} /\ claimed'[j] = Batch
    BY <1>2 DEF SingleRelay, TypeOK, Claim
  <2>3. ASSUME NEW r \in Batch, NEW q \in Earlier(r), row[q] \notin {"published", "deleted"}
        PROVE  q \in Batch
    <3>1. r \in Rows /\ q \in Rows /\ q < r /\ row[r] # "absent"
      BY DEF Batch, Free, Earlier
    <3>2. row[q] = "unpublished"
      BY <2>3, <3>1 DEF Present, TypeOK
    <3>3. q \in Free
      BY <2>2, <3>1, <3>2 DEF Free
    <3>4. QED BY <3>1, <3>3, BatchClosed
  <2>4. ClaimClosed'
    BY <1>2, <2>2, <2>3 DEF Claim, ClaimClosed, Earlier, Batch, Free
  <2>5. QED BY <2>1, <2>4
<1>3. ASSUME NEW i \in Relays, NEW r \in Rows, Publish(i, r) PROVE OrderInv'
  <2>1. AggregateOrder'
    BY <1>3, NextIsOrdered, AppendOrdered DEF Publish
  <2>2. Present' /\ ClaimClosed'
    BY <1>3 DEF Publish, Present, ClaimClosed, Earlier
  <2>3. QED BY <2>1, <2>2
<1>4. ASSUME NEW i \in Relays, NEW r \in Rows, PublishFails(i, r) PROVE OrderInv'
  <2>1. CASE log' = log
    BY <1>4, <2>1 DEF PublishFails, AggregateOrder, Present, ClaimClosed, Earlier
  <2>2. CASE log' = Append(log, r)
    <3>1. AggregateOrder'
      BY <1>4, <2>2, NextIsOrdered, AppendOrdered DEF PublishFails
    <3>2. QED BY <1>4, <3>1 DEF PublishFails, Present, ClaimClosed, Earlier
  <2>3. QED BY <1>4, <2>1, <2>2 DEF PublishFails
<1>5. ASSUME NEW i \in Relays, Commit(i) PROVE OrderInv'
  <2>1. /\ log' = log
        /\ \A r \in Rows : row'[r] = IF r \in sent[i] THEN "published" ELSE row[r]
        /\ \A j \in Relays : claimed'[j] = {}
    BY <1>5 DEF SingleRelay, TypeOK, Commit, Marked
  <2>2. AggregateOrder' /\ ClaimClosed'
    BY <2>1 DEF AggregateOrder, ClaimClosed, Earlier
  <2>3. \A r \in sent[i] : row[r] # "absent"
    BY DEF TypeOK, ClaimClosed
  <2>4. Present'
    BY <2>1, <2>3 DEF Present, Earlier, TypeOK
  <2>5. QED BY <2>2, <2>4
<1>6. ASSUME NEW i \in Relays, Rollback(i) PROVE OrderInv'
  BY <1>6 DEF SingleRelay, TypeOK, Rollback, AggregateOrder, Present, ClaimClosed, Earlier
<1>7. CASE DeletePublished
  <2>1. /\ log' = log /\ claimed' = claimed
        /\ \A r \in Rows : row'[r] = row[r] \/ (row[r] = "published" /\ row'[r] = "deleted")
    BY <1>7 DEF DeletePublished
  <2>2. QED BY <2>1 DEF AggregateOrder, Present, ClaimClosed, Earlier, TypeOK
<1>8. CASE UNCHANGED vars
  BY <1>8 DEF AggregateOrder, Present, ClaimClosed, Earlier, vars
<1>9. QED BY <1>1, <1>2, <1>3, <1>4, <1>5, <1>6, <1>7, <1>8 DEF Next

\* With a single relay instance no event overtakes an earlier one of its
\* aggregate, whatever fails: the claim takes the oldest rows, the loop sends
\* them in order and stops at the first failure.  Several relays promise less,
\* see OvertakingNeedsAHold.
THEOREM OneRelayKeepsOrder == SingleRelay => (Spec => []AggregateOrder)
<1> SUFFICES ASSUME SingleRelay PROVE Spec => []AggregateOrder
  OBVIOUS
<1>1. Init => SentInv /\ OrderInv
  BY DEF Init, SentInv, PublishedIsSent, OrderInv, AggregateOrder, Present, ClaimClosed
<1>2. TypeOK /\ SentInv /\ OrderInv /\ [Next]_vars => (SentInv /\ OrderInv)'
  BY SentStep, OrderStep
<1>3. OrderInv => AggregateOrder
  BY DEF OrderInv
<1>4. QED BY <1>1, <1>2, <1>3, TypeCorrect, PTL DEF Spec

-----------------------------------------------------------------------------
(***************************************************************************)
(* Any number of relays.  SKIP LOCKED keeps their claims apart, and only   *)
(* unpublished rows are claimed, so that nothing but a failed run leaves a *)
(* row that is in the log to be claimed again.                             *)
(***************************************************************************)
ClaimsApart == \A i, j \in Relays : i # j => claimed[i] \cap claimed[j] = {}

ClaimedOpen == \A i \in Relays : \A r \in claimed[i] : row[r] = "unpublished"

ClaimFits == \A i \in Relays : IsFiniteSet(claimed[i]) /\ Cardinality(claimed[i]) <= BatchSize

LoggedCommitted == \A r \in Elements(log) : row[r] # "absent"

FailedCounts == \A i \in Relays : phase[i] = "failed" => faults > 0

\* While no run has failed, the earlier events of a claimed row are in the log
\* or in somebody's claim.
BehindClaims ==
  faults = 0 =>
    \A i \in Relays : \A r \in claimed[i] : \A q \in Earlier(r) :
      q \in Elements(log) \/ \E j \in Relays : q \in claimed[j]

ClaimsInv ==
  /\ Present /\ ClaimsApart /\ ClaimedOpen /\ ClaimFits
  /\ LoggedCommitted /\ FailedCounts /\ BehindClaims

\* A batch is no larger than its LIMIT: the number of older free rows tells the
\* rows of a batch apart, and is below BatchSize.
LEMMA BatchFits == IsFiniteSet(Batch) /\ Cardinality(Batch) <= BatchSize
<1> DEFINE Older(x) == {p \in Free : p < x}
           f == [r \in Batch |-> Cardinality(Older(r))]
<1>1. Free \subseteq Rows /\ Batch \subseteq Free /\ IsFiniteSet(Free)
  BY OutboxAssumption, FS_Subset DEF Free, Batch
<1>2. \A x \in Free : x \in Nat
  BY <1>1, OutboxAssumption
<1>3. ASSUME NEW x \in Free PROVE IsFiniteSet(Older(x)) /\ Cardinality(Older(x)) \in Nat
  <2>1. Older(x) \subseteq Free
    OBVIOUS
  <2> HIDE DEF Older
  <2>2. IsFiniteSet(Older(x))
    BY <1>1, <2>1, FS_Subset
  <2>3. QED BY <2>2, FS_CardinalityType
<1>4. ASSUME NEW x \in Free, NEW y \in Free, x < y
      PROVE  Cardinality(Older(x)) < Cardinality(Older(y))
  <2>1. Older(x) \subseteq Older(y)
    BY <1>2, <1>4
  <2>2. x \in Older(y) /\ x \notin Older(x)
    BY <1>2, <1>4
  <2> HIDE DEF Older
  <2>3. /\ Cardinality(Older(x)) <= Cardinality(Older(y))
        /\ Cardinality(Older(x)) # Cardinality(Older(y))
    BY <1>3, <2>1, <2>2, FS_Subset
  <2>4. QED BY <1>3, <2>3
<1>5. f \in [Batch -> 0 .. BatchSize - 1]
  <2>1. ASSUME NEW r \in Batch PROVE Cardinality(Older(r)) \in 0 .. BatchSize - 1
    <3>1. Cardinality(Older(r)) < BatchSize
      BY DEF Batch
    <3>2. Cardinality(Older(r)) \in Nat
      BY <1>1, <1>3
    <3> HIDE DEF Older
    <3>3. QED BY <3>1, <3>2, OutboxAssumption
  <2>2. QED BY <2>1
<1>6. \A x, y \in Batch : f[x] = f[y] => x = y
  <2> SUFFICES ASSUME NEW x \in Batch, NEW y \in Batch, f[x] = f[y] PROVE x = y
    OBVIOUS
  <2>1. x \in Free /\ y \in Free /\ x \in Nat /\ y \in Nat
    BY <1>1, <1>2
  <2>2. Cardinality(Older(x)) = Cardinality(Older(y))
    OBVIOUS
  <2> HIDE DEF f, Older
  <2>3. ~(x < y) /\ ~(y < x)
    BY <1>3, <1>4, <2>1, <2>2
  <2>4. QED BY <2>1, <2>3
<1>7. /\ IsFiniteSet(0 .. BatchSize - 1)
      /\ Cardinality(0 .. BatchSize - 1) = BatchSize
  BY FS_Interval, OutboxAssumption
<1> HIDE DEF f, Older
<1>8. f \in Injection(Batch, 0 .. BatchSize - 1)
  BY <1>5, <1>6 DEF Injection, IsInjective
<1>9. QED BY <1>7, <1>8, FS_Injection

\* Sending a row adds it to the rows in the log.
LEMMA AppendElements ==
  ASSUME NEW s \in Seq(Rows), NEW r \in Rows
  PROVE  Elements(Append(s, r)) = Elements(s) \cup {r}
<1> DEFINE t == Append(s, r)
<1>1. /\ Len(s) \in Nat /\ DOMAIN s = 1 .. Len(s) /\ DOMAIN t = 1 .. Len(s) + 1
      /\ \A k \in 1 .. Len(s) : t[k] = s[k]
      /\ t[Len(s) + 1] = r
  BY AppendRow
<1> HIDE DEF t
<1>2. Elements(t) = {t[k] : k \in 1 .. Len(s)} \cup {t[Len(s) + 1]}
  <2>1. 1 .. Len(s) + 1 = (1 .. Len(s)) \cup {Len(s) + 1}
    BY <1>1
  <2>2. QED BY <1>1, <2>1 DEF Elements
<1>3. {t[k] : k \in 1 .. Len(s)} = {s[k] : k \in 1 .. Len(s)}
  BY <1>1
<1>4. QED BY <1>1, <1>2, <1>3 DEF Elements, t

\* What a claim of relay i finds and leaves.
LEMMA ClaimStep ==
  ASSUME TypeOK, SentInv, ClaimsInv, NEW i \in Relays, Claim(i)
  PROVE  ClaimsInv'
<1> USE DEF ClaimsInv
<1>1. /\ \A j \in Relays : claimed'[j] = IF j = i THEN Batch ELSE claimed[j]
      /\ \A j \in Relays : phase'[j] = "failed" => phase[j] = "failed"
      /\ UNCHANGED <<row, sent, log, faults>> /\ claimed[i] = {}
  BY DEF TypeOK, Claim
<1>2. \A r \in Batch : r \in Rows /\ row[r] = "unpublished" /\ \A j \in Relays : r \notin claimed[j]
  BY DEF Batch, Free
<1>3. Elements(log)' = Elements(log)
  BY <1>1 DEF Elements
<1>4. Present' /\ LoggedCommitted' /\ FailedCounts'
  BY <1>1, <1>3 DEF Present, LoggedCommitted, FailedCounts, Earlier
<1>5. ClaimsApart'
  BY <1>1, <1>2 DEF ClaimsApart
<1>6. ClaimedOpen'
  BY <1>1, <1>2 DEF ClaimedOpen
<1>7. ClaimFits'
  BY <1>1, BatchFits DEF ClaimFits
<1>8. BehindClaims'
  <2> SUFFICES ASSUME faults = 0, NEW j \in Relays, NEW r \in claimed'[j], NEW q \in Earlier(r)
               PROVE  q \in Elements(log) \/ \E k \in Relays : q \in claimed'[k]
    BY <1>1, <1>3 DEF BehindClaims, Earlier
  <2>1. CASE j # i
    <3>1. q \in Elements(log) \/ \E k \in Relays : q \in claimed[k]
      BY <1>1, <2>1 DEF BehindClaims
    <3>2. \A k \in Relays : claimed[k] \subseteq claimed'[k]
      BY <1>1
    <3>3. QED BY <3>1, <3>2
  <2>2. CASE j = i
    <3>1. r \in Batch /\ r \in Rows /\ q \in Rows /\ q < r /\ row[q] # "absent"
      BY <1>1, <1>2, <2>2 DEF Present, Earlier
    <3>2. CASE row[q] = "unpublished" /\ \A k \in Relays : q \notin claimed[k]
      <4>1. q \in Batch
        BY <3>1, <3>2, BatchClosed DEF Free
      <4>2. QED BY <1>1, <4>1
    <3>3. CASE \E k \in Relays : q \in claimed[k]
      BY <1>1, <3>3
    <3>4. CASE row[q] \in {"published", "deleted"}
      BY <3>1, <3>4 DEF SentInv, PublishedIsSent
    <3>5. QED BY <3>1, <3>2, <3>3, <3>4 DEF TypeOK
  <2>3. QED BY <2>1, <2>2
<1>9. QED BY <1>4, <1>5, <1>6, <1>7, <1>8

\* A run ends and drops its claim: committed, with all of it in the log unless a
\* send failed, or rolled back, which is a fault.
LEMMA ReleaseStep ==
  ASSUME TypeOK, SentInv, ClaimsInv, NEW i \in Relays,
         UNCHANGED log, faults' \in Nat,
         \A j \in Relays : claimed'[j] = IF j = i THEN {} ELSE claimed[j],
         \A j \in Relays : phase'[j] = "failed" => phase[j] = "failed",
         \A r \in Rows : row'[r] = row[r] \/ (r \in claimed[i] /\ row'[r] = "published"),
         faults' = faults \/ faults' = faults + 1,
         faults' = 0 => claimed[i] \subseteq Elements(log)
  PROVE  ClaimsInv'
<1> USE DEF ClaimsInv
<1>1. Elements(log)' = Elements(log) /\ faults \in Nat /\ Elements(log) \subseteq Rows
  BY OutboxAssumption DEF Elements, TypeOK
<1>2. \A r \in Rows : row'[r] = "absent" <=> row[r] = "absent"
  BY DEF ClaimedOpen
<1>3. Present' /\ LoggedCommitted'
  BY <1>1, <1>2 DEF Present, LoggedCommitted, Earlier
<1>4. FailedCounts'
  BY <1>1 DEF FailedCounts
<1>5. ClaimsApart'
  BY DEF ClaimsApart
<1>6. ClaimedOpen'
  <2> SUFFICES ASSUME NEW j \in Relays, NEW r \in claimed'[j] PROVE row'[r] = "unpublished"
    BY DEF ClaimedOpen
  <2>1. j # i /\ r \in claimed[j] /\ r \in Rows
    BY DEF TypeOK
  <2>2. r \notin claimed[i]
    BY <2>1 DEF ClaimsApart
  <2>3. QED BY <2>1, <2>2 DEF ClaimedOpen
<1>7. ClaimFits'
  <2>1. IsFiniteSet({}) /\ Cardinality({}) = 0
    BY FS_EmptySet
  <2>2. QED BY <2>1, OutboxAssumption DEF ClaimFits
<1>8. BehindClaims'
  <2> SUFFICES ASSUME faults' = 0, NEW j \in Relays, NEW r \in claimed'[j], NEW q \in Earlier(r)
               PROVE  q \in Elements(log) \/ \E k \in Relays : q \in claimed'[k]
    BY <1>1 DEF BehindClaims, Earlier
  <2>1. faults = 0 /\ r \in claimed[j] /\ claimed[i] \subseteq Elements(log)
    BY <1>1
  <2>2. q \in Elements(log) \/ \E k \in Relays : q \in claimed[k]
    BY <2>1 DEF BehindClaims
  <2>3. QED BY <2>1, <2>2
<1>9. QED BY <1>3, <1>4, <1>5, <1>6, <1>7, <1>8

\* A send, whether it is reported to have failed or not, leaves the claims alone.
LEMMA SendStep ==
  ASSUME TypeOK, ClaimsInv, NEW i \in Relays, NEW r \in claimed[i],
         log' = log \/ log' = Append(log, r), UNCHANGED <<row, claimed>>,
         \/ faults' = faults /\ phase' = phase
         \/ faults' = faults + 1
  PROVE  ClaimsInv'
<1> USE DEF ClaimsInv
<1>1. r \in Rows /\ log \in Seq(Rows) /\ faults \in Nat
  BY OutboxAssumption DEF TypeOK
<1>2. Elements(log) \subseteq Elements(log)' /\ Elements(log)' \subseteq Elements(log) \cup {r}
  <2>1. CASE log' = log
    BY <2>1 DEF Elements
  <2>2. CASE log' = Append(log, r)
    <3>1. Elements(log') = Elements(log) \cup {r}
      BY <1>1, <2>2, AppendElements
    <3>2. Elements(log)' = Elements(log')
      BY DEF Elements
    <3>3. QED BY <3>1, <3>2
  <2>3. QED BY <2>1, <2>2
<1> HIDE DEF Elements
<1>3. Present' /\ ClaimsApart' /\ ClaimedOpen' /\ ClaimFits'
  BY DEF Present, ClaimsApart, ClaimedOpen, ClaimFits, Earlier
<1>4. LoggedCommitted'
  <2>1. row[r] = "unpublished"
    BY DEF ClaimedOpen
  <2>2. QED BY <1>2, <2>1 DEF LoggedCommitted
<1>5. FailedCounts'
  BY <1>1 DEF FailedCounts
<1>6. BehindClaims'
  <2> SUFFICES ASSUME faults' = 0, NEW j \in Relays, NEW p \in claimed[j], NEW q \in Earlier(p)
               PROVE  q \in Elements(log)' \/ \E k \in Relays : q \in claimed[k]
    BY DEF BehindClaims, Earlier
  <2>1. faults = 0
    BY <1>1
  <2>2. QED BY <1>2, <2>1 DEF BehindClaims
<1>7. QED BY <1>3, <1>4, <1>5, <1>6

\* Every step keeps ClaimsInv.
LEMMA ClaimsStep ==
  ASSUME TypeOK, SentInv, ClaimsInv, [Next]_vars
  PROVE  ClaimsInv'
<1>1. ASSUME NEW r \in Rows, Insert(r) PROVE ClaimsInv'
  <2>1. /\ \A q \in Rows : row'[q] = IF q = r THEN "unpublished" ELSE row[q]
        /\ UNCHANGED <<phase, claimed, sent, log, faults>>
    BY <1>1 DEF TypeOK, Insert
  <2>2. Elements(log)' = Elements(log) /\ Elements(log) \subseteq Rows
    BY <2>1 DEF Elements, TypeOK
  <2>3. Present'
    BY <1>1, <2>1 DEF ClaimsInv, Insert, Present, Earlier
  <2>4. ClaimedOpen' /\ LoggedCommitted'
    BY <2>1, <2>2 DEF ClaimsInv, ClaimedOpen, LoggedCommitted, TypeOK
  <2>5. ClaimsApart' /\ ClaimFits' /\ FailedCounts' /\ BehindClaims'
    BY <2>1, <2>2 DEF ClaimsInv, ClaimsApart, ClaimFits, FailedCounts, BehindClaims, Earlier
  <2>6. QED BY <2>3, <2>4, <2>5 DEF ClaimsInv
<1>2. ASSUME NEW i \in Relays, Claim(i) PROVE ClaimsInv'
  BY <1>2, ClaimStep
<1>3. ASSUME NEW i \in Relays, NEW r \in Rows, Publish(i, r) PROVE ClaimsInv'
  BY <1>3, SendStep DEF Publish, IsNext
<1>4. ASSUME NEW i \in Relays, NEW r \in Rows, PublishFails(i, r) PROVE ClaimsInv'
  BY <1>4, SendStep DEF PublishFails, IsNext
<1>5. ASSUME NEW i \in Relays, Commit(i) PROVE ClaimsInv'
  <2>1. /\ UNCHANGED log /\ faults' = faults /\ faults' \in Nat
        /\ \A j \in Relays : claimed'[j] = IF j = i THEN {} ELSE claimed[j]
        /\ \A j \in Relays : phase'[j] = "failed" => phase[j] = "failed"
        /\ \A r \in Rows : row'[r] = row[r] \/ (r \in claimed[i] /\ row'[r] = "published")
    <3>1. UNCHANGED log /\ faults' = faults /\ faults' \in Nat
      BY <1>5, OutboxAssumption DEF TypeOK, Commit
    <3>2. /\ \A j \in Relays : claimed'[j] = IF j = i THEN {} ELSE claimed[j]
          /\ \A j \in Relays : phase'[j] = "failed" => phase[j] = "failed"
      BY <1>5 DEF TypeOK, Commit
    <3>3. \A r \in Rows : row'[r] = IF r \in sent[i] THEN "published" ELSE row[r]
      BY <1>5 DEF Commit, Marked
    <3>4. sent[i] \subseteq claimed[i]
      BY DEF TypeOK
    <3>5. QED BY <3>1, <3>2, <3>3, <3>4
  <2>2. faults' = 0 => claimed[i] \subseteq Elements(log)
    <3>1. CASE phase[i] = "sending" /\ sent[i] = claimed[i]
      BY <3>1 DEF SentInv
    <3>2. CASE phase[i] = "failed"
      BY <2>1, <3>2 DEF ClaimsInv, FailedCounts
    <3>3. QED BY <1>5, <3>1, <3>2 DEF Commit
  <2>3. QED BY <2>1, <2>2, ReleaseStep
<1>6. ASSUME NEW i \in Relays, Rollback(i) PROVE ClaimsInv'
  <2>1. /\ UNCHANGED log /\ faults' = faults + 1 /\ faults' \in Nat /\ faults' # 0
        /\ \A j \in Relays : claimed'[j] = IF j = i THEN {} ELSE claimed[j]
        /\ \A j \in Relays : phase'[j] = "failed" => phase[j] = "failed"
        /\ \A r \in Rows : row'[r] = row[r]
    <3>1. UNCHANGED <<row, log>> /\ faults' = faults + 1 /\ faults \in Nat
      BY <1>6, OutboxAssumption DEF TypeOK, Rollback
    <3>2. /\ \A j \in Relays : claimed'[j] = IF j = i THEN {} ELSE claimed[j]
          /\ \A j \in Relays : phase'[j] = "failed" => phase[j] = "failed"
      BY <1>6 DEF TypeOK, Rollback, AfterError
    <3>3. QED BY <3>1, <3>2
  <2>2. QED BY <2>1, ReleaseStep
<1>7. CASE DeletePublished
  <2>1. /\ UNCHANGED <<phase, claimed, sent, log, faults>>
        /\ \A r \in Rows : row'[r] = row[r] \/ (row[r] = "published" /\ row'[r] = "deleted")
    BY <1>7 DEF DeletePublished
  <2>2. Elements(log)' = Elements(log) /\ Elements(log) \subseteq Rows
    BY <2>1 DEF Elements, TypeOK
  <2>3. QED BY <2>1, <2>2 DEF ClaimsInv, Present, ClaimsApart, ClaimedOpen, ClaimFits, TypeOK,
                             LoggedCommitted, FailedCounts, BehindClaims, Earlier
<1>8. CASE UNCHANGED vars
  BY <1>8 DEF ClaimsInv, Present, ClaimsApart, ClaimedOpen, ClaimFits, LoggedCommitted,
              FailedCounts, BehindClaims, Earlier, Elements, vars
<1>9. QED BY <1>1, <1>2, <1>3, <1>4, <1>5, <1>6, <1>7, <1>8 DEF Next

\* The claims stay apart, open and within the batch size.
LEMMA ClaimsInvariant == Spec => [](TypeOK /\ SentInv /\ ClaimsInv)
<1>1. Init => SentInv
  BY DEF Init, SentInv, PublishedIsSent
<1>2. Init => ClaimsInv
  <2>1. IsFiniteSet({}) /\ Cardinality({}) = 0
    BY FS_EmptySet
  <2>2. QED BY <2>1, OutboxAssumption
        DEF Init, ClaimsInv, Present, ClaimsApart, ClaimedOpen, ClaimFits, LoggedCommitted,
            FailedCounts, BehindClaims, Elements
<1>3. QED BY <1>1, <1>2, SentStep, ClaimsStep, TypeCorrect, PTL DEF Spec

\* The loop of relay i has come to r, and no run has failed: an earlier event
\* that is not in the log is held by another relay.
LEMMA OvertakenIsHeld ==
  ASSUME TypeOK, SentInv, ClaimsInv, faults = 0,
         NEW i \in Relays, NEW r \in Rows, IsNext(i, r), NEW q \in Earlier(r) \ Elements(log)
  PROVE  \E k, j \in Relays : k # j /\ q \in claimed[k] /\ r \in claimed[j]
<1>1. q \in Rows /\ q \in Nat /\ r \in Nat /\ q < r /\ r \in claimed[i]
  BY OutboxAssumption DEF Earlier, IsNext
<1>2. PICK k \in Relays : q \in claimed[k]
  BY <1>1 DEF ClaimsInv, BehindClaims
<1>3. k # i
  <2> SUFFICES ASSUME k = i PROVE FALSE
    OBVIOUS
  <2>1. q \in sent[i]
    BY <1>1, <1>2 DEF IsNext
  <2>2. QED BY <2>1 DEF SentInv
<1>4. QED BY <1>1, <1>2, <1>3

\* With any number of relays, and as long as no run has failed, a relay appends
\* an event before an earlier one of its aggregate only while another relay
\* holds the earlier one: SKIP LOCKED is the only way to overtake.
THEOREM OvertakingNeedsAHold == Spec => OvertakenOnlyWhileHeld
<1> DEFINE Held(r) == \A q \in Earlier(r) \ Elements(log) :
              faults > 0 \/ \E i, j \in Relays : i # j /\ q \in claimed[i] /\ r \in claimed[j]
           Step == \A r \in Rows : log' = Append(log, r) => Held(r)
<1>1. ASSUME TypeOK, SentInv, ClaimsInv, NEW i \in Relays, NEW r \in Rows, IsNext(i, r)
      PROVE  Held(r)
  <2>1. faults \in Nat
    BY <1>1, OutboxAssumption DEF TypeOK
  <2>2. CASE faults = 0
    BY <1>1, <2>2, OvertakenIsHeld
  <2>3. CASE faults > 0
    BY <2>3
  <2>4. QED BY <2>1, <2>2, <2>3
<1>2. TypeOK /\ SentInv /\ ClaimsInv /\ [Next]_vars => [Step]_vars
  <2> SUFFICES ASSUME TypeOK, SentInv, ClaimsInv, Next, NEW r \in Rows, log' = Append(log, r)
               PROVE  Held(r)
    OBVIOUS
  <2> HIDE DEF Held
  <2>1. log' # log
    BY AppendRow DEF TypeOK
  <2>2. PICK i \in Relays, p \in Rows : Publish(i, p) \/ PublishFails(i, p)
    BY <2>1 DEF Next, Insert, Claim, Commit, Rollback, DeletePublished
  <2>3. IsNext(i, p) /\ log' = Append(log, p)
    BY <2>1, <2>2 DEF Publish, PublishFails
  <2>4. p = r
    <3>1. log \in Seq(Rows)
      BY DEF TypeOK
    <3>2. log'[Len(log) + 1] = p
      BY <2>3, <3>1, AppendRow
    <3>3. log'[Len(log) + 1] = r
      BY <3>1, AppendRow
    <3>4. QED BY <3>2, <3>3
  <2>5. QED BY <1>1, <2>3, <2>4
<1>3. QED BY <1>2, ClaimsInvariant, PTL DEF Spec, OvertakenOnlyWhileHeld

-----------------------------------------------------------------------------
(***************************************************************************)
(* EventLog.  A row is due again when it is in the log, not published, and *)
(* no run remembers having sent it.  Every failed run makes at most a      *)
(* batch of rows due, and every repeated event was due: repeats and rows   *)
(* due together stay within a batch for each fault.                        *)
(***************************************************************************)
Due == {r \in Rows : /\ row[r] = "unpublished" /\ r \in Elements(log)
                     /\ \A i \in Relays : r \notin sent[i]}

RepeatsPaid == Promise!Repeats + Cardinality(Due) <= BatchSize * faults

\* EventLog counts as this module does.
LEMMA PromiseCardinality == \A S : Promise!Cardinality(S) = Cardinality(S)
BY DEF Promise!Cardinality, Cardinality

\* The sets counted are finite and the counts are numbers.
LEMMA Counts ==
  ASSUME TypeOK
  PROVE  /\ IsFiniteSet(Due) /\ Cardinality(Due) \in Nat
         /\ IsFiniteSet(Elements(log)) /\ Cardinality(Elements(log)) \in Nat
         /\ Len(log) \in Nat /\ Promise!Repeats = Len(log) - Cardinality(Elements(log))
         /\ BatchSize * faults \in Nat /\ faults \in Nat
         /\ BatchSize * (faults + 1) = BatchSize * faults + BatchSize
<1>1. Due \subseteq Rows /\ Elements(log) \subseteq Rows
  BY DEF Due, Elements, TypeOK
<1>2. IsFiniteSet(Due) /\ IsFiniteSet(Elements(log))
  BY <1>1, OutboxAssumption, FS_Subset
<1>3. Cardinality(Due) \in Nat /\ Cardinality(Elements(log)) \in Nat
  BY <1>2, FS_CardinalityType
<1>4. Len(log) \in Nat /\ Promise!Repeats = Len(log) - Cardinality(Elements(log))
  BY PromiseCardinality DEF TypeOK, Promise!Repeats, Promise!Appended, Elements
<1>5. faults \in Nat /\ BatchSize \in Nat
  BY OutboxAssumption DEF TypeOK
<1>6. BatchSize * faults \in Nat /\ BatchSize * (faults + 1) = BatchSize * faults + BatchSize
  BY <1>5
<1>7. QED BY <1>2, <1>3, <1>4, <1>5, <1>6

\* Appending r to the log adds to the repeats only if r was in it.
LEMMA AppendRepeats ==
  ASSUME TypeOK, TypeOK', NEW r \in Rows, log' = Append(log, r)
  PROVE  /\ r \in Elements(log) => Promise!Repeats' = Promise!Repeats + 1
         /\ r \notin Elements(log) => Promise!Repeats' = Promise!Repeats
         /\ Elements(log)' = Elements(log) \cup {r}
<1>1. Elements(log)' = Elements(log) \cup {r}
  <2>1. Elements(log)' = Elements(log')
    BY DEF Elements
  <2>2. QED BY <2>1, AppendElements DEF TypeOK
<1>2. Len(log') = Len(log) + 1
  BY AppendRow DEF TypeOK
<1>3. Promise!Repeats' = Len(log') - Cardinality(Elements(log)')
  BY PromiseCardinality DEF Promise!Repeats, Promise!Appended, Elements
<1> DEFINE E == Elements(log)
<1>4. /\ IsFiniteSet(E) /\ Cardinality(E) \in Nat
      /\ Len(log) \in Nat /\ Promise!Repeats = Len(log) - Cardinality(E)
  BY Counts
<1>5. Elements(log)' = E \cup {r}
  BY <1>1
<1> HIDE DEF E
<1>6. Cardinality(E \cup {r}) = IF r \in E THEN Cardinality(E) ELSE Cardinality(E) + 1
  BY <1>4, FS_AddElement
<1>7. CASE r \in E
  BY <1>1, <1>2, <1>3, <1>4, <1>5, <1>6, <1>7 DEF E
<1>8. CASE r \notin E
  BY <1>1, <1>2, <1>3, <1>4, <1>5, <1>6, <1>8 DEF E
<1>9. QED BY <1>7, <1>8

\* The row a relay is about to send is due if it is in the log.
LEMMA NextIsDue ==
  ASSUME TypeOK, ClaimsInv, NEW i \in Relays, NEW r \in Rows, IsNext(i, r)
  PROVE  /\ row[r] = "unpublished" /\ \A j \in Relays : r \notin sent[j]
         /\ r \in Due <=> r \in Elements(log)
<1>1. r \in claimed[i] /\ r \notin sent[i]
  BY DEF IsNext
<1>2. \A j \in Relays : r \notin sent[j]
  BY <1>1 DEF ClaimsInv, ClaimsApart, TypeOK
<1>3. row[r] = "unpublished"
  BY <1>1 DEF ClaimsInv, ClaimedOpen
<1>4. QED BY <1>2, <1>3 DEF Due

\* What EventLog asks of a send.
LEMMA SendIsPaid ==
  ASSUME TypeOK, ClaimsInv, RepeatsPaid, NEW i \in Relays, NEW r \in Rows, IsNext(i, r)
  PROVE  Promise!CanSend(r)
<1>1. row[r] # "absent"
  BY NextIsDue
<1>2. ASSUME r \in Elements(log) PROVE Promise!Repeats < BatchSize * faults
  <2>1. r \in Due
    BY <1>2, NextIsDue
  <2>2. Cardinality(Due) # 0
    BY <2>1, Counts, FS_EmptySet
  <2>3. QED BY <2>2, Counts DEF RepeatsPaid
<1>3. Promise!Appended = Elements(log)
  BY DEF Promise!Appended, Elements
<1>4. QED BY <1>1, <1>2, <1>3 DEF Promise!CanSend

\* Repeats and rows due after a send that is remembered: r is no longer due.
LEMMA PublishPaid ==
  ASSUME TypeOK, TypeOK', ClaimsInv, RepeatsPaid,
         NEW i \in Relays, NEW r \in Rows, Publish(i, r)
  PROVE  RepeatsPaid'
<1>1. /\ UNCHANGED <<row, faults>> /\ log' = Append(log, r)
      /\ \A j \in Relays : sent'[j] = IF j = i THEN sent[i] \cup {r} ELSE sent[j]
      /\ IsNext(i, r)
  BY DEF Publish, TypeOK
<1>2. /\ \A j \in Relays : r \notin sent[j]
      /\ r \in Due <=> r \in Elements(log)
  BY <1>1, NextIsDue
<1>3. /\ r \in Elements(log) => Promise!Repeats' = Promise!Repeats + 1
      /\ r \notin Elements(log) => Promise!Repeats' = Promise!Repeats
      /\ Elements(log)' = Elements(log) \cup {r}
  BY <1>1, AppendRepeats
<1>4. Due' = Due \ {r}
  <2>1. \A q \in Rows : (\A j \in Relays : q \notin sent'[j]) <=>
                          (q # r /\ \A j \in Relays : q \notin sent[j])
    BY <1>1
  <2>2. Due' = {q \in Rows : /\ row'[q] = "unpublished" /\ q \in Elements(log)'
                             /\ \A j \in Relays : q \notin sent'[j]}
    BY DEF Due
  <2> HIDE DEF Elements
  <2>3. QED BY <1>1, <1>3, <2>1, <2>2 DEF Due
<1>5. Cardinality(Due \ {r}) = IF r \in Due THEN Cardinality(Due) - 1 ELSE Cardinality(Due)
  BY Counts, FS_RemoveElement
<1>6. Promise!Repeats \in Int
  BY Counts
<1>7. QED
  <2>1. RepeatsPaid' <=> Promise!Repeats' + Cardinality(Due') <= BatchSize * faults
    BY <1>1 DEF RepeatsPaid
  <2>2. Promise!Repeats' + Cardinality(Due') = Promise!Repeats + Cardinality(Due)
    BY <1>2, <1>3, <1>4, <1>5, <1>6, Counts
  <2>3. QED BY <2>1, <2>2 DEF RepeatsPaid

\* A send that failed may have arrived: one more repeat, or one more row due.
LEMMA FailurePaid ==
  ASSUME TypeOK, TypeOK', ClaimsInv, RepeatsPaid,
         NEW i \in Relays, NEW r \in Rows, PublishFails(i, r)
  PROVE  RepeatsPaid'
<1>1. /\ UNCHANGED <<row, sent>> /\ faults' = faults + 1
      /\ log' = log \/ log' = Append(log, r)
      /\ IsNext(i, r)
  BY DEF PublishFails
<1>2. /\ row[r] = "unpublished" /\ \A j \in Relays : r \notin sent[j]
      /\ r \in Due <=> r \in Elements(log)
  BY <1>1, NextIsDue
<1>3. RepeatsPaid' <=> Promise!Repeats' + Cardinality(Due') <= BatchSize * (faults + 1)
  BY <1>1 DEF RepeatsPaid
<1>4. Promise!Repeats \in Int /\ BatchSize >= 1 /\ BatchSize \in Nat
  BY Counts, OutboxAssumption
<1>5. CASE log' = log
  <2>1. Promise!Repeats' = Promise!Repeats /\ Due' = Due
    BY <1>1, <1>5 DEF Due, Elements, Promise!Repeats, Promise!Appended
  <2>2. QED BY <1>3, <1>4, <2>1, Counts DEF RepeatsPaid
<1>6. CASE log' = Append(log, r)
  <2>1. /\ r \in Elements(log) => Promise!Repeats' = Promise!Repeats + 1
        /\ r \notin Elements(log) => Promise!Repeats' = Promise!Repeats
        /\ Elements(log)' = Elements(log) \cup {r}
    BY <1>6, AppendRepeats
  <2>2. Due' = Due \cup {r}
    <3>1. Due' = {q \in Rows : /\ row'[q] = "unpublished" /\ q \in Elements(log)'
                               /\ \A j \in Relays : q \notin sent'[j]}
      BY DEF Due
    <3> HIDE DEF Elements
    <3>2. QED BY <1>1, <1>2, <2>1, <3>1 DEF Due
  <2>3. Cardinality(Due \cup {r}) = IF r \in Due THEN Cardinality(Due) ELSE Cardinality(Due) + 1
    BY Counts, FS_AddElement
  <2>4. Promise!Repeats' + Cardinality(Due') = Promise!Repeats + Cardinality(Due) + 1
    BY <1>2, <1>4, <2>1, <2>2, <2>3, Counts
  <2>5. /\ Promise!Repeats + Cardinality(Due) <= BatchSize * faults
        /\ Cardinality(Due) \in Nat /\ BatchSize * faults \in Nat
    BY Counts DEF RepeatsPaid
  <2>6. ASSUME NEW n \in Int, NEW d \in Nat, NEW b \in Nat, NEW m \in Nat, n + d <= m, b >= 1
        PROVE  n + d + 1 <= m + b
    BY <2>6
  <2>7. Promise!Repeats + Cardinality(Due) + 1 <= BatchSize * faults + BatchSize
    BY ONLY <1>4, <2>5, <2>6
  <2>8. BatchSize * (faults + 1) = BatchSize * faults + BatchSize
    BY Counts
  <2>9. QED BY ONLY <1>3, <2>4, <2>7, <2>8
<1>7. QED BY <1>1, <1>5, <1>6

\* A run rolled back forgets what it sent, at most a batch.
LEMMA RollbackPaid ==
  ASSUME TypeOK, SentInv, ClaimsInv, RepeatsPaid, NEW i \in Relays, Rollback(i)
  PROVE  RepeatsPaid'
<1>1. /\ UNCHANGED <<row, log>> /\ faults' = faults + 1
      /\ \A j \in Relays : sent'[j] = IF j = i THEN {} ELSE sent[j]
  BY DEF Rollback, TypeOK
<1>2. Promise!Repeats' = Promise!Repeats /\ Elements(log)' = Elements(log)
  BY <1>1 DEF Elements, Promise!Repeats, Promise!Appended
<1>3. Due' \subseteq Due \cup claimed[i]
  <2>1. Due' = {q \in Rows : /\ row[q] = "unpublished" /\ q \in Elements(log)
                             /\ \A j \in Relays : q \notin sent'[j]}
    BY <1>1, <1>2 DEF Due
  <2>2. ASSUME NEW q \in Due' PROVE q \in Due \/ q \in sent[i]
    <3>1. /\ q \in Rows /\ row[q] = "unpublished" /\ q \in Elements(log)
          /\ \A j \in Relays : q \notin sent'[j]
      BY <2>1
    <3>2. \A j \in Relays : j # i => q \notin sent[j]
      BY <1>1, <3>1
    <3>3. QED BY <3>1, <3>2 DEF Due
  <2>3. sent[i] \subseteq claimed[i]
    BY DEF TypeOK
  <2>4. QED BY <2>2, <2>3
<1> DEFINE C == claimed[i]
           D == Due
<1>4. /\ IsFiniteSet(C) /\ Cardinality(C) \in Nat /\ Cardinality(C) <= BatchSize
      /\ IsFiniteSet(D) /\ Cardinality(D) \in Nat
  BY Counts, FS_CardinalityType DEF ClaimsInv, ClaimFits
<1> HIDE DEF C, D
<1>5. Cardinality(D \cap C) \in Nat
  <2>1. IsFiniteSet(D \cap C)
    BY <1>4, FS_Intersection
  <2>2. QED BY <2>1, FS_CardinalityType
<1>6. /\ IsFiniteSet(D \cup C)
      /\ Cardinality(D \cup C) = Cardinality(D) + Cardinality(C) - Cardinality(D \cap C)
  BY <1>4, FS_Union
<1>7. ASSUME NEW d \in Nat, NEW c \in Nat, NEW m \in Nat, NEW b \in Nat, c <= b
      PROVE  d + c - m <= d + b
  BY <1>7
<1>8. Cardinality(D \cup C) <= Cardinality(D) + BatchSize /\ Cardinality(D \cup C) \in Nat
  <2>1. Cardinality(D \cup C) \in Nat
    BY <1>6, FS_CardinalityType
  <2>2. BatchSize \in Nat
    BY OutboxAssumption
  <2>3. QED BY <1>4, <1>5, <1>6, <1>7, <2>1, <2>2
<1>9. Due' \subseteq D \cup C
  BY <1>3 DEF C, D
<1>10. Cardinality(Due') <= Cardinality(D \cup C) /\ Cardinality(Due') \in Nat
  BY <1>6, <1>9, FS_Subset, FS_CardinalityType
<1>11. RepeatsPaid' <=> Promise!Repeats' + Cardinality(Due') <= BatchSize * (faults + 1)
  BY <1>1 DEF RepeatsPaid
<1>12. Promise!Repeats \in Int /\ BatchSize \in Nat
  BY Counts, OutboxAssumption
<1>13. Cardinality(Due') <= Cardinality(Due) + BatchSize
  BY <1>4, <1>8, <1>10, <1>12 DEF D
<1>14. ASSUME NEW n \in Int, NEW d \in Nat, NEW e \in Nat, NEW b \in Nat, NEW m \in Nat,
              n + d <= m, e <= d + b
       PROVE  n + e <= m + b
  BY <1>14
<1>15. /\ Promise!Repeats + Cardinality(Due) <= BatchSize * faults
       /\ Cardinality(Due) \in Nat /\ BatchSize * faults \in Nat
  BY Counts DEF RepeatsPaid
<1>16. Promise!Repeats + Cardinality(Due') <= BatchSize * faults + BatchSize
  BY ONLY <1>10, <1>12, <1>13, <1>14, <1>15
<1>17. BatchSize * (faults + 1) = BatchSize * faults + BatchSize
  BY Counts
<1>18. QED BY ONLY <1>2, <1>11, <1>16, <1>17

\* Nothing else makes a row due: a row is committed before it can be in the log,
\* and what Commit forgets it has marked.
LEMMA QuietPaid ==
  ASSUME TypeOK, ClaimsInv, RepeatsPaid,
         UNCHANGED <<log, faults>>,
         \A r \in Rows : row'[r] = "unpublished" /\ row[r] # "unpublished" => r \notin Elements(log),
         \A r \in Rows : row'[r] = "unpublished" =>
           \A j \in Relays : r \in sent[j] => \E k \in Relays : r \in sent'[k]
  PROVE  RepeatsPaid'
<1>1. Promise!Repeats' = Promise!Repeats /\ Elements(log)' = Elements(log)
  BY DEF Elements, Promise!Repeats, Promise!Appended
<1>2. Due' = {q \in Rows : /\ row'[q] = "unpublished" /\ q \in Elements(log)
                           /\ \A j \in Relays : q \notin sent'[j]}
  BY <1>1 DEF Due
<1>3. Due' \subseteq Due
  BY <1>2 DEF Due
<1>4. IsFiniteSet(Due') /\ Cardinality(Due') <= Cardinality(Due)
  BY <1>3, Counts, FS_Subset
<1>5. Cardinality(Due') \in Nat /\ Promise!Repeats \in Int
  BY <1>4, Counts, FS_CardinalityType
<1>6. RepeatsPaid' <=> Promise!Repeats + Cardinality(Due') <= BatchSize * faults
  BY <1>1 DEF RepeatsPaid
<1>7. QED BY <1>4, <1>5, <1>6, Counts DEF RepeatsPaid

\* A step repeats an event only on the account of a fault.
LEMMA PaidStep ==
  ASSUME TypeOK, TypeOK', SentInv, ClaimsInv, RepeatsPaid, [Next]_vars
  PROVE  RepeatsPaid'
<1>1. ASSUME NEW r \in Rows, Insert(r) PROVE RepeatsPaid'
  <2>1. /\ \A q \in Rows : row'[q] = IF q = r THEN "unpublished" ELSE row[q]
        /\ UNCHANGED <<sent, log, faults>> /\ row[r] = "absent"
    BY <1>1 DEF TypeOK, Insert
  <2>2. r \notin Elements(log)
    BY <2>1 DEF ClaimsInv, LoggedCommitted
  <2>3. QED BY <2>1, <2>2, QuietPaid
<1>2. ASSUME NEW i \in Relays, Claim(i) PROVE RepeatsPaid'
  BY <1>2, QuietPaid DEF Claim
<1>3. ASSUME NEW i \in Relays, NEW r \in Rows, Publish(i, r) PROVE RepeatsPaid'
  BY <1>3, PublishPaid
<1>4. ASSUME NEW i \in Relays, NEW r \in Rows, PublishFails(i, r) PROVE RepeatsPaid'
  BY <1>4, FailurePaid
<1>5. ASSUME NEW i \in Relays, Commit(i) PROVE RepeatsPaid'
  <2>1. /\ \A r \in Rows : row'[r] = IF r \in sent[i] THEN "published" ELSE row[r]
        /\ UNCHANGED <<log, faults>>
    BY <1>5 DEF Commit, Marked
  <2>2. \A j \in Relays : sent'[j] = IF j = i THEN {} ELSE sent[j]
    BY <1>5 DEF Commit, TypeOK
  <2>3. QED BY <2>1, <2>2, QuietPaid
<1>6. ASSUME NEW i \in Relays, Rollback(i) PROVE RepeatsPaid'
  BY <1>6, RollbackPaid
<1>7. CASE DeletePublished
  <2>1. /\ UNCHANGED <<sent, log, faults>>
        /\ \A r \in Rows : row'[r] = row[r] \/ (row[r] = "published" /\ row'[r] = "deleted")
    BY <1>7 DEF DeletePublished
  <2>2. QED BY <2>1, QuietPaid
<1>8. CASE UNCHANGED vars
  BY <1>8, QuietPaid DEF vars
<1>9. QED BY <1>1, <1>2, <1>3, <1>4, <1>5, <1>6, <1>7, <1>8 DEF Next

\* A step of the relays is a step of EventLog, or changes nothing it shows.
LEMMA EventLogStep ==
  ASSUME TypeOK, SentInv, ClaimsInv, RepeatsPaid, [Next]_vars
  PROVE  [Promise!Next]_(Promise!logVars)
<1> DEFINE committed == {r \in Rows : row[r] # "absent"}
<1>a. ASSUME committed' = committed, UNCHANGED <<log, faults>>
      PROVE  [Promise!Next]_(Promise!logVars)
  BY <1>a DEF Promise!logVars
<1>1. ASSUME NEW r \in Rows, Insert(r) PROVE Promise!Add(r)
  <2>1. /\ \A q \in Rows : row'[q] = IF q = r THEN "unpublished" ELSE row[q]
        /\ UNCHANGED <<log, faults>> /\ row[r] = "absent"
    BY <1>1 DEF TypeOK, Insert
  <2>2. r \notin committed /\ committed' = committed \cup {r}
    BY <2>1
  <2>3. QED BY <2>1, <2>2 DEF Promise!Add
<1>2. ASSUME NEW i \in Relays, Claim(i) PROVE [Promise!Next]_(Promise!logVars)
  BY <1>2, <1>a DEF Claim
<1>3. ASSUME NEW i \in Relays, NEW r \in Rows, Publish(i, r) PROVE Promise!Send(r)
  BY <1>3, SendIsPaid DEF Publish, Promise!Send
<1>4. ASSUME NEW i \in Relays, NEW r \in Rows, PublishFails(i, r) PROVE Promise!Fail
  <2>1. Promise!CanSend(r)
    BY <1>4, SendIsPaid DEF PublishFails
  <2>2. /\ UNCHANGED row /\ faults < MaxFaults /\ faults' = faults + 1
        /\ UNCHANGED log \/ log' = Append(log, r)
    BY <1>4 DEF PublishFails
  <2>3. QED BY <2>1, <2>2 DEF Promise!Fail
<1>5. ASSUME NEW i \in Relays, Commit(i) PROVE [Promise!Next]_(Promise!logVars)
  <2>1. /\ \A r \in Rows : row'[r] = IF r \in sent[i] THEN "published" ELSE row[r]
        /\ UNCHANGED <<log, faults>>
    BY <1>5 DEF Commit, Marked
  <2>2. \A r \in sent[i] : row[r] # "absent"
    BY DEF TypeOK, ClaimsInv, ClaimedOpen
  <2>3. committed' = committed
    BY <2>1, <2>2
  <2>4. QED BY <2>1, <2>3, <1>a
<1>6. ASSUME NEW i \in Relays, Rollback(i) PROVE Promise!Fail
  BY <1>6 DEF Rollback, Promise!Fail
<1>7. CASE DeletePublished
  <2>1. /\ UNCHANGED <<log, faults>>
        /\ \A r \in Rows : row'[r] = row[r] \/ (row[r] = "published" /\ row'[r] = "deleted")
    BY <1>7 DEF DeletePublished
  <2>2. committed' = committed
    BY <2>1
  <2>3. QED BY <2>1, <2>2, <1>a
<1>8. CASE UNCHANGED vars
  BY <1>8, <1>a DEF vars
<1>9. QED BY <1>1, <1>2, <1>3, <1>4, <1>5, <1>6, <1>7, <1>8 DEF Next, Promise!Next

\* Nothing is due and nothing repeated at first.
LEMMA PaidInit == Init => RepeatsPaid
<1> SUFFICES ASSUME Init PROVE RepeatsPaid
  OBVIOUS
<1>1. Elements(log) = {} /\ Due = {} /\ Len(log) = 0 /\ faults = 0
  BY DEF Init, Elements, Due
<1>2. Promise!Repeats = 0 - Cardinality({})
  BY <1>1, PromiseCardinality DEF Promise!Repeats, Promise!Appended, Elements
<1>3. Cardinality({}) = 0
  BY FS_EmptySet
<1>4. BatchSize * 0 = 0
  BY OutboxAssumption
<1>5. QED BY <1>1, <1>2, <1>3, <1>4 DEF RepeatsPaid

\* The relays of any number of instances implement EventLog: every event in the
\* log is that of a committed row, and events are repeated only after a failed
\* run, at most a batch of them for each.
THEOREM RelaysImplementEventLog == Spec => AtLeastOnceLog
<1>1. Init => Promise!Init
  BY DEF Init, Promise!Init
<1>2. QED BY <1>1, PaidInit, PaidStep, EventLogStep, ClaimsInvariant, PTL
      DEF Spec, AtLeastOnceLog, Promise!Spec

\* As long as no run has failed, no event is in the log twice.
SentOnce == faults = 0 => \A j, k \in DOMAIN log : j # k => log[j] # log[k]

\* A row that is sent while no run has failed is not in the log.
LEMMA FirstSend ==
  ASSUME TypeOK, ClaimsInv, RepeatsPaid, faults = 0, NEW i \in Relays, NEW r \in Rows, IsNext(i, r)
  PROVE  r \notin Elements(log)
<1>1. IsFiniteSet(Due) /\ Cardinality(Due) \in Nat /\ BatchSize * 0 = 0
  BY Counts, OutboxAssumption
<1>2. Promise!Repeats \in Nat
  <2> DEFINE n == Len(log)
  <2>1. n \in Nat /\ 1 \in Int
    BY Counts
  <2>2. Cardinality(Elements(log)) <= n
    <3>1. log \in [1 .. n -> Elements(log)] /\ \A e \in Elements(log) : \E k \in 1 .. n : log[k] = e
      BY DEF Elements, TypeOK
    <3> HIDE DEF n
    <3>2. log \in Surjection(1 .. n, Elements(log))
      BY <3>1 DEF Surjection
    <3>3. IsFiniteSet(1 .. n) /\ Cardinality(1 .. n) = n
      BY <2>1, FS_Interval
    <3>4. QED BY <3>2, <3>3, FS_Surjection
  <2>3. QED BY <2>2, Counts
<1>3. Cardinality(Due) = 0
  BY <1>1, <1>2 DEF RepeatsPaid
<1>4. Due = {}
  BY <1>1, <1>3, FS_EmptySet
<1>5. QED BY <1>4, NextIsDue

\* Every step keeps what is sent once so.
LEMMA SentOnceStep ==
  ASSUME TypeOK, TypeOK', SentInv, ClaimsInv, RepeatsPaid, SentOnce, [Next]_vars
  PROVE  SentOnce'
<1>1. ASSUME UNCHANGED <<log, faults>> PROVE SentOnce'
  BY <1>1 DEF SentOnce
<1>2. ASSUME faults' = faults + 1 PROVE SentOnce'
  BY <1>2 DEF SentOnce, TypeOK
<1>3. ASSUME NEW i \in Relays, NEW r \in Rows, Publish(i, r) PROVE SentOnce'
  <2>1. log' = Append(log, r) /\ faults' = faults /\ IsNext(i, r)
    BY <1>3 DEF Publish
  <2>2. faults = 0 => \A k \in 1 .. Len(log) : log[k] # r
    BY <2>1, FirstSend DEF Elements, TypeOK
  <2>3. /\ Len(log) \in Nat /\ DOMAIN log = 1 .. Len(log) /\ DOMAIN log' = 1 .. Len(log) + 1
        /\ \A k \in 1 .. Len(log) : log'[k] = log[k]
        /\ log'[Len(log) + 1] = r
    BY <2>1, AppendRow DEF TypeOK
  <2>4. QED BY <2>1, <2>2, <2>3 DEF SentOnce
<1>4. QED BY <1>1, <1>2, <1>3
      DEF Next, vars, Insert, Claim, Commit, Rollback, PublishFails, DeletePublished

\* README: "SKIP LOCKED lets every instance run the relay without sending a row
\* twice": however many instances run it, as long as no run has failed.
THEOREM RelaysSendOnce == Spec => []SentOnce
<1>1. Init => SentOnce
  BY DEF Init, SentOnce
<1>2. QED BY <1>1, PaidInit, PaidStep, SentOnceStep, ClaimsInvariant, PTL DEF Spec

=============================================================================
