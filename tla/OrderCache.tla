----------------------------- MODULE OrderCache -----------------------------
(***************************************************************************)
(* The cache of one order: @Cacheable findById and @CacheEvict on markPaid *)
(* and markFailed (src/generic/cache), with the lock that keeps a miss     *)
(* from becoming a stampede.                                               *)
(*                                                                         *)
(* Readers are GET requests, on any instances; a step is one Redis command *)
(* or one query.  The writer is the activity that settles the order, which *)
(* is retried until both its transaction and its DEL have succeeded.       *)
(***************************************************************************)
EXTENDS OrderCacheState

readerVars == <<pc, late, value>>
redisVars == <<entry, expiresAt, lock>>
writerVars == <<status, writer, settledAt>>
historyVars == <<lapsed, straddles, raced>>
vars == <<readerVars, redisVars, writerVars, historyVars, now>>

Init ==
  /\ status = "pending_payment" /\ writer = 0 /\ settledAt = 0
  /\ entry = NoEntry /\ expiresAt = 0 /\ lock = Free
  /\ pc = [r \in Readers |-> "idle"]
  /\ late = {}
  /\ value = [r \in Readers |-> "pending_payment"]
  /\ lapsed = {} /\ straddles = {} /\ raced = FALSE
  /\ now = 0

-----------------------------------------------------------------------------
Goto(r, step) == pc' = [pc EXCEPT ![r] = step]

\* The request is over; what it knew is forgotten.
Return(r) ==
  /\ Goto(r, "idle")
  /\ late' = late \ {r}
  /\ lapsed' = lapsed \ {r} /\ straddles' = straddles \ {r}

\* The first read, and the read after each poll interval.  A hit is returned.
Read(r) ==
  /\ pc[r] \in {"idle", "wait"}
  /\ \/ entry # NoEntry /\ Return(r)
     \/ entry = NoEntry /\ Goto(r, "acquire") /\ UNCHANGED <<late, lapsed, straddles>>
  /\ UNCHANGED <<value, redisVars, writerVars, raced, now>>

DeadlinePasses(r) ==
  /\ pc[r] \in {"acquire", "wait"}
  /\ late' = late \cup {r}
  /\ UNCHANGED <<pc, value, redisVars, writerVars, historyVars, now>>

\* Variant: the loop has no deadline.
TimedOutNever(r) == FALSE

\* The condition of the loop, negated.
TimedOut(r) == r \in late

\* acquireLock: SET NX PX.
AcquireLock(r) ==
  /\ pc[r] = "acquire"
  /\ \/ TimedOut(r) /\ Goto(r, "loadAlone") /\ UNCHANGED lock
     \/ ~TimedOut(r) /\ lock = Free /\ lock' = r /\ Goto(r, "load")
     \/ ~TimedOut(r) /\ lock # Free /\ Goto(r, "wait") /\ UNCHANGED lock
  /\ UNCHANGED <<late, value, entry, expiresAt, writerVars, historyVars, now>>

\* load(): findById's query.
Load(r) ==
  /\ pc[r] \in {"load", "loadAlone"}
  /\ value' = [value EXCEPT ![r] = status]
  /\ Goto(r, IF pc[r] = "load" THEN "store" ELSE "storeAlone")
  /\ UNCHANGED <<late, redisVars, writerVars, historyVars, now>>

\* findById throws (a 404, a lost connection) or the SET does; the finally
\* clause still runs.
LoadFails(r) ==
  /\ \/ pc[r] \in {"load", "store"} /\ Goto(r, "release") /\ UNCHANGED <<late, lapsed, straddles>>
     \/ pc[r] \in {"loadAlone", "storeAlone"} /\ Return(r)
  /\ UNCHANGED <<value, redisVars, writerVars, raced, now>>

\* toTtlSeconds.
Lifetimes == {Ttl + j : j \in 0 .. Jitter}

Store(r) ==
  /\ entry' = value[r]
  /\ \E ttl \in Lifetimes : expiresAt' = now + ttl
  /\ raced' = (r \in straddles)
  /\ \/ pc[r] = "store" /\ Goto(r, "release") /\ UNCHANGED <<late, lapsed, straddles>>
     \/ pc[r] = "storeAlone" /\ Return(r)
  /\ UNCHANGED <<value, lock, writerVars, now>>

\* Variant: a plain DEL.
ReleasedAny(r) == Free

\* releaseLock: DELEX IFEQ.
Released(r) == IF lock = r THEN Free ELSE lock

ReleaseLock(r) ==
  /\ pc[r] = "release"
  /\ lock' = Released(r)
  /\ Return(r)
  /\ UNCHANGED <<value, entry, expiresAt, writerVars, raced, now>>

\* The instance dies, or cannot reach Redis to release its lock.
Crash(r) ==
  /\ pc[r] # "idle"
  /\ lock' = IF lock = r THEN Orphan ELSE lock
  /\ Return(r)
  /\ UNCHANGED <<value, entry, expiresAt, writerVars, raced, now>>

\* PX 5000, or an eviction by allkeys-lru.
LockExpires ==
  /\ lock # Free
  /\ lock' = Free
  /\ lapsed' = lapsed \cup ({lock} \cap Readers)
  /\ UNCHANGED <<readerVars, entry, expiresAt, writerVars, straddles, raced, now>>

\* allkeys-lru may drop an entry before its time.
EntryEvicted ==
  /\ entry # NoEntry
  /\ entry' = NoEntry /\ expiresAt' = 0
  /\ UNCHANGED <<readerVars, lock, writerVars, historyVars, now>>

-----------------------------------------------------------------------------
\* Variant: the wrapper deletes the key before it calls the method.
PhasesSwapped == <<"delete", "commit">>

\* The wrapped method, then the DEL.
Phases == <<"commit", "delete">>

InPhase(phase) == writer < 2 /\ Phases[writer + 1] = phase

\* The transaction of markPaid or markFailed; a retry changes no row.
Commit ==
  /\ InPhase("commit")
  /\ status' = "settled"
  /\ settledAt' = IF status = "settled" THEN settledAt ELSE now
  /\ straddles' = IF status = "settled" THEN straddles
                  ELSE {r \in Readers : pc[r] \in {"store", "storeAlone"}}
  /\ writer' = writer + 1
  /\ UNCHANGED <<readerVars, redisVars, lapsed, raced, now>>

DeleteKey ==
  /\ InPhase("delete")
  /\ entry' = NoEntry /\ expiresAt' = 0
  /\ writer' = writer + 1
  /\ UNCHANGED <<readerVars, lock, status, settledAt, historyVars, now>>

\* The activity fails after its commit: it starts over.
Retry ==
  /\ writer = 1
  /\ writer' = 0
  /\ UNCHANGED <<readerVars, redisVars, status, settledAt, historyVars, now>>

\* Redis drops what has expired as time passes.
Tick ==
  /\ now < Horizon
  /\ now' = now + 1
  /\ \/ entry # NoEntry /\ expiresAt <= now + 1 /\ entry' = NoEntry /\ expiresAt' = 0
     \/ ~(entry # NoEntry /\ expiresAt <= now + 1) /\ UNCHANGED <<entry, expiresAt>>
  /\ UNCHANGED <<readerVars, lock, writerVars, historyVars>>

\* What a reader does once it was asked.
Step(r) ==
  \/ pc[r] # "idle" /\ Read(r)
  \/ AcquireLock(r) \/ Load(r) \/ Store(r) \/ ReleaseLock(r)

Next ==
  \/ \E r \in Readers :
       \/ pc[r] = "idle" /\ Read(r)
       \/ Step(r) \/ DeadlinePasses(r) \/ LoadFails(r) \/ Crash(r)
  \/ LockExpires \/ EntryEvicted
  \/ Commit \/ DeleteKey \/ Retry
  \/ Tick

Spec == Init /\ [][Next]_vars

\* The event loop runs what is ready, and the clock reaches the deadline.
Fairness ==
  \A r \in Readers : WF_vars(Step(r)) /\ WF_vars(DeadlinePasses(r))

FairSpec == Spec /\ Fairness

-----------------------------------------------------------------------------
\* README: "after 5 s a waiter reads the database itself instead of hanging".
EveryReadReturns ==
  \A r \in Readers : pc[r] # "idle" ~> pc[r] = "idle"

=============================================================================
