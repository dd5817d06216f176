-------------------------- MODULE OrderCacheState --------------------------
(***************************************************************************)
(* The state of the order cache and what holds of it in every state; the   *)
(* steps are in module OrderCache.                                         *)
(***************************************************************************)
EXTENDS Naturals

CONSTANTS Readers,
          Free, Orphan,   \* the lock: not set, or set by a request that died
          NoEntry,        \* the key is not in Redis
          Ttl, Jitter,    \* ORDER_CACHE_TTL_SECONDS, ORDER_CACHE_JITTER_SECONDS
          Horizon         \* bound: the last moment looked at

ASSUME CacheAssumption ==
  /\ {Free, Orphan} \cap Readers = {} /\ Free # Orphan
  /\ Ttl \in Nat \ {0} /\ Jitter \in Nat /\ Horizon \in Nat

VARIABLES status,     \* Order.status in Postgres
          writer,     \* the activity: the number of its phases done
          entry,      \* the value under order:<id>
          expiresAt,  \* when Redis drops it
          lock,       \* lock:order:<id>: the request whose token it holds
          pc,         \* the next step of each reader
          late,       \* readers whose waitTimeoutMs has passed
          value,      \* what a reader loaded
          lapsed,     \* readers whose lock expired before they released it (history)
          straddles,  \* readers that loaded before the status changed and store after (history)
          raced,      \* whether such a reader stored the entry (history)
          settledAt,  \* when the status changed (history)
          now

-----------------------------------------------------------------------------
\* README: the owner releases only its own lock, "since a plain DEL after a slow
\* read would delete the next owner's lock and let the stampede back in": two
\* requests read the database at once only if a lock expired under one of them
\* or one of them had waited its 5 s.
OneLoads ==
  \A r, s \in Readers \ lapsed :
    pc[r] \in {"load", "store"} /\ pc[s] \in {"load", "store"} => r = s

\* README: "@CacheEvict deletes the key after the status transaction commits",
\* and "the TTL is still always set, so a lost delete leaves stale data for at
\* most 6 minutes": an old status is cached only until the DEL succeeds, and no
\* longer than its lifetime from the commit.  The exception is an entry stored
\* by a request that had read before the commit, for which README's "the last
\* SET wins with the same value" does not hold.
StaleOnlyByRace ==
  entry # NoEntry /\ entry # status /\ ~raced =>
    writer < 2 /\ now < settledAt + Ttl + Jitter

=============================================================================
