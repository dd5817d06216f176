------------------------------ MODULE Session ------------------------------
(***************************************************************************)
(* Login sessions of the identity context (src/identity): rotation of      *)
(* refresh tokens, detection of a reused one, logout, and the denylist     *)
(* that ends the access tokens of a family (src/generic/auth).             *)
(*                                                                         *)
(* Refresh and logout are requests that run concurrently.  A step is one   *)
(* statement, or several that no other transaction can come between.  What *)
(* a transaction wrote is visible when it commits; now() in SQL is the     *)
(* moment its transaction began, which is what `clock` stamps.  `now` is   *)
(* the wall clock, in units of the access token's lifetime.                *)
(***************************************************************************)
EXTENDS Naturals, FiniteSets

CONSTANTS Families,   \* logins, each the start of a session family
          Requests,   \* refresh and logout requests
          NoFamily, NoRequest,
          MaxTokens,  \* bound: refresh tokens issued
          Ttl,        \* ACCESS_TOKEN_TTL_SECONDS
          Tolerance,  \* ACCESS_TOKEN_CLOCK_TOLERANCE_SECONDS
          Horizon,    \* bound: the last moment looked at
          FailOpen    \* ACCESS_DENYLIST_FAIL_OPEN

ASSUME SessionAssumption ==
  /\ NoFamily \notin Families /\ NoRequest \notin Requests
  /\ MaxTokens \in Nat /\ Ttl \in Nat /\ Tolerance \in Nat /\ Horizon \in Nat
  /\ FailOpen \in BOOLEAN

VARIABLES family,     \* IdentitySession.familyId of each token, NoFamily: no row
          createdAt,  \* stamp of the transaction that inserted the row
          used,       \* tokens with usedAt set
          revoked,    \* tokens with revokedAt set
          expired,    \* tokens past their expiresAt
          access,     \* access tokens issued: <<family, iat>>
          denied,     \* when the family's denylist entry expires, 0: never written
          holder,     \* the request holding the advisory lock of a family
          pc,         \* the next step of each request
          kind,       \* "refresh" or "logout"
          token,      \* the refresh token presented
          began,      \* stamp of the request's current transaction
          snap,       \* rows the revoking UPDATE has found so far
          reply,      \* the HTTP status
          clock, now,
          ended,      \* families a revocation has committed for (history)
          shut        \* families whose denylist entry was acknowledged (history)

sessionVars == <<family, createdAt, used, revoked, expired>>
tokenVars == <<access, denied>>
requestVars == <<pc, kind, token, began, snap, reply>>
historyVars == <<ended, shut>>
vars == <<sessionVars, tokenVars, holder, requestVars, clock, now, historyVars>>

Tokens == 1 .. MaxTokens

Init ==
  /\ family = [t \in Tokens |-> NoFamily]
  /\ createdAt = [t \in Tokens |-> 0]
  /\ used = {} /\ revoked = {} /\ expired = {}
  /\ access = {}
  /\ denied = [f \in Families |-> 0]
  /\ holder = [f \in Families |-> NoRequest]
  /\ pc = [r \in Requests |-> "idle"]
  /\ kind = [r \in Requests |-> "none"]
  /\ token = [r \in Requests |-> 0]
  /\ began = [r \in Requests |-> 0]
  /\ snap = [r \in Requests |-> {}]
  /\ reply = [r \in Requests |-> "none"]
  /\ clock = 0 /\ now = 0
  /\ ended = {} /\ shut = {}

-----------------------------------------------------------------------------
Rows(f) == {t \in Tokens : family[t] = f}
FamilyOf(r) == family[token[r]]

Goto(r, step) == pc' = [pc EXCEPT ![r] = step]

\* The request is answered; its transaction, if any, is over.
Finish(r, code) ==
  /\ Goto(r, "done")
  /\ reply' = [reply EXCEPT ![r] = code]

\* Transaction-scoped advisory locks end with the transaction.
Unlock(r) == holder' = [f \in Families |-> IF holder[f] = r THEN NoRequest ELSE holder[f]]

Begin(r) ==
  /\ clock' = clock + 1
  /\ began' = [began EXCEPT ![r] = clock + 1]

\* Variant: createdAt is the moment of the INSERT.
CreateTokenPairAtInsert(f, stamp) ==
  \E t \in Tokens :
    /\ family[t] = NoFamily /\ \A u \in 1 .. t - 1 : family[u] # NoFamily
    /\ family' = [family EXCEPT ![t] = f]
    /\ createdAt' = [createdAt EXCEPT ![t] = clock + 1]
    /\ access' = access \cup {<<f, now>>}

\* createTokenPair: the session row, and the access token signed with it.
CreateTokenPair(f, stamp) ==
  \E t \in Tokens :
    /\ family[t] = NoFamily /\ \A u \in 1 .. t - 1 : family[u] # NoFamily
    /\ family' = [family EXCEPT ![t] = f]
    /\ createdAt' = [createdAt EXCEPT ![t] = stamp]
    /\ access' = access \cup {<<f, now>>}

\* A login (or registration) starts a family.
Login(f) ==
  /\ Rows(f) = {}
  /\ CreateTokenPair(f, clock + 1)
  /\ clock' = clock + 1
  /\ UNCHANGED <<used, revoked, expired, denied, holder, requestVars, now, historyVars>>

(***************************************************************************)
(* POST /auth/refresh.  A token without a row is answered 401 and nothing  *)
(* else, so requests present tokens that have one.                         *)
(***************************************************************************)
Refresh(r, t) ==
  /\ pc[r] = "idle" /\ family[t] # NoFamily
  /\ kind' = [kind EXCEPT ![r] = "refresh"]
  /\ token' = [token EXCEPT ![r] = t]
  /\ Begin(r)
  /\ Goto(r, "lockRotate")
  /\ UNCHANGED <<sessionVars, tokenVars, holder, snap, reply, now, historyVars>>

\* Variant: the transactions of a family are not serialized.
CanLockAlways(r) == TRUE

CanLock(r) == holder[FamilyOf(r)] = NoRequest

\* lockFamily, in rotate and in revokeFamily.
LockFamily(r) ==
  /\ pc[r] \in {"lockRotate", "lockRevoke"}
  /\ CanLock(r)
  /\ holder' = [holder EXCEPT ![FamilyOf(r)] = r]
  /\ Goto(r, IF pc[r] = "lockRotate" THEN "consume" ELSE "find")
  /\ UNCHANGED <<sessionVars, tokenVars, kind, token, began, snap, reply, clock, now, historyVars>>

\* Variant: consume does not look at usedAt.
UsableAgain(t) == t \notin revoked \cup expired

\* The WHERE clause of consume.
Usable(t) == t \notin used \cup revoked \cup expired

\* Requests that have updated a row in a transaction not yet committed.
Consuming(t) == {r \in Requests : pc[r] = "issue" /\ token[r] = t}

\* consume: the UPDATE waits for a transaction that has updated the row.
Consume(r) ==
  /\ pc[r] = "consume"
  /\ Consuming(token[r]) = {}
  /\ \/ Usable(token[r]) /\ Goto(r, "issue") /\ UNCHANGED holder
     \/ ~Usable(token[r]) /\ Goto(r, "inspect") /\ Unlock(r)
  /\ UNCHANGED <<sessionVars, tokenVars, kind, token, began, snap, reply, clock, now, historyVars>>

\* The rest of rotate, and its commit.  With the identity gone no pair is
\* created, but the token stays used.
Issue(r) ==
  /\ pc[r] = "issue"
  /\ used' = used \cup {token[r]}
  /\ \/ CreateTokenPair(FamilyOf(r), began[r]) /\ Finish(r, "200")
     \/ Goto(r, "inspect") /\ UNCHANGED <<family, createdAt, access, reply>>
  /\ Unlock(r)
  /\ UNCHANGED <<revoked, expired, denied, kind, token, began, snap, clock, now, historyVars>>

\* Not rotated: a token used before is a theft signal.
Inspect(r) ==
  /\ pc[r] = "inspect"
  /\ \/ token[r] \in used /\ Goto(r, "begin") /\ UNCHANGED reply
     \/ token[r] \notin used /\ Finish(r, "401")
  /\ UNCHANGED <<sessionVars, tokenVars, holder, kind, token, began, snap, clock, now, historyVars>>

(***************************************************************************)
(* POST /auth/logout, and the revocation both handlers end with.           *)
(***************************************************************************)
Logout(r, t) ==
  /\ pc[r] = "idle" /\ family[t] # NoFamily
  /\ kind' = [kind EXCEPT ![r] = "logout"]
  /\ token' = [token EXCEPT ![r] = t]
  /\ Goto(r, "begin")
  /\ UNCHANGED <<sessionVars, tokenVars, holder, began, snap, reply, clock, now, historyVars>>

BeginRevoke(r) ==
  /\ pc[r] = "begin"
  /\ Begin(r)
  /\ Goto(r, "lockRevoke")
  /\ UNCHANGED <<sessionVars, tokenVars, holder, kind, token, snap, reply, now, historyVars>>

\* The UPDATE of revokeFamily finds the family's committed rows ...
FindRows(r) ==
  /\ pc[r] = "find"
  /\ snap' = [snap EXCEPT ![r] = Rows(FamilyOf(r)) \ revoked]
  /\ Goto(r, "revoke")
  /\ UNCHANGED <<sessionVars, tokenVars, holder, kind, token, began, reply, clock, now, historyVars>>

\* ... and sets revokedAt = now(), once no other transaction holds one of them.
\* IdentitySession_revokedAt_order rejects a row created after this
\* transaction began; then nothing is revoked and the request fails.
RevokeFamily(r) ==
  /\ pc[r] = "revoke"
  /\ \A t \in snap[r] : Consuming(t) = {}
  /\ \/ /\ \A t \in snap[r] \ revoked : createdAt[t] <= began[r]
        /\ revoked' = revoked \cup snap[r]
        /\ ended' = ended \cup {FamilyOf(r)}
        /\ Goto(r, "deny")
        /\ UNCHANGED reply
     \/ /\ \E t \in snap[r] \ revoked : createdAt[t] > began[r]
        /\ Finish(r, "500")
        /\ UNCHANGED <<revoked, ended>>
  /\ snap' = [snap EXCEPT ![r] = {}]
  /\ Unlock(r)
  /\ UNCHANGED <<family, createdAt, used, expired, tokenVars, kind, token, began, clock, now, shut>>

\* Variant: the entry lives as long as a token, without the tolerance.
DeniedTtlShort == Ttl

DeniedTtl == Ttl + Tolerance

Answered(r) == IF kind[r] = "logout" THEN "204" ELSE "401"

\* denyFamily.  Without an answer in time the entry may still be written.
Deny(r) ==
  /\ pc[r] = "deny"
  /\ LET entry == [denied EXCEPT ![FamilyOf(r)] = now + DeniedTtl]
     IN  \/ /\ denied' = entry
            /\ shut' = shut \cup {FamilyOf(r)}
            /\ Finish(r, Answered(r))
         \/ /\ denied' \in {denied, entry}
            /\ Finish(r, IF FailOpen THEN Answered(r) ELSE "503")
            /\ UNCHANGED shut
  /\ UNCHANGED <<sessionVars, access, holder, kind, token, began, snap, clock, now, ended>>

\* A statement fails, or the instance dies: the transaction rolls back.
Crash(r) ==
  /\ pc[r] \notin {"idle", "done"}
  /\ Finish(r, "lost")
  /\ Unlock(r)
  /\ snap' = [snap EXCEPT ![r] = {}]
  /\ UNCHANGED <<sessionVars, tokenVars, kind, token, began, clock, now, historyVars>>

Tick ==
  /\ now < Horizon
  /\ now' = now + 1
  /\ UNCHANGED <<sessionVars, tokenVars, holder, requestVars, clock, historyVars>>

\* REFRESH_TOKEN_TTL_MS has passed.
Expire(t) ==
  /\ family[t] # NoFamily
  /\ expired' = expired \cup {t}
  /\ UNCHANGED <<family, createdAt, used, revoked, tokenVars, holder, requestVars, clock, now, historyVars>>

\* verifySignature, as far as the clock goes: jwtVerify with its tolerance.
VerifySignature(iat) == now < iat + Ttl + Tolerance

\* isFamilyDenied, of a denylist that answers.
IsFamilyDenied(f) == now < denied[f]

\* The steps a request takes by itself.
Step(r) ==
  \/ LockFamily(r) \/ Consume(r) \/ Issue(r) \/ Inspect(r)
  \/ BeginRevoke(r) \/ FindRows(r) \/ RevokeFamily(r) \/ Deny(r)

Next ==
  \/ \E f \in Families : Login(f)
  \/ \E r \in Requests :
       \/ \E t \in Tokens : Refresh(r, t) \/ Logout(r, t)
       \/ Step(r) \/ Crash(r)
  \/ \E t \in Tokens : Expire(t)
  \/ Tick

Spec == Init /\ [][Next]_vars

-----------------------------------------------------------------------------
\* README: "so two parallel refreshes can't both win": a family never has two
\* tokens that a refresh would accept.
OneLiveToken ==
  \A f \in Families : Cardinality(Rows(f) \ (used \cup revoked \cup expired)) <= 1

\* README: "the honest client's newer token dies with it": once a revocation
\* has committed no token of the family can be refreshed, the one a racing
\* refresh was about to issue included.
RevokedFamilyIsDead ==
  \A f \in ended : Rows(f) \subseteq revoked

\* README: "every access token of that login stops working at once", and none
\* comes back when the denylist entry expires: verifySignature and
\* isFamilyDenied accept no token of a family whose entry was acknowledged.
DeniedStaysDenied ==
  \A f \in shut : \A iat \in 0 .. now :
    <<f, iat>> \in access => ~VerifySignature(iat) \/ IsFamilyDenied(f)

\* README: "the whole family is revoked in Postgres".  A revocation fails, and
\* leaves the family alive, only if a refresh that began after it got the
\* family's lock before it: the new row is younger than revokedAt would be.
RevocationFailsOnlyBehindRefresh ==
  \A r \in Requests : reply[r] = "500" =>
    \E q \in Requests :
      /\ kind[q] = "refresh" /\ reply[q] = "200"
      /\ FamilyOf(q) = FamilyOf(r) /\ began[q] > began[r]

=============================================================================
