--------------------------- MODULE SessionProofs ---------------------------
(***************************************************************************)
(* Refresh, logout and the denylist, proved for any number of logins,      *)
(* requests and tokens and any lifetimes, and then the rotation of the     *)
(* keys that sign the access tokens.                                       *)
(***************************************************************************)
EXTENDS Session, KeyRotationState, FiniteSetTheorems, TLAPS

Steps == {"idle", "lockRotate", "consume", "issue", "inspect", "begin", "lockRevoke", "find",
          "revoke", "deny", "done"}
Replies == {"none", "200", "204", "401", "500", "503", "lost"}

SessionTypes ==
  /\ family \in [Tokens -> Families \cup {NoFamily}]
  /\ createdAt \in [Tokens -> Nat]
  /\ used \subseteq Tokens /\ revoked \subseteq Tokens /\ expired \subseteq Tokens
  /\ access \subseteq Families \X (0 .. now)
  /\ denied \in [Families -> Nat]
  /\ clock \in Nat /\ now \in Nat
  /\ shut \subseteq ended /\ ended \subseteq Families

RequestTypes ==
  /\ holder \in [Families -> Requests \cup {NoRequest}]
  /\ pc \in [Requests -> Steps]
  /\ kind \in [Requests -> {"none", "refresh", "logout"}]
  /\ token \in [Requests -> 0 .. MaxTokens]
  /\ began \in [Requests -> Nat]
  /\ snap \in [Requests -> SUBSET Tokens]
  /\ reply \in [Requests -> Replies]

\* The steps of a transaction that has the family's lock.
Locked(r) == pc[r] \in {"consume", "issue", "find", "revoke"}

\* What a request relies on at the step it has come to.
RequestOK(r) ==
  /\ pc[r] # "idle" => token[r] \in Tokens /\ FamilyOf(r) \in Families
  /\ pc[r] \in {"lockRotate", "consume", "issue"} => kind[r] = "refresh"
  /\ reply[r] \in {"200", "500"} => pc[r] = "done"
  /\ Locked(r) => holder[FamilyOf(r)] = r
  /\ pc[r] = "issue" =>
       /\ token[r] \notin revoked
       /\ \A t \in Tokens : family[t] = FamilyOf(r) /\ Usable(t) => t = token[r]
  /\ pc[r] = "revoke" =>
       /\ \A t \in snap[r] : family[t] = FamilyOf(r)
       /\ \A t \in Tokens : family[t] = FamilyOf(r) => t \in revoked \cup snap[r]
  /\ pc[r] = "deny" => FamilyOf(r) \in ended

RequestInv == \A r \in Requests : RequestOK(r)

LiveInv ==
  \A t, u \in Tokens :
    family[t] \in Families /\ family[u] = family[t] /\ Usable(t) /\ Usable(u) => t = u

\* A family whose revocation has committed has rows, all of them revoked.
EndedInv ==
  /\ \A f \in ended : \E t \in Tokens : family[t] = f
  /\ \A t \in Tokens : family[t] \in ended => t \in revoked

\* A denylist entry outlives the access tokens of its family.
DenyInv ==
  \A f \in shut : \A iat \in 0 .. now : <<f, iat>> \in access => iat + DeniedTtl <= denied[f]

Revoking(r) == pc[r] \in {"lockRevoke", "find", "revoke"}

\* The refresh that created row t.
IssuedBy(q, t) ==
  /\ kind[q] = "refresh" /\ reply[q] = "200" /\ token[q] \in Tokens
  /\ FamilyOf(q) = family[t] /\ began[q] = createdAt[t]

\* A transaction is stamped when it begins.
BeganInv == \A r \in Requests : began[r] <= clock

\* A row is older than a revocation under way unless a refresh created it.
StampInv ==
  \A t \in Tokens : family[t] # NoFamily =>
    /\ createdAt[t] <= clock
    /\ \/ \E q \in Requests : IssuedBy(q, t)
       \/ \A r \in Requests : Revoking(r) /\ FamilyOf(r) = family[t] => createdAt[t] <= began[r]

\* A request that was refused a revocation, and the refresh it came behind.
BehindRefresh(r) ==
  \E q \in Requests :
    /\ kind[q] = "refresh" /\ reply[q] = "200" /\ token[q] \in Tokens
    /\ FamilyOf(q) = FamilyOf(r) /\ began[q] > began[r]

FailInv == \A r \in Requests : reply[r] = "500" => BehindRefresh(r)

IInv ==
  /\ SessionTypes /\ RequestTypes /\ RequestInv
  /\ LiveInv /\ EndedInv /\ DenyInv /\ BeganInv /\ StampInv /\ FailInv

-----------------------------------------------------------------------------
\* What only concerns one request.
SameRequest(q) ==
  /\ pc'[q] = pc[q] /\ kind'[q] = kind[q] /\ token'[q] = token[q]
  /\ began'[q] = began[q] /\ snap'[q] = snap[q] /\ reply'[q] = reply[q]

\* A request r moves on without a commit: the other requests, the rows and the
\* tokens stay as they are, and r takes no lock that another holds.
LEMMA QuietStep ==
  ASSUME IInv, NEW r \in Requests,
         UNCHANGED <<sessionVars, tokenVars, now, historyVars>>,
         RequestTypes', clock' \in Nat, clock' >= clock,
         \A q \in Requests \ {r} : SameRequest(q),
         \A f \in Families : holder'[f] = holder[f] \/ holder[f] \in {NoRequest, r},
         pc[r] # "done", RequestOK(r)', reply'[r] # "200", began'[r] <= clock',
         Revoking(r)' => \/ began'[r] > clock
                         \/ Revoking(r) /\ began'[r] = began[r] /\ token'[r] = token[r],
         reply'[r] = "500" => BehindRefresh(r) /\ began'[r] = began[r] /\ token'[r] = token[r]
  PROVE  IInv'
<1> USE DEF sessionVars, tokenVars, historyVars
<1>1. SessionTypes' /\ LiveInv' /\ EndedInv' /\ DenyInv'
  BY DEF IInv, SessionTypes, LiveInv, EndedInv, DenyInv, Usable
<1>2. RequestInv'
  <2> SUFFICES ASSUME NEW q \in Requests, q # r PROVE RequestOK(q)'
    BY DEF RequestInv
  <2>1. RequestOK(q) /\ SameRequest(q)
    BY DEF IInv, RequestInv
  <2>2. Locked(q) => holder'[FamilyOf(q)] = q
    BY <2>1, SessionAssumption DEF RequestOK, Locked
  <2> QED
    BY <2>1, <2>2 DEF RequestOK, SameRequest, Locked, FamilyOf, Usable
<1>3. ASSUME NEW q \in Requests, reply[q] = "200"
      PROVE  /\ SameRequest(q) /\ q # r
             /\ FamilyOf(q)' = FamilyOf(q)
  BY <1>3 DEF IInv, RequestInv, RequestOK, SameRequest, FamilyOf
<1>4. StampInv'
  <2> SUFFICES ASSUME NEW t \in Tokens, family[t] # NoFamily
               PROVE  /\ createdAt[t] <= clock'
                      /\ \/ \E q \in Requests : IssuedBy(q, t)'
                         \/ \A q \in Requests : (Revoking(q) /\ FamilyOf(q) = family[t])' =>
                              createdAt[t] <= began'[q]
    BY DEF StampInv
  <2>1. createdAt[t] \in Nat /\ createdAt[t] <= clock /\ clock \in Nat
    BY DEF IInv, SessionTypes, StampInv
  <2>2. CASE \E q \in Requests : IssuedBy(q, t)
    BY <1>3, <2>1, <2>2 DEF IssuedBy, SameRequest
  <2>3. CASE \A q \in Requests : Revoking(q) /\ FamilyOf(q) = family[t] => createdAt[t] <= began[q]
    <3>1. ASSUME NEW q \in Requests, (Revoking(q) /\ FamilyOf(q) = family[t])'
          PROVE  createdAt[t] <= began'[q]
      <4>1. CASE q # r
        BY <2>3, <3>1, <4>1 DEF SameRequest, Revoking, FamilyOf
      <4>2. CASE q = r
        BY <2>1, <2>3, <3>1, <4>2 DEF FamilyOf, RequestTypes
      <4> QED
        BY <4>1, <4>2
    <3> QED
      BY <2>1, <3>1
  <2> QED
    BY <2>1, <2>2, <2>3 DEF IInv, StampInv
<1>5. BeganInv'
  BY DEF IInv, BeganInv, SameRequest, RequestTypes, SessionTypes
<1>6. FailInv'
  <2> SUFFICES ASSUME NEW q \in Requests, reply'[q] = "500" PROVE BehindRefresh(q)'
    BY DEF FailInv
  <2>1. BehindRefresh(q) /\ began'[q] = began[q] /\ token'[q] = token[q]
    BY DEF IInv, FailInv, SameRequest
  <2> QED
    BY <1>3, <2>1 DEF BehindRefresh, SameRequest, FamilyOf
<1> QED
  BY <1>1, <1>2, <1>4, <1>5, <1>6 DEF IInv

-----------------------------------------------------------------------------
\* A refresh begins its transaction, or a logout is received.
LEMMA ArriveStep ==
  ASSUME IInv, NEW r \in Requests, NEW t \in Tokens, Refresh(r, t) \/ Logout(r, t)
  PROVE  IInv'
<1> USE DEF Refresh, Logout, Begin, Goto
<1>a. t \in 0 .. MaxTokens /\ clock \in Nat
  BY SessionAssumption DEF Tokens, IInv, SessionTypes
<1>b. clock' \in Nat /\ clock' >= clock /\ began'[r] <= clock'
  BY <1>a DEF IInv, RequestTypes, BeganInv
<1>1. RequestTypes'
  BY <1>a DEF IInv, RequestTypes, Steps
<1>2. \A q \in Requests \ {r} : SameRequest(q)
  BY DEF IInv, RequestTypes, SameRequest
<1>3. /\ pc[r] = "idle" /\ pc'[r] \in {"lockRotate", "begin"} /\ token'[r] = t
      /\ pc'[r] = "lockRotate" => kind'[r] = "refresh"
      /\ reply'[r] = reply[r] /\ UNCHANGED <<sessionVars, tokenVars, now, historyVars, holder>>
      /\ family[t] \in Families
  BY DEF IInv, RequestTypes, SessionTypes
<1>4. RequestOK(r)' /\ ~Revoking(r)' /\ reply'[r] \notin {"200", "500"}
  BY <1>3 DEF IInv, RequestInv, RequestOK, Locked, Revoking, FamilyOf, sessionVars
<1> QED
  BY <1>1, <1>2, <1>3, <1>4, <1>b, QuietStep

\* One request of a family gets its lock.
LEMMA LockFamilyStep ==
  ASSUME IInv, NEW r \in Requests, LockFamily(r)
  PROVE  IInv'
<1> USE DEF LockFamily, CanLock, Goto
<1>1. RequestOK(r) /\ FamilyOf(r) \in Families /\ token[r] \in Tokens
  BY DEF IInv, RequestInv, RequestOK
<1>a. clock' \in Nat /\ clock' >= clock /\ began'[r] <= clock'
  BY DEF IInv, SessionTypes, RequestTypes, BeganInv
<1>2. RequestTypes'
  BY <1>1 DEF IInv, SessionTypes, RequestTypes, Steps
<1>3. \A q \in Requests \ {r} : SameRequest(q)
  BY DEF IInv, RequestTypes, SameRequest
<1>4. /\ \/ pc[r] = "lockRotate" /\ pc'[r] = "consume"
         \/ pc[r] = "lockRevoke" /\ pc'[r] = "find"
      /\ UNCHANGED <<token, kind, reply, began, sessionVars, tokenVars, now, historyVars>>
      /\ holder'[FamilyOf(r)] = r
      /\ \A f \in Families : holder'[f] = holder[f] \/ holder[f] = NoRequest
  BY <1>1 DEF IInv, RequestTypes
<1>5. RequestOK(r)' /\ reply'[r] \notin {"200", "500"}
  BY <1>1, <1>4 DEF RequestOK, Locked, FamilyOf, sessionVars
<1> QED
  BY <1>2, <1>3, <1>4, <1>5, <1>a, QuietStep DEF Revoking

\* What the end of a transaction does to the locks.
LEMMA UnlockFrees ==
  ASSUME IInv, NEW r \in Requests, Unlock(r)
  PROVE  /\ holder' \in [Families -> Requests \cup {NoRequest}]
         /\ \A f \in Families : holder'[f] = holder[f] \/ holder[f] = r
  BY DEF IInv, RequestTypes, Unlock

\* consume: a token that can be used is the family's only one.
LEMMA ConsumeStep ==
  ASSUME IInv, NEW r \in Requests, Consume(r)
  PROVE  IInv'
<1>1. RequestOK(r) /\ pc[r] = "consume" /\ FamilyOf(r) \in Families /\ token[r] \in Tokens
  BY DEF IInv, RequestInv, RequestOK, Consume
<1>2. UNCHANGED <<sessionVars, tokenVars, kind, token, began, snap, reply, clock, now, historyVars>>
  BY DEF Consume
<1>a. clock' \in Nat /\ clock' >= clock /\ began'[r] <= clock'
  BY <1>2 DEF IInv, SessionTypes, RequestTypes, BeganInv
<1>3. RequestTypes'
  BY <1>2, UnlockFrees DEF IInv, SessionTypes, RequestTypes, Steps, Consume, Goto
<1>4. \A q \in Requests \ {r} : SameRequest(q)
  BY <1>2 DEF IInv, RequestTypes, SameRequest, Consume, Goto
<1>5. CASE Usable(token[r]) /\ Goto(r, "issue") /\ UNCHANGED holder
  <2>1. pc'[r] = "issue"
    BY <1>5 DEF Goto, IInv, RequestTypes
  <2>2. \A t \in Tokens : family[t] = FamilyOf(r) /\ Usable(t) => t = token[r]
    BY <1>1, <1>5 DEF IInv, LiveInv, FamilyOf
  <2>3. RequestOK(r)' /\ reply'[r] \notin {"200", "500"}
    BY <1>1, <1>2, <1>5, <2>1, <2>2 DEF RequestOK, Locked, FamilyOf, Usable, sessionVars
  <2> QED
    BY <1>1, <1>2, <1>3, <1>4, <1>5, <2>1, <2>3, <1>a, QuietStep DEF Revoking
<1>6. CASE Goto(r, "inspect") /\ Unlock(r)
  <2>1. pc'[r] = "inspect"
    BY <1>6 DEF Goto, IInv, RequestTypes
  <2>2. RequestOK(r)' /\ reply'[r] \notin {"200", "500"}
    BY <1>1, <1>2, <2>1 DEF RequestOK, Locked, FamilyOf, sessionVars
  <2> QED
    BY <1>1, <1>2, <1>3, <1>4, <1>6, <2>1, <2>2, UnlockFrees, <1>a, QuietStep DEF Revoking
<1> QED
  BY <1>5, <1>6 DEF Consume

\* The steps between two transactions of a request.
LEMMA BetweenStep ==
  ASSUME IInv, NEW r \in Requests, Inspect(r) \/ BeginRevoke(r)
  PROVE  IInv'
<1> USE DEF Inspect, BeginRevoke, Begin, Goto, Finish
<1>1. RequestOK(r) /\ FamilyOf(r) \in Families /\ token[r] \in Tokens
  BY DEF IInv, RequestInv, RequestOK
<1>a. clock' \in Nat /\ clock' >= clock /\ began'[r] <= clock'
  BY DEF IInv, SessionTypes, RequestTypes, BeganInv
<1>2. RequestTypes'
  BY DEF IInv, SessionTypes, RequestTypes, Steps, Replies
<1>3. \A q \in Requests \ {r} : SameRequest(q)
  BY DEF IInv, RequestTypes, SameRequest
<1>4. /\ pc[r] \in {"inspect", "begin"} /\ pc'[r] \in {"begin", "done", "lockRevoke"}
      /\ pc'[r] = "lockRevoke" => began'[r] > clock
      /\ reply'[r] \in {reply[r], "401"}
      /\ UNCHANGED <<token, kind, sessionVars, tokenVars, now, historyVars, holder>>
  BY DEF IInv, RequestTypes, SessionTypes
<1>5. RequestOK(r)' /\ reply'[r] \notin {"200", "500"}
  BY <1>1, <1>4 DEF RequestOK, Locked, FamilyOf, sessionVars
<1> QED
  BY <1>2, <1>3, <1>4, <1>5, <1>a, QuietStep DEF Revoking

\* The UPDATE finds every row that is not revoked yet.
LEMMA FindRowsStep ==
  ASSUME IInv, NEW r \in Requests, FindRows(r)
  PROVE  IInv'
<1> USE DEF FindRows, Goto
<1>1. RequestOK(r) /\ FamilyOf(r) \in Families /\ token[r] \in Tokens
  BY DEF IInv, RequestInv, RequestOK
<1>a. clock' \in Nat /\ clock' >= clock /\ began'[r] <= clock'
  BY DEF IInv, SessionTypes, RequestTypes, BeganInv
<1>2. RequestTypes'
  BY DEF IInv, SessionTypes, RequestTypes, Steps, Rows
<1>3. \A q \in Requests \ {r} : SameRequest(q)
  BY DEF IInv, RequestTypes, SameRequest
<1>4. /\ pc[r] = "find" /\ pc'[r] = "revoke"
      /\ snap'[r] = Rows(FamilyOf(r)) \ revoked
      /\ UNCHANGED <<token, kind, began, reply, sessionVars, tokenVars, now, historyVars, holder>>
  BY DEF IInv, RequestTypes
<1>5. RequestOK(r)' /\ reply'[r] \notin {"200", "500"}
  BY <1>1, <1>4 DEF RequestOK, Locked, FamilyOf, Rows, sessionVars
<1> QED
  BY <1>2, <1>3, <1>4, <1>5, <1>a, QuietStep DEF Revoking

\* A request that dies lets go of the lock.
LEMMA CrashStep ==
  ASSUME IInv, NEW r \in Requests, Crash(r)
  PROVE  IInv'
<1> USE DEF Crash, Goto, Finish
<1>1. RequestOK(r) /\ FamilyOf(r) \in Families /\ token[r] \in Tokens
  BY DEF IInv, RequestInv, RequestOK
<1>a. clock' \in Nat /\ clock' >= clock /\ began'[r] <= clock'
  BY DEF IInv, SessionTypes, RequestTypes, BeganInv
<1>2. RequestTypes'
  BY UnlockFrees DEF IInv, SessionTypes, RequestTypes, Steps, Replies
<1>3. \A q \in Requests \ {r} : SameRequest(q)
  BY DEF IInv, RequestTypes, SameRequest
<1>4. /\ pc[r] # "done" /\ pc'[r] = "done" /\ reply'[r] = "lost"
      /\ UNCHANGED <<token, kind, began, sessionVars, tokenVars, now, historyVars>>
  BY DEF IInv, RequestTypes
<1>5. RequestOK(r)'
  BY <1>1, <1>4 DEF RequestOK, Locked, FamilyOf, sessionVars
<1> QED
  BY <1>2, <1>3, <1>4, <1>5, UnlockFrees, <1>a, QuietStep DEF Revoking

-----------------------------------------------------------------------------
\* A row is added; the family of a request that has begun is not its family
\* by accident.
LEMMA NewRow ==
  ASSUME IInv, NEW f \in Families, NEW t \in Tokens, family[t] = NoFamily,
         family' = [family EXCEPT ![t] = f]
  PROVE  /\ family' \in [Tokens -> Families \cup {NoFamily}]
         /\ family'[t] = f
         /\ \A u \in Tokens \ {t} : family'[u] = family[u]
         /\ \A q \in Requests : pc[q] # "idle" => token[q] # t /\ family'[token[q]] = FamilyOf(q)
  BY SessionAssumption DEF IInv, SessionTypes, RequestInv, RequestOK, FamilyOf

\* A login starts a family with one token.
LEMMA LoginStep ==
  ASSUME IInv, NEW f \in Families, Login(f)
  PROVE  IInv'
<1>1. PICK t \in Tokens :
        /\ family[t] = NoFamily /\ family' = [family EXCEPT ![t] = f]
        /\ createdAt' = [createdAt EXCEPT ![t] = clock + 1]
        /\ access' = access \cup {<<f, now>>}
  BY DEF Login, CreateTokenPair
<1>2. /\ UNCHANGED <<used, revoked, expired, denied, holder, pc, kind, token, began, snap, reply, now,
                     ended, shut>>
      /\ clock' = clock + 1 /\ clock \in Nat
      /\ \A u \in Tokens : family[u] # f
  BY DEF Login, Rows, requestVars, historyVars, IInv, SessionTypes
<1>3. f \notin ended /\ f \notin shut
  BY <1>2 DEF IInv, EndedInv, SessionTypes
<1>4. /\ family' \in [Tokens -> Families \cup {NoFamily}] /\ family'[t] = f
      /\ \A u \in Tokens \ {t} : family'[u] = family[u]
      /\ \A q \in Requests : pc[q] # "idle" => token[q] # t /\ family'[token[q]] = FamilyOf(q)
  BY <1>1, NewRow
<1>5. \A q \in Requests : pc[q] # "idle" => FamilyOf(q) # f /\ FamilyOf(q)' = FamilyOf(q)
  BY <1>2, <1>4 DEF IInv, RequestInv, RequestOK, FamilyOf
<1>6. /\ createdAt' \in [Tokens -> Nat] /\ createdAt'[t] = clock + 1
      /\ \A u \in Tokens \ {t} : createdAt'[u] = createdAt[u]
  BY <1>1, <1>2 DEF IInv, SessionTypes
<1>7. SessionTypes' /\ RequestTypes'
  BY <1>1, <1>2, <1>4, <1>6 DEF IInv, SessionTypes, RequestTypes
<1>8. RequestInv'
  <2> SUFFICES ASSUME NEW q \in Requests PROVE RequestOK(q)'
    BY DEF RequestInv
  <2>1. CASE pc[q] = "idle"
    BY <1>2, <2>1 DEF IInv, RequestInv, RequestOK, Locked
  <2>2. CASE pc[q] # "idle"
    <3>1. \A u \in Tokens : family[u] = FamilyOf(q) <=> family'[u] = FamilyOf(q)
      BY <1>1, <1>4, <1>5, <2>2, SessionAssumption DEF IInv, RequestInv, RequestOK
    <3>2. snap[q] \subseteq Tokens
      BY DEF IInv, RequestTypes
    <3> QED
      BY <1>2, <1>4, <1>5, <2>2, <3>1, <3>2 DEF IInv, RequestInv, RequestOK, Locked, Usable
  <2> QED
    BY <2>1, <2>2
<1>9. LiveInv' /\ EndedInv'
  <2>1. LiveInv'
    BY <1>2, <1>4 DEF IInv, LiveInv, Usable
  <2>2. EndedInv'
    <3>1. \A g \in ended : \E u \in Tokens \ {t} : family[u] = g
      BY <1>1, SessionAssumption DEF IInv, EndedInv, SessionTypes
    <3> QED
      BY <1>2, <1>3, <1>4, <3>1 DEF IInv, EndedInv
  <2> QED
    BY <2>1, <2>2
<1>10. DenyInv'
  BY <1>1, <1>2, <1>3 DEF IInv, DenyInv, DeniedTtl
<1>11. BeganInv'
  BY <1>2 DEF IInv, BeganInv, RequestTypes
<1>12. StampInv'
  <2> SUFFICES ASSUME NEW u \in Tokens, family'[u] # NoFamily
               PROVE  /\ createdAt'[u] <= clock'
                      /\ \/ \E q \in Requests : IssuedBy(q, u)'
                         \/ \A q \in Requests : (Revoking(q) /\ FamilyOf(q) = family[u])' =>
                              createdAt'[u] <= began'[q]
    BY DEF StampInv
  <2>1. CASE u = t
    BY <1>2, <1>4, <1>5, <1>6, <2>1 DEF Revoking
  <2>2. CASE u # t
    <3>1. family'[u] = family[u] /\ createdAt'[u] = createdAt[u] /\ createdAt[u] \in Nat
      BY <1>4, <1>6, <2>2 DEF IInv, SessionTypes
    <3>2. ASSUME NEW q \in Requests, IssuedBy(q, u) PROVE IssuedBy(q, u)'
      BY <1>2, <1>5, <3>1, <3>2 DEF IssuedBy, IInv, RequestInv, RequestOK
    <3> QED
      BY <1>2, <1>5, <3>1, <3>2 DEF IInv, StampInv, Revoking
  <2> QED
    BY <2>1, <2>2
<1>13. FailInv'
  <2> SUFFICES ASSUME NEW q \in Requests, reply[q] = "500" PROVE BehindRefresh(q)'
    BY <1>2 DEF FailInv
  <2>1. BehindRefresh(q) /\ pc[q] = "done"
    BY DEF IInv, FailInv, RequestInv, RequestOK
  <2> QED
    BY <1>2, <1>5, <2>1 DEF BehindRefresh, IInv, RequestInv, RequestOK
<1> QED
  BY <1>7, <1>8, <1>9, <1>10, <1>11, <1>12, <1>13 DEF IInv

\* Only the request that holds the lock of a family is at a locked step.
LEMMA OneHolder ==
  ASSUME IInv, NEW r \in Requests, NEW q \in Requests, q # r, Locked(r), Locked(q)
  PROVE  FamilyOf(q) # FamilyOf(r)
  BY DEF IInv, RequestInv, RequestOK

\* The rest of rotate: the old token is used up, a new one may take its place.
LEMMA IssueStep ==
  ASSUME IInv, NEW r \in Requests, Issue(r)
  PROVE  IInv'
<1> DEFINE f == FamilyOf(r)
<1>1. /\ pc[r] = "issue" /\ Locked(r) /\ RequestOK(r) /\ token[r] \in Tokens /\ f \in Families
      /\ kind[r] = "refresh" /\ token[r] \notin revoked
      /\ \A t \in Tokens : family[t] = f /\ Usable(t) => t = token[r]
  BY DEF IInv, RequestInv, RequestOK, Issue, Locked
<1>2. /\ UNCHANGED <<revoked, expired, denied, kind, token, began, snap, clock, now, ended, shut>>
      /\ used' = used \cup {token[r]}
      /\ clock \in Nat
  BY DEF Issue, historyVars, IInv, SessionTypes
<1>3. /\ holder' \in [Families -> Requests \cup {NoRequest}]
      /\ \A g \in Families : holder'[g] = holder[g] \/ holder[g] = r
  BY UnlockFrees DEF Issue
<1>4. f \notin ended /\ f \notin shut
  BY <1>1 DEF IInv, EndedInv, SessionTypes, FamilyOf
<1>5. /\ \A q \in Requests \ {r} : pc'[q] = pc[q] /\ reply'[q] = reply[q]
      /\ pc'[r] \in {"done", "inspect"} /\ pc' \in [Requests -> Steps]
      /\ reply' \in [Requests -> Replies]
      /\ pc'[r] = "inspect" => reply'[r] = reply[r]
  BY DEF Issue, Goto, Finish, IInv, RequestTypes, Steps, Replies
<1>6. /\ SessionTypes' /\ family[token[r]] = f
      /\ \A q \in Requests : pc[q] # "idle" => FamilyOf(q)' = FamilyOf(q)
      /\ \/ UNCHANGED <<family, createdAt, access>> /\ pc'[r] = "inspect"
         \/ /\ pc'[r] = "done" /\ reply'[r] = "200"
            /\ \E t \in Tokens :
                 /\ family[t] = NoFamily /\ family'[t] = f
                 /\ createdAt'[t] = began[r] /\ token[r] # t
                 /\ \A u \in Tokens \ {t} :
                      family'[u] = family[u] /\ createdAt'[u] = createdAt[u]
            /\ access' = access \cup {<<f, now>>}
  <2>1. CASE Goto(r, "inspect") /\ UNCHANGED <<family, createdAt, access, reply>>
    BY <1>1, <1>2, <2>1 DEF Goto, IInv, SessionTypes, RequestTypes, FamilyOf
  <2>2. CASE CreateTokenPair(f, began[r]) /\ Finish(r, "200")
    <3>1. PICK t \in Tokens :
            /\ family[t] = NoFamily /\ family' = [family EXCEPT ![t] = f]
            /\ createdAt' = [createdAt EXCEPT ![t] = began[r]]
            /\ access' = access \cup {<<f, now>>}
      BY <2>2 DEF CreateTokenPair
    <3>2. /\ family' \in [Tokens -> Families \cup {NoFamily}] /\ family'[t] = f
          /\ \A u \in Tokens \ {t} : family'[u] = family[u]
          /\ \A q \in Requests : pc[q] # "idle" => token[q] # t /\ family'[token[q]] = FamilyOf(q)
      BY <1>1, <3>1, NewRow
    <3>3. /\ createdAt' \in [Tokens -> Nat] /\ createdAt'[t] = began[r]
          /\ \A u \in Tokens \ {t} : createdAt'[u] = createdAt[u]
      BY <3>1 DEF IInv, SessionTypes, RequestTypes
    <3>4. SessionTypes'
      BY <1>1, <1>2, <3>1, <3>2, <3>3 DEF IInv, SessionTypes
    <3>5. \A q \in Requests : pc[q] # "idle" => FamilyOf(q)' = FamilyOf(q)
      BY <1>2, <3>2 DEF FamilyOf
    <3>6. pc'[r] = "done" /\ reply'[r] = "200" /\ token[r] # t
      BY <1>1, <2>2, <3>2 DEF Finish, Goto, IInv, RequestTypes
    <3> QED
      BY <3>1, <3>2, <3>3, <3>4, <3>5, <3>6 DEF FamilyOf
  <2> QED
    BY <2>1, <2>2 DEF Issue
<1>7. RequestTypes'
  BY <1>2, <1>3, <1>5 DEF IInv, RequestTypes
<1>8. \A u \in Tokens : family'[u] # f => family'[u] = family[u]
  BY <1>6
<1>9. \A u \in Tokens : Usable(u)' => Usable(u) /\ u # token[r]
  BY <1>2 DEF Usable
<1>10. RequestInv'
  <2> SUFFICES ASSUME NEW q \in Requests PROVE RequestOK(q)'
    BY DEF RequestInv
  <2>1. CASE q = r
    BY <1>1, <1>2, <1>5, <1>6, <2>1 DEF RequestOK, Locked
  <2>2. CASE q # r /\ pc[q] = "idle"
    BY <1>2, <1>5, <2>2 DEF IInv, RequestInv, RequestOK, Locked
  <2>3. CASE q # r /\ pc[q] # "idle" /\ ~Locked(q)
    BY <1>2, <1>5, <1>6, <2>3 DEF IInv, RequestInv, RequestOK, Locked
  <2>4. CASE q # r /\ Locked(q)
    <3>1. FamilyOf(q) # f /\ RequestOK(q) /\ FamilyOf(q)' = FamilyOf(q)
      BY <1>1, <1>6, <2>4, OneHolder DEF IInv, RequestInv, Locked
    <3>2. holder'[FamilyOf(q)] = q
      BY <1>3, <2>4, <3>1 DEF RequestOK, Locked
    <3>3. \A u \in Tokens : family[u] = FamilyOf(q) <=> family'[u] = FamilyOf(q)
      BY <1>6, <2>4, <3>1, SessionAssumption DEF RequestOK, Locked
    <3>4. snap[q] \subseteq Tokens
      BY DEF IInv, RequestTypes
    <3> QED
      BY <1>2, <1>5, <1>9, <2>4, <3>1, <3>2, <3>3, <3>4 DEF RequestOK, Locked
  <2> QED
    BY <2>1, <2>2, <2>3, <2>4
<1>11. LiveInv'
  BY <1>1, <1>6, <1>9, SessionAssumption DEF IInv, LiveInv
<1>12. EndedInv'
  <2>1. \A g \in ended : \E u \in Tokens : family[u] = g /\ family'[u] = g
    BY <1>6, SessionAssumption DEF IInv, EndedInv, SessionTypes
  <2> QED
    BY <1>2, <1>4, <1>8, <2>1 DEF IInv, EndedInv
<1>13. DenyInv'
  BY <1>2, <1>4, <1>6 DEF IInv, DenyInv, DeniedTtl
<1>14. BeganInv'
  BY <1>2 DEF IInv, BeganInv
<1>15. \A q \in Requests : reply[q] = "200" => q # r /\ reply'[q] = "200" /\ FamilyOf(q)' = FamilyOf(q)
  BY <1>1, <1>5, <1>6 DEF IInv, RequestInv, RequestOK
<1>16. StampInv'
  <2> SUFFICES ASSUME NEW u \in Tokens, family'[u] # NoFamily
               PROVE  /\ createdAt'[u] <= clock'
                      /\ \/ \E q \in Requests : IssuedBy(q, u)'
                         \/ \A q \in Requests : (Revoking(q) /\ FamilyOf(q) = family[u])' =>
                              createdAt'[u] <= began'[q]
    BY DEF StampInv
  <2>1. CASE family'[u] = family[u] /\ createdAt'[u] = createdAt[u]
    <3>1. \A q \in Requests : IssuedBy(q, u) => IssuedBy(q, u)'
      BY <1>2, <1>15, <2>1 DEF IssuedBy
    <3>2. \A q \in Requests : Revoking(q)' => Revoking(q) /\ FamilyOf(q)' = FamilyOf(q)
      BY <1>5, <1>6 DEF Revoking
    <3> QED
      BY <1>2, <2>1, <3>1, <3>2 DEF IInv, StampInv
  <2>2. CASE /\ createdAt'[u] = began[r] /\ family'[u] = f
             /\ pc'[r] = "done" /\ reply'[r] = "200"
    <3>1. IssuedBy(r, u)'
      BY <1>1, <1>2, <1>6, <2>2 DEF IssuedBy
    <3> QED
      BY <1>2, <2>2, <3>1 DEF IInv, BeganInv
  <2> QED
    BY <1>6, <2>1, <2>2
<1>17. FailInv'
  <2> SUFFICES ASSUME NEW q \in Requests, reply'[q] = "500" PROVE BehindRefresh(q)'
    BY DEF FailInv
  <2>1. reply[q] = "500"
    BY <1>5, <1>6
  <2>2. BehindRefresh(q) /\ pc[q] = "done"
    BY <2>1 DEF IInv, FailInv, RequestInv, RequestOK
  <2> QED
    BY <1>2, <1>6, <1>15, <2>2 DEF BehindRefresh
<1> QED
  BY <1>6, <1>7, <1>10, <1>11, <1>12, <1>13, <1>14, <1>16, <1>17 DEF IInv

\* revokeFamily fails: the row it cannot revoke came from a refresh.
LEMMA RevokeFailsStep ==
  ASSUME IInv, NEW r \in Requests, RevokeFamily(r),
         \E t \in snap[r] \ revoked : createdAt[t] > began[r],
         Finish(r, "500"), UNCHANGED <<revoked, ended>>
  PROVE  IInv'
<1> USE DEF Finish, Goto
<1>1. RequestOK(r) /\ FamilyOf(r) \in Families /\ token[r] \in Tokens /\ pc[r] = "revoke"
  BY DEF IInv, RequestInv, RequestOK, RevokeFamily
<1>2. UNCHANGED <<sessionVars, tokenVars, now, historyVars, kind, token, began, clock>>
  BY DEF RevokeFamily, sessionVars, historyVars
<1>a. clock' \in Nat /\ clock' >= clock /\ began'[r] <= clock'
  BY <1>2 DEF IInv, SessionTypes, BeganInv
<1>b. /\ holder' \in [Families -> Requests \cup {NoRequest}]
      /\ \A g \in Families : holder'[g] = holder[g] \/ holder[g] = r
      /\ snap' = [snap EXCEPT ![r] = {}]
  BY UnlockFrees DEF RevokeFamily
<1>3. RequestTypes'
  BY <1>2, <1>b DEF IInv, RequestTypes, Steps, Replies
<1>4. \A q \in Requests \ {r} : SameRequest(q)
  BY <1>2, <1>b DEF IInv, RequestTypes, SameRequest
<1>5. pc'[r] = "done" /\ reply'[r] = "500"
  BY DEF IInv, RequestTypes
<1>6. RequestOK(r)'
  BY <1>1, <1>2, <1>5 DEF RequestOK, Locked, FamilyOf, sessionVars
<1>7. BehindRefresh(r)
  <2>1. PICK t \in snap[r] : createdAt[t] > began[r]
    OBVIOUS
  <2>2. t \in Tokens /\ family[t] = FamilyOf(r) /\ family[t] # NoFamily
    BY <1>1, SessionAssumption DEF RequestOK, IInv, RequestTypes
  <2>3. createdAt[t] \in Nat /\ began[r] \in Nat
    BY <2>2 DEF IInv, SessionTypes, RequestTypes
  <2>4. PICK q \in Requests : IssuedBy(q, t)
    BY <1>1, <2>1, <2>2, <2>3 DEF IInv, StampInv, Revoking
  <2> QED
    BY <2>1, <2>2, <2>4 DEF IssuedBy, BehindRefresh
<1> QED
  BY <1>1, <1>2, <1>a, <1>b, <1>3, <1>4, <1>5, <1>6, <1>7, QuietStep DEF Revoking

\* revokeFamily commits: no row of the family is left out.
LEMMA RevokeStep ==
  ASSUME IInv, NEW r \in Requests, RevokeFamily(r)
  PROVE  IInv'
<1> DEFINE f == FamilyOf(r)
<1>1. CASE /\ \E t \in snap[r] \ revoked : createdAt[t] > began[r]
           /\ Finish(r, "500") /\ UNCHANGED <<revoked, ended>>
  BY <1>1, RevokeFailsStep
<1>2. CASE /\ revoked' = revoked \cup snap[r] /\ ended' = ended \cup {f}
           /\ Goto(r, "deny") /\ UNCHANGED reply
  <2>1. /\ RequestOK(r) /\ f \in Families /\ token[r] \in Tokens /\ pc[r] = "revoke" /\ Locked(r)
        /\ snap[r] \subseteq Tokens
        /\ \A t \in snap[r] : family[t] = f
        /\ \A t \in Tokens : family[t] = f => t \in revoked'
    BY <1>2 DEF IInv, RequestInv, RequestOK, RequestTypes, RevokeFamily, Locked
  <2>2. /\ UNCHANGED <<family, createdAt, used, expired, access, denied, kind, token, began, clock,
                       now, shut, reply>>
        /\ snap' = [snap EXCEPT ![r] = {}]
    BY <1>2 DEF RevokeFamily, tokenVars
  <2>3. /\ holder' \in [Families -> Requests \cup {NoRequest}]
        /\ \A g \in Families : holder'[g] = holder[g] \/ holder[g] = r
    BY UnlockFrees DEF RevokeFamily
  <2>4. /\ pc' \in [Requests -> Steps] /\ pc'[r] = "deny"
        /\ \A q \in Requests \ {r} : pc'[q] = pc[q] /\ snap'[q] = snap[q]
    BY <1>2, <2>2 DEF Goto, IInv, RequestTypes, Steps
  <2>5. SessionTypes' /\ RequestTypes'
    BY <1>2, <2>1, <2>2, <2>3, <2>4 DEF IInv, SessionTypes, RequestTypes
  <2>6. \A q \in Requests : FamilyOf(q)' = FamilyOf(q)
    BY <2>2 DEF FamilyOf
  <2>7. \A u \in Tokens : Usable(u)' => Usable(u)
    BY <1>2, <2>2 DEF Usable
  <2>8. RequestInv'
    <3> SUFFICES ASSUME NEW q \in Requests PROVE RequestOK(q)'
      BY DEF RequestInv
    <3>1. CASE q = r
      BY <1>2, <2>1, <2>2, <2>4, <2>6, <3>1 DEF RequestOK, Locked
    <3>2. CASE q # r /\ ~Locked(q)
      BY <1>2, <2>2, <2>4, <2>6, <3>2 DEF IInv, RequestInv, RequestOK, Locked
    <3>3. CASE q # r /\ Locked(q)
      <4>1. FamilyOf(q) # f /\ RequestOK(q)
        BY <2>1, <3>3, OneHolder DEF IInv, RequestInv
      <4>2. holder'[FamilyOf(q)] = q
        BY <2>3, <3>3, <4>1 DEF RequestOK, Locked
      <4>3. token[q] \notin snap[r]
        BY <2>1, <4>1 DEF FamilyOf
      <4> QED
        BY <1>2, <2>2, <2>4, <2>6, <2>7, <3>3, <4>1, <4>2, <4>3 DEF RequestOK, Locked
    <3> QED
      BY <3>1, <3>2, <3>3
  <2>9. LiveInv'
    BY <2>2, <2>7 DEF IInv, LiveInv
  <2>10. EndedInv'
    BY <1>2, <2>1, <2>2 DEF IInv, EndedInv, FamilyOf
  <2>11. DenyInv' /\ BeganInv'
    BY <2>2 DEF IInv, DenyInv, BeganInv
  <2>12. StampInv'
    <3>1. \A q \in Requests, t \in Tokens : IssuedBy(q, t)' = IssuedBy(q, t)
      BY <2>2, <2>6 DEF IssuedBy
    <3>2. \A q \in Requests : Revoking(q)' => Revoking(q)
      BY <2>4 DEF Revoking
    <3> QED
      BY <2>2, <2>6, <3>1, <3>2 DEF IInv, StampInv
  <2>13. FailInv'
    BY <2>2, <2>6 DEF IInv, FailInv, BehindRefresh
  <2> QED
    BY <2>5, <2>8, <2>9, <2>10, <2>11, <2>12, <2>13 DEF IInv
<1> QED
  BY <1>1, <1>2 DEF RevokeFamily

\* The entry is written after the last access token of the family was signed.
LEMMA DenyStep ==
  ASSUME IInv, NEW r \in Requests, Deny(r)
  PROVE  IInv'
<1> DEFINE f == FamilyOf(r)
<1>1. RequestOK(r) /\ f \in Families /\ token[r] \in Tokens /\ pc[r] = "deny" /\ f \in ended
  BY DEF IInv, RequestInv, RequestOK, Deny
<1>2. UNCHANGED <<family, createdAt, used, revoked, expired, access, holder, kind, token, began, snap,
                  clock, now, ended>>
  BY DEF Deny, sessionVars
<1>3. DeniedTtl \in Nat /\ now \in Nat
  BY SessionAssumption DEF DeniedTtl, IInv, SessionTypes
<1>4. /\ denied' \in {denied, [denied EXCEPT ![f] = now + DeniedTtl]}
      /\ shut' \in {shut, shut \cup {f}}
      /\ f \in shut' => f \in shut \/ denied' = [denied EXCEPT ![f] = now + DeniedTtl]
  BY DEF Deny
<1>5. /\ pc' \in [Requests -> Steps] /\ pc'[r] = "done"
      /\ reply' \in [Requests -> Replies] /\ reply'[r] \notin {"200", "500"}
      /\ \A q \in Requests \ {r} : pc'[q] = pc[q] /\ reply'[q] = reply[q]
  <2>1. \E code \in {"204", "401", "503"} : Finish(r, code)
    BY DEF Deny, Answered
  <2> QED
    BY <2>1 DEF Finish, Goto, IInv, RequestTypes, Steps, Replies
<1>6. denied' \in [Families -> Nat]
  BY <1>1, <1>3, <1>4 DEF IInv, SessionTypes
<1>7. SessionTypes' /\ RequestTypes'
  BY <1>1, <1>2, <1>4, <1>5, <1>6 DEF IInv, SessionTypes, RequestTypes
<1>8. \A q \in Requests : FamilyOf(q)' = FamilyOf(q)
  BY <1>2 DEF FamilyOf
<1>9. RequestInv'
  <2> SUFFICES ASSUME NEW q \in Requests PROVE RequestOK(q)'
    BY DEF RequestInv
  <2>1. CASE q = r
    BY <1>1, <1>2, <1>5, <1>8, <2>1 DEF RequestOK, Locked
  <2>2. CASE q # r
    BY <1>2, <1>5, <1>8, <2>2 DEF IInv, RequestInv, RequestOK, Locked, Usable
  <2> QED
    BY <2>1, <2>2
<1>10. LiveInv' /\ EndedInv' /\ BeganInv'
  BY <1>2 DEF IInv, LiveInv, EndedInv, BeganInv, Usable
<1>11. DenyInv'
  <2> SUFFICES ASSUME NEW g \in shut', NEW iat \in 0 .. now, <<g, iat>> \in access
               PROVE  iat + DeniedTtl <= denied'[g]
    BY <1>2 DEF DenyInv, DeniedTtl
  <2>1. CASE denied'[g] = denied[g] /\ g \in shut
    BY <2>1 DEF IInv, DenyInv
  <2>2. CASE denied'[g] = now + DeniedTtl
    BY <1>3, <2>2
  <2> QED
    BY <1>1, <1>4, <2>1, <2>2 DEF IInv, SessionTypes
<1>12. StampInv'
  <2>1. \A q \in Requests, t \in Tokens : IssuedBy(q, t) => IssuedBy(q, t)'
    BY <1>1, <1>2, <1>5, <1>8 DEF IssuedBy, IInv, RequestInv, RequestOK
  <2>2. \A q \in Requests : Revoking(q)' => Revoking(q)
    BY <1>5 DEF Revoking
  <2> QED
    BY <1>2, <1>8, <2>1, <2>2 DEF IInv, StampInv
<1>13. FailInv'
  <2> SUFFICES ASSUME NEW q \in Requests, reply'[q] = "500" PROVE BehindRefresh(q)'
    BY DEF FailInv
  <2>1. BehindRefresh(q)
    BY <1>5 DEF IInv, FailInv
  <2>2. \A w \in Requests : reply[w] = "200" => reply'[w] = "200"
    BY <1>1, <1>5 DEF IInv, RequestInv, RequestOK
  <2> QED
    BY <1>2, <1>8, <2>1, <2>2 DEF BehindRefresh
<1> QED
  BY <1>7, <1>9, <1>10, <1>11, <1>12, <1>13 DEF IInv

\* Time passes, or a refresh token expires.
LEMMA TimeStep ==
  ASSUME IInv, Tick \/ \E t \in Tokens : Expire(t)
  PROVE  IInv'
<1>1. /\ UNCHANGED <<family, createdAt, used, revoked, access, denied, holder, pc, kind, token, began,
                     snap, reply, clock, ended, shut>>
      /\ now' \in {now, now + 1} /\ now \in Nat
      /\ expired \subseteq expired' /\ expired' \subseteq Tokens
  BY DEF Tick, Expire, sessionVars, tokenVars, requestVars, historyVars, IInv, SessionTypes
<1>2. SessionTypes' /\ RequestTypes'
  BY <1>1 DEF IInv, SessionTypes, RequestTypes
<1>3. \A q \in Requests : FamilyOf(q)' = FamilyOf(q)
  BY <1>1 DEF FamilyOf
<1>4. \A u \in Tokens : Usable(u)' => Usable(u)
  BY <1>1 DEF Usable
<1>5. RequestInv'
  BY <1>1, <1>3, <1>4 DEF IInv, RequestInv, RequestOK, Locked
<1>6. LiveInv' /\ EndedInv' /\ BeganInv'
  BY <1>1, <1>4 DEF IInv, LiveInv, EndedInv, BeganInv
<1>7. DenyInv'
  BY <1>1 DEF IInv, DenyInv, SessionTypes, DeniedTtl
<1>8. StampInv' /\ FailInv'
  BY <1>1, <1>3 DEF IInv, StampInv, FailInv, IssuedBy, BehindRefresh, Revoking
<1> QED
  BY <1>2, <1>5, <1>6, <1>7, <1>8 DEF IInv

-----------------------------------------------------------------------------
\* Nobody is logged in.
LEMMA InitInv == Init => IInv
<1> SUFFICES ASSUME Init PROVE IInv
  OBVIOUS
<1> USE DEF Init
<1>1. SessionTypes /\ RequestTypes
  BY SessionAssumption DEF SessionTypes, RequestTypes, Steps, Replies
<1>2. RequestInv /\ BeganInv /\ FailInv
  BY DEF RequestInv, RequestOK, Locked, BeganInv, FailInv
<1>3. LiveInv /\ EndedInv /\ DenyInv /\ StampInv
  BY SessionAssumption DEF LiveInv, EndedInv, DenyInv, StampInv
<1> QED
  BY <1>1, <1>2, <1>3 DEF IInv

\* Every step keeps the invariant.
LEMMA NextInv == IInv /\ [Next]_vars => IInv'
<1> SUFFICES ASSUME IInv, [Next]_vars PROVE IInv'
  OBVIOUS
<1>1. CASE UNCHANGED vars
  BY <1>1 DEF vars, sessionVars, tokenVars, requestVars, historyVars, IInv, SessionTypes, RequestTypes,
     RequestInv, RequestOK, Locked, FamilyOf, Usable, LiveInv, EndedInv, DenyInv, BeganInv, StampInv,
     FailInv, IssuedBy, BehindRefresh, Revoking
<1>2. CASE Next
  BY <1>2, LoginStep, ArriveStep, LockFamilyStep, ConsumeStep, IssueStep, BetweenStep, FindRowsStep,
     RevokeStep, DenyStep, CrashStep, TimeStep
  DEF Next, Step
<1> QED
  BY <1>1, <1>2

\* The lock of a family, its rows, stamps and denylist entry keep the
\* relations that refresh and logout rely on.
THEOREM SessionInvariant == Spec => []IInv
  BY InitInv, NextInv, PTL DEF Spec

\* A set whose elements are all equal has at most one.
LEMMA AtMostOne ==
  ASSUME NEW S, \A x, y \in S : x = y
  PROVE  Cardinality(S) <= 1
<1>1. CASE S = {}
  BY <1>1, FS_EmptySet
<1>2. ASSUME NEW x \in S PROVE Cardinality(S) <= 1
  <2>1. S = {x}
    OBVIOUS
  <2> QED
    BY <2>1, FS_Singleton
<1> QED
  BY <1>1, <1>2

\* Parallel refreshes cannot both win: a family has at most one refresh token
\* that would be accepted.
THEOREM OneTokenPerFamily == Spec => []OneLiveToken
<1>1. IInv => OneLiveToken
  <2> SUFFICES ASSUME IInv, NEW f \in Families
               PROVE  Cardinality(Rows(f) \ (used \cup revoked \cup expired)) <= 1
    BY DEF OneLiveToken
  <2>1. \A t, u \in Rows(f) \ (used \cup revoked \cup expired) : t = u
    BY DEF IInv, LiveInv, Rows, Usable
  <2> QED
    BY <2>1, AtMostOne
<1> QED
  BY <1>1, SessionInvariant, PTL

\* A committed revocation leaves no token of the family alive, the one a racing
\* refresh was about to issue included.
THEOREM RevocationIsFinal == Spec => []RevokedFamilyIsDead
<1>1. IInv => RevokedFamilyIsDead
  BY DEF IInv, EndedInv, RevokedFamilyIsDead, Rows
<1> QED
  BY <1>1, SessionInvariant, PTL

\* No access token of a family outlives its acknowledged denylist entry.
THEOREM DeniedForever == Spec => []DeniedStaysDenied
<1>1. IInv => DeniedStaysDenied
  <2> SUFFICES ASSUME IInv, NEW f \in shut, NEW iat \in 0 .. now, <<f, iat>> \in access,
                      now < iat + Ttl + Tolerance
               PROVE  now < denied[f]
    BY DEF DeniedStaysDenied, VerifySignature, IsFamilyDenied
  <2>1. iat + DeniedTtl <= denied[f] /\ denied[f] \in Nat /\ now \in Nat
    BY DEF IInv, DenyInv, SessionTypes
  <2> QED
    BY <2>1, SessionAssumption DEF DeniedTtl
<1> QED
  BY <1>1, SessionInvariant, PTL

\* The CHECK on revokedAt fails a revocation only behind a refresh that began
\* after it and got the lock first.
THEOREM OnlyRefreshStopsRevocation == Spec => []RevocationFailsOnlyBehindRefresh
<1>1. IInv => RevocationFailsOnlyBehindRefresh
  BY DEF IInv, FailInv, BehindRefresh, RevocationFailsOnlyBehindRefresh
<1> QED
  BY <1>1, SessionInvariant, PTL

-----------------------------------------------------------------------------
(***************************************************************************)
(* The keys the access tokens are signed with.  The rotation of the        *)
(* signing key loses no token, for any number of pods and keys, any        *)
(* lifetime, and any number of failed loads and of restarts.               *)
(***************************************************************************)
Rotation == INSTANCE KeyRotation

Old == {k1}
Both == {k1, k2}
New == {k2}

VaultSessions == {"valid", "expired", "rejected"}

RotationTypes ==
  /\ public \in {Old, Both, New} /\ private \in {k1, k2}
  /\ stage \in {"start", "added", "switched", "waiting", "removed", "replaced"}
  /\ waited \in 0 .. Lifetime
  /\ kids \in [Pods -> {{}, Old, Both, New}]
  /\ readKeys \in [Pods -> {{}, Old, Both, New}]
  /\ signing \in [Pods -> {NoKey, k1, k2}]
  /\ readKey \in [Pods -> {NoKey, k1, k2}]
  /\ session \in [Pods -> VaultSessions]
  /\ alive \in [Keys -> 0 .. Lifetime]
  /\ faults \in Nat /\ restarts \in Nat

\* The stages in which the operator still follows the steps.
Following == stage # "replaced"

\* What the vault holds is a function of the stage.
VaultInv ==
  /\ stage = "start" => public = Old
  /\ stage \in {"added", "switched", "waiting"} => public = Both
  /\ stage = "removed" => public = New
  /\ stage \in {"start", "added"} => private = k1
  /\ stage \in {"switched", "waiting", "removed"} => private = k2
  /\ stage \in {"start", "added", "switched"} => waited = 0

\* A pod has keys to verify with before it has read one to sign with.
KeysFirst == \A p \in Pods : signing[p] # NoKey \/ readKey[p] # NoKey => kids[p] # {}

\* What a pod knows, or is about to know, lags behind the vault by no more
\* than the operator waits for.
KidsInv ==
  \A p \in Pods :
    /\ stage = "start" => {kids[p], readKeys[p]} \subseteq {{}, Old}
    /\ stage = "added" =>
         /\ {kids[p], readKeys[p]} \subseteq {{}, Old, Both}
         /\ kids[p] = Both => readKeys[p] # Old
    /\ stage \in {"switched", "waiting"} => {kids[p], readKeys[p]} \subseteq {{}, Both}
    /\ stage = "removed" => {kids[p], readKeys[p]} \subseteq {{}, Both, New}

SigningInv ==
  \A p \in Pods :
    /\ stage \in {"start", "added"} => {signing[p], readKey[p]} \subseteq {NoKey, k1}
    /\ stage = "switched" => (signing[p] = k2 => readKey[p] # k1)
    /\ stage \in {"waiting", "removed"} => {signing[p], readKey[p]} \subseteq {NoKey, k2}

\* Which tokens are still good.
AliveInv ==
  /\ \A k \in Keys \ {k1, k2} : alive[k] = 0
  /\ stage \in {"start", "added"} => alive[k2] = 0
  /\ stage = "waiting" => alive[k1] + waited <= Lifetime
  /\ stage = "removed" => alive[k1] = 0

RotationInv == Following => VaultInv /\ KidsInv /\ SigningInv /\ AliveInv

KeysInv == RotationTypes /\ KeysFirst /\ RotationInv

-----------------------------------------------------------------------------
\* The state the pods and the vault start in.
LEMMA KeysInit ==
  Rotation!Init => KeysInv
  BY KeyRotationAssumption
  DEF Rotation!Init, KeysInv, RotationTypes, KeysFirst, RotationInv, Following, VaultInv,
      KidsInv, SigningInv, AliveInv, Old, Both, New, VaultSessions

\* The three keys of the model are different.
LEMMA KeysDiffer ==
  /\ k1 # k2 /\ k1 # NoKey /\ k2 # NoKey
  /\ Old # New /\ Old # Both /\ Both # New
  /\ Old # {} /\ Both # {} /\ New # {}
  BY KeyRotationAssumption DEF Old, New, Both

\* The vault answers the load of the verification keys.
LEMMA FetchKeysStep ==
  ASSUME KeysInv, NEW p \in Pods, Rotation!FetchKeys(p)
  PROVE  KeysInv'
<1> USE DEF Rotation!FetchKeys, Rotation!Get, Rotation!vaultVars
<1>1. RotationTypes'
  BY DEF KeysInv, RotationTypes, VaultSessions
<1>2. KeysFirst'
  BY DEF KeysInv, KeysFirst
<1>3. Following' => KidsInv'
  BY KeysDiffer DEF KeysInv, RotationTypes, RotationInv, Following, VaultInv, KidsInv
<1>4. Following' => VaultInv' /\ SigningInv' /\ AliveInv'
  BY DEF KeysInv, RotationInv, Following, VaultInv, SigningInv, AliveInv
<1> QED
  BY <1>1, <1>2, <1>3, <1>4 DEF KeysInv, RotationInv

\* A pod takes over the verification keys it has read.
LEMMA LoadKeysStep ==
  ASSUME KeysInv, NEW p \in Pods, Rotation!LoadKeys(p)
  PROVE  KeysInv'
<1> USE DEF Rotation!LoadKeys, Rotation!vaultVars
<1>1. RotationTypes'
  BY DEF KeysInv, RotationTypes
<1>2. KeysFirst'
  BY DEF KeysInv, RotationTypes, KeysFirst
<1>3. Following' => KidsInv'
  BY KeysDiffer DEF KeysInv, RotationTypes, RotationInv, Following, KidsInv
<1>4. Following' => VaultInv' /\ SigningInv' /\ AliveInv'
  BY DEF KeysInv, RotationInv, Following, VaultInv, SigningInv, AliveInv
<1> QED
  BY <1>1, <1>2, <1>3, <1>4 DEF KeysInv, RotationInv

\* The vault answers the load of the signing key.
LEMMA FetchSigningKeyStep ==
  ASSUME KeysInv, NEW p \in Pods, Rotation!FetchSigningKey(p)
  PROVE  KeysInv'
<1> USE DEF Rotation!FetchSigningKey, Rotation!Get, Rotation!vaultVars
<1>1. RotationTypes'
  BY DEF KeysInv, RotationTypes, VaultSessions
<1>2. KeysFirst'
  BY DEF KeysInv, RotationTypes, KeysFirst
<1>3. Following' => SigningInv'
  BY KeysDiffer DEF KeysInv, RotationTypes, RotationInv, Following, VaultInv, SigningInv
<1>4. Following' => VaultInv' /\ KidsInv' /\ AliveInv'
  BY DEF KeysInv, RotationInv, Following, VaultInv, KidsInv, AliveInv
<1> QED
  BY <1>1, <1>2, <1>3, <1>4 DEF KeysInv, RotationInv

\* A pod signs with the key it has read.
LEMMA LoadSigningKeyStep ==
  ASSUME KeysInv, NEW p \in Pods, Rotation!LoadSigningKey(p)
  PROVE  KeysInv'
<1> USE DEF Rotation!LoadSigningKey, Rotation!vaultVars
<1>1. RotationTypes'
  BY DEF KeysInv, RotationTypes
<1>2. KeysFirst'
  BY DEF KeysInv, RotationTypes, KeysFirst
<1>3. Following' => SigningInv'
  BY KeysDiffer DEF KeysInv, RotationTypes, RotationInv, Following, SigningInv
<1>4. Following' => VaultInv' /\ KidsInv' /\ AliveInv'
  BY DEF KeysInv, RotationInv, Following, VaultInv, KidsInv, AliveInv
<1> QED
  BY <1>1, <1>2, <1>3, <1>4 DEF KeysInv, RotationInv

\* A load that fails, and the end of the vault's session, leave the keys alone.
LEMMA FaultStep ==
  ASSUME KeysInv, NEW p \in Pods,
         Rotation!GetFails(p) \/ Rotation!SessionExpires(p)
  PROVE  KeysInv'
<1>1. kids' = kids
  BY DEF KeysInv, RotationTypes, Rotation!GetFails, Rotation!SessionExpires, Rotation!Kept
<1>2. UNCHANGED <<public, private, stage, waited, signing, readKeys, readKey, alive, restarts>>
  BY DEF Rotation!GetFails, Rotation!SessionExpires, Rotation!vaultVars
<1>3. faults' \in Nat /\ session' \in [Pods -> VaultSessions]
  BY DEF KeysInv, RotationTypes, Rotation!GetFails, Rotation!SessionExpires, VaultSessions
<1> QED
  BY <1>1, <1>2, <1>3
  DEF KeysInv, RotationTypes, KeysFirst, RotationInv, Following, VaultInv, KidsInv,
      SigningInv, AliveInv

\* A pod is replaced by one that starts.
LEMMA RestartStep ==
  ASSUME KeysInv, NEW p \in Pods, Rotation!Restart(p)
  PROVE  KeysInv'
<1> USE DEF Rotation!Restart, Rotation!vaultVars
<1>1. RotationTypes'
  BY DEF KeysInv, RotationTypes, VaultSessions
<1>2. KeysFirst'
  BY DEF KeysInv, RotationTypes, KeysFirst
<1>3. Following' => KidsInv'
  BY KeysDiffer DEF KeysInv, RotationTypes, RotationInv, Following, KidsInv
<1>4. Following' => SigningInv'
  BY KeysDiffer DEF KeysInv, RotationTypes, RotationInv, Following, SigningInv
<1>5. Following' => VaultInv' /\ AliveInv'
  BY DEF KeysInv, RotationInv, Following, VaultInv, AliveInv
<1> QED
  BY <1>1, <1>2, <1>3, <1>4, <1>5 DEF KeysInv, RotationInv

\* A pod signs an access token.
LEMMA SignStep ==
  ASSUME KeysInv, NEW p \in Pods, Rotation!Sign(p)
  PROVE  KeysInv'
<1> USE DEF Rotation!Sign, Rotation!Up, Rotation!vaultVars, Rotation!podVars
<1>1. RotationTypes'
  BY KeyRotationAssumption DEF KeysInv, RotationTypes
<1>2. KeysFirst'
  BY DEF KeysInv, KeysFirst
<1>3. Following' => AliveInv'
  BY KeyRotationAssumption DEF KeysInv, RotationTypes, RotationInv, Following,
         SigningInv, AliveInv
<1>4. Following' => VaultInv' /\ KidsInv' /\ SigningInv'
  BY DEF KeysInv, RotationInv, Following, VaultInv, KidsInv, SigningInv
<1> QED
  BY <1>1, <1>2, <1>3, <1>4 DEF KeysInv, RotationInv

\* Time passes.
LEMMA TickStep ==
  ASSUME KeysInv, Rotation!Tick
  PROVE  KeysInv'
<1> USE DEF Rotation!Tick, Rotation!podVars
<1>1. RotationTypes'
  BY KeyRotationAssumption DEF KeysInv, RotationTypes
<1>2. KeysFirst'
  BY DEF KeysInv, KeysFirst
<1>3. Following' => AliveInv'
  BY KeyRotationAssumption DEF KeysInv, RotationTypes, RotationInv, Following,
         AliveInv
<1>4. Following' => VaultInv' /\ KidsInv' /\ SigningInv'
  BY DEF KeysInv, RotationInv, Following, VaultInv, KidsInv, SigningInv
<1> QED
  BY <1>1, <1>2, <1>3, <1>4 DEF KeysInv, RotationInv

\* The operator does the next step, or replaces a leaked key.
LEMMA OperatorStep ==
  ASSUME KeysInv, Rotation!Operator
  PROVE  KeysInv'
<1> USE DEF Rotation!Operator, Rotation!podVars
<1>1. RotationTypes'
  BY DEF KeysInv, RotationTypes, Rotation!AddKey, Rotation!SwitchKey, Rotation!SeeSwitched,
         Rotation!RemoveKey, Rotation!ReplaceLeaked, Old, Both, New
<1>2. KeysFirst'
  BY DEF KeysInv, KeysFirst
<1>3. CASE Rotation!AddKey
  BY <1>1, <1>2, <1>3, KeysDiffer
  DEF Rotation!AddKey, KeysInv, RotationTypes, RotationInv, Following, VaultInv, KidsInv,
      SigningInv, AliveInv, Both
<1>4. CASE Rotation!SwitchKey
  BY <1>1, <1>2, <1>4, KeysDiffer
  DEF Rotation!SwitchKey, KeysInv, RotationTypes, RotationInv, Following, VaultInv, KidsInv,
      SigningInv, AliveInv, Both
<1>5. CASE Rotation!SeeSwitched
  BY <1>1, <1>2, <1>5, KeyRotationAssumption
  DEF Rotation!SeeSwitched, KeysInv, RotationTypes,
      RotationInv, Following, VaultInv, KidsInv, SigningInv, AliveInv
<1>6. CASE Rotation!RemoveKey
  BY <1>1, <1>2, <1>6, KeyRotationAssumption
  DEF Rotation!RemoveKey, KeysInv, RotationTypes,
      RotationInv, Following, VaultInv, KidsInv, SigningInv, AliveInv, New
<1>7. CASE Rotation!ReplaceLeaked
  BY <1>1, <1>2, <1>7 DEF Rotation!ReplaceLeaked, KeysInv, RotationInv, Following
<1> QED
  BY <1>3, <1>4, <1>5, <1>6, <1>7 DEF Rotation!Operator

\* Every step keeps the invariant.
LEMMA KeysNext ==
  ASSUME KeysInv, [Rotation!Next]_(Rotation!vars)
  PROVE  KeysInv'
<1>1. CASE UNCHANGED Rotation!vars
  BY <1>1 DEF Rotation!vars, Rotation!vaultVars, Rotation!podVars, KeysInv, RotationTypes,
     KeysFirst, RotationInv, Following,
              VaultInv, KidsInv, SigningInv, AliveInv
<1>2. CASE Rotation!Next
  BY <1>2, FetchKeysStep, LoadKeysStep, FetchSigningKeyStep, LoadSigningKeyStep, FaultStep,
     RestartStep, SignStep, TickStep, OperatorStep
  DEF Rotation!Next, Rotation!Refresh, Rotation!RefreshSigningKey
<1> QED
  BY <1>1, <1>2

\* The vault, the keys of every pod and the lifetimes of the tokens keep their
\* types and go through the stages together.
THEOREM RotationInvariant == Rotation!Spec => []KeysInv
<1>1. Rotation!Init => KeysInv
  BY KeysInit
<1>2. KeysInv /\ [Rotation!Next]_(Rotation!vars) => KeysInv'
  BY KeysNext
<1> QED
  BY <1>1, <1>2, PTL DEF Rotation!Spec

\* In a state of the invariant a token that lives names a key of every pod.
LEMMA InvGivesVerification ==
  KeysInv => EveryTokenVerifies
<1> SUFFICES ASSUME KeysInv, NEW k \in Keys, NEW p \in Pods, alive[k] > 0, Up(p), Following
             PROVE  k \in kids[p]
  BY DEF EveryTokenVerifies, GetKeyFinds, Following
<1>1. k \in {k1, k2} /\ kids[p] \in {Old, Both, New}
  BY DEF KeysInv, RotationTypes, KeysFirst, RotationInv, AliveInv, Up
<1>2. CASE stage \in {"start", "added"}
  BY <1>1, <1>2, KeysDiffer DEF KeysInv, RotationInv, AliveInv, KidsInv, Old, Both
<1>3. CASE stage \in {"switched", "waiting"}
  BY <1>1, <1>3, KeysDiffer DEF KeysInv, RotationInv, KidsInv, Both
<1>4. CASE stage = "removed"
  BY <1>1, <1>4, KeysDiffer DEF KeysInv, RotationInv, AliveInv, KidsInv, Both, New
<1> QED
  BY <1>2, <1>3, <1>4 DEF KeysInv, RotationTypes, Following

\* Key rotation without downtime: as long as the operator follows the steps of
\* the README, every pod that serves accepts every access token that has not
\* expired, whatever fails and whichever pod restarts.
THEOREM NoTokenIsLost == Rotation!Spec => []EveryTokenVerifies
<1>1. Rotation!Spec => []KeysInv
  BY RotationInvariant
<1>2. KeysInv => EveryTokenVerifies
  BY InvGivesVerification
<1> QED
  BY <1>1, <1>2, PTL

=============================================================================
