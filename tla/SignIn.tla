------------------------------- MODULE SignIn -------------------------------
(***************************************************************************)
(* Signing in with an OpenID provider, and linking a provider account to   *)
(* an identity that has a password (src/identity).                         *)
(*                                                                         *)
(* An attempt lives in Redis under its random state, which the browser     *)
(* also keeps in a cookie.  The provider sends the browser back to the     *)
(* callback, a request of several steps: it takes the attempt from Redis,  *)
(* exchanges the code for the subject and email of the account, and runs   *)
(* one transaction.  A step of a transaction is one statement, or several  *)
(* whose order nobody can tell; the insertions and the commit are one.     *)
(***************************************************************************)
EXTENDS Naturals, FiniteSets

CONSTANTS Identities,  \* rows that may be created
          Emails, Subjects,
          EmailsOf,    \* EmailsOf[u]: addresses the provider has for subject u in turn
          Browsers,
          States,      \* bound: attempts started
          Requests,    \* bound: callbacks
          NoEmail, NoIdentity, NoBrowser, NoSubject, NoState

ASSUME SignInAssumption ==
  /\ EmailsOf \in [Subjects -> SUBSET Emails]
  /\ NoEmail \notin Emails /\ NoIdentity \notin Identities
  /\ NoBrowser \notin Browsers /\ NoSubject \notin Subjects /\ NoState \notin States

VARIABLES rows,      \* Identity rows
          email,     \* Identity.email
          password,  \* identities with a passwordHash
          deleted,   \* identities with deletedAt set
          accounts,  \* IdentityExternalAccount rows: <<subject, identity>>
          outbox,    \* identities with an identity.registered row
          attempt,   \* "fresh", "stored" in Redis, or "gone"
          link,      \* linkIdentityPublicId of an attempt
          cookie,    \* the state each browser carries
          request,   \* the callbacks
          confirmed, \* <<i, b>>: b gave the password of i (history)
          linkedBy   \* the browser whose callback linked an identity (history)

identityVars == <<rows, email, password, deleted, accounts, outbox>>
attemptVars == <<attempt, link>>
historyVars == <<confirmed, linkedBy>>
vars == <<identityVars, attemptVars, cookie, request, historyVars>>

Idle == [pc |-> "idle", browser |-> NoBrowser, state |-> NoState, subject |-> NoSubject,
         email |-> NoEmail, code |-> 0, identity |-> NoIdentity]

Init ==
  /\ rows = {} /\ password = {} /\ deleted = {} /\ accounts = {} /\ outbox = {}
  /\ email = [i \in Identities |-> NoEmail]
  /\ attempt = [s \in States |-> "fresh"]
  /\ link = [s \in States |-> NoIdentity]
  /\ cookie = [b \in Browsers |-> NoState]
  /\ request = [r \in Requests |-> Idle]
  /\ confirmed = {}
  /\ linkedBy = [i \in Identities |-> NoBrowser]

-----------------------------------------------------------------------------
\* Finders skip soft-deleted rows.
Live == rows \ deleted

\* The unique index on email does not; it allows any number of NULLs.
EmailTaken(e) == e # NoEmail /\ \E i \in rows : email[i] = e

\* findByProviderSubject; the unique key makes it at most one.
AccountsOf(u) == {a \in accounts : a[1] = u}

\* An Identity row and its outbox row, in one transaction.
Create(i, e) ==
  /\ i \notin rows
  /\ rows' = rows \cup {i}
  /\ email' = [email EXCEPT ![i] = e]
  /\ outbox' = outbox \cup {i}

\* POST /auth/register, with an email or with a phone number only.
Register(i, e) ==
  /\ ~EmailTaken(e)
  /\ Create(i, e)
  /\ password' = password \cup {i}
  /\ UNCHANGED <<deleted, accounts, attemptVars, cookie, request, historyVars>>

\* An identity is soft-deleted; no code under src/ writes deletedAt.
SoftDelete(i) ==
  /\ i \in rows
  /\ deleted' = deleted \cup {i}
  /\ UNCHANGED <<rows, email, password, accounts, outbox, attemptVars, cookie, request, historyVars>>

\* toProviderRedirect: the response carries the state as the browser's cookie.
WithCookie(b, s) == [cookie EXCEPT ![b] = s]

\* IdentityOidcAuthorizeCommandHandler: a fresh state, stored and then given
\* to the browser.  A save that fails or times out answers 503 without a
\* cookie; it may have stored the attempt.
Start(b, s, i) ==
  /\ attempt[s] = "fresh"
  /\ link' = [link EXCEPT ![s] = i]
  /\ \/ /\ attempt' = [attempt EXCEPT ![s] = "stored"]
        /\ cookie' = WithCookie(b, s)
     \/ /\ attempt' \in {[attempt EXCEPT ![s] = "stored"], [attempt EXCEPT ![s] = "gone"]}
        /\ UNCHANGED cookie
  /\ UNCHANGED <<identityVars, request, linkedBy>>

\* GET /auth/google
Authorize(b, s) == Start(b, s, NoIdentity) /\ UNCHANGED confirmed

\* PasswordService.verify can succeed: the identity is found and has a hash.
CanConfirm(i) == i \in Live \cap password

\* POST /auth/google/link, by a browser that gives the password of identity i.
Link(b, s, i) ==
  /\ CanConfirm(i)
  /\ Start(b, s, i)
  /\ confirmed' = confirmed \cup {<<i, b>>}

\* OIDC_SIGN_IN_TTL_SECONDS have passed.
Expire(s) ==
  /\ attempt[s] = "stored"
  /\ attempt' = [attempt EXCEPT ![s] = "gone"]
  /\ UNCHANGED <<identityVars, link, cookie, request, historyVars>>

-----------------------------------------------------------------------------
At(r, step) == request[r].pc = step

\* The response, which clears the browser's cookie whatever its status.
Finish(r, code, i) ==
  /\ request' = [request EXCEPT ![r].pc = "done", ![r].code = code, ![r].identity = i]
  /\ cookie' = [cookie EXCEPT ![request[r].browser] = NoState]

Refuse(r, code) == Finish(r, code, NoIdentity)

Goto(r, step) ==
  /\ request' = [request EXCEPT ![r].pc = step]
  /\ UNCHANGED cookie

\* Variant: any browser may finish an attempt.
StateMatchesAlways(b, s) == TRUE

\* state === browserState
StateMatches(b, s) == cookie[b] = s

\* GET /auth/google/callback.  A state that is not the browser's is answered
\* 400, and the cookie is cleared.
Callback(r, b, s) ==
  /\ At(r, "idle")
  /\ \/ /\ StateMatches(b, s)
        /\ request' = [request EXCEPT ![r].pc = "take", ![r].browser = b, ![r].state = s]
        /\ UNCHANGED cookie
     \/ /\ ~StateMatches(b, s)
        /\ request' = [request EXCEPT ![r].pc = "done", ![r].code = 400]
        /\ cookie' = [cookie EXCEPT ![b] = NoState]
  /\ UNCHANGED <<identityVars, attemptVars, historyVars>>

\* Variant: GET instead of GETDEL.
TakenOnlyRead(s) == attempt

\* GETDEL
Taken(s) == [attempt EXCEPT ![s] = "gone"]

\* take.  Without an answer in time the attempt may be gone all the same.
Take(r) ==
  /\ At(r, "take")
  /\ LET s == request[r].state
     IN  \/ attempt[s] = "stored" /\ attempt' = Taken(s) /\ Goto(r, "exchange")
         \/ attempt[s] # "stored" /\ UNCHANGED attempt /\ Refuse(r, 400)
         \/ attempt' \in {attempt, Taken(s)} /\ Refuse(r, 503)
  /\ UNCHANGED <<identityVars, link, historyVars>>

\* The exchange is rejected, or the email is not verified; the provider, or
\* the vault with the client's secret, is away, at the discovery or later.
ExchangeErrors == {401, 503}

\* exchange, and the check of the claims: the provider tells who signed in there.
Exchange(r) ==
  /\ At(r, "exchange")
  /\ \/ \E u \in Subjects : \E e \in EmailsOf[u] :
          /\ request' = [request EXCEPT ![r].subject = u, ![r].email = e,
               ![r].pc = IF link[request[r].state] = NoIdentity THEN "signIn" ELSE "link"]
          /\ UNCHANGED cookie
     \/ \E code \in ExchangeErrors : Refuse(r, code)
  /\ UNCHANGED <<identityVars, attemptVars, historyVars>>

-----------------------------------------------------------------------------
\* signIn: the account of the subject, and its identity.
FindAccount(r) ==
  /\ At(r, "signIn")
  /\ LET found == AccountsOf(request[r].subject)
     IN  \/ found = {} /\ Goto(r, "findByEmail")
         \/ \E a \in found : IF a[2] \in Live THEN Finish(r, 200, a[2]) ELSE Refuse(r, 401)
  /\ UNCHANGED <<identityVars, attemptVars, historyVars>>

\* An email that is registered is refused, never linked.
FindByEmail(r) ==
  /\ At(r, "findByEmail")
  /\ IF \E i \in Live : email[i] = request[r].email THEN Refuse(r, 409) ELSE Goto(r, "signUp")
  /\ UNCHANGED <<identityVars, attemptVars, historyVars>>

\* Variant: the subject is not unique.
SubjectTakenNever(u) == FALSE

\* IdentityExternalAccount_provider_subject_key
SubjectTaken(u) == AccountsOf(u) # {}

\* Variant: an account that exists is left alone (ON CONFLICT DO NOTHING).
SignUpDoNothing(r) ==
  /\ At(r, "signUp")
  /\ LET u == request[r].subject
     IN  \/ /\ ~EmailTaken(request[r].email)
            /\ \E i \in Identities :
                 /\ Create(i, request[r].email)
                 /\ accounts' = accounts \cup (IF SubjectTaken(u) THEN {} ELSE {<<u, i>>})
                 /\ Finish(r, 200, i)
         \/ /\ EmailTaken(request[r].email)
            /\ Refuse(r, 409)
            /\ UNCHANGED <<rows, email, accounts, outbox>>
  /\ UNCHANGED <<password, deleted, attemptVars, historyVars>>

\* The rest of signIn: identity, account, outbox row and commit.  A unique
\* key that another transaction filled since the finders ran answers 409.
SignUp(r) ==
  /\ At(r, "signUp")
  /\ LET taken == EmailTaken(request[r].email) \/ SubjectTaken(request[r].subject)
     IN  \/ /\ ~taken
            /\ \E i \in Identities :
                 /\ Create(i, request[r].email)
                 /\ accounts' = accounts \cup {<<request[r].subject, i>>}
                 /\ Finish(r, 200, i)
         \/ /\ taken
            /\ Refuse(r, 409)
            /\ UNCHANGED <<rows, email, accounts, outbox>>
  /\ UNCHANGED <<password, deleted, attemptVars, historyVars>>

\* link: the identity the attempt was started for, and the subject's account.
FindLinked(r) ==
  /\ At(r, "link")
  /\ LET i == link[request[r].state]
         found == AccountsOf(request[r].subject)
     IN  IF i \notin Live THEN Refuse(r, 401)
         ELSE IF found = {} THEN Goto(r, "createLink")
         ELSE \E a \in found : IF a[2] = i THEN Finish(r, 200, i) ELSE Refuse(r, 409)
  /\ UNCHANGED <<identityVars, attemptVars, historyVars>>

\* The rest of link, and its commit: both unique keys may answer 409.
CreateLink(r) ==
  /\ At(r, "createLink")
  /\ LET u == request[r].subject
         i == link[request[r].state]
         taken == SubjectTaken(u) \/ \E a \in accounts : a[2] = i
     IN  \/ /\ ~taken
            /\ accounts' = accounts \cup {<<u, i>>}
            /\ linkedBy' = [linkedBy EXCEPT ![i] = request[r].browser]
            /\ Finish(r, 200, i)
         \/ /\ taken
            /\ Refuse(r, 409)
            /\ UNCHANGED <<accounts, linkedBy>>
  /\ UNCHANGED <<rows, email, password, deleted, outbox, attemptVars, confirmed>>

\* A statement fails, or the instance dies before it answers: rolled back.
Fail(r) ==
  /\ request[r].pc \notin {"idle", "done"}
  /\ \/ Refuse(r, 500)
     \/ request' = [request EXCEPT ![r].pc = "done"] /\ UNCHANGED cookie
  /\ UNCHANGED <<identityVars, attemptVars, historyVars>>

Step(r) ==
  \/ Take(r) \/ Exchange(r) \/ FindAccount(r) \/ FindByEmail(r) \/ SignUp(r)
  \/ FindLinked(r) \/ CreateLink(r)

Next ==
  \/ \E i \in Identities : SoftDelete(i) \/ \E e \in Emails \cup {NoEmail} : Register(i, e)
  \/ \E b \in Browsers, s \in States :
       Authorize(b, s) \/ \E i \in Identities : Link(b, s, i)
  \/ \E s \in States : Expire(s)
  \/ \E r \in Requests :
       \/ \E b \in Browsers, s \in States : Callback(r, b, s)
       \/ Step(r) \/ Fail(r)

Spec == Init /\ [][Next]_vars

-----------------------------------------------------------------------------
\* README: "`sub` is Google's permanent id": a subject that was let in is let
\* in as the same identity every time, although its email changes, its first
\* sign-ins run at the same time and identities are linked or deleted.
SameIdentityEveryTime ==
  \A r, q \in Requests :
    /\ request[r].code = 200 /\ request[q].code = 200
    /\ request[r].subject = request[q].subject
    => request[r].identity = request[q].identity

\* README: "never linked silently": an identity with a password has a provider
\* account only if the browser that came back from the provider had confirmed
\* that password before.
LinkedByItsOwner ==
  \A a \in accounts : a[2] \in password => <<a[2], linkedBy[a[2]]>> \in confirmed

\* README: "an attempt works once, expires": of the callbacks with one state,
\* repeated, concurrent, late or retried after an error, at most one gets to
\* use the attempt.
AttemptWorksOnce ==
  \A r, q \in Requests :
    /\ r # q /\ request[r].state = request[q].state /\ request[r].state # NoState
    => NoSubject \in {request[r].subject, request[q].subject}

\* No sign-up leaves half of itself behind: every identity has a password or a
\* provider account to come back with, and its identity.registered row.
EveryIdentityCanReturn ==
  /\ rows = outbox
  /\ \A i \in rows : i \in password \/ \E a \in accounts : a[2] = i

=============================================================================
