---------------------------- MODULE SignInProofs ----------------------------
(***************************************************************************)
(* Signing in with an OpenID provider and linking, proved for any number   *)
(* of identities, browsers, attempts and callbacks, whatever addresses the *)
(* provider has for its subjects.                                          *)
(***************************************************************************)
EXTENDS SignIn, TLAPS

Steps == {"idle", "take", "exchange", "signIn", "findByEmail", "signUp", "link",
          "createLink", "done"}
Codes == {0, 200, 400, 401, 409, 500, 503}

RequestType ==
  [pc : Steps, browser : Browsers \cup {NoBrowser}, state : States \cup {NoState},
   subject : Subjects \cup {NoSubject}, email : Emails \cup {NoEmail}, code : Codes,
   identity : Identities \cup {NoIdentity}]

RowTypes ==
  /\ rows \subseteq Identities
  /\ email \in [Identities -> Emails \cup {NoEmail}]
  /\ accounts \subseteq Subjects \X Identities
  /\ linkedBy \in [Identities -> Browsers \cup {NoBrowser}]

AttemptTypes ==
  /\ attempt \in [States -> {"fresh", "stored", "gone"}]
  /\ link \in [States -> Identities \cup {NoIdentity}]

CallTypes ==
  /\ cookie \in [Browsers -> States \cup {NoState}]
  /\ request \in [Requests -> RequestType]

TypeOK == RowTypes /\ AttemptTypes /\ CallTypes

\* Passwords, accounts and links belong to rows; a subject has one account.
RowsInv ==
  /\ password \subseteq rows
  /\ \A a \in accounts : a[2] \in rows
  /\ \A a, b \in accounts : a[1] = b[1] => a = b

\* An attempt that was not started links nothing.
LinkInv ==
  \A s \in States : link[s] # NoIdentity => attempt[s] # "fresh" /\ link[s] \in rows

\* A browser may carry the state of an attempt only if it started it, and if
\* that attempt is for linking it has given the password.
Confirmed(b, s) ==
  /\ attempt[s] # "fresh"
  /\ link[s] # NoIdentity => <<link[s], b>> \in confirmed

CookieInv == \A b \in Browsers : cookie[b] # NoState => Confirmed(b, cookie[b])

\* A callback that has taken its attempt.
Using(r) == request[r].pc = "exchange" \/ request[r].subject # NoSubject

RequestOK(r) ==
  /\ request[r].pc = "idle" => request[r] = Idle
  /\ request[r].pc \notin {"idle", "done"} =>
       request[r].browser # NoBrowser /\ request[r].state # NoState /\ request[r].code = 0
  /\ request[r].pc \in {"take", "exchange"} => request[r].subject = NoSubject
  /\ request[r].pc \in {"signIn", "findByEmail", "signUp", "link", "createLink"} =>
       request[r].subject # NoSubject
  /\ request[r].pc \in {"link", "createLink"} => link[request[r].state] # NoIdentity
  /\ request[r].state # NoState => Confirmed(request[r].browser, request[r].state)
  /\ Using(r) => request[r].state # NoState /\ attempt[request[r].state] = "gone"
  /\ request[r].code = 200 => <<request[r].subject, request[r].identity>> \in accounts

RequestInv == \A r \in Requests : RequestOK(r)

UsesInv ==
  \A r, q \in Requests :
    r # q /\ request[r].state = request[q].state => ~(Using(r) /\ Using(q))

CallInv == CallTypes /\ CookieInv /\ RequestInv /\ UsesInv

IInv ==
  /\ RowTypes /\ AttemptTypes /\ RowsInv /\ LinkInv /\ CallInv
  /\ EveryIdentityCanReturn /\ LinkedByItsOwner

-----------------------------------------------------------------------------
\* A callback moves on; attempts can only be lost, cookies only be cleared, and
\* accounts and confirmations are only added.
LEMMA CallStep ==
  ASSUME CallInv, AttemptTypes, AttemptTypes', NEW r \in Requests,
         request' \in [Requests -> RequestType],
         \A q \in Requests \ {r} : request'[q] = request[q],
         cookie' \in [Browsers -> States \cup {NoState}],
         \A b \in Browsers : cookie'[b] \in {cookie[b], NoState},
         \A s \in States : attempt'[s] \in {attempt[s], "gone"},
         link' = link, confirmed' = confirmed, accounts \subseteq accounts',
         RequestOK(r)',
         Using(r)' => \/ Using(r) /\ request[r].state = request'[r].state
                      \/ \A q \in Requests \ {r} :
                           request[q].state = request'[r].state => ~Using(q)
  PROVE  CallInv'
<1>1. CallTypes'
  BY DEF CallTypes
<1>2. CookieInv'
  BY SignInAssumption DEF CallInv, CallTypes, AttemptTypes, CookieInv, Confirmed
<1>3. \A q \in Requests \ {r} : Using(q)' = Using(q)
  BY DEF Using
<1>4. RequestInv'
  <2> SUFFICES ASSUME NEW q \in Requests, q # r PROVE RequestOK(q)'
    BY DEF RequestInv
  <2>1. RequestOK(q) /\ request'[q] = request[q] /\ request[q] \in RequestType
    BY DEF CallInv, CallTypes, RequestInv
  <2>2. request[q].state # NoState => request[q].state \in States
    BY <2>1 DEF RequestType
  <2> QED
    BY <2>1, <2>2, <1>3 DEF RequestOK, Confirmed, AttemptTypes
<1>5. UsesInv'
  BY <1>3 DEF CallInv, UsesInv
<1> QED
  BY <1>1, <1>2, <1>4, <1>5 DEF CallInv

\* A callback is answered; a 200 needs the account it lets in.
LEMMA FinishStep ==
  ASSUME CallInv, AttemptTypes, AttemptTypes', NEW r \in Requests,
         request[r].pc \notin {"idle", "done"},
         NEW code \in Codes, NEW i \in Identities \cup {NoIdentity}, Finish(r, code, i),
         \A s \in States : attempt'[s] \in {attempt[s], "gone"},
         link' = link, confirmed' = confirmed, accounts \subseteq accounts',
         code = 200 => <<request[r].subject, i>> \in accounts'
  PROVE  CallInv'
<1>1. request[r] \in RequestType /\ RequestOK(r)
  BY DEF CallInv, CallTypes, RequestInv
<1> DEFINE new == [request[r] EXCEPT !.pc = "done", !.code = code, !.identity = i]
<1>a. new \in RequestType
  BY <1>1 DEF RequestType, Steps
<1>b. request' = [request EXCEPT ![r] = new]
  BY DEF Finish, CallInv, CallTypes
<1>2. /\ request' \in [Requests -> RequestType]
      /\ \A q \in Requests \ {r} : request'[q] = request[q]
      /\ request'[r] = new
  BY <1>a, <1>b DEF CallInv, CallTypes
<1>3. /\ cookie' \in [Browsers -> States \cup {NoState}]
      /\ \A b \in Browsers : cookie'[b] \in {cookie[b], NoState}
  BY DEF CallInv, CallTypes, Finish
<1>4. /\ request'[r].pc = "done" /\ request'[r].code = code /\ request'[r].identity = i
      /\ request'[r].subject = request[r].subject /\ request'[r].state = request[r].state
      /\ request'[r].browser = request[r].browser
  BY <1>1, <1>2 DEF RequestType
<1>5. request[r].state \in States
  BY <1>1 DEF RequestOK, RequestType
<1>6. RequestOK(r)' /\ (Using(r)' => Using(r))
  BY <1>1, <1>4, <1>5 DEF RequestOK, Confirmed, Using, AttemptTypes
<1> QED
  BY <1>2, <1>3, <1>4, <1>6, CallStep

\* A callback goes on inside its transaction.
LEMMA GotoStep ==
  ASSUME CallInv, AttemptTypes, NEW r \in Requests, NEW step, Goto(r, step),
         \/ request[r].pc = "signIn" /\ step = "findByEmail"
         \/ request[r].pc = "findByEmail" /\ step = "signUp"
         \/ request[r].pc = "link" /\ step = "createLink",
         UNCHANGED <<attempt, link, confirmed, accounts>>
  PROVE  CallInv'
<1>1. request[r] \in RequestType /\ RequestOK(r)
  BY DEF CallInv, CallTypes, RequestInv
<1> DEFINE new == [request[r] EXCEPT !.pc = step]
<1>2. new \in RequestType
  BY <1>1 DEF RequestType, Steps
<1>3. request' = [request EXCEPT ![r] = new] /\ cookie' = cookie
  BY DEF Goto, CallInv, CallTypes
<1>4. /\ request' \in [Requests -> RequestType]
      /\ \A q \in Requests \ {r} : request'[q] = request[q]
      /\ request'[r] = new
  BY <1>2, <1>3 DEF CallInv, CallTypes
<1>5. /\ request'[r].pc = step /\ request'[r].code = request[r].code
      /\ request'[r].identity = request[r].identity
      /\ request'[r].subject = request[r].subject /\ request'[r].state = request[r].state
      /\ request'[r].browser = request[r].browser
  BY <1>1, <1>4 DEF RequestType
<1>6. RequestOK(r)' /\ Using(r)
  BY <1>1, <1>5 DEF RequestOK, Confirmed, Using
<1>7. AttemptTypes'
  BY DEF AttemptTypes
<1> QED
  BY <1>3, <1>4, <1>5, <1>6, <1>7, CallStep DEF CallInv, CallTypes

\* What a step that leaves identities and accounts alone keeps.
LEMMA SameRows ==
  ASSUME IInv, UNCHANGED <<identityVars, linkedBy>>, confirmed \subseteq confirmed'
  PROVE  RowTypes' /\ RowsInv' /\ EveryIdentityCanReturn' /\ LinkedByItsOwner'
  BY DEF IInv, identityVars, RowTypes, RowsInv, EveryIdentityCanReturn, LinkedByItsOwner

\* What a step that leaves the attempts alone keeps.
LEMMA SameAttempts ==
  ASSUME IInv, UNCHANGED attemptVars, rows \subseteq rows'
  PROVE  AttemptTypes' /\ LinkInv'
  BY DEF IInv, attemptVars, AttemptTypes, LinkInv

\* What a step that is not a callback's keeps.
LEMMA SameCalls ==
  ASSUME IInv, UNCHANGED <<attemptVars, cookie, request, confirmed, accounts>>
  PROVE  CallInv'
  BY DEF IInv, attemptVars, CallInv, CallTypes, CookieInv, Confirmed, RequestInv, RequestOK,
         UsesInv, Using

-----------------------------------------------------------------------------
\* A new identity with a password has no provider account.
LEMMA RegisterStep ==
  ASSUME IInv, NEW i \in Identities, NEW e \in Emails \cup {NoEmail}, Register(i, e)
  PROVE  IInv'
<1> USE DEF Register, Create, historyVars
<1>1. RowTypes' /\ RowsInv' /\ EveryIdentityCanReturn' /\ LinkedByItsOwner'
  BY DEF IInv, RowTypes, RowsInv, EveryIdentityCanReturn, LinkedByItsOwner
<1>2. AttemptTypes' /\ LinkInv'
  BY SameAttempts
<1>3. CallInv'
  BY SameCalls
<1> QED
  BY <1>1, <1>2, <1>3 DEF IInv

\* Soft deletion takes neither rows nor accounts away.
LEMMA SoftDeleteStep ==
  ASSUME IInv, NEW i \in Identities, SoftDelete(i)
  PROVE  IInv'
<1> USE DEF SoftDelete, historyVars
<1>1. RowTypes' /\ RowsInv' /\ EveryIdentityCanReturn' /\ LinkedByItsOwner'
  BY DEF IInv, RowTypes, RowsInv, EveryIdentityCanReturn, LinkedByItsOwner
<1>2. AttemptTypes' /\ LinkInv'
  BY SameAttempts
<1>3. CallInv'
  BY SameCalls
<1> QED
  BY <1>1, <1>2, <1>3 DEF IInv

\* An attempt starts; nobody knows its state before.
LEMMA StartStep ==
  ASSUME IInv, NEW b \in Browsers, NEW s \in States, NEW i \in Identities \cup {NoIdentity},
         Start(b, s, i), confirmed \subseteq confirmed',
         i # NoIdentity => i \in rows /\ <<i, b>> \in confirmed'
  PROVE  IInv'
<1> USE DEF Start
<1>1. RowTypes' /\ RowsInv' /\ EveryIdentityCanReturn' /\ LinkedByItsOwner'
  BY SameRows
<1>2. AttemptTypes'
  BY DEF IInv, AttemptTypes
<1>3. \A t \in States \ {s} : attempt'[t] = attempt[t] /\ link'[t] = link[t]
  BY DEF IInv, AttemptTypes
<1>4. attempt'[s] \in {"stored", "gone"} /\ link'[s] = i
  BY DEF IInv, AttemptTypes
<1>5. LinkInv'
  BY <1>3, <1>4 DEF IInv, LinkInv, identityVars
<1>6. CallTypes'
  BY DEF IInv, CallInv, CallTypes, WithCookie
<1>7. \A c \in Browsers, t \in States : Confirmed(c, t) => t # s /\ Confirmed(c, t)'
  BY <1>3 DEF Confirmed
<1>8. CookieInv'
  <2> SUFFICES ASSUME NEW c \in Browsers, cookie'[c] # NoState PROVE Confirmed(c, cookie[c])'
    BY DEF CookieInv
  <2>1. CASE cookie'[c] = cookie[c]
    BY <2>1, <1>7 DEF IInv, CallInv, CallTypes, CookieInv
  <2>2. CASE c = b /\ cookie'[c] = s
    BY <2>2, <1>4 DEF Confirmed
  <2> QED
    BY <2>1, <2>2 DEF IInv, CallInv, CallTypes, WithCookie
<1>9. RequestInv' /\ UsesInv'
  <2>1. ASSUME NEW r \in Requests PROVE RequestOK(r)' /\ Using(r)' = Using(r)
    <3>1. RequestOK(r) /\ request'[r] = request[r] /\ request[r] \in RequestType
      BY DEF IInv, CallInv, CallTypes, RequestInv
    <3>2. CASE request[r].state = NoState
      BY <3>1, <3>2 DEF RequestOK, Using, Idle, identityVars
    <3>3. CASE request[r].state \in States
      <4>1. request[r].state # s
        BY <3>1, <3>3, SignInAssumption DEF RequestOK, Confirmed
      <4> QED
        BY <3>1, <3>3, <4>1, <1>3 DEF RequestOK, Confirmed, Using, identityVars
    <3> QED
      BY <3>1, <3>2, <3>3 DEF RequestType
  <2> QED
    BY <2>1 DEF IInv, CallInv, RequestInv, UsesInv
<1> QED
  BY <1>1, <1>2, <1>5, <1>6, <1>8, <1>9 DEF IInv, CallInv

\* An attempt that expires is gone and can be used by nobody.
LEMMA ExpireStep ==
  ASSUME IInv, NEW s \in States, Expire(s)
  PROVE  IInv'
<1> USE DEF Expire, historyVars
<1>1. RowTypes' /\ RowsInv' /\ EveryIdentityCanReturn' /\ LinkedByItsOwner'
  BY SameRows
<1>2. AttemptTypes' /\ LinkInv'
  BY DEF IInv, AttemptTypes, LinkInv, identityVars
<1>3. \A t \in States : attempt'[t] \in {attempt[t], "gone"}
  BY DEF IInv, AttemptTypes
<1>4. CallTypes' /\ CookieInv'
  BY <1>3 DEF IInv, CallInv, CallTypes, CookieInv, Confirmed
<1>5. ASSUME NEW r \in Requests PROVE RequestOK(r)' /\ Using(r)' = Using(r)
  <2>1. RequestOK(r) /\ request'[r] = request[r] /\ request[r] \in RequestType
    BY DEF IInv, CallInv, CallTypes, RequestInv
  <2>2. request[r].state # NoState => request[r].state \in States
    BY <2>1 DEF RequestType
  <2> QED
    BY <2>1, <2>2, <1>3 DEF RequestOK, Confirmed, Using, identityVars
<1>6. RequestInv' /\ UsesInv'
  BY <1>5 DEF IInv, CallInv, RequestInv, UsesInv
<1> QED
  BY <1>1, <1>2, <1>4, <1>6 DEF IInv, CallInv

\* A browser comes back; only one that carries the state goes on with it.
LEMMA CallbackStep ==
  ASSUME IInv, NEW r \in Requests, NEW b \in Browsers, NEW s \in States, Callback(r, b, s)
  PROVE  IInv'
<1>1. RowTypes' /\ RowsInv' /\ EveryIdentityCanReturn' /\ LinkedByItsOwner'
  BY SameRows DEF Callback, historyVars
<1>2. AttemptTypes' /\ LinkInv'
  BY SameAttempts DEF Callback, identityVars
<1>3. /\ request[r] = Idle /\ request \in [Requests -> RequestType]
      /\ request[r] \in RequestType
  BY DEF IInv, CallInv, CallTypes, RequestInv, RequestOK, Callback, At
<1>4. request[r].state = NoState /\ request[r].subject = NoSubject /\ request[r].code = 0
  BY <1>3 DEF Idle
<1>5. UNCHANGED <<attempt, link, confirmed, accounts>>
  BY DEF Callback, attemptVars, historyVars, identityVars
<1>6. CASE /\ cookie[b] = s /\ cookie' = cookie
           /\ request' = [request EXCEPT ![r].pc = "take", ![r].browser = b, ![r].state = s]
  <2> DEFINE new == [request[r] EXCEPT !.pc = "take", !.browser = b, !.state = s]
  <2>1. new \in RequestType
    BY <1>3 DEF RequestType, Steps
  <2>2. request' = [request EXCEPT ![r] = new]
    BY <1>3, <1>6
  <2>3. /\ request' \in [Requests -> RequestType]
        /\ \A q \in Requests \ {r} : request'[q] = request[q]
        /\ request'[r] = new
    BY <1>3, <2>1, <2>2
  <2>4. /\ request'[r].pc = "take" /\ request'[r].browser = b /\ request'[r].state = s
        /\ request'[r].subject = NoSubject /\ request'[r].code = 0
    BY <1>3, <1>4, <2>3 DEF RequestType
  <2>5. Confirmed(b, s)
    BY <1>6, SignInAssumption DEF IInv, CallInv, CookieInv
  <2>6. RequestOK(r)' /\ ~Using(r)'
    BY <1>5, <2>4, <2>5, SignInAssumption DEF RequestOK, Using, Confirmed
  <2>7. CallInv'
    BY <1>2, <1>5, <1>6, <2>3, <2>6, CallStep DEF IInv, CallInv, CallTypes
  <2> QED
    BY <1>1, <1>2, <2>7 DEF IInv
<1> DEFINE code == 400
<1>7. code \in Codes \ {0, 200}
  BY DEF Codes
<1>8. \/ /\ cookie[b] = s /\ cookie' = cookie
         /\ request' = [request EXCEPT ![r].pc = "take", ![r].browser = b, ![r].state = s]
      \/ /\ cookie' = [cookie EXCEPT ![b] = NoState]
         /\ request' = [request EXCEPT ![r].pc = "done", ![r].code = code]
  BY DEF Callback, StateMatches
<1> HIDE DEF code
<1>9. CASE /\ cookie' = [cookie EXCEPT ![b] = NoState]
           /\ request' = [request EXCEPT ![r].pc = "done", ![r].code = code]
  <2> DEFINE new == [request[r] EXCEPT !.pc = "done", !.code = code]
  <2>2. new \in RequestType
    BY <1>3, <1>7 DEF RequestType, Steps
  <2>3. request' = [request EXCEPT ![r] = new]
    BY <1>3, <1>9
  <2>4. /\ request' \in [Requests -> RequestType]
        /\ \A q \in Requests \ {r} : request'[q] = request[q]
        /\ request'[r] = new
    BY <1>3, <2>2, <2>3
  <2>5. /\ request'[r].pc = "done" /\ request'[r].state = NoState
        /\ request'[r].subject = NoSubject /\ request'[r].code # 200
    BY <1>3, <1>4, <1>7, <2>4 DEF RequestType
  <2>6. RequestOK(r)' /\ ~Using(r)'
    BY <2>5 DEF RequestOK, Using
  <2>7. /\ cookie' \in [Browsers -> States \cup {NoState}]
        /\ \A c \in Browsers : cookie'[c] \in {cookie[c], NoState}
    BY <1>9 DEF IInv, CallInv, CallTypes
  <2>8. CallInv'
    BY <1>2, <1>5, <2>4, <2>6, <2>7, CallStep DEF IInv
  <2> QED
    BY <1>1, <1>2, <2>8 DEF IInv
<1> QED
  BY <1>6, <1>8, <1>9

\* GETDEL: of the callbacks with one state one finds the attempt.
LEMMA TakeStep ==
  ASSUME IInv, NEW r \in Requests, Take(r)
  PROVE  IInv'
<1> DEFINE s == request[r].state
<1>1. RowTypes' /\ RowsInv' /\ EveryIdentityCanReturn' /\ LinkedByItsOwner'
  BY SameRows DEF Take, historyVars
<1>2. request[r] \in RequestType /\ RequestOK(r) /\ request[r].pc = "take" /\ s \in States
  BY DEF IInv, CallInv, CallTypes, RequestInv, RequestOK, RequestType, Take, At
<1>3. /\ AttemptTypes' /\ link' = link /\ confirmed' = confirmed /\ accounts' = accounts
      /\ \A t \in States : attempt'[t] \in {attempt[t], "gone"}
  BY <1>2 DEF IInv, AttemptTypes, Take, Taken, identityVars, historyVars, Refuse, Finish, Goto
<1>4. LinkInv'
  BY <1>3 DEF IInv, LinkInv, AttemptTypes, Take, identityVars
<1>5. CASE \E code \in {400, 503} : Refuse(r, code)
  <2>1. CallInv'
    BY <1>2, <1>3, <1>5, FinishStep DEF IInv, Refuse, Codes
  <2> QED
    BY <1>1, <1>3, <1>4, <2>1 DEF IInv
<1>6. CASE attempt[s] = "stored" /\ attempt' = Taken(s) /\ Goto(r, "exchange")
  <2> DEFINE new == [request[r] EXCEPT !.pc = "exchange"]
  <2>1. new \in RequestType
    BY <1>2 DEF RequestType, Steps
  <2>2. request' = [request EXCEPT ![r] = new] /\ cookie' = cookie
    BY <1>6 DEF Goto, IInv, CallInv, CallTypes
  <2>3. /\ request' \in [Requests -> RequestType]
        /\ \A q \in Requests \ {r} : request'[q] = request[q]
        /\ request'[r] = new
    BY <2>1, <2>2 DEF IInv, CallInv, CallTypes
  <2>4. /\ request'[r].pc = "exchange" /\ request'[r].code = request[r].code
        /\ request'[r].subject = request[r].subject /\ request'[r].state = s
        /\ request'[r].browser = request[r].browser
    BY <1>2, <2>3 DEF RequestType
  <2>5. attempt'[s] = "gone"
    BY <1>2, <1>6 DEF Taken, IInv, AttemptTypes
  <2>6. RequestOK(r)'
    BY <1>2, <1>3, <2>4, <2>5 DEF RequestOK, Confirmed, Using
  <2>7. \A q \in Requests \ {r} : request[q].state = s => ~Using(q)
    BY <1>6 DEF IInv, CallInv, RequestInv, RequestOK
  <2>8. CallInv'
    BY <1>3, <2>2, <2>3, <2>4, <2>6, <2>7, CallStep DEF IInv, CallInv, CallTypes
  <2> QED
    BY <1>1, <1>3, <1>4, <2>8 DEF IInv
<1> QED
  BY <1>5, <1>6 DEF Take

\* The provider tells who signed in; a callback without the attempt never asks.
LEMMA ExchangeStep ==
  ASSUME IInv, NEW r \in Requests, Exchange(r)
  PROVE  IInv'
<1> DEFINE s == request[r].state
<1>1. RowTypes' /\ RowsInv' /\ EveryIdentityCanReturn' /\ LinkedByItsOwner'
  BY SameRows DEF Exchange, historyVars
<1>2. AttemptTypes' /\ LinkInv'
  BY SameAttempts DEF Exchange, identityVars
<1>3. request[r] \in RequestType /\ RequestOK(r) /\ request[r].pc = "exchange" /\ s \in States
  BY DEF IInv, CallInv, CallTypes, RequestInv, RequestOK, RequestType, Exchange, At
<1>4. UNCHANGED <<attempt, link, confirmed, accounts>>
  BY DEF Exchange, attemptVars, historyVars, identityVars
<1>5. CASE \E code \in ExchangeErrors : Refuse(r, code)
  <2>1. CallInv'
    BY <1>2, <1>3, <1>4, <1>5, FinishStep DEF IInv, Refuse, Codes, ExchangeErrors
  <2> QED
    BY <1>1, <1>2, <2>1 DEF IInv
<1>6. CASE \E u \in Subjects : \E e \in EmailsOf[u] :
             /\ request' = [request EXCEPT ![r].subject = u, ![r].email = e,
                  ![r].pc = IF link[request[r].state] = NoIdentity THEN "signIn" ELSE "link"]
             /\ UNCHANGED cookie
  <2>1. PICK u \in Subjects, e \in Emails :
          /\ request' = [request EXCEPT ![r].subject = u, ![r].email = e,
               ![r].pc = IF link[request[r].state] = NoIdentity THEN "signIn" ELSE "link"]
          /\ cookie' = cookie
    BY <1>6, SignInAssumption
  <2> DEFINE step == IF link[s] = NoIdentity THEN "signIn" ELSE "link"
             new == [request[r] EXCEPT !.subject = u, !.email = e, !.pc = step]
  <2>2. new \in RequestType
    BY <1>3 DEF RequestType, Steps
  <2>3. request' = [request EXCEPT ![r] = new]
    BY <2>1 DEF IInv, CallInv, CallTypes
  <2>4. /\ request' \in [Requests -> RequestType]
        /\ \A q \in Requests \ {r} : request'[q] = request[q]
        /\ request'[r] = new
    BY <2>2, <2>3 DEF IInv, CallInv, CallTypes
  <2>5. /\ request'[r].pc = step /\ request'[r].code = request[r].code
        /\ request'[r].subject = u /\ request'[r].state = s
        /\ request'[r].browser = request[r].browser
    BY <1>3, <2>4 DEF RequestType
  <2>6. RequestOK(r)' /\ Using(r)
    BY <1>3, <1>4, <2>5, SignInAssumption DEF RequestOK, Confirmed, Using
  <2>7. CallInv'
    BY <1>2, <1>4, <2>1, <2>4, <2>5, <2>6, CallStep DEF IInv, CallInv, CallTypes
  <2> QED
    BY <1>1, <1>2, <2>7 DEF IInv
<1> QED
  BY <1>5, <1>6 DEF Exchange

\* The reads of a transaction, and its end without a new account.
LEMMA ReadStep ==
  ASSUME IInv, NEW r \in Requests, UNCHANGED <<identityVars, attemptVars, historyVars>>,
         request[r].pc \notin {"idle", "done"},
         \/ /\ Goto(r, "findByEmail") /\ request[r].pc = "signIn"
         \/ /\ Goto(r, "signUp") /\ request[r].pc = "findByEmail"
         \/ /\ Goto(r, "createLink") /\ request[r].pc = "link"
         \/ \E code \in Codes, i \in Identities \cup {NoIdentity} :
              /\ Finish(r, code, i)
              /\ code = 200 => <<request[r].subject, i>> \in accounts
  PROVE  IInv'
<1>1. RowTypes' /\ RowsInv' /\ EveryIdentityCanReturn' /\ LinkedByItsOwner'
  BY SameRows DEF historyVars
<1>2. AttemptTypes' /\ LinkInv'
  BY SameAttempts DEF identityVars
<1>3. UNCHANGED <<attempt, link, confirmed, accounts>>
  BY DEF identityVars, attemptVars, historyVars
<1>4. CASE \/ /\ Goto(r, "findByEmail") /\ request[r].pc = "signIn"
           \/ /\ Goto(r, "signUp") /\ request[r].pc = "findByEmail"
           \/ /\ Goto(r, "createLink") /\ request[r].pc = "link"
  BY <1>1, <1>2, <1>3, <1>4, GotoStep DEF IInv
<1>5. ASSUME NEW code \in Codes, NEW i \in Identities \cup {NoIdentity}, Finish(r, code, i),
             code = 200 => <<request[r].subject, i>> \in accounts
      PROVE  IInv'
  <2>1. CallInv'
    BY <1>2, <1>3, <1>5, FinishStep DEF IInv
  <2> QED
    BY <1>1, <1>2, <2>1 DEF IInv
<1> QED
  BY <1>4, <1>5

\* The codes a callback is refused with.
LEMMA RefusedCodes == {400, 401, 409, 500, 503} \subseteq Codes \ {200} /\ 200 \in Codes
  BY DEF Codes

\* The account that is found is the one of the subject.
LEMMA FindAccountStep ==
  ASSUME IInv, NEW r \in Requests, FindAccount(r)
  PROVE  IInv'
<1>1. \A a \in AccountsOf(request[r].subject) :
        a = <<request[r].subject, a[2]>> /\ a[2] \in Identities /\ a \in accounts
  BY DEF AccountsOf, IInv, RowTypes
<1>2. \/ Goto(r, "findByEmail")
      \/ \E a \in AccountsOf(request[r].subject) : Finish(r, 200, a[2])
      \/ Finish(r, 401, NoIdentity)
  BY DEF FindAccount, Refuse
<1>3. UNCHANGED <<identityVars, attemptVars, historyVars>> /\ request[r].pc = "signIn"
  BY DEF FindAccount, At
<1>4. CASE Goto(r, "findByEmail")
  BY <1>3, <1>4, ReadStep
<1>5. CASE \E a \in AccountsOf(request[r].subject) : Finish(r, 200, a[2])
  <2>1. PICK a \in AccountsOf(request[r].subject) : Finish(r, 200, a[2])
    BY <1>5
  <2> QED
    BY <1>1, <1>3, <2>1, RefusedCodes, ReadStep
<1>6. CASE Finish(r, 401, NoIdentity)
  BY <1>3, <1>6, RefusedCodes, ReadStep
<1> QED
  BY <1>2, <1>4, <1>5, <1>6

\* The look-up by email goes on to the sign-up or ends the callback.
LEMMA FindByEmailStep ==
  ASSUME IInv, NEW r \in Requests, FindByEmail(r)
  PROVE  IInv'
<1>1. Goto(r, "signUp") \/ Finish(r, 409, NoIdentity)
  BY DEF FindByEmail, Refuse
<1>2. UNCHANGED <<identityVars, attemptVars, historyVars>> /\ request[r].pc = "findByEmail"
  BY DEF FindByEmail, At
<1>3. CASE Goto(r, "signUp")
  BY <1>2, <1>3, ReadStep
<1>4. CASE Finish(r, 409, NoIdentity)
  BY <1>2, <1>4, RefusedCodes, ReadStep
<1> QED
  BY <1>1, <1>3, <1>4

\* Linking twice answers 200 only for the identity that has the account.
LEMMA FindLinkedStep ==
  ASSUME IInv, NEW r \in Requests, FindLinked(r)
  PROVE  IInv'
<1> DEFINE u == request[r].subject
<1>1. \A a \in AccountsOf(u) : a = <<u, a[2]>> /\ a[2] \in Identities /\ a \in accounts
  BY DEF AccountsOf, IInv, RowTypes
<1>2. \/ Goto(r, "createLink")
      \/ \E a \in AccountsOf(u) : Finish(r, 200, a[2])
      \/ Finish(r, 401, NoIdentity)
      \/ Finish(r, 409, NoIdentity)
  BY DEF FindLinked, Refuse
<1>3. UNCHANGED <<identityVars, attemptVars, historyVars>> /\ request[r].pc = "link"
  BY DEF FindLinked, At
<1>4. CASE Goto(r, "createLink")
  BY <1>3, <1>4, ReadStep
<1>5. CASE \E a \in AccountsOf(u) : Finish(r, 200, a[2])
  <2>1. PICK a \in AccountsOf(u) : Finish(r, 200, a[2])
    BY <1>5
  <2> QED
    BY <1>1, <1>3, <2>1, RefusedCodes, ReadStep
<1>6. CASE Finish(r, 401, NoIdentity)
  BY <1>3, <1>6, RefusedCodes, ReadStep
<1>7. CASE Finish(r, 409, NoIdentity)
  BY <1>3, <1>7, RefusedCodes, ReadStep
<1> QED
  BY <1>2, <1>4, <1>5, <1>6, <1>7

\* Identity, account and outbox row appear together, and only for a subject
\* that has none.
LEMMA SignUpStep ==
  ASSUME IInv, NEW r \in Requests, SignUp(r)
  PROVE  IInv'
<1> DEFINE u == request[r].subject
<1>1. request[r] \in RequestType /\ request[r].pc = "signUp" /\ u \in Subjects
  BY DEF IInv, CallInv, CallTypes, RequestInv, RequestOK, RequestType, SignUp, At
<1>2. UNCHANGED <<password, deleted, attemptVars, historyVars>>
  BY DEF SignUp
<1>3. CASE Refuse(r, 409) /\ UNCHANGED <<rows, email, accounts, outbox>>
  BY <1>1, <1>2, <1>3, RefusedCodes, ReadStep DEF Refuse, identityVars
<1>4. CASE /\ ~SubjectTaken(u)
           /\ \E i \in Identities :
                 /\ Create(i, request[r].email)
                 /\ accounts' = accounts \cup {<<u, i>>}
                 /\ Finish(r, 200, i)
  <2>1. PICK i \in Identities : /\ Create(i, request[r].email)
                                /\ accounts' = accounts \cup {<<u, i>>}
                                /\ Finish(r, 200, i)
    BY <1>4
  <2>2. \A a \in accounts : a[1] # u /\ a[2] # i
    BY <1>4, <2>1 DEF SubjectTaken, AccountsOf, Create, IInv, RowsInv
  <2>3. RowTypes'
    BY <1>1, <1>2, <2>1 DEF IInv, RowTypes, Create, historyVars, RequestType
  <2>4. RowsInv'
    BY <1>2, <2>1, <2>2 DEF IInv, RowsInv, Create
  <2>5. EveryIdentityCanReturn'
    <3>1. <<u, i>> \in accounts' /\ <<u, i>>[2] = i /\ accounts \subseteq accounts'
      BY <2>1
    <3> QED
      BY <1>2, <2>1, <3>1 DEF IInv, EveryIdentityCanReturn, Create
  <2>6. LinkedByItsOwner'
    BY <1>2, <2>1, <2>2 DEF IInv, RowsInv, LinkedByItsOwner, Create, historyVars
  <2>7. AttemptTypes' /\ LinkInv'
    BY <1>2, <2>1, SameAttempts DEF Create
  <2>8. CallInv'
    <3>1. UNCHANGED <<attempt, link, confirmed>>
      BY <1>2 DEF attemptVars, historyVars
    <3>2. accounts \subseteq accounts' /\ <<u, i>> \in accounts' /\ 200 \in Codes
      BY <2>1, RefusedCodes
    <3> QED
      BY <1>1, <2>1, <2>7, <3>1, <3>2, FinishStep DEF IInv
  <2> QED
    BY <2>3, <2>4, <2>5, <2>6, <2>7, <2>8 DEF IInv
<1> QED
  BY <1>3, <1>4 DEF SignUp

\* The account is linked for the browser that had confirmed the password.
LEMMA CreateLinkStep ==
  ASSUME IInv, NEW r \in Requests, CreateLink(r)
  PROVE  IInv'
<1> DEFINE u == request[r].subject
           i == link[request[r].state]
           b == request[r].browser
<1>1. /\ request[r] \in RequestType /\ request[r].pc = "createLink"
      /\ u \in Subjects /\ request[r].state \in States /\ b \in Browsers
  BY DEF IInv, CallInv, CallTypes, RequestInv, RequestOK, RequestType, CreateLink, At
<1>2. i \in Identities /\ i \in rows /\ <<i, b>> \in confirmed
  <2>1. i # NoIdentity /\ Confirmed(b, request[r].state)
    BY <1>1, SignInAssumption DEF IInv, CallInv, RequestInv, RequestOK
  <2> QED
    BY <1>1, <2>1 DEF IInv, AttemptTypes, LinkInv, Confirmed
<1>3. UNCHANGED <<rows, email, password, deleted, outbox, attemptVars, confirmed>>
  BY DEF CreateLink
<1>4. CASE Refuse(r, 409) /\ UNCHANGED <<accounts, linkedBy>>
  BY <1>1, <1>3, <1>4, RefusedCodes, ReadStep DEF Refuse, identityVars, historyVars
<1>5. CASE /\ ~SubjectTaken(u) /\ \A a \in accounts : a[2] # i
           /\ accounts' = accounts \cup {<<u, i>>}
           /\ linkedBy' = [linkedBy EXCEPT ![i] = b]
           /\ Finish(r, 200, i)
  <2>1. \A a \in accounts : a[1] # u
    BY <1>5 DEF SubjectTaken, AccountsOf
  <2>2. RowTypes'
    BY <1>1, <1>2, <1>3, <1>5 DEF IInv, RowTypes
  <2>3. RowsInv'
    BY <1>2, <1>3, <1>5, <2>1 DEF IInv, RowsInv
  <2>4. EveryIdentityCanReturn'
    BY <1>3, <1>5 DEF IInv, EveryIdentityCanReturn
  <2>5. LinkedByItsOwner'
    BY <1>2, <1>3, <1>5 DEF IInv, RowTypes, LinkedByItsOwner
  <2>6. AttemptTypes' /\ LinkInv'
    BY <1>3, SameAttempts
  <2>7. CallInv'
    <3>1. UNCHANGED <<attempt, link, confirmed>>
      BY <1>3 DEF attemptVars
    <3>2. accounts \subseteq accounts' /\ <<u, i>> \in accounts' /\ 200 \in Codes
      BY <1>5, RefusedCodes
    <3> QED
      BY <1>1, <1>2, <1>5, <2>6, <3>1, <3>2, FinishStep DEF IInv
  <2> QED
    BY <2>2, <2>3, <2>4, <2>5, <2>6, <2>7 DEF IInv
<1> QED
  BY <1>4, <1>5 DEF CreateLink

\* A callback that fails or dies leaves nothing behind.
LEMMA FailStep ==
  ASSUME IInv, NEW r \in Requests, Fail(r)
  PROVE  IInv'
<1>1. UNCHANGED <<identityVars, attemptVars, historyVars>> /\ request[r].pc \notin {"idle", "done"}
  BY DEF Fail
<1>2. CASE Refuse(r, 500)
  BY <1>1, <1>2, RefusedCodes, ReadStep DEF Refuse
<1>3. CASE request' = [request EXCEPT ![r].pc = "done"] /\ UNCHANGED cookie
  <2>1. request[r] \in RequestType /\ RequestOK(r)
    BY DEF IInv, CallInv, CallTypes, RequestInv
  <2> DEFINE new == [request[r] EXCEPT !.pc = "done"]
  <2>2. new \in RequestType
    BY <2>1 DEF RequestType, Steps
  <2>3. request' = [request EXCEPT ![r] = new]
    BY <1>3 DEF IInv, CallInv, CallTypes
  <2>4. /\ request' \in [Requests -> RequestType]
        /\ \A q \in Requests \ {r} : request'[q] = request[q]
        /\ request'[r] = new
    BY <2>2, <2>3 DEF IInv, CallInv, CallTypes
  <2>5. /\ request'[r].pc = "done" /\ request'[r].code = request[r].code
        /\ request'[r].subject = request[r].subject /\ request'[r].state = request[r].state
        /\ request'[r].browser = request[r].browser
    BY <2>1, <2>4 DEF RequestType
  <2>6. UNCHANGED <<attempt, link, confirmed, accounts, rows, linkedBy>>
    BY <1>1 DEF identityVars, attemptVars, historyVars
  <2>7. RequestOK(r)' /\ (Using(r)' => Using(r))
    BY <1>1, <2>1, <2>5, <2>6 DEF RequestOK, Confirmed, Using
  <2>8. AttemptTypes' /\ LinkInv'
    BY <1>1, <2>6, SameAttempts
  <2>9. CallInv'
    BY <1>3, <2>4, <2>5, <2>6, <2>7, <2>8, CallStep DEF IInv, CallInv, CallTypes
  <2> QED
    BY <1>1, <2>6, <2>8, <2>9, SameRows DEF IInv
<1> QED
  BY <1>2, <1>3 DEF Fail

-----------------------------------------------------------------------------
\* Nobody has an identity and no sign-in is under way.
LEMMA InitInv == Init => IInv
<1> SUFFICES ASSUME Init PROVE IInv
  OBVIOUS
<1>1. Idle \in RequestType
  BY DEF Idle, RequestType, Steps, Codes
<1>2. Idle.pc = "idle" /\ Idle.state = NoState /\ Idle.subject = NoSubject /\ Idle.code = 0
  BY DEF Idle
<1>3. RowTypes /\ AttemptTypes /\ RowsInv /\ LinkInv /\ EveryIdentityCanReturn /\ LinkedByItsOwner
  BY DEF Init, RowTypes, AttemptTypes, RowsInv, LinkInv, EveryIdentityCanReturn, LinkedByItsOwner
<1>4. CallInv
  BY <1>1, <1>2 DEF Init, CallInv, CallTypes, CookieInv, RequestInv, RequestOK, UsesInv, Using
<1> QED
  BY <1>3, <1>4 DEF IInv

\* Every step keeps the invariant.
LEMMA NextInv == IInv /\ [Next]_vars => IInv'
<1> SUFFICES ASSUME IInv, [Next]_vars PROVE IInv'
  OBVIOUS
<1>1. CASE UNCHANGED vars
  <2>1. UNCHANGED <<identityVars, attemptVars, cookie, request, historyVars>>
    BY <1>1 DEF vars
  <2> QED
    BY <2>1, SameRows, SameAttempts, SameCalls DEF IInv, identityVars, historyVars
<1>2. ASSUME NEW b \in Browsers, NEW s \in States, Authorize(b, s) PROVE IInv'
  BY <1>2, StartStep DEF Authorize
<1>3. ASSUME NEW b \in Browsers, NEW s \in States, NEW i \in Identities, Link(b, s, i)
      PROVE  IInv'
  BY <1>3, StartStep DEF Link, CanConfirm, Live
<1>4. CASE Next
  BY <1>2, <1>3, <1>4, RegisterStep, SoftDeleteStep, ExpireStep, CallbackStep, TakeStep,
     ExchangeStep, FindAccountStep, FindByEmailStep, SignUpStep, FindLinkedStep,
     CreateLinkStep, FailStep
  DEF Next, Step
<1> QED
  BY <1>1, <1>4

\* Attempts, cookies, callbacks and rows keep the relations that the answers
\* of the callback rest on.
THEOREM SignInInvariant == Spec => []IInv
  BY InitInv, NextInv, PTL DEF Spec

\* An identity with a password gets a provider account only through a browser
\* that gave that password and came back with its own state.
THEOREM NeverLinkedSilently == Spec => []LinkedByItsOwner
<1>1. IInv => LinkedByItsOwner
  BY DEF IInv
<1> QED
  BY <1>1, SignInInvariant, PTL

\* A sign-up is all or nothing.
THEOREM NoHalfSignUp == Spec => []EveryIdentityCanReturn
<1>1. IInv => EveryIdentityCanReturn
  BY DEF IInv
<1> QED
  BY <1>1, SignInInvariant, PTL

\* A state is good for one callback.
THEOREM OneCallbackPerAttempt == Spec => []AttemptWorksOnce
<1>1. IInv => AttemptWorksOnce
  BY DEF IInv, CallInv, UsesInv, Using, AttemptWorksOnce
<1> QED
  BY <1>1, SignInInvariant, PTL

\* A subject is let in as one identity only, however often and however
\* concurrently it comes.
THEOREM SubjectIsOneIdentity == Spec => []SameIdentityEveryTime
<1>1. IInv => SameIdentityEveryTime
  <2> SUFFICES ASSUME IInv, NEW r \in Requests, NEW q \in Requests,
                      request[r].code = 200, request[q].code = 200,
                      request[r].subject = request[q].subject
               PROVE  request[r].identity = request[q].identity
    BY DEF SameIdentityEveryTime
  <2>1. /\ <<request[r].subject, request[r].identity>> \in accounts
        /\ <<request[q].subject, request[q].identity>> \in accounts
    BY DEF IInv, CallInv, RequestInv, RequestOK
  <2>2. <<request[r].subject, request[r].identity>> = <<request[q].subject, request[q].identity>>
    BY <2>1 DEF IInv, RowsInv
  <2> QED
    BY <2>2
<1> QED
  BY <1>1, SignInInvariant, PTL

=============================================================================
