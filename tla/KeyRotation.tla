---------------------------- MODULE KeyRotation ----------------------------
(***************************************************************************)
(* The keys of access tokens (src/generic/auth, src/identity/service,      *)
(* src/generic/secret-manager).  Every pod re-reads the public keys it     *)
(* verifies with and the private key it signs with from the vault; the     *)
(* operator replaces key k1 by k2 as the repository's README describes.    *)
(*                                                                         *)
(* A load is two steps, the answer of the vault and the assignment of the  *)
(* keys, between which anything may happen.  A load ends before the next   *)
(* @Interval starts the same one.  A pod that dies while it starts, or     *)
(* that cannot read the vault then, is started again.                      *)
(***************************************************************************)
EXTENDS KeyRotationState

vaultVars == <<public, private, stage, waited>>
podVars == <<kids, signing, readKeys, readKey, session>>
vars == <<vaultVars, podVars, alive, faults, restarts>>

Init ==
  /\ public = {k1} /\ private = k1 /\ stage = "start" /\ waited = 0
  /\ kids = [p \in Pods |-> {k1}]
  /\ signing = [p \in Pods |-> k1]
  /\ readKeys = [p \in Pods |-> {}]
  /\ readKey = [p \in Pods |-> NoKey]
  /\ session = [p \in Pods |-> "valid"]
  /\ alive = [k \in Keys |-> 0]
  /\ faults = 0 /\ restarts = 0

-----------------------------------------------------------------------------
\* Variant: a read that fails does not lead to a new login.
CanReadValid(p) == session[p] = "valid"

\* ready: a session that expired is renewed after the first read failed; a
\* login that was rejected stays in `session`, and get throws before its try.
CanRead(p) == session[p] # "rejected"

\* get answers, after a second login and a second read if need be.
Get(p) ==
  /\ CanRead(p)
  /\ session' = [session EXCEPT ![p] = "valid"]

FetchKeys(p) ==
  /\ readKeys[p] = {}
  /\ Get(p)
  /\ readKeys' = [readKeys EXCEPT ![p] = public]
  /\ UNCHANGED <<vaultVars, kids, signing, readKey, alive, faults, restarts>>

\* The rest of JwtVerificationKeysService.load.
LoadKeys(p) ==
  /\ readKeys[p] # {}
  /\ kids' = [kids EXCEPT ![p] = readKeys[p]]
  /\ readKeys' = [readKeys EXCEPT ![p] = {}]
  /\ UNCHANGED <<vaultVars, signing, readKey, session, alive, faults, restarts>>

\* A starting pod has its verification keys first.
FetchSigningKey(p) ==
  /\ readKey[p] = NoKey /\ kids[p] # {}
  /\ Get(p)
  /\ readKey' = [readKey EXCEPT ![p] = private]
  /\ UNCHANGED <<vaultVars, kids, signing, readKeys, alive, faults, restarts>>

\* The rest of TokenService.loadSigningKey; a key that the pod could not
\* verify with is only logged.
LoadSigningKey(p) ==
  /\ readKey[p] # NoKey
  /\ signing' = [signing EXCEPT ![p] = readKey[p]]
  /\ readKey' = [readKey EXCEPT ![p] = NoKey]
  /\ UNCHANGED <<vaultVars, kids, readKeys, session, alive, faults, restarts>>

\* Variant: a load clears the keys before it reads the new ones.
KeptNone(p) == {}

\* What a pod verifies with after a load that failed.
Kept(p) == kids[p]

\* A load fails in a pod that serves: the second read failed, or the second
\* login did, whose rejected promise stays.  The keys stay as they are.
GetFails(p) ==
  /\ Up(p) /\ CanRead(p) /\ faults < MaxFaults
  /\ faults' = faults + 1
  /\ \E s \in {"valid", "rejected"} : session' = [session EXCEPT ![p] = s]
  /\ kids' = [kids EXCEPT ![p] = Kept(p)]
  /\ UNCHANGED <<vaultVars, signing, readKeys, readKey, alive, restarts>>

\* The vault's own access token runs out.
SessionExpires(p) ==
  /\ session[p] = "valid"
  /\ session' = [session EXCEPT ![p] = "expired"]
  /\ UNCHANGED <<vaultVars, kids, signing, readKeys, readKey, alive, faults, restarts>>

\* The pod is replaced by one that starts.
Restart(p) ==
  /\ restarts < MaxRestarts
  /\ restarts' = restarts + 1
  /\ kids' = [kids EXCEPT ![p] = {}]
  /\ signing' = [signing EXCEPT ![p] = NoKey]
  /\ readKeys' = [readKeys EXCEPT ![p] = {}]
  /\ readKey' = [readKey EXCEPT ![p] = NoKey]
  /\ session' = [session EXCEPT ![p] = "valid"]
  /\ UNCHANGED <<vaultVars, alive, faults>>

\* createTokenPair signs an access token.
Sign(p) ==
  /\ Up(p)
  /\ alive' = [alive EXCEPT ![signing[p]] = Lifetime]
  /\ UNCHANGED <<vaultVars, podVars, faults, restarts>>

Tick ==
  /\ alive' = [k \in Keys |-> IF alive[k] = 0 THEN 0 ELSE alive[k] - 1]
  /\ waited' = IF stage = "waiting" /\ waited < Lifetime THEN waited + 1 ELSE waited
  /\ UNCHANGED <<public, private, stage, podVars, faults, restarts>>

-----------------------------------------------------------------------------
\* The operator's part: two keys to verify with ...
AddKey ==
  /\ stage = "start"
  /\ public' = {k1, k2}
  /\ stage' = "added"
  /\ UNCHANGED <<private, waited>>

\* ... "Wait until every pod has logged" both, then sign with the new one ...
SwitchKey ==
  /\ stage = "added"
  /\ \A p \in Pods : Up(p) /\ kids[p] = {k1, k2}
  /\ private' = k2
  /\ stage' = "switched"
  /\ UNCHANGED <<public, waited>>

SeeSwitched ==
  /\ stage = "switched"
  /\ \A p \in Pods : signing[p] = k2
  /\ stage' = "waiting"
  /\ UNCHANGED <<public, private, waited>>

\* ... and "15 min + 5 s after the last pod" without the old one.
RemoveKey ==
  /\ stage = "waiting"
  /\ waited = Lifetime
  /\ public' = {k2}
  /\ stage' = "removed"
  /\ UNCHANGED <<private, waited>>

\* "If k1 leaked, skip the waiting."
ReplaceLeaked ==
  /\ stage # "removed"
  /\ public' = {k2} /\ private' = k2
  /\ stage' = "replaced"
  /\ UNCHANGED waited

Operator ==
  /\ AddKey \/ SwitchKey \/ SeeSwitched \/ RemoveKey \/ ReplaceLeaked
  /\ UNCHANGED <<podVars, alive, faults, restarts>>

Refresh(p) == FetchKeys(p) \/ LoadKeys(p)
RefreshSigningKey(p) == FetchSigningKey(p) \/ LoadSigningKey(p)

Next ==
  \/ \E p \in Pods :
       \/ Refresh(p) \/ RefreshSigningKey(p)
       \/ GetFails(p) \/ SessionExpires(p) \/ Restart(p) \/ Sign(p)
  \/ Operator \/ Tick

\* @Interval keeps starting both loads; nothing else is fair.
Fairness ==
  \A p \in Pods :
    /\ WF_vars(FetchKeys(p)) /\ WF_vars(LoadKeys(p))
    /\ WF_vars(FetchSigningKey(p)) /\ WF_vars(LoadSigningKey(p))

Spec == Init /\ [][Next]_vars /\ Fairness

-----------------------------------------------------------------------------
\* README: "both sides re-read the vault every 60 s without a restart": a pod
\* ends up with the keys of the vault, so that it stops accepting a leaked one.
\* The one way out is a login that was rejected: the pod keeps its keys until
\* it is restarted.
EveryPodFollows ==
  \A p \in Pods :
    <>[](session[p] = "rejected" \/ (kids[p] = public /\ signing[p] = private))

=============================================================================
