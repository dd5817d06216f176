------------------------- MODULE KeyRotationState -------------------------
(***************************************************************************)
(* The state of the keys of access tokens, in the vault and in the pods,   *)
(* and what holds of it in every state; the steps are in module            *)
(* KeyRotation.                                                            *)
(***************************************************************************)
EXTENDS Naturals

CONSTANTS Pods, Keys,
          k1, k2,       \* the key in use and its successor
          NoKey,
          Lifetime,     \* ACCESS_TOKEN_TTL_SECONDS and the clock tolerance
          MaxFaults,    \* bound: loads that fail
          MaxRestarts   \* bound: pods restarted

ASSUME KeyRotationAssumption ==
  /\ k1 \in Keys /\ k2 \in Keys /\ k1 # k2 /\ NoKey \notin Keys
  /\ Lifetime \in Nat /\ MaxFaults \in Nat /\ MaxRestarts \in Nat

VARIABLES public,    \* JWT_PUBLIC_KEY in the vault: a set of keys
          private,   \* JWT_PRIVATE_KEY in the vault
          stage,     \* how far the operator is
          waited,    \* how long the operator has seen every pod sign with k2
          kids,      \* loadedKids of a pod, {}: it is starting
          signing,   \* keyId of a pod, NoKey: it is starting
          readKeys,  \* what the load of the verification keys has read
          readKey,   \* what the load of the signing key has read
          session,   \* SecretManagerService.session: "valid", "expired", "rejected"
          alive,     \* how long the last token signed with a key still lives
          faults, restarts

-----------------------------------------------------------------------------
\* A pod serves once TokenService.onModuleInit has its key.
Up(p) == signing[p] # NoKey

\* verifySignature: getKey finds the key that the token names; an unknown kid is 401.
GetKeyFinds(p, k) == k \in kids[p]

\* README: "Key rotation without downtime": while the operator follows the
\* steps every pod that serves accepts every access token that has not
\* expired, whichever pod signed it, through failed loads and restarts.
EveryTokenVerifies ==
  \A k \in Keys, p \in Pods :
    alive[k] > 0 /\ Up(p) /\ stage # "replaced" => GetKeyFinds(p, k)

=============================================================================
