------------------------- MODULE ProvisioningState -------------------------
(***************************************************************************)
(* The tables, outboxes and offsets of provisioning, and what holds of     *)
(* them in every state; the steps are in module Provisioning.              *)
(***************************************************************************)
EXTENDS Naturals

CONSTANTS Requests,   \* POST /auth/register, each with its own identity id
          Login,      \* Login[q]: the email or phone it registers
          Refused     \* logins that @IsEmail lets register (or a provider names), and
                      \* z.email() of identityRegisteredEventSchema does not let pass

ASSUME ProvisioningAssumption == DOMAIN Login = Requests

VARIABLES identities,  \* rows of Identity
          users,       \* rows of User, by identityId
          accounts,    \* rows of Account, by the identity of their customerId
          buyers,      \* rows of OrderBuyer, by identityPublicId
          deadLetters, \* the topic user.profile.dlt: identities whose event was rejected
          offset,      \* committed offset of each consumer group
          iRow, iPhase, iClaimed, iSent, iLog, iFaults,  \* the identity outbox
          uRow, uPhase, uClaimed, uSent, uLog, uFaults   \* the user outbox

-----------------------------------------------------------------------------
\* README: "Each step is owned by its context": an account or a buyer exists
\* only for a user that was committed, a user only for an identity.
ProvisionedInOrder ==
  accounts \cup buyers \subseteq users /\ users \subseteq identities

\* README: "the offset is committed only after `handle` resolves", and a rejected
\* message "is copied to <group>.dlt": whatever failed or was delivered again,
\* what a group has left behind has had its effect, or is a dead letter if it
\* can never have one.
NothingIsSkipped ==
  /\ \A k \in 1 .. offset["user.profile"] :
       iLog[k] \in IF Login[iLog[k]] \in Refused THEN deadLetters ELSE users
  /\ \A k \in 1 .. offset["account.provisioning"] : uLog[k] \in accounts
  /\ \A k \in 1 .. offset["order.buyers"] : uLog[k] \in buyers

\* The tables of the three contexts lie between the two: they hold what their
\* offsets say, and nothing that its own context has not committed first.
TablesFollowTopics == ProvisionedInOrder /\ NothingIsSkipped

=============================================================================
