---------------------------- MODULE Provisioning ----------------------------
(***************************************************************************)
(* A registration provisions the rest of the person asynchronously:        *)
(*                                                                         *)
(*   Identity -> identity.registered -> User -> user.created -> Account    *)
(*                                                           -> OrderBuyer *)
(*                                                                         *)
(* Two outboxes with their relays (two instances of module OutboxRelay,    *)
(* whose logs are the topics identity.events and user.events) and three    *)
(* Kafka consumer groups, which commit an offset after its effect.         *)
(***************************************************************************)
EXTENDS ProvisioningState, Sequences, FiniteSets

CONSTANTS Relays, BatchSize, MaxFaults  \* see OutboxRelay

IdentityRelay == INSTANCE OutboxRelay WITH
  Rows <- Requests, Aggregate <- [q \in Requests |-> q],
  row <- iRow, phase <- iPhase, claimed <- iClaimed, sent <- iSent, log <- iLog, faults <- iFaults

UserRelay == INSTANCE OutboxRelay WITH
  Rows <- Requests, Aggregate <- [q \in Requests |-> q],
  row <- uRow, phase <- uPhase, claimed <- uClaimed, sent <- uSent, log <- uLog, faults <- uFaults

identityVars == <<iRow, iPhase, iClaimed, iSent, iLog, iFaults>>
userVars == <<uRow, uPhase, uClaimed, uSent, uLog, uFaults>>
tableVars == <<identities, users, accounts, buyers>>
vars == <<tableVars, deadLetters, offset, identityVars, userVars>>

Groups == {"user.profile", "account.provisioning", "order.buyers"}

Init ==
  /\ identities = {} /\ users = {} /\ accounts = {} /\ buyers = {} /\ deadLetters = {}
  /\ offset = [g \in Groups |-> 0]
  /\ IdentityRelay!Init /\ UserRelay!Init

-----------------------------------------------------------------------------
\* register: the identity and its outbox row; a login that exists is a 409, as
\* often as it is tried again.
Register(q) ==
  /\ \/ /\ \A p \in identities : Login[p] # Login[q]
        /\ identities' = identities \cup {q}
        /\ IdentityRelay!Insert(q)
     \/ /\ \E p \in identities : Login[p] = Login[q]
        /\ UNCHANGED <<identities, identityVars>>
  /\ UNCHANGED <<users, accounts, buyers, deadLetters, offset, userVars>>

\* The relays' runs, and what may go wrong with one.
IdentityRelayRuns(i) ==
  /\ \/ IdentityRelay!Claim(i) \/ IdentityRelay!Commit(i)
     \/ \E q \in Requests : IdentityRelay!Publish(i, q)
  /\ UNCHANGED <<tableVars, deadLetters, offset, userVars>>

IdentityRelayFails(i) ==
  /\ IdentityRelay!Rollback(i) \/ \E q \in Requests : IdentityRelay!PublishFails(i, q)
  /\ UNCHANGED <<tableVars, deadLetters, offset, userVars>>

UserRelayRuns(i) ==
  /\ \/ UserRelay!Claim(i) \/ UserRelay!Commit(i)
     \/ \E q \in Requests : UserRelay!Publish(i, q)
  /\ UNCHANGED <<tableVars, deadLetters, offset, identityVars>>

UserRelayFails(i) ==
  /\ UserRelay!Rollback(i) \/ \E q \in Requests : UserRelay!PublishFails(i, q)
  /\ UNCHANGED <<tableVars, deadLetters, offset, identityVars>>

(***************************************************************************)
(* eachMessage: the handler of the group's context, then the offset.  A    *)
(* crash between the two, or a handler that throws, delivers again.        *)
(***************************************************************************)
\* UserCreateCommandHandler: one transaction, nothing for a user that exists.
CreateUser(q) ==
  \/ q \notin users /\ users' = users \cup {q} /\ UserRelay!Insert(q)
  \/ q \in users /\ UNCHANGED <<users, userVars>>

\* What the context does with a message that its schema accepts.
Effect(g, q) ==
  /\ \/ /\ g = "user.profile"
        /\ CreateUser(q)
        /\ UNCHANGED <<accounts, buyers>>
     \/ /\ g = "account.provisioning"
        /\ accounts' = accounts \cup {q}
        /\ UNCHANGED <<users, buyers, userVars>>
     \/ /\ g = "order.buyers"
        /\ buyers' = buyers \cup {q}
        /\ UNCHANGED <<users, accounts, userVars>>
  /\ UNCHANGED deadLetters

\* The gateway throws KafkaRejectedMessageException.  user.created has nothing
\* in it that its schemas could refuse: the ids are the database's.
Rejects(g, q) == g = "user.profile" /\ Login[q] \in Refused

\* Variant: a rejected message is logged and skipped, as in a broadcast group.
RejectUncopied(q) == UNCHANGED <<users, accounts, buyers, deadLetters, userVars>>

\* The message is copied to the dead-letter topic.
Reject(q) ==
  /\ deadLetters' = deadLetters \cup {q}
  /\ UNCHANGED <<users, accounts, buyers, userVars>>

EachMessage(g, q) == IF Rejects(g, q) THEN Reject(q) ELSE Effect(g, q)

\* Variant: accounts follow identity.registered.
TopicOfIdentity(g) == IF g = "order.buyers" THEN uLog ELSE iLog

Topic(g) == IF g = "user.profile" THEN iLog ELSE uLog

\* Variant: a rejected message is thrown, and so delivered again, like any other.
HandleUnlessRejected(g) ==
  /\ offset[g] < Len(Topic(g))
  /\ ~Rejects(g, Topic(g)[offset[g] + 1])
  /\ Effect(g, Topic(g)[offset[g] + 1])
  /\ offset' = [offset EXCEPT ![g] = @ + 1]
  /\ UNCHANGED <<identities, identityVars>>

Handle(g) ==
  /\ offset[g] < Len(Topic(g))
  /\ EachMessage(g, Topic(g)[offset[g] + 1])
  /\ offset' = [offset EXCEPT ![g] = @ + 1]
  /\ UNCHANGED <<identities, identityVars>>

\* The effect, or the copy, without the offset: the message is delivered again.
HandleUncommitted(g) ==
  /\ offset[g] < Len(Topic(g))
  /\ EachMessage(g, Topic(g)[offset[g] + 1])
  /\ UNCHANGED <<identities, offset, identityVars>>

Next ==
  \/ \E q \in Requests : Register(q)
  \/ \E i \in Relays :
       \/ IdentityRelayRuns(i) \/ IdentityRelayFails(i)
       \/ UserRelayRuns(i) \/ UserRelayFails(i)
  \/ \E g \in Groups : Handle(g) \/ HandleUncommitted(g)

Spec == Init /\ [][Next]_vars

\* Relays run on an interval; a consumer retries until its handler succeeds.
Fairness ==
  /\ \A i \in Relays : WF_vars(IdentityRelayRuns(i)) /\ WF_vars(UserRelayRuns(i))
  /\ \A g \in Groups : WF_vars(Handle(g))

FairSpec == Spec /\ Fairness

-----------------------------------------------------------------------------
\* README: "if it commits, the event is guaranteed to be sent", at both stages,
\* and "one bad message doesn't block its partition": again and again everybody
\* registered so far can order and can be charged.  The exception is whom the
\* consumer's schema refuses although the registration did not: the event is a
\* dead letter, and the identity has no user, account or buyer.
EveryIdentityIsProvisioned ==
  []<>(\A q \in identities :
         IF Login[q] \in Refused THEN q \in deadLetters ELSE q \in accounts \cap buyers)

=============================================================================
