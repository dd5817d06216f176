# A TLA+ verification of the marketplace API

The repository is a NestJS modular monolith: contexts (account, order,
seller-offer, identity, user) that share one Postgres server but no tables, and
that talk over RabbitMQ (RPC), Kafka (events) and Temporal (the order saga).
What can go wrong is between the contexts and between the statements of
concurrent requests: redelivered messages, requests handled after their caller
gave up, instances that die between a commit and what follows it, several
instances doing the same job. The modules here model that; paths below are
relative to `src/src/` of the repository, and "the repository's README" is
`src/README.md`.

## 1. Inventory

| component | state | operations | hard because |
|---|---|---|---|
| account | `Account.balance`, `Transaction`, `AccountInbox` | charge, refund, create account | at-least-once delivery; a late charge after a refund; two charges that fit one by one |
| seller-offer | `SellerOffer.reservedQuantity`, `StockReservation`, `deletedAt` | reserve, release | the last piece; redelivery; one of several items does not fit |
| order placement saga | the Temporal workflow, `Order.status`, `OrderOutbox` | six activities with retries and timeouts, compensation | an attempt nobody waits for may still run; cancellation; compensation must not be lost |
| `POST /order` | `Order`, `OrderWorkflowOutbox`, advisory lock on the idempotency key | the placing transaction, the relay that starts workflows | two requests with one key; a crash after the commit; a start whose answer is lost |
| outbox relays (order, identity, user) | `*Outbox.publishedAt`, row locks, `relaying`/`published` in memory | claim, publish, mark, delete old rows | a send is not part of the transaction; several instances |
| sessions | `IdentitySession` rows, advisory lock per family, Redis denylist | login, refresh, reuse detection, logout | refresh against refresh, refresh against revocation, clocks and lifetimes |
| order read cache | the Redis key and its stampede lock | getOrLoad, evict | a slow loader, an expired lock, a read that straddles the commit |
| order status stream | per-instance history, Kafka position, SSE clients | record, getAfter, stream | the history limit, restarts, reconnecting to another instance, duplicates |
| provisioning | `Identity`, `User`, `Account`, `OrderBuyer`, consumer offsets | register, three consumers | two outboxes in a row, crashes between effect and offset |
| transaction retry | none | retry on deadlock and serialization failure | lock order of two transactions; the rows have changed when the victim is begun again |
| OIDC sign-in and linking | `Identity`, `IdentityExternalAccount`, attempts in Redis, the browser's cookie | authorize, link, callback, register | two first sign-ins; repeated or late callbacks; a Redis time-out that may have consumed the attempt; another browser |
| JWT keys, secret manager | JWT keys in the vault, the copies of every pod, the cached login | two loads per pod, sign, verify, the operator's rotation | pods are not in step; failed loads; restarts in the middle of a rotation |
| rate limits, maintenance queue, guards, catalogue, configuration | see `PROJECT.json` | | not modelled, section 8 |

Interactions: `POST /order` commits an order together with a workflow-outbox
row; a relay starts the workflow; the workflow calls seller-offer and account by
RPC and writes the order's status with an outbox row; the outbox relay publishes
it to Kafka; every instance's broadcast consumer feeds the SSE stream, and the
read cache is evicted after the status commit. Registration goes identity ->
identity outbox -> user -> user outbox -> account and order buyers; signing up with
a provider writes the same identity and outbox rows. `hazards` in
`PROJECT.json` lists, line by line, what is hard to test and which property
watches it.

## 2. Modules

`X.tla` is a component, `XProofs.tla` the theorems about it, `MCX.tla` and the
`.cfg` files its instances for TLC. Two proof modules are about several
components: `SessionProofs` instantiates `KeyRotation` too, and
`DownstreamProofs` has what is proved of `OrderNotify`, `OrderCache` and
`Provisioning`. For these the constants, the variables and the safety invariants
are in a module of their own (`KeyRotationState`, `OrderCacheState`,
`ProvisioningState`), which the component and the proof module both extend; the
steps are in the component. A comment "Variant" above a definition
introduces a wrong version of the one that follows; the specifications do not
use variants, they are there to show that a property notices the fault.

| module | models | state and actions |
|---|---|---|
| `Account` | `account/` | `account`, `balance`, `ledger`, `inbox` are the tables. `Charge`, `Refund`, `CreateAccount` are the command handlers, one database transaction each; `ChargeReply`, `RefundReply` are what the gateway answers. An order stands for its two messages, which carry its public id. |
| `AccountReplies` | `account/gateway` | extends `Account` with the history of answers; an answer may be lost after the commit and the message delivered again. |
| `Stock` | `seller-offer/` | `reservedQuantity`, `reservation`, `deleted`; `Reserve`, `Release` and, from outside the repository's code, `SoftDelete`. |
| `StockTransactions` | `seller-offer/repository`, `generic/db` | extends `Stock`, whose variables are what is committed. `tx` is the transaction on each connection: what it has changed, the lock it asks for, its attempt. `WaitsFor` and `IsCycle` are Postgres's row locks and deadlock detector; `Deadlock` aborts a victim and begins it again as the adapter does. |
| `Placement` | `order/workflow`, `order/activity`, `order/worker` | instantiates `Account` and `Stock`. `stage` is the activity the workflow waits for, `attempt` the attempt under way, `late` the requests nobody waits for. `handledLate` is a history variable. |
| `OutboxRelay` | the three `*-outbox-relay.service.ts` and their repositories, which are copies of one another | rows in `(createdAt, id)` order; `Claim` is `FOR UPDATE SKIP LOCKED LIMIT n`, then a loop of `Publish`, then `Commit`; `PublishFails` and `Rollback` are the faults; `DeletePublished` is the daily job. |
| `EventLog` | the promise of an outbox to its consumers | the abstract specification that `OutboxRelay` implements: rows, the log, and how often a row may be repeated. |
| `OrderPlace` | `order/command-handler/order-place.command-handler.ts`, `order-workflow-outbox-relay.service.ts` | the placing transaction statement by statement, the advisory lock, the unique key; instantiates `OutboxRelay`, whose "send" is here the start of a workflow that Temporal may refuse. |
| `Session` | `identity/`, `generic/auth` | refresh, logout and revocation statement by statement, `now()` as the start of a transaction, the denylist and its lifetime. |
| `OrderCache` | `generic/cache`, `@CacheEvict` in the activities | the steps of `getOrLoad` for one key, lock expiry, eviction by Redis, the writer that commits and then deletes the key. |
| `OrderNotify` | `order/service/order-notify.service.ts`, its gateway and controller | instantiates `OutboxRelay`; per-instance history and consumer position for one partition, clients that reconnect anywhere. |
| `Provisioning` | registration and the Kafka consumers of user, account and order | instantiates `OutboxRelay` twice; `offset` is what each consumer group has committed, `deadLetters` the topic `user.profile.dlt`. `EachMessage` is the `eachMessage` of `kafka-consumer.service.ts`: what the schema of the context refuses (`Refused`) is copied to that topic, everything else has its effect, and then the offset moves. |
| `SignIn` | the `oidc` parts of `identity/`, registration | the attempt in Redis, the cookie of each browser, and the callback in its steps: take, exchange, the finders and the writes of its transaction. The provider (`Exchange`) names any subject with any of its emails, refuses, or is away. `confirmed` and `linkedBy` are history variables. |
| `KeyRotation` | `generic/auth/jwt-verification-keys.service.ts`, `identity/service/token.service.ts`, `generic/secret-manager` | each load is the vault's answer and, later, the assignment. The operator (`AddKey` to `ReplaceLeaked`) follows the runbook of the repository's README and is external. |

Composition: `AccountReplies` extends `Account`; `StockTransactions` extends
`Stock` and implements it (`AtomicStock`); `OutboxRelay` implements `EventLog`
(`AtLeastOnceLog`); `Placement` instantiates `Account` and `Stock`;
`OrderPlace`, `OrderNotify` and `Provisioning` instantiate `OutboxRelay`. That
`Placement`, `OrderNotify` and `Provisioning` use what they instantiate only as it
is specified is proved (section 6).
Postgres, Redis, Kafka, RabbitMQ and Temporal are modelled by what the code
relies on: atomic commits and row locks; keys that expire; a log per partition;
at-least-once delivery with expiry; durable workflows with retried activities
and a workflow id that refuses a second start.

## 3. Runs

| run | instance | distinct states | shows |
|---|---|---|---|
| `Account` | four orders of two customers, redelivered at will | 20 358 | Each amount moves at most once (`AtMostOnce`), the balance is its opening value and the ledger's sum and never negative (`BalanceIsLedger`), nothing moves after a refund (`RefundIsFinal`); "not_charged" and "refunded", once answered, stay true (`RefundAnswerStands`). |
| `Stock` | two orders, two offers with 3 pieces, three connections, two attempts | 196 397 | The interleaved transactions do what `Stock`'s handlers do one at a time (`AtomicStock`); `reservedQuantity` is what active reservations hold, within what is on hand, all items of an order or none; a cycle of waits always has a release in it (`OnlyReleasesDeadlock`). |
| `PlacementLate` | two orders of a customer who can pay one; late reserves, charges and `markPaid`s, cancellation, a withdrawn offer | 1.4 million | A paid order is charged and holds its items (`PaidIsBacked`); a failed one costs nothing (`UnpaidIsNotCharged`) and holds nothing (`EndedHoldsNoStock`), outside the circumstances these invariants name (section 5); the outbox has one event for the final status (`OutboxTellsStatus`). |
| `PlacementLive` | two orders, one free, one piece, an account that may come too late; late compensations and marks, cancellation | 27 307 | Every order reaches a final status, unless it is cancelled while `markPaid` is awaited, or is free and comes to wait for a refund that is never answered (section 5). |
| `OutboxRelay` | two relays, three rows of two aggregates, batches of 2, two faults | 31 734 | A row is marked only if Kafka has it; the relays implement `EventLog`, so a row is repeated only after a fault and at most a batch per fault (`AtLeastOnceLog`); without a fault an event is overtaken by a later one of its order only while another relay holds it (`OvertakenOnlyWhileHeld`); every row is published in the end. |
| `OrderPlace` | two requests with one key and one without, two relays, one fault | 78 667 | One order per key, decided by the look-up and not by the unique constraint; one workflow run per order; every order started, every request answered. |
| `Session` | three requests on one login, four tokens, lifetimes of 1 | 1.07 million | At most one live refresh token; none once a revocation committed; a denied family is never accepted again, not even when the denylist entry has expired; a revocation fails only behind a refresh that began later. |
| `OrderCache` | two readers, one writer, entries of 1 to 2 ticks, three ticks | 96 856 | One loader at a time unless a lock lapsed; a stale entry after the eviction only by a read that straddles the commit, otherwise for its lifetime at most; every read returns. |
| `OrderNotify` | two instances, one client, three events, history of 2, one fault, one restart | 651 512 | A history is the newest part of the log; ids grow whatever instance a client is on; a resuming client misses nothing that histories keep; a status comes back only after a failed relay run. |
| `Provisioning` | three registrations, repeated at will, one with an email that `z.email()` refuses, one fault per outbox | 499 808 | No account or buyer without its user, no user without its identity, and no offset past a message that has neither had its effect nor been copied to the dead-letter topic (`TablesFollowTopics`); the refused identity holds nobody up: everybody else is provisioned, though consumers crash between effect and offset. |
| `SignIn` | three identities, two subjects, one with two emails, two attempts, browsers and callbacks | 1.16 million | A subject is let in as the same identity every time (`SameIdentityEveryTime`); an identity with a password is linked only by a browser that confirmed it (`LinkedByItsOwner`); an attempt is used once (`AttemptWorksOnce`); no sign-up leaves half of itself (`EveryIdentityCanReturn`). |
| `KeyRotation` | two pods, tokens that live 2 ticks, one failed load, one restart | 627 884 | While the runbook is followed every live token verifies on every pod (`EveryTokenVerifies`); every pod ends up with the keys of the vault, a leaked one gone, unless its login was rejected (`EveryPodFollows`). |

Bounds, and why they suffice. Each instance is the smallest in which the
competition it is about happens: a balance that covers either of two orders, not
both; an offer with fewer pieces than are asked for; a batch smaller than the
backlog; a history shorter than an order's events; a token, its successor and the
successor's successor; more requests than keys; a provider account whose email
becomes somebody else's; a pod that is a whole rotation behind the other.
`MaxFaults`, `MaxRestarts`, `MaxTokens` and `Horizon` are the named bounds; a
second fault of the same kind meets the same states as the first, since the code
keeps no count of failures except for logging, other than `maxAttempts` of the
retry adapter, which is 2 here and 10 in the code: a last attempt and one before
it. Times are small integers: only the order of a lifetime, a tolerance and a
jitter matters. Duplicate deliveries are not bounded at all where the state they
meet is finite (`Account`, `Stock`, `Placement`). Only the proved modules have a
type invariant; no run needs one of its own. `PlacementLate` and `PlacementLive`
split the kinds of late request between them to stay small; `Cancellable` and
`Withdrawable` choose the outside events. Symmetry is used only in runs without
liveness (`PlacementLate`, `Session`, `Stock`, `SignIn`).

Deadlock is checked except in `OutboxRelay`, `Session` and `SignIn`, where every
row published or every request answered is a proper end.

## 4. Fairness

* `Placement`: the relay starts workflows, Temporal starts attempts and fires
  timeouts (`WF`). The activities after the forward path have no attempt limit,
  so a service asked again and again does at some time receive, handle and
  answer in time (`SF` on `Deliver`, `Handle`, `Complete`). Nothing forces a
  late request to run, nor an operator to cancel.
* `OutboxRelay` and its instances: a relay runs on an interval and every await
  of a run ends (`WF`); faults are bounded, that is, they stop in the end.
* `OrderPlace`: a statement ends and an advisory lock is granted in turn (`WF`).
* `OrderCache`: a request keeps taking its steps and its deadline passes (`WF`);
  nothing is assumed of lock owners that died.
* `Provisioning`: the relays, and each consumer group's handler, which retries
  until it succeeds (`WF`).
* `KeyRotation`: `@Interval` keeps starting both loads in every pod, and a load
  that has the vault's answer ends (`WF`). Nothing forces the operator, the clock
  or a restart.

## 5. Where the code and its description part

All runs pass. The following is written into the properties as exceptions, which
TLC needs, or is met in the models without breaking a property, or is outside
them, as each entry says.

* `OvertakenOnlyWhileHeld`: while one instance holds the row of `order.created`,
  another skips it and sends `order.paid` of the same order first
  (`order-outbox-relay.service.ts:64`). The repository's README says "all events
  of one order stay ordered" (line 135) and concedes reordering only for identity.
  With one instance the order holds (`AggregateOrder`), and is proved.
* `RevocationFailsOnlyBehindRefresh`: `revokedAt` is the start of the revoking
  transaction, which may have waited for the family's lock; a token inserted
  meanwhile has a later `createdAt`, and the CHECK
  `IdentitySession_revokedAt_order` aborts the revocation. The README (line 277)
  says "the whole family is revoked in Postgres and on the denylist".
* `EveryPodFollows`: `SecretManagerService.ready` keeps the promise of a login
  (`secret-manager.service.ts:63`), a rejected one too. If the second login of a
  `get` is rejected, every later `get` throws before its `try`, so nothing clears
  `session` and the pod keeps its keys, a leaked one included, until it is
  restarted (or a `get` that was under way at that moment fails as well). The
  README says that both sides re-read the vault every 60 s without a restart.
* `EveryTokenVerifies`: the property is about the pods. A verifier elsewhere may
  cache `jwks.json` for its `max-age=60`, which the runbook's second step does
  not wait for.
* `SignIn`: a Redis time-out in `take` may have consumed the attempt; the
  browser, whose cookie is cleared in any case, has to start again. An identity
  that is soft-deleted keeps its email and its provider account, so that neither
  can be used to sign up again.
* `EndedHoldsNoStock`: a release leaves no fence when there is nothing to
  release, so a reserve that was delivered before its attempt timed out may
  commit afterwards and hold stock for an order that is over; the README (line
  131) concedes that such a request is processed. And when an offer is
  soft-deleted between a reserve whose answer was lost and its retry, the retry is
  rejected as `INSUFFICIENT_STOCK`, for which the workflow skips `releaseStock`
  (`order-place.workflow.ts:51`).
* `UnpaidIsNotCharged`: a `PAYMENT_REJECTED` answer skips the refund and
  its fence (`order-place.workflow.ts:47`). If the balance grows, an earlier
  attempt of that charge that is still being handled is applied.
* `PaidIsBacked`: `markPaid` is awaited outside the `nonCancellable` scope
  (`order-place.workflow.ts:65`); a workflow cancelled there ends with a charged
  order in `pending_payment`. It has its stock and its money, which is what the
  property says of it.
* `EveryOrderSettles`: two kinds of order stay in `pending_payment`, and the
  property names both. One is the order just described, cancelled at `markPaid`.
  The other is free: an order of total 0 is accepted by the schema, while
  `isValidMovement` (`account.gateway.ts:90`) nacks its charge and its refund
  without a reply, so that the charge runs into its `scheduleToCloseTimeout` and
  the refund is retried for ever.
* `EveryIdentityIsProvisioned`: the README (line 175) says that a registration
  provisions the rest of the person. A registration checks the email with
  `@IsEmail` (`identity-register.input.ts:26`), a first OIDC sign-in takes the
  provider's without a check (`oidc-client.service.ts:58`), and the consumer uses
  `z.email()` (`identity-registered-event.schema.ts:11`), which refuses some of
  what the others accept, such as `a!b@example.com`. Such an identity can log in,
  but its event is copied to `user.profile.dlt` and its offset committed
  (`kafka-consumer.service.ts:65`), so it never has a user, an account or a buyer
  unless somebody replays the dead letter. The property says so; nobody else is
  held up by it.
* `RefundAnswerStands`: a refund that found no charge answers `not_charged`
  the first time and `refunded` when it is delivered again
  (`account.gateway.ts:82`); the README (line 131) only names `not_charged`. No
  money moves either way.
* `StaleOnlyByRace`: a loader that read before the status commit may store after
  the eviction; the README (line 222) says that the last `SET` wins "with the
  same value".
* `StreamMovesForward`: a relay run rolled back after sending sends its events
  again at new offsets, and the history deduplicates by offset; the stream then
  shows `pending_payment` after `paid` (README line 332 describes it as one
  sequence). With several relays an overtaken event does the same without a
  fault: the run has one relay, and so does the theorem.

## 6. What is proved

For every value of the constants that satisfies the named assumptions: any
number of orders, offers, requests, relays, pods, clients and faults, where a run
has two or three. Each safety invariant rests on an inductive one, which TLC
checked on the instance of the run before it was proved. The assumptions only say
that the constants have their types and that the marks for "nothing" (`NoKey`,
`NoFamily`, "none") are not values; `Offers`, `Rows` and `Requests` are numbers
where the code orders by an id, and finite where it counts. Three theorems have a
hypothesis of their own: `OneRelayKeepsOrder` and `StreamsMoveForward`, of one
relay (`SingleRelay`), and `SagaKeepsMoneyAndStock`, where the assumptions of `Account` and `Stock`, which
`Placement` only instantiates, are conjoined as `ContextsAssumption`.

| module | theorems | inductive invariant, and why it is needed |
|---|---|---|
| `AccountProofs` | `TypeCorrect`, `MoneyMovesAtMostOnce`, `RefundSettles`, `BalanceEqualsLedger`, `RefundAnswersStand` | `InboxMatchesLedger` ties the two inbox rows of an order to the two ledger rows it may have: a step writes a ledger row because of what the inbox says. `AnswersCommitted` says that an answer was given only after its inbox row committed. Sums are cardinalities of sets of cents, so that a new row adds a block of new elements. |
| `StockProofs` | `TypeCorrect`, `ReservedEqualsHeld`, `NeverOversold`, `WholeOrders` about the handlers; `TransactionsInvariant`, `TransactionsImplementStock`, `TransactionsKeepStock`, `ReservesNeverDeadlock` about the statements | `StockInv` counts pieces like cents: a release subtracts, so even the type needs that what it subtracts is part of `reservedQuantity`. `TxInv`: a row lock has one owner, and what a transaction read before it changed a row is still so; hence its commit does what the atomic handler would do at that moment. A reserve goes through its offers in ascending order (`AscendingOK`), so that it waits only for what comes after all it holds, and reserves alone cannot form a cycle. |
| `OutboxRelayProofs` | `TypeCorrect`, `MarkedOnlyIfSent`, `OneRelayKeepsOrder`, `OvertakingNeedsAHold`, `RelaysImplementEventLog`, `RelaysSendOnce` | `SentInv`: what a relay remembers as published is in the log. `OrderInv`: a claim is closed under earlier rows of its aggregate, with one relay only (`SingleRelay`), which section 5 shows to be needed. `ClaimsInv`: claims are apart and no larger than a batch, and without a fault what precedes a claimed row is sent or claimed. `RepeatsPaid`: repeats and the rows due to be repeated stay within a batch per fault, so that before the first fault there are none (`SentOnce`). |
| `OrderPlaceProofs` | `RequestInvariant`, `OneKeyOneOrder`, `OneOrderOneWorkflow` | `RequestInv`: a transaction past its look-up holds the lock of its key, no two hold one, so what it found stays so until it commits. `WorkflowInv`: a relay claims only rows of committed orders, and Temporal remembers an execution. |
| `PlacementProofs` | `PlacementInvariant`, `PaidStaysBacked`, `FailedCostsNothing`, `EndedReleasesStock`, `OutboxFollowsStatus`; `SagaKeepsContracts`, `SagaKeepsMoneyAndStock` | `Inv`, order by order. `FlowInv`: the workflow succeeds until it fails and then only recovers, and what may still be under way follows from where it is: nothing that undoes exists before, no `markPaid` after. `MoneyInv`, `HoldInv`, `StatusInv` say what the ledger, the reservations and the row are at each stage and after each answered attempt. Proved with all activities late, all workflows cancellable and all offers withdrawable at once, which the runs split. The last two need no invariant: see composition below. |
| `SessionProofs` | `SessionInvariant`, `OneTokenPerFamily`, `RevocationIsFinal`, `DeniedForever`, `OnlyRefreshStopsRevocation` | `RequestOK`: what a request relies on at the statement it has come to, behind the lock of its family. `StampInv`: a row is older than a revocation under way unless a refresh created it. `DenyInv`: a denylist entry outlives the access tokens of its family. |
| `SignInProofs` | `SignInInvariant`, `NeverLinkedSilently`, `NoHalfSignUp`, `OneCallbackPerAttempt`, `SubjectIsOneIdentity` | `CookieInv` and `RequestOK`: a browser carries the state of a linking attempt only if it gave the password; a callback that has a subject has consumed its attempt. `RowsInv`: a subject has one account. |
| `SessionProofs`, on `KeyRotation` | `RotationInvariant`, `NoTokenIsLost` | At each step of the runbook: what the vault holds, how far a pod (what it has and what a load is about to assign) can be behind, and which tokens are still alive (`RotationInv`). |
| `DownstreamProofs`, on `OrderNotify` | `NotifyInvariant`, `HistoryIsTheLog`, `StreamsResume`, `StreamIsFedByTheOutbox`, `StreamsMoveForward` | `NotifyInv`: besides the histories, what a client has is in the log, in order (`ReceivedInOrder`), and as long as no history lost anything it is all there is up to its last id and, while its stream is open, all that its instance has consumed (`Complete`): without the last part a client could miss what its instance reads next. |
| `DownstreamProofs`, on `OrderCache` | `CacheInvariant`, `OneReaderLoads`, `StaleEntriesAreRaced` | `LockHeld`: a request past its `SET NX` is the one the lock names, unless it lapsed. `OldValues`: a request about to store another status than the order's is one that straddles the commit. `OldEntry`: what is left of the old entry got its lifetime before the commit. |
| `DownstreamProofs`, on `Provisioning` | `PeopleFollowTopics`, `OutboxesOfPeople` | `PeopleInv`: every row, claim and message of the identity outbox is of a committed identity, and of the user outbox of a committed user; so whatever a consumer finds at its offset, again or for the first time, has what it follows from. `OffsetsInv` adds that what is behind an offset is done: topics only grow, so it stays where it was, and no step takes a row or a dead letter back. |

Refinement. `TransactionsImplementStock` and `RelaysImplementEventLog`: the
initial states and every step of the detailed specification are those of the
abstract one, or stutter. The first carries `NeverOversold`, `ReservedEqualsHeld`
and `WholeOrders` over to the interleaved statements (`TransactionsKeepStock`).

Composition. A composed specification implies the specification of each part it
instantiates: `SagaKeepsContracts` (the saga is a behaviour of `Account` and of
`Stock`, whatever it retries or abandons), `StreamIsFedByTheOutbox`,
`OutboxesOfPeople`. So the theorems about the parts hold in the whole, and two are
drawn: `SagaKeepsMoneyAndStock`, the balance, the ledger and the stock through
every course of the saga; and `StreamsMoveForward`, from `OneRelayKeepsOrder` and
`RelaysSendOnce`. The latter has the hypothesis `SingleRelay`, which the second
half of `StreamMovesForward` needs; that ids grow is part of `NotifyInv`, without
it. The lemmas named `Same...` say that the instance a theorem is taken from is
the one the composed module uses.

The replay loop of the stream's controller, `Replayed`, is a recursive function.
The library's induction theorems cannot be used with the provers at hand; lemma
`SetInduction` states induction over the numbers for a set instead of a predicate,
from the well-foundedness of `<`, and `LoopExists` and `ReplayIsComplete` use it
for what the loop computes on a history of any length. Sums of money and of pieces
are cardinalities and need no induction.

Only model-checked: liveness (`EveryOrderSettles`, `EveryRowIsPublished`,
`EveryOrderIsStarted`, `EveryRequestIsAnswered`, `EveryReadReturns`,
`EveryIdentityIsProvisioned`, `EveryPodFollows`), since the prover does not handle
fairness and `ENABLED`. Every other property that a run checks is also a theorem.
No module uses `RECURSIVE` operators.

## 7. Plan

Written first, in this order: `Account`, `Stock`, `Placement` (the money and the
goods), `OutboxRelay` and what is built on it (`OrderPlace`, `OrderNotify`,
`Provisioning`), then `Session` and `OrderCache`; then the abstract log and the
statement-level transactions, `EventLog` and `StockTransactions`; then `SignIn`
and `KeyRotation`. The proofs followed the same order of importance and are
complete for the safety properties. What a change of the code would ask for first:
a fence left by `release`, which would remove the late reserve from
`EndedHoldsNoStock`; relays that keep an aggregate to one instance, which would
remove `SingleRelay` from the theorems about order.

## 8. Not modelled

The catalogue (product, variant, brand, category, seller), seed and migrations
have no protocol of their own. Guards and abilities are a stateless table.
Environment and validation are configuration and input; scripts are run by hand
and talk to outside services only. RabbitMQ topology is declarations; expiry,
redelivery and dead-lettering are in `Placement`. The rate limiter is one atomic
Redis script. The maintenance queue is a thin wrapper of BullMQ whose jobs are
`DeletePublished` and `DeleteStarted`. Left out inside modelled components: prices
and the contents of messages; Kafka messages that this system does not produce,
and the replay of dead letters by hand; how passwords and signatures are computed,
PKCE and nonces; a second OIDC provider; `SKIP_VAULT`; `ACCESS_DENYLIST_FAIL_OPEN`
set to true, by which access tokens outlive a revocation that Redis did not
record, as the repository's README says.
