# TLA+ models and proofs of VouchSpec's paid order pipeline

VouchSpec sells a validation of a software artifact: a buyer gets a quote, places
an order, pays (through a fake provider in the sandbox, or Stripe), a coordinator
validates the artifact and signs a receipt, and the buyer fetches the receipt with a
delivery capability. Afterwards root-signed feeds say which receipts still count, and
anybody may verify a receipt against the newest feed. This directory models that system
in TLA+, checks it with TLC and proves most of what is checked with TLAPS. Paths such as
`commerce_store.py` are under `src/capabilityproof/`.

## 1. Inventory

| Component | State it keeps | Operations that change it | Talks to |
|---|---|---|---|
| Commerce vocabulary, `commerce.py` | none | – (two transition tables, `require_transition`, the quote builder) | everyone |
| Commerce store, `commerce_store.py` | SQLite tables quotes, orders, provider_events, financial_entries, cost_records, order_history | create_quote, create_order, attach_checkout, bind_provider_payment, ingest_provider_event (with `_reconcile_payment`), record_direct_costs, begin/fail_fulfillment, deliver; each one `BEGIN IMMEDIATE` transaction | called by all below |
| Stripe adapter, `stripe_payments.py` | tables stripe_webhook_events, stripe_reconciliations in the same file | prepare_order_checkout, process_webhook, reconcile_order: many transactions and Stripe calls each | store, Stripe |
| Fulfilment coordinator, `fulfillment.py` | a directory per order | fulfill: freeze, inspect, sign, record costs, deliver, publish | store, access, worker |
| Commerce access, `commerce_access.py` | tables of tenants, quote and order bindings, capabilities | bind, rotate, revoke, publish_result, get_result | API, coordinator |
| Commerce HTTP API, `commerce_api.py` | creation lock, sliding windows, a connection semaphore | POST quotes, POST orders, webhook route | store, access, adapter |
| Paid receipt lifecycle, `paid_lifecycle.py` | tables paid_lifecycle_publications, _status, _metadata in the store's file | build_draft, publish; evaluate_order_receipt reads | store, an offline root |
| Feed verifier, `lifecycle.py`, `catalog_runtime.py` | a state file: per root the highest number seen and its digest | LifecycleSequenceStore.minimum and record, evaluate_receipt_lifecycle_with_state, VerifiedCatalog | feeds, other processes on the same file |
| Hosted worker, `hosted_worker.py` | a work root per run; the order service keeps lease and result | run_once: claim, work, complete or fail | a remote order service, the stages below |
| Freeze, inspect, sign, `stage_b*.py` | directory of frozen trees; receipt, execution report and envelope of a run | freeze_public_source, DockerNoEgressWorker.run, sign_verified_worker_result | git, Docker |
| Remedy executor and provisioner, `distribution/remedy-*` | none across runs; wallet and accounts outside | runOnce, runProvisioning | remote API, chain |

What is hard in it, component by component, and what makes each correct:

* **Store.** Provider events arrive late, twice, under several ids and in any order,
  between fulfilment calls. Correct: order and payment status agree, money is posted
  once, the outcome does not depend on delivery order, no settled record changes, and
  identities stay exclusive to one order.
* **Stripe adapter.** One reconciliation is seven or more separate transactions and
  remote calls; Stripe and other handler threads move in between; calls fail, threads
  die, a lease decides who retries. Correct: the store never claims more than Stripe
  does, a processed webhook has had its effect, every webhook is settled in the end and
  a paid order is queued unless a decline or a partial refund came first.
* **Coordinator.** A crash between any two of its steps, a retry after it, a refund
  during the work, an except handler that fails in its turn. Correct: what is delivered is
  what was signed for this order, a failed run ends in a failed order unless the process
  died or its handler raised, a published result is the delivered one.
* **Access, API.** Every request is several transactions over two sets of tables; a
  creation runs under a lock that covers only part of it; threads, the operator and a
  crash come in between. Correct: store and access tables tell one story, quotas hold, a
  retired key or token does nothing, a capability is spent once, a request that stopped
  half way is completed by repeating it while its credentials last.
* **Lifecycle, publishing.** A draft is read with four statements, signed offline, and
  imported against delivered orders read before the transaction. Correct: what is
  published is one history without gaps or forks in which no receipt is lost and no
  invalidation undone.
* **Lifecycle, verifying.** The minimum is read in one critical section, the number
  recorded in another. Correct: nobody is answered from a feed older than one relied on,
  nor from two feeds under one number, and an invalid receipt stays invalid unless the
  root itself publishes otherwise.
* **Worker and stages.** The frozen tree is verified and then used by path, while files
  may change; answers are lost, late or repeated; leases run out. Correct: what is signed
  is what was requested, a run never reports work it has posted as failed, and a run that
  says delivered is right.
* **Remedy tools.** Lost answers after an irreversible call. Correct: nothing is paid
  twice.

The list at line level is `hazards` in PROJECT.json; those without a property name the
reason.

## 2. Modules

| Module | Models |
|---|---|
| `Commerce` | statuses, transition tables, event types (`commerce.py`) |
| `CommerceStore` | the store: one action per public writing method |
| `OrderContract` | the abstract promise about an order that the store implements |
| `CommerceStoreProperties` | the store's properties and the refinement mapping |
| `StripePayments` | the adapter over the store, one action per transaction or remote call |
| `Fulfillment` | the coordinator over the store and the access tables, one action per call |
| `CommerceAccess` | tenants, bindings and capabilities: per method when it goes through and what it writes |
| `CommerceApi` | the routes over store and access, one action per transaction, threads and the creation lock |
| `ReceiptLifecycle` | feeds, the verdict of a feed on a receipt, what a later feed owes an earlier one |
| `FeedHistory` | the abstract promise of publication: one history of feeds |
| `PaidLifecycle` | drafting read by read, the offline signature, the import in its two halves |
| `LifecycleVerifier` | processes on one state file: verification with state, the catalogue |
| `StageB` | freezing, inspection and signing over a disk that may lose bytes |
| `HostedWorker` | a hosted run over `StageB`, against an order service |
| `MC...` | small instances for TLC |
| `CommerceStoreProofs` | induction over sets of naturals and the run of the reconcile loop; the store's inductive invariant, its contract, the theorems about `Spec` |
| `StripePaymentsProofs`, `FulfillmentProofs`, `CommerceApiProofs` | invariants of the three components over the store, and that each implements `Spec` |
| `ReceiptLifecycleProofs` | lemmas about feeds and verdicts, shared by the next two |
| `PaidLifecycleProofs`, `LifecycleVerifierProofs` | invariants of publisher and verifier; the refinement of `FeedHistory` |
| `HostedWorkerProofs` | the invariant of stages, runs and service |

`StripePayments`, `Fulfillment` and `CommerceAccess` EXTEND `CommerceStore`, `CommerceApi`
extends `CommerceAccess`, and `HostedWorker` extends `StageB`: the store's actions are the
transactions the components perform, conjoined with the change of the component's
own state, exactly as the code calls the store.

### Correspondence and abstractions: the store

Each table is a variable, each row a record with the columns the code branches on. An
action is one transaction: its guard collects the refusals (a refused call rolls back
and changes nothing, so it needs no action), its primes the UPDATE and INSERT
statements, the history row and ledger rows included.

* `order_id` is a digest of quote, key and buyer in the code, and that triple here.
* `financial_entries` is kept per order and category as (rows, amount, impact): the code
  reads it only grouped that way.
* Quoted amount is one constant; a request carries only the max_price compared with it.
* An event is its id, type, payment, amount, fee and time. Ids are numbers because rows
  are read back `ORDER BY received_at, event_id`.
* `_reconcile_payment` is `Reconciled`: the loop is a function that takes one visit or
  starts one pass per step, iterated `LoopBound` times. That bound is the longest run
  the loop can have (each pass but the last settles an event), not a cut.
* Not modelled: read-only views, the currency and environment columns (checked on entry
  and constant), schema migration, formatting of timestamps.

### Correspondence and abstractions: the adapter

`handlers[h]` is the control point and the local variables of one server thread;
`webhook_events` is its table; `stripe` is the external Stripe: the session,
PaymentIntent, balance transaction, charge and dispute flags its API would answer with.
Every remote read and every transaction is one action. Objects inconsistent with the
order (the `invalid_stripe_object` checks) do not occur: Stripe is taken at its word.
Creation times are fixed, so events derived from charge and payment have time 0; refund
and dispute events carry the clock, as `_utc_now()` does. The webhook's payload digest
is left out: a body that changed under one id does not occur either. A partial refund
does, and is rejected as the code rejects it. An open session that expires may take its
PaymentIntent with it (`canceled`), which reconciliation reports as a failed payment.
`IntentAtOnce` says whether Stripe creates the PaymentIntent with the session, so that
`attach_checkout` gets a payment at once, or with the first attempt to pay, so that a
webhook's `bind_provider_payment` is the first to learn of it; the code is ready for both.

### Correspondence and abstractions: the coordinator

`jobs[o]` is the delivery directory of the order (made or not, signed envelope,
manifest), `results` and `bindings` the two columns of `access_order_bindings` the
coordinator meets, `coordinators[c]` a process that calls `fulfill`: its control point,
its order and the evidence it has signed. Each store call, directory change and the
publication is an action; anything in the try block may raise (`StepFails`, or the store
refusing), then the except handler reads the order in one step and fails it in another.
Either call of the handler may raise too (a locked database, say): `fulfillment.py:142`
swallows that exception and the order stays as it was, with nobody dead (`HandlerRaises`).
`abandoned` is a history variable: the orders whose own process left them queued or
running, by dying or through a handler that raised.
`Crash` drops the process and leaves database and directory. What is signed is any
evidence: receipt ids come from source and time, so two orders can get the same one.
Freezing and inspection are one step, as nothing here depends on their result; `StageB`
takes them apart. Any event of the store may arrive while an order is being worked on; the
run has the two captures only, as refunds and disputes against fulfilment calls are the
subject of `store_events`.
Removing a job directory by hand is not modelled; nothing in the code does it.

### Correspondence and abstractions: access and API

`tenants`, `quote_bindings` and `order_bindings` are the three access tables; the audit
log has no reader and is left out. Identifiers that the code derives with HMAC are the
pair they are derived from, an API key or delivery token is its version number, so
"the digest matches" is "the version is the row's". A method of `commerce_access.py` is a
test (it goes through) and an action (what it writes), because the API calls the method
as one transaction. `threads[th]` is a request: the step it is at, its call, the clock it
read after authentication, and the token it was issued. `live` is a history variable:
whether the credentials were good when the request arrived. `creation_lock` is the lock
of `commerce_api.py`, held from the quota check to the binding. `Crash` drops all threads
and the lock. `Issued` limits requests to credentials that exist: the code cannot tell a
token that was never issued from a wrong one.

`RetryCompletes` says that repeating a request is refused by no test it meets, the
authorisation of the confirm step included. It is promised (`Repeatable`) while the tenant
is active and either the order is unbound and the quota has a place, or its token is
neither revoked nor expired. All these exceptions are real. An order stored by
a request that died before the binding does not count, another order may take the last
place, and the first can then not be bound any more. And `bind_order` hands back the
existing token without looking at its expiry (`commerce_access.py:402-412`), after which
`authorize_order` refuses an expired one (`:462`): a request that stopped between binding
and checkout can be completed for the token's lifetime only. A quote retried at a later clock is
refused as an idempotency conflict, because it embeds `generated_at`; `StoreQuote` models
that and no property forbids it.

### Correspondence and abstractions: lifecycle

A signed feed is its content; envelopes that do not verify never reach the code that is
modelled. `Verdict` is `evaluate_receipt_lifecycle` in the order of its tests, `Standing`
the part after the feed is found fresh. Of a reason only its presence counts.

*Publisher.* `tasks[p]` is an operator's draft or import: what it has read and the feed it
carries. `build_draft` takes four steps because it makes four reads outside any
transaction; `publish` two, as the delivered orders are read before `BEGIN IMMEDIATE`.
`Abandon` is an exception, a death or a thrown-away draft. The receipt tables of an
order are its id: an order and its receipt are identified, and `delivered` grows by one at
a time, which is all the publisher can see of the store.

*Verifier.* `stored` is the record of the pinned root in the state file, `lock` the thread
and file lock, `calls[v]` the local variables of a call. The file is replaced atomically
(`os.replace`), so a death leaves it as it was. A schema 1 file has a number and no
digest: `OldNumbers`. `reply`, `accepted` and `condemned` are history variables. Of the
feeds the root signs nothing is assumed: two may share a number, and a later one may make
current what an earlier one revoked. `paid_lifecycle` does not publish such a feed
(`PublisherImplementsHistory`), but the catalogue's own finalisation
(`catalog_builder.py:279-303`) takes only the number from the envelope it is handed and
lists every receipt current and its issuer active, and `VerifiedCatalog` serves those
feeds. So an invalid answer is not final; `OnlyNewFeedsRevive` says what does hold.

### Correspondence and abstractions: stages and worker

A file's content is the request whose commit it holds, or `Damaged`; `cache[c][r]` is a
frozen tree with its manifest under root `c`, `partials[p]` the `.partial` directory of a
process, `outputs` and `envelopes` what the containers leave. Each verification and each
use of the tree is a step of its own and reads the disk as it then is; `Damage` may
damage any one file between two steps, but never leaves another consistent tree behind:
a copy of a different commit with a manifest to fit is not what a failing disk produces.
Git, Docker, tar and Ed25519 succeed or raise. `Discard` is the removal of a `.partial`
directory with `ignore_errors`: it may fail, and so may the mkdirs before the try
(`stage_b.py:520`), and then the directory stays; such a failure counts among `MaxFaults`. A
verification that fails raises a final or a retryable error: a digest that does not fit is
final, a file that is gone or cannot be decoded counts as an internal error.

`PublishCopy` models `os.replace` onto a copy another process published first: the target
is a directory that is not empty, rename(2) fails with ENOTEMPTY, and that is an `OSError`
but not the `FileExistsError` caught at `stage_b.py:597`. The loser of the race raises
instead of using the winner's copy, which is safe and is retried as any failure is.

The order service of the hosted worker is outside the repository. It is modelled by what
the worker's requests and checks presuppose: leases with attempts, completions taken from
the holder, repeated or late ones answered with what is on record. `posts` are requests
under way; one that is never served is lost, one served after the worker has given up is
late. `replies` likewise. `WorkerInit` allows roots left by earlier invocations. The
deployed workflow claims the job before the worker starts and hands over a file
(`.github/workflows/vouchspec-fulfillment.yml:22`, `hosted_worker.py:552`): `Preclaim`, so
a lease may be held before there is a root, and is left to run out if the root is taken or
the file is no job. The comparison of request digests at `hosted_worker.py:569` cannot fail in a fresh root whose
claim is consistent and has no disjunct. The code's three attempts are `MaxAttempts`.

## 3. Runs

| Run | Question | Instance and why it is enough |
|---|---|---|
| `store_events` | everything one payment's provider can report, in any order, duplicated, conflicting, wrong in amount, between the fulfilment calls | one order; nine events over six ids, so each event type has a competing variant (same id other content, same effect other id, wrong amount); two receive times, so row order differs from arrival order; the clock stands still because nothing here reads it |
| `store_orders` | two buyers, two quotes, two keys, both providers race while quotes expire | two of everything that is unique, so each uniqueness rule has a competitor; time 0..1 with TTL 1 and 2, so one quote expires |
| `stripe_effects` | two handlers reconcile one order from a decline and a refund webhook while Stripe moves in every way | two handlers is what overtaking needs; a card that waits for authentication, is declined, replaced; refunds, disputes, a session that expires with its payment; one fault; lease 1 on a clock of 0..1, so a takeover happens; funds become available at 1, after a call may have begun |
| `stripe_progress` | liveness of the adapter | two handlers, a payment webhook and one of no interest; full and partial refunds, before and after the webhook is handled; one failure or death; clock 0..2 so the lease after a death can run out. Declines are left out, as `PaidOrderQueued` excepts them and `stripe_effects` has them; the payment is created with the session here and later in the other adapter runs |
| `stripe_dispute`, `stripe_decline`, `stripe_lease` | three statements of the repository the code does not keep | the smallest instance that shows each |
| `fulfill_race` | two coordinators, two orders, steps and handlers that raise, one death; and whether a delivered order is published in the end | two orders and two receipts: both the collision and its absence; the constraint `KeyOfQuote` leaves one order of each quote, as keys are exchangeable here; a death between delivery and publication, and one coordinator left to recover |
| `api_requests` | all authenticated routes of two tenants, two request threads, one crash, one intervention of the operator | a quota of two quotes and one order: two requests compete for the last order and one is refused (the quota of quotes is never exceeded by the two there are: for it the proof is the evidence); a token used before and after it was rotated, revoked or expired; a quote of another tenant |
| `lifecycle_publish` | two operators whose drafts and imports overlap with deliveries and each other | two receipts, so a feed can be too short and supersede one by the other; two roots; three feeds, so a stale draft meets two later publications; every status of the issuer key |
| `lifecycle_verify` | two processes on one state file, verifying and serving a catalogue | four feeds: two under one number, one of which revokes a receipt and one a key, and a last one that makes everything current again; feeds that expire at different times; a receipt that expires; a schema 1 state file |
| `worker_runs` | two runs for one order beside two coordinators that freeze the same request in one directory | a lease that runs out while the first run works, one death, one fault (a damaged file or a directory that cannot be removed), a job claimed before or after the root is made, lost and late posts; two attempts, since a third meets nothing new |

Properties of `store_events`: `TypeOK`; `StatusCoherent` (the two status columns,
written by different code, agree); `LedgerAgrees`; `EffectsAppliedOnce`;
`NothingLeftToReconcile` (nothing pending is applicable, in any reachable state, so no
later call was needed to rescue it); `ReorderingConverges` (final payment status equals
in-order delivery's); `HistoryReplays`; `RecordsAreFinal` (action property);
`KeepsContract` (refinement of `OrderContract`). Of `store_orders`: `IdentitiesUnique`
and `DeliveryBacked`. Of `stripe_effects`: `StoreNeverAhead` and `ProcessedHasEffect`.
Of `stripe_progress`: `StripeTypeOK`, `WebhooksSettle` and `PaidOrderQueued` (a payment
that was collected and announced by `checkout.session.completed` gets its order into the
queue, with the code's two exceptions: an earlier decline has closed the order, and a
partial refund that Stripe shows before the webhook is handled has it rejected for good at
`stripe_payments.py:561`, ahead of the capture at `:583`). Of `fulfill_race`:
`FulfillTypeOK`, `DeliveryOnFile` (a delivered order has its envelope and manifest on
disk and publishes only those), `OneWorkerPerOrder` (mkdir is the only lock),
`OrphansWereAbandoned` (a step that raises ends its order; only a death, or an except
handler that raises in its turn and is swallowed at `fulfillment.py:142`, leaves it queued or
running, and then no later call takes it up: the directory refuses), and the liveness
property `DeliveredIsPublished`. Of `api_requests`: `ApiTypeOK` (the lock is held exactly
from the quota check to the binding), `BindingsAgree`, `QuotasHold`, `RetiredStaysOut`,
`RetryCompletes` and the action property `CapabilitiesAreSpentOnce`. Of
`lifecycle_publish`: `PaidTypeOK`, `StatusAgrees`, `CondemnedNeverCurrent` and
`ImplementsHistory` (refinement of `FeedHistory`). Of `lifecycle_verify`:
`VerifierTypeOK`, `OneFeedPerNumber`, `StoredCoversAccepted` and the action properties
`NoOlderAnswer` and `OnlyNewFeedsRevive` (after an invalid answer, current is answered only
from a higher-numbered feed that itself does not uphold the earlier one: the verifiers never
revive a receipt of their own accord). Of `worker_runs`: `WorkerTypeOK` (a `.partial`
directory outlives its freeze only if it could not be removed), `SignedIsRequested`, `PostedWorkIsNotReported` and
`DeliveredAnswerIsTrue`.

Symmetry is declared where the properties are safety and the instance does not tell the
members apart: threads, operators and roots, verifiers, runs with their roots,
coordinators that freeze.

The configurations say `CHECK_DEADLOCK FALSE`: the systems may stop when every order is
settled, every event delivered and the bounded clock has run out.

Bounds, all named: `MaxTime` (clock), `MaxFaults` (Stripe errors and deaths),
`MaxCrashes` (coordinators or API processes that die), `MaxInterventions` (what the
operator does to tenants), `MaxSequence` (feeds drafted), `MaxDeaths` (hosted runs that
die), `MaxAttempts` (leases of one order, 2 where the code has 3),
`Happenings` (which Stripe moves an instance contains), `Feed` (which events may be
delivered; each id is stored once), and the sizes of the constant sets.

### Fairness

Two specifications have any. In `FairStripeSpec`, a handler thread that is in the middle of a call goes on
(the OS schedules runnable threads; no lock is held across remote calls). A webhook that
can be reserved again and has been sent is redelivered (Stripe retries anything not
answered with success; the code's lease and `retryable` status rely on just that). The
clock advances. Nobody is obliged to order, pay, decline, refund or dispute. Weak
fairness of a handler is written out as `[]<>idle \/ []<><<step>>`, which is its meaning
here as a busy handler always has a step; TLC's ENABLED would evaluate the reconcile
loop without end. A fault uses up `MaxFaults`, so failures are finitely many: with
unbounded failures no progress can be promised. In `FairFulfillSpec` a running process
goes on (weak fairness), and a delivered order without a published result is fulfilled
again: the branch at `fulfillment.py:55` exists for that call, and without it nothing
recovers. That call has strong fairness, because a model has few coordinators and the one
that is free may be taken by another order again and again; in the code any new process
can make it. The other specifications promise no progress: a client, an operator, the
order service or whoever verifies may stop at any time.

## 4. Proofs

All theorems hold for every value of the constants under the named assumptions, that is,
any number of orders, events, keys, payments, times, handlers, coordinators, tenants,
threads and faults.
The store needs `ConstantsAssumption` and `NoneAssumption`; the adapter also
`StripeAssumption` (Stripe's identifiers and the event digest are injective) and
`FeedAssumption` (the store's `Feed` contains what the adapter emits); the coordinator
`FulfillmentAssumption`; the API `AccessAssumption` and `ApiAssumption` (the sandbox, where
the fake provider derives one payment per order, and calls that name what the instance
has); publisher, verifier and worker `LifecycleAssumption`, `PaidAssumption`,
`VerifierAssumption`, `StageBAssumption` and `HostedWorkerAssumption`. Each of these also
says that `None` is not one of the values it is compared with, as NULL and Python's None
are not. TLC evaluates all of them in the runs.

* `StoreInvariant`: `Spec => []StoreInv`, the inductive invariant
  `TypeOK /\ IdentitiesUnique /\ RowsInv /\ EventsInv`.
* `TypeCorrect`, `StatusesCohere`, `LedgerIsSound`, `EffectsHappenOnce`,
  `HistoryIsReplayable`, `DeliveriesAreBacked`, `IdentitiesAreUnique`: safety
  invariants of the two store runs, from `StoreInv`.
* `RecordsStayFinal`: the action property `RecordsAreFinal`.
* `StoreKeepsContract` (`Spec => KeepsContract`): the refinement of `OrderContract`.
* `EventsAreFollowed` (`Spec => []StoreFollows`), and from it `NothingIsLeft` and
  `DeliveryOrderIsIrrelevant`: what the reconcile loop has achieved when it stops.
* `StripeUsesStore` (`StripeSpec => Spec`), `FulfillmentUsesStore`
  (`FulfillSpec => Spec`) and `ApiUsesStore` (`ApiSpec => Spec`): every theorem above
  holds while handlers, coordinators and requests interleave, fail and die. They rest on
  `StripeInvariant`, `FulfillmentInvariant` and `ApiSafe`.
* `StripeTypeCorrect`, `HandlersTellTheTruth` and from it `StoreStaysBehind`,
  `HandlersTellEverything` and from it `ProcessedWebhooksTookEffect`: the adapter. The two
  invariants are proved by one induction (`HandlersTruthfulAndRight`).
* `FulfillmentTypeCorrect`, `DeliveriesAreOnFile`, `WorkersAreExclusive` and
  `OrphansWereGivenUp`: the coordinator.
* `ApiTypes`, `OrdersStayWithTheirTenant`, `QuotasAlwaysHold`, `RetiredCredentialsStayOut`,
  `RetriesComplete` and the action property of `TokensAreSpentOnce`: the API.
* `PublisherSafe` (`PaidSpec => []PaidInv`), and from it `PaidTypes`, `TableIsOfTheLatest`,
  `CondemnedStaysSo` and `PublisherImplementsHistory`
  (`PaidSpec => History!HistorySpec`).
* `VerifierSafe` (`VerifierSpec => []VerifierInv`), `VerifierTypes`, `OneFeedIsReliedOn`,
  `FileCoversAnswers`, and the action properties `AnswersNeverGoBack` and
  `RevivalsAreTheRoots`.
* `WorkerSafe` (`WorkerSpec => []WorkerInv`), `WorkerTypes`, `EnvelopesAreAboutTheRequest`,
  `ReportsAreOfUnpostedWork` and `DeliveredRunsAreRight`.

Why the invariant has the parts it has. The columns, book and history of a row must be
strengthened with each other (a capture appends to the history only what the status
allows, posts to a book known to be empty). `EffectsAppliedOnce` is not inductive: it
needs `EffectsReached`, that an applied effect is a status the payment has been through,
so that the transition table forbids reaching it again; and `EventsBound`, that no event
was stored for a payment before its order had it, which in turn needs
`IdentitiesUnique`. Ingesting an event runs a loop inside one step. A loop invariant, `Sound`, is
carried from pass to pass; as the library's induction theorems
take an operator parameter the provers cannot instantiate, `NatSetInduction` proves
induction for a set by a pigeonhole argument on finite sets, and the loop's run is put
into such a set (`ReconciledPreserves`).

That the loop has stopped after `LoopBound` steps is a theorem too. `StepsLeft` counts
what may be left to do: the passes that can still settle an event, times the length of a
pass, plus the visits left in this one. Every step of a loop that runs makes it smaller
and it starts below `LoopBound`. A loop that has stopped has gone once through what is
pending without settling anything, and a pass that settles nothing changes nothing, so
what is still pending is refused by the payment as it is (`Quiet`). With `Explained` (the
payment got where it is by reported moves) and `Absorbed` (it is past every settled one)
this is `Follows`, the invariant of every order: the payment status is determined by the
set of types that were reported. `ReorderingConverges` is the special case without
failures and disputes, in which the status does not depend on which of two came first.

The contract is refined order by order. `Reaches` relates two rows when the first leads to
the second by one contract step or none. One event may move the payment and the order
both, and one call of the loop settles several events: `Reaches` is transitive, so the
whole call is still one step of the contract, and the books that go with it are those the
store's invariant gives for the new status.

The two implementation theorems are not free: that a handler's call is one the store
accepts as an action (`Next` quantifies over orders, events and payments) needs that a
busy handler knows its order, that its clock readings are within time, and that what it
emits is in `Feed` (`HandlersKnow`); a finished webhook needs an outcome. The coordinator's
invariant `FulfillInv` adds `DirectoryInv` (a worker's order has the directory that worker
made, and the envelope in it is the evidence the worker carries) and `DeliveryOnFile`;
`OneWorkerPerOrder` is what makes the other two inductive, as only the owner of a
directory writes to it. `OrphansWereAbandoned` needs `Tended`: a directory is made only
for an order that is paid and in work, and an order still in hand that has a directory has
a worker or is in `abandoned`. A step of one worker must not revive
another's order; that is not shown action by action but read off the contract
(`WorkIsSteady`), which lets ended work never start again.

The adapter decides on objects it read up to six steps ago. `TruthInv` says why that does
no harm: Stripe only moves forward (`Forward`: nothing it has answered is taken back), so
what a handler has read is still true (`Informed`), so what it emits has happened
(`EventsTrue`). An order's payment is its own session's (`PaymentsOwn`), so the event
that `Explained` names for its status is about this order. The converse is `ToldInv`: the
handler at each control point has emitted what comes before it, or found it stored with
the same content, and its webhook was sent for a reason that the objects it reads still
show (`Truthful`). What is stored stays stored, so when the webhook is marked processed
the store was told all it announced (`Effected`), and by `Follows` the payment is past
that or refuses it for good.

The API's invariant `ApiInv` joins tables and threads. A key or token is a number that
only grows and no request holds one that was not issued, so what was retired on arrival
fails every later test (`Entitled`). The quota is inductive only together with the lock:
the one thread between its count and its binding holds `creation_lock`, so the room it
found is still there (`Creating`, `QuotasKept`). A quote once bound stays bound and an
order exists before its binding, which is `BindingsAgree`; and in the sandbox a payment is
the one the fake provider derives from the order, so no other order can have taken it
when the request is repeated (`FakeOnly`).

The publisher's invariant `PaidInv` holds the argument why stale reads do no harm. A draft
carries the number that was next when it was read (`TaskOK`); numbers are only used
upwards, so if that number is still the next one at import, nothing was published since.
Then the status table is the latest feed's (`StatusAgrees`), the orders read before the
transaction include every order in it (also `TaskOK`), and the transition checks inside
the transaction make the new feed uphold the latest, hence all (`UpholdsTransitive`). The
checks made while drafting are not used at all: it is the import that carries the proof.

The verifier's `VerifierInv` adds to what the file owes to the answers the local knowledge
of each call: a call between evaluation and recording holds a verdict its feed justifies,
and the lock's holder has loaded what is stored (`CallOK`). An answer that goes
out has been compared with the newest record in the same critical section that replaces
it, and a receipt is condemned only by a feed that was accepted and is at most as late.
What condemned it condemns it still: the reasons for an invalid verdict do not pass with
time, and a feed that upholds the condemning one, that one included, can give no current
verdict. So a current answer comes from a feed that does not, and by `OneFeedPerNumber` from
one with a higher number. No theorem assumes that later feeds uphold earlier ones.

The worker's `WorkerInv` says per process that the frozen tree is its request's or
damaged, that the manifest it has verified is its request's, and that its receipt is its
request's or damaged, so that two things that agree and are not damaged are what was
requested (`ProcessOK`, `Sound`). It says that a post is what its run stands by
(`PostOK`): a completion carries the envelope its run posted, a failure comes from a run
that has ended without posting, and neither can change any more. And it says that a
record with a result is delivered, for good (`RecordOK`), and that an answer with a result
tells that record (`ReplyOK`).

Model-checked only: liveness (`WebhooksSettle`, `PaidOrderQueued`, `DeliveredIsPublished`),
which needs fairness and ENABLED and is out of the prover's reach. So is what a recursive
definition computes for every input: the loop of `Reconciled` is therefore a recursive
function on the naturals with a proved number of steps. Every invariant and every action
property of a passing run, and both refinements, are theorems. The three properties that a run finds
violated are refuted by their counterexamples.

## 5. Where the code and its words differ

Three runs expect a violation; PROJECT.json quotes the lines.

* `stripe_dispute`: refund and dispute events take the time of the reconciliation into
  the event but not into its id. The second webhook of a dispute (`created`, then
  `closed`) presents the stored id with other content, is refused by the store as a
  conflict and recorded as `rejected`, which is final.
* `stripe_decline`: a declined card with the session still open is reported as
  `payment.failed`, which is terminal in the store. When the buyer then pays with
  another card, the capture never applies although its webhook is `processed`.
* `stripe_lease`: `_finish_webhook` does not ask who owns the lease. A handler overtaken
  after its lease that ends in a Stripe error resets the row to `retryable`, so a third
  handler reconciles in parallel with the second, whose lease is running.

## 6. What is left, in order

1. Proofs: safety lemmas towards liveness, that a busy handler, coordinator or request
   always has a next step (no guard of the code leaves it stuck), and that the faults are
   the only way back in its program; a corollary for each component of what the store's
   theorems mean for its buyers.
2. `RemedyExecutor`: reconcile, claim, idempotent send and the confirmation loop of
   `distribution/remedy-executor`, with answers lost after an irreversible call; then the
   provisioner, which lists, checks and creates one account.
3. `FrontDoor`: the connection semaphore of the bounded server, taken in the accept thread
   and given back in the worker thread, and the eviction of the sliding-window limiter.

## 7. Not modelled

Cryptography and document building (`signing.py`, `receipt.py`, most of `catalog*.py`: pure
functions over data), static analysis and skill parsing, the command line and free API,
workflows and site data: they keep no state that outlives a call. Of the components that
are modelled: signature checks and the validation of Stripe objects against tampering,
body parsing and the public routes of the API, container command lines and resource
limits, schema migration. The quote builder and request parsing of `commerce.py` appear as
constants.
