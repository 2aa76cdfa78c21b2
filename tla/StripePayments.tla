---------------------------- MODULE StripePayments ----------------------------
(***************************************************************************)
(* stripe_payments.py: StripePaymentAdapter over the commerce store.       *)
(*                                                                         *)
(* Handler threads serve two calls.  prepare_order_checkout creates the    *)
(* hosted session and attaches it; process_webhook reserves the webhook,   *)
(* retrieves session, payment, charge and balance one call at a time,      *)
(* emits what it saw to the store and finishes the webhook.  Each database *)
(* transaction and each call to Stripe is a step of its own, so Stripe,    *)
(* the clock and the other handlers move in between.  Stripe itself is     *)
(* outside the repository: stripe holds what its API would answer, and it  *)
(* only ever moves forward.                                                *)
(***************************************************************************)
EXTENDS CommerceStore

CONSTANTS
    Handlers,       \* threads of the HTTP server
    Webhooks,       \* webhook events, [name, type, order]; order None: not one of ours
    CheckoutOf,     \* the session Stripe creates for an order under its idempotency key
    PaymentOf,      \* the PaymentIntent of that session
    IntentAtOnce,   \* Stripe creates it with the session, not with the first attempt to pay
    EventIdOf,      \* _emit's identifier: a digest of order and type (reference and fee are fixed)
    Fee,            \* the processing fee of the balance transaction
    WEBHOOK_PROCESSING_LEASE,
    AvailableOn,    \* available_on of the balance transaction
    Happenings,     \* which of "authenticate", "decline", "refund", "dispute" may happen
    MaxFaults       \* bound on Stripe errors and on handlers that die in the middle

_WEBHOOK_TYPES ==
    {"checkout.session.completed", "checkout.session.async_payment_succeeded",
     "checkout.session.async_payment_failed", "payment_intent.succeeded",
     "payment_intent.payment_failed", "charge.succeeded", "charge.refunded",
     "charge.dispute.created", "charge.dispute.closed"}

ASSUME StripeAssumption ==
    /\ None \notin Handlers \cup Webhooks \cup OrderIds
    /\ \A w \in Webhooks : w.order \in OrderIds \cup {None}
    /\ CheckoutOf \in [OrderIds -> StripeCheckouts]
    /\ PaymentOf \in [OrderIds -> StripePayments]
    /\ \A o, other \in OrderIds : o # other => CheckoutOf[o] # CheckoutOf[other]
                                            /\ PaymentOf[o] # PaymentOf[other]
    /\ EventIdOf \in [OrderIds \X EventTypes -> EventIds]
    /\ \A x, y \in OrderIds \X EventTypes : EventIdOf[x] = EventIdOf[y] => x = y
    /\ IntentAtOnce \in BOOLEAN
    /\ Fee \in 0 .. QuotedAmount
    /\ WEBHOOK_PROCESSING_LEASE \in Nat \ {0}
    /\ AvailableOn \in Nat /\ MaxFaults \in Nat

VARIABLES
    stripe,            \* per order, what Stripe's API answers
    webhook_events,    \* table stripe_webhook_events
    reconciliations,   \* table stripe_reconciliations: one row per order and snapshot
    handlers,          \* per handler, where it is and what it has read
    faults             \* Stripe errors and deaths so far

adapterVars == <<stripe, webhook_events, reconciliations, handlers, faults>>
stripeVars  == <<vars, adapterVars>>

NoSession == [session |-> "none", intent |-> "none", declined |-> FALSE,
              balance |-> "pending", refunded |-> "none", disputed |-> FALSE]

(* A handler that has read nothing from Stripe yet. *)
Fresh(pc, webhook, order, received, outcome) ==
    [pc |-> pc, webhook |-> webhook, order |-> order, received |-> received, observed |-> 0,
     refunded |-> "none", disputed |-> FALSE, balance |-> "pending", outcome |-> outcome]
Idle == Fresh("idle", None, None, 0, "none")

StripeObject ==
    [session: {"none", "open", "complete", "expired"},
     intent: {"none", "processing", "requires_payment_method", "succeeded", "canceled"},
     declined: BOOLEAN,
     balance: {"pending", "available"}, refunded: {"none", "partial", "full"}, disputed: BOOLEAN]
Handler ==
    [pc: {"idle", "create", "attach", "lookup", "session", "bind", "payment", "failed",
          "charge", "balance", "captured", "available", "disputed", "refund_pending",
          "refunded", "record", "finish"},
     webhook: Webhooks \cup {None}, order: OrderIds \cup {None},
     received: 0 .. MaxTime, observed: 0 .. MaxTime,
     refunded: {"none", "partial", "full"}, disputed: BOOLEAN, balance: {"pending", "available"},
     outcome: {"none", "processed", "ignored", "retryable", "rejected"}]
WebhookRow ==
    [status: {"absent", "processing", "processed", "ignored", "retryable", "rejected"},
     updated_at: 0 .. MaxTime]

StripeTypeOK ==
    /\ stripe \in [OrderIds -> StripeObject]
    /\ webhook_events \in [Webhooks -> WebhookRow]
    /\ handlers \in [Handlers -> Handler]
    /\ faults \in 0 .. MaxFaults

StripeInit ==
    /\ Init
    /\ stripe = [o \in OrderIds |-> NoSession]
    /\ webhook_events = [w \in Webhooks |-> [status |-> "absent", updated_at |-> 0]]
    /\ reconciliations = {}
    /\ handlers = [h \in Handlers |-> Idle]
    /\ faults = 0

At(h, pc)      == handlers[h].pc = pc
OrderAt(h)     == handlers[h].order
GoTo(h, pc)    == handlers' = [handlers EXCEPT ![h].pc = pc]
Conclude(h, outcome) ==
    handlers' = [handlers EXCEPT ![h].pc = "finish", ![h].outcome = outcome]

-------------------------------------------------------------------------------
(* Stripe (external) *)

StripeMoves(o, object) ==
    /\ stripe' = [stripe EXCEPT ![o] = object]
    /\ UNCHANGED <<vars, webhook_events, reconciliations, handlers, faults>>

(* The buyer has submitted a card and it is neither taken nor declined yet. *)
PaymentProcessing(o) ==
    /\ "authenticate" \in Happenings
    /\ stripe[o].session = "open" /\ stripe[o].intent # "processing" /\ orders[o].checkout # None
    /\ StripeMoves(o, [stripe[o] EXCEPT !.intent = "processing"])

(* A declined card leaves the session open: the buyer may try another one. *)
PaymentDeclined(o) ==
    /\ "decline" \in Happenings
    /\ stripe[o].session = "open" /\ ~stripe[o].declined /\ orders[o].checkout # None
    /\ StripeMoves(o, [stripe[o] EXCEPT !.intent = "requires_payment_method", !.declined = TRUE])

PaymentSucceeds(o) ==
    /\ stripe[o].session = "open" /\ orders[o].checkout # None
    /\ StripeMoves(o, [stripe[o] EXCEPT !.session = "complete", !.intent = "succeeded"])

(* With the session Stripe may cancel the payment nobody completed.         *)
SessionExpires(o) ==
    LET intent == stripe[o].intent IN
    /\ stripe[o].session = "open"
    /\ now >= quotes[QuoteOf(o)].expires_at
    /\ \E left \in {intent} \cup (IF intent = "none" THEN {} ELSE {"canceled"}) :
         StripeMoves(o, [stripe[o] EXCEPT !.session = "expired", !.intent = left])

Paid(o) == stripe[o].intent = "succeeded"

FundsBecomeAvailable(o) ==
    /\ Paid(o) /\ stripe[o].balance = "pending" /\ now >= AvailableOn
    /\ StripeMoves(o, [stripe[o] EXCEPT !.balance = "available"])

ChargeRefunded(o) ==
    /\ "refund" \in Happenings
    /\ Paid(o) /\ stripe[o].refunded # "full"
    /\ \E amount \in {"partial", "full"} \ {stripe[o].refunded} :
         StripeMoves(o, [stripe[o] EXCEPT !.refunded = amount])

ChargeDisputed(o) ==
    /\ "dispute" \in Happenings
    /\ Paid(o) /\ ~stripe[o].disputed
    /\ StripeMoves(o, [stripe[o] EXCEPT !.disputed = TRUE])

(* Stripe has sent a webhook once what it announces has happened, and sends *)
(* it again until the answer is a success.                                  *)
Sent(w) ==
    IF w.order = None \/ w.type \notin _WEBHOOK_TYPES THEN TRUE
    ELSE LET object == stripe[w.order] IN
         CASE w.type \in {"payment_intent.payment_failed",
                          "checkout.session.async_payment_failed"} -> object.declined
           [] w.type = "charge.refunded" -> object.refunded # "none"
           [] w.type \in {"charge.dispute.created", "charge.dispute.closed"} -> object.disputed
           [] OTHER -> object.intent = "succeeded"

-------------------------------------------------------------------------------
(* prepare_order_checkout *)

BeginCheckout(h, o) ==
    /\ At(h, "idle")
    /\ Exists(o) /\ orders[o].provider = "stripe" /\ orders[o].checkout = None
    /\ handlers' = [handlers EXCEPT ![h] = Fresh("create", None, o, 0, "none")]
    /\ UNCHANGED <<vars, stripe, webhook_events, reconciliations, faults>>

Created(object) ==
    IF object.session # "none" THEN object
    ELSE [object EXCEPT !.session = "open",
                        !.intent = IF IntentAtOnce THEN "requires_payment_method" ELSE "none"]

(* The payment in that answer, the same one for every repetition.          *)
CreatedPayment(o) == IF IntentAtOnce THEN PaymentOf[o] ELSE None

(* The idempotency key makes a repeated creation answer the first session. *)
CreateSession(h) ==
    /\ At(h, "create")
    /\ stripe' = [stripe EXCEPT ![OrderAt(h)] = Created(@)]
    /\ GoTo(h, "attach")
    /\ UNCHANGED <<vars, webhook_events, reconciliations, faults>>

AttachSession(h) ==
    /\ At(h, "attach")
    /\ IF orders[OrderAt(h)].checkout = None
       THEN AttachCheckout(OrderAt(h), CheckoutOf[OrderAt(h)], CreatedPayment(OrderAt(h)))
       ELSE UNCHANGED vars
    /\ handlers' = [handlers EXCEPT ![h] = Idle]
    /\ UNCHANGED <<stripe, webhook_events, reconciliations, faults>>

-------------------------------------------------------------------------------
(* process_webhook *)

\* mutants: a dead handler's webhook is never taken over / a failed one is not retried
Reservable_NoTakeover(w, received) == webhook_events[w].status \in {"absent", "retryable"}
Reservable_NoRetry(w, received) ==
    \/ webhook_events[w].status = "absent"
    \/ /\ webhook_events[w].status = "processing"
       /\ received - webhook_events[w].updated_at >= WEBHOOK_PROCESSING_LEASE

(* _reserve_webhook: new, retryable, or its lease has run out. *)
Reservable(w, received) ==
    \/ webhook_events[w].status \in {"absent", "retryable"}
    \/ /\ webhook_events[w].status = "processing"
       /\ received - webhook_events[w].updated_at >= WEBHOOK_PROCESSING_LEASE

\* mutant: a webhook of no interest is finished without its outcome
Reserved_NoOutcome(w) ==
    IF w.type \in _WEBHOOK_TYPES THEN Fresh("lookup", w, None, now, "none")
                                 ELSE Fresh("finish", w, None, now, "none")

Reserved(w) ==
    IF w.type \in _WEBHOOK_TYPES THEN Fresh("lookup", w, None, now, "none")
                                 ELSE Fresh("finish", w, None, now, "ignored")

ReserveWebhook(h, w) ==
    /\ At(h, "idle") /\ Sent(w)
    /\ Reservable(w, now)
    /\ webhook_events' = [webhook_events EXCEPT ![w] = [status |-> "processing", updated_at |-> now]]
    /\ handlers' = [handlers EXCEPT ![h] = Reserved(w)]
    /\ UNCHANGED <<vars, stripe, reconciliations, faults>>

ReadStep(h, pc) ==
    At(h, pc) /\ UNCHANGED <<vars, stripe, webhook_events, reconciliations, faults>>

(* _order_id_for_event, then the start of reconcile_order. *)
LookupOrder(h) ==
    LET o == handlers[h].webhook.order IN
    /\ ReadStep(h, "lookup")
    /\ IF o = None \/ ~Exists(o) \/ orders[o].checkout = None
       THEN Conclude(h, "rejected")
       ELSE handlers' = [handlers EXCEPT ![h].pc = "session", ![h].order = o, ![h].observed = now]

RetrieveSession(h) ==
    /\ ReadStep(h, "session")
    /\ IF stripe[OrderAt(h)].intent = "none" THEN Conclude(h, "processed") ELSE GoTo(h, "bind")

BindPayment(h) ==
    LET o == OrderAt(h) IN
    /\ At(h, "bind")
    /\ \/ BindProviderPayment(o, PaymentOf[o]) /\ GoTo(h, "payment")
       \/ orders[o].payment = PaymentOf[o] /\ GoTo(h, "payment") /\ UNCHANGED vars
       \/ /\ orders[o].payment # PaymentOf[o]
          /\ orders[o].payment # None \/ ~PaymentFree(o, PaymentOf[o])
          /\ Conclude(h, "rejected") /\ UNCHANGED vars
    /\ UNCHANGED <<stripe, webhook_events, reconciliations, faults>>

\* mutant: the status of the payment is not looked at
AfterPayment_AnyIntent(intent) == "charge"

(* "canceled" and "requires_payment_method" count as failed.               *)
AfterPayment(intent) == IF intent = "succeeded" THEN "charge" ELSE "failed"

RetrievePayment(h) ==
    LET intent == stripe[OrderAt(h)].intent IN
    /\ ReadStep(h, "payment")
    /\ IF intent = "processing" THEN Conclude(h, "processed") ELSE GoTo(h, AfterPayment(intent))

RetrieveCharge(h) ==
    LET charge == stripe[OrderAt(h)] IN
    /\ ReadStep(h, "charge")
    /\ IF charge.refunded = "partial" THEN Conclude(h, "rejected")
       ELSE handlers' = [handlers EXCEPT ![h].pc = "balance", ![h].refunded = charge.refunded,
                                         ![h].disputed = charge.disputed]

RetrieveBalance(h) ==
    /\ ReadStep(h, "balance")
    /\ handlers' = [handlers EXCEPT ![h].pc = "captured", ![h].balance = stripe[OrderAt(h)].balance]

(* What _emit hands to ingest_provider_event; the creation times of charge, *)
(* payment and balance are fixed, those of refunds and disputes are "now".  *)
Emitted(o, type, occurred_at) ==
    [id |-> EventIdOf[<<o, type>>], type |-> type, provider |-> "stripe",
     payment |-> PaymentOf[o], amount |-> QuotedAmount,
     fee |-> IF type = "captured" THEN Fee ELSE 0, occurred_at |-> occurred_at]

(* The instance lets the store receive what the adapter can tell it. *)
ASSUME FeedAssumption ==
    /\ 0 .. MaxTime \subseteq ReceiveTimes
    /\ \A o \in OrderIds, type \in EventTypes, t \in 0 .. MaxTime : Emitted(o, type, t) \in Feed

(* The store takes a new event, knows the same one, or refuses the id. *)
Emit(h, type, occurred_at, next) ==
    LET o == OrderAt(h)
        e == Emitted(o, type, occurred_at)
        known == provider_events[e.id].event
    IN /\ \/ IngestProviderEvent(o, e, now) /\ next
          \/ known = e /\ next /\ UNCHANGED vars
          \/ known \notin {None, e} /\ Conclude(h, "rejected") /\ UNCHANGED vars
       /\ UNCHANGED <<stripe, webhook_events, reconciliations, faults>>

\* mutant: only disputes are followed
NextMove_DisputeOnly(h) == IF handlers[h].disputed THEN "disputed" ELSE "record"

(* After capture and availability: dispute, refund or nothing to add. *)
NextMove(h) ==
    IF handlers[h].disputed THEN "disputed"
    ELSE IF handlers[h].refunded = "full" THEN "refund_pending" ELSE "record"

EmitFailed(h) == At(h, "failed") /\ Emit(h, "failed", 0, Conclude(h, "processed"))

EmitCaptured(h) ==
    /\ At(h, "captured")
    /\ Emit(h, "captured", 0, GoTo(h, IF handlers[h].balance = "available"
                                      THEN "available" ELSE NextMove(h)))

(* Funds that became available after the call began look future-dated. *)
EmitAvailable(h) ==
    /\ At(h, "available")
    /\ IF AvailableOn > handlers[h].observed
       THEN Conclude(h, "rejected") /\ UNCHANGED <<vars, stripe, webhook_events, reconciliations, faults>>
       ELSE Emit(h, "available", AvailableOn, GoTo(h, NextMove(h)))

EmitDisputed(h) == At(h, "disputed") /\ Emit(h, "disputed", now, GoTo(h, "record"))

EmitRefundPending(h) ==
    At(h, "refund_pending") /\ Emit(h, "refund_pending", now, GoTo(h, "refunded"))

EmitRefunded(h) == At(h, "refunded") /\ Emit(h, "refunded", now, GoTo(h, "record"))

RecordReconciliation(h) ==
    /\ At(h, "record")
    /\ reconciliations' = reconciliations \cup
         {[order |-> OrderAt(h), refunded |-> handlers[h].refunded,
           disputed |-> handlers[h].disputed, balance |-> handlers[h].balance]}
    /\ Conclude(h, "processed")
    /\ UNCHANGED <<vars, stripe, webhook_events, faults>>

(* _finish_webhook writes the outcome whoever holds the lease by now. *)
FinishWebhook(h) ==
    /\ At(h, "finish")
    /\ webhook_events' = [webhook_events EXCEPT ![handlers[h].webhook] =
         [status |-> handlers[h].outcome, updated_at |-> handlers[h].received]]
    /\ handlers' = [handlers EXCEPT ![h] = Idle]
    /\ UNCHANGED <<vars, stripe, reconciliations, faults>>

(* A call to Stripe fails: a webhook becomes retryable, a checkout is given up. *)
StripeFails(h) ==
    /\ handlers[h].pc \in {"create", "lookup", "session", "payment", "charge", "balance"}
    /\ faults < MaxFaults
    /\ IF At(h, "create") THEN handlers' = [handlers EXCEPT ![h] = Idle] ELSE Conclude(h, "retryable")
    /\ faults' = faults + 1
    /\ UNCHANGED <<vars, stripe, webhook_events, reconciliations>>

(* The process stops, or an exception nobody catches ends the thread, while *)
(* the clock can still run the lease out.                                   *)
HandlerDies(h) ==
    /\ ~At(h, "idle")
    /\ faults < MaxFaults /\ now + WEBHOOK_PROCESSING_LEASE <= MaxTime
    /\ handlers' = [handlers EXCEPT ![h] = Idle]
    /\ faults' = faults + 1
    /\ UNCHANGED <<vars, stripe, webhook_events, reconciliations>>

-------------------------------------------------------------------------------
StripeAction(o) ==
    \/ PaymentProcessing(o) \/ PaymentDeclined(o) \/ PaymentSucceeds(o) \/ SessionExpires(o)
    \/ FundsBecomeAvailable(o) \/ ChargeRefunded(o) \/ ChargeDisputed(o)

HandlerStep(h) ==
    \/ CreateSession(h) \/ AttachSession(h)
    \/ LookupOrder(h) \/ RetrieveSession(h) \/ BindPayment(h) \/ RetrievePayment(h)
    \/ RetrieveCharge(h) \/ RetrieveBalance(h)
    \/ EmitFailed(h) \/ EmitCaptured(h) \/ EmitAvailable(h) \/ EmitDisputed(h)
    \/ EmitRefundPending(h) \/ EmitRefunded(h)
    \/ RecordReconciliation(h) \/ FinishWebhook(h)

StoreStep ==
    /\ \/ \E q \in QuoteIds, r \in Requests : CreateQuote(q, r, "stripe", now)
       \/ \E q \in QuoteIds, k \in Keys, b \in Buyers : CreateOrder(q, k, b, now)
       \/ Tick
    /\ UNCHANGED adapterVars

StripeNext ==
    \/ StoreStep
    \/ \E o \in OrderIds : StripeAction(o)
    \/ \E h \in Handlers, o \in OrderIds : BeginCheckout(h, o)
    \/ \E h \in Handlers, w \in Webhooks : ReserveWebhook(h, w)
    \/ \E h \in Handlers : HandlerStep(h) \/ StripeFails(h) \/ HandlerDies(h)

StripeSpec == StripeInit /\ [][StripeNext]_stripeVars

(* WF_stripeVars(HandlerStep(h)): a handler that is not idle can always go  *)
(* on.  Spelled out, because ENABLED would run the reconcile loop.          *)
HandlerFairness(h) == []<>At(h, "idle") \/ []<><<HandlerStep(h)>>_stripeVars

(* A thread that runs goes on; Stripe redelivers what was not answered with *)
(* a success; time passes.  Nobody has to order, pay, refund or dispute.    *)
StripeFairness ==
    /\ \A h \in Handlers : HandlerFairness(h)
    /\ \A w \in Webhooks : WF_stripeVars(\E h \in Handlers : ReserveWebhook(h, w))
    /\ WF_stripeVars(Tick /\ UNCHANGED adapterVars)

FairStripeSpec == StripeSpec /\ StripeFairness

-------------------------------------------------------------------------------
PaidStates == {"captured", "available", "refund_pending", "refunded", "disputed"}

(* The store never says more than Stripe does, however old the objects are  *)
(* that a handler decided on (stripe_payments.py:488 reconcile_order).      *)
StoreNeverAhead ==
    \A o \in OrderIds : LET status == orders[o].payment_status IN
        /\ status \in PaidStates => Paid(o)
        /\ status = "failed" => stripe[o].declined
        /\ status = "available" => stripe[o].balance = "available"
        /\ status \in {"refund_pending", "refunded"} => stripe[o].refunded = "full"
        /\ status = "disputed" => stripe[o].disputed

Announced(w) ==
    CASE w.type = "charge.refunded" -> {"refunded", "disputed"}
      [] w.type \in {"charge.dispute.created", "charge.dispute.closed"} -> {"disputed", "refunded"}
      [] w.type \in {"payment_intent.payment_failed", "checkout.session.async_payment_failed"}
           -> PaidStates \cup {"failed", "pending"}
      [] OTHER -> PaidStates

(* A webhook marked processed has had its effect: whichever handlers worked *)
(* on it, died on it or overtook each other, the order's payment has moved  *)
(* at least to what the webhook announced, unless an earlier decline had    *)
(* already closed the order (stripe_payments.py:479).  A decline may have   *)
(* been followed by another attempt, so it promises nothing.                *)
ProcessedHasEffect ==
    \A w \in Webhooks :
        webhook_events[w].status = "processed" =>
            \/ orders[w.order].payment_status \in Announced(w)
            \/ orders[w.order].payment_status = "failed" /\ stripe[w.order].declined

(* A webhook once reserved is settled in the end, although calls to Stripe  *)
(* fail and handlers die (stripe_payments.py:782, the lease takeover).      *)
WebhooksSettle ==
    \A w \in Webhooks :
        webhook_events[w].status \in {"processing", "retryable"}
            ~> webhook_events[w].status \in {"processed", "ignored", "rejected"}

(* Money taken gets the order into the work queue, if a webhook announces   *)
(* it (reconcile_order, stripe_payments.py:488), with two exceptions that   *)
(* are the code's: an earlier decline has closed the order (:537), and a    *)
(* partial refund that Stripe shows before the webhook is handled has it    *)
(* rejected for good (:561) before the capture is emitted (:583).           *)
PaidOrderQueued ==
    \A o \in OrderIds :
        (/\ Paid(o) /\ ~stripe[o].declined /\ stripe[o].refunded = "none"
         /\ \E w \in Webhooks : w.order = o /\ w.type = "checkout.session.completed")
            ~> (orders[o].order_status = "queued" \/ stripe[o].refunded = "partial")

-------------------------------------------------------------------------------
(* What the repository says of this code and the code does not do.          *)

(* "lease_retries_crash_orphan_without_parallel_reconciliation"             *)
(* (tests/test_stripe_payments.py:347): while one handler's lease on a      *)
(* webhook runs, no other handler reserves it.                              *)
LeaseIsExclusive ==
    \A g, h \in Handlers :
        (g # h /\ \A x \in {g, h} : /\ handlers[x].webhook # None
                                    /\ now - handlers[x].received < WEBHOOK_PROCESSING_LEASE)
            => handlers[g].webhook # handlers[h].webhook

(* "deduplicate it, and reconcile retrieved state" (stripe_payments.py:417):*)
(* a handled webhook about one of our orders, whose Stripe objects are all  *)
(* within the published policy, is not refused.                             *)
DisputeIsReconciled ==
    \A w \in Webhooks :
        webhook_events[w].status = "rejected" =>
            w.order = None \/ stripe[w.order].refunded = "partial"

(* "reconcile retrieved state" (stripe_payments.py:417): when the completed *)
(* checkout has been processed, the order counts as paid.                   *)
CompletedIsCaptured ==
    \A w \in Webhooks :
        (webhook_events[w].status = "processed" /\ w.type = "checkout.session.completed")
            => orders[w.order].payment_status \in PaidStates
===============================================================================
