---------------------------- MODULE CommerceStore ----------------------------
(***************************************************************************)
(* commerce_store.py: quotes, orders, provider events, the contribution    *)
(* ledger and the audit history, kept in one SQLite file.                  *)
(*                                                                         *)
(* Every public method runs inside one BEGIN IMMEDIATE transaction that is *)
(* rolled back on any exception, so each is one action here; a call that   *)
(* raises InputRejected, and a call that returns what is already stored,   *)
(* changes no row and is a stuttering step.  What is not atomic across     *)
(* calls (an order without its checkout, events before or after            *)
(* fulfilment, two buyers on one quote) is the interleaving of actions.    *)
(***************************************************************************)
EXTENDS Commerce, Integers, Sequences, FiniteSets

CONSTANTS
    QuoteIds,        \* quote identifiers
    Keys,            \* order idempotency keys
    Buyers,          \* opaque buyer references
    Requests,        \* validation requests a quote can be asked for
    MaxPrice,        \* the max_price each request carries
    FakeIds,         \* "pay_test_" identifiers: checkout and payment in one
    StripeCheckouts, \* "cs_" identifiers
    StripePayments,  \* "pi_" identifiers
    Feed,            \* provider events that may be delivered, in any order, any number of times
    EventIds,        \* event identifiers; numbers, because rows are read back in id order
    ReceiveTimes,    \* values of received_at
    CostCategories,  \* DIRECT_COST_CATEGORIES
    CostSheets,      \* direct cost records a caller may submit
    CostKeys,        \* cost idempotency keys
    ReceiptIds, Digests,   \* delivery evidence: receipt id, envelope and receipt digests
    Environment,     \* "sandbox" or "live"; fixed when the file is created
    LiveCheckout,    \* live_checkout_enabled
    QuotedAmount,    \* amount_minor of the legacy Stripe quote
    TTL,             \* per provider, ticks between generated_at and expires_at
    MaxTime,         \* bound on the clock
    None             \* SQL NULL

Providers   == {"fake", "stripe"}
CheckoutIds == FakeIds \cup StripeCheckouts
PaymentIds  == FakeIds \cup StripePayments

(* order_id is a digest of quote, idempotency key and buyer: that triple.  *)
OrderIds    == QuoteIds \X Keys \X Buyers
QuoteOf(o)  == o[1]
KeyOf(o)    == o[2]

Categories  == {"gross_collected", "processing_fee", "refund"} \cup CostCategories

(* What _validate_event lets through; currency and environment are checked *)
(* there too and are the store's own in every stored event.                *)
Event == [id: EventIds, type: EventTypes, provider: Providers,
          payment: PaymentIds, amount: Nat, fee: Nat, occurred_at: Nat]
EventValid(e) ==
    /\ e.fee <= e.amount
    /\ e.provider = "fake" => Environment = "sandbox" /\ e.payment \in FakeIds
    /\ e.provider = "stripe" => e.payment \in StripePayments

ASSUME ConstantsAssumption ==
    /\ QuotedAmount \in Nat \ {0} /\ TTL \in [Providers -> Nat \ {0}] /\ MaxTime \in Nat
    /\ Environment \in {"sandbox", "live"} /\ LiveCheckout \in BOOLEAN
    /\ IsFiniteSet(EventIds) /\ EventIds \subseteq Nat
    /\ ReceiveTimes \subseteq Nat
    /\ MaxPrice \in [Requests -> Nat]
    /\ Feed \subseteq Event
    /\ CostSheets \subseteq [CostCategories -> Nat]
    /\ CostCategories \cap {"gross_collected", "processing_fee", "refund"} = {}

ASSUME NoneAssumption ==
    /\ None \notin CheckoutIds \cup PaymentIds \cup Feed
    /\ None \notin ReceiptIds \X Digests
    /\ FakeIds \cap StripePayments = {} /\ FakeIds \cap StripeCheckouts = {}

VARIABLES
    quotes,             \* table quotes
    orders,             \* table orders
    provider_events,    \* table provider_events
    financial_entries,  \* table financial_entries, grouped as every reader groups it
    cost_records,       \* table cost_records
    order_history,      \* table order_history, by order and dimension
    now                 \* the clock the callers read

vars == <<quotes, orders, provider_events, financial_entries, cost_records,
          order_history, now>>

Evidence == ReceiptIds \X Digests

QuoteRow == [request: Requests, provider: Providers, generated_at: Nat, expires_at: Nat]
OrderRow ==
    [order_status: OrderStatus \cup {"absent"}, payment_status: PaymentStatus,
     provider: Providers, checkout: CheckoutIds \cup {None},
     payment: PaymentIds \cup {None},
     collected: Nat, refunded: Nat, fee: Nat, costs_recorded: BOOLEAN,
     delivery_status: {"not_started", "running", "delivered", "failed"},
     receipt: Evidence \cup {None}]
EventRow ==
    [event: Feed \cup {None}, received_at: Nat,
     status: {"absent", "pending", "applied", "applied_duplicate_effect",
              "rejected_amount_mismatch", "rejected_effect_conflict"}]
Entry    == [rows: Nat, amount: Nat, impact: Int]
Moves    == Seq((OrderStatus \cup PaymentStatus \cup {"absent"})
                  \X (OrderStatus \cup PaymentStatus))
History  == [order: Moves, payment: Moves]

TypeOK ==
    /\ quotes \in [QuoteIds -> QuoteRow \cup {None}]
    /\ orders \in [OrderIds -> OrderRow]
    /\ provider_events \in [EventIds -> EventRow]
    /\ financial_entries \in [OrderIds -> [Categories -> Entry]]
    /\ cost_records \subseteq OrderIds \X CostKeys \X CostSheets
    /\ order_history \in [OrderIds -> History]
    /\ now \in 0 .. MaxTime

NoOrder == [order_status |-> "absent", payment_status |-> "pending", provider |-> "stripe",
            checkout |-> None, payment |-> None, collected |-> 0, refunded |-> 0,
            fee |-> 0, costs_recorded |-> FALSE, delivery_status |-> "not_started",
            receipt |-> None]
NoEvent == [event |-> None, received_at |-> 0, status |-> "absent"]

Init ==
    /\ quotes = [q \in QuoteIds |-> None]
    /\ orders = [o \in OrderIds |-> NoOrder]
    /\ provider_events = [i \in EventIds |-> NoEvent]
    /\ financial_entries =
         [o \in OrderIds |-> [c \in Categories |-> [rows |-> 0, amount |-> 0, impact |-> 0]]]
    /\ cost_records = {}
    /\ order_history = [o \in OrderIds |-> [order |-> <<>>, payment |-> <<>>]]
    /\ now = 0

Exists(o) == orders[o].order_status # "absent"
Placed    == {o \in OrderIds : Exists(o)}

\* mutants: the unique index is missing
PaymentFree_Shared(o, p) == Exists(o)
ReceiptFree_Shared(o, r) == Exists(o)

(* The UNIQUE constraints of the orders table: no other row holds the value. *)
CheckoutFree(o, c) == \A other \in OrderIds \ {o} : orders[other].checkout # c
PaymentFree(o, p)  == \A other \in OrderIds \ {o} : orders[other].payment # p
ReceiptFree(o, r)  == \A other \in OrderIds \ {o} :
                         orders[other].receipt # None => orders[other].receipt[1] # r

-------------------------------------------------------------------------------
(* Quotes and orders *)

(* A quote above the buyer's max_price is returned without being stored; a *)
(* known quote_id is returned or refused, never rewritten.  "at" is the     *)
(* clock as the caller read it, some time before the transaction.           *)
CreateQuote(q, request, provider, at) ==
    /\ provider = "fake" => Environment = "sandbox"
    /\ Environment = "live" => LiveCheckout
    /\ MaxPrice[request] >= QuotedAmount
    /\ quotes[q] = None
    /\ quotes' = [quotes EXCEPT ![q] = [request |-> request, provider |-> provider,
                                        generated_at |-> at, expires_at |-> at + TTL[provider]]]
    /\ UNCHANGED <<orders, provider_events, financial_entries, cost_records, order_history, now>>

CreateOrder(q, k, b, at) ==
    LET o == <<q, k, b>> IN
    /\ \A other \in Placed : KeyOf(other) # k
    /\ quotes[q] # None
    /\ at < quotes[q].expires_at
    /\ \A other \in Placed : QuoteOf(other) # q
    /\ orders' = [orders EXCEPT ![o] = [NoOrder EXCEPT !.order_status = "checkout_pending",
                                                       !.provider = quotes[q].provider]]
    /\ order_history' = [order_history EXCEPT ![o].order =
                           Append(@, <<"absent", "checkout_pending">>)]
    /\ UNCHANGED <<quotes, provider_events, financial_entries, cost_records, now>>

(* The fake provider uses one identifier for checkout and payment; Stripe   *)
(* may attach the session first and learn the PaymentIntent later.          *)
AttachCheckout(o, checkout, payment) ==
    /\ Exists(o)
    /\ IF orders[o].provider = "fake"
       THEN Environment = "sandbox" /\ checkout \in FakeIds /\ payment = checkout
       ELSE checkout \in StripeCheckouts /\ payment \in StripePayments \cup {None}
    /\ orders[o].checkout = None
    /\ AllowedOrder(orders[o].order_status, "payment_pending")
    /\ CheckoutFree(o, checkout)
    /\ payment # None => PaymentFree(o, payment)
    /\ orders' = [orders EXCEPT ![o].checkout = checkout, ![o].payment = payment,
                                ![o].order_status = "payment_pending"]
    /\ order_history' = [order_history EXCEPT ![o].order =
                           Append(@, <<orders[o].order_status, "payment_pending">>)]
    /\ UNCHANGED <<quotes, provider_events, financial_entries, cost_records, now>>

BindProviderPayment(o, payment) ==
    /\ Exists(o)
    /\ orders[o].provider = "stripe"
    /\ orders[o].checkout # None
    /\ orders[o].payment = None
    /\ PaymentFree(o, payment)
    /\ orders' = [orders EXCEPT ![o].payment = payment]
    /\ UNCHANGED <<quotes, provider_events, financial_entries, cost_records, order_history, now>>

-------------------------------------------------------------------------------
(***************************************************************************)
(* Provider events.  _reconcile_payment replays the pending events of one  *)
(* payment until a whole pass over them changes nothing.  The loop runs    *)
(* inside the transaction, so it is a function of the machine it works on: *)
(* the order row, its ledger book and history, the event table, the        *)
(* events this pass has still to visit and made_progress.                  *)
(***************************************************************************)
\* mutant: the sign of the contribution is lost
Post_Unsigned(book, category, amount, impact) ==
    [book EXCEPT ![category] = [rows   |-> @.rows + 1,
                                amount |-> @.amount + amount,
                                impact |-> @.impact + amount]]

Post(book, category, amount, impact) ==
    [book EXCEPT ![category] = [rows   |-> @.rows + 1,
                                amount |-> @.amount + amount,
                                impact |-> @.impact + impact]]

\* mutant: money moves are ignored once the worker has the order
Applicable_QueuedOnly(m, e) ==
    /\ AllowedPayment(m.row.payment_status, e.type)
    /\ IF e.type = "captured" THEN m.row.order_status = "payment_pending"
       ELSE m.row.order_status \in {"payment_pending", "queued"}

(* require_transition, and a capture only for an order awaiting payment.   *)
Applicable(m, e) ==
    /\ AllowedPayment(m.row.payment_status, e.type)
    /\ e.type = "captured" => m.row.order_status = "payment_pending"

EffectMatches(m, e) ==
    /\ e.type = "captured" => e.fee = m.row.fee
    /\ e.type = "refunded" => e.amount = m.row.refunded

(* The status one visit gives a pending event, in the order the code tests: *)
(* "pending" leaves the event for a later pass.                             *)
Verdict(m, e) ==
    IF e.amount # QuotedAmount THEN "rejected_amount_mismatch"
    ELSE IF m.row.payment_status = e.type
         THEN IF EffectMatches(m, e) THEN "applied_duplicate_effect" ELSE "rejected_effect_conflict"
         ELSE IF Applicable(m, e) THEN "applied" ELSE "pending"

\* mutants: a failed payment keeps its order open / is copied as it is
OrderTarget_CaptureOnly(row, e) == IF e.type = "captured" THEN "queued" ELSE row.order_status
OrderTarget_Verbatim(row, e) ==
    IF e.type = "captured" THEN "queued" ELSE IF e.type = "failed" THEN "failed" ELSE row.order_status

OrderTarget(row, e) ==
    IF e.type = "captured" THEN "queued"
    ELSE IF e.type = "failed" THEN "payment_failed" ELSE row.order_status

AppliedRow(row, e) ==
    LET moved == [row EXCEPT !.payment_status = e.type, !.order_status = OrderTarget(row, e)]
    IN IF e.type = "captured" THEN [moved EXCEPT !.collected = e.amount, !.fee = e.fee]
       ELSE IF e.type = "refunded" THEN [moved EXCEPT !.refunded = e.amount] ELSE moved

AppliedBook(book, e) ==
    IF e.type = "captured"
    THEN Post(Post(book, "gross_collected", e.amount, e.amount), "processing_fee", e.fee, -e.fee)
    ELSE IF e.type = "refunded" THEN Post(book, "refund", e.amount, -e.amount) ELSE book

\* mutant: the order move a failed payment makes is not recorded
MovesOrder_CaptureOnly(e) == e.type = "captured"

MovesOrder(e) == e.type \in {"captured", "failed"}

AppliedHistory(history, row, e) ==
    [payment |-> Append(history.payment, <<row.payment_status, e.type>>),
     order   |-> IF MovesOrder(e)
                 THEN Append(history.order, <<row.order_status, OrderTarget(row, e)>>)
                 ELSE history.order]

PendingEvents(m) ==
    {i \in EventIds : /\ m.log[i].status = "pending"
                      /\ m.log[i].event.payment = m.row.payment}

(* ORDER BY received_at, event_id *)
Earlier(log, i, j) ==
    \/ log[i].received_at < log[j].received_at
    \/ log[i].received_at = log[j].received_at /\ i < j

(* _mark_event *)
MarkEvent(log, i, status) == [log EXCEPT ![i].status = status]

VisitNext(m) ==
    LET i       == CHOOSE i \in m.todo : \A j \in m.todo \ {i} : Earlier(m.log, i, j)
        e       == m.log[i].event
        verdict == Verdict(m, e)
        visited == [m EXCEPT !.todo = @ \ {i}]
        marked  == [visited EXCEPT !.log = MarkEvent(m.log, i, verdict), !.progress = TRUE]
    IN IF verdict = "pending" THEN visited
       ELSE IF verdict # "applied" THEN marked
       ELSE [marked EXCEPT !.row     = AppliedRow(m.row, e),
                           !.book    = AppliedBook(m.book, e),
                           !.history = AppliedHistory(m.history, m.row, e)]

(* for event in events: ...  /  while made_progress: made_progress = False *)
LoopStep(m) ==
    IF m.todo # {} THEN VisitNext(m)
    ELSE IF m.progress THEN [m EXCEPT !.todo = PendingEvents(m), !.progress = FALSE] ELSE m

\* mutant: the pending events are read and visited once
LoopBound_OnePass == Cardinality(EventIds) + 1

(* Every pass but the last settles an event, and a pass is one step longer  *)
(* than the events it visits: this many steps always reach the end.         *)
LoopBound == (Cardinality(EventIds) + 2) * (Cardinality(EventIds) + 2)

Reconciled(m) ==
    LET after[n \in Nat] == IF n = 0 THEN m ELSE LoopStep(after[n - 1])
    IN after[LoopBound]

(* The machine ingest_provider_event hands to _reconcile_payment: the event *)
(* inserted as pending and the first pass about to be read.                 *)
Inserted(o, e, received) ==
    [row |-> orders[o], book |-> financial_entries[o], history |-> order_history[o],
     log |-> [provider_events EXCEPT ![e.id] =
                [event |-> e, received_at |-> received, status |-> "pending"]],
     todo |-> {}, progress |-> TRUE]

\* mutant: an id seen before with another payload is taken for a new event
EventUnknown_ByPayload(e) == provider_events[e.id].event # e

EventUnknown(e) == provider_events[e.id].status = "absent"

IngestProviderEvent(o, e, received) ==
    /\ EventValid(e)
    /\ EventUnknown(e)
    /\ Exists(o)
    /\ orders[o].payment = e.payment
    /\ orders[o].provider = e.provider
    /\ LET m == Reconciled(Inserted(o, e, received)) IN
       /\ orders' = [orders EXCEPT ![o] = m.row]
       /\ financial_entries' = [financial_entries EXCEPT ![o] = m.book]
       /\ order_history' = [order_history EXCEPT ![o] = m.history]
       /\ provider_events' = m.log
    /\ UNCHANGED <<quotes, cost_records, now>>

-------------------------------------------------------------------------------
(* Costs and fulfilment *)

RecordDirectCosts(o, key, sheet) ==
    /\ Exists(o)
    /\ \A sh \in CostSheets : <<o, key, sh>> \notin cost_records
    /\ ~orders[o].costs_recorded
    /\ cost_records' = cost_records \cup {<<o, key, sheet>>}
    /\ financial_entries' = [financial_entries EXCEPT ![o] =
         [c \in Categories |->
            IF c \in CostCategories
            THEN [rows   |-> @[c].rows + 1,
                  amount |-> @[c].amount + sheet[c],
                  impact |-> @[c].impact - sheet[c]]
            ELSE @[c]]]
    /\ orders' = [orders EXCEPT ![o].costs_recorded = TRUE]
    /\ UNCHANGED <<quotes, provider_events, order_history, now>>

TransitionOrder(o, target, delivery) ==
    /\ Exists(o)
    /\ orders[o].order_status # target
    /\ AllowedOrder(orders[o].order_status, target)
    /\ orders' = [orders EXCEPT ![o].order_status = target, ![o].delivery_status = delivery]
    /\ order_history' = [order_history EXCEPT ![o].order =
                           Append(@, <<orders[o].order_status, target>>)]
    /\ UNCHANGED <<quotes, provider_events, financial_entries, cost_records, now>>

BeginFulfillment(o) == TransitionOrder(o, "running", "running")
FailFulfillment(o)  == TransitionOrder(o, "fulfillment_failed", "failed")

Deliver(o, receipt) ==
    /\ Exists(o)
    /\ orders[o].costs_recorded
    /\ AllowedOrder(orders[o].order_status, "delivered")
    /\ ReceiptFree(o, receipt[1])
    /\ orders' = [orders EXCEPT ![o].order_status = "delivered", ![o].receipt = receipt,
                                ![o].delivery_status = "delivered"]
    /\ order_history' = [order_history EXCEPT ![o].order =
                           Append(@, <<orders[o].order_status, "delivered">>)]
    /\ UNCHANGED <<quotes, provider_events, financial_entries, cost_records, now>>

Tick ==
    /\ now < MaxTime
    /\ now' = now + 1
    /\ UNCHANGED <<quotes, orders, provider_events, financial_entries, cost_records, order_history>>

Next ==
    \/ \E q \in QuoteIds, r \in Requests, p \in Providers, at \in 0 .. now :
          CreateQuote(q, r, p, at)
    \/ \E q \in QuoteIds, k \in Keys, b \in Buyers, at \in 0 .. now : CreateOrder(q, k, b, at)
    \/ \E o \in OrderIds, c \in CheckoutIds, p \in PaymentIds \cup {None} :
          AttachCheckout(o, c, p)
    \/ \E o \in OrderIds, p \in StripePayments : BindProviderPayment(o, p)
    \/ \E o \in OrderIds, e \in Feed, t \in ReceiveTimes : IngestProviderEvent(o, e, t)
    \/ \E o \in OrderIds, k \in CostKeys, s \in CostSheets : RecordDirectCosts(o, k, s)
    \/ \E o \in OrderIds : BeginFulfillment(o)
    \/ \E o \in OrderIds, r \in Evidence : Deliver(o, r)
    \/ \E o \in OrderIds : FailFulfillment(o)
    \/ Tick

Spec == Init /\ [][Next]_vars
===============================================================================
