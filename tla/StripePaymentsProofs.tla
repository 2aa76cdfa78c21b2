------------------------- MODULE StripePaymentsProofs -------------------------
(***************************************************************************)
(* The Stripe adapter for every number of handlers, webhooks, orders and   *)
(* faults: everything it does to the store is a step of the store, so all  *)
(* that is proved of CommerceStore holds in its presence; what handlers    *)
(* know and tell the store is true of Stripe; and a webhook that was       *)
(* processed has had its effect on the order.                              *)
(***************************************************************************)
EXTENDS StripePayments, CommerceStoreProofs

-------------------------------------------------------------------------------
(* The inductive invariant *)

(* A handler that works on an order knows which, and one that works on a   *)
(* webhook knows which and how it ends.                                    *)
HandlerKnows(x) ==
    /\ x.pc \notin {"idle", "lookup", "finish"} => x.order # None
    /\ x.pc \notin {"idle", "create", "attach"} => x.webhook # None
    /\ x.pc = "finish" => x.outcome # "none"

HandlersKnow == \A h \in Handlers : HandlerKnows(handlers[h])

AdapterInv == StripeTypeOK /\ HandlersKnow

StripeInv == StoreInv /\ AdapterInv

LEMMA NowInTime == ASSUME StripeInv PROVE now \in 0 .. MaxTime
BY DEF StripeInv, StoreInv, TypeOK

(* What the prover needs of a handler that is at work on an order.         *)
LEMMA AtWork ==
    ASSUME StripeInv, NEW h \in Handlers, handlers[h].pc \notin {"idle", "lookup", "finish"}
    PROVE  OrderAt(h) \in OrderIds /\ PaymentOf[OrderAt(h)] \in StripePayments
BY StripeAssumption DEF StripeInv, AdapterInv, StripeTypeOK, HandlersKnow, HandlerKnows, Handler, OrderAt

-------------------------------------------------------------------------------
(* One handler moves *)

HandlerBecomes(h, x) ==
    x \in Handler /\ HandlerKnows(x) /\ handlers' = [handlers EXCEPT ![h] = x]

LEMMA MoveKeepsAdapter ==
    ASSUME StripeInv, NEW h \in Handlers, NEW x, HandlerBecomes(h, x),
           stripe' \in [OrderIds -> StripeObject], webhook_events' \in [Webhooks -> WebhookRow],
           faults' \in 0 .. MaxFaults
    PROVE  AdapterInv'
<1>1. /\ handlers'[h] = x /\ handlers' \in [Handlers -> Handler]
      /\ \A g \in Handlers \ {h} : handlers'[g] = handlers[g]
  BY DEF HandlerBecomes, StripeInv, AdapterInv, StripeTypeOK
<1>2. HandlersKnow'
  BY <1>1 DEF HandlerBecomes, StripeInv, AdapterInv, HandlersKnow
<1>3. StripeTypeOK'
  BY <1>1 DEF StripeTypeOK
<1>4. QED
  BY <1>2, <1>3 DEF AdapterInv

LEMMA SameAdapter ==
    ASSUME StripeInv
    PROVE  /\ stripe' = stripe => stripe' \in [OrderIds -> StripeObject]
           /\ webhook_events' = webhook_events => webhook_events' \in [Webhooks -> WebhookRow]
           /\ faults' = faults => faults' \in 0 .. MaxFaults
BY DEF StripeInv, AdapterInv, StripeTypeOK

Steps == {"create", "attach", "lookup", "session", "bind", "payment", "failed", "charge",
          "balance", "captured", "available", "disputed", "refund_pending", "refunded", "record"}

(* To a later step of the same call.                                       *)
LEMMA GoToBecomes ==
    ASSUME StripeInv, NEW h \in Handlers, NEW pc \in Steps \ {"create", "lookup"}, GoTo(h, pc),
           handlers[h].pc \notin {"idle", "lookup", "finish"},
           pc = "attach" \/ handlers[h].webhook # None
    PROVE  \E x : HandlerBecomes(h, x)
<1> DEFINE x == [handlers[h] EXCEPT !.pc = pc]
<1>1. handlers[h] \in Handler /\ HandlerKnows(handlers[h])
  BY DEF StripeInv, AdapterInv, StripeTypeOK, HandlersKnow
<1>2. x \in Handler /\ x.pc = pc /\ x.order = handlers[h].order /\ x.webhook = handlers[h].webhook
  BY <1>1 DEF Handler, Steps
<1>3. HandlerKnows(x)
  BY <1>1, <1>2 DEF HandlerKnows, Steps
<1>4. QED
  BY <1>2, <1>3 DEF HandlerBecomes, GoTo

(* To the end of a webhook.                                                *)
LEMMA ConcludeBecomes ==
    ASSUME StripeInv, NEW h \in Handlers, NEW outcome \in {"processed", "retryable", "rejected"},
           Conclude(h, outcome), handlers[h].pc \notin {"idle", "create", "attach"}
    PROVE  \E x : HandlerBecomes(h, x)
<1> DEFINE x == [handlers[h] EXCEPT !.pc = "finish", !.outcome = outcome]
<1>1. handlers[h] \in Handler /\ HandlerKnows(handlers[h])
  BY DEF StripeInv, AdapterInv, StripeTypeOK, HandlersKnow
<1>2. /\ x \in Handler /\ x.pc = "finish" /\ x.outcome = outcome
      /\ x.webhook = handlers[h].webhook
  BY <1>1 DEF Handler
<1>3. HandlerKnows(x)
  BY <1>1, <1>2 DEF HandlerKnows
<1>4. handlers' = [handlers EXCEPT ![h] = x]
  BY DEF Conclude
<1>5. QED
  BY <1>2, <1>3, <1>4 DEF HandlerBecomes

-------------------------------------------------------------------------------
(* The actions *)

Preserved == [Next]_vars /\ AdapterInv'

LEMMA HandlerPreserves ==
    ASSUME StripeInv, NEW h \in Handlers, \E x : HandlerBecomes(h, x), [Next]_vars,
           stripe' \in [OrderIds -> StripeObject], webhook_events' \in [Webhooks -> WebhookRow],
           faults' \in 0 .. MaxFaults
    PROVE  Preserved
BY MoveKeepsAdapter DEF Preserved

(* A handler reads, or tells the store something, and goes on or concludes.*)
LEMMA ReaderPreserves ==
    ASSUME StripeInv, NEW h \in Handlers, \E x : HandlerBecomes(h, x), [Next]_vars,
           UNCHANGED <<stripe, webhook_events, reconciliations, faults>>
    PROVE  Preserved
BY SameAdapter, HandlerPreserves

(* The handler's state beyond its record: it works on a webhook of ours.   *)
LEMMA AtWebhook ==
    ASSUME StripeInv, NEW h \in Handlers, handlers[h].pc \notin {"idle", "create", "attach"}
    PROVE  handlers[h].webhook \in Webhooks
BY DEF StripeInv, AdapterInv, StripeTypeOK, HandlersKnow, HandlerKnows, Handler

LEMMA FreshHandler ==
    ASSUME NEW pc \in {"idle", "create", "lookup", "finish"},
           NEW webhook \in Webhooks \cup {None}, NEW order \in OrderIds \cup {None},
           NEW received \in 0 .. MaxTime, NEW outcome \in {"none", "ignored"},
           pc = "create" => order # None,
           pc \in {"lookup", "finish"} => webhook # None,
           pc = "finish" => outcome # "none"
    PROVE  /\ Fresh(pc, webhook, order, received, outcome) \in Handler
           /\ HandlerKnows(Fresh(pc, webhook, order, received, outcome))
<1>1. 0 \in 0 .. MaxTime
  BY ConstantsAssumption
<1>2. Fresh(pc, webhook, order, received, outcome) \in Handler
  BY <1>1 DEF Fresh, Handler
<1>3. HandlerKnows(Fresh(pc, webhook, order, received, outcome))
  BY DEF Fresh, HandlerKnows
<1>4. QED
  BY <1>2, <1>3

LEMMA IdleBecomes ==
    ASSUME NEW h \in Handlers, handlers' = [handlers EXCEPT ![h] = Idle]
    PROVE  \E x : HandlerBecomes(h, x)
<1>1. 0 \in 0 .. MaxTime
  BY ConstantsAssumption
<1>2. Idle \in Handler /\ HandlerKnows(Idle)
  BY <1>1, FreshHandler DEF Idle
<1>3. QED
  BY <1>2 DEF HandlerBecomes

LEMMA BeginCheckoutPreserves ==
    ASSUME StripeInv, NEW h \in Handlers, NEW o \in OrderIds, BeginCheckout(h, o)
    PROVE  Preserved
<1> DEFINE x == Fresh("create", None, o, 0, "none")
<1>1. x \in Handler /\ HandlerKnows(x)
  <2>1. 0 \in 0 .. MaxTime /\ o # None
    BY StripeAssumption, ConstantsAssumption
  <2>2. QED
    BY <2>1, FreshHandler
<1>2. \E y : HandlerBecomes(h, y)
  BY <1>1 DEF HandlerBecomes, BeginCheckout
<1>3. QED
  BY <1>2, ReaderPreserves DEF BeginCheckout

LEMMA CreateSessionPreserves ==
    ASSUME StripeInv, NEW h \in Handlers, CreateSession(h) PROVE Preserved
<1>1. OrderAt(h) \in OrderIds /\ handlers[h].pc = "create"
  BY AtWork DEF CreateSession, At
<1>2. \E x : HandlerBecomes(h, x)
  BY <1>1, GoToBecomes DEF CreateSession, Steps
<1>3. stripe' \in [OrderIds -> StripeObject]
  <2>1. stripe[OrderAt(h)] \in StripeObject
    BY <1>1 DEF StripeInv, AdapterInv, StripeTypeOK
  <2>2. Created(stripe[OrderAt(h)]) \in StripeObject
    BY <2>1 DEF Created, StripeObject
  <2>3. QED
    BY <1>1, <2>2 DEF CreateSession, StripeInv, AdapterInv, StripeTypeOK
<1>4. QED
  BY <1>2, <1>3, SameAdapter, HandlerPreserves DEF CreateSession

LEMMA AttachSessionPreserves ==
    ASSUME StripeInv, NEW h \in Handlers, AttachSession(h) PROVE Preserved
<1>1. /\ OrderAt(h) \in OrderIds /\ CheckoutOf[OrderAt(h)] \in CheckoutIds
      /\ CreatedPayment(OrderAt(h)) \in PaymentIds \cup {None}
  BY AtWork, StripeAssumption DEF AttachSession, At, CheckoutIds, PaymentIds, CreatedPayment
<1>2. [Next]_vars
  BY <1>1 DEF AttachSession, Next
<1>3. \E x : HandlerBecomes(h, x)
  BY IdleBecomes DEF AttachSession
<1>4. QED
  BY <1>2, <1>3, ReaderPreserves DEF AttachSession

LEMMA ReserveWebhookPreserves ==
    ASSUME StripeInv, NEW h \in Handlers, NEW w \in Webhooks, ReserveWebhook(h, w)
    PROVE  Preserved
<1>1. now \in 0 .. MaxTime
  BY NowInTime, ConstantsAssumption
<1>2. Reserved(w) \in Handler /\ HandlerKnows(Reserved(w))
  <2>1. w # None
    BY StripeAssumption
  <2>2. /\ Fresh("lookup", w, None, now, "none") \in Handler
        /\ HandlerKnows(Fresh("lookup", w, None, now, "none"))
    BY <1>1, <2>1, FreshHandler
  <2>3. /\ Fresh("finish", w, None, now, "ignored") \in Handler
        /\ HandlerKnows(Fresh("finish", w, None, now, "ignored"))
    BY <1>1, <2>1, FreshHandler
  <2>4. QED
    BY <2>2, <2>3 DEF Reserved
<1>3. \E x : HandlerBecomes(h, x)
  BY <1>2 DEF HandlerBecomes, ReserveWebhook
<1>4. webhook_events' \in [Webhooks -> WebhookRow]
  BY <1>1 DEF ReserveWebhook, WebhookRow, StripeInv, AdapterInv, StripeTypeOK
<1>5. QED
  BY <1>3, <1>4, SameAdapter, HandlerPreserves DEF ReserveWebhook

LEMMA LookupOrderPreserves ==
    ASSUME StripeInv, NEW h \in Handlers, LookupOrder(h) PROVE Preserved
<1> DEFINE o == handlers[h].webhook.order
<1>1. /\ handlers[h].pc = "lookup"
      /\ UNCHANGED <<vars, stripe, webhook_events, reconciliations, faults>>
  BY DEF LookupOrder, ReadStep, At
<1>2. CASE Conclude(h, "rejected")
  BY <1>1, <1>2, ConcludeBecomes, ReaderPreserves
<1>3. CASE o # None /\ handlers' = [handlers EXCEPT ![h].pc = "session", ![h].order = o,
                                                  ![h].observed = now]
  <2> DEFINE x == [handlers[h] EXCEPT !.pc = "session", !.order = o, !.observed = now]
  <2>1. handlers[h] \in Handler /\ HandlerKnows(handlers[h]) /\ handlers[h].webhook \in Webhooks
    BY <1>1, AtWebhook DEF StripeInv, AdapterInv, StripeTypeOK, HandlersKnow
  <2>2. o \in OrderIds /\ now \in 0 .. MaxTime
    BY <1>3, <2>1, NowInTime, StripeAssumption
  <2>3. /\ x \in Handler /\ x.pc = "session" /\ x.order = o
        /\ x.webhook = handlers[h].webhook
    BY <2>1, <2>2 DEF Handler
  <2>4. HandlerKnows(x)
    BY <1>1, <1>3, <2>1, <2>3, StripeAssumption DEF HandlerKnows
  <2>5. HandlerBecomes(h, x)
    BY <1>3, <2>3, <2>4 DEF HandlerBecomes
  <2>6. QED
    BY <1>1, <2>5, ReaderPreserves
<1>4. QED
  BY <1>2, <1>3 DEF LookupOrder

LEMMA RetrieveSessionPreserves ==
    ASSUME StripeInv, NEW h \in Handlers, RetrieveSession(h) PROVE Preserved
<1>1. /\ handlers[h].pc = "session" /\ UNCHANGED vars
      /\ UNCHANGED <<stripe, webhook_events, reconciliations, faults>>
      /\ handlers[h].webhook # None
  BY AtWebhook, StripeAssumption DEF RetrieveSession, ReadStep, At
<1>2. Conclude(h, "processed") \/ GoTo(h, "bind")
  BY DEF RetrieveSession
<1>3. \E x : HandlerBecomes(h, x)
  BY <1>1, <1>2, ConcludeBecomes, GoToBecomes DEF Steps
<1>4. QED
  BY <1>1, <1>3, ReaderPreserves

LEMMA BindPaymentPreserves ==
    ASSUME StripeInv, NEW h \in Handlers, BindPayment(h) PROVE Preserved
<1>1. /\ handlers[h].pc = "bind" /\ handlers[h].webhook # None
      /\ OrderAt(h) \in OrderIds /\ PaymentOf[OrderAt(h)] \in StripePayments
      /\ UNCHANGED <<stripe, webhook_events, reconciliations, faults>>
  BY AtWork, AtWebhook, StripeAssumption DEF BindPayment, At
<1>2. [Next]_vars
  BY <1>1 DEF BindPayment, Next
<1>3. Conclude(h, "rejected") \/ GoTo(h, "payment")
  BY DEF BindPayment
<1>4. \E x : HandlerBecomes(h, x)
  BY <1>1, <1>3, ConcludeBecomes, GoToBecomes DEF Steps
<1>5. QED
  BY <1>1, <1>2, <1>4, ReaderPreserves

LEMMA RetrievePaymentPreserves ==
    ASSUME StripeInv, NEW h \in Handlers, RetrievePayment(h) PROVE Preserved
<1>1. /\ handlers[h].pc = "payment" /\ handlers[h].webhook # None
      /\ UNCHANGED vars
      /\ UNCHANGED <<stripe, webhook_events, reconciliations, faults>>
  BY AtWebhook, StripeAssumption DEF RetrievePayment, ReadStep, At
<1>2. Conclude(h, "processed") \/ GoTo(h, "charge") \/ GoTo(h, "failed")
  BY DEF RetrievePayment, AfterPayment
<1>3. \E x : HandlerBecomes(h, x)
  BY <1>1, <1>2, ConcludeBecomes, GoToBecomes DEF Steps
<1>4. QED
  BY <1>1, <1>3, ReaderPreserves

LEMMA RetrieveChargePreserves ==
    ASSUME StripeInv, NEW h \in Handlers, RetrieveCharge(h) PROVE Preserved
<1> DEFINE charge == stripe[OrderAt(h)]
           x == [handlers[h] EXCEPT !.pc = "balance", !.refunded = charge.refunded,
                                    !.disputed = charge.disputed]
<1>1. /\ handlers[h].pc = "charge" /\ UNCHANGED vars
      /\ UNCHANGED <<stripe, webhook_events, reconciliations, faults>>
  BY DEF RetrieveCharge, ReadStep, At
<1>2. CASE Conclude(h, "rejected")
  BY <1>1, <1>2, ConcludeBecomes, ReaderPreserves
<1>3. CASE handlers' = [handlers EXCEPT ![h].pc = "balance", ![h].refunded = charge.refunded,
                                        ![h].disputed = charge.disputed]
  <2>1. handlers[h] \in Handler /\ HandlerKnows(handlers[h]) /\ OrderAt(h) \in OrderIds
    BY <1>1, AtWork DEF StripeInv, AdapterInv, StripeTypeOK, HandlersKnow
  <2>2. charge.refunded \in {"none", "partial", "full"} /\ charge.disputed \in BOOLEAN
    BY <2>1 DEF StripeInv, AdapterInv, StripeTypeOK, StripeObject
  <2>3. x \in Handler /\ x.pc = "balance" /\ x.order = handlers[h].order /\ x.webhook = handlers[h].webhook
    BY <2>1, <2>2 DEF Handler
  <2>4. HandlerKnows(x)
    BY <1>1, <2>1, <2>3 DEF HandlerKnows
  <2>5. HandlerBecomes(h, x)
    BY <1>3, <2>3, <2>4 DEF HandlerBecomes
  <2>6. QED
    BY <1>1, <2>5, ReaderPreserves
<1>4. QED
  BY <1>2, <1>3 DEF RetrieveCharge

LEMMA RetrieveBalancePreserves ==
    ASSUME StripeInv, NEW h \in Handlers, RetrieveBalance(h) PROVE Preserved
<1> DEFINE balance == stripe[OrderAt(h)].balance
           x == [handlers[h] EXCEPT !.pc = "captured", !.balance = balance]
<1>1. /\ handlers[h].pc = "balance" /\ UNCHANGED vars
      /\ UNCHANGED <<stripe, webhook_events, reconciliations, faults>>
  BY DEF RetrieveBalance, ReadStep, At
<1>2. handlers[h] \in Handler /\ HandlerKnows(handlers[h]) /\ OrderAt(h) \in OrderIds
  BY <1>1, AtWork DEF StripeInv, AdapterInv, StripeTypeOK, HandlersKnow
<1>3. balance \in {"pending", "available"}
  BY <1>2 DEF StripeInv, AdapterInv, StripeTypeOK, StripeObject
<1>4. x \in Handler /\ x.pc = "captured" /\ x.order = handlers[h].order /\ x.webhook = handlers[h].webhook
  BY <1>2, <1>3 DEF Handler
<1>5. HandlerKnows(x)
  BY <1>1, <1>2, <1>4 DEF HandlerKnows
<1>6. HandlerBecomes(h, x)
  BY <1>4, <1>5 DEF HandlerBecomes, RetrieveBalance
<1>7. QED
  BY <1>1, <1>6, ReaderPreserves

(* What a handler tells the store is an event the store can receive.       *)
LEMMA EmitPreserves ==
    ASSUME StripeInv, NEW h \in Handlers, NEW type \in EventTypes, NEW t \in 0 .. MaxTime,
           OrderAt(h) \in OrderIds, \E x : HandlerBecomes(h, x),
           \/ IngestProviderEvent(OrderAt(h), Emitted(OrderAt(h), type, t), now)
           \/ UNCHANGED vars,
           UNCHANGED <<stripe, webhook_events, reconciliations, faults>>
    PROVE  Preserved
<1>1. now \in ReceiveTimes /\ Emitted(OrderAt(h), type, t) \in Feed
  BY NowInTime, FeedAssumption
<1>2. [Next]_vars
  BY <1>1 DEF Next
<1>3. QED
  BY <1>2, ReaderPreserves

(* The steps that emit: where the handler is and that it can go on.        *)
LEMMA AtEmission ==
    ASSUME StripeInv, NEW h \in Handlers,
           handlers[h].pc \in {"failed", "captured", "available", "disputed", "refund_pending", "refunded"}
    PROVE  /\ OrderAt(h) \in OrderIds
           /\ \A outcome \in {"processed", "rejected"} :
                Conclude(h, outcome) => \E x : HandlerBecomes(h, x)
           /\ \A pc \in {"available", "disputed", "refund_pending", "refunded", "record"} :
                GoTo(h, pc) => \E x : HandlerBecomes(h, x)
<1>1. OrderAt(h) \in OrderIds /\ handlers[h].webhook # None
  BY AtWork, AtWebhook, StripeAssumption
<1>2. ASSUME NEW outcome \in {"processed", "rejected"}, Conclude(h, outcome)
      PROVE  \E x : HandlerBecomes(h, x)
  BY <1>2, ConcludeBecomes
<1>3. ASSUME NEW pc \in {"available", "disputed", "refund_pending", "refunded", "record"}, GoTo(h, pc)
      PROVE  \E x : HandlerBecomes(h, x)
  BY <1>1, <1>3, GoToBecomes DEF Steps
<1>4. QED
  BY <1>1, <1>2, <1>3

LEMMA EmitFailedPreserves ==
    ASSUME StripeInv, NEW h \in Handlers, EmitFailed(h) PROVE Preserved
<1>1. handlers[h].pc = "failed" /\ 0 \in 0 .. MaxTime /\ "failed" \in EventTypes
  BY ConstantsAssumption DEF EmitFailed, At, EventTypes, PaymentStatus
<1>2. /\ \/ IngestProviderEvent(OrderAt(h), Emitted(OrderAt(h), "failed", 0), now)
         \/ UNCHANGED vars
      /\ Conclude(h, "processed") \/ Conclude(h, "rejected")
      /\ UNCHANGED <<stripe, webhook_events, reconciliations, faults>>
  BY DEF EmitFailed, Emit
<1>3. QED
  BY <1>1, <1>2, AtEmission, EmitPreserves

LEMMA NextMoveIsStep ==
    ASSUME NEW h \in Handlers PROVE NextMove(h) \in {"disputed", "refund_pending", "record"}
BY DEF NextMove

LEMMA EmitCapturedPreserves ==
    ASSUME StripeInv, NEW h \in Handlers, EmitCaptured(h) PROVE Preserved
<1> DEFINE pc == IF handlers[h].balance = "available" THEN "available" ELSE NextMove(h)
<1>1. handlers[h].pc = "captured" /\ 0 \in 0 .. MaxTime /\ "captured" \in EventTypes
  BY ConstantsAssumption DEF EmitCaptured, At, EventTypes, PaymentStatus
<1>2. pc \in {"available", "disputed", "refund_pending", "record"}
  BY NextMoveIsStep
<1>3. /\ \/ IngestProviderEvent(OrderAt(h), Emitted(OrderAt(h), "captured", 0), now)
         \/ UNCHANGED vars
      /\ GoTo(h, pc) \/ Conclude(h, "rejected")
      /\ UNCHANGED <<stripe, webhook_events, reconciliations, faults>>
  BY DEF EmitCaptured, Emit
<1> HIDE DEF pc
<1>4. QED
  BY <1>1, <1>2, <1>3, AtEmission, EmitPreserves

LEMMA EmitAvailablePreserves ==
    ASSUME StripeInv, NEW h \in Handlers, EmitAvailable(h) PROVE Preserved
<1>1. handlers[h].pc = "available" /\ "available" \in EventTypes
  BY DEF EmitAvailable, At, EventTypes, PaymentStatus
<1>2. CASE AvailableOn > handlers[h].observed
  <2>1. Conclude(h, "rejected") /\ UNCHANGED <<vars, stripe, webhook_events, reconciliations, faults>>
    BY <1>2 DEF EmitAvailable
  <2>2. QED
    BY <1>1, <2>1, AtEmission, ReaderPreserves
<1>3. CASE ~(AvailableOn > handlers[h].observed)
  <2>1. AvailableOn \in 0 .. MaxTime
    BY <1>3, StripeAssumption, ConstantsAssumption
    DEF StripeInv, AdapterInv, StripeTypeOK, Handler
  <2>2. /\ \/ IngestProviderEvent(OrderAt(h), Emitted(OrderAt(h), "available", AvailableOn), now)
           \/ UNCHANGED vars
        /\ GoTo(h, NextMove(h)) \/ Conclude(h, "rejected")
        /\ UNCHANGED <<stripe, webhook_events, reconciliations, faults>>
    BY <1>3 DEF EmitAvailable, Emit
  <2>3. QED
    BY <1>1, <2>1, <2>2, NextMoveIsStep, AtEmission, EmitPreserves
<1>4. QED
  BY <1>2, <1>3

(* Disputes and refunds are dated by the moment they are told.             *)
LEMMA EmitMovePreserves ==
    ASSUME StripeInv, NEW h \in Handlers,
           EmitDisputed(h) \/ EmitRefundPending(h) \/ EmitRefunded(h)
    PROVE  Preserved
<1>1. /\ handlers[h].pc \in {"disputed", "refund_pending", "refunded"}
      /\ now \in 0 .. MaxTime /\ {"disputed", "refund_pending", "refunded"} \subseteq EventTypes
  BY NowInTime DEF EmitDisputed, EmitRefundPending, EmitRefunded, At, EventTypes, PaymentStatus
<1>2. /\ \/ \E type \in {"disputed", "refund_pending", "refunded"} :
              IngestProviderEvent(OrderAt(h), Emitted(OrderAt(h), type, now), now)
         \/ UNCHANGED vars
      /\ GoTo(h, "record") \/ GoTo(h, "refunded") \/ Conclude(h, "rejected")
      /\ UNCHANGED <<stripe, webhook_events, reconciliations, faults>>
  BY DEF EmitDisputed, EmitRefundPending, EmitRefunded, Emit
<1>3. \E x : HandlerBecomes(h, x)
  BY <1>1, <1>2, AtEmission
<1>4. \E type \in EventTypes :
        \/ IngestProviderEvent(OrderAt(h), Emitted(OrderAt(h), type, now), now)
        \/ UNCHANGED vars
  BY <1>1, <1>2
<1>5. QED
  BY <1>1, <1>2, <1>3, <1>4, AtEmission, EmitPreserves

LEMMA RecordReconciliationPreserves ==
    ASSUME StripeInv, NEW h \in Handlers, RecordReconciliation(h) PROVE Preserved
<1>1. /\ handlers[h].pc = "record" /\ Conclude(h, "processed")
      /\ UNCHANGED vars /\ UNCHANGED <<stripe, webhook_events, faults>>
  BY DEF RecordReconciliation, At
<1>2. \E x : HandlerBecomes(h, x)
  BY <1>1, ConcludeBecomes
<1>3. QED
  BY <1>1, <1>2, SameAdapter, HandlerPreserves

LEMMA FinishWebhookPreserves ==
    ASSUME StripeInv, NEW h \in Handlers, FinishWebhook(h) PROVE Preserved
<1>1. /\ handlers[h].pc = "finish" /\ handlers' = [handlers EXCEPT ![h] = Idle]
      /\ UNCHANGED vars /\ UNCHANGED <<stripe, faults>>
  BY DEF FinishWebhook, At
<1>2. \E x : HandlerBecomes(h, x)
  BY <1>1, IdleBecomes
<1>3. webhook_events' \in [Webhooks -> WebhookRow]
  <2>1. /\ handlers[h] \in Handler /\ HandlerKnows(handlers[h])
        /\ webhook_events \in [Webhooks -> WebhookRow]
    BY DEF StripeInv, AdapterInv, StripeTypeOK, HandlersKnow
  <2>2. [status |-> handlers[h].outcome, updated_at |-> handlers[h].received] \in WebhookRow
    BY <1>1, <2>1 DEF Handler, HandlerKnows, WebhookRow
  <2>3. QED
    BY <2>1, <2>2 DEF FinishWebhook
<1>4. QED
  BY <1>1, <1>2, <1>3, SameAdapter, HandlerPreserves

(* A handler gives up or dies, and a fault is counted.                     *)
LEMMA FaultPreserves ==
    ASSUME StripeInv, NEW h \in Handlers, StripeFails(h) \/ HandlerDies(h) PROVE Preserved
<1>1. /\ UNCHANGED vars /\ UNCHANGED <<stripe, webhook_events, reconciliations>>
      /\ faults < MaxFaults /\ faults' = faults + 1
  BY DEF StripeFails, HandlerDies
<1>2. faults' \in 0 .. MaxFaults
  BY <1>1, StripeAssumption DEF StripeInv, AdapterInv, StripeTypeOK
<1>3. \/ handlers' = [handlers EXCEPT ![h] = Idle]
      \/ Conclude(h, "retryable") /\ handlers[h].pc \notin {"idle", "create", "attach"}
  BY DEF StripeFails, HandlerDies, At
<1>4. \E x : HandlerBecomes(h, x)
  BY <1>3, IdleBecomes, ConcludeBecomes
<1>5. QED
  BY <1>1, <1>2, <1>4, SameAdapter, HandlerPreserves

(* Only the adapter's tables, or only the store's, change.                 *)
LEMMA HandlersStay ==
    ASSUME StripeInv, [Next]_vars, UNCHANGED <<webhook_events, handlers, faults>>,
           stripe' \in [OrderIds -> StripeObject]
    PROVE  Preserved
BY DEF Preserved, StripeInv, AdapterInv, StripeTypeOK, HandlersKnow

LEMMA StripeActionPreserves ==
    ASSUME StripeInv, NEW o \in OrderIds, StripeAction(o) PROVE Preserved
<1>1. stripe[o] \in StripeObject /\ stripe \in [OrderIds -> StripeObject]
  BY DEF StripeInv, AdapterInv, StripeTypeOK
<1>2. ASSUME NEW object \in StripeObject, StripeMoves(o, object) PROVE Preserved
  BY <1>1, <1>2, HandlersStay DEF StripeMoves
<1>3. CASE PaymentProcessing(o)
  <2>1. [stripe[o] EXCEPT !.intent = "processing"] \in StripeObject
    BY <1>1 DEF StripeObject
  <2>2. QED
    BY <1>2, <1>3, <2>1 DEF PaymentProcessing
<1>4. CASE PaymentDeclined(o)
  <2>1. [stripe[o] EXCEPT !.intent = "requires_payment_method", !.declined = TRUE] \in StripeObject
    BY <1>1 DEF StripeObject
  <2>2. QED
    BY <1>2, <1>4, <2>1 DEF PaymentDeclined
<1>5. CASE PaymentSucceeds(o)
  <2>1. [stripe[o] EXCEPT !.session = "complete", !.intent = "succeeded"] \in StripeObject
    BY <1>1 DEF StripeObject
  <2>2. QED
    BY <1>2, <1>5, <2>1 DEF PaymentSucceeds
<1>6. CASE SessionExpires(o)
  <2>1. \A intent \in {stripe[o].intent, "canceled"} :
          [stripe[o] EXCEPT !.session = "expired", !.intent = intent] \in StripeObject
    BY <1>1 DEF StripeObject
  <2>2. QED
    BY <1>2, <1>6, <2>1 DEF SessionExpires
<1>7. CASE FundsBecomeAvailable(o)
  <2>1. [stripe[o] EXCEPT !.balance = "available"] \in StripeObject
    BY <1>1 DEF StripeObject
  <2>2. QED
    BY <1>2, <1>7, <2>1 DEF FundsBecomeAvailable
<1>8. CASE ChargeRefunded(o)
  <2>1. \A amount \in {"partial", "full"} :
          [stripe[o] EXCEPT !.refunded = amount] \in StripeObject
    BY <1>1 DEF StripeObject
  <2>2. QED
    BY <1>2, <1>8, <2>1 DEF ChargeRefunded
<1>9. CASE ChargeDisputed(o)
  <2>1. [stripe[o] EXCEPT !.disputed = TRUE] \in StripeObject
    BY <1>1 DEF StripeObject
  <2>2. QED
    BY <1>2, <1>9, <2>1 DEF ChargeDisputed
<1>10. QED
  BY <1>3, <1>4, <1>5, <1>6, <1>7, <1>8, <1>9 DEF StripeAction

LEMMA StoreStepPreserves ==
    ASSUME StripeInv, StoreStep PROVE Preserved
<1>1. UNCHANGED <<webhook_events, handlers, faults>> /\ stripe' \in [OrderIds -> StripeObject]
  BY SameAdapter DEF StoreStep, adapterVars
<1>2. "stripe" \in Providers
  BY DEF Providers
<1>3. now \in 0 .. now
  BY NowInTime, ConstantsAssumption
<1>4. [Next]_vars
  BY <1>2, <1>3 DEF StoreStep, Next
<1>5. QED
  BY <1>1, <1>4, HandlersStay

-------------------------------------------------------------------------------
(* The theorems *)

LEMMA StripeInitInv == StripeInit => StripeInv
<1> SUFFICES ASSUME StripeInit PROVE StripeInv
  OBVIOUS
<1>1. StoreInv
  BY InitInv DEF StripeInit
<1>2. 0 \in 0 .. MaxTime /\ 0 \in 0 .. MaxFaults
  BY ConstantsAssumption, StripeAssumption
<1>3. Idle \in Handler /\ HandlerKnows(Idle)
  BY <1>2, FreshHandler DEF Idle
<1>4. NoSession \in StripeObject
  BY DEF NoSession, StripeObject
<1>5. StripeTypeOK
  BY <1>2, <1>3, <1>4 DEF StripeInit, StripeTypeOK, WebhookRow
<1>6. HandlersKnow
  BY <1>3 DEF StripeInit, HandlersKnow
<1>7. QED
  BY <1>1, <1>5, <1>6 DEF StripeInv, AdapterInv

LEMMA StripeNextPreserves == StripeInv /\ [StripeNext]_stripeVars => Preserved
<1> SUFFICES ASSUME StripeInv, [StripeNext]_stripeVars PROVE Preserved
  OBVIOUS
<1>1. CASE StoreStep
  BY <1>1, StoreStepPreserves
<1>2. ASSUME NEW o \in OrderIds, StripeAction(o) PROVE Preserved
  BY <1>2, StripeActionPreserves
<1>3. ASSUME NEW h \in Handlers, NEW o \in OrderIds, BeginCheckout(h, o) PROVE Preserved
  BY <1>3, BeginCheckoutPreserves
<1>4. ASSUME NEW h \in Handlers, NEW w \in Webhooks, ReserveWebhook(h, w) PROVE Preserved
  BY <1>4, ReserveWebhookPreserves
<1>5. ASSUME NEW h \in Handlers, HandlerStep(h) PROVE Preserved
  BY <1>5, CreateSessionPreserves, AttachSessionPreserves, LookupOrderPreserves,
     RetrieveSessionPreserves, BindPaymentPreserves, RetrievePaymentPreserves,
     RetrieveChargePreserves, RetrieveBalancePreserves, EmitFailedPreserves,
     EmitCapturedPreserves, EmitAvailablePreserves, EmitMovePreserves,
     RecordReconciliationPreserves, FinishWebhookPreserves DEF HandlerStep
<1>6. ASSUME NEW h \in Handlers, StripeFails(h) \/ HandlerDies(h) PROVE Preserved
  BY <1>6, FaultPreserves
<1>7. CASE UNCHANGED stripeVars
  BY <1>7, SameAdapter, HandlersStay DEF stripeVars, adapterVars
<1>8. QED
  BY <1>1, <1>2, <1>3, <1>4, <1>5, <1>6, <1>7 DEF StripeNext

LEMMA StripeNextInv ==
    StripeInv /\ [StripeNext]_stripeVars => StripeInv' /\ [Next]_vars
<1> SUFFICES ASSUME StripeInv, [StripeNext]_stripeVars PROVE StripeInv' /\ [Next]_vars
  OBVIOUS
<1>1. Preserved
  BY StripeNextPreserves
<1>2. StoreInv'
  BY <1>1, NextInv DEF Preserved, StripeInv
<1>3. QED
  BY <1>1, <1>2 DEF Preserved, StripeInv

(* The store and the handlers are consistent in every reachable state,     *)
(* however many handlers work on the same order or webhook and whenever    *)
(* Stripe fails or they die (stripe_payments.py:393-560).                  *)
THEOREM StripeInvariant == StripeSpec => []StripeInv
<1>1. StripeInit => StripeInv
  BY StripeInitInv
<1>2. StripeInv /\ [StripeNext]_stripeVars => StripeInv'
  BY StripeNextInv
<1>3. QED
  BY <1>1, <1>2, PTL DEF StripeSpec

(* The adapter implements the store's specification: whatever Stripe       *)
(* answers and however handlers interleave, the tables see only calls that *)
(* CommerceStore allows (stripe_payments.py, all uses of self.store).      *)
THEOREM StripeUsesStore == StripeSpec => Spec
<1>1. StripeInit => Init
  BY DEF StripeInit
<1>2. StripeInv /\ [StripeNext]_stripeVars => [Next]_vars
  BY StripeNextInv
<1>3. QED
  BY <1>1, <1>2, StripeInvariant, PTL DEF StripeSpec, Spec

(* Stripe's objects, the webhook table and the handlers keep their types   *)
(* (stripe_payments.py:782-846).                                           *)
THEOREM StripeTypeCorrect == StripeSpec => []StripeTypeOK
<1>1. StripeInv => StripeTypeOK
  BY DEF StripeInv, AdapterInv
<1>2. QED
  BY <1>1, StripeInvariant, PTL

-------------------------------------------------------------------------------
(* What the handlers know is true *)

(* Stripe's object has a history behind it: what follows a payment follows *)
(* a payment that succeeded, in a session that is complete.                *)
Sane(s) ==
    /\ s.intent = "succeeded" => s.session = "complete"
    /\ s.session = "none" => s.intent = "none"
    /\ s.balance = "available" \/ s.refunded # "none" \/ s.disputed => s.intent = "succeeded"

(* Stripe never takes back what it has answered.                           *)
Forward(s, t) ==
    /\ s.intent # "none" => t.intent # "none"
    /\ s.intent = "succeeded" => t.intent = "succeeded"
    /\ s.declined => t.declined
    /\ s.balance = "available" => t.balance = "available"
    /\ s.refunded # "none" => t.refunded # "none"
    /\ s.refunded = "full" => t.refunded = "full"
    /\ s.disputed => t.disputed

(* What an event of the type says has happened at Stripe.                  *)
Happened(s, type) ==
    /\ type = "captured" => s.intent = "succeeded"
    /\ type = "failed" => s.declined
    /\ type = "available" => s.balance = "available"
    /\ type \in {"refund_pending", "refunded"} => s.refunded = "full"
    /\ type = "disputed" => s.disputed

Emissions    == {"captured", "available", "disputed", "refund_pending", "refunded"}
AfterBalance == Emissions \cup {"record"}
AfterCharge  == AfterBalance \cup {"balance"}

(* What a handler has read was true and still is, however long ago.        *)
Informed(x, s) ==
    /\ x.pc \in {"bind", "payment"} => s.intent # "none"
    /\ x.pc = "charge" \/ x.pc \in AfterCharge => s.intent = "succeeded"
    /\ x.pc \in AfterCharge => /\ x.refunded = "full" => s.refunded = "full"
                               /\ x.disputed => s.disputed
    /\ x.pc \in AfterBalance /\ x.balance = "available" => s.balance = "available"
    /\ x.pc \in Emissions \cup {"failed"} => Happened(s, x.pc)

HandlersInformed == \A h \in Handlers : Informed(handlers[h], stripe[OrderAt(h)])

(* Every stored event tells of something that has happened to its order.   *)
EventsTrue ==
    \A i \in EventIds : provider_events[i].status # "absent" =>
        \E o \in OrderIds, type \in EventTypes, t \in 0 .. MaxTime :
            /\ provider_events[i].event = Emitted(o, type, t)
            /\ Happened(stripe[o], type)

(* An order is bound to no payment but the one of its own session.         *)
PaymentsOwn == \A o \in OrderIds : orders[o].payment \in {None, PaymentOf[o]}

TruthInv ==
    /\ \A o \in OrderIds : Sane(stripe[o])
    /\ HandlersInformed /\ EventsTrue /\ PaymentsOwn

LEMMA ForwardReflexive == \A s : Forward(s, s)
BY DEF Forward

(* One object of Stripe moves.                                             *)
LEMMA ObjectMoves ==
    ASSUME StripeInv, NEW o \in OrderIds, NEW object, Sane(stripe[o]),
           Sane(object), Forward(stripe[o], object),
           stripe' = [stripe EXCEPT ![o] = object],
           \A other \in OrderIds : Sane(stripe[other])
    PROVE  \A other \in OrderIds : Sane(stripe'[other]) /\ Forward(stripe[other], stripe'[other])
<1>1. \A other \in OrderIds : stripe'[other] = IF other = o THEN object ELSE stripe[other]
  BY DEF StripeInv, AdapterInv, StripeTypeOK
<1>2. QED
  BY <1>1, ForwardReflexive

StripeGoesOn ==
    \A o \in OrderIds : Sane(stripe'[o]) /\ Forward(stripe[o], stripe'[o])

LEMMA StripeActionGoesOn ==
    ASSUME StripeInv, \A o \in OrderIds : Sane(stripe[o]), NEW o \in OrderIds, StripeAction(o)
    PROVE  StripeGoesOn
<1> DEFINE s == stripe[o]
<1>1. s \in StripeObject /\ Sane(s)
  BY DEF StripeInv, AdapterInv, StripeTypeOK
<1>2. ASSUME NEW object, Sane(object), Forward(s, object), StripeMoves(o, object)
      PROVE  StripeGoesOn
  BY <1>1, <1>2, ObjectMoves DEF StripeMoves, StripeGoesOn
<1>3. CASE PaymentProcessing(o)
  <2> DEFINE t == [s EXCEPT !.intent = "processing"]
  <2>1. Sane(t) /\ Forward(s, t)
    BY <1>1, <1>3 DEF PaymentProcessing, Sane, Forward, StripeObject
  <2>2. QED
    BY <1>2, <1>3, <2>1 DEF PaymentProcessing
<1>4. CASE PaymentDeclined(o)
  <2> DEFINE t == [s EXCEPT !.intent = "requires_payment_method", !.declined = TRUE]
  <2>1. Sane(t) /\ Forward(s, t)
    BY <1>1, <1>4 DEF PaymentDeclined, Sane, Forward, StripeObject
  <2>2. QED
    BY <1>2, <1>4, <2>1 DEF PaymentDeclined
<1>5. CASE PaymentSucceeds(o)
  <2> DEFINE t == [s EXCEPT !.session = "complete", !.intent = "succeeded"]
  <2>1. Sane(t) /\ Forward(s, t)
    BY <1>1 DEF Sane, Forward, StripeObject
  <2>2. QED
    BY <1>2, <1>5, <2>1 DEF PaymentSucceeds
<1>6. CASE SessionExpires(o)
  <2>1. PICK left \in {s.intent} \cup (IF s.intent = "none" THEN {} ELSE {"canceled"}) :
          StripeMoves(o, [s EXCEPT !.session = "expired", !.intent = left])
    BY <1>6 DEF SessionExpires
  <2> DEFINE t == [s EXCEPT !.session = "expired", !.intent = left]
  <2>2. Sane(t) /\ Forward(s, t)
    BY <1>1, <1>6, <2>1 DEF SessionExpires, Sane, Forward, StripeObject
  <2>3. QED
    BY <1>2, <2>1, <2>2
<1>7. CASE FundsBecomeAvailable(o)
  <2> DEFINE t == [s EXCEPT !.balance = "available"]
  <2>1. Sane(t) /\ Forward(s, t)
    BY <1>1, <1>7 DEF FundsBecomeAvailable, Paid, Sane, Forward, StripeObject
  <2>2. QED
    BY <1>2, <1>7, <2>1 DEF FundsBecomeAvailable
<1>8. CASE ChargeRefunded(o)
  <2>1. PICK amount \in {"partial", "full"} \ {s.refunded} :
          StripeMoves(o, [s EXCEPT !.refunded = amount])
    BY <1>8 DEF ChargeRefunded
  <2> DEFINE t == [s EXCEPT !.refunded = amount]
  <2>2. Sane(t) /\ Forward(s, t)
    BY <1>1, <1>8 DEF ChargeRefunded, Paid, Sane, Forward, StripeObject
  <2>3. QED
    BY <1>2, <2>1, <2>2
<1>9. CASE ChargeDisputed(o)
  <2> DEFINE t == [s EXCEPT !.disputed = TRUE]
  <2>1. Sane(t) /\ Forward(s, t)
    BY <1>1, <1>9 DEF ChargeDisputed, Paid, Sane, Forward, StripeObject
  <2>2. QED
    BY <1>2, <1>9, <2>1 DEF ChargeDisputed
<1>10. QED
  BY <1>3, <1>4, <1>5, <1>6, <1>7, <1>8, <1>9 DEF StripeAction

LEMMA StripeStepGoesOn ==
    ASSUME StripeInv, \A o \in OrderIds : Sane(stripe[o]), [StripeNext]_stripeVars
    PROVE  StripeGoesOn
<1>1. CASE stripe' = stripe
  BY <1>1, ForwardReflexive DEF StripeGoesOn
<1>2. ASSUME NEW h \in Handlers, CreateSession(h) PROVE StripeGoesOn
  <2>1. PICK o \in OrderIds : o = OrderAt(h)
    BY <1>2, AtWork DEF CreateSession, At
  <2> DEFINE s == stripe[o]
             t == Created(s)
  <2>2. s \in StripeObject /\ Sane(s) /\ stripe' = [stripe EXCEPT ![o] = t]
    BY <1>2, <2>1 DEF CreateSession, StripeInv, AdapterInv, StripeTypeOK
  <2>3. Sane(t) /\ Forward(s, t)
    BY <2>2 DEF Created, Sane, Forward, StripeObject
  <2>4. QED
    BY <2>2, <2>3, ObjectMoves DEF StripeGoesOn
<1>3. CASE \E o \in OrderIds : StripeAction(o)
  BY <1>3, StripeActionGoesOn
<1>4. QED
  BY <1>1, <1>2, <1>3
  DEF StripeNext, StoreStep, adapterVars, stripeVars, BeginCheckout, ReserveWebhook, HandlerStep,
      AttachSession, LookupOrder, RetrieveSession, BindPayment, RetrievePayment, RetrieveCharge,
      RetrieveBalance, ReadStep, EmitFailed, EmitCaptured, EmitAvailable, EmitDisputed,
      EmitRefundPending, EmitRefunded, Emit, RecordReconciliation, FinishWebhook, StripeFails,
      HandlerDies

(* What was true stays true.                                               *)
LEMMA InformedForward ==
    ASSUME NEW x, NEW s, NEW t, Informed(x, s), Forward(s, t) PROVE Informed(x, t)
BY DEF Informed, Forward, Happened

(* Where a handler has read nothing yet, or has concluded.                 *)
Unmindful == {"idle", "create", "attach", "lookup", "session", "finish"}

LEMMA InformedOfNothing ==
    ASSUME NEW x, x.pc \in Unmindful, NEW s PROVE Informed(x, s)
BY DEF Unmindful, Informed, AfterCharge, AfterBalance, Emissions

(* One handler moves: it is for it alone to be informed.                   *)
LEMMA OneHandlerInformed ==
    ASSUME StripeInv, HandlersInformed, StripeGoesOn, NEW h \in Handlers,
           \A g \in Handlers \ {h} : handlers'[g] = handlers[g],
           \/ handlers'[h].pc \in Unmindful
           \/ /\ handlers'[h].order \in OrderIds
              /\ Informed(handlers'[h], stripe[handlers'[h].order])
    PROVE  HandlersInformed'
<1>1. ASSUME NEW x, NEW o, o = x.order, Informed(x, stripe[o]), o \in OrderIds \/ x.pc \in Unmindful
      PROVE  Informed(x, stripe'[o])
  BY <1>1, InformedOfNothing, InformedForward DEF StripeGoesOn
<1>2. ASSUME NEW g \in Handlers PROVE Informed(handlers'[g], stripe'[handlers'[g].order])
  <2>1. CASE g = h
    BY <1>1, <2>1, InformedOfNothing
  <2>2. CASE g # h
    <3>1. handlers'[g] = handlers[g]
      BY <2>2
    <3>2. OrderAt(g) \in OrderIds \/ handlers[g].pc \in Unmindful
      BY AtWork DEF Unmindful
    <3>3. Informed(handlers[g], stripe[OrderAt(g)])
      BY DEF HandlersInformed
    <3>4. QED
      BY <1>1, <3>1, <3>2, <3>3 DEF OrderAt
  <2>3. QED
    BY <2>1, <2>2
<1>3. QED
  BY <1>2 DEF HandlersInformed, OrderAt

LEMMA NobodyMoves ==
    ASSUME StripeInv, HandlersInformed, StripeGoesOn, handlers' = handlers
    PROVE  HandlersInformed'
<1>1. ASSUME NEW g \in Handlers PROVE Informed(handlers'[g], stripe'[handlers'[g].order])
  <2>1. OrderAt(g) \in OrderIds \/ handlers[g].pc \in Unmindful
    BY AtWork DEF Unmindful
  <2>2. Informed(handlers[g], stripe[OrderAt(g)])
    BY DEF HandlersInformed
  <2>3. QED
    BY <2>1, <2>2, InformedOfNothing, InformedForward DEF StripeGoesOn, OrderAt
<1>2. QED
  BY <1>1 DEF HandlersInformed, OrderAt

(* What going on and concluding leave of a handler's record.               *)
LEMMA GoToFields ==
    ASSUME StripeInv, NEW h \in Handlers, NEW pc, GoTo(h, pc)
    PROVE  /\ handlers'[h].pc = pc /\ handlers'[h].order = OrderAt(h)
           /\ handlers'[h].webhook = handlers[h].webhook
           /\ handlers'[h].refunded = handlers[h].refunded
           /\ handlers'[h].disputed = handlers[h].disputed
           /\ handlers'[h].balance = handlers[h].balance
           /\ \A g \in Handlers \ {h} : handlers'[g] = handlers[g]
<1>1. handlers[h] \in Handler
  BY DEF StripeInv, AdapterInv, StripeTypeOK
<1>2. handlers'[h] = [handlers[h] EXCEPT !.pc = pc]
  BY DEF GoTo, StripeInv, AdapterInv, StripeTypeOK
<1>3. \A g \in Handlers \ {h} : handlers'[g] = handlers[g]
  BY DEF GoTo, StripeInv, AdapterInv, StripeTypeOK
<1>4. QED
  BY <1>1, <1>2, <1>3 DEF Handler, OrderAt

LEMMA ConcludeFields ==
    ASSUME StripeInv, NEW h \in Handlers, NEW outcome, Conclude(h, outcome)
    PROVE  /\ handlers'[h].pc = "finish" /\ handlers'[h].outcome = outcome
           /\ handlers'[h].webhook = handlers[h].webhook
           /\ \A g \in Handlers \ {h} : handlers'[g] = handlers[g]
<1>1. handlers[h] \in Handler
  BY DEF StripeInv, AdapterInv, StripeTypeOK
<1>2. handlers'[h] = [handlers[h] EXCEPT !.pc = "finish", !.outcome = outcome]
  BY DEF Conclude, StripeInv, AdapterInv, StripeTypeOK
<1>3. \A g \in Handlers \ {h} : handlers'[g] = handlers[g]
  BY DEF Conclude, StripeInv, AdapterInv, StripeTypeOK
<1>4. QED
  BY <1>1, <1>2, <1>3 DEF Handler

LEMMA ConcludeInformed ==
    ASSUME StripeInv, HandlersInformed, StripeGoesOn, NEW h \in Handlers, NEW outcome,
           Conclude(h, outcome)
    PROVE  HandlersInformed'
<1>1. handlers'[h].pc \in Unmindful
  BY ConcludeFields DEF Unmindful
<1>2. QED
  BY <1>1, ConcludeFields, OneHandlerInformed

(* A handler that starts over knows nothing yet.                           *)
LEMMA FreshInformed ==
    ASSUME StripeInv, HandlersInformed, StripeGoesOn, NEW h \in Handlers, NEW x,
           handlers' = [handlers EXCEPT ![h] = x], x.pc \in Unmindful
    PROVE  HandlersInformed'
<1>1. handlers'[h] = x /\ \A g \in Handlers \ {h} : handlers'[g] = handlers[g]
  BY DEF StripeInv, AdapterInv, StripeTypeOK
<1>2. QED
  BY <1>1, OneHandlerInformed

LEMMA UnmindfulSteps ==
    ASSUME StripeInv, HandlersInformed, StripeGoesOn, NEW h \in Handlers,
           \/ \E o \in OrderIds : BeginCheckout(h, o)
           \/ \E w \in Webhooks : ReserveWebhook(h, w)
           \/ CreateSession(h) \/ AttachSession(h) \/ LookupOrder(h)
           \/ RecordReconciliation(h) \/ FinishWebhook(h) \/ StripeFails(h) \/ HandlerDies(h)
    PROVE  HandlersInformed'
<1>1. CASE CreateSession(h)
  <2>1. GoTo(h, "attach")
    BY <1>1 DEF CreateSession
  <2>2. handlers'[h].pc \in Unmindful
    BY <2>1, GoToFields DEF Unmindful
  <2>3. QED
    BY <2>1, <2>2, GoToFields, OneHandlerInformed
<1>2. CASE LookupOrder(h)
  <2>1. CASE Conclude(h, "rejected")
    BY <2>1, ConcludeInformed
  <2>2. CASE ~Conclude(h, "rejected")
    <3> DEFINE o == handlers[h].webhook.order
               x == [handlers[h] EXCEPT !.pc = "session", !.order = o, !.observed = now]
    <3>1. handlers' = [handlers EXCEPT ![h] = x]
      BY <1>2, <2>2 DEF LookupOrder
    <3>2. x.pc \in Unmindful
      BY DEF StripeInv, AdapterInv, StripeTypeOK, Handler, Unmindful
    <3> HIDE DEF x
    <3>3. QED
      BY <3>1, <3>2, FreshInformed
  <2>3. QED
    BY <2>1, <2>2
<1>3. CASE \/ \E o \in OrderIds : BeginCheckout(h, o)
           \/ \E w \in Webhooks : ReserveWebhook(h, w)
           \/ AttachSession(h) \/ FinishWebhook(h) \/ HandlerDies(h)
           \/ StripeFails(h) /\ At(h, "create")
  <2>1. Idle.pc \in Unmindful
    BY DEF Idle, Fresh, Unmindful
  <2>2. ASSUME NEW o \in OrderIds, BeginCheckout(h, o)
        PROVE  \E x : handlers' = [handlers EXCEPT ![h] = x] /\ x.pc \in Unmindful
    <3>1. Fresh("create", None, o, 0, "none").pc \in Unmindful
      BY DEF Fresh, Unmindful
    <3>2. QED
      BY <2>2, <3>1 DEF BeginCheckout
  <2>3. ASSUME NEW w \in Webhooks, ReserveWebhook(h, w)
        PROVE  \E x : handlers' = [handlers EXCEPT ![h] = x] /\ x.pc \in Unmindful
    <3>1. Reserved(w).pc \in Unmindful
      BY DEF Reserved, Fresh, Unmindful
    <3>2. QED
      BY <2>3, <3>1 DEF ReserveWebhook
  <2>4. PICK x : handlers' = [handlers EXCEPT ![h] = x] /\ x.pc \in Unmindful
    BY <1>3, <2>1, <2>2, <2>3 DEF AttachSession, FinishWebhook, HandlerDies, StripeFails
  <2>5. QED
    BY <2>4, FreshInformed
<1>4. CASE RecordReconciliation(h) \/ (StripeFails(h) /\ ~At(h, "create"))
  BY <1>4, ConcludeInformed DEF RecordReconciliation, StripeFails
<1>5. QED
  BY <1>1, <1>2, <1>3, <1>4

-------------------------------------------------------------------------------
(* What a handler was sent for, and what it has told the store *)

Told(o, type) ==
    LET row == provider_events[EventIdOf[<<o, type>>]] IN
    row.status # "absent" /\ \E t \in 0 .. MaxTime : row.event = Emitted(o, type, t)

DeclineTypes == {"payment_intent.payment_failed", "checkout.session.async_payment_failed"}
DisputeTypes == {"charge.dispute.created", "charge.dispute.closed"}

(* Told of the end of a refund, or of a dispute.                           *)
Reversed(o) == Told(o, "disputed") \/ (Told(o, "refund_pending") /\ Told(o, "refunded"))

(* What the store has been told by the time a webhook is processed.        *)
Effected(w) ==
    /\ w.order \in OrderIds /\ w.type \in _WEBHOOK_TYPES
    /\ w.type \notin DeclineTypes => Told(w.order, "captured")
    /\ w.type \in DisputeTypes \cup {"charge.refunded"} => Reversed(w.order)

Reading == {"session", "bind", "payment", "failed", "charge"} \cup AfterCharge

(* A handler works on the order of its webhook, which was sent for a       *)
(* reason, and has told the store all it has passed.                       *)
Truthful(x) ==
    /\ x.pc \in Reading => x.order = x.webhook.order
    /\ x.pc = "lookup" \/ x.pc \in Reading => x.webhook.type \in _WEBHOOK_TYPES /\ Sent(x.webhook)
    /\ x.pc \in AfterCharge =>
         /\ x.webhook.type = "charge.refunded" => x.refunded = "full"
         /\ x.webhook.type \in DisputeTypes => x.disputed
    /\ x.pc \in AfterBalance \ {"captured"} => Told(x.order, "captured")
    /\ x.pc = "failed" => x.webhook.type \in DeclineTypes
    /\ x.pc \in {"refund_pending", "refunded"} => ~x.disputed
    /\ x.pc = "refunded" => Told(x.order, "refund_pending")
    /\ x.pc = "record" /\ (x.disputed \/ x.refunded = "full") => Reversed(x.order)
    /\ x.pc = "finish" /\ x.outcome = "processed" => Effected(x.webhook)

HandlersTruthful == \A h \in Handlers : Truthful(handlers[h])

(* What was sent was sent.                                                 *)
LEMMA SentStays ==
    ASSUME StripeGoesOn, NEW w \in Webhooks, Sent(w) PROVE Sent(w)'
<1>1. CASE w.order = None \/ w.type \notin _WEBHOOK_TYPES
  BY <1>1 DEF Sent
<1>2. CASE w.order # None /\ w.type \in _WEBHOOK_TYPES
  <2>1. w.order \in OrderIds
    BY <1>2, StripeAssumption
  <2>2. Forward(stripe[w.order], stripe'[w.order])
    BY <2>1 DEF StripeGoesOn
  <2>3. QED
    BY <1>2, <2>2 DEF Sent, Forward, _WEBHOOK_TYPES
<1>3. QED
  BY <1>1, <1>2

(* Anything but a decline was sent of a payment that had succeeded.        *)
LEMMA SentMeansPaid ==
    ASSUME NEW w \in Webhooks, w.order \in OrderIds, w.type \in _WEBHOOK_TYPES, Sent(w),
           Sane(stripe[w.order])
    PROVE  w.type \in DeclineTypes \/ stripe[w.order].intent = "succeeded"
<1>1. w.order # None
  BY StripeAssumption
<1>2. QED
  BY <1>1 DEF Sent, Sane, DeclineTypes

(* What a truthful handler that reads is working on.                       *)
LEMMA AtReading ==
    ASSUME StripeInv, TruthInv, HandlersTruthful, StripeGoesOn, NEW h \in Handlers,
           handlers[h].pc \in Reading, NEW w, w = handlers[h].webhook
    PROVE  /\ w \in Webhooks /\ w.order = OrderAt(h) /\ w.order \in OrderIds
           /\ w.type \in _WEBHOOK_TYPES /\ Sent(w) /\ Sent(w)'
           /\ w.type \in DeclineTypes \/ stripe[w.order].intent = "succeeded"
<1>1. handlers[h].pc \notin {"idle", "create", "attach", "lookup", "finish"}
  BY DEF Reading, AfterCharge, AfterBalance, Emissions
<1>2. w \in Webhooks /\ OrderAt(h) \in OrderIds
  BY <1>1, AtWebhook, AtWork
<1>3. w.order = OrderAt(h) /\ w.type \in _WEBHOOK_TYPES /\ Sent(w)
  BY DEF HandlersTruthful, Truthful, OrderAt
<1>4. Sent(w)'
  BY <1>2, <1>3, SentStays
<1>5. Sane(stripe[w.order])
  BY <1>2, <1>3 DEF TruthInv
<1>6. QED
  BY <1>2, <1>3, <1>4, <1>5, SentMeansPaid

-------------------------------------------------------------------------------
(* The four calls that read from Stripe, and the binding between them.     *)
LEMMA RetrievalInformed ==
    ASSUME StripeInv, TruthInv, HandlersTruthful, StripeGoesOn, NEW h \in Handlers,
           RetrieveSession(h) \/ BindPayment(h) \/ RetrievePayment(h)
    PROVE  HandlersInformed'
<1>1. PICK o \in OrderIds : o = OrderAt(h)
  BY AtWork DEF RetrieveSession, BindPayment, RetrievePayment, ReadStep, At
<1>2. Informed(handlers[h], stripe[o]) /\ Sane(stripe[o]) /\ stripe[o] \in StripeObject
  BY <1>1 DEF TruthInv, HandlersInformed, StripeInv, AdapterInv, StripeTypeOK
<1>3. CASE \E outcome : Conclude(h, outcome)
  BY <1>3, ConcludeInformed DEF TruthInv
<1>4. ASSUME NEW pc \in {"bind", "payment", "charge", "failed"}, GoTo(h, pc),
             pc \in {"bind", "payment"} => stripe[o].intent # "none",
             pc = "charge" => stripe[o].intent = "succeeded",
             pc = "failed" => stripe[o].declined
      PROVE  HandlersInformed'
  <2>1. handlers'[h].order = o /\ handlers'[h].pc = pc
    BY <1>1, <1>4, GoToFields
  <2>2. Informed(handlers'[h], stripe[o])
    BY <1>4, <2>1 DEF Informed, AfterCharge, AfterBalance, Emissions, Happened
  <2>3. QED
    BY <1>4, <2>1, <2>2, GoToFields, OneHandlerInformed DEF TruthInv
<1>5. CASE RetrieveSession(h)
  BY <1>1, <1>3, <1>4, <1>5 DEF RetrieveSession
<1>6. CASE BindPayment(h)
  <2>1. stripe[o].intent # "none"
    BY <1>2, <1>6 DEF Informed, BindPayment, At
  <2>2. QED
    BY <1>3, <1>4, <1>6, <2>1 DEF BindPayment
<1>7. CASE RetrievePayment(h)
  <2>1. stripe[o].intent # "none"
    BY <1>2, <1>7 DEF Informed, RetrievePayment, ReadStep, At
  <2>2. handlers[h].pc \in Reading
    BY <1>7 DEF RetrievePayment, ReadStep, At, Reading
  <2>3. PICK w : w = handlers[h].webhook
    OBVIOUS
  <2>4. w.order = o /\ w.order # None /\ w.type \in _WEBHOOK_TYPES /\ Sent(w)
        /\ (w.type \in DeclineTypes \/ stripe[o].intent = "succeeded")
    BY <1>1, <2>2, <2>3, AtReading, StripeAssumption
  <2>5. stripe[o].intent # "succeeded" => stripe[o].declined
    BY <2>4 DEF Sent, DeclineTypes
  <2>6. QED
    BY <1>1, <1>3, <1>4, <1>7, <2>5 DEF RetrievePayment, AfterPayment
<1>8. QED
  BY <1>5, <1>6, <1>7

LEMMA ChargeFields ==
    ASSUME StripeInv, NEW h \in Handlers, RetrieveCharge(h), ~Conclude(h, "rejected")
    PROVE  LET charge == stripe[OrderAt(h)] IN
           /\ handlers'[h].pc = "balance" /\ handlers'[h].order = OrderAt(h)
           /\ handlers'[h].webhook = handlers[h].webhook
           /\ handlers'[h].refunded = charge.refunded /\ charge.refunded # "partial"
           /\ handlers'[h].disputed = charge.disputed
           /\ \A g \in Handlers \ {h} : handlers'[g] = handlers[g]
<1> DEFINE charge == stripe[OrderAt(h)]
<1>1. /\ charge.refunded # "partial"
      /\ handlers' = [handlers EXCEPT ![h].pc = "balance", ![h].refunded = charge.refunded,
                                      ![h].disputed = charge.disputed]
  BY DEF RetrieveCharge
<1>2. handlers[h] \in Handler
  BY DEF StripeInv, AdapterInv, StripeTypeOK
<1> HIDE DEF charge
<1>3. handlers'[h] = [handlers[h] EXCEPT !.pc = "balance", !.refunded = charge.refunded,
                                         !.disputed = charge.disputed]
  BY <1>1 DEF StripeInv, AdapterInv, StripeTypeOK
<1>4. \A g \in Handlers \ {h} : handlers'[g] = handlers[g]
  BY <1>1 DEF StripeInv, AdapterInv, StripeTypeOK
<1>5. /\ handlers'[h].pc = "balance" /\ handlers'[h].order = OrderAt(h)
      /\ handlers'[h].webhook = handlers[h].webhook
      /\ handlers'[h].refunded = charge.refunded /\ handlers'[h].disputed = charge.disputed
  BY <1>2, <1>3 DEF Handler, OrderAt
<1>6. QED
  BY <1>1, <1>4, <1>5 DEF charge

LEMMA BalanceFields ==
    ASSUME StripeInv, NEW h \in Handlers, RetrieveBalance(h)
    PROVE  /\ handlers'[h].pc = "captured" /\ handlers'[h].order = OrderAt(h)
           /\ handlers'[h].webhook = handlers[h].webhook
           /\ handlers'[h].refunded = handlers[h].refunded
           /\ handlers'[h].disputed = handlers[h].disputed
           /\ handlers'[h].balance = stripe[OrderAt(h)].balance
           /\ \A g \in Handlers \ {h} : handlers'[g] = handlers[g]
<1> DEFINE balance == stripe[OrderAt(h)].balance
<1>1. handlers' = [handlers EXCEPT ![h].pc = "captured", ![h].balance = balance]
  BY DEF RetrieveBalance
<1>2. handlers[h] \in Handler
  BY DEF StripeInv, AdapterInv, StripeTypeOK
<1> HIDE DEF balance
<1>3. /\ handlers'[h] = [handlers[h] EXCEPT !.pc = "captured", !.balance = balance]
      /\ \A g \in Handlers \ {h} : handlers'[g] = handlers[g]
  BY <1>1 DEF StripeInv, AdapterInv, StripeTypeOK
<1>4. QED
  BY <1>2, <1>3 DEF Handler, OrderAt, balance

LEMMA ChargeInformed ==
    ASSUME StripeInv, TruthInv, StripeGoesOn, NEW h \in Handlers,
           RetrieveCharge(h) \/ RetrieveBalance(h)
    PROVE  HandlersInformed'
<1>1. PICK o \in OrderIds : o = OrderAt(h)
  BY AtWork DEF RetrieveCharge, RetrieveBalance, ReadStep, At
<1>2. Informed(handlers[h], stripe[o])
  BY <1>1 DEF TruthInv, HandlersInformed
<1>3. CASE \E outcome : Conclude(h, outcome)
  BY <1>3, ConcludeInformed DEF TruthInv
<1>4. CASE RetrieveCharge(h) /\ ~Conclude(h, "rejected")
  <2>1. handlers'[h].order = o
    BY <1>1, <1>4, ChargeFields
  <2>2. Informed(handlers'[h], stripe[o])
    <3>1. handlers[h].pc = "charge"
      BY <1>4 DEF RetrieveCharge, ReadStep, At
    <3>2. /\ handlers'[h].pc = "balance" /\ handlers'[h].refunded = stripe[o].refunded
          /\ handlers'[h].disputed = stripe[o].disputed
      BY <1>1, <1>4, ChargeFields
    <3>3. stripe[o].intent = "succeeded"
      BY <1>2, <3>1 DEF Informed
    <3>4. QED
      BY <3>2, <3>3 DEF Informed, AfterCharge, AfterBalance, Emissions
  <2>3. QED
    BY <1>4, <2>1, <2>2, ChargeFields, OneHandlerInformed DEF TruthInv
<1>5. CASE RetrieveBalance(h)
  <2>1. handlers'[h].order = o
    BY <1>1, <1>5, BalanceFields
  <2>2. Informed(handlers'[h], stripe[o])
    <3>1. handlers[h].pc = "balance"
      BY <1>5 DEF RetrieveBalance, ReadStep, At
    <3>2. /\ handlers'[h].pc = "captured" /\ handlers'[h].balance = stripe[o].balance
          /\ handlers'[h].refunded = handlers[h].refunded
          /\ handlers'[h].disputed = handlers[h].disputed
      BY <1>1, <1>5, BalanceFields
    <3>3. QED
      BY <1>2, <3>1, <3>2 DEF Informed, AfterCharge, AfterBalance, Emissions, Happened
  <2>3. QED
    BY <1>5, <2>1, <2>2, BalanceFields, OneHandlerInformed DEF TruthInv
<1>6. QED
  BY <1>3, <1>4, <1>5

(* A handler that tells the store something knows that it has happened.    *)
EmitStep(h) ==
    \/ EmitFailed(h) \/ EmitCaptured(h) \/ EmitAvailable(h)
    \/ EmitDisputed(h) \/ EmitRefundPending(h) \/ EmitRefunded(h)

LEMMA EmissionCases ==
    ASSUME StripeInv, NEW h \in Handlers, EmitStep(h)
    PROVE  LET pc == handlers[h].pc IN
           /\ pc \in Emissions \cup {"failed"} /\ pc \in EventTypes /\ OrderAt(h) \in OrderIds
           /\ stripe' = stripe /\ webhook_events' = webhook_events
           /\ \/ UNCHANGED vars /\ Conclude(h, "rejected")
              \/ /\ \E t \in 0 .. MaxTime :
                      LET e == Emitted(OrderAt(h), pc, t) IN
                      \/ IngestProviderEvent(OrderAt(h), e, now)
                      \/ UNCHANGED vars /\ provider_events[e.id].event = e
                 /\ \/ pc = "failed" /\ Conclude(h, "processed")
                    \/ pc = "captured" /\ handlers[h].balance = "available" /\ GoTo(h, "available")
                    \/ pc \in {"captured", "available"} /\ GoTo(h, NextMove(h))
                    \/ pc \in {"disputed", "refunded"} /\ GoTo(h, "record")
                    \/ pc = "refund_pending" /\ GoTo(h, "refunded")
<1>1. 0 \in 0 .. MaxTime /\ now \in 0 .. MaxTime
  BY NowInTime, ConstantsAssumption
<1>2. CASE EmitFailed(h)
  BY <1>1, <1>2, AtWork DEF EmitFailed, Emit, At, EventTypes, PaymentStatus
<1>3. CASE EmitCaptured(h)
  BY <1>1, <1>3, AtWork DEF EmitCaptured, Emit, At, EventTypes, PaymentStatus, Emissions
<1>4. CASE EmitAvailable(h)
  <2>1. AvailableOn > handlers[h].observed \/ AvailableOn \in 0 .. MaxTime
    BY StripeAssumption, ConstantsAssumption DEF StripeInv, AdapterInv, StripeTypeOK, Handler
  <2>2. QED
    BY <1>4, <2>1, AtWork DEF EmitAvailable, Emit, At, EventTypes, PaymentStatus, Emissions
<1>5. CASE EmitDisputed(h)
  BY <1>1, <1>5, AtWork DEF EmitDisputed, Emit, At, EventTypes, PaymentStatus, Emissions
<1>6. CASE EmitRefundPending(h)
  BY <1>1, <1>6, AtWork DEF EmitRefundPending, Emit, At, EventTypes, PaymentStatus, Emissions
<1>7. CASE EmitRefunded(h)
  BY <1>1, <1>7, AtWork DEF EmitRefunded, Emit, At, EventTypes, PaymentStatus, Emissions
<1>8. QED
  BY <1>2, <1>3, <1>4, <1>5, <1>6, <1>7 DEF EmitStep

LEMMA EmitInformed ==
    ASSUME StripeInv, TruthInv, StripeGoesOn, NEW h \in Handlers, EmitStep(h)
    PROVE  HandlersInformed'
<1>1. PICK o \in OrderIds : o = OrderAt(h)
  BY EmissionCases
<1>2. Informed(handlers[h], stripe[o])
  BY <1>1 DEF TruthInv, HandlersInformed
<1>3. CASE \E outcome : Conclude(h, outcome)
  BY <1>3, ConcludeInformed DEF TruthInv
<1>4. ASSUME NEW pc \in AfterBalance, GoTo(h, pc), handlers[h].pc \in Emissions,
             Happened(stripe[o], pc)
      PROVE  HandlersInformed'
  <2>1. handlers'[h].order = o /\ handlers'[h].pc = pc
    BY <1>1, <1>4, GoToFields
  <2>2. Informed(handlers'[h], stripe[o])
    <3>1. /\ handlers'[h].balance = handlers[h].balance
          /\ handlers'[h].refunded = handlers[h].refunded
          /\ handlers'[h].disputed = handlers[h].disputed
      BY <1>4, GoToFields
    <3>2. /\ pc \notin {"bind", "payment", "charge", "failed"}
          /\ pc \in AfterCharge /\ handlers[h].pc \in AfterBalance
          /\ handlers[h].pc \in AfterCharge
      BY <1>4 DEF AfterCharge, AfterBalance, Emissions
    <3>3. QED
      BY <1>2, <1>4, <2>1, <3>1, <3>2 DEF Informed
  <2>3. QED
    BY <1>4, <2>1, <2>2, GoToFields, OneHandlerInformed DEF TruthInv
<1>5. ASSUME handlers[h].pc \in Emissions
      PROVE  /\ handlers[h].balance = "available" => Happened(stripe[o], "available")
             /\ Happened(stripe[o], NextMove(h)) /\ Happened(stripe[o], "record")
             /\ handlers[h].pc = "refund_pending" => Happened(stripe[o], "refunded")
  BY <1>2, <1>5 DEF Informed, Happened, NextMove, AfterCharge, AfterBalance, Emissions
<1>6. NextMove(h) \in AfterBalance /\ {"available", "record", "refunded"} \subseteq AfterBalance
  BY DEF NextMove, AfterBalance, Emissions
<1>7. \/ \E outcome : Conclude(h, outcome)
      \/ /\ handlers[h].pc \in Emissions
         /\ \/ handlers[h].balance = "available" /\ GoTo(h, "available")
            \/ GoTo(h, NextMove(h)) \/ GoTo(h, "record")
            \/ handlers[h].pc = "refund_pending" /\ GoTo(h, "refunded")
  BY EmissionCases
<1>8. QED
  BY <1>3, <1>4, <1>5, <1>6, <1>7

LEMMA HandlersStayInformed ==
    ASSUME StripeInv, TruthInv, HandlersTruthful, StripeGoesOn, [StripeNext]_stripeVars
    PROVE  HandlersInformed'
<1>1. CASE StoreStep \/ (\E o \in OrderIds : StripeAction(o)) \/ UNCHANGED stripeVars
  <2>1. handlers' = handlers
    BY <1>1 DEF StoreStep, adapterVars, stripeVars, StripeAction, PaymentProcessing, PaymentDeclined,
                PaymentSucceeds, SessionExpires, FundsBecomeAvailable, ChargeRefunded,
                ChargeDisputed, StripeMoves
  <2>2. QED
    BY <2>1, NobodyMoves DEF TruthInv
<1>2. ASSUME NEW h \in Handlers,
             \/ \E o \in OrderIds : BeginCheckout(h, o)
             \/ \E w \in Webhooks : ReserveWebhook(h, w)
             \/ HandlerStep(h) \/ StripeFails(h) \/ HandlerDies(h)
      PROVE  HandlersInformed'
  BY <1>2, UnmindfulSteps, RetrievalInformed, ChargeInformed, EmitInformed
  DEF TruthInv, HandlerStep, EmitStep
<1>3. QED
  BY <1>1, <1>2 DEF StripeNext

(* What ingesting an event leaves in the event table.                      *)
LEMMA IngestStores ==
    ASSUME StoreInv, NEW o \in OrderIds, NEW e \in Feed, NEW t \in ReceiveTimes,
           IngestProviderEvent(o, e, t)
    PROVE  /\ e.id \in EventIds
           /\ provider_events'[e.id].status # "absent" /\ provider_events'[e.id].event = e
           /\ \A i \in EventIds \ {e.id} :
                /\ provider_events'[i].event = provider_events[i].event
                /\ provider_events'[i].status = "absent" <=> provider_events[i].status = "absent"
           /\ \A other \in OrderIds : orders'[other].payment = orders[other].payment
<1> DEFINE start == Inserted(o, e, t)
<1>1. PICK m : /\ orders' = [orders EXCEPT ![o] = m.row]
               /\ provider_events' = m.log
               /\ Kept(start, m)
  BY InsertedSound, ReconciledSound DEF IngestProviderEvent
<1>2. /\ start.row = orders[o]
      /\ start.log[e.id] = [event |-> e, received_at |-> t, status |-> "pending"]
      /\ \A i \in EventIds \ {e.id} : start.log[i] = provider_events[i]
  BY InsertedFields
<1>3. e.id \in EventIds
  BY ConstantsAssumption DEF Event
<1> HIDE DEF start
<1>4. RowKept(orders[o], m.row) /\ LogKept(start.log, m.log)
  BY <1>1, <1>2 DEF Kept
<1>5. \A other \in OrderIds : orders'[other].payment = orders[other].payment
  BY <1>1, <1>4 DEF RowKept, StoreInv, TypeOK
<1>6. QED
  BY <1>1, <1>2, <1>3, <1>4, <1>5 DEF LogKept

(* Only what handlers tell the store changes its events.                   *)
NothingTold ==
    /\ provider_events' = provider_events
    /\ \A o \in OrderIds : orders'[o].payment \in {orders[o].payment, None, PaymentOf[o]}

LEMMA StoreStepTellsNothing ==
    ASSUME StripeInv, StoreStep PROVE NothingTold
<1>1. ASSUME NEW q \in QuoteIds, NEW k \in Keys, NEW b \in Buyers, CreateOrder(q, k, b, now)
      PROVE  NothingTold
  <2> DEFINE o == <<q, k, b>>
             row == [NoOrder EXCEPT !.order_status = "checkout_pending",
                                    !.provider = quotes[q].provider]
  <2>1. orders' = [orders EXCEPT ![o] = row] /\ provider_events' = provider_events
    BY <1>1 DEF CreateOrder
  <2>2. row.payment = None
    BY DEF NoOrder
  <2> HIDE DEF row, o
  <2>3. QED
    BY <2>1, <2>2 DEF NothingTold, StripeInv, StoreInv, TypeOK
<1>2. QED
  BY <1>1 DEF StoreStep, NothingTold, CreateQuote, Tick

LEMMA HandlerTellsNothing ==
    ASSUME StripeInv, NEW h \in Handlers, HandlerStep(h), ~EmitStep(h)
    PROVE  NothingTold
<1>1. CASE AttachSession(h)
  <2>1. PICK o \in OrderIds : o = OrderAt(h)
    BY <1>1, AtWork DEF AttachSession, At
  <2>2. AttachCheckout(o, CheckoutOf[o], CreatedPayment(o)) \/ UNCHANGED vars
    BY <1>1, <2>1 DEF AttachSession
  <2>3. CASE AttachCheckout(o, CheckoutOf[o], CreatedPayment(o))
    BY <2>3 DEF CreatedPayment, AttachCheckout, NothingTold, StripeInv, StoreInv, TypeOK, OrderRow
  <2>4. QED
    BY <2>2, <2>3 DEF vars, NothingTold
<1>2. CASE BindPayment(h)
  <2>1. PICK o \in OrderIds : o = OrderAt(h)
    BY <1>2, AtWork DEF BindPayment, At
  <2>2. BindProviderPayment(o, PaymentOf[o]) \/ UNCHANGED vars
    BY <1>2, <2>1 DEF BindPayment
  <2>3. CASE BindProviderPayment(o, PaymentOf[o])
    BY <2>3 DEF BindProviderPayment, NothingTold, StripeInv, StoreInv, TypeOK, OrderRow
  <2>4. QED
    BY <2>2, <2>3 DEF vars, NothingTold
<1>3. CASE UNCHANGED vars
  BY <1>3 DEF vars, NothingTold
<1>4. QED
  BY <1>1, <1>2, <1>3 DEF HandlerStep, EmitStep, CreateSession, LookupOrder, RetrieveSession,
     RetrievePayment, RetrieveCharge, RetrieveBalance, ReadStep, RecordReconciliation, FinishWebhook

LEMMA StepTells ==
    ASSUME StripeInv, [StripeNext]_stripeVars
    PROVE  NothingTold \/ \E h \in Handlers : EmitStep(h)
<1>1. CASE UNCHANGED vars
  BY <1>1 DEF vars, NothingTold
<1>2. CASE StoreStep
  BY <1>2, StoreStepTellsNothing
<1>3. ASSUME NEW h \in Handlers, HandlerStep(h) PROVE NothingTold \/ EmitStep(h)
  BY <1>3, HandlerTellsNothing
<1>4. QED
  BY <1>1, <1>2, <1>3
  DEF StripeNext, stripeVars, StripeAction, PaymentProcessing, PaymentDeclined, PaymentSucceeds,
      SessionExpires, FundsBecomeAvailable, ChargeRefunded, ChargeDisputed, StripeMoves,
      BeginCheckout, ReserveWebhook, StripeFails, HandlerDies

LEMMA HappenedForward ==
    ASSUME NEW s, NEW t, NEW type, Happened(s, type), Forward(s, t) PROVE Happened(t, type)
BY DEF Happened, Forward

LEMMA EventsStayTrue ==
    ASSUME StripeInv, TruthInv, StripeGoesOn, [StripeNext]_stripeVars
    PROVE  EventsTrue' /\ PaymentsOwn'
<1>1. ASSUME NEW i \in EventIds, provider_events[i].status # "absent"
      PROVE  \E o \in OrderIds, type \in EventTypes, t \in 0 .. MaxTime :
                /\ provider_events[i].event = Emitted(o, type, t)
                /\ Happened(stripe'[o], type)
  BY <1>1, HappenedForward DEF TruthInv, EventsTrue, StripeGoesOn
<1>2. CASE NothingTold
  BY <1>1, <1>2 DEF NothingTold, EventsTrue, TruthInv, PaymentsOwn, Emitted
<1>3. ASSUME NEW h \in Handlers, EmitStep(h) PROVE EventsTrue' /\ PaymentsOwn'
  <2>1. PICK o \in OrderIds, type \in EventTypes :
          /\ o = OrderAt(h) /\ type = handlers[h].pc /\ type \in Emissions \cup {"failed"}
          /\ \/ UNCHANGED vars
             \/ \E t \in 0 .. MaxTime : IngestProviderEvent(o, Emitted(o, type, t), now)
    BY <1>3, EmissionCases
  <2>2. CASE UNCHANGED vars
    <3>1. NothingTold
      BY <2>2 DEF vars, NothingTold
    <3>2. QED
      BY <3>1, <1>2
  <2>3. ASSUME NEW t \in 0 .. MaxTime, IngestProviderEvent(o, Emitted(o, type, t), now)
        PROVE  EventsTrue' /\ PaymentsOwn'
    <3> DEFINE e == Emitted(o, type, t)
    <3>1. Happened(stripe[o], type)
      BY <2>1 DEF TruthInv, HandlersInformed, Informed
    <3>2. Happened(stripe'[o], type)
      BY <3>1, HappenedForward DEF StripeGoesOn
    <3>3. e \in Feed /\ now \in ReceiveTimes
      BY FeedAssumption, NowInTime
    <3>4. /\ provider_events'[e.id].event = e
          /\ \A i \in EventIds \ {e.id} :
                /\ provider_events'[i].event = provider_events[i].event
                /\ provider_events'[i].status = "absent" <=> provider_events[i].status = "absent"
          /\ \A other \in OrderIds : orders'[other].payment = orders[other].payment
      BY <2>3, <3>3, IngestStores DEF StripeInv
    <3>5. ASSUME NEW i \in EventIds, provider_events'[i].status # "absent"
          PROVE  \E p \in OrderIds, tp \in EventTypes, s \in 0 .. MaxTime :
                    /\ provider_events'[i].event = Emitted(p, tp, s)
                    /\ Happened(stripe'[p], tp)
      <4>1. CASE i = e.id
        BY <3>2, <3>4, <4>1
      <4>2. CASE i # e.id
        BY <1>1, <3>4, <3>5, <4>2
      <4>3. QED
        BY <4>1, <4>2
    <3>6. EventsTrue'
      BY <3>5 DEF EventsTrue, Emitted
    <3>7. PaymentsOwn'
      BY <3>4 DEF PaymentsOwn, TruthInv
    <3>8. QED
      BY <3>6, <3>7
  <2>4. QED
    BY <2>1, <2>2, <2>3
<1>4. QED
  BY <1>2, <1>3, StepTells

LEMMA TruthNext ==
    StripeInv /\ TruthInv /\ HandlersTruthful /\ [StripeNext]_stripeVars => TruthInv'
<1> SUFFICES ASSUME StripeInv, TruthInv, HandlersTruthful, [StripeNext]_stripeVars PROVE TruthInv'
  OBVIOUS
<1>1. StripeGoesOn
  BY StripeStepGoesOn DEF TruthInv
<1>2. QED
  BY <1>1, HandlersStayInformed, EventsStayTrue DEF TruthInv, StripeGoesOn

LEMMA TruthInit == StripeInit => TruthInv
<1> SUFFICES ASSUME StripeInit PROVE TruthInv
  OBVIOUS
<1>1. \A o \in OrderIds : Sane(stripe[o])
  BY DEF StripeInit, NoSession, Sane
<1>2. HandlersInformed
  BY InformedOfNothing DEF StripeInit, Idle, Fresh, Unmindful, HandlersInformed
<1>3. EventsTrue
  BY DEF StripeInit, Init, NoEvent, EventsTrue
<1>4. PaymentsOwn
  BY DEF StripeInit, Init, NoOrder, PaymentsOwn
<1>5. QED
  BY <1>1, <1>2, <1>3, <1>4 DEF TruthInv

(* The event that took an order where it is tells of that order.           *)
LEMMA ReportedHappened ==
    ASSUME StripeInv, TruthInv, StoreFollows, NEW o \in OrderIds,
           orders[o].payment_status # "pending"
    PROVE  Happened(stripe[o], orders[o].payment_status)
<1> DEFINE status == orders[o].payment_status
<1>1. orders[o].payment = PaymentOf[o]
  BY DEF TruthInv, PaymentsOwn, StripeInv, StoreInv, RowsInv, StatusCoherent, RowCoherent
<1>2. PICK i \in EventsOf(provider_events, orders[o].payment) :
         provider_events[i].event.type = status
  BY DEF StoreFollows, Follows, Explained, Reported
<1>3. PICK p \in OrderIds, type \in EventTypes, t \in 0 .. MaxTime :
         /\ provider_events[i].event = Emitted(p, type, t)
         /\ Happened(stripe[p], type)
  BY DEF TruthInv, EventsTrue, EventsOf
<1>4. type = status /\ PaymentOf[p] = PaymentOf[o]
  BY <1>1, <1>2, <1>3 DEF EventsOf, Emitted
<1>5. p = o
  BY <1>4, StripeAssumption
<1>6. QED
  BY <1>3, <1>4, <1>5

-------------------------------------------------------------------------------
(* Handlers tell the store everything *)

ToldInv ==
    /\ \A h \in Handlers : Truthful(handlers[h])
    /\ \A w \in Webhooks : webhook_events[w].status = "processed" => Effected(w)
    /\ \A i \in EventIds : provider_events[i].status = "absent" => provider_events[i].event = None

ToldGoesOn ==
    \A o \in OrderIds, type \in EventTypes : Told(o, type) => Told(o, type)'

(* The store forgets nothing it was told, and knows what it is told now.   *)
LEMMA IngestTells ==
    ASSUME StripeInv, ToldInv, NEW o \in OrderIds, NEW type \in EventTypes, NEW t \in 0 .. MaxTime,
           IngestProviderEvent(o, Emitted(o, type, t), now)
    PROVE  /\ ToldGoesOn /\ Told(o, type)'
           /\ \A i \in EventIds :
                provider_events'[i].status = "absent" => provider_events'[i].event = None
<1> DEFINE e == Emitted(o, type, t)
<1>1. e \in Feed /\ now \in ReceiveTimes
  BY FeedAssumption, NowInTime
<1>2. /\ e.id \in EventIds
      /\ provider_events'[e.id].status # "absent" /\ provider_events'[e.id].event = e
      /\ \A i \in EventIds \ {e.id} :
            /\ provider_events'[i].event = provider_events[i].event
            /\ provider_events'[i].status = "absent" <=> provider_events[i].status = "absent"
  BY <1>1, IngestStores DEF StripeInv
<1>3. provider_events[e.id].status = "absent"
  BY DEF IngestProviderEvent, EventUnknown
<1>4. e.id = EventIdOf[<<o, type>>]
  BY DEF Emitted
<1> HIDE DEF e
<1>5. Told(o, type)'
  BY <1>2, <1>4 DEF Told, Emitted, e
<1>6. ASSUME NEW p \in OrderIds, NEW tp \in EventTypes, Told(p, tp) PROVE Told(p, tp)'
  <2> DEFINE i == EventIdOf[<<p, tp>>]
  <2>1. i \in EventIds
    BY StripeAssumption
  <2>2. i # e.id
    BY <1>3, <1>6 DEF Told
  <2>3. QED
    BY <1>2, <1>6, <2>1, <2>2 DEF Told, Emitted
<1>7. QED
  BY <1>2, <1>5, <1>6 DEF ToldGoesOn, ToldInv

LEMMA NothingToldStays ==
    ASSUME ToldInv, NothingTold
    PROVE  /\ ToldGoesOn
           /\ \A i \in EventIds :
                provider_events'[i].status = "absent" => provider_events'[i].event = None
BY DEF NothingTold, ToldGoesOn, Told, Emitted, ToldInv

(* An emission that is not refused leaves the store told.                  *)
LEMMA EmitTells ==
    ASSUME StripeInv, ToldInv, NEW h \in Handlers, EmitStep(h),
           NEW o, o = OrderAt(h), NEW type, type = handlers[h].pc
    PROVE  /\ ToldGoesOn
           /\ \A i \in EventIds :
                provider_events'[i].status = "absent" => provider_events'[i].event = None
           /\ Told(o, type)' \/ Conclude(h, "rejected")
<1>1. o \in OrderIds /\ type \in EventTypes
  BY EmissionCases
<1>2. CASE UNCHANGED vars /\ Conclude(h, "rejected")
  <2>1. NothingTold
    BY <1>2 DEF vars, NothingTold
  <2>2. QED
    BY <1>2, <2>1, NothingToldStays
<1>3. ASSUME NEW t \in 0 .. MaxTime, IngestProviderEvent(o, Emitted(o, type, t), now)
      PROVE  /\ ToldGoesOn /\ Told(o, type)'
             /\ \A i \in EventIds :
                  provider_events'[i].status = "absent" => provider_events'[i].event = None
  BY <1>1, <1>3, IngestTells
<1>4. ASSUME NEW t \in 0 .. MaxTime, UNCHANGED vars, NEW e, e = Emitted(o, type, t),
             provider_events[e.id].event = e
      PROVE  /\ ToldGoesOn /\ Told(o, type)'
             /\ \A i \in EventIds :
                  provider_events'[i].status = "absent" => provider_events'[i].event = None
  <2>1. e.id = EventIdOf[<<o, type>>] /\ e.id \in EventIds
    BY <1>1, <1>4, StripeAssumption DEF Emitted
  <2>2. e # None
    BY <1>1, <1>4, FeedAssumption, NoneAssumption
  <2>3. provider_events[e.id].status # "absent"
    BY <1>4, <2>1, <2>2 DEF ToldInv
  <2>4. provider_events' = provider_events
    BY <1>4 DEF vars
  <2>5. Told(o, type)'
    BY <1>4, <2>1, <2>3, <2>4 DEF Told, Emitted
  <2>6. NothingTold
    BY <1>4 DEF vars, NothingTold
  <2>7. QED
    BY <2>5, <2>6, NothingToldStays
<1>5. QED
  BY <1>2, <1>3, <1>4, EmissionCases

LEMMA StepKeepsTold ==
    ASSUME StripeInv, ToldInv, [StripeNext]_stripeVars
    PROVE  /\ ToldGoesOn
           /\ \A i \in EventIds :
                provider_events'[i].status = "absent" => provider_events'[i].event = None
BY StepTells, EmitTells, NothingToldStays

(* What was told was told.                                                 *)
LEMMA ReversedStays ==
    ASSUME ToldGoesOn, NEW o \in OrderIds, Reversed(o) PROVE Reversed(o)'
<1>1. {"disputed", "refund_pending", "refunded"} \subseteq EventTypes
  BY DEF EventTypes, PaymentStatus
<1>2. QED
  BY <1>1 DEF Reversed, ToldGoesOn

LEMMA EffectedStays ==
    ASSUME ToldGoesOn, NEW w, Effected(w) PROVE Effected(w)'
<1>1. "captured" \in EventTypes
  BY DEF EventTypes, PaymentStatus
<1>2. QED
  BY <1>1, ReversedStays DEF Effected, ToldGoesOn

LEMMA TruthfulStays ==
    ASSUME StripeGoesOn, ToldGoesOn, NEW x \in Handler, HandlerKnows(x), Truthful(x)
    PROVE  Truthful(x)'
<1>1. x.pc \in Reading => x.order \in OrderIds
  BY DEF HandlerKnows, Handler, Reading, AfterCharge, AfterBalance, Emissions
<1>2. x.pc = "lookup" \/ x.pc \in Reading => x.webhook \in Webhooks
  BY DEF HandlerKnows, Handler, Reading, AfterCharge, AfterBalance, Emissions
<1>3. x.pc = "lookup" \/ x.pc \in Reading => Sent(x.webhook)'
  BY <1>2, SentStays DEF Truthful
<1>4. {"captured", "refund_pending"} \subseteq EventTypes
  BY DEF EventTypes, PaymentStatus
<1>5. AfterBalance \subseteq Reading
  BY DEF Reading, AfterCharge
<1>6. x.pc \in AfterBalance \ {"captured"} => Told(x.order, "captured")'
  BY <1>1, <1>4, <1>5 DEF Truthful, ToldGoesOn
<1>7. x.pc = "refunded" => Told(x.order, "refund_pending")'
  BY <1>1, <1>4, <1>5 DEF Truthful, ToldGoesOn, AfterBalance, Emissions
<1>8. x.pc = "record" /\ (x.disputed \/ x.refunded = "full") => Reversed(x.order)'
  BY <1>1, <1>5, ReversedStays DEF Truthful, AfterBalance
<1>9. x.pc = "finish" /\ x.outcome = "processed" => Effected(x.webhook)'
  BY EffectedStays DEF Truthful
<1>10. QED
  BY <1>3, <1>6, <1>7, <1>8, <1>9 DEF Truthful

(* Truth of the next state, told of the records of the next state.         *)
LEMMA TruthfulNext ==
    ASSUME \A h \in Handlers : \A y : y = handlers'[h] => Truthful(y)'
    PROVE  HandlersTruthful'
<1> SUFFICES ASSUME NEW h \in Handlers PROVE Truthful(handlers[h])'
  BY DEF HandlersTruthful
<1>1. PICK y : y = handlers'[h]
  OBVIOUS
<1>2. Truthful(y)'
  BY <1>1
<1>3. QED
  BY <1>1, <1>2 DEF Truthful, Effected, Reversed, Told, Sent, Emitted

LEMMA OneHandlerTruthful ==
    ASSUME StripeInv, HandlersTruthful, StripeGoesOn, ToldGoesOn, NEW h \in Handlers,
           \A g \in Handlers \ {h} : handlers'[g] = handlers[g],
           NEW y, y = handlers'[h], Truthful(y)'
    PROVE  HandlersTruthful'
<1>1. ASSUME NEW g \in Handlers, NEW x, x = handlers'[g] PROVE Truthful(x)'
  <2>1. CASE g = h
    BY <1>1, <2>1
  <2>2. CASE g # h
    <3>1. x = handlers[g] /\ x \in Handler /\ HandlerKnows(x)
      BY <1>1, <2>2 DEF StripeInv, AdapterInv, StripeTypeOK, HandlersKnow
    <3>2. Truthful(x)
      BY <3>1 DEF HandlersTruthful
    <3>3. QED
      BY <3>1, <3>2, TruthfulStays
  <2>3. QED
    BY <2>1, <2>2
<1>2. QED
  BY <1>1, TruthfulNext

LEMMA NobodyMovesTruthful ==
    ASSUME StripeInv, HandlersTruthful, StripeGoesOn, ToldGoesOn, handlers' = handlers
    PROVE  HandlersTruthful'
<1>1. ASSUME NEW g \in Handlers, NEW x, x = handlers'[g] PROVE Truthful(x)'
  <2>1. x = handlers[g] /\ x \in Handler /\ HandlerKnows(x)
    BY <1>1 DEF StripeInv, AdapterInv, StripeTypeOK, HandlersKnow
  <2>2. Truthful(x)
    BY <2>1 DEF HandlersTruthful
  <2>3. QED
    BY <2>1, <2>2, TruthfulStays
<1>2. QED
  BY <1>1, TruthfulNext

(* Nothing is asked of a handler without a webhook, or one that has not    *)
(* finished well.                                                          *)
LEMMA NothingAsked ==
    ASSUME NEW y, y.pc \in {"idle", "create", "attach"} \/ (y.pc = "finish" /\ y.outcome # "processed")
    PROVE  Truthful(y)'
BY DEF Truthful, Reading, AfterCharge, AfterBalance, Emissions

LEMMA RefusedTruthful ==
    ASSUME StripeInv, HandlersTruthful, StripeGoesOn, ToldGoesOn, NEW h \in Handlers,
           NEW outcome \in {"rejected", "retryable"}, Conclude(h, outcome)
    PROVE  HandlersTruthful'
<1>1. PICK y : y = handlers'[h]
  OBVIOUS
<1>2. Truthful(y)'
  BY <1>1, ConcludeFields, NothingAsked
<1>3. QED
  BY <1>1, <1>2, ConcludeFields, OneHandlerTruthful

(* A webhook that was processed has had its effect.                        *)
LEMMA ProcessedTruthful ==
    ASSUME StripeInv, HandlersTruthful, StripeGoesOn, ToldGoesOn, NEW h \in Handlers,
           Conclude(h, "processed"), NEW w, w = handlers[h].webhook, Effected(w)'
    PROVE  HandlersTruthful'
<1>1. PICK y : y = handlers'[h]
  OBVIOUS
<1>2. y.pc = "finish" /\ y.webhook = w
  BY <1>1, ConcludeFields
<1>3. Truthful(y)'
  BY <1>2 DEF Truthful, Reading, AfterCharge, AfterBalance, Emissions
<1>4. QED
  BY <1>1, <1>3, ConcludeFields, OneHandlerTruthful

-------------------------------------------------------------------------------
(* The steps of a handler keep it truthful *)

LEMMA IdleTruthful ==
    ASSUME StripeInv, HandlersTruthful, StripeGoesOn, ToldGoesOn, NEW h \in Handlers,
           \A g \in Handlers \ {h} : handlers'[g] = handlers[g],
           \/ handlers'[h].pc \in {"idle", "create", "attach"}
           \/ handlers'[h].pc = "finish" /\ handlers'[h].outcome # "processed"
    PROVE  HandlersTruthful'
<1>1. PICK y : y = handlers'[h]
  OBVIOUS
<1>2. Truthful(y)'
  BY <1>1, NothingAsked
<1>3. QED
  BY <1>1, <1>2, OneHandlerTruthful

(* A handler that stops, or only prepares a checkout.                      *)
LEMMA AsideTruthful ==
    ASSUME StripeInv, HandlersTruthful, StripeGoesOn, ToldGoesOn, NEW h \in Handlers,
           \/ \E o \in OrderIds : BeginCheckout(h, o)
           \/ CreateSession(h) \/ AttachSession(h) \/ FinishWebhook(h)
           \/ StripeFails(h) \/ HandlerDies(h)
    PROVE  HandlersTruthful'
<1>1. ASSUME NEW x, handlers' = [handlers EXCEPT ![h] = x], x.pc \in {"idle", "create"}
      PROVE  HandlersTruthful'
  <2>1. handlers'[h] = x /\ \A g \in Handlers \ {h} : handlers'[g] = handlers[g]
    BY <1>1 DEF StripeInv, AdapterInv, StripeTypeOK
  <2>2. QED
    BY <1>1, <2>1, IdleTruthful
<1>2. CASE GoTo(h, "attach")
  BY <1>2, GoToFields, IdleTruthful
<1>3. CASE Conclude(h, "retryable")
  BY <1>3, RefusedTruthful
<1>4. Idle.pc = "idle"
  BY DEF Idle, Fresh
<1>5. \A o : Fresh("create", None, o, 0, "none").pc = "create"
  BY DEF Fresh
<1>6. QED
  BY <1>1, <1>2, <1>3, <1>4, <1>5
  DEF BeginCheckout, CreateSession, AttachSession, FinishWebhook, StripeFails, HandlerDies

(* A webhook is reserved after Stripe has sent it.                         *)
LEMMA ReserveTruthful ==
    ASSUME StripeInv, HandlersTruthful, StripeGoesOn, ToldGoesOn, NEW h \in Handlers,
           NEW w \in Webhooks, ReserveWebhook(h, w)
    PROVE  HandlersTruthful'
<1>1. PICK y : y = Reserved(w)
  OBVIOUS
<1>2. handlers'[h] = y /\ \A g \in Handlers \ {h} : handlers'[g] = handlers[g]
  BY <1>1 DEF ReserveWebhook, StripeInv, AdapterInv, StripeTypeOK
<1>3. CASE w.type \notin _WEBHOOK_TYPES
  <2>1. y.pc = "finish" /\ y.outcome = "ignored"
    BY <1>1, <1>3 DEF Reserved, Fresh
  <2>2. QED
    BY <1>2, <2>1, IdleTruthful
<1>4. CASE w.type \in _WEBHOOK_TYPES
  <2>1. y.pc = "lookup" /\ y.webhook = w
    BY <1>1, <1>4 DEF Reserved, Fresh
  <2>2. Sent(w)'
    BY SentStays DEF ReserveWebhook
  <2>3. Truthful(y)'
    BY <1>4, <2>1, <2>2 DEF Truthful, Reading, AfterCharge, AfterBalance, Emissions
  <2>4. QED
    BY <1>2, <2>3, OneHandlerTruthful
<1>5. QED
  BY <1>3, <1>4

LEMMA LookupTruthful ==
    ASSUME StripeInv, HandlersTruthful, StripeGoesOn, ToldGoesOn, NEW h \in Handlers,
           LookupOrder(h)
    PROVE  HandlersTruthful'
<1>1. CASE Conclude(h, "rejected")
  BY <1>1, RefusedTruthful
<1>2. CASE ~Conclude(h, "rejected")
  <2>1. PICK w \in Webhooks : w = handlers[h].webhook
    BY AtWebhook DEF LookupOrder, ReadStep, At
  <2>2. handlers' = [handlers EXCEPT ![h].pc = "session", ![h].order = w.order, ![h].observed = now]
    BY <1>2, <2>1 DEF LookupOrder
  <2>3. handlers[h] \in Handler
    BY DEF StripeInv, AdapterInv, StripeTypeOK
  <2>4. /\ handlers'[h] = [handlers[h] EXCEPT !.pc = "session", !.order = w.order, !.observed = now]
        /\ \A g \in Handlers \ {h} : handlers'[g] = handlers[g]
    BY <2>2 DEF StripeInv, AdapterInv, StripeTypeOK
  <2>5. PICK y : y = handlers'[h]
    OBVIOUS
  <2>6. y.pc = "session" /\ y.order = w.order /\ y.webhook = w
    BY <2>1, <2>3, <2>4, <2>5 DEF Handler
  <2>7. w.type \in _WEBHOOK_TYPES /\ Sent(w)
    BY <2>1 DEF HandlersTruthful, Truthful, LookupOrder, ReadStep, At
  <2>8. Sent(w)'
    BY <2>7, SentStays
  <2>9. Truthful(y)'
    BY <2>6, <2>7, <2>8 DEF Truthful, Reading, AfterCharge, AfterBalance, Emissions
  <2>10. QED
    BY <2>4, <2>5, <2>9, OneHandlerTruthful
<1>3. QED
  BY <1>1, <1>2

(* A decline that was processed promises nothing to the store.             *)
LEMMA DeclineEffected ==
    ASSUME NEW w, w.order \in OrderIds, w.type \in DeclineTypes PROVE Effected(w)'
BY DEF Effected, DeclineTypes, DisputeTypes, _WEBHOOK_TYPES

LEMMA RetrievalTruthful ==
    ASSUME StripeInv, TruthInv, HandlersTruthful, StripeGoesOn, ToldGoesOn, NEW h \in Handlers,
           RetrieveSession(h) \/ BindPayment(h) \/ RetrievePayment(h)
    PROVE  HandlersTruthful'
<1>1. handlers[h].pc \in {"session", "bind", "payment"}
  BY DEF RetrieveSession, BindPayment, RetrievePayment, ReadStep, At
<1>2. handlers[h].pc \in Reading
  BY <1>1 DEF Reading
<1>3. PICK w : w = handlers[h].webhook
  OBVIOUS
<1>4. /\ w \in Webhooks /\ w.order = OrderAt(h) /\ w.order \in OrderIds
      /\ w.type \in _WEBHOOK_TYPES /\ Sent(w)'
      /\ w.type \in DeclineTypes \/ stripe[OrderAt(h)].intent = "succeeded"
  BY <1>2, <1>3, AtReading
<1>5. CASE Conclude(h, "rejected")
  BY <1>5, RefusedTruthful
<1>6. ASSUME NEW pc \in {"bind", "payment", "charge", "failed"}, GoTo(h, pc),
             pc = "failed" => w.type \in DeclineTypes
      PROVE  HandlersTruthful'
  <2>1. PICK y : y = handlers'[h]
    OBVIOUS
  <2>2. y.pc = pc /\ y.webhook = w /\ y.order = w.order
    BY <1>3, <1>4, <1>6, <2>1, GoToFields
  <2>3. Truthful(y)'
    BY <1>4, <1>6, <2>2 DEF Truthful, AfterCharge, AfterBalance, Emissions
  <2>4. QED
    BY <1>6, <2>1, <2>3, GoToFields, OneHandlerTruthful
<1>7. ASSUME Conclude(h, "processed"), w.type \in DeclineTypes PROVE HandlersTruthful'
  BY <1>3, <1>4, <1>7, DeclineEffected, ProcessedTruthful
<1>8. CASE RetrieveSession(h)
  <2>1. CASE stripe[OrderAt(h)].intent = "none"
    BY <1>4, <1>7, <1>8, <2>1 DEF RetrieveSession
  <2>2. CASE stripe[OrderAt(h)].intent # "none"
    BY <1>6, <1>8, <2>2 DEF RetrieveSession
  <2>3. QED
    BY <2>1, <2>2
<1>9. CASE BindPayment(h)
  BY <1>5, <1>6, <1>9 DEF BindPayment
<1>10. CASE RetrievePayment(h)
  <2>1. CASE stripe[OrderAt(h)].intent = "processing"
    BY <1>4, <1>7, <1>10, <2>1 DEF RetrievePayment
  <2>2. CASE stripe[OrderAt(h)].intent = "succeeded"
    BY <1>6, <1>10, <2>2 DEF RetrievePayment, AfterPayment
  <2>3. CASE stripe[OrderAt(h)].intent \notin {"processing", "succeeded"}
    BY <1>4, <1>6, <1>10, <2>3 DEF RetrievePayment, AfterPayment
  <2>4. QED
    BY <2>1, <2>2, <2>3
<1>11. QED
  BY <1>8, <1>9, <1>10

(* The charge that is read shows what the webhook announced.               *)
LEMMA ChargeTruthful ==
    ASSUME StripeInv, TruthInv, HandlersTruthful, StripeGoesOn, ToldGoesOn, NEW h \in Handlers,
           RetrieveCharge(h)
    PROVE  HandlersTruthful'
<1>1. handlers[h].pc \in Reading
  BY DEF RetrieveCharge, ReadStep, At, Reading
<1>2. PICK w : w = handlers[h].webhook
  OBVIOUS
<1>3. /\ w \in Webhooks /\ w.order = OrderAt(h) /\ w.order \in OrderIds
      /\ w.type \in _WEBHOOK_TYPES /\ Sent(w) /\ Sent(w)'
  BY <1>1, <1>2, AtReading
<1>4. CASE Conclude(h, "rejected")
  BY <1>4, RefusedTruthful
<1>5. CASE ~Conclude(h, "rejected")
  <2>1. PICK y : y = handlers'[h]
    OBVIOUS
  <2>2. /\ y.pc = "balance" /\ y.webhook = w /\ y.order = w.order
        /\ y.refunded = stripe[w.order].refunded /\ y.refunded # "partial"
        /\ y.disputed = stripe[w.order].disputed
    BY <1>2, <1>3, <1>5, <2>1, ChargeFields
  <2>3. w.order # None /\ stripe[w.order] \in StripeObject
    BY <1>3, StripeAssumption DEF StripeInv, AdapterInv, StripeTypeOK
  <2>4. w.type = "charge.refunded" => y.refunded = "full"
    <3>1. w.type = "charge.refunded" => stripe[w.order].refunded # "none"
      BY <1>3, <2>3 DEF Sent
    <3>2. stripe[w.order].refunded \in {"none", "partial", "full"}
      BY <2>3 DEF StripeObject
    <3>3. QED
      BY <2>2, <3>1, <3>2
  <2>5. w.type \in DisputeTypes => y.disputed
    <3>1. w.type \in DisputeTypes => stripe[w.order].disputed
      BY <1>3, <2>3 DEF Sent, DisputeTypes
    <3>2. QED
      BY <2>2, <3>1
  <2>6. Truthful(y)'
    BY <1>3, <2>2, <2>4, <2>5 DEF Truthful, AfterBalance, Emissions
  <2>7. QED
    BY <1>5, <2>1, <2>6, ChargeFields, OneHandlerTruthful
<1>6. QED
  BY <1>4, <1>5

LEMMA BalanceTruthful ==
    ASSUME StripeInv, TruthInv, HandlersTruthful, StripeGoesOn, ToldGoesOn, NEW h \in Handlers,
           RetrieveBalance(h)
    PROVE  HandlersTruthful'
<1>1. handlers[h].pc = "balance" /\ handlers[h].pc \in Reading /\ handlers[h].pc \in AfterCharge
  BY DEF RetrieveBalance, ReadStep, At, Reading, AfterCharge
<1>2. PICK w : w = handlers[h].webhook
  OBVIOUS
<1>3. /\ w \in Webhooks /\ w.order = OrderAt(h) /\ w.order \in OrderIds
      /\ w.type \in _WEBHOOK_TYPES /\ Sent(w)'
  BY <1>1, <1>2, AtReading
<1>4. PICK y : y = handlers'[h]
  OBVIOUS
<1>5. /\ y.pc = "captured" /\ y.webhook = w /\ y.order = w.order
      /\ y.refunded = handlers[h].refunded /\ y.disputed = handlers[h].disputed
  BY <1>2, <1>3, <1>4, BalanceFields
<1>6. /\ w.type = "charge.refunded" => y.refunded = "full"
      /\ w.type \in DisputeTypes => y.disputed
  BY <1>1, <1>2, <1>5 DEF HandlersTruthful, Truthful
<1>7. Truthful(y)'
  BY <1>3, <1>5, <1>6 DEF Truthful
<1>8. QED
  BY <1>4, <1>7, BalanceFields, OneHandlerTruthful

(* A handler that emits has told the store what it leaves behind.          *)
LEMMA EmitTruthful ==
    ASSUME StripeInv, TruthInv, ToldInv, HandlersTruthful, StripeGoesOn, NEW h \in Handlers,
           EmitStep(h)
    PROVE  HandlersTruthful'
<1>1. PICK o, type, w, x : /\ o = OrderAt(h) /\ type = handlers[h].pc
                           /\ w = handlers[h].webhook /\ x = handlers[h]
  OBVIOUS
<1>2. type \in Emissions \cup {"failed"} /\ o \in OrderIds
  BY <1>1, EmissionCases
<1>3. ToldGoesOn /\ (Told(o, type)' \/ Conclude(h, "rejected"))
  BY <1>1, EmitTells
<1>4. type \in Reading /\ (type # "failed" => type \in AfterCharge /\ type \in AfterBalance)
  BY <1>2 DEF Reading, AfterCharge, AfterBalance
<1>5. /\ w \in Webhooks /\ w.order = o /\ w.type \in _WEBHOOK_TYPES /\ Sent(w)'
  BY <1>1, <1>4, AtReading
<1>6. Truthful(x) /\ x.pc = type /\ x.order = o /\ x.webhook = w
  BY <1>1 DEF HandlersTruthful, OrderAt
<1>7. CASE Conclude(h, "rejected")
  BY <1>3, <1>7, RefusedTruthful
<1>8. CASE type = "failed" /\ Conclude(h, "processed")
  <2>1. w.type \in DeclineTypes
    BY <1>6, <1>8 DEF Truthful
  <2>2. Effected(w)'
    BY <1>2, <1>5, <2>1, DeclineEffected
  <2>3. QED
    BY <1>1, <1>3, <1>8, <2>2, ProcessedTruthful
<1>9. ASSUME ~Conclude(h, "rejected"), type # "failed",
             NEW pc \in AfterBalance \ {"captured"}, GoTo(h, pc),
             pc \in {"refund_pending", "refunded"} => ~x.disputed,
             pc = "refunded" => type = "refund_pending",
             pc = "record" /\ (x.disputed \/ x.refunded = "full") => type \in {"disputed", "refunded"}
      PROVE  HandlersTruthful'
  <2>1. PICK y : y = handlers'[h]
    OBVIOUS
  <2>2. /\ y.pc = pc /\ y.webhook = w /\ y.order = o
        /\ y.refunded = x.refunded /\ y.disputed = x.disputed
    BY <1>1, <1>9, <2>1, GoToFields
  <2>3. Told(o, type)'
    BY <1>3, <1>9
  <2>4. {"captured", "refund_pending"} \subseteq EventTypes
    BY DEF EventTypes, PaymentStatus
  <2>5. Told(o, "captured")'
    <3>1. type # "captured" => Told(o, "captured")
      BY <1>4, <1>6, <1>9 DEF Truthful
    <3>2. QED
      BY <1>2, <1>3, <2>3, <2>4, <3>1 DEF ToldGoesOn
  <2>6. type = "refunded" => Told(o, "refund_pending")'
    BY <1>2, <1>3, <1>6, <2>4 DEF Truthful, ToldGoesOn
  <2>7. pc = "record" /\ (x.disputed \/ x.refunded = "full") => Reversed(o)'
    BY <1>9, <2>3, <2>6 DEF Reversed
  <2>8. pc = "refunded" => Told(o, "refund_pending")'
    BY <1>9, <2>3
  <2>9. pc \in AfterCharge /\ pc \in Reading /\ pc \notin {"failed", "finish", "lookup"}
    BY <1>9 DEF AfterCharge, AfterBalance, Emissions, Reading
  <2>10. /\ w.type = "charge.refunded" => x.refunded = "full"
         /\ w.type \in DisputeTypes => x.disputed
    BY <1>4, <1>6, <1>9 DEF Truthful
  <2>11. Truthful(y)'
    BY <1>5, <1>9, <2>2, <2>5, <2>7, <2>8, <2>9, <2>10 DEF Truthful
  <2>12. QED
    BY <1>3, <1>9, <2>1, <2>11, GoToFields, OneHandlerTruthful
<1>10. /\ NextMove(h) \in AfterBalance \ {"captured"}
       /\ NextMove(h) \in {"disputed", "refund_pending", "record"}
       /\ NextMove(h) = "refund_pending" => ~x.disputed
       /\ NextMove(h) = "record" => ~x.disputed /\ x.refunded # "full"
  BY <1>1 DEF NextMove, AfterBalance, Emissions
<1>11. {"available", "record", "refunded"} \subseteq AfterBalance \ {"captured"}
  BY DEF AfterBalance, Emissions
<1>12. type = "refund_pending" => ~x.disputed
  BY <1>6 DEF Truthful
<1>13. CASE type = "captured" /\ GoTo(h, "available")
  BY <1>7, <1>9, <1>11, <1>13
<1>14. CASE type \in {"captured", "available"} /\ GoTo(h, NextMove(h))
  BY <1>7, <1>9, <1>10, <1>14
<1>15. CASE type \in {"disputed", "refunded"} /\ GoTo(h, "record")
  BY <1>7, <1>9, <1>11, <1>15
<1>16. CASE type = "refund_pending" /\ GoTo(h, "refunded")
  BY <1>7, <1>9, <1>11, <1>12, <1>16
<1>17. QED
  BY <1>1, <1>7, <1>8, <1>13, <1>14, <1>15, <1>16, EmissionCases

(* A handler that has told the store everything concludes.                 *)
LEMMA RecordTruthful ==
    ASSUME StripeInv, TruthInv, HandlersTruthful, StripeGoesOn, ToldGoesOn, NEW h \in Handlers,
           RecordReconciliation(h)
    PROVE  HandlersTruthful'
<1>1. PICK w, x : w = handlers[h].webhook /\ x = handlers[h]
  OBVIOUS
<1>2. x.pc = "record" /\ Conclude(h, "processed")
  BY <1>1 DEF RecordReconciliation, At
<1>3. x.pc \in Reading /\ x.pc \in AfterCharge /\ x.pc \in AfterBalance \ {"captured"}
  BY <1>2 DEF Reading, AfterCharge, AfterBalance, Emissions
<1>4. w \in Webhooks /\ w.order = OrderAt(h) /\ w.order \in OrderIds /\ w.type \in _WEBHOOK_TYPES
  BY <1>1, <1>3, AtReading
<1>5. Truthful(x) /\ x.order = w.order /\ x.webhook = w
  BY <1>1, <1>4 DEF HandlersTruthful, OrderAt
<1>6. Told(w.order, "captured")
  BY <1>3, <1>5 DEF Truthful
<1>7. w.type \in DisputeTypes \cup {"charge.refunded"} => Reversed(w.order)
  BY <1>2, <1>3, <1>5 DEF Truthful
<1>8. Effected(w)
  BY <1>4, <1>6, <1>7 DEF Effected
<1>9. Effected(w)'
  BY <1>8, EffectedStays
<1>10. QED
  BY <1>1, <1>2, <1>9, ProcessedTruthful

LEMMA HandlersStayTruthful ==
    ASSUME StripeInv, TruthInv, ToldInv, StripeGoesOn, [StripeNext]_stripeVars
    PROVE  HandlersTruthful'
<1>1. HandlersTruthful /\ ToldGoesOn
  BY StepKeepsTold DEF ToldInv, HandlersTruthful
<1>2. CASE StoreStep \/ (\E o \in OrderIds : StripeAction(o)) \/ UNCHANGED stripeVars
  <2>1. handlers' = handlers
    BY <1>2 DEF StoreStep, adapterVars, stripeVars, StripeAction, PaymentProcessing, PaymentDeclined,
                PaymentSucceeds, SessionExpires, FundsBecomeAvailable, ChargeRefunded,
                ChargeDisputed, StripeMoves
  <2>2. QED
    BY <1>1, <2>1, NobodyMovesTruthful
<1>3. ASSUME NEW h \in Handlers,
             \/ \E o \in OrderIds : BeginCheckout(h, o)
             \/ \E w \in Webhooks : ReserveWebhook(h, w)
             \/ HandlerStep(h) \/ StripeFails(h) \/ HandlerDies(h)
      PROVE  HandlersTruthful'
  BY <1>1, <1>3, AsideTruthful, ReserveTruthful, LookupTruthful, RetrievalTruthful,
     ChargeTruthful, BalanceTruthful, EmitTruthful, RecordTruthful
  DEF HandlerStep, EmitStep
<1>4. QED
  BY <1>2, <1>3 DEF StripeNext

(* A webhook's row is written when it is reserved and when it is finished. *)
LEMMA ProcessedStayEffected ==
    ASSUME StripeInv, TruthInv, ToldInv, StripeGoesOn, [StripeNext]_stripeVars
    PROVE  \A w \in Webhooks : webhook_events'[w].status = "processed" => Effected(w)'
<1>1. ToldGoesOn
  BY StepKeepsTold
<1>2. SUFFICES ASSUME NEW w \in Webhooks, webhook_events'[w].status = "processed"
               PROVE  Effected(w)
  BY <1>1, EffectedStays
<1>3. CASE webhook_events'[w] = webhook_events[w]
  BY <1>2, <1>3 DEF ToldInv
<1>4. ASSUME NEW h \in Handlers, NEW v \in Webhooks, ReserveWebhook(h, v) PROVE Effected(w)
  <2>1. webhook_events'[w] = IF w = v THEN [status |-> "processing", updated_at |-> now]
                                      ELSE webhook_events[w]
    BY <1>4 DEF ReserveWebhook, StripeInv, AdapterInv, StripeTypeOK
  <2>2. QED
    BY <1>2, <1>3, <2>1
<1>5. ASSUME NEW h \in Handlers, FinishWebhook(h) PROVE Effected(w)
  <2>1. PICK v, outcome, t : /\ v = handlers[h].webhook /\ outcome = handlers[h].outcome
                             /\ t = handlers[h].received
    OBVIOUS
  <2>2. webhook_events' = [webhook_events EXCEPT ![v] = [status |-> outcome, updated_at |-> t]]
    BY <1>5, <2>1 DEF FinishWebhook
  <2>3. webhook_events'[w] = IF w = v THEN [status |-> outcome, updated_at |-> t]
                                      ELSE webhook_events[w]
    BY <2>2 DEF StripeInv, AdapterInv, StripeTypeOK
  <2>4. w = v /\ outcome = "processed" => Effected(w)
    BY <1>5, <2>1 DEF FinishWebhook, At, ToldInv, Truthful
  <2>5. QED
    BY <1>2, <1>3, <2>3, <2>4
<1>6. ASSUME webhook_events' = webhook_events PROVE Effected(w)
  BY <1>3, <1>6
<1>7. QED
  BY <1>4, <1>5, <1>6
  DEF StripeNext, StoreStep, adapterVars, stripeVars, StripeAction, PaymentProcessing,
      PaymentDeclined, PaymentSucceeds, SessionExpires, FundsBecomeAvailable, ChargeRefunded,
      ChargeDisputed, StripeMoves, BeginCheckout, HandlerStep, CreateSession, AttachSession,
      LookupOrder, RetrieveSession, BindPayment, RetrievePayment, RetrieveCharge, RetrieveBalance,
      ReadStep, EmitFailed, EmitCaptured, EmitAvailable, EmitDisputed, EmitRefundPending,
      EmitRefunded, Emit, RecordReconciliation, StripeFails, HandlerDies

LEMMA ToldInit == StripeInit => ToldInv
<1> SUFFICES ASSUME StripeInit PROVE ToldInv
  OBVIOUS
<1>1. ASSUME NEW h \in Handlers PROVE Truthful(handlers[h])
  <2>1. handlers[h].pc = "idle"
    BY DEF StripeInit, Idle, Fresh
  <2>2. QED
    BY <2>1 DEF Truthful, Reading, AfterCharge, AfterBalance, Emissions
<1>2. \A w \in Webhooks : webhook_events[w].status = "absent"
  BY DEF StripeInit
<1>3. \A i \in EventIds : provider_events[i].event = None
  BY DEF StripeInit, Init, NoEvent
<1>4. QED
  BY <1>1, <1>2, <1>3 DEF ToldInv

LEMMA ToldNext == StripeInv /\ TruthInv /\ ToldInv /\ [StripeNext]_stripeVars => ToldInv'
<1> SUFFICES ASSUME StripeInv, TruthInv, ToldInv, [StripeNext]_stripeVars PROVE ToldInv'
  OBVIOUS
<1>1. StripeGoesOn
  BY StripeStepGoesOn DEF TruthInv
<1>2. HandlersTruthful'
  BY <1>1, HandlersStayTruthful
<1>3. \A w \in Webhooks : webhook_events'[w].status = "processed" => Effected(w)'
  BY <1>1, ProcessedStayEffected
<1>4. \A i \in EventIds : provider_events'[i].status = "absent" => provider_events'[i].event = None
  BY StepKeepsTold
<1>5. (\A w \in Webhooks : webhook_events[w].status = "processed" => Effected(w))'
  BY <1>3
<1>6. QED
  BY <1>2, <1>4, <1>5 DEF ToldInv, HandlersTruthful

(* What a handler knows is right because it works on what it was sent for, *)
(* and it can tell only what it knows: both are kept together.             *)
LEMMA HandlersTruthfulAndRight == StripeSpec => [](TruthInv /\ ToldInv)
<1>1. StripeInit => TruthInv /\ ToldInv
  BY TruthInit, ToldInit
<1>2. ToldInv => HandlersTruthful
  BY DEF ToldInv, HandlersTruthful
<1>3. StripeInv /\ (TruthInv /\ ToldInv) /\ [StripeNext]_stripeVars => (TruthInv /\ ToldInv)'
  BY <1>2, TruthNext, ToldNext
<1>4. QED
  BY <1>1, <1>3, StripeInvariant, PTL DEF StripeSpec

(* What handlers know and have told is true: of what Stripe once answered  *)
(* nothing is ever taken back (stripe_payments.py:488 reconcile_order).    *)
THEOREM HandlersTellTheTruth == StripeSpec => []TruthInv
BY HandlersTruthfulAndRight, PTL

(* A handler has told the store everything it has passed, and a webhook    *)
(* that was marked processed was processed by one that had                 *)
(* (stripe_payments.py:488 reconcile_order, :812 _finish_webhook).         *)
THEOREM HandlersTellEverything == StripeSpec => []ToldInv
BY HandlersTruthfulAndRight, PTL

(* The store never says more than Stripe does, however old the objects are *)
(* that a handler decided on (stripe_payments.py:488 reconcile_order).     *)
THEOREM StoreStaysBehind == StripeSpec => []StoreNeverAhead
<1>1. StripeInv /\ TruthInv /\ StoreFollows => StoreNeverAhead
  <2> SUFFICES ASSUME StripeInv, TruthInv, StoreFollows, NEW o \in OrderIds,
                      NEW status, status = orders[o].payment_status
               PROVE  /\ status \in PaidStates => Paid(o)
                      /\ status = "failed" => stripe[o].declined
                      /\ status = "available" => stripe[o].balance = "available"
                      /\ status \in {"refund_pending", "refunded"} => stripe[o].refunded = "full"
                      /\ status = "disputed" => stripe[o].disputed
    BY DEF StoreNeverAhead
  <2>1. Sane(stripe[o])
    BY DEF TruthInv
  <2>2. status # "pending" => Happened(stripe[o], status)
    BY ReportedHappened
  <2>3. QED
    BY <2>1, <2>2 DEF Happened, Sane, Paid, PaidStates
<1>2. QED
  BY <1>1, StripeInvariant, HandlersTellTheTruth, StripeUsesStore, EventsAreFollowed, PTL

(* An order is past what the store was told of it, or can no longer go     *)
(* there.                                                                  *)
LEMMA ToldWasHeard ==
    ASSUME StripeInv, TruthInv, StoreFollows, NEW o \in OrderIds, NEW type \in EventTypes,
           Told(o, type)
    PROVE  LET status == orders[o].payment_status IN
           status \in After(type) \/ (status # type /\ ~AllowedPayment(status, type))
<1> DEFINE i == EventIdOf[<<o, type>>]
           row == orders[o]
<1>1. i \in EventIds /\ PaymentOf[o] # None
  BY StripeAssumption, NoneAssumption DEF PaymentIds
<1>2. PICK t \in 0 .. MaxTime : provider_events[i].event = Emitted(o, type, t)
  BY DEF Told
<1>3. /\ provider_events[i].status # "absent" /\ provider_events[i].event.payment = PaymentOf[o]
      /\ provider_events[i].event.amount = QuotedAmount /\ provider_events[i].event.type = type
  BY <1>2 DEF Told, Emitted
<1> HIDE DEF i
<1>4. PICK p \in Placed : orders[p].payment = PaymentOf[o]
  BY <1>1, <1>3 DEF StripeInv, StoreInv, EventsInv, EventsBound
<1>5. p = o
  <2>1. p \in OrderIds
    BY DEF Placed
  <2>2. orders[p].payment = PaymentOf[p]
    BY <1>1, <1>4, <2>1 DEF TruthInv, PaymentsOwn
  <2>3. QED
    BY <1>4, <2>1, <2>2, StripeAssumption
<1>6. row \in OrderRow /\ RowCoherent(row) /\ row.payment # None
  BY <1>1, <1>4, <1>5 DEF StripeInv, StoreInv, TypeOK, RowsInv, StatusCoherent
<1>7. Follows(row, provider_events) /\ i \in EventsOf(provider_events, row.payment)
  BY <1>1, <1>3, <1>4, <1>5 DEF StoreFollows, EventsOf
<1> HIDE DEF row
<1>8. QED
  BY <1>3, <1>6, <1>7, WaitingIsRefused DEF row

(* What the store has been told, the payment has got past.                 *)
LEMMA EffectTaken ==
    ASSUME StripeInv, TruthInv, StoreFollows, NEW w \in Webhooks, Effected(w)
    PROVE  \/ orders[w.order].payment_status \in Announced(w)
           \/ orders[w.order].payment_status = "failed" /\ stripe[w.order].declined
<1>1. PICK o \in OrderIds, status \in PaymentStatus :
         o = w.order /\ status = orders[o].payment_status
  BY DEF Effected, StripeInv, StoreInv, TypeOK, OrderRow
<1>2. status = "failed" => stripe[o].declined
  BY <1>1, ReportedHappened DEF Happened
<1>3. ASSUME NEW type \in EventTypes, Told(o, type)
      PROVE  status \in After(type) \/ (status # type /\ ~AllowedPayment(status, type))
  BY <1>1, <1>3, ToldWasHeard
<1>4. {"captured", "disputed", "refund_pending", "refunded"} \subseteq EventTypes
  BY DEF EventTypes, PaymentStatus
<1>5. CASE w.type \in DeclineTypes
  BY <1>1, <1>5 DEF Announced, DeclineTypes, PaidStates, PaymentStatus
<1>6. CASE w.type \notin DeclineTypes
  <2>1. status \in PaidStates \cup {"failed"}
    <3>1. Told(o, "captured")
      BY <1>1, <1>6 DEF Effected
    <3>2. status \in PaidStatus \/ status # "pending"
      BY <1>3, <1>4, <3>1 DEF After, AllowedPayment, PAYMENT_TRANSITIONS
    <3>3. QED
      BY <3>2 DEF PaidStates, PaidStatus, PaymentStatus
  <2>2. ASSUME Reversed(o), status # "failed" PROVE status \in {"disputed", "refunded"}
    <3>1. CASE Told(o, "disputed")
      <4>1. status = "disputed" \/ ~AllowedPayment(status, "disputed")
        BY <1>3, <1>4, <3>1 DEF After
      <4>2. QED
        BY <2>1, <2>2, <4>1 DEF PaidStates, AllowedPayment, PAYMENT_TRANSITIONS
    <3>2. CASE Told(o, "refund_pending") /\ Told(o, "refunded")
      <4>1. status \in {"refund_pending", "refunded", "disputed"}
              \/ ~AllowedPayment(status, "refund_pending")
        BY <1>3, <1>4, <3>2 DEF After
      <4>2. status = "refunded" \/ ~AllowedPayment(status, "refunded")
        BY <1>3, <1>4, <3>2 DEF After
      <4>3. QED
        BY <2>1, <2>2, <4>1, <4>2 DEF PaidStates, AllowedPayment, PAYMENT_TRANSITIONS
    <3>3. QED
      BY <2>2, <3>1, <3>2 DEF Reversed
  <2>3. CASE w.type \in DisputeTypes \cup {"charge.refunded"}
    <3>1. Reversed(o)
      BY <1>1, <2>3 DEF Effected
    <3>2. QED
      BY <1>1, <1>2, <2>2, <2>3, <3>1 DEF Announced, DisputeTypes
  <2>4. CASE w.type \notin DisputeTypes \cup {"charge.refunded"}
    BY <1>1, <1>2, <1>6, <2>1, <2>4 DEF Announced, DisputeTypes, DeclineTypes
  <2>5. QED
    BY <2>3, <2>4
<1>7. QED
  BY <1>5, <1>6

(* A webhook marked processed has had its effect: whichever handlers worked *)
(* on it, died on it or overtook each other, the order's payment has moved  *)
(* at least to what the webhook announced, or a decline had closed the      *)
(* order first (stripe_payments.py:488 reconcile_order).                    *)
THEOREM ProcessedWebhooksTookEffect == StripeSpec => []ProcessedHasEffect
<1>1. StripeInv /\ TruthInv /\ ToldInv /\ StoreFollows => ProcessedHasEffect
  BY EffectTaken DEF ToldInv, ProcessedHasEffect
<1>2. QED
  BY <1>1, StripeInvariant, HandlersTellTheTruth, HandlersTellEverything, StripeUsesStore,
     EventsAreFollowed, PTL
===============================================================================
