----------------------- MODULE CommerceStoreProperties -----------------------
(***************************************************************************)
(* What must hold of CommerceStore.  Each property is stated per order     *)
(* first, so that the proofs can follow one row through the reconcile loop.*)
(***************************************************************************)
EXTENDS CommerceStore

PaidStatus == {"captured", "available", "refund_pending", "refunded", "disputed"}
WorkStatus == {"queued", "running", "delivered", "fulfillment_failed"}

RowCoherent(row) ==
    /\ row.payment_status = "pending" <=>
         row.order_status \in {"absent", "checkout_pending", "payment_pending"}
    /\ row.payment_status = "failed" <=> row.order_status = "payment_failed"
    /\ row.payment_status \in PaidStatus <=> row.order_status \in WorkStatus
    /\ row.checkout = None <=> row.order_status \in {"absent", "checkout_pending"}
    /\ row.payment # None => row.checkout # None
    /\ row.order_status \in {"absent", "checkout_pending"} => row.payment = None
    /\ row.payment_status # "pending" => row.payment # None

(* The two status columns of a row never disagree: an order is in work      *)
(* exactly when its payment was captured, and void exactly when it failed,  *)
(* although payment events, checkout calls and fulfilment calls arrive in   *)
(* any order (commerce_store.py:771 _reconcile_payment and :884             *)
(* _transition_order write the columns independently).                      *)
StatusCoherent == \A o \in OrderIds : RowCoherent(orders[o])

BookAgrees(row, book) ==
    /\ LET taken == IF row.payment_status \in PaidStatus THEN 1 ELSE 0 IN
       /\ row.collected = taken * QuotedAmount
       /\ book["gross_collected"] =
            [rows |-> taken, amount |-> row.collected, impact |-> row.collected]
       /\ book["processing_fee"] = [rows |-> taken, amount |-> row.fee, impact |-> -row.fee]
    /\ row.fee <= row.collected
    /\ LET returned == IF row.payment_status = "refunded" THEN 1 ELSE 0 IN
       /\ row.refunded = returned * QuotedAmount
       /\ book["refund"] = [rows |-> returned, amount |-> row.refunded, impact |-> -row.refunded]

CostsAgree(o) ==
    IF orders[o].costs_recorded
    THEN \E key \in CostKeys, sheet \in CostSheets :
           /\ \A r \in cost_records : r[1] = o <=> r = <<o, key, sheet>>
           /\ <<o, key, sheet>> \in cost_records
           /\ \A c \in CostCategories :
                financial_entries[o][c] =
                  [rows |-> 1, amount |-> sheet[c], impact |-> -sheet[c]]
    ELSE /\ \A r \in cost_records : r[1] # o
         /\ \A c \in CostCategories :
              financial_entries[o][c] = [rows |-> 0, amount |-> 0, impact |-> 0]

(* However often events and cost records are replayed or reordered, the     *)
(* ledger holds one gross and one fee row for money taken, one refund row   *)
(* for money returned, one row per category for the one cost record, and    *)
(* the order's own columns say the same amounts                             *)
(* (commerce_store.py:545 record_direct_costs, :935 _financial_entry).      *)
LedgerAgrees ==
    \A o \in OrderIds : BookAgrees(orders[o], financial_entries[o]) /\ CostsAgree(o)

(* Stored events of a payment. *)
EventsOf(log, payment) ==
    {i \in EventIds : log[i].status # "absent" /\ log[i].event.payment = payment}

(* No two provider events with different identifiers both take effect for   *)
(* the same payment and target: a provider that reports one capture or one  *)
(* refund under two event ids moves the money once                          *)
(* (commerce_store.py:806-821).                                             *)
EffectsAppliedOnce ==
    \A i, j \in EventIds :
        (/\ i # j
         /\ provider_events[i].status = "applied"
         /\ provider_events[j].status = "applied"
         /\ provider_events[i].event.payment = provider_events[j].event.payment)
        => provider_events[i].event.type # provider_events[j].event.type

(* The reconcile loop leaves nothing it could still act on, and no later    *)
(* call makes a waiting event applicable behind its back: an event is       *)
(* pending only because the payment's state refuses it                      *)
(* (commerce_store.py:771-876, the while made_progress loop).               *)
NothingLeftToReconcile ==
    \A o \in Placed : \A i \in EventsOf(provider_events, orders[o].payment) :
        provider_events[i].status = "pending" =>
            Verdict([row |-> orders[o]], provider_events[i].event) = "pending"

(* The furthest a payment can get with the matching events delivered so far,*)
(* when none of them reports a failure or a dispute.                        *)
Furthest(types) ==
    CASE "captured" \notin types -> "pending"
      [] {"captured", "refund_pending", "refunded"} \subseteq types -> "refunded"
      [] "captured" \in types /\ "refund_pending" \in types /\ "refunded" \notin types
           -> "refund_pending"
      [] "captured" \in types /\ "refund_pending" \notin types
           -> IF "available" \in types THEN "available" ELSE "captured"

(* Out-of-order delivery does not matter: whichever order the capture,      *)
(* availability and refund events of a payment arrive in, the payment ends  *)
(* where in-order delivery would have put it                                *)
(* (tests/test_commerce_store.py:117                                        *)
(* test_out_of_order_events_reconcile_and_duplicate_delivery_is_idempotent).*)
ReorderingConverges ==
    \A o \in Placed :
        LET stored == EventsOf(provider_events, orders[o].payment)
            types  == {provider_events[i].event.type :
                         i \in {j \in stored : provider_events[j].event.amount = QuotedAmount}}
        IN types \cap {"failed", "disputed"} = {}
             => orders[o].payment_status = Furthest(types)

Chained(moves, table, first, last) ==
    /\ moves = <<>> => last = first
    /\ moves # <<>> => moves[1][1] = first /\ moves[Len(moves)][2] = last
    /\ \A n \in 1 .. Len(moves) : moves[n] \in table
    /\ \A n \in 1 .. Len(moves) - 1 : moves[n][2] = moves[n + 1][1]

HistoryAgrees(row, history) ==
    /\ Chained(history.order, ORDER_TRANSITIONS \cup {<<"absent", "checkout_pending">>},
               "absent", row.order_status)
    /\ Chained(history.payment, PAYMENT_TRANSITIONS, "pending", row.payment_status)

(* The audit history replays to the row: each dimension is an unbroken      *)
(* chain of allowed moves that ends at the current status, including the    *)
(* order moves the payment side writes without require_transition           *)
(* (commerce_store.py:849-870, :918 _history).                              *)
HistoryReplays == \A o \in OrderIds : HistoryAgrees(orders[o], order_history[o])

(* A delivered order names evidence no other order was delivered with, was  *)
(* paid for and has its direct costs on record; an order not delivered      *)
(* names none (commerce_store.py:599 deliver).                              *)
DeliveryBacked ==
    \A o \in OrderIds :
        /\ orders[o].receipt # None <=> orders[o].order_status = "delivered"
        /\ orders[o].receipt # None =>
             /\ orders[o].collected = QuotedAmount
             /\ orders[o].costs_recorded
             /\ orders[o].delivery_status = "delivered"
             /\ \A other \in OrderIds \ {o} :
                  orders[other].receipt # None =>
                    orders[other].receipt[1] # orders[o].receipt[1]

(* One order per quote and per idempotency key, and a provider identity     *)
(* leads to one order: an event can never be charged to somebody else's     *)
(* (commerce_store.py:140-170, the UNIQUE columns, as the methods use them).*)
IdentitiesUnique ==
    \A o, other \in Placed :
        o # other =>
          /\ QuoteOf(o) # QuoteOf(other) /\ KeyOf(o) # KeyOf(other)
          /\ orders[o].checkout # None => orders[o].checkout # orders[other].checkout
          /\ orders[o].payment # None => orders[o].payment # orders[other].payment

RecordsFinal ==
    /\ \A i \in EventIds : provider_events[i].status # "absent" =>
         /\ provider_events'[i].event = provider_events[i].event
         /\ provider_events'[i].received_at = provider_events[i].received_at
         /\ provider_events[i].status # "pending" =>
              provider_events'[i].status = provider_events[i].status
    /\ \A o \in OrderIds :
         /\ orders[o].checkout # None => orders'[o].checkout = orders[o].checkout
         /\ orders[o].payment # None => orders'[o].payment = orders[o].payment
         /\ orders[o].receipt # None => orders'[o].receipt = orders[o].receipt
         /\ \A n \in 1 .. Len(order_history[o].order) :
              order_history'[o].order[n] = order_history[o].order[n]
         /\ \A n \in 1 .. Len(order_history[o].payment) :
              order_history'[o].payment[n] = order_history[o].payment[n]

(* Records other parts of the system rely on are never rewritten: a stored  *)
(* event keeps its payload, a settled event keeps its outcome, histories    *)
(* only grow, a bound checkout, payment or receipt stays bound              *)
(* (commerce_store.py:495, :407, :465, :599).                               *)
RecordsAreFinal == [][RecordsFinal]_vars

WorkOf(row) ==
    CASE row.order_status = "absent" -> "none"
      [] row.order_status \in {"checkout_pending", "payment_pending"} -> "unpaid"
      [] row.order_status = "queued" -> "ready"
      [] row.order_status = "running" -> "started"
      [] row.order_status = "delivered" -> "delivered"
      [] row.order_status = "fulfillment_failed" -> "abandoned"
      [] row.order_status \in {"payment_failed", "cancelled"} -> "void"

FundsOf(row) ==
    CASE row.payment_status \in {"pending", "failed"} -> "none"
      [] row.payment_status \in {"captured", "available", "refund_pending"} -> "held"
      [] row.payment_status = "refunded" -> "returned"
      [] row.payment_status = "disputed" -> "contested"

Contract == INSTANCE OrderContract
              WITH Orders   <- OrderIds,
                   contract <- [o \in OrderIds |-> [work  |-> WorkOf(orders[o]),
                                                    funds |-> FundsOf(orders[o])]]

(* The store keeps the promise of OrderContract: every transaction is one   *)
(* of its steps on one order, or changes nothing the buyer was promised     *)
(* (docs/payment-flow.md:55 "Independent state dimensions").                *)
KeepsContract == Contract!ContractSpec
===============================================================================
