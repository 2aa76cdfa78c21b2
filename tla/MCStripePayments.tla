--------------------------- MODULE MCStripePayments ---------------------------
(***************************************************************************)
(* One order and its Stripe objects, for TLC.                              *)
(***************************************************************************)
EXTENDS StripePayments, TLC

CONSTANTS q1, k1, b1, r1, s1, p1, h1, h2

o1 == <<q1, k1, b1>>

Hook(name, type, order) == [name |-> name, type |-> type, order |-> order]

MCHooks ==
    { Hook(1, "payment_intent.payment_failed", o1), Hook(2, "charge.refunded", o1) }
MCPaidHooks ==
    { Hook(1, "checkout.session.completed", o1), Hook(2, "customer.created", None) }
MCDisputeHooks ==
    { Hook(1, "charge.dispute.created", o1), Hook(2, "charge.dispute.closed", o1) }
MCDeclineHooks ==
    { Hook(1, "payment_intent.payment_failed", o1), Hook(2, "checkout.session.completed", o1) }

SymHandlers == Permutations({h1, h2})

MCMaxPrice   == (r1 :> 2)
MCTTL        == ("fake" :> 1) @@ ("stripe" :> 1)
MCCheckoutOf == (o1 :> s1)
MCPaymentOf  == (o1 :> p1)
MCEventIdOf  ==
    (<<o1, "captured">> :> 1) @@ (<<o1, "available">> :> 2) @@ (<<o1, "failed">> :> 3)
      @@ (<<o1, "refund_pending">> :> 4) @@ (<<o1, "refunded">> :> 5) @@ (<<o1, "disputed">> :> 6)
MCFeed == { Emitted(o1, type, t) : type \in EventTypes, t \in 0 .. MaxTime }
===============================================================================
