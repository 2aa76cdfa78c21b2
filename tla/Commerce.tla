------------------------------- MODULE Commerce -------------------------------
(***************************************************************************)
(* The status vocabulary of commerce.py: what an order and its payment can *)
(* be, and the moves each of the two is allowed to make.  The two          *)
(* dimensions are separate columns of one row and only the store ties them *)
(* together (see CommerceStore).                                           *)
(***************************************************************************)

OrderStatus ==
    {"checkout_pending", "payment_pending", "queued", "running", "delivered",
     "payment_failed", "fulfillment_failed", "cancelled"}

PaymentStatus ==
    {"pending", "captured", "available", "refund_pending", "refunded",
     "disputed", "failed"}

ORDER_TRANSITIONS ==
    { <<"checkout_pending", "payment_pending">>, <<"checkout_pending", "cancelled">>,
      <<"payment_pending", "queued">>, <<"payment_pending", "payment_failed">>,
      <<"payment_pending", "cancelled">>,
      <<"queued", "running">>, <<"queued", "fulfillment_failed">>,
      <<"running", "delivered">>, <<"running", "fulfillment_failed">> }

PAYMENT_TRANSITIONS ==
    { <<"pending", "captured">>, <<"pending", "failed">>,
      <<"captured", "available">>, <<"captured", "refund_pending">>,
      <<"captured", "disputed">>,
      <<"available", "refund_pending">>, <<"available", "disputed">>,
      <<"refund_pending", "refunded">>, <<"refund_pending", "disputed">> }

\* mutants: the table is not consulted / a dispute and a refund can follow each other
AllowedOrder_Any(current, target) == {current, target} \subseteq OrderStatus
AllowedPayment_Reopens(current, target) ==
    <<current, target>> \in PAYMENT_TRANSITIONS
                              \cup {<<"refunded", "disputed">>, <<"disputed", "refunded">>}

(* require_transition raises unless the pair is in the table of its type.  *)
AllowedOrder(current, target)   == <<current, target>> \in ORDER_TRANSITIONS
AllowedPayment(current, target) == <<current, target>> \in PAYMENT_TRANSITIONS

(* The six provider event types, named by the payment status they aim at.  *)
EventTypes == PaymentStatus \ {"pending"}
===============================================================================
