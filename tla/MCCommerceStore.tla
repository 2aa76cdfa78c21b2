--------------------------- MODULE MCCommerceStore ---------------------------
(***************************************************************************)
(* Small instances of CommerceStore for TLC.                               *)
(***************************************************************************)
EXTENDS CommerceStoreProperties, TLC

CONSTANTS q1, q2, k1, k2, b1, b2, r1, r2, f1, s1, s2, p1, p2, rc1, rc2, d1

Ev(id, type, payment, amount, fee) ==
    [id |-> id, type |-> type, payment |-> payment, amount |-> amount, fee |-> fee,
     provider |-> IF payment = f1 THEN "fake" ELSE "stripe", occurred_at |-> 0]

MCMaxPrice == (r1 :> 2) @@ (r2 :> 1)

MCTTL == ("fake" :> 1) @@ ("stripe" :> 2)

(* Everything a provider reports about one payment, and the ways it can be *)
(* wrong: a capture or a refund repeated under another id, a capture with  *)
(* another fee, an amount that is not the quoted one, an id reused for     *)
(* different content.                                                      *)
MCFeedOnePayment ==
    { Ev(1, "captured", p1, 2, 1), Ev(2, "available", p1, 2, 0),
      Ev(3, "refund_pending", p1, 2, 0), Ev(4, "refunded", p1, 2, 0),
      Ev(5, "disputed", p1, 2, 0), Ev(6, "captured", p1, 2, 0),
      Ev(6, "refunded", p1, 2, 0), Ev(5, "failed", p1, 2, 0),
      Ev(2, "available", p1, 1, 0) }

MCFeedTwoPayments ==
    { Ev(1, "captured", p1, 2, 1), Ev(2, "refund_pending", p1, 2, 0),
      Ev(3, "captured", p2, 2, 0), Ev(4, "failed", p2, 2, 0), Ev(1, "captured", f1, 2, 1) }

MCOneCost == { [c \in {"compute"} |-> 1] }

MCCosts == { [c \in {"compute"} |-> 1], [c \in {"compute"} |-> 0] }
===============================================================================
