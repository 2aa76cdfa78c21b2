---------------------------- MODULE MCFulfillment ----------------------------
(***************************************************************************)
(* Two sandbox orders and two coordinators, for TLC.                       *)
(***************************************************************************)
EXTENDS Fulfillment, TLC

CONSTANTS q1, q2, k1, k2, b1, r1, f1, f2, rc1, rc2, d1, c1, c2

Ev(id, type, payment) ==
    [id |-> id, type |-> type, payment |-> payment, amount |-> 2, fee |-> 0,
     provider |-> "fake", occurred_at |-> 0]

MCFeed == { Ev(1, "captured", f1), Ev(2, "captured", f2) }

MCFakePaymentId == [o \in OrderIds |-> IF o[1] = q1 THEN f1 ELSE f2]

(* The keys may be exchanged: one order of each quote is enough. *)
KeyOfQuote == \A o \in Placed : o[1] = q1 <=> o[2] = k1

MCMaxPrice == (r1 :> 2)
MCTTL      == ("fake" :> 1) @@ ("stripe" :> 1)
MCCosts    == { [c \in {"compute"} |-> 1] }
===============================================================================
