---------------------------- MODULE MCCommerceApi ----------------------------
(***************************************************************************)
(* Two tenants, the first with two quotes it may order, for TLC.           *)
(***************************************************************************)
EXTENDS CommerceApi, TLC

CONSTANTS t1, t2, a, b, r1, h1, h2

MCQuoteIds == {<<t1, a>>, <<t1, b>>}
MCKeys     == {<<t1, a>>, <<t1, b>>, <<t2, a>>}
MCFakeIds  == OrderIds
MCPaymentId == [o \in OrderIds |-> o]

First  == <<<<t1, a>>, <<t1, a>>, t1>>

(* t1 asks for two quotes and orders both; t2 tries the first; t1 uses the   *)
(* first order's token before and after it was rotated or revoked.          *)
Quote(k, r, t, n) == [op |-> "quote", tenant |-> t, api_key |-> n, key |-> k, request |-> r]
Order(k, t, n)    == [op |-> "order", tenant |-> t, api_key |-> n, key |-> k, quote |-> <<t1, k>>]
Token(op, t, n, v) == [op |-> op, tenant |-> t, api_key |-> n, order |-> First, token |-> v]
MCCalls ==
    { Quote(a, r1, t1, 1), Quote(b, r1, t1, 1),
      Order(a, t1, 1), Order(b, t1, 1), Order(a, t2, 1),
      Token("rotate", t1, 1, 1), Token("revoke", t1, 1, 1),
      Token("result", t1, 1, 1) }

Symmetry == Permutations({h1, h2})

MCMaxPrice == (r1 :> 1)
MCTTL      == ("fake" :> 1) @@ ("stripe" :> 1)
===============================================================================
