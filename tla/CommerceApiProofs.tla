-------------------------- MODULE CommerceApiProofs --------------------------
(***************************************************************************)
(* The HTTP boundary for every number of tenants, requests and threads:    *)
(* what its requests do to the store are calls of the store, no tenant is  *)
(* served another's order, quotas hold, retired credentials stay out, and  *)
(* a request that stopped half way can be repeated.                        *)
(***************************************************************************)
EXTENDS CommerceApi, CommerceStoreProofs

-------------------------------------------------------------------------------
(* The inductive invariant *)

(* A tenant that was never provisioned has no key. *)
TenantsKnown == \A t \in Tenants : tenants[t].state = "absent" => tenants[t].api_key = 0

(* Payment is the fake provider's alone: an order waits for its checkout, or *)
(* has the one FakePaymentProvider derives from it.                         *)
FakeOrder(o) ==
    /\ orders[o].provider = "fake"
    /\ \/ /\ orders[o].checkout = None /\ orders[o].payment = None
          /\ orders[o].order_status = "checkout_pending"
       \/ /\ orders[o].checkout = FakePaymentId[o] /\ orders[o].payment = FakePaymentId[o]
          /\ orders[o].order_status = "payment_pending"

FakeOnly ==
    /\ \A q \in QuoteIds : quotes[q] # None => quotes[q].provider = "fake"
    /\ \A o \in Placed : FakeOrder(o)

(* The quotas, of sets that are finite whatever QuoteIds and OrderIds are. *)
QuotasKept ==
    \A t \in Tenants : /\ IsFiniteSet(BoundQuotes(t)) /\ Cardinality(BoundQuotes(t)) <= MaxQuotes
                       /\ IsFiniteSet(BoundOrders(t)) /\ Cardinality(BoundOrders(t)) <= MaxOrders

Ordered(t, q) == \E o \in BoundOrders(t) : order_bindings[o].quote = q

(* Every step is taken by the requests that take it. *)
OnItsWay(th) ==
    /\ threads[th].pc \in {"create", "store", "bind"} => CallOf(th).op \in {"quote", "order"}
    /\ threads[th].pc \in {"authorize_quote", "checkout"} => CallOf(th).op = "order"
    /\ At(th, "confirm") => CallOf(th).op \in {"order", "rotate"}
    /\ At(th, "rotate") => CallOf(th).op = "rotate"
    /\ At(th, "revoke") => CallOf(th).op = "revoke"
    /\ threads[th].pc \in {"authorize", "authorize_result", "read"} =>
         CallOf(th).op \in {"status", "result", "rotate", "revoke"}

(* Credentials are never of a later date than what is on file, and the clock *)
(* a request has read never runs ahead.                                     *)
Dated(th) == /\ threads[th].at <= now
             /\ ~At(th, "idle") => Issued(CallOf(th))

(* What was retired on arrival can no longer pass the tests still to come. *)
Entitled(th) ==
    /\ At(th, "authenticate") /\ Live(CallOf(th)) => threads[th].live
    /\ At(th, "authorize") =>
         /\ tenants[TenantOf(th)].state # "absent"
         /\ Authorizes(TenantOf(th), CallOf(th).order, CallOf(th).token, threads[th].at)
              => threads[th].live
    /\ threads[th].pc \in {"authorize_quote", "create", "read", "authorize_result", "rotate", "revoke"}
         => threads[th].live

(* A creation past its first test has a quote to order and room to do so. *)
Creating(th) ==
    /\ threads[th].pc \in {"create", "store", "bind"} /\ CallOf(th).op = "order" =>
         CallOf(th).quote \in BoundQuotes(TenantOf(th))
    /\ threads[th].pc \in {"store", "bind"} =>
         IF CallOf(th).op = "quote"
         THEN \/ QuoteFor(CallOf(th)) \in BoundQuotes(TenantOf(th))
              \/ Cardinality(BoundQuotes(TenantOf(th))) < MaxQuotes
         ELSE \/ Ordered(TenantOf(th), CallOf(th).quote)
              \/ Cardinality(BoundOrders(TenantOf(th))) < MaxOrders

ThreadOK(th) == OnItsWay(th) /\ Dated(th) /\ Entitled(th) /\ Creating(th)

ThreadsOK == \A th \in Threads : ThreadOK(th)

TablesOK == StoreInv /\ TenantsKnown /\ BindingsAgree /\ FakeOnly /\ QuotasKept

ApiInv == ApiTypeOK /\ TablesOK /\ ThreadsOK

-------------------------------------------------------------------------------
(* Requests *)

LEMMA CallKinds ==
    ASSUME NEW call \in Calls
    PROVE  /\ call.tenant \in Tenants /\ call.api_key \in Nat
           /\ call.op \in {"quote", "order", "status", "result", "rotate", "revoke"}
           /\ call.op = "quote" => call \in QuoteCall /\ QuoteFor(call) \in QuoteIds
           /\ call.op = "order" => call \in OrderCall /\ OrderFor(call) \in OrderIds
           /\ call.op \in {"status", "result", "rotate", "revoke"} <=> call \in TokenCall
<1>1. call \in QuoteCall \/ call \in OrderCall \/ call \in TokenCall
  BY ApiAssumption
<1>2. CASE call \in QuoteCall
  BY <1>2, ApiAssumption DEF QuoteCall, TokenCall
<1>3. CASE call \in OrderCall
  BY <1>3, ApiAssumption DEF OrderCall, TokenCall
<1>4. CASE call \in TokenCall
  BY <1>4 DEF TokenCall
<1>5. QED
  BY <1>1, <1>2, <1>3, <1>4

(* The order a request places is its quote's, under its own name and key. *)
LEMMA OrderPlaced ==
    ASSUME NEW call \in Calls, call.op = "order"
    PROVE  /\ OrderFor(call) = <<call.quote, <<call.tenant, call.key>>, call.tenant>>
           /\ call.quote \in QuoteIds /\ <<call.tenant, call.key>> \in Keys
           /\ call.tenant \in Buyers
           /\ QuoteOf(OrderFor(call)) = call.quote
           /\ KeyOf(OrderFor(call)) = <<call.tenant, call.key>>
           /\ OrderFor(call)[3] = call.tenant
<1>1. call \notin TokenCall /\ OrderFor(call) \in OrderIds
  BY CallKinds DEF TokenCall
<1>2. OrderFor(call) = <<call.quote, <<call.tenant, call.key>>, call.tenant>>
  BY <1>1 DEF OrderFor
<1>3. call.quote \in QuoteIds /\ <<call.tenant, call.key>> \in Keys /\ call.tenant \in Buyers
  BY <1>1, <1>2 DEF OrderIds
<1>4. QED
  BY <1>2, <1>3 DEF QuoteOf, KeyOf

LEMMA RequestOf ==
    ASSUME ApiTypeOK, NEW th \in Threads, ~At(th, "idle")
    PROVE  /\ CallOf(th) \in Calls /\ threads[th].at \in Nat /\ threads[th].token \in Nat
           /\ threads[th].live \in BOOLEAN
           /\ threads[th] = [pc |-> threads[th].pc, call |-> CallOf(th), at |-> threads[th].at,
                             token |-> threads[th].token, live |-> threads[th].live]
<1>1. threads[th] \in Thread
  BY DEF ApiTypeOK
<1>2. threads[th] # Idle
  BY DEF At, Idle
<1>3. QED
  BY <1>1, <1>2 DEF Thread, CallOf

-------------------------------------------------------------------------------
(* Requests and the store *)

LEMMA StoreQuoteIsCall ==
    ASSUME ApiInv, NEW th \in Threads, StoreQuote(th)
    PROVE  [Next]_vars
<1> DEFINE call == CallOf(th)
           at   == threads[th].at
<1>1. call \in Calls /\ at \in 0 .. now
  <2>1. ~At(th, "idle") /\ Dated(th)
    BY DEF StoreQuote, At, ApiInv, ThreadsOK, ThreadOK
  <2>2. now \in Nat
    BY DEF ApiInv, TablesOK, StoreInv, TypeOK
  <2>3. call \in Calls /\ at \in Nat
    BY <2>1, RequestOf DEF ApiInv
  <2>4. QED
    BY <2>1, <2>2, <2>3 DEF Dated
<1>2. call.request \in Requests /\ QuoteFor(call) \in QuoteIds
  BY <1>1, CallKinds DEF StoreQuote, QuoteCall
<1>3. CreateQuote(QuoteFor(call), call.request, "fake", at) => Next
  BY <1>1, <1>2 DEF Next, Providers
<1>4. QED
  BY <1>3 DEF StoreQuote, Leave

LEMMA StoreOrderIsCall ==
    ASSUME ApiInv, NEW th \in Threads, StoreOrder(th)
    PROVE  [Next]_vars
<1> DEFINE call == CallOf(th)
           at   == threads[th].at
<1>1. call \in Calls /\ at \in 0 .. now
  <2>1. ~At(th, "idle") /\ Dated(th)
    BY DEF StoreOrder, At, ApiInv, ThreadsOK, ThreadOK
  <2>2. now \in Nat
    BY DEF ApiInv, TablesOK, StoreInv, TypeOK
  <2>3. call \in Calls /\ at \in Nat
    BY <2>1, RequestOf DEF ApiInv
  <2>4. QED
    BY <2>1, <2>2, <2>3 DEF Dated
<1>2. call.op = "order"
  BY DEF StoreOrder
<1>3. call.quote \in QuoteIds /\ <<call.tenant, call.key>> \in Keys /\ call.tenant \in Buyers
  BY <1>1, <1>2, OrderPlaced
<1>4. CreateOrder(call.quote, <<call.tenant, call.key>>, call.tenant, at) => Next
  BY <1>1, <1>3 DEF Next
<1>5. QED
  BY <1>4 DEF StoreOrder, Leave

(* The checkout the fake provider makes is an identifier of its own. *)
LEMMA FakeIsFake ==
    ASSUME NEW o \in OrderIds
    PROVE  /\ FakePaymentId[o] \in FakeIds /\ FakePaymentId[o] # None
           /\ FakePaymentId[o] \in CheckoutIds /\ FakePaymentId[o] \in PaymentIds
           /\ FakePaymentId[o] \notin StripeCheckouts
           /\ \A other \in OrderIds : FakePaymentId[other] = FakePaymentId[o] => other = o
  BY ApiAssumption, NoneAssumption DEF CheckoutIds, PaymentIds

LEMMA OrderInHand ==
    ASSUME ApiInv, NEW th \in Threads, ~At(th, "idle"), CallOf(th).op # "quote"
    PROVE  OrderFor(CallOf(th)) \in OrderIds
<1>1. CallOf(th) \in Calls
  BY RequestOf DEF ApiInv
<1>2. QED
  BY <1>1, ApiAssumption

LEMMA CheckoutIsCall ==
    ASSUME ApiInv, NEW th \in Threads, Checkout(th)
    PROVE  [Next]_vars
<1> DEFINE o == OrderFor(CallOf(th))
<1>1. CallOf(th).op = "order"
  BY DEF Checkout, At, ApiInv, ThreadsOK, ThreadOK, OnItsWay
<1>2. o \in OrderIds
  BY <1>1, OrderInHand DEF Checkout, At
<1>3. AttachCheckout(o, FakePaymentId[o], FakePaymentId[o]) => Next
  BY <1>2, FakeIsFake DEF Next
<1>4. QED
  BY <1>3 DEF Checkout

LEMMA StepIsStoreStep ==
    ASSUME ApiInv, [ApiNext]_apiVars
    PROVE  [Next]_vars
<1>1. ASSUME NEW th \in Threads, NEW call \in Calls, Receive(th, call) PROVE UNCHANGED vars
  BY <1>1 DEF Receive
<1>2. ASSUME NEW th \in Threads, RunRequest(th) PROVE [Next]_vars
  <2>1. CASE StoreQuote(th)
    BY <2>1, StoreQuoteIsCall
  <2>2. CASE StoreOrder(th)
    BY <2>2, StoreOrderIsCall
  <2>3. CASE Checkout(th)
    BY <2>3, CheckoutIsCall
  <2>4. CASE \/ Authenticate(th) \/ AuthorizeQuote(th) \/ EnterCreation(th)
             \/ Confirm(th) \/ Authorize(th) \/ AuthorizeResult(th) \/ Read(th)
    BY <2>4 DEF Authenticate, AuthorizeQuote, EnterCreation, Confirm, Authorize,
                AuthorizeResult, Read, Check
  <2>5. CASE BindQuoteStep(th) \/ BindOrderStep(th) \/ Rotate(th) \/ Revoke(th)
    BY <2>5 DEF BindQuoteStep, BindOrderStep, Rotate, Revoke
  <2>6. QED
    BY <1>2, <2>1, <2>2, <2>3, <2>4, <2>5 DEF RunRequest
<1>3. ASSUME NEW t \in Tenants, Provision(t) \/ Intervene(t) PROVE UNCHANGED vars
  BY <1>3 DEF Provision, Intervene
<1>4. CASE Crash
  BY <1>4 DEF Crash
<1>5. CASE Tick /\ UNCHANGED <<accessVars, threadVars>>
  BY <1>5 DEF Next
<1>6. CASE UNCHANGED apiVars
  BY <1>6 DEF apiVars
<1>7. QED
  BY <1>1, <1>2, <1>3, <1>4, <1>5, <1>6 DEF ApiNext

-------------------------------------------------------------------------------
(* What every step does to credentials and owners *)

(* Keys and tokens are only replaced by later ones, and nothing that was    *)
(* revoked is restored.                                                     *)
KeysAge ==
    \A t \in Tenants :
        /\ tenants[t].api_key <= tenants'[t].api_key
        /\ tenants[t].state # "absent" => tenants'[t].state # "absent"
        /\ tenants'[t].state = "active" =>
             \/ tenants[t].state = "active"
             \/ tenants[t].state = "absent" /\ tenants[t].api_key < tenants'[t].api_key

TokensAge ==
    \A o \in OrderIds : order_bindings[o] # None =>
        /\ order_bindings'[o] # None
        /\ order_bindings'[o].tenant = order_bindings[o].tenant
        /\ order_bindings'[o].quote = order_bindings[o].quote
        /\ order_bindings[o].token <= order_bindings'[o].token
        /\ order_bindings'[o].token_state = "active" => order_bindings[o].token_state = "active"
        /\ order_bindings'[o].token = order_bindings[o].token =>
             order_bindings'[o].expires_at = order_bindings[o].expires_at

OwnersStay ==
    \A q \in QuoteIds : quote_bindings[q] # None => quote_bindings'[q] = quote_bindings[q]

AccessAges ==
    /\ KeysAge /\ TokensAge /\ OwnersStay
    /\ now' \in Nat /\ now <= now'

BindingTyped == \A o \in OrderIds : order_bindings[o] # None =>
    /\ order_bindings[o] \in OrderBinding /\ order_bindings[o].token \in Nat
    /\ order_bindings[o].expires_at \in Nat

LEMMA BindingTypes == AccessTypeOK => BindingTyped
  BY DEF AccessTypeOK, BindingTyped, OrderBinding

LEMMA TenantTypes ==
    ASSUME AccessTypeOK, NEW t \in Tenants
    PROVE  tenants[t] \in Tenant /\ tenants[t].api_key \in Nat
  BY DEF AccessTypeOK, Tenant

(* What was issued stays issued, and what could not open an order or pass   *)
(* for a tenant does not come to do so.                                     *)
LEMMA IssuedStays ==
    ASSUME AccessTypeOK, AccessTypeOK', AccessAges, NEW call \in Calls, Issued(call)
    PROVE  Issued(call)'
<1>1. call.tenant \in Tenants /\ call.api_key \in Nat
  BY CallKinds
<1>2. call.api_key <= tenants'[call.tenant].api_key
  <2>1. tenants[call.tenant].api_key \in Nat /\ tenants'[call.tenant].api_key \in Nat
    BY <1>1, TenantTypes DEF AccessTypeOK, Tenant
  <2>2. QED
    BY <1>1, <2>1 DEF Issued, AccessAges, KeysAge
<1>3. ASSUME call \in TokenCall
      PROVE  order_bindings'[call.order] # None /\ call.token <= order_bindings'[call.order].token
  <2>1. call.order \in OrderIds /\ call.token \in Nat /\ order_bindings[call.order] # None
    BY <1>3 DEF TokenCall, Issued
  <2>2. order_bindings'[call.order] # None
    BY <2>1 DEF AccessAges, TokensAge
  <2>3. order_bindings[call.order].token \in Nat /\ order_bindings'[call.order].token \in Nat
    BY <2>1, <2>2, BindingTypes DEF BindingTyped, AccessTypeOK, OrderBinding
  <2>4. QED
    BY <1>3, <2>1, <2>2, <2>3 DEF AccessAges, TokensAge, Issued
<1>4. QED
  BY <1>2, <1>3 DEF Issued

LEMMA NobodyAuthenticatesAnew ==
    ASSUME AccessTypeOK, AccessTypeOK', AccessAges, NEW t \in Tenants, NEW key \in Nat,
           key <= tenants[t].api_key, Authenticates(t, key)'
    PROVE  Authenticates(t, key)
<1>1. tenants[t].api_key \in Nat /\ tenants'[t].api_key \in Nat
  BY DEF AccessTypeOK, Tenant
<1>2. tenants'[t].state = "active" /\ tenants'[t].api_key = key
  BY DEF Authenticates, Active
<1>3. tenants[t].api_key = key
  BY <1>1, <1>2 DEF AccessAges, KeysAge
<1>4. QED
  BY <1>1, <1>2, <1>3 DEF AccessAges, KeysAge, Authenticates, Active

LEMMA NothingOpensAnew ==
    ASSUME AccessTypeOK, AccessTypeOK', AccessAges, NEW t \in Tenants, NEW o \in OrderIds,
           NEW token \in Nat, NEW at \in Nat, NEW later \in Nat, at <= later,
           tenants[t].state # "absent",
           order_bindings[o] # None, token <= order_bindings[o].token,
           Authorizes(t, o, token, later)'
    PROVE  Authorizes(t, o, token, at)
<1>1. order_bindings'[o] # None /\ order_bindings'[o].tenant = order_bindings[o].tenant
  BY DEF AccessAges, TokensAge
<1>2. /\ order_bindings[o].token \in Nat /\ order_bindings'[o].token \in Nat
      /\ order_bindings[o].expires_at \in Nat /\ order_bindings'[o].expires_at \in Nat
  BY <1>1 DEF AccessTypeOK, OrderBinding
<1>3. /\ tenants'[t].state = "active" /\ order_bindings'[o].tenant = t
      /\ order_bindings'[o].token_state = "active" /\ token = order_bindings'[o].token
      /\ later < order_bindings'[o].expires_at
  BY DEF Authorizes, Active, BoundOrders
<1>4. order_bindings[o].token = token
  BY <1>1, <1>2, <1>3 DEF AccessAges, TokensAge
<1>5. order_bindings[o].expires_at = order_bindings'[o].expires_at
  BY <1>3, <1>4 DEF AccessAges, TokensAge
<1>6. at < order_bindings[o].expires_at
  BY <1>2, <1>3, <1>5
<1>7. tenants[t].state = "active"
  BY <1>3 DEF AccessAges, KeysAge
<1>8. QED
  BY <1>1, <1>3, <1>4, <1>6, <1>7 DEF AccessAges, TokensAge, Authorizes, Active, BoundOrders

(* A request that waits while others move stays what it was: it would lose   *)
(* its room for a creation only to another creation.                        *)
SameCounts ==
    \A t \in Tenants : BoundQuotes(t)' = BoundQuotes(t) /\ BoundOrders(t)' = BoundOrders(t)

LEMMA EntitledStays ==
    ASSUME AccessTypeOK, AccessTypeOK', AccessAges, ApiTypeOK, NEW th \in Threads, now \in Nat,
           threads'[th] = threads[th], Dated(th), Entitled(th), OnItsWay(th)
    PROVE  Dated(th)' /\ Entitled(th)'
<1>1. CASE At(th, "idle")
  <2>1. threads[th].at \in Nat /\ now' \in Nat /\ now <= now'
    BY DEF AccessAges, ApiTypeOK, Thread, Idle
  <2>2. QED
    BY <1>1, <2>1 DEF At, Dated, Entitled
<1>2. CASE ~At(th, "idle")
  <2>1. PICK call \in Calls : call = CallOf(th)
    BY <1>2, RequestOf
  <2>2. CallOf(th)' = call /\ TenantOf(th) = call.tenant /\ TenantOf(th)' = call.tenant
    BY <2>1 DEF CallOf, TenantOf
  <2>3. PICK at \in Nat : at = threads[th].at
    BY <1>2, RequestOf
  <2>4. call.tenant \in Tenants /\ call.api_key \in Nat
    BY CallKinds
  <2>5. Issued(call) /\ at <= now /\ now' \in Nat /\ now <= now'
    BY <1>2, <2>1, <2>3 DEF Dated, AccessAges
  <2>6. Dated(th)'
    <3>1. Issued(call)'
      BY <2>5, IssuedStays
    <3>2. Issued(CallOf(th))'
      BY <2>1, <2>2, <3>1 DEF Issued
    <3>3. threads'[th].at <= now'
      BY <2>3, <2>5
    <3>4. QED
      BY <3>2, <3>3 DEF Dated
  <2>7. call.api_key <= tenants[call.tenant].api_key
    BY <2>5 DEF Issued
  <2>8. ASSUME call \in TokenCall
        PROVE  /\ call.order \in OrderIds /\ call.token \in Nat
               /\ order_bindings[call.order] # None
               /\ call.token <= order_bindings[call.order].token
    BY <2>5, <2>8 DEF TokenCall, Issued
  <2>9. ASSUME At(th, "authenticate"), Live(CallOf(th))' PROVE threads[th].live
    <3>1. Authenticates(call.tenant, call.api_key)'
      BY <2>2, <2>9 DEF Live, Authenticates, Active
    <3>2. Authenticates(call.tenant, call.api_key)
      BY <2>4, <2>7, <3>1, NobodyAuthenticatesAnew
    <3>3. tenants[call.tenant].state # "absent"
      BY <3>2 DEF Authenticates, Active
    <3>4. ASSUME call \in TokenCall
          PROVE  Authorizes(call.tenant, call.order, call.token, now)
      <4>1. PICK later \in Nat : later = now'
        BY <2>5
      <4>2. Authorizes(call.tenant, call.order, call.token, later)'
        BY <2>2, <2>9, <3>4, <4>1 DEF Live, Authorizes, Active, BoundOrders
      <4>3. PICK earlier \in Nat : earlier = now
        OBVIOUS
      <4>4. Authorizes(call.tenant, call.order, call.token, earlier)
        BY <2>4, <2>5, <2>8, <3>3, <3>4, <4>1, <4>2, <4>3, NothingOpensAnew
      <4>5. QED
        BY <4>3, <4>4
    <3>5. Live(CallOf(th))
      BY <2>1, <3>2, <3>4 DEF Live
    <3>6. QED
      BY <2>9, <3>5 DEF Entitled
  <2>10. ASSUME At(th, "authorize")
         PROVE  /\ tenants'[call.tenant].state # "absent"
                /\ Authorizes(TenantOf(th), CallOf(th).order, CallOf(th).token, threads[th].at)'
                     => threads[th].live
    <3>1. call \in TokenCall
      BY <2>1, <2>10, CallKinds DEF OnItsWay, At
    <3>2. tenants[call.tenant].state # "absent"
      BY <2>2, <2>10 DEF Entitled
    <3>3. tenants'[call.tenant].state # "absent"
      BY <2>4, <3>2 DEF AccessAges, KeysAge
    <3>4. ASSUME Authorizes(TenantOf(th), CallOf(th).order, CallOf(th).token, threads[th].at)'
          PROVE  threads[th].live
      <4>1. Authorizes(call.tenant, call.order, call.token, at)'
        BY <2>2, <2>3, <3>4 DEF Authorizes, Active, BoundOrders
      <4>2. Authorizes(call.tenant, call.order, call.token, at)
        BY <2>4, <2>8, <3>1, <3>2, <4>1, NothingOpensAnew
      <4>3. QED
        BY <2>1, <2>2, <2>3, <2>10, <4>2 DEF Entitled
    <3>5. QED
      BY <3>3, <3>4
  <2>11. Entitled(th)'
    <3>1. At(th, "authenticate") /\ Live(CallOf(th))' => threads'[th].live
      BY <2>9
    <3>2. At(th, "authorize") =>
            /\ tenants'[TenantOf(th)'].state # "absent"
            /\ Authorizes(TenantOf(th), CallOf(th).order, CallOf(th).token, threads[th].at)'
                 => threads'[th].live
      BY <2>2, <2>10
    <3>3. At(th, "authenticate")' = At(th, "authenticate") /\ At(th, "authorize")' = At(th, "authorize")
      BY DEF At
    <3>4. QED
      BY <3>1, <3>2, <3>3 DEF Entitled
  <2>12. QED
    BY <2>6, <2>11
<1>3. QED
  BY <1>1, <1>2

LEMMA OwnedStays ==
    ASSUME AccessAges, NEW t, NEW q \in BoundQuotes(t)
    PROVE  q \in BoundQuotes(t)'
  BY DEF AccessAges, OwnersStay, BoundQuotes

LEMMA OrderedStays ==
    ASSUME AccessAges, NEW t, NEW q, Ordered(t, q)
    PROVE  Ordered(t, q)'
  BY DEF AccessAges, TokensAge, Ordered, BoundOrders

LEMMA CreatingStays ==
    ASSUME AccessAges, ApiTypeOK, NEW th \in Threads, threads'[th] = threads[th],
           Creating(th), SameCounts \/ threads[th].pc \notin {"store", "bind"}
    PROVE  Creating(th)'
<1>1. CASE At(th, "idle")
  BY <1>1 DEF At, Creating
<1>2. CASE ~At(th, "idle")
  <2>1. PICK call \in Calls : call = CallOf(th)
    BY <1>2, RequestOf
  <2>2. CallOf(th)' = call /\ TenantOf(th) = call.tenant /\ TenantOf(th)' = call.tenant
    BY <2>1 DEF CallOf, TenantOf
  <2>3. call.tenant \in Tenants
    BY CallKinds
  <2>4. ASSUME threads[th].pc \in {"create", "store", "bind"}, call.op = "order"
        PROVE  call.quote \in BoundQuotes(call.tenant)'
    BY <2>1, <2>2, <2>4, OwnedStays DEF Creating
  <2>5. ASSUME threads[th].pc \in {"store", "bind"}, call.op = "quote"
        PROVE  \/ QuoteFor(call) \in BoundQuotes(call.tenant)'
               \/ Cardinality(BoundQuotes(call.tenant)') < MaxQuotes
    <3>1. SameCounts
      BY <2>5
    <3>2. \/ QuoteFor(call) \in BoundQuotes(call.tenant)
          \/ Cardinality(BoundQuotes(call.tenant)) < MaxQuotes
      BY <2>1, <2>2, <2>5 DEF Creating
    <3>3. QED
      BY <2>3, <3>1, <3>2 DEF SameCounts
  <2>6. ASSUME threads[th].pc \in {"store", "bind"}, call.op # "quote"
        PROVE  \/ Ordered(call.tenant, call.quote)'
               \/ Cardinality(BoundOrders(call.tenant)') < MaxOrders
    <3>1. SameCounts
      BY <2>6
    <3>2. \/ Ordered(call.tenant, call.quote)
          \/ Cardinality(BoundOrders(call.tenant)) < MaxOrders
      BY <2>1, <2>2, <2>6 DEF Creating
    <3>3. QED
      BY <2>3, <3>1, <3>2, OrderedStays DEF SameCounts
  <2>7. QED
    BY <2>2, <2>4, <2>5, <2>6 DEF Creating, QuoteFor, BoundQuotes, BoundOrders, Ordered
<1>3. QED
  BY <1>1, <1>2

LEMMA OthersStay ==
    ASSUME ApiInv, AccessTypeOK', AccessAges, NEW th \in Threads, threads'[th] = threads[th],
           SameCounts \/ threads[th].pc \notin {"store", "bind"}
    PROVE  ThreadOK(th)'
<1>1. AccessTypeOK /\ ApiTypeOK /\ now \in Nat
  BY DEF ApiInv, ApiTypeOK, TablesOK, StoreInv, TypeOK
<1>2. OnItsWay(th) /\ Dated(th) /\ Entitled(th) /\ Creating(th)
  BY DEF ApiInv, ThreadsOK, ThreadOK
<1>3. OnItsWay(th)'
  BY <1>2 DEF OnItsWay, At, CallOf
<1>4. Dated(th)' /\ Entitled(th)'
  BY <1>1, <1>2, EntitledStays
<1>5. Creating(th)'
  BY <1>1, <1>2, CreatingStays
<1>6. QED
  BY <1>3, <1>4, <1>5 DEF ThreadOK

(* Only the thread that leaves or enters the lock, or nobody, changes it. *)
LockMoves(th, pc) ==
    \/ UNCHANGED creation_lock /\ (pc \in {"store", "bind"} <=> creation_lock = th)
    \/ creation_lock = None /\ creation_lock' = th /\ pc \in {"store", "bind"}
    \/ creation_lock = th /\ creation_lock' = None /\ pc \notin {"store", "bind"}

LEMMA ThreadMoves ==
    ASSUME ApiInv, NEW th \in Threads, NEW x \in Thread, threads' = [threads EXCEPT ![th] = x],
           LockMoves(th, x.pc), UNCHANGED <<interventions, crashes>>,
           AccessTypeOK', AccessAges, TablesOK', ThreadOK(th)',
           SameCounts \/ creation_lock = th
    PROVE  ApiInv'
<1>1. /\ threads' \in [Threads -> Thread] /\ threads'[th] = x
      /\ \A other \in Threads \ {th} : threads'[other] = threads[other]
  BY DEF ApiInv, ApiTypeOK
<1>2. ApiTypeOK'
  <2>1. creation_lock' \in Threads \cup {None} /\ None \notin Threads
    BY ApiAssumption DEF LockMoves, ApiInv, ApiTypeOK
  <2>2. ASSUME NEW other \in Threads
        PROVE  threads'[other].pc \in {"store", "bind"} <=> creation_lock' = other
    <3>1. CASE other = th
      BY <1>1, <2>1, <3>1 DEF LockMoves
    <3>2. CASE other # th
      <4>1. threads[other].pc \in {"store", "bind"} <=> creation_lock = other
        BY DEF ApiInv, ApiTypeOK
      <4>2. QED
        BY <1>1, <2>1, <3>2, <4>1 DEF LockMoves
    <3>3. QED
      BY <3>1, <3>2
  <2>3. interventions' \in 0 .. MaxInterventions /\ crashes' \in 0 .. MaxCrashes
    BY DEF ApiInv, ApiTypeOK
  <2>4. QED
    BY <1>1, <2>1, <2>2, <2>3 DEF ApiTypeOK
<1>3. ASSUME NEW other \in Threads, other # th PROVE ThreadOK(other)'
  <2>1. creation_lock = th => threads[other].pc \notin {"store", "bind"}
    BY <1>3 DEF ApiInv, ApiTypeOK
  <2>2. QED
    BY <1>1, <1>3, <2>1, OthersStay
<1>4. QED
  BY <1>2, <1>3 DEF ApiInv, ThreadsOK

-------------------------------------------------------------------------------
(* Steps that test and write nothing *)

LEMMA AccessStays ==
    ASSUME ApiInv, UNCHANGED <<accessVars, now>>
    PROVE  AccessTypeOK' /\ AccessAges /\ SameCounts
<1>1. AccessTypeOK /\ now \in Nat
  BY DEF ApiInv, ApiTypeOK, TablesOK, StoreInv, TypeOK
<1>2. tenants' = tenants /\ quote_bindings' = quote_bindings /\ order_bindings' = order_bindings
  BY DEF accessVars
<1>3. AccessTypeOK' /\ SameCounts
  BY <1>1, <1>2 DEF AccessTypeOK, SameCounts, BoundQuotes, BoundOrders
<1>4. KeysAge
  <2>1. \A t \in Tenants : tenants[t].api_key \in Nat
    BY <1>1, TenantTypes
  <2>2. QED
    BY <1>2, <2>1 DEF KeysAge
<1>5. TokensAge
  <2>1. \A o \in OrderIds : order_bindings[o] # None => order_bindings[o].token \in Nat
    BY <1>1, BindingTypes DEF BindingTyped
  <2>2. QED
    BY <1>2, <2>1 DEF TokensAge
<1>6. QED
  BY <1>1, <1>2, <1>3, <1>4, <1>5 DEF AccessAges, OwnersStay

LEMMA TablesStay ==
    ASSUME ApiInv, UNCHANGED <<vars, accessVars>>
    PROVE  AccessTypeOK' /\ AccessAges /\ SameCounts /\ TablesOK'
<1>1. StoreInv' /\ UNCHANGED <<accessVars, now>>
  BY NextInv DEF ApiInv, TablesOK, vars
<1>2. TenantsKnown' /\ QuotasKept'
  BY DEF accessVars, ApiInv, TablesOK, TenantsKnown, QuotasKept, BoundQuotes, BoundOrders
<1>3. BindingsAgree' /\ FakeOnly'
  BY DEF vars, accessVars, ApiInv, TablesOK, BindingsAgree, FakeOnly, FakeOrder, BoundQuotes,
         Placed, Exists
<1>4. QED
  BY <1>1, <1>2, <1>3, AccessStays DEF TablesOK

LEMMA ControlMoves ==
    ASSUME ApiInv, NEW th \in Threads, NEW x \in Thread, threads' = [threads EXCEPT ![th] = x],
           LockMoves(th, x.pc), UNCHANGED <<vars, accessVars, interventions, crashes>>,
           ThreadOK(th)'
    PROVE  ApiInv'
  BY TablesStay, ThreadMoves

(* A thread that answers is idle again, and free of every obligation. *)
LEMMA IdleIsFree ==
    ASSUME NEW th \in Threads, threads'[th] = Idle, now' \in Nat
    PROVE  ThreadOK(th)'
  BY DEF Idle, ThreadOK, OnItsWay, Dated, Entitled, Creating, At, CallOf

LEMMA AnswerMoves ==
    ASSUME ApiInv, NEW th \in Threads, Answer(th), LockMoves(th, "idle"),
           UNCHANGED <<interventions, crashes>>,
           AccessTypeOK', AccessAges, TablesOK', SameCounts \/ creation_lock = th
    PROVE  ApiInv'
<1>1. Idle \in Thread /\ Idle.pc = "idle" /\ threads' = [threads EXCEPT ![th] = Idle]
  BY DEF Thread, Idle, Answer
<1>2. threads'[th] = Idle
  BY <1>1 DEF ApiInv, ApiTypeOK
<1>3. ThreadOK(th)'
  BY <1>2, IdleIsFree DEF AccessAges
<1>4. QED
  BY <1>1, <1>3, ThreadMoves

LEMMA AnswerOnly ==
    ASSUME ApiInv, NEW th \in Threads, Answer(th), LockMoves(th, "idle"),
           UNCHANGED <<vars, accessVars, interventions, crashes>>
    PROVE  ApiInv'
  BY TablesStay, AnswerMoves

(* The thread as it is when it has gone on to pc. *)
Pcs == {"authenticate", "authorize_quote", "create", "store", "bind", "authorize", "rotate",
        "revoke", "confirm", "checkout", "authorize_result", "read"}

InFlight == [pc: Pcs, call: Calls, at: Nat, token: Nat, live: BOOLEAN]

Sets(th, x) == threads' = [threads EXCEPT ![th] = x]

GoesOn(th, pc, at, token) ==
    \E x \in Thread :
        /\ x.pc = pc /\ Sets(th, x)
        /\ threads'[th].pc = pc /\ CallOf(th)' = CallOf(th)
        /\ threads'[th].at = at /\ threads'[th].token = token
        /\ threads'[th].live = threads[th].live

LEMMA InHand ==
    ASSUME ApiTypeOK, NEW th \in Threads, ~At(th, "idle")
    PROVE  threads[th] \in InFlight
<1>1. threads[th] \in Thread
  BY DEF ApiTypeOK
<1>2. QED
  BY <1>1 DEF At, Idle, Thread, InFlight, Pcs

LEMMA Became ==
    ASSUME ApiTypeOK, NEW th \in Threads, NEW x \in InFlight, Sets(th, x),
           x.call = CallOf(th), x.live = threads[th].live
    PROVE  GoesOn(th, x.pc, x.at, x.token)
<1>1. threads'[th] = x
  BY DEF ApiTypeOK, Sets
<1>2. x \in Thread
  BY DEF Thread, InFlight, Pcs
<1>3. QED
  BY <1>1, <1>2, Zenon DEF GoesOn, CallOf

LEMMA GoToGoes ==
    ASSUME ApiTypeOK, NEW th \in Threads, ~At(th, "idle"), NEW pc \in Pcs, GoTo(th, pc)
    PROVE  GoesOn(th, pc, threads[th].at, threads[th].token)
<1> DEFINE x == [threads[th] EXCEPT !.pc = pc]
<1>1. threads[th] \in InFlight /\ threads \in [Threads -> Thread]
  BY InHand DEF ApiTypeOK
<1>2. /\ x \in InFlight /\ x.pc = pc /\ x.call = CallOf(th) /\ x.live = threads[th].live
      /\ x.at = threads[th].at /\ x.token = threads[th].token
  BY <1>1 DEF InFlight, CallOf
<1>3. Sets(th, x)
  BY <1>1 DEF GoTo, Sets
<1> HIDE DEF x
<1>4. QED
  BY <1>2, <1>3, Became

LEMMA GoToAtGoes ==
    ASSUME ApiTypeOK, NEW th \in Threads, ~At(th, "idle"), NEW pc \in Pcs, NEW at \in Nat,
           threads' = [threads EXCEPT ![th].pc = pc, ![th].at = at]
    PROVE  GoesOn(th, pc, at, threads[th].token)
<1> DEFINE x == [threads[th] EXCEPT !.pc = pc, !.at = at]
<1>1. threads[th] \in InFlight /\ threads \in [Threads -> Thread]
  BY InHand DEF ApiTypeOK
<1>2. /\ x \in InFlight /\ x.pc = pc /\ x.call = CallOf(th) /\ x.live = threads[th].live
      /\ x.at = at /\ x.token = threads[th].token
  BY <1>1 DEF InFlight, CallOf
<1>3. Sets(th, x)
  BY <1>1 DEF Sets
<1> HIDE DEF x
<1>4. QED
  BY <1>2, <1>3, Became

LEMMA GoToWithGoes ==
    ASSUME ApiTypeOK, NEW th \in Threads, ~At(th, "idle"), NEW pc \in Pcs, NEW token \in Nat,
           threads' = [threads EXCEPT ![th].pc = pc, ![th].token = token]
    PROVE  GoesOn(th, pc, threads[th].at, token)
<1> DEFINE x == [threads[th] EXCEPT !.pc = pc, !.token = token]
<1>1. threads[th] \in InFlight /\ threads \in [Threads -> Thread]
  BY InHand DEF ApiTypeOK
<1>2. /\ x \in InFlight /\ x.pc = pc /\ x.call = CallOf(th) /\ x.live = threads[th].live
      /\ x.at = threads[th].at /\ x.token = token
  BY <1>1 DEF InFlight, CallOf
<1>3. Sets(th, x)
  BY <1>1 DEF Sets
<1> HIDE DEF x
<1>4. QED
  BY <1>2, <1>3, Became

LEMMA ControlGoes ==
    ASSUME ApiInv, NEW th \in Threads, NEW pc, NEW at, NEW token, GoesOn(th, pc, at, token),
           LockMoves(th, pc), UNCHANGED <<vars, accessVars, interventions, crashes>>,
           ThreadOK(th)'
    PROVE  ApiInv'
<1>1. PICK x \in Thread : x.pc = pc /\ threads' = [threads EXCEPT ![th] = x]
  BY DEF GoesOn, Sets
<1>2. QED
  BY <1>1, ControlMoves

(* The tables a request looks at are as they were. *)
LEMMA SameWorld ==
    ASSUME UNCHANGED <<vars, accessVars>>
    PROVE  /\ tenants' = tenants /\ quote_bindings' = quote_bindings
           /\ order_bindings' = order_bindings /\ now' = now
           /\ quotes' = quotes /\ orders' = orders
  BY DEF vars, accessVars

LEMMA ReceivePreserves ==
    ASSUME ApiInv, NEW th \in Threads, NEW call \in Calls, Receive(th, call)
    PROVE  ApiInv'
<1> DEFINE x == [pc |-> "authenticate", call |-> call, at |-> 0, token |-> 0, live |-> Live(call)]
<1>1. Live(call) \in BOOLEAN
  BY DEF Live, Authenticates
<1>2. x \in Thread /\ x.pc = "authenticate"
  BY <1>1 DEF Thread
<1>3. threads' = [threads EXCEPT ![th] = x] /\ threads'[th] = x
  BY DEF Receive, ApiInv, ApiTypeOK
<1>4. UNCHANGED <<vars, accessVars, interventions, crashes, creation_lock>>
  BY DEF Receive
<1>5. LockMoves(th, "authenticate")
  BY <1>4 DEF LockMoves, Receive, At, ApiInv, ApiTypeOK
<1>6. /\ threads'[th].pc = "authenticate" /\ threads'[th].call = call /\ threads'[th].at = 0
  BY <1>3
<1>7. threads'[th].live = Live(call)
  <2>1. \A l : [pc |-> "authenticate", call |-> call, at |-> 0, token |-> 0, live |-> l].live = l
    OBVIOUS
  <2>2. QED
    BY <1>3, <2>1, Zenon
<1>8. Dated(th)'
  <2>1. Issued(call) /\ now \in Nat
    BY DEF Receive, ApiInv, TablesOK, StoreInv, TypeOK
  <2>2. QED
    BY <1>4, <1>6, <2>1, SameWorld DEF Dated, CallOf, Issued
<1>9. Entitled(th)'
  <2>1. Live(CallOf(th))' = Live(call)
    BY <1>4, <1>6, SameWorld DEF CallOf, Live, Authenticates, Authorizes, Active, BoundOrders
  <2>2. QED
    BY <1>6, <1>7, <2>1, Zenon DEF Entitled, At
<1>10. OnItsWay(th)' /\ Creating(th)'
  BY <1>6 DEF OnItsWay, Creating, At
<1>11. QED
  BY <1>2, <1>3, <1>4, <1>5, <1>8, <1>9, <1>10, ControlMoves DEF ThreadOK

LEMMA OutsideTheLock ==
    ASSUME ApiTypeOK, NEW th \in Threads, threads[th].pc \notin {"store", "bind"},
           UNCHANGED creation_lock, NEW pc, pc \notin {"store", "bind"}
    PROVE  LockMoves(th, pc)
  BY DEF ApiTypeOK, LockMoves

LEMMA AuthenticatePreserves ==
    ASSUME ApiInv, NEW th \in Threads, Authenticate(th)
    PROVE  ApiInv'
<1>1. /\ UNCHANGED <<vars, accessVars, interventions, crashes, creation_lock>>
      /\ At(th, "authenticate") /\ ~At(th, "idle") /\ ApiTypeOK /\ ThreadOK(th)
  BY DEF Authenticate, At, ApiInv, ThreadsOK
<1>2. CASE ~Authenticates(TenantOf(th), CallOf(th).api_key)
  <2>1. Answer(th) /\ LockMoves(th, "idle")
    BY <1>1, <1>2, OutsideTheLock DEF Authenticate, At
  <2>2. QED
    BY <1>1, <2>1, AnswerOnly
<1>3. CASE Authenticates(TenantOf(th), CallOf(th).api_key)
  <2>1. PICK call \in Calls : call = CallOf(th)
    BY <1>1, RequestOf
  <2>2. PICK pc \in Pcs : pc = FirstStep(call.op)
    BY CallKinds DEF FirstStep, Pcs
  <2>3. PICK at \in Nat : at = now
    BY DEF ApiInv, TablesOK, StoreInv, TypeOK
  <2>4. threads' = [threads EXCEPT ![th].pc = pc, ![th].at = at]
    BY <1>3, <2>1, <2>2, <2>3 DEF Authenticate
  <2>5. GoesOn(th, pc, at, threads[th].token)
    BY <1>1, <2>4, GoToAtGoes
  <2>6. /\ threads'[th].pc = pc /\ CallOf(th)' = call /\ threads'[th].at = at
        /\ threads'[th].live = threads[th].live /\ TenantOf(th)' = call.tenant
        /\ TenantOf(th) = call.tenant
    BY <2>1, <2>5 DEF GoesOn, TenantOf, CallOf
  <2>7. \/ pc = "create" /\ call.op = "quote"
        \/ pc = "authorize_quote" /\ call.op = "order"
        \/ pc = "authorize" /\ call.op \in {"status", "result", "rotate", "revoke"}
    <3>1. call.op \in {"quote", "order", "status", "result", "rotate", "revoke"}
      BY CallKinds
    <3>2. CASE call.op = "quote"
      BY <2>2, <3>2 DEF FirstStep
    <3>3. CASE call.op = "order"
      BY <2>2, <3>3 DEF FirstStep
    <3>4. CASE call.op \notin {"quote", "order"}
      BY <2>2, <3>1, <3>4 DEF FirstStep
    <3>5. QED
      BY <3>2, <3>3, <3>4
  <2>8. LockMoves(th, pc)
    BY <1>1, <2>7, OutsideTheLock DEF At
  <2>9. OnItsWay(th)' /\ Creating(th)'
    BY <2>6, <2>7 DEF OnItsWay, Creating, At
  <2>10. Dated(th)'
    <3>1. Issued(call)
      BY <1>1, <2>1 DEF ThreadOK, Dated
    <3>2. now' = now
      BY <1>1, SameWorld
    <3>3. QED
      BY <1>1, <2>3, <2>6, <3>1, <3>2, SameWorld DEF Dated, Issued
  <2>11. Entitled(th)'
    <3>1. call.op \in {"quote", "order"} => threads[th].live
      <4>1. call.op \in {"quote", "order"} => call \notin TokenCall
        BY CallKinds
      <4>2. QED
        BY <1>1, <1>3, <2>1, <2>6, <4>1 DEF ThreadOK, Entitled, Live
    <3>2. Authorizes(call.tenant, call.order, call.token, at) => threads[th].live
      BY <1>1, <1>3, <2>1, <2>3, <2>6 DEF ThreadOK, Entitled, Live
    <3>3. Authorizes(TenantOf(th), CallOf(th).order, CallOf(th).token, threads[th].at)'
            = Authorizes(call.tenant, call.order, call.token, at)
      BY <1>1, <2>6, SameWorld DEF Authorizes, Active, BoundOrders
    <3>4. tenants'[call.tenant].state # "absent"
      BY <1>1, <1>3, <2>6, SameWorld DEF Authenticates, Active
    <3>5. QED
      BY <2>6, <2>7, <3>1, <3>2, <3>3, <3>4 DEF Entitled, At
  <2>12. QED
    BY <1>1, <2>5, <2>8, <2>9, <2>10, <2>11, ControlGoes DEF ThreadOK
<1>4. QED
  BY <1>2, <1>3

LEMMA Gone ==
    ASSUME ApiTypeOK, NEW th \in Threads, ~At(th, "idle"), NEW pc \in Pcs, GoTo(th, pc)
    PROVE  /\ threads'[th].pc = pc /\ CallOf(th)' = CallOf(th) /\ TenantOf(th)' = TenantOf(th)
           /\ threads'[th].at = threads[th].at /\ threads'[th].token = threads[th].token
           /\ threads'[th].live = threads[th].live
  BY GoToGoes DEF GoesOn, TenantOf, CallOf

LEMMA StillDated ==
    ASSUME ApiInv, NEW th \in Threads, ~At(th, "idle"), UNCHANGED <<accessVars, now>>,
           CallOf(th)' = CallOf(th), threads'[th].at = threads[th].at
    PROVE  Dated(th)'
<1>1. Issued(CallOf(th)) /\ threads[th].at <= now
  BY DEF ApiInv, ThreadsOK, ThreadOK, Dated
<1>2. Issued(CallOf(th))'
  BY <1>1 DEF Issued, accessVars
<1>3. QED
  BY <1>1, <1>2 DEF Dated

LEMMA GoToPreserves ==
    ASSUME ApiInv, NEW th \in Threads, ~At(th, "idle"), NEW pc \in Pcs, GoTo(th, pc),
           LockMoves(th, pc), UNCHANGED <<vars, accessVars, interventions, crashes>>,
           OnItsWay(th)', Entitled(th)', Creating(th)'
    PROVE  ApiInv'
<1>1. GoesOn(th, pc, threads[th].at, threads[th].token)
  BY GoToGoes DEF ApiInv
<1>2. CallOf(th)' = CallOf(th) /\ threads'[th].at = threads[th].at
  BY Gone DEF ApiInv
<1>3. UNCHANGED <<accessVars, now>>
  BY DEF vars
<1>4. Dated(th)'
  BY <1>2, <1>3, StillDated
<1>5. QED
  BY <1>1, <1>4, ControlGoes DEF ThreadOK

LEMMA AuthorizeQuotePreserves ==
    ASSUME ApiInv, NEW th \in Threads, AuthorizeQuote(th)
    PROVE  ApiInv'
<1>1. /\ UNCHANGED <<vars, accessVars, interventions, crashes, creation_lock>>
      /\ At(th, "authorize_quote") /\ ~At(th, "idle") /\ ApiTypeOK /\ ThreadOK(th)
      /\ threads[th].pc \notin {"store", "bind"}
  BY DEF AuthorizeQuote, Check, At, ApiInv, ThreadsOK
<1>2. LockMoves(th, "idle") /\ LockMoves(th, "create")
  BY <1>1, OutsideTheLock
<1>3. CASE ~OwnsQuote(TenantOf(th), CallOf(th).quote)
  BY <1>1, <1>2, <1>3, AnswerOnly DEF AuthorizeQuote, Check
<1>4. CASE OwnsQuote(TenantOf(th), CallOf(th).quote)
  <2>1. GoTo(th, "create") /\ "create" \in Pcs
    BY <1>4 DEF AuthorizeQuote, Check, Pcs
  <2>2. /\ threads'[th].pc = "create" /\ CallOf(th)' = CallOf(th) /\ TenantOf(th)' = TenantOf(th)
        /\ threads'[th].live = threads[th].live
    BY <1>1, <2>1, Gone
  <2>3. CallOf(th).op = "order" /\ threads[th].live
    BY <1>1 DEF ThreadOK, OnItsWay, Entitled, At
  <2>4. OnItsWay(th)'
    BY <2>2, <2>3 DEF OnItsWay, At
  <2>5. Entitled(th)'
    BY <2>2, <2>3 DEF Entitled, At
  <2>6. Creating(th)'
    <3>1. CallOf(th).quote \in BoundQuotes(TenantOf(th))'
      BY <1>1, <1>4, <2>2, SameWorld DEF OwnsQuote, BoundQuotes
    <3>2. QED
      BY <2>2, <3>1 DEF Creating
  <2>7. QED
    BY <1>1, <1>2, <2>1, <2>4, <2>5, <2>6, GoToPreserves
<1>5. QED
  BY <1>3, <1>4

LEMMA EnterCreationPreserves ==
    ASSUME ApiInv, NEW th \in Threads, EnterCreation(th)
    PROVE  ApiInv'
<1>1. /\ UNCHANGED <<vars, accessVars, interventions, crashes>>
      /\ At(th, "create") /\ ~At(th, "idle") /\ ApiTypeOK /\ ThreadOK(th)
      /\ threads[th].pc \notin {"store", "bind"} /\ creation_lock = None
  BY DEF EnterCreation, Unlocked, At, ApiInv, ThreadsOK
<1>2. CASE ~WithinQuota(CallOf(th))
  <2>1. Answer(th) /\ LockMoves(th, "idle")
    BY <1>1, <1>2, OutsideTheLock DEF EnterCreation
  <2>2. QED
    BY <1>1, <2>1, AnswerOnly
<1>3. CASE WithinQuota(CallOf(th))
  <2>1. GoTo(th, "store") /\ "store" \in Pcs /\ creation_lock' = th
    BY <1>3 DEF EnterCreation, Pcs
  <2>2. LockMoves(th, "store")
    BY <1>1, <2>1 DEF LockMoves
  <2>3. /\ threads'[th].pc = "store" /\ CallOf(th)' = CallOf(th) /\ TenantOf(th)' = TenantOf(th)
    BY <1>1, <2>1, Gone
  <2>4. CallOf(th).op \in {"quote", "order"}
    BY <1>1 DEF ThreadOK, OnItsWay, At
  <2>5. OnItsWay(th)' /\ Entitled(th)'
    BY <2>3, <2>4 DEF OnItsWay, Entitled, At
  <2>6. Creating(th)'
    <3>1. PICK call \in Calls : call = CallOf(th)
      BY <1>1, RequestOf
    <3>2. TenantOf(th) = call.tenant
      BY <3>1 DEF TenantOf
    <3>3. call.op = "order" => call.quote \in BoundQuotes(call.tenant)
      BY <1>1, <3>1, <3>2 DEF ThreadOK, Creating, At
    <3>4. call.op = "quote" => \/ QuoteFor(call) \in BoundQuotes(call.tenant)
                               \/ Cardinality(BoundQuotes(call.tenant)) < MaxQuotes
      BY <1>3, <3>1 DEF WithinQuota, OwnsQuote
    <3>5. call.op # "quote" => \/ Ordered(call.tenant, call.quote)
                               \/ Cardinality(BoundOrders(call.tenant)) < MaxOrders
      BY <1>3, <3>1 DEF WithinQuota, HasOrder, Ordered
    <3>6. CallOf(th)' = call /\ TenantOf(th)' = call.tenant
      BY <2>3, <3>1, <3>2
    <3>7. AccessAges /\ SameCounts /\ call.tenant \in Tenants
      BY <1>1, AccessStays, CallKinds DEF vars
    <3>8. call.op = "order" => call.quote \in BoundQuotes(call.tenant)'
      BY <3>3, <3>7, OwnedStays
    <3>9. call.op = "quote" => \/ QuoteFor(call) \in BoundQuotes(call.tenant)'
                               \/ Cardinality(BoundQuotes(call.tenant)') < MaxQuotes
      BY <3>4, <3>7 DEF SameCounts
    <3>10. call.op # "quote" => \/ Ordered(call.tenant, call.quote)'
                                \/ Cardinality(BoundOrders(call.tenant)') < MaxOrders
      BY <3>5, <3>7, OrderedStays DEF SameCounts
    <3>11. QED
      BY <3>6, <3>8, <3>9, <3>10 DEF Creating, QuoteFor, BoundQuotes, BoundOrders, Ordered
  <2>7. QED
    BY <1>1, <2>1, <2>2, <2>5, <2>6, GoToPreserves
<1>4. QED
  BY <1>2, <1>3

(* A test outside the lock that a request with a token takes. *)
LEMMA TokenTestPreserves ==
    ASSUME ApiInv, NEW th \in Threads, NEW passes, NEW pc \in Pcs,
           ~At(th, "idle"), threads[th].pc \notin {"store", "bind"},
           pc \in {"read", "rotate", "revoke", "authorize_result", "checkout"},
           Check(th, passes, pc),
           passes => /\ threads[th].live \/ pc = "checkout"
                     /\ pc = "checkout" => CallOf(th).op = "order"
                     /\ pc = "rotate" => CallOf(th).op = "rotate"
                     /\ pc = "revoke" => CallOf(th).op = "revoke"
                     /\ pc \in {"authorize_result", "read"} =>
                          CallOf(th).op \in {"status", "result", "rotate", "revoke"}
    PROVE  ApiInv'
<1>1. /\ UNCHANGED <<vars, accessVars, interventions, crashes, creation_lock>> /\ ApiTypeOK
  BY DEF Check, ApiInv
<1>2. LockMoves(th, "idle") /\ LockMoves(th, pc)
  BY <1>1, OutsideTheLock
<1>3. CASE ~passes
  BY <1>1, <1>2, <1>3, AnswerOnly DEF Check
<1>4. CASE passes
  <2>1. GoTo(th, pc)
    BY <1>4 DEF Check
  <2>2. /\ threads'[th].pc = pc /\ CallOf(th)' = CallOf(th)
        /\ threads'[th].live = threads[th].live
    BY <1>1, <2>1, Gone
  <2>3. OnItsWay(th)'
    BY <1>4, <2>2 DEF OnItsWay, At
  <2>4. Entitled(th)'
    BY <1>4, <2>2 DEF Entitled, At
  <2>5. Creating(th)'
    BY <2>2 DEF Creating
  <2>6. QED
    BY <1>1, <1>2, <2>1, <2>3, <2>4, <2>5, GoToPreserves
<1>5. QED
  BY <1>3, <1>4

LEMMA TestsPreserve ==
    ASSUME ApiInv, NEW th \in Threads, Confirm(th) \/ Authorize(th) \/ AuthorizeResult(th)
    PROVE  ApiInv'
<1>1. ApiTypeOK /\ ThreadOK(th)
  BY DEF ApiInv, ThreadsOK
<1>2. CASE Confirm(th)
  <2> DEFINE passes == /\ CallOf(th).op = "order"
                       /\ Authorizes(TenantOf(th), OrderFor(CallOf(th)), threads[th].token, threads[th].at)
  <2>1. Check(th, passes, "checkout") /\ At(th, "confirm")
    BY <1>2 DEF Confirm, TenantOf
  <2>2. passes => CallOf(th).op = "order"
    OBVIOUS
  <2> HIDE DEF passes
  <2>3. QED
    BY <2>1, <2>2, TokenTestPreserves DEF At, Pcs
<1>3. CASE Authorize(th)
  <2> DEFINE passes == Authorizes(TenantOf(th), CallOf(th).order, CallOf(th).token, threads[th].at)
  <2>1. Check(th, passes, Granted(CallOf(th).op)) /\ At(th, "authorize")
    BY <1>3 DEF Authorize, TenantOf
  <2>2. CallOf(th).op \in {"status", "result", "rotate", "revoke"}
    BY <1>1, <2>1 DEF ThreadOK, OnItsWay, At
  <2>3. passes => threads[th].live
    BY <1>1, <2>1 DEF ThreadOK, Entitled
  <2>4. PICK pc : pc = Granted(CallOf(th).op)
    OBVIOUS
  <2>5. /\ pc \in {"read", "authorize_result", "rotate", "revoke"}
        /\ pc = "rotate" => CallOf(th).op = "rotate"
        /\ pc = "revoke" => CallOf(th).op = "revoke"
    BY <2>2, <2>4 DEF Granted
  <2> HIDE DEF passes
  <2>6. Check(th, passes, pc)
    BY <2>1, <2>4
  <2>7. QED
    BY <2>1, <2>2, <2>3, <2>5, <2>6, TokenTestPreserves DEF At, Pcs
<1>4. CASE AuthorizeResult(th)
  <2> DEFINE passes == Authorizes(TenantOf(th), CallOf(th).order, CallOf(th).token, threads[th].at)
  <2>1. Check(th, passes, "read") /\ At(th, "authorize_result")
    BY <1>4 DEF AuthorizeResult, TenantOf
  <2>2. /\ CallOf(th).op \in {"status", "result", "rotate", "revoke"}
        /\ threads[th].live
    BY <1>1, <2>1 DEF ThreadOK, OnItsWay, Entitled, At
  <2> HIDE DEF passes
  <2>3. QED
    BY <2>1, <2>2, TokenTestPreserves DEF At, Pcs
<1>5. QED
  BY <1>2, <1>3, <1>4

LEMMA ReadPreserves ==
    ASSUME ApiInv, NEW th \in Threads, Read(th)
    PROVE  ApiInv'
<1>1. LockMoves(th, "idle")
  BY OutsideTheLock DEF Read, At, ApiInv
<1>2. QED
  BY <1>1, AnswerOnly DEF Read

LEMMA CrashPreserves ==
    ASSUME ApiInv, Crash
    PROVE  ApiInv'
<1>1. /\ UNCHANGED <<vars, accessVars, interventions>> /\ crashes' = crashes + 1
      /\ crashes < MaxCrashes /\ creation_lock' = None
      /\ threads' = [th \in Threads |-> Idle]
  BY DEF Crash
<1>2. AccessTypeOK' /\ TablesOK'
  BY <1>1, TablesStay
<1>3. ApiTypeOK'
  <2>1. Idle \in Thread /\ Idle.pc = "idle"
    BY DEF Thread, Idle
  <2>2. crashes' \in 0 .. MaxCrashes /\ interventions' \in 0 .. MaxInterventions
    BY <1>1, ApiAssumption DEF ApiInv, ApiTypeOK
  <2>3. None \notin Threads
    BY ApiAssumption
  <2>4. QED
    BY <1>1, <1>2, <2>1, <2>2, <2>3 DEF ApiTypeOK
<1>4. ThreadsOK'
  <2>1. now' \in Nat
    BY <1>1 DEF vars, ApiInv, TablesOK, StoreInv, TypeOK
  <2>2. QED
    BY <1>1, <2>1, IdleIsFree DEF ThreadsOK
<1>5. QED
  BY <1>2, <1>3, <1>4 DEF ApiInv

-------------------------------------------------------------------------------
(* Steps that write the store *)

LEMMA InsideTheLock ==
    ASSUME ApiTypeOK, NEW th \in Threads, threads[th].pc \in {"store", "bind"}
    PROVE  /\ creation_lock = th /\ creation_lock # None
           /\ UNCHANGED creation_lock => LockMoves(th, "bind")
           /\ creation_lock' = None => LockMoves(th, "idle") /\ LockMoves(th, "confirm")
  BY ApiAssumption DEF ApiTypeOK, LockMoves

LEMMA StoreWrites ==
    ASSUME ApiInv, UNCHANGED <<accessVars, now>>, [Next]_vars, BindingsAgree', FakeOnly'
    PROVE  AccessTypeOK' /\ AccessAges /\ SameCounts /\ TablesOK'
<1>1. StoreInv'
  BY NextInv DEF ApiInv, TablesOK
<1>2. TenantsKnown' /\ QuotasKept'
  BY DEF accessVars, ApiInv, TablesOK, TenantsKnown, QuotasKept, BoundQuotes, BoundOrders
<1>3. QED
  BY <1>1, <1>2, AccessStays DEF TablesOK

LEMMA GoToBind ==
    ASSUME ApiInv, NEW th \in Threads, At(th, "store"), GoTo(th, "bind"), TablesOK',
           UNCHANGED <<accessVars, now, creation_lock, interventions, crashes>>
    PROVE  ApiInv'
<1>1. ApiTypeOK /\ ThreadOK(th) /\ ~At(th, "idle") /\ "bind" \in Pcs
  BY DEF ApiInv, ThreadsOK, At, Pcs
<1>2. /\ threads'[th].pc = "bind" /\ CallOf(th)' = CallOf(th) /\ TenantOf(th)' = TenantOf(th)
      /\ threads'[th].at = threads[th].at
  BY <1>1, Gone
<1>3. LockMoves(th, "bind")
  BY <1>1, InsideTheLock DEF At
<1>4. AccessTypeOK' /\ AccessAges /\ SameCounts
  BY AccessStays
<1>5. ThreadOK(th)'
  <2>1. Dated(th)'
    BY <1>1, <1>2, StillDated
  <2>2. OnItsWay(th)' /\ Entitled(th)'
    BY <1>1, <1>2 DEF ThreadOK, OnItsWay, Entitled, At
  <2>3. Creating(th)'
    <3>1. quote_bindings' = quote_bindings /\ order_bindings' = order_bindings
      BY DEF accessVars
    <3>2. QED
      BY <1>1, <1>2, <3>1 DEF ThreadOK, Creating, At, QuoteFor, BoundQuotes, BoundOrders, Ordered
  <2>4. QED
    BY <2>1, <2>2, <2>3 DEF ThreadOK
<1>6. PICK x \in Thread : x.pc = "bind" /\ threads' = [threads EXCEPT ![th] = x]
  BY <1>1, GoToGoes DEF GoesOn, Sets
<1>7. QED
  BY <1>3, <1>4, <1>5, <1>6, ThreadMoves

LEMMA LeavePreserves ==
    ASSUME ApiInv, NEW th \in Threads, At(th, "store"), Leave(th),
           UNCHANGED <<interventions, crashes>>
    PROVE  ApiInv'
<1>1. LockMoves(th, "idle")
  BY InsideTheLock DEF At, Leave, ApiInv
<1>2. QED
  BY <1>1, AnswerOnly DEF Leave

LEMMA StoreQuotePreserves ==
    ASSUME ApiInv, NEW th \in Threads, StoreQuote(th)
    PROVE  ApiInv'
<1> DEFINE call == CallOf(th)
           q    == QuoteFor(call)
           at   == threads[th].at
<1>1. At(th, "store") /\ UNCHANGED <<interventions, crashes>> /\ [Next]_vars
  BY StoreQuoteIsCall DEF StoreQuote
<1>2. CASE /\ CreateQuote(q, call.request, "fake", at)
           /\ GoTo(th, "bind") /\ UNCHANGED <<accessVars, creation_lock>>
  <2>1. UNCHANGED <<accessVars, now, orders>>
    BY <1>2 DEF CreateQuote
  <2>2. BindingsAgree'
    BY <2>1 DEF ApiInv, TablesOK, BindingsAgree, accessVars, BoundQuotes, Placed, Exists
  <2>3. FakeOnly'
    <3>1. \A o \in Placed' : FakeOrder(o)'
      BY <2>1 DEF ApiInv, TablesOK, FakeOnly, FakeOrder, Placed, Exists
    <3>2. PICK row : row.provider = "fake" /\ quotes' = [quotes EXCEPT ![q] = row]
      BY <1>2 DEF CreateQuote
    <3>3. quotes \in [QuoteIds -> QuoteRow \cup {None}]
      BY DEF ApiInv, TablesOK, StoreInv, TypeOK
    <3>4. \A r \in QuoteIds : quotes'[r] # None => quotes'[r].provider = "fake"
      BY <3>2, <3>3 DEF ApiInv, TablesOK, FakeOnly
    <3>5. QED
      BY <3>1, <3>4 DEF FakeOnly
  <2>4. QED
    BY <1>1, <1>2, <2>1, <2>2, <2>3, StoreWrites, GoToBind
<1>3. CASE GoTo(th, "bind") /\ UNCHANGED <<vars, accessVars, creation_lock>>
  <2>1. TablesOK' /\ UNCHANGED <<accessVars, now>>
    BY <1>3, TablesStay DEF vars
  <2>2. QED
    BY <1>1, <1>3, <2>1, GoToBind
<1>4. CASE Leave(th)
  BY <1>1, <1>4, LeavePreserves
<1>5. QED
  BY <1>2, <1>3, <1>4 DEF StoreQuote

LEMMA StoreOrderPreserves ==
    ASSUME ApiInv, NEW th \in Threads, StoreOrder(th)
    PROVE  ApiInv'
<1> DEFINE at   == threads[th].at
<1>1. At(th, "store") /\ UNCHANGED <<interventions, crashes>> /\ [Next]_vars
  BY StoreOrderIsCall DEF StoreOrder
<1>2. PICK call \in Calls : call = CallOf(th)
  BY <1>1, RequestOf DEF ApiInv, At
<1>3. call.op = "order"
  BY <1>2 DEF StoreOrder
<1>4. PICK o \in OrderIds : o = OrderFor(call)
  BY <1>3, ApiAssumption
<1>5. /\ o = <<call.quote, <<call.tenant, call.key>>, call.tenant>>
      /\ QuoteOf(o) = call.quote /\ o[3] = call.tenant /\ call.quote \in QuoteIds
  BY <1>3, <1>4, OrderPlaced
<1>6. CASE /\ CreateOrder(call.quote, <<call.tenant, call.key>>, call.tenant, at)
           /\ GoTo(th, "bind") /\ UNCHANGED <<accessVars, creation_lock>>
  <2>1. UNCHANGED <<accessVars, now, quotes>> /\ quotes[call.quote] # None
    BY <1>6 DEF CreateOrder
  <2>2. PICK row : /\ row.order_status = "checkout_pending" /\ row.checkout = None
                   /\ row.payment = None /\ row.provider = quotes[call.quote].provider
                   /\ orders' = [orders EXCEPT ![o] = row]
    BY <1>5, <1>6 DEF CreateOrder, NoOrder
  <2>3. /\ orders'[o] = row
        /\ \A other \in OrderIds \ {o} : orders'[other] = orders[other]
    BY <2>2 DEF ApiInv, TablesOK, StoreInv, TypeOK
  <2>4. call.quote \in BoundQuotes(call.tenant)
    <3>1. Creating(th) /\ TenantOf(th) = call.tenant
      BY <1>2 DEF ApiInv, ThreadsOK, ThreadOK, TenantOf
    <3>2. QED
      BY <1>1, <1>2, <1>3, <3>1 DEF Creating, At
  <2>5. BindingsAgree'
    <3>1. \A t : BoundQuotes(t)' = BoundQuotes(t)
      BY <2>1 DEF BoundQuotes, accessVars
    <3>2. ASSUME NEW p \in OrderIds, Exists(p)' PROVE QuoteOf(p) \in BoundQuotes(p[3])'
      <4>1. CASE p = o
        BY <1>5, <2>4, <3>1, <4>1
      <4>2. CASE p # o
        <5>1. p \in Placed
          BY <2>3, <3>2, <4>2 DEF Placed, Exists
        <5>2. QED
          BY <3>1, <5>1 DEF ApiInv, TablesOK, BindingsAgree
      <4>3. QED
        BY <4>1, <4>2
    <3>3. ASSUME NEW p \in OrderIds, order_bindings'[p] # None
          PROVE  /\ Exists(p)' /\ order_bindings'[p].tenant = p[3]
                 /\ order_bindings'[p].quote = QuoteOf(p)
      <4>1. order_bindings'[p] = order_bindings[p]
        BY <2>1 DEF accessVars
      <4>2. /\ Exists(p) /\ order_bindings[p].tenant = p[3]
            /\ order_bindings[p].quote = QuoteOf(p)
        BY <3>3, <4>1 DEF ApiInv, TablesOK, BindingsAgree
      <4>3. Exists(p)'
        BY <2>2, <2>3, <4>2 DEF Exists
      <4>4. QED
        BY <4>1, <4>2, <4>3
    <3>4. QED
      BY <3>2, <3>3 DEF BindingsAgree, Placed
  <2>6. FakeOnly'
    <3>1. \A q \in QuoteIds : quotes'[q] # None => quotes'[q].provider = "fake"
      BY <2>1 DEF ApiInv, TablesOK, FakeOnly
    <3>2. quotes[call.quote].provider = "fake"
      BY <1>5, <2>1 DEF ApiInv, TablesOK, FakeOnly
    <3>3. ASSUME NEW p \in OrderIds, Exists(p)' PROVE FakeOrder(p)'
      BY <2>2, <2>3, <3>2, <3>3 DEF ApiInv, TablesOK, FakeOnly, FakeOrder, Placed, Exists
    <3>4. QED
      BY <3>1, <3>3 DEF FakeOnly, Placed
  <2>7. QED
    BY <1>1, <1>6, <2>1, <2>5, <2>6, StoreWrites, GoToBind
<1>7. CASE GoTo(th, "bind") /\ UNCHANGED <<vars, accessVars, creation_lock>>
  <2>1. TablesOK' /\ UNCHANGED <<accessVars, now>>
    BY <1>7, TablesStay DEF vars
  <2>2. QED
    BY <1>1, <1>7, <2>1, GoToBind
<1>8. CASE Leave(th)
  BY <1>1, <1>8, LeavePreserves
<1>9. QED
  BY <1>2, <1>6, <1>7, <1>8 DEF StoreOrder

LEMMA CheckoutPreserves ==
    ASSUME ApiInv, NEW th \in Threads, Checkout(th)
    PROVE  ApiInv'
<1>1. /\ At(th, "checkout") /\ Answer(th) /\ [Next]_vars
      /\ UNCHANGED <<accessVars, creation_lock, interventions, crashes>>
  BY CheckoutIsCall DEF Checkout
<1>2. CallOf(th).op = "order"
  BY <1>1 DEF At, ApiInv, ThreadsOK, ThreadOK, OnItsWay
<1>3. PICK o \in OrderIds : o = OrderFor(CallOf(th))
  BY <1>1, <1>2, OrderInHand DEF At
<1>4. LockMoves(th, "idle")
  BY <1>1, OutsideTheLock DEF At, ApiInv
<1>5. CASE UNCHANGED vars
  BY <1>1, <1>4, <1>5, AnswerOnly
<1>6. CASE AttachCheckout(o, FakePaymentId[o], FakePaymentId[o])
  <2>1. /\ UNCHANGED <<quotes, now>>
        /\ orders' = [orders EXCEPT ![o].checkout = FakePaymentId[o],
                                    ![o].payment = FakePaymentId[o],
                                    ![o].order_status = "payment_pending"]
        /\ Exists(o)
    BY <1>6 DEF AttachCheckout
  <2>2. /\ orders'[o].checkout = FakePaymentId[o] /\ orders'[o].payment = FakePaymentId[o]
        /\ orders'[o].order_status = "payment_pending"
        /\ orders'[o].provider = orders[o].provider
        /\ \A other \in OrderIds \ {o} : orders'[other] = orders[other]
    BY <2>1 DEF ApiInv, TablesOK, StoreInv, TypeOK, OrderRow
  <2>3. \A p \in OrderIds : Exists(p)' <=> Exists(p)
    BY <2>1, <2>2 DEF Exists
  <2>4. BindingsAgree'
    BY <1>1, <2>3 DEF ApiInv, TablesOK, BindingsAgree, accessVars, BoundQuotes, Placed
  <2>5. FakeOnly'
    <3>1. \A q \in QuoteIds : quotes'[q] # None => quotes'[q].provider = "fake"
      BY <2>1 DEF ApiInv, TablesOK, FakeOnly
    <3>2. ASSUME NEW p \in OrderIds, Exists(p)' PROVE FakeOrder(p)'
      <4>1. FakeOrder(p)
        BY <2>3, <3>2 DEF ApiInv, TablesOK, FakeOnly, Placed
      <4>2. QED
        BY <2>2, <4>1 DEF FakeOrder
    <3>3. QED
      BY <3>1, <3>2 DEF FakeOnly, Placed
  <2>6. QED
    BY <1>1, <1>4, <2>1, <2>4, <2>5, StoreWrites, AnswerMoves
<1>7. QED
  BY <1>3, <1>5, <1>6 DEF Checkout

-------------------------------------------------------------------------------
(* Steps that write the access tables *)

(* A write of the access tables leaves the store as it was. *)
LEMMA AccessWrites ==
    ASSUME ApiInv, UNCHANGED vars, TenantsKnown', QuotasKept', BindingsAgree'
    PROVE  TablesOK'
<1>1. StoreInv'
  BY NextInv DEF ApiInv, TablesOK
<1>2. FakeOnly'
  BY DEF vars, ApiInv, TablesOK, FakeOnly, FakeOrder, Placed, Exists
<1>3. QED
  BY <1>1, <1>2 DEF TablesOK

LEMMA TenantsUntouched ==
    ASSUME ApiInv, UNCHANGED <<tenants, vars>>
    PROVE  KeysAge /\ TenantsKnown' /\ now' \in Nat /\ now <= now'
<1>1. \A t \in Tenants : tenants[t].api_key \in Nat
  BY TenantTypes DEF ApiInv, ApiTypeOK
<1>2. now' = now /\ now \in Nat
  BY DEF vars, ApiInv, TablesOK, StoreInv, TypeOK
<1>3. QED
  BY <1>1, <1>2 DEF KeysAge, TenantsKnown, ApiInv, TablesOK

LEMMA TokensUntouched ==
    ASSUME AccessTypeOK, UNCHANGED order_bindings
    PROVE  TokensAge
<1>1. \A o \in OrderIds : order_bindings[o] # None => order_bindings[o].token \in Nat
  BY BindingTypes DEF BindingTyped
<1>2. QED
  BY <1>1 DEF TokensAge

(* One more is still within the bound. *)
LEMMA OneMore ==
    ASSUME NEW S, NEW x, NEW T, IsFiniteSet(S), NEW max \in Nat, Cardinality(S) <= max,
           T = S \/ (T = S \cup {x} /\ Cardinality(S) < max)
    PROVE  IsFiniteSet(T) /\ Cardinality(T) <= max
<1>1. Cardinality(S) \in Nat
  BY FS_CardinalityType
<1>2. /\ IsFiniteSet(S \cup {x})
      /\ Cardinality(S \cup {x}) = Cardinality(S) \/ Cardinality(S \cup {x}) = Cardinality(S) + 1
  BY FS_AddElement
<1>3. CASE T = S
  BY <1>3
<1>4. CASE T = S \cup {x} /\ Cardinality(S) < max
  <2>1. PICK n \in Nat : n = Cardinality(S)
    BY <1>1
  <2>2. Cardinality(T) = n \/ Cardinality(T) = n + 1
    BY <1>2, <1>4, <2>1
  <2>3. n < max
    BY <1>4, <2>1
  <2>4. QED
    BY <1>2, <1>4, <2>2, <2>3
<1>5. QED
  BY <1>3, <1>4

LEMMA BindQuoteStepPreserves ==
    ASSUME ApiInv, NEW th \in Threads, BindQuoteStep(th)
    PROVE  ApiInv'
<1>1. /\ At(th, "bind") /\ Answer(th) /\ creation_lock' = None
      /\ UNCHANGED <<vars, interventions, crashes>> /\ ApiTypeOK /\ AccessTypeOK
  BY DEF BindQuoteStep, ApiInv, ApiTypeOK
<1>2. LockMoves(th, "idle") /\ creation_lock = th
  BY <1>1, InsideTheLock DEF At
<1>3. PICK call \in Calls : call = CallOf(th)
  BY <1>1, RequestOf DEF At
<1>4. call.op = "quote"
  BY <1>3 DEF BindQuoteStep
<1>5. PICK t \in Tenants, q \in QuoteIds, key \in ClientKeys :
         t = call.tenant /\ q = QuoteFor(call) /\ key = call.key
  BY <1>4, CallKinds DEF QuoteCall
<1>6. CASE UNCHANGED accessVars
  BY <1>1, <1>2, <1>6, AnswerOnly
<1>7. CASE QuoteBindable(t, q, key) /\ BindQuote(t, q, key)
  <2> DEFINE row == [tenant |-> t, key |-> key]
  <2>1. /\ quote_bindings' = [quote_bindings EXCEPT ![q] = row]
        /\ UNCHANGED <<tenants, order_bindings>> /\ quote_bindings[q] \in {None, row}
    BY <1>7 DEF QuoteBindable, BindQuote
  <2>2. row \in QuoteBinding /\ row # None /\ row.tenant = t
    BY AccessAssumption DEF QuoteBinding
  <2>3. /\ quote_bindings'[q] = row
        /\ \A other \in QuoteIds \ {q} : quote_bindings'[other] = quote_bindings[other]
    BY <1>1, <2>1 DEF AccessTypeOK
  <2>4. AccessTypeOK'
    BY <1>1, <2>1, <2>2 DEF AccessTypeOK
  <2> HIDE DEF row
  <2>5. OwnersStay
    BY <2>1, <2>3 DEF OwnersStay
  <2>6. AccessAges
    BY <1>1, <2>1, <2>5, TenantsUntouched, TokensUntouched DEF AccessAges
  <2>7. \A s \in Tenants : BoundOrders(s)' = BoundOrders(s)
    BY <2>1 DEF BoundOrders
  <2>8. \A s \in Tenants \ {t} : BoundQuotes(s)' = BoundQuotes(s)
    BY <2>1, <2>2, <2>3 DEF BoundQuotes
  <2>9. BoundQuotes(t)' = BoundQuotes(t) \cup {q}
    BY <2>2, <2>3 DEF BoundQuotes
  <2>10. q \in BoundQuotes(t) \/ Cardinality(BoundQuotes(t)) < MaxQuotes
    BY <1>1, <1>3, <1>4, <1>5 DEF ApiInv, ThreadsOK, ThreadOK, Creating, At, TenantOf
  <2>11. QuotasKept'
    <3>1. /\ IsFiniteSet(BoundQuotes(t)) /\ Cardinality(BoundQuotes(t)) <= MaxQuotes
          /\ MaxQuotes \in Nat
      BY ApiAssumption DEF ApiInv, TablesOK, QuotasKept
    <3>2. BoundQuotes(t)' = BoundQuotes(t) \/ Cardinality(BoundQuotes(t)) < MaxQuotes
      BY <2>9, <2>10
    <3>3. IsFiniteSet(BoundQuotes(t)') /\ Cardinality(BoundQuotes(t)') <= MaxQuotes
      BY <2>9, <3>1, <3>2, OneMore
    <3>4. QED
      BY <2>7, <2>8, <3>3 DEF ApiInv, TablesOK, QuotasKept
  <2>12. BindingsAgree'
    <3>1. \A o \in OrderIds : (Exists(o))' <=> Exists(o)
      BY <1>1 DEF vars, Exists
    <3>2. \A s, r : r \in BoundQuotes(s) => r \in BoundQuotes(s)'
      BY <2>6, OwnedStays
    <3>3. QED
      BY <2>1, <3>1, <3>2 DEF ApiInv, TablesOK, BindingsAgree, Placed
  <2>13. TablesOK'
    BY <1>1, <2>1, <2>11, <2>12, TenantsUntouched, AccessWrites
  <2>14. QED
    BY <1>1, <1>2, <2>4, <2>6, <2>13, AnswerMoves
<1>8. QED
  BY <1>3, <1>5, <1>6, <1>7 DEF BindQuoteStep

(* A thread that goes on to confirm what it has just written. *)
LEMMA ConfirmNext ==
    ASSUME ApiInv, NEW th \in Threads, NEW pc \in {"bind", "rotate"}, At(th, pc),
           CallOf(th).op \in {"order", "rotate"}, NEW token \in Nat,
           threads' = [threads EXCEPT ![th].pc = "confirm", ![th].token = token],
           LockMoves(th, "confirm"), UNCHANGED <<vars, interventions, crashes>>,
           AccessTypeOK', AccessAges, TablesOK', SameCounts \/ creation_lock = th
    PROVE  ApiInv'
<1>1. /\ ApiTypeOK /\ AccessTypeOK /\ ThreadOK(th) /\ ~At(th, "idle") /\ "confirm" \in Pcs
  BY DEF ApiInv, ApiTypeOK, ThreadsOK, At, Pcs
<1>2. GoesOn(th, "confirm", threads[th].at, token)
  BY <1>1, GoToWithGoes
<1>3. /\ threads'[th].pc = "confirm" /\ CallOf(th)' = CallOf(th)
      /\ threads'[th].at = threads[th].at
  BY <1>2 DEF GoesOn, CallOf
<1>4. Dated(th)'
  <2>1. PICK call \in Calls : call = CallOf(th)
    BY <1>1, RequestOf
  <2>2. Issued(call)' /\ threads[th].at <= now /\ now' = now
    BY <1>1, <2>1, IssuedStays DEF ThreadOK, Dated, vars
  <2>3. QED
    BY <1>3, <2>1, <2>2 DEF Dated, Issued
<1>5. OnItsWay(th)' /\ Entitled(th)' /\ Creating(th)'
  BY <1>3 DEF OnItsWay, Entitled, Creating, At
<1>6. PICK x \in Thread : x.pc = "confirm" /\ threads' = [threads EXCEPT ![th] = x]
  BY <1>2 DEF GoesOn, Sets
<1>7. QED
  BY <1>4, <1>5, <1>6, ThreadMoves DEF ThreadOK

LEMMA BindOrderStepPreserves ==
    ASSUME ApiInv, NEW th \in Threads, BindOrderStep(th)
    PROVE  ApiInv'
<1>1. /\ At(th, "bind") /\ creation_lock' = None
      /\ UNCHANGED <<vars, interventions, crashes>> /\ ApiTypeOK /\ AccessTypeOK
  BY DEF BindOrderStep, ApiInv, ApiTypeOK
<1>2. LockMoves(th, "idle") /\ LockMoves(th, "confirm") /\ creation_lock = th
  BY <1>1, InsideTheLock DEF At
<1>3. PICK call \in Calls : call = CallOf(th)
  BY <1>1, RequestOf DEF At
<1>4. call.op = "order"
  BY <1>3 DEF BindOrderStep
<1>5. PICK o \in OrderIds, t \in Tenants, q \in QuoteIds :
         o = OrderFor(call) /\ t = call.tenant /\ q = call.quote
  BY <1>4, OrderPlaced, CallKinds
<1>6. o[3] = t /\ QuoteOf(o) = q
  BY <1>4, <1>5, OrderPlaced
<1>7. PICK at \in Nat : at = threads[th].at
  BY <1>1, RequestOf DEF At
<1>8. CASE ~OrderBindable(t, o, q)
  <2>1. Answer(th) /\ UNCHANGED accessVars
    BY <1>3, <1>5, <1>8 DEF BindOrderStep
  <2>2. QED
    BY <1>1, <1>2, <2>1, AnswerOnly
<1>9. CASE OrderBindable(t, o, q)
  <2>1. /\ BindOrder(t, o, q, at)
        /\ threads' = [threads EXCEPT ![th].pc = "confirm", ![th].token = TokenOf(o)]
    BY <1>3, <1>5, <1>7, <1>9 DEF BindOrderStep
  <2>2. PICK token \in Nat : token = TokenOf(o)
    BY <1>1, BindingTypes DEF TokenOf, BindingTyped
  <2>3. CASE order_bindings[o] # None
    <3>1. UNCHANGED accessVars
      BY <2>1, <2>3 DEF BindOrder, accessVars
    <3>2. QED
      BY <1>1, <1>2, <1>3, <1>4, <2>1, <2>2, <3>1, TablesStay, ConfirmNext
  <2>4. CASE order_bindings[o] = None
    <3> DEFINE row == FirstBinding(t, q, at)
    <3>1. /\ order_bindings' = [order_bindings EXCEPT ![o] = row]
          /\ UNCHANGED <<tenants, quote_bindings>>
      BY <2>1, <2>4 DEF BindOrder
    <3>2. row \in OrderBinding /\ row.tenant = t /\ row.quote = q /\ row # None
      <4>1. at + TokenTTL \in Nat
        BY AccessAssumption
      <4>2. row \in OrderBinding /\ row.tenant = t /\ row.quote = q
        BY <4>1 DEF FirstBinding, OrderBinding
      <4>3. QED
        BY <4>2, AccessAssumption
    <3>3. /\ order_bindings'[o] = row
          /\ \A other \in OrderIds \ {o} : order_bindings'[other] = order_bindings[other]
      BY <1>1, <3>1 DEF AccessTypeOK
    <3>4. AccessTypeOK'
      BY <1>1, <3>1, <3>2 DEF AccessTypeOK
    <3> HIDE DEF row
    <3>5. TokensAge
      <4>1. \A p \in OrderIds : order_bindings[p] # None => order_bindings[p].token \in Nat
        BY <1>1, BindingTypes DEF BindingTyped
      <4>2. QED
        BY <2>4, <3>3, <4>1 DEF TokensAge
    <3>6. AccessAges
      BY <1>1, <3>1, <3>5, TenantsUntouched DEF AccessAges, OwnersStay
    <3>7. \A s \in Tenants : BoundQuotes(s)' = BoundQuotes(s)
      BY <3>1 DEF BoundQuotes
    <3>8. \A s \in Tenants \ {t} : BoundOrders(s)' = BoundOrders(s)
      BY <2>4, <3>2, <3>3 DEF BoundOrders
    <3>9. BoundOrders(t)' = BoundOrders(t) \cup {o}
      BY <3>2, <3>3 DEF BoundOrders
    <3>10. Cardinality(BoundOrders(t)) < MaxOrders
      <4>1. ~Ordered(t, q)
        BY <1>9, <2>4 DEF Ordered, BoundOrders, OrderBindable
      <4>2. QED
        BY <1>1, <1>3, <1>4, <1>5, <4>1 DEF ApiInv, ThreadsOK, ThreadOK, Creating, At, TenantOf
    <3>11. QuotasKept'
      <4>1. /\ IsFiniteSet(BoundOrders(t)) /\ Cardinality(BoundOrders(t)) <= MaxOrders
            /\ MaxOrders \in Nat
        BY ApiAssumption DEF ApiInv, TablesOK, QuotasKept
      <4>2. IsFiniteSet(BoundOrders(t)') /\ Cardinality(BoundOrders(t)') <= MaxOrders
        BY <3>9, <3>10, <4>1, OneMore
      <4>3. QED
        BY <3>7, <3>8, <4>2 DEF ApiInv, TablesOK, QuotasKept
    <3>12. BindingsAgree'
      <4>1. \A p \in OrderIds : (Exists(p))' <=> Exists(p)
        BY <1>1 DEF vars, Exists
      <4>2. \A s : BoundQuotes(s)' = BoundQuotes(s)
        BY <3>1 DEF BoundQuotes
      <4>3. Exists(o)
        BY <1>9 DEF OrderBindable
      <4>4. QED
        BY <1>6, <3>2, <3>3, <4>1, <4>2, <4>3 DEF ApiInv, TablesOK, BindingsAgree, Placed
    <3>13. TablesOK'
      BY <1>1, <3>1, <3>11, <3>12, TenantsUntouched, AccessWrites
    <3>14. QED
      BY <1>1, <1>2, <1>3, <1>4, <2>1, <2>2, <3>4, <3>6, <3>13, ConfirmNext
  <2>5. QED
    BY <2>3, <2>4
<1>10. QED
  BY <1>8, <1>9

(* A row of the binding table is written anew for the same owner and quote. *)
LEMMA RowRewritten ==
    ASSUME ApiInv, NEW o \in OrderIds, NEW row \in OrderBinding, order_bindings[o] # None,
           order_bindings' = [order_bindings EXCEPT ![o] = row],
           UNCHANGED <<tenants, quote_bindings, vars>>,
           row.tenant = order_bindings[o].tenant, row.quote = order_bindings[o].quote,
           order_bindings[o].token <= row.token,
           row.token_state = "active" => order_bindings[o].token_state = "active",
           row.token = order_bindings[o].token => row.expires_at = order_bindings[o].expires_at
    PROVE  AccessTypeOK' /\ AccessAges /\ TablesOK' /\ SameCounts
<1>1. ApiTypeOK /\ AccessTypeOK
  BY DEF ApiInv, ApiTypeOK
<1>2. /\ order_bindings'[o] = row /\ row # None
      /\ \A other \in OrderIds \ {o} : order_bindings'[other] = order_bindings[other]
  BY <1>1, AccessAssumption DEF AccessTypeOK
<1>3. AccessTypeOK'
  BY <1>1 DEF AccessTypeOK
<1>4. TokensAge
  <2>1. \A p \in OrderIds : order_bindings[p] # None => order_bindings[p].token \in Nat
    BY <1>1, BindingTypes DEF BindingTyped
  <2>2. QED
    BY <1>2, <2>1 DEF TokensAge
<1>5. AccessAges
  BY <1>4, TenantsUntouched DEF AccessAges, OwnersStay
<1>6. SameCounts
  BY <1>2 DEF SameCounts, BoundQuotes, BoundOrders
<1>7. QuotasKept'
  BY <1>6 DEF SameCounts, ApiInv, TablesOK, QuotasKept
<1>8. BindingsAgree'
  <2>1. \A p \in OrderIds : (Exists(p))' <=> Exists(p)
    BY DEF vars, Exists
  <2>2. \A s : BoundQuotes(s)' = BoundQuotes(s)
    BY DEF BoundQuotes
  <2>3. QED
    BY <1>2, <2>1, <2>2 DEF ApiInv, TablesOK, BindingsAgree, Placed
<1>9. TablesOK'
  BY <1>7, <1>8, TenantsUntouched, AccessWrites
<1>10. QED
  BY <1>3, <1>5, <1>6, <1>9

LEMMA RotatePreserves ==
    ASSUME ApiInv, NEW th \in Threads, Rotate(th)
    PROVE  ApiInv'
<1>1. /\ At(th, "rotate") /\ UNCHANGED <<vars, creation_lock, interventions, crashes>>
      /\ ApiTypeOK /\ AccessTypeOK /\ ThreadOK(th)
  BY DEF Rotate, ApiInv, ApiTypeOK, ThreadsOK
<1>2. LockMoves(th, "idle") /\ LockMoves(th, "confirm")
  BY <1>1, OutsideTheLock DEF At
<1>3. PICK call \in Calls : call = CallOf(th)
  BY <1>1, RequestOf DEF At
<1>4. call.op = "rotate"
  BY <1>1, <1>3 DEF ThreadOK, OnItsWay
<1>5. PICK o \in OrderIds, token \in Nat : o = call.order /\ token = call.token
  BY <1>4, CallKinds DEF TokenCall
<1>6. PICK at \in Nat : at = threads[th].at
  BY <1>1, RequestOf DEF At
<1>7. CASE ~Presents(call.tenant, o, token)
  <2>1. Answer(th) /\ UNCHANGED accessVars
    BY <1>3, <1>5, <1>7 DEF Rotate
  <2>2. QED
    BY <1>1, <1>2, <2>1, AnswerOnly
<1>8. CASE Presents(call.tenant, o, token)
  <2>1. /\ RotateDeliveryToken(o, at)
        /\ threads' = [threads EXCEPT ![th].pc = "confirm", ![th].token = token + 1]
    BY <1>3, <1>5, <1>6, <1>8 DEF Rotate
  <2>2. order_bindings[o] # None
    BY <1>8 DEF Presents, BoundOrders
  <2> DEFINE row == [order_bindings[o] EXCEPT !.token = order_bindings[o].token + 1,
                                              !.expires_at = at + TokenTTL]
  <2>3. order_bindings[o] \in OrderBinding /\ at + TokenTTL \in Nat
    BY <1>1, <2>2, BindingTypes, AccessAssumption DEF BindingTyped
  <2>4. /\ row \in OrderBinding /\ row.tenant = order_bindings[o].tenant
        /\ row.quote = order_bindings[o].quote /\ row.token = order_bindings[o].token + 1
        /\ row.token_state = order_bindings[o].token_state
        /\ order_bindings[o].token <= row.token /\ row.token # order_bindings[o].token
    <3>1. order_bindings[o].token \in Nat /\ order_bindings[o].token + 1 \in Nat
      BY <2>3 DEF OrderBinding
    <3>2. row \in OrderBinding
      BY <2>3, <3>1 DEF OrderBinding
    <3>3. /\ row.tenant = order_bindings[o].tenant
          /\ row.quote = order_bindings[o].quote /\ row.token = order_bindings[o].token + 1
          /\ row.token_state = order_bindings[o].token_state
      BY <2>3 DEF OrderBinding
    <3>4. QED
      BY <3>1, <3>2, <3>3
  <2>5. order_bindings' = [order_bindings EXCEPT ![o] = row] /\ UNCHANGED <<tenants, quote_bindings>>
    BY <2>1 DEF RotateDeliveryToken
  <2> HIDE DEF row
  <2>6. AccessTypeOK' /\ AccessAges /\ TablesOK' /\ SameCounts
    <3>1. UNCHANGED <<tenants, quote_bindings, vars>>
      BY <1>1, <2>5
    <3>2. QED
      BY <2>2, <2>4, <2>5, <3>1, RowRewritten
  <2>7. token + 1 \in Nat
    OBVIOUS
  <2>8. QED
    BY <1>1, <1>2, <1>3, <1>4, <2>1, <2>6, <2>7, ConfirmNext
<1>9. QED
  BY <1>7, <1>8

LEMMA RevokePreserves ==
    ASSUME ApiInv, NEW th \in Threads, Revoke(th)
    PROVE  ApiInv'
<1>1. /\ At(th, "revoke") /\ UNCHANGED <<vars, creation_lock, interventions, crashes>>
      /\ Answer(th) /\ ApiTypeOK /\ AccessTypeOK /\ ThreadOK(th)
  BY DEF Revoke, ApiInv, ApiTypeOK, ThreadsOK
<1>2. LockMoves(th, "idle")
  BY <1>1, OutsideTheLock DEF At
<1>3. PICK call \in Calls : call = CallOf(th)
  BY <1>1, RequestOf DEF At
<1>4. call.op = "revoke"
  BY <1>1, <1>3 DEF ThreadOK, OnItsWay
<1>5. PICK o \in OrderIds : o = call.order
  BY <1>4, CallKinds DEF TokenCall
<1>6. CASE UNCHANGED accessVars
  BY <1>1, <1>2, <1>6, AnswerOnly
<1>7. CASE Presents(call.tenant, o, call.token) /\ RevokeDeliveryToken(o)
  <2>1. order_bindings[o] # None
    BY <1>7 DEF Presents, BoundOrders
  <2> DEFINE row == [order_bindings[o] EXCEPT !.token_state = "revoked"]
  <2>2. order_bindings[o] \in OrderBinding
    BY <1>1, <2>1, BindingTypes DEF BindingTyped
  <2>3. /\ row \in OrderBinding /\ row.tenant = order_bindings[o].tenant
        /\ row.quote = order_bindings[o].quote /\ row.token = order_bindings[o].token
        /\ row.token_state = "revoked" /\ row.expires_at = order_bindings[o].expires_at
        /\ order_bindings[o].token <= row.token
    BY <2>2 DEF OrderBinding
  <2>4. order_bindings' = [order_bindings EXCEPT ![o] = row] /\ UNCHANGED <<tenants, quote_bindings>>
    BY <1>7 DEF RevokeDeliveryToken
  <2> HIDE DEF row
  <2>5. AccessTypeOK' /\ AccessAges /\ TablesOK' /\ SameCounts
    <3>1. UNCHANGED <<tenants, quote_bindings, vars>> /\ row.token_state # "active"
      BY <1>1, <2>3, <2>4
    <3>2. QED
      BY <2>1, <2>3, <2>4, <3>1, RowRewritten
  <2>6. QED
    BY <1>1, <1>2, <2>5, AnswerMoves
<1>8. QED
  BY <1>3, <1>5, <1>6, <1>7 DEF Revoke

-------------------------------------------------------------------------------
(* The operator and the clock *)

LEMMA WorldMovesOn ==
    ASSUME ApiInv, UNCHANGED <<threads, creation_lock, crashes>>,
           interventions' \in 0 .. MaxInterventions,
           AccessTypeOK', AccessAges, TablesOK', SameCounts
    PROVE  ApiInv'
<1>1. ApiTypeOK'
  BY DEF ApiInv, ApiTypeOK
<1>2. ThreadsOK'
  BY OthersStay DEF ThreadsOK
<1>3. QED
  BY <1>1, <1>2 DEF ApiInv

LEMMA TenantRewritten ==
    ASSUME ApiInv, NEW t \in Tenants, NEW row \in Tenant,
           tenants' = [tenants EXCEPT ![t] = row],
           UNCHANGED <<quote_bindings, order_bindings, vars, threads, creation_lock, crashes>>,
           interventions' \in 0 .. MaxInterventions,
           row.state # "absent", tenants[t].api_key <= row.api_key,
           row.state = "active" => \/ tenants[t].state = "active"
                                   \/ tenants[t].state = "absent" /\ tenants[t].api_key < row.api_key
    PROVE  ApiInv'
<1>1. AccessTypeOK
  BY DEF ApiInv, ApiTypeOK
<1>2. /\ tenants'[t] = row
      /\ \A other \in Tenants \ {t} : tenants'[other] = tenants[other]
  BY <1>1 DEF AccessTypeOK
<1>3. AccessTypeOK'
  BY <1>1 DEF AccessTypeOK
<1>4. KeysAge
  <2>1. \A s \in Tenants : tenants[s].api_key \in Nat
    BY <1>1, TenantTypes
  <2>2. QED
    BY <1>2, <2>1 DEF KeysAge
<1>5. AccessAges
  <2>1. now' \in Nat /\ now <= now'
    BY DEF vars, ApiInv, TablesOK, StoreInv, TypeOK
  <2>2. QED
    BY <1>1, <1>4, <2>1, TokensUntouched DEF AccessAges, OwnersStay
<1>6. SameCounts
  BY DEF SameCounts, BoundQuotes, BoundOrders
<1>7. TenantsKnown'
  BY <1>2 DEF ApiInv, TablesOK, TenantsKnown
<1>8. QuotasKept'
  BY <1>6 DEF SameCounts, ApiInv, TablesOK, QuotasKept
<1>9. BindingsAgree'
  BY DEF vars, ApiInv, TablesOK, BindingsAgree, BoundQuotes, Placed, Exists
<1>10. TablesOK'
  BY <1>7, <1>8, <1>9, AccessWrites
<1>11. QED
  BY <1>3, <1>5, <1>6, <1>10, WorldMovesOn

LEMMA OperatorPreserves ==
    ASSUME ApiInv, NEW t \in Tenants, Provision(t) \/ Intervene(t)
    PROVE  ApiInv'
<1>1. tenants[t] \in Tenant /\ tenants[t].api_key \in Nat /\ tenants \in [Tenants -> Tenant]
  BY TenantTypes DEF ApiInv, ApiTypeOK, AccessTypeOK
<1>2. CASE Provision(t)
  <2>1. /\ tenants[t].state = "absent" /\ tenants' = [tenants EXCEPT ![t] = Fresh]
        /\ UNCHANGED <<quote_bindings, order_bindings, vars, threads, creation_lock, crashes,
                       interventions>>
    BY <1>2 DEF Provision, ProvisionTenant, threadVars
  <2>2. tenants[t].api_key = 0
    BY <2>1 DEF ApiInv, TablesOK, TenantsKnown
  <2>3. Fresh \in Tenant /\ Fresh.state = "active" /\ Fresh.api_key = 1
    BY DEF Fresh, Tenant
  <2>4. interventions' \in 0 .. MaxInterventions
    BY <2>1 DEF ApiInv, ApiTypeOK
  <2>5. /\ Fresh.state # "absent" /\ tenants[t].api_key <= Fresh.api_key
        /\ tenants[t].api_key < Fresh.api_key
    BY <2>2, <2>3
  <2>6. QED
    BY <2>1, <2>3, <2>4, <2>5, TenantRewritten
<1>3. CASE Intervene(t)
  <2>1. /\ UNCHANGED <<vars, threads, creation_lock, crashes>>
        /\ interventions' \in 0 .. MaxInterventions
    BY <1>3, ApiAssumption DEF Intervene, ApiInv, ApiTypeOK
  <2>2. CASE RotateApiKey(t)
    <3> DEFINE row == [tenants[t] EXCEPT !.api_key = tenants[t].api_key + 1]
    <3>1. /\ tenants[t].state = "active" /\ tenants' = [tenants EXCEPT ![t] = row]
          /\ UNCHANGED <<quote_bindings, order_bindings>>
      BY <1>1, <2>2 DEF RotateApiKey, Active
    <3>2. row \in Tenant /\ row.state = tenants[t].state /\ tenants[t].api_key <= row.api_key
      BY <1>1 DEF Tenant
    <3> HIDE DEF row
    <3>3. QED
      BY <2>1, <3>1, <3>2, TenantRewritten
  <2>3. CASE RevokeTenant(t)
    <3> DEFINE row == [tenants[t] EXCEPT !.state = "revoked"]
    <3>1. /\ tenants' = [tenants EXCEPT ![t] = row]
          /\ UNCHANGED <<quote_bindings, order_bindings>>
      BY <1>1, <2>3 DEF RevokeTenant
    <3>2. row \in Tenant /\ row.state = "revoked" /\ tenants[t].api_key <= row.api_key
      BY <1>1 DEF Tenant
    <3> HIDE DEF row
    <3>3. QED
      BY <2>1, <3>1, <3>2, TenantRewritten
  <2>4. QED
    BY <1>3, <2>2, <2>3 DEF Intervene
<1>4. QED
  BY <1>2, <1>3

LEMMA ClockPreserves ==
    ASSUME ApiInv, Tick, UNCHANGED <<accessVars, threadVars>>
    PROVE  ApiInv'
<1>1. AccessTypeOK /\ ApiTypeOK /\ now \in Nat /\ now' = now + 1
  BY DEF ApiInv, ApiTypeOK, TablesOK, StoreInv, TypeOK, Tick
<1>2. /\ tenants' = tenants /\ quote_bindings' = quote_bindings
      /\ order_bindings' = order_bindings /\ orders' = orders /\ quotes' = quotes
      /\ UNCHANGED <<threads, creation_lock, crashes, interventions>>
  BY DEF accessVars, threadVars, Tick
<1>3. AccessTypeOK' /\ SameCounts
  BY <1>1, <1>2 DEF AccessTypeOK, SameCounts, BoundQuotes, BoundOrders
<1>4. KeysAge
  <2>1. \A t \in Tenants : tenants[t].api_key \in Nat
    BY <1>1, TenantTypes
  <2>2. QED
    BY <1>2, <2>1 DEF KeysAge
<1>5. AccessAges
  BY <1>1, <1>2, <1>4, TokensUntouched DEF AccessAges, OwnersStay
<1>6. TablesOK'
  <2>1. StoreInv'
    BY NextInv DEF ApiInv, TablesOK, Next
  <2>2. TenantsKnown' /\ QuotasKept' /\ BindingsAgree' /\ FakeOnly'
    BY <1>2 DEF ApiInv, TablesOK, TenantsKnown, QuotasKept, BindingsAgree, FakeOnly, FakeOrder,
                BoundQuotes, BoundOrders, Placed, Exists
  <2>3. QED
    BY <2>1, <2>2 DEF TablesOK
<1>7. interventions' \in 0 .. MaxInterventions
  BY <1>1, <1>2 DEF ApiTypeOK
<1>8. QED
  BY <1>2, <1>3, <1>5, <1>6, <1>7, WorldMovesOn

-------------------------------------------------------------------------------
(* The theorems *)

LEMMA ApiInitInv == ApiInit => ApiInv
<1> SUFFICES ASSUME ApiInit PROVE ApiInv
  OBVIOUS
<1>1. AccessTypeOK
  BY AccessAssumption DEF ApiInit, AccessInit, AccessTypeOK, Tenant, Fresh, NoTenant
<1>2. ApiTypeOK
  <2>1. Idle \in Thread /\ Idle.pc = "idle"
    BY DEF Thread, Idle
  <2>2. None \notin Threads /\ MaxInterventions \in Nat /\ MaxCrashes \in Nat
    BY ApiAssumption
  <2>3. QED
    BY <1>1, <2>1, <2>2 DEF ApiInit, ApiTypeOK
<1>3. StoreInv
  BY InitInv DEF ApiInit
<1>4. TenantsKnown
  BY DEF ApiInit, AccessInit, TenantsKnown, Fresh, NoTenant
<1>5. Placed = {}
  BY DEF ApiInit, Init, Placed, Exists, NoOrder
<1>6. FakeOnly /\ BindingsAgree
  BY <1>5 DEF ApiInit, Init, AccessInit, FakeOnly, BindingsAgree
<1>7. QuotasKept
  <2>1. \A t \in Tenants : BoundQuotes(t) = {} /\ BoundOrders(t) = {}
    BY DEF ApiInit, AccessInit, BoundQuotes, BoundOrders
  <2>2. QED
    BY <2>1, ApiAssumption, FS_EmptySet DEF QuotasKept
<1>8. ThreadsOK
  BY DEF ApiInit, Init, ThreadsOK, ThreadOK, Idle, OnItsWay, Dated, Entitled, Creating, At, CallOf
<1>9. QED
  BY <1>2, <1>3, <1>4, <1>6, <1>7, <1>8 DEF ApiInv, TablesOK

LEMMA RequestPreserves ==
    ASSUME ApiInv, NEW th \in Threads, RunRequest(th)
    PROVE  ApiInv'
  BY AuthenticatePreserves, AuthorizeQuotePreserves, EnterCreationPreserves,
     StoreQuotePreserves, StoreOrderPreserves, BindQuoteStepPreserves,
     BindOrderStepPreserves, TestsPreserve, CheckoutPreserves, ReadPreserves,
     RotatePreserves, RevokePreserves DEF RunRequest

LEMMA ApiStep == ApiInv /\ [ApiNext]_apiVars => ApiInv'
<1> SUFFICES ASSUME ApiInv, [ApiNext]_apiVars PROVE ApiInv'
  OBVIOUS
<1>1. CASE \E th \in Threads, call \in Calls : Receive(th, call)
  BY <1>1, ReceivePreserves
<1>2. CASE \E th \in Threads : RunRequest(th)
  BY <1>2, RequestPreserves
<1>3. CASE \E t \in Tenants : Provision(t) \/ Intervene(t)
  BY <1>3, OperatorPreserves
<1>4. CASE Crash
  BY <1>4, CrashPreserves
<1>5. CASE Tick /\ UNCHANGED <<accessVars, threadVars>>
  BY <1>5, ClockPreserves
<1>6. CASE UNCHANGED apiVars
  <2>1. UNCHANGED <<vars, accessVars, threads, creation_lock, interventions, crashes>>
    BY <1>6 DEF apiVars, threadVars
  <2>2. interventions' \in 0 .. MaxInterventions
    BY <2>1 DEF ApiInv, ApiTypeOK
  <2>3. QED
    BY <2>1, <2>2, TablesStay, WorldMovesOn
<1>7. QED
  BY <1>1, <1>2, <1>3, <1>4, <1>5, <1>6 DEF ApiNext

(* What the theorems below follow from: however requests, the operator, the *)
(* clock and crashes interleave, tables, threads and lock keep to this      *)
(* (commerce_api.py:395-461, commerce_access.py:434-551).                   *)
THEOREM ApiSafe == ApiSpec => []ApiInv
  BY ApiInitInv, ApiStep, PTL DEF ApiSpec

(* Every request is a sequence of calls of CommerceStore, whatever it was   *)
(* interrupted by: the boundary adds nothing to what the store can do       *)
(* (commerce_api.py:395-461).                                               *)
THEOREM ApiUsesStore == ApiSpec => Spec
<1>1. ApiInit => Init
  BY DEF ApiInit
<1>2. ApiInv /\ [ApiNext]_apiVars => [Next]_vars
  BY StepIsStoreStep
<1>3. QED
  BY <1>1, <1>2, ApiSafe, PTL DEF ApiSpec, Spec

(* Every column of the access tables holds a value of its type, and the     *)
(* lock is held by the thread that is inside it (commerce_api.py:395-453).  *)
THEOREM ApiTypes == ApiSpec => []ApiTypeOK
<1>1. ApiInv => ApiTypeOK
  BY DEF ApiInv
<1>2. QED
  BY <1>1, ApiSafe, PTL

(* Whatever a request that stopped half way left behind, an order is its    *)
(* quote's tenant's, and so is its binding (commerce_api.py:432-453).       *)
THEOREM OrdersStayWithTheirTenant == ApiSpec => []BindingsAgree
<1>1. ApiInv => BindingsAgree
  BY DEF ApiInv, TablesOK
<1>2. QED
  BY <1>1, ApiSafe, PTL

(* The quotas hold for every number of threads, because the creation lock   *)
(* covers the count and the binding (commerce_api.py:395-453).              *)
THEOREM QuotasAlwaysHold == ApiSpec => []QuotasHold
<1>1. ApiInv => QuotasHold
  BY DEF ApiInv, TablesOK, QuotasKept, QuotasHold
<1>2. QED
  BY <1>1, ApiSafe, PTL

(* A request that came with a retired key or token neither reads nor writes,*)
(* whatever keys and tokens were replaced since it arrived                  *)
(* (commerce_access.py:434-551).                                            *)
THEOREM RetiredCredentialsStayOut == ApiSpec => []RetiredStaysOut
<1>1. ApiInv => RetiredStaysOut
  BY DEF ApiInv, ThreadsOK, ThreadOK, Entitled, RetiredStaysOut
<1>2. QED
  BY <1>1, ApiSafe, PTL

LEMMA RetryHolds ==
    ASSUME ApiInv
    PROVE  RetryCompletes
<1> SUFFICES ASSUME NEW o \in Placed, NEW t, t = o[3], Repeatable(t, o)
             PROVE  RepeatPasses(t, o)
  BY DEF RetryCompletes
<1>0. /\ Active(t)
      /\ order_bindings[o] # None =>
           order_bindings[o].token_state = "active" /\ now < order_bindings[o].expires_at
      /\ order_bindings[o] = None => Cardinality(BoundOrders(t)) < MaxOrders
  BY DEF Repeatable
<1>1. o \in OrderIds /\ Exists(o)
  BY DEF Placed
<1>2. QuoteOf(o) \in BoundQuotes(t) /\ BindingsAgree
  BY DEF ApiInv, TablesOK, BindingsAgree
<1>3. OwnsQuote(t, QuoteOf(o))
  BY <1>0, <1>2 DEF OwnsQuote
<1>4. ASSUME NEW other \in OrderIds \ {o}, order_bindings[other] # None
      PROVE  order_bindings[other].quote # QuoteOf(o)
  <2>1. other \in Placed /\ order_bindings[other].quote = QuoteOf(other)
    BY <1>2, <1>4 DEF BindingsAgree, Placed
  <2>2. QED
    BY <2>1 DEF ApiInv, TablesOK, StoreInv, IdentitiesUnique
<1>5. order_bindings[o] # None =>
        order_bindings[o].tenant = t /\ order_bindings[o].quote = QuoteOf(o)
  BY <1>1, <1>2 DEF BindingsAgree
<1>6. OrderBindable(t, o, QuoteOf(o))
  BY <1>0, <1>1, <1>2, <1>4, <1>5 DEF OrderBindable
<1>7. order_bindings[o] # None => HasOrder(t, QuoteOf(o))
  BY <1>0, <1>1, <1>5 DEF HasOrder, BoundOrders
<1>8. HasOrder(t, QuoteOf(o)) \/ Cardinality(BoundOrders(t)) < MaxOrders
  BY <1>0, <1>7
<1>9. order_bindings[o] # None => Authorizes(t, o, TokenOf(o), now)
  BY <1>0, <1>1, <1>5 DEF Authorizes, TokenOf, BoundOrders
<1>10. FakeOrder(o) /\ FakePaymentId[o] # None
  BY <1>1, FakeIsFake DEF ApiInv, TablesOK, FakeOnly
<1>11. \A other \in OrderIds \ {o} : /\ orders[other].checkout # FakePaymentId[o]
                                    /\ orders[other].payment # FakePaymentId[o]
  <2>1. ASSUME NEW other \in OrderIds \ {o}
        PROVE  /\ orders[other].checkout \in {None, FakePaymentId[other]}
               /\ orders[other].payment \in {None, FakePaymentId[other]}
    <3>1. CASE other \in Placed
      BY <3>1 DEF ApiInv, TablesOK, FakeOnly, FakeOrder
    <3>2. CASE other \notin Placed
      <4>1. orders[other] = NoOrder
        BY <3>2 DEF ApiInv, TablesOK, StoreInv, RowsInv, AbsentBlank, Placed, Exists
      <4>2. QED
        BY <4>1 DEF NoOrder
    <3>3. QED
      BY <3>1, <3>2
  <2>2. QED
    BY <1>1, <2>1, FakeIsFake
<1>12. orders[o].checkout \in {None, FakePaymentId[o]}
  BY <1>10 DEF FakeOrder
<1>13. orders[o].checkout = None => AllowedOrder(orders[o].order_status, "payment_pending")
  BY <1>10 DEF FakeOrder, AllowedOrder, ORDER_TRANSITIONS
<1>14. QED
  BY <1>3, <1>6, <1>8, <1>9, <1>11, <1>12, <1>13 DEF RepeatPasses, CheckoutFree, PaymentFree

(* A request that stopped after the order or its binding was stored can be  *)
(* repeated to the end while its token lives: with the tenant active, and   *)
(* either a place left in the quota or a binding that is neither revoked    *)
(* nor expired, no test of the repetition refuses it                        *)
(* (commerce_api.py:421-461, commerce_access.py:462).                       *)
THEOREM RetriesComplete == ApiSpec => []RetryCompletes
<1>1. ApiInv => RetryCompletes
  BY RetryHolds
<1>2. QED
  BY <1>1, ApiSafe, PTL

LEMMA SameBinding ==
    ASSUME NEW o \in OrderIds, order_bindings[o] # None, order_bindings'[o] = order_bindings[o]
    PROVE  BindingEvolves(order_bindings[o], order_bindings'[o], o)
  BY DEF BindingEvolves

(* The four steps that write a binding: one makes it, two replace its token, *)
(* or revoke it, and nothing else writes the table.                         *)
LEMMA BindingStep ==
    ASSUME ApiInv, [ApiNext]_apiVars, NEW o \in OrderIds, order_bindings[o] # None
    PROVE  BindingEvolves(order_bindings[o], order_bindings'[o], o)
<1>1. ApiTypeOK /\ AccessTypeOK /\ order_bindings \in [OrderIds -> OrderBinding \cup {None}]
  BY DEF ApiInv, ApiTypeOK, AccessTypeOK
<1>2. order_bindings[o] \in OrderBinding /\ order_bindings[o].token \in Nat
  BY <1>1, BindingTypes DEF BindingTyped
<1>3. ASSUME NEW th \in Threads, BindOrderStep(th)
      PROVE  BindingEvolves(order_bindings[o], order_bindings'[o], o)
  <2>1. \/ UNCHANGED order_bindings
        \/ \E p, row : /\ order_bindings[p] = None
                       /\ order_bindings' = [order_bindings EXCEPT ![p] = row]
    BY <1>3 DEF BindOrderStep, BindOrder, accessVars
  <2>2. order_bindings'[o] = order_bindings[o]
    BY <1>1, <2>1
  <2>3. QED
    BY <2>2, SameBinding
<1>4. ASSUME NEW th \in Threads, Rotate(th)
      PROVE  BindingEvolves(order_bindings[o], order_bindings'[o], o)
  <2>1. CASE UNCHANGED accessVars
    BY <2>1, SameBinding DEF accessVars
  <2>2. CASE CallOf(th).order # o /\ RotateDeliveryToken(CallOf(th).order, threads[th].at)
    <3>1. order_bindings'[o] = order_bindings[o]
      BY <1>1, <2>2 DEF RotateDeliveryToken
    <3>2. QED
      BY <3>1, SameBinding
  <2>3. CASE /\ CallOf(th).order = o /\ RotateDeliveryToken(o, threads[th].at)
             /\ Presents(CallOf(th).tenant, o, CallOf(th).token)
    <3>1. order_bindings'[o] = [order_bindings[o] EXCEPT !.token = order_bindings[o].token + 1,
                                                         !.expires_at = threads[th].at + TokenTTL]
      BY <1>1, <2>3 DEF RotateDeliveryToken
    <3>2. /\ order_bindings'[o].tenant = order_bindings[o].tenant
          /\ order_bindings'[o].quote = order_bindings[o].quote
          /\ order_bindings'[o].token = order_bindings[o].token + 1
      BY <1>2, <3>1 DEF OrderBinding
    <3>3. order_bindings'[o] \in OrderBinding
      <4>1. threads[th].at \in Nat /\ threads[th].at + TokenTTL \in Nat
        <5>1. threads[th].at \in Nat
          BY <1>1, <1>4, RequestOf DEF Rotate, At
        <5>2. QED
          BY <5>1, AccessAssumption
      <4>2. PICK next \in Nat, until \in Nat :
               next = order_bindings[o].token + 1 /\ until = threads[th].at + TokenTTL
        BY <1>2, <4>1
      <4>3. order_bindings'[o] = [order_bindings[o] EXCEPT !.token = next, !.expires_at = until]
        BY <3>1, <4>2
      <4>4. QED
        BY <1>2, <4>3 DEF OrderBinding
    <3>4. order_bindings'[o] # None
      BY <3>3, AccessAssumption
    <3>5. /\ order_bindings[o].token_state = "active" /\ CallOf(th).token = order_bindings[o].token
          /\ At(th, "rotate")
      BY <1>4, <2>3 DEF Presents, Rotate
    <3>6. QED
      BY <2>3, <3>2, <3>4, <3>5 DEF BindingEvolves
  <2>4. QED
    BY <1>4, <2>1, <2>2, <2>3 DEF Rotate
<1>5. ASSUME NEW th \in Threads, Revoke(th)
      PROVE  BindingEvolves(order_bindings[o], order_bindings'[o], o)
  <2>1. CASE UNCHANGED accessVars
    BY <2>1, SameBinding DEF accessVars
  <2>2. CASE CallOf(th).order # o /\ RevokeDeliveryToken(CallOf(th).order)
    <3>1. order_bindings'[o] = order_bindings[o]
      BY <1>1, <2>2 DEF RevokeDeliveryToken
    <3>2. QED
      BY <3>1, SameBinding
  <2>3. CASE CallOf(th).order = o /\ RevokeDeliveryToken(o)
    <3>1. order_bindings'[o] = [order_bindings[o] EXCEPT !.token_state = "revoked"]
      BY <1>1, <2>3 DEF RevokeDeliveryToken
    <3>2. /\ order_bindings'[o].tenant = order_bindings[o].tenant
          /\ order_bindings'[o].quote = order_bindings[o].quote
          /\ order_bindings'[o].token = order_bindings[o].token
          /\ order_bindings'[o].token_state = "revoked"
      BY <1>2, <3>1 DEF OrderBinding
    <3>3. order_bindings'[o] # None
      <4>1. order_bindings'[o] \in OrderBinding
        BY <1>2, <3>1 DEF OrderBinding
      <4>2. QED
        BY <4>1, AccessAssumption
    <3>4. QED
      BY <3>2, <3>3 DEF BindingEvolves
  <2>4. QED
    BY <1>5, <2>1, <2>2, <2>3 DEF Revoke
<1>6. UNCHANGED order_bindings \/ \E th \in Threads : BindOrderStep(th) \/ Rotate(th) \/ Revoke(th)
  <2>1. ASSUME NEW th \in Threads, RunRequest(th)
        PROVE  UNCHANGED order_bindings \/ BindOrderStep(th) \/ Rotate(th) \/ Revoke(th)
    <3>1. CASE \/ Authenticate(th) \/ AuthorizeQuote(th) \/ EnterCreation(th) \/ Confirm(th)
               \/ Authorize(th) \/ AuthorizeResult(th) \/ Read(th) \/ Checkout(th)
      BY <3>1 DEF Authenticate, AuthorizeQuote, EnterCreation, Confirm, Authorize,
                  AuthorizeResult, Read, Checkout, Check, accessVars
    <3>2. CASE StoreQuote(th) \/ StoreOrder(th)
      BY <3>2 DEF StoreQuote, StoreOrder, Leave, accessVars
    <3>3. CASE BindQuoteStep(th)
      BY <3>3 DEF BindQuoteStep, BindQuote, accessVars
    <3>4. QED
      BY <2>1, <3>1, <3>2, <3>3 DEF RunRequest
  <2>2. ASSUME NEW th \in Threads, NEW call \in Calls, Receive(th, call)
        PROVE  UNCHANGED order_bindings
    BY <2>2 DEF Receive, accessVars
  <2>3. ASSUME NEW t \in Tenants, Provision(t) \/ Intervene(t) PROVE UNCHANGED order_bindings
    BY <2>3 DEF Provision, ProvisionTenant, Intervene, RotateApiKey, RevokeTenant
  <2>4. CASE Crash \/ (Tick /\ UNCHANGED <<accessVars, threadVars>>) \/ UNCHANGED apiVars
    BY <2>4 DEF Crash, apiVars, accessVars
  <2>5. QED
    BY <2>1, <2>2, <2>3, <2>4 DEF ApiNext
<1>7. QED
  BY <1>3, <1>4, <1>5, <1>6, SameBinding

(* A capability is spent once, whoever was authorised with it before, and   *)
(* neither its revocation nor its owner is ever undone                      *)
(* (commerce_access.py:490-510, :531-540).                                  *)
THEOREM TokensAreSpentOnce == ApiSpec => CapabilitiesAreSpentOnce
<1>1. ApiInv /\ [ApiNext]_apiVars =>
        [\A o \in OrderIds : order_bindings[o] # None =>
            BindingEvolves(order_bindings[o], order_bindings'[o], o)]_apiVars
  BY BindingStep
<1>2. QED
  BY <1>1, ApiSafe, PTL DEF ApiSpec, CapabilitiesAreSpentOnce
===============================================================================
