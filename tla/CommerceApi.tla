----------------------------- MODULE CommerceApi -----------------------------
(***************************************************************************)
(* commerce_api.py: the authenticated HTTP boundary over the commerce      *)
(* store and the access tables.                                            *)
(*                                                                         *)
(* Every request runs in a thread of its own.  Each call it makes is a     *)
(* transaction and so a step here; creation_lock covers the quota check,   *)
(* the store and the binding of one creation and nothing else.  A client   *)
(* may repeat any call at any time, the operator may rotate a key or       *)
(* revoke a tenant between any two steps, and the process may die.         *)
(* Payment is the fake provider's; Stripe's is StripePayments.  What comes *)
(* after the checkout (payment, work, the published result) writes none of *)
(* the columns these requests write and is in CommerceStore, Fulfillment.  *)
(***************************************************************************)
EXTENDS CommerceAccess

CONSTANTS
    Threads,            \* request threads
    Calls,              \* the requests clients make
    FakePaymentId,      \* FakePaymentProvider._payment_id
    MaxQuotes, MaxOrders,   \* max_quotes_per_tenant, max_orders_per_tenant
    MaxInterventions,   \* bound on what the operator does to tenants it has provisioned
    MaxCrashes          \* bound on the times the process dies

QuoteCall == [op: {"quote"}, tenant: Tenants, api_key: Nat, key: ClientKeys, request: Requests]
OrderCall == [op: {"order"}, tenant: Tenants, api_key: Nat, key: ClientKeys, quote: QuoteIds]
TokenCall == [op: {"status", "result", "rotate", "revoke"}, tenant: Tenants, api_key: Nat,
              order: OrderIds, token: Nat]

QuoteFor(call) == <<call.tenant, call.key>>
OrderFor(call) == IF call \in TokenCall THEN call.order
                  ELSE <<call.quote, <<call.tenant, call.key>>, call.tenant>>

ASSUME ApiAssumption ==
    /\ Environment = "sandbox"
    /\ Calls \subseteq QuoteCall \cup OrderCall \cup TokenCall
    /\ \A call \in Calls : IF call.op = "quote" THEN QuoteFor(call) \in QuoteIds
                           ELSE OrderFor(call) \in OrderIds
    /\ FakePaymentId \in [OrderIds -> FakeIds]
    /\ \A o, p \in OrderIds : FakePaymentId[o] = FakePaymentId[p] => o = p
    /\ MaxQuotes \in Nat \ {0} /\ MaxOrders \in Nat \ {0}
    /\ MaxInterventions \in Nat /\ MaxCrashes \in Nat
    /\ None \notin Calls \cup Threads

VARIABLES
    threads,        \* per thread, where it is, its call, the clock it read and its token
    creation_lock,  \* the thread inside "with creation_lock"
    interventions, crashes

threadVars == <<threads, creation_lock, interventions, crashes>>
apiVars    == <<vars, accessVars, threadVars>>

Idle == [pc |-> "idle", call |-> None, at |-> 0, token |-> 0, live |-> FALSE]

(* "live" is not in the code: it remembers whether the credentials the      *)
(* request carries were good when it arrived.                               *)
Thread ==
    {Idle} \cup
    [pc: {"authenticate", "authorize_quote", "create", "store", "bind", "authorize", "rotate",
          "revoke", "confirm", "checkout", "authorize_result", "read"},
     call: Calls, at: Nat, token: Nat, live: BOOLEAN]

ApiTypeOK ==
    /\ AccessTypeOK
    /\ threads \in [Threads -> Thread]
    /\ creation_lock \in Threads \cup {None}
    /\ \A th \in Threads : threads[th].pc \in {"store", "bind"} <=> creation_lock = th
    /\ interventions \in 0 .. MaxInterventions /\ crashes \in 0 .. MaxCrashes

ApiInit ==
    /\ Init /\ AccessInit
    /\ threads = [th \in Threads |-> Idle]
    /\ creation_lock = None
    /\ interventions = 0 /\ crashes = 0

At(th, pc)   == threads[th].pc = pc
CallOf(th)   == threads[th].call
TenantOf(th) == CallOf(th).tenant
GoTo(th, pc) == threads' = [threads EXCEPT ![th].pc = pc]
Answer(th)   == threads' = [threads EXCEPT ![th] = Idle]

(* One test of a request: it goes on or is answered with an error. *)
Check(th, passes, next) ==
    /\ IF passes THEN GoTo(th, next) ELSE Answer(th)
    /\ UNCHANGED <<vars, accessVars, creation_lock, interventions, crashes>>

\* mutant: a refused creation keeps the lock
Leave_KeepsLock(th) == Answer(th) /\ UNCHANGED <<creation_lock, vars, accessVars>>

(* An exception leaves the "with creation_lock" block. *)
Leave(th) == Answer(th) /\ creation_lock' = None /\ UNCHANGED <<vars, accessVars>>

-------------------------------------------------------------------------------
(* Every request *)

Issued(call) ==
    /\ call.api_key <= tenants[call.tenant].api_key
    /\ call \in TokenCall => /\ order_bindings[call.order] # None
                             /\ call.token <= order_bindings[call.order].token

Live(call) ==
    /\ Authenticates(call.tenant, call.api_key)
    /\ call \in TokenCall => Authorizes(call.tenant, call.order, call.token, now)

Receive(th, call) ==
    /\ At(th, "idle") /\ Issued(call)
    /\ threads' = [threads EXCEPT ![th] =
         [pc |-> "authenticate", call |-> call, at |-> 0, token |-> 0, live |-> Live(call)]]
    /\ UNCHANGED <<vars, accessVars, creation_lock, interventions, crashes>>

FirstStep(op) ==
    CASE op = "quote" -> "create" [] op = "order" -> "authorize_quote" [] OTHER -> "authorize"

(* The clock is read once, after authentication. *)
Authenticate(th) ==
    /\ At(th, "authenticate")
    /\ IF Authenticates(TenantOf(th), CallOf(th).api_key)
       THEN threads' = [threads EXCEPT ![th].pc = FirstStep(CallOf(th).op), ![th].at = now]
       ELSE Answer(th)
    /\ UNCHANGED <<vars, accessVars, creation_lock, interventions, crashes>>

-------------------------------------------------------------------------------
(* POST quotes and POST orders *)

AuthorizeQuote(th) ==
    At(th, "authorize_quote") /\ Check(th, OwnsQuote(TenantOf(th), CallOf(th).quote), "create")

\* mutant: the lock is not taken
Unlocked_Always == TRUE

Unlocked == creation_lock = None

(* tenant_resource_counts raises for a tenant that is not active. *)
WithinQuota(call) ==
    LET t == call.tenant IN
    IF call.op = "quote"
    THEN OwnsQuote(t, QuoteFor(call)) \/ (Active(t) /\ Cardinality(BoundQuotes(t)) < MaxQuotes)
    ELSE HasOrder(t, call.quote) \/ (Active(t) /\ Cardinality(BoundOrders(t)) < MaxOrders)

(* Only the thread that holds the lock changes what the quota counts. *)
EnterCreation(th) ==
    /\ At(th, "create") /\ Unlocked
    /\ IF WithinQuota(CallOf(th)) THEN GoTo(th, "store") /\ creation_lock' = th
                                  ELSE Answer(th) /\ UNCHANGED creation_lock
    /\ UNCHANGED <<vars, accessVars, interventions, crashes>>

(* A quote declined for its price is answered without being stored; one      *)
(* that is stored is returned only if it is the same to the second.         *)
StoreQuote(th) ==
    LET call == CallOf(th)
        q    == QuoteFor(call)
        row  == [request |-> call.request, provider |-> "fake", generated_at |-> threads[th].at,
                 expires_at |-> threads[th].at + TTL["fake"]]
    IN /\ At(th, "store") /\ call.op = "quote"
       /\ \/ /\ CreateQuote(q, call.request, "fake", threads[th].at)
             /\ GoTo(th, "bind") /\ UNCHANGED <<accessVars, creation_lock>>
          \/ /\ MaxPrice[call.request] >= QuotedAmount /\ quotes[q] = row
             /\ GoTo(th, "bind") /\ UNCHANGED <<vars, accessVars, creation_lock>>
          \/ /\ MaxPrice[call.request] < QuotedAmount \/ quotes[q] \notin {None, row}
             /\ Leave(th)
       /\ UNCHANGED <<interventions, crashes>>

Orderable(q, key, at) ==
    /\ \A other \in Placed : KeyOf(other) # key /\ QuoteOf(other) # q
    /\ quotes[q] # None /\ at < quotes[q].expires_at

StoreOrder(th) ==
    LET call == CallOf(th)
        key  == <<call.tenant, call.key>>
        o    == OrderFor(call)
    IN /\ At(th, "store") /\ call.op = "order"
       /\ \/ /\ CreateOrder(call.quote, key, call.tenant, threads[th].at)
             /\ GoTo(th, "bind") /\ UNCHANGED <<accessVars, creation_lock>>
          \/ Exists(o) /\ GoTo(th, "bind") /\ UNCHANGED <<vars, accessVars, creation_lock>>
          \/ ~Exists(o) /\ ~Orderable(call.quote, key, threads[th].at) /\ Leave(th)
       /\ UNCHANGED <<interventions, crashes>>

BindQuoteStep(th) ==
    LET call == CallOf(th) IN
    /\ At(th, "bind") /\ call.op = "quote"
    /\ IF QuoteBindable(call.tenant, QuoteFor(call), call.key)
       THEN BindQuote(call.tenant, QuoteFor(call), call.key) ELSE UNCHANGED accessVars
    /\ Answer(th) /\ creation_lock' = None
    /\ UNCHANGED <<vars, interventions, crashes>>

BindOrderStep(th) ==
    LET call == CallOf(th)
        o    == OrderFor(call)
    IN /\ At(th, "bind") /\ call.op = "order"
       /\ IF OrderBindable(call.tenant, o, call.quote)
          THEN /\ BindOrder(call.tenant, o, call.quote, threads[th].at)
               /\ threads' = [threads EXCEPT ![th].pc = "confirm", ![th].token = TokenOf(o)]
          ELSE Answer(th) /\ UNCHANGED accessVars
       /\ creation_lock' = None
       /\ UNCHANGED <<vars, interventions, crashes>>

(* The token is authorised before the checkout, or the answer, goes out. *)
Confirm(th) ==
    LET call == CallOf(th) IN
    /\ At(th, "confirm")
    /\ Check(th, /\ call.op = "order"
                 /\ Authorizes(call.tenant, OrderFor(call), threads[th].token, threads[th].at),
             "checkout")

Checkout(th) ==
    LET o == OrderFor(CallOf(th)) IN
    /\ At(th, "checkout")
    /\ IF orders[o].checkout = None THEN AttachCheckout(o, FakePaymentId[o], FakePaymentId[o])
                                    ELSE UNCHANGED vars
    /\ Answer(th)
    /\ UNCHANGED <<accessVars, creation_lock, interventions, crashes>>

-------------------------------------------------------------------------------
(* GET order, GET result, rotate and revoke *)

Granted(op) ==
    CASE op = "status" -> "read" [] op = "result" -> "authorize_result" [] OTHER -> op

Authorize(th) ==
    LET call == CallOf(th) IN
    /\ At(th, "authorize")
    /\ Check(th, Authorizes(call.tenant, call.order, call.token, threads[th].at), Granted(call.op))

(* get_result authorises once more, in a transaction before the one that reads. *)
AuthorizeResult(th) ==
    LET call == CallOf(th) IN
    /\ At(th, "authorize_result")
    /\ Check(th, Authorizes(call.tenant, call.order, call.token, threads[th].at), "read")

Read(th) ==
    /\ At(th, "read") /\ Answer(th)
    /\ UNCHANGED <<vars, accessVars, creation_lock, interventions, crashes>>

Rotate(th) ==
    LET call == CallOf(th) IN
    /\ At(th, "rotate")
    /\ IF Presents(call.tenant, call.order, call.token)
       THEN /\ RotateDeliveryToken(call.order, threads[th].at)
            /\ threads' = [threads EXCEPT ![th].pc = "confirm", ![th].token = call.token + 1]
       ELSE Answer(th) /\ UNCHANGED accessVars
    /\ UNCHANGED <<vars, creation_lock, interventions, crashes>>

Revoke(th) ==
    LET call == CallOf(th) IN
    /\ At(th, "revoke")
    /\ IF Presents(call.tenant, call.order, call.token) THEN RevokeDeliveryToken(call.order)
                                                        ELSE UNCHANGED accessVars
    /\ Answer(th)
    /\ UNCHANGED <<vars, creation_lock, interventions, crashes>>

-------------------------------------------------------------------------------
(* The rest of the system *)

(* The threads and the lock die with the process; the file is what remains. *)
Crash ==
    /\ crashes < MaxCrashes /\ \E th \in Threads : ~At(th, "idle")
    /\ threads' = [th \in Threads |-> Idle] /\ creation_lock' = None
    /\ crashes' = crashes + 1
    /\ UNCHANGED <<vars, accessVars, interventions>>

Provision(t) == ProvisionTenant(t) /\ UNCHANGED <<vars, threadVars>>

Intervene(t) ==
    /\ interventions < MaxInterventions /\ interventions' = interventions + 1
    /\ RotateApiKey(t) \/ RevokeTenant(t)
    /\ UNCHANGED <<vars, threads, creation_lock, crashes>>

RunRequest(th) ==
    \/ Authenticate(th) \/ AuthorizeQuote(th) \/ EnterCreation(th) \/ StoreQuote(th)
    \/ StoreOrder(th) \/ BindQuoteStep(th) \/ BindOrderStep(th) \/ Confirm(th) \/ Checkout(th)
    \/ Authorize(th) \/ AuthorizeResult(th) \/ Read(th) \/ Rotate(th) \/ Revoke(th)

ApiNext ==
    \/ \E th \in Threads, call \in Calls : Receive(th, call)
    \/ \E th \in Threads : RunRequest(th)
    \/ \E t \in Tenants : Provision(t) \/ Intervene(t)
    \/ Crash
    \/ Tick /\ UNCHANGED <<accessVars, threadVars>>

ApiSpec == ApiInit /\ [][ApiNext]_apiVars

-------------------------------------------------------------------------------
(* Whatever the two tables and the store are left with by a request that     *)
(* stopped half way, they tell one story: an order that is placed belongs   *)
(* to the tenant its quote is bound to, and so does its binding, so no      *)
(* tenant's request ever creates or opens what is another's                 *)
(* (commerce_api.py:432-453).                                               *)
BindingsAgree ==
    /\ \A o \in Placed : QuoteOf(o) \in BoundQuotes(o[3])
    /\ \A o \in OrderIds : order_bindings[o] # None =>
          /\ Exists(o)
          /\ order_bindings[o].tenant = o[3] /\ order_bindings[o].quote = QuoteOf(o)

(* The quota of a tenant is never exceeded, although the count and the       *)
(* creation are separate transactions and a creation may be interrupted      *)
(* between the store and the binding (commerce_api.py:395-453).             *)
QuotasHold ==
    \A t \in Tenants : /\ Cardinality(BoundQuotes(t)) <= MaxQuotes
                       /\ Cardinality(BoundOrders(t)) <= MaxOrders

(* Rotation and revocation take effect at once: a request that arrives with  *)
(* an API key or a delivery token already retired reads nothing and writes   *)
(* nothing, whatever runs beside it (commerce_access.py:434-551).           *)
RetiredStaysOut ==
    \A th \in Threads : threads[th].pc \in {"read", "authorize_result", "rotate", "revoke", "create"}
                          => threads[th].live

(* A capability is spent once: the token moves on only for a request that    *)
(* presented the one it replaces, although two requests may have been        *)
(* authorised with it; revocation and the owner are final                    *)
(* (commerce_access.py:490-510, :531-540).                                  *)
BindingEvolves(before, after, o) ==
    /\ after # None /\ after.tenant = before.tenant /\ after.quote = before.quote
    /\ before.token_state = "revoked" =>
          after.token_state = "revoked" /\ after.token = before.token
    /\ after.token # before.token =>
          \E th \in Threads : /\ At(th, "rotate") /\ CallOf(th).order = o
                              /\ CallOf(th).token = before.token
                              /\ after.token = before.token + 1
CapabilitiesAreSpentOnce ==
    [][\A o \in OrderIds :
          order_bindings[o] # None => BindingEvolves(order_bindings[o], order_bindings'[o], o)]_apiVars

(* An order left without its binding or its checkout by a request that       *)
(* stopped half way is completed by repeating the request: every test the   *)
(* repetition meets, in the order it meets them, lets it pass, as long as   *)
(* the tenant is active and either the order has no binding yet and the     *)
(* quota a place, or its token is neither revoked nor run out.  An expired  *)
(* token bind_order still returns and authorize_order refuses, so the       *)
(* repetition is promised for the token's lifetime only                     *)
(* (commerce_api.py:421-461, commerce_access.py:402-412 and 462).           *)
Repeatable(t, o) ==
    /\ Active(t)
    /\ IF order_bindings[o] = None
       THEN Cardinality(BoundOrders(t)) < MaxOrders
       ELSE order_bindings[o].token_state = "active" /\ now < order_bindings[o].expires_at
RepeatPasses(t, o) ==
    /\ OwnsQuote(t, QuoteOf(o))
    /\ HasOrder(t, QuoteOf(o)) \/ Cardinality(BoundOrders(t)) < MaxOrders
    /\ OrderBindable(t, o, QuoteOf(o))
    /\ order_bindings[o] # None => Authorizes(t, o, TokenOf(o), now)
    /\ orders[o].checkout \in {None, FakePaymentId[o]}
    /\ orders[o].checkout = None =>
         /\ AllowedOrder(orders[o].order_status, "payment_pending")
         /\ CheckoutFree(o, FakePaymentId[o]) /\ PaymentFree(o, FakePaymentId[o])
RetryCompletes == \A o \in Placed : Repeatable(o[3], o) => RepeatPasses(o[3], o)
===============================================================================
