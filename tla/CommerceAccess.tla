--------------------------- MODULE CommerceAccess ---------------------------
(***************************************************************************)
(* commerce_access.py: tenants and their API keys, the tenant each quote   *)
(* and order is bound to, and the capability that opens an order, in the   *)
(* store's own SQLite file.  The published result is in Fulfillment.       *)
(*                                                                         *)
(* Digests, HMAC derivations and token strings are abstracted to what they *)
(* are derived from: an identifier derived from a tenant and a client's    *)
(* key is that pair, an API key and a delivery token are their version     *)
(* number.  A test (an operator without primes) says when a method goes    *)
(* through instead of raising, an action what it then writes.              *)
(***************************************************************************)
EXTENDS CommerceStore

CONSTANTS
    Tenants,        \* tenant_id
    ClientKeys,     \* Idempotency-Key values clients send
    Provisioned,    \* the tenants that have an account when the service starts
    TokenTTL        \* DELIVERY_TOKEN_TTL, in ticks

Tenant == [state: {"absent", "active", "revoked"}, api_key: Nat]
QuoteBinding == [tenant: Tenants, key: ClientKeys]
OrderBinding ==
    [tenant: Tenants, quote: QuoteIds, token: Nat, token_state: {"active", "revoked"},
     expires_at: Nat]

ASSUME AccessAssumption ==
    /\ Buyers = Tenants                             \* buyer_reference is the tenant
    /\ QuoteIds \subseteq Tenants \X ClientKeys     \* derive_quote_id
    /\ Keys \subseteq Tenants \X ClientKeys         \* derive_order_idempotency_key
    /\ Provisioned \subseteq Tenants /\ TokenTTL \in Nat \ {0}
    /\ None \notin QuoteBinding \cup OrderBinding     \* SQL NULL is not a row

VARIABLES
    tenants,            \* table access_tenants
    quote_bindings,     \* table access_quote_bindings
    order_bindings      \* table access_order_bindings

accessVars == <<tenants, quote_bindings, order_bindings>>

NoTenant == [state |-> "absent", api_key |-> 0]
Fresh    == [state |-> "active", api_key |-> 1]

AccessTypeOK ==
    /\ tenants \in [Tenants -> Tenant]
    /\ quote_bindings \in [QuoteIds -> QuoteBinding \cup {None}]
    /\ order_bindings \in [OrderIds -> OrderBinding \cup {None}]

AccessInit ==
    /\ tenants = [t \in Tenants |-> IF t \in Provisioned THEN Fresh ELSE NoTenant]
    /\ quote_bindings = [q \in QuoteIds |-> None]
    /\ order_bindings = [o \in OrderIds |-> None]

BoundQuotes(t) == {q \in QuoteIds : quote_bindings[q] # None /\ quote_bindings[q].tenant = t}
BoundOrders(t) == {o \in OrderIds : order_bindings[o] # None /\ order_bindings[o].tenant = t}

-------------------------------------------------------------------------------
(* Tenants *)

Active(t) == tenants[t].state = "active"

ProvisionTenant(t) ==
    /\ tenants[t].state = "absent"
    /\ tenants' = [tenants EXCEPT ![t] = Fresh]
    /\ UNCHANGED <<quote_bindings, order_bindings>>

RotateApiKey(t) ==
    /\ Active(t)
    /\ tenants' = [tenants EXCEPT ![t].api_key = @ + 1]
    /\ UNCHANGED <<quote_bindings, order_bindings>>

RevokeTenant(t) ==
    /\ Active(t)
    /\ tenants' = [tenants EXCEPT ![t].state = "revoked"]
    /\ UNCHANGED <<quote_bindings, order_bindings>>

Authenticates(t, api_key) == Active(t) /\ api_key = tenants[t].api_key

-------------------------------------------------------------------------------
(* Quotes *)

\* mutant: any quote that is bound will do
OwnsQuote_Anybody(t, q) == Active(t) /\ quote_bindings[q] # None

(* authorize_quote and quote_owned join the binding with its active tenant. *)
OwnsQuote(t, q) == Active(t) /\ q \in BoundQuotes(t)

(* UNIQUE (tenant_id, idempotency_digest) *)
QuoteBindable(t, q, key) ==
    LET row == [tenant |-> t, key |-> key] IN
    /\ Active(t) /\ quotes[q] # None
    /\ quote_bindings[q] \in {None, row}
    /\ \A other \in QuoteIds \ {q} : quote_bindings[other] # row

BindQuote(t, q, key) ==
    /\ quote_bindings' = [quote_bindings EXCEPT ![q] = [tenant |-> t, key |-> key]]
    /\ UNCHANGED <<tenants, order_bindings>>

-------------------------------------------------------------------------------
(* Orders and their capability *)

(* order_for_quote *)
HasOrder(t, q) == Active(t) /\ \E o \in BoundOrders(t) : order_bindings[o].quote = q

(* quote_id is UNIQUE.  A second call returns the token only while it is active. *)
OrderBindable(t, o, q) ==
    /\ Active(t) /\ q \in BoundQuotes(t)
    /\ Exists(o) /\ QuoteOf(o) = q
    /\ \A other \in OrderIds \ {o} :
          order_bindings[other] # None => order_bindings[other].quote # q
    /\ order_bindings[o] # None =>
          /\ order_bindings[o].tenant = t /\ order_bindings[o].quote = q
          /\ order_bindings[o].token_state = "active"

(* The token of the row, the first one when the row is new. *)
TokenOf(o) == IF order_bindings[o] = None THEN 1 ELSE order_bindings[o].token

FirstBinding(t, q, at) ==
    [tenant |-> t, quote |-> q, token |-> 1, token_state |-> "active", expires_at |-> at + TokenTTL]

\* mutant: a repeated call issues the first token again
BindOrder_Reissues(t, o, q, at) ==
    /\ order_bindings' = [order_bindings EXCEPT ![o] = FirstBinding(t, q, at)]
    /\ UNCHANGED <<tenants, quote_bindings>>

BindOrder(t, o, q, at) ==
    /\ IF order_bindings[o] = None
       THEN order_bindings' = [order_bindings EXCEPT ![o] = FirstBinding(t, q, at)]
       ELSE UNCHANGED order_bindings
    /\ UNCHANGED <<tenants, quote_bindings>>

\* mutant: the row is not looked at again before it is written
Presents_Unchecked(t, o, token) == o \in BoundOrders(t)

(* token_state and token_digest, as rotate and revoke test them again in     *)
(* the transaction that writes.                                             *)
Presents(t, o, token) ==
    /\ o \in BoundOrders(t)
    /\ order_bindings[o].token_state = "active" /\ token = order_bindings[o].token

(* authorize_order: the tenant's state and the expiry are tested here only. *)
Authorizes(t, o, token, at) ==
    /\ Active(t) /\ o \in BoundOrders(t)
    /\ order_bindings[o].token_state = "active" /\ token = order_bindings[o].token
    /\ at < order_bindings[o].expires_at

RotateDeliveryToken(o, at) ==
    /\ order_bindings' = [order_bindings EXCEPT ![o].token = @ + 1,
                                                ![o].expires_at = at + TokenTTL]
    /\ UNCHANGED <<tenants, quote_bindings>>

RevokeDeliveryToken(o) ==
    /\ order_bindings' = [order_bindings EXCEPT ![o].token_state = "revoked"]
    /\ UNCHANGED <<tenants, quote_bindings>>
===============================================================================
