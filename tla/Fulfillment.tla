----------------------------- MODULE Fulfillment -----------------------------
(***************************************************************************)
(* fulfillment.py: SandboxFulfillmentCoordinator over the commerce store,  *)
(* the delivery directory and commerce_access.publish_result.              *)
(*                                                                         *)
(* Several processes may call fulfill for the same order.  Each call to    *)
(* the store, each change of the directory and the publication is a step   *)
(* of its own; a process may die between any two of them, and then only    *)
(* the database and the directory remain.                                  *)
(***************************************************************************)
EXTENDS CommerceStore

CONSTANTS
    Coordinators,   \* processes that call fulfill
    FakePaymentId,  \* FakePaymentProvider._payment_id
    MaxCrashes      \* bound on the processes that die

ASSUME FulfillmentAssumption ==
    /\ Environment = "sandbox" /\ MaxCrashes \in Nat
    /\ None \notin OrderIds \cup Coordinators
    /\ FakePaymentId \in [OrderIds -> FakeIds]

VARIABLES
    jobs,           \* per order, delivery_root / order_id and the files in it
    bindings,       \* orders with a row in access_order_bindings
    results,        \* result_body of that row
    coordinators,   \* per process, where it is, its order and what it has signed
    crashes,
    abandoned       \* history: orders given up by their process without being failed

jobVars     == <<jobs, bindings, results, coordinators, crashes, abandoned>>
fulfillVars == <<vars, jobVars>>

Job  == [made: BOOLEAN, envelope: Evidence \cup {None}, manifest: Evidence \cup {None}]
Idle == [pc |-> "idle", order |-> None, signed |-> None]

(* Between making the directory and leaving the try block. *)
Working == {"begin", "work", "sign", "costs", "manifest", "deliver", "publish", "failing", "fail"}

Coordinator ==
    {Idle} \cup [pc: Working \cup {"mkdir", "republish"}, order: OrderIds,
                 signed: Evidence \cup {None}]

FulfillTypeOK ==
    /\ jobs \in [OrderIds -> Job]
    /\ bindings \subseteq OrderIds
    /\ results \in [OrderIds -> Evidence \cup {None}]
    /\ coordinators \in [Coordinators -> Coordinator]
    /\ crashes \in 0 .. MaxCrashes
    /\ abandoned \subseteq OrderIds

FulfillInit ==
    /\ Init
    /\ jobs = [o \in OrderIds |-> [made |-> FALSE, envelope |-> None, manifest |-> None]]
    /\ bindings = {}
    /\ results = [o \in OrderIds |-> None]
    /\ coordinators = [c \in Coordinators |-> Idle]
    /\ crashes = 0
    /\ abandoned = {}

At(c, pc)    == coordinators[c].pc = pc
OrderOf(c)   == coordinators[c].order
StatusOf(c)  == orders[OrderOf(c)].order_status
GoTo(c, pc)  == coordinators' = [coordinators EXCEPT ![c].pc = pc]

\* mutant: the order is still remembered by the next call
Returned_KeepsOrder(c) == [coordinators EXCEPT ![c].pc = "idle"]

(* The call returns or raises. *)
Returned(c) == [coordinators EXCEPT ![c] = Idle]

\* mutant: delivery is recorded before the manifest is written
Following_DeliverFirst(pc) ==
    CASE pc = "begin" -> "work" [] pc = "work" -> "sign" [] pc = "sign" -> "costs"
      [] pc = "costs" -> "deliver" [] pc = "deliver" -> "manifest" [] pc = "manifest" -> "publish"

(* The order of the steps in the try block. *)
Following(pc) ==
    CASE pc = "begin" -> "work" [] pc = "work" -> "sign" [] pc = "sign" -> "costs"
      [] pc = "costs" -> "manifest" [] pc = "manifest" -> "deliver" [] pc = "deliver" -> "publish"

GoOn(c) == GoTo(c, Following(coordinators[c].pc))

-------------------------------------------------------------------------------
(* commerce_access: bind_order and publish_result *)

BindOrder(o) ==
    /\ Exists(o) /\ o \notin bindings
    /\ bindings' = bindings \cup {o}
    /\ UNCHANGED <<vars, jobs, results, coordinators, crashes, abandoned>>

(* The bytes are the ones in the job directory at the time of the call. *)
Publishable(o) ==
    LET bytes == jobs[o].envelope IN
    /\ o \in bindings /\ orders[o].order_status = "delivered"
    /\ bytes # None /\ bytes[2] = orders[o].receipt[2]
    /\ results[o] \in {None, bytes}

PublishResult(o) == results' = [results EXCEPT ![o] = jobs[o].envelope]

-------------------------------------------------------------------------------
(* fulfill *)

\* mutant: a delivered order is returned as it is
Republishes_Never(o) == FALSE

Republishes(o) == orders[o].order_status = "delivered"

Ready(o) ==
    /\ orders[o].order_status = "queued"
    /\ orders[o].payment_status \in {"captured", "available"}

StartFulfill(c, o) ==
    /\ At(c, "idle") /\ Exists(o)
    /\ \E pc \in {"republish", "mkdir"} :
         /\ IF pc = "republish" THEN Republishes(o) ELSE Ready(o)
         /\ coordinators' = [coordinators EXCEPT ![c] = [pc |-> pc, order |-> o, signed |-> None]]
    /\ UNCHANGED <<vars, jobs, bindings, results, crashes, abandoned>>

Republish(c) ==
    LET o == OrderOf(c) IN
    /\ At(c, "republish")
    /\ IF Publishable(o) THEN PublishResult(o) ELSE UNCHANGED results
    /\ coordinators' = Returned(c)
    /\ UNCHANGED <<vars, jobs, bindings, crashes, abandoned>>

\* mutant: mkdir(exist_ok=True) without the test for the directory
Untaken_ExistOk(o) == TRUE

Untaken(o) == ~jobs[o].made

(* Whoever makes the directory has the order; the others raise. *)
MakeJobRoot(c) ==
    LET o == OrderOf(c) IN
    /\ At(c, "mkdir")
    /\ IF Untaken(o)
       THEN jobs' = [jobs EXCEPT ![o].made = TRUE] /\ GoTo(c, "begin")
       ELSE coordinators' = Returned(c) /\ UNCHANGED jobs
    /\ UNCHANGED <<vars, bindings, results, crashes, abandoned>>

(* A call of the store either goes through or raises into the handler. *)
OrRaise(c, applies, call) ==
    /\ IF applies THEN call /\ GoOn(c) ELSE UNCHANGED vars /\ GoTo(c, "failing")
    /\ UNCHANGED <<jobs, bindings, results, crashes, abandoned>>

(* _transition_order accepts an order that is running already. *)
Begin(c) ==
    /\ At(c, "begin")
    /\ OrRaise(c, StatusOf(c) = "running" \/ AllowedOrder(StatusOf(c), "running"),
               IF StatusOf(c) = "running" THEN UNCHANGED vars ELSE BeginFulfillment(OrderOf(c)))

(* freeze_public_source and worker.run, which touch neither store nor order. *)
Work(c) == At(c, "work") /\ GoOn(c) /\ UNCHANGED <<vars, jobs, bindings, results, crashes, abandoned>>

(* What is signed depends on the source and the time: two orders may get    *)
(* the same receipt.  A signed output is never overwritten.                 *)
Sign(c) ==
    LET o == OrderOf(c) IN
    /\ At(c, "sign")
    /\ IF jobs[o].envelope = None
       THEN \E receipt \in Evidence :
              /\ jobs' = [jobs EXCEPT ![o].envelope = receipt]
              /\ coordinators' = [coordinators EXCEPT ![c].signed = receipt,
                                                      ![c].pc = Following("sign")]
       ELSE GoTo(c, "failing") /\ UNCHANGED jobs
    /\ UNCHANGED <<vars, bindings, results, crashes, abandoned>>

RecordCosts(c) ==
    /\ At(c, "costs")
    /\ \E key \in CostKeys, sheet \in CostSheets :
         OrRaise(c, ~orders[OrderOf(c)].costs_recorded, RecordDirectCosts(OrderOf(c), key, sheet))

WriteManifest(c) ==
    /\ At(c, "manifest")
    /\ jobs' = [jobs EXCEPT ![OrderOf(c)].manifest = coordinators[c].signed]
    /\ GoOn(c)
    /\ UNCHANGED <<vars, bindings, results, crashes, abandoned>>

(* The receipt id may belong to another order: the UNIQUE index raises. *)
DeliverOrder(c) ==
    LET o == OrderOf(c)
        receipt == coordinators[c].signed
    IN /\ At(c, "deliver")
       /\ OrRaise(c, /\ orders[o].costs_recorded /\ AllowedOrder(StatusOf(c), "delivered")
                     /\ ReceiptFree(o, receipt[1]),
                  Deliver(o, receipt))

Publish(c) ==
    LET o == OrderOf(c) IN
    /\ At(c, "publish")
    /\ IF Publishable(o) THEN PublishResult(o) /\ coordinators' = Returned(c)
       ELSE UNCHANGED results /\ GoTo(c, "failing")
    /\ UNCHANGED <<vars, jobs, bindings, crashes, abandoned>>

(* Git, Docker, the signing gate or the disk raises, or a call of a store   *)
(* finds its database locked: then its transaction has changed nothing.    *)
StepFails(c) ==
    /\ coordinators[c].pc \in Working \ {"failing", "fail"}
    /\ GoTo(c, "failing")
    /\ UNCHANGED <<vars, jobs, bindings, results, crashes, abandoned>>

\* mutant: the handler forgets orders it has begun
MustFail_QueuedOnly(status) == status = "queued"

MustFail(status) == status \in {"queued", "running"}

(* The except handler reads the order, then fails it in a second transaction. *)
HandleFailure(c) ==
    /\ At(c, "failing")
    /\ IF MustFail(StatusOf(c)) THEN GoTo(c, "fail") ELSE coordinators' = Returned(c)
    /\ UNCHANGED <<vars, jobs, bindings, results, crashes, abandoned>>

FailOrder(c) ==
    /\ At(c, "fail")
    /\ IF AllowedOrder(StatusOf(c), "fulfillment_failed")
       THEN FailFulfillment(OrderOf(c)) ELSE UNCHANGED vars
    /\ coordinators' = Returned(c)
    /\ UNCHANGED <<jobs, bindings, results, crashes, abandoned>>

(* Its process leaves an order behind that is still queued or running. *)
GiveUp(c) ==
    abandoned' = IF coordinators[c].pc \in Working /\ StatusOf(c) \in {"queued", "running"}
                 THEN abandoned \cup {OrderOf(c)} ELSE abandoned

(* Either call of the handler may raise in its turn.  That exception is     *)
(* swallowed and the first one raised again: the order stays as it is.      *)
HandlerRaises(c) ==
    /\ coordinators[c].pc \in {"failing", "fail"}
    /\ coordinators' = Returned(c)
    /\ GiveUp(c)
    /\ UNCHANGED <<vars, jobs, bindings, results, crashes>>

(* The process dies.  Outside the try block an exception leaves the same    *)
(* state behind as a death does.                                            *)
Crash(c) ==
    /\ ~At(c, "idle") /\ crashes < MaxCrashes
    /\ coordinators' = Returned(c)
    /\ crashes' = crashes + 1
    /\ GiveUp(c)
    /\ UNCHANGED <<vars, jobs, bindings, results>>

-------------------------------------------------------------------------------
Proceed(c) ==
    \/ Republish(c) \/ MakeJobRoot(c) \/ Begin(c) \/ Work(c) \/ Sign(c) \/ RecordCosts(c)
    \/ WriteManifest(c) \/ DeliverOrder(c) \/ Publish(c) \/ StepFails(c)
    \/ HandleFailure(c) \/ FailOrder(c) \/ HandlerRaises(c)

BuyerStep ==
    /\ \/ \E q \in QuoteIds, r \in Requests : CreateQuote(q, r, "fake", now)
       \/ \E q \in QuoteIds, k \in Keys, b \in Buyers : CreateOrder(q, k, b, now)
       \/ \E o \in OrderIds : AttachCheckout(o, FakePaymentId[o], FakePaymentId[o])
       \/ \E o \in OrderIds, e \in Feed, t \in ReceiveTimes : IngestProviderEvent(o, e, t)
    /\ UNCHANGED jobVars

FulfillNext ==
    \/ BuyerStep
    \/ \E o \in OrderIds : BindOrder(o)
    \/ \E c \in Coordinators, o \in OrderIds : StartFulfill(c, o)
    \/ \E c \in Coordinators : Proceed(c) \/ Crash(c)

FulfillSpec == FulfillInit /\ [][FulfillNext]_fulfillVars

(* A process that runs goes on, and a delivered order whose buyer cannot    *)
(* fetch the result yet is fulfilled again: that is what line 55 is for.    *)
(* The second call is strongly fair because any process may make it: only   *)
(* the bound on Coordinators can keep it waiting for another order.         *)
FulfillFairness ==
    /\ \A c \in Coordinators : WF_fulfillVars(Proceed(c))
    /\ \A o \in OrderIds :
         SF_fulfillVars(/\ Republishes(o) /\ results[o] = None
                        /\ \E c \in Coordinators : StartFulfill(c, o))

FairFulfillSpec == FulfillSpec /\ FulfillFairness

-------------------------------------------------------------------------------
(* A delivered order has on disk the envelope and the manifest it was       *)
(* delivered with, and a published result is exactly that envelope, at      *)
(* whichever point processes died and whoever took over                     *)
(* (fulfillment.py:92-131, the order of sign, manifest and deliver).        *)
DeliveryOnFile ==
    \A o \in OrderIds :
        /\ orders[o].order_status = "delivered" =>
             jobs[o].envelope = orders[o].receipt /\ jobs[o].manifest = orders[o].receipt
        /\ results[o] # None =>
             orders[o].order_status = "delivered" /\ results[o] = orders[o].receipt

(* Two processes never work on one order, although nothing but the          *)
(* directory keeps them apart: the order may have been read as queued by    *)
(* both (fulfillment.py:74-76).                                             *)
OneWorkerPerOrder ==
    \A c, d \in Coordinators :
        (c # d /\ coordinators[c].pc \in Working /\ coordinators[d].pc \in Working)
            => OrderOf(c) # OrderOf(d)

(* An order in hand whose directory is made and that nobody works on is one *)
(* whose own process died, or whose own handler raised and had its          *)
(* exception swallowed: any other failure in the try block ends the order,  *)
(* whichever step raised, and so no other order is ever stuck behind its    *)
(* directory (fulfillment.py:133-144 and 76-77).                            *)
OrphansWereAbandoned ==
    \A o \in OrderIds :
        (/\ orders[o].order_status \in {"queued", "running"} /\ jobs[o].made
         /\ \A c \in Coordinators : OrderOf(c) # o \/ coordinators[c].pc \notin Working)
            => o \in abandoned

(* The buyer of a delivered order can fetch the result in the end, even if  *)
(* the process died between delivery and publication or the binding came    *)
(* late (fulfillment.py:55-63, the second call for a delivered order).      *)
DeliveredIsPublished ==
    \A o \in OrderIds :
        (orders[o].order_status = "delivered" /\ o \in bindings) ~> results[o] = orders[o].receipt
===============================================================================
