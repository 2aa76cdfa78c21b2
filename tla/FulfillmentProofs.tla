-------------------------- MODULE FulfillmentProofs --------------------------
(***************************************************************************)
(* The coordinator for every number of processes, orders and crashes:      *)
(* everything it does to the store is a step of the store, so all that is  *)
(* proved of CommerceStore holds in its presence; mkdir gives every order  *)
(* at most one worker; what is delivered is what lies on disk; and an      *)
(* order without a worker to finish it was given up by its own process.    *)
(***************************************************************************)
EXTENDS Fulfillment, CommerceStoreProofs

-------------------------------------------------------------------------------
(* The inductive invariant *)

WorkerHasDirectory ==
    \A c \in Coordinators : coordinators[c].pc \in Working => jobs[OrderOf(c)].made

(* What a worker has signed and written when it has come to a step.        *)
Signed(x, job) ==
    /\ x.pc \in {"costs", "manifest", "deliver", "publish"} =>
         x.signed # None /\ job.envelope = x.signed
    /\ x.pc \in {"deliver", "publish"} => job.manifest = x.signed

SignedOnFile ==
    \A c \in Coordinators :
        coordinators[c].pc \in Working => Signed(coordinators[c], jobs[OrderOf(c)])

DirectoryInv == WorkerHasDirectory /\ OneWorkerPerOrder /\ SignedOnFile

FulfillInv == StoreInv /\ FulfillTypeOK /\ DirectoryInv /\ DeliveryOnFile

-------------------------------------------------------------------------------
(* One process moves *)

(* A process that goes to another step keeps its order and its evidence.   *)
LEMMA GoToRecord ==
    ASSUME FulfillTypeOK, NEW c \in Coordinators, coordinators[c].pc # "idle",
           NEW pc \in Working, GoTo(c, pc)
    PROVE  \E x \in Coordinator :
             /\ coordinators' = [coordinators EXCEPT ![c] = x]
             /\ x.pc = pc /\ x.order = OrderOf(c) /\ x.signed = coordinators[c].signed
<1> DEFINE x == [pc |-> pc, order |-> OrderOf(c), signed |-> coordinators[c].signed]
<1>1. coordinators[c] \in [pc: Working \cup {"mkdir", "republish"}, order: OrderIds,
                           signed: Evidence \cup {None}]
  BY DEF FulfillTypeOK, Coordinator, Idle
<1>2. x \in Coordinator
  BY <1>1 DEF Coordinator, OrderOf
<1>3. [coordinators[c] EXCEPT !.pc = pc] = x
  BY <1>1 DEF OrderOf
<1>4. coordinators' = [coordinators EXCEPT ![c] = x]
  BY <1>3 DEF GoTo
<1>5. QED
  BY <1>2, <1>4

(* The process c becomes x, having touched no directory but its own or one *)
(* nobody had made.                                                        *)
ProcessBecomes(c, x) ==
    /\ coordinators' = [coordinators EXCEPT ![c] = x]
    /\ \A o \in OrderIds :
         \/ jobs'[o] = jobs[o]
         \/ /\ o = x.order
            /\ ~jobs[o].made \/ (coordinators[c].pc \in Working /\ OrderOf(c) = o)
    /\ x.pc \in Working =>
         /\ jobs'[x.order].made /\ Signed(x, jobs'[x.order])
         /\ ~jobs[x.order].made \/ (coordinators[c].pc \in Working /\ OrderOf(c) = x.order)

LEMMA MoveKeepsDirectories ==
    ASSUME FulfillTypeOK, DirectoryInv, NEW c \in Coordinators, NEW x \in Coordinator, ProcessBecomes(c, x)
    PROVE  DirectoryInv'
<1>1. /\ coordinators'[c] = x
      /\ \A d \in Coordinators \ {c} : coordinators'[d] = coordinators[d]
  BY DEF FulfillTypeOK, ProcessBecomes
<1>2. ASSUME NEW d \in Coordinators \ {c}, coordinators[d].pc \in Working
      PROVE  /\ jobs'[OrderOf(d)] = jobs[OrderOf(d)] /\ OrderOf(d) \in OrderIds
             /\ x.pc \in Working => OrderOf(d) # x.order
  <2>1. OrderOf(d) \in OrderIds
    BY <1>2 DEF FulfillTypeOK, Coordinator, Idle, Working, OrderOf
  <2>2. jobs[OrderOf(d)].made
    BY <1>2 DEF DirectoryInv, WorkerHasDirectory
  <2>3. coordinators[c].pc \in Working => OrderOf(c) # OrderOf(d)
    BY <1>2 DEF DirectoryInv, OneWorkerPerOrder
  <2>4. QED
    BY <2>1, <2>2, <2>3 DEF ProcessBecomes
<1>3. WorkerHasDirectory'
  BY <1>1, <1>2 DEF WorkerHasDirectory, DirectoryInv, ProcessBecomes, OrderOf
<1>4. OneWorkerPerOrder'
  BY <1>1, <1>2 DEF OneWorkerPerOrder, DirectoryInv, OrderOf
<1>5. SignedOnFile'
  BY <1>1, <1>2 DEF SignedOnFile, DirectoryInv, ProcessBecomes, OrderOf
<1>6. QED
  BY <1>3, <1>4, <1>5 DEF DirectoryInv

(* A process that returns or dies holds nothing.                           *)
LEMMA ReturnedMoves ==
    ASSUME NEW c \in Coordinators, jobs' = jobs, coordinators' = Returned(c)
    PROVE  Idle \in Coordinator /\ ProcessBecomes(c, Idle)
BY DEF ProcessBecomes, Returned, Idle, Working, Coordinator

(* A worker goes to a step that presupposes nothing new.                   *)
LEMMA WorkerMoves ==
    ASSUME FulfillTypeOK, DirectoryInv, NEW c \in Coordinators, coordinators[c].pc \in Working,
           NEW pc \in Working, GoTo(c, pc), jobs' = jobs,
           Signed([pc |-> pc, order |-> OrderOf(c), signed |-> coordinators[c].signed],
                  jobs[OrderOf(c)])
    PROVE  \E x \in Coordinator : ProcessBecomes(c, x)
<1>1. PICK x \in Coordinator :
         /\ coordinators' = [coordinators EXCEPT ![c] = x]
         /\ x.pc = pc /\ x.order = OrderOf(c) /\ x.signed = coordinators[c].signed
  BY GoToRecord DEF Working
<1>2. jobs[OrderOf(c)].made
  BY DEF DirectoryInv, WorkerHasDirectory
<1>3. Signed(x, jobs[OrderOf(c)])
  BY <1>1 DEF Signed
<1>4. QED
  BY <1>1, <1>2, <1>3 DEF ProcessBecomes
-------------------------------------------------------------------------------
(* Receipts and files *)

(* No step of the store but deliver writes a receipt.                      *)
SameReceipts == \A o \in OrderIds : orders'[o].receipt = orders[o].receipt

LEMMA CreateOrderReceipts ==
    ASSUME StoreInv, NEW q \in QuoteIds, NEW k \in Keys, NEW b \in Buyers,
           NEW at \in 0 .. now, CreateOrder(q, k, b, at)
    PROVE  SameReceipts
<1> DEFINE o == <<q, k, b>>
<1>1. o \in OrderIds /\ KeyOf(o) = k
  BY DEF OrderIds, KeyOf
<1>2. orders[o] = NoOrder
  BY <1>1 DEF CreateOrder, Placed, Exists, StoreInv, RowsInv, AbsentBlank
<1>3. orders' = [orders EXCEPT ![o] = [NoOrder EXCEPT !.order_status = "checkout_pending",
                                                      !.provider = quotes[q].provider]]
  BY DEF CreateOrder
<1>4. orders'[o].receipt = None /\ orders[o].receipt = None
  BY <1>1, <1>2, <1>3 DEF NoOrder, StoreInv, TypeOK
<1>5. ASSUME NEW other \in OrderIds \ {o} PROVE orders'[other] = orders[other]
  BY <1>3 DEF StoreInv, TypeOK
<1>6. QED
  BY <1>4, <1>5 DEF SameReceipts

LEMMA IngestReceipts ==
    ASSUME StoreInv, NEW o \in OrderIds, NEW e \in Feed, NEW t \in ReceiveTimes,
           IngestProviderEvent(o, e, t)
    PROVE  SameReceipts
<1> DEFINE start == Inserted(o, e, t)
<1>1. PICK m : orders' = [orders EXCEPT ![o] = m.row] /\ Kept(start, m)
  BY InsertedSound, ReconciledSound DEF IngestProviderEvent
<1>2. start.row = orders[o]
  BY InsertedFields
<1> HIDE DEF start
<1>3. RowKept(orders[o], m.row)
  BY <1>1, <1>2 DEF Kept
<1>4. QED
  BY <1>1, <1>3 DEF RowKept, SameReceipts, StoreInv, TypeOK

LEMMA TransitionReceipts ==
    ASSUME StoreInv, NEW o \in OrderIds, NEW target, NEW delivery,
           TransitionOrder(o, target, delivery)
    PROVE  SameReceipts
BY DEF TransitionOrder, SameReceipts, StoreInv, TypeOK, OrderRow

LEMMA UnchangedReceipts == ASSUME UNCHANGED vars PROVE SameReceipts
BY DEF SameReceipts, vars

(* Delivered orders keep their files; results only become receipts.        *)
LEMMA FilesKept ==
    ASSUME StoreInv, StoreInv', DeliveryOnFile, SameReceipts,
           \A o \in OrderIds : orders[o].order_status = "delivered" =>
              jobs'[o].envelope = orders[o].receipt /\ jobs'[o].manifest = orders[o].receipt,
           \A o \in OrderIds :
              \/ results'[o] = results[o]
              \/ orders[o].order_status = "delivered" /\ results'[o] = orders[o].receipt
    PROVE  DeliveryOnFile'
<1>1. \A o \in OrderIds :
         /\ orders'[o].receipt = orders[o].receipt
         /\ orders'[o].order_status = "delivered" <=> orders[o].order_status = "delivered"
  BY DEF SameReceipts, StoreInv, RowsInv, DeliveryBacked
<1>2. QED
  BY <1>1 DEF DeliveryOnFile
-------------------------------------------------------------------------------
(* The actions *)

FilesOfDelivered ==
    \A o \in OrderIds : orders[o].order_status = "delivered" =>
        jobs'[o].envelope = orders[o].receipt /\ jobs'[o].manifest = orders[o].receipt

Preserved ==
    [Next]_vars /\ FulfillTypeOK' /\ DirectoryInv' /\ (StoreInv' => DeliveryOnFile')

LEMMA MovePreserves ==
    ASSUME FulfillInv, NEW c \in Coordinators, NEW x \in Coordinator, ProcessBecomes(c, x), [Next]_vars,
           jobs' \in [OrderIds -> Job], bindings' = bindings,
           crashes' \in 0 .. MaxCrashes, abandoned' \subseteq OrderIds,
           SameReceipts, FilesOfDelivered,
           results' = results \/ \E o \in OrderIds : Publishable(o) /\ PublishResult(o)
    PROVE  Preserved
<1>1. coordinators' \in [Coordinators -> Coordinator]
  BY DEF FulfillInv, FulfillTypeOK, ProcessBecomes
<1>2. DirectoryInv'
  BY MoveKeepsDirectories DEF FulfillInv
<1>3. /\ results' \in [OrderIds -> Evidence \cup {None}]
      /\ \A o \in OrderIds :
           \/ results'[o] = results[o]
           \/ orders[o].order_status = "delivered" /\ results'[o] = orders[o].receipt
  <2>1. CASE results' = results
    BY <2>1 DEF FulfillInv, FulfillTypeOK
  <2>2. ASSUME NEW o \in OrderIds, Publishable(o), PublishResult(o)
        PROVE  /\ results' \in [OrderIds -> Evidence \cup {None}]
               /\ \A other \in OrderIds :
                    \/ results'[other] = results[other]
                    \/ /\ orders[other].order_status = "delivered"
                       /\ results'[other] = orders[other].receipt
    <3>1. orders[o].order_status = "delivered" /\ jobs[o].envelope = orders[o].receipt
      BY <2>2 DEF Publishable, FulfillInv, DeliveryOnFile
    <3>2. jobs[o].envelope \in Evidence \cup {None}
      BY DEF FulfillInv, FulfillTypeOK, Job
    <3>3. results' = [results EXCEPT ![o] = jobs[o].envelope]
      BY <2>2 DEF PublishResult
    <3>4. QED
      BY <3>1, <3>2, <3>3 DEF FulfillInv, FulfillTypeOK
  <2>3. QED
    BY <2>1, <2>2
<1>4. FulfillTypeOK'
  BY <1>1, <1>3 DEF FulfillInv, FulfillTypeOK
<1>5. StoreInv' => DeliveryOnFile'
  BY <1>3, FilesKept DEF FulfillInv, FilesOfDelivered
<1>6. QED
  BY <1>2, <1>4, <1>5 DEF Preserved

(* The directories stay as they are. *)
LEMMA SameFiles ==
    ASSUME FulfillInv, jobs' = jobs
    PROVE  FilesOfDelivered /\ jobs' \in [OrderIds -> Job]
BY DEF FulfillInv, DeliveryOnFile, FilesOfDelivered, FulfillTypeOK

LEMMA SameCrashes ==
    ASSUME FulfillInv, UNCHANGED <<crashes, abandoned>>
    PROVE  crashes' \in 0 .. MaxCrashes /\ abandoned' \subseteq OrderIds
BY DEF FulfillInv, FulfillTypeOK

(* A call ends, having changed nothing but perhaps the published result.   *)
LEMMA CallEnds ==
    ASSUME FulfillInv, NEW c \in Coordinators, coordinators' = Returned(c), [Next]_vars,
           SameReceipts, jobs' = jobs, bindings' = bindings,
           crashes' \in 0 .. MaxCrashes, abandoned' \subseteq OrderIds,
           results' = results \/ \E o \in OrderIds : Publishable(o) /\ PublishResult(o)
    PROVE  Preserved
BY ReturnedMoves, SameFiles, MovePreserves

(* A worker goes on, having changed at most the store.                     *)
LEMMA WorkerGoesOn ==
    ASSUME FulfillInv, NEW c \in Coordinators, coordinators[c].pc \in Working,
           NEW pc \in Working, GoTo(c, pc), [Next]_vars, SameReceipts,
           Signed([pc |-> pc, order |-> OrderOf(c), signed |-> coordinators[c].signed],
                  jobs[OrderOf(c)]),
           UNCHANGED <<jobs, bindings, results, crashes, abandoned>>
    PROVE  Preserved
<1>1. PICK x \in Coordinator : ProcessBecomes(c, x)
  BY WorkerMoves DEF FulfillInv
<1>2. QED
  BY <1>1, SameFiles, SameCrashes, MovePreserves

LEMMA StartFulfillPreserves ==
    ASSUME FulfillInv, NEW c \in Coordinators, NEW o \in OrderIds, StartFulfill(c, o)
    PROVE  Preserved
<1>1. PICK pc \in {"republish", "mkdir"} :
         coordinators' = [coordinators EXCEPT ![c] = [pc |-> pc, order |-> o, signed |-> None]]
  BY DEF StartFulfill
<1> DEFINE x == [pc |-> pc, order |-> o, signed |-> None]
<1>2. x \in Coordinator
  BY DEF Coordinator
<1>3. UNCHANGED <<vars, jobs, bindings, results, crashes, abandoned>>
  BY DEF StartFulfill
<1>4. ProcessBecomes(c, x)
  BY <1>1, <1>3 DEF ProcessBecomes, Working
<1>5. SameReceipts /\ [Next]_vars
  BY <1>3, UnchangedReceipts
<1>6. QED
  BY <1>2, <1>3, <1>4, <1>5, SameFiles, SameCrashes, MovePreserves

LEMMA RepublishPreserves ==
    ASSUME FulfillInv, NEW c \in Coordinators, Republish(c) PROVE Preserved
<1>1. OrderOf(c) \in OrderIds
  BY DEF FulfillInv, FulfillTypeOK, Coordinator, Idle, Republish, At, OrderOf
<1>2. SameReceipts /\ [Next]_vars
  BY UnchangedReceipts DEF Republish
<1>3. QED
  BY <1>1, <1>2, SameCrashes, CallEnds DEF Republish

LEMMA MakeJobRootPreserves ==
    ASSUME FulfillInv, NEW c \in Coordinators, MakeJobRoot(c) PROVE Preserved
<1> DEFINE o == OrderOf(c)
<1>1. o \in OrderIds /\ coordinators[c].pc # "idle"
  BY DEF FulfillInv, FulfillTypeOK, Coordinator, Idle, MakeJobRoot, At, OrderOf
<1>2. SameReceipts /\ [Next]_vars /\ UNCHANGED <<vars, bindings, results, crashes, abandoned>>
  BY UnchangedReceipts DEF MakeJobRoot
<1>3. CASE Untaken(o)
  <2>1. jobs' = [jobs EXCEPT ![o].made = TRUE] /\ GoTo(c, "begin")
    BY <1>3 DEF MakeJobRoot
  <2>2. PICK x \in Coordinator :
           /\ coordinators' = [coordinators EXCEPT ![c] = x]
           /\ x.pc = "begin" /\ x.order = o
    BY <1>1, <2>1, GoToRecord DEF FulfillInv, Working
  <2>3. /\ jobs' \in [OrderIds -> Job] /\ jobs'[o].made
        /\ jobs'[o].envelope = jobs[o].envelope /\ jobs'[o].manifest = jobs[o].manifest
        /\ \A other \in OrderIds \ {o} : jobs'[other] = jobs[other]
    BY <1>1, <2>1 DEF FulfillInv, FulfillTypeOK, Job
  <2>4. ProcessBecomes(c, x)
    BY <1>3, <2>2, <2>3 DEF ProcessBecomes, Untaken, Signed
  <2>5. FilesOfDelivered
    BY <2>3 DEF FilesOfDelivered, FulfillInv, DeliveryOnFile
  <2>6. QED
    BY <1>2, <2>3, <2>4, <2>5, SameCrashes, MovePreserves
<1>4. CASE ~Untaken(o)
  BY <1>2, <1>4, SameCrashes, CallEnds DEF MakeJobRoot
<1>5. QED
  BY <1>3, <1>4

(* Every worker has an order, and nothing is asked of what it has signed   *)
(* while it signs, fails or has not begun.                                 *)
LEMMA WorkerOrder ==
    ASSUME FulfillInv, NEW c \in Coordinators, coordinators[c].pc \in Working
    PROVE  /\ OrderOf(c) \in OrderIds
           /\ Signed(coordinators[c], jobs[OrderOf(c)])
           /\ jobs[OrderOf(c)].made
BY DEF FulfillInv, FulfillTypeOK, Coordinator, Idle, Working, OrderOf,
       DirectoryInv, SignedOnFile, WorkerHasDirectory

LEMMA WorkerRaises ==
    ASSUME FulfillInv, NEW c \in Coordinators, coordinators[c].pc \in Working,
           NEW pc \in {"work", "sign", "failing", "fail"}, GoTo(c, pc),
           [Next]_vars, SameReceipts, UNCHANGED <<jobs, bindings, results, crashes, abandoned>>
    PROVE  Preserved
<1>1. Signed([pc |-> pc, order |-> OrderOf(c), signed |-> coordinators[c].signed],
             jobs[OrderOf(c)])
  BY DEF Signed
<1>2. QED
  BY <1>1, WorkerGoesOn DEF Working

LEMMA BeginPreserves ==
    ASSUME FulfillInv, NEW c \in Coordinators, Begin(c) PROVE Preserved
<1>1. coordinators[c].pc = "begin" /\ OrderOf(c) \in OrderIds
  BY WorkerOrder DEF Begin, At, Working
<1>2. /\ GoTo(c, "work") \/ GoTo(c, "failing")
      /\ BeginFulfillment(OrderOf(c)) \/ UNCHANGED vars
      /\ UNCHANGED <<jobs, bindings, results, crashes, abandoned>>
  BY <1>1 DEF Begin, OrRaise, GoOn, Following
<1>3. [Next]_vars /\ SameReceipts
  BY <1>1, <1>2, TransitionReceipts, UnchangedReceipts DEF Next, BeginFulfillment, FulfillInv
<1>4. QED
  BY <1>1, <1>2, <1>3, WorkerRaises DEF Working

LEMMA WorkPreserves ==
    ASSUME FulfillInv, NEW c \in Coordinators, Work(c) PROVE Preserved
<1>1. coordinators[c].pc = "work" /\ GoTo(c, "sign")
  BY DEF Work, At, GoOn, Following
<1>2. QED
  BY <1>1, UnchangedReceipts, WorkerRaises DEF Work, Working

LEMMA StepFailsPreserves ==
    ASSUME FulfillInv, NEW c \in Coordinators, StepFails(c) PROVE Preserved
BY UnchangedReceipts, WorkerRaises DEF StepFails, Working

LEMMA SignPreserves ==
    ASSUME FulfillInv, NEW c \in Coordinators, Sign(c) PROVE Preserved
<1> DEFINE o == OrderOf(c)
<1>1. coordinators[c].pc = "sign" /\ o \in OrderIds /\ jobs[o].made
  BY WorkerOrder DEF Sign, At, Working
<1>2. SameReceipts /\ [Next]_vars /\ UNCHANGED <<vars, bindings, results, crashes, abandoned>>
  BY UnchangedReceipts DEF Sign
<1>3. CASE jobs[o].envelope # None
  BY <1>1, <1>2, <1>3, WorkerRaises DEF Sign, Working
<1>4. CASE jobs[o].envelope = None
  <2>1. PICK receipt \in Evidence :
           /\ jobs' = [jobs EXCEPT ![o].envelope = receipt]
           /\ coordinators' = [coordinators EXCEPT ![c].signed = receipt, ![c].pc = "costs"]
    BY <1>4 DEF Sign, Following
  <2> DEFINE x == [pc |-> "costs", order |-> o, signed |-> receipt]
  <2>2. receipt # None
    BY NoneAssumption DEF Evidence
  <2>3. x \in Coordinator
    BY <1>1 DEF Coordinator, Working
  <2>4. coordinators' = [coordinators EXCEPT ![c] = x]
    <3>1. coordinators[c] \in [pc: Working \cup {"mkdir", "republish"}, order: OrderIds,
                               signed: Evidence \cup {None}]
      BY <1>1 DEF FulfillInv, FulfillTypeOK, Coordinator, Idle
    <3>2. coordinators'[c] = [coordinators[c] EXCEPT !.signed = receipt, !.pc = "costs"]
      BY <2>1 DEF FulfillInv, FulfillTypeOK
    <3>3. coordinators'[c] = x
      <4>1. /\ coordinators'[c].pc = "costs" /\ coordinators'[c].signed = receipt
            /\ coordinators'[c].order = o
        BY <3>1, <3>2 DEF OrderOf
      <4> HIDE DEF o
      <4>2. coordinators'[c] \in [pc: {"costs"}, order: OrderIds, signed: Evidence]
        BY <1>1, <3>1, <3>2, <4>1
      <4>3. QED
        BY <4>1, <4>2
    <3>4. QED
      BY <2>1, <3>3 DEF FulfillInv, FulfillTypeOK
  <2>5. /\ jobs' \in [OrderIds -> Job] /\ jobs'[o].made
        /\ jobs'[o].envelope = receipt
        /\ \A other \in OrderIds \ {o} : jobs'[other] = jobs[other]
    BY <1>1, <2>1 DEF FulfillInv, FulfillTypeOK, Job
  <2>6. ProcessBecomes(c, x)
    BY <1>1, <2>2, <2>4, <2>5 DEF ProcessBecomes, Signed, Working
  <2>7. orders[o].order_status # "delivered"
    BY <1>1, <1>4 DEF FulfillInv, DeliveryOnFile, StoreInv, RowsInv, DeliveryBacked
  <2>8. FilesOfDelivered
    BY <2>5, <2>7 DEF FilesOfDelivered, FulfillInv, DeliveryOnFile
  <2>9. QED
    BY <1>2, <2>3, <2>5, <2>6, <2>8, SameCrashes, MovePreserves
<1>5. QED
  BY <1>3, <1>4

LEMMA RecordCostsPreserves ==
    ASSUME FulfillInv, NEW c \in Coordinators, RecordCosts(c) PROVE Preserved
<1>1. /\ coordinators[c].pc = "costs" /\ OrderOf(c) \in OrderIds
      /\ Signed(coordinators[c], jobs[OrderOf(c)])
  BY WorkerOrder DEF RecordCosts, At, Working
<1>2. PICK key \in CostKeys, sheet \in CostSheets :
         /\ GoTo(c, "manifest") \/ GoTo(c, "failing")
         /\ RecordDirectCosts(OrderOf(c), key, sheet) \/ UNCHANGED vars
         /\ UNCHANGED <<jobs, bindings, results, crashes, abandoned>>
  BY <1>1 DEF RecordCosts, OrRaise, GoOn, Following
<1>3. [Next]_vars
  BY <1>1, <1>2 DEF Next
<1>4. SameReceipts
  <2>1. CASE RecordDirectCosts(OrderOf(c), key, sheet)
    BY <1>1, <2>1 DEF RecordDirectCosts, SameReceipts, FulfillInv, StoreInv, TypeOK, OrderRow
  <2>2. QED
    BY <1>2, <2>1, UnchangedReceipts
<1>5. CASE GoTo(c, "failing")
  BY <1>1, <1>2, <1>3, <1>4, <1>5, WorkerRaises DEF Working
<1>6. CASE GoTo(c, "manifest")
  <2>1. Signed([pc |-> "manifest", order |-> OrderOf(c), signed |-> coordinators[c].signed],
               jobs[OrderOf(c)])
    BY <1>1 DEF Signed
  <2>2. QED
    BY <1>1, <1>2, <1>3, <1>4, <1>6, <2>1, WorkerGoesOn DEF Working
<1>7. QED
  BY <1>2, <1>5, <1>6

LEMMA WriteManifestPreserves ==
    ASSUME FulfillInv, NEW c \in Coordinators, WriteManifest(c) PROVE Preserved
<1> DEFINE o == OrderOf(c)
           signed == coordinators[c].signed
<1>1. /\ coordinators[c].pc = "manifest" /\ o \in OrderIds /\ jobs[o].made
      /\ signed # None /\ jobs[o].envelope = signed
  BY WorkerOrder DEF WriteManifest, At, Working, Signed
<1>2. /\ SameReceipts /\ [Next]_vars /\ UNCHANGED <<vars, bindings, results, crashes, abandoned>>
      /\ jobs' = [jobs EXCEPT ![o].manifest = signed] /\ GoTo(c, "deliver")
  BY <1>1, UnchangedReceipts DEF WriteManifest, GoOn, Following
<1>3. PICK x \in Coordinator :
         /\ coordinators' = [coordinators EXCEPT ![c] = x]
         /\ x.pc = "deliver" /\ x.order = o /\ x.signed = signed
  BY <1>1, <1>2, GoToRecord DEF FulfillInv, Working
<1>4. signed \in Evidence \cup {None}
  BY <1>1 DEF FulfillInv, FulfillTypeOK, Job
<1>5. /\ jobs' \in [OrderIds -> Job] /\ jobs'[o].made
      /\ jobs'[o].envelope = signed /\ jobs'[o].manifest = signed
      /\ \A other \in OrderIds \ {o} : jobs'[other] = jobs[other]
  BY <1>1, <1>2, <1>4 DEF FulfillInv, FulfillTypeOK, Job
<1>6. ProcessBecomes(c, x)
  BY <1>1, <1>3, <1>5 DEF ProcessBecomes, Signed, Working
<1>7. FilesOfDelivered
  BY <1>1, <1>5 DEF FilesOfDelivered, FulfillInv, DeliveryOnFile
<1>8. QED
  BY <1>2, <1>5, <1>6, <1>7, SameCrashes, MovePreserves

(* The one step that writes a receipt: it is what the worker has signed    *)
(* and what lies in the directory.                                         *)
LEMMA DeliveredOnFile ==
    ASSUME FulfillInv, NEW o \in OrderIds, NEW receipt \in Evidence, Deliver(o, receipt),
           jobs[o].envelope = receipt, jobs[o].manifest = receipt,
           jobs' = jobs, results' = results, StoreInv'
    PROVE  DeliveryOnFile'
<1>1. /\ orders'[o].receipt = receipt /\ orders'[o].order_status = "delivered"
      /\ \A other \in OrderIds \ {o} : orders'[other] = orders[other]
  BY DEF Deliver, FulfillInv, StoreInv, TypeOK, OrderRow
<1>2. orders[o].order_status # "delivered"
  BY DEF Deliver, AllowedOrder, ORDER_TRANSITIONS
<1>3. results[o] = None
  BY <1>2 DEF FulfillInv, DeliveryOnFile
<1>4. QED
  BY <1>1, <1>3 DEF FulfillInv, DeliveryOnFile

LEMMA DeliverOrderPreserves ==
    ASSUME FulfillInv, NEW c \in Coordinators, DeliverOrder(c) PROVE Preserved
<1> DEFINE o == OrderOf(c)
           receipt == coordinators[c].signed
<1>1. /\ coordinators[c].pc = "deliver" /\ o \in OrderIds
      /\ receipt # None /\ jobs[o].envelope = receipt /\ jobs[o].manifest = receipt
  BY WorkerOrder DEF DeliverOrder, At, Working, Signed
<1>2. receipt \in Evidence
  BY <1>1 DEF FulfillInv, FulfillTypeOK, Job
<1>3. UNCHANGED <<jobs, bindings, results, crashes, abandoned>>
  BY DEF DeliverOrder, OrRaise
<1>4. CASE UNCHANGED vars /\ GoTo(c, "failing")
  BY <1>1, <1>3, <1>4, UnchangedReceipts, WorkerRaises DEF Working
<1>5. CASE Deliver(o, receipt) /\ GoTo(c, "publish")
  <2>1. [Next]_vars
    BY <1>1, <1>2, <1>5 DEF Next
  <2>2. Signed([pc |-> "publish", order |-> o, signed |-> receipt], jobs[o])
    BY <1>1 DEF Signed
  <2>3. PICK x \in Coordinator : ProcessBecomes(c, x)
    BY <1>1, <1>3, <1>5, <2>2, WorkerMoves DEF FulfillInv, Working
  <2>4. DirectoryInv'
    BY <2>3, MoveKeepsDirectories DEF FulfillInv
  <2>5. FulfillTypeOK'
    BY <1>3, <2>3 DEF FulfillInv, FulfillTypeOK, ProcessBecomes
  <2>6. StoreInv' => DeliveryOnFile'
    BY <1>1, <1>2, <1>3, <1>5, DeliveredOnFile
  <2>7. QED
    BY <2>1, <2>4, <2>5, <2>6 DEF Preserved
<1>6. QED
  BY <1>1, <1>4, <1>5 DEF DeliverOrder, OrRaise, GoOn, Following

LEMMA PublishPreserves ==
    ASSUME FulfillInv, NEW c \in Coordinators, Publish(c) PROVE Preserved
<1>1. coordinators[c].pc = "publish" /\ OrderOf(c) \in OrderIds
  BY WorkerOrder DEF Publish, At, Working
<1>2. SameReceipts /\ [Next]_vars /\ UNCHANGED <<jobs, bindings, crashes, abandoned>>
  BY UnchangedReceipts DEF Publish
<1>3. CASE Publishable(OrderOf(c))
  BY <1>1, <1>2, <1>3, SameCrashes, CallEnds DEF Publish
<1>4. CASE ~Publishable(OrderOf(c))
  BY <1>1, <1>2, <1>4, WorkerRaises DEF Publish, Working
<1>5. QED
  BY <1>3, <1>4

LEMMA HandleFailurePreserves ==
    ASSUME FulfillInv, NEW c \in Coordinators, HandleFailure(c) PROVE Preserved
<1>1. SameReceipts /\ [Next]_vars /\ UNCHANGED <<jobs, bindings, results, crashes, abandoned>>
  BY UnchangedReceipts DEF HandleFailure
<1>2. CASE MustFail(StatusOf(c))
  BY <1>1, <1>2, WorkerRaises DEF HandleFailure, At, Working
<1>3. CASE ~MustFail(StatusOf(c))
  BY <1>1, <1>3, SameCrashes, CallEnds DEF HandleFailure
<1>4. QED
  BY <1>2, <1>3

LEMMA FailOrderPreserves ==
    ASSUME FulfillInv, NEW c \in Coordinators, FailOrder(c) PROVE Preserved
<1>1. OrderOf(c) \in OrderIds
  BY WorkerOrder DEF FailOrder, At, Working
<1>2. FailFulfillment(OrderOf(c)) \/ UNCHANGED vars
  BY DEF FailOrder
<1>3. [Next]_vars /\ SameReceipts
  BY <1>1, <1>2, TransitionReceipts, UnchangedReceipts DEF Next, FailFulfillment, FulfillInv
<1>4. QED
  BY <1>3, SameCrashes, CallEnds DEF FailOrder

(* Whoever gives an order up, it is one of the orders.                     *)
LEMMA GivenUp ==
    ASSUME FulfillInv, NEW c \in Coordinators, GiveUp(c)
    PROVE  abandoned' \subseteq OrderIds
<1>1. coordinators[c].pc \in Working => OrderOf(c) \in OrderIds
  BY WorkerOrder
<1>2. QED
  BY <1>1 DEF GiveUp, FulfillInv, FulfillTypeOK

LEMMA HandlerRaisesPreserves ==
    ASSUME FulfillInv, NEW c \in Coordinators, HandlerRaises(c) PROVE Preserved
<1>1. crashes' \in 0 .. MaxCrashes
  BY DEF HandlerRaises, FulfillInv, FulfillTypeOK
<1>2. QED
  BY <1>1, GivenUp, UnchangedReceipts, CallEnds DEF HandlerRaises

LEMMA CrashPreserves ==
    ASSUME FulfillInv, NEW c \in Coordinators, Crash(c) PROVE Preserved
<1>1. crashes' \in 0 .. MaxCrashes
  BY FulfillmentAssumption DEF Crash, FulfillInv, FulfillTypeOK
<1>2. QED
  BY <1>1, GivenUp, UnchangedReceipts, CallEnds DEF Crash

LEMMA OthersPreserve ==
    ASSUME FulfillInv, jobs' = jobs, results' = results, coordinators' = coordinators,
           UNCHANGED <<crashes, abandoned>>, bindings' \subseteq OrderIds, [Next]_vars, SameReceipts
    PROVE  Preserved
<1>1. FulfillTypeOK'
  BY DEF FulfillInv, FulfillTypeOK
<1>2. DirectoryInv'
  BY DEF FulfillInv, DirectoryInv, WorkerHasDirectory, OneWorkerPerOrder, SignedOnFile, OrderOf
<1>3. StoreInv' => DeliveryOnFile'
  BY SameFiles, FilesKept DEF FulfillInv, FilesOfDelivered
<1>4. QED
  BY <1>1, <1>2, <1>3 DEF Preserved

LEMMA BuyerStepPreserves ==
    ASSUME FulfillInv, BuyerStep PROVE Preserved
<1>0. now \in 0 .. now
  BY ConstantsAssumption DEF FulfillInv, StoreInv, TypeOK
<1>1. ASSUME NEW q \in QuoteIds, NEW r \in Requests, CreateQuote(q, r, "fake", now)
      PROVE  [Next]_vars /\ SameReceipts
  BY <1>0, <1>1 DEF Next, Providers, CreateQuote, SameReceipts
<1>2. ASSUME NEW q \in QuoteIds, NEW k \in Keys, NEW b \in Buyers, CreateOrder(q, k, b, now)
      PROVE  [Next]_vars /\ SameReceipts
  BY <1>0, <1>2, CreateOrderReceipts DEF Next, FulfillInv
<1>3. ASSUME NEW o \in OrderIds, NEW p, p = FakePaymentId[o], AttachCheckout(o, p, p)
      PROVE  [Next]_vars /\ SameReceipts
  <2>1. p \in CheckoutIds /\ p \in PaymentIds \cup {None}
    BY <1>3, FulfillmentAssumption DEF CheckoutIds, PaymentIds
  <2>2. SameReceipts
    BY <1>3 DEF AttachCheckout, SameReceipts, FulfillInv, StoreInv, TypeOK, OrderRow
  <2>3. QED
    BY <1>3, <2>1, <2>2 DEF Next
<1>4. ASSUME NEW o \in OrderIds, NEW e \in Feed, NEW t \in ReceiveTimes, IngestProviderEvent(o, e, t)
      PROVE  [Next]_vars /\ SameReceipts
  BY <1>4, IngestReceipts DEF Next, FulfillInv
<1>5. [Next]_vars /\ SameReceipts
  BY <1>1, <1>2, <1>3, <1>4 DEF BuyerStep
<1>6. bindings' \subseteq OrderIds
  BY DEF BuyerStep, jobVars, FulfillInv, FulfillTypeOK
<1>7. QED
  BY <1>5, <1>6, OthersPreserve DEF BuyerStep, jobVars

LEMMA BindOrderPreserves ==
    ASSUME FulfillInv, NEW o \in OrderIds, BindOrder(o) PROVE Preserved
<1>1. bindings' \subseteq OrderIds
  BY DEF BindOrder, FulfillInv, FulfillTypeOK
<1>2. QED
  BY <1>1, UnchangedReceipts, OthersPreserve DEF BindOrder
-------------------------------------------------------------------------------
(* The theorems *)

LEMMA FulfillInitInv == FulfillInit => FulfillInv
<1> SUFFICES ASSUME FulfillInit PROVE FulfillInv
  OBVIOUS
<1>1. StoreInv
  BY InitInv DEF FulfillInit
<1>2. FulfillTypeOK
  BY FulfillmentAssumption DEF FulfillInit, FulfillTypeOK, Job, Coordinator
<1>3. DirectoryInv
  BY DEF FulfillInit, Idle, Working, DirectoryInv, WorkerHasDirectory, OneWorkerPerOrder,
         SignedOnFile
<1>4. DeliveryOnFile
  BY DEF FulfillInit, Init, NoOrder, DeliveryOnFile
<1>5. QED
  BY <1>1, <1>2, <1>3, <1>4 DEF FulfillInv

LEMMA FulfillNextPreserves == FulfillInv /\ [FulfillNext]_fulfillVars => Preserved
<1> SUFFICES ASSUME FulfillInv, [FulfillNext]_fulfillVars PROVE Preserved
  OBVIOUS
<1>1. CASE BuyerStep
  BY <1>1, BuyerStepPreserves
<1>2. ASSUME NEW o \in OrderIds, BindOrder(o) PROVE Preserved
  BY <1>2, BindOrderPreserves
<1>3. ASSUME NEW c \in Coordinators, NEW o \in OrderIds, StartFulfill(c, o) PROVE Preserved
  BY <1>3, StartFulfillPreserves
<1>4. ASSUME NEW c \in Coordinators, Proceed(c) PROVE Preserved
  BY <1>4, RepublishPreserves, MakeJobRootPreserves, BeginPreserves, WorkPreserves,
     SignPreserves, RecordCostsPreserves, WriteManifestPreserves, DeliverOrderPreserves,
     PublishPreserves, StepFailsPreserves, HandleFailurePreserves, FailOrderPreserves,
     HandlerRaisesPreserves DEF Proceed
<1>5. ASSUME NEW c \in Coordinators, Crash(c) PROVE Preserved
  BY <1>5, CrashPreserves
<1>6. CASE UNCHANGED fulfillVars
  <2>1. SameReceipts /\ [Next]_vars /\ bindings' \subseteq OrderIds
    BY <1>6, UnchangedReceipts DEF fulfillVars, jobVars, FulfillInv, FulfillTypeOK
  <2>2. QED
    BY <1>6, <2>1, OthersPreserve DEF fulfillVars, jobVars
<1>7. QED
  BY <1>1, <1>2, <1>3, <1>4, <1>5, <1>6 DEF FulfillNext

LEMMA FulfillNextInv ==
    FulfillInv /\ [FulfillNext]_fulfillVars => FulfillInv' /\ [Next]_vars
<1> SUFFICES ASSUME FulfillInv, [FulfillNext]_fulfillVars PROVE FulfillInv' /\ [Next]_vars
  OBVIOUS
<1>1. Preserved
  BY FulfillNextPreserves
<1>2. StoreInv'
  BY <1>1, NextInv DEF Preserved, FulfillInv
<1>3. QED
  BY <1>1, <1>2 DEF Preserved, FulfillInv

(* The store, the processes and the directories are consistent in every    *)
(* reachable state, however many processes run fulfill and wherever they   *)
(* die (fulfillment.py:45-144).                                            *)
THEOREM FulfillmentInvariant == FulfillSpec => []FulfillInv
<1>1. FulfillInit => FulfillInv
  BY FulfillInitInv
<1>2. FulfillInv /\ [FulfillNext]_fulfillVars => FulfillInv'
  BY FulfillNextInv
<1>3. QED
  BY <1>1, <1>2, PTL DEF FulfillSpec

(* The coordinators implement the store's specification: whatever they do, *)
(* the tables see only calls CommerceStore allows, so every theorem about  *)
(* Spec holds of FulfillSpec (fulfillment.py, all uses of self.store).     *)
THEOREM FulfillmentUsesStore == FulfillSpec => Spec
<1>1. FulfillInit => Init
  BY DEF FulfillInit
<1>2. FulfillInv /\ [FulfillNext]_fulfillVars => [Next]_vars
  BY FulfillNextInv
<1>3. QED
  BY <1>1, <1>2, FulfillmentInvariant, PTL DEF FulfillSpec, Spec

(* A delivered order's envelope and manifest are on disk and a published   *)
(* result is that envelope (fulfillment.py:92-131, the order of the steps).*)
THEOREM DeliveriesAreOnFile == FulfillSpec => []DeliveryOnFile
<1>1. FulfillInv => DeliveryOnFile
  BY DEF FulfillInv
<1>2. QED
  BY <1>1, FulfillmentInvariant, PTL

(* mkdir lets at most one process work on an order (fulfillment.py:74-76). *)
THEOREM WorkersAreExclusive == FulfillSpec => []OneWorkerPerOrder
<1>1. FulfillInv => OneWorkerPerOrder
  BY DEF FulfillInv, DirectoryInv
<1>2. QED
  BY <1>1, FulfillmentInvariant, PTL

(* Processes, directories and results keep their types (fulfillment.py).   *)
THEOREM FulfillmentTypeCorrect == FulfillSpec => []FulfillTypeOK
<1>1. FulfillInv => FulfillTypeOK
  BY DEF FulfillInv
<1>2. QED
  BY <1>1, FulfillmentInvariant, PTL

-------------------------------------------------------------------------------
(* No order is left behind *)

(* Orders somebody may be working on or has worked on, and those the work  *)
(* of which is still to end.                                               *)
AtWork(o) == orders[o].order_status \in WorkStatus
InHand(o) == orders[o].order_status \in {"queued", "running"}
WorksOn(c, o) == coordinators[c].pc \in Working /\ OrderOf(c) = o

(* Unless it was given up, an order in hand with a directory has a worker. *)
Attended(o) ==
    jobs[o].made /\ InHand(o) /\ o \notin abandoned => \E c \in Coordinators : WorksOn(c, o)

Tended ==
    /\ \A c \in Coordinators : At(c, "mkdir") => AtWork(OrderOf(c))
    /\ \A o \in OrderIds : (jobs[o].made => AtWork(o)) /\ Attended(o)

LEMMA WorkOfStatus ==
    ASSUME NEW row \in OrderRow
    PROVE  /\ row.order_status \in WorkStatus <=>
                WorkOf(row) \in {"ready", "started", "delivered", "abandoned"}
           /\ row.order_status \in {"queued", "running"} <=> WorkOf(row) \in {"ready", "started"}
<1>1. row.order_status \in OrderStatus \cup {"absent"}
  BY DEF OrderRow
<1>2. CASE row.order_status = "cancelled"
  BY <1>2 DEF WorkOf, WorkStatus
<1>3. CASE row.order_status # "cancelled"
  BY <1>1, <1>3, PromiseOfRow DEF OrderStatus, WorkStatus
<1>4. QED
  BY <1>2, <1>3

(* What the contract promises of work that was paid for: it never goes back *)
(* to an unpaid order, and once it has ended it does not start again.      *)
LEMMA WorkIsSteady ==
    ASSUME StoreInv, [Next]_vars, NEW o \in OrderIds
    PROVE  AtWork(o) => AtWork(o)' /\ (InHand(o)' => InHand(o))
<1> DEFINE before == Promises[o].work
           after  == Promises'[o].work
<1>1. StoreInv'
  BY NextInv
<1>2. [Contract!ContractNext]_Promises
  BY NextKeepsContract
<1>3. before = WorkOf(orders[o]) /\ after = WorkOf(orders'[o])
  BY DEF Promises
<1>4. orders[o] \in OrderRow /\ orders'[o] \in OrderRow
  BY <1>1 DEF StoreInv, TypeOK
<1>5. before \in {"ready", "started", "delivered", "abandoned"} =>
        /\ after \in {"ready", "started", "delivered", "abandoned"}
        /\ after \in {"ready", "started"} => before \in {"ready", "started"}
  <2>1. CASE Promises' = Promises
    BY <2>1
  <2>2. ASSUME NEW x \in OrderIds, NEW work, NEW funds, Contract!Becomes(x, work, funds)
        PROVE  after = IF x = o THEN work ELSE before
    BY <2>2 DEF Contract!Becomes, Promises
  <2>3. CASE Contract!ContractNext
    <3>1. PICK x \in OrderIds :
            Contract!Open(x) \/ Contract!Void(x) \/ Contract!Collect(x) \/ Contract!SettleFunds(x)
              \/ Contract!Start(x) \/ Contract!Finish(x) \/ Contract!Abandon(x)
      BY <2>3 DEF Contract!ContractNext
    <3>2. PICK work, funds : Contract!Becomes(x, work, funds)
      BY <3>1 DEF Contract!Open, Contract!Void, Contract!Collect, Contract!SettleFunds,
                  Contract!Start, Contract!Finish, Contract!Abandon
    <3>3. CASE x # o
      BY <2>2, <3>2, <3>3
    <3>4. CASE x = o
      BY <2>2, <3>1, <3>4 DEF Contract!Open, Contract!Void, Contract!Collect, Contract!SettleFunds,
                  Contract!Start, Contract!Finish, Contract!Abandon, Promises
    <3>5. QED
      BY <3>3, <3>4
  <2>4. QED
    BY <1>2, <2>1, <2>3
<1> HIDE DEF before, after
<1>6. QED
  BY <1>3, <1>4, <1>5, WorkOfStatus DEF AtWork, InHand


(* A step that leaves every process where it is.                           *)
LEMMA TendedByOthers ==
    ASSUME FulfillInv, Tended, [Next]_vars, UNCHANGED <<jobs, coordinators, abandoned>>
    PROVE  Tended'
<1>1. ASSUME NEW o \in OrderIds PROVE (jobs'[o].made => AtWork(o)') /\ Attended(o)'
  <2>1. AtWork(o) => AtWork(o)' /\ (InHand(o)' => InHand(o))
    BY WorkIsSteady DEF FulfillInv
  <2>2. \A c \in Coordinators : WorksOn(c, o)' <=> WorksOn(c, o)
    BY DEF WorksOn, OrderOf
  <2>3. QED
    BY <2>1, <2>2 DEF Tended, Attended
<1>2. ASSUME NEW c \in Coordinators, At(c, "mkdir")' PROVE AtWork(OrderOf(c))'
  <2>1. PICK o \in OrderIds : o = OrderOf(c) /\ OrderOf(c)' = o
    BY <1>2 DEF FulfillInv, FulfillTypeOK, Coordinator, Idle, At, OrderOf
  <2>2. AtWork(o)
    BY <1>2, <2>1 DEF Tended, At
  <2>3. AtWork(o)'
    BY <2>2, WorkIsSteady DEF FulfillInv
  <2>4. QED
    BY <2>1, <2>3 DEF AtWork
<1>3. QED
  BY <1>1, <1>2 DEF Tended

(* A step of one process, which becomes x: it leaves an order it worked on, *)
(* or whose directory it made, only if the order is no longer in hand or   *)
(* has been given up.                                                      *)
LEMMA TendedByOne ==
    ASSUME FulfillInv, Tended, [Next]_vars, NEW c \in Coordinators, NEW x,
           coordinators' = [coordinators EXCEPT ![c] = x],
           abandoned \subseteq abandoned',
           x.pc = "mkdir" => x.order \in OrderIds /\ AtWork(x.order),
           \A o \in OrderIds : jobs'[o].made => jobs[o].made \/ AtWork(o),
           \A o \in OrderIds : WorksOn(c, o) \/ (jobs'[o].made /\ ~jobs[o].made) =>
              (x.pc \in Working /\ x.order = o) \/ ~InHand(o)' \/ o \in abandoned'
    PROVE  Tended'
<1>1. coordinators'[c] = x /\ \A d \in Coordinators \ {c} : coordinators'[d] = coordinators[d]
  BY DEF FulfillInv, FulfillTypeOK
<1>2. ASSUME NEW o \in OrderIds PROVE (jobs'[o].made => AtWork(o)') /\ Attended(o)'
  <2>1. AtWork(o) => AtWork(o)' /\ (InHand(o)' => InHand(o))
    BY WorkIsSteady DEF FulfillInv
  <2>2. jobs'[o].made => AtWork(o)
    BY DEF Tended
  <2>3. Attended(o)'
    <3> SUFFICES ASSUME jobs'[o].made, InHand(o)', o \notin abandoned'
                 PROVE  \E d \in Coordinators : WorksOn(d, o)'
      BY DEF Attended
    <3>1. InHand(o) /\ o \notin abandoned
      BY <2>1, <2>2
    <3>2. CASE jobs[o].made
      <4>1. PICK d \in Coordinators : WorksOn(d, o)
        BY <3>1, <3>2 DEF Tended, Attended
      <4>2. CASE d = c
        BY <1>1, <4>1, <4>2 DEF WorksOn, OrderOf
      <4>3. CASE d # c
        BY <1>1, <4>1, <4>3 DEF WorksOn, OrderOf
      <4>4. QED
        BY <4>2, <4>3
    <3>3. CASE ~jobs[o].made
      BY <1>1, <3>3 DEF WorksOn, OrderOf
    <3>4. QED
      BY <3>2, <3>3
  <2>4. QED
    BY <2>1, <2>2, <2>3
<1>3. ASSUME NEW d \in Coordinators, At(d, "mkdir")' PROVE AtWork(OrderOf(d))'
  <2>1. PICK o \in OrderIds : OrderOf(d)' = o /\ AtWork(o)
    <3>1. CASE d = c
      BY <1>1, <1>3, <3>1 DEF At, OrderOf
    <3>2. CASE d # c
      BY <1>1, <1>3, <3>2 DEF FulfillInv, FulfillTypeOK, Coordinator, Idle, At, OrderOf, Tended
    <3>3. QED
      BY <3>1, <3>2
  <2>2. AtWork(o)'
    BY <2>1, WorkIsSteady DEF FulfillInv
  <2>3. QED
    BY <2>1, <2>2 DEF AtWork
<1>4. QED
  BY <1>2, <1>3 DEF Tended


(* A worker goes to another step of its order.                             *)
LEMMA TendedByWorker ==
    ASSUME FulfillInv, Tended, [Next]_vars, NEW c \in Coordinators, coordinators[c].pc \in Working,
           NEW pc \in Working, GoTo(c, pc), abandoned' = abandoned,
           \A o \in OrderIds : jobs'[o].made => jobs[o].made
    PROVE  Tended'
<1>1. PICK x \in Coordinator :
         /\ coordinators' = [coordinators EXCEPT ![c] = x]
         /\ x.pc = pc /\ x.order = OrderOf(c)
  BY GoToRecord DEF FulfillInv, Working
<1>2. x.pc # "mkdir"
  BY <1>1 DEF Working
<1>3. QED
  BY <1>1, <1>2, TendedByOne DEF WorksOn

(* A call ends: of a worker it is asked that its order has come to an end. *)
LEMMA TendedByReturn ==
    ASSUME FulfillInv, Tended, [Next]_vars, NEW c \in Coordinators, coordinators' = Returned(c),
           abandoned \subseteq abandoned', jobs' = jobs,
           \A o \in OrderIds : WorksOn(c, o) => ~InHand(o)' \/ o \in abandoned'
    PROVE  Tended'
<1>1. coordinators' = [coordinators EXCEPT ![c] = Idle] /\ Idle.pc # "mkdir"
  BY DEF Returned, Idle
<1>2. QED
  BY <1>1, TendedByOne

LEMMA MakeJobRootTended ==
    ASSUME FulfillInv, Tended, [Next]_vars, NEW c \in Coordinators, MakeJobRoot(c)
    PROVE  Tended'
<1>1. PICK o \in OrderIds : o = OrderOf(c) /\ AtWork(o)
  BY DEF FulfillInv, FulfillTypeOK, Coordinator, Idle, MakeJobRoot, At, OrderOf, Tended
<1>2. coordinators[c].pc = "mkdir" /\ abandoned' = abandoned /\ \A p \in OrderIds : ~WorksOn(c, p)
  BY DEF MakeJobRoot, At, WorksOn, Working
<1>3. CASE Untaken(o)
  <2>1. jobs' = [jobs EXCEPT ![o].made = TRUE] /\ GoTo(c, "begin")
    BY <1>1, <1>3 DEF MakeJobRoot
  <2>2. PICK x \in Coordinator :
           /\ coordinators' = [coordinators EXCEPT ![c] = x]
           /\ x.pc = "begin" /\ x.order = o
    BY <1>1, <1>2, <2>1, GoToRecord DEF FulfillInv, Working
  <2>3. \A p \in OrderIds : p = o \/ jobs'[p] = jobs[p]
    BY <2>1 DEF FulfillInv, FulfillTypeOK
  <2>4. QED
    BY <1>1, <1>2, <2>2, <2>3, TendedByOne DEF Working
<1>4. CASE ~Untaken(o)
  BY <1>1, <1>2, <1>4, TendedByReturn DEF MakeJobRoot
<1>5. QED
  BY <1>3, <1>4

(* The steps between mkdir and the end of the try block stay with the order *)
(* or go to the handler; only a published order is let go.                 *)
LEMMA TryTended ==
    ASSUME FulfillInv, Tended, [Next]_vars, NEW c \in Coordinators,
           \/ Begin(c) \/ Work(c) \/ RecordCosts(c) \/ DeliverOrder(c) \/ StepFails(c)
    PROVE  Tended'
<1>1. coordinators[c].pc \in Working /\ jobs' = jobs /\ abandoned' = abandoned
  BY DEF Begin, Work, RecordCosts, DeliverOrder, StepFails, OrRaise, At, Working
<1>2. \E pc \in Working : GoTo(c, pc)
  BY DEF Begin, Work, RecordCosts, DeliverOrder, StepFails, OrRaise, At, Working, GoOn, Following
<1>3. QED
  BY <1>1, <1>2, TendedByWorker


(* Signing and the manifest change files of a directory that is there.     *)
LEMMA FilesTended ==
    ASSUME FulfillInv, Tended, [Next]_vars, NEW c \in Coordinators, Sign(c) \/ WriteManifest(c)
    PROVE  Tended'
<1>1. coordinators[c].pc \in Working /\ coordinators[c].pc # "idle" /\ abandoned' = abandoned
  BY DEF Sign, WriteManifest, At, Working
<1>2. \A o \in OrderIds : jobs'[o].made => jobs[o].made
  <2> DEFINE written == { [jobs EXCEPT ![OrderOf(c)].envelope = v] : v \in Evidence }
                    \cup { [jobs EXCEPT ![OrderOf(c)].manifest = v] : v \in {coordinators[c].signed} }
  <2>1. jobs' = jobs \/ jobs' \in written
    BY DEF Sign, WriteManifest
  <2>2. ASSUME NEW after \in written, NEW o \in OrderIds PROVE after[o].made = jobs[o].made
    BY DEF FulfillInv, FulfillTypeOK, Job
  <2> HIDE DEF written
  <2>3. ASSUME NEW o \in OrderIds PROVE jobs'[o].made = jobs[o].made
    BY <2>1, <2>2
  <2>4. QED
    BY <2>3, Zenon
<1>3. CASE \E pc \in Working : GoTo(c, pc)
  BY <1>1, <1>2, <1>3, TendedByWorker
<1>4. ASSUME NEW receipt \in Evidence,
             coordinators' = [coordinators EXCEPT ![c].signed = receipt, ![c].pc = "costs"]
      PROVE  Tended'
  <2> DEFINE x == [coordinators[c] EXCEPT !.signed = receipt, !.pc = "costs"]
  <2>1. coordinators[c] \in [pc: Working \cup {"mkdir", "republish"}, order: OrderIds,
                             signed: Evidence \cup {None}]
    BY <1>1 DEF FulfillInv, FulfillTypeOK, Coordinator, Idle
  <2>2. coordinators' = [coordinators EXCEPT ![c] = x]
    BY <1>4 DEF FulfillInv, FulfillTypeOK
  <2>3. x.pc = "costs" /\ x.order = OrderOf(c)
    BY <2>1 DEF OrderOf
  <2> HIDE DEF x
  <2>4. QED
    BY <1>1, <1>2, <2>2, <2>3, TendedByOne DEF WorksOn, Working
<1>5. QED
  BY <1>3, <1>4 DEF Sign, WriteManifest, GoOn, Following, At, Working

LEMMA PublishTended ==
    ASSUME FulfillInv, Tended, [Next]_vars, NEW c \in Coordinators, Publish(c)
    PROVE  Tended'
<1>1. coordinators[c].pc \in Working /\ jobs' = jobs /\ abandoned' = abandoned /\ orders' = orders
  BY DEF Publish, At, Working, vars
<1>2. CASE GoTo(c, "failing")
  BY <1>1, <1>2, TendedByWorker DEF Working
<1>3. CASE Publishable(OrderOf(c)) /\ coordinators' = Returned(c)
  <2>1. \A o \in OrderIds : WorksOn(c, o) => ~InHand(o)'
    BY <1>1, <1>3 DEF Publishable, WorksOn, InHand
  <2>2. QED
    BY <1>1, <1>3, <2>1, TendedByReturn
<1>4. QED
  BY <1>2, <1>3 DEF Publish

(* The handler gives an order up only if it is not in hand any more, and   *)
(* what it can still fail it fails.                                        *)
LEMMA HandlerTended ==
    ASSUME FulfillInv, Tended, [Next]_vars, NEW c \in Coordinators,
           HandleFailure(c) \/ FailOrder(c)
    PROVE  Tended'
<1>1. coordinators[c].pc \in Working /\ jobs' = jobs /\ abandoned' = abandoned
  BY DEF HandleFailure, FailOrder, At, Working
<1>2. CASE GoTo(c, "fail")
  BY <1>1, <1>2, TendedByWorker DEF Working
<1>3. CASE HandleFailure(c) /\ ~MustFail(StatusOf(c)) /\ coordinators' = Returned(c)
  <2>1. \A o \in OrderIds : WorksOn(c, o) => ~InHand(o)'
    BY <1>3 DEF HandleFailure, MustFail, StatusOf, WorksOn, InHand, vars
  <2>2. QED
    BY <1>1, <1>3, <2>1, TendedByReturn
<1>4. CASE FailOrder(c)
  <2>1. \A o \in OrderIds : WorksOn(c, o) => ~InHand(o)'
    <3> SUFFICES ASSUME NEW o \in OrderIds, WorksOn(c, o) PROVE ~InHand(o)'
      OBVIOUS
    <3>1. o = OrderOf(c)
      BY DEF WorksOn
    <3>2. CASE AllowedOrder(StatusOf(c), "fulfillment_failed")
      <4>1. FailFulfillment(o)
        BY <1>4, <3>1, <3>2 DEF FailOrder
      <4>2. orders'[o].order_status = "fulfillment_failed"
        BY <4>1 DEF FailFulfillment, TransitionOrder, FulfillInv, StoreInv, TypeOK, OrderRow
      <4>3. QED
        BY <4>2 DEF InHand
    <3>3. CASE ~AllowedOrder(StatusOf(c), "fulfillment_failed")
      BY <1>4, <3>1, <3>3 DEF FailOrder, AllowedOrder, ORDER_TRANSITIONS, StatusOf, InHand, vars
    <3>4. QED
      BY <3>2, <3>3
  <2>2. QED
    BY <1>1, <1>4, <2>1, TendedByReturn DEF FailOrder
<1>5. QED
  BY <1>2, <1>3, <1>4 DEF HandleFailure

(* The others do not work on any order.                                    *)
LEMMA StartTended ==
    ASSUME FulfillInv, Tended, [Next]_vars, NEW c \in Coordinators, NEW o \in OrderIds,
           StartFulfill(c, o)
    PROVE  Tended'
<1>1. PICK pc \in {"republish", "mkdir"} :
        /\ IF pc = "republish" THEN Republishes(o) ELSE Ready(o)
        /\ coordinators' = [coordinators EXCEPT ![c] = [pc |-> pc, order |-> o, signed |-> None]]
  BY DEF StartFulfill
<1>2. pc = "mkdir" => AtWork(o)
  BY <1>1 DEF Ready, AtWork, WorkStatus
<1>3. jobs' = jobs /\ abandoned' = abandoned /\ \A p \in OrderIds : ~WorksOn(c, p)
  BY DEF StartFulfill, At, WorksOn, Working
<1>4. QED
  BY <1>1, <1>2, <1>3, TendedByOne

LEMMA RepublishTended ==
    ASSUME FulfillInv, Tended, [Next]_vars, NEW c \in Coordinators, Republish(c)
    PROVE  Tended'
BY TendedByReturn DEF Republish, At, WorksOn, Working

(* A worker that dies, or whose handler raises, leaves its order given up  *)
(* if it leaves it in hand.                                                *)
LEMMA GiveUpTended ==
    ASSUME FulfillInv, Tended, [Next]_vars, NEW c \in Coordinators, Crash(c) \/ HandlerRaises(c)
    PROVE  Tended'
<1>1. coordinators' = Returned(c) /\ jobs' = jobs /\ orders' = orders /\ GiveUp(c)
  BY DEF Crash, HandlerRaises, vars
<1>2. \A o \in OrderIds : WorksOn(c, o) => ~InHand(o)' \/ o \in abandoned'
  BY <1>1 DEF GiveUp, WorksOn, InHand, StatusOf
<1>3. abandoned \subseteq abandoned'
  BY <1>1 DEF GiveUp
<1>4. QED
  BY <1>1, <1>2, <1>3, TendedByReturn

LEMMA NextTended ==
    FulfillInv /\ Tended /\ [FulfillNext]_fulfillVars => Tended'
<1> SUFFICES ASSUME FulfillInv, Tended, [FulfillNext]_fulfillVars PROVE Tended'
  OBVIOUS
<1>1. [Next]_vars
  BY FulfillNextInv
<1>2. CASE BuyerStep \/ \E o \in OrderIds : BindOrder(o)
  BY <1>1, <1>2, TendedByOthers DEF BuyerStep, BindOrder, jobVars
<1>3. ASSUME NEW c \in Coordinators, NEW o \in OrderIds, StartFulfill(c, o) PROVE Tended'
  BY <1>1, <1>3, StartTended
<1>4. ASSUME NEW c \in Coordinators, Proceed(c) \/ Crash(c) PROVE Tended'
  BY <1>1, <1>4, MakeJobRootTended, TryTended, FilesTended, PublishTended, HandlerTended,
     RepublishTended, GiveUpTended DEF Proceed
<1>5. CASE UNCHANGED fulfillVars
  BY <1>1, <1>5, TendedByOthers DEF fulfillVars, jobVars
<1>6. QED
  BY <1>2, <1>3, <1>4, <1>5 DEF FulfillNext

(* An order in hand with its directory made and no worker is the trace of  *)
(* its own process dying or of its own handler raising: every other        *)
(* failure in the try block ends the order (fulfillment.py:133-144).       *)
THEOREM OrphansWereGivenUp == FulfillSpec => []OrphansWereAbandoned
<1>1. FulfillInit => Tended
  BY DEF FulfillInit, Tended, Attended, At, Idle
<1>2. FulfillInv /\ Tended /\ [FulfillNext]_fulfillVars => Tended'
  BY NextTended
<1>3. FulfillInv /\ Tended => OrphansWereAbandoned
  BY DEF OrphansWereAbandoned, Tended, Attended, InHand, WorksOn
<1>4. QED
  BY <1>1, <1>2, <1>3, FulfillmentInvariant, PTL DEF FulfillSpec
===============================================================================
