---------------------------- MODULE HostedWorker ----------------------------
(***************************************************************************)
(* hosted_worker.py: run_once takes one paid job from the order service,   *)
(* freezes, inspects and signs, and posts the envelope; a failure before   *)
(* that is posted instead.                                                 *)
(*                                                                         *)
(* The order service is not in the repository: its leases are modelled as  *)
(* the claims, requests and answers of the worker presuppose.  A post may  *)
(* be lost or served after the worker has given up on its answer, a        *)
(* worker may die anywhere, and a lease may run out under a worker.        *)
(***************************************************************************)
EXTENDS StageB

CONSTANTS
    Runs,           \* invocations of run_once
    RootOf,         \* the work root each is configured with, one of Caches
    Orders,         \* paid orders
    Wanted,         \* what each order asks to have validated
    MaxAttempts,    \* leases of one order; 3 in the code
    MaxDeaths       \* bound on the processes that die

ASSUME HostedWorkerAssumption ==
    /\ Runs \subseteq Processes
    /\ \A w \in Runs : CacheOf[w] = RootOf[w]
    /\ \A p \in Processes \ Runs, w \in Runs : CacheOf[p] # RootOf[w]
    /\ Wanted \in [Orders -> Requests]
    /\ MaxAttempts \in Nat \ {0} /\ MaxDeaths \in Nat
    /\ None \notin Runs \cup Orders \cup [by: Runs, attests: Requests \cup {Damaged}]

VARIABLES
    runs,           \* where an invocation is, and its job
    roots,          \* work roots that have been made
    service,        \* the service's record of each order
    posts,          \* posts under way; one that is never served is lost
    replies,        \* answers under way to posts of a completion, likewise
    deaths

workerVars == <<runs, roots, service, posts, replies, deaths>>
allVars    == <<stageVars, workerVars>>

Envelope == [by: Runs, attests: Content]
NoJob    == [pc |-> "start", order |-> None, posted |-> None]
RunPcs   == {"start", "claim", "work", "await", "delivered", "idle", "ended", "dead"}
Run      == [pc: RunPcs, order: Orders \cup {None}, posted: Envelope \cup {None}]
Record   == [status: {"queued", "leased", "delivered", "failed"}, attempt: 0 .. MaxAttempts,
             lease: Runs \cup {None}, result: Envelope \cup {None}]
Post     == [kind: {"complete"}, by: Runs, order: Orders, envelope: Envelope]
            \cup [kind: {"fail"}, by: Runs, order: Orders, retryable: BOOLEAN]
Reply    == [to: Runs, result: Envelope \cup {None}]

(* Earlier invocations may have left their roots behind. *)
WorkerInit ==
    /\ StageInit
    /\ runs = [w \in Runs |-> NoJob]
    /\ roots \in SUBSET {RootOf[w] : w \in Runs}
    /\ service = [o \in Orders |-> [status |-> "queued", attempt |-> 0, lease |-> None,
                                    result |-> None]]
    /\ posts = {}
    /\ replies = {}
    /\ deaths = 0

In(w, pc)     == runs[w].pc = pc
Move(w, pc)   == runs' = [runs EXCEPT ![w].pc = pc]
EnvelopeOf(w) == [by |-> w, attests |-> envelopes[w].attests]

-------------------------------------------------------------------------------
(* The order service, as the worker sees it *)

Held(o, w) == service[o].status = "leased" /\ service[o].lease = w

Release(o, status) == [service EXCEPT ![o].status = status, ![o].lease = None]

Again(o) == IF service[o].attempt < MaxAttempts THEN "queued" ELSE "failed"

Leasable(o) == service[o].status = "queued" /\ service[o].attempt < MaxAttempts

Lease(o, w) ==
    /\ Leasable(o)
    /\ service' = [service EXCEPT ![o].status = "leased", ![o].lease = w,
                                  ![o].attempt = @ + 1]

ExpireLease(o) ==
    /\ service[o].status = "leased"
    /\ service' = Release(o, Again(o))
    /\ UNCHANGED <<stageVars, runs, roots, posts, replies, deaths>>

(* A completion is taken from the holder of the lease; a repeated or late   *)
(* one may be answered with what is on record.                              *)
ServeCompletion(m) ==
    /\ m \in posts /\ m.kind = "complete"
    /\ posts' = posts \ {m}
    /\ IF Held(m.order, m.by)
       THEN /\ service' = [Release(m.order, "delivered") EXCEPT ![m.order].result = m.envelope]
            /\ replies' = replies \cup {[to |-> m.by, result |-> m.envelope]}
       ELSE /\ \E result \in {None, service[m.order].result} :
                 replies' = replies \cup {[to |-> m.by, result |-> result]}
            /\ UNCHANGED service
    /\ UNCHANGED <<stageVars, runs, roots, deaths>>

ServeFailure(m) ==
    /\ m \in posts /\ m.kind = "fail"
    /\ posts' = posts \ {m}
    /\ service' = IF Held(m.order, m.by)
                  THEN Release(m.order, IF m.retryable THEN Again(m.order) ELSE "failed")
                  ELSE service
    /\ UNCHANGED <<stageVars, runs, roots, replies, deaths>>

-------------------------------------------------------------------------------
(* run_once *)

(* The workflow may have claimed the job and left its answer in a file.     *)
Preclaim(w) ==
    /\ In(w, "start") /\ runs[w].order = None
    /\ \E o \in Orders : Lease(o, w) /\ runs' = [runs EXCEPT ![w].order = o]
    /\ UNCHANGED <<stageVars, roots, posts, replies, deaths>>

(* The work root must be new: an invocation that finds one claims nothing,  *)
(* and the lease of a preclaimed job is left to run out.                    *)
MakeRoot(w) ==
    /\ In(w, "start")
    /\ IF RootOf[w] \in roots
       THEN Move(w, "ended") /\ UNCHANGED roots
       ELSE Move(w, "claim") /\ roots' = roots \cup {RootOf[w]}
    /\ UNCHANGED <<stageVars, service, posts, replies, deaths>>

(* Before there is a job nothing is reported: a claim whose answer is lost, *)
(* or a file that is no job, leaves a lease that runs out.                  *)
Claim(w) ==
    /\ In(w, "claim")
    /\ \/ /\ runs[w].order = None
          /\ \E o \in Orders :
               Lease(o, w) /\ (runs' = [runs EXCEPT ![w].pc = "work", ![w].order = o] \/ Move(w, "ended"))
       \/ /\ runs[w].order = None /\ \A o \in Orders : ~Leasable(o)
          /\ Move(w, "idle") /\ UNCHANGED service
       \/ runs[w].order # None /\ Move(w, "work") /\ UNCHANGED service
       \/ Move(w, "ended") /\ UNCHANGED service
    /\ UNCHANGED <<stageVars, roots, posts, replies, deaths>>

(* The envelope is read back and verified with the public key; then, and   *)
(* before the call, completion counts as attempted.                         *)
Complete(w) ==
    /\ In(w, "work") /\ At(w, "signed")
    /\ IF envelopes[w].intact
       THEN /\ runs' = [runs EXCEPT ![w].pc = "await", ![w].posted = EnvelopeOf(w)]
            /\ posts' = posts \cup {[kind |-> "complete", by |-> w, order |-> runs[w].order,
                                     envelope |-> EnvelopeOf(w)]}
            /\ UNCHANGED stages
       ELSE Raise(w, FALSE) /\ UNCHANGED <<runs, posts>>
    /\ UNCHANGED <<cache, partials, outputs, envelopes, faults, roots, service, replies, deaths>>

\* mutant: any 200 is taken for this envelope's
Confirms_AnyAnswer(w, reply) == reply.result # None

(* The answer must name this envelope's digest, its receipt and its key. *)
Confirms(w, reply) == reply.result = runs[w].posted

(* The answer confirms, or the call raises: refused, or the answer does not *)
(* fit, or there is none.                                                   *)
TakeAnswer(w) ==
    /\ In(w, "await") /\ ~At(w, "failed")
    /\ \/ \E reply \in replies :
            /\ reply.to = w /\ replies' = replies \ {reply}
            /\ IF Confirms(w, reply)
               THEN Move(w, "delivered") /\ UNCHANGED stages
               ELSE (\E retryable \in BOOLEAN : Raise(w, retryable)) /\ UNCHANGED runs
       \/ Raise(w, TRUE) /\ UNCHANGED <<runs, replies>>
    /\ UNCHANGED <<cache, partials, outputs, envelopes, faults, roots, service, posts, deaths>>

\* mutant: whatever was raised is reported
Reports_Always(w) == TRUE

(* completion_attempted *)
Reports(w) == runs[w].posted = None

(* The except handler; what the report meets is swallowed. *)
HandleFailure(w) ==
    /\ runs[w].pc \in {"work", "await"} /\ At(w, "failed")
    /\ posts' = IF Reports(w)
                THEN posts \cup {[kind |-> "fail", by |-> w, order |-> runs[w].order,
                                  retryable |-> stages[w].retryable]}
                ELSE posts
    /\ Move(w, "ended")
    /\ UNCHANGED <<stageVars, roots, service, replies, deaths>>

(* The runner is cancelled or its host is gone. *)
Die(w) ==
    /\ deaths < MaxDeaths /\ deaths' = deaths + 1
    /\ runs[w].pc \in {"claim", "work", "await"}
    /\ Move(w, "dead")
    /\ UNCHANGED <<stageVars, roots, service, posts, replies>>

RunStep(w) ==
    \/ Preclaim(w) \/ MakeRoot(w) \/ Claim(w) \/ Complete(w) \/ TakeAnswer(w) \/ HandleFailure(w) \/ Die(w)
    \/ /\ In(w, "work")
       /\ LookUp(w, Wanted[runs[w].order]) \/ StageStep(w)
       /\ UNCHANGED workerVars

(* A coordinator or a command of this host, with the shared root. *)
LocalStep(p) ==
    /\ (\E r \in Requests : LookUp(p, r)) \/ StageStep(p)
    /\ UNCHANGED workerVars

ServiceStep ==
    \/ \E o \in Orders : ExpireLease(o)
    \/ \E m \in posts : ServeCompletion(m) \/ ServeFailure(m)

WorkerNext ==
    \/ \E w \in Runs : RunStep(w)
    \/ \E p \in Processes \ Runs : LocalStep(p)
    \/ ServiceStep
    \/ Damage /\ UNCHANGED workerVars

WorkerSpec == WorkerInit /\ [][WorkerNext]_allVars

-------------------------------------------------------------------------------
(* Properties *)

(* Types; a .partial directory belongs to a freeze under way or to one that *)
(* died, since every exception removes it unless the removal fails.         *)
WorkerTypeOK ==
    /\ StageTypeOK
    /\ runs \in [Runs -> Run]
    /\ roots \subseteq Caches
    /\ service \in [Orders -> Record]
    /\ posts \subseteq Post
    /\ replies \subseteq Reply
    /\ deaths \in 0 .. MaxDeaths

(* Tree, receipt and report are files, checked at one moment and used at    *)
(* another.  Whichever of them loses bytes in between, to an accident that  *)
(* leaves no other request's consistent copy in their place, an envelope is *)
(* about the commit that was requested, and so is the one the service keeps *)
(* for an order.                                                            *)
SignedIsRequested ==
    /\ \A p \in Processes : envelopes[p] # None => envelopes[p].attests = RequestOf(p)
    /\ \A o \in Orders :
         service[o].result # None => service[o].result.attests = Wanted[o]

(* An envelope that was posted may still arrive after the worker has given  *)
(* up on the answer: nothing the worker says afterwards may take the lease  *)
(* it arrives under away from it.                                           *)
PostedWorkIsNotReported ==
    \A o \in Orders, m \in posts :
        /\ m.kind = "fail" /\ Held(o, m.by)
        => runs[m.by].posted = None /\ \A n \in posts : n.kind = "complete" => n.by # m.by

(* A run that says delivered is right: its order is delivered, with the      *)
(* envelope of this run, even when the lease has run out and another run has *)
(* worked on the order in the meantime.                                      *)
DeliveredAnswerIsTrue ==
    \A w \in Runs : In(w, "delivered") =>
        LET record == service[runs[w].order] IN
        record.status = "delivered" /\ record.result = runs[w].posted
===============================================================================
