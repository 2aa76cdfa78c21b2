------------------------------- MODULE StageB -------------------------------
(***************************************************************************)
(* stage_b.py and stage_b_signer.py: one request is frozen, inspected in a *)
(* container without network and signed.                                   *)
(*                                                                         *)
(* Coordinators of one host share a directory of frozen sources; a hosted  *)
(* run has one to itself.  The tree that is frozen is verified, and then   *)
(* used by its path in two containers: every step reads the disk as it is  *)
(* at that time, and the disk may lose bytes between any two steps.        *)
(*                                                                         *)
(* A file's content is the request whose commit it holds, or Damaged.  A   *)
(* digest is what DigestOf says of a content.                              *)
(***************************************************************************)
EXTENDS Naturals

CONSTANTS
    Processes,      \* processes that freeze, inspect and sign
    Caches,         \* output roots of freeze_public_source
    CacheOf,        \* the root a process uses
    Requests,
    Damaged,        \* bytes that are not the ones that were written
    None,
    MaxFaults       \* bound on the files damaged and the directories that cannot be removed

ASSUME StageBAssumption ==
    /\ CacheOf \in [Processes -> Caches] /\ MaxFaults \in Nat
    /\ {Damaged, None} \cap Requests = {} /\ Damaged # None

VARIABLES
    cache,          \* root / request digest: the frozen tree and its manifest
    partials,       \* the .partial directory a process has made
    outputs,        \* receipt.json and worker-execution.json
    envelopes,      \* receipt.dsse.json
    stages,         \* where a process is, and what verify_frozen_source returned to it
    faults

stageVars == <<cache, partials, outputs, envelopes, stages, faults>>

Content  == Requests \cup {Damaged}
Copy     == [files: Content, manifest: Content]
Empty    == [files |-> None, manifest |-> None]
Signed   == [attests: Content, intact: BOOLEAN]
Output   == [receipt: Content, execution: Content]
StagePcs == {"idle", "fetch", "publish", "verify", "inspect", "read", "sign",
             "signed", "failed"}
Stage    == [pc: StagePcs, request: Requests \cup {None}, manifest: Requests \cup {None},
             retryable: BOOLEAN]
Unused   == [pc |-> "idle", request |-> None, manifest |-> None, retryable |-> FALSE]

(* A .partial directory belongs to a freeze under way, or to one that died: *)
(* one that raised leaves it behind only where the disk fails as well.      *)
StageTypeOK ==
    /\ cache \in [Caches -> [Requests -> Copy \cup {None}]]
    /\ partials \in [Processes -> Copy \cup {Empty, None}]
    /\ outputs \in [Processes -> Output \cup {None}]
    /\ envelopes \in [Processes -> Signed \cup {None}]
    /\ stages \in [Processes -> Stage]
    /\ faults \in 0 .. MaxFaults
    /\ \A p \in Processes :
         partials[p] # None => \/ stages[p].pc \in {"fetch", "publish"}
                               \/ stages[p].pc = "failed" /\ faults > 0

StageInit ==
    /\ cache = [c \in Caches |-> [r \in Requests |-> None]]
    /\ partials = [p \in Processes |-> None]
    /\ outputs = [p \in Processes |-> None]
    /\ envelopes = [p \in Processes |-> None]
    /\ stages = [p \in Processes |-> Unused]
    /\ faults = 0

At(p, pc)    == stages[p].pc = pc
RequestOf(p) == stages[p].request
TargetOf(p)  == cache[CacheOf[p]][RequestOf(p)]
GoTo(p, pc)  == stages' = [stages EXCEPT ![p].pc = pc]

Raise(p, retryable) ==
    stages' = [stages EXCEPT ![p].pc = "failed", ![p].retryable = retryable]

\* mutant: the digest is of the names and not of the bytes
DigestOf_NamesOnly(content) == "digest"

(* collect_snapshot's directory digest, and the sha256 of a file. *)
DigestOf(content) == content

Same(a, b) == DigestOf(a) = DigestOf(b)

-------------------------------------------------------------------------------
(* freeze_public_source *)

(* A frozen copy that is there already is verified, not fetched. *)
LookUp(p, r) ==
    /\ At(p, "idle")
    /\ IF cache[CacheOf[p]][r] # None
       THEN /\ stages' = [stages EXCEPT ![p].pc = "verify", ![p].request = r]
            /\ UNCHANGED partials
       ELSE /\ stages' = [stages EXCEPT ![p].pc = "fetch", ![p].request = r]
            /\ partials' = [partials EXCEPT ![p] = Empty]
    /\ UNCHANGED <<cache, outputs, envelopes, faults>>

(* partial is another directory now, or none. *)
Without(p) == [partials EXCEPT ![p] = None]

\* mutant: the exception leaves the directory behind
Discard_Leftover(p) == UNCHANGED <<partials, faults>>

(* _remove_tree(partial, ignore_errors=True): it may remain.  So may one    *)
(* in which the next mkdir raises, which is not within the try.             *)
Discard(p) ==
    \/ partials' = Without(p) /\ UNCHANGED faults
    \/ faults < MaxFaults /\ faults' = faults + 1 /\ UNCHANGED partials

(* The archive's files, each checked against the Git listing, and a         *)
(* manifest computed from them.                                             *)
Unpacked(r) == [files |-> r, manifest |-> r]

(* Fetching and unpacking happen in a directory of one's own.  Git and the  *)
(* network raise retryable errors, a tree that is not the one requested     *)
(* raises a final one.                                                      *)
Fetch(p) ==
    /\ At(p, "fetch")
    /\ \/ /\ partials' = [partials EXCEPT ![p] = Unpacked(RequestOf(p))]
          /\ GoTo(p, "publish") /\ UNCHANGED faults
       \/ Discard(p) /\ \E retryable \in BOOLEAN : Raise(p, retryable)
    /\ UNCHANGED <<cache, outputs, envelopes>>

(* os.replace.  A copy another process published first is a directory that  *)
(* is not empty: rename(2) fails with ENOTEMPTY, which is an OSError but no *)
(* FileExistsError, so the loser raises instead of using the winner's copy. *)
PublishCopy(p) ==
    /\ At(p, "publish")
    /\ IF TargetOf(p) = None
       THEN /\ cache' = [cache EXCEPT ![CacheOf[p]][RequestOf(p)] = partials[p]]
            /\ partials' = Without(p)
            /\ GoTo(p, "verify") /\ UNCHANGED faults
       ELSE Discard(p) /\ Raise(p, TRUE) /\ UNCHANGED cache
    /\ UNCHANGED <<outputs, envelopes>>

(* verify_frozen_source: the manifest has its own digest, the files the     *)
(* manifest's.  A digest that does not fit is final; a file that is missing *)
(* or cannot be decoded raises what counts as an internal, retryable error. *)
Verifies(copy) ==
    /\ copy.manifest # Damaged
    /\ Same(copy.files, copy.manifest)

VerifyFrozen(p) ==
    /\ At(p, "verify")
    /\ IF Verifies(TargetOf(p))
       THEN stages' = [stages EXCEPT ![p].pc = "inspect", ![p].manifest = TargetOf(p).manifest]
       ELSE \E retryable \in BOOLEAN : Raise(p, retryable)
    /\ UNCHANGED <<cache, partials, outputs, envelopes, faults>>

-------------------------------------------------------------------------------
(* DockerNoEgressWorker.run and sign_verified_worker_result *)

Inspect(p) ==
    /\ At(p, "inspect")
    /\ IF Verifies(TargetOf(p)) /\ outputs[p] = None
       THEN GoTo(p, "read")
       ELSE \E retryable \in BOOLEAN : Raise(p, retryable)
    /\ UNCHANGED <<cache, partials, outputs, envelopes, faults>>

(* The container reads the mounted tree, which is verified in there again;  *)
(* its receipt must be about the manifest the host has verified.            *)
ReadFrozen(p) ==
    /\ At(p, "read")
    /\ \/ /\ Verifies(TargetOf(p)) /\ Same(TargetOf(p).files, stages[p].manifest)
          /\ outputs' = [outputs EXCEPT ![p] = [receipt   |-> TargetOf(p).files,
                                                execution |-> stages[p].manifest]]
          /\ GoTo(p, "sign")
       \/ Raise(p, TRUE) /\ UNCHANGED outputs
    /\ UNCHANGED <<cache, partials, envelopes, faults>>

(* The gate takes nothing from memory: tree, receipt and execution report   *)
(* are read again and must agree.                                           *)
Gate(copy, output) ==
    /\ Verifies(copy) /\ output.execution # Damaged
    /\ Same(output.execution, copy.manifest) /\ Same(output.receipt, copy.manifest)

(* Whatever the gate or its container raises is final. *)
SignResult(p) ==
    /\ At(p, "sign")
    /\ \/ /\ Gate(TargetOf(p), outputs[p])
          /\ envelopes' = [envelopes EXCEPT ![p] = [attests |-> outputs[p].receipt,
                                                    intact  |-> TRUE]]
          /\ GoTo(p, "signed")
       \/ Raise(p, FALSE) /\ UNCHANGED envelopes
    /\ UNCHANGED <<cache, partials, outputs, faults>>

StageStep(p) ==
    \/ Fetch(p) \/ PublishCopy(p) \/ VerifyFrozen(p)
    \/ Inspect(p) \/ ReadFrozen(p) \/ SignResult(p)

(* A file on disk is not what was written. *)
Damage ==
    /\ faults < MaxFaults /\ faults' = faults + 1
    /\ \/ \E c \in Caches, r \in Requests :
            /\ cache[c][r] # None
            /\ cache' \in {[cache EXCEPT ![c][r].files = Damaged],
                           [cache EXCEPT ![c][r].manifest = Damaged]}
            /\ UNCHANGED <<outputs, envelopes>>
       \/ \E p \in Processes :
            /\ outputs[p] # None
            /\ outputs' \in {[outputs EXCEPT ![p].receipt = Damaged],
                             [outputs EXCEPT ![p].execution = Damaged]}
            /\ UNCHANGED <<cache, envelopes>>
       \/ \E p \in Processes :
            /\ envelopes[p] # None
            /\ envelopes' = [envelopes EXCEPT ![p].intact = FALSE]
            /\ UNCHANGED <<cache, outputs>>
    /\ UNCHANGED <<partials, stages>>
===============================================================================
