------------------------- MODULE HostedWorkerProofs -------------------------
(***************************************************************************)
(* The hosted worker for every number of invocations, orders, coordinators *)
(* and damaged files: what is signed is the commit that was asked for, and *)
(* what a run believes of its order is so.                                 *)
(***************************************************************************)
EXTENDS HostedWorker, TLAPS

-------------------------------------------------------------------------------
(* The stage: what a process holds when it has come to a step *)

(* A frozen copy is of the commit it is filed under, or it is damaged. *)
Sound(r) == [files: {r, Damaged}, manifest: {r, Damaged}]

CacheInv ==
    \A c \in Caches, r \in Requests : cache[c][r] # None => cache[c][r] \in Sound(r)

(* A copy that is there stays there, whatever its files lose. *)
CopiesStay ==
    \A c \in Caches, r \in Requests : cache[c][r] \in Sound(r) => cache'[c][r] \in Sound(r)

ProcessOK(x, partial, copy, output, envelope) ==
    /\ x.pc = "idle" => envelope = None
    /\ x.pc # "idle" => x.request \in Requests
    /\ x.pc = "publish" => partial = Unpacked(x.request)
    /\ x.pc \in {"verify", "inspect", "read", "sign"} => copy \in Sound(x.request)
    /\ x.pc \in {"inspect", "read"} => x.manifest = x.request
    /\ x.pc = "sign" => output \in [receipt: {x.request, Damaged}, execution: Content]
    /\ x.pc = "signed" => envelope \in [attests: {x.request}, intact: BOOLEAN]
    /\ envelope # None => envelope.attests = x.request

ProcessesOK ==
    \A p \in Processes :
        ProcessOK(stages[p], partials[p], TargetOf(p), outputs[p], envelopes[p])

StageInv == StageTypeOK /\ CacheInv /\ ProcessesOK

(* What a step of p leaves alone. *)
Others(p) ==
    \A q \in Processes \ {p} : stages'[q] = stages[q] /\ envelopes'[q] = envelopes[q]

(* Where a directory may lie that no step of its process will look at.    *)
Places(pc, disks) == pc \in {"fetch", "publish"} \/ (pc = "failed" /\ disks > 0)

Carries(p, partial, output, envelope) ==
    /\ partials' = [partials EXCEPT ![p] = partial]
    /\ outputs' = [outputs EXCEPT ![p] = output]
    /\ envelopes' = [envelopes EXCEPT ![p] = envelope]
    /\ faults' \in 0 .. MaxFaults /\ faults <= faults'

ProcessBecomes(p, x, partial, output, envelope) ==
    stages' = [stages EXCEPT ![p] = x] /\ Carries(p, partial, output, envelope)

CacheBecomes ==
    cache' \in [Caches -> [Requests -> Copy \cup {None}]] /\ CacheInv' /\ CopiesStay

LEMMA ProcessMoves ==
    ASSUME StageInv, NEW p \in Processes, NEW x \in Stage,
           NEW partial \in Copy \cup {Empty, None}, NEW output \in Output \cup {None},
           NEW envelope \in Signed \cup {None},
           ProcessBecomes(p, x, partial, output, envelope), CacheBecomes,
           partial # None => Places(x.pc, faults'),
           ProcessOK(x, partial, cache'[CacheOf[p]][x.request], output, envelope)
    PROVE  StageInv' /\ Others(p) /\ stages'[p] = x
<1> USE DEF ProcessBecomes, Carries, CacheBecomes
<1>1. /\ stages'[p] = x /\ partials'[p] = partial /\ outputs'[p] = output
      /\ envelopes'[p] = envelope
      /\ \A q \in Processes \ {p} : /\ stages'[q] = stages[q] /\ partials'[q] = partials[q]
                                    /\ outputs'[q] = outputs[q] /\ envelopes'[q] = envelopes[q]
  BY DEF StageInv, StageTypeOK
<1>2. StageTypeOK'
  <2>1. /\ cache' \in [Caches -> [Requests -> Copy \cup {None}]]
        /\ partials' \in [Processes -> Copy \cup {Empty, None}]
        /\ outputs' \in [Processes -> Output \cup {None}]
        /\ envelopes' \in [Processes -> Signed \cup {None}]
        /\ stages' \in [Processes -> Stage] /\ faults' \in 0 .. MaxFaults
    BY DEF StageInv, StageTypeOK
  <2>2. faults > 0 => faults' > 0
    BY StageBAssumption DEF StageInv, StageTypeOK
  <2>3. ASSUME NEW q \in Processes, partials'[q] # None PROVE Places(stages'[q].pc, faults')
    <3>1. CASE q = p
      BY <1>1, <2>3, <3>1
    <3>2. CASE q # p
      BY <1>1, <2>2, <2>3, <3>2 DEF StageInv, StageTypeOK, Places
    <3>3. QED
      BY <3>1, <3>2
  <2>4. QED
    BY <2>1, <2>3 DEF StageTypeOK, Places
<1>3. ASSUME NEW q \in Processes
      PROVE  ProcessOK(stages'[q], partials'[q], TargetOf(q)', outputs'[q], envelopes'[q])
  <2>1. CASE q = p
    BY <1>1, <2>1 DEF TargetOf, RequestOf
  <2>2. CASE q # p
    <3>1. ProcessOK(stages[q], partials[q], TargetOf(q), outputs[q], envelopes[q])
      BY DEF StageInv, ProcessesOK
    <3>2. /\ stages'[q] = stages[q] /\ partials'[q] = partials[q]
          /\ outputs'[q] = outputs[q] /\ envelopes'[q] = envelopes[q]
      BY <1>1, <2>2
    <3>3. stages[q].request \in Requests /\ TargetOf(q) \in Sound(stages[q].request)
          => TargetOf(q)' \in Sound(stages[q].request)
      BY <3>2, StageBAssumption DEF CopiesStay, TargetOf, RequestOf
    <3> HIDE DEF TargetOf
    <3>4. QED
      BY <3>1, <3>2, <3>3 DEF ProcessOK
  <2>3. QED
    BY <2>1, <2>2
<1>4. QED
  BY <1>1, <1>2, <1>3 DEF StageInv, ProcessesOK, Others

LEMMA GoToStage ==
    ASSUME StageTypeOK, NEW p \in Processes, NEW pc \in StagePcs, GoTo(p, pc)
    PROVE  \E x \in Stage : /\ stages' = [stages EXCEPT ![p] = x]
                            /\ x.pc = pc /\ x.request = stages[p].request
                            /\ x.manifest = stages[p].manifest
<1> DEFINE x == [stages[p] EXCEPT !.pc = pc]
<1>1. x \in Stage /\ x.pc = pc /\ x.request = stages[p].request /\ x.manifest = stages[p].manifest
  BY DEF StageTypeOK, Stage
<1>2. stages' = [stages EXCEPT ![p] = x]
  BY DEF GoTo
<1>3. QED
  BY <1>1, <1>2

LEMMA RaiseStage ==
    ASSUME StageTypeOK, NEW p \in Processes, NEW retryable \in BOOLEAN, Raise(p, retryable)
    PROVE  \E x \in Stage : /\ stages' = [stages EXCEPT ![p] = x]
                            /\ x.pc = "failed" /\ x.request = stages[p].request
<1> DEFINE x == [pc |-> "failed", request |-> stages[p].request,
                 manifest |-> stages[p].manifest, retryable |-> retryable]
<1>1. x \in Stage
  BY DEF StageTypeOK, Stage, StagePcs
<1>2. stages[p] \in Stage /\ [stages[p] EXCEPT !.pc = "failed", !.retryable = retryable] = x
  <2> DEFINE y == [stages[p] EXCEPT !.pc = "failed"]
  <2>1. stages[p] \in Stage
    BY DEF StageTypeOK
  <2>2. y = [pc |-> "failed", request |-> stages[p].request,
             manifest |-> stages[p].manifest, retryable |-> stages[p].retryable]
    BY <2>1 DEF Stage
  <2> HIDE DEF y
  <2>3. [y EXCEPT !.retryable = retryable] = x
    BY <2>2
  <2>4. QED
    BY <2>1, <2>3 DEF y
<1>3. stages' = [stages EXCEPT ![p] = [stages[p] EXCEPT !.pc = "failed", !.retryable = retryable]]
  BY DEF StageTypeOK, Raise
<1>4. QED
  BY <1>1, <1>2, <1>3

(* What is known of the process that takes a step. *)
LEMMA AboutProcess ==
    ASSUME StageInv, NEW p \in Processes
    PROVE  /\ ProcessOK(stages[p], partials[p], TargetOf(p), outputs[p], envelopes[p])
           /\ stages[p] \in Stage /\ partials[p] \in Copy \cup {Empty, None}
           /\ outputs[p] \in Output \cup {None} /\ envelopes[p] \in Signed \cup {None}
           /\ partials[p] # None => Places(stages[p].pc, faults)
           /\ UNCHANGED <<partials, outputs, envelopes, faults>>
              => Carries(p, partials[p], outputs[p], envelopes[p])
           /\ faults' = faults => faults' \in 0 .. MaxFaults /\ faults <= faults'
           /\ cache \in [Caches -> [Requests -> Copy \cup {None}]] /\ CacheInv
           /\ cache' = cache => CacheBecomes
<1>1. faults' = faults => faults' \in 0 .. MaxFaults /\ faults <= faults'
  BY StageBAssumption DEF StageInv, StageTypeOK
<1>2. QED
  BY <1>1 DEF StageInv, StageTypeOK, ProcessesOK, CacheInv, CopiesStay, CacheBecomes, Carries, Places

(* A process that raises keeps what it has, the directory it was filling at *)
(* most where the disk fails too.                                           *)
LEMMA RaisePreserves ==
    ASSUME StageInv, NEW p \in Processes, stages[p].pc # "idle",
           NEW retryable \in BOOLEAN, Raise(p, retryable),
           Discard(p) \/ (UNCHANGED <<partials, faults>> /\ partials[p] = None),
           UNCHANGED <<cache, outputs, envelopes>>
    PROVE  /\ StageInv' /\ Others(p)
           /\ stages'[p].request = stages[p].request /\ stages'[p].pc = "failed"
<1>1. StageTypeOK
  BY DEF StageInv
<1>2. PICK x \in Stage : /\ stages' = [stages EXCEPT ![p] = x]
                         /\ x.pc = "failed" /\ x.request = stages[p].request
  BY <1>1, RaiseStage
<1>3. PICK partial \in Copy \cup {Empty, None} :
        /\ partials' = [partials EXCEPT ![p] = partial]
        /\ partial # None => faults' > 0
        /\ faults' \in 0 .. MaxFaults /\ faults <= faults'
  <2>1. CASE partials' = [partials EXCEPT ![p] = None] /\ faults' = faults
    BY <2>1, AboutProcess
  <2>2. CASE faults < MaxFaults /\ faults' = faults + 1 /\ partials' = partials
    <3>1. faults' \in 0 .. MaxFaults /\ faults <= faults' /\ faults' > 0
      BY <1>1, <2>2, StageBAssumption DEF StageTypeOK
    <3>2. partials' = [partials EXCEPT ![p] = partials[p]] /\ partials[p] \in Copy \cup {Empty, None}
      BY <1>1, <2>2 DEF StageTypeOK
    <3>3. QED
      BY <3>1, <3>2
  <2>3. CASE UNCHANGED <<partials, faults>> /\ partials[p] = None
    <3>1. partials' = [partials EXCEPT ![p] = None]
      BY <1>1, <2>3 DEF StageTypeOK
    <3>2. QED
      BY <2>3, <3>1, AboutProcess
  <2>4. QED
    BY <2>1, <2>2, <2>3 DEF Discard, Without
<1>4. ProcessBecomes(p, x, partial, outputs[p], envelopes[p])
  BY <1>2, <1>3 DEF ProcessBecomes, Carries, StageInv, StageTypeOK
<1>5. ProcessOK(x, partial, cache'[CacheOf[p]][x.request], outputs[p], envelopes[p])
  BY <1>2, AboutProcess DEF ProcessOK
<1>6. CacheBecomes /\ (partial # None => Places(x.pc, faults'))
  BY <1>2, <1>3, AboutProcess DEF Places
<1>7. StageInv' /\ Others(p) /\ stages'[p] = x
  BY <1>2, <1>3, <1>4, <1>5, <1>6, AboutProcess, ProcessMoves
<1>8. QED
  BY <1>2, <1>7

(* What p would hold is what a process holds at the step pc. *)
Fits(p, pc, partial, output, envelope) ==
    \A x \in Stage :
        x.pc = pc /\ x.request = stages[p].request /\ x.manifest = stages[p].manifest
        => ProcessOK(x, partial, cache'[CacheOf[p]][x.request], output, envelope)

(* A process that goes to another step keeps what it has. *)
LEMMA GoToPreserves ==
    ASSUME StageInv, NEW p \in Processes, stages[p].pc # "idle", NEW pc \in StagePcs, GoTo(p, pc),
           NEW partial \in Copy \cup {Empty, None}, NEW output \in Output \cup {None},
           NEW envelope \in Signed \cup {None}, Carries(p, partial, output, envelope),
           CacheBecomes,
           partial # None => Places(pc, faults'),
           Fits(p, pc, partial, output, envelope)
    PROVE  /\ StageInv' /\ Others(p)
           /\ stages'[p].request = stages[p].request /\ stages'[p].pc = pc
<1>1. PICK x \in Stage : /\ stages' = [stages EXCEPT ![p] = x]
                         /\ x.pc = pc /\ x.request = stages[p].request
                         /\ x.manifest = stages[p].manifest
  BY GoToStage DEF StageInv
<1>2. ProcessBecomes(p, x, partial, output, envelope)
  BY <1>1 DEF ProcessBecomes
<1>3. ProcessOK(x, partial, cache'[CacheOf[p]][x.request], output, envelope)
  BY <1>1 DEF Fits
<1>4. StageInv' /\ Others(p) /\ stages'[p] = x
  BY <1>1, <1>2, <1>3, ProcessMoves
<1>5. QED
  BY <1>1, <1>4

(* What a step of the stage does to the processes. *)
Moves(p) ==
    /\ Others(p)
    /\ stages[p].pc # "idle" /\ stages'[p].pc # "idle"
    /\ stages'[p].request = stages[p].request

LEMMA LookUpPreserves ==
    ASSUME StageInv, NEW p \in Processes, NEW r \in Requests, LookUp(p, r)
    PROVE  /\ StageInv' /\ Others(p) /\ stages[p].pc = "idle"
           /\ stages'[p].pc # "idle" /\ stages'[p].request = r
<1> DEFINE hit == cache[CacheOf[p]][r] # None
           x   == [pc |-> IF hit THEN "verify" ELSE "fetch", request |-> r,
                   manifest |-> stages[p].manifest, retryable |-> stages[p].retryable]
           partial == IF hit THEN partials[p] ELSE Empty
<1>1. /\ stages[p] \in Stage /\ stages[p].pc = "idle" /\ envelopes[p] = None
      /\ partials[p] = None
  BY AboutProcess DEF LookUp, At, ProcessOK, Places
<1>2. x \in Stage
  BY <1>1 DEF Stage, StagePcs
<1>3. [[stages[p] EXCEPT !.pc = x.pc] EXCEPT !.request = r] = x
  <2> DEFINE y == [stages[p] EXCEPT !.pc = x.pc]
  <2>1. y = [pc |-> x.pc, request |-> stages[p].request,
             manifest |-> stages[p].manifest, retryable |-> stages[p].retryable]
    BY <1>1 DEF Stage
  <2> HIDE DEF y
  <2>2. [y EXCEPT !.request = r] = x
    BY <2>1
  <2>3. QED
    BY <2>2 DEF y
<1>4. stages' = [stages EXCEPT ![p] = [[stages[p] EXCEPT !.pc = x.pc] EXCEPT !.request = r]]
  BY DEF LookUp, StageInv, StageTypeOK
<1>5. ProcessBecomes(p, x, partial, outputs[p], envelopes[p])
  <2>1. stages' = [stages EXCEPT ![p] = x]
    BY <1>3, <1>4
  <2>2. partials' = [partials EXCEPT ![p] = partial]
    BY DEF LookUp, StageInv, StageTypeOK
  <2> HIDE DEF x, partial
  <2>3. QED
    BY <2>1, <2>2, AboutProcess DEF LookUp, ProcessBecomes, Carries, StageInv, StageTypeOK
<1>6. CacheOf[p] \in Caches /\ (hit => cache[CacheOf[p]][r] \in Sound(r))
  BY StageBAssumption DEF StageInv, CacheInv
<1>7. ProcessOK(x, partial, cache'[CacheOf[p]][x.request], outputs[p], envelopes[p])
  BY <1>1, <1>6 DEF LookUp, ProcessOK
<1>8. /\ CacheBecomes /\ partial \in Copy \cup {Empty, None}
      /\ partial # None => Places(x.pc, faults')
  BY <1>1, AboutProcess DEF LookUp, Places
<1> HIDE DEF x, partial
<1>9. StageInv' /\ Others(p) /\ stages'[p] = x
  BY <1>2, <1>5, <1>7, <1>8, AboutProcess, ProcessMoves
<1>10. QED
  BY <1>1, <1>9 DEF x

LEMMA FetchPreserves ==
    ASSUME StageInv, NEW p \in Processes, Fetch(p)
    PROVE  StageInv' /\ Moves(p)
<1>1. stages[p].pc = "fetch" /\ stages[p].request \in Requests
  BY AboutProcess DEF Fetch, At, ProcessOK
<1>2. CASE Discard(p) /\ \E retryable \in BOOLEAN : Raise(p, retryable)
  BY <1>1, <1>2, RaisePreserves DEF Fetch, Moves
<1>3. CASE /\ partials' = [partials EXCEPT ![p] = Unpacked(RequestOf(p))]
           /\ GoTo(p, "publish") /\ faults' = faults
  <2> DEFINE partial == Unpacked(RequestOf(p))
  <2>1. partial \in Copy /\ "publish" \in StagePcs
    BY <1>1 DEF Unpacked, RequestOf, Copy, Content, StagePcs
  <2>2. Fits(p, "publish", partial, outputs[p], envelopes[p])
    BY <1>1, AboutProcess DEF Fits, ProcessOK, RequestOf
  <2>3. Carries(p, partial, outputs[p], envelopes[p])
    BY <1>3, AboutProcess DEF Fetch, Carries, StageInv, StageTypeOK
  <2>4. CacheBecomes
    BY AboutProcess DEF Fetch
  <2> HIDE DEF partial
  <2>5. StageInv' /\ Others(p) /\ stages'[p].request = stages[p].request /\ stages'[p].pc = "publish"
    BY <1>1, <1>3, <2>1, <2>2, <2>3, <2>4, AboutProcess, GoToPreserves DEF Places
  <2>6. QED
    BY <1>1, <2>5 DEF Moves
<1>4. QED
  BY <1>2, <1>3 DEF Fetch

(* os.replace puts a whole copy where there was none. *)
LEMMA PublishCopyPreserves ==
    ASSUME StageInv, NEW p \in Processes, PublishCopy(p)
    PROVE  StageInv' /\ Moves(p)
<1> DEFINE r == stages[p].request
           c == CacheOf[p]
<1>1. /\ stages[p].pc = "publish" /\ r \in Requests /\ partials[p] = Unpacked(r)
      /\ c \in Caches
  BY AboutProcess, StageBAssumption DEF PublishCopy, At, ProcessOK
<1>2. CASE TargetOf(p) # None
  BY <1>1, <1>2, RaisePreserves DEF PublishCopy, Moves
<1>3. CASE TargetOf(p) = None
  <2>1. cache' = [cache EXCEPT ![c] = [cache[c] EXCEPT ![r] = Unpacked(r)]]
        /\ GoTo(p, "verify")
    BY <1>1, <1>3 DEF PublishCopy, RequestOf
  <2>2. Unpacked(r) \in Sound(r) /\ Unpacked(r) \in Copy
    BY <1>1 DEF Unpacked, Sound, Copy, Content
  <2>3. cache'[c][r] = Unpacked(r)
        /\ \A d \in Caches, q \in Requests : d # c \/ q # r => cache'[d][q] = cache[d][q]
    BY <1>1, <2>1 DEF StageInv, StageTypeOK
  <2>4. cache' \in [Caches -> [Requests -> Copy \cup {None}]]
    BY <1>1, <2>1, <2>2 DEF StageInv, StageTypeOK
  <2>5. CacheBecomes
    BY <2>2, <2>3, <2>4 DEF CacheBecomes, CacheInv, CopiesStay, StageInv
  <2>6. Carries(p, None, outputs[p], envelopes[p])
    BY <1>3, AboutProcess DEF PublishCopy, Without, Carries, StageInv, StageTypeOK
  <2>7. Fits(p, "verify", None, outputs[p], envelopes[p])
    BY <1>1, <2>2, <2>3, AboutProcess DEF Fits, ProcessOK
  <2>8. "verify" \in StagePcs
    BY DEF StagePcs
  <2>9. StageInv' /\ Others(p) /\ stages'[p].request = r /\ stages'[p].pc = "verify"
    BY <1>1, <2>1, <2>5, <2>6, <2>7, <2>8, AboutProcess, GoToPreserves
  <2>10. QED
    BY <1>1, <2>9 DEF Moves
<1>4. QED
  BY <1>2, <1>3

(* A copy that verifies is the commit it is filed under. *)
LEMMA VerifiedIsRequested ==
    ASSUME NEW r \in Requests, NEW copy \in Sound(r), Verifies(copy)
    PROVE  copy.files = r /\ copy.manifest = r
  BY DEF Sound, Verifies, Same, DigestOf

LEMMA VerifyFrozenPreserves ==
    ASSUME StageInv, NEW p \in Processes, VerifyFrozen(p)
    PROVE  StageInv' /\ Moves(p)
<1> DEFINE r == stages[p].request
<1>1. /\ stages[p].pc = "verify" /\ r \in Requests /\ TargetOf(p) \in Sound(r)
      /\ stages[p] \in Stage /\ partials[p] = None
  BY AboutProcess DEF VerifyFrozen, At, ProcessOK, Places
<1>2. CASE ~Verifies(TargetOf(p))
  BY <1>1, <1>2, RaisePreserves DEF VerifyFrozen, Moves
<1>3. CASE Verifies(TargetOf(p))
  <2> DEFINE y == [stages[p] EXCEPT !.pc = "inspect"]
             x == [pc |-> "inspect", request |-> r, manifest |-> r,
                   retryable |-> stages[p].retryable]
  <2>1. TargetOf(p).manifest = r
    BY <1>1, <1>3, VerifiedIsRequested
  <2>2. [y EXCEPT !.manifest = r] = x
    <3>1. y = [pc |-> "inspect", request |-> r, manifest |-> stages[p].manifest,
               retryable |-> stages[p].retryable]
      BY <1>1 DEF Stage
    <3> HIDE DEF y
    <3>2. QED
      BY <3>1
  <2>3. stages' = [stages EXCEPT ![p] = [y EXCEPT !.manifest = r]]
    BY <1>3, <2>1 DEF VerifyFrozen, StageInv, StageTypeOK
  <2>4. x \in Stage
    BY <1>1 DEF Stage, StagePcs
  <2>5. ProcessBecomes(p, x, None, outputs[p], envelopes[p])
    <3>1. stages' = [stages EXCEPT ![p] = x]
      BY <2>2, <2>3
    <3> HIDE DEF x
    <3>2. QED
      BY <1>1, <1>3, <3>1, AboutProcess DEF VerifyFrozen, ProcessBecomes, Carries, StageInv, StageTypeOK
  <2>6. ProcessOK(x, None, cache'[CacheOf[p]][x.request], outputs[p], envelopes[p])
    BY <1>1, <1>3, AboutProcess DEF VerifyFrozen, ProcessOK, TargetOf, RequestOf
  <2>7. CacheBecomes /\ None \in Copy \cup {Empty, None}
    BY AboutProcess DEF VerifyFrozen
  <2> HIDE DEF x
  <2>8. StageInv' /\ Others(p) /\ stages'[p] = x
    BY <2>4, <2>5, <2>6, <2>7, AboutProcess, ProcessMoves
  <2>9. QED
    BY <1>1, <2>8 DEF Moves, x
<1>4. QED
  BY <1>2, <1>3

LEMMA InspectPreserves ==
    ASSUME StageInv, NEW p \in Processes, Inspect(p)
    PROVE  StageInv' /\ Moves(p)
<1>1. stages[p].pc = "inspect" /\ partials[p] = None
  BY AboutProcess DEF Inspect, At, Places
<1>2. CASE \E retryable \in BOOLEAN : Raise(p, retryable)
  BY <1>1, <1>2, RaisePreserves DEF Inspect, Moves
<1>3. CASE GoTo(p, "read")
  <2>1. Carries(p, None, outputs[p], envelopes[p])
    BY <1>1, AboutProcess DEF Inspect, Carries, StageInv, StageTypeOK
  <2>2. Fits(p, "read", None, outputs[p], envelopes[p])
    BY <1>1, AboutProcess DEF Inspect, Fits, ProcessOK, TargetOf, RequestOf
  <2>3. "read" \in StagePcs /\ CacheBecomes /\ None \in Copy \cup {Empty, None}
    BY AboutProcess DEF Inspect, StagePcs
  <2>4. /\ StageInv' /\ Others(p)
        /\ stages'[p].request = stages[p].request /\ stages'[p].pc = "read"
    BY <1>1, <1>3, <2>1, <2>2, <2>3, AboutProcess, GoToPreserves
  <2>5. QED
    BY <1>1, <2>4 DEF Moves
<1>4. QED
  BY <1>2, <1>3 DEF Inspect

(* The receipt is written from a tree that verified while it was read. *)
LEMMA ReadFrozenPreserves ==
    ASSUME StageInv, NEW p \in Processes, ReadFrozen(p)
    PROVE  StageInv' /\ Moves(p)
<1> DEFINE r == stages[p].request
<1>1. /\ stages[p].pc = "read" /\ partials[p] = None /\ r \in Requests
      /\ TargetOf(p) \in Sound(r) /\ stages[p].manifest = r
  BY AboutProcess DEF ReadFrozen, At, ProcessOK, Places
<1>2. CASE Raise(p, TRUE) /\ UNCHANGED outputs
  BY <1>1, <1>2, RaisePreserves DEF ReadFrozen, Moves
<1>3. CASE /\ Verifies(TargetOf(p)) /\ GoTo(p, "sign")
           /\ outputs' = [outputs EXCEPT ![p] = [receipt   |-> TargetOf(p).files,
                                                 execution |-> stages[p].manifest]]
  <2> DEFINE output == [receipt |-> r, execution |-> r]
  <2>1. TargetOf(p).files = r
    BY <1>1, <1>3, VerifiedIsRequested
  <2>2. output \in Output /\ output \in [receipt: {r, Damaged}, execution: Content]
    BY <1>1 DEF Output, Content
  <2>3. outputs' = [outputs EXCEPT ![p] = output]
    BY <1>1, <1>3, <2>1
  <2> HIDE DEF output
  <2>4. Carries(p, None, output, envelopes[p])
    BY <1>1, <2>3 DEF ReadFrozen, Carries, StageInv, StageTypeOK
  <2>5. Fits(p, "sign", None, output, envelopes[p])
    BY <1>1, <2>2, AboutProcess DEF ReadFrozen, Fits, ProcessOK, TargetOf, RequestOf
  <2>6. "sign" \in StagePcs /\ CacheBecomes /\ None \in Copy \cup {Empty, None}
    BY AboutProcess DEF ReadFrozen, StagePcs
  <2>7. /\ StageInv' /\ Others(p)
        /\ stages'[p].request = r /\ stages'[p].pc = "sign"
    BY <1>1, <1>3, <2>2, <2>4, <2>5, <2>6, AboutProcess, GoToPreserves
  <2>8. QED
    BY <1>1, <2>7 DEF Moves
<1>4. QED
  BY <1>2, <1>3 DEF ReadFrozen

(* What passes the gate is the commit that was requested, although nothing  *)
(* of what was verified before is relied on.                                *)
LEMMA SignResultPreserves ==
    ASSUME StageInv, NEW p \in Processes, SignResult(p)
    PROVE  StageInv' /\ Moves(p)
<1> DEFINE r == stages[p].request
<1>1. /\ stages[p].pc = "sign" /\ partials[p] = None /\ r \in Requests
      /\ TargetOf(p) \in Sound(r)
      /\ outputs[p] \in [receipt: {r, Damaged}, execution: Content]
  BY AboutProcess DEF SignResult, At, ProcessOK, Places
<1>2. CASE Raise(p, FALSE) /\ UNCHANGED envelopes
  BY <1>1, <1>2, RaisePreserves DEF SignResult, Moves
<1>3. CASE /\ Gate(TargetOf(p), outputs[p]) /\ GoTo(p, "signed")
           /\ envelopes' = [envelopes EXCEPT ![p] = [attests |-> outputs[p].receipt,
                                                     intact  |-> TRUE]]
  <2> DEFINE envelope == [attests |-> r, intact |-> TRUE]
  <2>1. TargetOf(p).manifest = r
    BY <1>1, <1>3, VerifiedIsRequested DEF Gate
  <2>2. outputs[p].receipt = r
    BY <1>3, <2>1 DEF Gate, Same, DigestOf
  <2>3. envelope \in Signed /\ envelope \in [attests: {r}, intact: BOOLEAN] /\ envelope.attests = r
    BY <1>1 DEF Signed, Content
  <2>4. envelopes' = [envelopes EXCEPT ![p] = envelope]
    BY <1>3, <2>2
  <2> HIDE DEF envelope
  <2>5. Carries(p, None, outputs[p], envelope)
    BY <1>1, <2>4 DEF SignResult, Carries, StageInv, StageTypeOK
  <2>6. Fits(p, "signed", None, outputs[p], envelope)
    BY <1>1, <2>3 DEF Fits, ProcessOK
  <2>7. "signed" \in StagePcs /\ CacheBecomes /\ None \in Copy \cup {Empty, None}
    BY AboutProcess DEF SignResult, StagePcs
  <2>8. /\ StageInv' /\ Others(p)
        /\ stages'[p].request = r /\ stages'[p].pc = "signed"
    BY <1>1, <1>3, <2>3, <2>5, <2>6, <2>7, AboutProcess, GoToPreserves
  <2>9. QED
    BY <1>1, <2>8 DEF Moves
<1>4. QED
  BY <1>2, <1>3 DEF SignResult

LEMMA StageStepPreserves ==
    ASSUME StageInv, NEW p \in Processes, StageStep(p)
    PROVE  StageInv' /\ Moves(p)
  BY FetchPreserves, PublishCopyPreserves, VerifyFrozenPreserves, InspectPreserves,
     ReadFrozenPreserves, SignResultPreserves DEF StageStep

(* Bytes that are lost make no copy, receipt or envelope about another commit. *)
LEMMA DamagePreserves ==
    ASSUME StageInv, Damage
    PROVE  StageInv' /\ stages' = stages
<1>0. stages' = stages /\ partials' = partials /\ faults' \in 0 .. MaxFaults /\ faults' > 0
  BY StageBAssumption DEF Damage, StageInv, StageTypeOK
<1>1. ASSUME NEW c \in Caches, NEW r \in Requests, cache[c][r] # None,
             cache' \in {[cache EXCEPT ![c][r].files = Damaged],
                        [cache EXCEPT ![c][r].manifest = Damaged]},
             UNCHANGED <<outputs, envelopes>>
      PROVE  StageInv'
  <2>1. cache[c][r] \in Copy /\ cache[c][r] \in Sound(r)
    BY <1>1 DEF StageInv, StageTypeOK, CacheInv
  <2>2. PICK copy \in Copy \cap Sound(r) : cache' = [cache EXCEPT ![c] = [cache[c] EXCEPT ![r] = copy]]
    <3>1. CASE cache' = [cache EXCEPT ![c][r].files = Damaged]
      <4> DEFINE copy == [cache[c][r] EXCEPT !.files = Damaged]
      <4>1. copy \in Copy /\ copy \in Sound(r)
        BY <2>1 DEF Copy, Sound, Content
      <4>2. cache' = [cache EXCEPT ![c] = [cache[c] EXCEPT ![r] = copy]]
        BY <3>1
      <4>3. QED
        BY <4>1, <4>2
    <3>2. CASE cache' = [cache EXCEPT ![c][r].manifest = Damaged]
      <4> DEFINE copy == [cache[c][r] EXCEPT !.manifest = Damaged]
      <4>1. copy \in Copy /\ copy \in Sound(r)
        BY <2>1 DEF Copy, Sound, Content
      <4>2. cache' = [cache EXCEPT ![c] = [cache[c] EXCEPT ![r] = copy]]
        BY <3>2
      <4>3. QED
        BY <4>1, <4>2
    <3>3. QED
      BY <1>1, <3>1, <3>2
  <2>3. cache'[c][r] = copy
        /\ \A d \in Caches, q \in Requests : d # c \/ q # r => cache'[d][q] = cache[d][q]
    BY <2>2 DEF StageInv, StageTypeOK
  <2>4. cache' \in [Caches -> [Requests -> Copy \cup {None}]]
    BY <2>2 DEF StageInv, StageTypeOK
  <2>5. CacheInv' /\ CopiesStay
    BY <2>2, <2>3 DEF CacheInv, CopiesStay, StageInv
  <2>6. StageTypeOK'
    BY <1>0, <1>1, <2>4 DEF StageInv, StageTypeOK
  <2>7. ASSUME NEW p \in Processes
        PROVE  ProcessOK(stages'[p], partials'[p], TargetOf(p)', outputs'[p], envelopes'[p])
    <3>1. ProcessOK(stages[p], partials[p], TargetOf(p), outputs[p], envelopes[p])
      BY DEF StageInv, ProcessesOK
    <3>2. stages[p].request \in Requests /\ TargetOf(p) \in Sound(stages[p].request)
          => TargetOf(p)' \in Sound(stages[p].request)
      BY <1>0, <2>5, StageBAssumption DEF CopiesStay, TargetOf, RequestOf
    <3> HIDE DEF TargetOf
    <3>3. QED
      BY <1>0, <1>1, <3>1, <3>2 DEF ProcessOK
  <2>8. QED
    BY <2>5, <2>6, <2>7 DEF StageInv, ProcessesOK
<1>2. ASSUME NEW p \in Processes, outputs[p] # None,
             outputs' \in {[outputs EXCEPT ![p].receipt = Damaged],
                          [outputs EXCEPT ![p].execution = Damaged]},
             UNCHANGED <<cache, envelopes>>
      PROVE  StageInv'
  <2>1. PICK output \in Output :
          /\ outputs' = [outputs EXCEPT ![p] = output]
          /\ output.receipt \in {outputs[p].receipt, Damaged}
    <3>1. outputs[p] \in Output
      BY <1>2 DEF StageInv, StageTypeOK
    <3>2. CASE outputs' = [outputs EXCEPT ![p].receipt = Damaged]
      <4>1. [outputs[p] EXCEPT !.receipt = Damaged] \in Output
            /\ [outputs[p] EXCEPT !.receipt = Damaged].receipt = Damaged
        BY <3>1 DEF Output, Content
      <4>2. outputs' = [outputs EXCEPT ![p] = [outputs[p] EXCEPT !.receipt = Damaged]]
        BY <3>2
      <4>3. QED
        BY <4>1, <4>2
    <3>3. CASE outputs' = [outputs EXCEPT ![p].execution = Damaged]
      <4>1. [outputs[p] EXCEPT !.execution = Damaged] \in Output
            /\ [outputs[p] EXCEPT !.execution = Damaged].receipt = outputs[p].receipt
        BY <3>1 DEF Output, Content
      <4>2. outputs' = [outputs EXCEPT ![p] = [outputs[p] EXCEPT !.execution = Damaged]]
        BY <3>3
      <4>3. QED
        BY <4>1, <4>2
    <3>4. QED
      BY <1>2, <3>2, <3>3
  <2>2. outputs'[p] = output /\ \A q \in Processes \ {p} : outputs'[q] = outputs[q]
    BY <2>1 DEF StageInv, StageTypeOK
  <2>3. StageTypeOK' /\ CacheInv'
    BY <1>0, <1>2, <2>1 DEF StageInv, StageTypeOK, CacheInv
  <2>4. ASSUME NEW q \in Processes
        PROVE  ProcessOK(stages'[q], partials'[q], TargetOf(q)', outputs'[q], envelopes'[q])
    <3>1. ProcessOK(stages[q], partials[q], TargetOf(q), outputs[q], envelopes[q])
      BY DEF StageInv, ProcessesOK
    <3>2. TargetOf(q)' = TargetOf(q)
      BY <1>0, <1>2 DEF TargetOf, RequestOf
    <3>3. output \in [receipt: Content, execution: Content]
      BY DEF Output
    <3> HIDE DEF TargetOf
    <3>4. QED
      BY <1>0, <1>2, <2>1, <2>2, <3>1, <3>2, <3>3 DEF ProcessOK
  <2>5. QED
    BY <2>3, <2>4 DEF StageInv, ProcessesOK
<1>3. ASSUME NEW p \in Processes, envelopes[p] # None,
             envelopes' = [envelopes EXCEPT ![p].intact = FALSE], UNCHANGED <<cache, outputs>>
      PROVE  StageInv'
  <2> DEFINE envelope == [attests |-> envelopes[p].attests, intact |-> FALSE]
  <2>0. envelopes[p] \in Signed
    BY <1>3 DEF StageInv, StageTypeOK
  <2>1. envelope \in Signed /\ [envelopes[p] EXCEPT !.intact = FALSE] = envelope
    <3>1. PICK a \in Content, b \in BOOLEAN : envelopes[p] = [attests |-> a, intact |-> b]
      BY <2>0 DEF Signed
    <3>2. envelope = [attests |-> a, intact |-> FALSE]
      BY <3>1
    <3>3. [attests |-> a, intact |-> FALSE] \in Signed
      BY Zenon DEF Signed
    <3>4. \A v, w : [[attests |-> a, intact |-> v] EXCEPT !.intact = w] = [attests |-> a, intact |-> w]
      OBVIOUS
    <3>5. QED
      BY <3>1, <3>2, <3>3, <3>4, Zenon
  <2>2. envelopes'[p] = envelope /\ \A q \in Processes \ {p} : envelopes'[q] = envelopes[q]
    BY <1>3, <2>1 DEF StageInv, StageTypeOK
  <2>3. StageTypeOK' /\ CacheInv'
    BY <1>0, <1>3, <2>1 DEF StageInv, StageTypeOK, CacheInv
  <2>4. ASSUME NEW q \in Processes
        PROVE  ProcessOK(stages'[q], partials'[q], TargetOf(q)', outputs'[q], envelopes'[q])
    <3>1. ProcessOK(stages[q], partials[q], TargetOf(q), outputs[q], envelopes[q])
      BY DEF StageInv, ProcessesOK
    <3>2. TargetOf(q)' = TargetOf(q)
      BY <1>0, <1>3 DEF TargetOf, RequestOf
    <3> HIDE DEF TargetOf
    <3>3. CASE q # p
      BY <1>0, <1>3, <2>2, <3>1, <3>2, <3>3
    <3>4. CASE q = p
      <4>1. ProcessOK(stages[p], partials[p], TargetOf(p), outputs[p], envelope)
        BY <1>3, <3>1, <3>4 DEF ProcessOK
      <4>2. QED
        BY <1>0, <1>3, <2>2, <3>2, <3>4, <4>1
    <3>5. QED
      BY <3>3, <3>4
  <2>5. QED
    BY <2>3, <2>4 DEF StageInv, ProcessesOK
<1>4. QED
  BY <1>0, <1>1, <1>2, <1>3 DEF Damage

LEMMA StageInitInv == StageInit => StageInv
<1> SUFFICES ASSUME StageInit PROVE StageInv
  OBVIOUS
<1>1. Unused \in Stage
  BY DEF Unused, Stage, StagePcs
<1>2. StageTypeOK
  BY <1>1, StageBAssumption DEF StageInit, StageTypeOK
<1>3. CacheInv /\ ProcessesOK
  BY DEF StageInit, CacheInv, ProcessesOK, ProcessOK, Unused
<1>4. QED
  BY <1>2, <1>3 DEF StageInv

-------------------------------------------------------------------------------
(* The worker: the inductive invariant *)

(* What a run knows of its job, and its stage of the request. *)
RunOK(run, x) ==
    /\ run.pc \in {"start", "claim"} => x.pc = "idle"
    /\ run.pc \in {"work", "await", "delivered"} => run.order \in Orders
    /\ run.pc \in {"start", "claim", "work"} => run.posted = None
    /\ run.pc = "await" => run.posted # None /\ x.pc \in {"signed", "failed"}
    /\ x.pc # "idle" => run.order \in Orders /\ x.request = Wanted[run.order]

(* A post is what its run stands by. *)
PostOK(m, run) ==
    /\ m.kind = "complete" => /\ run.posted = m.envelope /\ run.order = m.order
                              /\ m.envelope.attests = Wanted[m.order]
    /\ m.kind = "fail" => run.pc = "ended" /\ run.posted = None

(* The service's record is final once there is a result. *)
RecordOK(o, record) ==
    record.result # None => record.status = "delivered" /\ record.result.attests = Wanted[o]

(* An answer with a result tells what is on record for the order of its run. *)
ReplyOK(reply, run) ==
    reply.result # None =>
        /\ run.posted # None /\ run.order \in Orders
        /\ service[run.order].status = "delivered" /\ service[run.order].result = reply.result

WorkerInv ==
    /\ StageInv /\ WorkerTypeOK
    /\ \A w \in Runs : RunOK(runs[w], stages[w])
    /\ \A m \in posts : PostOK(m, runs[m.by])
    /\ \A o \in Orders : RecordOK(o, service[o])
    /\ \A reply \in replies : ReplyOK(reply, runs[reply.to])
    /\ DeliveredAnswerIsTrue

(* What no step undoes. *)
RunsKeep ==
    \A w \in Runs :
        /\ runs[w].posted # None => runs'[w].posted = runs[w].posted /\ runs'[w].order = runs[w].order
        /\ runs[w].pc \in {"ended", "delivered"} => runs'[w] = runs[w]

DeliveredStays ==
    \A o \in Orders : service[o].status = "delivered" => service'[o] = service[o]

(* A run that has come to "delivered" is right. *)
NewlyDelivered ==
    \A w \in Runs :
        runs'[w].pc = "delivered" /\ runs[w].pc # "delivered" =>
            /\ service'[runs'[w].order].status = "delivered"
            /\ service'[runs'[w].order].result = runs'[w].posted

LEMMA WorkerMoves ==
    ASSUME WorkerInv, StageInv', WorkerTypeOK', RunsKeep, DeliveredStays, NewlyDelivered,
           \A w \in Runs : RunOK(runs'[w], stages'[w]),
           \A m \in posts' \ posts : PostOK(m, runs'[m.by]),
           \A o \in Orders : RecordOK(o, service'[o]),
           \A reply \in replies' \ replies : ReplyOK(reply, runs[reply.to])'
    PROVE  WorkerInv'
<1>1. ASSUME NEW m \in posts' PROVE PostOK(m, runs'[m.by])
  <2>1. CASE m \notin posts
    BY <2>1
  <2>2. CASE m \in posts
    <3>1. /\ m \in Post /\ m.by \in Runs /\ PostOK(m, runs[m.by])
          /\ m.kind = "complete" => m.envelope # None
      BY <2>2, HostedWorkerAssumption DEF WorkerInv, WorkerTypeOK, Post, Envelope, Content
    <3>2. QED
      BY <3>1 DEF PostOK, RunsKeep
  <2>3. QED
    BY <2>1, <2>2
<1>2. ASSUME NEW reply \in replies' PROVE ReplyOK(reply, runs[reply.to])'
  <2>1. CASE reply \notin replies
    BY <2>1
  <2>2. CASE reply \in replies
    <3>1. reply.to \in Runs /\ ReplyOK(reply, runs[reply.to])
      BY <2>2 DEF WorkerInv, WorkerTypeOK, Reply
    <3>2. QED
      BY <3>1 DEF ReplyOK, RunsKeep, DeliveredStays
  <2>3. QED
    BY <2>1, <2>2
<1>3. DeliveredAnswerIsTrue'
  <2>1. ASSUME NEW w \in Runs, runs'[w].pc = "delivered"
        PROVE  /\ service'[runs'[w].order].status = "delivered"
               /\ service'[runs'[w].order].result = runs'[w].posted
    <3>1. CASE runs[w].pc # "delivered"
      BY <2>1, <3>1 DEF NewlyDelivered
    <3>2. CASE runs[w].pc = "delivered"
      <4>1. runs'[w] = runs[w] /\ runs[w].order \in Orders
        BY <3>2 DEF RunsKeep, WorkerInv, RunOK
      <4>2. service[runs[w].order].status = "delivered"
            /\ service[runs[w].order].result = runs[w].posted
        BY <3>2 DEF WorkerInv, DeliveredAnswerIsTrue, In
      <4>3. QED
        BY <4>1, <4>2 DEF DeliveredStays
    <3>3. QED
      BY <3>1, <3>2
  <2>2. QED
    BY <2>1 DEF DeliveredAnswerIsTrue, In
<1>4. QED
  BY <1>1, <1>2, <1>3 DEF WorkerInv

-------------------------------------------------------------------------------
(* Steps of the service *)

LEMMA ServiceMoves ==
    ASSUME WorkerInv, UNCHANGED <<stageVars, runs, roots, deaths>>,
           service' \in [Orders -> Record], DeliveredStays,
           \A o \in Orders : RecordOK(o, service'[o]),
           posts' \subseteq posts, replies' \subseteq Reply,
           \A reply \in replies' \ replies : ReplyOK(reply, runs[reply.to])'
    PROVE  WorkerInv'
<1>1. StageInv' /\ StageTypeOK'
  BY DEF WorkerInv, StageInv, StageTypeOK, CacheInv, ProcessesOK, TargetOf, RequestOf, stageVars
<1>2. WorkerTypeOK'
  BY <1>1 DEF WorkerInv, WorkerTypeOK
<1>3. RunsKeep /\ NewlyDelivered /\ \A w \in Runs : RunOK(runs'[w], stages'[w])
  BY DEF RunsKeep, NewlyDelivered, WorkerInv, stageVars
<1>4. QED
  BY <1>1, <1>2, <1>3, WorkerMoves

(* A lease that ends leaves the order without a holder and without a result. *)
LEMMA ReleaseRecord ==
    ASSUME WorkerInv, NEW o \in Orders, service[o].status = "leased",
           NEW status \in {"queued", "failed", "delivered"}
    PROVE  /\ Release(o, status) = [service EXCEPT ![o] =
                [status |-> status, attempt |-> service[o].attempt, lease |-> None, result |-> None]]
           /\ service[o].attempt \in 0 .. MaxAttempts
<1>1. service[o] \in Record /\ service[o].result = None /\ service \in [Orders -> Record]
  BY DEF WorkerInv, WorkerTypeOK, RecordOK
<1> DEFINE y == [service[o] EXCEPT !.status = status]
           z == [status |-> status, attempt |-> service[o].attempt, lease |-> None, result |-> None]
<1>2. y = [status |-> status, attempt |-> service[o].attempt,
           lease |-> service[o].lease, result |-> None]
  BY <1>1 DEF Record
<1> HIDE DEF y
<1>3. [y EXCEPT !.lease = None] = z
  BY <1>2
<1>4. Release(o, status) = [service EXCEPT ![o] = [y EXCEPT !.lease = None]]
  BY <1>1 DEF Release, y
<1>5. QED
  BY <1>1, <1>3, <1>4 DEF Record

LEMMA ExpireLeasePreserves ==
    ASSUME WorkerInv, NEW o \in Orders, ExpireLease(o)
    PROVE  WorkerInv'
<1> DEFINE z == [status |-> Again(o), attempt |-> service[o].attempt, lease |-> None,
                 result |-> None]
<1>1. service[o].status = "leased" /\ Again(o) \in {"queued", "failed", "delivered"}
  BY DEF ExpireLease, Again
<1>2. service' = [service EXCEPT ![o] = z] /\ z \in Record
  BY <1>1, ReleaseRecord DEF ExpireLease, Record
<1>3. z.result = None
  OBVIOUS
<1> HIDE DEF z
<1>4. /\ service' \in [Orders -> Record] /\ DeliveredStays
      /\ \A q \in Orders : RecordOK(q, service'[q])
  BY <1>1, <1>2, <1>3 DEF WorkerInv, WorkerTypeOK, DeliveredStays, RecordOK
<1>5. replies' \subseteq Reply /\ replies' = replies /\ posts' = posts
  BY DEF ExpireLease, WorkerInv, WorkerTypeOK
<1>6. QED
  BY <1>4, <1>5, ServiceMoves DEF ExpireLease

LEMMA ServeFailurePreserves ==
    ASSUME WorkerInv, NEW m \in posts, ServeFailure(m)
    PROVE  WorkerInv'
<1>1. m.order \in Orders /\ m.by \in Runs
  BY DEF WorkerInv, WorkerTypeOK, Post
<1>2. /\ service' \in [Orders -> Record] /\ DeliveredStays
      /\ \A q \in Orders : RecordOK(q, service'[q])
  <2>1. CASE ~Held(m.order, m.by)
    BY <2>1 DEF ServeFailure, WorkerInv, WorkerTypeOK, DeliveredStays
  <2>2. CASE Held(m.order, m.by)
    <3> DEFINE status == IF m.retryable THEN Again(m.order) ELSE "failed"
               z == [status |-> status, attempt |-> service[m.order].attempt, lease |-> None,
                     result |-> None]
    <3>1. service[m.order].status = "leased" /\ status \in {"queued", "failed", "delivered"}
      BY <2>2 DEF Held, Again
    <3>2. service' = Release(m.order, status)
      BY <2>2 DEF ServeFailure
    <3> HIDE DEF status
    <3>3. service' = [service EXCEPT ![m.order] = z] /\ z \in Record
      BY <1>1, <3>1, <3>2, ReleaseRecord DEF Record
    <3>4. z.result = None
      OBVIOUS
    <3> HIDE DEF z
    <3>5. QED
      BY <1>1, <3>1, <3>3, <3>4 DEF WorkerInv, WorkerTypeOK, DeliveredStays, RecordOK
  <2>3. QED
    BY <2>1, <2>2
<1>3. replies' = replies /\ replies' \subseteq Reply /\ posts' \subseteq posts
  BY DEF ServeFailure, WorkerInv, WorkerTypeOK
<1>4. QED
  BY <1>2, <1>3, ServiceMoves DEF ServeFailure

(* What is put on record is the envelope of the run that holds the lease,   *)
(* and what is answered with a result is on record.                         *)
LEMMA ServeCompletionPreserves ==
    ASSUME WorkerInv, NEW m \in posts, ServeCompletion(m)
    PROVE  WorkerInv'
<1> DEFINE o == m.order
<1>1. /\ m.kind = "complete" /\ o \in Orders /\ m.by \in Runs /\ m.envelope \in Envelope
      /\ runs[m.by].posted = m.envelope /\ runs[m.by].order = o
      /\ m.envelope.attests = Wanted[o] /\ m.envelope # None
  BY HostedWorkerAssumption
     DEF ServeCompletion, WorkerInv, WorkerTypeOK, Post, PostOK, Envelope, Content
<1>2. service \in [Orders -> Record] /\ replies \subseteq Reply
  BY DEF WorkerInv, WorkerTypeOK
<1>3. CASE Held(o, m.by)
  <2> DEFINE y == [status |-> "delivered", attempt |-> service[o].attempt, lease |-> None,
                   result |-> None]
             z == [status |-> "delivered", attempt |-> service[o].attempt, lease |-> None,
                   result |-> m.envelope]
             reply == [to |-> m.by, result |-> m.envelope]
  <2>1. service[o].status = "leased"
    BY <1>3 DEF Held
  <2>2. Release(o, "delivered") = [service EXCEPT ![o] = y] /\ service[o].attempt \in 0 .. MaxAttempts
    BY <1>1, <2>1, ReleaseRecord
  <2>3. [y EXCEPT !.result = m.envelope] = z
    OBVIOUS
  <2>4. z \in Record /\ z.status = "delivered" /\ z.result = m.envelope
    BY <1>1, <2>2 DEF Record
  <2>5. service' = [[service EXCEPT ![o] = y] EXCEPT ![o].result = m.envelope]
        /\ replies' = replies \cup {reply}
    BY <1>3, <2>2 DEF ServeCompletion
  <2> HIDE DEF y, z
  <2>6. service' = [service EXCEPT ![o] = z]
    BY <1>1, <1>2, <2>3, <2>5
  <2>7. service' \in [Orders -> Record] /\ DeliveredStays /\ service'[o] = z
        /\ \A q \in Orders \ {o} : service'[q] = service[q]
    BY <1>1, <1>2, <2>1, <2>4, <2>6 DEF DeliveredStays
  <2>8. \A q \in Orders : RecordOK(q, service'[q])
    BY <1>1, <2>4, <2>7 DEF RecordOK, WorkerInv
  <2>9. reply \in Reply /\ ReplyOK(reply, runs[reply.to])'
    BY <1>1, <2>4, <2>7 DEF Reply, ReplyOK, ServeCompletion
  <2> HIDE DEF reply
  <2>10. QED
    BY <1>2, <2>5, <2>7, <2>8, <2>9, ServiceMoves DEF ServeCompletion
<1>4. CASE ~Held(o, m.by)
  <2>1. PICK result \in {None, service[o].result} :
          replies' = replies \cup {[to |-> m.by, result |-> result]}
    BY <1>4 DEF ServeCompletion
  <2> DEFINE reply == [to |-> m.by, result |-> result]
  <2>2. service' = service /\ runs' = runs
    BY <1>4 DEF ServeCompletion
  <2>3. service[o] \in Record /\ RecordOK(o, service[o])
    BY <1>1, <1>2 DEF WorkerInv
  <2>4. reply \in Reply /\ ReplyOK(reply, runs[reply.to])'
    BY <1>1, <2>1, <2>2, <2>3 DEF Reply, ReplyOK, Record, RecordOK
  <2>5. DeliveredStays /\ service' \in [Orders -> Record]
        /\ \A q \in Orders : RecordOK(q, service'[q])
    BY <1>2, <2>2 DEF DeliveredStays, WorkerInv
  <2> HIDE DEF reply
  <2>6. replies' = replies \cup {reply}
    BY <2>1 DEF reply
  <2>7. QED
    BY <1>2, <2>4, <2>5, <2>6, ServiceMoves DEF ServeCompletion
<1>5. QED
  BY <1>3, <1>4

-------------------------------------------------------------------------------
(* Steps of a run *)

(* A process moves on with its request, and the worker's own state stays. *)
LEMMA StageMoves ==
    ASSUME WorkerInv, StageInv', UNCHANGED workerVars,
           \A w \in Runs : RunOK(runs[w], stages'[w])
    PROVE  WorkerInv'
<1>1. StageTypeOK'
  BY DEF StageInv
<1>2. WorkerTypeOK'
  BY <1>1 DEF WorkerInv, WorkerTypeOK, workerVars
<1>3. RunsKeep /\ DeliveredStays /\ NewlyDelivered
  BY DEF RunsKeep, DeliveredStays, NewlyDelivered, workerVars
<1>4. /\ \A w \in Runs : RunOK(runs'[w], stages'[w])
      /\ \A o \in Orders : RecordOK(o, service'[o])
      /\ posts' = posts /\ replies' = replies
  BY DEF WorkerInv, workerVars
<1>5. QED
  BY <1>2, <1>3, <1>4, WorkerMoves

RunBecomes(w, run) == runs' = [runs EXCEPT ![w] = run]

LEMMA RunMoves ==
    ASSUME WorkerInv, StageInv', NEW w \in Runs, NEW run \in Run, RunBecomes(w, run),
           \A v \in Runs \ {w} : stages'[v] = stages[v],
           RunOK(run, stages'[w]),
           runs[w].pc \notin {"ended", "delivered"},
           runs[w].posted # None => run.posted = runs[w].posted /\ run.order = runs[w].order,
           run.pc = "delivered" => /\ service'[run.order].status = "delivered"
                                   /\ service'[run.order].result = run.posted,
           roots' \subseteq Caches, deaths' \in 0 .. MaxDeaths,
           service' \in [Orders -> Record], DeliveredStays,
           \A o \in Orders : RecordOK(o, service'[o]),
           posts' \subseteq Post, \A m \in posts' \ posts : m.by = w /\ PostOK(m, run),
           replies' \subseteq replies
    PROVE  WorkerInv'
<1>1. runs' \in [Runs -> Run] /\ runs'[w] = run /\ \A v \in Runs \ {w} : runs'[v] = runs[v]
  BY DEF RunBecomes, WorkerInv, WorkerTypeOK
<1>2. StageTypeOK' /\ replies' \subseteq Reply
  BY DEF StageInv, WorkerInv, WorkerTypeOK
<1>3. WorkerTypeOK'
  BY <1>1, <1>2 DEF WorkerTypeOK
<1>4. RunsKeep /\ NewlyDelivered
  BY <1>1 DEF RunsKeep, NewlyDelivered
<1>5. \A v \in Runs : RunOK(runs'[v], stages'[v])
  BY <1>1 DEF WorkerInv
<1>6. /\ \A m \in posts' \ posts : PostOK(m, runs'[m.by])
      /\ \A reply \in replies' \ replies : ReplyOK(reply, runs[reply.to])'
  BY <1>1
<1>7. QED
  BY <1>3, <1>4, <1>5, <1>6, WorkerMoves

(* What is known of the run that takes a step. *)
LEMMA AboutRun ==
    ASSUME WorkerInv, NEW w \in Runs
    PROVE  /\ runs[w] \in Run /\ RunOK(runs[w], stages[w]) /\ w \in Processes
           /\ StageInv /\ stages[w] \in Stage
           /\ UNCHANGED stageVars => StageInv' /\ stages' = stages
           /\ \A pc \in RunPcs : Move(w, pc) =>
                 RunBecomes(w, [pc |-> pc, order |-> runs[w].order, posted |-> runs[w].posted])
           /\ service' = service => /\ service' \in [Orders -> Record] /\ DeliveredStays
                                    /\ \A o \in Orders : RecordOK(o, service'[o])
           /\ roots \subseteq Caches /\ deaths \in 0 .. MaxDeaths
           /\ posts \subseteq Post
<1>1. runs[w] \in Run /\ RunOK(runs[w], stages[w]) /\ w \in Processes /\ stages[w] \in Stage
  BY HostedWorkerAssumption DEF WorkerInv, WorkerTypeOK, StageInv, StageTypeOK
<1>2. UNCHANGED stageVars => StageInv' /\ stages' = stages
  BY DEF WorkerInv, StageInv, StageTypeOK, CacheInv, ProcessesOK, TargetOf, RequestOf, stageVars
<1>3. ASSUME NEW pc \in RunPcs, Move(w, pc)
      PROVE  RunBecomes(w, [pc |-> pc, order |-> runs[w].order, posted |-> runs[w].posted])
  <2>1. [runs[w] EXCEPT !.pc = pc] = [pc |-> pc, order |-> runs[w].order, posted |-> runs[w].posted]
    BY <1>1 DEF Run
  <2>2. runs' = [runs EXCEPT ![w] = [runs[w] EXCEPT !.pc = pc]]
    BY <1>3 DEF Move
  <2>3. QED
    BY <2>1, <2>2 DEF RunBecomes
<1>4. service' = service => /\ service' \in [Orders -> Record] /\ DeliveredStays
                            /\ \A o \in Orders : RecordOK(o, service'[o])
  BY DEF WorkerInv, WorkerTypeOK, DeliveredStays
<1>5. roots \subseteq Caches /\ deaths \in 0 .. MaxDeaths /\ posts \subseteq Post
  BY DEF WorkerInv, WorkerTypeOK
<1>6. QED
  BY <1>1, <1>2, <1>3, <1>4, <1>5 DEF WorkerInv

(* Another pc for the same job, with nothing else that a run holds. *)
Continues(run, w, pc) ==
    run \in Run /\ run.pc = pc /\ run.order = runs[w].order /\ run.posted = runs[w].posted

LEMMA MoveRun ==
    ASSUME WorkerInv, NEW w \in Runs, NEW pc \in RunPcs, Move(w, pc)
    PROVE  \E run \in Run : RunBecomes(w, run) /\ Continues(run, w, pc)
<1> DEFINE run == [pc |-> pc, order |-> runs[w].order, posted |-> runs[w].posted]
<1>1. RunBecomes(w, run)
  BY AboutRun
<1>2. Continues(run, w, pc)
  BY AboutRun DEF Continues, Run
<1> HIDE DEF run
<1>3. QED
  BY <1>1, <1>2 DEF Continues

LEMMA MakeRootPreserves ==
    ASSUME WorkerInv, NEW w \in Runs, MakeRoot(w)
    PROVE  WorkerInv'
<1>1. PICK pc \in {"ended", "claim"} : Move(w, pc)
  BY DEF MakeRoot
<1>2. PICK run \in Run : RunBecomes(w, run) /\ Continues(run, w, pc)
  BY <1>1, MoveRun DEF RunPcs
<1>3. runs[w].pc = "start" /\ stages' = stages /\ StageInv'
  BY AboutRun DEF MakeRoot, In, stageVars
<1>4. RunOK(run, stages'[w]) /\ run.pc # "delivered"
  BY <1>1, <1>2, <1>3, AboutRun DEF RunOK, Continues
<1>5. RootOf[w] \in Caches
  BY HostedWorkerAssumption, StageBAssumption, AboutRun
<1>6. /\ roots' \subseteq Caches /\ deaths' \in 0 .. MaxDeaths
      /\ service' \in [Orders -> Record] /\ DeliveredStays
      /\ \A o \in Orders : RecordOK(o, service'[o])
      /\ posts' = posts /\ posts' \subseteq Post /\ replies' \subseteq replies
  BY <1>5, AboutRun DEF MakeRoot
<1>7. QED
  BY <1>2, <1>3, <1>4, <1>6, RunMoves DEF Continues

(* A lease is taken of an order without a result. *)
LEMMA LeaseRecord ==
    ASSUME WorkerInv, NEW w \in Runs, NEW o \in Orders, Lease(o, w)
    PROVE  /\ service' \in [Orders -> Record] /\ DeliveredStays
           /\ \A q \in Orders : RecordOK(q, service'[q])
<1> DEFINE z == [status |-> "leased", attempt |-> service[o].attempt + 1, lease |-> w,
                 result |-> None]
<1>1. /\ service[o] \in Record /\ service[o].status = "queued" /\ service[o].result = None
      /\ service[o].attempt < MaxAttempts /\ service \in [Orders -> Record]
  BY DEF Lease, Leasable, WorkerInv, WorkerTypeOK, RecordOK
<1>2. service' = [service EXCEPT ![o] = z]
  <2> DEFINE y1 == [service[o] EXCEPT !.status = "leased"]
             y2 == [y1 EXCEPT !.lease = w]
             y3 == [y2 EXCEPT !.attempt = @ + 1]
  <2>1. y1 = [status |-> "leased", attempt |-> service[o].attempt,
              lease |-> service[o].lease, result |-> None]
    BY <1>1 DEF Record
  <2> HIDE DEF y1
  <2>2. y2 = [status |-> "leased", attempt |-> service[o].attempt, lease |-> w, result |-> None]
    BY <2>1
  <2> HIDE DEF y2
  <2>3. y3 = z
    BY <2>2
  <2> HIDE DEF z
  <2>4. service' = [service EXCEPT ![o] = y3]
    BY <1>1 DEF Lease, y1, y2
  <2>5. QED
    BY <2>3, <2>4
<1>3. z \in Record
  BY <1>1, HostedWorkerAssumption DEF Record
<1>4. z.result = None
  OBVIOUS
<1> HIDE DEF z
<1>5. QED
  BY <1>1, <1>2, <1>3, <1>4 DEF DeliveredStays, RecordOK, WorkerInv

LEMMA PreclaimPreserves ==
    ASSUME WorkerInv, NEW w \in Runs, Preclaim(w)
    PROVE  WorkerInv'
<1>1. /\ runs[w].pc = "start" /\ stages' = stages /\ StageInv' /\ stages[w].pc = "idle"
      /\ runs[w].posted = None /\ runs[w] \in Run
  BY AboutRun DEF Preclaim, In, stageVars, RunOK
<1>2. PICK o \in Orders : Lease(o, w) /\ runs' = [runs EXCEPT ![w].order = o]
  BY DEF Preclaim
<1> DEFINE run == [pc |-> "start", order |-> o, posted |-> None]
<1>3. [runs[w] EXCEPT !.order = o] = run
  BY <1>1 DEF Run
<1>4. RunBecomes(w, run)
  BY <1>2, <1>3 DEF RunBecomes, WorkerInv, WorkerTypeOK
<1>5. run \in Run /\ RunOK(run, stages'[w]) /\ run.pc # "delivered" /\ run.posted = None
  BY <1>1 DEF Run, RunPcs, RunOK
<1>6. /\ service' \in [Orders -> Record] /\ DeliveredStays
      /\ \A q \in Orders : RecordOK(q, service'[q])
  BY <1>2, LeaseRecord
<1>7. /\ roots' \subseteq Caches /\ deaths' \in 0 .. MaxDeaths
      /\ posts' = posts /\ posts' \subseteq Post /\ replies' \subseteq replies
  BY AboutRun DEF Preclaim
<1> HIDE DEF run
<1>8. QED
  BY <1>1, <1>4, <1>5, <1>6, <1>7, RunMoves

LEMMA ClaimPreserves ==
    ASSUME WorkerInv, NEW w \in Runs, Claim(w)
    PROVE  WorkerInv'
<1>1. /\ runs[w].pc = "claim" /\ stages' = stages /\ StageInv' /\ stages[w].pc = "idle"
      /\ runs[w].posted = None /\ runs[w] \in Run
  BY AboutRun DEF Claim, In, stageVars, RunOK
<1>2. /\ roots' \subseteq Caches /\ deaths' \in 0 .. MaxDeaths
      /\ posts' = posts /\ posts' \subseteq Post /\ replies' \subseteq replies
  BY AboutRun DEF Claim
<1>3. /\ service' \in [Orders -> Record] /\ DeliveredStays
      /\ \A o \in Orders : RecordOK(o, service'[o])
  <2>1. CASE service' = service
    BY <2>1, AboutRun
  <2>2. CASE \E o \in Orders : Lease(o, w)
    BY <2>2, LeaseRecord
  <2>3. QED
    BY <2>1, <2>2 DEF Claim
<1>4. PICK run \in Run : /\ RunBecomes(w, run) /\ run.posted = None
                         /\ run.pc \in {"work", "ended", "idle"}
                         /\ run.pc = "work" => run.order \in Orders
  <2>1. CASE \E pc \in {"ended", "idle"} : Move(w, pc)
    <3>1. PICK pc \in {"ended", "idle"} : Move(w, pc)
      BY <2>1
    <3>2. PICK run \in Run : RunBecomes(w, run) /\ Continues(run, w, pc)
      BY <3>1, MoveRun DEF RunPcs
    <3>3. QED
      BY <1>1, <3>2 DEF Continues
  <2>2. CASE \E o \in Orders : runs' = [runs EXCEPT ![w].pc = "work", ![w].order = o]
    <3>1. PICK o \in Orders : runs' = [runs EXCEPT ![w].pc = "work", ![w].order = o]
      BY <2>2
    <3> DEFINE y == [runs[w] EXCEPT !.pc = "work"]
               run == [pc |-> "work", order |-> o, posted |-> None]
    <3>2. y = [pc |-> "work", order |-> runs[w].order, posted |-> None]
      BY <1>1 DEF Run
    <3> HIDE DEF y
    <3>3. [y EXCEPT !.order = o] = run
      BY <3>2
    <3>4. runs' = [runs EXCEPT ![w] = [y EXCEPT !.order = o]]
      BY <3>1 DEF y, WorkerInv, WorkerTypeOK
    <3>5. RunBecomes(w, run)
      BY <3>3, <3>4 DEF RunBecomes
    <3>6. run \in Run
      BY DEF Run, RunPcs
    <3>7. QED
      BY <3>5, <3>6
  <2>3. CASE Move(w, "work") /\ runs[w].order # None
    <3>1. PICK run \in Run : RunBecomes(w, run) /\ Continues(run, w, "work")
      BY <2>3, MoveRun DEF RunPcs
    <3>2. QED
      BY <1>1, <2>3, <3>1 DEF Continues, Run
  <2>4. QED
    BY <2>1, <2>2, <2>3 DEF Claim
<1>5. RunOK(run, stages'[w]) /\ run.pc # "delivered"
  BY <1>1, <1>4 DEF RunOK
<1>6. QED
  BY <1>1, <1>2, <1>3, <1>4, <1>5, RunMoves

(* What is posted is about the commit that the order asks for. *)
LEMMA CompletePreserves ==
    ASSUME WorkerInv, NEW w \in Runs, Complete(w)
    PROVE  WorkerInv'
<1>1. /\ runs[w].pc = "work" /\ runs[w].order \in Orders /\ stages[w].pc = "signed"
      /\ runs[w] \in Run /\ runs[w].posted = None
      /\ stages[w].request \in Requests /\ stages[w].request = Wanted[runs[w].order]
      /\ envelopes[w].attests = stages[w].request
  <2>1. ProcessOK(stages[w], partials[w], TargetOf(w), outputs[w], envelopes[w])
    BY AboutRun, AboutProcess
  <2>2. QED
    BY <2>1, AboutRun DEF Complete, In, At, RunOK, ProcessOK
<1>2. CASE envelopes[w].intact
  <2> DEFINE envelope == EnvelopeOf(w)
             y == [runs[w] EXCEPT !.pc = "await"]
             run == [pc |-> "await", order |-> runs[w].order, posted |-> envelope]
             m == [kind |-> "complete", by |-> w, order |-> runs[w].order, envelope |-> envelope]
  <2>1. /\ envelope \in Envelope /\ envelope # None
        /\ envelope.attests = Wanted[runs[w].order]
    BY <1>1, HostedWorkerAssumption DEF EnvelopeOf, Envelope, Content
  <2> HIDE DEF envelope
  <2>2. y = [pc |-> "await", order |-> runs[w].order, posted |-> None]
    BY <1>1 DEF Run
  <2> HIDE DEF y
  <2>3. [y EXCEPT !.posted = envelope] = run
    BY <2>2
  <2>4. runs' = [runs EXCEPT ![w] = [y EXCEPT !.posted = envelope]] /\ posts' = posts \cup {m}
        /\ stages' = stages
    BY <1>2 DEF Complete, y, envelope, WorkerInv, WorkerTypeOK
  <2>5. RunBecomes(w, run)
    BY <2>3, <2>4 DEF RunBecomes
  <2>6. run \in Run /\ m \in Post /\ m.by = w /\ PostOK(m, run) /\ run.pc = "await"
    BY <1>1, <2>1 DEF Run, RunPcs, Post, PostOK
  <2>7. RunOK(run, stages'[w])
    BY <1>1, <2>1, <2>4 DEF RunOK
  <2>8. UNCHANGED stageVars
    BY <2>4 DEF Complete, stageVars
  <2>9. /\ roots' \subseteq Caches /\ deaths' \in 0 .. MaxDeaths
        /\ service' \in [Orders -> Record] /\ DeliveredStays
        /\ \A o \in Orders : RecordOK(o, service'[o])
        /\ posts' \subseteq Post /\ replies' \subseteq replies
    BY <2>4, <2>6, AboutRun DEF Complete
  <2> HIDE DEF run, m
  <2>10. \A n \in posts' \ posts : n.by = w /\ PostOK(n, run)
    BY <2>4, <2>6
  <2>11. StageInv' /\ stages' = stages
    BY <2>8, AboutRun
  <2>12. QED
    BY <1>1, <2>5, <2>6, <2>7, <2>9, <2>10, <2>11, RunMoves
<1>3. CASE ~envelopes[w].intact
  <2>1. /\ Raise(w, FALSE) /\ partials' = partials /\ UNCHANGED workerVars
        /\ UNCHANGED <<cache, outputs, envelopes, faults>>
    BY <1>3 DEF Complete, workerVars
  <2>2. partials[w] = None
    BY <1>1, AboutRun, AboutProcess DEF Places
  <2>3. /\ StageInv' /\ Others(w)
        /\ stages'[w].request = stages[w].request /\ stages'[w].pc = "failed"
    BY <1>1, <2>1, <2>2, AboutRun, RaisePreserves
  <2>4. \A v \in Runs : RunOK(runs[v], stages'[v])
    BY <1>1, <2>3, AboutRun DEF RunOK, Others
  <2>5. QED
    BY <2>1, <2>3, <2>4, StageMoves
<1>4. QED
  BY <1>2, <1>3

(* An answer that names this run's envelope is about what is on record. *)
LEMMA TakeAnswerPreserves ==
    ASSUME WorkerInv, NEW w \in Runs, TakeAnswer(w)
    PROVE  WorkerInv'
<1>1. /\ runs[w].pc = "await" /\ runs[w].order \in Orders /\ runs[w].posted # None
      /\ stages[w].pc = "signed" /\ runs[w] \in Run
  BY AboutRun DEF TakeAnswer, In, At, RunOK
<1>2. /\ roots' \subseteq Caches /\ deaths' \in 0 .. MaxDeaths
      /\ service' \in [Orders -> Record] /\ DeliveredStays /\ service' = service
      /\ \A o \in Orders : RecordOK(o, service'[o])
      /\ posts' = posts /\ posts' \subseteq Post /\ replies' \subseteq replies
  BY AboutRun DEF TakeAnswer
<1>3. CASE Move(w, "delivered") /\ UNCHANGED stages /\ \E reply \in replies : reply.to = w /\ Confirms(w, reply)
  <2>1. PICK reply \in replies : reply.to = w /\ reply.result = runs[w].posted
    BY <1>3 DEF Confirms
  <2>2. ReplyOK(reply, runs[w])
    BY <2>1 DEF WorkerInv
  <2>3. /\ service'[runs[w].order].status = "delivered"
        /\ service'[runs[w].order].result = runs[w].posted
    BY <1>1, <1>2, <2>1, <2>2 DEF ReplyOK
  <2>4. PICK run \in Run : RunBecomes(w, run) /\ Continues(run, w, "delivered")
    BY <1>3, MoveRun DEF RunPcs
  <2>5. StageInv' /\ stages' = stages
    BY <1>3, AboutRun DEF TakeAnswer, stageVars
  <2>6. RunOK(run, stages'[w])
    BY <1>1, <2>4, <2>5, AboutRun DEF RunOK, Continues
  <2>7. QED
    BY <1>1, <1>2, <2>3, <2>4, <2>5, <2>6, RunMoves DEF Continues
<1>4. CASE (\E retryable \in BOOLEAN : Raise(w, retryable)) /\ UNCHANGED runs
  <2>1. /\ partials' = partials /\ partials[w] = None
        /\ UNCHANGED <<cache, outputs, envelopes, faults>>
    BY <1>1, AboutRun, AboutProcess DEF TakeAnswer, Places
  <2>2. /\ StageInv' /\ Others(w)
        /\ stages'[w].request = stages[w].request /\ stages'[w].pc = "failed"
    BY <1>1, <1>4, <2>1, AboutRun, RaisePreserves
  <2>3. RunBecomes(w, runs[w])
    BY <1>4 DEF RunBecomes, WorkerInv, WorkerTypeOK
  <2>4. RunOK(runs[w], stages'[w]) /\ \A v \in Runs \ {w} : stages'[v] = stages[v]
    BY <1>1, <2>2, AboutRun, HostedWorkerAssumption DEF RunOK, Others
  <2>5. QED
    BY <1>1, <1>2, <2>2, <2>3, <2>4, RunMoves
<1>5. QED
  BY <1>3, <1>4 DEF TakeAnswer

(* Nothing is reported by a run that has posted. *)
LEMMA HandleFailurePreserves ==
    ASSUME WorkerInv, NEW w \in Runs, HandleFailure(w)
    PROVE  WorkerInv'
<1>1. /\ runs[w].pc \in {"work", "await"} /\ runs[w].order \in Orders /\ stages[w] \in Stage
      /\ stages[w].pc # "idle"
  BY AboutRun DEF HandleFailure, At, RunOK
<1>2. PICK run \in Run : RunBecomes(w, run) /\ Continues(run, w, "ended")
  BY MoveRun DEF HandleFailure, RunPcs
<1>3. StageInv' /\ stages' = stages
  BY AboutRun DEF HandleFailure
<1>4. RunOK(run, stages'[w]) /\ run.pc = "ended"
  BY <1>2, <1>3, AboutRun DEF RunOK, Continues
<1>5. posts' \subseteq Post /\ \A m \in posts' \ posts : m.by = w /\ PostOK(m, run)
  <2> DEFINE m == [kind |-> "fail", by |-> w, order |-> runs[w].order,
                   retryable |-> stages[w].retryable]
  <2>1. CASE ~Reports(w)
    BY <2>1, AboutRun DEF HandleFailure
  <2>2. CASE Reports(w)
    <3>1. stages[w].retryable \in BOOLEAN
      BY <1>1 DEF Stage
    <3>2. m \in Post
      BY <1>1, <3>1 DEF Post
    <3>3. m.by = w /\ PostOK(m, run)
      BY <1>2, <1>4, <2>2 DEF PostOK, Reports, Continues
    <3> HIDE DEF m
    <3>4. posts' = posts \cup {m}
      BY <2>2 DEF HandleFailure, m
    <3>5. QED
      BY <3>2, <3>3, <3>4, AboutRun
  <2>3. QED
    BY <2>1, <2>2
<1>6. /\ roots' \subseteq Caches /\ deaths' \in 0 .. MaxDeaths
      /\ service' \in [Orders -> Record] /\ DeliveredStays
      /\ \A o \in Orders : RecordOK(o, service'[o]) /\ replies' \subseteq replies
  BY AboutRun DEF HandleFailure
<1>7. QED
  BY <1>1, <1>2, <1>3, <1>4, <1>5, <1>6, RunMoves DEF Continues

LEMMA DiePreserves ==
    ASSUME WorkerInv, NEW w \in Runs, Die(w)
    PROVE  WorkerInv'
<1>1. PICK run \in Run : RunBecomes(w, run) /\ Continues(run, w, "dead")
  BY MoveRun DEF Die, RunPcs
<1>2. StageInv' /\ stages' = stages /\ runs[w].pc \in {"claim", "work", "await"}
  BY AboutRun DEF Die
<1>3. RunOK(run, stages'[w]) /\ run.pc # "delivered"
  BY <1>1, <1>2, AboutRun DEF RunOK, Continues
<1>4. /\ roots' \subseteq Caches /\ deaths' \in 0 .. MaxDeaths
      /\ service' \in [Orders -> Record] /\ DeliveredStays
      /\ \A o \in Orders : RecordOK(o, service'[o])
      /\ posts' = posts /\ posts' \subseteq Post /\ replies' \subseteq replies
  BY AboutRun, HostedWorkerAssumption DEF Die
<1>5. QED
  BY <1>1, <1>2, <1>3, <1>4, RunMoves DEF Continues

LEMMA WorkPreserves ==
    ASSUME WorkerInv, NEW w \in Runs, In(w, "work"), UNCHANGED workerVars,
           LookUp(w, Wanted[runs[w].order]) \/ StageStep(w)
    PROVE  WorkerInv'
<1>1. runs[w].pc = "work" /\ runs[w].order \in Orders /\ Wanted[runs[w].order] \in Requests
  BY AboutRun, HostedWorkerAssumption DEF In, RunOK
<1>2. /\ StageInv' /\ Others(w) /\ stages'[w].request = Wanted[runs[w].order]
  BY <1>1, AboutRun, LookUpPreserves, StageStepPreserves DEF Moves, RunOK
<1>3. \A v \in Runs : RunOK(runs[v], stages'[v])
  BY <1>1, <1>2, AboutRun DEF RunOK, Others
<1>4. QED
  BY <1>2, <1>3, StageMoves

LEMMA LocalPreserves ==
    ASSUME WorkerInv, NEW p \in Processes \ Runs, LocalStep(p)
    PROVE  WorkerInv'
<1>1. StageInv' /\ Others(p)
  BY LookUpPreserves, StageStepPreserves DEF LocalStep, Moves, WorkerInv
<1>2. \A v \in Runs : RunOK(runs[v], stages'[v])
  BY <1>1, AboutRun DEF Others
<1>3. QED
  BY <1>1, <1>2, StageMoves DEF LocalStep

LEMMA RunStepPreserves ==
    ASSUME WorkerInv, NEW w \in Runs, RunStep(w)
    PROVE  WorkerInv'
  BY PreclaimPreserves, MakeRootPreserves, ClaimPreserves, CompletePreserves, TakeAnswerPreserves,
     HandleFailurePreserves, DiePreserves, WorkPreserves DEF RunStep

-------------------------------------------------------------------------------
(* The theorems *)

LEMMA WorkerInitInv == WorkerInit => WorkerInv
<1> SUFFICES ASSUME WorkerInit PROVE WorkerInv
  OBVIOUS
<1>1. StageInv
  BY StageInitInv DEF WorkerInit
<1>2. \A w \in Runs : w \in Processes /\ RootOf[w] \in Caches
  BY HostedWorkerAssumption, StageBAssumption
<1>3. NoJob \in Run
  BY DEF NoJob, Run, RunPcs
<1>4. \A o \in Orders : service[o] \in Record /\ service[o].result = None
                       /\ service \in [Orders -> Record]
  BY HostedWorkerAssumption DEF WorkerInit, Record
<1>5. roots \subseteq Caches
  BY <1>2 DEF WorkerInit
<1>6. service \in [Orders -> Record]
  BY HostedWorkerAssumption DEF WorkerInit, Record
<1>7. WorkerTypeOK
  BY <1>1, <1>3, <1>5, <1>6, HostedWorkerAssumption DEF WorkerInit, WorkerTypeOK, StageInv
<1>8. /\ \A w \in Runs : RunOK(runs[w], stages[w])
      /\ DeliveredAnswerIsTrue
  BY <1>2 DEF WorkerInit, StageInit, Unused, NoJob, RunOK, DeliveredAnswerIsTrue, In
<1>9. /\ \A m \in posts : PostOK(m, runs[m.by])
      /\ \A reply \in replies : ReplyOK(reply, runs[reply.to])
  BY DEF WorkerInit
<1>10. \A o \in Orders : RecordOK(o, service[o])
  BY <1>4 DEF RecordOK
<1>11. QED
  BY <1>1, <1>7, <1>8, <1>9, <1>10 DEF WorkerInv

LEMMA WorkerNextPreserves == WorkerInv /\ [WorkerNext]_allVars => WorkerInv'
<1> SUFFICES ASSUME WorkerInv, [WorkerNext]_allVars PROVE WorkerInv'
  OBVIOUS
<1>1. CASE \E w \in Runs : RunStep(w)
  BY <1>1, RunStepPreserves
<1>2. CASE \E p \in Processes \ Runs : LocalStep(p)
  BY <1>2, LocalPreserves
<1>3. CASE ServiceStep
  BY <1>3, ExpireLeasePreserves, ServeCompletionPreserves, ServeFailurePreserves DEF ServiceStep
<1>4. CASE Damage /\ UNCHANGED workerVars
  <2>1. StageInv' /\ stages' = stages
    BY <1>4, DamagePreserves DEF WorkerInv
  <2>2. QED
    BY <1>4, <2>1, StageMoves DEF WorkerInv
<1>5. CASE UNCHANGED allVars
  <2>1. UNCHANGED workerVars /\ StageInv' /\ stages' = stages
    BY <1>5 DEF allVars, WorkerInv, StageInv, StageTypeOK, CacheInv, ProcessesOK, TargetOf,
                RequestOf, stageVars
  <2>2. QED
    BY <2>1, StageMoves DEF WorkerInv
<1>6. QED
  BY <1>1, <1>2, <1>3, <1>4, <1>5 DEF WorkerNext

THEOREM WorkerSafe == WorkerSpec => []WorkerInv
  BY WorkerInitInv, WorkerNextPreserves, PTL DEF WorkerSpec

(* run_once, freeze, inspection and signing keep their types; no .partial   *)
(* directory outlives the freeze it belongs to.                             *)
THEOREM WorkerTypes == WorkerSpec => []WorkerTypeOK
<1>1. WorkerInv => WorkerTypeOK
  BY DEF WorkerInv
<1>2. QED
  BY <1>1, WorkerSafe, PTL

(* sign_verified_worker_result and run_once: every envelope, and every      *)
(* result on record, is about the commit that was requested.                *)
THEOREM EnvelopesAreAboutTheRequest == WorkerSpec => []SignedIsRequested
<1>1. WorkerInv => SignedIsRequested
  BY DEF WorkerInv, StageInv, ProcessesOK, ProcessOK, RecordOK, SignedIsRequested, RequestOf
<1>2. QED
  BY <1>1, WorkerSafe, PTL

(* run_once's except handler: a failure is reported only by a run that has  *)
(* posted nothing.                                                          *)
THEOREM ReportsAreOfUnpostedWork == WorkerSpec => []PostedWorkIsNotReported
<1>1. WorkerInv => PostedWorkIsNotReported
  <2> SUFFICES ASSUME WorkerInv, NEW o \in Orders, NEW m \in posts, m.kind = "fail"
               PROVE  /\ runs[m.by].posted = None
                      /\ \A n \in posts : n.kind = "complete" => n.by # m.by
    BY DEF PostedWorkIsNotReported
  <2>1. runs[m.by].posted = None
    BY DEF WorkerInv, PostOK
  <2>2. ASSUME NEW n \in posts, n.kind = "complete" PROVE runs[n.by].posted # None
    BY <2>2, HostedWorkerAssumption DEF WorkerInv, WorkerTypeOK, PostOK, Post, Envelope, Content
  <2>3. QED
    BY <2>1, <2>2
<1>2. QED
  BY <1>1, WorkerSafe, PTL

(* run_once: a run that returns "delivered" is right about its order.       *)
THEOREM DeliveredRunsAreRight == WorkerSpec => []DeliveredAnswerIsTrue
<1>1. WorkerInv => DeliveredAnswerIsTrue
  BY DEF WorkerInv
<1>2. QED
  BY <1>1, WorkerSafe, PTL
===============================================================================
