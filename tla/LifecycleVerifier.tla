-------------------------- MODULE LifecycleVerifier --------------------------
(***************************************************************************)
(* lifecycle.LifecycleSequenceStore, evaluate_receipt_lifecycle_with_state *)
(* and catalog_runtime.VerifiedCatalog.  Processes that share one state    *)
(* file answer for receipts from whichever root-signed feed they hold; the *)
(* file remembers the highest number and the digest of its feed.  Of the   *)
(* state file only the record of the pinned root matters.                  *)
(***************************************************************************)
EXTENDS ReceiptLifecycle

CONSTANTS
    Verifiers,      \* processes with the same --sequence-state
    Feeds,          \* every feed the root ever signed
    CatalogIssuer,  \* key that signed the catalogue's index and receipts
    OldNumbers,     \* numbers a schema 1 state file may hold, without a digest
    MaxTime         \* bound on the clock

(* Of what the root signs nothing is assumed: two feeds may share a number, *)
(* and a later feed need not uphold an earlier one.  paid_lifecycle takes   *)
(* no invalidation back, but finalize_catalog_lifecycle lists every receipt *)
(* current and its issuer active, whatever the feed before it said.         *)
ASSUME VerifierAssumption ==
    /\ None \notin Verifiers \cup Feeds \cup [sequence: Nat \ {0}, digest: Feeds \cup {None}]
    /\ Feeds \subseteq Feed /\ OldNumbers \subseteq Nat \ {0} /\ MaxTime \in Nat

VARIABLES
    stored,         \* the record of the root in the state file
    lock,           \* who holds the thread and the file lock
    calls,          \* per process, the call it is in
    reply,          \* the last answer given                          (history)
    accepted,       \* feeds recorded on behalf of an answer or start  (history)
    condemned,      \* receipts answered invalid, each with the feed   (history)
    now

history      == <<reply, accepted, condemned>>
verifierVars == <<stored, lock, calls, history, now>>

Record == [sequence: Nat \ {0}, digest: Feeds \cup {None}]
Blank  == [pc |-> "idle", catalog |-> FALSE, feed |-> None, receipt |-> None,
           minimum |-> 0, verdict |-> None, loaded |-> None]
NoReply == [feed |-> None, receipt |-> None, verdict |-> None]

Call == [pc: {"idle", "serving", "minimum", "evaluate", "record", "locked"}, catalog: BOOLEAN,
         feed: Feeds \cup {None}, receipt: Receipts \cup {None}, minimum: Nat,
         verdict: Verdicts \cup {None}, loaded: Record \cup {None}]

VerifierTypeOK ==
    /\ stored \in Record \cup {None}
    /\ lock \in Verifiers \cup {None}
    /\ calls \in [Verifiers -> Call]
    /\ reply \in [feed: Feeds \cup {None}, receipt: Receipts \cup {None},
                  verdict: Verdicts \cup {None}]
    /\ accepted \subseteq Feeds /\ condemned \subseteq Receipts \X Feeds
    /\ now \in 0 .. MaxTime

VerifierInit ==
    /\ stored \in {None} \cup [sequence: OldNumbers, digest: {None}]
    /\ lock = None
    /\ calls = [v \in Verifiers |-> Blank]
    /\ reply = NoReply /\ accepted = {} /\ condemned = {}
    /\ now = 0

In(v, pc) == calls[v].pc = pc
Becomes(v, call) == calls' = [calls EXCEPT ![v] = call]

(* A catalogue goes on serving the feed it started with. *)
Done(call) == IF call.catalog THEN [Blank EXCEPT !.pc = "serving", !.catalog = TRUE, !.feed = call.feed]
              ELSE Blank

\* mutant: critical sections of different processes overlap
Unlocked_Always == TRUE

Unlocked == lock = None

-------------------------------------------------------------------------------
(* vouchspec verify with any feed, and a request to a catalogue *)
StartVerify(v) ==
    /\ In(v, "idle")
    /\ \E f \in Feeds, r \in Receipts :
         /\ Authorizes(f, r)
         /\ Becomes(v, [Blank EXCEPT !.pc = "minimum", !.feed = f, !.receipt = r])
    /\ UNCHANGED <<stored, lock, history, now>>

StartStatus(v) ==
    /\ In(v, "serving")
    /\ \E r \in Receipts :
         /\ SignerOf[r] = CatalogIssuer
         /\ Becomes(v, [calls[v] EXCEPT !.pc = "minimum", !.receipt = r])
    /\ UNCHANGED <<stored, lock, history, now>>

(* VerifiedCatalog.__init__ records its feed before the first request. *)
StartCatalog(v) ==
    /\ In(v, "idle")
    /\ \E f \in Feeds :
         /\ CatalogIssuer \in DOMAIN f.issuer_keys
         /\ f.issuer_keys[CatalogIssuer] # "compromised"
         /\ Becomes(v, [Blank EXCEPT !.pc = "record", !.catalog = TRUE, !.feed = f])
    /\ UNCHANGED <<stored, lock, history, now>>

(* LifecycleSequenceStore.minimum, one critical section *)
ReadMinimum(v) ==
    /\ In(v, "minimum") /\ Unlocked
    /\ Becomes(v, [calls[v] EXCEPT !.pc = "evaluate",
                                   !.minimum = IF stored = None THEN 0 ELSE stored.sequence])
    /\ UNCHANGED <<stored, lock, history, now>>

Answer(call) ==
    /\ reply' = [feed |-> call.feed, receipt |-> call.receipt, verdict |-> call.verdict]
    /\ condemned' = IF call.verdict \in Invalid
                    THEN condemned \cup {<<call.receipt, call.feed>>} ELSE condemned

(* A feed below the minimum is answered unknown and not recorded. *)
Evaluate(v) ==
    LET call == [calls[v] EXCEPT
                   !.verdict = Verdict(calls[v].feed, calls[v].receipt, now, calls[v].minimum)]
    IN
    /\ In(v, "evaluate")
    /\ IF call.feed.sequence < call.minimum
       THEN Answer(call) /\ Becomes(v, Done(call))
       ELSE Becomes(v, [call EXCEPT !.pc = "record"]) /\ UNCHANGED <<reply, condemned>>
    /\ UNCHANGED <<stored, lock, accepted, now>>

-------------------------------------------------------------------------------
(* LifecycleSequenceStore.record: take the lock and load, then compare and replace *)

Acquire(v) ==
    /\ In(v, "record") /\ Unlocked
    /\ lock' = v
    /\ Becomes(v, [calls[v] EXCEPT !.pc = "locked", !.loaded = stored])
    /\ UNCHANGED <<stored, history, now>>

\* mutant: the number was compared when the minimum was read
RollsBack_Never(record, feed) == FALSE

RollsBack(record, feed) == record # None /\ feed.sequence < record.sequence

\* mutant: only the number is compared
Equivocates_Never(record, feed) == FALSE

Equivocates(record, feed) ==
    record # None /\ feed.sequence = record.sequence /\ record.digest \notin {None, feed}

(* The file is replaced in one step, or left alone by whoever dies before. *)
Compare(v) ==
    LET call == calls[v] IN
    /\ In(v, "locked")
    /\ lock' = None
    /\ IF RollsBack(call.loaded, call.feed) \/ Equivocates(call.loaded, call.feed)
       THEN /\ Becomes(v, IF call.receipt = None THEN Blank ELSE Done(call))
            /\ UNCHANGED <<stored, history>>
       ELSE /\ stored' = [sequence |-> call.feed.sequence, digest |-> call.feed]
            /\ accepted' = accepted \cup {call.feed}
            /\ IF call.receipt = None THEN UNCHANGED <<reply, condemned>> ELSE Answer(call)
            /\ Becomes(v, Done(call))
    /\ UNCHANGED now

(* The operating system releases the lock of a process that dies. *)
Die(v) ==
    /\ ~In(v, "idle")
    /\ Becomes(v, Blank)
    /\ lock' = IF lock = v THEN None ELSE lock
    /\ UNCHANGED <<stored, history, now>>

Tick == now < MaxTime /\ now' = now + 1 /\ UNCHANGED <<stored, lock, calls, history>>

Verify(v) ==
    \/ StartVerify(v) \/ StartStatus(v) \/ StartCatalog(v) \/ ReadMinimum(v) \/ Evaluate(v)
    \/ Acquire(v) \/ Compare(v) \/ Die(v)

VerifierNext == Tick \/ \E v \in Verifiers : Verify(v)

VerifierSpec == VerifierInit /\ [][VerifierNext]_verifierVars

-------------------------------------------------------------------------------
(* Of two feeds under one number at most one is ever relied on, whoever     *)
(* read the file before whom (lifecycle.py:166-171, and a schema 1 record   *)
(* without a digest).                                                       *)
OneFeedPerNumber ==
    \A f, g \in accepted : f.sequence = g.sequence => f = g

(* The file is never behind what was answered: a process that starts now,   *)
(* after any crash, is held to the newest feed relied on so far             *)
(* (lifecycle.py:160-183, catalog_runtime.py:81).                           *)
StoredCoversAccepted ==
    \A f \in accepted : stored # None /\ f.sequence <= stored.sequence

(* A conclusive answer never comes from a feed older than one that was      *)
(* relied on before, although the minimum is read in an earlier critical    *)
(* section than the one that records (lifecycle.py:375-384).                *)
NoOlderAnswer ==
    [][ reply' # reply /\ reply'.verdict # Unknown =>
            \A f \in accepted : f.sequence <= reply'.feed.sequence ]_verifierVars

(* The verifiers never take an invalidation back of their own accord.  A    *)
(* receipt that one of them answered to be revoked or superseded is         *)
(* answered current, by any process sharing the file, only from a feed with *)
(* a higher number that itself does not uphold the feed of the invalid      *)
(* answer: the root alone can revive a receipt, and where it publishes      *)
(* nothing but upholding feeds, invalid is final (lifecycle.py:351-384).    *)
OnlyNewFeedsRevive ==
    [][ reply' # reply /\ reply'.verdict = "CURRENT" =>
            \A answer \in condemned :
                answer[1] = reply'.receipt =>
                    answer[2].sequence < reply'.feed.sequence /\ ~Upholds(answer[2], reply'.feed)
      ]_verifierVars
===============================================================================
