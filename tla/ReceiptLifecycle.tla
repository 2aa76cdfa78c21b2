-------------------------- MODULE ReceiptLifecycle --------------------------
(***************************************************************************)
(* lifecycle.py: root-signed feeds about receipts and the verdict a feed   *)
(* gives on one of them.  A signed feed is its content: envelopes that do  *)
(* not verify under the pinned root never get this far.                    *)
(***************************************************************************)
EXTENDS Naturals

CONSTANTS
    Receipts,       \* receipt ids
    Issuers,        \* ids of the keys that sign receipts
    SignerOf,       \* the key that signed a receipt
    ReceiptExpiry,  \* validity.expires_at of a receipt
    None

ASSUME LifecycleAssumption ==
    /\ SignerOf \in [Receipts -> Issuers]
    /\ ReceiptExpiry \in [Receipts -> Nat]
    /\ None \notin Receipts

IssuerStatuses  == {"active", "retired", "compromised"}
ReceiptStatuses ==
    {"current", "superseded", "revoked_evaluator_defect", "revoked_key_compromise"}

(* Some of S, each with a value of T: the rows of a table, the entries of a feed. *)
Table(S, T) == UNION { [D -> T] : D \in SUBSET S }

(* Of a reason only its presence counts. *)
Entry == [status: ReceiptStatuses, superseded_by: Receipts \cup {None}, reason: BOOLEAN]

CurrentEntry == [status |-> "current", superseded_by |-> None, reason |-> FALSE]

Feed == [sequence: Nat \ {0}, generated_at: Nat, expires_at: Nat,
         issuer_keys: Table(Issuers, IssuerStatuses), receipts: Table(Receipts, Entry)]

(* validate_lifecycle_feed *)
WellFormed(feed) ==
    /\ feed.generated_at < feed.expires_at
    /\ DOMAIN feed.issuer_keys # {}
    /\ \A r \in DOMAIN feed.receipts :
         feed.receipts[r].status = "superseded" <=> feed.receipts[r].superseded_by # None

-------------------------------------------------------------------------------
(* evaluate_receipt_lifecycle *)

Unknown == "SIGNATURE_VALID_LIFECYCLE_UNKNOWN"
Invalid == {"REVOKED_KEY_COMPROMISE", "REVOKED_EVALUATOR_DEFECT", "SUPERSEDED"}
Verdicts == Invalid \cup {"CURRENT", "EXPIRED", Unknown}

(* Otherwise the call raises untrusted_key. *)
Authorizes(feed, r) == SignerOf[r] \in DOMAIN feed.issuer_keys

\* mutant: the number is not compared
Fresh_AnyNumber(feed, now, minimum) == feed.generated_at <= now /\ now < feed.expires_at

Fresh(feed, now, minimum) ==
    /\ minimum <= feed.sequence
    /\ feed.generated_at <= now /\ now < feed.expires_at

Compromised(feed, r) == Authorizes(feed, r) /\ feed.issuer_keys[SignerOf[r]] = "compromised"

\* mutant: the status of the entry is the answer
Standing_Verbatim(feed, r, now) == feed.receipts[r].status

(* What the entry of a receipt says, the validity of the receipt included. *)
Standing(feed, r, now) ==
    LET status == feed.receipts[r].status IN
    IF status = "revoked_key_compromise" THEN "REVOKED_KEY_COMPROMISE"
    ELSE IF status = "revoked_evaluator_defect" THEN "REVOKED_EVALUATOR_DEFECT"
    ELSE IF ReceiptExpiry[r] <= now THEN "EXPIRED"
    ELSE IF status = "superseded" THEN "SUPERSEDED" ELSE "CURRENT"

Verdict(feed, r, now, minimum) ==
    IF ~Fresh(feed, now, minimum) THEN Unknown
    ELSE IF Compromised(feed, r) THEN "REVOKED_KEY_COMPROMISE"
    ELSE IF r \notin DOMAIN feed.receipts THEN Unknown
    ELSE Standing(feed, r, now)

-------------------------------------------------------------------------------
(* What one feed owes to an earlier one. *)

(* The feed takes a receipt out of use, whatever the time. *)
Condemns(feed, r) ==
    \/ Compromised(feed, r)
    \/ r \in DOMAIN feed.receipts /\ feed.receipts[r].status # "current"

(* The later feed still covers what the earlier one covered and takes back  *)
(* no invalidation, of a receipt or of a key.                                *)
Upholds(earlier, later) ==
    /\ DOMAIN earlier.receipts \subseteq DOMAIN later.receipts
    /\ DOMAIN earlier.issuer_keys \subseteq DOMAIN later.issuer_keys
    /\ \A r \in DOMAIN earlier.receipts :
         earlier.receipts[r].status # "current" => later.receipts[r] = earlier.receipts[r]
    /\ \A k \in DOMAIN earlier.issuer_keys :
         /\ earlier.issuer_keys[k] = "compromised" => later.issuer_keys[k] = "compromised"
         /\ earlier.issuer_keys[k] = "retired" => later.issuer_keys[k] # "active"
===============================================================================
