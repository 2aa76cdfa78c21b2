---------------------------- MODULE PaidLifecycle ----------------------------
(***************************************************************************)
(* paid_lifecycle.py: the feed about delivered paid receipts.  Operators   *)
(* build a draft online, have the offline root sign it, and import the     *)
(* envelope.  The draft is read with four separate statements and the      *)
(* import reads the delivered orders before its transaction, so deliveries *)
(* and other operators' publications fall in between.                      *)
(***************************************************************************)
EXTENDS ReceiptLifecycle

CONSTANTS
    Operators,      \* people or processes that draft and publish
    Roots,          \* keys that may sign an envelope offered for import
    IssuerLists,    \* issuer_keys an operator hands to build_draft
    Changes,        \* changes an operator hands to build_draft
    Windows,        \* generated_at and expires_at of a draft
    MaxLifetime,    \* MAX_FEED_LIFETIME
    ClockSkew,      \* the five minutes publish tolerates
    MaxSequence,    \* bound on the numbers of drafts
    MaxTime         \* bound on the clock

ASSUME PaidAssumption ==
    /\ None \notin Roots \cup Verdicts
    /\ IssuerLists \subseteq Table(Issuers, IssuerStatuses)
    /\ Changes \subseteq Table(Receipts, Entry)
    /\ Windows \subseteq Nat \X Nat
    /\ MaxLifetime \in Nat /\ ClockSkew \in Nat /\ MaxSequence \in Nat /\ MaxTime \in Nat

VARIABLES
    delivered,      \* receipts of orders in the state delivered, which is final
    publications,   \* paid_lifecycle_publications
    root,           \* root_keyid in paid_lifecycle_metadata
    status,         \* paid_lifecycle_status
    tasks,          \* per operator, the draft or import it is at
    now

storeVars == <<publications, root, status>>
paidVars  == <<delivered, storeVars, tasks, now>>

Publication == [root: Roots, feed: Feed]

IdleTask == [pc |-> "idle", orders |-> {}, rows |-> [r \in {} |-> CurrentEntry],
             sequence |-> 0, root |-> None, feed |-> None]

Steps == {"idle", "rows", "sequence", "latest", "drafted", "signed", "importing"}

Task == [pc: Steps, orders: SUBSET Receipts, rows: Table(Receipts, Entry),
         sequence: Nat, root: Roots \cup {None}, feed: Feed \cup {None}]

PaidTypeOK ==
    /\ delivered \subseteq Receipts
    /\ publications \subseteq Publication
    /\ root \in Roots \cup {None}
    /\ status \in Table(Receipts, Entry)
    /\ tasks \in [Operators -> Task]
    /\ now \in 0 .. MaxTime

PaidInit ==
    /\ delivered = {} /\ publications = {} /\ root = None
    /\ status = [r \in {} |-> CurrentEntry]
    /\ tasks = [p \in Operators |-> IdleTask]
    /\ now = 0

Step(p, pc) == tasks[p].pc = pc

(* ORDER BY sequence DESC LIMIT 1 *)
Latest ==
    CHOOSE last \in publications :
        \A other \in publications : other.feed.sequence <= last.feed.sequence

MaxPublished == IF publications = {} THEN 0 ELSE Latest.feed.sequence

-------------------------------------------------------------------------------
(* Checks shared by drafting and importing *)

SignersOf(orders) == { SignerOf[r] : r \in orders }

IssuersCovered(keys, orders) == DOMAIN keys = SignersOf(orders)

(* _validate_issuer_transitions, against the latest publication *)
IssuersContinue(keys) ==
    publications # {} =>
        LET prior == Latest.feed.issuer_keys IN
        /\ DOMAIN prior \subseteq DOMAIN keys
        /\ \A k \in DOMAIN prior :
             /\ prior[k] = "compromised" => keys[k] = "compromised"
             /\ prior[k] = "retired" => keys[k] # "active"

(* _validate_transition of one entry *)
EntryAllowed(r, entry, orders) ==
    /\ entry.status = "current" => entry = CurrentEntry
    /\ entry.status = "superseded" => entry.superseded_by \in orders \ {r}
    /\ entry.status \in {"revoked_evaluator_defect", "revoked_key_compromise"} => entry.reason

EntriesContinue(rows, entries, orders) ==
    \A r \in DOMAIN entries :
        /\ EntryAllowed(r, entries[r], orders)
        /\ IF r \in DOMAIN rows
           THEN rows[r].status = "current" \/ entries[r] = rows[r]
           ELSE entries[r].status = "current"

-------------------------------------------------------------------------------
(* build_draft *)

Become(p, task) == tasks' = [tasks EXCEPT ![p] = task]

ReadOrders(p) ==
    /\ Step(p, "idle") /\ delivered # {}
    /\ Become(p, [IdleTask EXCEPT !.pc = "rows", !.orders = delivered])
    /\ UNCHANGED <<delivered, storeVars, now>>

ReadRows(p) ==
    /\ Step(p, "rows")
    /\ Become(p, [tasks[p] EXCEPT !.pc = "sequence", !.rows = status])
    /\ UNCHANGED <<delivered, storeVars, now>>

ReadSequence(p) ==
    /\ Step(p, "sequence") /\ MaxPublished < MaxSequence
    /\ Become(p, [tasks[p] EXCEPT !.pc = "latest", !.sequence = MaxPublished + 1])
    /\ UNCHANGED <<delivered, storeVars, now>>

(* _derive_records *)
Derived(task, requested) ==
    [r \in task.orders |-> IF r \in DOMAIN requested THEN requested[r]
                           ELSE IF r \in DOMAIN task.rows THEN task.rows[r] ELSE CurrentEntry]

\* mutant: the draft carries the number of the latest publication
Draft_SameNumber(task, requested, keys, window) ==
    [sequence |-> task.sequence - 1, generated_at |-> window[1], expires_at |-> window[2],
     issuer_keys |-> keys, receipts |-> Derived(task, requested)]

Draft(task, requested, keys, window) ==
    [sequence |-> task.sequence, generated_at |-> window[1], expires_at |-> window[2],
     issuer_keys |-> keys, receipts |-> Derived(task, requested)]

BuildDraft(p) ==
    LET task == tasks[p] IN
    /\ Step(p, "latest")
    /\ \E requested \in Changes, keys \in IssuerLists, window \in Windows :
         LET feed == Draft(task, requested, keys, window) IN
         /\ window[1] < window[2] /\ window[2] <= window[1] + MaxLifetime
         /\ DOMAIN requested \subseteq task.orders
         /\ EntriesContinue(task.rows, feed.receipts, task.orders)
         /\ WellFormed(feed) /\ IssuersCovered(keys, task.orders) /\ IssuersContinue(keys)
         /\ Become(p, [IdleTask EXCEPT !.pc = "drafted", !.feed = feed])
    /\ UNCHANGED <<delivered, storeVars, now>>

(* The offline root signs the bytes it is handed. *)
Sign(p) ==
    /\ Step(p, "drafted")
    /\ \E k \in Roots : Become(p, [tasks[p] EXCEPT !.pc = "signed", !.root = k])
    /\ UNCHANGED <<delivered, storeVars, now>>

-------------------------------------------------------------------------------
(* publish *)

\* mutant: a feed may leave delivered receipts out
Covers_Known(feed, orders) ==
    orders # {} /\ IssuersCovered(feed.issuer_keys, orders) /\ DOMAIN feed.receipts \subseteq orders

(* The feed is exactly about the orders, and so are its issuer keys. *)
Covers(feed, orders) ==
    orders # {} /\ IssuersCovered(feed.issuer_keys, orders) /\ DOMAIN feed.receipts = orders

ReadDelivered(p) ==
    LET task == tasks[p] IN
    /\ Step(p, "signed")
    /\ task.feed.generated_at <= now + ClockSkew /\ now < task.feed.expires_at
    /\ task.feed.expires_at <= task.feed.generated_at + MaxLifetime
    /\ Covers(task.feed, delivered)
    /\ Become(p, [task EXCEPT !.pc = "importing", !.orders = delivered])
    /\ UNCHANGED <<delivered, storeVars, now>>

\* mutant: the number in the draft is taken as it is
Contiguous_AsDrafted(sequence) == sequence >= MaxPublished

Contiguous(sequence) == sequence = MaxPublished + 1

\* mutant: an import relies on the transitions checked when the draft was built
Importable_AsDrafted(task) ==
    /\ root \in {None, task.root} /\ Contiguous(task.feed.sequence)
    /\ IssuersContinue(task.feed.issuer_keys)

Importable(task) ==
    /\ root \in {None, task.root} /\ Contiguous(task.feed.sequence)
    /\ IssuersContinue(task.feed.issuer_keys)
    /\ EntriesContinue(status, task.feed.receipts, task.orders)

(* INSERT ... ON CONFLICT(receipt_id) DO UPDATE *)
Upsert(entries) ==
    [r \in DOMAIN status \cup DOMAIN entries |->
        IF r \in DOMAIN entries THEN entries[r] ELSE status[r]]

(* A number that is taken is answered with the publication or refused, and  *)
(* either way nothing is written.                                           *)
Import(p) ==
    LET task == tasks[p] IN
    /\ Step(p, "importing")
    /\ IF Importable(task)
       THEN /\ publications' = publications \cup {[root |-> task.root, feed |-> task.feed]}
            /\ root' = task.root
            /\ status' = Upsert(task.feed.receipts)
       ELSE UNCHANGED storeVars
    /\ Become(p, [task EXCEPT !.pc = "signed", !.orders = {}])
    /\ UNCHANGED <<delivered, now>>

(* A call that raises, a process that dies, a draft or envelope thrown away. *)
Abandon(p) ==
    /\ ~Step(p, "idle")
    /\ Become(p, IdleTask)
    /\ UNCHANGED <<delivered, storeVars, now>>

-------------------------------------------------------------------------------
(* commerce_store.deliver; list_delivered_orders never loses an order *)
Deliver ==
    /\ \E r \in Receipts \ delivered : delivered' = delivered \cup {r}
    /\ UNCHANGED <<storeVars, tasks, now>>

Tick == now < MaxTime /\ now' = now + 1 /\ UNCHANGED <<delivered, storeVars, tasks>>

Operate(p) ==
    \/ ReadOrders(p) \/ ReadRows(p) \/ ReadSequence(p) \/ BuildDraft(p) \/ Sign(p)
    \/ ReadDelivered(p) \/ Import(p) \/ Abandon(p)

PaidNext == Deliver \/ Tick \/ \E p \in Operators : Operate(p)

PaidSpec == PaidInit /\ [][PaidNext]_paidVars

-------------------------------------------------------------------------------
(* evaluate_order_receipt: the order is looked up, then the latest envelope *)
OrderVerdict(r) ==
    IF publications = {} \/ ~Authorizes(Latest.feed, r) THEN None
    ELSE Verdict(Latest.feed, r, now, 0)

(* The status table says of every receipt what the latest feed says, no     *)
(* matter which orders were delivered while a feed was on its way           *)
(* (paid_lifecycle.py:214-224 reads them before the transaction of 225).    *)
StatusAgrees ==
    publications # {} => status = Latest.feed.receipts

(* A receipt that any publication took out of use is never again reported   *)
(* current to its buyer, not even from a draft that was built on rows read  *)
(* before the invalidation (paid_lifecycle.py:162-175 and 446).             *)
CondemnedNeverCurrent ==
    \A r \in Receipts :
        (\E old \in publications : Condemns(old.feed, r)) => OrderVerdict(r) # "CURRENT"

(* All that is ever published, by any number of operators, is one history   *)
(* of feeds without gaps, forks, lost receipts or restored ones             *)
(* (paid_lifecycle.py:232-252).                                             *)
History == INSTANCE FeedHistory WITH feeds <- { entry.feed : entry \in publications }

ImplementsHistory == History!HistorySpec
===============================================================================
