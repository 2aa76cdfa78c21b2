------------------------ MODULE PaidLifecycleProofs ------------------------
(***************************************************************************)
(* The publisher for every number of operators, receipts, keys and drafts: *)
(* what is published is one history of feeds, each upholding all before    *)
(* it, however drafts, signatures, deliveries and imports overlap.         *)
(***************************************************************************)
EXTENDS PaidLifecycle, ReceiptLifecycleProofs

-------------------------------------------------------------------------------
(* Publications *)

(* Numbers are not used twice, some publication has the greatest, and every *)
(* one upholds those with a smaller number.                                 *)
Numbered ==
    /\ \A a, b \in publications : a.feed.sequence = b.feed.sequence => a = b
    /\ publications # {} =>
         \E last \in publications :
             \A other \in publications : other.feed.sequence <= last.feed.sequence

AllUpheld ==
    \A a, b \in publications : a.feed.sequence < b.feed.sequence => Upholds(a.feed, b.feed)

(* The table is about delivered orders, and it is the latest feed's. *)
TableInv ==
    /\ StatusAgrees
    /\ publications = {} => DOMAIN status = {}
    /\ DOMAIN status \subseteq delivered

(* A draft's number was the next one when it was read.  If it still is, then *)
(* nothing was published since, and the orders an import has read include    *)
(* every order in the table.                                                 *)
TaskOK(task) ==
    /\ task.pc = "latest" => task.sequence \in 1 .. (MaxPublished + 1)
    /\ task.pc \in {"drafted", "signed", "importing"} =>
         task.feed \in Feed /\ WellFormed(task.feed) /\ task.feed.sequence <= MaxPublished + 1
    /\ task.pc \in {"signed", "importing"} => task.root \in Roots
    /\ task.pc = "importing" =>
         /\ DOMAIN task.feed.receipts = task.orders /\ task.orders \subseteq delivered
         /\ Contiguous(task.feed.sequence) => DOMAIN status \subseteq task.orders

TasksOK == \A p \in Operators : TaskOK(tasks[p])

PaidInv == PaidTypeOK /\ Numbered /\ AllUpheld /\ TableInv /\ TasksOK

LEMMA LatestIsLast ==
    ASSUME PaidTypeOK, Numbered, publications # {}
    PROVE  /\ Latest \in publications /\ Latest.feed \in Feed /\ Latest.feed.sequence \in Nat
           /\ \A other \in publications : other.feed.sequence <= Latest.feed.sequence
<1> DEFINE Last(x) == \A other \in publications : other.feed.sequence <= x.feed.sequence
<1>1. \E x \in publications : Last(x)
  BY DEF Numbered
<1>2. Latest = CHOOSE x \in publications : Last(x)
  BY DEF Latest
<1> HIDE DEF Last
<1>3. Latest \in publications /\ Last(Latest)
  BY <1>1, <1>2, Zenon
<1>4. Latest.feed \in Feed
  BY <1>3 DEF PaidTypeOK, Publication
<1>5. QED
  BY <1>3, <1>4 DEF Last, Feed

LEMMA PublishedIsNat == PaidTypeOK /\ Numbered => MaxPublished \in Nat
  BY LatestIsLast DEF MaxPublished

(* A publication that is not the latest is upheld by it. *)
LEMMA LatestUpholds ==
    ASSUME PaidInv, NEW a \in publications
    PROVE  a = Latest \/ (a.feed.sequence < Latest.feed.sequence /\ Upholds(a.feed, Latest.feed))
<1>1. /\ Latest \in publications /\ Latest.feed.sequence \in Nat
      /\ a.feed.sequence <= Latest.feed.sequence
  BY LatestIsLast DEF PaidInv
<1>2. a.feed.sequence \in Nat
  BY DEF PaidInv, PaidTypeOK, Publication, Feed
<1>3. QED
  BY <1>1, <1>2 DEF PaidInv, Numbered, AllUpheld

(* Steps that publish nothing leave all of this alone. *)
LEMMA TaskBecomes ==
    ASSUME PaidInv, NEW p \in Operators, NEW task \in Task, Become(p, task), TaskOK(task),
           UNCHANGED storeVars, delivered' = delivered, now' = now
    PROVE  PaidInv'
<1>1. /\ tasks' \in [Operators -> Task] /\ tasks'[p] = task
      /\ \A q \in Operators \ {p} : tasks'[q] = tasks[q]
  BY DEF PaidInv, PaidTypeOK, Become
<1>2. PaidTypeOK'
  BY <1>1 DEF PaidInv, PaidTypeOK, storeVars
<1>3. Latest' = Latest /\ MaxPublished' = MaxPublished
  BY DEF storeVars, Latest, MaxPublished
<1>4. Numbered' /\ AllUpheld'
  BY DEF PaidInv, Numbered, AllUpheld, storeVars
<1>5. TableInv'
  BY <1>3 DEF PaidInv, TableInv, StatusAgrees, storeVars
<1>6. TasksOK'
  <2>1. ASSUME NEW q \in Operators PROVE TaskOK(tasks'[q])
    BY <1>1 DEF PaidInv, TasksOK
  <2>2. QED
    BY <1>3, <2>1 DEF TasksOK, TaskOK, Contiguous, storeVars
<1>7. QED
  BY <1>2, <1>4, <1>5, <1>6 DEF PaidInv

LEMMA WorldPreserves ==
    ASSUME PaidInv, UNCHANGED <<storeVars, tasks>>, delivered \subseteq delivered',
           delivered' \subseteq Receipts, now' \in 0 .. MaxTime
    PROVE  PaidInv'
<1>1. Latest' = Latest /\ MaxPublished' = MaxPublished
  BY DEF storeVars, Latest, MaxPublished
<1>2. PaidTypeOK' /\ Numbered' /\ AllUpheld'
  BY DEF PaidInv, PaidTypeOK, Numbered, AllUpheld, storeVars
<1>3. TableInv'
  BY <1>1 DEF PaidInv, TableInv, StatusAgrees, storeVars
<1>4. TasksOK'
  BY <1>1 DEF PaidInv, TasksOK, TaskOK, Contiguous, storeVars
<1>5. QED
  BY <1>2, <1>3, <1>4 DEF PaidInv

-------------------------------------------------------------------------------
(* Drafting *)

LEMMA IdleIsTask ==
    /\ IdleTask \in Task /\ TaskOK(IdleTask)
    /\ IdleTask.rows \in Table(Receipts, Entry)
<1>1. IdleTask.rows \in [{} -> Entry] /\ {} \in SUBSET Receipts
  BY DEF IdleTask
<1>2. IdleTask.rows \in Table(Receipts, Entry)
  BY <1>1 DEF Table
<1>3. IdleTask = [pc |-> "idle", orders |-> {}, rows |-> IdleTask.rows, sequence |-> 0,
                  root |-> None, feed |-> None]
  BY DEF IdleTask
<1>4. IdleTask \in Task
  BY <1>2, <1>3 DEF Task, Steps
<1>5. TaskOK(IdleTask)
  BY <1>3 DEF TaskOK
<1>6. QED
  BY <1>2, <1>4, <1>5

LEMMA ReadsPreserve ==
    ASSUME PaidInv, NEW p \in Operators, ReadOrders(p) \/ ReadRows(p) \/ ReadSequence(p)
    PROVE  PaidInv' /\ UNCHANGED publications
<1>0. tasks[p] \in Task /\ MaxPublished \in Nat /\ IdleTask \in Task
  BY PublishedIsNat, IdleIsTask DEF PaidInv, PaidTypeOK
<1>1. CASE ReadOrders(p)
  <2> DEFINE task == [IdleTask EXCEPT !.pc = "rows", !.orders = delivered]
  <2>1. task \in Task /\ task.pc = "rows"
    BY <1>0 DEF PaidInv, PaidTypeOK, Task, Steps
  <2>2. TaskOK(task)
    BY <2>1 DEF TaskOK
  <2> HIDE DEF task
  <2>3. Become(p, task)
    BY <1>1 DEF ReadOrders, task
  <2>4. QED
    BY <1>1, <2>1, <2>2, <2>3, TaskBecomes DEF ReadOrders, storeVars
<1>2. CASE ReadRows(p)
  <2> DEFINE task == [tasks[p] EXCEPT !.pc = "sequence", !.rows = status]
  <2>1. task \in Task /\ task.pc = "sequence"
    BY <1>0 DEF PaidInv, PaidTypeOK, Task, Steps
  <2>2. TaskOK(task)
    BY <2>1 DEF TaskOK
  <2> HIDE DEF task
  <2>3. Become(p, task)
    BY <1>2 DEF ReadRows, task
  <2>4. QED
    BY <1>2, <2>1, <2>2, <2>3, TaskBecomes DEF ReadRows, storeVars
<1>3. CASE ReadSequence(p)
  <2> DEFINE task == [tasks[p] EXCEPT !.pc = "latest", !.sequence = MaxPublished + 1]
  <2>0. MaxPublished + 1 \in Nat /\ MaxPublished + 1 \in 1 .. (MaxPublished + 1)
    BY <1>0
  <2>1. task \in Task /\ task.pc = "latest" /\ task.sequence = MaxPublished + 1
    BY <1>0, <2>0 DEF Task, Steps
  <2>2. TaskOK(task)
    BY <2>0, <2>1 DEF TaskOK
  <2> HIDE DEF task
  <2>3. Become(p, task)
    BY <1>3 DEF ReadSequence, task
  <2>4. QED
    BY <1>3, <2>1, <2>2, <2>3, TaskBecomes DEF ReadSequence, storeVars
<1>4. QED
  BY <1>1, <1>2, <1>3

(* A table with an entry of two others, or the default, for every order. *)
LEMMA DerivedIsTable ==
    ASSUME NEW task \in Task, NEW requested \in Changes
    PROVE  Derived(task, requested) \in Table(Receipts, Entry)
<1>1. requested \in Table(Receipts, Entry) /\ task.rows \in Table(Receipts, Entry)
      /\ task.orders \in SUBSET Receipts
  BY PaidAssumption DEF Task
<1>2. PICK D \in SUBSET Receipts : requested \in [D -> Entry]
  BY <1>1 DEF Table
<1>3. PICK E \in SUBSET Receipts : task.rows \in [E -> Entry]
  BY <1>1 DEF Table
<1>4. CurrentEntry \in Entry
  BY DEF CurrentEntry, Entry, ReceiptStatuses
<1>5. Derived(task, requested) \in [task.orders -> Entry]
  BY <1>2, <1>3, <1>4 DEF Derived
<1>6. QED
  BY <1>1, <1>5 DEF Table

LEMMA BuildDraftPreserves ==
    ASSUME PaidInv, NEW p \in Operators, BuildDraft(p)
    PROVE  PaidInv' /\ UNCHANGED publications
<1>1. PICK requested \in Changes, keys \in IssuerLists, window \in Windows :
        LET feed == Draft(tasks[p], requested, keys, window) IN
        WellFormed(feed) /\ Become(p, [IdleTask EXCEPT !.pc = "drafted", !.feed = feed])
  BY DEF BuildDraft
<1> DEFINE feed == Draft(tasks[p], requested, keys, window)
           task == [IdleTask EXCEPT !.pc = "drafted", !.feed = feed]
<1>2. /\ tasks[p] \in Task /\ tasks[p].sequence \in 1 .. (MaxPublished + 1)
      /\ MaxPublished \in Nat
  BY PublishedIsNat DEF PaidInv, PaidTypeOK, TasksOK, TaskOK, BuildDraft, Step
<1>3. /\ window[1] \in Nat /\ window[2] \in Nat
      /\ keys \in Table(Issuers, IssuerStatuses)
      /\ Derived(tasks[p], requested) \in Table(Receipts, Entry)
  BY <1>2, DerivedIsTable, PaidAssumption
<1>4. feed \in Feed /\ feed.sequence = tasks[p].sequence
  BY <1>2, <1>3 DEF Draft, Feed
<1> HIDE DEF feed
<1>5. task \in Task /\ task.pc = "drafted" /\ task.feed = feed
  BY <1>4, IdleIsTask DEF Task, Steps
<1>6. WellFormed(feed) /\ Become(p, task)
  BY <1>1 DEF feed
<1>7. TaskOK(task)
  BY <1>2, <1>4, <1>5, <1>6 DEF TaskOK
<1> HIDE DEF task
<1>8. QED
  BY <1>5, <1>6, <1>7, TaskBecomes DEF BuildDraft, storeVars

LEMMA SignPreserves ==
    ASSUME PaidInv, NEW p \in Operators, Sign(p)
    PROVE  PaidInv' /\ UNCHANGED publications
<1>1. PICK k \in Roots : Become(p, [tasks[p] EXCEPT !.pc = "signed", !.root = k])
  BY DEF Sign
<1> DEFINE task == [tasks[p] EXCEPT !.pc = "signed", !.root = k]
<1>2. tasks[p] \in Task /\ TaskOK(tasks[p]) /\ tasks[p].pc = "drafted"
  BY DEF PaidInv, PaidTypeOK, TasksOK, Sign, Step
<1>3. task \in Task /\ task.pc = "signed" /\ task.feed = tasks[p].feed /\ task.root = k
  BY <1>2 DEF Task, Steps
<1>4. TaskOK(task)
  BY <1>2, <1>3 DEF TaskOK
<1> HIDE DEF task
<1>5. Become(p, task)
  BY <1>1 DEF task
<1>6. QED
  BY <1>3, <1>4, <1>5, TaskBecomes DEF Sign, storeVars

(* The orders an import reads include every order in the table. *)
LEMMA ReadDeliveredPreserves ==
    ASSUME PaidInv, NEW p \in Operators, ReadDelivered(p)
    PROVE  PaidInv' /\ UNCHANGED publications
<1> DEFINE task == [tasks[p] EXCEPT !.pc = "importing", !.orders = delivered]
<1>1. tasks[p] \in Task /\ TaskOK(tasks[p]) /\ tasks[p].pc = "signed"
  BY DEF PaidInv, PaidTypeOK, TasksOK, ReadDelivered, Step
<1>2. /\ task \in Task /\ task.pc = "importing" /\ task.feed = tasks[p].feed
      /\ task.root = tasks[p].root /\ task.orders = delivered
  BY <1>1 DEF Task, Steps, PaidInv, PaidTypeOK
<1>3. DOMAIN tasks[p].feed.receipts = delivered /\ DOMAIN status \subseteq delivered
  BY DEF ReadDelivered, Covers, PaidInv, TableInv
<1>4. TaskOK(task)
  BY <1>1, <1>2, <1>3 DEF TaskOK
<1>5. Become(p, task)
  BY DEF ReadDelivered
<1> HIDE DEF task
<1>6. QED
  BY <1>2, <1>4, <1>5, TaskBecomes DEF ReadDelivered, storeVars

LEMMA AbandonPreserves ==
    ASSUME PaidInv, NEW p \in Operators, Abandon(p)
    PROVE  PaidInv' /\ UNCHANGED publications
  BY IdleIsTask, TaskBecomes DEF Abandon, storeVars

-------------------------------------------------------------------------------
(* Importing *)

(* A task that returns from an import holds what it held. *)
LEMMA ReturnIsTask ==
    ASSUME PaidInv, NEW p \in Operators, Step(p, "importing"),
           NEW task, task = [tasks[p] EXCEPT !.pc = "signed", !.orders = {}]
    PROVE  /\ task \in Task /\ task.pc = "signed" /\ TaskOK(task)
           /\ task.feed = tasks[p].feed /\ task.root = tasks[p].root
<1>1. tasks[p] \in Task /\ TaskOK(tasks[p]) /\ tasks[p].pc = "importing"
  BY DEF PaidInv, PaidTypeOK, TasksOK, Step
<1>2. /\ task \in Task /\ task.pc = "signed" /\ task.feed = tasks[p].feed
      /\ task.root = tasks[p].root
  BY <1>1 DEF Task, Steps
<1>3. TaskOK(task)
  BY <1>1, <1>2 DEF TaskOK
<1>4. QED
  BY <1>2, <1>3

(* What passes the checks of the transaction upholds the latest feed: the   *)
(* entries continue the status table, which is the latest feed's.           *)
LEMMA ImportableUpholds ==
    ASSUME PaidInv, NEW p \in Operators, Step(p, "importing"), Importable(tasks[p]),
           publications # {}
    PROVE  Upholds(Latest.feed, tasks[p].feed)
<1> DEFINE feed == tasks[p].feed
<1>1. status = Latest.feed.receipts /\ DOMAIN status \subseteq DOMAIN feed.receipts
  BY DEF PaidInv, TableInv, StatusAgrees, TasksOK, TaskOK, Step, Importable
<1>2. ASSUME NEW r \in DOMAIN status, status[r].status # "current"
      PROVE  feed.receipts[r] = status[r]
  BY <1>1, <1>2 DEF Importable, EntriesContinue
<1>3. /\ DOMAIN Latest.feed.issuer_keys \subseteq DOMAIN feed.issuer_keys
      /\ \A k \in DOMAIN Latest.feed.issuer_keys :
           /\ Latest.feed.issuer_keys[k] = "compromised" => feed.issuer_keys[k] = "compromised"
           /\ Latest.feed.issuer_keys[k] = "retired" => feed.issuer_keys[k] # "active"
  BY DEF Importable, IssuersContinue
<1>4. QED
  BY <1>1, <1>2, <1>3 DEF Upholds

(* The import that passes them publishes a feed with the next number, which *)
(* becomes the latest one and upholds all others.                           *)
LEMMA PublishedNext ==
    ASSUME PaidInv, NEW p \in Operators, Import(p), Importable(tasks[p]),
           NEW new, new = [root |-> tasks[p].root, feed |-> tasks[p].feed]
    PROVE  /\ new \in Publication /\ WellFormed(new.feed)
           /\ publications' = publications \cup {new}
           /\ new.feed.sequence = MaxPublished + 1 /\ MaxPublished \in Nat
           /\ \A old \in publications :
                /\ old.feed.sequence \in Nat /\ old.feed.sequence <= MaxPublished
                /\ Upholds(old.feed, new.feed)
           /\ Latest' = new /\ MaxPublished' = MaxPublished + 1
<1> DEFINE feed == tasks[p].feed
<1>1. /\ feed \in Feed /\ WellFormed(feed) /\ tasks[p].root \in Roots
      /\ feed.sequence = MaxPublished + 1 /\ Step(p, "importing")
  BY DEF PaidInv, TasksOK, TaskOK, Step, Import, Importable, Contiguous
<1>2. new \in Publication /\ new.feed = feed /\ MaxPublished \in Nat
  BY <1>1, PublishedIsNat DEF Publication, PaidInv
<1>3. publications' = publications \cup {new}
  BY DEF Import
<1>4. ASSUME NEW old \in publications
      PROVE  /\ old.feed.sequence \in Nat /\ old.feed.sequence <= MaxPublished
             /\ Upholds(old.feed, feed)
  <2>1. /\ Latest.feed \in Feed /\ MaxPublished = Latest.feed.sequence
        /\ old.feed.sequence <= Latest.feed.sequence
    BY LatestIsLast DEF PaidInv, MaxPublished
  <2>2. old.feed.sequence \in Nat
    BY DEF PaidInv, PaidTypeOK, Publication, Feed
  <2>3. Upholds(Latest.feed, feed)
    BY <1>1, ImportableUpholds
  <2>4. Upholds(old.feed, feed)
    BY <2>1, <2>3, LatestUpholds, UpholdsTransitive
  <2>5. QED
    BY <2>1, <2>2, <2>4
<1>5. Latest' = new
  <2> DEFINE Last(x) == \A other \in publications' : other.feed.sequence <= x.feed.sequence
  <2>1. new \in publications' /\ Last(new)
    BY <1>1, <1>2, <1>3, <1>4
  <2>2. Latest' = CHOOSE x \in publications' : Last(x)
    BY DEF Latest
  <2>3. ASSUME NEW x \in publications', Last(x) PROVE x = new
    <3>1. new.feed.sequence <= x.feed.sequence
      BY <2>1, <2>3
    <3>2. QED
      BY <1>1, <1>2, <1>3, <1>4, <3>1
  <2> HIDE DEF Last
  <2>4. Latest' \in publications' /\ Last(Latest')
    BY <2>1, <2>2, Zenon
  <2>5. QED
    BY <2>3, <2>4
<1>6. MaxPublished' = MaxPublished + 1
  BY <1>1, <1>2, <1>3, <1>5 DEF MaxPublished
<1>7. QED
  BY <1>1, <1>2, <1>3, <1>4, <1>5, <1>6

LEMMA ImportPreserves ==
    ASSUME PaidInv, NEW p \in Operators, Import(p)
    PROVE  /\ PaidInv'
           /\ \/ UNCHANGED publications
              \/ \E new \in Publication :
                   /\ publications' = publications \cup {new}
                   /\ WellFormed(new.feed)
                   /\ new.feed.sequence = MaxPublished + 1
                   /\ \A old \in publications :
                        old.feed.sequence < new.feed.sequence /\ Upholds(old.feed, new.feed)
<1> DEFINE task == [tasks[p] EXCEPT !.pc = "signed", !.orders = {}]
           new  == [root |-> tasks[p].root, feed |-> tasks[p].feed]
<1>1. /\ task \in Task /\ task.pc = "signed" /\ TaskOK(task) /\ Become(p, task)
      /\ task.feed = tasks[p].feed /\ task.root = tasks[p].root
  BY ReturnIsTask DEF Import
<1>2. CASE ~Importable(tasks[p])
  <2>1. UNCHANGED storeVars /\ delivered' = delivered /\ now' = now
    BY <1>2 DEF Import
  <2> HIDE DEF task
  <2>2. QED
    BY <1>1, <2>1, TaskBecomes DEF storeVars
<1>3. CASE Importable(tasks[p])
  <2> HIDE DEF task
  <2>1. /\ new \in Publication /\ WellFormed(new.feed)
        /\ publications' = publications \cup {new}
        /\ new.feed.sequence = MaxPublished + 1 /\ MaxPublished \in Nat
        /\ \A old \in publications :
             /\ old.feed.sequence \in Nat /\ old.feed.sequence <= MaxPublished
             /\ Upholds(old.feed, new.feed)
        /\ Latest' = new /\ MaxPublished' = MaxPublished + 1
    BY <1>3, PublishedNext
  <2>2. /\ new.root \in Roots /\ new.feed \in Feed
        /\ new.root = tasks[p].root /\ new.feed = tasks[p].feed
    BY <2>1 DEF Publication
  <2> HIDE DEF new
  <2>3. /\ tasks' \in [Operators -> Task] /\ tasks'[p] = task
        /\ \A q \in Operators \ {p} : tasks'[q] = tasks[q]
    BY <1>1 DEF PaidInv, PaidTypeOK, Become
  <2>4. /\ DOMAIN new.feed.receipts = tasks[p].orders
        /\ tasks[p].orders \subseteq delivered /\ DOMAIN status \subseteq tasks[p].orders
    BY <1>3, <2>2 DEF PaidInv, TasksOK, TaskOK, Import, Importable, Step
  <2>5. status' = new.feed.receipts
    <3>1. status' = Upsert(new.feed.receipts)
      BY <1>3, <2>2 DEF Import
    <3>2. PICK D \in SUBSET Receipts : new.feed.receipts \in [D -> Entry]
      BY <2>2 DEF Feed, Table
    <3>3. Upsert(new.feed.receipts) = [r \in D |-> new.feed.receipts[r]]
      BY <2>4, <3>2 DEF Upsert
    <3>4. QED
      BY <3>1, <3>2, <3>3
  <2>6. delivered' = delivered /\ now' = now /\ root' = new.root
    BY <1>3, <2>2 DEF Import
  <2>7. PaidTypeOK'
    <3>1. status' \in Table(Receipts, Entry)
      BY <2>2, <2>5 DEF Feed
    <3>2. QED
      BY <2>1, <2>2, <2>3, <2>6, <3>1 DEF PaidInv, PaidTypeOK
  <2>8. Numbered'
    <3>1. \A a, b \in publications' : a.feed.sequence = b.feed.sequence => a = b
      BY <2>1 DEF PaidInv, Numbered
    <3>2. new \in publications'
          /\ \A other \in publications' : other.feed.sequence <= new.feed.sequence
      BY <2>1
    <3>3. QED
      BY <3>1, <3>2 DEF Numbered
  <2>9. AllUpheld'
    BY <2>1 DEF PaidInv, AllUpheld
  <2>10. TableInv'
    BY <2>1, <2>4, <2>5, <2>6 DEF TableInv, StatusAgrees
  <2>11. TasksOK'
    <3> DEFINE Kept(t) ==
          /\ t.pc = "latest" => t.sequence \in 1 .. (MaxPublished' + 1)
          /\ t.pc \in {"drafted", "signed", "importing"} =>
               /\ t.feed \in Feed /\ WellFormed(t.feed)
               /\ t.feed.sequence <= MaxPublished' + 1
          /\ t.pc \in {"signed", "importing"} => t.root \in Roots
          /\ t.pc = "importing" =>
               /\ DOMAIN t.feed.receipts = t.orders /\ t.orders \subseteq delivered
               /\ t.feed.sequence # MaxPublished' + 1
    <3>1. ASSUME NEW q \in Operators, q # p PROVE Kept(tasks'[q])
      <4>1. TaskOK(tasks[q]) /\ tasks'[q] = tasks[q]
        BY <2>3, <3>1 DEF PaidInv, TasksOK
      <4>2. tasks[q].feed \in Feed => tasks[q].feed.sequence \in Nat
        BY DEF Feed
      <4>3. Kept(tasks[q])
        BY <2>1, <4>1, <4>2 DEF TaskOK
      <4>4. QED
        BY <4>1, <4>3
    <3>2. Kept(task)
      BY <1>1, <2>1, <2>2 DEF TaskOK, Feed
    <3>3. \A q \in Operators : Kept(tasks'[q])
      BY <2>3, <3>1, <3>2
    <3>4. QED
      BY <2>6, <3>3 DEF TasksOK, TaskOK, Contiguous
  <2>12. PaidInv'
    BY <2>7, <2>8, <2>9, <2>10, <2>11 DEF PaidInv
  <2>13. ASSUME NEW old \in publications PROVE old.feed.sequence < new.feed.sequence
    BY <2>1
  <2>14. QED
    BY <2>1, <2>12, <2>13
<1>4. QED
  BY <1>2, <1>3

-------------------------------------------------------------------------------
(* The invariant *)

LEMMA PaidInitInv == PaidInit => PaidInv
<1> SUFFICES ASSUME PaidInit PROVE PaidInv
  OBVIOUS
<1>1. status = IdleTask.rows /\ DOMAIN status = {}
  BY DEF PaidInit, IdleTask
<1>2. PaidTypeOK
  BY <1>1, IdleIsTask, PaidAssumption DEF PaidInit, PaidTypeOK
<1>3. Numbered /\ AllUpheld /\ TableInv
  BY <1>1 DEF PaidInit, Numbered, AllUpheld, TableInv, StatusAgrees
<1>4. TasksOK
  BY IdleIsTask DEF PaidInit, TasksOK
<1>5. QED
  BY <1>2, <1>3, <1>4 DEF PaidInv

(* Every step keeps the invariant and publishes nothing, or the next feed. *)
LEMMA StepPublishes ==
    ASSUME PaidInv, [PaidNext]_paidVars
    PROVE  /\ PaidInv'
           /\ \/ UNCHANGED publications
              \/ \E new \in Publication :
                   /\ publications' = publications \cup {new}
                   /\ WellFormed(new.feed)
                   /\ new.feed.sequence = MaxPublished + 1
                   /\ \A old \in publications :
                        old.feed.sequence < new.feed.sequence /\ Upholds(old.feed, new.feed)
<1>1. CASE Deliver
  BY <1>1, WorldPreserves DEF Deliver, PaidInv, PaidTypeOK, storeVars
<1>2. CASE Tick
  <2>1. now' \in 0 .. MaxTime
    BY <1>2, PaidAssumption DEF Tick, PaidInv, PaidTypeOK
  <2>2. QED
    BY <1>2, <2>1, WorldPreserves DEF Tick, PaidInv, PaidTypeOK, storeVars
<1>3. ASSUME NEW p \in Operators, Operate(p)
      PROVE  (PaidInv' /\ UNCHANGED publications) \/ Import(p)
  BY <1>3, ReadsPreserve, BuildDraftPreserves, SignPreserves, ReadDeliveredPreserves,
     AbandonPreserves DEF Operate
<1>4. CASE \E p \in Operators : Operate(p)
  BY <1>3, <1>4, ImportPreserves
<1>5. CASE UNCHANGED paidVars
  BY <1>5, WorldPreserves DEF paidVars, storeVars, PaidInv, PaidTypeOK
<1>6. QED
  BY <1>1, <1>2, <1>4, <1>5 DEF PaidNext

(* However drafts, signatures, deliveries and imports overlap, numbers are  *)
(* used once and every publication upholds those before it                  *)
(* (paid_lifecycle.py:225-300).                                             *)
THEOREM PublisherSafe == PaidSpec => []PaidInv
<1>1. PaidInv /\ [PaidNext]_paidVars => PaidInv'
  BY StepPublishes
<1>2. QED
  BY PaidInitInv, <1>1, PTL DEF PaidSpec

(* Every variable of the publisher keeps its type. *)
THEOREM PaidTypes == PaidSpec => []PaidTypeOK
<1>1. PaidInv => PaidTypeOK
  BY DEF PaidInv
<1>2. QED
  BY <1>1, PublisherSafe, PTL

(* The status table is that of the latest feed, although the delivered      *)
(* orders are read before the transaction that writes it                    *)
(* (paid_lifecycle.py:214-224).                                             *)
THEOREM TableIsOfTheLatest == PaidSpec => []StatusAgrees
<1>1. PaidInv => StatusAgrees
  BY DEF PaidInv, TableInv
<1>2. QED
  BY <1>1, PublisherSafe, PTL

(* A receipt any publication took out of use is never again reported        *)
(* current to its buyer (paid_lifecycle.py:446).                            *)
THEOREM CondemnedStaysSo == PaidSpec => []CondemnedNeverCurrent
<1>1. ASSUME PaidInv PROVE CondemnedNeverCurrent
  <2>1. SUFFICES ASSUME NEW r \in Receipts, NEW old \in publications, Condemns(old.feed, r)
                 PROVE  OrderVerdict(r) # "CURRENT"
    BY DEF CondemnedNeverCurrent
  <2>2. Latest \in publications /\ Latest.feed \in Feed
    BY <1>1, LatestIsLast DEF PaidInv
  <2>3. Condemns(Latest.feed, r)
    BY <1>1, <2>1, LatestUpholds, CondemnationUpheld
  <2>4. Verdict(Latest.feed, r, now, 0) # "CURRENT"
    BY <2>2, <2>3, VerdictSound
  <2>5. None # "CURRENT"
    BY PaidAssumption DEF Verdicts
  <2>6. QED
    BY <2>4, <2>5 DEF OrderVerdict
<1>2. QED
  BY <1>1, PublisherSafe, PTL

-------------------------------------------------------------------------------
(* Refinement *)

LEMMA SameWords ==
    ASSUME NEW f, NEW g
    PROVE  /\ History!WellFormed(f) <=> WellFormed(f)
           /\ History!Upholds(f, g) <=> Upholds(f, g)
  BY DEF History!WellFormed, WellFormed, History!Upholds, Upholds

LEMMA PublishesHistory ==
    ASSUME PaidInv, NEW new \in Publication, publications' = publications \cup {new},
           WellFormed(new.feed), new.feed.sequence = MaxPublished + 1,
           \A old \in publications :
             old.feed.sequence < new.feed.sequence /\ Upholds(old.feed, new.feed)
    PROVE  History!Publish
<1> DEFINE Feeds == { entry.feed : entry \in publications }
<1>1. { entry.feed : entry \in publications' } = Feeds \cup {new.feed}
  OBVIOUS
<1>2. new.feed \notin Feeds
  <2>1. \A old \in publications : old.feed # new.feed
    BY DEF PaidInv, PaidTypeOK, Publication, Feed
  <2>2. QED
    BY <2>1
<1>3. History!WellFormed(new.feed)
  BY SameWords
<1>4. \A earlier \in Feeds :
        earlier.sequence < new.feed.sequence /\ History!Upholds(earlier, new.feed)
  BY SameWords
<1>5. IF Feeds = {} THEN new.feed.sequence = 1
      ELSE \E last \in Feeds : new.feed.sequence = last.sequence + 1
  <2>1. CASE publications = {}
    BY <2>1 DEF MaxPublished
  <2>2. CASE publications # {}
    <3>1. Latest \in publications /\ new.feed.sequence = Latest.feed.sequence + 1
      BY <2>2, LatestIsLast DEF PaidInv, MaxPublished
    <3>2. QED
      BY <3>1
  <2>3. QED
    BY <2>1, <2>2
<1>6. History!Continues(new.feed)
  BY <1>3, <1>4, <1>5 DEF History!Continues
<1>7. QED
  BY <1>1, <1>2, <1>6 DEF History!Publish

(* The publisher implements the history of feeds a verifier relies on       *)
(* (paid_lifecycle.py:232-252).                                             *)
THEOREM PublisherImplementsHistory == PaidSpec => ImplementsHistory
<1>1. PaidInit => History!HistoryInit
  BY DEF PaidInit, History!HistoryInit
<1>2. ASSUME PaidInv, [PaidNext]_paidVars
      PROVE  [History!Publish]_{ entry.feed : entry \in publications }
  BY <1>2, StepPublishes, PublishesHistory
<1>3. QED
  BY <1>1, <1>2, PublisherSafe, PTL DEF PaidSpec, ImplementsHistory, History!HistorySpec
===============================================================================
