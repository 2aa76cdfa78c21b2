----------------------- MODULE ReceiptLifecycleProofs -----------------------
(***************************************************************************)
(* What feeds and the verdicts they give have to do with each other, for   *)
(* the proofs about those who publish and those who verify them.           *)
(***************************************************************************)
EXTENDS ReceiptLifecycle, TLAPS

LEMMA EntryOfFeed ==
    ASSUME NEW feed \in Feed, NEW r \in DOMAIN feed.receipts
    PROVE  feed.receipts[r].status \in ReceiptStatuses
<1>1. PICK D \in SUBSET Receipts : feed.receipts \in [D -> Entry]
  BY DEF Feed, Table
<1>2. feed.receipts[r] \in Entry
  BY <1>1
<1>3. QED
  BY <1>2 DEF Entry

(* A verdict is what the feed says: whatever the time, a receipt is         *)
(* answered current only by a feed that does not take it out of use, and    *)
(* answered invalid only by one that does.                                  *)
LEMMA VerdictSound ==
    ASSUME NEW feed \in Feed, NEW r \in Receipts, NEW at, NEW minimum
    PROVE  /\ Verdict(feed, r, at, minimum) = "CURRENT" => ~Condemns(feed, r)
           /\ Verdict(feed, r, at, minimum) \in Invalid => Condemns(feed, r)
<1> DEFINE verdict == Verdict(feed, r, at, minimum)
<1>1. CASE ~Fresh(feed, at, minimum) \/ (~Compromised(feed, r) /\ r \notin DOMAIN feed.receipts)
  BY <1>1 DEF Verdict, Unknown, Invalid
<1>2. CASE Fresh(feed, at, minimum) /\ Compromised(feed, r)
  BY <1>2 DEF Verdict, Condemns
<1>3. CASE /\ Fresh(feed, at, minimum) /\ ~Compromised(feed, r)
           /\ r \in DOMAIN feed.receipts
  <2>1. verdict = Standing(feed, r, at)
    BY <1>3 DEF Verdict
  <2>2. feed.receipts[r].status \in ReceiptStatuses
    BY <1>3, EntryOfFeed
  <2>3. CASE feed.receipts[r].status = "current"
    BY <2>1, <2>3 , <1>3 DEF Standing, Invalid, Condemns
  <2>4. CASE feed.receipts[r].status # "current"
    <3>1. Condemns(feed, r)
      BY <1>3, <2>4 DEF Condemns
    <3>2. verdict # "CURRENT"
      BY <2>1, <2>2, <2>4 DEF Standing, ReceiptStatuses
    <3>3. QED
      BY <3>1, <3>2
  <2>5. QED
    BY <2>3, <2>4
<1>4. QED
  BY <1>1, <1>2, <1>3

LEMMA OldFeedIsUnknown ==
    ASSUME NEW feed \in Feed, NEW r, NEW at, NEW minimum \in Nat, feed.sequence < minimum
    PROVE  Verdict(feed, r, at, minimum) = Unknown
<1>1. feed.sequence \in Nat
  BY DEF Feed
<1>2. ~Fresh(feed, at, minimum)
  BY <1>1 DEF Fresh
<1>3. QED
  BY <1>2 DEF Verdict

(* A feed that upholds another takes out of use what the other took.        *)
LEMMA CondemnationUpheld ==
    ASSUME NEW f, NEW g, NEW r, Upholds(f, g), Condemns(f, r)
    PROVE  Condemns(g, r)
<1>1. CASE Compromised(f, r)
  BY <1>1 DEF Upholds, Condemns, Compromised, Authorizes
<1>2. CASE r \in DOMAIN f.receipts /\ f.receipts[r].status # "current"
  <2>1. r \in DOMAIN g.receipts /\ g.receipts[r] = f.receipts[r]
    BY <1>2 DEF Upholds
  <2>2. QED
    BY <1>2, <2>1 DEF Condemns
<1>3. QED
  BY <1>1, <1>2 DEF Condemns

LEMMA UpholdsTransitive ==
    ASSUME NEW f, NEW g \in Feed, NEW h, Upholds(f, g), Upholds(g, h)
    PROVE  Upholds(f, h)
<1>1. /\ DOMAIN f.receipts \subseteq DOMAIN h.receipts
      /\ DOMAIN f.issuer_keys \subseteq DOMAIN h.issuer_keys
  BY DEF Upholds
<1>2. ASSUME NEW r \in DOMAIN f.receipts, f.receipts[r].status # "current"
      PROVE  h.receipts[r] = f.receipts[r]
  BY <1>2 DEF Upholds
<1>3. ASSUME NEW k \in DOMAIN f.issuer_keys
      PROVE  /\ f.issuer_keys[k] = "compromised" => h.issuer_keys[k] = "compromised"
             /\ f.issuer_keys[k] = "retired" => h.issuer_keys[k] # "active"
  <2>1. k \in DOMAIN g.issuer_keys
    BY <1>1 DEF Upholds
  <2>2. PICK D \in SUBSET Issuers : g.issuer_keys \in [D -> IssuerStatuses]
    BY DEF Feed, Table
  <2>3. g.issuer_keys[k] \in IssuerStatuses
    BY <2>1, <2>2
  <2>4. QED
    BY <2>1, <2>3 DEF Upholds, IssuerStatuses
<1>4. QED
  BY <1>1, <1>2, <1>3 DEF Upholds
===============================================================================
