----------------------- MODULE LifecycleVerifierProofs -----------------------
(***************************************************************************)
(* The verifiers of one state file, for every number of processes, feeds   *)
(* and receipts: the file holds the newest feed that was relied on, and an *)
(* answer that a receipt is out of use is taken back only by a newer feed. *)
(***************************************************************************)
EXTENDS LifecycleVerifier, ReceiptLifecycleProofs

-------------------------------------------------------------------------------
(* The inductive invariant *)

JustVerdict(call) ==
    /\ call.verdict = "CURRENT" => ~Condemns(call.feed, call.receipt)
    /\ call.verdict \in Invalid => Condemns(call.feed, call.receipt)

(* What a process holds when it has come to a step. *)
CallOK(v, call, holder, file) ==
    /\ call.pc # "idle" => call.feed \in Feeds
    /\ call.pc \in {"minimum", "evaluate"} => call.receipt \in Receipts
    /\ call.pc \in {"record", "locked"} /\ call.receipt # None => JustVerdict(call)
    /\ call.pc = "locked" => holder = v /\ call.loaded = file

CallsOK == \A v \in Verifiers : CallOK(v, calls[v], lock, stored)

(* The newest feed relied on is the one whose digest is in the file. *)
StoredIsNewest ==
    \A f \in accepted : f.sequence = stored.sequence => stored.digest = f

CondemnedByAccepted ==
    \A answer \in condemned : answer[2] \in accepted /\ Condemns(answer[2], answer[1])

FileInv ==
    StoredCoversAccepted /\ StoredIsNewest /\ OneFeedPerNumber /\ CondemnedByAccepted

VerifierInv == VerifierTypeOK /\ CallsOK /\ FileInv

-------------------------------------------------------------------------------
(* One process moves *)

(* The process v becomes call; the file and what was relied on stay.        *)
LEMMA CallBecomes ==
    ASSUME VerifierInv, NEW v \in Verifiers, NEW call \in Call, Becomes(v, call),
           stored' = stored, lock' \in Verifiers \cup {None},
           accepted' = accepted, condemned' = condemned, now' = now,
           reply' = reply \/ reply' \in [feed: Feeds \cup {None}, receipt: Receipts \cup {None},
                                         verdict: Verdicts \cup {None}],
           CallOK(v, call, lock', stored'),
           \A u \in Verifiers \ {v} : lock = u => lock' = u
    PROVE  VerifierInv'
<1>1. calls' \in [Verifiers -> Call] /\ calls'[v] = call
      /\ \A u \in Verifiers \ {v} : calls'[u] = calls[u]
  BY DEF VerifierInv, VerifierTypeOK, Becomes
<1>2. VerifierTypeOK'
  BY <1>1 DEF VerifierInv, VerifierTypeOK
<1>3. CallsOK'
  <2>1. CallOK(v, calls'[v], lock', stored')
    BY <1>1 DEF CallOK, JustVerdict
  <2>2. ASSUME NEW u \in Verifiers \ {v} PROVE CallOK(u, calls'[u], lock', stored')
    BY <1>1, <2>2 DEF VerifierInv, CallsOK, CallOK, JustVerdict
  <2>3. QED
    BY <2>1, <2>2 DEF CallsOK
<1>4. FileInv'
  BY DEF VerifierInv, FileInv, StoredCoversAccepted, StoredIsNewest, OneFeedPerNumber,
         CondemnedByAccepted
<1>5. QED
  BY <1>2, <1>3, <1>4 DEF VerifierInv

LEMMA BlankIsCall ==
    /\ Blank \in Call
    /\ \A f \in Feeds : [Blank EXCEPT !.pc = "serving", !.catalog = TRUE, !.feed = f] \in Call
    /\ \A call \in Call : call.feed \in Feeds => Done(call) \in Call
  BY DEF Blank, Call, Done

(* The steps that start a call, and read the file. *)
LEMMA StartsPreserve ==
    ASSUME VerifierInv, NEW v \in Verifiers,
           StartVerify(v) \/ StartStatus(v) \/ StartCatalog(v) \/ ReadMinimum(v)
    PROVE  VerifierInv' /\ UNCHANGED <<stored, history>>
<1> USE DEF CallOK, history
<1>0. calls[v] \in Call /\ CallOK(v, calls[v], lock, stored)
  BY DEF VerifierInv, VerifierTypeOK, CallsOK
<1>1. CASE StartVerify(v)
  <2>1. PICK f \in Feeds, r \in Receipts :
          Becomes(v, [Blank EXCEPT !.pc = "minimum", !.feed = f, !.receipt = r])
    BY <1>1 DEF StartVerify
  <2> DEFINE call == [Blank EXCEPT !.pc = "minimum", !.feed = f, !.receipt = r]
  <2>2. call \in Call /\ call.pc = "minimum" /\ call.feed \in Feeds /\ call.receipt \in Receipts
    BY DEF Blank, Call
  <2>3. CallOK(v, call, lock', stored')
    BY <2>2
  <2> HIDE DEF call
  <2>4. QED
    BY <1>1, <2>1, <2>2, <2>3, CallBecomes DEF StartVerify, call, VerifierInv, VerifierTypeOK
<1>2. CASE StartStatus(v)
  <2>1. PICK r \in Receipts : Becomes(v, [calls[v] EXCEPT !.pc = "minimum", !.receipt = r])
    BY <1>2 DEF StartStatus
  <2> DEFINE call == [calls[v] EXCEPT !.pc = "minimum", !.receipt = r]
  <2>2. call \in Call /\ call.pc = "minimum" /\ call.feed \in Feeds /\ call.receipt \in Receipts
    BY <1>0, <1>2 DEF StartStatus, In, Call
  <2>3. CallOK(v, call, lock', stored')
    BY <2>2
  <2> HIDE DEF call
  <2>4. QED
    BY <1>2, <2>1, <2>2, <2>3, CallBecomes DEF StartStatus, call, VerifierInv, VerifierTypeOK
<1>3. CASE StartCatalog(v)
  <2>1. PICK f \in Feeds :
          Becomes(v, [Blank EXCEPT !.pc = "record", !.catalog = TRUE, !.feed = f])
    BY <1>3 DEF StartCatalog
  <2> DEFINE call == [Blank EXCEPT !.pc = "record", !.catalog = TRUE, !.feed = f]
  <2>2. call \in Call /\ call.pc = "record" /\ call.feed \in Feeds /\ call.receipt = None
    BY DEF Blank, Call
  <2>3. CallOK(v, call, lock', stored')
    BY <2>2
  <2> HIDE DEF call
  <2>4. QED
    BY <1>3, <2>1, <2>2, <2>3, CallBecomes DEF StartCatalog, call, VerifierInv, VerifierTypeOK
<1>4. CASE ReadMinimum(v)
  <2> DEFINE call == [calls[v] EXCEPT !.pc = "evaluate",
                        !.minimum = IF stored = None THEN 0 ELSE stored.sequence]
  <2>1. Becomes(v, call)
    BY <1>4 DEF ReadMinimum
  <2>2. (IF stored = None THEN 0 ELSE stored.sequence) \in Nat
    BY DEF VerifierInv, VerifierTypeOK, Record
  <2>3. call \in Call /\ call.pc = "evaluate" /\ call.feed \in Feeds /\ call.receipt \in Receipts
    BY <1>0, <1>4, <2>2 DEF ReadMinimum, In, Call
  <2>4. CallOK(v, call, lock', stored')
    BY <2>3
  <2> HIDE DEF call
  <2>5. QED
    BY <1>4, <2>1, <2>3, <2>4, CallBecomes DEF ReadMinimum, VerifierInv, VerifierTypeOK
<1>5. QED
  BY <1>1, <1>2, <1>3, <1>4 DEF StartVerify, StartStatus, StartCatalog, ReadMinimum

LEMMA AnswerTypes ==
    ASSUME NEW call \in Call, Answer(call)
    PROVE  /\ reply' \in [feed: Feeds \cup {None}, receipt: Receipts \cup {None},
                          verdict: Verdicts \cup {None}]
           /\ reply'.feed = call.feed /\ reply'.receipt = call.receipt
           /\ reply'.verdict = call.verdict
  BY DEF Answer, Call

(* An answer that relies on no feed is no answer. *)
LEMMA EvaluatePreserves ==
    ASSUME VerifierInv, NEW v \in Verifiers, Evaluate(v)
    PROVE  /\ VerifierInv' /\ UNCHANGED <<stored, accepted>>
           /\ reply' # reply => reply'.verdict = Unknown
<1> DEFINE verdict == Verdict(calls[v].feed, calls[v].receipt, now, calls[v].minimum)
           call    == [calls[v] EXCEPT !.verdict = verdict]
           next    == [call EXCEPT !.pc = "record"]
<1>1. /\ calls[v] \in Call /\ calls[v].feed \in Feeds /\ calls[v].receipt \in Receipts
      /\ calls[v].minimum \in Nat
  BY DEF VerifierInv, VerifierTypeOK, CallsOK, CallOK, Evaluate, In, Call
<1>2. calls[v].feed \in Feed
  BY <1>1, VerifierAssumption
<1>3. verdict \in Verdicts
  BY DEF Verdict, Standing, Verdicts, Invalid, Unknown
<1>4. /\ call \in Call /\ call.feed = calls[v].feed /\ call.receipt = calls[v].receipt
      /\ call.verdict = verdict /\ call.minimum = calls[v].minimum /\ call.catalog = calls[v].catalog
  BY <1>1, <1>3 DEF Call
<1>5. CASE calls[v].feed.sequence < calls[v].minimum
  <2>1. verdict = Unknown
    BY <1>1, <1>2, <1>5, OldFeedIsUnknown
  <2>2. Answer(call) /\ Becomes(v, Done(call))
    BY <1>4, <1>5 DEF Evaluate
  <2>3. condemned' = condemned
    BY <1>4, <2>1, <2>2 DEF Answer, Unknown, Invalid
  <2>4. Done(call) \in Call /\ CallOK(v, Done(call), lock', stored')
    BY <1>1, <1>4, BlankIsCall DEF CallOK, Done, Blank
  <2> HIDE DEF call
  <2>5. VerifierInv'
    BY <2>2, <2>3, <2>4, <1>4, AnswerTypes, CallBecomes DEF Evaluate, VerifierInv, VerifierTypeOK
  <2>6. QED
    BY <1>4, <2>1, <2>2, <2>5, AnswerTypes DEF Evaluate
<1>6. CASE ~(calls[v].feed.sequence < calls[v].minimum)
  <2>1. Becomes(v, next) /\ UNCHANGED <<reply, condemned>>
    BY <1>4, <1>6 DEF Evaluate
  <2>2. next \in Call /\ next.pc = "record" /\ next.feed = calls[v].feed
        /\ next.receipt = calls[v].receipt /\ next.verdict = verdict
    BY <1>4 DEF Call
  <2>3. JustVerdict(next)
    BY <1>1, <1>2, <2>2, VerdictSound DEF JustVerdict
  <2> HIDE DEF next
  <2>4. CallOK(v, next, lock', stored')
    BY <1>1, <2>2, <2>3 DEF CallOK, JustVerdict
  <2>5. VerifierInv'
    BY <2>1, <2>2, <2>4, CallBecomes DEF Evaluate, VerifierInv, VerifierTypeOK
  <2>6. QED
    BY <2>1, <2>5 DEF Evaluate
<1>7. QED
  BY <1>5, <1>6

LEMMA AcquirePreserves ==
    ASSUME VerifierInv, NEW v \in Verifiers, Acquire(v)
    PROVE  VerifierInv' /\ UNCHANGED <<stored, history>>
<1> DEFINE call == [calls[v] EXCEPT !.pc = "locked", !.loaded = stored]
<1>1. calls[v] \in Call /\ CallOK(v, calls[v], lock, stored) /\ calls[v].pc = "record"
  BY DEF VerifierInv, VerifierTypeOK, CallsOK, Acquire, In
<1>2. /\ call \in Call /\ call.pc = "locked" /\ call.loaded = stored
      /\ call.feed = calls[v].feed /\ call.receipt = calls[v].receipt
      /\ call.verdict = calls[v].verdict
  BY <1>1 DEF Call, VerifierInv, VerifierTypeOK
<1>3. Becomes(v, call) /\ lock' = v /\ stored' = stored /\ lock = None
  BY DEF Acquire, Unlocked
<1> HIDE DEF call
<1>4. CallOK(v, call, lock', stored')
  BY <1>1, <1>2, <1>3 DEF CallOK, JustVerdict
<1>5. \A u \in Verifiers : lock # u
  BY <1>3, VerifierAssumption
<1>6. QED
  BY <1>2, <1>3, <1>4, <1>5, CallBecomes DEF Acquire, history

(* A step answers a receipt current that was answered invalid before.       *)
ReviveByNewFeed ==
    reply' # reply /\ reply'.verdict = "CURRENT" =>
        \A answer \in condemned :
            answer[1] = reply'.receipt =>
                answer[2].sequence < reply'.feed.sequence /\ ~Upholds(answer[2], reply'.feed)

(* The step that replaces the file.  It is compared with what was loaded    *)
(* under the same lock, so what is recorded is no older than anything       *)
(* relied on, and is the same feed where the number is the same.            *)
LEMMA RecordPreserves ==
    ASSUME VerifierInv, NEW v \in Verifiers, In(v, "locked"), Compare(v),
           ~RollsBack(calls[v].loaded, calls[v].feed),
           ~Equivocates(calls[v].loaded, calls[v].feed)
    PROVE  /\ VerifierInv'
           /\ \A f \in accepted : f.sequence <= calls[v].feed.sequence
           /\ reply' # reply => reply'.feed = calls[v].feed
           /\ ReviveByNewFeed
<1> DEFINE call == calls[v]
           feed == calls[v].feed
           new  == [sequence |-> feed.sequence, digest |-> feed]
<1>1. /\ call \in Call /\ call.feed \in Feeds /\ call.loaded = stored /\ lock = v
      /\ call.receipt # None => JustVerdict(call)
  BY DEF VerifierInv, VerifierTypeOK, CallsOK, CallOK, In
<1>2. /\ lock' = None /\ stored' = new /\ accepted' = accepted \cup {feed}
      /\ Becomes(v, Done(call)) /\ now' = now
      /\ IF call.receipt = None THEN UNCHANGED <<reply, condemned>> ELSE Answer(call)
  BY DEF Compare
<1>3. \A f \in Feeds : f \in Feed /\ f.sequence \in Nat \ {0} /\ f # None
  BY VerifierAssumption DEF Feed
<1>4. accepted \subseteq Feeds /\ condemned \subseteq Receipts \X Feeds
  BY DEF VerifierInv, VerifierTypeOK
<1>5. \A f \in accepted : f.sequence <= feed.sequence
  <2>1. ASSUME NEW f \in accepted PROVE f.sequence <= feed.sequence
    <3>1. stored # None /\ f.sequence <= stored.sequence
      BY DEF VerifierInv, FileInv, StoredCoversAccepted
    <3>2. stored.sequence \in Nat
      BY <3>1 DEF VerifierInv, VerifierTypeOK, Record
    <3>3. ~(feed.sequence < stored.sequence)
      BY <1>1, <3>1 DEF RollsBack
    <3>4. QED
      BY <1>1, <1>3, <1>4, <3>1, <3>2, <3>3
  <2>2. QED
    BY <2>1
<1>6. \A f \in accepted : f.sequence = feed.sequence => f = feed
  <2>1. ASSUME NEW f \in accepted, f.sequence = feed.sequence PROVE f = feed
    <3>1. stored # None /\ f.sequence <= stored.sequence
          /\ (f.sequence = stored.sequence => stored.digest = f)
      BY DEF VerifierInv, FileInv, StoredCoversAccepted, StoredIsNewest
    <3>2. stored.sequence \in Nat
      BY <3>1 DEF VerifierInv, VerifierTypeOK, Record
    <3>3. ~(feed.sequence < stored.sequence)
      BY <1>1, <3>1 DEF RollsBack
    <3>4. f.sequence = stored.sequence /\ f # None
      BY <1>1, <1>3, <1>4, <2>1, <3>1, <3>2, <3>3
    <3>5. stored.digest \in {None, feed}
      BY <1>1, <2>1, <3>1, <3>4 DEF Equivocates
    <3>6. QED
      BY <3>1, <3>4, <3>5
  <2>2. QED
    BY <2>1
<1>7. /\ reply' = reply \/ (call.receipt # None /\ Answer(call))
      /\ \/ condemned' = condemned
         \/ /\ condemned' = condemned \cup {<<call.receipt, feed>>}
            /\ call.receipt \in Receipts /\ Condemns(feed, call.receipt)
  <2>1. CASE call.receipt = None
    BY <1>2, <2>1
  <2>2. CASE call.receipt # None
    BY <1>1, <1>2, <2>2 DEF Answer, JustVerdict, Call
  <2>3. QED
    BY <2>1, <2>2
<1>8. calls' \in [Verifiers -> Call] /\ calls'[v] = Done(call)
      /\ \A u \in Verifiers \ {v} : calls'[u] = calls[u]
  BY <1>1, <1>2, BlankIsCall DEF VerifierInv, VerifierTypeOK, Becomes
<1>9. VerifierTypeOK'
  <2>1. new \in Record
    BY <1>1, <1>3 DEF Record
  <2>2. condemned' \subseteq Receipts \X Feeds /\ accepted' \subseteq Feeds
    BY <1>1, <1>2, <1>4, <1>7
  <2>3. reply' \in [feed: Feeds \cup {None}, receipt: Receipts \cup {None},
                    verdict: Verdicts \cup {None}]
    BY <1>1, <1>7, AnswerTypes DEF VerifierInv, VerifierTypeOK
  <2>4. QED
    BY <1>2, <1>8, <2>1, <2>2, <2>3 DEF VerifierInv, VerifierTypeOK
<1>10. CallsOK'
  <2>1. CallOK(v, calls'[v], lock', stored')
    BY <1>1, <1>8 DEF CallOK, Done, Blank
  <2>2. ASSUME NEW u \in Verifiers \ {v} PROVE CallOK(u, calls'[u], lock', stored')
    BY <1>1, <1>8, <2>2 DEF VerifierInv, CallsOK, CallOK, JustVerdict
  <2>3. QED
    BY <2>1, <2>2 DEF CallsOK
<1>11. FileInv'
  <2>1. stored' # None /\ stored'.sequence = feed.sequence /\ stored'.digest = feed
    <3>1. new \in [sequence: Nat \ {0}, digest: Feeds \cup {None}]
      BY <1>1, <1>3
    <3>2. QED
      BY <1>2, <3>1, VerifierAssumption
  <2>2. feed.sequence \in Nat /\ accepted' \subseteq accepted \cup {feed}
    BY <1>1, <1>2, <1>3
  <2>3. StoredCoversAccepted' /\ StoredIsNewest' /\ OneFeedPerNumber'
    BY <1>5, <1>6, <2>1, <2>2
       DEF VerifierInv, FileInv, StoredCoversAccepted, StoredIsNewest, OneFeedPerNumber
  <2>4. CondemnedByAccepted'
    BY <1>2, <1>4, <1>7 DEF VerifierInv, FileInv, CondemnedByAccepted
  <2>5. QED
    BY <2>3, <2>4 DEF FileInv
<1>12. reply' # reply => call.receipt # None /\ reply'.feed = feed /\ reply'.receipt = call.receipt
                         /\ reply'.verdict = call.verdict
  BY <1>1, <1>7, AnswerTypes
<1>13. ReviveByNewFeed
  <2> SUFFICES ASSUME reply' # reply, reply'.verdict = "CURRENT",
                      NEW answer \in condemned, answer[1] = reply'.receipt
               PROVE  answer[2].sequence < feed.sequence /\ ~Upholds(answer[2], feed)
    BY <1>12 DEF ReviveByNewFeed
  <2>1. ~Condemns(feed, answer[1])
    BY <1>1, <1>12 DEF JustVerdict
  <2>2. PICK f \in accepted : f = answer[2] /\ Condemns(f, answer[1])
    BY DEF VerifierInv, FileInv, CondemnedByAccepted
  <2>3. ~Upholds(f, feed)
    BY <2>1, <2>2, CondemnationUpheld
  <2>4. f.sequence <= feed.sequence /\ f.sequence # feed.sequence
    BY <1>5, <1>6, <2>1, <2>2
  <2>5. f.sequence \in Nat /\ feed.sequence \in Nat
    BY <1>1, <1>3, <1>4
  <2>6. QED
    BY <2>2, <2>3, <2>4, <2>5
<1>14. QED
  BY <1>5, <1>9, <1>10, <1>11, <1>12, <1>13 DEF VerifierInv

LEMMA RefusalPreserves ==
    ASSUME VerifierInv, NEW v \in Verifiers, Compare(v),
           RollsBack(calls[v].loaded, calls[v].feed) \/ Equivocates(calls[v].loaded, calls[v].feed)
    PROVE  VerifierInv' /\ UNCHANGED <<stored, history>>
<1> DEFINE call == IF calls[v].receipt = None THEN Blank ELSE Done(calls[v])
<1>1. /\ calls[v] \in Call /\ calls[v].feed \in Feeds /\ lock = v
  BY DEF VerifierInv, VerifierTypeOK, CallsOK, CallOK, Compare, In
<1>2. Becomes(v, call) /\ lock' = None /\ UNCHANGED <<stored, history, now>>
  BY DEF Compare
<1>3. call \in Call /\ CallOK(v, call, lock', stored')
  BY <1>1, BlankIsCall DEF CallOK, Done, Blank
<1> HIDE DEF call
<1>4. QED
  BY <1>1, <1>2, <1>3, CallBecomes DEF history

LEMMA DiePreserves ==
    ASSUME VerifierInv, NEW v \in Verifiers, Die(v)
    PROVE  VerifierInv' /\ UNCHANGED <<stored, history>>
<1>1. Becomes(v, Blank) /\ lock' \in {lock, None} /\ (lock # v => lock' = lock)
      /\ UNCHANGED <<stored, history, now>>
  BY DEF Die
<1>2. Blank \in Call /\ CallOK(v, Blank, lock', stored')
  BY BlankIsCall DEF CallOK, Blank
<1>3. lock' \in Verifiers \cup {None} /\ \A u \in Verifiers \ {v} : lock = u => lock' = u
  BY <1>1 DEF VerifierInv, VerifierTypeOK
<1> QED
  BY <1>1, <1>2, <1>3, CallBecomes DEF history

LEMMA IdlePreserves ==
    ASSUME VerifierInv, Tick \/ UNCHANGED verifierVars
    PROVE  VerifierInv' /\ UNCHANGED <<stored, history>>
<1>1. UNCHANGED <<stored, lock, calls, history>> /\ now' \in 0 .. MaxTime
  BY VerifierAssumption DEF VerifierInv, VerifierTypeOK, Tick, verifierVars
<1>2. VerifierTypeOK' /\ CallsOK'
  BY <1>1 DEF VerifierInv, VerifierTypeOK, CallsOK, history
<1>3. FileInv'
  BY <1>1 DEF VerifierInv, FileInv, StoredCoversAccepted, StoredIsNewest, OneFeedPerNumber,
         CondemnedByAccepted, history
<1>4. QED
  BY <1>1, <1>2, <1>3 DEF VerifierInv

-------------------------------------------------------------------------------
(* The theorems *)

NoOlderReply ==
    reply' # reply /\ reply'.verdict # Unknown =>
        \A f \in accepted : f.sequence <= reply'.feed.sequence

LEMMA VerifierInitInv == VerifierInit => VerifierInv
<1> SUFFICES ASSUME VerifierInit PROVE VerifierInv
  OBVIOUS
<1>1. stored \in Record \cup {None}
  BY VerifierAssumption DEF VerifierInit, Record
<1>2. VerifierTypeOK
  <2>1. calls \in [Verifiers -> Call]
    BY BlankIsCall DEF VerifierInit
  <2>2. reply \in [feed: Feeds \cup {None}, receipt: Receipts \cup {None},
                   verdict: Verdicts \cup {None}]
    BY DEF VerifierInit, NoReply
  <2>3. 0 \in 0 .. MaxTime
    BY VerifierAssumption
  <2>4. QED
    BY <1>1, <2>1, <2>2, <2>3 DEF VerifierInit, VerifierTypeOK
<1>3. CallsOK
  BY DEF VerifierInit, CallsOK, CallOK, Blank
<1>4. FileInv
  BY DEF VerifierInit, FileInv, StoredCoversAccepted, StoredIsNewest, OneFeedPerNumber,
         CondemnedByAccepted
<1>5. QED
  BY <1>2, <1>3, <1>4 DEF VerifierInv

LEMMA VerifierStep ==
    VerifierInv /\ [VerifierNext]_verifierVars =>
        VerifierInv' /\ NoOlderReply /\ ReviveByNewFeed
<1> SUFFICES ASSUME VerifierInv, [VerifierNext]_verifierVars
             PROVE  VerifierInv' /\ NoOlderReply /\ ReviveByNewFeed
  OBVIOUS
<1> USE DEF NoOlderReply, ReviveByNewFeed, history
<1>1. CASE Tick \/ UNCHANGED verifierVars
  BY <1>1, IdlePreserves
<1>2. ASSUME NEW v \in Verifiers, Verify(v)
      PROVE  VerifierInv' /\ NoOlderReply /\ ReviveByNewFeed
  <2>1. CASE StartVerify(v) \/ StartStatus(v) \/ StartCatalog(v) \/ ReadMinimum(v)
    BY <2>1, StartsPreserve
  <2>2. CASE Evaluate(v)
    BY <2>2, EvaluatePreserves DEF Unknown
  <2>3. CASE Acquire(v)
    BY <2>3, AcquirePreserves
  <2>4. CASE Compare(v) /\ (RollsBack(calls[v].loaded, calls[v].feed)
                             \/ Equivocates(calls[v].loaded, calls[v].feed))
    BY <2>4, RefusalPreserves
  <2>5. CASE Compare(v) /\ ~RollsBack(calls[v].loaded, calls[v].feed)
                        /\ ~Equivocates(calls[v].loaded, calls[v].feed)
    <3>1. In(v, "locked")
      BY <2>5 DEF Compare
    <3>2. QED
      BY <2>5, <3>1, RecordPreserves
  <2>6. CASE Die(v)
    BY <2>6, DiePreserves
  <2>7. QED
    BY <1>2, <2>1, <2>2, <2>3, <2>4, <2>5, <2>6 DEF Verify
<1>3. QED
  BY <1>1, <1>2 DEF VerifierNext

(* Types are kept, and the file lives up to what was answered, for every    *)
(* number of verifiers and feeds.                                           *)
THEOREM VerifierSafe == VerifierSpec => []VerifierInv
<1>1. VerifierInv /\ [VerifierNext]_verifierVars => VerifierInv'
  BY VerifierStep
<1>2. QED
  BY <1>1, VerifierInitInv, PTL DEF VerifierSpec

THEOREM VerifierTypes == VerifierSpec => []VerifierTypeOK
<1>1. VerifierInv => VerifierTypeOK
  BY DEF VerifierInv
<1>2. QED
  BY <1>1, VerifierSafe, PTL

(* LifecycleSequenceStore.record: two feeds under one number are never both *)
(* relied on.                                                               *)
THEOREM OneFeedIsReliedOn == VerifierSpec => []OneFeedPerNumber
<1>1. VerifierInv => OneFeedPerNumber
  BY DEF VerifierInv, FileInv
<1>2. QED
  BY <1>1, VerifierSafe, PTL

(* LifecycleSequenceStore.record: the file is never behind an answer.       *)
THEOREM FileCoversAnswers == VerifierSpec => []StoredCoversAccepted
<1>1. VerifierInv => StoredCoversAccepted
  BY DEF VerifierInv, FileInv
<1>2. QED
  BY <1>1, VerifierSafe, PTL

(* evaluate_receipt_lifecycle_with_state: no conclusive answer from a feed  *)
(* older than one relied on.                                                *)
THEOREM AnswersNeverGoBack == VerifierSpec => NoOlderAnswer
<1>1. VerifierInv /\ [VerifierNext]_verifierVars => [NoOlderReply]_verifierVars
  BY VerifierStep
<1>2. VerifierSpec => [][NoOlderReply]_verifierVars
  BY <1>1, VerifierSafe, PTL DEF VerifierSpec
<1>3. QED
  BY <1>2 DEF NoOlderAnswer, NoOlderReply

(* evaluate_receipt_lifecycle_with_state: a receipt that was answered to be *)
(* out of use is answered current again only from a newer feed of the root  *)
(* that takes the invalidation back itself.                                 *)
THEOREM RevivalsAreTheRoots == VerifierSpec => OnlyNewFeedsRevive
<1>1. VerifierInv /\ [VerifierNext]_verifierVars => [ReviveByNewFeed]_verifierVars
  BY VerifierStep
<1>2. VerifierSpec => [][ReviveByNewFeed]_verifierVars
  BY <1>1, VerifierSafe, PTL DEF VerifierSpec
<1>3. QED
  BY <1>2 DEF OnlyNewFeedsRevive, ReviveByNewFeed
===============================================================================
