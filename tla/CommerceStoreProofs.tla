------------------------- MODULE CommerceStoreProofs -------------------------
(***************************************************************************)
(* The properties of CommerceStore, for every value of the constants.      *)
(* Part one follows one order through one ingested event: the reconcile    *)
(* loop as iterated steps, one event applied to one row, and the facts     *)
(* every step of the loop keeps.  Part two puts its facts and those of the *)
(* other actions together in one inductive invariant, StoreInv, and then   *)
(* proves the contract, the order of the events and the end of the loop.   *)
(***************************************************************************)
EXTENDS CommerceStoreProperties, FiniteSetTheorems, TLAPS

-------------------------------------------------------------------------------
(* Induction on the naturals over a SET instead of a predicate, so that a   *)
(* proof can cite it without instantiating an operator parameter: a set     *)
(* that contains 0 and is closed under successor but misses m would map its *)
(* part below m one-to-one into itself without hitting 0.                   *)

(* A set that contains 0 and n + 1 with every n contains every natural.    *)
(* Used for loops that run a number of steps (CommerceStore!Reconciled).   *)
LEMMA NatSetInduction ==
    ASSUME NEW S, 0 \in S, \A n \in Nat : n \in S => n + 1 \in S
    PROVE  Nat \subseteq S
<1> SUFFICES ASSUME NEW m \in Nat, m \notin S PROVE FALSE
  OBVIOUS
<1> DEFINE A == S \cap (0 .. m)
           f == [n \in A |-> n + 1]
<1>1. IsFiniteSet(A)
  <2>1. IsFiniteSet(0 .. m)
    BY FS_Interval
  <2>2. A \in SUBSET (0 .. m)
    OBVIOUS
  <2>3. QED
    BY <2>1, <2>2, FS_Subset
<1>2. f \in [A -> A]
  <2>1. ASSUME NEW n \in A PROVE n + 1 \in A
    <3>1. n # m
      OBVIOUS
    <3>2. QED
      BY <3>1
  <2>2. QED
    BY <2>1
<1>3. f \in Injection(A, A)
  BY <1>2 DEF Injection, IsInjective
<1>4. f \in Surjection(A, A)
  BY <1>1, <1>3, FS_Injection
<1>5. 0 \in A
  OBVIOUS
<1> HIDE DEF f
<1>6. PICK n \in A : f[n] = 0
  BY <1>4, <1>5 DEF Surjection
<1>7. QED
  BY <1>6 DEF f

(* Every non-empty set of naturals has a least element.  Used for the      *)
(* ORDER BY of the event rows (CommerceStore!VisitNext).                   *)
LEMMA LeastElement ==
    ASSUME NEW T, T \subseteq Nat, T # {}
    PROVE  \E n \in T : \A k \in T : n <= k
<1> DEFINE S == {n \in Nat : \A k \in T : n <= k}
<1>1. PICK t \in T : TRUE
  OBVIOUS
<1>2. 0 \in S
  OBVIOUS
<1>3. t + 1 \in Nat /\ t + 1 \notin S
  BY <1>1
<1>4. PICK n \in Nat : n \in S /\ n + 1 \notin S
  <2> HIDE DEF S
  <2>1. ~(Nat \subseteq S)
    BY <1>3
  <2>2. QED
    BY <1>2, <2>1, NatSetInduction
<1>5. PICK k \in T : ~(n + 1 <= k)
  BY <1>4
<1>6. k = n
  BY <1>4, <1>5
<1>7. QED
  BY <1>4, <1>6

-------------------------------------------------------------------------------
(* The reconcile loop *)

(* h records the first k steps of the loop from m.                         *)
LoopRun(h, m, k) ==
    /\ h = [n \in 0 .. k |-> h[n]]
    /\ h[0] = m
    /\ \A n \in 1 .. k : h[n] = LoopStep(h[n - 1])

LEMMA LoopRunUnique ==
    ASSUME NEW m, NEW k \in Nat, NEW l \in Nat, NEW g, NEW h,
           LoopRun(g, m, k), LoopRun(h, m, l)
    PROVE  \A n \in Nat : n <= k /\ n <= l => g[n] = h[n]
<1> DEFINE S == {n \in Nat : n <= k /\ n <= l => g[n] = h[n]}
<1>1. 0 \in S
  BY DEF LoopRun
<1>2. ASSUME NEW n \in Nat, n \in S PROVE n + 1 \in S
  <2> SUFFICES ASSUME n + 1 <= k, n + 1 <= l PROVE g[n + 1] = h[n + 1]
    OBVIOUS
  <2>1. g[n] = h[n]
    BY <1>2
  <2>2. n + 1 \in 1 .. k /\ n + 1 \in 1 .. l /\ (n + 1) - 1 = n
    OBVIOUS
  <2>3. g[n + 1] = LoopStep(g[n]) /\ h[n + 1] = LoopStep(h[n])
    BY <2>2 DEF LoopRun
  <2>4. QED
    BY <2>1, <2>3
<1> HIDE DEF S
<1>3. Nat \subseteq S
  BY <1>1, <1>2, NatSetInduction
<1>4. QED
  BY <1>3 DEF S

LEMMA LoopRunExists ==
    ASSUME NEW m PROVE \A k \in Nat : \E h : LoopRun(h, m, k)
<1> DEFINE S == {k \in Nat : \E h : LoopRun(h, m, k)}
<1>1. 0 \in S
  <2>1. LoopRun([n \in 0 .. 0 |-> m], m, 0)
    BY DEF LoopRun
  <2>2. QED
    BY <2>1
<1>2. ASSUME NEW k \in Nat, k \in S PROVE k + 1 \in S
  <2>1. PICK h : LoopRun(h, m, k)
    BY <1>2
  <2> DEFINE g == [n \in 0 .. k + 1 |-> IF n = k + 1 THEN LoopStep(h[k]) ELSE h[n]]
  <2>2. g[0] = m
    BY <2>1 DEF LoopRun
  <2>3. ASSUME NEW n \in 1 .. k + 1 PROVE g[n] = LoopStep(g[n - 1])
    <3>1. CASE n = k + 1
      BY <3>1
    <3>2. CASE n # k + 1
      <4>1. n \in 1 .. k /\ n - 1 \in 0 .. k
        BY <3>2
      <4>2. h[n] = LoopStep(h[n - 1])
        BY <4>1, <2>1 DEF LoopRun
      <4>3. QED
        BY <4>1, <4>2
    <3>3. QED
      BY <3>1, <3>2
  <2>4. g = [n \in 0 .. k + 1 |-> g[n]]
    OBVIOUS
  <2>5. LoopRun(g, m, k + 1)
    BY <2>2, <2>3, <2>4 DEF LoopRun
  <2>6. QED
    BY <2>5
<1> HIDE DEF S
<1>3. Nat \subseteq S
  BY <1>1, <1>2, NatSetInduction
<1>4. QED
  BY <1>3 DEF S

(* The loop as the run of its steps, of which Reconciled is the last.      *)
LEMMA ReconciledRun ==
    ASSUME NEW m
    PROVE  \E run : /\ run[0] = m
                    /\ \A n \in Nat : run[n + 1] = LoopStep(run[n])
                    /\ Reconciled(m) = run[LoopBound]
<1> DEFINE H(k) == CHOOSE h : LoopRun(h, m, k)
           F == [k \in Nat |-> H(k)[k]]
           after[n \in Nat] == IF n = 0 THEN m ELSE LoopStep(after[n - 1])
<1>1. \A k \in Nat : LoopRun(H(k), m, k)
  BY LoopRunExists
<1> HIDE DEF H
<1>2. F = [n \in Nat |-> IF n = 0 THEN m ELSE LoopStep(F[n - 1])]
  <2>1. ASSUME NEW n \in Nat
        PROVE F[n] = IF n = 0 THEN m ELSE LoopStep(F[n - 1])
    <3>1. CASE n = 0
      BY <1>1, <3>1 DEF LoopRun
    <3>2. CASE n # 0
      <4>1. n - 1 \in Nat /\ n \in 1 .. n
        BY <3>2
      <4>2. F[n] = LoopStep(H(n)[n - 1])
        BY <1>1, <4>1 DEF LoopRun
      <4>3. H(n)[n - 1] = H(n - 1)[n - 1]
        BY <1>1, <4>1, LoopRunUnique
      <4>4. QED
        BY <3>2, <4>1, <4>2, <4>3
    <3>3. QED
      BY <3>1, <3>2
  <2>2. QED
    BY <2>1
<1> HIDE DEF F
<1>3. after = [n \in Nat |-> IF n = 0 THEN m ELSE LoopStep(after[n - 1])]
  BY <1>2
<1>4. Reconciled(m) = after[LoopBound]
  BY DEF Reconciled
<1> HIDE DEF after
<1>5. after[0] = m /\ \A n \in Nat : after[n + 1] = LoopStep(after[n])
  BY <1>3
<1>6. QED
  BY <1>4, <1>5

LEMMA LoopBoundType == LoopBound \in Nat
<1>1. Cardinality(EventIds) \in Nat
  BY ConstantsAssumption, FS_CardinalityType
<1>2. QED
  BY <1>1 DEF LoopBound

(* What every step of the loop preserves, the whole loop preserves.        *)
LEMMA ReconciledPreserves ==
    ASSUME NEW S, NEW m \in S, \A x \in S : LoopStep(x) \in S
    PROVE  Reconciled(m) \in S
<1>1. PICK run : /\ run[0] = m
                 /\ \A n \in Nat : run[n + 1] = LoopStep(run[n])
                 /\ Reconciled(m) = run[LoopBound]
  BY ReconciledRun
<1> DEFINE T == {n \in Nat : run[n] \in S}
<1>2. 0 \in T
  BY <1>1
<1>3. \A n \in Nat : n \in T => n + 1 \in T
  BY <1>1
<1> HIDE DEF T
<1>4. Nat \subseteq T
  BY <1>2, <1>3, NatSetInduction
<1>5. QED
  BY <1>1, <1>4, LoopBoundType DEF T

-------------------------------------------------------------------------------
(* One event applied to one row *)

(* The table of PAYMENT_TRANSITIONS, read as a case split.                 *)
LEMMA PaymentMoves ==
    ASSUME NEW current, NEW target, AllowedPayment(current, target)
    PROVE  \/ current = "pending" /\ target \in {"captured", "failed"}
           \/ current = "captured" /\ target \in {"available", "refund_pending", "disputed"}
           \/ current = "available" /\ target \in {"refund_pending", "disputed"}
           \/ current = "refund_pending" /\ target \in {"refunded", "disputed"}
BY DEF AllowedPayment, PAYMENT_TRANSITIONS

LEMMA AppliedRowType ==
    ASSUME NEW row \in OrderRow, NEW e \in Event
    PROVE  /\ AppliedRow(row, e) \in OrderRow
           /\ OrderTarget(row, e) \in OrderStatus \cup {"absent"}
<1>1. OrderTarget(row, e) \in OrderStatus \cup {"absent"}
  BY DEF OrderTarget, OrderRow, OrderStatus
<1>2. e.type \in PaymentStatus /\ e.amount \in Nat /\ e.fee \in Nat
  BY DEF Event, EventTypes
<1>3. QED
  BY <1>1, <1>2 DEF AppliedRow, OrderRow

LEMMA AppliedRowCoherent ==
    ASSUME NEW row \in OrderRow, NEW e \in Event, NEW m, m.row = row,
           RowCoherent(row), row.payment # None, Applicable(m, e)
    PROVE  RowCoherent(AppliedRow(row, e))
<1>1. AllowedPayment(row.payment_status, e.type)
  BY DEF Applicable
<1>2. e.type = "captured" => row.order_status = "payment_pending"
  BY DEF Applicable
<1>3. CASE e.type = "captured"
  BY <1>1, <1>2, <1>3, PaymentMoves
  DEF AppliedRow, OrderTarget, RowCoherent, PaidStatus, WorkStatus, OrderRow, OrderStatus
<1>4. CASE e.type = "failed"
  BY <1>1, <1>4, PaymentMoves
  DEF AppliedRow, OrderTarget, RowCoherent, PaidStatus, WorkStatus, OrderRow, OrderStatus
<1>5. CASE e.type \notin {"captured", "failed"}
  BY <1>1, <1>5, PaymentMoves
  DEF AppliedRow, OrderTarget, RowCoherent, PaidStatus, WorkStatus, OrderRow, OrderStatus
<1>6. QED
  BY <1>3, <1>4, <1>5

Books == [Categories -> Entry]

(* What a capture and a refund post, and that they touch no other category. *)
LEMMA CapturedBook ==
    ASSUME NEW book \in Books, NEW e \in Event, e.type = "captured"
    PROVE  /\ AppliedBook(book, e) \in Books
           /\ AppliedBook(book, e)["gross_collected"] =
                [rows   |-> book["gross_collected"].rows + 1,
                 amount |-> book["gross_collected"].amount + e.amount,
                 impact |-> book["gross_collected"].impact + e.amount]
           /\ AppliedBook(book, e)["processing_fee"] =
                [rows   |-> book["processing_fee"].rows + 1,
                 amount |-> book["processing_fee"].amount + e.fee,
                 impact |-> book["processing_fee"].impact + (-e.fee)]
           /\ \A other \in Categories \ {"gross_collected", "processing_fee"} :
                AppliedBook(book, e)[other] = book[other]
<1>1. e.amount \in Nat /\ e.fee \in Nat /\ -e.fee \in Int
  BY DEF Event
<1>2. "gross_collected" \in Categories /\ "processing_fee" \in Categories
  BY DEF Categories
<1>3. AppliedBook(book, e) =
        Post(Post(book, "gross_collected", e.amount, e.amount), "processing_fee", e.fee, -e.fee)
  BY DEF AppliedBook
<1>4. QED
  BY <1>1, <1>2, <1>3 DEF Post, Books, Entry

LEMMA RefundedBook ==
    ASSUME NEW book \in Books, NEW e \in Event, e.type = "refunded"
    PROVE  /\ AppliedBook(book, e) \in Books
           /\ AppliedBook(book, e)["refund"] =
                [rows   |-> book["refund"].rows + 1,
                 amount |-> book["refund"].amount + e.amount,
                 impact |-> book["refund"].impact + (-e.amount)]
           /\ \A other \in Categories \ {"refund"} : AppliedBook(book, e)[other] = book[other]
<1>1. e.amount \in Nat /\ -e.amount \in Int
  BY DEF Event
<1>2. "refund" \in Categories
  BY DEF Categories
<1>3. AppliedBook(book, e) = Post(book, "refund", e.amount, -e.amount)
  BY DEF AppliedBook
<1>4. QED
  BY <1>1, <1>2, <1>3 DEF Post, Books, Entry

LEMMA AppliedBookType ==
    ASSUME NEW book \in Books, NEW e \in Event
    PROVE  /\ AppliedBook(book, e) \in Books
           /\ \A c \in CostCategories : AppliedBook(book, e)[c] = book[c]
<1>1. \A c \in CostCategories :
         c \in Categories \ {"gross_collected", "processing_fee", "refund"}
  BY ConstantsAssumption DEF Categories
<1>2. CASE e.type = "captured"
  <2>1. /\ AppliedBook(book, e) \in Books
        /\ \A other \in Categories \ {"gross_collected", "processing_fee"} :
             AppliedBook(book, e)[other] = book[other]
    BY <1>2, CapturedBook, ZenonT(30)
  <2>2. QED
    BY <1>1, <2>1
<1>3. CASE e.type = "refunded"
  <2>1. /\ AppliedBook(book, e) \in Books
        /\ \A other \in Categories \ {"refund"} : AppliedBook(book, e)[other] = book[other]
    BY <1>3, RefundedBook, ZenonT(30)
  <2>2. QED
    BY <1>1, <2>1
<1>4. CASE e.type \notin {"captured", "refunded"}
  BY <1>4 DEF AppliedBook
<1>5. QED
  BY <1>2, <1>3, <1>4

LEMMA AppliedBookAgrees ==
    ASSUME NEW row \in OrderRow, NEW book \in Books, NEW e \in Event, NEW m, m.row = row,
           BookAgrees(row, book), Applicable(m, e), e.amount = QuotedAmount, e.fee <= e.amount
    PROVE  BookAgrees(AppliedRow(row, e), AppliedBook(book, e))
<1>1. AllowedPayment(row.payment_status, e.type)
  BY DEF Applicable
<1>2. e.amount \in Nat /\ e.fee \in Nat /\ -e.fee \in Int /\ -e.amount \in Int
  BY DEF Event
<1>3. /\ "gross_collected" \in Categories \ {"refund"}
      /\ "processing_fee" \in Categories \ {"refund"}
      /\ "refund" \in Categories \ {"gross_collected", "processing_fee"}
  BY DEF Categories
<1> DEFINE after == AppliedRow(row, e)
           booked == AppliedBook(book, e)
<1>4. CASE e.type = "captured"
  <2>1. row.payment_status = "pending"
    BY <1>1, <1>4, PaymentMoves
  <2>2. /\ book["gross_collected"] = [rows |-> 0, amount |-> 0, impact |-> 0]
        /\ book["refund"] = [rows |-> 0, amount |-> 0, impact |-> 0]
        /\ row.refunded = 0
        /\ book["processing_fee"] = [rows |-> 0, amount |-> row.fee, impact |-> -row.fee]
        /\ row.fee = 0
    BY <2>1, ConstantsAssumption DEF BookAgrees, PaidStatus, OrderRow
  <2>3. /\ booked["gross_collected"] = [rows |-> 1, amount |-> e.amount, impact |-> e.amount]
        /\ booked["processing_fee"] = [rows |-> 1, amount |-> e.fee, impact |-> -e.fee]
        /\ booked["refund"] = book["refund"]
    <3> HIDE DEF booked
    <3>1. /\ booked["gross_collected"] =
               [rows |-> 0 + 1, amount |-> 0 + e.amount, impact |-> 0 + e.amount]
          /\ booked["processing_fee"] = [rows |-> 0 + 1, amount |-> 0 + e.fee, impact |-> 0 + (-e.fee)]
          /\ booked["refund"] = book["refund"]
      BY <1>3, <1>4, <2>2, CapturedBook DEF booked
    <3>2. QED
      BY <1>2, <3>1
  <2>4. /\ after.collected = QuotedAmount /\ after.fee = e.fee
        /\ after.refunded = 0 /\ after.payment_status = "captured"
    BY <1>4, <2>2 DEF AppliedRow, OrderRow
  <2> HIDE DEF after, booked
  <2>5. BookAgrees(after, booked)
    BY <1>2, <2>2, <2>3, <2>4, ConstantsAssumption DEF BookAgrees, PaidStatus
  <2>6. QED
    BY <2>5 DEF after, booked
<1>5. CASE e.type = "refunded"
  <2>1. row.payment_status = "refund_pending"
    BY <1>1, <1>5, PaymentMoves
  <2>2. /\ book["refund"] = [rows |-> 0, amount |-> 0, impact |-> 0]
        /\ row.collected = QuotedAmount /\ row.fee <= row.collected
        /\ book["gross_collected"] = [rows |-> 1, amount |-> row.collected, impact |-> row.collected]
        /\ book["processing_fee"] = [rows |-> 1, amount |-> row.fee, impact |-> -row.fee]
    BY <2>1, ConstantsAssumption DEF BookAgrees, PaidStatus, OrderRow
  <2>3. /\ booked["refund"] = [rows |-> 1, amount |-> e.amount, impact |-> -e.amount]
        /\ booked["gross_collected"] = book["gross_collected"]
        /\ booked["processing_fee"] = book["processing_fee"]
    <3> HIDE DEF booked
    <3>1. /\ booked["refund"] = [rows |-> 0 + 1, amount |-> 0 + e.amount, impact |-> 0 + (-e.amount)]
          /\ booked["gross_collected"] = book["gross_collected"]
          /\ booked["processing_fee"] = book["processing_fee"]
      BY <1>3, <1>5, <2>2, RefundedBook DEF booked
    <3>2. QED
      BY <1>2, <3>1
  <2>4. /\ after.collected = row.collected /\ after.fee = row.fee
        /\ after.refunded = QuotedAmount /\ after.payment_status = "refunded"
    BY <1>5 DEF AppliedRow, OrderRow
  <2> HIDE DEF after, booked
  <2>5. BookAgrees(after, booked)
    BY <1>2, <2>2, <2>3, <2>4, ConstantsAssumption DEF BookAgrees, PaidStatus
  <2>6. QED
    BY <2>5 DEF after, booked
<1>6. CASE e.type \notin {"captured", "refunded"}
  <2>1. booked = book
    BY <1>6 DEF AppliedBook
  <2>2. /\ after.collected = row.collected /\ after.fee = row.fee
        /\ after.refunded = row.refunded /\ after.payment_status = e.type
    BY <1>6 DEF AppliedRow, OrderRow
  <2>3. row.payment_status \in PaidStatus <=> e.type \in PaidStatus
    BY <1>1, <1>6, PaymentMoves DEF PaidStatus
  <2>4. row.payment_status # "refunded"
    BY <1>1, PaymentMoves
  <2> HIDE DEF after, booked
  <2>5. BookAgrees(after, booked)
    BY <1>6, <2>1, <2>2, <2>3, <2>4 DEF BookAgrees
  <2>6. QED
    BY <2>5 DEF after, booked
<1>7. QED
  BY <1>4, <1>5, <1>6

(* A move appended where the chain ends lengthens the chain.               *)
LEMMA ChainedAppend ==
    ASSUME NEW moves \in Moves, NEW table, NEW first, NEW last, NEW next,
           Chained(moves, table, first, last), <<last, next>> \in table
    PROVE  Chained(Append(moves, <<last, next>>), table, first, next)
<1> DEFINE longer == Append(moves, <<last, next>>)
<1>1. /\ Len(moves) \in Nat /\ Len(longer) = Len(moves) + 1
      /\ longer[Len(moves) + 1] = <<last, next>>
      /\ \A n \in 1 .. Len(moves) : longer[n] = moves[n]
      /\ longer # <<>>
      /\ moves = <<>> <=> Len(moves) = 0
  BY DEF Moves
<1> HIDE DEF longer
<1>2. longer[1][1] = first
  BY <1>1 DEF Chained
<1>3. \A n \in 1 .. Len(longer) : longer[n] \in table
  BY <1>1 DEF Chained
<1>4. ASSUME NEW n \in 1 .. Len(longer) - 1 PROVE longer[n][2] = longer[n + 1][1]
  <2>1. CASE n = Len(moves)
    BY <1>1, <2>1 DEF Chained
  <2>2. CASE n # Len(moves)
    <3>1. n \in 1 .. Len(moves) - 1 /\ n + 1 \in 1 .. Len(moves) /\ n \in 1 .. Len(moves)
      BY <1>1, <2>2
    <3>2. QED
      BY <1>1, <3>1 DEF Chained
  <2>3. QED
    BY <2>1, <2>2
<1>5. longer[Len(longer)][2] = next
  BY <1>1
<1>6. Chained(longer, table, first, next)
  BY <1>1, <1>2, <1>3, <1>4, <1>5 DEF Chained
<1>7. QED
  BY <1>6 DEF longer

LEMMA AppliedHistoryAgrees ==
    ASSUME NEW row \in OrderRow, NEW history \in History, NEW e \in Event, NEW m, m.row = row,
           RowCoherent(row), HistoryAgrees(row, history), row.payment # None, Applicable(m, e)
    PROVE  /\ AppliedHistory(history, row, e) \in History
           /\ HistoryAgrees(AppliedRow(row, e), AppliedHistory(history, row, e))
<1>1. AllowedPayment(row.payment_status, e.type)
  BY DEF Applicable
<1>2. history.order \in Moves /\ history.payment \in Moves
  BY DEF History
<1>3. e.type \in PaymentStatus /\ row.payment_status \in PaymentStatus
  BY DEF Event, EventTypes, OrderRow
<1>4. /\ AppliedRow(row, e).payment_status = e.type
      /\ AppliedRow(row, e).order_status = OrderTarget(row, e)
  BY DEF AppliedRow, OrderRow
<1> DEFINE paid == Append(history.payment, <<row.payment_status, e.type>>)
           moved == Append(history.order, <<row.order_status, OrderTarget(row, e)>>)
           table == ORDER_TRANSITIONS \cup {<<"absent", "checkout_pending">>}
<1>5. Chained(paid, PAYMENT_TRANSITIONS, "pending", e.type)
  BY <1>1, <1>2, ChainedAppend DEF HistoryAgrees, AllowedPayment
<1>6. paid \in Moves
  BY <1>2, <1>3 DEF Moves
<1>7. MovesOrder(e) => /\ Chained(moved, table, "absent", OrderTarget(row, e))
                       /\ moved \in Moves
  <2> SUFFICES ASSUME MovesOrder(e)
               PROVE  Chained(moved, table, "absent", OrderTarget(row, e)) /\ moved \in Moves
    OBVIOUS
  <2>1. row.order_status = "payment_pending"
    BY <1>1, PaymentMoves DEF MovesOrder, Applicable, RowCoherent
  <2>2. OrderTarget(row, e) \in {"queued", "payment_failed"}
    BY DEF MovesOrder, OrderTarget
  <2>3. <<row.order_status, OrderTarget(row, e)>> \in table
    BY <2>1, <2>2 DEF ORDER_TRANSITIONS
  <2>4. Chained(moved, table, "absent", OrderTarget(row, e))
    BY <1>2, <2>3, ChainedAppend DEF HistoryAgrees
  <2>5. moved \in Moves
    BY <1>2, <2>1, <2>2 DEF Moves, OrderStatus
  <2>6. QED
    BY <2>4, <2>5
<1>8. ~MovesOrder(e) => OrderTarget(row, e) = row.order_status
  BY DEF MovesOrder, OrderTarget
<1>9. AppliedHistory(history, row, e) =
        [payment |-> paid, order |-> IF MovesOrder(e) THEN moved ELSE history.order]
  BY DEF AppliedHistory
<1> HIDE DEF paid, moved
<1>10. QED
  BY <1>2, <1>4, <1>5, <1>6, <1>7, <1>8, <1>9 DEF HistoryAgrees, History

-------------------------------------------------------------------------------
(* One visit *)

Machine ==
    [row: OrderRow, book: Books, history: History, log: [EventIds -> EventRow],
     todo: SUBSET EventIds, progress: BOOLEAN]

(* ORDER BY received_at, event_id picks a first row among any rows.        *)
LEMMA EarliestExists ==
    ASSUME NEW log \in [EventIds -> EventRow], NEW T, T \subseteq EventIds, T # {}
    PROVE  \E i \in T : \A j \in T \ {i} : Earlier(log, i, j)
<1>1. EventIds \subseteq Nat /\ \A i \in EventIds : log[i].received_at \in Nat
  BY ConstantsAssumption DEF EventRow
<1> DEFINE times == {log[i].received_at : i \in T}
<1>2. PICK t \in times : \A k \in times : t <= k
  <2>1. times \subseteq Nat /\ times # {}
    BY <1>1
  <2> HIDE DEF times
  <2>2. QED
    BY <2>1, LeastElement
<1> DEFINE first == {i \in T : log[i].received_at = t}
<1>3. PICK i \in first : \A k \in first : i <= k
  <2>1. first \subseteq Nat /\ first # {}
    BY <1>1, <1>2
  <2> HIDE DEF first
  <2>2. QED
    BY <2>1, LeastElement
<1>4. ASSUME NEW j \in T \ {i} PROVE Earlier(log, i, j)
  <2>1. log[i].received_at = t /\ t <= log[j].received_at /\ i \in T
    BY <1>2, <1>3
  <2>2. CASE log[j].received_at = t
    BY <1>1, <1>3, <2>1, <2>2 DEF Earlier
  <2>3. CASE log[j].received_at # t
    BY <1>1, <2>1, <2>3 DEF Earlier
  <2>4. QED
    BY <2>2, <2>3
<1>5. QED
  BY <1>3, <1>4

(* The three ways a visit can end: the event stays, it is settled without  *)
(* an effect, or it is applied.                                            *)
Stays(x, i) == [x EXCEPT !.todo = @ \ {i}]
Settles(x, i, verdict) ==
    [row |-> x.row, book |-> x.book, history |-> x.history,
     log |-> MarkEvent(x.log, i, verdict), todo |-> x.todo \ {i}, progress |-> TRUE]
Applies(x, i) ==
    LET e == x.log[i].event IN
    [row |-> AppliedRow(x.row, e), book |-> AppliedBook(x.book, e),
     history |-> AppliedHistory(x.history, x.row, e),
     log |-> MarkEvent(x.log, i, "applied"), todo |-> x.todo \ {i}, progress |-> TRUE]

Settled == {"applied_duplicate_effect", "rejected_amount_mismatch", "rejected_effect_conflict"}

(* A record updated in several fields, as the record it is.                *)
LEMMA MarkedRecord ==
    ASSUME NEW x \in Machine, NEW log
    PROVE  [x EXCEPT !.log = log, !.progress = TRUE] =
             [row |-> x.row, book |-> x.book, history |-> x.history, log |-> log,
              todo |-> x.todo, progress |-> TRUE]
<1> DEFINE updated == [x EXCEPT !.log = log, !.progress = TRUE]
           literal == [row |-> x.row, book |-> x.book, history |-> x.history, log |-> log,
                       todo |-> x.todo, progress |-> TRUE]
           Records == [row: OrderRow, book: Books, history: History,
                       log: [EventIds -> EventRow] \cup {log}, todo: SUBSET EventIds,
                       progress: BOOLEAN]
<1>1. updated \in Records /\ literal \in Records
  BY DEF Machine
<1>2. /\ updated.row = literal.row /\ updated.book = literal.book
      /\ updated.history = literal.history /\ updated.log = literal.log
      /\ updated.todo = literal.todo /\ updated.progress = literal.progress
  BY DEF Machine
<1> HIDE DEF updated, literal
<1>3. updated = literal
  BY <1>1, <1>2
<1>4. QED
  BY <1>3 DEF updated, literal

LEMMA AppliedRecord ==
    ASSUME NEW x \in Machine, NEW row, NEW book, NEW history
    PROVE  [x EXCEPT !.row = row, !.book = book, !.history = history] =
             [row |-> row, book |-> book, history |-> history, log |-> x.log,
              todo |-> x.todo, progress |-> x.progress]
<1> DEFINE updated == [x EXCEPT !.row = row, !.book = book, !.history = history]
           literal == [row |-> row, book |-> book, history |-> history, log |-> x.log,
                       todo |-> x.todo, progress |-> x.progress]
           Records == [row: OrderRow \cup {row}, book: Books \cup {book},
                       history: History \cup {history},
                       log: [EventIds -> EventRow], todo: SUBSET EventIds, progress: BOOLEAN]
<1>1. literal \in Records /\ updated \in Records
  BY DEF Machine
<1>2. /\ updated.row = literal.row /\ updated.book = literal.book
      /\ updated.history = literal.history /\ updated.log = literal.log
      /\ updated.todo = literal.todo /\ updated.progress = literal.progress
  BY DEF Machine
<1> HIDE DEF updated, literal
<1>3. updated = literal
  BY <1>1, <1>2
<1>4. QED
  BY <1>3 DEF updated, literal

LEMMA MarkEventType ==
    ASSUME NEW log \in [EventIds -> EventRow], NEW i \in EventIds,
           NEW status \in Settled \cup {"applied"}
    PROVE  /\ MarkEvent(log, i, status) \in [EventIds -> EventRow]
           /\ MarkEvent(log, i, status)[i].status = status
           /\ MarkEvent(log, i, status)[i].event = log[i].event
           /\ MarkEvent(log, i, status)[i].received_at = log[i].received_at
           /\ \A j \in EventIds \ {i} : MarkEvent(log, i, status)[j] = log[j]
BY DEF MarkEvent, EventRow, Settled

LEMMA VisitCases ==
    ASSUME NEW x \in Machine, x.todo # {}
    PROVE  \E i \in x.todo :
              \/ VisitNext(x) = Stays(x, i) /\ Verdict(x, x.log[i].event) = "pending"
              \/ \E verdict \in Settled :
                   VisitNext(x) = Settles(x, i, verdict) /\ Verdict(x, x.log[i].event) = verdict
              \/ /\ VisitNext(x) = Applies(x, i)
                 /\ Applicable(x, x.log[i].event)
                 /\ x.log[i].event.amount = QuotedAmount
<1> DEFINE i == CHOOSE i \in x.todo : \A j \in x.todo \ {i} : Earlier(x.log, i, j)
           e == x.log[i].event
           verdict == Verdict(x, e)
<1>1. x.log \in [EventIds -> EventRow] /\ x.todo \subseteq EventIds
  BY DEF Machine
<1>2. i \in x.todo
  BY <1>1, EarliestExists
<1>3. verdict \in Settled \cup {"pending", "applied"}
  BY DEF Verdict, Settled
<1>4. verdict = "applied" => Applicable(x, e) /\ e.amount = QuotedAmount
  BY DEF Verdict
<1> DEFINE visited == [x EXCEPT !.todo = @ \ {i}]
           marked == [visited EXCEPT !.log = MarkEvent(x.log, i, verdict), !.progress = TRUE]
<1>5. VisitNext(x) =
        IF verdict = "pending" THEN visited
        ELSE IF verdict # "applied" THEN marked
        ELSE [marked EXCEPT !.row     = AppliedRow(x.row, e),
                            !.book    = AppliedBook(x.book, e),
                            !.history = AppliedHistory(x.history, x.row, e)]
  BY DEF VisitNext
<1>6. marked = Settles(x, i, verdict)
  <2> HIDE DEF i, verdict
  <2>1. /\ visited \in Machine /\ visited.row = x.row /\ visited.book = x.book
        /\ visited.history = x.history /\ visited.todo = x.todo \ {i}
    BY DEF Machine
  <2> HIDE DEF visited
  <2>2. marked = [row |-> visited.row, book |-> visited.book, history |-> visited.history,
                  log |-> MarkEvent(x.log, i, verdict), todo |-> visited.todo, progress |-> TRUE]
    BY <2>1, MarkedRecord, Zenon
  <2>3. QED
    BY <2>1, <2>2 DEF Settles
<1>7. verdict = "applied" =>
        [marked EXCEPT !.row     = AppliedRow(x.row, e),
                       !.book    = AppliedBook(x.book, e),
                       !.history = AppliedHistory(x.history, x.row, e)] = Applies(x, i)
  <2> HIDE DEF i, verdict, marked, e
  <2> SUFFICES ASSUME verdict = "applied"
               PROVE  [marked EXCEPT !.row     = AppliedRow(x.row, e),
                                     !.book    = AppliedBook(x.book, e),
                                     !.history = AppliedHistory(x.history, x.row, e)] = Applies(x, i)
    OBVIOUS
  <2>1. MarkEvent(x.log, i, verdict) \in [EventIds -> EventRow]
    BY <1>1, <1>2, MarkEventType
  <2>2. marked \in Machine
    BY <1>6, <2>1 DEF Settles, Machine
  <2>3. [marked EXCEPT !.row     = AppliedRow(x.row, e),
                       !.book    = AppliedBook(x.book, e),
                       !.history = AppliedHistory(x.history, x.row, e)] =
        [row |-> AppliedRow(x.row, e), book |-> AppliedBook(x.book, e),
         history |-> AppliedHistory(x.history, x.row, e),
         log |-> marked.log, todo |-> marked.todo, progress |-> marked.progress]
    BY <2>2, AppliedRecord, Zenon
  <2>4. /\ marked.log = MarkEvent(x.log, i, "applied")
        /\ marked.todo = x.todo \ {i} /\ marked.progress = TRUE
    BY <1>6 DEF Settles
  <2>5. QED
    BY <2>3, <2>4 DEF Applies, e
<1>8. visited = Stays(x, i)
  BY DEF Stays
<1>9. verdict = Verdict(x, x.log[i].event)
  OBVIOUS
<1> HIDE DEF i, verdict, marked, visited
<1>10. CASE verdict = "pending"
  BY <1>2, <1>5, <1>8, <1>10, <1>9
<1>11. CASE verdict \in Settled
  BY <1>2, <1>5, <1>6, <1>11, <1>9 DEF Settled
<1>12. CASE verdict = "applied"
  BY <1>2, <1>4, <1>5, <1>7, <1>12
<1>13. QED
  BY <1>3, <1>10, <1>11, <1>12

-------------------------------------------------------------------------------
(* What the loop keeps *)

(* The payment statuses a payment can still have once a move to target was *)
(* applied to it; target itself is never entered a second time.            *)
After(target) ==
    IF target = "captured" THEN PaidStatus
    ELSE IF target = "available" THEN PaidStatus \ {"captured"}
    ELSE IF target = "refund_pending" THEN {"refund_pending", "refunded", "disputed"}
    ELSE {target}

LEMMA AfterMoves ==
    ASSUME NEW target, target # "pending", NEW current, NEW next, AllowedPayment(current, next), current \in After(target)
    PROVE  next \in After(target) /\ next # target
BY PaymentMoves DEF After, PaidStatus

EventsKnown(log) ==
    \A i \in EventIds : log[i].status # "absent" => log[i].event \in Feed /\ EventValid(log[i].event)

EffectsReached(row, log) ==
    \A i \in EventIds :
        log[i].status = "applied" /\ log[i].event.payment = row.payment
          => row.payment_status \in After(log[i].event.type)

AppliedOnce(log) ==
    \A i, j \in EventIds :
        (/\ i # j
         /\ log[i].status = "applied"
         /\ log[j].status = "applied"
         /\ log[i].event.payment = log[j].event.payment)
        => log[i].event.type # log[j].event.type

(* Events waiting to be visited are pending events of the order's payment. *)
Visitable(x) ==
    \A i \in x.todo : x.log[i].status = "pending" /\ x.log[i].event.payment = x.row.payment

Sound(x) ==
    /\ x.row.payment # None
    /\ EventsKnown(x.log) /\ Visitable(x)
    /\ EffectsReached(x.row, x.log) /\ AppliedOnce(x.log)
    /\ RowCoherent(x.row) /\ BookAgrees(x.row, x.book) /\ HistoryAgrees(x.row, x.history)

(* What no payment event touches, and what it only adds to.                *)
RowKept(row, after) ==
    /\ after.checkout = row.checkout /\ after.payment = row.payment
    /\ after.provider = row.provider /\ after.receipt = row.receipt
    /\ after.costs_recorded = row.costs_recorded
    /\ after.delivery_status = row.delivery_status
    /\ after.order_status = "delivered" <=> row.order_status = "delivered"

BookKept(book, after) == \A c \in CostCategories : after[c] = book[c]

LogKept(log, after) ==
    \A i \in EventIds :
        /\ after[i].status = "absent" <=> log[i].status = "absent"
        /\ after[i].event = log[i].event
        /\ after[i].received_at = log[i].received_at
        /\ log[i].status # "pending" => after[i].status = log[i].status

Extends(moves, after) ==
    /\ Len(moves) <= Len(after)
    /\ \A n \in 1 .. Len(moves) : after[n] = moves[n]

HistoryKept(history, after) ==
    Extends(history.order, after.order) /\ Extends(history.payment, after.payment)

(* Events of other payments are not even looked at.                        *)
OthersKept(x, y) ==
    \A i \in EventIds : x.log[i].event.payment # x.row.payment => y.log[i] = x.log[i]

Kept(x, y) ==
    /\ RowKept(x.row, y.row) /\ BookKept(x.book, y.book)
    /\ LogKept(x.log, y.log) /\ OthersKept(x, y) /\ HistoryKept(x.history, y.history)

LEMMA KeptReflexive ==
    ASSUME NEW x \in Machine PROVE Kept(x, x)
BY DEF Kept, RowKept, BookKept, LogKept, OthersKept, HistoryKept, Extends, Machine, History, Moves

LEMMA ExtendsTransitive ==
    ASSUME NEW a \in Moves, NEW b \in Moves, NEW c \in Moves, Extends(a, b), Extends(b, c)
    PROVE  Extends(a, c)
BY DEF Extends, Moves

LEMMA KeptTransitive ==
    ASSUME NEW x \in Machine, NEW y \in Machine, NEW z \in Machine, Kept(x, y), Kept(y, z)
    PROVE  Kept(x, z)
<1>1. RowKept(x.row, z.row)
  BY DEF Kept, RowKept
<1>2. BookKept(x.book, z.book)
  BY DEF Kept, BookKept
<1>3. LogKept(x.log, z.log)
  BY DEF Kept, LogKept
<1>4. HistoryKept(x.history, z.history)
  BY ExtendsTransitive DEF Kept, HistoryKept, Machine, History
<1>5. OthersKept(x, z)
  BY DEF Kept, OthersKept, RowKept, LogKept
<1>6. QED
  BY <1>1, <1>2, <1>3, <1>4, <1>5 DEF Kept

LEMMA AppendExtends ==
    ASSUME NEW moves \in Moves, NEW move PROVE Extends(moves, Append(moves, move))
BY DEF Extends, Moves

LEMMA AppliedKept ==
    ASSUME NEW row \in OrderRow, NEW book \in Books, NEW history \in History,
           NEW e \in Event, NEW m, m.row = row, RowCoherent(row), row.payment # None, Applicable(m, e)
    PROVE  /\ RowKept(row, AppliedRow(row, e))
           /\ BookKept(book, AppliedBook(book, e))
           /\ HistoryKept(history, AppliedHistory(history, row, e))
<1>1. RowKept(row, AppliedRow(row, e))
  <2>1. AllowedPayment(row.payment_status, e.type)
    BY DEF Applicable
  <2>2. OrderTarget(row, e) = "delivered" <=> row.order_status = "delivered"
    BY <2>1, PaymentMoves DEF OrderTarget, Applicable, RowCoherent
  <2>3. QED
    BY <2>2 DEF AppliedRow, OrderRow, RowKept
<1>2. BookKept(book, AppliedBook(book, e))
  BY AppliedBookType DEF BookKept
<1>3. HistoryKept(history, AppliedHistory(history, row, e))
  <2>1. history.order \in Moves /\ history.payment \in Moves
    BY DEF History
  <2>2. Extends(history.order, history.order)
    BY <2>1 DEF Extends, Moves
  <2>3. QED
    BY <2>1, <2>2, AppendExtends DEF HistoryKept, AppliedHistory
<1>4. QED
  BY <1>1, <1>2, <1>3

LEMMA KnownEvent ==
    ASSUME NEW log \in [EventIds -> EventRow], EventsKnown(log), NEW i \in EventIds,
           log[i].status # "absent"
    PROVE  /\ log[i].event \in Event /\ log[i].event.fee <= log[i].event.amount
           /\ log[i].event.type # "pending"
BY ConstantsAssumption DEF EventsKnown, EventValid, Event, EventTypes

(* Marking one pending event keeps everything said of the other events.    *)
LEMMA MarkedLog ==
    ASSUME NEW log \in [EventIds -> EventRow], NEW i \in EventIds, log[i].status = "pending",
           EventsKnown(log), NEW status \in Settled \cup {"applied"}
    PROVE  EventsKnown(MarkEvent(log, i, status)) /\ LogKept(log, MarkEvent(log, i, status))
<1> DEFINE after == MarkEvent(log, i, status)
<1>1. /\ after[i].status = status /\ after[i].event = log[i].event
      /\ after[i].received_at = log[i].received_at
      /\ \A j \in EventIds \ {i} : after[j] = log[j]
  BY MarkEventType
<1>2. status \notin {"absent", "pending"}
  BY DEF Settled
<1> HIDE DEF after
<1>3. EventsKnown(after)
  BY <1>1, <1>2 DEF EventsKnown
<1>4. LogKept(log, after)
  BY <1>1, <1>2 DEF LogKept
<1>5. QED
  BY <1>3, <1>4 DEF after

LEMMA StaysSound ==
    ASSUME NEW x \in Machine, Sound(x), NEW i \in x.todo
    PROVE  Stays(x, i) \in Machine /\ Sound(Stays(x, i)) /\ Kept(x, Stays(x, i))
<1> DEFINE y == Stays(x, i)
<1>1. /\ y \in Machine /\ y.row = x.row /\ y.book = x.book /\ y.history = x.history
      /\ y.log = x.log /\ y.todo = x.todo \ {i}
  BY DEF Stays, Machine
<1>2. Kept(x, x)
  BY KeptReflexive
<1> HIDE DEF y
<1>3. Sound(y) /\ Kept(x, y)
  BY <1>1, <1>2 DEF Sound, Visitable, Kept, OthersKept
<1>4. QED
  BY <1>1, <1>3 DEF y

LEMMA SettlesSound ==
    ASSUME NEW x \in Machine, Sound(x), NEW i \in x.todo, NEW verdict \in Settled
    PROVE  /\ Settles(x, i, verdict) \in Machine /\ Sound(Settles(x, i, verdict))
           /\ Kept(x, Settles(x, i, verdict))
<1> DEFINE log == MarkEvent(x.log, i, verdict)
           y == Settles(x, i, verdict)
<1>1. /\ x.log \in [EventIds -> EventRow] /\ i \in EventIds /\ x.log[i].status = "pending"
      /\ x.todo \subseteq EventIds
  BY DEF Machine, Sound, Visitable
<1>2. /\ log \in [EventIds -> EventRow] /\ log[i].status = verdict
      /\ \A j \in EventIds \ {i} : log[j] = x.log[j]
  BY <1>1, MarkEventType
<1>3. EventsKnown(log) /\ LogKept(x.log, log)
  BY <1>1, MarkedLog DEF Sound
<1>4. verdict # "applied"
  BY DEF Settled
<1> HIDE DEF log
<1>5. /\ y \in Machine /\ y.row = x.row /\ y.book = x.book /\ y.history = x.history
      /\ y.log = log /\ y.todo = x.todo \ {i}
  BY <1>2 DEF Settles, Machine, log
<1> HIDE DEF y
<1>6. Visitable(y)
  BY <1>1, <1>2, <1>5 DEF Sound, Visitable
<1>7. EffectsReached(y.row, y.log)
  BY <1>2, <1>4, <1>5 DEF Sound, EffectsReached
<1>8. AppliedOnce(y.log)
  <2>1. \A j \in EventIds : log[j].status = "applied" => j # i /\ log[j] = x.log[j]
    BY <1>2, <1>4
  <2>2. QED
    BY <1>5, <2>1 DEF Sound, AppliedOnce
<1>9. Sound(y)
  BY <1>3, <1>5, <1>6, <1>7, <1>8 DEF Sound
<1>10. Kept(x, y)
  <2>1. OthersKept(x, y)
    BY <1>2, <1>5 DEF OthersKept, Sound, Visitable
  <2>2. QED
    BY <1>3, <1>5, <2>1, KeptReflexive DEF Kept
<1>11. QED
  BY <1>5, <1>9, <1>10 DEF y

LEMMA MachineRecord ==
    ASSUME NEW row \in OrderRow, NEW book \in Books, NEW history \in History,
           NEW log \in [EventIds -> EventRow], NEW todo \in SUBSET EventIds
    PROVE  [row |-> row, book |-> book, history |-> history, log |-> log,
            todo |-> todo, progress |-> TRUE] \in Machine
BY DEF Machine

LEMMA AppliesSound ==
    ASSUME NEW x \in Machine, Sound(x), NEW i \in x.todo,
           Applicable(x, x.log[i].event), x.log[i].event.amount = QuotedAmount
    PROVE  /\ Applies(x, i) \in Machine /\ Sound(Applies(x, i))
           /\ Kept(x, Applies(x, i))
<1> DEFINE log == MarkEvent(x.log, i, "applied")
           e == x.log[i].event
           y == Applies(x, i)
<1>1. /\ x.log \in [EventIds -> EventRow] /\ i \in EventIds /\ x.log[i].status = "pending"
      /\ x.todo \subseteq EventIds /\ x.log[i].event.payment = x.row.payment
      /\ x.row \in OrderRow /\ x.book \in Books /\ x.history \in History
  BY DEF Machine, Sound, Visitable
<1>2. /\ log \in [EventIds -> EventRow] /\ log[i].status = "applied"
      /\ log[i].event = x.log[i].event
      /\ \A j \in EventIds \ {i} : log[j] = x.log[j]
  BY <1>1, MarkEventType
<1>3. EventsKnown(log) /\ LogKept(x.log, log)
  BY <1>1, MarkedLog DEF Sound
<1>4. e \in Event /\ e.fee <= e.amount /\ e.type # "pending"
  BY <1>1, KnownEvent DEF Sound
<1>5. AllowedPayment(x.row.payment_status, e.type)
  BY DEF Applicable
<1> HIDE DEF log
<1>6. /\ y.row = AppliedRow(x.row, e) /\ y.book = AppliedBook(x.book, e)
      /\ y.history = AppliedHistory(x.history, x.row, e) /\ y.log = log
      /\ y.todo = x.todo \ {i}
  BY DEF Applies, log
<1>7. /\ y.row \in OrderRow /\ RowCoherent(y.row) /\ y.row.payment_status = e.type
      /\ y.row.payment = x.row.payment
  <2>1. AppliedRow(x.row, e).payment_status = e.type /\ AppliedRow(x.row, e).payment = x.row.payment
    BY <1>1 DEF AppliedRow, OrderRow
  <2>2. QED
    BY <1>1, <1>4, <1>6, <2>1, AppliedRowType, AppliedRowCoherent DEF Sound
<1>8. y.book \in Books /\ BookAgrees(y.row, y.book)
  BY <1>1, <1>4, <1>6, AppliedBookType, AppliedBookAgrees DEF Sound
<1>9. y.history \in History /\ HistoryAgrees(y.row, y.history)
  BY <1>1, <1>4, <1>6, AppliedHistoryAgrees DEF Sound
<1>10. RowKept(x.row, y.row) /\ BookKept(x.book, y.book) /\ HistoryKept(x.history, y.history)
  BY <1>1, <1>4, <1>6, AppliedKept DEF Sound
<1>11. y \in Machine
  <2>1. y = [row |-> y.row, book |-> y.book, history |-> y.history, log |-> y.log,
             todo |-> y.todo, progress |-> TRUE]
    BY DEF Applies
  <2>2. y.log \in [EventIds -> EventRow] /\ y.todo \in SUBSET EventIds
    BY <1>1, <1>2, <1>6
  <2> HIDE DEF y
  <2>3. QED
    BY <1>7, <1>8, <1>9, <2>1, <2>2, MachineRecord, Zenon
<1> HIDE DEF y
<1>12. Visitable(y)
  BY <1>1, <1>2, <1>6, <1>7 DEF Sound, Visitable
<1> HIDE DEF e
<1>13. EffectsReached(y.row, y.log)
  <2> SUFFICES ASSUME NEW j \in EventIds, log[j].status = "applied",
                      log[j].event.payment = x.row.payment
               PROVE  e.type \in After(log[j].event.type)
    BY <1>6, <1>7 DEF EffectsReached
  <2>1. CASE j = i
    BY <1>2, <2>1 DEF After, PaidStatus, e
  <2>2. CASE j # i
    <3>1. log[j] = x.log[j] /\ x.row.payment_status \in After(x.log[j].event.type)
      BY <1>2, <2>2 DEF Sound, EffectsReached
    <3>2. x.log[j].event.type # "pending"
      BY <1>1, <3>1, KnownEvent DEF Sound
    <3>3. QED
      BY <1>5, <3>1, <3>2, AfterMoves
  <2>3. QED
    BY <2>1, <2>2
<1>14. AppliedOnce(y.log)
  <2>1. ASSUME NEW j \in EventIds \ {i}, log[j].status = "applied",
               log[j].event.payment = x.row.payment
        PROVE  log[j].event.type # e.type
    <3>1. log[j] = x.log[j] /\ x.row.payment_status \in After(x.log[j].event.type)
      BY <1>2, <2>1 DEF Sound, EffectsReached
    <3>2. x.log[j].event.type # "pending"
      BY <1>1, <2>1, <3>1, KnownEvent DEF Sound
    <3>3. QED
      BY <1>5, <3>1, <3>2, AfterMoves
  <2>2. log[i].event = e /\ e.payment = x.row.payment
    BY <1>1, <1>2 DEF e
  <2>3. \A j \in EventIds \ {i} : log[j] = x.log[j]
    BY <1>2
  <2>4. AppliedOnce(x.log)
    BY DEF Sound
  <2>5. QED
    BY <1>6, <2>1, <2>2, <2>3, <2>4 DEF AppliedOnce
<1>15. Sound(y)
  BY <1>3, <1>6, <1>7, <1>8, <1>9, <1>12, <1>13, <1>14 DEF Sound
<1>16. Kept(x, y)
  <2>1. OthersKept(x, y)
    BY <1>1, <1>2, <1>6 DEF OthersKept
  <2>2. QED
    BY <1>3, <1>6, <1>10, <2>1 DEF Kept
<1>17. QED
  BY <1>11, <1>15, <1>16 DEF y

LEMMA LoopStepSound ==
    ASSUME NEW x \in Machine, Sound(x)
    PROVE  LoopStep(x) \in Machine /\ Sound(LoopStep(x)) /\ Kept(x, LoopStep(x))
<1>1. CASE x.todo # {}
  <2>1. LoopStep(x) = VisitNext(x)
    BY <1>1 DEF LoopStep
  <2>2. PICK i \in x.todo :
           \/ VisitNext(x) = Stays(x, i)
           \/ \E verdict \in Settled : VisitNext(x) = Settles(x, i, verdict)
           \/ /\ VisitNext(x) = Applies(x, i)
              /\ Applicable(x, x.log[i].event)
              /\ x.log[i].event.amount = QuotedAmount
    BY <1>1, VisitCases
  <2>3. CASE VisitNext(x) = Stays(x, i)
    BY <2>1, <2>3, StaysSound
  <2>4. ASSUME NEW verdict \in Settled, VisitNext(x) = Settles(x, i, verdict)
        PROVE  LoopStep(x) \in Machine /\ Sound(LoopStep(x)) /\ Kept(x, LoopStep(x))
    BY <2>1, <2>4, SettlesSound
  <2>5. CASE /\ VisitNext(x) = Applies(x, i)
             /\ Applicable(x, x.log[i].event)
             /\ x.log[i].event.amount = QuotedAmount
    BY <2>1, <2>5, AppliesSound
  <2>6. QED
    BY <2>2, <2>3, <2>4, <2>5
<1>2. CASE x.todo = {} /\ x.progress
  <2> DEFINE y == [x EXCEPT !.todo = PendingEvents(x), !.progress = FALSE]
  <2>1. LoopStep(x) = y
    BY <1>2 DEF LoopStep
  <2>2. PendingEvents(x) \subseteq EventIds
    BY DEF PendingEvents
  <2>3. /\ y \in Machine /\ y.row = x.row /\ y.book = x.book /\ y.history = x.history
        /\ y.log = x.log /\ y.todo = PendingEvents(x)
    BY <2>2 DEF Machine
  <2> HIDE DEF y
  <2>4. Sound(y) /\ Kept(x, y)
    BY <2>3, KeptReflexive DEF Sound, Visitable, PendingEvents, Kept, OthersKept
  <2>5. QED
    BY <2>1, <2>3, <2>4
<1>3. CASE x.todo = {} /\ ~x.progress
  BY <1>3, KeptReflexive DEF LoopStep
<1>4. QED
  BY <1>1, <1>2, <1>3

(* The whole loop, from any sound machine.                                 *)
LEMMA ReconciledSound ==
    ASSUME NEW m \in Machine, Sound(m)
    PROVE  Reconciled(m) \in Machine /\ Sound(Reconciled(m)) /\ Kept(m, Reconciled(m))
<1> DEFINE S == {x \in Machine : Sound(x) /\ Kept(m, x)}
<1>1. m \in S
  BY KeptReflexive
<1>2. ASSUME NEW x \in S PROVE LoopStep(x) \in S
  BY LoopStepSound, KeptTransitive
<1> HIDE DEF S
<1>3. Reconciled(m) \in S
  BY <1>1, <1>2, ReconciledPreserves
<1>4. QED
  BY <1>3 DEF S

-------------------------------------------------------------------------------
(* The loop ends *)

(* Whole passes still to come, each a step longer than the events it may   *)
(* visit, and the visits left of this one.                                 *)
Passes(x) == Cardinality(PendingEvents(x)) + (IF x.progress THEN 1 ELSE 0)
StepsLeft(x) == Passes(x) * (Cardinality(EventIds) + 1) + Cardinality(x.todo)

Ended(x) == x.todo = {} /\ ~x.progress

(* Fewer passes left to start with full visits, or as many with fewer      *)
(* visits, is fewer steps.                                                 *)
LEMMA FewerSteps ==
    ASSUME NEW p \in Nat, NEW q \in Nat, NEW w \in Nat, NEW t \in Nat, NEW u \in Nat,
           \/ q <= p /\ u + 1 <= t
           \/ q + 1 <= p /\ u + 1 <= w
    PROVE  q * w + u + 1 <= p * w + t
<1>1. ASSUME q <= p PROVE q * w <= p * w
  <2>1. PICK d \in Nat : p = q + d
    <3>1. p - q \in Nat /\ p = q + (p - q)
      BY <1>1
    <3>2. QED
      BY <3>1
  <2>2. p * w = q * w + d * w /\ d * w \in Nat /\ q * w \in Nat
    BY <2>1
  <2>3. QED
    BY <2>2
<1>2. ASSUME q + 1 <= p PROVE q * w + w <= p * w
  <2>1. PICK d \in Nat : p = q + 1 + d
    <3>1. p - (q + 1) \in Nat /\ p = q + 1 + (p - (q + 1))
      BY <1>2
    <3>2. QED
      BY <3>1
  <2>2. p * w = q * w + w + d * w /\ d * w \in Nat /\ q * w \in Nat
    BY <2>1
  <2>3. QED
    BY <2>2
<1>3. p * w \in Nat /\ q * w \in Nat
  OBVIOUS
<1>4. CASE q <= p /\ u + 1 <= t
  BY <1>1, <1>3, <1>4
<1>5. CASE q + 1 <= p /\ u + 1 <= w
  BY <1>2, <1>3, <1>5
<1>6. QED
  BY <1>4, <1>5

LEMMA EventCount ==
    ASSUME NEW T \in SUBSET EventIds
    PROVE  /\ IsFiniteSet(T) /\ Cardinality(EventIds) \in Nat
           /\ Cardinality(T) \in Nat /\ Cardinality(T) <= Cardinality(EventIds)
           /\ \A i \in T : Cardinality(T \ {i}) = Cardinality(T) - 1
<1>1. IsFiniteSet(EventIds)
  BY ConstantsAssumption
<1>2. IsFiniteSet(T) /\ Cardinality(T) <= Cardinality(EventIds)
  BY <1>1, FS_Subset
<1>3. Cardinality(EventIds) \in Nat /\ Cardinality(T) \in Nat
  BY <1>1, <1>2, FS_CardinalityType
<1>4. \A i \in T : Cardinality(T \ {i}) = Cardinality(T) - 1
  BY <1>2, FS_RemoveElement
<1>5. QED
  BY <1>1, <1>2, <1>3, <1>4

LEMMA StepsLeftType ==
    ASSUME NEW x \in Machine
    PROVE  /\ PendingEvents(x) \in SUBSET EventIds /\ x.todo \in SUBSET EventIds
           /\ x.progress \in BOOLEAN
           /\ Cardinality(EventIds) + 1 \in Nat /\ Cardinality(x.todo) \in Nat
           /\ Passes(x) \in Nat /\ StepsLeft(x) \in Nat
<1>1. PendingEvents(x) \in SUBSET EventIds /\ x.todo \in SUBSET EventIds /\ x.progress \in BOOLEAN
  BY DEF PendingEvents, Machine
<1>2. Cardinality(PendingEvents(x)) \in Nat /\ Cardinality(x.todo) \in Nat /\ Cardinality(EventIds) \in Nat
  BY <1>1, EventCount
<1>3. Passes(x) \in Nat
  BY <1>2 DEF Passes
<1>4. QED
  BY <1>1, <1>2, <1>3 DEF StepsLeft

(* Fewer visits or fewer passes: what the steps of the loop have in common. *)
LEMMA MachineAdvances ==
    ASSUME NEW x \in Machine, NEW y \in Machine,
           \/ Passes(y) <= Passes(x) /\ Cardinality(y.todo) + 1 <= Cardinality(x.todo)
           \/ Passes(y) + 1 <= Passes(x) /\ Cardinality(y.todo) <= Cardinality(EventIds)
    PROVE  StepsLeft(y) + 1 <= StepsLeft(x)
<1> DEFINE w == Cardinality(EventIds) + 1
<1>1. /\ Passes(x) \in Nat /\ Passes(y) \in Nat /\ w \in Nat
      /\ Cardinality(x.todo) \in Nat /\ Cardinality(y.todo) \in Nat
  BY StepsLeftType
<1>2. Cardinality(EventIds) \in Nat
  BY EventCount
<1>3. \/ Passes(y) <= Passes(x) /\ Cardinality(y.todo) + 1 <= Cardinality(x.todo)
      \/ Passes(y) + 1 <= Passes(x) /\ Cardinality(y.todo) + 1 <= w
  BY <1>1, <1>2
<1> HIDE DEF w
<1>4. Passes(y) * w + Cardinality(y.todo) + 1 <= Passes(x) * w + Cardinality(x.todo)
  BY <1>1, <1>3, FewerSteps
<1>5. QED
  BY <1>4 DEF StepsLeft, w

(* A visit that settles its event: one event fewer is waiting, and one pass *)
(* more is due.                                                            *)
LEMMA SettledEventLeaves ==
    ASSUME NEW x \in Machine, Sound(x), NEW i \in x.todo, NEW y \in Machine,
           NEW status \in Settled \cup {"applied"}, y.log = MarkEvent(x.log, i, status),
           y.row.payment = x.row.payment, y.progress = TRUE, y.todo = x.todo \ {i}
    PROVE  StepsLeft(y) + 1 <= StepsLeft(x)
<1>1. /\ x.log \in [EventIds -> EventRow] /\ i \in EventIds
      /\ x.todo \in SUBSET EventIds /\ i \in PendingEvents(x)
  BY DEF Machine, Sound, Visitable, PendingEvents
<1>2. /\ y.log[i].status \notin {"pending"}
      /\ \A j \in EventIds \ {i} : y.log[j] = x.log[j]
  BY <1>1, MarkEventType DEF Settled
<1>3. PendingEvents(y) = PendingEvents(x) \ {i}
  BY <1>2 DEF PendingEvents
<1>4. /\ PendingEvents(x) \in SUBSET EventIds
      /\ Cardinality(PendingEvents(x)) \in Nat
      /\ Cardinality(PendingEvents(y)) = Cardinality(PendingEvents(x)) - 1
  BY <1>1, <1>3, StepsLeftType, EventCount
<1>5. Passes(y) <= Passes(x)
  BY <1>4 DEF Passes
<1>6. Cardinality(y.todo) + 1 <= Cardinality(x.todo)
  <2>1. Cardinality(x.todo) \in Nat /\ Cardinality(y.todo) = Cardinality(x.todo) - 1
    BY <1>1, EventCount
  <2>2. QED
    BY <2>1
<1>7. QED
  BY <1>5, <1>6, MachineAdvances

LEMMA LoopStepAdvances ==
    ASSUME NEW x \in Machine, Sound(x), ~Ended(x)
    PROVE  StepsLeft(LoopStep(x)) + 1 <= StepsLeft(x)
<1> DEFINE y == LoopStep(x)
<1>1. y \in Machine
  BY LoopStepSound
<1>2. x.todo \in SUBSET EventIds /\ Cardinality(x.todo) \in Nat /\ Cardinality(EventIds) \in Nat
  BY StepsLeftType, EventCount
<1>3. CASE x.todo # {}
  <2>1. y = VisitNext(x)
    BY <1>3 DEF LoopStep
  <2>2. PICK i \in x.todo :
           \/ VisitNext(x) = Stays(x, i)
           \/ \E verdict \in Settled : VisitNext(x) = Settles(x, i, verdict)
           \/ /\ VisitNext(x) = Applies(x, i)
              /\ Applicable(x, x.log[i].event)
              /\ x.log[i].event.amount = QuotedAmount
    BY <1>3, VisitCases
  <2>3. CASE VisitNext(x) = Stays(x, i)
    <3>1. /\ y.row = x.row /\ y.log = x.log /\ y.progress = x.progress /\ y.todo = x.todo \ {i}
      BY <2>1, <2>3 DEF Stays, Machine
    <3> HIDE DEF y
    <3>2. Passes(y) = Passes(x) /\ Passes(x) \in Nat
      BY <3>1, StepsLeftType DEF Passes, PendingEvents
    <3>3. Cardinality(y.todo) = Cardinality(x.todo) - 1
      BY <1>2, <3>1, EventCount
    <3>4. StepsLeft(y) + 1 <= StepsLeft(x)
      BY <1>1, <1>2, <3>2, <3>3, MachineAdvances
    <3>5. QED
      BY <3>4 DEF y
  <2>4. ASSUME NEW verdict \in Settled, VisitNext(x) = Settles(x, i, verdict)
        PROVE  StepsLeft(y) + 1 <= StepsLeft(x)
    <3>1. /\ y.row = x.row /\ y.log = MarkEvent(x.log, i, verdict) /\ y.progress = TRUE
          /\ y.todo = x.todo \ {i}
      BY <2>1, <2>4 DEF Settles
    <3> HIDE DEF y
    <3>2. QED
      BY <1>1, <3>1, SettledEventLeaves
  <2>5. CASE VisitNext(x) = Applies(x, i)
    <3>1. /\ y.row = AppliedRow(x.row, x.log[i].event) /\ y.log = MarkEvent(x.log, i, "applied")
          /\ y.progress = TRUE /\ y.todo = x.todo \ {i}
      BY <2>1, <2>5 DEF Applies
    <3>2. y.row.payment = x.row.payment
      BY LoopStepSound DEF Kept, RowKept
    <3> HIDE DEF y
    <3>3. StepsLeft(y) + 1 <= StepsLeft(x)
      BY <1>1, <3>1, <3>2, SettledEventLeaves
    <3>4. QED
      BY <3>3 DEF y
  <2>6. QED
    BY <2>2, <2>3, <2>4, <2>5
<1>4. CASE x.todo = {}
  <2>1. x.progress = TRUE
    BY <1>4, StepsLeftType DEF Ended
  <2>2. y = [x EXCEPT !.todo = PendingEvents(x), !.progress = FALSE]
    BY <1>4, <2>1 DEF LoopStep
  <2>3. y.row = x.row /\ y.log = x.log /\ y.todo = PendingEvents(x) /\ y.progress = FALSE
    BY <2>2 DEF Machine
  <2> HIDE DEF y
  <2>4. /\ PendingEvents(y) = PendingEvents(x) /\ PendingEvents(x) \in SUBSET EventIds
    BY <2>3, StepsLeftType DEF PendingEvents
  <2>5. /\ Cardinality(PendingEvents(x)) \in Nat
        /\ Cardinality(PendingEvents(x)) <= Cardinality(EventIds)
    BY <2>4, EventCount
  <2>6. Passes(y) + 1 <= Passes(x) /\ Cardinality(y.todo) <= Cardinality(EventIds)
    BY <2>1, <2>3, <2>4, <2>5 DEF Passes
  <2>7. StepsLeft(y) + 1 <= StepsLeft(x)
    BY <1>1, <2>6, MachineAdvances
  <2>8. QED
    BY <2>7 DEF y
<1>5. QED
  BY <1>3, <1>4

(* LoopBound steps are enough, whatever events are waiting: the loop that  *)
(* Reconciled cuts off there has ended by then.                            *)
LEMMA ReconciledEnds ==
    ASSUME NEW m \in Machine, Sound(m), m.todo = {} PROVE Ended(Reconciled(m))
<1>1. PICK run : /\ run[0] = m
                 /\ \A n \in Nat : run[n + 1] = LoopStep(run[n])
                 /\ Reconciled(m) = run[LoopBound]
  BY ReconciledRun
<1> DEFINE T == {n \in Nat : /\ run[n] \in Machine /\ Sound(run[n])
                             /\ Ended(run[n]) \/ StepsLeft(run[n]) + n <= StepsLeft(m)}
<1>2. StepsLeft(m) \in Nat
  BY StepsLeftType
<1>3. 0 \in T
  BY <1>1, <1>2
<1>4. ASSUME NEW n \in Nat, n \in T PROVE n + 1 \in T
  <2> DEFINE x == run[n]
             y == run[n + 1]
  <2>1. x \in Machine /\ Sound(x) /\ y = LoopStep(x)
    BY <1>1, <1>4
  <2>2. y \in Machine /\ Sound(y)
    BY <2>1, LoopStepSound
  <2>3. CASE Ended(x)
    <3>1. y = x
      BY <2>1, <2>3 DEF Ended, LoopStep
    <3>2. QED
      BY <2>2, <2>3, <3>1
  <2>4. CASE ~Ended(x)
    <3>1. StepsLeft(y) + 1 <= StepsLeft(x)
      BY <2>1, <2>4, LoopStepAdvances
    <3>2. StepsLeft(x) + n <= StepsLeft(m)
      BY <1>4, <2>4
    <3>3. StepsLeft(x) \in Nat /\ StepsLeft(y) \in Nat
      BY <2>1, <2>2, StepsLeftType
    <3> HIDE DEF x, y
    <3>4. StepsLeft(y) + (n + 1) <= StepsLeft(m)
      BY <1>2, <3>1, <3>2, <3>3
    <3>5. QED
      BY <2>2, <3>4 DEF y
  <2>5. QED
    BY <2>3, <2>4
<1> HIDE DEF T
<1>5. LoopBound \in T
  <2>1. Nat \subseteq T
    BY <1>3, <1>4, NatSetInduction
  <2>2. QED
    BY <2>1, LoopBoundType
<1>6. StepsLeft(m) < LoopBound
  <2> DEFINE N == Cardinality(EventIds)
  <2>1. N \in Nat /\ Passes(m) \in Nat /\ PendingEvents(m) \in SUBSET EventIds
    BY StepsLeftType, EventCount
  <2>2. Cardinality(PendingEvents(m)) \in Nat /\ Cardinality(PendingEvents(m)) <= N
    BY <2>1, EventCount
  <2>3. Passes(m) <= N + 1
    BY <2>1, <2>2 DEF Passes
  <2>4. StepsLeft(m) = Passes(m) * (N + 1)
    <3>1. Cardinality(m.todo) = 0
      BY FS_EmptySet
    <3>2. QED
      BY <2>1, <3>1 DEF StepsLeft
  <2> HIDE DEF N
  <2>5. PICK d \in Nat : N + 1 = Passes(m) + d
    <3>1. (N + 1) - Passes(m) \in Nat /\ N + 1 = Passes(m) + ((N + 1) - Passes(m))
      BY <2>1, <2>3
    <3>2. QED
      BY <3>1
  <2>6. (N + 1) * (N + 1) = Passes(m) * (N + 1) + d * (N + 1) /\ d * (N + 1) \in Nat
    BY <2>1, <2>5
  <2>7. (N + 2) * (N + 2) = (N + 1) * (N + 1) + 2 * N + 3
    BY <2>1
  <2>8. Passes(m) * (N + 1) \in Nat
    BY <2>1
  <2>9. Passes(m) * (N + 1) < (N + 2) * (N + 2)
    BY <2>1, <2>6, <2>7, <2>8
  <2>10. QED
    BY <2>4, <2>9 DEF LoopBound, N
<1>7. StepsLeft(run[LoopBound]) \in Nat
  BY <1>5, StepsLeftType DEF T
<1>8. Ended(run[LoopBound])
  BY <1>2, <1>5, <1>6, <1>7, LoopBoundType DEF T
<1>9. QED
  BY <1>1, <1>8

-------------------------------------------------------------------------------
(* How far the events have taken the payment *)

(* A stored event of the payment, with the quoted amount, reports the type. *)
Reported(row, log, type) ==
    \E i \in EventsOf(log, row.payment) :
        log[i].event.amount = QuotedAmount /\ log[i].event.type = type

(* The payment got where it is by moves the provider reported.             *)
Explained(row, log) ==
    /\ row.payment_status # "pending" => Reported(row, log, row.payment_status)
    /\ row.payment_status \in {"available", "refund_pending", "refunded"} =>
         Reported(row, log, "captured")
    /\ row.payment_status = "refunded" => Reported(row, log, "refund_pending")

(* The payment is no longer before a move that was reported and settled.   *)
Absorbed(row, log) ==
    \A i \in EventsOf(log, row.payment) :
        log[i].status # "pending" /\ log[i].event.amount = QuotedAmount =>
            row.payment_status \in After(log[i].event.type)

(* Nothing that waits could be settled now.                                *)
Quiet(row, log) ==
    \A i \in EventsOf(log, row.payment) :
        log[i].status = "pending" => Verdict([row |-> row], log[i].event) = "pending"

Follows(row, log) == Explained(row, log) /\ Absorbed(row, log) /\ Quiet(row, log)

(* The same inside the loop: what this pass has already passed over is     *)
(* quiet as long as nothing was settled.                                   *)
LoopFollows(x) ==
    /\ Explained(x.row, x.log) /\ Absorbed(x.row, x.log)
    /\ ~x.progress => \A i \in PendingEvents(x) \ x.todo : Verdict(x, x.log[i].event) = "pending"

LEMMA VerdictOfRow ==
    ASSUME NEW x, NEW y, NEW e, x.row = y.row PROVE Verdict(x, e) = Verdict(y, e)
BY DEF Verdict, EffectMatches, Applicable

(* Reports are never withdrawn.                                            *)
LEMMA ReportedKept ==
    ASSUME NEW row, NEW after, NEW log, NEW later, NEW type,
           Reported(row, log, type), LogKept(log, later), after.payment = row.payment
    PROVE  Reported(after, later, type)
BY DEF Reported, EventsOf, LogKept

LEMMA AppliedExplained ==
    ASSUME NEW row \in OrderRow, NEW after, NEW log, NEW later, NEW e,
           Explained(row, log), LogKept(log, later), after.payment = row.payment,
           AllowedPayment(row.payment_status, e.type), after.payment_status = e.type,
           Reported(row, log, e.type)
    PROVE  Explained(after, later)
<1>1. /\ row.payment_status # "pending" => Reported(row, log, row.payment_status)
      /\ row.payment_status \in {"available", "refund_pending", "refunded"} =>
           Reported(row, log, "captured")
  BY DEF Explained
<1>2. /\ e.type \in {"available", "refund_pending", "refunded"} => Reported(row, log, "captured")
      /\ e.type = "refunded" => Reported(row, log, "refund_pending")
  BY <1>1, PaymentMoves
<1>3. /\ Reported(after, later, e.type)
      /\ e.type \in {"available", "refund_pending", "refunded"} => Reported(after, later, "captured")
      /\ e.type = "refunded" => Reported(after, later, "refund_pending")
  BY <1>2, ReportedKept
<1>4. QED
  BY <1>3 DEF Explained

LEMMA ExplainedKept ==
    ASSUME NEW row, NEW after, NEW log, NEW later, Explained(row, log), LogKept(log, later),
           after.payment = row.payment, after.payment_status = row.payment_status
    PROVE  Explained(after, later)
BY ReportedKept DEF Explained

LEMMA SettlesFollows ==
    ASSUME NEW x \in Machine, Sound(x), LoopFollows(x), NEW i \in x.todo,
           NEW verdict \in Settled, Verdict(x, x.log[i].event) = verdict
    PROVE  LoopFollows(Settles(x, i, verdict))
<1> DEFINE log == MarkEvent(x.log, i, verdict)
           y == Settles(x, i, verdict)
<1>1. /\ x.log \in [EventIds -> EventRow] /\ i \in EventIds /\ x.log[i].status = "pending"
      /\ EventsKnown(x.log) /\ Explained(x.row, x.log) /\ Absorbed(x.row, x.log)
  BY DEF Machine, Sound, Visitable, LoopFollows
<1>2. LogKept(x.log, log)
  BY <1>1, MarkedLog
<1>3. /\ log[i].event = x.log[i].event
      /\ \A j \in EventIds \ {i} : log[j] = x.log[j]
  BY <1>1, MarkEventType
<1>4. y.row = x.row /\ y.log = log /\ y.progress = TRUE
  BY DEF Settles
<1> HIDE DEF log, y
<1>5. Explained(y.row, y.log)
  BY <1>1, <1>2, <1>4, ExplainedKept
<1>6. x.log[i].event.amount = QuotedAmount => x.row.payment_status \in After(x.log[i].event.type)
  <2> SUFFICES ASSUME x.log[i].event.amount = QuotedAmount
               PROVE  x.row.payment_status \in After(x.log[i].event.type)
    OBVIOUS
  <2>1. x.row.payment_status = x.log[i].event.type
    BY DEF Verdict, Settled
  <2>2. QED
    BY <2>1 DEF After, PaidStatus
<1>7. Absorbed(y.row, y.log)
  <2> SUFFICES ASSUME NEW j \in EventsOf(log, x.row.payment),
                      log[j].status # "pending", log[j].event.amount = QuotedAmount
               PROVE  x.row.payment_status \in After(log[j].event.type)
    BY <1>4 DEF Absorbed
  <2>1. CASE j = i
    BY <1>3, <1>6, <2>1
  <2>2. CASE j # i
    <3>1. j \in EventsOf(x.log, x.row.payment) /\ log[j] = x.log[j]
      BY <1>3, <2>2 DEF EventsOf
    <3>2. QED
      BY <1>1, <3>1 DEF Absorbed
  <2>3. QED
    BY <2>1, <2>2
<1>8. LoopFollows(y)
  BY <1>4, <1>5, <1>7 DEF LoopFollows
<1>9. QED
  BY <1>8 DEF y

LEMMA AppliesFollows ==
    ASSUME NEW x \in Machine, Sound(x), LoopFollows(x), NEW i \in x.todo,
           Applicable(x, x.log[i].event), x.log[i].event.amount = QuotedAmount
    PROVE  LoopFollows(Applies(x, i))
<1> DEFINE log == MarkEvent(x.log, i, "applied")
           e == x.log[i].event
           y == Applies(x, i)
<1>1. /\ x.log \in [EventIds -> EventRow] /\ i \in EventIds /\ x.log[i].status = "pending"
      /\ x.row \in OrderRow /\ e.payment = x.row.payment
      /\ EventsKnown(x.log) /\ Explained(x.row, x.log) /\ Absorbed(x.row, x.log)
      /\ AllowedPayment(x.row.payment_status, e.type)
  BY DEF Machine, Sound, Visitable, LoopFollows, Applicable
<1>2. LogKept(x.log, log)
  BY <1>1, MarkedLog
<1>3. /\ log[i].event = e
      /\ \A j \in EventIds \ {i} : log[j] = x.log[j]
  BY <1>1, MarkEventType
<1>4. y.row = AppliedRow(x.row, e) /\ y.log = log /\ y.progress = TRUE
  BY DEF Applies
<1>5. AppliedRow(x.row, e).payment_status = e.type /\ AppliedRow(x.row, e).payment = x.row.payment
  BY <1>1 DEF AppliedRow, OrderRow
<1>6. Reported(x.row, x.log, e.type)
  BY <1>1 DEF Reported, EventsOf
<1> HIDE DEF log, y, e
<1>7. y.row.payment_status = e.type /\ y.row.payment = x.row.payment
  BY <1>4, <1>5
<1>8. Explained(y.row, y.log)
  BY <1>1, <1>2, <1>4, <1>6, <1>7, AppliedExplained
<1>9. Absorbed(y.row, y.log)
  <2> SUFFICES ASSUME NEW j \in EventsOf(log, x.row.payment),
                      log[j].status # "pending", log[j].event.amount = QuotedAmount
               PROVE  e.type \in After(log[j].event.type)
    BY <1>4, <1>7 DEF Absorbed
  <2>1. CASE j = i
    BY <1>3, <2>1 DEF After, PaidStatus
  <2>2. CASE j # i
    <3>1. j \in EventsOf(x.log, x.row.payment) /\ log[j] = x.log[j] /\ j \in EventIds
      BY <1>3, <2>2 DEF EventsOf
    <3>2. x.row.payment_status \in After(x.log[j].event.type)
      BY <1>1, <3>1 DEF Absorbed
    <3>3. x.log[j].event.type # "pending"
      BY <1>1, <3>1, KnownEvent DEF EventsOf
    <3>4. QED
      BY <1>1, <3>1, <3>2, <3>3, AfterMoves
  <2>3. QED
    BY <2>1, <2>2
<1>10. LoopFollows(y)
  BY <1>4, <1>8, <1>9 DEF LoopFollows
<1>11. QED
  BY <1>10 DEF y

LEMMA LoopStepFollows ==
    ASSUME NEW x \in Machine, Sound(x), LoopFollows(x) PROVE LoopFollows(LoopStep(x))
<1>1. CASE x.todo # {}
  <2>1. LoopStep(x) = VisitNext(x)
    BY <1>1 DEF LoopStep
  <2>2. PICK i \in x.todo :
           \/ VisitNext(x) = Stays(x, i) /\ Verdict(x, x.log[i].event) = "pending"
           \/ \E verdict \in Settled :
                VisitNext(x) = Settles(x, i, verdict) /\ Verdict(x, x.log[i].event) = verdict
           \/ /\ VisitNext(x) = Applies(x, i)
              /\ Applicable(x, x.log[i].event)
              /\ x.log[i].event.amount = QuotedAmount
    BY <1>1, VisitCases
  <2>3. CASE VisitNext(x) = Stays(x, i) /\ Verdict(x, x.log[i].event) = "pending"
    <3> DEFINE y == Stays(x, i)
    <3>1. /\ y.row = x.row /\ y.log = x.log /\ y.progress = x.progress /\ y.todo = x.todo \ {i}
      BY DEF Stays, Machine
    <3> HIDE DEF y
    <3>2. PendingEvents(y) = PendingEvents(x)
      BY <3>1 DEF PendingEvents
    <3>3. ASSUME ~y.progress, NEW j \in PendingEvents(y) \ y.todo
          PROVE  Verdict(y, y.log[j].event) = "pending"
      <4>1. Verdict(x, x.log[j].event) = "pending"
        BY <2>3, <3>1, <3>2, <3>3 DEF LoopFollows
      <4>2. QED
        BY <3>1, <4>1, VerdictOfRow
    <3>4. LoopFollows(y)
      BY <3>1, <3>3 DEF LoopFollows
    <3>5. QED
      BY <2>1, <2>3, <3>4 DEF y
  <2>4. ASSUME NEW verdict \in Settled, VisitNext(x) = Settles(x, i, verdict),
               Verdict(x, x.log[i].event) = verdict
        PROVE  LoopFollows(LoopStep(x))
    BY <2>1, <2>4, SettlesFollows
  <2>5. CASE /\ VisitNext(x) = Applies(x, i)
             /\ Applicable(x, x.log[i].event)
             /\ x.log[i].event.amount = QuotedAmount
    BY <2>1, <2>5, AppliesFollows
  <2>6. QED
    BY <2>2, <2>3, <2>4, <2>5
<1>2. CASE x.todo = {} /\ x.progress
  <2> DEFINE y == [x EXCEPT !.todo = PendingEvents(x), !.progress = FALSE]
  <2>1. LoopStep(x) = y
    BY <1>2 DEF LoopStep
  <2>2. y.row = x.row /\ y.log = x.log /\ y.todo = PendingEvents(x)
    BY DEF Machine
  <2> HIDE DEF y
  <2>3. PendingEvents(y) = y.todo
    BY <2>2 DEF PendingEvents
  <2>4. LoopFollows(y)
    BY <2>2, <2>3 DEF LoopFollows
  <2>5. QED
    BY <2>1, <2>4
<1>3. CASE x.todo = {} /\ ~x.progress
  BY <1>3 DEF LoopStep
<1>4. QED
  BY <1>1, <1>2, <1>3

(* When the loop ends, everything reported has been followed up.           *)
LEMMA ReconciledFollows ==
    ASSUME NEW m \in Machine, Sound(m), m.todo = {}, m.progress,
           Explained(m.row, m.log), Absorbed(m.row, m.log)
    PROVE  Follows(Reconciled(m).row, Reconciled(m).log)
<1> DEFINE S == {x \in Machine : Sound(x) /\ LoopFollows(x)}
           r == Reconciled(m)
<1>1. m \in S
  BY DEF LoopFollows
<1>2. ASSUME NEW x \in S PROVE LoopStep(x) \in S
  BY LoopStepSound, LoopStepFollows
<1> HIDE DEF S
<1>3. r \in S
  BY <1>1, <1>2, ReconciledPreserves
<1>4. Ended(r)
  BY ReconciledEnds
<1> HIDE DEF r
<1>5. LoopFollows(r) /\ r.todo = {} /\ ~r.progress
  BY <1>3, <1>4 DEF S, Ended
<1>6. Quiet(r.row, r.log)
  <2> SUFFICES ASSUME NEW i \in EventsOf(r.log, r.row.payment), r.log[i].status = "pending"
               PROVE  Verdict([row |-> r.row], r.log[i].event) = "pending"
    BY DEF Quiet
  <2>1. i \in PendingEvents(r)
    BY DEF EventsOf, PendingEvents
  <2>2. Verdict(r, r.log[i].event) = "pending"
    BY <1>5, <2>1 DEF LoopFollows
  <2>3. [row |-> r.row].row = r.row
    OBVIOUS
  <2>4. QED
    BY <2>2, <2>3, VerdictOfRow
<1>7. QED
  BY <1>5, <1>6 DEF Follows, LoopFollows, r

-------------------------------------------------------------------------------
(* The inductive invariant *)

(* An order that was never placed has a blank row.                         *)
AbsentBlank == \A o \in OrderIds : orders[o].order_status = "absent" => orders[o] = NoOrder

(* Every stored event is about the payment of a placed order: nothing is   *)
(* bound to a payment whose events came first.                             *)
EventsBound ==
    \A i \in EventIds : provider_events[i].status # "absent" =>
        \E o \in Placed : orders[o].payment = provider_events[i].event.payment

(* The rows and their books, histories and evidence.                       *)
RowsInv == /\ AbsentBlank /\ StatusCoherent
           /\ LedgerAgrees /\ HistoryReplays /\ DeliveryBacked

(* The event table, and who its events belong to.                          *)
EventsInv == /\ EventsKnown(provider_events) /\ EventsBound
             /\ \A o \in OrderIds : EffectsReached(orders[o], provider_events)
             /\ EffectsAppliedOnce

StoreInv == TypeOK /\ IdentitiesUnique /\ RowsInv /\ EventsInv

-------------------------------------------------------------------------------
(* What a step that changes one order leaves to be shown *)

(* The costs on record stay what they are when neither they nor their      *)
(* ledger rows change.                                                     *)
LEMMA CostsUntouched ==
    ASSUME NEW o \in OrderIds, CostsAgree(o),
           orders'[o].costs_recorded = orders[o].costs_recorded,
           \A c \in CostCategories : financial_entries'[o][c] = financial_entries[o][c],
           \A r : r[1] = o => (r \in cost_records' <=> r \in cost_records)
    PROVE  CostsAgree(o)'
<1>1. CASE orders[o].costs_recorded
  <2>1. PICK key \in CostKeys, sheet \in CostSheets :
           /\ \A r \in cost_records : r[1] = o <=> r = <<o, key, sheet>>
           /\ <<o, key, sheet>> \in cost_records
           /\ \A c \in CostCategories :
                financial_entries[o][c] = [rows |-> 1, amount |-> sheet[c], impact |-> -sheet[c]]
    BY <1>1 DEF CostsAgree
  <2>2. /\ <<o, key, sheet>> \in cost_records'
        /\ \A r \in cost_records' : r[1] = o <=> r = <<o, key, sheet>>
    BY <2>1
  <2>3. \A c \in CostCategories :
           financial_entries'[o][c] = [rows |-> 1, amount |-> sheet[c], impact |-> -sheet[c]]
    BY <2>1
  <2>4. orders'[o].costs_recorded
    BY <1>1
  <2>5. QED
    BY <2>2, <2>3, <2>4, ZenonT(30) DEF CostsAgree
<1>2. CASE ~orders[o].costs_recorded
  <2>1. \A r \in cost_records' : r[1] # o
    BY <1>2 DEF CostsAgree
  <2>2. \A c \in CostCategories :
           financial_entries'[o][c] = [rows |-> 0, amount |-> 0, impact |-> 0]
    BY <1>2 DEF CostsAgree
  <2>3. ~orders'[o].costs_recorded
    BY <1>2
  <2>4. QED
    BY <2>1, <2>2, <2>3, ZenonT(30) DEF CostsAgree
<1>3. QED
  BY <1>1, <1>2

LEMMA OneOrderChanges ==
    ASSUME RowsInv, NEW o \in OrderIds,
           \A other \in OrderIds \ {o} :
              /\ orders'[other] = orders[other]
              /\ financial_entries'[other] = financial_entries[other]
              /\ order_history'[other] = order_history[other],
           \A r : r[1] # o => (r \in cost_records' <=> r \in cost_records),
           orders'[o].order_status # "absent",
           RowCoherent(orders'[o]), BookAgrees(orders'[o], financial_entries'[o]),
           HistoryAgrees(orders'[o], order_history'[o]), CostsAgree(o)'
    PROVE  AbsentBlank' /\ StatusCoherent' /\ LedgerAgrees' /\ HistoryReplays'
<1>1. AbsentBlank'
  BY DEF RowsInv, AbsentBlank
<1>2. StatusCoherent'
  BY DEF RowsInv, StatusCoherent
<1>3. HistoryReplays'
  BY DEF RowsInv, HistoryReplays
<1>4. LedgerAgrees'
  <2>1. ASSUME NEW other \in OrderIds \ {o} PROVE CostsAgree(other)'
    <3>1. CostsAgree(other) /\ orders'[other] = orders[other]
          /\ financial_entries'[other] = financial_entries[other]
      BY DEF RowsInv, LedgerAgrees
    <3>2. \A r : r[1] = other => (r \in cost_records' <=> r \in cost_records)
      OBVIOUS
    <3>3. QED
      BY <3>1, <3>2, CostsUntouched
  <2>2. \A other \in OrderIds : BookAgrees(orders'[other], financial_entries'[other])
    BY DEF RowsInv, LedgerAgrees
  <2>3. QED
    BY <2>1, <2>2 DEF LedgerAgrees
<1>5. QED
  BY <1>1, <1>2, <1>3, <1>4

(* Evidence stays what it was when no receipt is written.                  *)
LEMMA DeliveryKept ==
    ASSUME RowsInv, StatusCoherent', LedgerAgrees',
           \A o \in OrderIds :
              /\ orders'[o].receipt = orders[o].receipt
              /\ orders'[o].order_status = "delivered" <=> orders[o].order_status = "delivered"
              /\ orders[o].order_status = "delivered" =>
                   /\ orders[o].costs_recorded => orders'[o].costs_recorded
                   /\ orders'[o].delivery_status = orders[o].delivery_status
    PROVE  DeliveryBacked'
<1>1. \A o \in OrderIds :
         orders'[o].order_status = "delivered" => orders'[o].collected = QuotedAmount
  <2> SUFFICES ASSUME NEW o \in OrderIds, orders'[o].order_status = "delivered"
               PROVE  orders'[o].collected = QuotedAmount
    OBVIOUS
  <2>1. orders'[o].payment_status \in PaidStatus
    BY DEF StatusCoherent, RowCoherent, WorkStatus
  <2>2. BookAgrees(orders'[o], financial_entries'[o])
    BY DEF LedgerAgrees
  <2>3. orders'[o].collected = 1 * QuotedAmount
    BY <2>1, <2>2 DEF BookAgrees
  <2>4. QED
    BY <2>3, ConstantsAssumption
<1>2. DeliveryBacked
  BY DEF RowsInv
<1>3. QED
  BY <1>1, <1>2 DEF DeliveryBacked

LEMMA IdentitiesKept ==
    ASSUME IdentitiesUnique,
           \A o \in OrderIds :
              /\ orders'[o].order_status # "absent" <=> orders[o].order_status # "absent"
              /\ orders'[o].checkout = orders[o].checkout /\ orders'[o].payment = orders[o].payment
    PROVE  IdentitiesUnique'
BY DEF IdentitiesUnique, Placed, Exists

(* Events and what they are about stay tied when payments stay bound and   *)
(* keep their status.                                                      *)
LEMMA EventsKept ==
    ASSUME EventsInv, TypeOK, provider_events' = provider_events,
           \A o \in OrderIds :
              /\ orders[o].order_status # "absent" => orders'[o].order_status # "absent"
              /\ orders'[o].payment = orders[o].payment
              /\ orders'[o].payment_status = orders[o].payment_status
    PROVE  EventsInv'
<1>1. EventsKnown(provider_events')
  BY DEF EventsInv
<1>2. EventsBound'
  BY DEF EventsInv, EventsBound, Placed, Exists
<1>3. \A o \in OrderIds : EffectsReached(orders'[o], provider_events')
  BY DEF EventsInv, EffectsReached
<1>4. EffectsAppliedOnce'
  BY DEF EventsInv, EffectsAppliedOnce
<1>5. QED
  BY <1>1, <1>2, <1>3, <1>4 DEF EventsInv

-------------------------------------------------------------------------------
(* The actions *)

LEMMA InitInv == Init => StoreInv
<1> SUFFICES ASSUME Init PROVE StoreInv
  OBVIOUS
<1>1. \A o \in OrderIds : /\ orders[o] = NoOrder
                           /\ order_history[o] = [order |-> <<>>, payment |-> <<>>]
                           /\ \A c \in Categories :
                                financial_entries[o][c] = [rows |-> 0, amount |-> 0, impact |-> 0]
  BY DEF Init
<1>2. Placed = {}
  BY <1>1 DEF Placed, Exists, NoOrder
<1>3. \A i \in EventIds : provider_events[i] = NoEvent
  BY DEF Init
<1>4. TypeOK
  <2>1. NoOrder \in OrderRow
    BY DEF NoOrder, OrderRow, OrderStatus, PaymentStatus, Providers
  <2>2. NoEvent \in EventRow
    BY DEF NoEvent, EventRow
  <2>3. [order |-> <<>>, payment |-> <<>>] \in History
    BY DEF History, Moves
  <2>4. [rows |-> 0, amount |-> 0, impact |-> 0] \in Entry
    BY DEF Entry
  <2>5. 0 \in 0 .. MaxTime
    BY ConstantsAssumption
  <2>6. QED
    BY <2>1, <2>2, <2>3, <2>4, <2>5 DEF Init, TypeOK
<1>5. IdentitiesUnique
  BY <1>2 DEF IdentitiesUnique
<1>6. RowsInv
  <2>1. AbsentBlank
    BY <1>1 DEF AbsentBlank
  <2>2. StatusCoherent
    BY <1>1 DEF StatusCoherent, RowCoherent, NoOrder, PaidStatus, WorkStatus
  <2>3. LedgerAgrees
    <3> SUFFICES ASSUME NEW o \in OrderIds
                 PROVE  BookAgrees(orders[o], financial_entries[o]) /\ CostsAgree(o)
      BY DEF LedgerAgrees
    <3>1. BookAgrees(orders[o], financial_entries[o])
      BY <1>1, ConstantsAssumption DEF BookAgrees, NoOrder, PaidStatus, Categories
    <3>2. CostsAgree(o)
      BY <1>1 DEF Init, CostsAgree, NoOrder, Categories
    <3>3. QED
      BY <3>1, <3>2
  <2>4. HistoryReplays
    BY <1>1 DEF HistoryReplays, HistoryAgrees, Chained, NoOrder
  <2>5. DeliveryBacked
    BY <1>1 DEF DeliveryBacked, NoOrder
  <2>6. QED
    BY <2>1, <2>2, <2>3, <2>4, <2>5 DEF RowsInv
<1>7. EventsInv
  BY <1>3 DEF EventsInv, EventsKnown, EventsBound, EffectsReached, EffectsAppliedOnce, NoEvent
<1>8. QED
  BY <1>4, <1>5, <1>6, <1>7 DEF StoreInv

(* A step that touches neither orders nor what is recorded about them.     *)
LEMMA OrdersUntouched ==
    ASSUME StoreInv, UNCHANGED <<orders, provider_events, financial_entries, cost_records, order_history>>,
           quotes' \in [QuoteIds -> QuoteRow \cup {None}], now' \in 0 .. MaxTime
    PROVE  StoreInv'
<1>1. TypeOK'
  BY DEF StoreInv, TypeOK
<1>2. IdentitiesUnique'
  BY IdentitiesKept DEF StoreInv
<1>3. RowsInv'
  <2>1. AbsentBlank' /\ StatusCoherent' /\ HistoryReplays' /\ DeliveryBacked'
    BY DEF StoreInv, RowsInv, AbsentBlank, StatusCoherent, HistoryReplays, DeliveryBacked
  <2>2. ASSUME NEW o \in OrderIds PROVE CostsAgree(o)'
    <3>1. CostsAgree(o)
      BY DEF StoreInv, RowsInv, LedgerAgrees
    <3>2. QED
      BY <3>1 DEF CostsAgree
  <2>3. LedgerAgrees'
    BY <2>2 DEF StoreInv, RowsInv, LedgerAgrees
  <2>4. QED
    BY <2>1, <2>3 DEF RowsInv
<1>4. EventsInv'
  BY EventsKept DEF StoreInv
<1>5. QED
  BY <1>1, <1>2, <1>3, <1>4 DEF StoreInv

LEMMA CreateQuoteInv ==
    ASSUME StoreInv, NEW q \in QuoteIds, NEW request \in Requests, NEW provider \in Providers,
           NEW at \in 0 .. now, CreateQuote(q, request, provider, at)
    PROVE  StoreInv'
<1>1. at \in Nat /\ at + TTL[provider] \in Nat
  BY ConstantsAssumption DEF StoreInv, TypeOK
<1>2. quotes' \in [QuoteIds -> QuoteRow \cup {None}]
  BY <1>1 DEF CreateQuote, StoreInv, TypeOK, QuoteRow
<1>3. now' \in 0 .. MaxTime
  BY DEF CreateQuote, StoreInv, TypeOK
<1>4. QED
  BY <1>2, <1>3, OrdersUntouched DEF CreateQuote

LEMMA TickInv == ASSUME StoreInv, Tick PROVE StoreInv'
<1>1. now' \in 0 .. MaxTime
  BY ConstantsAssumption DEF Tick, StoreInv, TypeOK
<1>2. QED
  BY <1>1, OrdersUntouched DEF Tick, StoreInv, TypeOK

LEMMA CreateOrderInv ==
    ASSUME StoreInv, NEW q \in QuoteIds, NEW k \in Keys, NEW b \in Buyers,
           NEW at \in 0 .. now, CreateOrder(q, k, b, at)
    PROVE  StoreInv'
<1> DEFINE o == <<q, k, b>>
           row == [NoOrder EXCEPT !.order_status = "checkout_pending",
                                  !.provider = quotes[q].provider]
<1>1. o \in OrderIds /\ QuoteOf(o) = q /\ KeyOf(o) = k
  BY DEF OrderIds, QuoteOf, KeyOf
<1>2. orders[o] = NoOrder
  BY <1>1 DEF CreateOrder, Placed, Exists, StoreInv, RowsInv, AbsentBlank
<1>3. NoOrder \in OrderRow /\ quotes[q].provider \in Providers
  BY <1>1, <1>2 DEF StoreInv, TypeOK, CreateOrder, QuoteRow
<1>4. /\ row \in OrderRow /\ row.order_status = "checkout_pending"
      /\ row.payment_status = "pending" /\ row.checkout = None /\ row.payment = None
      /\ row.collected = 0 /\ row.refunded = 0 /\ row.fee = 0
      /\ ~row.costs_recorded /\ row.receipt = None
  BY <1>3 DEF NoOrder, OrderRow, OrderStatus
<1>5. /\ orders' = [orders EXCEPT ![o] = row]
      /\ order_history' = [order_history EXCEPT
            ![o].order = Append(order_history[o].order, <<"absent", "checkout_pending">>)]
  BY DEF CreateOrder
<1> HIDE DEF row, o
<1>6. /\ orders'[o] = row /\ orders' \in [OrderIds -> OrderRow]
      /\ \A other \in OrderIds \ {o} : orders'[other] = orders[other]
  BY <1>1, <1>4, <1>5 DEF StoreInv, TypeOK
<1>7. /\ order_history[o].order \in Moves /\ order_history' \in [OrderIds -> History]
      /\ order_history'[o].order = Append(order_history[o].order, <<"absent", "checkout_pending">>)
      /\ order_history'[o].payment = order_history[o].payment
      /\ \A other \in OrderIds \ {o} : order_history'[other] = order_history[other]
  <2>1. order_history \in [OrderIds -> History]
    BY DEF StoreInv, TypeOK
  <2>2. order_history[o].order \in Moves
    BY <1>1, <2>1 DEF History
  <2>3. Append(order_history[o].order, <<"absent", "checkout_pending">>) \in Moves
    BY <2>2 DEF Moves, OrderStatus
  <2>4. QED
    BY <1>1, <1>5, <2>1, <2>2, <2>3 DEF History
<1>8. TypeOK'
  BY <1>6, <1>7 DEF CreateOrder, StoreInv, TypeOK
<1>9. IdentitiesUnique'
  <2>1. \A other \in Placed' : other # o =>
           other \in Placed /\ QuoteOf(other) # q /\ KeyOf(other) # k
    BY <1>6 DEF CreateOrder, Placed, Exists
  <2>2. QED
    BY <1>1, <1>4, <1>6, <2>1 DEF IdentitiesUnique, StoreInv, Placed, Exists
<1>10. RowsInv'
  <2>1. RowCoherent(row)
    BY <1>4 DEF RowCoherent, PaidStatus, WorkStatus
  <2>2. BookAgrees(row, financial_entries[o]) /\ CostsAgree(o)'
    <3>1. BookAgrees(NoOrder, financial_entries[o]) /\ CostsAgree(o)
      BY <1>1, <1>2 DEF StoreInv, RowsInv, LedgerAgrees
    <3>2. BookAgrees(row, financial_entries[o])
      BY <1>4, <3>1 DEF BookAgrees, NoOrder, PaidStatus
    <3>3. cost_records' = cost_records /\ financial_entries' = financial_entries
      BY DEF CreateOrder
    <3>4. ~orders[o].costs_recorded
      BY <1>2 DEF NoOrder
    <3>5. QED
      BY <1>4, <1>6, <3>1, <3>2, <3>3, <3>4 DEF CostsAgree
  <2>3. HistoryAgrees(row, order_history'[o])
    <3>1. HistoryAgrees(NoOrder, order_history[o])
      BY <1>1, <1>2 DEF StoreInv, RowsInv, HistoryReplays
    <3>2. Chained(order_history'[o].order, ORDER_TRANSITIONS \cup {<<"absent", "checkout_pending">>},
                  "absent", "checkout_pending")
      BY <1>7, <3>1, ChainedAppend DEF HistoryAgrees, NoOrder
    <3>3. QED
      BY <1>4, <1>7, <3>1, <3>2 DEF HistoryAgrees, NoOrder
  <2>4. AbsentBlank' /\ StatusCoherent' /\ LedgerAgrees' /\ HistoryReplays'
    BY <1>1, <1>4, <1>6, <1>7, <2>1, <2>2, <2>3, OneOrderChanges DEF CreateOrder, StoreInv
  <2>5. DeliveryBacked'
    <3>1. /\ orders[o].receipt = None /\ orders[o].order_status # "delivered"
          /\ orders'[o].receipt = None /\ orders'[o].order_status # "delivered"
      BY <1>2, <1>4, <1>6 DEF NoOrder
    <3>2. QED
      BY <1>6, <2>4, <3>1, DeliveryKept DEF StoreInv
  <2>6. QED
    BY <2>4, <2>5 DEF RowsInv
<1>11. EventsInv'
  BY <1>2, <1>4, <1>6, EventsKept DEF CreateOrder, StoreInv, NoOrder
<1>12. QED
  BY <1>8, <1>9, <1>10, <1>11 DEF StoreInv

(* A call that writes only order o's row and appends one move to its order *)
(* history: attach_checkout, begin_fulfillment, fail_fulfillment, deliver. *)
LEMMA OrderMoves ==
    ASSUME StoreInv, NEW o \in OrderIds, NEW target \in OrderStatus,
           AllowedOrder(orders[o].order_status, target),
           orders' \in [OrderIds -> OrderRow],
           \A other \in OrderIds \ {o} : orders'[other] = orders[other],
           orders'[o].order_status = target,
           orders'[o].payment_status = orders[o].payment_status,
           orders'[o].collected = orders[o].collected,
           orders'[o].refunded = orders[o].refunded, orders'[o].fee = orders[o].fee,
           orders'[o].costs_recorded = orders[o].costs_recorded,
           RowCoherent(orders'[o]),
           order_history' = [order_history EXCEPT ![o].order =
                               Append(@, <<orders[o].order_status, target>>)],
           UNCHANGED <<financial_entries, cost_records>>
    PROVE  /\ order_history' \in [OrderIds -> History]
           /\ AbsentBlank' /\ StatusCoherent' /\ LedgerAgrees' /\ HistoryReplays'
<1>1. /\ orders[o].order_status \in OrderStatus \cup {"absent"} /\ target # "absent"
      /\ <<orders[o].order_status, target>> \in ORDER_TRANSITIONS
  BY DEF StoreInv, TypeOK, OrderRow, AllowedOrder, OrderStatus
<1>2. /\ order_history[o].order \in Moves /\ order_history' \in [OrderIds -> History]
      /\ order_history'[o].order = Append(order_history[o].order, <<orders[o].order_status, target>>)
      /\ order_history'[o].payment = order_history[o].payment
      /\ \A other \in OrderIds \ {o} : order_history'[other] = order_history[other]
  <2>1. order_history \in [OrderIds -> History]
    BY DEF StoreInv, TypeOK
  <2>2. order_history[o].order \in Moves
    BY <2>1 DEF History
  <2>3. Append(order_history[o].order, <<orders[o].order_status, target>>) \in Moves
    BY <1>1, <2>2 DEF Moves
  <2>4. QED
    BY <2>1, <2>2, <2>3 DEF History
<1>3. BookAgrees(orders'[o], financial_entries'[o])
  BY DEF StoreInv, RowsInv, LedgerAgrees, BookAgrees
<1>4. CostsAgree(o)'
  <2>1. CostsAgree(o)
    BY DEF StoreInv, RowsInv, LedgerAgrees
  <2>2. QED
    BY <2>1 DEF CostsAgree
<1>5. HistoryAgrees(orders'[o], order_history'[o])
  <2>1. HistoryAgrees(orders[o], order_history[o])
    BY DEF StoreInv, RowsInv, HistoryReplays
  <2>2. Chained(order_history'[o].order, ORDER_TRANSITIONS \cup {<<"absent", "checkout_pending">>},
                "absent", target)
    BY <1>1, <1>2, <2>1, ChainedAppend DEF HistoryAgrees
  <2>3. QED
    BY <1>2, <2>1, <2>2 DEF HistoryAgrees
<1>6. AbsentBlank' /\ StatusCoherent' /\ LedgerAgrees' /\ HistoryReplays'
  BY <1>1, <1>2, <1>3, <1>4, <1>5, OneOrderChanges DEF StoreInv
<1>7. QED
  BY <1>2, <1>6

(* A payment no stored event is about: what PaymentFree makes of a payment *)
(* that is being bound.                                                    *)
LEMMA FreshPayment ==
    ASSUME StoreInv, NEW o \in OrderIds, orders[o].payment = None,
           NEW p \in PaymentIds, PaymentFree(o, p)
    PROVE  \A i \in EventIds : provider_events[i].status # "absent" =>
                                 provider_events[i].event.payment # p
<1> SUFFICES ASSUME NEW i \in EventIds, provider_events[i].status # "absent",
                    provider_events[i].event.payment = p
             PROVE  FALSE
  OBVIOUS
<1>1. PICK other \in Placed : orders[other].payment = p
  BY DEF StoreInv, EventsInv, EventsBound
<1>2. other \in OrderIds
  BY DEF Placed
<1>3. p # None
  BY NoneAssumption
<1>4. QED
  BY <1>1, <1>2, <1>3 DEF PaymentFree

LEMMA PaymentBound ==
    ASSUME StoreInv, NEW o \in OrderIds, NEW p \in PaymentIds \cup {None},
           orders[o].payment = None, p # None => PaymentFree(o, p),
           orders[o].order_status # "absent",
           provider_events' = provider_events,
           orders'[o].order_status # "absent", orders'[o].payment = p,
           \A other \in OrderIds \ {o} : orders'[other] = orders[other]
    PROVE  EventsInv'
<1>1. EventsKnown(provider_events') /\ EffectsAppliedOnce'
  BY DEF StoreInv, EventsInv, EffectsAppliedOnce
<1>2. \A i \in EventIds : provider_events[i].status # "absent" =>
        /\ provider_events[i].event.payment # p
        /\ provider_events[i].event.payment # None
  <2>1. ASSUME NEW i \in EventIds, provider_events[i].status # "absent"
        PROVE  provider_events[i].event.payment # None
    <3>1. provider_events[i].event \in Event
      BY <2>1, KnownEvent DEF StoreInv, EventsInv, TypeOK
    <3>2. QED
      BY <3>1, NoneAssumption DEF Event
  <2>2. QED
    BY <2>1, FreshPayment
<1>3. EventsBound'
  <2> SUFFICES ASSUME NEW i \in EventIds, provider_events[i].status # "absent"
               PROVE  \E other \in Placed' : orders'[other].payment = provider_events[i].event.payment
    BY DEF EventsBound
  <2>1. PICK other \in Placed : orders[other].payment = provider_events[i].event.payment
    BY DEF StoreInv, EventsInv, EventsBound
  <2>2. other # o
    BY <1>2, <2>1
  <2>3. QED
    BY <2>1, <2>2 DEF Placed, Exists
<1>4. \A other \in OrderIds : EffectsReached(orders'[other], provider_events')
  <2>1. EffectsReached(orders'[o], provider_events')
    BY <1>2 DEF EffectsReached
  <2>2. QED
    BY <2>1 DEF StoreInv, EventsInv
<1>5. QED
  BY <1>1, <1>3, <1>4 DEF EventsInv

LEMMA AttachCheckoutInv ==
    ASSUME StoreInv, NEW o \in OrderIds, NEW checkout \in CheckoutIds,
           NEW payment \in PaymentIds \cup {None}, AttachCheckout(o, checkout, payment)
    PROVE  StoreInv'
<1>1. orders[o] \in OrderRow /\ RowCoherent(orders[o]) /\ orders[o].order_status # "absent"
  BY DEF StoreInv, TypeOK, RowsInv, StatusCoherent, AttachCheckout, Exists
<1>2. orders[o].order_status = "checkout_pending"
  BY DEF AttachCheckout, AllowedOrder, ORDER_TRANSITIONS
<1>3. checkout # None /\ orders[o].payment = None /\ orders[o].payment_status = "pending"
  BY <1>1, <1>2, NoneAssumption DEF RowCoherent
<1>4. /\ orders' \in [OrderIds -> OrderRow]
      /\ \A other \in OrderIds \ {o} : orders'[other] = orders[other]
      /\ orders'[o].checkout = checkout /\ orders'[o].payment = payment
      /\ orders'[o].order_status = "payment_pending"
      /\ orders'[o].payment_status = orders[o].payment_status
      /\ orders'[o].collected = orders[o].collected /\ orders'[o].refunded = orders[o].refunded
      /\ orders'[o].fee = orders[o].fee /\ orders'[o].costs_recorded = orders[o].costs_recorded
      /\ orders'[o].receipt = orders[o].receipt
  BY <1>1 DEF AttachCheckout, StoreInv, TypeOK, OrderRow, OrderStatus
<1>5. RowCoherent(orders'[o])
  BY <1>3, <1>4 DEF RowCoherent, PaidStatus, WorkStatus
<1>6. order_history' \in [OrderIds -> History] /\ AbsentBlank' /\ StatusCoherent'
      /\ LedgerAgrees' /\ HistoryReplays'
  BY <1>4, <1>5, OrderMoves DEF AttachCheckout, OrderStatus
<1>7. TypeOK'
  BY <1>4, <1>6 DEF AttachCheckout, StoreInv, TypeOK
<1>8. DeliveryBacked'
  BY <1>2, <1>4, <1>6, DeliveryKept DEF StoreInv
<1>9. IdentitiesUnique'
  <2>1. /\ \A other \in OrderIds \ {o} : orders[other].checkout # checkout
        /\ payment # None => \A other \in OrderIds \ {o} : orders[other].payment # payment
    BY DEF AttachCheckout, CheckoutFree, PaymentFree
  <2>2. \A other \in OrderIds : orders'[other].order_status # "absent" <=>
                                   orders[other].order_status # "absent"
    BY <1>1, <1>4
  <2>3. QED
    BY <1>4, <2>1, <2>2 DEF StoreInv, IdentitiesUnique, Placed, Exists
<1>10. EventsInv'
  BY <1>1, <1>3, <1>4, PaymentBound DEF AttachCheckout
<1>11. QED
  BY <1>6, <1>7, <1>8, <1>9, <1>10 DEF StoreInv, RowsInv

LEMMA BindProviderPaymentInv ==
    ASSUME StoreInv, NEW o \in OrderIds, NEW payment \in StripePayments,
           BindProviderPayment(o, payment)
    PROVE  StoreInv'
<1>1. /\ orders[o] \in OrderRow /\ RowCoherent(orders[o]) /\ orders[o].order_status # "absent"
      /\ orders[o].payment = None /\ orders[o].checkout # None
  BY DEF StoreInv, TypeOK, RowsInv, StatusCoherent, BindProviderPayment, Exists
<1>2. payment \in PaymentIds /\ payment # None
  BY NoneAssumption DEF PaymentIds
<1>3. /\ orders' \in [OrderIds -> OrderRow]
      /\ \A other \in OrderIds \ {o} : orders'[other] = orders[other]
      /\ orders'[o].checkout = orders[o].checkout /\ orders'[o].payment = payment
      /\ orders'[o].order_status = orders[o].order_status
      /\ orders'[o].payment_status = orders[o].payment_status
      /\ orders'[o].collected = orders[o].collected /\ orders'[o].refunded = orders[o].refunded
      /\ orders'[o].fee = orders[o].fee /\ orders'[o].costs_recorded = orders[o].costs_recorded
      /\ orders'[o].receipt = orders[o].receipt
      /\ orders'[o].delivery_status = orders[o].delivery_status
  BY <1>1, <1>2 DEF BindProviderPayment, StoreInv, TypeOK, OrderRow
<1>4. UNCHANGED <<financial_entries, cost_records, order_history, provider_events, quotes, now>>
  BY DEF BindProviderPayment
<1>5. RowCoherent(orders'[o])
  BY <1>1, <1>2, <1>3 DEF RowCoherent
<1>6. BookAgrees(orders'[o], financial_entries'[o]) /\ CostsAgree(o)'
      /\ HistoryAgrees(orders'[o], order_history'[o])
  <2>1. BookAgrees(orders[o], financial_entries[o]) /\ CostsAgree(o)
        /\ HistoryAgrees(orders[o], order_history[o])
    BY DEF StoreInv, RowsInv, LedgerAgrees, HistoryReplays
  <2>2. BookAgrees(orders'[o], financial_entries'[o])
    BY <1>3, <1>4, <2>1 DEF BookAgrees
  <2>3. CostsAgree(o)'
    BY <1>3, <1>4, <2>1 DEF CostsAgree
  <2>4. HistoryAgrees(orders'[o], order_history'[o])
    BY <1>3, <1>4, <2>1 DEF HistoryAgrees
  <2>5. QED
    BY <2>2, <2>3, <2>4
<1>7. AbsentBlank' /\ StatusCoherent' /\ LedgerAgrees' /\ HistoryReplays'
  BY <1>1, <1>3, <1>4, <1>5, <1>6, OneOrderChanges DEF StoreInv
<1>8. TypeOK'
  BY <1>3, <1>4 DEF StoreInv, TypeOK
<1>9. DeliveryBacked'
  BY <1>3, <1>7, DeliveryKept DEF StoreInv
<1>10. IdentitiesUnique'
  <2>1. \A other \in OrderIds \ {o} : orders[other].payment # payment
    BY DEF BindProviderPayment, PaymentFree
  <2>2. QED
    BY <1>3, <2>1 DEF StoreInv, IdentitiesUnique, Placed, Exists
<1>11. EventsInv'
  BY <1>1, <1>2, <1>3, <1>4, PaymentBound DEF BindProviderPayment
<1>12. QED
  BY <1>7, <1>8, <1>9, <1>10, <1>11 DEF StoreInv, RowsInv

(* begin_fulfillment and fail_fulfillment.                                 *)
LEMMA TransitionOrderInv ==
    ASSUME StoreInv, NEW o \in OrderIds,
           NEW target \in {"running", "fulfillment_failed"}, NEW delivery \in {"running", "failed"},
           TransitionOrder(o, target, delivery)
    PROVE  StoreInv'
<1>1. orders[o] \in OrderRow /\ RowCoherent(orders[o]) /\ orders[o].order_status # "absent"
  BY DEF StoreInv, TypeOK, RowsInv, StatusCoherent, TransitionOrder, Exists
<1>2. orders[o].order_status \in {"queued", "running"}
  BY DEF TransitionOrder, AllowedOrder, ORDER_TRANSITIONS
<1>3. /\ orders' \in [OrderIds -> OrderRow]
      /\ \A other \in OrderIds \ {o} : orders'[other] = orders[other]
      /\ orders'[o].checkout = orders[o].checkout /\ orders'[o].payment = orders[o].payment
      /\ orders'[o].order_status = target
      /\ orders'[o].payment_status = orders[o].payment_status
      /\ orders'[o].collected = orders[o].collected /\ orders'[o].refunded = orders[o].refunded
      /\ orders'[o].fee = orders[o].fee /\ orders'[o].costs_recorded = orders[o].costs_recorded
      /\ orders'[o].receipt = orders[o].receipt
  BY <1>1 DEF TransitionOrder, StoreInv, TypeOK, OrderRow, OrderStatus
<1>4. RowCoherent(orders'[o])
  BY <1>1, <1>2, <1>3 DEF RowCoherent, PaidStatus, WorkStatus
<1>5. order_history' \in [OrderIds -> History] /\ AbsentBlank' /\ StatusCoherent'
      /\ LedgerAgrees' /\ HistoryReplays'
  BY <1>3, <1>4, OrderMoves DEF TransitionOrder, OrderStatus
<1>6. TypeOK'
  BY <1>3, <1>5 DEF TransitionOrder, StoreInv, TypeOK
<1>7. DeliveryBacked'
  BY <1>2, <1>3, <1>5, DeliveryKept DEF StoreInv
<1>8. IdentitiesUnique'
  BY <1>1, <1>3, IdentitiesKept DEF StoreInv
<1>9. EventsInv'
  BY <1>1, <1>3, EventsKept DEF TransitionOrder, StoreInv
<1>10. QED
  BY <1>5, <1>6, <1>7, <1>8, <1>9 DEF StoreInv, RowsInv

LEMMA DeliverInv ==
    ASSUME StoreInv, NEW o \in OrderIds, NEW receipt \in Evidence, Deliver(o, receipt)
    PROVE  StoreInv'
<1>1. orders[o] \in OrderRow /\ RowCoherent(orders[o]) /\ orders[o].order_status = "running"
  BY DEF StoreInv, TypeOK, RowsInv, StatusCoherent, Deliver, AllowedOrder, ORDER_TRANSITIONS
<1>2. receipt # None /\ receipt[1] \in ReceiptIds
  BY NoneAssumption DEF Evidence
<1>3. /\ orders' \in [OrderIds -> OrderRow]
      /\ \A other \in OrderIds \ {o} : orders'[other] = orders[other]
      /\ orders'[o].checkout = orders[o].checkout /\ orders'[o].payment = orders[o].payment
      /\ orders'[o].order_status = "delivered"
      /\ orders'[o].payment_status = orders[o].payment_status
      /\ orders'[o].collected = orders[o].collected /\ orders'[o].refunded = orders[o].refunded
      /\ orders'[o].fee = orders[o].fee /\ orders'[o].costs_recorded = orders[o].costs_recorded
      /\ orders'[o].receipt = receipt /\ orders'[o].delivery_status = "delivered"
  BY <1>1 DEF Deliver, StoreInv, TypeOK, OrderRow, OrderStatus
<1>4. RowCoherent(orders'[o])
  BY <1>1, <1>3 DEF RowCoherent, PaidStatus, WorkStatus
<1>5. order_history' \in [OrderIds -> History] /\ AbsentBlank' /\ StatusCoherent'
      /\ LedgerAgrees' /\ HistoryReplays'
  BY <1>3, <1>4, OrderMoves DEF Deliver, OrderStatus
<1>6. TypeOK'
  BY <1>3, <1>5 DEF Deliver, StoreInv, TypeOK
<1>7. DeliveryBacked'
  <2>1. orders[o].collected = QuotedAmount
    <3>1. orders[o].payment_status \in PaidStatus
      BY <1>1 DEF RowCoherent, WorkStatus
    <3>2. orders[o].collected = 1 * QuotedAmount
      BY <3>1 DEF StoreInv, RowsInv, LedgerAgrees, BookAgrees
    <3>3. QED
      BY <3>2, ConstantsAssumption
  <2>2. /\ orders[o].costs_recorded
        /\ \A other \in OrderIds \ {o} :
             orders[other].receipt # None => orders[other].receipt[1] # receipt[1]
    BY DEF Deliver, ReceiptFree
  <2>3. DeliveryBacked
    BY DEF StoreInv, RowsInv
  <2> DEFINE Backed(x) ==
        /\ orders'[x].receipt # None <=> orders'[x].order_status = "delivered"
        /\ orders'[x].receipt # None =>
             /\ orders'[x].collected = QuotedAmount
             /\ orders'[x].costs_recorded
             /\ orders'[x].delivery_status = "delivered"
             /\ \A other \in OrderIds \ {x} :
                  orders'[other].receipt # None =>
                    orders'[other].receipt[1] # orders'[x].receipt[1]
  <2>4. Backed(o)
    BY <1>2, <1>3, <2>1, <2>2
  <2>5. ASSUME NEW x \in OrderIds \ {o} PROVE Backed(x)
    <3>1. orders'[x] = orders[x]
      BY <1>3
    <3>2. orders[x].receipt # None => orders[x].receipt[1] # orders'[o].receipt[1]
      BY <1>3, <2>2
    <3>3. QED
      BY <1>3, <2>3, <3>1, <3>2 DEF DeliveryBacked
  <2>6. QED
    BY <2>4, <2>5 DEF DeliveryBacked
<1>8. IdentitiesUnique'
  BY <1>1, <1>3, IdentitiesKept DEF StoreInv
<1>9. EventsInv'
  BY <1>1, <1>3, EventsKept DEF Deliver, StoreInv
<1>10. QED
  BY <1>5, <1>6, <1>7, <1>8, <1>9 DEF StoreInv, RowsInv

LEMMA RecordDirectCostsInv ==
    ASSUME StoreInv, NEW o \in OrderIds, NEW key \in CostKeys, NEW sheet \in CostSheets,
           RecordDirectCosts(o, key, sheet)
    PROVE  StoreInv'
<1>1. /\ orders[o] \in OrderRow /\ RowCoherent(orders[o]) /\ orders[o].order_status # "absent"
      /\ ~orders[o].costs_recorded /\ financial_entries[o] \in Books
  BY DEF StoreInv, TypeOK, RowsInv, StatusCoherent, RecordDirectCosts, Exists, Books
<1>2. /\ orders' \in [OrderIds -> OrderRow]
      /\ \A other \in OrderIds \ {o} : orders'[other] = orders[other]
      /\ orders'[o].checkout = orders[o].checkout /\ orders'[o].payment = orders[o].payment
      /\ orders'[o].order_status = orders[o].order_status
      /\ orders'[o].payment_status = orders[o].payment_status
      /\ orders'[o].collected = orders[o].collected /\ orders'[o].refunded = orders[o].refunded
      /\ orders'[o].fee = orders[o].fee /\ orders'[o].costs_recorded
      /\ orders'[o].receipt = orders[o].receipt
      /\ orders'[o].delivery_status = orders[o].delivery_status
  BY <1>1 DEF RecordDirectCosts, StoreInv, TypeOK, OrderRow
<1>3. sheet \in [CostCategories -> Nat]
  BY ConstantsAssumption
<1>4. CostsAgree(o) /\ BookAgrees(orders[o], financial_entries[o])
      /\ HistoryAgrees(orders[o], order_history[o])
  BY DEF StoreInv, RowsInv, LedgerAgrees, HistoryReplays
<1> DEFINE book == [c \in Categories |->
                      IF c \in CostCategories
                      THEN [rows   |-> financial_entries[o][c].rows + 1,
                            amount |-> financial_entries[o][c].amount + sheet[c],
                            impact |-> financial_entries[o][c].impact - sheet[c]]
                      ELSE financial_entries[o][c]]
<1>5. /\ \A c \in CostCategories :
             book[c] = [rows |-> 1, amount |-> sheet[c], impact |-> -sheet[c]]
      /\ \A c \in Categories \ CostCategories : book[c] = financial_entries[o][c]
  <2>1. \A c \in CostCategories :
           financial_entries[o][c] = [rows |-> 0, amount |-> 0, impact |-> 0]
    BY <1>1, <1>4 DEF CostsAgree
  <2>2. CostCategories \subseteq Categories
    BY DEF Categories
  <2>3. \A c \in CostCategories :
           book[c] = [rows |-> 0 + 1, amount |-> 0 + sheet[c], impact |-> 0 - sheet[c]]
    BY <2>1, <2>2
  <2>4. QED
    BY <1>3, <2>3
<1>6. financial_entries' = [financial_entries EXCEPT ![o] = book]
  BY DEF RecordDirectCosts
<1>7. book \in Books
  <2>1. \A c \in CostCategories : book[c] \in Entry
    <3> HIDE DEF book
    <3> SUFFICES ASSUME NEW c \in CostCategories PROVE book[c] \in Entry
      OBVIOUS
    <3>1. sheet[c] \in Nat /\ -sheet[c] \in Int
      BY <1>3
    <3>2. [rows |-> 1, amount |-> sheet[c], impact |-> -sheet[c]] \in Entry
      BY <3>1 DEF Entry
    <3>3. QED
      BY <1>5, <3>2
  <2>2. \A c \in Categories \ CostCategories : book[c] \in Entry
    <3> HIDE DEF book
    <3>1. QED
      BY <1>1, <1>5 DEF Books
  <2>3. QED
    BY <2>1, <2>2 DEF Books
<1> HIDE DEF book
<1>8. /\ financial_entries'[o] = book /\ financial_entries' \in [OrderIds -> Books]
      /\ \A other \in OrderIds \ {o} : financial_entries'[other] = financial_entries[other]
  BY <1>6, <1>7 DEF StoreInv, TypeOK, Books
<1>9. cost_records' = cost_records \cup {<<o, key, sheet>>}
  BY DEF RecordDirectCosts
<1>10. UNCHANGED <<quotes, provider_events, order_history, now>>
  BY DEF RecordDirectCosts
<1>11. TypeOK'
  BY <1>2, <1>8, <1>9, <1>10 DEF StoreInv, TypeOK, Books
<1>12. RowCoherent(orders'[o])
  BY <1>1, <1>2 DEF RowCoherent
<1>13. BookAgrees(orders'[o], financial_entries'[o])
  <2>1. /\ "gross_collected" \in Categories \ CostCategories
        /\ "processing_fee" \in Categories \ CostCategories
        /\ "refund" \in Categories \ CostCategories
    BY ConstantsAssumption DEF Categories
  <2>2. QED
    BY <1>2, <1>4, <1>5, <1>8, <2>1 DEF BookAgrees
<1>14. CostsAgree(o)'
  <2>1. \A r \in cost_records : r[1] # o
    BY <1>1, <1>4 DEF CostsAgree
  <2>2. /\ \A r \in cost_records' : r[1] = o <=> r = <<o, key, sheet>>
        /\ <<o, key, sheet>> \in cost_records'
    BY <1>9, <2>1
  <2>3. \A c \in CostCategories :
           financial_entries'[o][c] = [rows |-> 1, amount |-> sheet[c], impact |-> -sheet[c]]
    BY <1>5, <1>8
  <2>4. orders'[o].costs_recorded
    BY <1>2
  <2>5. QED
    BY <2>2, <2>3, <2>4, ZenonT(30) DEF CostsAgree
<1>15. HistoryAgrees(orders'[o], order_history'[o])
  BY <1>2, <1>4, <1>10 DEF HistoryAgrees
<1>16. AbsentBlank' /\ StatusCoherent' /\ LedgerAgrees' /\ HistoryReplays'
  <2>1. \A r : r[1] # o => (r \in cost_records' <=> r \in cost_records)
    BY <1>9
  <2>2. orders'[o].order_status # "absent"
    BY <1>1, <1>2
  <2>3. QED
    BY <1>2, <1>8, <1>10, <1>12, <1>13, <1>14, <1>15, <2>1, <2>2, OneOrderChanges DEF StoreInv
<1>17. DeliveryBacked'
  BY <1>2, <1>16, DeliveryKept DEF StoreInv
<1>18. IdentitiesUnique'
  BY <1>1, <1>2, IdentitiesKept DEF StoreInv
<1>19. EventsInv'
  BY <1>1, <1>2, <1>10, EventsKept DEF StoreInv
<1>20. QED
  BY <1>11, <1>16, <1>17, <1>18, <1>19 DEF StoreInv, RowsInv

(* The machine an event starts from: it is well-formed and sound.          *)
LEMMA InsertedFields ==
    ASSUME StoreInv, NEW o \in OrderIds, NEW e \in Feed, NEW received \in ReceiveTimes,
           IngestProviderEvent(o, e, received)
    PROVE  LET start == Inserted(o, e, received) IN
           /\ start.row = orders[o] /\ start.book = financial_entries[o]
           /\ start.history = order_history[o] /\ start.todo = {}
           /\ start.log[e.id] = [event |-> e, received_at |-> received, status |-> "pending"]
           /\ \A i \in EventIds \ {e.id} : start.log[i] = provider_events[i]
           /\ start.log \in [EventIds -> EventRow]
           /\ \A i \in EventIds : provider_events[i].status # "absent" =>
                 start.log[i] = provider_events[i]
<1>1. provider_events \in [EventIds -> EventRow]
  BY DEF StoreInv, TypeOK
<1>2. e.id \in EventIds /\ provider_events[e.id].status = "absent" /\ received \in Nat
  BY ConstantsAssumption DEF Event, IngestProviderEvent, EventUnknown
<1>3. QED
  BY <1>1, <1>2 DEF Inserted, EventRow

LEMMA InsertedSound ==
    ASSUME StoreInv, NEW o \in OrderIds, NEW e \in Feed, NEW received \in ReceiveTimes,
           IngestProviderEvent(o, e, received)
    PROVE  Inserted(o, e, received) \in Machine /\ Sound(Inserted(o, e, received))
<1> DEFINE start == Inserted(o, e, received)
<1>1. /\ orders[o] \in OrderRow /\ orders[o].order_status # "absent"
      /\ orders[o].payment = e.payment /\ financial_entries[o] \in Books
      /\ order_history[o] \in History /\ provider_events \in [EventIds -> EventRow]
      /\ RowCoherent(orders[o]) /\ BookAgrees(orders[o], financial_entries[o])
      /\ HistoryAgrees(orders[o], order_history[o]) /\ CostsAgree(o)
  BY DEF StoreInv, TypeOK, Books, RowsInv, StatusCoherent, LedgerAgrees, HistoryReplays,
         IngestProviderEvent, Exists
<1>2. /\ e \in Event /\ e.id \in EventIds /\ e.payment \in PaymentIds /\ e.payment # None
      /\ EventValid(e) /\ provider_events[e.id].status = "absent" /\ received \in Nat
  BY ConstantsAssumption, NoneAssumption DEF Event, IngestProviderEvent, EventUnknown
<1>3. /\ start.row = orders[o] /\ start.book = financial_entries[o]
      /\ start.history = order_history[o] /\ start.todo = {}
      /\ start.log[e.id] = [event |-> e, received_at |-> received, status |-> "pending"]
      /\ \A i \in EventIds \ {e.id} : start.log[i] = provider_events[i]
      /\ start.log \in [EventIds -> EventRow]
  BY InsertedFields
<1>4. start \in Machine
  <2>1. start = [row |-> start.row, book |-> start.book, history |-> start.history,
                 log |-> start.log, todo |-> start.todo, progress |-> TRUE]
    BY DEF Inserted
  <2> HIDE DEF start
  <2>2. start.todo \in SUBSET EventIds
    BY <1>3
  <2>3. /\ start.row \in OrderRow /\ start.book \in Books /\ start.history \in History
        /\ start.log \in [EventIds -> EventRow]
    BY <1>1, <1>3
  <2>4. QED
    BY <2>1, <2>2, <2>3, MachineRecord, Zenon
<1> HIDE DEF start
<1>5. Sound(start)
  <2>1. EventsKnown(start.log)
    BY <1>2, <1>3 DEF StoreInv, EventsInv, EventsKnown
  <2>2. EffectsReached(start.row, start.log)
    BY <1>2, <1>3 DEF StoreInv, EventsInv, EffectsReached
  <2>3. AppliedOnce(start.log)
    <3>1. \A i \in EventIds : start.log[i].status = "applied" => start.log[i] = provider_events[i]
      BY <1>3
    <3>2. QED
      BY <3>1 DEF StoreInv, EventsInv, EffectsAppliedOnce, AppliedOnce
  <2>4. QED
    BY <1>1, <1>2, <1>3, <2>1, <2>2, <2>3 DEF Sound, Visitable
<1>6. QED
  BY <1>4, <1>5 DEF start

LEMMA IngestProviderEventInv ==
    ASSUME StoreInv, NEW o \in OrderIds, NEW e \in Feed, NEW received \in ReceiveTimes,
           IngestProviderEvent(o, e, received)
    PROVE  StoreInv'
<1> DEFINE start == Inserted(o, e, received)
           m == Reconciled(start)
<1>1. /\ orders[o] \in OrderRow /\ orders[o].order_status # "absent"
      /\ orders[o].payment = e.payment /\ financial_entries[o] \in Books
      /\ order_history[o] \in History /\ provider_events \in [EventIds -> EventRow]
      /\ RowCoherent(orders[o]) /\ BookAgrees(orders[o], financial_entries[o])
      /\ HistoryAgrees(orders[o], order_history[o]) /\ CostsAgree(o)
  BY DEF StoreInv, TypeOK, Books, RowsInv, StatusCoherent, LedgerAgrees, HistoryReplays,
         IngestProviderEvent, Exists
<1>2. /\ e \in Event /\ e.id \in EventIds /\ e.payment \in PaymentIds /\ e.payment # None
      /\ EventValid(e) /\ provider_events[e.id].status = "absent" /\ received \in Nat
  BY ConstantsAssumption, NoneAssumption DEF Event, IngestProviderEvent, EventUnknown
<1>3. /\ start.row = orders[o] /\ start.book = financial_entries[o]
      /\ start.history = order_history[o] /\ start.todo = {}
      /\ start.log[e.id] = [event |-> e, received_at |-> received, status |-> "pending"]
      /\ \A i \in EventIds \ {e.id} : start.log[i] = provider_events[i]
      /\ start.log \in [EventIds -> EventRow]
  BY InsertedFields
<1>6. m \in Machine /\ Sound(m) /\ Kept(start, m)
  BY InsertedSound, ReconciledSound
<1>7. /\ orders' = [orders EXCEPT ![o] = m.row]
      /\ financial_entries' = [financial_entries EXCEPT ![o] = m.book]
      /\ order_history' = [order_history EXCEPT ![o] = m.history]
      /\ provider_events' = m.log
      /\ UNCHANGED <<quotes, cost_records, now>>
  BY DEF IngestProviderEvent
<1> HIDE DEF m, start
<1>8. /\ m.row \in OrderRow /\ m.book \in Books /\ m.history \in History
      /\ m.log \in [EventIds -> EventRow]
  BY <1>6 DEF Machine
<1>9. /\ orders'[o] = m.row /\ orders' \in [OrderIds -> OrderRow]
      /\ \A other \in OrderIds \ {o} : orders'[other] = orders[other]
  BY <1>7, <1>8 DEF StoreInv, TypeOK
<1>10. /\ financial_entries'[o] = m.book /\ financial_entries' \in [OrderIds -> Books]
       /\ \A other \in OrderIds \ {o} : financial_entries'[other] = financial_entries[other]
  BY <1>7, <1>8 DEF StoreInv, TypeOK, Books
<1>11. /\ order_history'[o] = m.history /\ order_history' \in [OrderIds -> History]
       /\ \A other \in OrderIds \ {o} : order_history'[other] = order_history[other]
  BY <1>7, <1>8 DEF StoreInv, TypeOK
<1>12. TypeOK'
  BY <1>7, <1>8, <1>9, <1>10, <1>11 DEF StoreInv, TypeOK, Books
<1>13. RowKept(orders[o], m.row)
  BY <1>3, <1>6 DEF Kept
<1>14. m.row.order_status # "absent"
  BY <1>6 DEF Sound, RowCoherent
<1>15. AbsentBlank' /\ StatusCoherent' /\ LedgerAgrees' /\ HistoryReplays'
  <2>1. RowCoherent(orders'[o]) /\ BookAgrees(orders'[o], financial_entries'[o])
        /\ HistoryAgrees(orders'[o], order_history'[o])
    BY <1>6, <1>9, <1>10, <1>11 DEF Sound
  <2>2. CostsAgree(o)'
    <3>1. \A c \in CostCategories : financial_entries'[o][c] = financial_entries[o][c]
      BY <1>3, <1>6, <1>10 DEF Kept, BookKept
    <3>2. orders'[o].costs_recorded = orders[o].costs_recorded /\ cost_records' = cost_records
      BY <1>7, <1>9, <1>13 DEF RowKept
    <3>3. QED
      BY <1>1, <3>1, <3>2, CostsUntouched
  <2>3. orders'[o].order_status # "absent" /\ cost_records' = cost_records
    BY <1>7, <1>9, <1>14
  <2>4. QED
    BY <1>9, <1>10, <1>11, <2>1, <2>2, <2>3, OneOrderChanges DEF StoreInv
<1>16. DeliveryBacked'
  BY <1>9, <1>13, <1>15, DeliveryKept DEF StoreInv, RowKept
<1>17. IdentitiesUnique'
  BY <1>1, <1>9, <1>13, <1>14, IdentitiesKept DEF StoreInv, RowKept
<1>18. EventsInv'
  <2>1. EventsKnown(provider_events') /\ EffectsAppliedOnce'
    BY <1>6, <1>7 DEF Sound, AppliedOnce, EffectsAppliedOnce
  <2>2. EventsBound'
    <3> SUFFICES ASSUME NEW i \in EventIds, m.log[i].status # "absent"
                 PROVE  \E other \in Placed' : orders'[other].payment = m.log[i].event.payment
      BY <1>7 DEF EventsBound
    <3>1. m.log[i].event = start.log[i].event /\ start.log[i].status # "absent"
      BY <1>6 DEF Kept, LogKept
    <3>2. CASE i = e.id
      BY <1>1, <1>3, <1>9, <1>13, <1>14, <3>1, <3>2 DEF Placed, Exists, RowKept
    <3>3. CASE i # e.id
      <4>1. PICK other \in Placed : orders[other].payment = provider_events[i].event.payment
        BY <1>3, <3>1, <3>3 DEF StoreInv, EventsInv, EventsBound
      <4>2. QED
        BY <1>3, <1>9, <1>13, <1>14, <3>1, <3>3, <4>1 DEF Placed, Exists, RowKept
    <3>4. QED
      BY <3>2, <3>3
  <2>3. ASSUME NEW other \in OrderIds PROVE EffectsReached(orders'[other], provider_events')
    <3>1. CASE other = o
      BY <1>6, <1>7, <1>9, <3>1 DEF Sound
    <3>2. CASE other # o
      <4> SUFFICES ASSUME NEW i \in EventIds, m.log[i].status = "applied",
                          m.log[i].event.payment = orders[other].payment
                   PROVE  orders[other].payment_status \in After(m.log[i].event.type)
        BY <1>7, <1>9, <3>2 DEF EffectsReached
      <4>1. m.log[i].event = start.log[i].event /\ start.log[i].status # "absent"
        BY <1>6 DEF Kept, LogKept
      <4>2. orders[other].payment # orders[o].payment
        <5>1. orders[other].payment # None
          <6>1. m.log[i].event \in Event
            BY <1>6, <1>8, KnownEvent DEF Sound
          <6>2. QED
            BY <6>1, NoneAssumption DEF Event
        <5>2. other \in Placed /\ o \in Placed
          BY <1>1, <5>1 DEF StoreInv, RowsInv, AbsentBlank, NoOrder, Placed, Exists
        <5>3. QED
          BY <3>2, <5>1, <5>2 DEF StoreInv, IdentitiesUnique
      <4>3. m.log[i] = start.log[i]
        BY <1>3, <1>6, <4>1, <4>2 DEF Kept, OthersKept
      <4>4. i # e.id
        BY <1>1, <1>3, <4>1, <4>2
      <4>5. QED
        BY <1>3, <4>3, <4>4 DEF StoreInv, EventsInv, EffectsReached
    <3>3. QED
      BY <3>1, <3>2
  <2>4. QED
    BY <2>1, <2>2, <2>3 DEF EventsInv
<1>19. QED
  BY <1>12, <1>15, <1>16, <1>17, <1>18 DEF StoreInv, RowsInv

-------------------------------------------------------------------------------
(* The theorems *)

LEMMA NextInv == StoreInv /\ [Next]_vars => StoreInv'
<1> SUFFICES ASSUME StoreInv, [Next]_vars PROVE StoreInv'
  OBVIOUS
<1>1. ASSUME NEW q \in QuoteIds, NEW r \in Requests, NEW p \in Providers,
             NEW at \in 0 .. now, CreateQuote(q, r, p, at)
      PROVE  StoreInv'
  BY <1>1, CreateQuoteInv
<1>2. ASSUME NEW q \in QuoteIds, NEW k \in Keys, NEW b \in Buyers,
             NEW at \in 0 .. now, CreateOrder(q, k, b, at)
      PROVE  StoreInv'
  BY <1>2, CreateOrderInv
<1>3. ASSUME NEW o \in OrderIds, NEW c \in CheckoutIds, NEW p \in PaymentIds \cup {None},
             AttachCheckout(o, c, p)
      PROVE  StoreInv'
  BY <1>3, AttachCheckoutInv
<1>4. ASSUME NEW o \in OrderIds, NEW p \in StripePayments, BindProviderPayment(o, p)
      PROVE  StoreInv'
  BY <1>4, BindProviderPaymentInv
<1>5. ASSUME NEW o \in OrderIds, NEW e \in Feed, NEW t \in ReceiveTimes, IngestProviderEvent(o, e, t)
      PROVE  StoreInv'
  BY <1>5, IngestProviderEventInv
<1>6. ASSUME NEW o \in OrderIds, NEW k \in CostKeys, NEW s \in CostSheets, RecordDirectCosts(o, k, s)
      PROVE  StoreInv'
  BY <1>6, RecordDirectCostsInv
<1>7. ASSUME NEW o \in OrderIds, BeginFulfillment(o) PROVE StoreInv'
  BY <1>7, TransitionOrderInv DEF BeginFulfillment
<1>8. ASSUME NEW o \in OrderIds, NEW r \in Evidence, Deliver(o, r) PROVE StoreInv'
  BY <1>8, DeliverInv
<1>9. ASSUME NEW o \in OrderIds, FailFulfillment(o) PROVE StoreInv'
  BY <1>9, TransitionOrderInv DEF FailFulfillment
<1>10. CASE Tick
  BY <1>10, TickInv
<1>11. CASE UNCHANGED vars
  <2>1. quotes' \in [QuoteIds -> QuoteRow \cup {None}] /\ now' \in 0 .. MaxTime
    BY <1>11 DEF vars, StoreInv, TypeOK
  <2>2. QED
    BY <1>11, <2>1, OrdersUntouched DEF vars
<1>12. QED
  BY <1>1, <1>2, <1>3, <1>4, <1>5, <1>6, <1>7, <1>8, <1>9, <1>10, <1>11 DEF Next

(* The strengthening all of them follow from holds in every reachable      *)
(* state: each method of commerce_store.py keeps it.                       *)
THEOREM StoreInvariant == Spec => []StoreInv
<1>1. Init => StoreInv
  BY InitInv
<1>2. StoreInv /\ [Next]_vars => StoreInv'
  BY NextInv
<1>3. QED
  BY <1>1, <1>2, PTL DEF Spec

(* Every column holds a value of its type, in every reachable state of     *)
(* commerce_store.py's tables.                                             *)
THEOREM TypeCorrect == Spec => []TypeOK
<1>1. StoreInv => TypeOK
  BY DEF StoreInv
<1>2. QED
  BY <1>1, StoreInvariant, PTL

(* The order and the payment column of a row agree, however payment events,*)
(* checkout calls and fulfilment calls interleave (_reconcile_payment).    *)
THEOREM StatusesCohere == Spec => []StatusCoherent
<1>1. StoreInv => StatusCoherent
  BY DEF StoreInv, RowsInv
<1>2. QED
  BY <1>1, StoreInvariant, PTL

(* The ledger has the rows the payment and the cost record account for and *)
(* no others (_financial_entry, record_direct_costs).                      *)
THEOREM LedgerIsSound == Spec => []LedgerAgrees
<1>1. StoreInv => LedgerAgrees
  BY DEF StoreInv, RowsInv
<1>2. QED
  BY <1>1, StoreInvariant, PTL

(* A payment effect reported under several event ids is applied once       *)
(* (_reconcile_payment).                                                   *)
THEOREM EffectsHappenOnce == Spec => []EffectsAppliedOnce
<1>1. StoreInv => EffectsAppliedOnce
  BY DEF StoreInv, EventsInv
<1>2. QED
  BY <1>1, StoreInvariant, PTL

(* The audit history of an order is a chain of allowed moves that ends at  *)
(* its current statuses (_history).                                        *)
THEOREM HistoryIsReplayable == Spec => []HistoryReplays
<1>1. StoreInv => HistoryReplays
  BY DEF StoreInv, RowsInv
<1>2. QED
  BY <1>1, StoreInvariant, PTL

(* A delivery is backed by money taken, recorded costs and evidence of its *)
(* own (deliver).                                                          *)
THEOREM DeliveriesAreBacked == Spec => []DeliveryBacked
<1>1. StoreInv => DeliveryBacked
  BY DEF StoreInv, RowsInv
<1>2. QED
  BY <1>1, StoreInvariant, PTL

(* Quotes, idempotency keys, checkouts and payments each belong to one     *)
(* order (the UNIQUE columns of orders).                                   *)
THEOREM IdentitiesAreUnique == Spec => []IdentitiesUnique
<1>1. StoreInv => IdentitiesUnique
  BY DEF StoreInv
<1>2. QED
  BY <1>1, StoreInvariant, PTL

-------------------------------------------------------------------------------
(* What no step rewrites *)

LEMMA EventsUnchangedFinal ==
    ASSUME StoreInv, provider_events' = provider_events,
           \A o \in OrderIds :
              /\ orders[o].checkout # None => orders'[o].checkout = orders[o].checkout
              /\ orders[o].payment # None => orders'[o].payment = orders[o].payment
              /\ orders[o].receipt # None => orders'[o].receipt = orders[o].receipt
              /\ Extends(order_history[o].order, order_history'[o].order)
              /\ Extends(order_history[o].payment, order_history'[o].payment)
    PROVE  RecordsFinal
BY DEF RecordsFinal, Extends

(* The moves a call appends leave the earlier moves where they are.        *)
LEMMA OneMoveExtends ==
    ASSUME StoreInv, NEW o \in OrderIds, NEW move,
           order_history' = [order_history EXCEPT ![o].order = Append(@, move)]
    PROVE  \A other \in OrderIds :
              /\ Extends(order_history[other].order, order_history'[other].order)
              /\ Extends(order_history[other].payment, order_history'[other].payment)
<1> SUFFICES ASSUME NEW other \in OrderIds
             PROVE  /\ Extends(order_history[other].order, order_history'[other].order)
                    /\ Extends(order_history[other].payment, order_history'[other].payment)
  OBVIOUS
<1>1. order_history \in [OrderIds -> History]
  BY DEF StoreInv, TypeOK
<1>2. order_history[other].order \in Moves /\ order_history[other].payment \in Moves
  BY <1>1 DEF History
<1>3. /\ order_history'[other].payment = order_history[other].payment
      /\ \/ order_history'[other].order = order_history[other].order
         \/ order_history'[other].order = Append(order_history[other].order, move)
  BY <1>1 DEF History
<1>4. Extends(order_history[other].order, order_history[other].order)
      /\ Extends(order_history[other].payment, order_history[other].payment)
  BY <1>2 DEF Extends, Moves
<1>5. QED
  BY <1>2, <1>3, <1>4, AppendExtends

LEMMA HistoryUntouched ==
    ASSUME StoreInv, order_history' = order_history
    PROVE  \A other \in OrderIds :
              /\ Extends(order_history[other].order, order_history'[other].order)
              /\ Extends(order_history[other].payment, order_history'[other].payment)
BY DEF StoreInv, TypeOK, History, Moves, Extends

LEMMA IngestFinal ==
    ASSUME StoreInv, NEW o \in OrderIds, NEW e \in Feed, NEW t \in ReceiveTimes,
           IngestProviderEvent(o, e, t)
    PROVE  RecordsFinal
<1> DEFINE start == Inserted(o, e, t)
<1>1. PICK m : /\ orders' = [orders EXCEPT ![o] = m.row]
               /\ order_history' = [order_history EXCEPT ![o] = m.history]
               /\ provider_events' = m.log
               /\ Kept(start, m)
  BY InsertedSound, ReconciledSound DEF IngestProviderEvent
<1>2. /\ start.row = orders[o] /\ start.book = financial_entries[o]
      /\ start.history = order_history[o] /\ start.todo = {}
      /\ start.log[e.id] = [event |-> e, received_at |-> t, status |-> "pending"]
      /\ \A i \in EventIds \ {e.id} : start.log[i] = provider_events[i]
      /\ start.log \in [EventIds -> EventRow]
      /\ \A i \in EventIds : provider_events[i].status # "absent" =>
            start.log[i] = provider_events[i]
  BY InsertedFields
<1> HIDE DEF start
<1>3. RowKept(orders[o], m.row) /\ HistoryKept(order_history[o], m.history)
  BY <1>1, <1>2 DEF Kept
<1>4. ASSUME NEW i \in EventIds, provider_events[i].status # "absent"
      PROVE  /\ provider_events'[i].event = provider_events[i].event
             /\ provider_events'[i].received_at = provider_events[i].received_at
             /\ provider_events[i].status # "pending" =>
                  provider_events'[i].status = provider_events[i].status
  BY <1>1, <1>2, <1>4 DEF Kept, LogKept
<1>5. \A other \in OrderIds :
         /\ orders'[other].checkout = orders[other].checkout
         /\ orders'[other].payment = orders[other].payment
         /\ orders'[other].receipt = orders[other].receipt
  BY <1>1, <1>3 DEF RowKept, StoreInv, TypeOK
<1>6. \A other \in OrderIds :
         /\ Extends(order_history[other].order, order_history'[other].order)
         /\ Extends(order_history[other].payment, order_history'[other].payment)
  <2>1. ASSUME NEW other \in OrderIds \ {o} PROVE order_history'[other] = order_history[other]
    BY <1>1 DEF StoreInv, TypeOK
  <2>2. order_history'[o] = m.history
    BY <1>1 DEF StoreInv, TypeOK
  <2>3. \A other \in OrderIds : /\ Extends(order_history[other].order, order_history[other].order)
                                 /\ Extends(order_history[other].payment, order_history[other].payment)
    BY DEF StoreInv, TypeOK, History, Moves, Extends
  <2>4. QED
    BY <1>3, <2>1, <2>2, <2>3 DEF HistoryKept
<1>7. QED
  BY <1>4, <1>5, <1>6 DEF RecordsFinal, Extends

LEMMA NextFinal == StoreInv /\ [Next]_vars => [RecordsFinal]_vars
<1> SUFFICES ASSUME StoreInv, Next PROVE RecordsFinal
  OBVIOUS
<1>1. ASSUME NEW q \in QuoteIds, NEW r \in Requests, NEW p \in Providers,
             NEW at \in 0 .. now, CreateQuote(q, r, p, at)
      PROVE  RecordsFinal
  BY <1>1, HistoryUntouched, EventsUnchangedFinal DEF CreateQuote
<1>2. ASSUME NEW q \in QuoteIds, NEW k \in Keys, NEW b \in Buyers,
             NEW at \in 0 .. now, CreateOrder(q, k, b, at)
      PROVE  RecordsFinal
  <2> DEFINE o == <<q, k, b>>
  <2>1. o \in OrderIds /\ KeyOf(o) = k
    BY DEF OrderIds, KeyOf
  <2>2. orders[o] = NoOrder
    BY <1>2, <2>1 DEF CreateOrder, Placed, Exists, StoreInv, RowsInv, AbsentBlank
  <2>3. \A other \in OrderIds \ {o} : orders'[other] = orders[other]
    BY <1>2, <2>1 DEF CreateOrder, StoreInv, TypeOK
  <2>4. \A other \in OrderIds :
           /\ Extends(order_history[other].order, order_history'[other].order)
           /\ Extends(order_history[other].payment, order_history'[other].payment)
    BY <1>2, <2>1, OneMoveExtends DEF CreateOrder
  <2>5. provider_events' = provider_events
    BY <1>2 DEF CreateOrder
  <2> HIDE DEF o
  <2>6. QED
    BY <2>1, <2>2, <2>3, <2>4, <2>5, EventsUnchangedFinal DEF NoOrder
<1>3. ASSUME NEW o \in OrderIds, NEW c \in CheckoutIds, NEW p \in PaymentIds \cup {None},
             AttachCheckout(o, c, p)
      PROVE  RecordsFinal
  <2>1. orders[o].payment = None /\ orders[o].checkout = None
    BY <1>3 DEF AttachCheckout, StoreInv, RowsInv, StatusCoherent, RowCoherent
  <2>2. /\ \A other \in OrderIds \ {o} : orders'[other] = orders[other]
        /\ orders'[o].receipt = orders[o].receipt
    BY <1>3 DEF AttachCheckout, StoreInv, TypeOK, OrderRow
  <2>3. \A other \in OrderIds :
           /\ Extends(order_history[other].order, order_history'[other].order)
           /\ Extends(order_history[other].payment, order_history'[other].payment)
    BY <1>3, OneMoveExtends DEF AttachCheckout
  <2>4. QED
    BY <1>3, <2>1, <2>2, <2>3, EventsUnchangedFinal DEF AttachCheckout
<1>4. ASSUME NEW o \in OrderIds, NEW p \in StripePayments, BindProviderPayment(o, p)
      PROVE  RecordsFinal
  <2>1. /\ \A other \in OrderIds \ {o} : orders'[other] = orders[other]
        /\ orders'[o].receipt = orders[o].receipt /\ orders'[o].checkout = orders[o].checkout
        /\ orders[o].payment = None
    BY <1>4 DEF BindProviderPayment, StoreInv, TypeOK, OrderRow
  <2>2. QED
    BY <1>4, <2>1, HistoryUntouched, EventsUnchangedFinal DEF BindProviderPayment
<1>5. ASSUME NEW o \in OrderIds, NEW e \in Feed, NEW t \in ReceiveTimes, IngestProviderEvent(o, e, t)
      PROVE  RecordsFinal
  BY <1>5, IngestFinal
<1>6. ASSUME NEW o \in OrderIds, NEW k \in CostKeys, NEW s \in CostSheets, RecordDirectCosts(o, k, s)
      PROVE  RecordsFinal
  <2>1. \A other \in OrderIds :
           /\ orders'[other].receipt = orders[other].receipt
           /\ orders'[other].checkout = orders[other].checkout
           /\ orders'[other].payment = orders[other].payment
    BY <1>6 DEF RecordDirectCosts, StoreInv, TypeOK, OrderRow
  <2>2. QED
    BY <1>6, <2>1, HistoryUntouched, EventsUnchangedFinal DEF RecordDirectCosts
<1>7. ASSUME NEW o \in OrderIds, NEW target \in {"running", "fulfillment_failed"},
             NEW delivery \in {"running", "failed"}, TransitionOrder(o, target, delivery)
      PROVE  RecordsFinal
  <2>1. \A other \in OrderIds :
           /\ orders'[other].receipt = orders[other].receipt
           /\ orders'[other].checkout = orders[other].checkout
           /\ orders'[other].payment = orders[other].payment
    BY <1>7 DEF TransitionOrder, StoreInv, TypeOK, OrderRow
  <2>2. \A other \in OrderIds :
           /\ Extends(order_history[other].order, order_history'[other].order)
           /\ Extends(order_history[other].payment, order_history'[other].payment)
    BY <1>7, OneMoveExtends DEF TransitionOrder
  <2>3. QED
    BY <1>7, <2>1, <2>2, EventsUnchangedFinal DEF TransitionOrder
<1>8. ASSUME NEW o \in OrderIds, NEW r \in Evidence, Deliver(o, r) PROVE RecordsFinal
  <2>1. orders[o].order_status = "running"
    BY <1>8 DEF Deliver, AllowedOrder, ORDER_TRANSITIONS
  <2>2. orders[o].receipt = None
    BY <2>1 DEF StoreInv, RowsInv, DeliveryBacked
  <2>3. /\ \A other \in OrderIds \ {o} : orders'[other] = orders[other]
        /\ orders'[o].checkout = orders[o].checkout /\ orders'[o].payment = orders[o].payment
    BY <1>8 DEF Deliver, StoreInv, TypeOK, OrderRow
  <2>4. \A other \in OrderIds :
           /\ Extends(order_history[other].order, order_history'[other].order)
           /\ Extends(order_history[other].payment, order_history'[other].payment)
    BY <1>8, OneMoveExtends DEF Deliver
  <2>5. QED
    BY <1>8, <2>2, <2>3, <2>4, EventsUnchangedFinal DEF Deliver
<1>9. CASE Tick
  BY <1>9, HistoryUntouched, EventsUnchangedFinal DEF Tick
<1>10. QED
  BY <1>1, <1>2, <1>3, <1>4, <1>5, <1>6, <1>7, <1>8, <1>9 DEF Next, BeginFulfillment, FailFulfillment

(* Stored events, settled outcomes, bindings and histories are never       *)
(* rewritten by any step (ingest_provider_event, attach_checkout,          *)
(* bind_provider_payment, deliver).                                        *)
THEOREM RecordsStayFinal == Spec => RecordsAreFinal
<1>1. StoreInv /\ [Next]_vars => [RecordsFinal]_vars
  BY NextFinal
<1>2. QED
  BY <1>1, StoreInvariant, PTL DEF Spec, RecordsAreFinal

-------------------------------------------------------------------------------
(* The contract *)

(* What a row promises, read off its two status columns.                   *)
LEMMA PromiseOfRow ==
    ASSUME NEW row \in OrderRow
    PROVE  /\ row.order_status = "absent" => WorkOf(row) = "none"
           /\ row.order_status \in {"checkout_pending", "payment_pending"} => WorkOf(row) = "unpaid"
           /\ row.order_status = "queued" => WorkOf(row) = "ready"
           /\ row.order_status = "running" => WorkOf(row) = "started"
           /\ row.order_status = "delivered" => WorkOf(row) = "delivered"
           /\ row.order_status = "fulfillment_failed" => WorkOf(row) = "abandoned"
           /\ row.order_status = "payment_failed" => WorkOf(row) = "void"
           /\ row.payment_status \in {"pending", "failed"} => FundsOf(row) = "none"
           /\ row.payment_status \in {"captured", "available", "refund_pending"} =>
                FundsOf(row) = "held"
           /\ row.payment_status = "refunded" => FundsOf(row) = "returned"
           /\ row.payment_status = "disputed" => FundsOf(row) = "contested"
BY DEF WorkOf, FundsOf

(* Where the events of a payment can take its order: nowhere, or to the end *)
(* of an open payment, or only on to the fate of money held.               *)
Reaches(row, after) ==
    \/ /\ after.order_status = row.order_status
       /\ \/ FundsOf(after) = FundsOf(row)
          \/ FundsOf(row) = "held" /\ FundsOf(after) \in {"returned", "contested"}
    \/ /\ row.order_status = "payment_pending" /\ after.order_status = "payment_failed"
       /\ FundsOf(after) = "none"
    \/ /\ row.order_status = "payment_pending" /\ after.order_status = "queued"
       /\ FundsOf(after) \in {"held", "returned", "contested"}

LEMMA ReachesTransitive ==
    ASSUME NEW a, NEW b, NEW c, Reaches(a, b), Reaches(b, c) PROVE Reaches(a, c)
BY DEF Reaches

LEMMA AppliedReaches ==
    ASSUME NEW row \in OrderRow, NEW e \in Event, NEW m, m.row = row,
           RowCoherent(row), row.payment # None, Applicable(m, e)
    PROVE  Reaches(row, AppliedRow(row, e))
<1> DEFINE after == AppliedRow(row, e)
<1>1. /\ AllowedPayment(row.payment_status, e.type)
      /\ e.type = "captured" => row.order_status = "payment_pending"
  BY DEF Applicable
<1>2. /\ after \in OrderRow /\ after.payment_status = e.type
      /\ after.order_status = OrderTarget(row, e)
  <2>1. after \in OrderRow
    BY AppliedRowType
  <2>2. after.payment_status = e.type /\ after.order_status = OrderTarget(row, e)
    BY DEF AppliedRow, OrderRow
  <2>3. QED
    BY <2>1, <2>2
<1> HIDE DEF after
<1>3. ASSUME row.payment_status = "pending" PROVE Reaches(row, after)
  <2>1. row.order_status = "payment_pending" /\ FundsOf(row) = "none"
    BY <1>3, PromiseOfRow DEF RowCoherent
  <2>2. ASSUME e.type = "captured" PROVE Reaches(row, after)
    BY <1>2, <2>1, <2>2, PromiseOfRow DEF OrderTarget, Reaches
  <2>3. ASSUME e.type = "failed" PROVE Reaches(row, after)
    BY <1>2, <2>1, <2>3, PromiseOfRow DEF OrderTarget, Reaches
  <2>4. QED
    BY <1>1, <1>3, <2>2, <2>3, PaymentMoves
<1>4. ASSUME row.payment_status # "pending" PROVE Reaches(row, after)
  <2>1. e.type \notin {"captured", "failed"}
    BY <1>1, <1>4, PaymentMoves
  <2>2. after.order_status = row.order_status
    BY <1>2, <2>1 DEF OrderTarget
  <2>3. /\ row.payment_status \in {"captured", "available", "refund_pending"}
        /\ e.type \in {"available", "refund_pending", "refunded", "disputed"}
    BY <1>1, <1>4, PaymentMoves
  <2>4. /\ FundsOf(row) = "held"
        /\ FundsOf(after) \in {"held", "returned", "contested"}
    BY <1>2, <2>3, PromiseOfRow
  <2>5. QED
    BY <2>2, <2>4 DEF Reaches
<1>5. QED
  BY <1>3, <1>4 DEF after

LEMMA LoopStepReaches ==
    ASSUME NEW x \in Machine, Sound(x) PROVE Reaches(x.row, LoopStep(x).row)
<1>1. Reaches(x.row, x.row)
  BY DEF Reaches
<1>2. CASE x.todo # {}
  <2>1. LoopStep(x) = VisitNext(x)
    BY <1>2 DEF LoopStep
  <2>2. PICK i \in x.todo :
           \/ VisitNext(x) = Stays(x, i)
           \/ \E verdict \in Settled : VisitNext(x) = Settles(x, i, verdict)
           \/ /\ VisitNext(x) = Applies(x, i)
              /\ Applicable(x, x.log[i].event)
              /\ x.log[i].event.amount = QuotedAmount
    BY <1>2, VisitCases
  <2>3. Stays(x, i).row = x.row
    BY DEF Stays, Machine
  <2>4. \A verdict \in Settled : Settles(x, i, verdict).row = x.row
    BY DEF Settles
  <2>5. Applicable(x, x.log[i].event) => Reaches(x.row, Applies(x, i).row)
    <3> SUFFICES ASSUME Applicable(x, x.log[i].event)
                 PROVE  Reaches(x.row, Applies(x, i).row)
      OBVIOUS
    <3>1. /\ x.log \in [EventIds -> EventRow] /\ i \in EventIds /\ x.row \in OrderRow
          /\ x.log[i].status = "pending" /\ EventsKnown(x.log)
          /\ RowCoherent(x.row) /\ x.row.payment # None
      BY DEF Machine, Sound, Visitable
    <3>2. x.log[i].event \in Event
      BY <3>1, KnownEvent
    <3>3. Reaches(x.row, AppliedRow(x.row, x.log[i].event))
      BY <3>1, <3>2, AppliedReaches
    <3>4. QED
      BY <3>3 DEF Applies
  <2>6. QED
    BY <1>1, <2>1, <2>2, <2>3, <2>4, <2>5
<1>3. CASE x.todo = {} /\ x.progress
  <2>1. LoopStep(x).row = x.row
    BY <1>3 DEF LoopStep, Machine
  <2>2. QED
    BY <1>1, <2>1
<1>4. CASE x.todo = {} /\ ~x.progress
  BY <1>1, <1>4 DEF LoopStep
<1>5. QED
  BY <1>2, <1>3, <1>4

LEMMA ReconciledReaches ==
    ASSUME NEW m \in Machine, Sound(m) PROVE Reaches(m.row, Reconciled(m).row)
<1> DEFINE S == {x \in Machine : Sound(x) /\ Reaches(m.row, x.row)}
<1>1. m \in S
  BY DEF Reaches
<1>2. ASSUME NEW x \in S PROVE LoopStep(x) \in S
  BY LoopStepSound, LoopStepReaches, ReachesTransitive
<1> HIDE DEF S
<1>3. Reconciled(m) \in S
  BY <1>1, <1>2, ReconciledPreserves
<1>4. QED
  BY <1>3 DEF S

(* A step that leaves all rows but one alone is a step of one promise.     *)
LEMMA OnePromise ==
    ASSUME NEW o \in OrderIds, orders \in [OrderIds -> OrderRow],
           orders' \in [OrderIds -> OrderRow],
           \A other \in OrderIds \ {o} : orders'[other] = orders[other]
    PROVE  Contract!Becomes(o, WorkOf(orders'[o]), FundsOf(orders'[o]))
<1> DEFINE before == [x \in OrderIds |-> [work |-> WorkOf(orders[x]), funds |-> FundsOf(orders[x])]]
           after == [x \in OrderIds |-> [work |-> WorkOf(orders'[x]), funds |-> FundsOf(orders'[x])]]
           mine == [work |-> WorkOf(orders'[o]), funds |-> FundsOf(orders'[o])]
<1>1. after = [before EXCEPT ![o] = mine]
  <2>1. \A x \in OrderIds : after[x] = IF x = o THEN mine ELSE before[x]
    OBVIOUS
  <2> HIDE DEF mine
  <2>2. QED
    BY <2>1
<1>2. QED
  BY <1>1 DEF Contract!Becomes

Promises == [x \in OrderIds |-> [work |-> WorkOf(orders[x]), funds |-> FundsOf(orders[x])]]

(* Calls of the store that move the work and leave the money alone.        *)
LEMMA WorkMoves ==
    ASSUME NEW o \in OrderIds, orders \in [OrderIds -> OrderRow],
           orders' \in [OrderIds -> OrderRow],
           \A other \in OrderIds \ {o} : orders'[other] = orders[other],
           RowCoherent(orders[o]),
           orders'[o].payment_status = orders[o].payment_status,
           \/ /\ orders[o].order_status = "absent"
              /\ orders'[o].order_status = "checkout_pending"
           \/ /\ orders[o].order_status = "checkout_pending"
              /\ orders'[o].order_status = "payment_pending"
           \/ /\ orders[o].order_status = "queued"
              /\ orders'[o].order_status \in {"running", "fulfillment_failed"}
           \/ /\ orders[o].order_status = "running"
              /\ orders'[o].order_status \in {"delivered", "fulfillment_failed"}
    PROVE  [Contract!ContractNext]_Promises
<1> DEFINE before == orders[o]
           after == orders'[o]
<1>1. before \in OrderRow /\ after \in OrderRow
  OBVIOUS
<1>2. Contract!Becomes(o, WorkOf(after), FundsOf(after))
  BY OnePromise
<1>3. Promises[o].work = WorkOf(before) /\ Promises[o].funds = FundsOf(before)
  BY DEF Promises
<1>4. FundsOf(after) = FundsOf(before)
  BY DEF FundsOf
<1>5. CASE before.order_status = "absent"
  <2>1. WorkOf(before) = "none" /\ WorkOf(after) = "unpaid" /\ FundsOf(after) = "none"
    BY <1>1, <1>4, <1>5, PromiseOfRow DEF RowCoherent
  <2>2. Contract!Open(o)
    BY <1>2, <1>3, <2>1 DEF Contract!Open, Promises
  <2>3. QED
    BY <2>2 DEF Contract!ContractNext
<1>6. CASE before.order_status = "checkout_pending"
  <2>1. WorkOf(before) = WorkOf(after)
    BY <1>1, <1>6, PromiseOfRow
  <2>2. Promises' = Promises
    BY <1>4, <2>1 DEF Promises
  <2>3. QED
    BY <2>2
<1>7. CASE before.order_status = "queued"
  <2>1. WorkOf(before) = "ready" /\ WorkOf(after) \in {"started", "abandoned"}
    BY <1>1, <1>7, PromiseOfRow
  <2>2. Contract!Start(o) \/ Contract!Abandon(o)
    BY <1>2, <1>3, <1>4, <2>1 DEF Contract!Start, Contract!Abandon, Promises
  <2>3. QED
    BY <2>2 DEF Contract!ContractNext
<1>8. CASE before.order_status = "running"
  <2>1. WorkOf(before) = "started" /\ WorkOf(after) \in {"delivered", "abandoned"}
    BY <1>1, <1>8, PromiseOfRow
  <2>2. Contract!Finish(o) \/ Contract!Abandon(o)
    BY <1>2, <1>3, <1>4, <2>1 DEF Contract!Finish, Contract!Abandon, Promises
  <2>3. QED
    BY <2>2 DEF Contract!ContractNext
<1>9. QED
  BY <1>5, <1>6, <1>7, <1>8

(* What an ingested event makes of its order.                              *)
LEMMA FundsMove ==
    ASSUME NEW o \in OrderIds, orders \in [OrderIds -> OrderRow],
           orders' \in [OrderIds -> OrderRow],
           \A other \in OrderIds \ {o} : orders'[other] = orders[other],
           Reaches(orders[o], orders'[o])
    PROVE  [Contract!ContractNext]_Promises
<1> DEFINE before == orders[o]
           after == orders'[o]
<1>1. before \in OrderRow /\ after \in OrderRow
  OBVIOUS
<1>2. Contract!Becomes(o, WorkOf(after), FundsOf(after))
  BY OnePromise
<1>3. Promises[o].work = WorkOf(before) /\ Promises[o].funds = FundsOf(before)
  BY DEF Promises
<1>4. CASE after.order_status = before.order_status /\ FundsOf(after) = FundsOf(before)
  <2>1. WorkOf(after) = WorkOf(before)
    BY <1>4 DEF WorkOf
  <2>2. Promises' = Promises
    BY <1>4, <2>1 DEF Promises
  <2>3. QED
    BY <2>2
<1>5. CASE /\ after.order_status = before.order_status
           /\ FundsOf(before) = "held" /\ FundsOf(after) \in {"returned", "contested"}
  <2>1. WorkOf(after) = WorkOf(before)
    BY <1>5 DEF WorkOf
  <2>2. Contract!SettleFunds(o)
    BY <1>2, <1>3, <1>5, <2>1 DEF Contract!SettleFunds, Promises
  <2>3. QED
    BY <2>2 DEF Contract!ContractNext
<1>6. CASE /\ before.order_status = "payment_pending" /\ after.order_status = "payment_failed"
           /\ FundsOf(after) = "none"
  <2>1. WorkOf(before) = "unpaid" /\ WorkOf(after) = "void"
    BY <1>1, <1>6, PromiseOfRow
  <2>2. Contract!Void(o)
    BY <1>2, <1>3, <1>6, <2>1 DEF Contract!Void, Promises
  <2>3. QED
    BY <2>2 DEF Contract!ContractNext
<1>7. CASE /\ before.order_status = "payment_pending" /\ after.order_status = "queued"
           /\ FundsOf(after) \in {"held", "returned", "contested"}
  <2>1. WorkOf(before) = "unpaid" /\ WorkOf(after) = "ready"
    BY <1>1, <1>7, PromiseOfRow
  <2>2. Contract!Collect(o)
    BY <1>2, <1>3, <1>7, <2>1 DEF Contract!Collect, Contract!Funds, Promises
  <2>3. QED
    BY <2>2 DEF Contract!ContractNext
<1>8. QED
  BY <1>4, <1>5, <1>6, <1>7 DEF Reaches

(* A call that writes neither status column keeps every promise as it is.  *)
LEMMA PromisesUntouched ==
    ASSUME \A o \in OrderIds :
              /\ orders'[o].order_status = orders[o].order_status
              /\ orders'[o].payment_status = orders[o].payment_status
    PROVE  Promises' = Promises
<1>1. \A o \in OrderIds : WorkOf(orders'[o]) = WorkOf(orders[o]) /\ FundsOf(orders'[o]) = FundsOf(orders[o])
  BY DEF WorkOf, FundsOf
<1>2. QED
  BY <1>1 DEF Promises

LEMMA IngestKeepsContract ==
    ASSUME StoreInv, NEW o \in OrderIds, NEW e \in Feed, NEW t \in ReceiveTimes,
           IngestProviderEvent(o, e, t)
    PROVE  [Contract!ContractNext]_Promises
<1> DEFINE start == Inserted(o, e, t)
           m == Reconciled(start)
<1>1. start \in Machine /\ Sound(start) /\ start.row = orders[o]
  BY InsertedSound, InsertedFields
<1>2. m \in Machine /\ Reaches(start.row, m.row)
  BY <1>1, ReconciledSound, ReconciledReaches
<1>3. orders' = [orders EXCEPT ![o] = m.row]
  BY DEF IngestProviderEvent
<1> HIDE DEF start, m
<1>4. m.row \in OrderRow
  BY <1>2 DEF Machine
<1>5. /\ orders \in [OrderIds -> OrderRow] /\ orders' \in [OrderIds -> OrderRow]
      /\ orders'[o] = m.row
      /\ \A other \in OrderIds \ {o} : orders'[other] = orders[other]
  BY <1>3, <1>4 DEF StoreInv, TypeOK
<1>6. QED
  BY <1>1, <1>2, <1>5, FundsMove

LEMMA NextKeepsContract == StoreInv /\ [Next]_vars => [Contract!ContractNext]_Promises
<1> SUFFICES ASSUME StoreInv, [Next]_vars PROVE [Contract!ContractNext]_Promises
  OBVIOUS
<1>1. /\ orders \in [OrderIds -> OrderRow] /\ orders' \in [OrderIds -> OrderRow]
      /\ \A o \in OrderIds : RowCoherent(orders[o])
  <2>1. StoreInv'
    BY NextInv
  <2>2. QED
    BY <2>1 DEF StoreInv, TypeOK, RowsInv, StatusCoherent
<1>2. CASE orders' = orders
  BY <1>2, PromisesUntouched
<1>3. ASSUME NEW q \in QuoteIds, NEW k \in Keys, NEW b \in Buyers,
             NEW at \in 0 .. now, CreateOrder(q, k, b, at)
      PROVE  [Contract!ContractNext]_Promises
  <2> DEFINE o == <<q, k, b>>
  <2>1. o \in OrderIds /\ KeyOf(o) = k
    BY DEF OrderIds, KeyOf
  <2>2. orders[o] = NoOrder
    BY <1>3, <2>1 DEF CreateOrder, Placed, Exists, StoreInv, RowsInv, AbsentBlank
  <2>3. /\ orders'[o] = [NoOrder EXCEPT !.order_status = "checkout_pending",
                                        !.provider = quotes[q].provider]
        /\ \A other \in OrderIds \ {o} : orders'[other] = orders[other]
    BY <1>1, <1>3, <2>1 DEF CreateOrder
  <2> HIDE DEF o
  <2>4. /\ orders[o].order_status = "absent" /\ orders'[o].order_status = "checkout_pending"
        /\ orders'[o].payment_status = orders[o].payment_status
    BY <2>2, <2>3 DEF NoOrder
  <2>5. QED
    BY <1>1, <2>1, <2>3, <2>4, WorkMoves
<1>4. ASSUME NEW o \in OrderIds, NEW c \in CheckoutIds, NEW p \in PaymentIds \cup {None},
             AttachCheckout(o, c, p)
      PROVE  [Contract!ContractNext]_Promises
  <2>1. /\ \A other \in OrderIds \ {o} : orders'[other] = orders[other]
        /\ orders'[o].payment_status = orders[o].payment_status
        /\ orders'[o].order_status = "payment_pending"
        /\ orders[o].order_status = "checkout_pending"
    BY <1>1, <1>4 DEF AttachCheckout, OrderRow, AllowedOrder, ORDER_TRANSITIONS
  <2>2. QED
    BY <1>1, <2>1, WorkMoves
<1>5. ASSUME NEW o \in OrderIds, NEW p \in StripePayments, BindProviderPayment(o, p)
      PROVE  [Contract!ContractNext]_Promises
  <2>1. \A other \in OrderIds : /\ orders'[other].order_status = orders[other].order_status
                                 /\ orders'[other].payment_status = orders[other].payment_status
    BY <1>1, <1>5 DEF BindProviderPayment, OrderRow
  <2>2. QED
    BY <2>1, PromisesUntouched
<1>6. ASSUME NEW o \in OrderIds, NEW k \in CostKeys, NEW s \in CostSheets, RecordDirectCosts(o, k, s)
      PROVE  [Contract!ContractNext]_Promises
  <2>1. \A other \in OrderIds : /\ orders'[other].order_status = orders[other].order_status
                                 /\ orders'[other].payment_status = orders[other].payment_status
    BY <1>1, <1>6 DEF RecordDirectCosts, OrderRow
  <2>2. QED
    BY <2>1, PromisesUntouched
<1>7. ASSUME NEW o \in OrderIds, NEW target \in {"running", "fulfillment_failed"},
             NEW delivery \in {"running", "failed"}, TransitionOrder(o, target, delivery)
      PROVE  [Contract!ContractNext]_Promises
  <2>1. /\ \A other \in OrderIds \ {o} : orders'[other] = orders[other]
        /\ orders'[o].payment_status = orders[o].payment_status
        /\ orders'[o].order_status = target
    BY <1>1, <1>7 DEF TransitionOrder, OrderRow
  <2>2. <<orders[o].order_status, target>> \in ORDER_TRANSITIONS
    BY <1>7 DEF TransitionOrder, AllowedOrder
  <2>3. \/ orders[o].order_status = "queued"
        \/ orders[o].order_status = "running" /\ target = "fulfillment_failed"
    BY <2>2 DEF ORDER_TRANSITIONS
  <2>4. QED
    BY <1>1, <2>1, <2>3, WorkMoves
<1>8. ASSUME NEW o \in OrderIds, NEW r \in Evidence, Deliver(o, r)
      PROVE  [Contract!ContractNext]_Promises
  <2>1. /\ \A other \in OrderIds \ {o} : orders'[other] = orders[other]
        /\ orders'[o].payment_status = orders[o].payment_status
        /\ orders'[o].order_status = "delivered"
        /\ orders[o].order_status = "running"
    BY <1>1, <1>8 DEF Deliver, OrderRow, AllowedOrder, ORDER_TRANSITIONS
  <2>2. QED
    BY <1>1, <2>1, WorkMoves
<1>9. ASSUME NEW o \in OrderIds, NEW e \in Feed, NEW t \in ReceiveTimes, IngestProviderEvent(o, e, t)
      PROVE  [Contract!ContractNext]_Promises
  BY <1>9, IngestKeepsContract
<1>10. CASE UNCHANGED vars \/ Tick
  BY <1>2, <1>10 DEF vars, Tick
<1>11. ASSUME NEW q \in QuoteIds, NEW r \in Requests, NEW p \in Providers,
              NEW at \in 0 .. now, CreateQuote(q, r, p, at)
       PROVE  [Contract!ContractNext]_Promises
  BY <1>2, <1>11 DEF CreateQuote
<1>12. QED
  BY <1>3, <1>4, <1>5, <1>6, <1>7, <1>8, <1>9, <1>10, <1>11
  DEF Next, BeginFulfillment, FailFulfillment

(* The store implements the contract with its buyers: every transaction of *)
(* commerce_store.py is one step of OrderContract on one order, or changes *)
(* nothing that was promised.                                              *)
THEOREM StoreKeepsContract == Spec => KeepsContract
<1>1. Init => Contract!ContractInit
  <2> SUFFICES ASSUME Init PROVE Contract!ContractInit
    OBVIOUS
  <2>1. \A o \in OrderIds : WorkOf(orders[o]) = "none" /\ FundsOf(orders[o]) = "none"
    BY DEF Init, NoOrder, WorkOf, FundsOf
  <2>2. QED
    BY <2>1 DEF Contract!ContractInit
<1>2. StoreInv /\ [Next]_vars => [Contract!ContractNext]_Promises
  BY NextKeepsContract
<1>3. StoreInv /\ [Next]_vars =>
        [Contract!ContractNext]_[o \in OrderIds |-> [work  |-> WorkOf(orders[o]),
                                                     funds |-> FundsOf(orders[o])]]
  BY <1>2 DEF Promises
<1>4. QED
  BY <1>1, <1>3, StoreInvariant, PTL DEF Spec, KeepsContract, Contract!ContractSpec

-------------------------------------------------------------------------------
(* Events are followed up *)

StoreFollows == \A o \in OrderIds : Follows(orders[o], provider_events)

(* A payment of which nothing was reported.                                *)
LEMMA FollowsFresh ==
    ASSUME NEW row, NEW log, row.payment_status = "pending", EventsOf(log, row.payment) = {}
    PROVE  Follows(row, log)
BY DEF Follows, Explained, Absorbed, Quiet

(* The columns an event is judged by.                                      *)
SameToEvents(row, after) ==
    /\ after.payment = row.payment /\ after.payment_status = row.payment_status
    /\ after.fee = row.fee /\ after.refunded = row.refunded
    /\ after.order_status = row.order_status \/ row.payment_status # "pending"

LEMMA VerdictKept ==
    ASSUME NEW row, NEW after, NEW e, SameToEvents(row, after)
    PROVE  Verdict([row |-> after], e) = Verdict([row |-> row], e)
<1>1. EffectMatches([row |-> after], e) <=> EffectMatches([row |-> row], e)
  BY DEF EffectMatches, SameToEvents
<1>2. Applicable([row |-> after], e) <=> Applicable([row |-> row], e)
  <2>1. row.payment_status # "pending" /\ AllowedPayment(row.payment_status, e.type) =>
          e.type # "captured"
    BY PaymentMoves
  <2>2. QED
    BY <2>1 DEF Applicable, SameToEvents
<1>3. QED
  BY <1>1, <1>2 DEF Verdict, SameToEvents

LEMMA FollowsKept ==
    ASSUME NEW row, NEW after, NEW log, Follows(row, log), SameToEvents(row, after)
    PROVE  Follows(after, log)
<1>1. Explained(after, log)
  BY DEF Follows, Explained, Reported, SameToEvents
<1>2. Absorbed(after, log)
  BY DEF Follows, Absorbed, SameToEvents
<1>3. Quiet(after, log)
  <2> SUFFICES ASSUME NEW i \in EventsOf(log, after.payment), log[i].status = "pending"
               PROVE  Verdict([row |-> after], log[i].event) = "pending"
    BY DEF Quiet
  <2>1. i \in EventsOf(log, row.payment)
    BY DEF SameToEvents
  <2>2. Verdict([row |-> row], log[i].event) = "pending"
    BY <2>1 DEF Follows, Quiet
  <2>3. QED
    BY <2>2, VerdictKept
<1>4. QED
  BY <1>1, <1>2, <1>3 DEF Follows

(* Nothing is reported of no payment.                                      *)
LEMMA NoPaymentNoEvents ==
    ASSUME StoreInv PROVE EventsOf(provider_events, None) = {}
<1>1. ASSUME NEW i \in EventIds, provider_events[i].status # "absent"
      PROVE  provider_events[i].event.payment # None
  <2>1. provider_events[i].event \in Event
    BY <1>1, KnownEvent DEF StoreInv, EventsInv, TypeOK
  <2>2. QED
    BY <2>1, NoneAssumption DEF Event
<1>2. QED
  BY <1>1 DEF EventsOf

LEMMA CallFollows ==
    ASSUME StoreFollows, provider_events' = provider_events, NEW o \in OrderIds,
           \A other \in OrderIds \ {o} : orders'[other] = orders[other],
           \/ SameToEvents(orders[o], orders'[o])
           \/ /\ orders'[o].payment_status = "pending"
              /\ EventsOf(provider_events, orders'[o].payment) = {}
    PROVE  StoreFollows'
<1>1. \A other \in OrderIds \ {o} : Follows(orders'[other], provider_events)
  BY DEF StoreFollows
<1>2. CASE SameToEvents(orders[o], orders'[o])
  <2>1. Follows(orders'[o], provider_events)
    BY <1>2, FollowsKept DEF StoreFollows
  <2>2. QED
    BY <1>1, <2>1 DEF StoreFollows
<1>3. CASE /\ orders'[o].payment_status = "pending"
           /\ EventsOf(provider_events, orders'[o].payment) = {}
  <2>1. Follows(orders'[o], provider_events)
    BY <1>3, FollowsFresh
  <2>2. QED
    BY <1>1, <2>1 DEF StoreFollows
<1>4. QED
  BY <1>2, <1>3

(* An event is not even looked at for orders it is not about.              *)
LEMMA FollowsOthers ==
    ASSUME NEW row, NEW log, NEW later, Follows(row, log),
           \A i \in EventIds :
              \/ later[i] = log[i]
              \/ /\ later[i].event.payment # row.payment
                 /\ log[i].status = "absent" \/ log[i].event.payment # row.payment
    PROVE  Follows(row, later)
<1>1. /\ EventsOf(later, row.payment) = EventsOf(log, row.payment)
      /\ \A i \in EventsOf(log, row.payment) : later[i] = log[i]
  BY DEF EventsOf
<1>2. Explained(row, later)
  BY <1>1 DEF Follows, Explained, Reported
<1>3. Absorbed(row, later)
  BY <1>1 DEF Follows, Absorbed
<1>4. Quiet(row, later)
  BY <1>1 DEF Follows, Quiet
<1>5. QED
  BY <1>2, <1>3, <1>4 DEF Follows

LEMMA IngestFollows ==
    ASSUME StoreInv, StoreFollows, NEW o \in OrderIds, NEW e \in Feed, NEW t \in ReceiveTimes,
           IngestProviderEvent(o, e, t)
    PROVE  StoreFollows'
<1> DEFINE start == Inserted(o, e, t)
           m == Reconciled(start)
<1>1. /\ start.row = orders[o] /\ start.todo = {} /\ start.progress
      /\ start.log[e.id] = [event |-> e, received_at |-> t, status |-> "pending"]
      /\ \A i \in EventIds \ {e.id} : start.log[i] = provider_events[i]
  BY InsertedFields DEF Inserted
<1>2. start \in Machine /\ Sound(start)
  BY InsertedSound
<1>3. /\ e.id \in EventIds /\ provider_events[e.id].status = "absent"
      /\ e.payment = orders[o].payment /\ e.payment # None /\ orders[o].order_status # "absent"
  BY ConstantsAssumption, NoneAssumption DEF Event, IngestProviderEvent, EventUnknown, Exists
<1>4. m \in Machine /\ Kept(start, m)
  BY <1>2, ReconciledSound
<1>5. /\ orders' = [orders EXCEPT ![o] = m.row] /\ provider_events' = m.log
  BY DEF IngestProviderEvent
<1> HIDE DEF start
<1>6. Explained(start.row, start.log)
  <2>1. Explained(orders[o], provider_events)
    BY DEF StoreFollows, Follows
  <2>2. ASSUME NEW type, Reported(orders[o], provider_events, type)
        PROVE  Reported(start.row, start.log, type)
    <3>1. PICK i \in EventsOf(provider_events, orders[o].payment) :
             /\ provider_events[i].event.amount = QuotedAmount
             /\ provider_events[i].event.type = type
      BY <2>2 DEF Reported
    <3>2. i \in EventIds \ {e.id} /\ start.log[i] = provider_events[i]
      BY <1>1, <1>3, <3>1 DEF EventsOf
    <3>3. i \in EventsOf(start.log, start.row.payment)
      BY <1>1, <3>1, <3>2 DEF EventsOf
    <3>4. QED
      BY <3>1, <3>2, <3>3 DEF Reported
  <2>3. QED
    BY <1>1, <2>1, <2>2 DEF Explained
<1>7. Absorbed(start.row, start.log)
  <2> SUFFICES ASSUME NEW i \in EventsOf(start.log, start.row.payment),
                      start.log[i].status # "pending", start.log[i].event.amount = QuotedAmount
               PROVE  start.row.payment_status \in After(start.log[i].event.type)
    BY DEF Absorbed
  <2>1. i \in EventIds \ {e.id} /\ start.log[i] = provider_events[i]
    BY <1>1 DEF EventsOf
  <2>2. i \in EventsOf(provider_events, orders[o].payment)
    BY <1>1, <2>1 DEF EventsOf
  <2>3. QED
    BY <1>1, <2>1, <2>2 DEF StoreFollows, Follows, Absorbed
<1>8. Follows(m.row, m.log)
  BY <1>1, <1>2, <1>6, <1>7, ReconciledFollows
<1> HIDE DEF m
<1>9. /\ orders'[o] = m.row
      /\ \A other \in OrderIds \ {o} : orders'[other] = orders[other]
  BY <1>4, <1>5 DEF StoreInv, TypeOK, Machine
<1>10. \A i \in EventIds :
          \/ m.log[i] = provider_events[i]
          \/ /\ m.log[i].event.payment = e.payment
             /\ provider_events[i].status = "absent" \/ provider_events[i].event.payment = e.payment
  <2> SUFFICES ASSUME NEW i \in EventIds, m.log[i] # provider_events[i]
               PROVE  /\ m.log[i].event.payment = e.payment
                      /\ \/ provider_events[i].status = "absent"
                         \/ provider_events[i].event.payment = e.payment
    OBVIOUS
  <2>1. m.log[i].event = start.log[i].event
    BY <1>4 DEF Kept, LogKept
  <2>2. CASE i = e.id
    BY <1>1, <1>3, <2>1, <2>2
  <2>3. CASE i # e.id
    <3>1. start.log[i] = provider_events[i]
      BY <1>1, <2>3
    <3>2. start.log[i].event.payment = e.payment
      BY <1>1, <1>3, <1>4, <3>1 DEF Kept, OthersKept
    <3>3. QED
      BY <2>1, <3>1, <3>2
  <2>4. QED
    BY <2>2, <2>3
<1>11. ASSUME NEW other \in OrderIds \ {o} PROVE Follows(orders[other], m.log)
  <2>1. orders[other].payment # e.payment
    <3>1. CASE orders[other].payment = None
      BY <1>3, <3>1
    <3>2. CASE orders[other].payment # None
      <4>1. other \in Placed /\ o \in Placed
        BY <1>3, <3>2 DEF Placed, Exists, StoreInv, RowsInv, StatusCoherent, RowCoherent
      <4>2. QED
        BY <1>3, <3>2, <4>1 DEF StoreInv, IdentitiesUnique
    <3>3. QED
      BY <3>1, <3>2
  <2>2. Follows(orders[other], provider_events)
    BY DEF StoreFollows
  <2>3. QED
    BY <1>10, <2>1, <2>2, FollowsOthers
<1>12. QED
  BY <1>5, <1>8, <1>9, <1>11 DEF StoreFollows

LEMMA NextFollows == StoreInv /\ StoreFollows /\ [Next]_vars => StoreFollows'
<1> SUFFICES ASSUME StoreInv, StoreFollows, [Next]_vars PROVE StoreFollows'
  OBVIOUS
<1>1. /\ orders \in [OrderIds -> OrderRow]
      /\ \A o \in OrderIds : RowCoherent(orders[o])
  BY DEF StoreInv, TypeOK, RowsInv, StatusCoherent
<1>2. CASE orders' = orders /\ provider_events' = provider_events
  BY <1>2 DEF StoreFollows
<1>3. ASSUME NEW q \in QuoteIds, NEW k \in Keys, NEW b \in Buyers,
             NEW at \in 0 .. now, CreateOrder(q, k, b, at)
      PROVE  StoreFollows'
  <2> DEFINE o == <<q, k, b>>
  <2>1. o \in OrderIds
    BY DEF OrderIds
  <2>2. /\ orders'[o] = [NoOrder EXCEPT !.order_status = "checkout_pending",
                                        !.provider = quotes[q].provider]
        /\ \A other \in OrderIds \ {o} : orders'[other] = orders[other]
        /\ provider_events' = provider_events
    BY <1>1, <1>3, <2>1 DEF CreateOrder
  <2> HIDE DEF o
  <2>3. orders'[o].payment_status = "pending" /\ orders'[o].payment = None
    BY <2>2 DEF NoOrder
  <2>4. QED
    BY <2>1, <2>2, <2>3, NoPaymentNoEvents, CallFollows
<1>4. ASSUME NEW o \in OrderIds, NEW c \in CheckoutIds, NEW p \in PaymentIds \cup {None},
             AttachCheckout(o, c, p)
      PROVE  StoreFollows'
  <2>1. /\ \A other \in OrderIds \ {o} : orders'[other] = orders[other]
        /\ orders'[o].payment_status = orders[o].payment_status
        /\ orders'[o].payment = p /\ provider_events' = provider_events
    BY <1>1, <1>4 DEF AttachCheckout, OrderRow
  <2>2. orders[o].payment_status = "pending" /\ orders[o].payment = None
    BY <1>1, <1>4 DEF AttachCheckout, RowCoherent, Exists
  <2>3. EventsOf(provider_events, p) = {}
    <3>1. CASE p = None
      BY <3>1, NoPaymentNoEvents
    <3>2. CASE p # None
      <4>1. PaymentFree(o, p) /\ p \in PaymentIds
        BY <1>4, <3>2 DEF AttachCheckout
      <4>2. QED
        BY <2>2, <4>1, FreshPayment DEF EventsOf
    <3>3. QED
      BY <3>1, <3>2
  <2>4. QED
    BY <2>1, <2>2, <2>3, CallFollows
<1>5. ASSUME NEW o \in OrderIds, NEW p \in StripePayments, BindProviderPayment(o, p)
      PROVE  StoreFollows'
  <2>1. /\ \A other \in OrderIds \ {o} : orders'[other] = orders[other]
        /\ orders'[o].payment_status = orders[o].payment_status
        /\ orders'[o].payment = p /\ provider_events' = provider_events
    BY <1>1, <1>5 DEF BindProviderPayment, OrderRow
  <2>2. /\ orders[o].payment_status = "pending" /\ orders[o].payment = None
        /\ PaymentFree(o, p) /\ p \in PaymentIds
    BY <1>1, <1>5 DEF BindProviderPayment, RowCoherent, PaymentIds
  <2>3. EventsOf(provider_events, p) = {}
    BY <2>2, FreshPayment DEF EventsOf
  <2>4. QED
    BY <2>1, <2>2, <2>3, CallFollows
<1>6. ASSUME NEW o \in OrderIds, NEW k \in CostKeys, NEW s \in CostSheets, RecordDirectCosts(o, k, s)
      PROVE  StoreFollows'
  <2>1. /\ \A other \in OrderIds \ {o} : orders'[other] = orders[other]
        /\ SameToEvents(orders[o], orders'[o]) /\ provider_events' = provider_events
    BY <1>1, <1>6 DEF RecordDirectCosts, OrderRow, SameToEvents
  <2>2. QED
    BY <2>1, CallFollows
<1>7. ASSUME NEW o \in OrderIds, NEW target \in {"running", "fulfillment_failed"},
             NEW delivery \in {"running", "failed"}, TransitionOrder(o, target, delivery)
      PROVE  StoreFollows'
  <2>1. orders[o].order_status \in WorkStatus
    BY <1>7 DEF TransitionOrder, AllowedOrder, ORDER_TRANSITIONS, WorkStatus
  <2>2. orders[o].payment_status # "pending"
    BY <1>1, <2>1 DEF RowCoherent, WorkStatus
  <2>3. /\ \A other \in OrderIds \ {o} : orders'[other] = orders[other]
        /\ SameToEvents(orders[o], orders'[o]) /\ provider_events' = provider_events
    BY <1>1, <1>7, <2>2 DEF TransitionOrder, OrderRow, SameToEvents
  <2>4. QED
    BY <2>3, CallFollows
<1>8. ASSUME NEW o \in OrderIds, NEW r \in Evidence, Deliver(o, r)
      PROVE  StoreFollows'
  <2>1. orders[o].order_status = "running"
    BY <1>8 DEF Deliver, AllowedOrder, ORDER_TRANSITIONS
  <2>2. orders[o].payment_status # "pending"
    BY <1>1, <2>1 DEF RowCoherent
  <2>3. /\ \A other \in OrderIds \ {o} : orders'[other] = orders[other]
        /\ SameToEvents(orders[o], orders'[o]) /\ provider_events' = provider_events
    BY <1>1, <1>8, <2>2 DEF Deliver, OrderRow, SameToEvents
  <2>4. QED
    BY <2>3, CallFollows
<1>9. ASSUME NEW o \in OrderIds, NEW e \in Feed, NEW t \in ReceiveTimes, IngestProviderEvent(o, e, t)
      PROVE  StoreFollows'
  BY <1>9, IngestFollows
<1>10. CASE UNCHANGED vars \/ Tick
  BY <1>2, <1>10 DEF vars, Tick
<1>11. ASSUME NEW q \in QuoteIds, NEW r \in Requests, NEW p \in Providers,
              NEW at \in 0 .. now, CreateQuote(q, r, p, at)
       PROVE  StoreFollows'
  BY <1>2, <1>11 DEF CreateQuote
<1>12. QED
  BY <1>3, <1>4, <1>5, <1>6, <1>7, <1>8, <1>9, <1>10, <1>11
  DEF Next, BeginFulfillment, FailFulfillment

(* Every order follows its events: it got where it is by reported moves, is *)
(* past every move that was settled, and leaves waiting only what its       *)
(* payment refuses (_reconcile_payment).                                    *)
THEOREM EventsAreFollowed == Spec => []StoreFollows
<1>1. Init => StoreFollows
  <2> SUFFICES ASSUME Init, NEW o \in OrderIds PROVE Follows(orders[o], provider_events)
    BY DEF StoreFollows
  <2>1. orders[o].payment_status = "pending" /\ EventsOf(provider_events, orders[o].payment) = {}
    BY DEF Init, NoOrder, NoEvent, EventsOf
  <2>2. QED
    BY <2>1, FollowsFresh
<1>2. StoreInv /\ StoreFollows /\ [Next]_vars => StoreFollows'
  BY NextFollows
<1>3. QED
  BY <1>1, <1>2, StoreInvariant, PTL DEF Spec

(* The reconcile loop leaves no event behind that it could still act on,    *)
(* and no later call makes one so (_reconcile_payment, while made_progress).*)
THEOREM NothingIsLeft == Spec => []NothingLeftToReconcile
<1>1. StoreFollows => NothingLeftToReconcile
  BY DEF StoreFollows, Follows, Quiet, NothingLeftToReconcile, Placed
<1>2. QED
  BY <1>1, EventsAreFollowed, PTL

(* What the types reported and settled leave of the payment statuses.      *)
LEMMA WaitingIsRefused ==
    ASSUME NEW row \in OrderRow, RowCoherent(row), row.payment # None, NEW log,
           Follows(row, log), NEW i \in EventsOf(log, row.payment),
           log[i].event.amount = QuotedAmount
    PROVE  \/ row.payment_status \in After(log[i].event.type)
           \/ /\ row.payment_status # log[i].event.type
              /\ ~AllowedPayment(row.payment_status, log[i].event.type)
<1>1. CASE log[i].status # "pending"
  BY <1>1 DEF Follows, Absorbed
<1>2. CASE log[i].status = "pending"
  <2>1. Verdict([row |-> row], log[i].event) = "pending"
    BY <1>2 DEF Follows, Quiet
  <2>2. row.payment_status # log[i].event.type /\ ~Applicable([row |-> row], log[i].event)
    BY <2>1 DEF Verdict
  <2>3. AllowedPayment(row.payment_status, log[i].event.type) =>
          Applicable([row |-> row], log[i].event)
    <3>1. AllowedPayment(row.payment_status, "captured") => row.order_status = "payment_pending"
      BY PaymentMoves DEF RowCoherent
    <3>2. QED
      BY <3>1 DEF Applicable
  <2>4. QED
    BY <2>2, <2>3
<1>3. QED
  BY <1>1, <1>2

LEMMA RowConverges ==
    ASSUME NEW row \in OrderRow, RowCoherent(row), NEW log, Follows(row, log),
           NEW types, types = {log[i].event.type :
                                 i \in {j \in EventsOf(log, row.payment) :
                                          log[j].event.amount = QuotedAmount}},
           types \cap {"failed", "disputed"} = {},
           row.payment = None => EventsOf(log, row.payment) = {}
    PROVE  row.payment_status = Furthest(types)
<1> DEFINE status == row.payment_status
<1>1. \A type : Reported(row, log, type) <=> type \in types
  BY DEF Reported
<1>2. /\ status # "pending" => status \in types
      /\ status \in {"available", "refund_pending", "refunded"} => "captured" \in types
      /\ status = "refunded" => "refund_pending" \in types
  BY <1>1 DEF Follows, Explained
<1>3. status \in {"pending", "captured", "available", "refund_pending", "refunded"}
  BY <1>2 DEF OrderRow, PaymentStatus
<1>4. ASSUME NEW type \in types
      PROVE  status \in After(type) \/ (status # type /\ ~AllowedPayment(status, type))
  <2>1. PICK i \in EventsOf(log, row.payment) :
           log[i].event.amount = QuotedAmount /\ log[i].event.type = type
    BY <1>4
  <2>2. row.payment # None
    BY <2>1
  <2>3. QED
    BY <2>1, <2>2, WaitingIsRefused
<1>5. "captured" \in types => status # "pending"
  <2>1. AllowedPayment("pending", "captured") /\ "pending" \notin After("captured")
    BY DEF AllowedPayment, PAYMENT_TRANSITIONS, After, PaidStatus
  <2>2. QED
    BY <1>4, <2>1
<1>6. "available" \in types => status # "captured"
  <2>1. AllowedPayment("captured", "available") /\ "captured" \notin After("available")
    BY DEF AllowedPayment, PAYMENT_TRANSITIONS, After, PaidStatus
  <2>2. QED
    BY <1>4, <2>1
<1>7. "refund_pending" \in types => status \notin {"captured", "available"}
  <2>1. /\ AllowedPayment("captured", "refund_pending") /\ AllowedPayment("available", "refund_pending")
        /\ "captured" \notin After("refund_pending") /\ "available" \notin After("refund_pending")
    BY DEF AllowedPayment, PAYMENT_TRANSITIONS, After
  <2>2. QED
    BY <1>4, <2>1
<1>8. "refunded" \in types => status # "refund_pending"
  <2>1. AllowedPayment("refund_pending", "refunded") /\ "refund_pending" \notin After("refunded")
    BY DEF AllowedPayment, PAYMENT_TRANSITIONS, After
  <2>2. QED
    BY <1>4, <2>1
<1> HIDE DEF status
<1>9. CASE "captured" \notin types
  <2>1. status = "pending"
    BY <1>2, <1>3, <1>9
  <2>2. Furthest(types) = "pending"
    BY <1>9 DEF Furthest
  <2>3. QED
    BY <2>1, <2>2 DEF status
<1>10. CASE {"captured", "refund_pending", "refunded"} \subseteq types
  <2>1. status = "refunded"
    BY <1>3, <1>5, <1>7, <1>8, <1>10
  <2>2. Furthest(types) = "refunded"
    BY <1>10 DEF Furthest
  <2>3. QED
    BY <2>1, <2>2 DEF status
<1>11. CASE "captured" \in types /\ "refund_pending" \in types /\ "refunded" \notin types
  <2>1. status = "refund_pending"
    BY <1>2, <1>3, <1>5, <1>7, <1>11
  <2>2. Furthest(types) = "refund_pending"
    BY <1>11 DEF Furthest
  <2>3. QED
    BY <2>1, <2>2 DEF status
<1>12. CASE "captured" \in types /\ "refund_pending" \notin types
  <2>1. status \in {"captured", "available"}
    BY <1>2, <1>3, <1>5, <1>12
  <2>2. status = IF "available" \in types THEN "available" ELSE "captured"
    BY <1>2, <1>6, <2>1
  <2>3. Furthest(types) = IF "available" \in types THEN "available" ELSE "captured"
    BY <1>12 DEF Furthest
  <2>4. QED
    BY <2>2, <2>3 DEF status
<1>13. QED
  BY <1>9, <1>10, <1>11, <1>12

(* Whatever the order in which the provider's events arrive and however     *)
(* often, the payment ends where in-order delivery would have put it        *)
(* (_reconcile_payment;                                                     *)
(* test_out_of_order_events_reconcile_and_duplicate_delivery_is_idempotent).*)
THEOREM DeliveryOrderIsIrrelevant == Spec => []ReorderingConverges
<1>1. StoreInv /\ StoreFollows => ReorderingConverges
  <2> SUFFICES ASSUME StoreInv, StoreFollows, NEW o \in Placed
               PROVE  LET stored == EventsOf(provider_events, orders[o].payment)
                          types  == {provider_events[i].event.type :
                                       i \in {j \in stored : provider_events[j].event.amount = QuotedAmount}}
                      IN types \cap {"failed", "disputed"} = {}
                           => orders[o].payment_status = Furthest(types)
    BY DEF ReorderingConverges
  <2>1. /\ o \in OrderIds /\ orders[o] \in OrderRow /\ RowCoherent(orders[o])
        /\ Follows(orders[o], provider_events)
    BY DEF Placed, StoreInv, TypeOK, RowsInv, StatusCoherent, StoreFollows
  <2>2. orders[o].payment = None => EventsOf(provider_events, orders[o].payment) = {}
    BY NoPaymentNoEvents
  <2>3. QED
    BY <2>1, <2>2, RowConverges
<1>2. QED
  BY <1>1, StoreInvariant, EventsAreFollowed, PTL
===============================================================================
