--------------------------- MODULE MCPaidLifecycle ---------------------------
(***************************************************************************)
(* Two receipts of one key, two operators, three feeds, for TLC.           *)
(***************************************************************************)
EXTENDS PaidLifecycle, TLC

CONSTANTS r1, r2, s1, o1, o2, k1, k2

Changed(to, by) == [status |-> to, superseded_by |-> by, reason |-> to # "current"]

MCSignerOf    == (r1 :> s1) @@ (r2 :> s1)
MCExpiry      == (r1 :> 2) @@ (r2 :> 2)
MCIssuerLists == { (s1 :> is) : is \in IssuerStatuses }
MCChanges     ==
    { <<>>, r1 :> Changed("revoked_evaluator_defect", None), r1 :> Changed("superseded", r2),
      r2 :> Changed("superseded", r1), r1 :> CurrentEntry }
MCWindows     == { <<0, 1>> }

SymTwo == Permutations({o1, o2}) \cup Permutations({k1, k2})
===============================================================================
