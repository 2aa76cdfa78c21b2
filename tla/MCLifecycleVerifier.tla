------------------------- MODULE MCLifecycleVerifier -------------------------
(***************************************************************************)
(* Two receipts of two keys, two processes and four feeds, of which two    *)
(* share a number and the last makes everything current again, for TLC.    *)
(***************************************************************************)
EXTENDS LifecycleVerifier, TLC

CONSTANTS r1, r2, s1, s2, v1, v2

MCSignerOf == (r1 :> s1) @@ (r2 :> s2)
MCExpiry   == (r1 :> 2) @@ (r2 :> 1)

Marked(to, by) == [status |-> to, superseded_by |-> by, reason |-> to # "current"]

RootFeed(n, from, until, second, e1, e2) ==
    [sequence |-> n, generated_at |-> from, expires_at |-> until,
     issuer_keys |-> (s1 :> "active") @@ (s2 :> second),
     receipts |-> (r1 :> e1) @@ (r2 :> e2)]

Revoked == Marked("revoked_evaluator_defect", None)

MCFeeds ==
    { RootFeed(1, 0, 1, "retired", CurrentEntry, CurrentEntry),
      RootFeed(2, 0, 2, "retired", Revoked, CurrentEntry),
      RootFeed(2, 0, 2, "compromised", CurrentEntry, CurrentEntry),
      RootFeed(3, 1, 2, "active", CurrentEntry, CurrentEntry) }

SymVerifiers == Permutations({v1, v2})
===============================================================================
