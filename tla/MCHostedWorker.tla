--------------------------- MODULE MCHostedWorker ---------------------------
(***************************************************************************)
(* Two invocations for one order, each with a root of its own, and two     *)
(* coordinators that share one, for TLC.                                   *)
(***************************************************************************)
EXTENDS HostedWorker, TLC

CONSTANTS w1, w2, c1, c2, ra, rb, shared, o1, r1

MCRootOf  == (w1 :> ra) @@ (w2 :> rb)
MCCacheOf == MCRootOf @@ (c1 :> shared) @@ (c2 :> shared)
MCWanted  == (o1 :> r1)

(* Coordinators may be exchanged, and invocations together with their roots. *)
Sym == { c @@ w : c \in Permutations({c1, c2}),
                  w \in { x \in Permutations({w1, w2, ra, rb}) :
                            \A run \in {w1, w2} : x[run] \in {w1, w2} /\ x[MCRootOf[run]] = MCRootOf[x[run]] } }
===============================================================================
