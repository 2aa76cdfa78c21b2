---------------------------- MODULE OrderContract ----------------------------
(***************************************************************************)
(* What a buyer is promised about an order, whatever tables, events and    *)
(* retries are behind it: the money is taken at most once, work starts     *)
(* only on money that was taken, a failed payment is never worked on, the  *)
(* outcome of the work and the fate of the money are each final, and no    *)
(* operation touches two orders.                                           *)
(***************************************************************************)
CONSTANT Orders

VARIABLE contract

Work  == {"none", "unpaid", "ready", "started", "delivered", "abandoned", "void"}
Funds == {"none", "held", "returned", "contested"}

ContractInit == contract = [o \in Orders |-> [work |-> "none", funds |-> "none"]]

Becomes(o, work, funds) ==
    contract' = [contract EXCEPT ![o] = [work |-> work, funds |-> funds]]

Open(o) == contract[o].work = "none" /\ Becomes(o, "unpaid", "none")

Void(o) == contract[o].work = "unpaid" /\ Becomes(o, "void", "none")

(* Money arrives for an unpaid order; by the time the capture is recorded   *)
(* its return or a dispute may already be known.                            *)
Collect(o) ==
    /\ contract[o].work = "unpaid"
    /\ \E funds \in Funds \ {"none"} : Becomes(o, "ready", funds)

(* The fate of money held is settled once, whatever the work has come to.   *)
SettleFunds(o) ==
    /\ contract[o].funds = "held"
    /\ \E funds \in {"returned", "contested"} : Becomes(o, contract[o].work, funds)

Start(o) == contract[o].work = "ready" /\ Becomes(o, "started", contract[o].funds)

Finish(o) == contract[o].work = "started" /\ Becomes(o, "delivered", contract[o].funds)

Abandon(o) ==
    /\ contract[o].work \in {"ready", "started"}
    /\ Becomes(o, "abandoned", contract[o].funds)

ContractNext ==
    \E o \in Orders :
        Open(o) \/ Void(o) \/ Collect(o) \/ SettleFunds(o) \/ Start(o) \/ Finish(o) \/ Abandon(o)

ContractSpec == ContractInit /\ [][ContractNext]_contract
===============================================================================
