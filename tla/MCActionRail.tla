---------------------------- MODULE MCActionRail -----------------------------
(***************************************************************************)
(* Instances of ActionRail for TLC, and the mutants of its definitions.    *)
(***************************************************************************)
EXTENDS ActionRail, TLC

CONSTANTS o1, o2, c1, c2, x1, r1, w1, w2

TwoCredits == [o \in Orders |-> IF o = o1 THEN 2 ELSE 1]
TwoParts == [o \in Orders |-> IF o = o1 THEN 2 ELSE 1]
OneAndTwo == [p \in Permits |-> IF p \in RailPermits THEN 2 ELSE 1]

(***************************************************************************)
(* Two kinds of initial states keep the product of the halves small:       *)
(* permits under a live mandate (fresh, with less than both amounts left,  *)
(* or with one use left), paid from one order; and two orders, with one    *)
(* checkout or two, while the mandate is revoked.                          *)
(***************************************************************************)
OneOrder == via = [o \in Orders |-> IF o = o1 THEN c1 ELSE NoCheckout]
TwoOrders == via[o1] = c1 /\ via[o2] \in Checkouts

Live(uses, spent) == mandate = [revoked |-> FALSE, uses |-> uses, spent |-> spent]

MCInit ==
    /\ Init
    /\ \/ (Live(0, 0) \/ Live(1, 1)) /\ OneOrder /\ slow = {}
       \/ Live(2, 0) /\ OneOrder /\ slow = {r1}
       \/ mandate = [revoked |-> TRUE, uses |-> 0, spent |-> 0] /\ TwoOrders /\ slow = {Owner}
MCSpec == MCInit /\ [][Next]_vars

WorkerSymmetry == Permutations(Workers)
=============================================================================
