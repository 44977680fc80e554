-------------------------- MODULE MCCreditRedemption -------------------------
(***************************************************************************)
(* Instances of CreditRedemption for TLC.                                  *)
(***************************************************************************)
EXTENDS CreditRedemption, TLC

CONSTANTS p1, a1, r1, r2, d1, d2, d3

NoKeys == [p \in Pids |-> None]

RedeemerSymmetry == Permutations(Redeemers)
=============================================================================
