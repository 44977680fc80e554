------------------------- MODULE MCSettlementRelay -------------------------
(***************************************************************************)
(* Three payments: one on Base billed to a license key, one on Base in the *)
(* free quota, one on another network in the free quota, which has room    *)
(* for one.  Three requests carry the first, or two carry the second, or   *)
(* two carry the third, or one carries each of the last two.               *)
(***************************************************************************)
EXTENDS SettlementRelay, TLC

CONSTANTS billed, free, other, r1, r2, r3, r4, r5, r6, r7, f1, f2

MCPays == [r \in {r1, r2, r3, r4, r5, r6, r7} |->
             CASE r \in {r1, r2, r3} -> billed [] r \in {r4, r5} -> free [] OTHER -> other]

Sent(scene) == [r \in Requests |-> IF r \in scene THEN Fresh ELSE [Fresh EXCEPT !.step = "answered"]]
MCInit == /\ Init!2 /\ Init!3 /\ Init!4 /\ Init!5 /\ Init!6
          /\ request \in {Sent({r1, r2, r3}), Sent({r4, r5}), Sent({r6, r7}), Sent({r4, r6})}
MCSpec == MCInit /\ [][Next]_vars

SameBilled == Permutations({r1, r2, r3})
SameFree == Permutations({r4, r5})
SameOther == Permutations({r6, r7})
SameFacilitator == Permutations({f1, f2})
RequestSymmetry == SameBilled \cup SameFree \cup SameOther \cup SameFacilitator
=============================================================================
