-------------------------- MODULE MCSettlementTruth --------------------------
(***************************************************************************)
(* Instances of SettlementTruth for TLC, with buyers of any kind or with   *)
(* one tab of the checkout page.  To keep the product of the rails small a *)
(* behaviour starts after some ids have run their course: they were        *)
(* settled, delivered and swept, and only their journal rows remain.       *)
(***************************************************************************)
EXTENDS BuyerCheckout, TLC

CONSTANTS r1, r2, p1, p2, b1, b2, b3, c1, c2, c3, l1,
          nonce1, nonce2, credit1, credit2, lemon1

JobOf == [i \in Intents |-> CASE i \in {b1, b3} -> nonce1 [] i = b2 -> nonce2
                             [] i \in {c1, c2} -> credit1 [] i = c3 -> credit2
                             [] i = l1 -> lemon1]
KeysUsed == [i \in Intents |-> CASE i \in {b1, b2} -> "k1" [] i = b3 -> "k2"
                             [] i \in {c1, c2} -> "c1" [] i = c3 -> "c2" [] i = l1 -> "l1"]
Rails == [n \in Ids |-> CASE n \in {nonce1, nonce2} -> "base"
                          [] n \in {credit1, credit2} -> "credits" [] n = lemon1 -> "lemon"]

PastIntent(n) == CHOOSE i \in {b1, b2, b3, c1, c3, l1} : JobOf[i] = n
Past(S, left) ==
    LET spent == {n \in S : Rails[n] = "credits"} IN
    /\ job = [n \in Ids |-> NoJob] /\ hot = <<>>
    /\ journal = [n \in Ids |-> IF n \in S THEN [phase |-> "done", intent |-> PastIntent(n)] ELSE NoRow]
    /\ balance = [available |-> left, held |-> 0]
    /\ bound = [p \in Payments |-> IF p = p1 THEN Cardinality(spent) ELSE left] /\ grants = bound
    /\ req = [r \in Requests |-> Idle]
    /\ paid = {n \in S : Rails[n] = "base"} /\ debited = {n \in S : Rails[n] = "lemon"}
    /\ sent = [n \in Ids |-> IF n \in paid \cup debited THEN 1 ELSE 0]
    /\ delivered = S \X {0}

\* Three authorizations for two nonces and two keys, of a source that no longer changes, or two of
\* one key; the credits of an account and a license; or a license alone.
Buyers ==
    \/ Past({credit1, credit2, lemon1}, 2) /\ valid = {b1, b2, b3} /\ edition = MaxEdition
    \/ Past({credit1, credit2, lemon1}, 2) /\ valid = {b1, b2} /\ edition = 0
    \/ Past({nonce1, lemon1}, 0) /\ valid = {} /\ edition = 0
    \/ Past({nonce1, credit1, credit2}, 2) /\ valid = {} /\ edition = 0

MCInit ==
    \/ Buyers /\ CheckoutInit(FALSE)
    \/ Past({nonce2, credit1, credit2}, 0) /\ valid = {b1, b2, b3} /\ edition = 0 /\ CheckoutInit(TRUE)
MCNext ==
    \/ ~tab.open /\ Next /\ UNCHANGED checkout
    \/ tab.open /\ CheckoutNext
MCSpec == MCInit /\ [][MCNext]_all

RequestSymmetry == Permutations(Requests)
=============================================================================
