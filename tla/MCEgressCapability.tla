------------------------- MODULE MCEgressCapability --------------------------
(***************************************************************************)
(* The objects of the egress vault, of which no two share state: the run   *)
(* explores one of three at a time.                                        *)
(*   "calls": two Workers execute four requests, two of them under one     *)
(* key, with a capability of two credits.  The operator has bought the     *)
(* credits of one order, which a refund may take back meanwhile.           *)
(*   "pairs": three requests to an authority that remembers its promise    *)
(* and to one that does not.                                               *)
(*   "usage": two Workers record three reports of one tenant, alike but    *)
(* for their keys, of which the third has both, and two of another, which  *)
(* together exceed what a month may count, over the end of a month.        *)
(***************************************************************************)
EXTENDS EgressCapability, KeyAuthority, UsageMetering, TLC

CONSTANTS w1, w2, q1, q2, q3, q4, ka, kb, kc, o1, c1, other,
          proof, railKey, u1, u2, u3, p1, p2, p3,
          first, second, both, foreign, large, e1, e2, few, many, t1, t2, home

VARIABLE scene

MCKeyOf == q1 :> ka @@ q2 :> ka @@ q3 :> kb @@ q4 :> kc
MCCredits == o1 :> 2
MCTotal == o1 :> 1

MCKeysOf == first :> {e1} @@ second :> {e2} @@ both :> {e1, e2} @@ foreign :> {e1}
             @@ large :> {e2}
MCContentOf == first :> few @@ second :> few @@ both :> few @@ foreign :> few @@ large :> many
MCTenantOf == first :> t1 @@ second :> t1 @@ both :> t1 @@ foreign :> t2 @@ large :> t2
MCTokensOf == few :> 2 @@ many :> 3
MCMonthOf == 0 :> "may" @@ 1 :> "june"

\* The Workers may be exchanged, and the last two requests with their keys.
Exchange == q3 :> q4 @@ q4 :> q3 @@ kb :> kc @@ kc :> kb
Swap == w1 :> w2 @@ w2 :> w1
EgressSymmetry == {Swap, Exchange, Swap @@ Exchange}

MCInit ==
    /\ Init /\ KeyInit /\ UsageInit
    /\ scene \in {"calls", "pairs", "usage"}
    /\ scene # "calls" => ~demo

MCNext ==
    /\ UNCHANGED scene
    /\ \/ scene = "calls" /\ Next /\ UNCHANGED <<keyVars, usageVars>>
       \/ scene = "pairs" /\ KeyNext /\ UNCHANGED <<vars, usageVars>>
       \/ scene = "usage" /\ UsageNext /\ UNCHANGED <<vars, keyVars>>

MCSpec == MCInit /\ [][MCNext]_<<vars, keyVars, usageVars, scene>>
=============================================================================
