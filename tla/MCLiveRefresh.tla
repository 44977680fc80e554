--------------------------- MODULE MCLiveRefresh ---------------------------
(***************************************************************************)
(* Two shards with one source each: one whose adapter lists every fact and *)
(* one whose adapter does not.  Three bodies: both facts, one of them with *)
(* its old value, and one of them with another.                            *)
(***************************************************************************)
EXTENDS LiveRefresh

CONSTANTS a, b, s1, s2, version, status

MCShardOf == [s \in {s1, s2} |-> IF s = s1 THEN a ELSE b]
MCContents == {[k \in {version, status} |-> 1],
               [k \in {version} |-> 1], [k \in {version} |-> 2]}
MCBound == [edits |-> 2, orders |-> 2, faults |-> 2, flights |-> 2]

\* What is already used of the bounds: a body comes back after another while a fetch fails or a shard
\* is evicted; a body changes around an owner's order and a fault; or the owner acts while the catalogue
\* is read, which a fault may interrupt if he acts once.
Scenes == {[edits |-> 0, orders |-> 2, faults |-> 1, flights |-> 2],
           [edits |-> 1, orders |-> 1, faults |-> 1, flights |-> 2],
           [edits |-> 2, orders |-> 0, faults |-> 2, flights |-> 1],
           [edits |-> 2, orders |-> 1, faults |-> 1, flights |-> 1]}

\* Every source begins with both facts.
MCInit == Start /\ used \in Scenes /\ \A s \in Sources : DOMAIN served[s] = {version, status}
MCSpec == MCInit /\ [][LiveNext]_liveVars
=============================================================================
