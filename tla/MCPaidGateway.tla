---------------------------- MODULE MCPaidGateway ----------------------------
(***************************************************************************)
(* Instances and properties of PaidGateway for TLC.                        *)
(***************************************************************************)
EXTENDS PaidGatewayProperties, TLC

CONSTANTS p1, p2, a1, a2, r1, r2, r3, k1

NoKeys == [p \in Pids |-> None]
OneKey == [p \in Pids |-> k1]

\* Payment identifiers are alike when no set of them is singled out; so are
\* the authorizations and the requests.
AuthAndRequestSymmetry == Permutations(Auths) \cup Permutations(Requests)
FullSymmetry == AuthAndRequestSymmetry \cup Permutations(Pids)
=============================================================================
