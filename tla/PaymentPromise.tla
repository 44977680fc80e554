--------------------------- MODULE PaymentPromise ----------------------------
(***************************************************************************)
(* What a buyer is promised for a payment identifier, without Workers,     *)
(* objects or alarms: at most one authorization is ever charged for it, no *)
(* authorization is charged for two identifiers, and the charge only moves *)
(* forward, from sent to void or paid and from paid to what it bought.     *)
(*                                                                         *)
(* Abstracted from the operation record of paid-agent-entry.js and         *)
(* PAYMENT_TRANSITIONS of core/payment-rail.js.                            *)
(***************************************************************************)
CONSTANTS Pids, Auths, None

VARIABLES
    charged,    \* the authorization booked for each identifier, or None
    promise     \* "open", "sent", "void", "paid", "owed" or "delivered"

vars == <<charged, promise>>

Promises == {"open", "sent", "void", "paid", "owed", "delivered"}

TypeOK ==
    /\ charged \in [Pids -> Auths \cup {None}]
    /\ promise \in [Pids -> Promises]

Init ==
    /\ charged = [p \in Pids |-> None]
    /\ promise = [p \in Pids |-> "open"]

\* The settlement is booked with an authorization no identifier has used.
Send(p, a) ==
    /\ promise[p] = "open"
    /\ \A q \in Pids : charged[q] # a
    /\ charged' = [charged EXCEPT ![p] = a]
    /\ promise' = [promise EXCEPT ![p] = "sent"]

Move(p, from, to) ==
    /\ promise[p] \in from
    /\ promise' = [promise EXCEPT ![p] = to]
    /\ UNCHANGED charged

Void(p)    == Move(p, {"sent"}, "void")
Pay(p)     == Move(p, {"sent"}, "paid")
Owe(p)     == Move(p, {"paid"}, "owed")
Deliver(p) == Move(p, {"paid", "owed"}, "delivered")

Next ==
    \E p \in Pids :
        \/ \E a \in Auths : Send(p, a)
        \/ Void(p) \/ Pay(p) \/ Owe(p) \/ Deliver(p)

Spec == Init /\ [][Next]_vars
=============================================================================
