------------------------ MODULE PaidGatewayProperties ------------------------
(***************************************************************************)
(* What PaidGateway promises to a buyer and to the seller's books.         *)
(***************************************************************************)
EXTENDS PaidGateway

\* /settle is called at most once with an authorization, whatever is retried,
\* replayed, timed out or restarted (reserve-settlement; reconcilePayment is
\* read-only).
SettleOnce == \A a \in Auths : settles[a] <= 1

\* A buyer's idempotency key buys once, even through two quotes and two
\* authorizations.
OneBookingPerKey ==
    \A a, b \in Auths :
        /\ op[a].reserved /\ op[b].reserved
        /\ KeyOf[op[a].pid] # None /\ KeyOf[op[a].pid] = KeyOf[op[b].pid]
        => a = b

\* Nothing is executed for an authorization the chain has not paid: after a
\* timeout, a replay or a reconciliation the claim waits for evidence.
PaidBeforeExecution ==
    \A a \in Auths : started[a] > 0 => chain[a] = "paid"

\* From the moment its Worker may send it, a settlement without a recorded
\* outcome is never forgotten: an alarm is set or is at work, until the last
\* attempt marks it for manual review.
Sending(a) ==
    settles[a] > 0 \/ \E r \in Requests : pc[r] = "submit" /\ job[r].auth = a
Unresolved(a) ==
    op[a].reserved /\ op[a].status \in {"verified", "ambiguous"} /\ ~op[a].dead
AlarmCovers ==
    \A a \in Auths :
        Sending(a) /\ Unresolved(a) => alarm[a] \/ pc[a] \in {"query", "finalize"}

\* A payment reported as failed after it was sent did not take the money.
FailedIsUnpaid ==
    \A a \in Auths : op[a].status = "failed" => chain[a] # "paid"

\* A seller's sale that was started becomes claimable again in one way only: by
\* syncSellerCommerce, which stores the record it held across its call to the
\* seller ledger over the claim made meanwhile.  Neither the failed delivery, nor
\* its credit, nor a reconciliation gives the claim back.
WritesBack(x, a) ==
    pc[x] \in {"sync", "outbox"} /\ job[x].auth = a /\ op'[a] = held[x]
SaleReopens(a) ==
    /\ op[a].pid \in SellerPids /\ started[a] > 0
    /\ ~Claimable(op[a]) /\ Claimable(op'[a])
OnlyWriteBackReopens ==
    [][\A a \in Auths : SaleReopens(a) => \E x \in Procs : WritesBack(x, a)]_vars

\* At most one process executes, completes or credits an operation.
Executing(x, a) == pc[x] \in {"execute", "complete", "credit"} /\ job[x].auth = a
OneExecutor ==
    \A a \in Auths : \A x, y \in Procs : Executing(x, a) /\ Executing(y, a) => x = y

\* A held claim ends with the delivery or with the credit it led to and is
\* never taken away from its holder.
ClaimKept(a) ==
    op[a].claim # 0 /\ op'[a].claim # op[a].claim
        => op'[a].claim = 0 /\ op'[a].status \in {"succeeded", "credited"}
ClaimHeld == [][\A a \in Auths : ClaimKept(a)]_vars

\* Every settlement that has its alarm or was sent is eventually settled, refused,
\* or handed to manual review, though workers may be killed anywhere and alarms
\* may die.
Resolved(a) ==
    op[a].status \in {"settled", "succeeded", "credited", "failed"} \/ op[a].dead
BookingResolves ==
    \A a \in Auths :
        op[a].reserved /\ (alarm[a] \/ settles[a] > 0) ~> Resolved(a)

-----------------------------------------------------------------------------
(* The refinement: an identifier stands where its booked operation stands. *)

Booked(p) == {a \in Auths : op[a].reserved /\ op[a].pid = p}

\* The one authorization booked; a second one would leave the mapping undecided
\* and take the identifier back to "open", which the promise forbids.
BookedAuth(p) ==
    IF \E a \in Auths : Booked(p) = {a}
    THEN CHOOSE a \in Auths : Booked(p) = {a}
    ELSE None

PromiseOf(status) ==
    CASE status \in {"verified", "ambiguous"} -> "sent"
      [] status = "settled"   -> "paid"
      [] status = "credited"  -> "owed"
      [] status = "succeeded" -> "delivered"
      [] OTHER                -> "void"

Promise == INSTANCE PaymentPromise WITH
    charged <- [p \in Pids |-> BookedAuth(p)],
    promise <- [p \in Pids |-> IF BookedAuth(p) = None THEN "open"
                               ELSE PromiseOf(op[BookedAuth(p)].status)]

\* Workers, replays, crashes and alarms together keep the promise made for each
\* payment identifier: one authorization, and a charge that only moves forward.
KeepsPromise == Promise!Spec
=============================================================================
