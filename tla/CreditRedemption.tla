-------------------------- MODULE CreditRedemption ---------------------------
(***************************************************************************)
(* useExecutionCredit: a buyer whose paid execution failed presents the    *)
(* credit it was given instead of a new payment.  The credit lives in the  *)
(* gateway index, the obligation it pays for in the operation object, and  *)
(* the Worker that moves both may die between any two of its calls.        *)
(*                                                                         *)
(* Composed with PaidGateway, whose requests and alarms go on running.     *)
(***************************************************************************)
EXTENDS PaidGateway

VARIABLES
    reserved,   \* "credit:" rows that are reserved: [auth, token, by]
    rpc, rjob   \* where each redemption is, and the credit it presented

redemption == <<reserved, rpc, rjob>>
rvars == <<vars, redemption>>

NoCredit == [auth |-> None, token |-> 0]

RedemptionTypeOK ==
    /\ TypeOK
    /\ reserved \subseteq [auth : Auths, token : Nat, by : Redeemers]
    /\ rpc \in [Redeemers -> {"idle", "attempt", "execute", "deliver",
                              "confirm", "restore", "done"}]
    /\ rjob \in [Redeemers -> [auth : Auths \cup {None}, token : Nat]]

RedemptionInit ==
    /\ Init
    /\ reserved = {}
    /\ rpc = [d \in Redeemers |-> "idle"]
    /\ rjob = [d \in Redeemers |-> NoCredit]

At(d, label) == rpc[d] = label
MoveOn(d, label) == rpc' = [rpc EXCEPT ![d] = label]

Row(d) == [auth |-> rjob[d].auth, token |-> rjob[d].token, by |-> d]

\* The buyer holds the credit token once the failed response was sent.
InHand(a, n) ==
    /\ n \in available[a]
    /\ ~\E x \in Procs : pc[x] = "credit" /\ job[x].auth = a /\ job[x].token = n

Taken(free, n) == free \ {n}

\* /index/credit-consume.  A credit that is not available is refused (409).
Consume(d, a, n) ==
    /\ At(d, "idle") /\ InHand(a, n)
    /\ MoveOn(d, "attempt")
    /\ rjob' = [rjob EXCEPT ![d] = [auth |-> a, token |-> n]]
    /\ available' = [available EXCEPT ![a] = Taken(@, n)]
    /\ reserved' = reserved \cup {[auth |-> a, token |-> n, by |-> d]}
    /\ UNCHANGED <<index, keys, object, pc, job, chain, history>>

\* The operation still owes this credit: /operation/credit-attempt and
\* /operation/credit-delivered.
Owes(o, n) == o.status = "credited" /\ o.credit = n

\* /index/lookup and /operation/get, then /operation/credit-attempt.
Attempt(d) ==
    LET a == rjob[d].auth
        o == op[a]
        granted == /\ index[o.pid].auth = a
                   /\ Owes(o, rjob[d].token) /\ ~o.redeemed IN
    /\ At(d, "attempt")
    /\ \/ /\ granted
          /\ op' = [op EXCEPT ![a].attempter = d]
          /\ MoveOn(d, "execute") \/ (StubFaults /\ MoveOn(d, "restore"))
       \/ /\ ~granted \/ StubFaults
          /\ MoveOn(d, "restore")
          /\ UNCHANGED op
    /\ UNCHANGED <<reserved, rjob, ledger, alarm, pending, held, pc, job, chain, history>>

\* The upstream answers and the proof is signed, or one of them fails.
RunAgain(d) ==
    /\ At(d, "execute")
    /\ \E label \in {"deliver", "restore"} : MoveOn(d, label)
    /\ UNCHANGED <<reserved, rjob, vars>>

\* Mutant: the delivery is counted but the record is not marked.
StillOwed(o) == o
Fulfilled(o) == [o EXCEPT !.redeemed = TRUE]

\* /operation/credit-delivered.  Its answer may be lost after it was stored.
Deliver(d) ==
    LET a == rjob[d].auth
        o == op[a]
        n == rjob[d].token IN
    /\ At(d, "deliver")
    /\ \/ /\ Owes(o, n) /\ (o.redeemed \/ o.attempter = d)
          /\ op' = [op EXCEPT ![a] = Fulfilled(@)]
          /\ delivered' = [delivered EXCEPT ![a] = IF o.redeemed THEN @ ELSE @ + 1]
          /\ MoveOn(d, "confirm") \/ (StubFaults /\ MoveOn(d, "restore"))
       \/ /\ ~Owes(o, n) \/ (~o.redeemed /\ o.attempter # d) \/ StubFaults
          /\ MoveOn(d, "restore")
          /\ UNCHANGED <<op, delivered>>
    /\ UNCHANGED <<reserved, rjob, ledger, alarm, pending, held, pc, job, chain, settles, started>>

\* /index/credit-finalize with success: the credit is consumed.
Confirm(d) ==
    /\ At(d, "confirm") /\ MoveOn(d, "done")
    /\ reserved' = reserved \ {Row(d)}
    /\ UNCHANGED <<rjob, vars>>

\* Mutant: a failed redemption consumes the credit.
Consumed(free, n) == free
Returned(free, n) == free \cup {n}

\* /index/credit-finalize without success: only the request that reserved the
\* credit makes it available again.
Restore(d) ==
    LET a == rjob[d].auth IN
    /\ At(d, "restore") /\ MoveOn(d, "done")
    /\ reserved' = reserved \ {Row(d)}
    /\ available' = IF Row(d) \in reserved
                    THEN [available EXCEPT ![a] = Returned(@, rjob[d].token)]
                    ELSE available
    /\ UNCHANGED <<rjob, index, keys, object, pc, job, chain, history>>

\* The Worker is killed; the credit stays reserved in its name.
CrashRedemption(d) ==
    /\ rpc[d] \notin {"idle", "done"}
    /\ MoveOn(d, "done")
    /\ UNCHANGED <<reserved, rjob, vars>>

RedeemStep(d) ==
    \/ \E a \in Auths : \E n \in available[a] : Consume(d, a, n)
    \/ Attempt(d) \/ RunAgain(d) \/ Deliver(d) \/ Confirm(d) \/ Restore(d)

RedemptionNext ==
    \/ Next /\ UNCHANGED redemption
    \/ \E d \in Redeemers : RedeemStep(d) \/ CrashRedemption(d)

RedemptionSpec == RedemptionInit /\ [][RedemptionNext]_rvars

-----------------------------------------------------------------------------
\* A payment is answered with one delivered result, through the operation or
\* through its credit, never through both and never twice through a credit
\* whose confirmation was lost.
DeliveredOnce == \A a \in Auths : delivered[a] <= 1

\* An obligation that has not been fulfilled keeps its credit in the index,
\* free or reserved: no failed attempt loses it.
OwedCreditExists ==
    \A a \in Auths :
        op[a].status = "credited" /\ op[a].credit # 0 /\ ~op[a].redeemed =>
            \/ op[a].credit \in available[a]
            \/ \E c \in reserved : c.auth = a /\ c.token = op[a].credit

\* An obligation that has not been fulfilled can be redeemed: its credit is
\* available, or a redemption that is still running holds it.  The code does
\* not meet it: a redemption that dies keeps its credit.
OwedCreditUsable ==
    \A a \in Auths :
        op[a].status = "credited" /\ op[a].credit # 0 /\ ~op[a].redeemed =>
            \/ op[a].credit \in available[a]
            \/ \E d \in Redeemers : /\ rpc[d] \notin {"idle", "done"}
                                    /\ rjob[d] = [auth |-> a, token |-> op[a].credit]
=============================================================================
