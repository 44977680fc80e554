----------------------------- MODULE PaidGateway -----------------------------
(***************************************************************************)
(* One paid operation of XGuard from the payment header to delivery:       *)
(* handlePaidWebFetch (a Worker request), the gateway-index Durable Object *)
(* that binds a payment identifier to an authorization, the operation      *)
(* Durable Object of each authorization, its alarm, and the facilitator    *)
(* and chain they call.                                                    *)
(*                                                                         *)
(* A Durable Object handler that only touches storage is one step (its     *)
(* input gate is closed); every call between objects, and the chain query  *)
(* inside the alarm, is a point where the others may run.  A process is a  *)
(* request (it runs once) or the alarm of an authorization, named by the   *)
(* authorization itself.                                                   *)
(***************************************************************************)
EXTENDS Naturals, FiniteSets, PaymentStates

CONSTANTS
    Pids,          \* payment identifiers (one signed quote each)
    Auths,         \* payment authorizations: payer and nonce, one operation object each
    Requests,      \* runs of handlePaidWebFetch
    Redeemers,     \* runs that present an execution credit (CreditRedemption)
    Keys,          \* buyer idempotency keys of live and seller products
    KeyOf,         \* the key a quote was issued for, None for the other tools
    LivePids,      \* quotes bought over mcp-live: chain evidence is required
    SlowPids,      \* those whose settlement stage may outlast the alarm's 25 s
    SellerPids,    \* marketplace quotes: a failed delivery keeps its claim
    MaxAttempts,   \* MAX_RECONCILIATION_ATTEMPTS
    HonestFacilitator, \* the facilitator's verdicts agree with the chain
    StubFaults,    \* a call to an operation object may throw
    None

ASSUME NoneAssumption ==
    None \notin Pids \cup Auths \cup Requests \cup Redeemers \cup Keys
ASSUME ProcessAssumption ==
    Requests \cap Auths = {} /\ Redeemers \cap (Requests \cup Auths) = {}
ASSUME KeyAssumption == KeyOf \in [Pids -> Keys \cup {None}]
\* Only a chain query (three endpoints, 5 s a call) can stretch the settlement
\* stage past 25 s: the facilitator alone is cut off after 10 s.
ASSUME PidAssumption == SlowPids \subseteq LivePids /\ LivePids \subseteq Pids
ASSUME SellerAssumption == SellerPids \subseteq Pids \ LivePids
ASSUME AttemptsAssumption == MaxAttempts \in Nat
ASSUME ModeAssumption == HonestFacilitator \in BOOLEAN /\ StubFaults \in BOOLEAN

VARIABLES
    index,      \* gateway index, "pid:" rows: [auth, status], auth None when absent
    keys,       \* index, "live-idempotency:" and seller "request:" rows
    available,  \* index, "credit:" rows of each authorization that are available
    op,         \* the record of each operation object, status "none" when absent
    alarm,      \* is an alarm set on the operation object
    pending,    \* "commerce_pending": the seller ledger has not answered yet
    held,       \* the record a handler read before a call and writes back after it
    pc, job,    \* where each process is, and its locals
    chain,      \* the fate of the authorization on chain
    settles,    \* /settle calls made with the authorization (history)
    started,    \* claims granted on the operation (history); also the next token
    delivered   \* results delivered for the operation (history)

ledger == <<index, keys, available>>
object == <<op, alarm, pending, held>>
history == <<settles, started, delivered>>
vars == <<index, keys, available, op, alarm, pending, held, pc, job, chain,
          settles, started, delivered>>

Procs == Requests \cup Auths

\* An absent record.  claim and credit hold a token number, 0 for null.
NoOperation ==
    [pid |-> None, status |-> "none", life |-> "none", reserved |-> FALSE,
     claim |-> 0, attempts |-> 0, payload |-> FALSE, dead |-> FALSE,
     credit |-> 0, attempter |-> None, redeemed |-> FALSE]

Operation ==
    [pid : Pids \cup {None}, status : Statuses, life : LifecycleStates,
     reserved : BOOLEAN, claim : Nat, attempts : Nat, payload : BOOLEAN,
     dead : BOOLEAN, credit : Nat, attempter : Redeemers \cup {None},
     redeemed : BOOLEAN]

NoJob == [pid |-> None, auth |-> None, outcome |-> "none", token |-> 0]
Job == [pid : Pids \cup {None}, auth : Auths \cup {None},
        outcome : Statuses, token : Nat]

Labels == {"idle", "select", "peek", "release", "begin", "verify", "key", "book",
           "submit", "reply", "evidence", "commit", "sync", "finalize",
           "claim", "execute", "complete", "credit", "query", "outbox", "done"}

\* The labels from the booking of the settlement to the commit of its outcome.
Settling == {"submit", "reply", "evidence", "commit"}

TypeOK ==
    /\ index \in [Pids -> [auth : Auths \cup {None}, status : Statuses]]
    /\ keys \in [Keys -> Auths \cup {None}]
    /\ available \in [Auths -> SUBSET Nat]
    /\ op \in [Auths -> Operation]
    /\ alarm \in [Auths -> BOOLEAN]
    /\ pending \in [Auths -> BOOLEAN]
    /\ held \in [Procs -> Operation]
    /\ pc \in [Procs -> Labels]
    /\ job \in [Procs -> Job]
    /\ chain \in [Auths -> {"none", "paid", "void"}]
    /\ settles \in [Auths -> Nat]
    /\ started \in [Auths -> Nat]
    /\ delivered \in [Auths -> Nat]

Absent == [auth |-> None, status |-> "none"]

Init ==
    /\ index = [p \in Pids |-> Absent]
    /\ keys = [k \in Keys |-> None]
    /\ available = [a \in Auths |-> {}]
    /\ op = [a \in Auths |-> NoOperation]
    /\ alarm = [a \in Auths |-> FALSE]
    /\ pending = [a \in Auths |-> FALSE]
    /\ held = [x \in Procs |-> NoOperation]
    /\ pc = [x \in Procs |-> "idle"]
    /\ job = [x \in Procs |-> NoJob]
    /\ chain = [a \in Auths |-> "none"]
    /\ settles = [a \in Auths |-> 0]
    /\ started = [a \in Auths |-> 0]
    /\ delivered = [a \in Auths |-> 0]

-----------------------------------------------------------------------------
(* Control of a process. *)

Goto(x, label) == pc' = [pc EXCEPT ![x] = label] /\ UNCHANGED job

\* Return to the caller: a request is over, an alarm may be set again.
Finish(x) ==
    /\ pc' = [pc EXCEPT ![x] = IF x \in Requests THEN "done" ELSE "idle"]
    /\ job' = [job EXCEPT ![x] = NoJob]

\* Every outcome is copied to the index row by the process that brought it about.
Report(x, label, outcome) ==
    /\ pc' = [pc EXCEPT ![x] = label]
    /\ job' = [job EXCEPT ![x].outcome = outcome]

(* The operation object's routes. *)

Accepts(o, next) ==
    /\ PaymentStateCanTransition(o.status, next)
    /\ FinancialLifecycle(o.life, next) # "INVALID"

\* safeFinancialPatch; a finished payment no longer needs its signed payload.
Patched(o, next) ==
    [o EXCEPT !.status = next, !.life = FinancialLifecycle(o.life, next),
              !.payload = @ /\ next \notin {"failed", "settled", "succeeded"}]

\* /operation/transition: a refused patch (409) changes nothing.
Transition(a, next) ==
    /\ op' = [op EXCEPT ![a] = IF Accepts(@, next) THEN Patched(@, next) ELSE @]
    /\ alarm' = [alarm EXCEPT ![a] = @ \/ (next = "ambiguous" /\ Accepts(op[a], next))]

\* The callers that give up report the outcome whether or not it was accepted.
GiveUp(x, outcome) ==
    /\ Transition(job[x].auth, outcome)
    /\ Report(x, "finalize", outcome)
    /\ UNCHANGED <<pending, held>>

\* A seller's sale is sent to the seller ledger before the route answers, and
\* the handler keeps the record it has just stored (syncSellerCommerce).  The
\* other operations only send a copy (see CommerceLedger).
Stored(x, rec, outcome) ==
    IF rec.pid \in SellerPids
    THEN /\ pending' = [pending EXCEPT ![job[x].auth] = TRUE]
         /\ held' = [held EXCEPT ![x] = rec]
         /\ Report(x, "sync", outcome)
    ELSE /\ Report(x, "finalize", outcome)
         /\ UNCHANGED <<pending, held>>

-----------------------------------------------------------------------------
(* handlePaidWebFetch, from the payment header on. *)

\* /index/reserve binds the identifier to the first authorization presented.
Reserve(r, p, a) ==
    /\ pc[r] = "idle"
    /\ \/ /\ index[p].auth = None
          /\ index' = [index EXCEPT ![p] = [auth |-> a, status |-> "pending"]]
          /\ pc' = [pc EXCEPT ![r] = "select"]
          /\ job' = [job EXCEPT ![r] = [@ EXCEPT !.pid = p, !.auth = a]]
       \/ /\ index[p].auth = a
          /\ pc' = [pc EXCEPT ![r] = "peek"]
          /\ job' = [job EXCEPT ![r] = [@ EXCEPT !.pid = p, !.auth = a]]
          /\ UNCHANGED index
       \/ /\ index[p].auth \notin {None, a}    \* payment_identifier_conflict
          /\ Finish(r)
          /\ UNCHANGED index
    /\ UNCHANGED <<keys, available, object, chain, history>>

\* A fresh reservation picks a facilitator; none reachable releases the row.
SelectFacilitator(r) ==
    /\ pc[r] = "select"
    /\ \E label \in {"begin", "release"} : Goto(r, label)
    /\ UNCHANGED <<ledger, object, chain, history>>

\* The row is there but the operation is not yet: 409, and the row stays.
AwaitPreparation(r) == Finish(r)

\* A replay reads the facilitator pinned in the operation.  The read sits in
\* the try block whose handler releases the row.
Peek(r) ==
    /\ pc[r] = "peek"
    /\ \/ op[job[r].auth].status # "none" /\ Goto(r, "begin")
       \/ op[job[r].auth].status = "none" /\ AwaitPreparation(r)
       \/ StubFaults /\ Goto(r, "release")
    /\ UNCHANGED <<ledger, object, chain, history>>

\* /index/release.
Release(r) ==
    LET row == index[job[r].pid] IN
    /\ pc[r] = "release"
    /\ index' = IF row.auth = job[r].auth /\ row.status = "pending"
                THEN [index EXCEPT ![job[r].pid] = Absent] ELSE index
    /\ Finish(r)
    /\ UNCHANGED <<keys, available, object, chain, history>>

\* Mutant: the lifecycle state is stored as the financial status.
SwappedOperation(p) ==
    [NoOperation EXCEPT !.pid = p, !.status = "PAYMENT_PRESENTED",
                        !.life = "none", !.payload = TRUE]
NewOperation(p) ==
    [NoOperation EXCEPT !.pid = p, !.status = "pending",
                        !.life = "PAYMENT_PRESENTED", !.payload = TRUE]

\* /operation/begin and the replay branches that follow it.
Begin(r) ==
    LET p == job[r].pid
        a == job[r].auth IN
    /\ pc[r] = "begin"
    /\ \/ /\ op[a].status = "none"
          /\ op' = [op EXCEPT ![a] = NewOperation(p)]
          /\ Goto(r, "verify")
       \/ /\ op[a].status # "none" /\ op[a].pid # p  \* authorization_replay_conflict
          /\ Goto(r, "release")
          /\ UNCHANGED op
       \/ /\ op[a].status = "settled" /\ op[a].pid = p
          /\ Goto(r, "claim")
          /\ UNCHANGED op
       \/ /\ op[a].status \notin {"none", "settled"} /\ op[a].pid = p
          /\ Finish(r)
          /\ UNCHANGED op
    /\ UNCHANGED <<ledger, alarm, pending, held, chain, history>>

\* The facilitator's /verify: valid, or refused or unreachable.
Verify(r) ==
    LET a == job[r].auth IN
    /\ pc[r] = "verify"
    /\ \/ /\ Transition(a, "verified")
          /\ IF Accepts(op[a], "verified") THEN Goto(r, "key") ELSE Finish(r)
          /\ UNCHANGED <<pending, held>>
       \/ GiveUp(r, "failed")
    /\ UNCHANGED <<ledger, chain, history>>

\* Mutant: the last buyer of a key gets it.
KeyAlwaysFree(k, a) == k # None
KeyFree(k, a) == k # None /\ keys[k] \in {None, a}

\* /live/reserve-request or /seller/request-reserve, after verification only.
ReserveKey(r) ==
    LET k == KeyOf[job[r].pid]
        a == job[r].auth IN
    /\ pc[r] = "key"
    /\ \/ /\ k = None
          /\ Goto(r, "book")
          /\ UNCHANGED <<keys, object>>
       \/ /\ KeyFree(k, a)
          /\ keys' = [keys EXCEPT ![k] = a]
          /\ Goto(r, "book")
          /\ UNCHANGED object
       \/ /\ k # None /\ ~KeyFree(k, a)
          /\ GiveUp(r, "failed")
          /\ UNCHANGED keys
    /\ UNCHANGED <<index, available, chain, history>>

\* Mutant: the booking sets no alarm.
NoAlarm(a) == UNCHANGED alarm
SetAlarm(a) == alarm' = [alarm EXCEPT ![a] = TRUE]

\* /operation/reserve-settlement: once per operation.  The alarm is set when the
\* transaction is over; an object that dies in between has booked without one,
\* and its Worker, which gets no answer, sends nothing.
Book(r) ==
    LET a == job[r].auth
        o == op[a] IN
    /\ pc[r] = "book"
    /\ \/ /\ o.status = "verified" /\ ~o.reserved
          /\ op' = [op EXCEPT ![a] =
                    [@ EXCEPT !.reserved = TRUE,
                              !.life = AdvanceLifecycle(AdvanceLifecycle(o.life, "SETTLEMENT_RESERVED"),
                                                        "SETTLEMENT_PENDING")]]
          /\ \/ SetAlarm(a) /\ Goto(r, "submit")
             \/ UNCHANGED alarm /\ Finish(r)
       \/ /\ o.status # "verified" \/ o.reserved
          /\ Finish(r)
          /\ UNCHANGED <<op, alarm>>
    /\ UNCHANGED <<ledger, pending, held, chain, history>>

\* The facilitator's /settle leaves the Worker.
Submit(r) ==
    /\ pc[r] = "submit"
    /\ settles' = [settles EXCEPT ![job[r].auth] = @ + 1]
    /\ Goto(r, "reply")
    /\ UNCHANGED <<ledger, object, chain, started, delivered>>

\* A timeout, a 5xx or an answer that does not match the terms proves nothing.
\* Mutants: the settlement is sent again; it is taken for a rejection.
ResubmitUnclear(r) == Goto(r, "submit") /\ UNCHANGED object
FailUnclear(r) == GiveUp(r, "failed")
Unclear(r) == GiveUp(r, "ambiguous")

\* The facilitator's answer: settled, rejected, or unclear.
Reply(r) ==
    LET a == job[r].auth IN
    /\ pc[r] = "reply"
    /\ \/ /\ HonestFacilitator => chain[a] = "paid"
          /\ Goto(r, IF job[r].pid \in LivePids THEN "evidence" ELSE "commit")
          /\ UNCHANGED object
       \/ /\ HonestFacilitator => chain[a] = "void"
          /\ GiveUp(r, "failed")
       \/ Unclear(r)
    /\ UNCHANGED <<ledger, chain, history>>

\* reconcilePayment on the transaction the facilitator named.
\* Mutant: the transaction hash alone is enough.
HashGiven(a) == TRUE
Proven(a) == chain[a] = "paid"

CheckEvidence(r) ==
    /\ pc[r] = "evidence"
    /\ \/ /\ Proven(job[r].auth)
          /\ Goto(r, "commit")
          /\ UNCHANGED object
       \/ GiveUp(r, "ambiguous")
    /\ UNCHANGED <<ledger, chain, history>>

Commit(r) ==
    LET a == job[r].auth IN
    /\ pc[r] = "commit"
    /\ Transition(a, "settled")
    /\ IF Accepts(op[a], "settled")
       THEN Stored(r, Patched(op[a], "settled"), "settled")
       ELSE Finish(r) /\ UNCHANGED <<pending, held>>
    /\ UNCHANGED <<ledger, chain, history>>

-----------------------------------------------------------------------------
(* Steps shared by a request and an alarm: /index/finalize and             *)
(* executeSettledOperation.                                                *)

\* The second half of syncSellerCommerce.  Once the seller ledger answered, the
\* record that was held is stored again; if it did not, an alarm retries.  An
\* alarm that only had this to do (its outcome is "none") then reads the record
\* again, finds nothing ambiguous and ends.
Sync(x) ==
    LET a == job[x].auth IN
    /\ pc[x] = "sync"
    /\ \/ /\ op' = [op EXCEPT ![a] = held[x]]
          /\ pending' = [pending EXCEPT ![a] = FALSE]
          /\ UNCHANGED alarm
       \/ /\ alarm' = [alarm EXCEPT ![a] = TRUE]
          /\ UNCHANGED <<op, pending>>
    /\ held' = [held EXCEPT ![x] = NoOperation]
    /\ IF x \in Auths /\ job[x].outcome = "none" THEN Finish(x)
       ELSE Goto(x, IF x \in Auths /\ job[x].outcome = "settled"
                    THEN "claim" ELSE "finalize")
    /\ UNCHANGED <<ledger, chain, history>>

\* /index/finalize on a row of the same authorization.
\* Mutant: a failed payment frees its identifier.
FreeFailedRow(row, outcome) ==
    IF outcome = "failed" THEN Absent ELSE [row EXCEPT !.status = outcome]
FinalRow(row, outcome) == [row EXCEPT !.status = outcome]

Rearms(x) == x \in Auths /\ job[x].outcome = "ambiguous" /\ ~held[x].dead

\* The alarm that could not resolve a payment sets itself again, after this
\* call, unless it was its last attempt.  An alarm that settled a seller's sale
\* has yet to send it to the seller ledger.
Finalize(x) ==
    LET p == job[x].pid
        a == job[x].auth
        outcome == job[x].outcome
        unsent == x \in Auths /\ outcome = "settled" /\ p \in SellerPids IN
    /\ pc[x] = "finalize"
    /\ index' = IF index[p].auth = a
                THEN [index EXCEPT ![p] = FinalRow(@, outcome)] ELSE index
    /\ alarm' = IF Rearms(x) THEN [alarm EXCEPT ![x] = TRUE] ELSE alarm
    /\ held' = IF unsent THEN held ELSE [held EXCEPT ![x] = NoOperation]
    /\ IF outcome = "settled"
       THEN Goto(x, IF unsent THEN "outbox" ELSE "claim") ELSE Finish(x)
    /\ UNCHANGED <<keys, available, op, pending, chain, history>>

\* Mutant: a claim that is held can be claimed again.
ClaimableAgain(o) ==
    /\ o.status \in {"settled", "credited"}
    /\ AdvanceLifecycle(o.life, "EXECUTION_STARTED") # "INVALID"
Claimable(o) ==
    /\ o.status \in {"settled", "credited"}
    /\ o.claim = 0
    /\ AdvanceLifecycle(o.life, "EXECUTION_STARTED") # "INVALID"

\* /operation/claim-execution: a version 1 record is claimed by one worker.
Claim(x) ==
    LET a == job[x].auth IN
    /\ pc[x] = "claim"
    /\ \/ /\ Claimable(op[a])
          /\ started' = [started EXCEPT ![a] = @ + 1]
          /\ op' = [op EXCEPT ![a] = [@ EXCEPT !.claim = started[a] + 1,
                                               !.life = "EXECUTION_STARTED"]]
          /\ pc' = [pc EXCEPT ![x] = "execute"]
          /\ job' = [job EXCEPT ![x].token = started[a] + 1]
       \/ /\ ~Claimable(op[a])
          /\ Finish(x)
          /\ UNCHANGED <<op, started>>
    /\ UNCHANGED <<ledger, alarm, pending, held, chain, settles, delivered>>

\* A seller's service may have acted before it failed.
\* Mutant: the failed delivery gives its claim back.
ReleaseForRetry(o) == [Patched(o, "credited") EXCEPT !.claim = 0]
HoldForReview(o) == Patched(o, "credited")

\* The upstream answers; or it fails after the buyer paid.
Execute(x) ==
    LET a == job[x].auth IN
    /\ pc[x] = "execute"
    /\ \/ /\ Goto(x, "complete")
          /\ UNCHANGED <<object, available>>
       \/ /\ job[x].pid \in SellerPids /\ Accepts(op[a], "credited")
          /\ op' = [op EXCEPT ![a] = HoldForReview(@)]
          /\ Stored(x, HoldForReview(op[a]), "credited")
          /\ UNCHANGED <<alarm, available>>
       \/ /\ job[x].pid \in SellerPids /\ ~Accepts(op[a], "credited")
          /\ Report(x, "finalize", "credited")
          /\ UNCHANGED <<object, available>>
       \/ /\ job[x].pid \notin SellerPids     \* /index/credit-create
          /\ available' = [available EXCEPT ![a] = @ \cup {job[x].token}]
          /\ Goto(x, "credit")
          /\ UNCHANGED object
    /\ UNCHANGED <<index, keys, chain, history>>

\* The operation becomes credited and gives its claim back; the answer of the
\* route is not looked at.
RecordCredit(x) ==
    LET a == job[x].auth IN
    /\ pc[x] = "credit"
    /\ op' = [op EXCEPT ![a] =
                IF Accepts(@, "credited")
                THEN [Patched(@, "credited") EXCEPT !.claim = 0, !.credit = job[x].token]
                ELSE @]
    /\ Report(x, "finalize", "credited")
    /\ UNCHANGED <<ledger, alarm, pending, held, chain, history>>

\* /operation/complete.  Without a signed receipt and proof nothing is stored.
Complete(x) ==
    LET a == job[x].auth
        o == op[a]
        done == [Patched(o, "succeeded") EXCEPT !.claim = 0]
        granted == /\ o.status \in {"settled", "credited"}
                   /\ o.claim \in {0, job[x].token}
                   /\ Accepts(o, "succeeded") IN
    /\ pc[x] = "complete"
    /\ \/ /\ granted
          /\ op' = [op EXCEPT ![a] = done]
          /\ delivered' = [delivered EXCEPT ![a] = @ + 1]
          /\ Stored(x, done, "succeeded")
       \/ /\ o.status = "succeeded"           \* replay of the stored record
          /\ Report(x, "finalize", "succeeded")
          /\ UNCHANGED <<op, pending, held, delivered>>
       \/ /\ o.status # "succeeded"           \* refused, or no proof was signed
          /\ Finish(x)
          /\ UNCHANGED <<op, pending, held, delivered>>
    /\ UNCHANGED <<ledger, alarm, chain, settles, started>>

-----------------------------------------------------------------------------
(* PaidGatewayState.alarm and reconcileStoredOperation. *)

\* The alarm is set 30 s after the booking and looks only at records at least
\* 25 s old; a worker still settling then can only be one that waits for
\* chain evidence.
WorkerOverdue(a) ==
    \A r \in Requests :
        pc[r] \in Settling /\ job[r].auth = a => job[r].pid \in SlowPids

\* The record the alarm goes on with: an interrupted settlement is ambiguous.
Seen(a) ==
    IF op[a].life = "SETTLEMENT_PENDING" THEN Patched(op[a], "ambiguous") ELSE op[a]

\* Mutant: the attempt is not counted.
UncountedAttempt(o) == o
CountedAttempt(o) == [o EXCEPT !.attempts = @ + 1]

\* reconcileStoredOperation up to its chain query: give up after MaxAttempts,
\* or count the attempt, store it and ask.
StartReconciling(a, seen) ==
    LET exhausted == seen.attempts >= MaxAttempts
        next == IF exhausted THEN [seen EXCEPT !.dead = TRUE]
                             ELSE CountedAttempt(seen) IN
    /\ seen.status = "ambiguous" /\ seen.payload
    /\ op' = [op EXCEPT ![a] = next]
    /\ held' = [held EXCEPT ![a] = next]
    /\ pc' = [pc EXCEPT ![a] = IF exhausted THEN "finalize" ELSE "query"]
    /\ job' = [job EXCEPT ![a] = [pid |-> seen.pid, auth |-> a,
                                  outcome |-> "ambiguous", token |-> 0]]

Owing(a, seen) ==
    pending[a] /\ seen.status \in {"settled", "credited", "succeeded"}

FireAlarm(a) ==
    LET seen == Seen(a) IN
    /\ alarm[a] /\ pc[a] = "idle" /\ WorkerOverdue(a)
    /\ alarm' = [alarm EXCEPT ![a] = FALSE]
    /\ \/ /\ Owing(a, seen)                 \* syncSellerCommerce first
          /\ held' = [held EXCEPT ![a] = op[a]]
          /\ pc' = [pc EXCEPT ![a] = "sync"]
          /\ job' = [job EXCEPT ![a] = [@ EXCEPT !.pid = op[a].pid, !.auth = a]]
          /\ UNCHANGED op
       \/ ~Owing(a, seen) /\ StartReconciling(a, seen)
       \/ /\ ~Owing(a, seen)
          /\ seen.status # "ambiguous" \/ ~seen.payload
          /\ op' = [op EXCEPT ![a] = seen]
          /\ UNCHANGED <<held, pc, job>>
    /\ UNCHANGED <<ledger, pending, chain, history>>

\* The answer of the chain.  Both branches write back the record that was read
\* before the query, whatever the object holds now.
Query(a) ==
    LET found == Patched(held[a], "settled")
        missing == [held[a] EXCEPT !.dead = held[a].attempts >= MaxAttempts] IN
    /\ pc[a] = "query"
    /\ \/ /\ chain[a] = "paid"
          /\ op' = [op EXCEPT ![a] = found]
          /\ held' = [held EXCEPT ![a] = found]
          /\ Report(a, "finalize", "settled")
       \/ /\ op' = [op EXCEPT ![a] = missing]
          /\ held' = [held EXCEPT ![a] = missing]
          /\ Report(a, "finalize", "ambiguous")
    /\ UNCHANGED <<ledger, alarm, pending, chain, history>>

\* syncSellerCommerce after the alarm's own finalize: it stores the record it
\* still holds, then calls the seller ledger.
Outbox(a) ==
    /\ pc[a] = "outbox"
    /\ op' = [op EXCEPT ![a] = held[a]]
    /\ pending' = [pending EXCEPT ![a] = TRUE]
    /\ Goto(a, "sync")
    /\ UNCHANGED <<ledger, alarm, held, chain, history>>

-----------------------------------------------------------------------------
(* The environment. *)

\* The transfer is mined, or the authorization can no longer be used.
ChainDecides(a) ==
    /\ settles[a] > 0 /\ chain[a] = "none"
    /\ \E fate \in {"paid", "void"} : chain' = [chain EXCEPT ![a] = fate]
    /\ UNCHANGED <<ledger, object, pc, job, history>>

\* A Worker is killed, or throws, between two of its calls.
CrashRequest(r) ==
    /\ pc[r] \notin {"idle", "done"}
    /\ Finish(r)
    /\ held' = [held EXCEPT ![r] = NoOperation]
    /\ UNCHANGED <<ledger, op, alarm, pending, chain, history>>

\* An alarm that dies is run again by the platform.
CrashAlarm(a) ==
    /\ pc[a] # "idle"
    /\ Finish(a)
    /\ alarm' = [alarm EXCEPT ![a] = TRUE]
    /\ held' = [held EXCEPT ![a] = NoOperation]
    /\ UNCHANGED <<ledger, op, pending, chain, history>>

-----------------------------------------------------------------------------
RequestStep(r) ==
    \/ SelectFacilitator(r) \/ Peek(r) \/ Release(r) \/ Begin(r) \/ Verify(r)
    \/ ReserveKey(r) \/ Book(r) \/ Submit(r) \/ Reply(r) \/ CheckEvidence(r)
    \/ Commit(r)

ExecutionStep(x) ==
    \/ Sync(x) \/ Finalize(x) \/ Claim(x)
    \/ Execute(x) \/ RecordCredit(x) \/ Complete(x)

AlarmStep(a) == FireAlarm(a) \/ Query(a) \/ Outbox(a)

Next ==
    \/ \E r \in Requests, p \in Pids, a \in Auths : Reserve(r, p, a)
    \/ \E r \in Requests : RequestStep(r)
    \/ \E x \in Procs : ExecutionStep(x)
    \/ \E a \in Auths : AlarmStep(a) \/ ChainDecides(a)
    \/ \E r \in Requests : CrashRequest(r)
    \/ \E a \in Auths : CrashAlarm(a)

Spec == Init /\ [][Next]_vars

\* A Worker that is not killed makes its next call and the platform delivers a
\* set alarm.  Requests need not arrive, nothing crashes by fairness, and the
\* chain need never decide.
Fairness ==
    /\ \A r \in Requests : WF_vars(RequestStep(r) \/ ExecutionStep(r))
    /\ \A a \in Auths : WF_vars(AlarmStep(a) \/ ExecutionStep(a))

FairSpec == Spec /\ Fairness
=============================================================================
