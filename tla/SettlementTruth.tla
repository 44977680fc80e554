--------------------------- MODULE SettlementTruth ---------------------------
(***************************************************************************)
(* The settlement-truth gateway (apps/settlement-gateway): a paid read is  *)
(* claimed in the SQLite object of its wallet, prepared, journalled, and   *)
(* settled once; a settlement whose answer is uncertain is only looked up. *)
(* The atomic operations of the object are operators on the tables; a      *)
(* request is the Worker that calls them one after the other, and may die, *)
(* fail or outlast its lease between any two.                              *)
(*                                                                         *)
(* Time enters as three events that may come at any moment the durations   *)
(* of the code allow: a lease lapses (35 s), an authorization ends (at     *)
(* most 330 s) and the retention of a job ends (1 h, so after the latter). *)
(***************************************************************************)
EXTENDS Naturals, Sequences, FiniteSets, Functions

CONSTANTS
    Requests, None,
    Intents,        \* what a buyer can present: one credential, key and resource
    Ids,            \* job ids: the nonce, or account and idempotency key
    IdOf, KeyOf,    \* intent: its job id; its (merchant, rail, account, idem)
    RailOf,         \* job id: "base", "credits" or "lemon"
    Payments,       \* provider payments that fund the credit account
    Amounts,        \* amounts a delivery of a payment may claim
    MaxBalance, LemonCredits, HotSize,
    MaxEdition      \* bound on the editions of the source

ASSUME IntentsAssumption == IdOf \in [Intents -> Ids] /\ KeyOf \in [Intents -> STRING]
ASSUME RailsAssumption == RailOf \in [Ids -> {"base", "credits", "lemon"}]
ASSUME NoneAssumption ==
    None \notin Requests /\ None \notin Intents /\ None \notin Nat
\* A job id is a nonce or a digest, a payment id a label of at most 96 characters.
ASSUME StorageAssumption == IsFiniteSet(Ids) /\ IsFiniteSet(Payments)
ASSUME BoundsAssumption ==
    /\ MaxBalance \in Nat /\ LemonCredits \in Nat /\ HotSize \in Nat \ {0}
    /\ MaxEdition \in Nat /\ Amounts \subseteq Nat \ {0}

VARIABLES
    job,            \* table jobs; its row, or NoJob
    journal,        \* table journal: the intent and phase of an id
    balance,        \* table balances, the row of the account
    grants,         \* table grants on the wallet shard: amount of a payment
    bound,          \* table grants on the funding shard: amount first bound
    hot,            \* RAM cache of completed jobs, oldest first
    req,            \* the Workers
    valid,          \* intents whose authorization has not ended
    edition,        \* edition of the facts the origin would answer with
    paid,           \* ids whose transfer is confirmed on Base
    debited,        \* ids the Lemon Worker has debited
    sent,           \* history: /settle calls per id
    delivered       \* history: bodies handed out

tables == <<job, journal, balance, grants, bound, hot>>
world == <<valid, edition, paid, debited>>
vars == <<job, journal, balance, grants, bound, hot, req, valid, edition, paid,
          debited, sent, delivered>>

Phases == {"working", "settling", "done", "retry"}
NoJob == [phase |-> "none", intent |-> None, owner |-> None, leased |-> FALSE,
          kept |-> FALSE, held |-> 0, body |-> None]
NoRow == [phase |-> "none", intent |-> None]
Idle == [step |-> "idle", intent |-> None, body |-> None]

Bodies == 0..MaxEdition
Jobs == [phase : Phases, intent : Intents, owner : Requests, leased : BOOLEAN,
         kept : BOOLEAN, held : {0, 1}, body : Bodies \cup {None}]
Steps == {"work", "ready", "submit", "sent", "reconcile"}
Processes ==
    [step : Steps, intent : Intents, body : Bodies \cup {None}] \cup {Idle}

TablesTyped ==
    /\ job \in [Ids -> Jobs \cup {NoJob}]
    /\ journal \in [Ids -> [phase : {"settling", "done"}, intent : Intents] \cup {NoRow}]
    /\ req \in [Requests -> Processes]
    /\ edition \in Bodies
    /\ paid \subseteq Ids /\ debited \subseteq Ids
    /\ sent \in [Ids -> Nat] /\ delivered \subseteq Ids \X Bodies

TruthTypeOK ==
    /\ TablesTyped
    /\ balance \in [available : Nat, held : Nat]
    /\ grants \in [Payments -> Nat] /\ bound \in [Payments -> Nat]
    /\ hot \in Seq(Ids) /\ Len(hot) <= HotSize
    /\ valid \subseteq Intents

Init ==
    /\ job = [n \in Ids |-> NoJob] /\ journal = [n \in Ids |-> NoRow]
    /\ balance = [available |-> 0, held |-> 0]
    /\ grants = [p \in Payments |-> 0] /\ bound = [p \in Payments |-> 0]
    /\ hot = <<>>
    /\ req = [r \in Requests |-> Idle]
    /\ valid = Intents /\ edition = 0 /\ paid = {} /\ debited = {}
    /\ sent = [n \in Ids |-> 0] /\ delivered = {}

-----------------------------------------------------------------------------
(* claim *)

Rail(i) == RailOf[IdOf[i]]
Present(n) == job[n].phase # "none"

\* The id is taken by another binding: conflict, before anything is written.
Clashes(i) == Present(IdOf[i]) /\ job[IdOf[i]].intent # i

Expired(n) == Present(n) /\ ~job[n].kept

\* Mutants: keys are compared with the binding; a sweep forgets the holds.
SameBinding(k, i) == k = i
Unswept == balance

(* prune: expired jobs go and return their hold. *)
Refund(b, n) ==
    [available |-> b.available + job[n].held, held |-> b.held - job[n].held]
Pruned == [n \in Ids |-> IF Expired(n) THEN NoJob ELSE job[n]]
Swept ==
    LET back == SumFunctionOnSet([n \in Ids |-> IF Expired(n) THEN job[n].held ELSE 0], Ids)
    IN  [available |-> balance.available + back, held |-> balance.held - back]
Prune ==
    /\ job' = Pruned
    /\ balance' = Swept
    /\ hot' = SelectSeq(hot, LAMBDA n : ~Expired(n))

\* UNIQUE(merchant, rail, account, idem), and the look-ups by these columns.
SameKey(k, i) == KeyOf[k] = KeyOf[i]

Tombstone(i) ==
    /\ ~Present(IdOf[i])
    /\ \E n \in Ids : journal[n].phase # "none"
                      /\ (n = IdOf[i] \/ SameKey(journal[n].intent, i))
KeyTaken(i) ==
    \E n \in Ids \ {IdOf[i]} : Pruned[n].phase # "none" /\ SameKey(Pruned[n].intent, i)

Deliver(n, body) == delivered' = delivered \cup {<<n, body>>}

\* A completed job, from the RAM cache or from its row, which is then cached.
Cached(i) == job[IdOf[i]].kept /\ job[IdOf[i]].intent = i /\ \E k \in DOMAIN hot : hot[k] = IdOf[i]
Remember(n) == hot' = Append(IF Len(hot) >= HotSize THEN Tail(hot) ELSE hot, n)

ClaimDone(i) ==
    LET n == IdOf[i] IN
    /\ ~Clashes(i) /\ ~Expired(n) /\ job[n].phase = "done"
    /\ IF Cached(i) THEN UNCHANGED hot ELSE Remember(n)
    /\ Deliver(n, job[n].body)
    /\ UNCHANGED <<job, journal, balance, grants, bound, req, sent, world>>

\* The retention of the job is over: expired.
ClaimExpired(i) ==
    /\ ~Clashes(i) /\ Expired(IdOf[i])
    /\ Prune
    /\ UNCHANGED <<journal, grants, bound, req, sent, delivered, world>>

Free(i) ==
    /\ ~Clashes(i) /\ ~Expired(IdOf[i])
    /\ job[IdOf[i]].phase # "done" /\ ~job[IdOf[i]].leased

\* Mutant: an uncertain settlement is submitted again.
Resubmits == "submit"

\* Where a request that claims a settling job goes on.
Resumes == "reconcile"

ClaimReconcile(r, i) ==
    LET n == IdOf[i] IN
    /\ req[r] = Idle
    /\ Free(i) /\ job[n].phase = "settling"
    /\ job' = [job EXCEPT ![n] = [@ EXCEPT !.owner = r, !.leased = TRUE]]
    /\ req' = [req EXCEPT ![r] = [step |-> Resumes, intent |-> i, body |-> None]]
    /\ UNCHANGED <<journal, balance, grants, bound, hot, sent, delivered, world>>

Workable(i) ==
    /\ Free(i) /\ job[IdOf[i]].phase # "settling"
    /\ Rail(i) = "base" => i \in valid

\* A credit read holds its price unless the job already does.
Hold(i) == IF Rail(i) = "credits" THEN 1 - Pruned[IdOf[i]].held ELSE 0
Granted(i) == ~Tombstone(i) /\ ~KeyTaken(i) /\ Swept.available >= Hold(i)

ClaimWork(r, i) ==
    LET n == IdOf[i] IN
    /\ req[r] = Idle
    /\ Workable(i) /\ Granted(i)
    /\ job' = [Pruned EXCEPT ![n] =
                 [phase |-> "working", intent |-> i, owner |-> r, leased |-> TRUE,
                  kept |-> TRUE, held |-> Pruned[n].held + Hold(i), body |-> Pruned[n].body]]
    /\ balance' = [available |-> Swept.available - Hold(i), held |-> Swept.held + Hold(i)]
    /\ hot' = SelectSeq(hot, LAMBDA k : ~Expired(k))
    /\ req' = [req EXCEPT ![r] = [step |-> "work", intent |-> i, body |-> None]]
    /\ UNCHANGED <<journal, grants, bound, sent, delivered, world>>

\* expired, conflict or insufficient, after the sweep.
ClaimRefused(i) ==
    /\ Workable(i) /\ ~Granted(i)
    /\ Prune
    /\ UNCHANGED <<journal, grants, bound, req, sent, delivered, world>>

-----------------------------------------------------------------------------
(* The operations a claim's owner may call. *)

Own(r) == IdOf[req[r].intent]
Holds(r, phase) == job[Own(r)].owner = r /\ job[Own(r)].phase = phase
InTime(r) == job[Own(r)].leased /\ job[Own(r)].kept
Finished(r) == req' = [req EXCEPT ![r] = Idle]

(* release, called when a read fails before it is journalled. *)
Release(r) ==
    LET n == Own(r) IN
    IF Holds(r, "working")
    THEN /\ balance' = Refund(balance, n)
         /\ job' = [job EXCEPT ![n] = [@ EXCEPT !.phase = "retry", !.held = 0, !.leased = FALSE]]
    ELSE UNCHANGED <<job, balance>>

\* Any error while the request prepares: verification, origin, chain, or a
\* reservation that was lost.
Fail(r) ==
    /\ req[r].step \in {"work", "ready"}
    /\ Release(r)
    /\ Finished(r)
    /\ UNCHANGED <<journal, grants, bound, hot, sent, delivered, world>>

(* prepareFacts *)
Prepare(r) ==
    /\ req[r].step = "work"
    /\ req' = [req EXCEPT ![r] = [@ EXCEPT !.step = "ready", !.body = edition]]
    /\ UNCHANGED <<tables, sent, delivered, world>>

(* startSettlement: the only permission to settle. *)
Unsettled(n, i) ==
    /\ journal[n].phase = "none"
    /\ \A k \in Ids : journal[k].phase # "none" => ~SameKey(journal[k].intent, i)

MaySettle(r) == Holds(r, "working") /\ InTime(r)

StartSettlement(r) ==
    LET n == Own(r) IN
    /\ req[r].step = "ready"
    /\ Rail(req[r].intent) = "base" => req[r].intent \in valid
    /\ Rail(req[r].intent) # "credits"
    /\ MaySettle(r)
    /\ Unsettled(n, job[n].intent)
    /\ job' = [job EXCEPT ![n] = [@ EXCEPT !.phase = "settling", !.body = req[r].body,
                                           !.leased = TRUE]]
    /\ journal' = [journal EXCEPT ![n] = [phase |-> "settling", intent |-> job[n].intent]]
    /\ req' = [req EXCEPT ![r].step = "submit"]
    /\ UNCHANGED <<balance, grants, bound, hot, sent, delivered, world>>

(* xpay settle, or the idempotent debit of the Lemon Worker. *)
Submit(r) ==
    LET n == Own(r) IN
    /\ req[r].step = "submit"
    /\ sent' = [sent EXCEPT ![n] = @ + 1]
    /\ req' = [req EXCEPT ![r].step = "sent"]
    /\ UNCHANGED <<tables, delivered, world>>

\* Mutant: the answer of the facilitator is taken for a receipt.
HintTaken(n) == sent[n] > 0

\* receiptTruth and reconcile find the transfer on Base, lemonSettle the debit.
Truth(n) == n \in paid \cup debited

(* finishChain, and the delivery of the prepared body. *)
FinishChain(r) ==
    LET n == Own(r) IN
    /\ req[r].step \in {"sent", "reconcile"} /\ Truth(n)
    /\ Holds(r, "settling") /\ InTime(r)
    /\ job' = [job EXCEPT ![n] = [@ EXCEPT !.phase = "done", !.leased = FALSE]]
    /\ journal' = [journal EXCEPT ![n].phase = "done"]
    /\ Deliver(n, job[n].body)
    /\ Finished(r)
    /\ UNCHANGED <<balance, grants, bound, hot, sent, world>>

(* deferSettlement: no receipt, no answer, or the job was lost meanwhile. *)
DeferSettlement(r) ==
    LET n == Own(r) IN
    /\ req[r].step \in {"sent", "reconcile"}
    /\ job' = IF Holds(r, "settling") /\ job[n].kept
              THEN [job EXCEPT ![n].leased = TRUE] ELSE job
    /\ Finished(r)
    /\ UNCHANGED <<journal, balance, grants, bound, hot, sent, delivered, world>>

(* finishCredits: the hold and the result are committed together. *)
FinishCredits(r) ==
    LET n == Own(r) IN
    /\ req[r].step = "ready" /\ Rail(req[r].intent) = "credits"
    /\ Holds(r, "working") /\ InTime(r) /\ job[n].held = 1
    /\ Unsettled(n, job[n].intent)
    /\ balance' = [balance EXCEPT !.held = @ - 1]
    /\ job' = [job EXCEPT ![n] = [@ EXCEPT !.phase = "done", !.held = 0, !.leased = FALSE,
                                           !.body = req[r].body]]
    /\ journal' = [journal EXCEPT ![n] = [phase |-> "done", intent |-> job[n].intent]]
    /\ Deliver(n, req[r].body)
    /\ Finished(r)
    /\ UNCHANGED <<grants, bound, hot, sent, world>>

-----------------------------------------------------------------------------
(* XGuardCredits.credit: bound on the funding shard, then applied. *)

BindFunding(p, a) ==
    /\ bound[p] = 0
    /\ bound' = [bound EXCEPT ![p] = a]
    /\ UNCHANGED <<job, journal, balance, grants, hot, req, sent, delivered, world>>

AddCredit(p) ==
    /\ bound[p] # 0 /\ grants[p] = 0
    /\ balance.available + balance.held + bound[p] <= MaxBalance
    /\ balance' = [balance EXCEPT !.available = @ + bound[p]]
    /\ grants' = [grants EXCEPT ![p] = bound[p]]
    /\ UNCHANGED <<job, journal, bound, hot, req, sent, delivered, world>>

-----------------------------------------------------------------------------
(* The outside: time, the chain, the source, and what may fail. *)

LeaseLapses(n) ==
    /\ Present(n) /\ job[n].leased
    /\ job' = [job EXCEPT ![n].leased = FALSE]
    /\ UNCHANGED <<journal, balance, grants, bound, hot, req, sent, delivered, world>>

AuthorizationEnds(i) ==
    /\ i \in valid
    /\ valid' = valid \ {i}
    /\ UNCHANGED <<tables, req, sent, delivered, edition, paid, debited>>

RetentionEnds(n) ==
    /\ Present(n) /\ job[n].kept
    /\ RailOf[n] = "base" => job[n].intent \notin valid
    /\ job' = [job EXCEPT ![n].kept = FALSE]
    /\ UNCHANGED <<journal, balance, grants, bound, hot, req, sent, delivered, world>>

\* A submitted authorization is mined and confirmed.
Confirm(n) ==
    /\ RailOf[n] = "base" /\ sent[n] > 0 /\ n \notin paid
    /\ \E i \in valid : IdOf[i] = n
    /\ paid' = paid \cup {n}
    /\ UNCHANGED <<tables, req, sent, delivered, valid, edition, debited>>

\* The Lemon Worker debits an id once, when the license has a credit left.
Debit(n) ==
    /\ RailOf[n] = "lemon" /\ n \notin debited /\ Cardinality(debited) < LemonCredits
    /\ \E r \in Requests : req[r].step \in {"sent", "reconcile"} /\ Own(r) = n
    /\ debited' = debited \cup {n}
    /\ UNCHANGED <<tables, req, sent, delivered, valid, edition, paid>>

NewEdition ==
    /\ edition < MaxEdition
    /\ edition' = edition + 1
    /\ UNCHANGED <<tables, req, sent, delivered, valid, paid, debited>>

\* A Worker is killed; the object is evicted and loses its RAM.
CrashRequest(r) ==
    /\ req[r] # Idle
    /\ Finished(r)
    /\ UNCHANGED <<tables, sent, delivered, world>>

Evict ==
    /\ hot # <<>>
    /\ hot' = <<>>
    /\ UNCHANGED <<job, journal, balance, grants, bound, req, sent, delivered, world>>

RequestNext(r) ==
    \/ Prepare(r) \/ StartSettlement(r) \/ Submit(r) \/ FinishChain(r)
    \/ DeferSettlement(r) \/ FinishCredits(r) \/ Fail(r) \/ CrashRequest(r)

Next ==
    \/ \E i \in Intents : ClaimDone(i) \/ ClaimExpired(i) \/ ClaimRefused(i)
    \/ \E r \in Requests, i \in Intents : ClaimWork(r, i) \/ ClaimReconcile(r, i)
    \/ \E r \in Requests : RequestNext(r)
    \/ \E p \in Payments : AddCredit(p) \/ \E a \in Amounts : BindFunding(p, a)
    \/ \E n \in Ids : LeaseLapses(n) \/ RetentionEnds(n) \/ Confirm(n) \/ Debit(n)
    \/ \E i \in Intents : AuthorizationEnds(i)
    \/ NewEdition \/ Evict

Spec == Init /\ [][Next]_vars

-----------------------------------------------------------------------------
(* Correctness. *)

(***************************************************************************)
(* "One xpay settle attempt": whatever dies, lapses or is pruned, /settle  *)
(* is called at most once with an authorization, and never by two requests *)
(* at a time.                                                              *)
(***************************************************************************)
OneSettleAttempt == \A n \in Ids : sent[n] <= 1

(***************************************************************************)
(* A buyer's idempotency key pays once: of the ids that share a key, and   *)
(* over the hour after which jobs are forgotten, at most one is submitted, *)
(* debited or charged, and the journal names it.                           *)
(***************************************************************************)
Charged(n) == sent[n] > 0 \/ n \in debited \/ (RailOf[n] = "credits" /\ journal[n].phase = "done")
KeyOfRow(n) == KeyOf[journal[n].intent]
OneChargePerKey ==
    /\ \A n \in Ids : Charged(n) => journal[n].phase # "none"
    /\ \A n, k \in Ids : Charged(n) /\ Charged(k) /\ KeyOfRow(n) = KeyOfRow(k) => n = k

(***************************************************************************)
(* Prepaid money is neither made nor lost by leases, sweeps and retries:   *)
(* what payments granted is available, held by a job or spent on a         *)
(* journalled read, and each payment was granted once, as first bound.     *)
(***************************************************************************)
Spent == {n \in Ids : RailOf[n] = "credits" /\ journal[n].phase = "done"}
CreditConserved ==
    /\ balance.available + balance.held + Cardinality(Spent)
         = SumFunctionOnSet(grants, Payments)
    /\ balance.held = SumFunctionOnSet([n \in Ids |-> job[n].held], Ids)
    /\ \A p \in Payments : grants[p] \in {0, bound[p]}

(***************************************************************************)
(* "Independently confirm Base receipt -> deliver": a result is handed out *)
(* only for money that moved, and every retry of an id receives the body   *)
(* that was prepared before the money moved, whatever the source says now. *)
(***************************************************************************)
DeliveredPaidBody ==
    \A d \in delivered :
        /\ d[1] \in paid \cup debited \cup Spent
        /\ journal[d[1]].phase = "done"
        /\ \A e \in delivered : e[1] = d[1] => e = d
=============================================================================
