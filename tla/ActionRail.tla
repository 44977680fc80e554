----------------------------- MODULE ActionRail ------------------------------
(***************************************************************************)
(* Single-use permits for side effects: the Action Rail (action-rail.js),  *)
(* which bills usage credits, and the Settlement Rail (rail.js), which     *)
(* meters a fee.  A permit is issued under a mandate (AgentAuthority) and  *)
(* kept in an object of its own; a Worker that executes it calls the       *)
(* permit object, the target, the billing service (CreditLedger) and the   *)
(* permit object again, and may die between any two of these calls.        *)
(*                                                                         *)
(* The execution_id is implied by the status: only one /begin of a permit  *)
(* ever succeeds.  Requests that do not match their permit change nothing. *)
(***************************************************************************)
EXTENDS CreditLedger, AgentAuthority, FiniteSets, Sequences

CONSTANTS
    Permits,
    RailPermits,    \* permits of the Settlement Rail; the others are actions
    Workers,        \* executions, each of one permit
    Units,          \* credits of a successful action
    Elsewhere,      \* idempotency key of a /consume by another service
    NoPermit

ASSUME PermitAssumption ==
    /\ RailPermits \subseteq Permits
    /\ Callers = Permits
    /\ Tags = Permits \cup {Elsewhere}
    /\ Elsewhere \notin Permits /\ NoPermit \notin Permits
ASSUME UnitsAssumption == Units \in Nat \ {0}

VARIABLES
    stage,      \* permit: how far the request that creates it has come
    permit,     \* permit object: its "record"
    late,       \* permits past their "expires_at"
    work,       \* worker: its step, permit, the record it read or wrote last,
                \* whether it billed
    meter,      \* meter objects: executions of each kind
    answer      \* history: what the target answered, for each request sent to it

rail == <<stage, permit, late, work, meter, answer>>
vars == <<account, order, events, replay, via, claim, bound, hooks, mandate, slow, seen,
          stage, permit, late, work, meter, answer>>

Answers == {"ok", "rejected", "failed", "lost"}
Records == [status : {"none", "issued", "executing", "executed", "failed",
                      "ambiguous", "expired"},
            receipt : BOOLEAN, billed : BOOLEAN]
NoRecord == [status |-> "none", receipt |-> FALSE, billed |-> FALSE]
Idle == [pc |-> "idle", on |-> NoPermit, read |-> NoRecord, billed |-> FALSE]
Done == [Idle EXCEPT !.pc = "done"]

RailTypeOK ==
    /\ LedgerTypeOK /\ AuthorityTypeOK
    /\ stage \in [Permits -> {"idle", "asked", "authorized", "issued", "refused"}]
    /\ permit \in [Permits -> Records]
    /\ late \subseteq Permits
    /\ work \in [Workers -> [pc : {"idle", "verify", "call", "charge", "finish", "doubt",
                                   "meter", "done"},
                             on : Permits \cup {NoPermit}, read : Records, billed : BOOLEAN]]
    /\ meter \in [{"executed", "failed", "ambiguous", "billed"} -> Nat]
    /\ answer \in [Permits -> Seq(Answers)]

Init ==
    /\ LedgerInit /\ AuthorityInit
    /\ stage = [p \in Permits |-> "idle"]
    /\ permit = [p \in Permits |-> NoRecord]
    /\ late = {}
    /\ work = [w \in Workers |-> Idle]
    /\ meter = [k \in {"executed", "failed", "ambiguous", "billed"} |-> 0]
    /\ answer = [p \in Permits |-> <<>>]

-----------------------------------------------------------------------------
(* createPermit: balance, mandate, signature, /create. *)
\* billingBalance looks at the credits and not at "restricted".
Affordable(p) == p \notin RailPermits => Provisioned /\ account.balance >= Units

Ask(p) ==
    /\ stage[p] = "idle"
    /\ Affordable(p)
    /\ stage' = [stage EXCEPT ![p] = "asked"]
    /\ UNCHANGED <<ledger, shop, mandate, slow, seen, permit, late, work, meter, answer>>

AskMandate(p) ==
    /\ stage[p] = "asked"
    /\ \/ Authorize(p) /\ stage' = [stage EXCEPT ![p] = "authorized"]
       \/ Deny(p) /\ stage' = [stage EXCEPT ![p] = "refused"]
    /\ UNCHANGED <<ledger, shop, permit, late, work, meter, answer>>

Store(p) ==
    /\ stage[p] = "authorized"
    /\ stage' = [stage EXCEPT ![p] = "issued"]
    /\ permit' = [permit EXCEPT ![p].status = "issued"]
    /\ UNCHANGED <<ledger, shop, mandate, slow, seen, late, work, meter, answer>>

\* Signing or /create fails after the mandate was charged.
Abandon(p) ==
    /\ stage[p] = "authorized"
    /\ stage' = [stage EXCEPT ![p] = "refused"]
    /\ UNCHANGED <<ledger, shop, mandate, slow, seen, permit, late, work, meter, answer>>

-----------------------------------------------------------------------------
(* execute, up to the answer of /begin. *)
Step(w, pc) == work' = [work EXCEPT ![w].pc = pc]
Stop(w) == work' = [work EXCEPT ![w] = Done]

\* /begin reads the record and then asks another object for the signature.
BeginRead(w, p) ==
    /\ work[w] = Idle
    /\ stage[p] = "issued"
    /\ Affordable(p)
    /\ work' = [work EXCEPT ![w] = [pc |-> "verify", on |-> p, read |-> permit[p],
                                    billed |-> FALSE]]
    /\ UNCHANGED <<ledger, shop, mandate, slow, seen, stage, permit, late, meter, answer>>

\* Mutant: an ambiguous permit may be tried again.
ExecutableAgain(p) == permit[p].status \in {"issued", "ambiguous"}

Executable(p) == permit[p].status = "issued"

Begin(w) ==
    LET p == work[w].on IN
    /\ work[w].pc = "verify"
    /\ \/ /\ p \in late
          /\ permit' = [permit EXCEPT ![p] = [work[w].read EXCEPT !.status = "expired"]]
          /\ Stop(w)
       \/ /\ p \notin late
          /\ Executable(p)
          /\ permit' = [permit EXCEPT ![p].status = "executing"]
          /\ Step(w, "call")
       \/ /\ p \notin late
          /\ ~Executable(p)
          /\ Stop(w)
          /\ UNCHANGED permit
    /\ UNCHANGED <<ledger, shop, mandate, slow, seen, stage, late, meter, answer>>

(* execute, from the request to the target on. *)
RailAnswer(a) == IF a = "lost" THEN "doubt" ELSE "finish"

\* Mutant: every answer of the target is charged.
ChargedAnswer(a) == IF a = "lost" THEN "doubt" ELSE "charge"

ActionAnswer(a) ==
    CASE a = "ok" -> "charge" [] a = "rejected" -> "finish" [] OTHER -> "doubt"

CallTarget(w) ==
    /\ work[w].pc = "call"
    /\ \E a \in Answers :
        /\ answer' = [answer EXCEPT ![work[w].on] = Append(@, a)]
        /\ work' = IF work[w].on \in RailPermits
                   THEN [work EXCEPT ![w] = [@ EXCEPT !.pc = RailAnswer(a), !.billed = a = "ok"]]
                   ELSE [work EXCEPT ![w].pc = ActionAnswer(a)]
    /\ UNCHANGED <<ledger, shop, mandate, slow, seen, stage, permit, late, meter>>

\* consumeOnly: the caller acts itself; the permit is finished at once.
ConsumeOnly(w) ==
    /\ work[w].pc = "call"
    /\ work[w].on \in RailPermits
    /\ answer' = [answer EXCEPT ![work[w].on] = Append(@, "ok")]
    /\ work' = [work EXCEPT ![w] = [@ EXCEPT !.pc = "finish", !.billed = TRUE]]
    /\ UNCHANGED <<ledger, shop, mandate, slow, seen, stage, permit, late, meter>>

\* consumeCredits: refused, unreachable, or answered; an answer may be lost.
Charge(w) ==
    /\ work[w].pc = "charge"
    /\ \/ /\ Consume(work[w].on, Units)
          /\ \E heard \in BOOLEAN :
                work' = [work EXCEPT ![w] = [@ EXCEPT !.pc = "finish", !.billed = heard]]
       \/ UNCHANGED ledger /\ Step(w, "finish")
    /\ UNCHANGED <<shop, mandate, slow, seen, stage, permit, late, meter, answer>>

Outcome(p) ==
    IF p \in RailPermits \/ answer[p][Len(answer[p])] = "ok" THEN "executed" ELSE "failed"

Finish(w) ==
    LET p == work[w].on
        finished == [status |-> Outcome(p), receipt |-> TRUE, billed |-> work[w].billed]
    IN
    /\ work[w].pc = "finish"
    /\ \/ /\ permit[p].status = "executing"
          /\ permit' = [permit EXCEPT ![p] = finished]
          /\ work' = [work EXCEPT ![w] = [@ EXCEPT !.pc = "meter", !.read = finished]]
       \/ /\ permit[p].status # "executing"
          /\ Stop(w)
          /\ UNCHANGED permit
    /\ UNCHANGED <<ledger, shop, mandate, slow, seen, stage, late, meter, answer>>

\* The Settlement Rail calls /finish where an exception means doubt.
FinishThrows(w) ==
    /\ work[w].pc = "finish"
    /\ work[w].on \in RailPermits
    /\ Step(w, "doubt")
    /\ UNCHANGED <<ledger, shop, mandate, slow, seen, stage, permit, late, meter, answer>>

MarkAmbiguous(w) ==
    LET p == work[w].on
        doubtful == [permit[p] EXCEPT !.status = "ambiguous"]
    IN
    /\ work[w].pc = "doubt"
    /\ \/ /\ permit[p].status = "executing"
          /\ permit' = [permit EXCEPT ![p] = doubtful]
          /\ work' = [work EXCEPT ![w] = [@ EXCEPT !.pc = "meter", !.read = doubtful]]
       \/ /\ permit[p].status # "executing"
          /\ Stop(w)
          /\ UNCHANGED permit
    /\ UNCHANGED <<ledger, shop, mandate, slow, seen, stage, late, meter, answer>>

\* What a final status adds to the meter: the rail's counts chargeable and
\* ambiguous executions only.
Counts(p, record) ==
    [k \in DOMAIN meter |->
        IF \/ k = "billed" /\ record.billed
           \/ k = record.status /\ (p \in RailPermits => k = "ambiguous")
        THEN 1 ELSE 0]

RecordMeter(w) ==
    LET added == Counts(work[w].on, work[w].read) IN
    /\ work[w].pc = "meter"
    /\ \/ meter' = [k \in DOMAIN meter |-> meter[k] + added[k]]
       \/ UNCHANGED meter
    /\ Stop(w)
    /\ UNCHANGED <<ledger, shop, mandate, slow, seen, stage, permit, late, answer>>

Die(w) ==
    /\ work[w].pc \notin {"idle", "done"}
    /\ Stop(w)
    /\ UNCHANGED <<ledger, shop, mandate, slow, seen, stage, permit, late, meter, answer>>

-----------------------------------------------------------------------------
PassExpiry(p) ==
    /\ stage[p] = "issued"
    /\ late' = late \cup {p}
    /\ UNCHANGED <<ledger, shop, mandate, slow, seen, stage, permit, work, meter, answer>>

\* /status notices an expiry without waiting for anything.
CheckStatus(p) ==
    /\ p \in late
    /\ permit[p].status = "issued"
    /\ permit' = [permit EXCEPT ![p].status = "expired"]
    /\ UNCHANGED <<ledger, shop, mandate, slow, seen, stage, late, work, meter, answer>>

MandateCall ==
    /\ \/ \E p \in Permits : stage[p] = "asked" /\ ReadRecord(p)
       \/ ReadRecord(Owner)
       \/ Revoke
    /\ UNCHANGED <<ledger, shop, rail>>

Billing ==
    /\ \/ ShopNext
       \/ Consume(Elsewhere, 1) /\ UNCHANGED shop
    /\ UNCHANGED <<mandate, slow, seen, rail>>

Next ==
    \/ \E p \in Permits : \/ Ask(p) \/ AskMandate(p) \/ Store(p) \/ Abandon(p)
                          \/ PassExpiry(p) \/ CheckStatus(p)
    \/ \E w \in Workers : \/ \E p \in Permits : BeginRead(w, p)
                          \/ Begin(w) \/ CallTarget(w) \/ ConsumeOnly(w) \/ Charge(w)
                          \/ Finish(w) \/ FinishThrows(w) \/ MarkAmbiguous(w)
                          \/ RecordMeter(w) \/ Die(w)
    \/ MandateCall
    \/ Billing

Spec == Init /\ [][Next]_vars

-----------------------------------------------------------------------------
(***************************************************************************)
(* A permit causes at most one request to its target, however often, by    *)
(* however many Workers and however late it is presented, and also when a  *)
(* stale record was written over it.                                       *)
(***************************************************************************)
OneSideEffect == \A p \in Permits : Len(answer[p]) <= 1

(***************************************************************************)
(* The ledger, the permit and the meters never say more than happened:     *)
(* credits are consumed only for a target that answered 2xx or 3xx; a      *)
(* permit says executed, failed or billed only if the target and the       *)
(* ledger did; an ambiguous action cost nothing; a permit still open was   *)
(* never sent; and the meters do not run ahead of the permits.             *)
(***************************************************************************)
Answered(a) == {p \in Permits : answer[p] = <<a>>}

OutcomesTruthful ==
    /\ \A p \in Permits :
        /\ permit[p].status \in {"none", "issued"} => answer[p] = <<>>
        /\ p \notin RailPermits =>
            /\ replay[p] > 0 => answer[p] = <<"ok">>
            /\ permit[p].billed => replay[p] = Units
            /\ permit[p].status = "executed" => answer[p] = <<"ok">>
            /\ permit[p].status = "failed" => answer[p] = <<"rejected">>
            /\ permit[p].status = "ambiguous" =>
                answer[p] \in {<<"failed">>, <<"lost">>} /\ replay[p] = 0
        /\ p \in RailPermits /\ permit[p].billed => answer[p] = <<"ok">>
    /\ meter["executed"] <= Cardinality(Answered("ok"))
    /\ meter["failed"] <= Cardinality(Answered("rejected"))
    /\ meter["billed"] <= Cardinality({p \in Permits : p \notin RailPermits => replay[p] > 0})
    /\ meter["billed"] <= Cardinality(Answered("ok"))

(***************************************************************************)
(* The mandate covers every permit issued under it: it counted each of     *)
(* them and stayed within its uses and its daily limit.  A request whose   *)
(* body arrives after the record was read may undo what was counted in     *)
(* between, a revocation included, but each such request costs the owner   *)
(* at most one mandate more.                                               *)
(***************************************************************************)
Issued == {p \in Permits : stage[p] \in {"authorized", "issued"}}
Overdue == {p \in Permits \cap slow : stage[p] \notin {"idle", "asked"}}

MandateCovers ==
    /\ mandate.uses <= MaxUses /\ mandate.spent <= DailyLimit
    /\ Cardinality(Issued) <= MaxUses * (1 + Cardinality(Overdue))
    /\ SumFunctionOnSet(AmountOf, Issued) <= DailyLimit * (1 + Cardinality(Overdue))
    /\ slow = {} =>
        /\ Cardinality(Issued) <= mandate.uses
        /\ SumFunctionOnSet(AmountOf, Issued) <= mandate.spent

(***************************************************************************)
(* What the discovery document promises, a "durable execution receipt":    *)
(* a receipt once stored is never taken out of the permit's record.  The   *)
(* code does not meet it when a second /begin outlasts the expiry.         *)
(***************************************************************************)
ReceiptDurable ==
    [][\A p \in Permits : permit[p].receipt => permit'[p].receipt]_vars
=============================================================================
