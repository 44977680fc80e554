-------------------------- MODULE EgressCapability ---------------------------
(***************************************************************************)
(* Secretless execution (egress-vault.js): an operator stores a credential *)
(* and issues a capability; an agent that holds it has requests sent with  *)
(* the credential injected.  The object of the capability reserves calls   *)
(* and credits, the credential object releases the secret, the operator's  *)
(* credits are consumed from the ledger of CreditLedger, and the result is *)
(* stored for replays.  Each of these is a call another may overtake, that *)
(* may fail, and after which the Worker may die.                           *)
(*                                                                         *)
(* One capability on one credential, issued by an operator or set up for a *)
(* controlled demo, whose attempts cost nothing.  Scopes of hosts, paths,  *)
(* methods and operations are checked before anything is reserved and are  *)
(* left out.                                                               *)
(***************************************************************************)
EXTENDS CreditLedger

CONSTANTS
    Agents,         \* Workers executing /v1/egress/fetch
    Asks,           \* requests: a key with the digest of what is asked
    KeyOf,          \* idempotency key of a request
    MaxCalls, MaxTotal,     \* limits of the capability
    PerAttempt,     \* credits of an attempt
    NoAsk, Elsewhere

ExecutionKeys == {KeyOf[q] : q \in Asks}

ASSUME LimitsAssumption ==
    /\ MaxCalls \in Nat \ {0} /\ PerAttempt \in Nat \ {0} /\ MaxTotal \in Nat
    /\ MaxTotal >= PerAttempt
ASSUME AsksAssumption ==
    /\ NoAsk \notin Asks
    /\ Tags = ExecutionKeys \cup {Elsewhere} /\ Elsewhere \notin ExecutionKeys

VARIABLES
    demo,           \* the capability is one of a controlled demo
    capability,     \* the record of the capability object
    execution,      \* its execution: records, by key
    credential,     \* the record of the credential object: active or not
    registry,       \* the row of the capability in the operator registry
    held,           \* an agent holds the token
    agent,          \* the Workers
    meter,          \* attempts recorded by the meter
    upstream,       \* history: requests sent to the provider, by key
    answered,       \* history: responses handed out
    late            \* history: executions begun after a withdrawal

objects == <<demo, capability, execution, credential, registry, held>>
traces == <<meter, upstream, answered, late>>
egress == <<objects, agent, traces>>
vars == <<egress, ledger, shop>>

Outcomes == {"completed", "failed_before_execution", "ambiguous", "billing_ambiguous"}
\* null: no amount that an attempt can have.
Unbilled == PerAttempt + 1
Price == IF demo THEN 0 ELSE PerAttempt
NoExecution == [state |-> "none", ask |-> NoAsk, billed |-> 0]
Resting == [step |-> "idle", ask |-> NoAsk, outcome |-> "none", billed |-> 0]
Steps == {"begun", "resolved", "released", "funded", "billed", "armed", "sent", "finish"}

EgressTypeOK ==
    /\ capability \in [created : BOOLEAN, revoked : BOOLEAN, expired : BOOLEAN,
                       used : 0..MaxCalls, reserved : 0..MaxTotal]
    /\ execution \in [ExecutionKeys ->
         [state : Outcomes \cup {"none", "reserved"}, ask : Asks \cup {NoAsk},
          billed : {0, PerAttempt, Unbilled}]]
    /\ credential \in BOOLEAN /\ held \in BOOLEAN /\ demo \in BOOLEAN /\ meter \in Nat
    /\ registry \in {"none", "active", "revoked"}
    /\ agent \in [Agents -> [step : Steps \cup {"idle"}, ask : Asks \cup {NoAsk},
                             outcome : Outcomes \cup {"none"}, billed : {0, PerAttempt, Unbilled}]]
    /\ upstream \in [ExecutionKeys -> Nat]
    /\ answered \subseteq Asks \X Outcomes
    /\ late \subseteq ExecutionKeys
    /\ LedgerTypeOK

EgressInit ==
    /\ demo \in BOOLEAN /\ meter = 0
    /\ capability = [created |-> FALSE, revoked |-> FALSE, expired |-> FALSE,
                     used |-> 0, reserved |-> 0]
    /\ execution = [k \in ExecutionKeys |-> NoExecution]
    /\ credential = TRUE /\ registry = "none" /\ held = FALSE
    /\ agent = [w \in Agents |-> Resting]
    /\ upstream = [k \in ExecutionKeys |-> 0]
    /\ answered = {} /\ late = {}

-----------------------------------------------------------------------------
(* issueCapability: the object, then the registry; without a row in the    *)
(* registry the capability is revoked and its token is not handed out.     *)

Create ==
    /\ ~capability.created /\ ~capability.expired /\ credential
    /\ capability' = [capability EXCEPT !.created = TRUE]
    /\ held' = demo
    /\ UNCHANGED <<demo, execution, credential, registry, agent, traces, ledger, shop>>

Revoke == capability' = [capability EXCEPT !.revoked = TRUE]
OnlyCapability == UNCHANGED <<demo, execution, credential, registry, held, agent, traces, ledger, shop>>

\* /operator/issued; FALSE: its answer is lost.
Index ==
    /\ capability.created /\ ~demo /\ registry = "none" /\ ~held
    /\ ~capability.revoked /\ ~capability.expired
    /\ registry' = "active"
    /\ held' \in BOOLEAN
    /\ UNCHANGED <<demo, capability, execution, credential, agent, traces, ledger, shop>>

IssueFailed ==
    /\ capability.created /\ ~held /\ ~capability.revoked
    /\ Revoke /\ OnlyCapability

\* DELETE of the capability; what runs may finish.
Withdraw ==
    /\ held /\ ~demo /\ capability.created /\ ~capability.revoked
    /\ Revoke /\ OnlyCapability

\* /operator/revoked
RegisterRevoked ==
    /\ capability.revoked /\ held /\ registry = "active"
    /\ registry' = "revoked"
    /\ UNCHANGED <<demo, capability, execution, credential, held, agent, traces, ledger, shop>>

\* /operator/snapshot forgets the rows it no longer counts.
Snapshot ==
    /\ registry = "revoked" \/ (registry = "active" /\ capability.expired)
    /\ registry' = "none"
    /\ UNCHANGED <<demo, capability, execution, credential, held, agent, traces, ledger, shop>>

Expire ==
    /\ capability.created /\ ~capability.expired
    /\ capability' = [capability EXCEPT !.expired = TRUE]
    /\ OnlyCapability

\* The alarm, a day after the expiry: the records of the capability are gone.
Alarm ==
    /\ capability.created /\ capability.expired
    /\ capability' = [capability EXCEPT !.created = FALSE, !.used = 0, !.reserved = 0]
    /\ execution' = [k \in ExecutionKeys |-> NoExecution]
    /\ UNCHANGED <<demo, credential, registry, held, agent, traces, ledger, shop>>

(* deleteCredential *)
DeleteCredential ==
    /\ credential /\ ~demo
    /\ credential' = FALSE
    /\ UNCHANGED <<demo, capability, execution, registry, held, agent, traces, ledger, shop>>

-----------------------------------------------------------------------------
(* EgressCapabilityState *)

\* Mutant: an execution nobody completed is taken over.
TakenOver(q) == execution[KeyOf[q]].state \in {"none", "reserved"}

Fresh(q) == execution[KeyOf[q]].state = "none"

Usable == capability.created /\ ~capability.revoked /\ ~capability.expired
InBudget ==
    /\ capability.used < IF demo THEN 1 ELSE MaxCalls
    /\ capability.reserved + Price <= IF demo THEN 0 ELSE MaxTotal

Withdrawn == capability.revoked \/ ~credential

(* /begin *)
Begin(w, q) ==
    LET k == KeyOf[q] IN
    /\ held /\ agent[w] = Resting
    /\ Usable /\ Fresh(q) /\ InBudget
    /\ capability' = [capability EXCEPT !.used = @ + 1, !.reserved = @ + Price]
    /\ execution' = [execution EXCEPT ![k] = [state |-> "reserved", ask |-> q, billed |-> 0]]
    /\ agent' = [agent EXCEPT ![w] = [Resting EXCEPT !.step = "begun", !.ask = q]]
    /\ late' = IF Withdrawn THEN late \cup {k} ELSE late
    /\ UNCHANGED <<demo, credential, registry, held, meter, upstream, answered, ledger, shop>>

\* /begin of a committed execution: the same request receives its result.
Replay(q) ==
    LET e == execution[KeyOf[q]] IN
    /\ held /\ Usable
    /\ e.state \in Outcomes /\ e.ask = q
    /\ answered' = answered \cup {<<q, e.state>>}
    /\ UNCHANGED <<objects, agent, meter, upstream, late, ledger, shop>>

\* Mutant: credits are released when the billing is unknown.
ReleasesUnknown(billed) == billed \in {0, Unbilled}

Releases(billed) == billed = 0

(* /complete, by the Worker that holds the claim, then the response. *)
Complete(w) ==
    LET a == agent[w]  k == KeyOf[a.ask] IN
    /\ a.step = "finish" /\ execution[k].state = "reserved"
    /\ execution' = [execution EXCEPT ![k] = [@ EXCEPT !.state = a.outcome, !.billed = a.billed]]
    /\ capability' = [capability EXCEPT !.reserved = IF Releases(a.billed) THEN @ - Price ELSE @]
    /\ agent' = [agent EXCEPT ![w] = Resting]
    /\ answered' = answered \cup {<<a.ask, a.outcome>>}
    /\ UNCHANGED <<demo, credential, registry, held, meter, upstream, late, ledger, shop>>

-----------------------------------------------------------------------------
(* egressFetch *)

Goes(w, step) == agent' = [agent EXCEPT ![w].step = step]
Ends(w, outcome, billed) ==
    agent' = [agent EXCEPT ![w] = [@ EXCEPT !.step = "finish", !.outcome = outcome,
                                            !.billed = billed]]
OnlyAgents == UNCHANGED <<objects, traces, ledger, shop>>

\* publicDns
Resolve(w) ==
    /\ agent[w].step = "begun"
    /\ Goes(w, "resolved")
    /\ OnlyAgents

\* Mutant: a withdrawn credential is no obstacle.
AnyCredential == TRUE

Releasable == credential

\* /use of the credential object returns the sealed secret.
UseCredential(w) ==
    /\ agent[w].step = "resolved" /\ Releasable
    /\ Goes(w, "released")
    /\ OnlyAgents

\* billingBalance: read before the credits are consumed.
ReadBalance(w) ==
    /\ agent[w].step = "released" /\ ~demo /\ Spendable(PerAttempt)
    /\ Goes(w, "funded")
    /\ OnlyAgents

\* A demo is not billed.
Uncharged(w) ==
    /\ agent[w].step = "released" /\ demo
    /\ Goes(w, "billed")
    /\ OnlyAgents

\* Any of these steps refused or unavailable: nothing was billed.
Refused(w) ==
    /\ agent[w].step \in {"begun", "resolved", "released"}
    /\ Ends(w, "failed_before_execution", 0)
    /\ OnlyAgents

\* consumeCredits under the key of the execution.
ConsumeCredits(w) ==
    LET k == KeyOf[agent[w].ask] IN
    /\ agent[w].step = "funded"
    /\ Consume(k, PerAttempt) \/ (Replayed(k) /\ UNCHANGED ledger)
    /\ Goes(w, "billed")
    /\ UNCHANGED <<objects, traces, shop>>

\* 402: the balance went meanwhile.
Insufficient(w) ==
    /\ agent[w].step = "funded" /\ Provisioned /\ ~Restricted /\ account.balance < PerAttempt
    /\ Ends(w, "failed_before_execution", 0)
    /\ OnlyAgents

\* Mutant: a lost answer of the ledger counts as a refusal.
LostIsRefused == 0

LostBilling == Unbilled

\* Another status, or no answer although the credits may be consumed.
BillingLost(w) ==
    LET k == KeyOf[agent[w].ask] IN
    /\ agent[w].step = "funded"
    /\ Consume(k, PerAttempt) \/ UNCHANGED ledger
    /\ Ends(w, "billing_ambiguous", LostBilling)
    /\ UNCHANGED <<objects, traces, shop>>

\* decryptSecret of the credential; when it fails the attempt stays billed.
Decrypt(w) ==
    /\ agent[w].step = "billed"
    /\ Goes(w, "armed") \/ Ends(w, "failed_before_execution", Price)
    /\ OnlyAgents

Send(w) ==
    LET k == KeyOf[agent[w].ask] IN
    /\ agent[w].step = "armed"
    /\ upstream' = [upstream EXCEPT ![k] = @ + 1]
    /\ Goes(w, "sent")
    /\ UNCHANGED <<objects, meter, answered, late, ledger, shop>>

\* The provider answered, or its answer is lost, too large or shows the secret.
Receive(w) ==
    /\ agent[w].step = "sent"
    /\ \E outcome \in {"completed", "ambiguous"} : Ends(w, outcome, Price)
    /\ meter' \in {meter, IF demo THEN meter ELSE meter + 1}
    /\ UNCHANGED <<objects, upstream, answered, late, ledger, shop>>

\* finish fails (proof, encryption, commit), or the Worker dies: nothing is
\* stored, and the execution stays reserved.
Abandon(w) ==
    /\ agent[w] # Resting
    /\ agent' = [agent EXCEPT ![w] = Resting]
    /\ OnlyAgents

\* The operator's credits are spent elsewhere, or refunded; purchases are those
\* of CreditLedger and add nothing here.
SpendElsewhere == Consume(Elsewhere, 1) /\ UNCHANGED <<egress, shop>>
Refunded == \E o \in Orders : \E amount \in 1..Total[o] : RefundOrder(o, amount) /\ UNCHANGED egress

AgentNext(w) ==
    \/ \E q \in Asks : Begin(w, q)
    \/ Resolve(w) \/ UseCredential(w) \/ ReadBalance(w) \/ Uncharged(w) \/ Refused(w)
    \/ ConsumeCredits(w) \/ Insufficient(w) \/ BillingLost(w)
    \/ Decrypt(w) \/ Send(w) \/ Receive(w) \/ Complete(w) \/ Abandon(w)

Next ==
    \/ Create \/ Index \/ IssueFailed \/ Withdraw \/ RegisterRevoked
    \/ Snapshot \/ Expire \/ Alarm \/ DeleteCredential
    \/ \E q \in Asks : Replay(q)
    \/ \E w \in Agents : AgentNext(w)
    \/ SpendElsewhere \/ Refunded

\* The operator has bought every order.
Bought ==
    /\ LET all == SumFunctionOnSet(CreditsOf, Orders) IN
       account = [granted |-> all, balance |-> all, consumed |-> 0, refunded |-> 0, debt |-> 0]
    /\ order = [o \in Orders |-> [Absent EXCEPT !.recorded = TRUE]]
    /\ events = {"created"} \X Orders
    /\ replay = [t \in Tags |-> 0]
    /\ via \in [Orders -> Checkouts]
    /\ claim \in [Checkouts -> Orders] /\ \A o \in Orders : claim[via[o]] = o
    /\ bound = Orders /\ hooks = {}

Init == EgressInit /\ Bought
Spec == Init /\ [][Next]_vars

-----------------------------------------------------------------------------
(***************************************************************************)
(* "Execute a delegated API action once per capability and idempotency     *)
(* key": one request goes to the provider per key, however the agent       *)
(* repeats it and whatever dies, and a stored result says truly whether it *)
(* was sent; and who asks again receives the result of the very request    *)
(* that was executed.                                                      *)
(***************************************************************************)
ExecutedOnce ==
    \A k \in ExecutionKeys :
        /\ upstream[k] <= 1
        /\ execution[k].state \in {"completed", "ambiguous"} => upstream[k] = 1
        /\ execution[k].state \in {"failed_before_execution", "billing_ambiguous"} => upstream[k] = 0
        /\ Cardinality({a \in answered : KeyOf[a[1]] = k}) <= 1

(***************************************************************************)
(* "Usage Credits are consumed before credential release and before        *)
(* outbound network egress", and once: what was sent was paid for, and an  *)
(* execution reported as unbilled took nothing from the operator.          *)
(***************************************************************************)
BilledTruthfully ==
    \A k \in ExecutionKeys :
        /\ upstream[k] > 0 => replay[k] = Price
        /\ execution[k].billed = PerAttempt => replay[k] = PerAttempt
        /\ execution[k].state \in Outcomes /\ execution[k].billed = 0 => replay[k] = 0

(***************************************************************************)
(* The budget of a capability is never overrun, also not by executions     *)
(* whose outcome is unknown: as long as its records are kept, every key    *)
(* that consumed credits is still counted in reserved_credits, which is    *)
(* the sum over the executions that were not released, and used_calls      *)
(* counts every execution begun.                                           *)
(***************************************************************************)
Counted(k) ==
    /\ execution[k].state # "none"
    /\ ~(execution[k].state \in Outcomes /\ execution[k].billed = 0)

BudgetHolds ==
    capability.created =>
        /\ capability.reserved = Price * Cardinality({k \in ExecutionKeys : Counted(k)})
        /\ capability.used = Cardinality({k \in ExecutionKeys : execution[k].state # "none"})
        /\ capability.reserved <= MaxTotal /\ capability.used <= MaxCalls
        /\ SumFunctionOnSet(replay, ExecutionKeys) <= capability.reserved

(***************************************************************************)
(* An execution begun after the credential was deleted or the capability   *)
(* revoked never reaches the provider; while an operator's capability can  *)
(* execute, the registry counts it as active; and the meter counts no      *)
(* attempt that was not sent and paid for.                                 *)
(***************************************************************************)
WithdrawalHolds ==
    /\ \A k \in late : upstream[k] = 0
    /\ held /\ ~demo /\ Usable => registry = "active"
    /\ meter * PerAttempt <= SumFunctionOnSet(replay, ExecutionKeys)
=============================================================================
