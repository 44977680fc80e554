----------------------------- MODULE EgressProofs -----------------------------
(***************************************************************************)
(* That a capability executes a key once and bills it truthfully, for any  *)
(* number of agents, requests and keys and any limits.                     *)
(*                                                                         *)
(* The argument follows a key: while the object keeps its records, the one *)
(* Worker that began a key is the only one to carry it on, and its step    *)
(* tells what was consumed and sent.  Once the alarm has erased the records*)
(* nothing is begun any more, because a capability expires for good.       *)
(***************************************************************************)
EXTENDS EgressCapability, KeyAuthority, UsageMetering, SumLemmas

Gone == capability.expired /\ ~capability.created

Executions == [state : Outcomes \cup {"none", "reserved"}, ask : Asks \cup {NoAsk},
               billed : {0, PerAttempt, Unbilled}]
Records == [step : Steps \cup {"idle"}, ask : Asks \cup {NoAsk},
            outcome : Outcomes \cup {"none"}, billed : {0, PerAttempt, Unbilled}]

Typed ==
    /\ demo \in BOOLEAN
    /\ capability \in [created : BOOLEAN, revoked : BOOLEAN, expired : BOOLEAN,
                       used : Int, reserved : Int]
    /\ execution \in [ExecutionKeys -> Executions]
    /\ agent \in [Agents -> Records]
    /\ upstream \in [ExecutionKeys -> Nat] /\ replay \in [Tags -> Nat]
    /\ answered \subseteq Asks \X Outcomes

\* What an outcome says of the requests sent and the credits consumed.
Truthful(outcome, billed, sent, consumed) ==
    /\ outcome \in {"completed", "ambiguous"} => sent = 1 /\ consumed = Price /\ billed = Price
    /\ outcome = "failed_before_execution" => sent = 0 /\ billed = consumed
    /\ outcome = "billing_ambiguous" => sent = 0 /\ billed = Unbilled

\* What the step of a Worker says of its key.
FitsAt(a, sent, consumed) ==
    /\ a.step \in {"begun", "resolved", "released", "funded"} => sent = 0 /\ consumed = 0
    /\ a.step = "funded" => ~demo
    /\ a.step \in {"billed", "armed"} => sent = 0 /\ consumed = Price
    /\ a.step = "sent" => sent = 1 /\ consumed = Price
    /\ a.step = "finish" =>
         a.outcome \in Outcomes /\ Truthful(a.outcome, a.billed, sent, consumed)
Fits(a) == FitsAt(a, upstream[KeyOf[a.ask]], replay[KeyOf[a.ask]])

Busy(w) == agent[w].step # "idle"
Claims(a) ==
    /\ a.ask \in Asks
    /\ ~Gone => /\ execution[KeyOf[a.ask]].state = "reserved"
                /\ execution[KeyOf[a.ask]].ask = a.ask
WorkersFit == \A w \in Agents : Busy(w) => Claims(agent[w]) /\ Fits(agent[w])
OneWorker ==
    \A w, v \in Agents :
        Busy(w) /\ Busy(v) /\ KeyOf[agent[w].ask] = KeyOf[agent[v].ask] => w = v

KeyFits(k) ==
    /\ upstream[k] <= 1 /\ (upstream[k] > 0 => replay[k] = Price)
    /\ execution[k].state = "none" /\ ~Gone => upstream[k] = 0 /\ replay[k] = 0
    /\ execution[k].state \notin Outcomes => execution[k].billed = 0
    /\ execution[k].state \in Outcomes =>
         Truthful(execution[k].state, execution[k].billed, upstream[k], replay[k])
    /\ Gone => execution[k] = NoExecution
KeysFit == \A k \in ExecutionKeys : KeyFits(k)

\* An answer is the stored result as long as one is stored.
AnswersFit ==
    /\ ~Gone => \A a \in answered :
         execution[KeyOf[a[1]]].ask = a[1] /\ execution[KeyOf[a[1]]].state = a[2]
    /\ \A a, b \in answered : KeyOf[a[1]] = KeyOf[b[1]] => a = b

EgressInv == Typed /\ WorkersFit /\ OneWorker /\ KeysFit /\ AnswersFit

USE LimitsAssumption, AsksAssumption

-----------------------------------------------------------------------------
LEMMA Facts ==
    /\ \A q \in Asks : KeyOf[q] \in ExecutionKeys
    /\ \A k \in ExecutionKeys : k \in Tags /\ k # Elsewhere
    /\ Price \in {0, PerAttempt} /\ Unbilled \notin {0, PerAttempt} /\ PerAttempt # 0
    /\ Price \in Int /\ Unbilled \in Nat
  BY DEF ExecutionKeys, Price, Unbilled

LEMMA InitEstablishes == Init => EgressInv
<1> SUFFICES ASSUME Init PROVE EgressInv
  OBVIOUS
<1>1. Typed
  BY DEF Init, EgressInit, Bought, Typed, NoExecution, Resting, Executions, Records
<1>2. \A k \in ExecutionKeys : upstream[k] = 0 /\ replay[k] = 0 /\ execution[k] = NoExecution
  BY Facts DEF Init, EgressInit, Bought
<1>3. KeysFit
  BY <1>2 DEF KeysFit, KeyFits, NoExecution, Outcomes
<1>4. WorkersFit /\ OneWorker /\ AnswersFit
  BY DEF Init, EgressInit, Resting, WorkersFit, OneWorker, Busy, AnswersFit
<1> QED BY <1>1, <1>3, <1>4 DEF EgressInv

\* Nothing of what the invariant speaks of changes, except for the flags of
\* the capability that leave its records in place.
Undisturbed == UNCHANGED <<demo, execution, agent, upstream, answered>>
SameReplay == \A k \in ExecutionKeys : replay'[k] = replay[k]

LEMMA OutsideKeeps ==
    ASSUME EgressInv, Undisturbed, SameReplay, replay' \in [Tags -> Nat], Gone' <=> Gone,
           capability' \in [created : BOOLEAN, revoked : BOOLEAN, expired : BOOLEAN,
                            used : Int, reserved : Int]
    PROVE  EgressInv'
<1>1. Typed' /\ Price' = Price
  BY DEF EgressInv, Typed, Undisturbed, Price
<1>2. \A a : a.ask \in Asks => (Fits(a)' <=> Fits(a)) /\ (Claims(a)' <=> Claims(a))
  BY <1>1, Facts DEF Undisturbed, SameReplay, Fits, FitsAt, Claims, Truthful
<1>3. WorkersFit' /\ OneWorker'
  BY <1>2 DEF EgressInv, WorkersFit, OneWorker, Busy, Claims, Undisturbed
<1>4. KeysFit'
  BY <1>1 DEF EgressInv, KeysFit, KeyFits, Truthful, Undisturbed, SameReplay
<1>5. AnswersFit'
  BY DEF EgressInv, AnswersFit, Undisturbed
<1> QED BY <1>1, <1>3, <1>4, <1>5 DEF EgressInv

\* A Worker moves on with its request, or rests.
LEMMA AgentMoves ==
    ASSUME EgressInv, NEW w \in Agents, NEW a \in Records, Busy(w),
           agent' = [agent EXCEPT ![w] = a], a.step # "idle" => a.ask = agent[w].ask /\ Fits(a),
           UNCHANGED <<demo, capability, execution, upstream, answered, replay>>
    PROVE  EgressInv'
<1>1. /\ agent' \in [Agents -> Records] /\ agent'[w] = a
      /\ \A v \in Agents : v # w => agent'[v] = agent[v]
  BY DEF EgressInv, Typed
<1>2. Typed' /\ Price' = Price
  BY <1>1 DEF EgressInv, Typed, Price
<1>3. \A b : (Fits(b)' <=> Fits(b)) /\ (Claims(b)' <=> Claims(b))
  BY <1>2 DEF Fits, FitsAt, Claims, Truthful, Gone
<1>4. a.step # "idle" => Claims(a)
  BY DEF EgressInv, WorkersFit, Claims
<1>5. WorkersFit'
  BY <1>1, <1>3, <1>4 DEF EgressInv, WorkersFit, Busy
<1>6. OneWorker'
  BY <1>1 DEF EgressInv, OneWorker, Busy
<1>7. KeysFit' /\ AnswersFit'
  BY <1>2 DEF EgressInv, KeysFit, KeyFits, Truthful, AnswersFit, Gone
<1> QED BY <1>2, <1>5, <1>6, <1>7 DEF EgressInv

-----------------------------------------------------------------------------
\* The operator, the registry, the credits and time.

LEMMA OperatorKeeps ==
    ASSUME EgressInv,
           Create \/ Index \/ IssueFailed \/ Withdraw \/ RegisterRevoked \/ Snapshot \/ Expire
           \/ DeleteCredential
    PROVE  EgressInv'
<1>1. Undisturbed /\ UNCHANGED replay
  BY DEF Create, Index, IssueFailed, Withdraw, RegisterRevoked, Snapshot, Expire,
     DeleteCredential, Revoke, OnlyCapability, Undisturbed, traces, ledger
<1>2. capability' \in [created : BOOLEAN, revoked : BOOLEAN, expired : BOOLEAN,
                       used : Int, reserved : Int]
  BY DEF Create, Index, IssueFailed, Withdraw, RegisterRevoked, Snapshot, Expire,
     DeleteCredential, Revoke, EgressInv, Typed
<1>3. Gone' <=> Gone
  BY DEF Create, Index, IssueFailed, Withdraw, RegisterRevoked, Snapshot, Expire,
     DeleteCredential, Revoke, EgressInv, Typed, Gone
<1>4. SameReplay /\ replay' \in [Tags -> Nat]
  BY <1>1 DEF SameReplay, EgressInv, Typed
<1> QED BY <1>1, <1>2, <1>3, <1>4, OutsideKeeps

\* Credits spent or refunded elsewhere leave the keys of executions alone.
LEMMA LedgerKeeps ==
    ASSUME EgressInv, UNCHANGED egress,
           Consume(Elsewhere, 1) \/ UNCHANGED replay
    PROVE  EgressInv'
<1>1. SameReplay /\ replay' \in [Tags -> Nat]
  BY Facts DEF Consume, SameReplay, EgressInv, Typed
<1>2. Undisturbed /\ UNCHANGED capability
  BY DEF egress, objects, traces, Undisturbed
<1>3. (Gone' <=> Gone) /\ capability' \in [created : BOOLEAN, revoked : BOOLEAN,
                                          expired : BOOLEAN, used : Int, reserved : Int]
  BY <1>2 DEF Gone, EgressInv, Typed
<1> QED BY <1>1, <1>2, <1>3, OutsideKeeps

LEMMA AlarmKeeps == ASSUME EgressInv, Alarm PROVE EgressInv'
<1>1. /\ Gone' /\ ~Gone /\ UNCHANGED <<demo, agent, upstream, answered, replay>>
      /\ execution' = [k \in ExecutionKeys |-> NoExecution]
      /\ capability' \in [created : BOOLEAN, revoked : BOOLEAN, expired : BOOLEAN,
                           used : Int, reserved : Int]
  <2>1. capability' = [created |-> FALSE, revoked |-> capability.revoked,
                       expired |-> capability.expired, used |-> 0, reserved |-> 0]
    BY DEF Alarm, EgressInv, Typed
  <2>2. /\ capability'.created = FALSE /\ capability'.expired = capability.expired
        /\ capability' \in [created : BOOLEAN, revoked : BOOLEAN, expired : BOOLEAN,
                             used : Int, reserved : Int]
    BY <2>1 DEF EgressInv, Typed
  <2> QED BY <2>2 DEF Alarm, Gone, traces, ledger
<1>2. Typed' /\ Price' = Price
  BY <1>1 DEF EgressInv, Typed, NoExecution, Executions, Price
<1>3. WorkersFit' /\ OneWorker'
  BY <1>1, <1>2 DEF EgressInv, WorkersFit, OneWorker, Busy, Claims, Fits, FitsAt, Truthful
<1>4. KeysFit'
  BY <1>1, <1>2 DEF EgressInv, KeysFit, KeyFits, NoExecution, Outcomes
<1>5. AnswersFit'
  BY <1>1 DEF EgressInv, AnswersFit
<1> QED BY <1>2, <1>3, <1>4, <1>5 DEF EgressInv

-----------------------------------------------------------------------------
\* The object of the capability.

\* Who begins a key finds it untouched, and nobody else at it.
LEMMA BeginKeeps == ASSUME EgressInv, NEW w \in Agents, NEW q \in Asks, Begin(w, q) PROVE EgressInv'
<1> DEFINE k == KeyOf[q]
           a == [Resting EXCEPT !.step = "begun", !.ask = q]
<1>1. /\ k \in ExecutionKeys /\ execution[k].state = "none" /\ ~Gone /\ ~Gone'
      /\ agent' = [agent EXCEPT ![w] = a] /\ UNCHANGED <<demo, upstream, answered, replay>>
      /\ execution' = [execution EXCEPT ![k] = [state |-> "reserved", ask |-> q, billed |-> 0]]
      /\ capability' = [capability EXCEPT !.used = @ + 1, !.reserved = @ + Price]
  <2>1. k \in ExecutionKeys /\ execution[k].state = "none" /\ ~Gone
    BY Facts DEF Begin, Usable, Fresh, Gone
  <2>2. capability' = [capability EXCEPT !.used = @ + 1, !.reserved = @ + Price]
    BY DEF Begin
  <2>3. ~Gone'
    BY <2>1, <2>2 DEF Gone, EgressInv, Typed
  <2>4. UNCHANGED <<demo, upstream, answered, replay>>
    BY DEF Begin, ledger
  <2>5. /\ agent' = [agent EXCEPT ![w] = a]
        /\ execution' = [execution EXCEPT ![k] = [state |-> "reserved", ask |-> q, billed |-> 0]]
    BY DEF Begin
  <2> QED BY <2>1, <2>2, <2>3, <2>4, <2>5
<1>2. a \in Records /\ a.step = "begun" /\ a.ask = q
  BY DEF Resting, Records, Steps
<1> HIDE DEF a
<1>3. /\ agent' \in [Agents -> Records] /\ agent'[w] = a
      /\ \A v \in Agents : v # w => agent'[v] = agent[v]
  BY <1>1, <1>2 DEF EgressInv, Typed
<1>4. /\ execution' \in [ExecutionKeys -> Executions]
      /\ execution'[k] = [state |-> "reserved", ask |-> q, billed |-> 0]
      /\ \A j \in ExecutionKeys : j # k => execution'[j] = execution[j]
  BY <1>1 DEF EgressInv, Typed, Executions
<1>5. Typed' /\ Price' = Price
  <2>1. capability' \in [created : BOOLEAN, revoked : BOOLEAN, expired : BOOLEAN,
                         used : Int, reserved : Int]
    <3>1. capability' = [created |-> capability.created, revoked |-> capability.revoked,
                         expired |-> capability.expired, used |-> capability.used + 1,
                         reserved |-> capability.reserved + Price]
      BY <1>1 DEF EgressInv, Typed
    <3> QED BY <3>1, Facts DEF EgressInv, Typed
  <2> QED BY <1>1, <1>3, <1>4, <2>1 DEF EgressInv, Typed, Price
<1>6. upstream[k] = 0 /\ replay[k] = 0
  BY <1>1 DEF EgressInv, KeysFit, KeyFits
<1>7. \A v \in Agents : Busy(v) => KeyOf[agent[v].ask] # k /\ agent[v].ask \in Asks
  BY <1>1 DEF EgressInv, WorkersFit, Claims
<1>8. WorkersFit'
  <2> SUFFICES ASSUME NEW v \in Agents, Busy(v)' PROVE (Claims(agent[v]) /\ Fits(agent[v]))'
    BY DEF WorkersFit
  <2>1. CASE v = w
    BY <1>1, <1>2, <1>3, <1>4, <1>6, <2>1 DEF Claims, Fits, FitsAt
  <2>2. CASE v # w
    <3>1. /\ agent'[v] = agent[v] /\ Claims(agent[v]) /\ Fits(agent[v])
          /\ KeyOf[agent[v].ask] # k /\ KeyOf[agent[v].ask] \in ExecutionKeys
      BY <1>3, <1>7, <2>2, Facts DEF EgressInv, WorkersFit, Busy
    <3>2. Claims(agent[v])'
      BY <1>1, <1>4, <3>1 DEF Claims
    <3>3. Fits(agent[v])'
      BY <1>1, <1>5, <3>1 DEF Fits, FitsAt, Truthful
    <3> QED BY <3>2, <3>3
  <2> QED BY <2>1, <2>2
<1>9. OneWorker'
  BY <1>2, <1>3, <1>7 DEF EgressInv, OneWorker, Busy
<1>10. KeysFit'
  <2> SUFFICES ASSUME NEW j \in ExecutionKeys PROVE KeyFits(j)'
    BY DEF KeysFit
  <2>1. CASE j = k
    <3>1. execution'[j].state = "reserved" /\ execution'[j].billed = 0
      BY <1>4, <2>1
    <3>2. upstream'[j] = 0 /\ "reserved" \notin Outcomes /\ ~Gone'
      BY <1>1, <1>6, <2>1 DEF Outcomes
    <3> QED BY <3>1, <3>2 DEF KeyFits
  <2>2. CASE j # k
    BY <1>1, <1>4, <1>5, <2>2 DEF EgressInv, KeysFit, KeyFits, Truthful
  <2> QED BY <2>1, <2>2
<1>11. AnswersFit'
  <2>1. \A b \in answered : KeyOf[b[1]] # k /\ KeyOf[b[1]] \in ExecutionKeys
    BY <1>1, Facts DEF EgressInv, Typed, AnswersFit, Outcomes
  <2> QED BY <1>1, <1>4, <2>1 DEF EgressInv, AnswersFit
<1> QED BY <1>5, <1>8, <1>9, <1>10, <1>11 DEF EgressInv

LEMMA ReplayKeeps == ASSUME EgressInv, NEW q \in Asks, Replay(q) PROVE EgressInv'
<1> DEFINE e == execution[KeyOf[q]]
<1>1. /\ ~Gone /\ e.state \in Outcomes /\ e.ask = q
      /\ answered' = answered \cup {<<q, e.state>>}
      /\ UNCHANGED <<demo, capability, execution, agent, upstream, replay>>
  BY DEF Replay, Usable, Gone, objects, ledger
<1>2. Typed' /\ Price' = Price
  BY <1>1 DEF EgressInv, Typed, Price
<1>3. WorkersFit' /\ OneWorker' /\ KeysFit'
  BY <1>1, <1>2 DEF EgressInv, WorkersFit, OneWorker, Busy, Claims, Fits, FitsAt, Truthful, KeysFit,
     KeyFits, Gone
<1>4. AnswersFit'
  <2>1. \A a \in answered' :
          a \in Asks \X Outcomes /\ execution[KeyOf[a[1]]].ask = a[1]
          /\ execution[KeyOf[a[1]]].state = a[2]
    BY <1>1 DEF EgressInv, Typed, AnswersFit
  <2> QED BY <1>1, <2>1 DEF AnswersFit, Gone
<1> QED BY <1>2, <1>3, <1>4 DEF EgressInv

LEMMA CompleteKeeps == ASSUME EgressInv, NEW w \in Agents, Complete(w) PROVE EgressInv'
<1> PICK a, k : a = agent[w] /\ k = KeyOf[a.ask]
  OBVIOUS
<1>1. /\ a.step = "finish" /\ execution[k].state = "reserved" /\ Busy(w) /\ a \in Records
      /\ execution' = [execution EXCEPT ![k] = [@ EXCEPT !.state = a.outcome, !.billed = a.billed]]
      /\ agent' = [agent EXCEPT ![w] = Resting] /\ answered' = answered \cup {<<a.ask, a.outcome>>}
      /\ UNCHANGED <<demo, upstream, replay>>
  BY DEF Complete, Busy, EgressInv, Typed, ledger
<1>2. /\ a.ask \in Asks /\ k \in ExecutionKeys /\ a.outcome \in Outcomes
      /\ Truthful(a.outcome, a.billed, upstream[k], replay[k])
  BY <1>1, Facts DEF EgressInv, WorkersFit, Claims, Fits, FitsAt
<1>3. ~Gone /\ execution[k].ask = a.ask
  <2>1. execution[k] # NoExecution
    BY <1>1 DEF NoExecution
  <2>2. KeyFits(k) /\ Claims(a)
    BY <1>1, <1>2 DEF EgressInv, KeysFit, WorkersFit
  <2> QED BY <2>1, <2>2 DEF KeyFits, Claims
<1>4. /\ execution' \in [ExecutionKeys -> Executions]
      /\ execution'[k].state = a.outcome /\ execution'[k].billed = a.billed
      /\ execution'[k].ask = a.ask
      /\ \A j \in ExecutionKeys : j # k => execution'[j] = execution[j]
  <2>1. execution \in [ExecutionKeys -> Executions]
    BY DEF EgressInv, Typed
  <2>2. execution[k] \in Executions /\ a.billed \in {0, PerAttempt, Unbilled}
    BY <1>1, <1>2, <2>1 DEF Records
  <2>3. PICK done : /\ done = [execution[k] EXCEPT !.state = a.outcome, !.billed = a.billed]
                    /\ execution' = [execution EXCEPT ![k] = done]
    BY <1>1, <1>2, <2>1
  <2>4. done \in Executions /\ done.state = a.outcome /\ done.billed = a.billed /\ done.ask = a.ask
    BY <1>2, <1>3, <2>2, <2>3 DEF Executions
  <2>5. execution'[k] = done /\ \A j \in ExecutionKeys : j # k => execution'[j] = execution[j]
    BY <1>2, <2>1, <2>3
  <2> QED BY <2>1, <2>3, <2>4, <2>5
<1>5. /\ agent' \in [Agents -> Records] /\ agent'[w].step = "idle"
      /\ \A v \in Agents : v # w => agent'[v] = agent[v]
  BY <1>1 DEF EgressInv, Typed, Records, Resting
<1>6. /\ capability' \in [created : BOOLEAN, revoked : BOOLEAN, expired : BOOLEAN,
                           used : Int, reserved : Int]
      /\ ~Gone'
  BY <1>3, Facts DEF Complete, EgressInv, Typed, Gone
<1>7. Typed' /\ Price' = Price
  <2>1. answered' \subseteq Asks \X Outcomes
    BY <1>1, <1>2 DEF EgressInv, Typed
  <2>2. demo' \in BOOLEAN /\ upstream' \in [ExecutionKeys -> Nat] /\ replay' \in [Tags -> Nat]
    BY <1>1 DEF EgressInv, Typed
  <2>3. Price' = Price
    BY <1>1 DEF Price
  <2> QED BY <1>4, <1>5, <1>6, <2>1, <2>2, <2>3 DEF Typed
<1>8. OneWorker'
  BY <1>5 DEF EgressInv, OneWorker, Busy
<1>9. WorkersFit'
  <2> SUFFICES ASSUME NEW v \in Agents, Busy(v)' PROVE (Claims(agent[v]) /\ Fits(agent[v]))'
    BY DEF WorkersFit
  <2>1. v # w /\ agent'[v] = agent[v] /\ Busy(v)
    BY <1>5 DEF Busy
  <2>2. /\ Claims(agent[v]) /\ Fits(agent[v]) /\ KeyOf[agent[v].ask] # k
        /\ KeyOf[agent[v].ask] \in ExecutionKeys
    BY <1>1, <2>1, Facts DEF EgressInv, WorkersFit, OneWorker, Claims
  <2>3. Claims(agent[v])'
    BY <1>3, <1>4, <2>1, <2>2 DEF Claims
  <2>4. Fits(agent[v])'
    BY <1>1, <1>7, <2>1, <2>2 DEF Fits, FitsAt, Truthful
  <2> QED BY <2>3, <2>4
<1>10. KeysFit'
  <2> SUFFICES ASSUME NEW j \in ExecutionKeys PROVE KeyFits(j)'
    BY DEF KeysFit
  <2>1. CASE j = k
    BY <1>1, <1>2, <1>4, <1>6, <1>7, <2>1
       DEF EgressInv, KeysFit, KeyFits, Truthful, Outcomes
  <2>2. CASE j # k
    BY <1>1, <1>3, <1>4, <1>6, <1>7, <2>2 DEF EgressInv, KeysFit, KeyFits, Truthful
  <2> QED BY <2>1, <2>2
<1>11. AnswersFit'
  <2>1. \A b \in answered : KeyOf[b[1]] # k /\ KeyOf[b[1]] \in ExecutionKeys
    BY <1>1, <1>3, Facts DEF EgressInv, Typed, AnswersFit, Outcomes
  <2>2. \A b \in answered' : b \in answered \/ b = <<a.ask, a.outcome>>
    BY <1>1
  <2> QED BY <1>3, <1>4, <1>6, <2>1, <2>2 DEF EgressInv, AnswersFit
<1> QED BY <1>7, <1>8, <1>9, <1>10, <1>11 DEF EgressInv

-----------------------------------------------------------------------------
\* A Worker consumes credits or sends under its key, which nobody else is at.

OnlyKey(k) ==
    /\ upstream' \in [ExecutionKeys -> Nat] /\ replay' \in [Tags -> Nat]
    /\ \A j \in ExecutionKeys \ {k} : upstream'[j] = upstream[j] /\ replay'[j] = replay[j]
    /\ upstream'[k] <= 1 /\ (upstream'[k] > 0 => replay'[k] = Price)

LEMMA KeyMoves ==
    ASSUME EgressInv, NEW w \in Agents, NEW a \in Records, NEW k, Busy(w),
           agent' = [agent EXCEPT ![w] = a], a.ask = agent[w].ask, k = KeyOf[a.ask],
           FitsAt(a, upstream'[k], replay'[k]), OnlyKey(k),
           UNCHANGED <<demo, capability, execution, answered>>
    PROVE  EgressInv'
<1> USE DEF OnlyKey
<1>1. /\ agent' \in [Agents -> Records] /\ agent'[w] = a
      /\ \A v \in Agents : v # w => agent'[v] = agent[v]
  BY DEF EgressInv, Typed
<1>2. Typed' /\ Price' = Price /\ (Gone' <=> Gone)
  BY <1>1 DEF EgressInv, Typed, Price, Gone
<1>3. Claims(agent[w]) /\ k \in ExecutionKeys
  BY Facts DEF EgressInv, WorkersFit, Claims
<1>4. WorkersFit'
  <2> SUFFICES ASSUME NEW v \in Agents, Busy(v)' PROVE (Claims(agent[v]) /\ Fits(agent[v]))'
    BY DEF WorkersFit
  <2>1. CASE v = w
    <3>1. Claims(agent[v])'
      BY <1>1, <1>2, <1>3, <2>1 DEF Claims
    <3>2. Fits(agent[v])'
      BY <1>1, <1>2, <2>1 DEF Fits, FitsAt, Truthful
    <3> QED BY <3>1, <3>2
  <2>2. CASE v # w
    <3>1. agent'[v] = agent[v] /\ Busy(v) /\ Claims(agent[v]) /\ Fits(agent[v])
      BY <1>1, <2>2 DEF EgressInv, WorkersFit, Busy
    <3>2. KeyOf[agent[v].ask] # k /\ KeyOf[agent[v].ask] \in ExecutionKeys
      BY <2>2, <3>1, Facts DEF EgressInv, OneWorker, Claims
    <3>3. Claims(agent[v])'
      BY <1>2, <3>1 DEF Claims
    <3>4. Fits(agent[v])'
      BY SMTT(60), <1>2, <3>1, <3>2 DEF Fits, FitsAt, Truthful
    <3> QED BY <3>3, <3>4
  <2> QED BY <2>1, <2>2
<1>5. OneWorker'
  BY <1>1 DEF EgressInv, OneWorker, Busy
<1>6. KeysFit'
  <2> SUFFICES ASSUME NEW j \in ExecutionKeys PROVE KeyFits(j)'
    BY DEF KeysFit
  <2>1. CASE j = k
    <3>1. (Gone \/ execution[k].state = "reserved") /\ KeyFits(k)
      BY <1>3 DEF Claims, EgressInv, KeysFit
    <3>2. execution[k].state \notin Outcomes
      <4>1. Gone => execution[k] = NoExecution
        BY <3>1 DEF KeyFits
      <4>2. NoExecution.state = "none"
        BY DEF NoExecution
      <4>3. execution[k].state \in {"none", "reserved"}
        BY <3>1, <4>1, <4>2
      <4> QED BY <4>3 DEF Outcomes
    <3>3. execution[k].state = "none" => Gone
      BY <3>1
    <3>4. /\ (upstream[k] <= 1 /\ (upstream[k] > 0 => replay[k] = Price))'
          /\ execution'[k] = execution[k] /\ (Gone' <=> Gone)
      BY <1>2
    <3>5. /\ execution[k].state \notin Outcomes => execution[k].billed = 0
          /\ Gone => execution[k] = NoExecution
      BY <3>1 DEF KeyFits
    <3> QED BY <2>1, <3>2, <3>3, <3>4, <3>5 DEF KeyFits
  <2>2. CASE j # k
    BY <1>2, <2>2 DEF EgressInv, KeysFit, KeyFits, Truthful
  <2> QED BY <2>1, <2>2
<1>7. AnswersFit'
  BY <1>2 DEF EgressInv, AnswersFit
<1> QED BY <1>2, <1>4, <1>5, <1>6, <1>7 DEF EgressInv

-----------------------------------------------------------------------------
\* The steps of egressFetch.

\* The record a Worker goes on with, and the one it ends with.
LEMMA GoesTo ==
    ASSUME Typed, NEW w \in Agents, NEW s \in Steps, Goes(w, s)
    PROVE  \E a \in Records : agent' = [agent EXCEPT ![w] = a] /\ a.step = s /\ a.ask = agent[w].ask
<1> DEFINE a == [agent[w] EXCEPT !.step = s]
<1>1. a \in Records /\ a.step = s /\ a.ask = agent[w].ask
  BY DEF Typed, Records
<1>2. agent' = [agent EXCEPT ![w] = a]
  BY DEF Goes
<1> QED BY <1>1, <1>2

LEMMA EndsWith ==
    ASSUME Typed, NEW w \in Agents, NEW outcome \in Outcomes, NEW billed \in {0, PerAttempt, Unbilled},
           Ends(w, outcome, billed)
    PROVE  \E a \in Records :
             /\ agent' = [agent EXCEPT ![w] = a] /\ a.step = "finish" /\ a.ask = agent[w].ask
             /\ a.outcome = outcome /\ a.billed = billed
<1> DEFINE one == [agent[w] EXCEPT !.step = "finish"]
           two == [one EXCEPT !.outcome = outcome]
           a == [two EXCEPT !.billed = billed]
<1>1. agent[w] \in Records
  BY DEF Typed
<1>2. agent' = [agent EXCEPT ![w] = a]
  BY <1>1 DEF Ends, Typed
<1>3. one \in Records /\ one.step = "finish" /\ one.ask = agent[w].ask
  BY <1>1 DEF Records, Steps
<1> HIDE DEF one
<1>4. two \in Records /\ two.step = "finish" /\ two.ask = agent[w].ask /\ two.outcome = outcome
  BY <1>3 DEF Records
<1> HIDE DEF two
<1>5. /\ a \in Records /\ a.step = "finish" /\ a.ask = agent[w].ask /\ a.outcome = outcome
      /\ a.billed = billed
  BY <1>4 DEF Records
<1> HIDE DEF a
<1> QED BY <1>2, <1>5

LEMMA BusyFits ==
    ASSUME EgressInv, NEW w \in Agents, agent[w].step # "idle"
    PROVE  Busy(w) /\ Fits(agent[w]) /\ agent[w].ask \in Asks /\ KeyOf[agent[w].ask] \in ExecutionKeys
  BY Facts DEF EgressInv, WorkersFit, Busy, Claims

LEMMA StepKeeps ==
    ASSUME EgressInv, NEW w \in Agents,
           Resolve(w) \/ UseCredential(w) \/ ReadBalance(w) \/ Uncharged(w)
    PROVE  EgressInv'
<1>1. PICK s \in {"resolved", "released", "funded", "billed"} : Goes(w, s)
  BY DEF Resolve, UseCredential, ReadBalance, Uncharged
<1>2. /\ agent[w].step \in {"begun", "resolved", "released"} /\ OnlyAgents
      /\ UNCHANGED <<demo, capability, execution, upstream, answered, replay>>
  BY DEF Resolve, UseCredential, ReadBalance, Uncharged, OnlyAgents, objects, traces, ledger
<1>3. PICK a \in Records :
        agent' = [agent EXCEPT ![w] = a] /\ a.step = s /\ a.ask = agent[w].ask
  BY <1>1, GoesTo DEF EgressInv, Steps
<1>4. Busy(w) /\ upstream[KeyOf[agent[w].ask]] = 0 /\ replay[KeyOf[agent[w].ask]] = 0
  BY <1>2, BusyFits DEF Fits, FitsAt
<1>5. /\ s = "funded" => ~demo
      /\ s = "billed" => demo /\ Price = 0
  <2>1. agent'[w].step = s
    BY <1>3 DEF EgressInv, Typed
  <2>2. /\ Resolve(w) => agent'[w].step = "resolved"
        /\ UseCredential(w) => agent'[w].step = "released"
        /\ ReadBalance(w) => agent'[w].step = "funded" /\ ~demo
        /\ Uncharged(w) => agent'[w].step = "billed" /\ demo
    BY GoesTo DEF Resolve, UseCredential, ReadBalance, Uncharged, EgressInv, Typed, Steps, Goes,
       Records
  <2> QED BY <2>1, <2>2 DEF Price
<1>6. Fits(a)
  BY <1>3, <1>4, <1>5 DEF Fits, FitsAt
<1> QED BY <1>2, <1>3, <1>4, <1>6, AgentMoves

\* Refused before the credits were consumed.
LEMMA RefusedKeeps ==
    ASSUME EgressInv, NEW w \in Agents, Refused(w) \/ Insufficient(w) PROVE EgressInv'
<1>1. /\ agent[w].step \in {"begun", "resolved", "released", "funded"}
      /\ Ends(w, "failed_before_execution", 0)
      /\ UNCHANGED <<demo, capability, execution, upstream, answered, replay>>
  BY DEF Refused, Insufficient, OnlyAgents, objects, traces, ledger
<1>2. PICK a \in Records :
        /\ agent' = [agent EXCEPT ![w] = a] /\ a.step = "finish" /\ a.ask = agent[w].ask
        /\ a.outcome = "failed_before_execution" /\ a.billed = 0
  BY <1>1, EndsWith DEF EgressInv, Outcomes
<1>3. Busy(w) /\ upstream[KeyOf[agent[w].ask]] = 0 /\ replay[KeyOf[agent[w].ask]] = 0
  BY <1>1, BusyFits DEF Fits, FitsAt
<1>4. Fits(a)
  BY <1>2, <1>3 DEF Fits, FitsAt, Truthful, Outcomes
<1> QED BY <1>1, <1>2, <1>3, <1>4, AgentMoves

\* The ledger took the price of an attempt, or had taken it.
LEMMA Consumed ==
    ASSUME EgressInv, NEW k \in ExecutionKeys, Consume(k, PerAttempt) \/ UNCHANGED replay
    PROVE  /\ replay' \in [Tags -> Nat]
           /\ \A j \in ExecutionKeys : j # k => replay'[j] = replay[j]
           /\ Consume(k, PerAttempt) => replay'[k] = PerAttempt
  BY Facts DEF Consume, EgressInv, Typed

LEMMA ConsumeKeeps == ASSUME EgressInv, NEW w \in Agents, ConsumeCredits(w) PROVE EgressInv'
<1> DEFINE k == KeyOf[agent[w].ask]
<1>1. /\ agent[w].step = "funded" /\ Goes(w, "billed")
      /\ UNCHANGED <<demo, capability, execution, upstream, answered>>
  BY DEF ConsumeCredits, objects, traces
<1>2. /\ Busy(w) /\ k \in ExecutionKeys /\ upstream[k] = 0 /\ replay[k] = 0 /\ ~demo
      /\ Price = PerAttempt /\ Price' = PerAttempt
  BY <1>1, BusyFits DEF Fits, FitsAt, Price
<1>3. Consume(k, PerAttempt)
  BY <1>2 DEF ConsumeCredits, Replayed
<1>4. PICK a \in Records :
        agent' = [agent EXCEPT ![w] = a] /\ a.step = "billed" /\ a.ask = agent[w].ask
  BY <1>1, GoesTo DEF EgressInv, Steps
<1>5. /\ replay' \in [Tags -> Nat] /\ replay'[k] = PerAttempt
      /\ \A j \in ExecutionKeys : j # k => replay'[j] = replay[j]
  BY <1>2, <1>3, Consumed
<1>6. FitsAt(a, upstream'[k], replay'[k])
  BY <1>1, <1>2, <1>4, <1>5 DEF FitsAt
<1>7. OnlyKey(k)
  BY <1>1, <1>2, <1>5 DEF OnlyKey, EgressInv, Typed
<1> HIDE DEF k
<1>8. k = KeyOf[a.ask]
  BY <1>4 DEF k
<1> QED BY <1>1, <1>2, <1>4, <1>6, <1>7, <1>8, KeyMoves

LEMMA BillingLostKeeps == ASSUME EgressInv, NEW w \in Agents, BillingLost(w) PROVE EgressInv'
<1> DEFINE k == KeyOf[agent[w].ask]
<1>1. /\ agent[w].step = "funded" /\ Ends(w, "billing_ambiguous", Unbilled)
      /\ UNCHANGED <<demo, capability, execution, upstream, answered>>
  BY DEF BillingLost, LostBilling, objects, traces
<1>2. Busy(w) /\ k \in ExecutionKeys /\ upstream[k] = 0
  BY <1>1, BusyFits DEF Fits, FitsAt
<1>3. PICK a \in Records :
        /\ agent' = [agent EXCEPT ![w] = a] /\ a.step = "finish" /\ a.ask = agent[w].ask
        /\ a.outcome = "billing_ambiguous" /\ a.billed = Unbilled
  BY <1>1, EndsWith DEF EgressInv, Outcomes
<1>4. /\ replay' \in [Tags -> Nat]
      /\ \A j \in ExecutionKeys : j # k => replay'[j] = replay[j]
  BY <1>2, Consumed DEF BillingLost, ledger
<1>5. FitsAt(a, upstream'[k], replay'[k])
  BY <1>1, <1>2, <1>3 DEF FitsAt, Truthful, Outcomes
<1>6. OnlyKey(k)
  BY <1>1, <1>2, <1>4 DEF OnlyKey, EgressInv, Typed
<1> HIDE DEF k
<1>7. k = KeyOf[a.ask]
  BY <1>3 DEF k
<1> QED BY <1>1, <1>2, <1>3, <1>5, <1>6, <1>7, KeyMoves

LEMMA DecryptKeeps == ASSUME EgressInv, NEW w \in Agents, Decrypt(w) PROVE EgressInv'
<1>1. /\ agent[w].step = "billed"
      /\ UNCHANGED <<demo, capability, execution, upstream, answered, replay>>
  BY DEF Decrypt, OnlyAgents, objects, traces, ledger
<1>2. Busy(w) /\ upstream[KeyOf[agent[w].ask]] = 0 /\ replay[KeyOf[agent[w].ask]] = Price
  BY <1>1, BusyFits DEF Fits, FitsAt
<1>3. CASE Goes(w, "armed")
  <2>1. PICK a \in Records :
          agent' = [agent EXCEPT ![w] = a] /\ a.step = "armed" /\ a.ask = agent[w].ask
    BY <1>3, GoesTo DEF EgressInv, Steps
  <2>2. Fits(a)
    BY <1>2, <2>1 DEF Fits, FitsAt
  <2> QED BY <1>1, <1>2, <2>1, <2>2, AgentMoves
<1>4. CASE Ends(w, "failed_before_execution", Price)
  <2>1. PICK a \in Records :
          /\ agent' = [agent EXCEPT ![w] = a] /\ a.step = "finish" /\ a.ask = agent[w].ask
          /\ a.outcome = "failed_before_execution" /\ a.billed = Price
    BY <1>4, EndsWith, Facts DEF EgressInv, Outcomes
  <2>2. Fits(a)
    BY <1>2, <2>1 DEF Fits, FitsAt, Truthful, Outcomes
  <2> QED BY <1>1, <1>2, <2>1, <2>2, AgentMoves
<1> QED BY <1>3, <1>4 DEF Decrypt

LEMMA SendKeeps == ASSUME EgressInv, NEW w \in Agents, Send(w) PROVE EgressInv'
<1> DEFINE k == KeyOf[agent[w].ask]
<1>1. /\ agent[w].step = "armed" /\ Goes(w, "sent") /\ upstream' = [upstream EXCEPT ![k] = @ + 1]
      /\ UNCHANGED <<demo, capability, execution, answered, replay>>
  BY DEF Send, objects, ledger
<1>2. Busy(w) /\ k \in ExecutionKeys /\ upstream[k] = 0 /\ replay[k] = Price /\ Price' = Price
  BY <1>1, BusyFits DEF Fits, FitsAt, Price
<1>3. PICK a \in Records :
        agent' = [agent EXCEPT ![w] = a] /\ a.step = "sent" /\ a.ask = agent[w].ask
  BY <1>1, GoesTo DEF EgressInv, Steps
<1>4. /\ upstream' \in [ExecutionKeys -> Nat] /\ upstream'[k] = 1
      /\ \A j \in ExecutionKeys : j # k => upstream'[j] = upstream[j]
      /\ replay' \in [Tags -> Nat]
  BY <1>1, <1>2 DEF EgressInv, Typed
<1>5. FitsAt(a, upstream'[k], replay'[k])
  BY <1>1, <1>2, <1>3, <1>4 DEF FitsAt
<1>6. OnlyKey(k)
  BY <1>1, <1>2, <1>4 DEF OnlyKey
<1> HIDE DEF k
<1>7. k = KeyOf[a.ask]
  BY <1>3 DEF k
<1> QED BY <1>1, <1>2, <1>3, <1>5, <1>6, <1>7, KeyMoves

LEMMA ReceiveKeeps == ASSUME EgressInv, NEW w \in Agents, Receive(w) PROVE EgressInv'
<1>1. /\ agent[w].step = "sent"
      /\ UNCHANGED <<demo, capability, execution, upstream, answered, replay>>
  BY DEF Receive, objects, ledger
<1>2. PICK outcome \in {"completed", "ambiguous"} : Ends(w, outcome, Price)
  BY DEF Receive
<1>3. Busy(w) /\ upstream[KeyOf[agent[w].ask]] = 1 /\ replay[KeyOf[agent[w].ask]] = Price
  BY <1>1, BusyFits DEF Fits, FitsAt
<1>4. PICK a \in Records :
        /\ agent' = [agent EXCEPT ![w] = a] /\ a.step = "finish" /\ a.ask = agent[w].ask
        /\ a.outcome = outcome /\ a.billed = Price
  BY <1>2, EndsWith, Facts DEF EgressInv, Outcomes
<1>5. Fits(a)
  BY <1>3, <1>4 DEF Fits, FitsAt, Truthful, Outcomes
<1> QED BY <1>1, <1>3, <1>4, <1>5, AgentMoves

LEMMA AbandonKeeps == ASSUME EgressInv, NEW w \in Agents, Abandon(w) PROVE EgressInv'
<1>1. /\ agent' = [agent EXCEPT ![w] = Resting]
      /\ UNCHANGED <<demo, capability, execution, upstream, answered, replay>>
  BY DEF Abandon, OnlyAgents, objects, traces, ledger
<1>2. Resting \in Records /\ Resting.step = "idle"
  BY DEF Resting, Records
<1>3. CASE Busy(w)
  BY <1>1, <1>2, <1>3, AgentMoves
<1>4. CASE ~Busy(w)
  <2>1. /\ \A v \in Agents : Busy(v)' <=> Busy(v)
        /\ \A v \in Agents : Busy(v) => agent'[v] = agent[v]
        /\ agent' \in [Agents -> Records]
    BY <1>1, <1>2, <1>4 DEF Busy, EgressInv, Typed
  <2>2. Price' = Price /\ Gone' = Gone
    BY <1>1 DEF Price, Gone
  <2>3. Typed'
    BY <1>1, <2>1 DEF EgressInv, Typed
  <2>4. WorkersFit'
    BY <1>1, <2>1, <2>2 DEF EgressInv, WorkersFit, Claims, Fits, FitsAt, Truthful
  <2>5. OneWorker'
    BY <2>1 DEF EgressInv, OneWorker
  <2>6. KeysFit' /\ AnswersFit'
    BY <1>1, <2>2 DEF EgressInv, KeysFit, KeyFits, Truthful, AnswersFit
  <2> QED BY <2>3, <2>4, <2>5, <2>6 DEF EgressInv
<1> QED BY <1>3, <1>4
-----------------------------------------------------------------------------

LEMMA NextKeeps == EgressInv /\ [Next]_vars => EgressInv'
<1> SUFFICES ASSUME EgressInv, [Next]_vars PROVE EgressInv'
  OBVIOUS
<1>1. CASE Create \/ Index \/ IssueFailed \/ Withdraw \/ RegisterRevoked \/ Snapshot \/ Expire
           \/ DeleteCredential
  BY <1>1, OperatorKeeps
<1>2. CASE Alarm
  BY <1>2, AlarmKeeps
<1>3. CASE \E q \in Asks : Replay(q)
  BY <1>3, ReplayKeeps
<1>4. ASSUME NEW w \in Agents, AgentNext(w) PROVE EgressInv'
  <2>1. CASE \E q \in Asks : Begin(w, q)
    BY <2>1, BeginKeeps
  <2>2. CASE Resolve(w) \/ UseCredential(w) \/ ReadBalance(w) \/ Uncharged(w)
    BY <2>2, StepKeeps
  <2>3. CASE Refused(w) \/ Insufficient(w)
    BY <2>3, RefusedKeeps
  <2>4. CASE ConsumeCredits(w)
    BY <2>4, ConsumeKeeps
  <2>5. CASE BillingLost(w)
    BY <2>5, BillingLostKeeps
  <2>6. CASE Decrypt(w)
    BY <2>6, DecryptKeeps
  <2>7. CASE Send(w)
    BY <2>7, SendKeeps
  <2>8. CASE Receive(w)
    BY <2>8, ReceiveKeeps
  <2>9. CASE Complete(w)
    BY <2>9, CompleteKeeps
  <2>10. CASE Abandon(w)
    BY <2>10, AbandonKeeps
  <2> QED BY <1>4, <2>1, <2>2, <2>3, <2>4, <2>5, <2>6, <2>7, <2>8, <2>9, <2>10 DEF AgentNext
<1>5. CASE SpendElsewhere
  BY <1>5, LedgerKeeps DEF SpendElsewhere
<1>6. CASE Refunded
  BY <1>6, LedgerKeeps DEF Refunded, RefundOrder, Refund
<1>7. CASE UNCHANGED vars
  BY <1>7, LedgerKeeps DEF vars, ledger
<1> QED BY <1>1, <1>2, <1>3, <1>4, <1>5, <1>6, <1>7 DEF Next

LEMMA Inductive == Spec => []EgressInv
  BY InitEstablishes, NextKeeps, PTL DEF Spec

\* A key has one answer, since two answers of it are the same.
LEMMA InvExecutesOnce == EgressInv => ExecutedOnce
<1> SUFFICES ASSUME EgressInv, NEW k \in ExecutionKeys
             PROVE  /\ upstream[k] <= 1
                    /\ execution[k].state \in {"completed", "ambiguous"} => upstream[k] = 1
                    /\ execution[k].state \in {"failed_before_execution", "billing_ambiguous"}
                         => upstream[k] = 0
                    /\ Cardinality({a \in answered : KeyOf[a[1]] = k}) <= 1
  BY DEF ExecutedOnce
<1>1. KeyFits(k)
  BY DEF EgressInv, KeysFit
<1>2. CASE {a \in answered : KeyOf[a[1]] = k} = {}
  BY <1>1, <1>2, FS_EmptySet DEF KeyFits, Truthful, Outcomes
<1>3. ASSUME NEW b \in answered, KeyOf[b[1]] = k
      PROVE  Cardinality({a \in answered : KeyOf[a[1]] = k}) = 1
  <2>1. {a \in answered : KeyOf[a[1]] = k} = {b}
    BY <1>3 DEF EgressInv, AnswersFit
  <2> QED BY <2>1, FS_Singleton
<1> QED BY <1>1, <1>2, <1>3 DEF KeyFits, Truthful, Outcomes

LEMMA InvBillsTruthfully == EgressInv => BilledTruthfully
<1> SUFFICES ASSUME EgressInv, NEW k \in ExecutionKeys
             PROVE  /\ upstream[k] > 0 => replay[k] = Price
                    /\ execution[k].billed = PerAttempt => replay[k] = PerAttempt
                    /\ execution[k].state \in Outcomes /\ execution[k].billed = 0 => replay[k] = 0
  BY DEF BilledTruthfully
<1>1. KeyFits(k) /\ Unbilled \notin {0, PerAttempt} /\ PerAttempt # 0
  BY Facts DEF EgressInv, KeysFit
<1> QED BY <1>1 DEF KeyFits, Truthful, Outcomes

(***************************************************************************)
(* However the agent repeats a request, whichever Worker dies and whatever *)
(* the operator withdraws or the alarm erases, one request per key goes to *)
(* the provider, the stored result says truly whether it was sent, and all *)
(* answers to a key are that result (egressFetch, /begin, /complete).      *)
(***************************************************************************)
THEOREM ExecutesOnce == Spec => []ExecutedOnce
  BY Inductive, InvExecutesOnce, PTL

(***************************************************************************)
(* What was sent had consumed its credits under its key, and what a stored *)
(* result says was billed is what the ledger took, also when the answer of *)
(* the ledger was lost (egressFetch, consumeCredits).                      *)
(***************************************************************************)
THEOREM BillsTruthfully == Spec => []BilledTruthfully
  BY Inductive, InvBillsTruthfully, PTL

-----------------------------------------------------------------------------
(***************************************************************************)
(* The budget.  While the records are kept, what is reserved is the price  *)
(* of every key whose credits were not released, and a key consumed at     *)
(* most that price.                                                        *)
(***************************************************************************)
CountedKeys == {k \in ExecutionKeys : Counted(k)}
BegunKeys == {k \in ExecutionKeys : execution[k].state # "none"}

WithinLimits == capability.used \in 0..MaxCalls /\ capability.reserved \in 0..MaxTotal
Tallied ==
    ~Gone => /\ capability.reserved = Price * Cardinality(CountedKeys)
             /\ capability.used = Cardinality(BegunKeys)
ChargedToPrice == \A k \in ExecutionKeys : replay[k] <= Price
BudgetInv == WithinLimits /\ Tallied /\ ChargedToPrice

LEMMA KeysFinite ==
    /\ IsFiniteSet(ExecutionKeys)
    /\ \A K \in SUBSET ExecutionKeys : IsFiniteSet(K) /\ Cardinality(K) \in Nat
<1>1. IsFiniteSet(ExecutionKeys)
  <2>1. ExecutionKeys \subseteq Tags
    OBVIOUS
  <2> QED BY <2>1, StorageAssumption, FS_Subset
<1> QED BY <1>1, FS_Subset, FS_CardinalityType

LEMMA TimesPrice ==
    /\ Price \in Nat /\ Price * 0 = 0
    /\ \A n \in Nat : /\ Price * n \in Nat /\ Price * (n + 1) = Price * n + Price
                      /\ n # 0 => Price * (n - 1) = Price * n - Price /\ Price <= Price * n
<1>1. Price \in Nat
  BY DEF Price
<1>2. \A p, n \in Nat : /\ p * n \in Nat /\ p * (n + 1) = p * n + p /\ p * 0 = 0
                        /\ p * (n - 1) = p * n - p
  OBVIOUS
<1>3. \A p, n \in Nat : n # 0 => p <= p * n
  <2> SUFFICES ASSUME NEW p \in Nat, NEW n \in Nat, n # 0 PROVE p <= p * n
    OBVIOUS
  <2>1. n - 1 \in Nat /\ p * (n - 1) \in Nat /\ p * (n - 1) = p * n - p /\ p * n \in Nat
    BY <1>2
  <2> QED BY <2>1
<1> HIDE DEF Price
<1> QED BY <1>1, <1>2, <1>3

LEMMA InitBudget == Init => BudgetInv
<1> SUFFICES ASSUME Init PROVE BudgetInv
  OBVIOUS
<1>1. CountedKeys = {} /\ BegunKeys = {}
  BY DEF Init, EgressInit, CountedKeys, Counted, BegunKeys, NoExecution
<1>2. capability.used = 0 /\ capability.reserved = 0
  BY DEF Init, EgressInit
<1>3. ChargedToPrice
  BY Facts, TimesPrice DEF Init, Bought, ChargedToPrice
<1> QED BY <1>1, <1>2, <1>3, FS_EmptySet, TimesPrice DEF BudgetInv, WithinLimits, Tallied

\* The executions and what was reserved for them stay.
BudgetStays == UNCHANGED <<demo, execution>> /\ UNCHANGED <<capability.used, capability.reserved>>

LEMMA StaysBudget ==
    ASSUME BudgetInv, BudgetStays, Gone => Gone', ChargedToPrice'
    PROVE  BudgetInv'
<1>1. /\ CountedKeys' = CountedKeys /\ BegunKeys' = BegunKeys /\ Price' = Price
      /\ capability'.used = capability.used /\ capability'.reserved = capability.reserved
  BY DEF BudgetStays, CountedKeys, Counted, BegunKeys, Price
<1>2. WithinLimits'
  BY <1>1 DEF BudgetInv, WithinLimits
<1>3. Tallied'
  BY <1>1 DEF BudgetInv, Tallied
<1> QED BY <1>2, <1>3 DEF BudgetInv

LEMMA BeginBudget ==
    ASSUME EgressInv, BudgetInv, NEW w \in Agents, NEW q \in Asks, Begin(w, q)
    PROVE  BudgetInv'
<1> DEFINE k == KeyOf[q]
           used == capability.used
           reserved == capability.reserved
<1>1. /\ k \in ExecutionKeys /\ execution[k].state = "none" /\ ~Gone
      /\ UNCHANGED <<demo, replay>> /\ Price' = Price
      /\ execution' = [execution EXCEPT ![k] = [state |-> "reserved", ask |-> q, billed |-> 0]]
  BY Facts DEF Begin, Fresh, Usable, Gone, ledger, Price
<1>2. capability'.used = used + 1 /\ capability'.reserved = reserved + Price
  <2>1. capability' = [created |-> capability.created, revoked |-> capability.revoked,
                       expired |-> capability.expired, used |-> used + 1,
                       reserved |-> reserved + Price]
    BY DEF Begin, EgressInv, Typed
  <2> QED BY <2>1
<1>3. /\ execution'[k].state = "reserved"
      /\ \A j \in ExecutionKeys : j # k => execution'[j] = execution[j]
  BY <1>1 DEF EgressInv, Typed
<1>4. /\ k \notin CountedKeys /\ CountedKeys' = CountedKeys \cup {k}
      /\ k \notin BegunKeys /\ BegunKeys' = BegunKeys \cup {k}
  BY <1>1, <1>3 DEF CountedKeys, Counted, BegunKeys, Outcomes
<1>5. /\ Cardinality(CountedKeys') = Cardinality(CountedKeys) + 1
      /\ Cardinality(BegunKeys') = Cardinality(BegunKeys) + 1
      /\ Cardinality(CountedKeys) \in Nat
  <2>1. CountedKeys \in SUBSET ExecutionKeys /\ BegunKeys \in SUBSET ExecutionKeys
    BY DEF CountedKeys, BegunKeys
  <2> QED BY <1>4, <2>1, KeysFinite, FS_AddElement
<1>6. Tallied'
  <2>1. reserved = Price * Cardinality(CountedKeys) /\ used = Cardinality(BegunKeys)
    BY <1>1 DEF BudgetInv, Tallied
  <2> HIDE DEF used, reserved
  <2>2. capability'.reserved = Price * (Cardinality(CountedKeys) + 1)
    BY <1>2, <1>5, <2>1, TimesPrice
  <2>3. capability'.reserved = Price' * Cardinality(CountedKeys')
    BY <1>1, <1>5, <2>2
  <2>4. capability'.used = Cardinality(BegunKeys')
    BY <1>2, <1>5, <2>1
  <2> QED BY <2>3, <2>4 DEF Tallied
<1>7. /\ used < IF demo THEN 1 ELSE MaxCalls
      /\ reserved + Price <= IF demo THEN 0 ELSE MaxTotal
  BY DEF Begin, InBudget
<1>8. used + 1 \in 0..MaxCalls /\ reserved + Price \in 0..MaxTotal
  <2>1. used \in 0..MaxCalls /\ reserved \in 0..MaxTotal
    BY DEF BudgetInv, WithinLimits
  <2> HIDE DEF used, reserved
  <2>2. used < MaxCalls
    BY <1>7, <2>1
  <2>3. reserved + Price <= MaxTotal
    BY <1>7, <2>1, TimesPrice
  <2> QED BY <2>1, <2>2, <2>3, TimesPrice
<1>9. WithinLimits'
  BY <1>2, <1>8 DEF WithinLimits
<1>10. ChargedToPrice'
  BY <1>1 DEF BudgetInv, ChargedToPrice
<1> QED BY <1>6, <1>9, <1>10 DEF BudgetInv

LEMMA CompleteBudget ==
    ASSUME EgressInv, BudgetInv, NEW w \in Agents, Complete(w)
    PROVE  BudgetInv'
<1> DEFINE a == agent[w]
           k == KeyOf[a.ask]
           reserved == capability.reserved
<1>1. /\ a.step = "finish" /\ execution[k].state = "reserved" /\ Busy(w) /\ a \in Records
      /\ execution' = [execution EXCEPT ![k] = [@ EXCEPT !.state = a.outcome, !.billed = a.billed]]
      /\ UNCHANGED <<demo, replay>> /\ Price' = Price
  BY DEF Complete, Busy, EgressInv, Typed, ledger, Price
<1>2. a.ask \in Asks /\ k \in ExecutionKeys /\ a.outcome \in Outcomes
  BY <1>1, Facts DEF EgressInv, WorkersFit, Claims, Fits, FitsAt
<1>3. ~Gone
  BY <1>1, <1>2 DEF EgressInv, KeysFit, KeyFits, NoExecution
<1>4. /\ execution'[k].state = a.outcome /\ execution'[k].billed = a.billed
      /\ \A j \in ExecutionKeys : j # k => execution'[j] = execution[j]
  BY <1>1, <1>2 DEF EgressInv, Typed, Executions
<1>5. BegunKeys' = BegunKeys
  BY <1>1, <1>2, <1>4 DEF BegunKeys, Outcomes
<1>6. k \in CountedKeys /\ CountedKeys \in SUBSET ExecutionKeys
  BY <1>1, <1>2 DEF CountedKeys, Counted, Outcomes
<1>7. /\ a.billed # 0 => CountedKeys' = CountedKeys
      /\ a.billed = 0 => CountedKeys' = CountedKeys \ {k}
  BY ZenonT(60), <1>1, <1>2, <1>4, <1>6 DEF CountedKeys, Counted, Outcomes
<1>8. /\ capability'.used = capability.used
      /\ capability'.reserved = IF a.billed = 0 THEN reserved - Price ELSE reserved
  <2>1. capability' = [created |-> capability.created, revoked |-> capability.revoked,
                       expired |-> capability.expired, used |-> capability.used,
                       reserved |-> IF a.billed = 0 THEN reserved - Price ELSE reserved]
    BY DEF Complete, Releases, EgressInv, Typed
  <2> QED BY <2>1
<1>9. Cardinality(CountedKeys \ {k}) = Cardinality(CountedKeys) - 1
      /\ Cardinality(CountedKeys) \in Nat /\ Cardinality(CountedKeys) # 0
  <2>1. IsFiniteSet(CountedKeys) /\ Cardinality(CountedKeys) \in Nat
    BY <1>6, KeysFinite
  <2>2. Cardinality(CountedKeys) # 0
    BY <1>6, <2>1, FS_EmptySet
  <2>3. k \in CountedKeys
    BY <1>6
  <2> HIDE DEF k
  <2> QED BY <2>1, <2>2, <2>3, FS_RemoveElement
<1>10. /\ reserved = Price * Cardinality(CountedKeys)
       /\ capability.used = Cardinality(BegunKeys)
       /\ capability.used \in 0..MaxCalls /\ reserved \in 0..MaxTotal
  BY <1>3 DEF BudgetInv, Tallied, WithinLimits
<1> HIDE DEF a, k, reserved
<1>11. /\ reserved - Price = Price * (Cardinality(CountedKeys) - 1)
       /\ Price <= reserved
  BY <1>9, <1>10, TimesPrice
<1>12. capability'.reserved = Price * Cardinality(CountedKeys')
  BY <1>7, <1>8, <1>9, <1>10, <1>11
<1>13. Tallied'
  BY <1>1, <1>5, <1>8, <1>10, <1>12 DEF Tallied
<1>14. WithinLimits'
  <2>1. capability'.reserved \in 0..MaxTotal
    BY <1>8, <1>10, <1>11, TimesPrice
  <2> QED BY <1>8, <1>10, <2>1 DEF WithinLimits
<1>15. ChargedToPrice'
  BY <1>1 DEF BudgetInv, ChargedToPrice
<1> QED BY <1>13, <1>14, <1>15 DEF BudgetInv

LEMMA NextBudget ==
    ASSUME EgressInv, BudgetInv, [Next]_vars
    PROVE  BudgetInv'
<1>1. CASE Create \/ Index \/ IssueFailed \/ Withdraw \/ RegisterRevoked \/ Snapshot \/ Expire
           \/ DeleteCredential
  <2>1. UNCHANGED <<demo, execution, replay>>
    BY <1>1 DEF Create, Index, IssueFailed, Withdraw, RegisterRevoked, Snapshot, Expire,
       DeleteCredential, OnlyCapability, ledger
  <2>2. UNCHANGED <<capability.used, capability.reserved>> /\ (Gone => Gone')
    BY <1>1 DEF Create, Index, IssueFailed, Withdraw, RegisterRevoked, Snapshot, Expire,
       DeleteCredential, Revoke, OnlyCapability, EgressInv, Typed, Gone
  <2>3. ChargedToPrice'
    BY <2>1 DEF BudgetInv, ChargedToPrice, Price
  <2> QED BY <2>1, <2>2, <2>3, StaysBudget DEF BudgetStays
<1>2. CASE Alarm
  <2>1. capability' = [created |-> FALSE, revoked |-> capability.revoked,
                       expired |-> capability.expired, used |-> 0, reserved |-> 0]
    BY <1>2 DEF Alarm, EgressInv, Typed
  <2>2. UNCHANGED <<demo, replay>> /\ capability.expired
    BY <1>2 DEF Alarm, ledger
  <2>3. Gone' /\ WithinLimits'
    BY <2>1, <2>2 DEF Gone, WithinLimits
  <2> QED BY <2>2, <2>3 DEF BudgetInv, Tallied, ChargedToPrice, Price
<1>3. ASSUME NEW w \in Agents, AgentNext(w) PROVE BudgetInv'
  <2>1. CASE \E q \in Asks : Begin(w, q)
    BY <2>1, BeginBudget
  <2>2. CASE Complete(w)
    BY <2>2, CompleteBudget
  <2>3. CASE \/ Resolve(w) \/ UseCredential(w) \/ ReadBalance(w) \/ Uncharged(w) \/ Refused(w)
             \/ Insufficient(w) \/ Decrypt(w) \/ Send(w) \/ Receive(w) \/ Abandon(w)
    <3>1. UNCHANGED <<demo, execution, capability, replay>>
      BY <2>3 DEF Resolve, UseCredential, ReadBalance, Uncharged, Refused, Insufficient, Decrypt,
         Send, Receive, Abandon, OnlyAgents, objects, ledger
    <3>2. BudgetStays /\ (Gone' <=> Gone) /\ ChargedToPrice'
      BY <3>1 DEF BudgetStays, Gone, BudgetInv, ChargedToPrice, Price
    <3> QED BY <3>2, StaysBudget
  <2>4. CASE ConsumeCredits(w) \/ BillingLost(w)
    <3> DEFINE k == KeyOf[agent[w].ask]
    <3>1. /\ UNCHANGED <<demo, execution, capability>> /\ agent[w].step = "funded"
          /\ Consume(k, PerAttempt) \/ UNCHANGED replay
      BY <2>4 DEF ConsumeCredits, BillingLost, objects, ledger
    <3>2. k \in ExecutionKeys /\ ~demo
      BY <3>1, BusyFits DEF Fits, FitsAt
    <3>3. ChargedToPrice'
      <4>1. Price' = PerAttempt /\ Price = PerAttempt
        BY <3>1, <3>2 DEF Price
      <4>2. \A j \in ExecutionKeys : replay'[j] = replay[j] \/ replay'[j] = PerAttempt
        BY <3>1, <3>2, Consumed
      <4> QED BY <4>1, <4>2 DEF BudgetInv, ChargedToPrice
    <3>4. BudgetStays /\ (Gone' <=> Gone)
      BY <3>1 DEF BudgetStays, Gone
    <3> QED BY <3>3, <3>4, StaysBudget
  <2> QED BY <1>3, <2>1, <2>2, <2>3, <2>4 DEF AgentNext
<1>4. CASE (\E q \in Asks : Replay(q)) \/ SpendElsewhere \/ Refunded \/ UNCHANGED vars
  <2>1. /\ UNCHANGED <<demo, execution, capability>>
        /\ \A k \in ExecutionKeys : replay'[k] = replay[k]
    BY <1>4, Facts DEF Replay, SpendElsewhere, Consume, Refunded, RefundOrder, Refund, vars, egress,
       objects, ledger, EgressInv, Typed
  <2>2. BudgetStays /\ (Gone' <=> Gone) /\ ChargedToPrice'
    BY <2>1 DEF BudgetStays, Gone, BudgetInv, ChargedToPrice, Price
  <2> QED BY <2>2, StaysBudget
<1> QED BY <1>1, <1>2, <1>3, <1>4 DEF Next

LEMMA InvBudget == EgressInv /\ BudgetInv => BudgetHolds
<1> SUFFICES ASSUME EgressInv, BudgetInv, capability.created
             PROVE  /\ capability.reserved = Price * Cardinality({k \in ExecutionKeys : Counted(k)})
                    /\ capability.used
                         = Cardinality({k \in ExecutionKeys : execution[k].state # "none"})
                    /\ capability.reserved <= MaxTotal /\ capability.used <= MaxCalls
                    /\ SumFunctionOnSet(replay, ExecutionKeys) <= capability.reserved
  BY DEF BudgetHolds
<1>1. /\ ~Gone /\ capability.reserved = Price * Cardinality(CountedKeys)
      /\ capability.used = Cardinality(BegunKeys)
  BY DEF Gone, BudgetInv, Tallied
<1>2. capability.reserved <= MaxTotal /\ capability.used <= MaxCalls
  BY DEF BudgetInv, WithinLimits
<1>3. \A k \in ExecutionKeys \ CountedKeys : replay[k] = 0
  <2> SUFFICES ASSUME NEW k \in ExecutionKeys, ~Counted(k) PROVE replay[k] = 0
    BY DEF CountedKeys
  <2>1. KeyFits(k) /\ Unbilled # 0
    BY Facts DEF EgressInv, KeysFit
  <2> QED BY <1>1, <2>1 DEF KeyFits, Counted, Truthful, Outcomes
<1>4. CountedKeys \in SUBSET ExecutionKeys
  BY DEF CountedKeys
<1>5. Countable(replay, ExecutionKeys)
  BY KeysFinite, Facts DEF Countable, EgressInv, Typed
<1>6. \A k \in CountedKeys : replay[k] <= Price
  BY <1>4 DEF BudgetInv, ChargedToPrice
<1>7. SumFunctionOnSet(replay, ExecutionKeys) <= Price * Cardinality(CountedKeys)
  BY <1>3, <1>4, <1>5, <1>6, SumAtMost, TimesPrice
<1> QED BY <1>1, <1>2, <1>7 DEF CountedKeys, BegunKeys

(***************************************************************************)
(* As long as the records of a capability are kept, every key that         *)
(* consumed credits is counted in reserved_credits and every execution in  *)
(* used_calls, and neither passes its limit, whatever became of the        *)
(* executions (/begin and /complete of EgressCapabilityState).             *)
(***************************************************************************)
THEOREM StaysInBudget == Spec => []BudgetHolds
<1>1. Init => BudgetInv
  BY InitBudget
<1>2. EgressInv /\ BudgetInv /\ [Next]_vars => BudgetInv'
  BY NextBudget
<1> QED BY <1>1, <1>2, Inductive, InvBudget, PTL DEF Spec

-----------------------------------------------------------------------------
(***************************************************************************)
(* Withdrawal.  A withdrawn credential stays withdrawn, so that who began  *)
(* late never passes /use; the meter is behind the keys whose sending is   *)
(* over; and an operator's token is handed out with its row.               *)
(***************************************************************************)
Early == {"begun", "resolved", "finish"}
LateHeld ==
    /\ late \subseteq ExecutionKeys /\ (late # {} => ~credential)
    /\ \A k \in late : upstream[k] = 0
    /\ \A w \in Agents : Busy(w) /\ KeyOf[agent[w].ask] \in late => agent[w].step \in Early

Registered == held /\ ~demo /\ Usable => registry = "active"

Sending(k) == \E w \in Agents : agent[w].step = "sent" /\ KeyOf[agent[w].ask] = k
SentKeys == {k \in ExecutionKeys : upstream[k] = 1 /\ ~Sending(k)}
MeterBehind ==
    /\ meter \in Nat /\ (demo => meter = 0)
    /\ meter <= Cardinality(SentKeys)

WithdrawalInv == LateHeld /\ Registered /\ MeterBehind

LEMMA InitWithdrawal == Init => WithdrawalInv
<1> SUFFICES ASSUME Init PROVE WithdrawalInv
  OBVIOUS
<1>1. LateHeld /\ Registered
  BY DEF Init, EgressInit, LateHeld, Registered
<1>2. SentKeys \in SUBSET ExecutionKeys
  BY DEF SentKeys
<1>3. Cardinality(SentKeys) \in Nat
  BY <1>2, KeysFinite
<1>4. MeterBehind
  BY <1>3 DEF Init, EgressInit, MeterBehind
<1> QED BY <1>1, <1>4 DEF WithdrawalInv

LEMMA RegisteredStays == ASSUME EgressInv, Registered, held \in BOOLEAN, Next PROVE Registered'
<1>1. CASE Create
  <2>1. held' = demo /\ demo' = demo
    BY <1>1 DEF Create
  <2> QED BY <2>1 DEF Registered
<1>2. CASE Index
  BY <1>2 DEF Index, Registered
<1>3. CASE IssueFailed \/ Withdraw \/ Expire \/ Alarm
  <2>1. capability \in [created : BOOLEAN, revoked : BOOLEAN, expired : BOOLEAN,
                        used : Int, reserved : Int]
    BY DEF EgressInv, Typed
  <2>2. ~Usable'
    BY <1>3, <2>1 DEF IssueFailed, Withdraw, Expire, Alarm, Revoke, Usable
  <2> QED BY <2>2 DEF Registered
<1>4. CASE RegisterRevoked
  BY <1>4 DEF RegisterRevoked, Registered, Usable
<1>5. CASE Snapshot
  BY <1>5 DEF Snapshot, Registered, Usable
<1>6. CASE DeleteCredential \/ (\E q \in Asks : Replay(q)) \/ SpendElsewhere \/ Refunded
  BY <1>6 DEF DeleteCredential, Replay, SpendElsewhere, Refunded, egress, objects, Registered, Usable
<1>7. ASSUME NEW w \in Agents, AgentNext(w) PROVE Registered'
  <2>1. UNCHANGED <<demo, held, registry>>
    BY <1>7 DEF AgentNext, Begin, Resolve, UseCredential, ReadBalance, Uncharged, Refused,
       ConsumeCredits, Insufficient, BillingLost, Decrypt, Send, Receive, Complete, Abandon,
       OnlyAgents, objects
  <2>2. /\ capability'.created = capability.created /\ capability'.revoked = capability.revoked
        /\ capability'.expired = capability.expired
    <3>1. CASE \E q \in Asks : Begin(w, q)
      BY <3>1 DEF Begin, EgressInv, Typed
    <3>2. CASE Complete(w)
      BY <3>2 DEF Complete, EgressInv, Typed
    <3>3. CASE UNCHANGED capability
      BY <3>3
    <3> QED BY <1>7, <3>1, <3>2, <3>3 DEF AgentNext, Resolve, UseCredential, ReadBalance, Uncharged,
            Refused, ConsumeCredits, Insufficient, BillingLost, Decrypt, Send, Receive, Abandon,
            OnlyAgents, objects
  <2> QED BY <2>1, <2>2 DEF Registered, Usable
<1> QED BY <1>1, <1>2, <1>3, <1>4, <1>5, <1>6, <1>7 DEF Next

\* A Worker at most changes its own step, to one that is not past /use.
LEMMA LateStays ==
    ASSUME LateHeld, credential' => credential, late' = late, upstream' = upstream,
           \A v \in Agents : \/ agent'[v] = agent[v]
                             \/ agent'[v].step \in Early \cup {"idle"}
                             \/ /\ Busy(v) /\ agent'[v].ask = agent[v].ask
                                /\ KeyOf[agent[v].ask] \notin late
    PROVE  LateHeld'
<1>1. late' \subseteq ExecutionKeys /\ (late' # {} => ~credential')
  BY DEF LateHeld
<1>2. \A k \in late' : upstream'[k] = 0
  BY DEF LateHeld
<1>3. ASSUME NEW v \in Agents, agent'[v].step # "idle", KeyOf[agent'[v].ask] \in late'
      PROVE  agent'[v].step \in Early
  BY <1>3 DEF LateHeld, Busy
<1> QED BY <1>1, <1>2, <1>3 DEF LateHeld, Busy

\* The meter stays, and no key that was sent is sent again.
LEMMA MeterStays ==
    ASSUME MeterBehind, SentKeys \subseteq SentKeys', UNCHANGED <<meter, demo>>
    PROVE  MeterBehind'
<1>1. SentKeys' \in SUBSET ExecutionKeys
  BY DEF SentKeys
<1>2. IsFiniteSet(SentKeys') /\ Cardinality(SentKeys') \in Nat /\ Cardinality(SentKeys) \in Nat
      /\ Cardinality(SentKeys) <= Cardinality(SentKeys')
  <2>1. IsFiniteSet(SentKeys') /\ Cardinality(SentKeys') \in Nat
    BY <1>1, KeysFinite
  <2> QED BY <2>1, FS_Subset, FS_CardinalityType
<1> QED BY <1>2 DEF MeterBehind

LEMMA SentStays ==
    ASSUME upstream' = upstream,
           \A v \in Agents : agent'[v].step = "sent" => agent'[v] = agent[v]
    PROVE  SentKeys \subseteq SentKeys'
  BY DEF SentKeys, Sending

LEMMA SendWithdrawal ==
    ASSUME EgressInv, WithdrawalInv, NEW w \in Agents, Send(w)
    PROVE  LateHeld' /\ MeterBehind'
<1> DEFINE k == KeyOf[agent[w].ask]
<1>1. /\ agent[w].step = "armed" /\ Goes(w, "sent") /\ upstream' = [upstream EXCEPT ![k] = @ + 1]
      /\ UNCHANGED <<demo, late, credential, meter>>
  BY DEF Send, objects
<1>2. Busy(w) /\ k \in ExecutionKeys /\ upstream[k] = 0
  BY <1>1, BusyFits DEF Fits, FitsAt
<1>3. PICK a \in Records :
        agent' = [agent EXCEPT ![w] = a] /\ a.step = "sent" /\ a.ask = agent[w].ask
  BY <1>1, GoesTo DEF EgressInv, Steps
<1>4. /\ agent'[w] = a /\ \A v \in Agents : v # w => agent'[v] = agent[v]
      /\ \A j \in ExecutionKeys : j # k => upstream'[j] = upstream[j]
  BY <1>1, <1>2, <1>3 DEF EgressInv, Typed
<1>5. k \notin late
  BY <1>1, <1>2 DEF WithdrawalInv, LateHeld, Early
<1> HIDE DEF k
<1>6. LateHeld'
  <2>1. late' \subseteq ExecutionKeys /\ (late' # {} => ~credential') /\ \A j \in late' : upstream'[j] = 0
    BY <1>1, <1>4, <1>5 DEF WithdrawalInv, LateHeld
  <2>2. \A v \in Agents : agent'[v].step # "idle" /\ KeyOf[agent'[v].ask] \in late'
           => agent'[v].step \in Early
    BY <1>1, <1>3, <1>4, <1>5 DEF WithdrawalInv, LateHeld, Busy, k
  <2> QED BY <2>1, <2>2 DEF LateHeld, Busy
<1>7. SentKeys \subseteq SentKeys'
  <2> SUFFICES ASSUME NEW j \in ExecutionKeys, upstream[j] = 1, ~Sending(j)
               PROVE  upstream'[j] = 1 /\ ~Sending(j)'
    BY DEF SentKeys
  <2>1. j # k
    BY <1>2
  <2> QED BY <1>3, <1>4, <2>1 DEF Sending, k
<1> QED BY <1>1, <1>6, <1>7, MeterStays DEF WithdrawalInv

LEMMA ReceiveWithdrawal ==
    ASSUME EgressInv, WithdrawalInv, NEW w \in Agents, Receive(w)
    PROVE  LateHeld' /\ MeterBehind'
<1> DEFINE k == KeyOf[agent[w].ask]
<1>1. /\ agent[w].step = "sent" /\ meter' \in {meter, IF demo THEN meter ELSE meter + 1}
      /\ UNCHANGED <<demo, late, credential, upstream>>
  BY DEF Receive, objects
<1>2. PICK outcome \in {"completed", "ambiguous"} : Ends(w, outcome, Price)
  BY DEF Receive
<1>3. Busy(w) /\ k \in ExecutionKeys /\ upstream[k] = 1
  BY <1>1, BusyFits DEF Fits, FitsAt
<1>4. PICK a \in Records :
        agent' = [agent EXCEPT ![w] = a] /\ a.step = "finish" /\ a.ask = agent[w].ask
  BY <1>2, EndsWith, Facts DEF EgressInv, Outcomes
<1>5. agent'[w] = a /\ \A v \in Agents : v # w => agent'[v] = agent[v]
  BY <1>4 DEF EgressInv, Typed
<1>6. LateHeld'
  BY <1>1, <1>4, <1>5, LateStays DEF WithdrawalInv, Early
<1>7. \A v \in Agents : agent[v].step = "sent" /\ KeyOf[agent[v].ask] = k => v = w
  BY <1>1 DEF EgressInv, OneWorker, Busy
<1>8. k \notin SentKeys /\ k \in SentKeys' /\ SentKeys \subseteq SentKeys'
  <2>1. k \notin SentKeys
    BY <1>1 DEF SentKeys, Sending
  <2>2. \A v \in Agents : ~(agent'[v].step = "sent" /\ KeyOf[agent'[v].ask] = k)
    BY <1>4, <1>5, <1>7
  <2>3. SentKeys \subseteq SentKeys'
    BY <1>1, <1>4, <1>5, SentStays
  <2>4. upstream'[k] = 1 /\ k \in ExecutionKeys
    BY <1>1, <1>3
  <2> HIDE DEF k
  <2>5. k \in SentKeys'
    BY <2>2, <2>4 DEF SentKeys, Sending
  <2> QED BY <2>1, <2>3, <2>5
<1> HIDE DEF k
<1>9. Cardinality(SentKeys) + 1 <= Cardinality(SentKeys') /\ Cardinality(SentKeys) \in Nat
      /\ Cardinality(SentKeys') \in Nat
  <2>1. SentKeys' \in SUBSET ExecutionKeys
    BY DEF SentKeys
  <2>2. IsFiniteSet(SentKeys') /\ Cardinality(SentKeys') \in Nat
    BY <2>1, KeysFinite
  <2> DEFINE S == SentKeys' \ {k}
  <2>3. IsFiniteSet(S) /\ Cardinality(S) = Cardinality(SentKeys') - 1
    BY <1>8, <2>2, FS_RemoveElement
  <2>4. SentKeys \subseteq S
    BY <1>8
  <2> HIDE DEF S
  <2>5. Cardinality(SentKeys) <= Cardinality(S) /\ IsFiniteSet(SentKeys)
    BY <2>3, <2>4, FS_Subset
  <2>6. Cardinality(SentKeys) \in Nat
    BY <2>5, FS_CardinalityType
  <2> QED BY <2>2, <2>3, <2>5, <2>6
<1>10. MeterBehind'
  BY <1>1, <1>9 DEF WithdrawalInv, MeterBehind
<1> QED BY <1>6, <1>10

\* Who begins after a withdrawal begins without a credential.
LEMMA BeginWithdrawal ==
    ASSUME EgressInv, WithdrawalInv, NEW w \in Agents, NEW q \in Asks, Begin(w, q)
    PROVE  LateHeld' /\ MeterBehind'
<1> DEFINE k == KeyOf[q]
           a == [Resting EXCEPT !.step = "begun", !.ask = q]
<1>1. /\ k \in ExecutionKeys /\ execution[k].state = "none" /\ ~Gone /\ ~capability.revoked
      /\ agent' = [agent EXCEPT ![w] = a] /\ UNCHANGED <<demo, upstream, credential, meter>>
      /\ late' = IF Withdrawn THEN late \cup {k} ELSE late
  BY Facts DEF Begin, Usable, Fresh, Gone
<1>2. a \in Records /\ a.step = "begun" /\ a.ask = q
  BY DEF Resting, Records, Steps
<1> HIDE DEF a
<1>3. agent'[w] = a /\ \A v \in Agents : v # w => agent'[v] = agent[v]
  BY <1>1, <1>2 DEF EgressInv, Typed
<1>4. upstream[k] = 0
  BY <1>1 DEF EgressInv, KeysFit, KeyFits
<1>5. \A v \in Agents : Busy(v) => KeyOf[agent[v].ask] # k
  BY <1>1 DEF EgressInv, WorkersFit, Claims
<1>6. /\ late' \subseteq late \cup {k} /\ (late' # {} => ~credential')
  BY <1>1 DEF Withdrawn, WithdrawalInv, LateHeld
<1>7. LateHeld'
  <2>1. late' \subseteq ExecutionKeys /\ \A j \in late' : upstream'[j] = 0
    BY <1>1, <1>4, <1>6 DEF WithdrawalInv, LateHeld
  <2>2. ASSUME NEW v \in Agents, agent'[v].step # "idle", KeyOf[agent'[v].ask] \in late'
        PROVE  agent'[v].step \in Early
    BY <1>2, <1>3, <1>5, <1>6, <2>2 DEF WithdrawalInv, LateHeld, Busy, Early
  <2> QED BY <1>6, <2>1, <2>2 DEF LateHeld, Busy
<1>8. SentKeys \subseteq SentKeys'
  BY <1>1, <1>2, <1>3, SentStays
<1> QED BY <1>1, <1>7, <1>8, MeterStays DEF WithdrawalInv

\* The other steps of a Worker.
LEMMA StepWithdrawal ==
    ASSUME EgressInv, WithdrawalInv, NEW w \in Agents,
           \/ Resolve(w) \/ UseCredential(w) \/ ReadBalance(w) \/ Uncharged(w) \/ Refused(w)
           \/ ConsumeCredits(w) \/ Insufficient(w) \/ BillingLost(w) \/ Decrypt(w) \/ Complete(w)
           \/ Abandon(w)
    PROVE  LateHeld' /\ MeterBehind'
<1>1. UNCHANGED <<demo, late, credential, meter, upstream>>
  BY DEF Resolve, UseCredential, ReadBalance, Uncharged, Refused, ConsumeCredits, Insufficient,
     BillingLost, Decrypt, Complete, Abandon, OnlyAgents, objects, traces
<1>2. \A v \in Agents : v # w => agent'[v] = agent[v]
  BY DEF Resolve, UseCredential, ReadBalance, Uncharged, Refused, ConsumeCredits, Insufficient,
     BillingLost, Decrypt, Complete, Abandon, Goes, Ends, EgressInv, Typed
<1>3. \/ agent'[w].step \in Early \cup {"idle"}
      \/ /\ Busy(w) /\ agent'[w].ask = agent[w].ask /\ agent'[w].step # "sent"
         /\ KeyOf[agent[w].ask] \notin late
  <2>1. agent[w] \in Records /\ agent \in [Agents -> Records]
    BY DEF EgressInv, Typed
  <2>2. CASE Resolve(w)
    BY <2>1, <2>2 DEF Resolve, Goes, Records, Early
  <2>3. CASE UseCredential(w) \/ ReadBalance(w) \/ Uncharged(w) \/ ConsumeCredits(w)
             \/ (Decrypt(w) /\ Goes(w, "armed"))
    <3>1. PICK s \in {"released", "funded", "billed", "armed"} : Goes(w, s)
      BY <2>3 DEF UseCredential, ReadBalance, Uncharged, ConsumeCredits
    <3>2. agent'[w].step = s /\ agent'[w].ask = agent[w].ask
      BY <2>1, <3>1 DEF Goes, Records
    <3>3. Busy(w)
      BY <2>3 DEF UseCredential, ReadBalance, Uncharged, ConsumeCredits, Decrypt, Busy
    <3>4. credential \/ agent[w].step \notin Early
      BY <2>3 DEF UseCredential, Releasable, ReadBalance, Uncharged, ConsumeCredits, Decrypt, Early
    <3>5. KeyOf[agent[w].ask] \notin late
      BY <3>3, <3>4 DEF WithdrawalInv, LateHeld
    <3> QED BY <3>2, <3>3, <3>5
  <2>4. CASE \E outcome, billed : Ends(w, outcome, billed)
    <3>1. agent'[w].step = "finish"
      BY <2>1, <2>4 DEF Ends, Records
    <3> QED BY <3>1 DEF Early
  <2>5. CASE Complete(w) \/ Abandon(w)
    BY <2>1, <2>5 DEF Complete, Abandon, Resting
  <2>6. Refused(w) \/ Insufficient(w) \/ BillingLost(w) => \E outcome, billed : Ends(w, outcome, billed)
    BY DEF Refused, Insufficient, BillingLost
  <2>7. Decrypt(w) => Goes(w, "armed") \/ \E outcome, billed : Ends(w, outcome, billed)
    BY DEF Decrypt
  <2> QED BY <2>2, <2>3, <2>4, <2>5, <2>6, <2>7
<1>4. LateHeld'
  BY <1>1, <1>2, <1>3, LateStays DEF WithdrawalInv
<1>5. SentKeys \subseteq SentKeys'
  BY <1>1, <1>2, <1>3, SentStays DEF Early
<1> QED BY <1>1, <1>4, <1>5, MeterStays DEF WithdrawalInv

LEMMA NextWithdrawal ==
    ASSUME EgressInv, WithdrawalInv, held \in BOOLEAN, [Next]_vars
    PROVE  WithdrawalInv'
<1>1. Registered'
  <2>1. CASE UNCHANGED vars
    BY <2>1 DEF vars, egress, objects, WithdrawalInv, Registered, Usable
  <2> QED BY <2>1, RegisteredStays DEF WithdrawalInv
<1>2. CASE \/ Create \/ Index \/ IssueFailed \/ Withdraw \/ RegisterRevoked \/ Snapshot \/ Expire
           \/ Alarm \/ DeleteCredential \/ (\E q \in Asks : Replay(q)) \/ SpendElsewhere \/ Refunded
           \/ UNCHANGED vars
  <2>1. UNCHANGED <<demo, late, meter, upstream, agent>> /\ (credential' => credential)
    BY <1>2 DEF Create, Index, IssueFailed, Withdraw, RegisterRevoked, Snapshot, Expire, Alarm,
       DeleteCredential, OnlyCapability, Replay, SpendElsewhere, Refunded, vars, egress, objects,
       traces
  <2>2. LateHeld'
    BY <2>1, LateStays DEF WithdrawalInv
  <2>3. SentKeys \subseteq SentKeys'
    BY <2>1, SentStays
  <2> QED BY <1>1, <2>1, <2>2, <2>3, MeterStays DEF WithdrawalInv
<1>3. ASSUME NEW w \in Agents, AgentNext(w) PROVE LateHeld' /\ MeterBehind'
  BY <1>3, BeginWithdrawal, StepWithdrawal, SendWithdrawal, ReceiveWithdrawal DEF AgentNext
<1> QED BY <1>1, <1>2, <1>3 DEF Next, WithdrawalInv

HeldTyped == held \in BOOLEAN

LEMMA HeldIsTyped == HeldTyped /\ demo \in BOOLEAN /\ [Next]_vars => HeldTyped'
  BY ZenonT(60) DEF HeldTyped, Next, Create, Index, IssueFailed, Withdraw, RegisterRevoked, Snapshot, Expire,
     Alarm, DeleteCredential, OnlyCapability, Replay, SpendElsewhere, Refunded, vars, egress,
     objects, AgentNext, Begin, Resolve, UseCredential, ReadBalance, Uncharged, Refused,
     ConsumeCredits, Insufficient, BillingLost, Decrypt, Send, Receive, Complete, Abandon, OnlyAgents

LEMMA InvWithdrawal == EgressInv /\ WithdrawalInv => WithdrawalHolds
<1> SUFFICES ASSUME EgressInv, WithdrawalInv PROVE WithdrawalHolds
  OBVIOUS
<1>1. Countable(replay, ExecutionKeys)
  BY KeysFinite, Facts DEF Countable, EgressInv, Typed
<1>2. SentKeys \in SUBSET ExecutionKeys
  BY DEF SentKeys
<1>3. Cardinality(SentKeys) \in Nat
  BY <1>2, KeysFinite
<1>4. meter * PerAttempt <= SumFunctionOnSet(replay, ExecutionKeys)
  <2>1. CASE demo
    <3>1. meter = 0
      BY <2>1 DEF WithdrawalInv, MeterBehind
    <3>2. SumFunctionOnSet(replay, ExecutionKeys) \in Nat
      BY <1>1, SumNat
    <3> QED BY <3>1, <3>2
  <2>2. CASE ~demo
    <3>1. \A k \in SentKeys : PerAttempt <= replay[k]
      BY <2>2 DEF SentKeys, EgressInv, KeysFit, KeyFits, Price
    <3>2. PerAttempt * Cardinality(SentKeys) <= SumFunctionOnSet(replay, ExecutionKeys)
      BY <1>1, <1>2, <3>1, SumAtLeast
    <3>3. meter \in Nat /\ meter <= Cardinality(SentKeys)
      BY DEF WithdrawalInv, MeterBehind
    <3>4. \A m, n, p \in Nat : m <= n => m * p <= p * n
      <4> SUFFICES ASSUME NEW m \in Nat, NEW n \in Nat, NEW p \in Nat, m <= n PROVE m * p <= p * n
        OBVIOUS
      <4>1. (n - m) \in Nat /\ (n - m) * p \in Nat
        OBVIOUS
      <4>2. (n - m) * p = p * n - m * p /\ p * n \in Int /\ m * p \in Int
        OBVIOUS
      <4> QED BY <4>1, <4>2
    <3>5. meter * PerAttempt <= PerAttempt * Cardinality(SentKeys)
      BY <1>3, <3>3, <3>4
    <3>6. SumFunctionOnSet(replay, ExecutionKeys) \in Nat /\ meter * PerAttempt \in Nat
          /\ PerAttempt * Cardinality(SentKeys) \in Nat
      BY <1>1, <1>3, <3>3, SumNat
    <3> QED BY <3>2, <3>5, <3>6
  <2> QED BY <2>1, <2>2
<1> QED BY <1>4 DEF WithdrawalHolds, WithdrawalInv, LateHeld, Registered

(***************************************************************************)
(* What was begun after the credential was deleted never reaches the       *)
(* provider, an operator's usable token has its row in the registry, and   *)
(* the meter counts no attempt that was not sent and paid for (/use and    *)
(* /record of egress-vault.js, issueCapability).                           *)
(***************************************************************************)
THEOREM WithdrawsAtOnce == Spec => []WithdrawalHolds
<1>1. Init => WithdrawalInv /\ HeldTyped
  BY InitWithdrawal DEF Init, EgressInit, HeldTyped
<1>2. EgressInv /\ WithdrawalInv /\ HeldTyped /\ [Next]_vars => WithdrawalInv' /\ HeldTyped'
  BY NextWithdrawal, HeldIsTyped DEF HeldTyped, EgressInv, Typed
<1> QED BY <1>1, <1>2, Inductive, InvWithdrawal, PTL DEF Spec
-----------------------------------------------------------------------------
(***************************************************************************)
(* That an authority which remembers its promise uses one key pair, for    *)
(* any number of authorities, requests, restarts and failed generations.   *)
(***************************************************************************)

\* While a pair is generated nothing is stored and one request is at it; a
\* pair in memory or at hand is the stored one.
KeysTyped ==
    /\ stored \in [Authorities -> Pairs \cup {NoPair}]
    /\ keyPromise \in [Authorities -> Pairs \cup {NoPair, Pending}]
    /\ user \in [Users -> [step : {"away", "waiting", "generating", "holding"},
                           at : Authorities \cup {NoAuthority}, pair : Pairs \cup {NoPair}]]
OneGenerates ==
    \A u \in Users : user[u].step = "generating" =>
        /\ user[u].at \in Authorities
        /\ user[u].at \in Memoised =>
            /\ keyPromise[user[u].at] = Pending /\ stored[user[u].at] = NoPair
            /\ \A v \in Users : user[v].step = "generating" /\ user[v].at = user[u].at => u = v
PromiseStored ==
    \A a \in Memoised : keyPromise[a] \in Pairs => stored[a] = keyPromise[a]
HeldStored ==
    \A u \in Users : user[u].step = "holding" =>
        /\ user[u].at \in Authorities /\ user[u].pair \in Pairs
        /\ user[u].at \in Memoised => stored[user[u].at] = user[u].pair

KeyInv == KeysTyped /\ OneGenerates /\ PromiseStored /\ HeldStored /\ KeysStand

USE MemoAssumption, PairAssumption

-----------------------------------------------------------------------------
LEMMA KeyInitEstablishes == KeyInit => KeyInv
  BY DEF KeyInit, KeyInv, KeysTyped, OneGenerates, PromiseStored, HeldStored, KeysStand, Away

UserRecords == [step : {"away", "waiting", "generating", "holding"},
            at : Authorities \cup {NoAuthority}, pair : Pairs \cup {NoPair}]

\* Requests wait, leave, or take the stored pair, whatever the memory becomes,
\* as long as it is left pending for those who generate.
LEMMA KeyMoveKeeps ==
    ASSUME KeyInv, user' \in [Users -> UserRecords],
           keyPromise' \in [Authorities -> Pairs \cup {NoPair, Pending}],
           UNCHANGED <<stored, signed>>,
           \A v \in Users : user'[v] # user[v] =>
               /\ user'[v].step \in {"away", "waiting", "holding"}
               /\ user'[v].step = "holding" =>
                    /\ user'[v].at \in Authorities /\ user'[v].pair \in Pairs
                    /\ stored[user'[v].at] = user'[v].pair,
           \A a \in Memoised : keyPromise'[a] # keyPromise[a] =>
               /\ keyPromise'[a] \in Pairs => stored[a] = keyPromise'[a]
               /\ \A v \in Users : user'[v].step = "generating" => user'[v].at # a
    PROVE  KeyInv'
<1>1. KeysTyped'
  BY DEF KeyInv, KeysTyped, UserRecords
<1>2. OneGenerates'
  BY DEF KeyInv, OneGenerates
<1>3. PromiseStored'
  BY DEF KeyInv, PromiseStored
<1>4. HeldStored'
  BY DEF KeyInv, HeldStored
<1> QED BY <1>1, <1>2, <1>3, <1>4 DEF KeyInv, KeysStand

LEMMA JoinKeeps ==
    ASSUME KeyInv, NEW u \in Users, NEW a \in Authorities, Join(u, a)
    PROVE  KeyInv'
<1>1. /\ a \in Memoised /\ keyPromise[a] # NoPair
      /\ UNCHANGED <<stored, keyPromise, signed>>
  BY DEF Join, Remembers
<1>2. keyPromise[a] = Pending \/ (keyPromise[a] \in Pairs /\ stored[a] = keyPromise[a])
  BY <1>1 DEF KeyInv, KeysTyped, PromiseStored
<1> DEFINE s == IF keyPromise[a] = Pending THEN Waiting(a) ELSE Holding(a, keyPromise[a])
<1>3. /\ s \in UserRecords /\ s.step \in {"waiting", "holding"}
      /\ s.step = "holding" => s.at = a /\ s.pair \in Pairs /\ stored[a] = s.pair
  BY <1>2 DEF Waiting, Holding, UserRecords
<1>4. user' = [user EXCEPT ![u] = s]
  BY DEF Join
<1> HIDE DEF s
<1>5. user' \in [Users -> UserRecords] /\ user'[u] = s /\ \A v \in Users \ {u} : user'[v] = user[v]
  BY <1>3, <1>4 DEF KeyInv, KeysTyped, UserRecords
<1>6. keyPromise' \in [Authorities -> Pairs \cup {NoPair, Pending}]
  BY <1>1 DEF KeyInv, KeysTyped
<1> QED BY <1>1, <1>3, <1>5, <1>6, KeyMoveKeeps

LEMMA ReadKeeps ==
    ASSUME KeyInv, NEW u \in Users, NEW a \in Authorities, Read(u, a)
    PROVE  KeyInv'
<1>1. /\ a \in Memoised => keyPromise[a] = NoPair
      /\ stored[a] \in Pairs /\ UNCHANGED <<stored, signed>>
      /\ user' = [user EXCEPT ![u] = Holding(a, stored[a])]
  BY DEF Read, Remembers, KeyInv, KeysTyped
<1>2. Holding(a, stored[a]) \in UserRecords
  BY <1>1 DEF Holding, UserRecords
<1>3. /\ user' \in [Users -> UserRecords] /\ user'[u] = Holding(a, stored[a])
      /\ \A v \in Users \ {u} : user'[v] = user[v]
  BY <1>1, <1>2 DEF KeyInv, KeysTyped, UserRecords
<1>4. /\ keyPromise' \in [Authorities -> Pairs \cup {NoPair, Pending}]
      /\ \A b \in Memoised : keyPromise'[b] # keyPromise[b] => b = a /\ keyPromise'[b] = stored[a]
  BY <1>1 DEF Read, Remember, Remembers, KeyInv, KeysTyped
<1>5. \A v \in Users : user'[v].step = "generating" /\ user'[v].at \in Memoised =>
          keyPromise[user'[v].at] = Pending
  BY <1>3 DEF Holding, KeyInv, OneGenerates
<1>6. \A b \in Memoised : keyPromise'[b] # keyPromise[b] =>
          /\ keyPromise'[b] \in Pairs => stored[b] = keyPromise'[b]
          /\ \A v \in Users : user'[v].step = "generating" => user'[v].at # b
  BY <1>1, <1>4, <1>5
<1>7. \A v \in Users : user'[v] # user[v] =>
          /\ user'[v].step \in {"away", "waiting", "holding"}
          /\ user'[v].step = "holding" =>
               /\ user'[v].at \in Authorities /\ user'[v].pair \in Pairs
               /\ stored[user'[v].at] = user'[v].pair
  BY <1>1, <1>3 DEF Holding
<1> QED BY <1>1, <1>3, <1>4, <1>6, <1>7, KeyMoveKeeps

LEMMA GenerateKeeps ==
    ASSUME KeyInv, NEW u \in Users, NEW a \in Authorities, Generate(u, a)
    PROVE  KeyInv'
<1>1. /\ a \in Memoised => keyPromise[a] = NoPair
      /\ stored[a] = NoPair /\ UNCHANGED <<stored, signed>>
      /\ user' = [user EXCEPT ![u] = Generating(a)]
  BY DEF Generate, Remembers
<1>2. Generating(a) \in UserRecords
  BY DEF Generating, UserRecords
<1>3. /\ user' \in [Users -> UserRecords] /\ user'[u] = Generating(a)
      /\ \A v \in Users \ {u} : user'[v] = user[v]
  BY <1>1, <1>2 DEF KeyInv, KeysTyped, UserRecords
<1>4. /\ keyPromise' \in [Authorities -> Pairs \cup {NoPair, Pending}]
      /\ a \in Memoised => keyPromise'[a] = Pending
      /\ \A b \in Memoised \ {a} : keyPromise'[b] = keyPromise[b]
  BY DEF Generate, Remember, Remembers, KeyInv, KeysTyped
<1>5. \A v \in Users \ {u} : user[v].step = "generating" /\ user[v].at = a => a \notin Memoised
  BY <1>1 DEF KeyInv, OneGenerates
<1>6. KeysTyped'
  BY <1>1, <1>3, <1>4 DEF KeyInv, KeysTyped, UserRecords
<1>7. OneGenerates'
  <2>1. user'[u].at = a /\ user'[u].step = "generating"
    BY <1>3 DEF Generating
  <2> QED BY <2>1, <1>1, <1>3, <1>4, <1>5 DEF KeyInv, OneGenerates
<1>8. PromiseStored'
  BY <1>1, <1>4 DEF KeyInv, PromiseStored
<1>9. HeldStored'
  BY <1>1, <1>3 DEF KeyInv, HeldStored, Generating
<1> QED BY <1>1, <1>6, <1>7, <1>8, <1>9 DEF KeyInv, KeysStand

\* The pair is stored once: nothing was used before, nobody else generates.
LEMMA KeepKeeps ==
    ASSUME KeyInv, NEW u \in Users, NEW k \in Pairs, Keep(u, k)
    PROVE  KeyInv'
<1> DEFINE a == user[u].at
<1>1. /\ user[u].step = "generating" /\ a \in Authorities
      /\ a \in Memoised => keyPromise[a] = Pending /\ stored[a] = NoPair
      /\ stored' = [stored EXCEPT ![a] = k] /\ signed' = signed
  BY DEF Keep, KeyInv, OneGenerates
<1>2. Holding(a, k) \in UserRecords /\ Holding(a, k).step = "holding"
      /\ Holding(a, k).at = a /\ Holding(a, k).pair = k
  BY <1>1 DEF Holding, UserRecords
<1>3. user' = [v \in Users |-> IF v \in Sharing(u) THEN Holding(a, k) ELSE user[v]]
  BY DEF Keep
<1> HIDE DEF a
<1>4. user' \in [Users -> UserRecords]
  BY <1>2, <1>3 DEF KeyInv, KeysTyped, UserRecords
<1>5. \A v \in Users : \/ user'[v].step = "holding" /\ user'[v].at = a /\ user'[v].pair = k
                       \/ user'[v] = user[v] /\ v # u
  BY <1>2, <1>3 DEF Sharing
<1>6. /\ stored' \in [Authorities -> Pairs \cup {NoPair}] /\ stored'[a] = k
      /\ \A b \in Authorities \ {a} : stored'[b] = stored[b]
  BY <1>1 DEF KeyInv, KeysTyped
<1>7. /\ keyPromise' \in [Authorities -> Pairs \cup {NoPair, Pending}]
      /\ a \in Memoised => keyPromise'[a] = k
      /\ \A b \in Memoised \ {a} : keyPromise'[b] = keyPromise[b]
  BY <1>1 DEF Keep, Remember, Remembers, KeyInv, KeysTyped, a
<1>8. KeysTyped'
  BY <1>4, <1>6, <1>7 DEF KeysTyped, UserRecords
<1>9. a \in Memoised => \A v \in Users \ {u} :
        /\ ~(user[v].step = "generating" /\ user[v].at = a)
        /\ ~(user[v].step = "holding" /\ user[v].at = a)
  BY <1>1 DEF KeyInv, OneGenerates, HeldStored, a
<1>10. OneGenerates'
  BY <1>5, <1>6, <1>7, <1>9 DEF KeyInv, OneGenerates
<1>11. PromiseStored'
  BY <1>6, <1>7 DEF KeyInv, PromiseStored
<1>12. HeldStored'
  BY <1>1, <1>5, <1>6, <1>9 DEF KeyInv, HeldStored
<1>13. KeysStand'
  BY <1>1, <1>6 DEF KeyInv, KeysStand
<1> QED BY <1>8, <1>10, <1>11, <1>12, <1>13 DEF KeyInv

LEMMA RejectKeeps ==
    ASSUME KeyInv, NEW u \in Users, Reject(u)
    PROVE  KeyInv'
<1> DEFINE a == user[u].at
<1>1. /\ user[u].step = "generating" /\ a \in Authorities /\ UNCHANGED <<stored, signed>>
      /\ a \in Memoised => \A v \in Users : user[v].step = "generating" /\ user[v].at = a => u = v
  BY DEF Reject, KeyInv, OneGenerates
<1>2. Away \in UserRecords /\ Away.step = "away"
  BY DEF Away, UserRecords
<1>3. user' = [v \in Users |-> IF v \in Sharing(u) THEN Away ELSE user[v]] /\ u \in Sharing(u)
  BY DEF Reject, Sharing
<1>4. user' \in [Users -> UserRecords]
  BY <1>2, <1>3 DEF KeyInv, KeysTyped, UserRecords
<1>5. \A v \in Users : user'[v].step = "away" \/ (user'[v] = user[v] /\ v # u)
  BY <1>2, <1>3
<1>6. /\ keyPromise' \in [Authorities -> Pairs \cup {NoPair, Pending}]
      /\ \A b \in Memoised : keyPromise'[b] # keyPromise[b] => b = a /\ keyPromise'[b] = NoPair
  BY <1>1 DEF Reject, Remember, Remembers, KeyInv, KeysTyped
<1> HIDE DEF a
<1>7. \A b \in Memoised : keyPromise'[b] # keyPromise[b] =>
          /\ keyPromise'[b] \in Pairs => stored[b] = keyPromise'[b]
          /\ \A v \in Users : user'[v].step = "generating" => user'[v].at # b
  BY <1>1, <1>5, <1>6
<1> QED BY <1>1, <1>4, <1>5, <1>7, <1>6, KeyMoveKeeps

LEMMA ApplyKeeps ==
    ASSUME KeyInv, NEW u \in Users, Apply(u)
    PROVE  KeyInv'
<1>1. /\ user[u].step = "holding" /\ UNCHANGED <<stored, keyPromise>>
      /\ signed' = signed \cup {<<user[u].at, user[u].pair>>}
      /\ user' = [user EXCEPT ![u] = Away]
  BY DEF Apply
<1>2. Away \in UserRecords /\ Away.step = "away"
  BY DEF Away, UserRecords
<1>3. /\ user' \in [Users -> UserRecords] /\ user'[u] = Away
      /\ \A v \in Users \ {u} : user'[v] = user[v]
  BY <1>1, <1>2 DEF KeyInv, KeysTyped, UserRecords
<1>4. KeysTyped' /\ OneGenerates' /\ PromiseStored' /\ HeldStored'
  BY <1>1, <1>2, <1>3 DEF KeyInv, KeysTyped, OneGenerates, PromiseStored, HeldStored, UserRecords
<1>5. KeysStand'
  BY <1>1 DEF KeyInv, KeysStand, HeldStored
<1> QED BY <1>4, <1>5 DEF KeyInv

LEMMA RestartKeeps ==
    ASSUME KeyInv, NEW a \in Authorities, Restart(a)
    PROVE  KeyInv'
<1>1. /\ keyPromise' = [keyPromise EXCEPT ![a] = NoPair] /\ UNCHANGED <<stored, signed>>
      /\ user' = [v \in Users |-> IF user[v].at = a THEN Away ELSE user[v]]
  BY DEF Restart
<1>2. Away \in UserRecords /\ Away.step = "away"
  BY DEF Away, UserRecords
<1>3. user' \in [Users -> UserRecords]
  BY <1>1, <1>2 DEF KeyInv, KeysTyped, UserRecords
<1>4. \A v \in Users : user'[v].step = "away" \/ (user'[v] = user[v] /\ user[v].at # a)
  BY <1>1, <1>2
<1>5. /\ keyPromise' \in [Authorities -> Pairs \cup {NoPair, Pending}]
      /\ \A b \in Memoised : keyPromise'[b] # keyPromise[b] => b = a /\ keyPromise'[b] = NoPair
  BY <1>1 DEF KeyInv, KeysTyped
<1>6. \A b \in Memoised : keyPromise'[b] # keyPromise[b] =>
          /\ keyPromise'[b] \in Pairs => stored[b] = keyPromise'[b]
          /\ \A v \in Users : user'[v].step = "generating" => user'[v].at # b
  BY <1>4, <1>5
<1> QED BY <1>1, <1>3, <1>4, <1>5, <1>6, KeyMoveKeeps

LEMMA KeyNextKeeps == KeyInv /\ [KeyNext]_keyVars => KeyInv'
<1> SUFFICES ASSUME KeyInv, [KeyNext]_keyVars PROVE KeyInv'
  OBVIOUS
<1>1. ASSUME NEW u \in Users, NEW a \in Authorities, Join(u, a) \/ Read(u, a) \/ Generate(u, a)
      PROVE  KeyInv'
  BY <1>1, JoinKeeps, ReadKeeps, GenerateKeeps
<1>2. ASSUME NEW u \in Users, NEW k \in Pairs, Keep(u, k)
      PROVE  KeyInv'
  BY <1>2, KeepKeeps
<1>3. ASSUME NEW u \in Users, Reject(u) \/ Apply(u)
      PROVE  KeyInv'
  BY <1>3, RejectKeeps, ApplyKeeps
<1>4. ASSUME NEW a \in Authorities, Restart(a)
      PROVE  KeyInv'
  BY <1>4, RestartKeeps
<1>5. CASE UNCHANGED keyVars
  BY <1>5 DEF keyVars, KeyInv, KeysTyped, OneGenerates, PromiseStored, HeldStored, KeysStand
<1> QED BY <1>1, <1>2, <1>3, <1>4, <1>5 DEF KeyNext

-----------------------------------------------------------------------------
(***************************************************************************)
(* What an authority that keeps a keyPromise signed, sealed or published   *)
(* was done with the pair in its storage, whatever overlaps, fails or is   *)
(* restarted (keyRecord in product-entry.js, keys in egress-vault.js).     *)
(***************************************************************************)
THEOREM OnePair == KeySpec => []KeysStand
<1>1. KeyInv => KeysStand
  BY DEF KeyInv
<1> QED BY <1>1, KeyInitEstablishes, KeyNextKeeps, PTL DEF KeySpec
-----------------------------------------------------------------------------
(***************************************************************************)
(* The usage meter: a request id stands for one post, so that the events   *)
(* kept with one id are one event, and no Worker is at an event that was   *)
(* counted.                                                                *)
(***************************************************************************)
Events == [id : Nat, content : Contents, in : Months]
Counts == [events : Nat, tokens : Nat, incomplete : Nat]
Posts == [step : {"posted", "authenticated", "admitted"}, report : Reports, id : Nat]

UsageTyped ==
    /\ minute \in Minutes /\ posts \in Nat
    /\ event \in [Tenants -> [EventKeys -> Events \cup {NoEvent}]]
    /\ month \in [Tenants -> [Months -> Counts]]
    /\ client \in [Clients -> Posts \cup {Off}]
    /\ told \subseteq [report : Reports, id : Nat]
PostsApart ==
    \A c \in Clients : client[c] # Off =>
        /\ client[c].id <= posts
        /\ \A d \in Clients : client[d] # Off /\ client[d].id = client[c].id => c = d
EventsApart ==
    \A t \in Tenants : \A e \in Kept(t) :
        /\ e.id <= posts
        /\ \A f \in Kept(t) : f.id = e.id => f = e
        /\ \A c \in Clients : client[c] # Off => client[c].id # e.id
Tally ==
    \A t \in Tenants : \A n \in Months :
        /\ month[t][n].events = Cardinality(KeptIn(t, n))
        /\ month[t][n].tokens = TokensIn(KeptIn(t, n))
        /\ month[t][n].incomplete = Cardinality({e \in KeptIn(t, n) : e.content \in Partial})
ToldStands ==
    \A answer \in told : \A k \in KeysOf[answer.report] :
        LET e == event[TenantOf[answer.report]][k] IN
        e # NoEvent /\ e.id = answer.id /\ e.content = ContentOf[answer.report]

UsageInv == UsageTyped /\ PostsApart /\ EventsApart /\ Tally /\ ToldStands

USE ReportAssumption, UsageBoundsAssumption

LEMMA ReportFacts ==
    \A r \in Reports : /\ TenantOf[r] \in Tenants /\ ContentOf[r] \in Contents
                       /\ KeysOf[r] \subseteq EventKeys /\ KeysOf[r] # {}
  BY DEF Tenants, Contents, EventKeys

LEMMA OffIsNoPost == Off \notin Posts
  BY DEF Off, Posts

LEMMA KeptFinite ==
    ASSUME UsageTyped, NEW t \in Tenants
    PROVE  IsFiniteSet(Kept(t)) /\ Kept(t) \subseteq Events
<1>1. event[t] \in [EventKeys -> Events \cup {NoEvent}]
  BY DEF UsageTyped
<1>2. Kept(t) \subseteq Events
  BY <1>1 DEF Kept
<1>3. IsFiniteSet({event[t][k] : k \in EventKeys})
  <2> DEFINE f == event[t]
             T == {f[k] : k \in EventKeys}
  <2>1. f \in Surjection(EventKeys, T)
    BY <1>1 DEF Surjection
  <2> HIDE DEF f, T
  <2>2. IsFiniteSet(T)
    BY <2>1, DigestAssumption, FS_Surjection
  <2> QED BY <2>2 DEF f, T
<1> QED BY <1>2, <1>3, FS_Subset DEF Kept

LEMMA TokensNone == TokensIn({}) = 0
  BY FS_EmptySet, SumUnfolds DEF TokensIn

LEMMA TokensAdded ==
    ASSUME NEW S \in SUBSET Events, IsFiniteSet(S), NEW e \in Events, e \notin S
    PROVE  TokensIn(S \cup {e}) = TokensIn(S) + TokensOf[e.content] /\ TokensIn(S) \in Nat
<1> DEFINE f == [d \in S |-> TokensOf[d.content]]
           T == S \cup {e}
           g == [d \in T |-> TokensOf[d.content]]
<1>1. \A d \in Events : TokensOf[d.content] \in Nat
  BY DEF Events
<1>2. Countable(f, S) /\ Countable(g, T)
  BY <1>1, FS_AddElement DEF Countable
<1>3. /\ T \ {e} = S /\ e \in T /\ g[e] = TokensOf[e.content]
      /\ \A d \in S : f[d] = g[d]
  OBVIOUS
<1> HIDE DEF f, g, T
<1>4. SumFunctionOnSet(g, T) = g[e] + SumFunctionOnSet(g, S)
  BY <1>2, <1>3, SumNat, SumTakes
<1>5. SumFunctionOnSet(f, S) = SumFunctionOnSet(g, S) /\ SumFunctionOnSet(f, S) \in Nat
  BY <1>2, <1>3, SumNat, SumSame
<1>6. TokensIn(S) = SumFunctionOnSet(f, S) /\ TokensIn(S \cup {e}) = SumFunctionOnSet(g, T)
  BY DEF TokensIn, f, g, T
<1> QED BY <1>1, <1>3, <1>4, <1>5, <1>6

LEMMA UsageInitEstablishes == UsageInit => UsageInv
<1> SUFFICES ASSUME UsageInit PROVE UsageInv
  OBVIOUS
<1>1. UsageTyped
  BY DEF UsageInit, UsageTyped, NoCounts, Counts, Minutes
<1>2. \A t \in Tenants : Kept(t) = {}
  BY DEF UsageInit, Kept
<1>3. \A t \in Tenants : \A n \in Months : KeptIn(t, n) = {}
  BY <1>2 DEF KeptIn
<1>4. Tally
  <2> SUFFICES ASSUME NEW t \in Tenants, NEW n \in Months
               PROVE  /\ month[t][n].events = Cardinality(KeptIn(t, n))
                      /\ month[t][n].tokens = TokensIn(KeptIn(t, n))
                      /\ month[t][n].incomplete
                           = Cardinality({e \in KeptIn(t, n) : e.content \in Partial})
    BY DEF Tally
  <2>1. month[t][n] = NoCounts
    BY DEF UsageInit
  <2>2. KeptIn(t, n) = {} /\ {e \in KeptIn(t, n) : e.content \in Partial} = {}
    BY <1>3
  <2>3. Cardinality({}) = 0
    BY FS_EmptySet
  <2> QED BY <2>1, <2>2, <2>3, TokensNone DEF NoCounts
<1>5. PostsApart /\ EventsApart /\ ToldStands
  BY <1>2 DEF UsageInit, PostsApart, EventsApart, ToldStands
<1> QED BY <1>1, <1>4, <1>5 DEF UsageInv

\* What is recorded stays, and a Worker goes on with its post or leaves.
LEMMA RecordsStay ==
    ASSUME UsageInv, UNCHANGED <<event, month, told>>, minute' \in Minutes,
           posts' \in Nat, posts <= posts',
           client' \in [Clients -> Posts \cup {Off}],
           \A c \in Clients : \/ client'[c] = Off
                              \/ client[c] # Off /\ client'[c].id = client[c].id
                              \/ /\ posts < client'[c].id /\ client'[c].id <= posts'
                                 /\ \A d \in Clients \ {c} : client'[d] = client[d]
    PROVE  UsageInv'
<1>1. UsageTyped'
  BY DEF UsageInv, UsageTyped
<1>2. \A t \in Tenants : Kept(t)' = Kept(t) /\ \A n \in Months : KeptIn(t, n)' = KeptIn(t, n)
  BY DEF Kept, KeptIn
<1>3. \A c \in Clients : client[c] # Off => client[c].id \in Nat
  BY DEF UsageInv, UsageTyped, Posts
<1>4. \A c \in Clients : client'[c] # Off => client'[c].id \in Nat
  BY <1>1 DEF UsageTyped, Posts
<1>5. posts \in Nat /\ posts' \in Nat /\ posts <= posts'
  BY DEF UsageInv, UsageTyped
<1>6. PostsApart'
  BY <1>3, <1>4, <1>5 DEF UsageInv, PostsApart
<1>7. EventsApart'
  <2> SUFFICES ASSUME NEW t \in Tenants, NEW e \in Kept(t)
               PROVE  /\ e.id <= posts'
                      /\ \A f \in Kept(t) : f.id = e.id => f = e
                      /\ \A c \in Clients : client'[c] # Off => client'[c].id # e.id
    BY <1>2 DEF EventsApart
  <2>1. e.id \in Nat
    BY KeptFinite DEF UsageInv, Events
  <2>2. /\ e.id <= posts
        /\ \A f \in Kept(t) : f.id = e.id => f = e
        /\ \A c \in Clients : client[c] # Off => client[c].id # e.id
    BY DEF UsageInv, EventsApart
  <2> QED BY <1>4, <1>5, <2>1, <2>2
<1>8. Tally'
  BY <1>2 DEF UsageInv, Tally
<1>9. ToldStands'
  BY DEF UsageInv, ToldStands
<1> QED BY <1>1, <1>6, <1>7, <1>8, <1>9 DEF UsageInv

LEMMA PassageKeeps ==
    ASSUME UsageInv,
           \/ \E c \in Clients : \/ \E r \in Reports, s \in Sources : PostReport(c, r, s)
                                 \/ Authenticate(c) \/ AdmitTenant(c) \/ Dismiss(c)
           \/ Tick
    PROVE  UsageInv'
<1>1. ASSUME NEW c \in Clients, NEW r \in Reports, NEW s \in Sources, PostReport(c, r, s)
      PROVE  UsageInv'
  <2> DEFINE p == [step |-> "posted", report |-> r, id |-> posts']
  <2>1. /\ posts' = posts + 1 /\ client' = [client EXCEPT ![c] = p]
        /\ UNCHANGED <<minute, event, month, told>>
    BY <1>1 DEF PostReport
  <2>2. posts \in Nat /\ minute \in Minutes
    BY DEF UsageInv, UsageTyped
  <2>3. p \in Posts /\ p.id = posts'
    BY <2>1, <2>2 DEF Posts
  <2> HIDE DEF p
  <2>4. client' \in [Clients -> Posts \cup {Off}] /\ client'[c] = p
        /\ \A d \in Clients : d # c => client'[d] = client[d]
    BY <2>1, <2>3 DEF UsageInv, UsageTyped
  <2>5. posts < client'[c].id /\ client'[c].id <= posts'
    BY <2>1, <2>2, <2>3, <2>4
  <2>6. \A d \in Clients : \/ client'[d] = Off
                           \/ client[d] # Off /\ client'[d].id = client[d].id
                           \/ /\ posts < client'[d].id /\ client'[d].id <= posts'
                              /\ \A b \in Clients \ {d} : client'[b] = client[b]
    BY <2>4, <2>5
  <2> QED BY <2>1, <2>2, <2>4, <2>6, RecordsStay
<1>2. ASSUME NEW c \in Clients, Authenticate(c) \/ AdmitTenant(c) \/ Dismiss(c)
      PROVE  UsageInv'
  <2>1. /\ client[c] # Off /\ UNCHANGED <<minute, event, month, told, posts>>
        /\ Leave(c) \/ To(c, "authenticated") \/ To(c, "admitted")
    BY <1>2 DEF Authenticate, AdmitTenant, Dismiss, Off
  <2>2. posts \in Nat /\ minute \in Minutes /\ client[c] \in Posts
    BY <2>1 DEF UsageInv, UsageTyped
  <2>3. PICK p \in Posts \cup {Off} :
          client' = [client EXCEPT ![c] = p] /\ (p = Off \/ p.id = client[c].id)
    <3>1. CASE Leave(c)
      BY <3>1 DEF Leave
    <3>2. ASSUME NEW step \in {"authenticated", "admitted"}, To(c, step)
          PROVE  \E p \in Posts : client' = [client EXCEPT ![c] = p] /\ p.id = client[c].id
      <4> DEFINE p == [client[c] EXCEPT !.step = step]
      <4>1. p \in Posts /\ p.id = client[c].id
        BY <2>2 DEF Posts
      <4>2. client' = [client EXCEPT ![c] = p]
        BY <3>2 DEF To
      <4> HIDE DEF p
      <4> QED BY <4>1, <4>2
    <3> QED BY <2>1, <3>1, <3>2
  <2>4. /\ client' \in [Clients -> Posts \cup {Off}]
        /\ \A d \in Clients : client'[d] = IF d = c THEN p ELSE client[d]
    BY <2>3 DEF UsageInv, UsageTyped
  <2>5. \A d \in Clients : client'[d] = Off \/ (client[d] # Off /\ client'[d].id = client[d].id)
    BY <2>1, <2>3, <2>4
  <2> QED BY <2>1, <2>2, <2>4, <2>5, RecordsStay
<1>3. CASE Tick
  <2>1. /\ minute < MaxMinute /\ minute' = minute + 1
        /\ UNCHANGED <<event, month, client, posts, told>>
    BY <1>3 DEF Tick
  <2>2. minute' \in Minutes /\ posts \in Nat /\ client \in [Clients -> Posts \cup {Off}]
    BY <2>1 DEF UsageInv, UsageTyped, Minutes
  <2> QED BY <2>1, <2>2, RecordsStay
<1> QED BY <1>1, <1>2, <1>3

\* What every step that records begins with.
LEMMA Admitted ==
    ASSUME UsageInv, NEW c \in Clients, client[c].step = "admitted"
    PROVE  client[c] # Off /\ client[c] \in Posts
  BY DEF UsageInv, UsageTyped, Off

LEMMA DuplicateKeeps == ASSUME UsageInv, NEW c \in Clients, Duplicate(c) PROVE UsageInv'
<1> DEFINE r == client[c].report
           t == TenantOf[r]
           prior == Prior(t, r)
<1>1. /\ client[c].step = "admitted" /\ OneEvent(prior, ContentOf[r]) /\ Leave(c)
      /\ UNCHANGED <<minute, month, posts>>
      /\ \E e \in prior : Bind(t, r, e) /\ Tell(r, e.id)
  BY DEF Duplicate
<1>2. /\ client[c] \in Posts /\ r \in Reports /\ t \in Tenants /\ ContentOf[r] \in Contents
      /\ KeysOf[r] \subseteq EventKeys /\ KeysOf[r] # {}
  BY <1>1, Admitted, ReportFacts DEF Posts
<1>3. PICK e \in prior : Bind(t, r, e) /\ Tell(r, e.id)
  BY <1>1
<1>4. e \in Kept(t) /\ e \in Events /\ e # NoEvent
  BY <1>2, <1>3, KeptFinite DEF Prior, Kept, UsageInv
<1>5. \A k \in KeysOf[r] : event[t][k] # NoEvent => event[t][k] = e
  <2> SUFFICES ASSUME NEW k \in KeysOf[r], event[t][k] # NoEvent PROVE event[t][k] = e
    OBVIOUS
  <2>1. event[t][k] \in prior /\ event[t][k] \in Kept(t)
    BY <1>2 DEF Prior, Kept
  <2>2. event[t][k].id = e.id
    BY <1>1, <1>3, <2>1 DEF OneEvent
  <2> QED BY <1>2, <1>4, <2>1, <2>2 DEF UsageInv, EventsApart
<1>6. e.content = ContentOf[r]
  BY <1>1, <1>3 DEF OneEvent
<1> HIDE DEF prior, t, r
<1>7. /\ event' = [event EXCEPT ![t] = [k \in EventKeys |-> IF k \in KeysOf[r] THEN e ELSE event[t][k]]]
      /\ told' = told \cup {[report |-> r, id |-> e.id]}
      /\ client' = [client EXCEPT ![c] = Off]
  BY <1>1, <1>3 DEF Bind, Tell, Leave
<1>8. /\ \A u \in Tenants : u # t => event'[u] = event[u]
      /\ \A k \in EventKeys : event'[t][k] = IF k \in KeysOf[r] THEN e ELSE event[t][k]
      /\ event' \in [Tenants -> [EventKeys -> Events \cup {NoEvent}]]
  BY <1>2, <1>4, <1>7 DEF UsageInv, UsageTyped
<1>9. \A u \in Tenants : Kept(u)' = Kept(u)
  <2> SUFFICES ASSUME NEW u \in Tenants PROVE Kept(u)' = Kept(u)
    OBVIOUS
  <2>1. CASE u # t
    BY <1>8, <2>1 DEF Kept
  <2>2. CASE u = t
    <3>1. \A k \in EventKeys : event[t][k] # NoEvent => event'[t][k] = event[t][k]
      BY <1>5, <1>8
    <3>2. \A k \in EventKeys : event'[t][k] = event[t][k] \/ event'[t][k] = e
      BY <1>8
    <3>3. PICK j \in EventKeys : event[t][j] = e
      BY <1>4 DEF Kept
    <3> QED BY <1>4, <2>2, <3>1, <3>2, <3>3 DEF Kept
  <2> QED BY <2>1, <2>2
<1>10. \A u \in Tenants : \A n \in Months : KeptIn(u, n)' = KeptIn(u, n)
  BY <1>9 DEF KeptIn
<1>11. /\ client' \in [Clients -> Posts \cup {Off}]
       /\ \A d \in Clients : client'[d] = Off \/ client'[d] = client[d]
  BY <1>7 DEF UsageInv, UsageTyped
<1>12. UsageTyped'
  <2>1. [report |-> r, id |-> e.id] \in [report : Reports, id : Nat]
    BY <1>2, <1>4 DEF Events
  <2> QED BY <1>1, <1>7, <1>8, <1>11, <2>1 DEF UsageInv, UsageTyped
<1>13. PostsApart'
  BY <1>1, <1>11 DEF UsageInv, PostsApart
<1>14. EventsApart'
  BY <1>1, <1>9, <1>11 DEF UsageInv, EventsApart
<1>15. Tally'
  BY SMTT(60), <1>1, <1>10 DEF UsageInv, Tally
<1>16. ToldStands'
  <2> SUFFICES ASSUME NEW answer \in told', NEW k \in KeysOf[answer.report]
               PROVE  LET f == event'[TenantOf[answer.report]][k] IN
                      f # NoEvent /\ f.id = answer.id /\ f.content = ContentOf[answer.report]
    BY DEF ToldStands
  <2>1. CASE answer \in told
    <3>1. answer.report \in Reports
      BY <2>1 DEF UsageInv, UsageTyped
    <3>2. TenantOf[answer.report] \in Tenants /\ k \in EventKeys
      BY <3>1, ReportFacts
    <3>3. LET f == event[TenantOf[answer.report]][k] IN
          f # NoEvent /\ f.id = answer.id /\ f.content = ContentOf[answer.report]
      BY <2>1 DEF UsageInv, ToldStands
    <3>4. event'[TenantOf[answer.report]][k] = event[TenantOf[answer.report]][k]
      BY <1>5, <1>8, <3>2, <3>3
    <3> QED BY <3>3, <3>4
  <2>2. CASE answer = [report |-> r, id |-> e.id]
    <3>1. answer.report = r /\ answer.id = e.id
      BY <2>2
    <3>2. event'[t][k] = e
      BY <1>2, <1>8, <3>1
    <3> QED BY <1>4, <1>6, <3>1, <3>2 DEF t
  <2> QED BY <1>7, <2>1, <2>2
<1> QED BY <1>12, <1>13, <1>14, <1>15, <1>16 DEF UsageInv

LEMMA AddedFits ==
    ASSUME NEW old \in Counts, NEW content \in Contents, NEW counts, counts = Added(old, content)
    PROVE  /\ counts \in Counts /\ counts.events = old.events + 1
           /\ counts.tokens = old.tokens + TokensOf[content]
           /\ content \in Partial => counts.incomplete = old.incomplete + 1
           /\ content \notin Partial => counts.incomplete = old.incomplete
<1>1. old.events \in Nat /\ old.tokens \in Nat /\ old.incomplete \in Nat
  BY DEF Counts
<1>2. TokensOf[content] \in Nat
  BY ReportAssumption
<1>3. CASE content \in Partial
  BY <1>1, <1>2, <1>3 DEF Added, Counts
<1>4. CASE content \notin Partial
  BY <1>1, <1>2, <1>4 DEF Added, Counts
<1> QED BY <1>3, <1>4

LEMMA MonthMoves ==
    ASSUME month \in [Tenants -> [Months -> Counts]], NEW t \in Tenants, NEW n \in Months,
           NEW counts \in Counts, month' = [month EXCEPT ![t][n] = counts]
    PROVE  /\ month'[t][n] = counts /\ month' \in [Tenants -> [Months -> Counts]]
           /\ \A u \in Tenants : \A m \in Months : u # t \/ m # n => month'[u][m] = month[u][m]
  OBVIOUS

LEMMA CountKeeps == ASSUME UsageInv, NEW c \in Clients, Count(c) PROVE UsageInv'
<1>r. PICK r : r = client[c].report
  OBVIOUS
<1>t. PICK t, n, content : t = TenantOf[r] /\ n = MonthOf[minute] /\ content = ContentOf[r]
  OBVIOUS
<1>e. PICK old, e : old = month[t][n] /\ e = [id |-> client[c].id, content |-> content, in |-> n]
  OBVIOUS
<1>c. PICK counts : counts = Added(old, content)
  OBVIOUS
<1>1. /\ client[c].step = "admitted" /\ Prior(t, r) = {} /\ Leave(c)
      /\ UNCHANGED <<minute, posts>> /\ month' = [month EXCEPT ![t][n] = counts]
      /\ Bind(t, r, e) /\ Tell(r, client[c].id)
  BY <1>r, <1>t, <1>e, <1>c DEF Count
<1>2. /\ client[c] \in Posts /\ client[c] # Off /\ r \in Reports /\ t \in Tenants
      /\ content \in Contents /\ KeysOf[r] \subseteq EventKeys /\ KeysOf[r] # {}
      /\ client[c].id \in Nat /\ n \in Months /\ old \in Counts
  <2>1. client[c] \in Posts /\ client[c] # Off
    BY <1>1, Admitted
  <2>2. r \in Reports /\ client[c].id \in Nat
    BY <1>r, <2>1 DEF Posts
  <2>3. n \in Months
    BY <1>t DEF Months, UsageInv, UsageTyped
  <2>4. t \in Tenants
    BY <1>t, <2>2, ReportFacts
  <2> QED BY <1>t, <1>e, <2>1, <2>2, <2>3, <2>4, ReportFacts DEF UsageInv, UsageTyped
<1>3. e \in Events /\ e # NoEvent /\ e.id = client[c].id /\ e.in = n /\ e.content = content
  <2>1. e \in Events /\ e.id = client[c].id /\ e.in = n /\ e.content = content
    BY <1>e, <1>2 DEF Events
  <2> QED BY <2>1 DEF Events
<1>4. \A k \in KeysOf[r] : event[t][k] = NoEvent
  BY <1>1 DEF Prior
<1>5. TokensOf[content] \in Nat
  BY <1>2
<1>6. /\ counts \in Counts /\ counts.events = old.events + 1
      /\ counts.tokens = old.tokens + TokensOf[content]
      /\ content \in Partial => counts.incomplete = old.incomplete + 1
      /\ content \notin Partial => counts.incomplete = old.incomplete
  <2>1. old \in Counts /\ content \in Contents
    BY <1>2
  <2> QED BY <1>c, <2>1, AddedFits
<1>7. /\ event' = [event EXCEPT ![t] = [k \in EventKeys |-> IF k \in KeysOf[r] THEN e ELSE event[t][k]]]
      /\ told' = told \cup {[report |-> r, id |-> e.id]}
      /\ client' = [client EXCEPT ![c] = Off]
  BY <1>1, <1>3 DEF Bind, Tell, Leave
<1>8. /\ \A u \in Tenants : u # t => event'[u] = event[u]
      /\ \A k \in EventKeys : event'[t][k] = IF k \in KeysOf[r] THEN e ELSE event[t][k]
      /\ event' \in [Tenants -> [EventKeys -> Events \cup {NoEvent}]]
  BY <1>2, <1>3, <1>7 DEF UsageInv, UsageTyped
<1>9. /\ \A u \in Tenants : u # t => Kept(u)' = Kept(u)
      /\ Kept(t)' = Kept(t) \cup {e} /\ e \notin Kept(t)
  <2>1. \A u \in Tenants : u # t => Kept(u)' = Kept(u)
    BY <1>8 DEF Kept
  <2>2. \A f \in Kept(t) : f.id # e.id
    BY <1>2, <1>3 DEF UsageInv, EventsApart
  <2>3. PICK j \in KeysOf[r] : TRUE
    BY <1>2
  <2>4. Kept(t)' = Kept(t) \cup {e}
    <3>1. j \in EventKeys /\ event'[t][j] = e
      BY <1>2, <1>8, <2>3
    <3>2. \A k \in EventKeys : event[t][k] # NoEvent => event'[t][k] = event[t][k]
      BY <1>4, <1>8
    <3>3. \A k \in EventKeys : event'[t][k] = event[t][k] \/ event'[t][k] = e
      BY <1>8
    <3>4. ASSUME NEW f \in Kept(t)' PROVE f \in Kept(t) \cup {e}
      <4>1. PICK k \in EventKeys : f = event'[t][k] /\ f # NoEvent
        BY DEF Kept
      <4> QED BY <3>3, <4>1 DEF Kept
    <3>5. ASSUME NEW f \in Kept(t) PROVE f \in Kept(t)'
      <4>1. PICK k \in EventKeys : f = event[t][k] /\ f # NoEvent
        BY DEF Kept
      <4> QED BY <3>2, <4>1 DEF Kept
    <3>6. e \in Kept(t)'
      BY <1>3, <3>1 DEF Kept
    <3> QED BY <3>4, <3>5, <3>6
  <2> QED BY <2>1, <2>2, <2>4
<1>10. /\ KeptIn(t, n)' = KeptIn(t, n) \cup {e} /\ e \notin KeptIn(t, n)
       /\ \A u \in Tenants : \A m \in Months :
            u # t \/ m # n => KeptIn(u, m)' = KeptIn(u, m)
  <2>1. KeptIn(t, n)' = KeptIn(t, n) \cup {e} /\ e \notin KeptIn(t, n)
    BY <1>3, <1>9 DEF KeptIn
  <2>2. ASSUME NEW u \in Tenants, NEW m \in Months, u # t
        PROVE  KeptIn(u, m)' = KeptIn(u, m)
    BY <1>9, <2>2 DEF KeptIn
  <2>3. ASSUME NEW m \in Months, m # n PROVE KeptIn(t, m)' = KeptIn(t, m)
    BY <1>3, <1>9, <2>3 DEF KeptIn
  <2> QED BY <2>1, <2>2, <2>3
<1>11. /\ month'[t][n] = counts /\ month' \in [Tenants -> [Months -> Counts]]
       /\ \A u \in Tenants : \A m \in Months : u # t \/ m # n => month'[u][m] = month[u][m]
  <2>1. month \in [Tenants -> [Months -> Counts]]
    BY DEF UsageInv, UsageTyped
  <2>2. counts \in Counts /\ t \in Tenants /\ n \in Months
    BY <1>2, <1>6
  <2>3. month' = [month EXCEPT ![t][n] = counts]
    BY <1>1
  <2> QED BY <2>1, <2>2, <2>3, MonthMoves
<1>12. /\ client' \in [Clients -> Posts \cup {Off}]
       /\ \A d \in Clients : client'[d] = Off \/ (d # c /\ client'[d] = client[d])
  BY <1>7 DEF UsageInv, UsageTyped
<1>13. UsageTyped'
  <2>1. [report |-> r, id |-> e.id] \in [report : Reports, id : Nat]
    BY <1>2, <1>3
  <2> QED BY <1>1, <1>7, <1>8, <1>11, <1>12, <2>1 DEF UsageInv, UsageTyped
<1>14. PostsApart'
  BY <1>1, <1>12 DEF UsageInv, PostsApart
<1>15. EventsApart'
  <2> SUFFICES ASSUME NEW u \in Tenants, NEW f \in Kept(u)'
               PROVE  /\ f.id <= posts'
                      /\ \A g \in Kept(u)' : g.id = f.id => g = f
                      /\ \A d \in Clients : client'[d] # Off => client'[d].id # f.id
    BY DEF EventsApart
  <2>1. e.id <= posts /\ \A d \in Clients : client'[d] # Off => client'[d].id # e.id
    BY <1>2, <1>3, <1>12 DEF UsageInv, PostsApart
  <2>2. \A g \in Kept(t) : g.id # e.id
    BY <1>2, <1>3 DEF UsageInv, EventsApart
  <2>3. ASSUME f \in Kept(u)
        PROVE  /\ f.id <= posts
               /\ \A g \in Kept(u) : g.id = f.id => g = f
               /\ \A d \in Clients : client'[d] # Off => client'[d].id # f.id
    BY <1>12, <2>3 DEF UsageInv, EventsApart
  <2>4. CASE u # t
    BY <1>1, <1>9, <2>3, <2>4
  <2>5. CASE u = t
    BY <1>1, <1>9, <2>1, <2>2, <2>3, <2>5
  <2> QED BY <2>4, <2>5
<1>16. Tally'
  <2> SUFFICES ASSUME NEW u \in Tenants, NEW m \in Months
               PROVE  /\ month'[u][m].events = Cardinality(KeptIn(u, m)')
                      /\ month'[u][m].tokens = TokensIn(KeptIn(u, m)')
                      /\ month'[u][m].incomplete
                           = Cardinality({d \in KeptIn(u, m)' : d.content \in Partial})
    BY DEF Tally, TokensIn
  <2>1. /\ month[u][m].events = Cardinality(KeptIn(u, m))
        /\ month[u][m].tokens = TokensIn(KeptIn(u, m))
        /\ month[u][m].incomplete = Cardinality({d \in KeptIn(u, m) : d.content \in Partial})
    BY DEF UsageInv, Tally
  <2>2. CASE u # t \/ m # n
    BY <1>10, <1>11, <2>1, <2>2
  <2>3. CASE u = t /\ m = n
    <3> DEFINE S == KeptIn(t, n)
               P == {d \in S : d.content \in Partial}
               Q == {d \in S \cup {e} : d.content \in Partial}
    <3>1. IsFiniteSet(S) /\ S \in SUBSET Events /\ IsFiniteSet(P)
      <4>1. IsFiniteSet(Kept(t)) /\ Kept(t) \subseteq Events
        BY <1>2, KeptFinite DEF UsageInv
      <4>2. S \subseteq Kept(t) /\ P \subseteq Kept(t)
        BY DEF KeptIn
      <4> QED BY <4>1, <4>2, FS_Subset
    <3>2. S = KeptIn(u, m) /\ KeptIn(u, m)' = S \cup {e} /\ e \notin S /\ e \notin P
      BY <1>10, <2>3
    <3>3. /\ e.content \in Partial => Q = P \cup {e}
          /\ e.content \notin Partial => Q = P
      OBVIOUS
    <3>4. P = {d \in KeptIn(u, m) : d.content \in Partial}
          /\ Q = {d \in KeptIn(u, m)' : d.content \in Partial}
      BY <3>2
    <3> HIDE DEF S, P, Q
    <3>5. Cardinality(S \cup {e}) = Cardinality(S) + 1
      BY <3>1, <3>2, FS_AddElement
    <3>6. TokensIn(S \cup {e}) = TokensIn(S) + TokensOf[e.content]
      BY <1>3, <3>1, <3>2, TokensAdded
    <3>7. /\ e.content \in Partial => Cardinality(Q) = Cardinality(P) + 1
          /\ e.content \notin Partial => Cardinality(Q) = Cardinality(P)
      <4>1. Cardinality(P \cup {e}) = Cardinality(P) + 1
        BY <3>1, <3>2, FS_AddElement
      <4> QED BY <3>3, <4>1
    <3>8. Cardinality(P) \in Nat
      BY <3>1, FS_CardinalityType
    <3>9. month[u][m] = old /\ month'[u][m] = counts
      BY <1>e, <1>11, <2>3
    <3>a. /\ old.events = Cardinality(S) /\ old.tokens = TokensIn(S)
          /\ old.incomplete = Cardinality(P)
      BY <2>1, <3>2, <3>4, <3>9
    <3>10. counts.events = Cardinality(S \cup {e})
      BY <1>6, <3>5, <3>a
    <3>11. counts.tokens = TokensIn(S \cup {e})
      BY <1>3, <1>6, <3>6, <3>a
    <3>12. counts.incomplete = Cardinality(Q)
      <4>1. CASE content \in Partial
        BY <1>3, <1>6, <3>7, <3>a, <4>1
      <4>2. CASE content \notin Partial
        BY <1>3, <1>6, <3>7, <3>a, <4>2
      <4> QED BY <4>1, <4>2
    <3>13. month'[u][m].events = Cardinality(KeptIn(u, m)')
      BY <3>2, <3>9, <3>10
    <3>14. month'[u][m].tokens = TokensIn(KeptIn(u, m)')
      BY <3>2, <3>9, <3>11
    <3>15. month'[u][m].incomplete = Cardinality({d \in KeptIn(u, m)' : d.content \in Partial})
      BY <3>4, <3>9, <3>12
    <3> QED BY <3>13, <3>14, <3>15
  <2> QED BY <2>2, <2>3
<1>17. ToldStands'
  <2> SUFFICES ASSUME NEW answer \in told', NEW k \in KeysOf[answer.report]
               PROVE  LET f == event'[TenantOf[answer.report]][k] IN
                      f # NoEvent /\ f.id = answer.id /\ f.content = ContentOf[answer.report]
    BY DEF ToldStands
  <2>1. CASE answer \in told
    <3>1. answer.report \in Reports
      BY <2>1 DEF UsageInv, UsageTyped
    <3>2. TenantOf[answer.report] \in Tenants /\ k \in EventKeys
      BY <3>1, ReportFacts
    <3>3. LET f == event[TenantOf[answer.report]][k] IN
          f # NoEvent /\ f.id = answer.id /\ f.content = ContentOf[answer.report]
      BY <2>1 DEF UsageInv, ToldStands
    <3>4. event'[TenantOf[answer.report]][k] = event[TenantOf[answer.report]][k]
      <4>1. ~(TenantOf[answer.report] = t /\ k \in KeysOf[r])
        BY <1>4, <3>3
      <4>2. CASE TenantOf[answer.report] = t
        BY <1>8, <3>2, <4>1, <4>2
      <4>3. CASE TenantOf[answer.report] # t
        BY <1>8, <3>2, <4>3
      <4> QED BY <4>2, <4>3
    <3> QED BY <3>3, <3>4
  <2>2. CASE answer = [report |-> r, id |-> e.id]
    <3>1. answer.report = r /\ answer.id = e.id
      BY <2>2
    <3>2. event'[t][k] = e
      BY <1>2, <1>8, <3>1
    <3> QED BY <1>t, <1>3, <3>1, <3>2
  <2> QED BY <1>7, <2>1, <2>2
<1> QED BY <1>13, <1>14, <1>15, <1>16, <1>17 DEF UsageInv

LEMMA UsageNextKeeps == UsageInv /\ [UsageNext]_usageVars => UsageInv'
<1> SUFFICES ASSUME UsageInv, [UsageNext]_usageVars PROVE UsageInv'
  OBVIOUS
<1>1. CASE \/ \E c \in Clients : \/ \E r \in Reports, s \in Sources : PostReport(c, r, s)
                                 \/ Authenticate(c) \/ AdmitTenant(c) \/ Dismiss(c)
           \/ Tick
  BY <1>1, PassageKeeps
<1>2. ASSUME NEW c \in Clients, Duplicate(c) \/ Count(c) PROVE UsageInv'
  BY <1>2, DuplicateKeeps, CountKeeps
<1>3. CASE UNCHANGED usageVars
  <2>1. UNCHANGED <<minute, event, month, client, posts, told>>
    BY <1>3 DEF usageVars
  <2>2. minute \in Minutes /\ posts \in Nat /\ client \in [Clients -> Posts \cup {Off}]
    BY DEF UsageInv, UsageTyped
  <2> QED BY <2>1, <2>2, RecordsStay
<1> QED BY <1>1, <1>2, <1>3 DEF UsageNext

(***************************************************************************)
(* However reports of token usage are repeated, raced or sent again under  *)
(* another key, an event is counted once, in the month it was recorded in, *)
(* and the answers given for its keys stand (recordUsage in                *)
(* agent-token-usage.js).                                                  *)
(***************************************************************************)
THEOREM CountsOnce == UsageSpec => []CountedOnce
<1>1. UsageInv => CountedOnce
  BY DEF UsageInv, Tally, ToldStands, CountedOnce
<1> QED BY <1>1, UsageInitEstablishes, UsageNextKeeps, PTL DEF UsageSpec
=============================================================================
