--------------------------- MODULE ActionRailProofs ---------------------------
(***************************************************************************)
(* That a permit causes one side effect, and that the permit, the ledger   *)
(* and the meters say what happened, for any number of permits, Workers,   *)
(* orders and units.                                                       *)
(*                                                                         *)
(* A status is read, and later written, by several Workers.  What keeps    *)
(* them apart is that a permit leaves "issued" for good: no write, not     *)
(* even that of a record read before, brings the status back.  So one      *)
(* Worker at most acts on a permit, and only it changes the answer of the  *)
(* target and the charge.                                                  *)
(***************************************************************************)
EXTENDS ActionRail, SumLemmas, FiniteSetTheorems, TLAPS

Active == {"call", "charge", "finish", "doubt", "meter"}
Acts(w, p) == work[w].on = p /\ work[w].pc \in Active
Acting(p) == \E w \in Workers : Acts(w, p)

WorkRecords ==
    [pc : {"idle", "verify", "call", "charge", "finish", "doubt", "meter", "done"},
     on : Permits \cup {NoPermit}, read : Records, billed : BOOLEAN]
MeterKinds == {"executed", "failed", "ambiguous", "billed"}
RailTyped ==
    /\ stage \in [Permits -> {"idle", "asked", "authorized", "issued", "refused"}]
    /\ permit \in [Permits -> Records]
    /\ work \in [Workers -> WorkRecords]
    /\ meter \in [MeterKinds -> Nat]
    /\ answer \in [Permits -> {<<>>} \cup {<<a>> : a \in Answers}]
    /\ replay \in [Tags -> Nat]

\* A permit that was not stored yet has no record, and no Worker.
StoredFirst ==
    /\ \A p \in Permits : stage[p] # "issued" => permit[p] = NoRecord
    /\ \A w \in Workers : work[w].pc \in Active \cup {"verify"} =>
          work[w].on \in Permits /\ stage[work[w].on] = "issued"

\* One Worker acts on a permit, which is no longer issued from then on.
OneActs ==
    /\ \A w, v \in Workers : \A p \in Permits : Acts(w, p) /\ Acts(v, p) => w = v
    /\ \A p \in Permits : permit[p].status \in {"none", "issued"} => ~Acting(p) /\ answer[p] = <<>>

\* A record that shows a charge was charged.
Charged(p) == answer[p] = <<"ok">> /\ (p \notin RailPermits => replay[p] = Units)
Honest(p, record) == record.billed => Charged(p)

\* What a Worker knows at each step.
StepFits(w) ==
    LET p == work[w].on IN
    /\ work[w].pc \in Active \cup {"verify"} => Honest(p, work[w].read) /\ Honest(p, work[w])
    /\ work[w].pc = "call" => answer[p] = <<>>
    /\ work[w].pc = "charge" => answer[p] = <<"ok">> /\ p \notin RailPermits
    /\ work[w].pc = "finish" =>
          answer[p] # <<>> /\ (p \notin RailPermits => answer[p] \in {<<"ok">>, <<"rejected">>})
    /\ work[w].pc = "doubt" =>
          answer[p] # <<>> /\ (p \notin RailPermits => answer[p] \in {<<"failed">>, <<"lost">>})
    /\ work[w].pc = "meter" /\ p \notin RailPermits =>
          /\ work[w].read.status = "executed" => answer[p] = <<"ok">>
          /\ work[w].read.status = "failed" => answer[p] = <<"rejected">>
StepsFit == \A w \in Workers : StepFits(w)

RecordTrue(p) ==
    /\ Honest(p, permit[p])
    /\ p \notin RailPermits =>
        /\ replay[p] > 0 => answer[p] = <<"ok">>
        /\ permit[p].status = "executed" => answer[p] = <<"ok">>
        /\ permit[p].status = "failed" => answer[p] = <<"rejected">>
        /\ permit[p].status = "ambiguous" => answer[p] \in {<<"failed">>, <<"lost">>}
RecordsTrue == \A p \in Permits : RecordTrue(p)

\* The permits that a meter may have counted: nobody acts on them any more.
Over(a) == {p \in Permits \ RailPermits : answer[p] = <<a>> /\ ~Acting(p)}
OverBilled == {p \in Permits : answer[p] = <<"ok">> /\ ~Acting(p) /\ (p \notin RailPermits => replay[p] > 0)}
MetersBehind ==
    /\ meter["executed"] <= Cardinality(Over("ok"))
    /\ meter["failed"] <= Cardinality(Over("rejected"))
    /\ meter["billed"] <= Cardinality(OverBilled)

ActionInv ==
    RailTyped /\ StoredFirst /\ OneActs /\ StepsFit /\ RecordsTrue /\ MetersBehind

USE PermitAssumption, UnitsAssumption

-----------------------------------------------------------------------------
LEMMA Sent == \A a : <<a>> # <<>>
  OBVIOUS

LEMMA OverFinite ==
    /\ \A S \in SUBSET Permits : IsFiniteSet(S) /\ Cardinality(S) \in Nat
    /\ \A S \in SUBSET Permits : \A T \in SUBSET S : Cardinality(T) <= Cardinality(S)
<1>1. \A S \in SUBSET Permits : IsFiniteSet(S)
  BY StorageAssumption, FS_Subset
<1>2. \A S \in SUBSET Permits : Cardinality(S) \in Nat
  BY <1>1, FS_CardinalityType
<1>3. \A S \in SUBSET Permits : \A T \in SUBSET S : Cardinality(T) <= Cardinality(S)
  BY <1>1, FS_Subset
<1> QED BY <1>1, <1>2, <1>3

\* The meters stay behind when the permits they may have counted are the same or more.
LEMMA MetersKeep ==
    ASSUME RailTyped, MetersBehind, UNCHANGED meter,
           \A a \in {"ok", "rejected"} : Over(a) \subseteq Over(a)',
           OverBilled \subseteq OverBilled'
    PROVE  MetersBehind'
<1>1. /\ Over("ok")' \subseteq Permits /\ Over("rejected")' \subseteq Permits
      /\ OverBilled' \subseteq Permits
  BY DEF Over, OverBilled
<1>2. /\ Cardinality(Over("ok")) <= Cardinality(Over("ok")')
      /\ Cardinality(Over("rejected")) <= Cardinality(Over("rejected")')
      /\ Cardinality(OverBilled) <= Cardinality(OverBilled')
  BY <1>1, OverFinite
<1>3. /\ Cardinality(Over("ok")) \in Nat /\ Cardinality(Over("ok")') \in Nat
      /\ Cardinality(Over("rejected")) \in Nat /\ Cardinality(Over("rejected")') \in Nat
      /\ Cardinality(OverBilled) \in Nat /\ Cardinality(OverBilled') \in Nat
  <2>1. /\ Over("ok") \subseteq Permits /\ Over("rejected") \subseteq Permits
        /\ OverBilled \subseteq Permits
    BY DEF Over, OverBilled
  <2> QED BY <1>1, <2>1, OverFinite
<1>4. meter["executed"] \in Nat /\ meter["failed"] \in Nat /\ meter["billed"] \in Nat
  BY DEF RailTyped, MeterKinds
<1> QED BY <1>2, <1>3, <1>4 DEF MetersBehind

LEMMA InitEstablishes == Init => ActionInv
<1> SUFFICES ASSUME Init PROVE ActionInv
  OBVIOUS
<1>1. RailTyped
  BY DEF Init, LedgerInit, RailTyped, MeterKinds, WorkRecords, NoRecord, Records, Idle
<1>2. \A w \in Workers : work[w].pc = "idle"
  BY DEF Init, Idle
<1>3. StoredFirst /\ OneActs /\ StepsFit
  BY <1>2 DEF Init, StoredFirst, OneActs, Acting, Acts, Active, StepsFit, StepFits, NoRecord
<1>4. RecordsTrue
  BY DEF Init, LedgerInit, RecordsTrue, RecordTrue, Honest, NoRecord
<1>5. MetersBehind
  <2>1. meter["executed"] = 0 /\ meter["failed"] = 0 /\ meter["billed"] = 0
    BY DEF Init
  <2>2. /\ Over("ok") \subseteq Permits /\ Over("rejected") \subseteq Permits
        /\ OverBilled \subseteq Permits
    BY DEF Over, OverBilled
  <2> QED BY <2>1, <2>2, OverFinite DEF MetersBehind
<1> QED BY <1>1, <1>3, <1>4, <1>5 DEF ActionInv

\* A step of the mandate, of billing or of the request that creates a permit.
LEMMA ElsewhereKeeps ==
    ASSUME ActionInv, UNCHANGED <<permit, work, meter, answer>>,
           replay' \in [Tags -> Nat], \A p \in Permits : replay'[p] = replay[p],
           stage' \in [Permits -> {"idle", "asked", "authorized", "issued", "refused"}],
           \A p \in Permits : stage'[p] = "issued" <=> stage[p] = "issued"
    PROVE  ActionInv'
<1>1. RailTyped'
  BY DEF ActionInv, RailTyped
<1>2. StoredFirst' /\ OneActs'
  BY DEF ActionInv, StoredFirst, OneActs, Acting, Acts
<1>3. StepsFit' /\ RecordsTrue'
  BY SMTT(60) DEF ActionInv, StepsFit, StepFits, StoredFirst, Active, RecordsTrue, RecordTrue, Honest, Charged
<1>4. /\ \A a \in {"ok", "rejected"} : Over(a)' = Over(a)
      /\ OverBilled' = OverBilled
  BY DEF Over, OverBilled, Acting, Acts
<1>5. MetersBehind'
  BY <1>4, MetersKeep DEF ActionInv
<1> QED BY <1>1, <1>2, <1>3, <1>5 DEF ActionInv

-----------------------------------------------------------------------------
(***************************************************************************)
(* A step of a Worker w on a permit p: w moves on to r, and p gets the     *)
(* record q, the answer a and the charge n.  What others know stays.       *)
(***************************************************************************)
WorkerStep(w, p, r, q, a, n) ==
    /\ work[w].pc \in Active \cup {"verify"} => work[w].on = p
    /\ r.pc \in Active \cup {"verify"} => r.on = p /\ stage[p] = "issued"
    /\ permit[p] # q => stage[p] = "issued"
    /\ work' = [work EXCEPT ![w] = r] /\ permit' = [permit EXCEPT ![p] = q]
    /\ answer' = [answer EXCEPT ![p] = a] /\ replay' = [replay EXCEPT ![p] = n]
    /\ UNCHANGED stage
    /\ UNCHANGED meter \/ (meter' \in [MeterKinds -> Nat] /\ MetersBehind')
    /\ \/ \A v \in Workers : Acts(v, p) => v = w
       \/ UNCHANGED <<answer, replay>> /\ r.pc \notin Active
    /\ r.pc \in Active => Acts(w, p) \/ answer[p] = <<>>
    /\ q.status \in {"none", "issued"} =>
          q.status = permit[p].status /\ a = answer[p] /\ r.pc \notin Active
    /\ answer[p] # <<>> => a = answer[p]
    /\ replay[p] > 0 => n = replay[p]

LEMMA StepKeeps ==
    ASSUME ActionInv, NEW w \in Workers, NEW p \in Permits, NEW r \in WorkRecords,
           NEW q \in Records, NEW a \in {<<>>} \cup {<<x>> : x \in Answers}, NEW n \in Nat,
           WorkerStep(w, p, r, q, a, n), StepFits(w)', RecordTrue(p)'
    PROVE  ActionInv'
<1>1. /\ work'[w] = r /\ permit'[p] = q /\ answer'[p] = a /\ replay'[p] = n
      /\ \A v \in Workers : v # w => work'[v] = work[v]
      /\ \A x \in Permits : x # p =>
            permit'[x] = permit[x] /\ answer'[x] = answer[x] /\ replay'[x] = replay[x]
  BY DEF WorkerStep, ActionInv, RailTyped
<1>2. RailTyped'
  BY DEF WorkerStep, ActionInv, RailTyped
<1>3. StoredFirst'
  <2>1. \A x \in Permits : stage'[x] # "issued" => permit'[x] = NoRecord
    BY <1>1 DEF WorkerStep, ActionInv, StoredFirst
  <2>2. \A v \in Workers : work'[v].pc \in Active \cup {"verify"} =>
          work'[v].on \in Permits /\ stage'[work'[v].on] = "issued"
    BY <1>1 DEF WorkerStep, ActionInv, StoredFirst
  <2> QED BY <2>1, <2>2 DEF StoredFirst
\* Only w may act on p from now on, and on another permit whoever did.
<1>4. \A v \in Workers : \A x \in Permits :
        Acts(v, x)' => Acts(v, x) \/ (v = w /\ x = p /\ answer[p] = <<>>)
  <2> SUFFICES ASSUME NEW v \in Workers, NEW x \in Permits, Acts(v, x)', ~Acts(v, x)
               PROVE  v = w /\ x = p /\ answer[p] = <<>>
    BY DEF Acts
  <2>1. work'[v].on = x /\ work'[v].pc \in Active /\ v = w
    BY <1>1 DEF Acts
  <2>2. r.on = x /\ r.pc \in Active
    BY <2>1, <1>1
  <2> QED BY <2>1, <2>2 DEF WorkerStep
<1>5. OneActs'
  <2>1. ASSUME NEW v \in Workers, NEW u \in Workers, NEW x \in Permits, Acts(v, x)', Acts(u, x)'
        PROVE  v = u
    <3>1. CASE Acts(v, x) /\ Acts(u, x)
      BY <3>1 DEF ActionInv, OneActs
    <3>2. CASE ~(Acts(v, x) /\ Acts(u, x))
      <4>1. x = p /\ Acts(w, p)' /\ r.pc \in Active
        BY <2>1, <3>2, <1>4, <1>1 DEF Acts
      <4>2. \A z \in Workers : Acts(z, p) => z = w
        BY <4>1 DEF WorkerStep
      <4> QED BY <2>1, <4>1, <4>2, <1>4
    <3> QED BY <3>1, <3>2
  <2>2. ASSUME NEW x \in Permits, permit'[x].status \in {"none", "issued"}
        PROVE  ~Acting(x)' /\ answer'[x] = <<>>
    <3>1. permit[x].status \in {"none", "issued"} /\ answer'[x] = answer[x]
      BY <2>2, <1>1 DEF WorkerStep
    <3>2. ~Acting(x) /\ answer[x] = <<>>
      BY <3>1 DEF ActionInv, OneActs
    <3>3. ASSUME NEW v \in Workers, Acts(v, x)' PROVE FALSE
      <4>1. v = w /\ x = p
        BY <3>2, <3>3, <1>4 DEF Acting
      <4>2. r.pc \notin Active
        BY <4>1, <2>2, <1>1 DEF WorkerStep
      <4> QED BY <4>1, <4>2, <3>3, <1>1 DEF Acts
    <3> QED BY <3>1, <3>2, <3>3 DEF Acting
  <2> QED BY <2>1, <2>2 DEF OneActs
\* A charge that was seen stands.
<1>6. ASSUME NEW x \in Permits
      PROVE  /\ Charged(x) => Charged(x)'
             /\ answer[x] # <<>> => answer'[x] = answer[x]
             /\ replay[x] > 0 => replay'[x] = replay[x]
  BY <1>1, Sent DEF WorkerStep, Charged
<1>7. StepsFit'
  <2> SUFFICES ASSUME NEW v \in Workers, v # w PROVE StepFits(v)'
    BY DEF StepsFit
  <2>1. StepFits(v) /\ work'[v] = work[v]
    BY <1>1 DEF ActionInv, StepsFit
  <2>2. CASE work[v].pc \in Active
    <3>1. work[v].on \in Permits
      BY <2>2 DEF ActionInv, StoredFirst
    <3>2. Acts(v, work[v].on)
      BY <2>2 DEF Acts
    <3>3. answer'[work[v].on] = answer[work[v].on]
      <4>1. CASE work[v].on = p
        BY <4>1, <3>2 DEF WorkerStep
      <4>2. CASE work[v].on # p
        BY <4>2, <3>1, <1>1
      <4> QED BY <4>1, <4>2
    <3>4. Charged(work[v].on) => Charged(work[v].on)'
      BY <3>1, <1>6, <2>1 DEF Charged
    <3> QED BY <2>1, <2>2, <3>3, <3>4 DEF StepFits, Honest, Charged, Active
  <2>3. CASE work[v].pc = "verify"
    <3>1. work[v].on \in Permits
      BY <2>3 DEF ActionInv, StoredFirst
    <3>2. Charged(work[v].on) => Charged(work[v].on)'
      BY <3>1, <1>6, <2>1 DEF Charged
    <3> QED BY <2>1, <2>3, <3>2 DEF StepFits, Honest, Charged, Active
  <2>4. CASE work[v].pc \notin Active \cup {"verify"}
    BY <2>1, <2>4 DEF StepFits, Active
  <2> QED BY <2>2, <2>3, <2>4
<1>8. RecordsTrue'
  <2> SUFFICES ASSUME NEW x \in Permits, x # p PROVE RecordTrue(x)'
    BY DEF RecordsTrue
  <2> QED BY <1>1 DEF ActionInv, RecordsTrue, RecordTrue, Honest, Charged
<1>9. \A x \in Permits : answer[x] # <<>> /\ ~Acting(x) => ~Acting(x)'
  BY <1>4 DEF Acting
<1>10. replay' \in [Tags -> Nat] /\ replay \in [Tags -> Nat]
  BY <1>2 DEF ActionInv, RailTyped
<1>11. MetersBehind'
  <2>1. \A b \in {"ok", "rejected"} : Over(b) \subseteq Over(b)'
    <3> SUFFICES ASSUME NEW b \in {"ok", "rejected"}, NEW x \in Over(b) PROVE x \in Over(b)'
      OBVIOUS
    <3>1. x \in Permits \ RailPermits /\ answer[x] = <<b>> /\ ~Acting(x)
      BY DEF Over
    <3>2. answer'[x] = <<b>> /\ ~Acting(x)'
      BY <3>1, <1>6, <1>9, Sent DEF Acting, Acts
    <3> QED BY <3>1, <3>2 DEF Over
  <2>2. OverBilled \subseteq OverBilled'
    <3> SUFFICES ASSUME NEW x \in OverBilled PROVE x \in OverBilled'
      OBVIOUS
    <3>1. /\ x \in Permits /\ answer[x] = <<"ok">> /\ ~Acting(x)
          /\ x \notin RailPermits => replay[x] > 0
      BY DEF OverBilled
    <3>2. /\ answer'[x] = <<"ok">> /\ ~Acting(x)'
          /\ x \notin RailPermits => replay'[x] > 0
      BY <3>1, <1>6, <1>9, Sent DEF Acting, Acts
    <3> QED BY <3>1, <3>2 DEF OverBilled
  <2>3. UNCHANGED meter \/ MetersBehind'
    BY DEF WorkerStep
  <2> QED BY <2>1, <2>2, <2>3, MetersKeep DEF ActionInv
<1> QED BY <1>2, <1>3, <1>5, <1>7, <1>8, <1>11 DEF ActionInv

-----------------------------------------------------------------------------
\* The pieces of the invariant that a step of w begins with.
LEMMA Knows ==
    ASSUME ActionInv, NEW w \in Workers, work[w].pc \in Active \cup {"verify"}, NEW p, p = work[w].on
    PROVE  /\ p \in Permits /\ stage[p] = "issued"
           /\ work[w] \in WorkRecords /\ permit[p] \in Records
           /\ answer[p] \in {<<>>} \cup {<<x>> : x \in Answers}
           /\ replay[p] \in Nat /\ replay \in [Tags -> Nat]
           /\ StepFits(w) /\ RecordTrue(p)
<1>1. p \in Permits /\ stage[p] = "issued"
  BY DEF ActionInv, StoredFirst
<1> QED BY <1>1 DEF ActionInv, RailTyped, StepsFit, RecordsTrue

LEMMA Alone ==
    ASSUME ActionInv, NEW w \in Workers, work[w].pc \in Active, NEW p, p = work[w].on
    PROVE  /\ Acts(w, p)
           /\ \A v \in Workers : Acts(v, p) => v = w
           /\ permit[p].status \notin {"none", "issued"}
<1>1. p \in Permits /\ Acts(w, p)
  BY Knows DEF Acts
<1> QED BY <1>1 DEF ActionInv, OneActs, Acting

\* Nothing but the Worker moves.
LEMMA MoveKeeps ==
    ASSUME ActionInv, NEW w \in Workers, work[w].pc \in Active \cup {"verify"},
           NEW p, p = work[w].on, NEW r \in WorkRecords, work' = [work EXCEPT ![w] = r],
           UNCHANGED <<stage, permit, meter, answer, replay>>,
           r.pc \in Active => r.on = p /\ work[w].pc \in Active,
           r.pc # "verify", StepFits(w)'
    PROVE  ActionInv'
<1>1. /\ p \in Permits /\ stage[p] = "issued" /\ RecordTrue(p)
      /\ permit[p] \in Records /\ answer[p] \in {<<>>} \cup {<<x>> : x \in Answers}
      /\ replay[p] \in Nat
  BY Knows
<1>2. /\ permit' = [permit EXCEPT ![p] = permit[p]] /\ answer' = [answer EXCEPT ![p] = answer[p]]
      /\ replay' = [replay EXCEPT ![p] = replay[p]]
  BY <1>1 DEF ActionInv, RailTyped
<1>3. RecordTrue(p)'
  BY <1>1 DEF RecordTrue, Honest, Charged
<1>4. WorkerStep(w, p, r, permit[p], answer[p], replay[p])
  <2>1. CASE work[w].pc \in Active
    BY <1>1, <1>2, <2>1, Alone DEF WorkerStep, Active
  <2>2. CASE work[w].pc \notin Active
    BY <1>1, <1>2, <2>2 DEF WorkerStep
  <2> QED BY <2>1, <2>2
<1> QED BY <1>1, <1>3, <1>4, StepKeeps

\* A Worker stops, and what it stored about its permit is true.
LEMMA StopsFit ==
    ASSUME NEW w \in Workers, RailTyped, Stop(w)
    PROVE  StepFits(w)' /\ Done \in WorkRecords /\ Done.pc = "done"
  BY DEF Stop, Done, Idle, StepFits, Active, RailTyped, WorkRecords, NoRecord, Records

LEMMA DieKeeps ==
    ASSUME ActionInv, NEW w \in Workers, Die(w)
    PROVE  ActionInv'
<1>1. work[w].pc \in Active \cup {"verify"}
  BY DEF Die, ActionInv, RailTyped, WorkRecords, Active
<1>2. StepFits(w)' /\ Done \in WorkRecords /\ Done.pc = "done"
  BY StopsFit DEF Die, ActionInv
<1>3. work' = [work EXCEPT ![w] = Done] /\ UNCHANGED <<stage, permit, meter, answer, replay>>
  BY DEF Die, Stop, ledger
<1> QED BY <1>1, <1>2, <1>3, MoveKeeps DEF Active

LEMMA BeginReadKeeps ==
    ASSUME ActionInv, NEW w \in Workers, NEW p \in Permits, BeginRead(w, p)
    PROVE  ActionInv'
<1> DEFINE r == [pc |-> "verify", on |-> p, read |-> permit[p], billed |-> FALSE]
<1>1. /\ permit[p] \in Records /\ answer[p] \in {<<>>} \cup {<<x>> : x \in Answers}
      /\ replay[p] \in Nat /\ stage[p] = "issued" /\ work[w].pc = "idle"
      /\ RecordTrue(p) /\ work' = [work EXCEPT ![w] = r]
      /\ UNCHANGED <<stage, permit, meter, answer, replay>>
  BY DEF BeginRead, ActionInv, RailTyped, Idle, RecordsTrue, ledger
<1>2. r \in WorkRecords
  BY <1>1 DEF WorkRecords
<1>3. RecordTrue(p)'
  BY <1>1 DEF RecordTrue, Honest, Charged
<1>4. StepFits(w)'
  <2>1. work'[w] = r
    BY <1>1 DEF ActionInv, RailTyped
  <2> QED BY <1>1, <1>3, <2>1 DEF StepFits, RecordTrue, Honest, Active
<1>5. /\ permit' = [permit EXCEPT ![p] = permit[p]] /\ answer' = [answer EXCEPT ![p] = answer[p]]
      /\ replay' = [replay EXCEPT ![p] = replay[p]]
  BY <1>1 DEF ActionInv, RailTyped
<1>6. WorkerStep(w, p, r, permit[p], answer[p], replay[p])
  BY <1>1, <1>5 DEF WorkerStep, Active
<1> QED BY <1>1, <1>2, <1>3, <1>4, <1>6, StepKeeps

\* An issued permit is taken, or a record read before is written over it as expired.
LEMMA BeginKeeps ==
    ASSUME ActionInv, NEW w \in Workers, Begin(w)
    PROVE  ActionInv'
<1> SUFFICES ASSUME NEW p, p = work[w].on PROVE ActionInv'
  OBVIOUS
<1>1. work[w].pc = "verify" /\ UNCHANGED <<stage, meter, answer, replay>>
  BY DEF Begin, ledger
<1>2. /\ p \in Permits /\ stage[p] = "issued" /\ work[w] \in WorkRecords
      /\ permit[p] \in Records /\ answer[p] \in {<<>>} \cup {<<x>> : x \in Answers}
      /\ replay[p] \in Nat /\ StepFits(w) /\ RecordTrue(p)
  BY <1>1, Knows
<1>3. answer' = [answer EXCEPT ![p] = answer[p]] /\ replay' = [replay EXCEPT ![p] = replay[p]]
  BY <1>1, <1>2 DEF ActionInv, RailTyped
<1>4. CASE permit[p].status = "issued" /\ work' = [work EXCEPT ![w].pc = "call"]
           /\ permit' = [permit EXCEPT ![p].status = "executing"]
  <2> DEFINE r == [work[w] EXCEPT !.pc = "call"]
             q == [permit[p] EXCEPT !.status = "executing"]
  <2>1. r \in WorkRecords /\ r.pc = "call" /\ r.on = p /\ r.read = work[w].read /\ r.billed = work[w].billed
    BY <1>2 DEF WorkRecords
  <2>2. q \in Records /\ q.status = "executing" /\ q.billed = permit[p].billed
    BY <1>2 DEF Records
  <2>3. work' = [work EXCEPT ![w] = r] /\ permit' = [permit EXCEPT ![p] = q]
    BY <1>4 DEF ActionInv, RailTyped
  <2>4. answer[p] = <<>> /\ \A v \in Workers : ~Acts(v, p)
    BY <1>2, <1>4 DEF ActionInv, OneActs, Acting
  <2>5. work'[w] = r /\ permit'[p] = q
    BY <2>3, <1>2 DEF ActionInv, RailTyped
  <2>6. RecordTrue(p)'
    BY <1>1, <1>2, <2>2, <2>5 DEF RecordTrue, Honest, Charged
  <2>7. StepFits(w)'
    BY <1>1, <1>2, <2>1, <2>4, <2>5 DEF StepFits, Honest, Charged, Active
  <2>8. WorkerStep(w, p, r, q, answer[p], replay[p])
    BY <1>1, <1>2, <1>3, <2>1, <2>2, <2>3, <2>4 DEF WorkerStep, Active
  <2> HIDE DEF r, q
  <2> QED BY <1>2, <2>1, <2>2, <2>6, <2>7, <2>8, StepKeeps
<1>5. CASE Stop(w) /\ permit' = [permit EXCEPT ![p] = [work[w].read EXCEPT !.status = "expired"]]
  <2> DEFINE q == [work[w].read EXCEPT !.status = "expired"]
  <2>1. q \in Records /\ q.status = "expired" /\ q.billed = work[w].read.billed
    BY <1>2 DEF Records, WorkRecords
  <2>2. StepFits(w)' /\ Done \in WorkRecords /\ Done.pc = "done" /\ work' = [work EXCEPT ![w] = Done]
    BY <1>5, StopsFit DEF ActionInv, Stop
  <2>3. permit'[p] = q
    BY <1>2, <1>5 DEF ActionInv, RailTyped
  <2>4. Honest(p, work[w].read)
    BY <1>1, <1>2 DEF StepFits
  <2>5. RecordTrue(p)'
    BY <1>1, <1>2, <2>1, <2>3, <2>4 DEF RecordTrue, Honest, Charged
  <2>6. WorkerStep(w, p, Done, q, answer[p], replay[p])
    BY <1>1, <1>2, <1>3, <1>5, <2>1, <2>2 DEF WorkerStep, Active
  <2> HIDE DEF q
  <2> QED BY <1>2, <2>1, <2>2, <2>5, <2>6, StepKeeps
<1>6. CASE Stop(w) /\ UNCHANGED permit
  <2>1. StepFits(w)' /\ Done \in WorkRecords /\ Done.pc = "done" /\ work' = [work EXCEPT ![w] = Done]
    BY <1>6, StopsFit DEF ActionInv, Stop
  <2> QED BY <1>1, <1>6, <2>1, MoveKeeps DEF Active
<1> QED BY <1>4, <1>5, <1>6 DEF Begin, Executable, Step

\* The target answers w, who may also act itself under a rail permit.
AnswerStep(w, p, x, r) ==
    /\ work[w].pc = "call" /\ p = work[w].on
    /\ answer' = [answer EXCEPT ![p] = Append(answer[p], x)]
    /\ work' = [work EXCEPT ![w] = r] /\ r.on = p /\ r.read = work[w].read
    /\ \/ p \in RailPermits /\ r.pc \in {"finish", "doubt"} /\ (r.billed => x = "ok")
       \/ p \notin RailPermits /\ r.pc = ActionAnswer(x) /\ r.billed = work[w].billed
    /\ UNCHANGED <<stage, permit, meter, replay>>

LEMMA AnswerKeeps ==
    ASSUME ActionInv, NEW w \in Workers, NEW p, NEW x \in Answers, NEW r \in WorkRecords,
           AnswerStep(w, p, x, r)
    PROVE  ActionInv'
<1> USE DEF AnswerStep
<1>1. /\ p \in Permits /\ stage[p] = "issued" /\ work[w] \in WorkRecords
      /\ permit[p] \in Records /\ replay[p] \in Nat /\ StepFits(w) /\ RecordTrue(p)
  BY Knows DEF Active
<1>2. answer[p] = <<>> /\ ~Charged(p) /\ ~work[w].read.billed /\ ~work[w].billed
  BY <1>1, Sent DEF StepFits, Honest, Charged, Active
<1>3. answer' = [answer EXCEPT ![p] = <<x>>] /\ answer'[p] = <<x>>
  BY <1>1, <1>2 DEF ActionInv, RailTyped
<1>4. permit' = [permit EXCEPT ![p] = permit[p]] /\ replay' = [replay EXCEPT ![p] = replay[p]]
  BY <1>1 DEF ActionInv, RailTyped
<1>5. work'[w] = r
  BY DEF ActionInv, RailTyped
<1>6. RecordTrue(p)'
  BY <1>1, <1>2, <1>3, Sent DEF RecordTrue, Honest, Charged
<1>7. r.pc \in {"charge", "finish", "doubt"}
  BY DEF ActionAnswer
<1>8. StepFits(w)'
  <2>1. CASE p \in RailPermits
    <3>1. r.pc \in {"finish", "doubt"} /\ (r.billed => x = "ok")
      BY <2>1
    <3> QED BY <1>2, <1>3, <1>5, <2>1, <3>1, Sent DEF StepFits, Honest, Charged, Active
  <2>2. CASE p \notin RailPermits
    <3>1. /\ r.pc = "charge" => x = "ok"
          /\ r.pc = "finish" => x = "rejected"
          /\ r.pc = "doubt" => x \in {"failed", "lost"}
      BY <2>2 DEF ActionAnswer, Answers
    <3> QED BY <1>2, <1>3, <1>5, <1>7, <2>2, <3>1, Sent DEF StepFits, Honest, Charged, Active
  <2> QED BY <2>1, <2>2
<1>9. WorkerStep(w, p, r, permit[p], <<x>>, replay[p])
  BY <1>1, <1>2, <1>3, <1>4, <1>7, Alone DEF WorkerStep, Active
<1> QED BY <1>1, <1>6, <1>8, <1>9, StepKeeps

LEMMA CallTargetKeeps ==
    ASSUME ActionInv, NEW w \in Workers, CallTarget(w) \/ ConsumeOnly(w)
    PROVE  ActionInv'
<1> SUFFICES ASSUME NEW p, p = work[w].on PROVE ActionInv'
  OBVIOUS
<1>1. work[w].pc = "call" /\ UNCHANGED <<stage, permit, meter, replay>>
  BY DEF CallTarget, ConsumeOnly, ledger
<1>2. p \in Permits /\ work[w] \in WorkRecords
  BY <1>1, Knows DEF Active
<1>4. ASSUME NEW x \in Answers, answer' = [answer EXCEPT ![p] = Append(@, x)],
             NEW pc \in {"finish", "doubt"}, p \in RailPermits,
             work' = [work EXCEPT ![w] = [@ EXCEPT !.pc = pc, !.billed = x = "ok"]]
      PROVE  ActionInv'
  <2> DEFINE r == [work[w] EXCEPT !.pc = pc, !.billed = (x = "ok")]
  <2>1. /\ r \in WorkRecords /\ r.on = p /\ r.read = work[w].read /\ r.pc = pc
        /\ r.billed => x = "ok"
    BY <1>2 DEF WorkRecords
  <2>2. work' = [work EXCEPT ![w] = r]
    BY <1>4 DEF ActionInv, RailTyped
  <2>3. answer' = [answer EXCEPT ![p] = Append(answer[p], x)]
    BY <1>4
  <2>4. AnswerStep(w, p, x, r)
    BY <1>1, <1>4, <2>1, <2>2, <2>3 DEF AnswerStep
  <2> HIDE DEF r
  <2> QED BY <2>1, <2>4, AnswerKeeps
<1>5. ASSUME NEW x \in Answers, answer' = [answer EXCEPT ![p] = Append(@, x)],
             p \notin RailPermits, work' = [work EXCEPT ![w].pc = ActionAnswer(x)]
      PROVE  ActionInv'
  <2> DEFINE r == [work[w] EXCEPT !.pc = ActionAnswer(x)]
  <2>1. ActionAnswer(x) \in {"charge", "finish", "doubt"}
    BY DEF ActionAnswer
  <2>2. /\ r \in WorkRecords /\ r.on = p /\ r.read = work[w].read /\ r.pc = ActionAnswer(x)
        /\ r.billed = work[w].billed
    BY <1>2, <2>1 DEF WorkRecords
  <2>3. work' = [work EXCEPT ![w] = r]
    BY <1>5 DEF ActionInv, RailTyped
  <2>4. answer' = [answer EXCEPT ![p] = Append(answer[p], x)]
    BY <1>5
  <2>5. AnswerStep(w, p, x, r)
    BY <1>1, <1>5, <2>2, <2>3, <2>4 DEF AnswerStep
  <2> HIDE DEF r
  <2> QED BY <2>2, <2>5, AnswerKeeps
<1>6. CASE CallTarget(w)
  <2>1. PICK x \in Answers :
          /\ answer' = [answer EXCEPT ![p] = Append(@, x)]
          /\ work' = IF p \in RailPermits
                     THEN [work EXCEPT ![w] = [@ EXCEPT !.pc = RailAnswer(x), !.billed = x = "ok"]]
                     ELSE [work EXCEPT ![w].pc = ActionAnswer(x)]
    BY <1>6 DEF CallTarget
  <2>2. RailAnswer(x) \in {"finish", "doubt"}
    BY DEF RailAnswer
  <2> QED BY <1>4, <1>5, <2>1, <2>2
<1>7. CASE ConsumeOnly(w)
  <2>1. p \in RailPermits /\ "ok" \in Answers /\ answer' = [answer EXCEPT ![p] = Append(@, "ok")]
    BY <1>7 DEF ConsumeOnly, Answers
  <2>2. work' = [work EXCEPT ![w] = [@ EXCEPT !.pc = "finish", !.billed = "ok" = "ok"]]
    BY <1>7 DEF ConsumeOnly
  <2> QED BY <1>4, <2>1, <2>2
<1> QED BY <1>6, <1>7

\* The credits are taken once, for an answer that was "ok".
LEMMA ChargeKeeps ==
    ASSUME ActionInv, NEW w \in Workers, Charge(w)
    PROVE  ActionInv'
<1> SUFFICES ASSUME NEW p, p = work[w].on PROVE ActionInv'
  OBVIOUS
<1>1. work[w].pc = "charge" /\ UNCHANGED <<stage, permit, meter, answer>>
  BY DEF Charge
<1>2. /\ p \in Permits /\ stage[p] = "issued" /\ work[w] \in WorkRecords
      /\ permit[p] \in Records /\ answer[p] \in {<<>>} \cup {<<x>> : x \in Answers}
      /\ replay[p] \in Nat /\ StepFits(w) /\ RecordTrue(p)
  BY <1>1, Knows DEF Active
<1>3. answer[p] = <<"ok">> /\ p \notin RailPermits /\ Honest(p, work[w].read) /\ Honest(p, work[w])
  BY <1>1, <1>2 DEF StepFits, Active
<1>4. permit' = [permit EXCEPT ![p] = permit[p]] /\ answer' = [answer EXCEPT ![p] = answer[p]]
  BY <1>1, <1>2 DEF ActionInv, RailTyped
<1>5. Acts(w, p) /\ (\A v \in Workers : Acts(v, p) => v = w)
      /\ permit[p].status \notin {"none", "issued"}
  BY <1>1, Alone DEF Active
<1>6. ASSUME Consume(p, Units), NEW heard \in BOOLEAN,
             work' = [work EXCEPT ![w] = [@ EXCEPT !.pc = "finish", !.billed = heard]]
      PROVE  ActionInv'
  <2> DEFINE r == [work[w] EXCEPT !.pc = "finish", !.billed = heard]
  <2>1. r \in WorkRecords /\ r.pc = "finish" /\ r.on = p /\ r.read = work[w].read
    BY <1>2 DEF WorkRecords
  <2>2. work' = [work EXCEPT ![w] = r]
    BY <1>6 DEF ActionInv, RailTyped
  <2>3. replay[p] = 0 /\ replay' = [replay EXCEPT ![p] = Units] /\ replay'[p] = Units
    BY <1>2, <1>6 DEF Consume, ActionInv, RailTyped
  <2>4. work'[w] = r /\ permit'[p] = permit[p] /\ answer'[p] = <<"ok">>
    BY <1>1, <1>3, <2>2 DEF ActionInv, RailTyped
  <2>5. RecordTrue(p)'
    BY <1>2, <1>3, <2>3, <2>4 DEF RecordTrue, Honest, Charged
  <2>6. StepFits(w)'
    BY <1>3, <2>1, <2>3, <2>4, Sent DEF StepFits, Honest, Charged, Active
  <2> HIDE DEF r
  <2>7. replay[p] > 0 => Units = replay[p]
    BY <2>3
  <2>8. WorkerStep(w, p, r, permit[p], answer[p], Units)
    BY <1>1, <1>2, <1>4, <1>5, <2>1, <2>2, <2>3, <2>7 DEF WorkerStep, Active
  <2> QED BY <1>2, <2>1, <2>5, <2>6, <2>8, StepKeeps
<1>7. ASSUME UNCHANGED replay, work' = [work EXCEPT ![w].pc = "finish"]
      PROVE  ActionInv'
  <2> DEFINE r == [work[w] EXCEPT !.pc = "finish"]
  <2>1. r \in WorkRecords /\ r.pc = "finish" /\ r.on = p /\ r.read = work[w].read
        /\ r.billed = work[w].billed
    BY <1>2 DEF WorkRecords
  <2>2. work' = [work EXCEPT ![w] = r] /\ work'[w] = r
    BY <1>7 DEF ActionInv, RailTyped
  <2> HIDE DEF r
  <2>3. answer'[p] = <<"ok">> /\ (Charged(p) => Charged(p)')
    BY <1>1, <1>3, <1>7 DEF Charged
  <2>4. /\ work'[w].on = p /\ work'[w].pc = "finish"
        /\ work'[w].read.billed \/ work'[w].billed => Charged(p)'
    BY <1>3, <2>1, <2>2, <2>3 DEF Honest
  <2>5. StepFits(w)'
    BY <1>3, <2>3, <2>4, Sent DEF StepFits, Honest, Active
  <2> QED BY <1>1, <1>7, <2>1, <2>2, <2>5, MoveKeeps DEF Active
<1> QED BY <1>6, <1>7 DEF Charge, Step, ledger

LEMMA FinishThrowsKeeps ==
    ASSUME ActionInv, NEW w \in Workers, FinishThrows(w)
    PROVE  ActionInv'
<1> SUFFICES ASSUME NEW p, p = work[w].on PROVE ActionInv'
  OBVIOUS
<1>1. /\ work[w].pc = "finish" /\ p \in RailPermits
      /\ UNCHANGED <<stage, permit, meter, answer, replay>>
  BY DEF FinishThrows, ledger
<1>2. p \in Permits /\ work[w] \in WorkRecords /\ StepFits(w)
  BY <1>1, Knows DEF Active
<1> DEFINE r == [work[w] EXCEPT !.pc = "doubt"]
<1>3. r \in WorkRecords /\ r.pc = "doubt" /\ r.on = p /\ r.read = work[w].read
      /\ r.billed = work[w].billed
  BY <1>2 DEF WorkRecords
<1>4. work' = [work EXCEPT ![w] = r] /\ work'[w] = r
  BY DEF FinishThrows, Step, ActionInv, RailTyped
<1>5. StepFits(w)'
  BY <1>1, <1>2, <1>3, <1>4 DEF StepFits, Honest, Charged, Active
<1> HIDE DEF r
<1> QED BY <1>1, <1>3, <1>4, <1>5, MoveKeeps DEF Active

\* The outcome that w stores is what the target answered.
LEMMA FinalKeeps ==
    ASSUME ActionInv, NEW w \in Workers, NEW p, p = work[w].on, work[w].pc \in {"finish", "doubt"},
           NEW q \in Records, q.status \notin {"none", "issued"}, Honest(p, q),
           p \notin RailPermits =>
               /\ q.status = "executed" => answer[p] = <<"ok">>
               /\ q.status = "failed" => answer[p] = <<"rejected">>
               /\ q.status = "ambiguous" => answer[p] \in {<<"failed">>, <<"lost">>},
           permit' = [permit EXCEPT ![p] = q],
           work' = [work EXCEPT ![w] = [work[w] EXCEPT !.pc = "meter", !.read = q]],
           UNCHANGED <<stage, meter, answer, replay>>
    PROVE  ActionInv'
<1> DEFINE r == [work[w] EXCEPT !.pc = "meter", !.read = q]
<1>1. /\ p \in Permits /\ stage[p] = "issued" /\ work[w] \in WorkRecords
      /\ permit[p] \in Records /\ answer[p] \in {<<>>} \cup {<<x>> : x \in Answers}
      /\ replay[p] \in Nat /\ StepFits(w) /\ RecordTrue(p)
  BY Knows DEF Active
<1>2. r \in WorkRecords /\ r.pc = "meter" /\ r.on = p /\ r.read = q /\ r.billed = work[w].billed
  BY <1>1 DEF WorkRecords
<1>3. answer' = [answer EXCEPT ![p] = answer[p]] /\ replay' = [replay EXCEPT ![p] = replay[p]]
  BY <1>1 DEF ActionInv, RailTyped
<1>4. work'[w] = r /\ permit'[p] = q
  BY <1>1 DEF ActionInv, RailTyped
<1>5. Acts(w, p) /\ (\A v \in Workers : Acts(v, p) => v = w)
  BY Alone DEF Active
<1>6. RecordTrue(p)'
  BY <1>1, <1>4 DEF RecordTrue, Honest, Charged
<1>7. StepFits(w)'
  BY <1>1, <1>2, <1>4 DEF StepFits, Honest, Charged, Active
<1>8. WorkerStep(w, p, r, q, answer[p], replay[p])
  BY <1>1, <1>2, <1>3, <1>5 DEF WorkerStep, Active
<1> HIDE DEF r
<1> QED BY <1>1, <1>2, <1>6, <1>7, <1>8, StepKeeps

\* Finishing: the rail calls every answer executed, an action calls "ok" executed.
LEMMA FinishKeeps ==
    ASSUME ActionInv, NEW w \in Workers, Finish(w)
    PROVE  ActionInv'
<1> SUFFICES ASSUME NEW p, p = work[w].on PROVE ActionInv'
  OBVIOUS
<1>1. work[w].pc = "finish" /\ UNCHANGED <<stage, meter, answer, replay>>
  BY DEF Finish, ledger
<1>2. p \in Permits /\ work[w] \in WorkRecords /\ StepFits(w)
  BY <1>1, Knows DEF Active
<1>3. ASSUME NEW q, q = [status |-> Outcome(p), receipt |-> TRUE, billed |-> work[w].billed],
             permit' = [permit EXCEPT ![p] = q],
             work' = [work EXCEPT ![w] = [@ EXCEPT !.pc = "meter", !.read = q]]
      PROVE  ActionInv'
  <2>1. Outcome(p) \in {"executed", "failed"}
    BY DEF Outcome
  <2>2. q \in Records /\ q.status = Outcome(p) /\ q.billed = work[w].billed
    BY <1>2, <1>3, <2>1 DEF Records, WorkRecords
  <2>3. Honest(p, q)
    BY <1>1, <1>2, <2>2 DEF StepFits, Active, Honest
  <2>4. ASSUME p \notin RailPermits
        PROVE  /\ q.status = "executed" => answer[p] = <<"ok">>
               /\ q.status = "failed" => answer[p] = <<"rejected">>
    <3>1. answer[p] \in {<<"ok">>, <<"rejected">>}
      BY <1>1, <1>2, <2>4 DEF StepFits
    <3>2. answer[p] = <<"ok">> => Outcome(p) = "executed"
      BY <2>4 DEF Outcome
    <3>3. answer[p] = <<"rejected">> => Outcome(p) = "failed"
      BY <2>4 DEF Outcome
    <3> QED BY <2>2, <3>1, <3>2, <3>3
  <2>5. work' = [work EXCEPT ![w] = [work[w] EXCEPT !.pc = "meter", !.read = q]]
    BY <1>3 DEF ActionInv, RailTyped
  <2> QED BY <1>1, <1>3, <2>1, <2>2, <2>3, <2>4, <2>5, FinalKeeps
<1>4. CASE Stop(w) /\ UNCHANGED permit
  <2>1. StepFits(w)' /\ Done \in WorkRecords /\ Done.pc = "done" /\ work' = [work EXCEPT ![w] = Done]
    BY <1>4, StopsFit DEF ActionInv, Stop
  <2> QED BY <1>1, <1>4, <2>1, MoveKeeps DEF Active
<1> QED BY <1>3, <1>4 DEF Finish

\* In doubt, the record keeps what it says and the outcome is ambiguous.
LEMMA MarkAmbiguousKeeps ==
    ASSUME ActionInv, NEW w \in Workers, MarkAmbiguous(w)
    PROVE  ActionInv'
<1> SUFFICES ASSUME NEW p, p = work[w].on PROVE ActionInv'
  OBVIOUS
<1>1. work[w].pc = "doubt" /\ UNCHANGED <<stage, meter, answer, replay>>
  BY DEF MarkAmbiguous, ledger
<1>2. p \in Permits /\ work[w] \in WorkRecords /\ StepFits(w) /\ permit[p] \in Records
      /\ RecordTrue(p)
  BY <1>1, Knows DEF Active
<1>3. ASSUME NEW q, q = [permit[p] EXCEPT !.status = "ambiguous"],
             permit' = [permit EXCEPT ![p] = q],
             work' = [work EXCEPT ![w] = [@ EXCEPT !.pc = "meter", !.read = q]]
      PROVE  ActionInv'
  <2>1. q \in Records /\ q.status = "ambiguous" /\ q.billed = permit[p].billed
    BY <1>2, <1>3 DEF Records
  <2>2. Honest(p, q)
    BY <1>2, <2>1 DEF RecordTrue, Honest
  <2>3. p \notin RailPermits => answer[p] \in {<<"failed">>, <<"lost">>}
    BY <1>1, <1>2 DEF StepFits
  <2>4. work' = [work EXCEPT ![w] = [work[w] EXCEPT !.pc = "meter", !.read = q]]
    BY <1>3 DEF ActionInv, RailTyped
  <2> QED BY <1>1, <1>3, <2>1, <2>2, <2>3, <2>4, FinalKeeps
<1>4. CASE Stop(w) /\ UNCHANGED permit
  <2>1. StepFits(w)' /\ Done \in WorkRecords /\ Done.pc = "done" /\ work' = [work EXCEPT ![w] = Done]
    BY <1>4, StopsFit DEF ActionInv, Stop
  <2> QED BY <1>1, <1>4, <2>1, MoveKeeps DEF Active
<1> QED BY <1>3, <1>4 DEF MarkAmbiguous

\* One permit more may have been counted.
LEMMA OneMore ==
    ASSUME NEW S, NEW T, S \subseteq T, T \subseteq Permits, NEW p \in T, p \notin S
    PROVE  Cardinality(S) + 1 <= Cardinality(T)
<1>1. IsFiniteSet(S) /\ Cardinality(S) \in Nat
  BY OverFinite
<1>2. Cardinality(S \cup {p}) = Cardinality(S) + 1
  BY <1>1, FS_AddElement
<1>3. S \cup {p} \in SUBSET T /\ T \in SUBSET Permits
  OBVIOUS
<1> QED BY <1>2, <1>3, OverFinite

\* The meter counts what the record says, or not at all, and w is over.
LEMMA RecordMeterKeeps ==
    ASSUME ActionInv, NEW w \in Workers, RecordMeter(w)
    PROVE  ActionInv'
<1> SUFFICES ASSUME NEW p, p = work[w].on PROVE ActionInv'
  OBVIOUS
<1>1. /\ work[w].pc = "meter" /\ Stop(w) /\ UNCHANGED <<stage, permit, answer, replay>>
      /\ work' = [work EXCEPT ![w] = Done]
  BY DEF RecordMeter, ledger, Stop
<1>2. /\ p \in Permits /\ stage[p] = "issued" /\ RecordTrue(p) /\ StepFits(w)
      /\ work[w] \in WorkRecords
      /\ permit[p] \in Records /\ answer[p] \in {<<>>} \cup {<<x>> : x \in Answers}
      /\ replay[p] \in Nat
  BY <1>1, Knows DEF Active
<1>3. Acts(w, p) /\ \A v \in Workers : Acts(v, p) => v = w
  BY <1>1, Alone DEF Active
<1>4. StepFits(w)' /\ Done \in WorkRecords /\ Done.pc = "done"
  BY <1>1, StopsFit DEF ActionInv
<1>5. CASE UNCHANGED meter
  BY <1>1, <1>4, <1>5, MoveKeeps DEF Active
<1>6. ASSUME NEW added, added = Counts(p, work[w].read),
             meter' = [k \in DOMAIN meter |-> meter[k] + added[k]]
      PROVE  ActionInv'
  <2> DEFINE record == work[w].read
  <2>1. /\ meter \in [MeterKinds -> Nat] /\ DOMAIN meter = MeterKinds
    BY DEF ActionInv, RailTyped
  <2>2. /\ added = [k \in MeterKinds |->
                      IF \/ k = "billed" /\ record.billed
                         \/ k = record.status /\ (p \in RailPermits => k = "ambiguous")
                      THEN 1 ELSE 0]
        /\ added \in [MeterKinds -> {0, 1}]
    BY <1>6, <2>1 DEF Counts
  <2>3. meter' \in [MeterKinds -> Nat] /\ \A k \in MeterKinds : meter'[k] = meter[k] + added[k]
    BY <1>6, <2>1, <2>2
  <2>4. /\ work'[w].pc = "done" /\ \A v \in Workers : v # w => work'[v] = work[v]
    BY <1>1, <1>4 DEF ActionInv, RailTyped
  <2>5. ~Acting(p)' /\ Acting(p) /\ \A x \in Permits : ~Acting(x) => ~Acting(x)'
    BY <1>3, <2>4 DEF Acting, Acts, Active
  <2>6. /\ \A a \in {"ok", "rejected"} : Over(a) \subseteq Over(a)' /\ p \notin Over(a)
        /\ OverBilled \subseteq OverBilled' /\ p \notin OverBilled
    BY <1>1, <2>5 DEF Over, OverBilled
  <2>7. /\ added["executed"] = 1 => p \in Over("ok")'
        /\ added["failed"] = 1 => p \in Over("rejected")'
        /\ added["billed"] = 1 => p \in OverBilled'
    <3>1. added["executed"] = 1 => record.status = "executed" /\ p \notin RailPermits
      BY <2>2 DEF MeterKinds
    <3>2. added["failed"] = 1 => record.status = "failed" /\ p \notin RailPermits
      BY <2>2 DEF MeterKinds
    <3>3. added["billed"] = 1 => record.billed
      BY <1>2, <2>2 DEF MeterKinds, WorkRecords, Records
    <3>4. /\ record.status = "executed" /\ p \notin RailPermits => answer[p] = <<"ok">>
          /\ record.status = "failed" /\ p \notin RailPermits => answer[p] = <<"rejected">>
          /\ record.billed => Charged(p)
      BY <1>1, <1>2 DEF StepFits, Active, Honest
    <3>5. answer'[p] = answer[p] /\ replay'[p] = replay[p]
      BY <1>1
    <3>6. /\ p \notin RailPermits /\ answer[p] = <<"ok">> => p \in Over("ok")'
          /\ p \notin RailPermits /\ answer[p] = <<"rejected">> => p \in Over("rejected")'
      BY <1>2, <2>5, <3>5 DEF Over
    <3>7. Charged(p) => p \in OverBilled'
      BY <1>2, <2>5, <3>5 DEF OverBilled, Charged
    <3> QED BY <3>1, <3>2, <3>3, <3>4, <3>6, <3>7
  <2> HIDE DEF record
  <2>8. ASSUME NEW k \in MeterKinds, NEW S, NEW T, S \subseteq T, T \subseteq Permits, p \notin S,
               meter[k] <= Cardinality(S), added[k] = 1 => p \in T
        PROVE  meter'[k] <= Cardinality(T)
    <3>1. Cardinality(S) \in Nat /\ Cardinality(T) \in Nat /\ Cardinality(S) <= Cardinality(T)
      BY <2>8, OverFinite
    <3>2. added[k] = 1 => Cardinality(S) + 1 <= Cardinality(T)
      BY <2>8, OneMore
    <3>3. meter[k] \in Nat /\ added[k] \in {0, 1} /\ meter'[k] = meter[k] + added[k]
      BY <2>1, <2>2, <2>3
    <3> QED BY <2>8, <3>1, <3>2, <3>3
  <2>9. /\ Over("ok")' \subseteq Permits /\ Over("rejected")' \subseteq Permits
        /\ OverBilled' \subseteq Permits
    BY DEF Over, OverBilled
  <2>10. meter'["executed"] <= Cardinality(Over("ok")')
    BY <2>6, <2>7, <2>8, <2>9 DEF MeterKinds, ActionInv, MetersBehind
  <2>11. meter'["failed"] <= Cardinality(Over("rejected")')
    BY <2>6, <2>7, <2>8, <2>9 DEF MeterKinds, ActionInv, MetersBehind
  <2>12. meter'["billed"] <= Cardinality(OverBilled')
    BY <2>6, <2>7, <2>8, <2>9 DEF MeterKinds, ActionInv, MetersBehind
  <2>13. MetersBehind'
    BY <2>10, <2>11, <2>12 DEF MetersBehind
  <2>14. /\ permit' = [permit EXCEPT ![p] = permit[p]] /\ answer' = [answer EXCEPT ![p] = answer[p]]
         /\ replay' = [replay EXCEPT ![p] = replay[p]]
    BY <1>1, <1>2 DEF ActionInv, RailTyped
  <2>15. RecordTrue(p)'
    BY <1>1, <1>2 DEF RecordTrue, Honest, Charged
  <2>16. WorkerStep(w, p, Done, permit[p], answer[p], replay[p])
    BY <1>1, <1>2, <1>3, <1>4, <2>3, <2>13, <2>14 DEF WorkerStep, Active
  <2> QED BY <1>2, <1>4, <2>15, <2>16, StepKeeps
<1> QED BY <1>5, <1>6 DEF RecordMeter

\* The record of a permit is stored, and from then on Workers read it.
LEMMA StoreKeeps ==
    ASSUME ActionInv, NEW p \in Permits, Store(p)
    PROVE  ActionInv'
<1>1. /\ stage[p] = "authorized" /\ UNCHANGED <<work, meter, answer, replay>>
      /\ stage' = [stage EXCEPT ![p] = "issued"]
      /\ permit' = [permit EXCEPT ![p].status = "issued"]
  BY DEF Store, ledger
<1>2. /\ permit[p] = NoRecord /\ answer[p] = <<>> /\ ~Acting(p)
      /\ \A w \in Workers : work[w].pc \in Active \cup {"verify"} => work[w].on # p
  <2>1. permit[p] = NoRecord
    BY <1>1 DEF ActionInv, StoredFirst
  <2>2. answer[p] = <<>> /\ ~Acting(p)
    BY <2>1 DEF ActionInv, OneActs, NoRecord
  <2>3. \A w \in Workers : work[w].pc \in Active \cup {"verify"} => work[w].on # p
    BY <1>1 DEF ActionInv, StoredFirst
  <2> QED BY <2>1, <2>2, <2>3
<1>3. /\ permit'[p] \in Records /\ permit'[p].status = "issued" /\ permit'[p].billed = FALSE
      /\ \A x \in Permits : x # p => permit'[x] = permit[x] /\ stage'[x] = stage[x]
      /\ stage'[p] = "issued"
  <2>1. permit'[p] = [NoRecord EXCEPT !.status = "issued"]
    BY <1>1, <1>2 DEF ActionInv, RailTyped
  <2>2. permit'[p] = [status |-> "issued", receipt |-> FALSE, billed |-> FALSE]
    BY <2>1 DEF NoRecord
  <2> QED BY <1>1, <2>2 DEF ActionInv, RailTyped, Records
<1>4. RailTyped'
  BY <1>1, <1>3 DEF ActionInv, RailTyped
<1>5. StoredFirst'
  BY <1>1, <1>3 DEF ActionInv, StoredFirst
<1>6. OneActs'
  <2>1. \A x \in Permits : Acting(x)' <=> Acting(x)
    BY <1>1 DEF Acting, Acts
  <2> QED BY <1>1, <1>2, <1>3, <2>1 DEF ActionInv, OneActs, Acts, Acting
<1>7. StepsFit'
  BY <1>1 DEF ActionInv, StepsFit, StepFits, Honest, Charged
<1>8. RecordsTrue'
  <2>1. replay[p] > 0 /\ p \notin RailPermits => answer[p] = <<"ok">>
    BY DEF ActionInv, RecordsTrue, RecordTrue
  <2>2. RecordTrue(p)'
    BY <1>1, <1>3, <2>1 DEF RecordTrue, Honest
  <2> QED BY <1>1, <1>3, <2>2 DEF ActionInv, RecordsTrue, RecordTrue, Honest, Charged
<1>9. MetersBehind'
  <2>1. /\ \A a \in {"ok", "rejected"} : Over(a)' = Over(a)
        /\ OverBilled' = OverBilled
    BY <1>1 DEF Over, OverBilled, Acting, Acts
  <2> QED BY <1>1, <2>1, MetersKeep DEF ActionInv
<1> QED BY <1>4, <1>5, <1>6, <1>7, <1>8, <1>9 DEF ActionInv

\* An issued permit expires where nobody acts on it.
LEMMA CheckStatusKeeps ==
    ASSUME ActionInv, NEW p \in Permits, CheckStatus(p)
    PROVE  ActionInv'
<1>1. /\ permit[p].status = "issued" /\ UNCHANGED <<stage, work, meter, answer, replay>>
      /\ permit' = [permit EXCEPT ![p].status = "expired"]
  BY DEF CheckStatus, ledger
<1>2. /\ permit'[p] \in Records /\ permit'[p].status = "expired"
      /\ permit'[p].billed = permit[p].billed
      /\ \A x \in Permits : x # p => permit'[x] = permit[x]
  BY ZenonT(60), <1>1 DEF ActionInv, RailTyped, Records
<1>3. RailTyped'
  BY <1>1, <1>2 DEF ActionInv, RailTyped
<1>4. StoredFirst'
  <2>1. stage[p] = "issued"
    BY <1>1 DEF ActionInv, StoredFirst, NoRecord
  <2> QED BY <1>1, <1>2, <2>1 DEF ActionInv, StoredFirst
<1>5. OneActs'
  <2>1. \A x \in Permits : Acting(x)' <=> Acting(x)
    BY <1>1 DEF Acting, Acts
  <2> QED BY <1>1, <1>2, <2>1 DEF ActionInv, OneActs, Acts, Acting
<1>6. StepsFit'
  BY <1>1 DEF ActionInv, StepsFit, StepFits, Honest, Charged
<1>7. RecordsTrue'
  BY <1>1, <1>2 DEF ActionInv, RecordsTrue, RecordTrue, Honest, Charged
<1>8. MetersBehind'
  <2>1. /\ \A a \in {"ok", "rejected"} : Over(a)' = Over(a)
        /\ OverBilled' = OverBilled
    BY <1>1 DEF Over, OverBilled, Acting, Acts
  <2> QED BY <1>1, <2>1, MetersKeep DEF ActionInv
<1> QED BY <1>3, <1>4, <1>5, <1>6, <1>7, <1>8 DEF ActionInv

\* What the mandate, billing and the creating request do leaves the rail alone.
LEMMA OthersKeep ==
    ASSUME ActionInv,
           \/ \E p \in Permits : Ask(p) \/ AskMandate(p) \/ Abandon(p) \/ PassExpiry(p)
           \/ MandateCall \/ Billing
    PROVE  ActionInv'
<1>1. /\ replay \in [Tags -> Nat]
      /\ stage \in [Permits -> {"idle", "asked", "authorized", "issued", "refused"}]
  BY DEF ActionInv, RailTyped
<1>2. ASSUME NEW p \in Permits, Ask(p) \/ AskMandate(p) \/ Abandon(p) PROVE ActionInv'
  <2>1. UNCHANGED <<permit, work, meter, answer, replay>>
    BY <1>2 DEF Ask, AskMandate, Abandon, ledger
  <2>2. /\ stage' \in [Permits -> {"idle", "asked", "authorized", "issued", "refused"}]
        /\ \A x \in Permits : stage'[x] = "issued" <=> stage[x] = "issued"
    BY <1>1, <1>2 DEF Ask, AskMandate, Abandon
  <2> QED BY <1>1, <2>1, <2>2, ElsewhereKeeps
<1>3. ASSUME NEW p \in Permits, PassExpiry(p) PROVE ActionInv'
  BY <1>1, <1>3, ElsewhereKeeps DEF PassExpiry, ledger
<1>4. CASE MandateCall
  BY <1>1, <1>4, ElsewhereKeeps DEF MandateCall, ledger, rail
<1>5. CASE Billing
  <2>1. UNCHANGED <<stage, permit, work, meter, answer>>
    BY <1>5 DEF Billing, rail
  <2>2. UNCHANGED replay \/ replay' = [replay EXCEPT ![Elsewhere] = 1]
    BY <1>5 DEF Billing, ShopNext, ClaimCheckout, CreditOrder, BindOrder, DropHook,
                RefundOrder, Purchase, Refund, Consume, ledger
  <2>3. replay' \in [Tags -> Nat] /\ \A p \in Permits : replay'[p] = replay[p]
    BY <1>1, <2>2
  <2> QED BY <1>1, <2>1, <2>3, ElsewhereKeeps
<1> QED BY <1>2, <1>3, <1>4, <1>5

LEMMA NextKeeps == ActionInv /\ [Next]_vars => ActionInv'
<1> SUFFICES ASSUME ActionInv, [Next]_vars PROVE ActionInv'
  OBVIOUS
<1>1. ASSUME NEW p \in Permits, Store(p) \/ CheckStatus(p) PROVE ActionInv'
  BY <1>1, StoreKeeps, CheckStatusKeeps
<1>2. ASSUME NEW w \in Workers, NEW p \in Permits, BeginRead(w, p) PROVE ActionInv'
  BY <1>2, BeginReadKeeps
<1>3. ASSUME NEW w \in Workers, Begin(w) \/ CallTarget(w) \/ ConsumeOnly(w) \/ Charge(w)
      PROVE  ActionInv'
  BY <1>3, BeginKeeps, CallTargetKeeps, ChargeKeeps
<1>4. ASSUME NEW w \in Workers, Finish(w) \/ FinishThrows(w) \/ MarkAmbiguous(w)
      PROVE  ActionInv'
  BY <1>4, FinishKeeps, FinishThrowsKeeps, MarkAmbiguousKeeps
<1>5. ASSUME NEW w \in Workers, RecordMeter(w) \/ Die(w) PROVE ActionInv'
  BY <1>5, RecordMeterKeeps, DieKeeps
<1>6. CASE UNCHANGED vars
  BY <1>6, ElsewhereKeeps DEF vars, ActionInv, RailTyped
<1> QED BY <1>1, <1>2, <1>3, <1>4, <1>5, <1>6, OthersKeep DEF Next

THEOREM ActionInvariant == Spec => []ActionInv
BY InitEstablishes, NextKeeps, PTL DEF Spec

(***************************************************************************)
(* A permit causes at most one request to its target: for any number of    *)
(* permits and Workers, however long they wait between reading a record    *)
(* and writing it, and wherever they die.                                  *)
(***************************************************************************)
THEOREM OneSideEffectHolds == Spec => []OneSideEffect
<1>1. ASSUME ActionInv, NEW p \in Permits PROVE Len(answer[p]) <= 1
  <2>1. answer[p] = <<>> \/ \E a \in Answers : answer[p] = <<a>>
    BY <1>1 DEF ActionInv, RailTyped
  <2>2. CASE answer[p] = <<>>
    <3>1. Len(answer[p]) = 0
      BY <2>2
    <3> QED BY <3>1
  <2>3. ASSUME NEW a \in Answers, answer[p] = <<a>> PROVE Len(answer[p]) <= 1
    <3>1. Len(answer[p]) = 1
      BY <2>3
    <3> QED BY <3>1
  <2> QED BY <2>1, <2>2, <2>3
<1>2. ActionInv => OneSideEffect
  BY <1>1 DEF OneSideEffect
<1> QED BY <1>2, ActionInvariant, PTL

(***************************************************************************)
(* The ledger, the permit and the meters never say more than the target    *)
(* and the ledger did, and an ambiguous action cost nothing.               *)
(***************************************************************************)
THEOREM OutcomesAreTrue == Spec => []OutcomesTruthful
<1> SUFFICES ASSUME ActionInv PROVE OutcomesTruthful
  BY ActionInvariant, PTL
<1>1. ASSUME NEW p \in Permits
      PROVE  /\ permit[p].status \in {"none", "issued"} => answer[p] = <<>>
             /\ p \notin RailPermits =>
                 /\ replay[p] > 0 => answer[p] = <<"ok">>
                 /\ permit[p].billed => replay[p] = Units
                 /\ permit[p].status = "executed" => answer[p] = <<"ok">>
                 /\ permit[p].status = "failed" => answer[p] = <<"rejected">>
                 /\ permit[p].status = "ambiguous" =>
                     answer[p] \in {<<"failed">>, <<"lost">>} /\ replay[p] = 0
             /\ p \in RailPermits /\ permit[p].billed => answer[p] = <<"ok">>
  <2>1. permit[p].status \in {"none", "issued"} => answer[p] = <<>>
    BY DEF ActionInv, OneActs
  <2>2. RecordTrue(p) /\ replay[p] \in Nat
    BY DEF ActionInv, RecordsTrue, RailTyped
  <2>3. answer[p] \in {<<"failed">>, <<"lost">>} => answer[p] # <<"ok">>
    OBVIOUS
  <2> QED BY <2>1, <2>2, <2>3 DEF RecordTrue, Honest, Charged
<1>2. /\ Over("ok") \subseteq Answered("ok") /\ Over("rejected") \subseteq Answered("rejected")
      /\ OverBilled \subseteq {p \in Permits : p \notin RailPermits => replay[p] > 0}
      /\ OverBilled \subseteq Answered("ok")
  BY DEF Over, OverBilled, Answered
<1>3. \A S \in SUBSET Permits : \A T \in SUBSET S :
        /\ Cardinality(T) <= Cardinality(S)
        /\ Cardinality(T) \in Nat /\ Cardinality(S) \in Nat
  BY OverFinite
<1>4. /\ Answered("ok") \subseteq Permits /\ Answered("rejected") \subseteq Permits
      /\ {p \in Permits : p \notin RailPermits => replay[p] > 0} \subseteq Permits
  BY DEF Answered
<1>5. meter["executed"] \in Nat /\ meter["failed"] \in Nat /\ meter["billed"] \in Nat
  BY DEF ActionInv, RailTyped, MeterKinds
<1>6. /\ meter["executed"] <= Cardinality(Answered("ok"))
      /\ meter["failed"] <= Cardinality(Answered("rejected"))
  BY <1>2, <1>3, <1>4, <1>5 DEF ActionInv, MetersBehind
<1>7. /\ meter["billed"] <= Cardinality({p \in Permits : p \notin RailPermits => replay[p] > 0})
      /\ meter["billed"] <= Cardinality(Answered("ok"))
  BY <1>2, <1>3, <1>4, <1>5 DEF ActionInv, MetersBehind
<1> QED BY <1>1, <1>6, <1>7 DEF OutcomesTruthful
-----------------------------------------------------------------------------
\* The ledger: what its records say, and what its sums were counted from.
LedgerInv ==
    /\ account \in [granted : Nat, balance : Nat, consumed : Nat, refunded : Nat, debt : Nat]
    /\ order \in [Orders -> [recorded : BOOLEAN, amount : Nat, credits : Nat]]
    /\ replay \in [Tags -> Nat]
    /\ \A o \in Orders : order[o].credits = Cumulative(o, order[o].amount)
    /\ \A o \in Orders : \A amount \in 1..Total[o] :
          <<"refunded", o, amount>> \in events => amount <= order[o].amount
    /\ CreditsConserved

\* The checkouts and the orders on their way to the ledger.
ShopInv ==
    /\ via \in [Orders -> Checkouts \cup {NoCheckout}]
    /\ claim \in [Checkouts -> Orders \cup {NoOrder}]
    /\ \A o \in Orders : <<o, "claimed">> \in hooks \/ order[o].recorded =>
          via[o] # NoCheckout /\ claim[via[o]] = o
    /\ \A o \in Orders : <<o, "purchased">> \in hooks \/ <<"created", o>> \in events \/ o \in bound =>
          order[o].recorded
    /\ bound \subseteq Orders

\* The share of a refund grows with the amount paid back.
LEMMA CumulativeGrows ==
    ASSUME NEW o \in Orders, NEW a \in Nat, NEW b \in Nat, a <= b
    PROVE  /\ Cumulative(o, a) \in Nat /\ Cumulative(o, a) <= Cumulative(o, b)
           /\ Cumulative(o, 0) = 0
<1> DEFINE c == CreditsOf[o]
           t == Total[o]
<1>1. c \in Nat \ {0} /\ t \in Nat \ {0}
  BY CreditsAssumption, TotalAssumption
<1> HIDE DEF c, t
<1>2. c * a \in Nat /\ c * b \in Nat /\ c * a <= c * b /\ c * 0 = 0
  BY <1>1
<1>3. \A x, y \in Nat : x <= y => x \div t \in Nat /\ y \div t \in Nat /\ x \div t <= y \div t
  BY <1>1
<1>4. 0 \div t = 0
  BY <1>1
<1>5. (c * a) \div t \in Nat /\ (c * b) \div t \in Nat /\ (c * a) \div t <= (c * b) \div t
  BY <1>2, <1>3
<1> QED BY <1>1, <1>2, <1>4, <1>5 DEF Cumulative, c, t

LEMMA MinOfTwo ==
    ASSUME NEW a \in Nat, NEW b \in Nat
    PROVE  Min({a, b}) \in Nat /\ Min({a, b}) <= a /\ Min({a, b}) <= b
  BY DEF Min

\* An account whose fields are known.
LEMMA AccountFields ==
    ASSUME LedgerInv, NEW g \in Nat, NEW b \in Nat, NEW c \in Nat, NEW r \in Nat, NEW d \in Nat,
           account' = [account EXCEPT !.granted = g, !.balance = b, !.consumed = c,
                                      !.refunded = r, !.debt = d]
    PROVE  /\ account' \in [granted : Nat, balance : Nat, consumed : Nat, refunded : Nat, debt : Nat]
           /\ account'.granted = g /\ account'.balance = b /\ account'.consumed = c
           /\ account'.refunded = r /\ account'.debt = d
<1>1. account' = [granted |-> g, balance |-> b, consumed |-> c, refunded |-> r, debt |-> d]
  BY DEF LedgerInv
<1> QED BY <1>1

LEMMA LedgerStarts == LedgerInit => LedgerInv /\ ShopInv
<1> SUFFICES ASSUME LedgerInit PROVE LedgerInv /\ ShopInv
  OBVIOUS
<1>1. /\ account \in [granted : Nat, balance : Nat, consumed : Nat, refunded : Nat, debt : Nat]
      /\ order \in [Orders -> [recorded : BOOLEAN, amount : Nat, credits : Nat]]
      /\ replay \in [Tags -> Nat]
  BY DEF LedgerInit, Absent
<1>2. \A o \in Orders : order[o].credits = 0 /\ order[o].amount = 0 /\ ~order[o].recorded
  BY DEF LedgerInit, Absent
<1>3. CreditsConserved
  <2>1. /\ \A o \in Orders : GrantOf[o] = 0 /\ RefundOf[o] = 0
        /\ \A t \in Tags : replay[t] = 0
    BY <1>2 DEF LedgerInit, GrantOf, RefundOf
  <2>2. /\ SumFunctionOnSet(GrantOf, Orders) = 0 /\ SumFunctionOnSet(RefundOf, Orders) = 0
        /\ SumFunctionOnSet(replay, Tags) = 0
    BY <2>1, StorageAssumption, SumZero
  <2> QED BY <2>2 DEF LedgerInit, CreditsConserved
<1>4. \A o \in Orders : order[o].credits = Cumulative(o, order[o].amount)
  BY <1>2, CumulativeGrows
<1>5. LedgerInv
  BY <1>1, <1>3, <1>4 DEF LedgerInit, LedgerInv
<1>6. ShopInv
  BY <1>2 DEF LedgerInit, ShopInv
<1> QED BY <1>5, <1>6

\* The sums of a ledger whose records are well-formed.
LEMMA LedgerSums ==
    ASSUME order \in [Orders -> [recorded : BOOLEAN, amount : Nat, credits : Nat]],
           replay \in [Tags -> Nat]
    PROVE  /\ Summable(GrantOf, Orders) /\ SumFunctionOnSet(GrantOf, Orders) \in Nat
           /\ Summable(RefundOf, Orders) /\ SumFunctionOnSet(RefundOf, Orders) \in Nat
           /\ Summable(replay, Tags) /\ SumFunctionOnSet(replay, Tags) \in Nat
<1>1. Countable(GrantOf, Orders) /\ Countable(RefundOf, Orders) /\ Countable(replay, Tags)
  BY StorageAssumption, CreditsAssumption DEF Countable, GrantOf, RefundOf
<1> QED BY <1>1, SumNat

\* An order is credited once, by whichever event names it first.
LEMMA PurchaseKeeps ==
    ASSUME LedgerInv, ShopInv, NEW o \in Orders, Purchase(o)
    PROVE  LedgerInv'
<1> DEFINE known == <<"created", o>> \in events \/ order[o].recorded
<1>1. /\ order' = [order EXCEPT ![o].recorded = TRUE] /\ UNCHANGED replay
      /\ account' = IF known THEN account
                    ELSE [account EXCEPT !.granted = @ + CreditsOf[o],
                                         !.balance = @ + CreditsOf[o]]
  BY DEF Purchase
<1>2. known <=> order[o].recorded
  BY DEF ShopInv
<1> HIDE DEF known
<1>3. /\ order' \in [Orders -> [recorded : BOOLEAN, amount : Nat, credits : Nat]]
      /\ order'[o].recorded
      /\ \A x \in Orders : /\ order'[x].credits = order[x].credits
                           /\ order'[x].amount = order[x].amount
                           /\ x # o => order'[x].recorded = order[x].recorded
  BY <1>1 DEF LedgerInv
<1>4. CreditsOf[o] \in Nat
  BY CreditsAssumption
<1>5. /\ account' \in [granted : Nat, balance : Nat, consumed : Nat, refunded : Nat, debt : Nat]
      /\ account'.granted = account.granted + (IF known THEN 0 ELSE CreditsOf[o])
      /\ account'.balance = account.balance + (IF known THEN 0 ELSE CreditsOf[o])
      /\ account'.consumed = account.consumed /\ account'.refunded = account.refunded
      /\ account'.debt = account.debt
  <2>1. CASE known
    BY <1>1, <2>1 DEF LedgerInv
  <2>2. CASE ~known
    <3>1. account' = [account EXCEPT !.granted = account.granted + CreditsOf[o],
                                     !.balance = account.balance + CreditsOf[o],
                                     !.consumed = account.consumed,
                                     !.refunded = account.refunded, !.debt = account.debt]
      BY <1>1, <2>2 DEF LedgerInv
    <3>2. /\ account.granted + CreditsOf[o] \in Nat /\ account.balance + CreditsOf[o] \in Nat
          /\ account.consumed \in Nat /\ account.refunded \in Nat /\ account.debt \in Nat
      BY <1>4 DEF LedgerInv
    <3> QED BY <2>2, <3>1, <3>2, AccountFields
  <2> QED BY <2>1, <2>2
<1>6. Summable(GrantOf, Orders) /\ Summable(GrantOf', Orders)
  <2>1. Summable(GrantOf, Orders)
    BY LedgerSums DEF LedgerInv
  <2>2. Summable(GrantOf', Orders)
    BY <1>3, StorageAssumption, CreditsAssumption DEF Summable, GrantOf
  <2> QED BY <2>1, <2>2
<1>7. \A y \in Orders \ {o} : GrantOf[y] = GrantOf'[y]
  BY <1>3 DEF GrantOf
<1>8. SumFunctionOnSet(GrantOf', Orders) = SumFunctionOnSet(GrantOf, Orders) - GrantOf[o] + GrantOf'[o]
  BY <1>6, <1>7, SumChanges
<1>9. /\ GrantOf[o] = IF known THEN CreditsOf[o] ELSE 0
      /\ GrantOf'[o] = CreditsOf[o]
  BY <1>2, <1>3 DEF GrantOf
<1>10. RefundOf' = RefundOf
  BY <1>3 DEF RefundOf
<1>11. CreditsConserved'
  <2>1. /\ account.granted = SumFunctionOnSet(GrantOf, Orders)
        /\ account.granted + account.debt = account.balance + account.consumed + account.refunded
    BY DEF LedgerInv, CreditsConserved
  <2>2. account'.granted = SumFunctionOnSet(GrantOf', Orders)
    BY <1>4, <1>5, <1>8, <1>9, <2>1 DEF LedgerInv
  <2>3. account'.granted + account'.debt = account'.balance + account'.consumed + account'.refunded
    BY <1>4, <1>5, <2>1 DEF LedgerInv
  <2> QED BY <1>1, <1>5, <1>10, <2>2, <2>3 DEF LedgerInv, CreditsConserved
<1>12. \A x \in Orders : order'[x].credits = Cumulative(x, order'[x].amount)
  BY <1>3 DEF LedgerInv
<1>13. \A x \in Orders : \A amount \in 1..Total[x] :
          <<"refunded", x, amount>> \in events' => amount <= order'[x].amount
  BY <1>3 DEF LedgerInv, Purchase
<1> QED BY <1>1, <1>3, <1>5, <1>11, <1>12, <1>13 DEF LedgerInv

\* What a refund withdraws is taken from the balance or owed.
LEMMA RefundKeeps ==
    ASSUME LedgerInv, NEW o \in Orders, NEW amount \in 1..Total[o], Refund(o, amount)
    PROVE  LedgerInv'
<1> DEFINE delta == Cumulative(o, amount) - order[o].credits
<1>1. /\ ~Regressed(o, amount)
      /\ account' = [account EXCEPT !.balance = @ - Taken(delta), !.refunded = @ + delta,
                                    !.debt = @ + (delta - Taken(delta))]
      /\ order' = [order EXCEPT ![o] = [@ EXCEPT !.amount = amount,
                                                 !.credits = Cumulative(o, amount)]]
      /\ events' = events \cup {<<"refunded", o, amount>>}
      /\ UNCHANGED replay
  BY DEF Refund
<1>2. amount \in Nat /\ order[o].amount \in Nat /\ order[o].amount <= amount
  BY <1>1, TotalAssumption DEF LedgerInv, Regressed
<1>3. /\ Cumulative(o, amount) \in Nat /\ order[o].credits \in Nat
      /\ order[o].credits <= Cumulative(o, amount)
  <2>1. Cumulative(o, order[o].amount) <= Cumulative(o, amount) /\ Cumulative(o, amount) \in Nat
    BY <1>2, CumulativeGrows
  <2> QED BY <2>1 DEF LedgerInv
<1>4. delta \in Nat /\ Cumulative(o, amount) = order[o].credits + delta
  BY <1>3
<1> HIDE DEF delta
<1>5. Taken(delta) \in Nat /\ Taken(delta) <= delta /\ Taken(delta) <= account.balance
  BY <1>4, MinOfTwo DEF Taken, LedgerInv
<1>6. /\ account' \in [granted : Nat, balance : Nat, consumed : Nat, refunded : Nat, debt : Nat]
      /\ account'.granted = account.granted /\ account'.consumed = account.consumed
      /\ account'.balance = account.balance - Taken(delta)
      /\ account'.refunded = account.refunded + delta
      /\ account'.debt = account.debt + (delta - Taken(delta))
  <2>1. account' = [account EXCEPT !.granted = account.granted,
                                   !.balance = account.balance - Taken(delta),
                                   !.consumed = account.consumed,
                                   !.refunded = account.refunded + delta,
                                   !.debt = account.debt + (delta - Taken(delta))]
    BY <1>1 DEF LedgerInv
  <2>2. /\ account.granted \in Nat /\ account.balance - Taken(delta) \in Nat
        /\ account.consumed \in Nat /\ account.refunded + delta \in Nat
        /\ account.debt + (delta - Taken(delta)) \in Nat
    BY <1>4, <1>5 DEF LedgerInv
  <2> QED BY <2>1, <2>2, AccountFields
<1>7. /\ order' \in [Orders -> [recorded : BOOLEAN, amount : Nat, credits : Nat]]
      /\ order'[o].amount = amount /\ order'[o].credits = Cumulative(o, amount)
      /\ \A x \in Orders : /\ order'[x].recorded = order[x].recorded
                           /\ x # o => order'[x] = order[x]
  BY <1>1, <1>2, <1>3 DEF LedgerInv
<1>8. GrantOf' = GrantOf
  BY <1>7 DEF GrantOf
<1>9. Summable(RefundOf, Orders) /\ Summable(RefundOf', Orders)
  <2>1. Summable(RefundOf, Orders)
    BY LedgerSums DEF LedgerInv
  <2>2. Summable(RefundOf', Orders)
    BY <1>7, StorageAssumption DEF Summable, RefundOf
  <2> QED BY <2>1, <2>2
<1>10. \A y \in Orders \ {o} : RefundOf[y] = RefundOf'[y]
  BY <1>7 DEF RefundOf
<1>11. SumFunctionOnSet(RefundOf', Orders)
          = SumFunctionOnSet(RefundOf, Orders) - RefundOf[o] + RefundOf'[o]
  BY <1>9, <1>10, SumChanges
<1>12. RefundOf[o] = order[o].credits /\ RefundOf'[o] = order[o].credits + delta
  BY <1>4, <1>7 DEF RefundOf
<1>13. CreditsConserved'
  <2>1. /\ account.refunded = SumFunctionOnSet(RefundOf, Orders)
        /\ account.granted + account.debt = account.balance + account.consumed + account.refunded
    BY DEF LedgerInv, CreditsConserved
  <2>2. account'.refunded = SumFunctionOnSet(RefundOf', Orders)
    BY <1>3, <1>4, <1>6, <1>11, <1>12, <2>1 DEF LedgerInv
  <2>3. account'.granted + account'.debt = account'.balance + account'.consumed + account'.refunded
    BY <1>4, <1>5, <1>6, <2>1 DEF LedgerInv
  <2> QED BY <1>1, <1>6, <1>8, <2>2, <2>3 DEF LedgerInv, CreditsConserved
<1>14. \A x \in Orders : order'[x].credits = Cumulative(x, order'[x].amount)
  BY <1>7 DEF LedgerInv
<1>15. ASSUME NEW x \in Orders, NEW a \in 1..Total[x], <<"refunded", x, a>> \in events'
       PROVE  a <= order'[x].amount
  <2>1. CASE <<"refunded", x, a>> \in events
    <3>1. a <= order[x].amount
      BY <2>1 DEF LedgerInv
    <3> QED BY <1>2, <1>7, <3>1, TotalAssumption
  <2>2. CASE <<"refunded", x, a>> = <<"refunded", o, amount>>
    BY <1>2, <1>7, <2>2
  <2> QED BY <1>1, <1>15, <2>1, <2>2
<1> QED BY <1>1, <1>6, <1>7, <1>13, <1>14, <1>15 DEF LedgerInv

\* A key is charged once, from credits that are there.
LEMMA ConsumeKeeps ==
    ASSUME LedgerInv, NEW t \in Tags, NEW units \in Nat, Consume(t, units)
    PROVE  LedgerInv'
<1>1. /\ units <= account.balance /\ replay[t] = 0
      /\ account' = [account EXCEPT !.balance = @ - units, !.consumed = @ + units]
      /\ replay' = [replay EXCEPT ![t] = units]
      /\ UNCHANGED <<order, events>>
  BY DEF Consume, Spendable, LedgerInv
<1>2. /\ account' \in [granted : Nat, balance : Nat, consumed : Nat, refunded : Nat, debt : Nat]
      /\ account'.granted = account.granted /\ account'.consumed = account.consumed + units
      /\ account'.balance = account.balance - units
      /\ account'.refunded = account.refunded /\ account'.debt = account.debt
  <2>1. account' = [account EXCEPT !.granted = account.granted,
                                   !.balance = account.balance - units,
                                   !.consumed = account.consumed + units,
                                   !.refunded = account.refunded, !.debt = account.debt]
    BY <1>1 DEF LedgerInv
  <2>2. /\ account.granted \in Nat /\ account.balance - units \in Nat
        /\ account.consumed + units \in Nat /\ account.refunded \in Nat /\ account.debt \in Nat
    BY <1>1 DEF LedgerInv
  <2> QED BY <2>1, <2>2, AccountFields
<1>3. replay' \in [Tags -> Nat] /\ replay'[t] = units /\ \A y \in Tags \ {t} : replay[y] = replay'[y]
  BY <1>1 DEF LedgerInv
<1>4. Summable(replay, Tags) /\ Summable(replay', Tags)
  BY <1>3, StorageAssumption DEF Summable, LedgerInv
<1>5. SumFunctionOnSet(replay', Tags) = SumFunctionOnSet(replay, Tags) - replay[t] + replay'[t]
  BY <1>3, <1>4, SumChanges
<1>6. SumFunctionOnSet(replay, Tags) \in Nat
  BY LedgerSums DEF LedgerInv
<1>7. GrantOf' = GrantOf /\ RefundOf' = RefundOf
  BY <1>1 DEF GrantOf, RefundOf
<1>8. CreditsConserved'
  <2>1. /\ account.consumed = SumFunctionOnSet(replay, Tags)
        /\ account.granted + account.debt = account.balance + account.consumed + account.refunded
    BY DEF LedgerInv, CreditsConserved
  <2>2. account'.consumed = SumFunctionOnSet(replay', Tags)
    BY <1>1, <1>2, <1>3, <1>5, <1>6, <2>1
  <2>3. account'.granted + account'.debt = account'.balance + account'.consumed + account'.refunded
    BY <1>1, <1>2, <2>1 DEF LedgerInv
  <2> QED BY <1>2, <1>7, <2>2, <2>3 DEF LedgerInv, CreditsConserved
<1> QED BY <1>1, <1>2, <1>3, <1>8 DEF LedgerInv, Cumulative

\* The webhook claims, credits and maps an order in this order, once.
LEMMA ShopKeeps ==
    ASSUME LedgerInv, ShopInv, ShopNext
    PROVE  LedgerInv' /\ ShopInv'
<1>1. ASSUME NEW o \in Orders, ClaimCheckout(o) PROVE LedgerInv' /\ ShopInv'
  <2>1. /\ via[o] # NoCheckout /\ claim[via[o]] \in {NoOrder, o}
        /\ claim' = [claim EXCEPT ![via[o]] = o] /\ hooks' = hooks \cup {<<o, "claimed">>}
        /\ UNCHANGED <<account, order, events, replay, via, bound>>
    BY <1>1 DEF ClaimCheckout, ClaimFree, ledger
  <2>2. via[o] \in Checkouts /\ o # NoOrder
    BY <2>1, AbsenceAssumption DEF ShopInv
  <2>3. LedgerInv'
    BY <2>1 DEF LedgerInv, CreditsConserved, GrantOf, RefundOf, Cumulative
  <2>4. claim' \in [Checkouts -> Orders \cup {NoOrder}] /\ claim'[via[o]] = o
    BY <2>1, <2>2 DEF ShopInv
  <2>5. ASSUME NEW x \in Orders, <<x, "claimed">> \in hooks' \/ order'[x].recorded
        PROVE  via'[x] # NoCheckout /\ claim'[via'[x]] = x
    <3>1. x = o \/ (via[x] # NoCheckout /\ claim[via[x]] = x)
      BY <2>1, <2>5 DEF ShopInv
    <3>2. x # o => via[x] # via[o]
      BY <2>1, <3>1, AbsenceAssumption
    <3> QED BY <2>1, <2>2, <2>4, <3>1, <3>2 DEF ShopInv
  <2>6. \A x \in Orders : <<x, "purchased">> \in hooks' => <<x, "purchased">> \in hooks
    BY <2>1
  <2> QED BY <2>1, <2>3, <2>4, <2>5, <2>6 DEF ShopInv
<1>2. ASSUME NEW o \in Orders, CreditOrder(o) PROVE LedgerInv' /\ ShopInv'
  <2>1. /\ <<o, "claimed">> \in hooks /\ Purchase(o) /\ UNCHANGED <<via, claim, bound>>
        /\ hooks' = (hooks \ {<<o, "claimed">>}) \cup {<<o, "purchased">>}
        /\ events' = events \cup {<<"created", o>>}
        /\ order' = [order EXCEPT ![o].recorded = TRUE]
    BY <1>2 DEF CreditOrder, Purchase
  <2>2. LedgerInv'
    BY <2>1, PurchaseKeeps
  <2>3. order'[o].recorded /\ \A x \in Orders : x # o => order'[x].recorded = order[x].recorded
    BY <2>1 DEF LedgerInv
  <2>4. ASSUME NEW x \in Orders
        PROVE  /\ <<x, "claimed">> \in hooks' => <<x, "claimed">> \in hooks
               /\ <<x, "purchased">> \in hooks' => x = o \/ <<x, "purchased">> \in hooks
               /\ <<"created", x>> \in events' => x = o \/ <<"created", x>> \in events
    BY <2>1
  <2> QED BY <2>1, <2>2, <2>3, <2>4 DEF ShopInv
<1>3. ASSUME NEW o \in Orders, BindOrder(o) PROVE LedgerInv' /\ ShopInv'
  <2>1. /\ <<o, "purchased">> \in hooks /\ bound' = bound \cup {o}
        /\ hooks' = hooks \ {<<o, "purchased">>}
        /\ UNCHANGED <<account, order, events, replay, via, claim>>
    BY <1>3 DEF BindOrder, ledger
  <2>2. LedgerInv'
    BY <2>1 DEF LedgerInv, CreditsConserved, GrantOf, RefundOf, Cumulative
  <2> QED BY <2>1, <2>2 DEF ShopInv
<1>4. ASSUME NEW h \in Orders \X {"claimed", "purchased"}, DropHook(h) PROVE LedgerInv' /\ ShopInv'
  <2>1. hooks' = hooks \ {h} /\ UNCHANGED <<account, order, events, replay, via, claim, bound>>
    BY <1>4 DEF DropHook, ledger
  <2>2. LedgerInv'
    BY <2>1 DEF LedgerInv, CreditsConserved, GrantOf, RefundOf, Cumulative
  <2> QED BY <2>1, <2>2 DEF ShopInv
<1>5. ASSUME NEW o \in Orders, NEW amount \in 1..Total[o], RefundOrder(o, amount)
      PROVE  LedgerInv' /\ ShopInv'
  <2>1. Refund(o, amount) /\ UNCHANGED <<via, claim, bound, hooks>>
    BY <1>5 DEF RefundOrder, shop
  <2>2. LedgerInv'
    BY <2>1, RefundKeeps
  <2>3. \A x \in Orders : order'[x].recorded = order[x].recorded
    BY <2>1 DEF Refund, LedgerInv
  <2>4. \A x \in Orders : <<"created", x>> \in events' => <<"created", x>> \in events
    BY <2>1 DEF Refund
  <2> QED BY <2>1, <2>2, <2>3, <2>4 DEF ShopInv
<1> QED BY <1>1, <1>2, <1>3, <1>4, <1>5 DEF ShopNext

LEMMA SoundLedger == LedgerInv /\ ShopInv => LedgerSound
<1> SUFFICES ASSUME LedgerInv, ShopInv PROVE LedgerSound
  OBVIOUS
<1>1. RefundsHonoured
  <2> SUFFICES ASSUME NEW o \in Orders, NEW amount \in 1..Total[o], <<"refunded", o, amount>> \in events
               PROVE  order[o].credits >= Cumulative(o, amount)
    BY DEF RefundsHonoured
  <2>1. /\ amount \in Nat /\ order[o].amount \in Nat /\ amount <= order[o].amount
        /\ order[o].credits = Cumulative(o, order[o].amount)
    BY TotalAssumption DEF LedgerInv
  <2>2. 0 \in Nat /\ 0 <= order[o].amount
    BY <2>1
  <2>3. Cumulative(o, amount) \in Nat /\ Cumulative(o, amount) <= Cumulative(o, order[o].amount)
    BY <2>1, CumulativeGrows
  <2>4. Cumulative(o, order[o].amount) \in Nat
    BY <2>1 DEF LedgerInv
  <2> QED BY <2>1, <2>3, <2>4
<1>2. OneOrderPerCheckout
  BY DEF OneOrderPerCheckout, ShopInv
<1> QED BY <1>1, <1>2 DEF LedgerSound, LedgerInv

LEMMA LedgerUntouched ==
    ASSUME LedgerInv, ShopInv, UNCHANGED <<ledger, shop>>
    PROVE  LedgerInv' /\ ShopInv'
  BY DEF LedgerInv, ShopInv, CreditsConserved, GrantOf, RefundOf, Cumulative, ledger, shop

LEMMA RailKeepsLedger ==
    ASSUME ActionInv, LedgerInv, ShopInv, [Next]_vars
    PROVE  LedgerInv' /\ ShopInv'
<1>1. ASSUME NEW w \in Workers, Charge(w) PROVE LedgerInv' /\ ShopInv'
  <2>1. work[w].on \in Tags /\ Units \in Nat
    BY <1>1 DEF Charge, ActionInv, StoredFirst, Active
  <2>2. CASE Consume(work[w].on, Units)
    <3>1. LedgerInv'
      BY <2>1, <2>2, ConsumeKeeps
    <3>2. UNCHANGED <<order, events, via, claim, bound, hooks>>
      BY <1>1, <2>2 DEF Charge, Consume, shop
    <3> QED BY <3>1, <3>2 DEF ShopInv
  <2>3. CASE UNCHANGED ledger
    BY <1>1, <2>3, LedgerUntouched DEF Charge
  <2> QED BY <1>1, <2>2, <2>3 DEF Charge
<1>2. CASE Billing
  <2>1. CASE ShopNext
    BY <2>1, ShopKeeps
  <2>2. CASE Consume(Elsewhere, 1) /\ UNCHANGED shop
    <3>1. LedgerInv'
      BY <2>2, ConsumeKeeps
    <3>2. UNCHANGED <<order, events, via, claim, bound, hooks>>
      BY <2>2 DEF Consume, shop
    <3> QED BY <3>1, <3>2 DEF ShopInv
  <2> QED BY <1>2, <2>1, <2>2 DEF Billing
<1>3. ASSUME NEW p \in Permits,
             \/ Ask(p) \/ AskMandate(p) \/ Store(p) \/ Abandon(p) \/ PassExpiry(p) \/ CheckStatus(p)
      PROVE  UNCHANGED <<ledger, shop>>
  BY <1>3 DEF Ask, AskMandate, Store, Abandon, PassExpiry, CheckStatus
<1>4. ASSUME NEW w \in Workers,
             \/ \E p \in Permits : BeginRead(w, p)
             \/ Begin(w) \/ CallTarget(w) \/ ConsumeOnly(w) \/ Finish(w) \/ FinishThrows(w)
             \/ MarkAmbiguous(w) \/ RecordMeter(w) \/ Die(w)
      PROVE  UNCHANGED <<ledger, shop>>
  BY <1>4 DEF BeginRead, Begin, CallTarget, ConsumeOnly, Finish, FinishThrows, MarkAmbiguous,
              RecordMeter, Die
<1>5. CASE MandateCall
  BY <1>5, LedgerUntouched DEF MandateCall
<1>6. CASE UNCHANGED vars
  <2>1. UNCHANGED <<ledger, shop>>
    BY <1>6 DEF vars, ledger, shop
  <2> QED BY <2>1, LedgerUntouched
<1> QED BY <1>1, <1>2, <1>3, <1>4, <1>5, <1>6, LedgerUntouched DEF Next

(***************************************************************************)
(* Credits are neither made nor lost: whatever the orders, their sizes and *)
(* the keys are, and in whatever order purchases, refunds and charges      *)
(* reach the ledger.                                                       *)
(***************************************************************************)
THEOREM LedgerIsSound == Spec => []LedgerSound
<1>1. Init => LedgerInv /\ ShopInv
  BY LedgerStarts DEF Init
<1>2. ActionInv /\ LedgerInv /\ ShopInv /\ [Next]_vars => LedgerInv' /\ ShopInv'
  BY RailKeepsLedger
<1> QED BY <1>1, <1>2, ActionInvariant, SoundLedger, PTL DEF Spec

-----------------------------------------------------------------------------
(***************************************************************************)
(* What was issued under a mandate, n permits or their amounts, against a  *)
(* limit and what the record still counts, when k requests wrote a record  *)
(* that they had read before.  A record that is not revoked has forgotten  *)
(* at most one limit for each of them; a revoked one may count less, until *)
(* such a request takes the revocation back.                               *)
(***************************************************************************)
Within(n, limit, k) == n <= limit * (1 + k)
Remembered(n, limit, count, k) == n <= count + limit * k

LEMMA Multiples ==
    ASSUME NEW limit \in Nat, NEW k \in Nat
    PROVE  /\ limit * k \in Nat /\ limit * (1 + k) = limit + limit * k
           /\ limit * (1 + (k + 1)) = limit + limit + limit * k
           /\ limit * (k + 1) = limit + limit * k
           /\ \A j \in Nat : k <= j => limit * k <= limit * j
<1>1. limit * k \in Nat /\ limit * (1 + k) = limit + limit * k
  OBVIOUS
<1>2. limit * (k + 1) = limit + limit * k
  OBVIOUS
<1>3. limit * (1 + (k + 1)) = limit + limit + limit * k
  OBVIOUS
<1>4. ASSUME NEW j \in Nat, k <= j PROVE limit * k <= limit * j
  <2>1. PICK d \in Nat : d = j - k
    BY <1>4
  <2>2. limit * j = limit * k + limit * d /\ limit * d \in Nat /\ limit * k \in Nat
    <3>1. j = k + d
      BY <1>4, <2>1
    <3>2. limit * (k + d) = limit * k + limit * d
      OBVIOUS
    <3> QED BY <3>1, <3>2
  <2> QED BY <2>2
<1> QED BY <1>1, <1>2, <1>3, <1>4

\* No more is issued, and the record counts the same.
LEMMA StillWithin ==
    ASSUME NEW limit \in Nat, NEW n \in Nat, NEW m \in Nat, NEW k \in Nat, NEW j \in Nat,
           NEW count \in Nat, m <= n, k <= j
    PROVE  /\ Within(n, limit, k) => Within(m, limit, j)
           /\ Remembered(n, limit, count, k) => Remembered(m, limit, count, j)
<1>1. /\ limit * k <= limit * j /\ limit * (1 + k) = limit + limit * k
      /\ limit * (1 + j) = limit + limit * j /\ limit * k \in Nat /\ limit * j \in Nat
  BY Multiples
<1> QED BY <1>1 DEF Within, Remembered

\* A request whose body was there adds to what the record counts.
LEMMA AddedWithin ==
    ASSUME NEW limit \in Nat, NEW n \in Nat, NEW k \in Nat, NEW count \in Nat, NEW d \in Nat,
           count + d <= limit, Remembered(n, limit, count, k)
    PROVE  Within(n + d, limit, k) /\ Remembered(n + d, limit, count + d, k)
<1>1. limit * (1 + k) = limit + limit * k /\ limit * k \in Nat
  BY Multiples
<1> QED BY <1>1 DEF Within, Remembered

\* One whose body came late adds to a record read before.
LEMMA OverwrittenWithin ==
    ASSUME NEW limit \in Nat, NEW n \in Nat, NEW k \in Nat, NEW count \in Nat, NEW d \in Nat,
           count + d <= limit, Within(n, limit, k)
    PROVE  Within(n + d, limit, k + 1) /\ Remembered(n + d, limit, count + d, k + 1)
<1>1. /\ limit * (1 + k) = limit + limit * k /\ limit * k \in Nat
      /\ limit * (1 + (k + 1)) = limit + limit + limit * k
      /\ limit * (k + 1) = limit + limit * k
  BY Multiples
<1> QED BY <1>1 DEF Within, Remembered

Limited(record) ==
    record \in Mandates /\ record.uses <= MaxUses /\ record.spent <= DailyLimit
Stages == {"idle", "asked", "authorized", "issued", "refused"}
CountBounded ==
    /\ Within(Cardinality(Issued), MaxUses, Cardinality(Overdue))
    /\ mandate.revoked = FALSE =>
          Remembered(Cardinality(Issued), MaxUses, mandate.uses, Cardinality(Overdue))
Amount == SumFunctionOnSet(AmountOf, Issued)
AmountBounded ==
    /\ Within(Amount, DailyLimit, Cardinality(Overdue))
    /\ mandate.revoked = FALSE =>
          Remembered(Amount, DailyLimit, mandate.spent, Cardinality(Overdue))
CountedAtOnce ==
    slow = {} => /\ Cardinality(Issued) <= mandate.uses
                 /\ SumFunctionOnSet(AmountOf, Issued) <= mandate.spent
MandateInv ==
    /\ Limited(mandate) /\ stage \in [Permits -> Stages]
    /\ DOMAIN seen = Callers \cup {Owner} /\ seen = [c \in Callers \cup {Owner} |-> seen[c]]
    /\ \A c \in Callers \cup {Owner} : seen[c] = Unread \/ Limited(seen[c])
    /\ CountBounded /\ AmountBounded /\ CountedAtOnce

LEMMA IssuedCounts ==
    /\ \A S \in SUBSET Permits :
          /\ Summable(AmountOf, S) /\ SumFunctionOnSet(AmountOf, S) \in Nat
          /\ IsFiniteSet(S) /\ Cardinality(S) \in Nat
    /\ \A S \in SUBSET Permits : \A T \in SUBSET S :
          /\ SumFunctionOnSet(AmountOf, T) <= SumFunctionOnSet(AmountOf, S)
          /\ Cardinality(T) <= Cardinality(S)
<1>1. \A S \in SUBSET Permits : IsFiniteSet(S) /\ Countable(AmountOf, S)
  BY OverFinite, AmountAssumption DEF Countable
<1> QED BY <1>1, OverFinite, SumNat, SumGrows

\* Nothing more is issued, and the record counts the same or is revoked.
LEMMA SameCount ==
    ASSUME MandateInv, Limited(mandate'), stage' \in [Permits -> Stages], UNCHANGED slow,
           DOMAIN seen' = Callers \cup {Owner},
           seen' = [c \in Callers \cup {Owner} |-> seen'[c]],
           \A c \in Callers \cup {Owner} : seen'[c] = Unread \/ Limited(seen'[c]),
           slow = {} \/ mandate'.revoked = FALSE =>
              mandate'.uses = mandate.uses /\ mandate'.spent = mandate.spent,
           mandate'.revoked = FALSE => mandate.revoked = FALSE,
           Issued' \subseteq Issued, Overdue \subseteq Overdue'
    PROVE  MandateInv'
<1>1. /\ Issued \in SUBSET Permits /\ Issued' \in SUBSET Issued /\ Issued' \in SUBSET Permits
      /\ Overdue' \in SUBSET Permits /\ Overdue \in SUBSET Overdue' /\ Overdue \in SUBSET Permits
  BY DEF Issued, Overdue
<1>2. PICK n, m, k, j : /\ n = Cardinality(Issued) /\ m = Cardinality(Issued')
                        /\ k = Cardinality(Overdue) /\ j = Cardinality(Overdue')
  OBVIOUS
<1>3. PICK a, b : /\ a = SumFunctionOnSet(AmountOf, Issued)
                  /\ b = SumFunctionOnSet(AmountOf, Issued')
  OBVIOUS
<1>4. /\ n \in Nat /\ m \in Nat /\ k \in Nat /\ j \in Nat /\ a \in Nat /\ b \in Nat
      /\ m <= n /\ k <= j /\ b <= a
  BY <1>1, <1>2, <1>3, IssuedCounts
<1>5. /\ mandate.uses \in Nat /\ mandate.spent \in Nat /\ mandate.revoked \in BOOLEAN
      /\ mandate'.uses \in Nat /\ mandate'.spent \in Nat /\ mandate'.revoked \in BOOLEAN
  BY DEF MandateInv, Limited, Mandates
<1>6. /\ Within(m, MaxUses, j) /\ Within(b, DailyLimit, j)
      /\ Remembered(n, MaxUses, mandate.uses, k) => Remembered(m, MaxUses, mandate.uses, j)
      /\ Remembered(a, DailyLimit, mandate.spent, k) => Remembered(b, DailyLimit, mandate.spent, j)
  <2>1. Within(n, MaxUses, k) /\ Within(a, DailyLimit, k)
    BY <1>2, <1>3 DEF MandateInv, CountBounded, AmountBounded, Amount
  <2> QED BY <1>4, <1>5, <2>1, LimitAssumption, StillWithin
<1>11. CountedAtOnce'
  BY <1>2, <1>3, <1>4, <1>5 DEF MandateInv, CountedAtOnce
<1>12. CountBounded' /\ AmountBounded'
  BY <1>2, <1>3, <1>6 DEF MandateInv, CountBounded, AmountBounded, Amount
<1> QED BY <1>11, <1>12 DEF MandateInv

LEMMA AuthorizeKeeps ==
    ASSUME MandateInv, NEW p \in Permits, stage[p] = "asked", Authorize(p),
           stage' = [stage EXCEPT ![p] = "authorized"]
    PROVE  MandateInv'
<1> USE AmountAssumption, LimitAssumption
<1>0. PICK record : record = Held(p)
  OBVIOUS
<1>1. /\ Limited(record) /\ p \in Callers \cup {Owner}
      /\ p \notin slow => record = mandate
  BY <1>0 DEF Authorize, Ready, Held, MandateInv
<1>2. /\ ~record.revoked /\ record.uses < MaxUses /\ record.spent + AmountOf[p] <= DailyLimit
      /\ mandate' = [record EXCEPT !.uses = @ + 1, !.spent = @ + AmountOf[p]]
      /\ seen' = [seen EXCEPT ![p] = Unread] /\ slow' = slow
  BY <1>0 DEF Authorize, Allows, Forget
<1>3. /\ record.uses \in Nat /\ record.spent \in Nat /\ AmountOf[p] \in Nat
      /\ record \in Mandates
  BY <1>1 DEF Limited, Mandates
<1>4. mandate' = [revoked |-> FALSE, uses |-> record.uses + 1,
                  spent |-> record.spent + AmountOf[p]]
  BY <1>2, <1>3 DEF Mandates
<1>5. /\ mandate'.uses = record.uses + 1 /\ mandate'.spent = record.spent + AmountOf[p]
      /\ mandate'.revoked = FALSE /\ Limited(mandate')
  <2>1. record.uses + 1 \in Nat /\ record.spent + AmountOf[p] \in Nat
    BY <1>3
  <2>2. mandate' \in Mandates
    BY <1>4, <2>1 DEF Mandates
  <2> QED BY <1>2, <1>3, <1>4, <2>2 DEF Limited
<1>6. /\ stage' \in [Permits -> Stages]
      /\ DOMAIN seen' = Callers \cup {Owner} /\ seen' = [c \in Callers \cup {Owner} |-> seen'[c]]
      /\ \A c \in Callers \cup {Owner} : seen'[c] = Unread \/ Limited(seen'[c])
  BY <1>1, <1>2 DEF MandateInv, Stages
<1>7. /\ Issued' = Issued \cup {p} /\ p \notin Issued /\ Issued \in SUBSET Permits
      /\ Issued' \in SUBSET Permits /\ Issued' \ {p} = Issued
      /\ Overdue \in SUBSET Permits /\ p \notin Overdue
      /\ Overdue' = IF p \in slow THEN Overdue \cup {p} ELSE Overdue
  BY <1>2 DEF MandateInv, Issued, Overdue
<1>8. PICK n, k, a : /\ n = Cardinality(Issued) /\ k = Cardinality(Overdue)
                     /\ a = SumFunctionOnSet(AmountOf, Issued)
  OBVIOUS
<1>9. /\ n \in Nat /\ k \in Nat /\ a \in Nat
      /\ Cardinality(Issued') = n + 1 /\ SumFunctionOnSet(AmountOf, Issued') = a + AmountOf[p]
      /\ Cardinality(Overdue') = IF p \in slow THEN k + 1 ELSE k
  <2>1. n \in Nat /\ k \in Nat /\ a \in Nat
    BY <1>7, <1>8, IssuedCounts
  <2>2. Cardinality(Issued') = n + 1
    BY <1>7, <1>8, IssuedCounts, FS_AddElement
  <2>3. SumFunctionOnSet(AmountOf, Issued') = AmountOf[p] + a
    BY <1>7, <1>8, IssuedCounts, SumTakes
  <2>4. Cardinality(Overdue') = IF p \in slow THEN k + 1 ELSE k
    BY <1>7, <1>8, IssuedCounts, FS_AddElement
  <2> QED BY <1>3, <2>1, <2>2, <2>3, <2>4
<1>10. /\ Within(n, MaxUses, k) /\ Within(a, DailyLimit, k)
       /\ mandate.revoked = FALSE =>
             Remembered(n, MaxUses, mandate.uses, k) /\ Remembered(a, DailyLimit, mandate.spent, k)
  BY <1>8 DEF MandateInv, CountBounded, AmountBounded, Amount
<1>r. PICK u, s, d : u = record.uses /\ s = record.spent /\ d = AmountOf[p]
  OBVIOUS
<1>s. /\ u \in Nat /\ s \in Nat /\ d \in Nat /\ 1 \in Nat
      /\ u + 1 <= MaxUses /\ s + d <= DailyLimit
  BY <1>2, <1>3, <1>r
<1>11. CASE p \in slow
  <2>1. Within(n + 1, MaxUses, k + 1) /\ Remembered(n + 1, MaxUses, u + 1, k + 1)
    BY <1>9, <1>10, <1>s, OverwrittenWithin
  <2>2. Within(a + d, DailyLimit, k + 1) /\ Remembered(a + d, DailyLimit, s + d, k + 1)
    BY <1>9, <1>10, <1>s, OverwrittenWithin
  <2>3. CountBounded' /\ AmountBounded'
    BY <1>5, <1>9, <1>11, <1>r, <2>1, <2>2 DEF CountBounded, AmountBounded, Amount
  <2>4. CountedAtOnce'
    BY <1>2, <1>11 DEF CountedAtOnce
  <2> QED BY <1>5, <1>6, <2>3, <2>4 DEF MandateInv
<1>12. CASE p \notin slow
  <2>0. record = mandate /\ mandate.revoked = FALSE
    BY <1>1, <1>2, <1>3, <1>12 DEF Mandates
  <2>1. Within(n + 1, MaxUses, k) /\ Remembered(n + 1, MaxUses, u + 1, k)
    BY <1>9, <1>10, <1>r, <1>s, <2>0, AddedWithin
  <2>2. Within(a + d, DailyLimit, k) /\ Remembered(a + d, DailyLimit, s + d, k)
    BY <1>9, <1>10, <1>r, <1>s, <2>0, AddedWithin
  <2>3. CountBounded' /\ AmountBounded'
    BY <1>5, <1>9, <1>12, <1>r, <2>1, <2>2 DEF CountBounded, AmountBounded, Amount
  <2>4. CountedAtOnce'
    BY <1>2, <1>3, <1>5, <1>8, <1>9, <2>0 DEF MandateInv, CountedAtOnce
  <2> QED BY <1>5, <1>6, <2>3, <2>4 DEF MandateInv
<1> QED BY <1>11, <1>12

LEMMA MandateKeeps ==
    ASSUME MandateInv, [Next]_vars
    PROVE  MandateInv'
<1>1. /\ Limited(mandate) /\ stage \in [Permits -> Stages]
      /\ DOMAIN seen = Callers \cup {Owner} /\ seen = [c \in Callers \cup {Owner} |-> seen[c]]
      /\ \A c \in Callers \cup {Owner} : seen[c] = Unread \/ Limited(seen[c])
      /\ mandate.revoked \in BOOLEAN
  BY DEF MandateInv, Limited, Mandates
<1>2. ASSUME UNCHANGED <<stage, mandate, slow, seen>> PROVE MandateInv'
  <2>1. Issued' = Issued /\ Overdue' = Overdue
    BY <1>2 DEF Issued, Overdue
  <2> QED BY <1>1, <1>2, <2>1, SameCount
<1>3. ASSUME NEW p \in Permits, Ask(p) \/ Store(p) \/ Abandon(p) PROVE MandateInv'
  <2>1. /\ UNCHANGED <<mandate, slow, seen>> /\ stage' \in [Permits -> Stages]
        /\ Issued' \subseteq Issued /\ Overdue \subseteq Overdue'
    BY <1>1, <1>3 DEF Ask, Store, Abandon, Issued, Overdue, Stages
  <2> QED BY <1>1, <2>1, SameCount
<1>4. ASSUME NEW p \in Permits, AskMandate(p) PROVE MandateInv'
  <2>0. stage[p] = "asked"
    BY <1>4 DEF AskMandate
  <2>1. CASE Authorize(p) /\ stage' = [stage EXCEPT ![p] = "authorized"]
    BY <2>0, <2>1, AuthorizeKeeps
  <2>2. CASE Deny(p) /\ stage' = [stage EXCEPT ![p] = "refused"]
    <3>1. /\ UNCHANGED <<mandate, slow>> /\ stage' \in [Permits -> Stages]
          /\ seen' = [seen EXCEPT ![p] = Unread]
          /\ Issued' \subseteq Issued /\ Overdue \subseteq Overdue'
      BY <1>1, <2>0, <2>2 DEF Deny, Forget, Issued, Overdue, Stages
    <3>2. /\ DOMAIN seen' = Callers \cup {Owner}
          /\ seen' = [c \in Callers \cup {Owner} |-> seen'[c]]
          /\ \A c \in Callers \cup {Owner} : seen'[c] = Unread \/ Limited(seen'[c])
      BY <1>1, <3>1
    <3> QED BY <1>1, <3>1, <3>2, SameCount
  <2> QED BY <1>4, <2>1, <2>2 DEF AskMandate
<1>5. ASSUME NEW p \in Permits, PassExpiry(p) \/ CheckStatus(p)
      PROVE  UNCHANGED <<stage, mandate, slow, seen>>
  BY <1>5 DEF PassExpiry, CheckStatus
<1>6. ASSUME NEW w \in Workers,
             \/ \E p \in Permits : BeginRead(w, p)
             \/ Begin(w) \/ CallTarget(w) \/ ConsumeOnly(w) \/ Charge(w) \/ Finish(w)
             \/ FinishThrows(w) \/ MarkAmbiguous(w) \/ RecordMeter(w) \/ Die(w)
      PROVE  UNCHANGED <<stage, mandate, slow, seen>>
  BY <1>6 DEF BeginRead, Begin, CallTarget, ConsumeOnly, Charge, Finish, FinishThrows,
              MarkAmbiguous, RecordMeter, Die
<1>7. CASE MandateCall
  <2>0. UNCHANGED stage
    BY <1>7 DEF MandateCall, rail
  <2>1. ASSUME NEW c \in Callers \cup {Owner}, ReadRecord(c) PROVE MandateInv'
    <3>1. UNCHANGED <<mandate, slow>> /\ seen' = [seen EXCEPT ![c] = mandate]
      BY <2>1 DEF ReadRecord
    <3>2. /\ DOMAIN seen' = Callers \cup {Owner}
          /\ seen' = [d \in Callers \cup {Owner} |-> seen'[d]]
          /\ \A d \in Callers \cup {Owner} : seen'[d] = Unread \/ Limited(seen'[d])
      BY <1>1, <3>1
    <3>3. Issued' = Issued /\ Overdue' = Overdue
      BY <2>0, <3>1 DEF Issued, Overdue
    <3> QED BY <1>1, <2>0, <3>1, <3>2, <3>3, SameCount
  <2>2. CASE Revoke
    <3>0. PICK record : record = Held(Owner)
      OBVIOUS
    <3>1. Limited(record) /\ (slow = {} => record = mandate)
      BY <2>2, <3>0 DEF Revoke, Ready, Held, MandateInv
    <3>2. /\ mandate' = [record EXCEPT !.revoked = TRUE] /\ UNCHANGED slow
          /\ seen' = [seen EXCEPT ![Owner] = Unread]
      BY <2>2, <3>0 DEF Revoke, Forget
    <3>3. /\ mandate'.uses = record.uses /\ mandate'.spent = record.spent
          /\ mandate'.revoked = TRUE /\ Limited(mandate')
      <4>1. mandate' = [revoked |-> TRUE, uses |-> record.uses, spent |-> record.spent]
        BY <3>1, <3>2 DEF Limited, Mandates
      <4>2. record.uses \in Nat /\ record.spent \in Nat
        BY <3>1 DEF Limited, Mandates
      <4> QED BY <3>1, <4>1, <4>2 DEF Limited, Mandates
    <3>4. /\ DOMAIN seen' = Callers \cup {Owner}
          /\ seen' = [d \in Callers \cup {Owner} |-> seen'[d]]
          /\ \A d \in Callers \cup {Owner} : seen'[d] = Unread \/ Limited(seen'[d])
      BY <1>1, <3>2
    <3>5. Issued' = Issued /\ Overdue' = Overdue
      BY <2>0, <3>2 DEF Issued, Overdue
    <3> QED BY <1>1, <2>0, <3>1, <3>2, <3>3, <3>4, <3>5, SameCount
  <2> QED BY <1>7, <2>1, <2>2 DEF MandateCall
<1>8. CASE Billing
  BY <1>2, <1>8 DEF Billing, rail
<1>9. CASE UNCHANGED vars
  BY <1>2, <1>9 DEF vars
<1> QED BY <1>2, <1>3, <1>4, <1>5, <1>6, <1>7, <1>8, <1>9 DEF Next

(***************************************************************************)
(* Whoever's bodies come late: the record stays within its limits, each    *)
(* late request lets at most one mandate more be issued, and without late  *)
(* requests the record counts every permit issued under it.                *)
(***************************************************************************)
THEOREM MandateCoversIssued == Spec => []MandateCovers
<1>1. ASSUME Init PROVE MandateInv
  <2>1. /\ mandate \in [revoked : BOOLEAN, uses : 0..MaxUses, spent : 0..DailyLimit]
        /\ stage = [p \in Permits |-> "idle"]
        /\ seen = [c \in Callers \cup {Owner} |-> Unread]
    BY <1>1 DEF Init, AuthorityInit
  <2>2. Limited(mandate) /\ mandate.uses \in Nat /\ mandate.spent \in Nat
    BY <2>1, LimitAssumption DEF Limited, Mandates
  <2>3. Issued = {} /\ Overdue = {}
    BY <2>1 DEF Issued, Overdue
  <2>4. /\ Cardinality(Issued) = 0 /\ SumFunctionOnSet(AmountOf, Issued) = 0
        /\ Cardinality(Overdue) = 0
    BY <2>3, FS_EmptySet, SumUnfolds
  <2>5. CountBounded /\ AmountBounded /\ CountedAtOnce
    BY <2>2, <2>4, LimitAssumption DEF CountBounded, AmountBounded, Amount, CountedAtOnce, Within,
                                                       Remembered
  <2> QED BY <2>1, <2>2, <2>5 DEF MandateInv, Stages
<1>2. MandateInv /\ [Next]_vars => MandateInv'
  BY MandateKeeps
<1>3. MandateInv => MandateCovers
  BY DEF MandateInv, MandateCovers, Limited, CountBounded, AmountBounded, Amount, CountedAtOnce,
         Within
<1> QED BY <1>1, <1>2, <1>3, PTL DEF Spec
=============================================================================
