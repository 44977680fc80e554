-------------------------- MODULE PaidGatewayProofs --------------------------
(***************************************************************************)
(* Proofs about PaidGateway for any number of identifiers, authorizations, *)
(* requests, keys and reconciliation attempts.                             *)
(***************************************************************************)
EXTENDS PaidGatewayProperties, CreditRedemption, TLAPS

\* A process that is under way knows its authorization.
JobOK == \A x \in Procs : pc[x] \notin {"idle", "done"} => job[x].auth \in Auths
TypeInv == TypeOK /\ JobOK

\* TypeInv in the groups the actions leave alone together.
LedgerInv ==
    /\ index \in [Pids -> [auth : Auths \cup {None}, status : Statuses]]
    /\ keys \in [Keys -> Auths \cup {None}]
    /\ available \in [Auths -> SUBSET Nat]
RecordInv == op \in [Auths -> Operation]
AlarmInv == alarm \in [Auths -> BOOLEAN]
OutboxInv == pending \in [Auths -> BOOLEAN] /\ held \in [Procs -> Operation]
ControlInv == pc \in [Procs -> Labels] /\ job \in [Procs -> Job] /\ JobOK
ChainInv == chain \in [Auths -> {"none", "paid", "void"}]
HistoryInv ==
    /\ settles \in [Auths -> Nat]
    /\ started \in [Auths -> Nat]
    /\ delivered \in [Auths -> Nat]

\* The groups together are TypeInv.
LEMMA Groups ==
    TypeInv <=> /\ LedgerInv /\ RecordInv /\ AlarmInv /\ OutboxInv
                /\ ControlInv /\ ChainInv /\ HistoryInv
  BY DEF TypeInv, TypeOK, LedgerInv, RecordInv, AlarmInv, OutboxInv, ControlInv,
         ChainInv, HistoryInv

-----------------------------------------------------------------------------
(* What the helpers return. *)

\* An edge is taken or refused, nothing else.
LEMMA AdvanceResult ==
    ASSUME NEW life, NEW next
    PROVE  AdvanceLifecycle(life, next) \in {next, "INVALID"}
  BY DEF AdvanceLifecycle

\* A status change leaves the lifecycle in its state graph.
LEMMA LifecycleType ==
    ASSUME NEW life \in LifecycleStates, NEW next \in Statuses
    PROVE  FinancialLifecycle(life, next) \in LifecycleStates
<1>1. CASE next \in {"none", "pending", "refunded"}
  BY <1>1 DEF FinancialLifecycle
<1>2. CASE next = "verified"
  BY <1>2, AdvanceResult DEF FinancialLifecycle, LifecycleStates
<1>3. CASE next = "settled"
  BY <1>3, AdvanceResult DEF FinancialLifecycle, LifecycleStates
<1>4. CASE next = "failed"
  BY <1>4, AdvanceResult DEF FinancialLifecycle, LifecycleStates
<1>5. CASE next = "ambiguous"
  BY <1>5, AdvanceResult DEF FinancialLifecycle, LifecycleStates
<1>6. CASE next = "credited"
  BY <1>6, AdvanceResult DEF FinancialLifecycle, LifecycleStates
<1>7. CASE next = "succeeded"
  BY <1>7, AdvanceResult DEF FinancialLifecycle, LifecycleStates
<1>. QED BY <1>1, <1>2, <1>3, <1>4, <1>5, <1>6, <1>7 DEF Statuses

\* safeFinancialPatch returns a well-formed record.
LEMMA PatchedType ==
    ASSUME NEW o \in Operation, NEW next \in Statuses
    PROVE  Patched(o, next) \in Operation
<1>1. FinancialLifecycle(o.life, next) \in LifecycleStates
  BY LifecycleType DEF Operation
<1>2. (o.payload /\ next \notin {"failed", "settled", "succeeded"}) \in BOOLEAN
  BY DEF Operation
<1>. QED BY <1>1, <1>2 DEF Patched, Operation

\* An absent record is well formed.
LEMMA NoOperationType == NoOperation \in Operation
  BY DEF NoOperation, Operation, Statuses, LifecycleStates

\* The locals of an idle process are well formed.
LEMMA NoJobType == NoJob \in Job
  BY DEF NoJob, Job, Statuses

\* The record the alarm goes on with is well formed.
LEMMA SeenType ==
    ASSUME TypeInv, NEW a \in Auths
    PROVE  Seen(a) \in Operation
  BY PatchedType DEF Seen, TypeInv, TypeOK, Statuses

-----------------------------------------------------------------------------
(* Control and storage helpers keep their variables well typed. *)

\* Moving a process on keeps the control well typed.
LEMMA GotoControl ==
    ASSUME ControlInv, NEW x \in Procs, NEW label \in Labels, Goto(x, label),
           pc[x] \notin {"idle", "done"}
    PROVE  ControlInv'
  BY DEF ControlInv, JobOK, Goto

\* So does returning.
LEMMA FinishControl ==
    ASSUME ControlInv, NEW x \in Procs, Finish(x)
    PROVE  ControlInv'
  BY NoJobType DEF ControlInv, JobOK, Finish, Labels

\* So does noting the outcome to report.
LEMMA ReportControl ==
    ASSUME ControlInv, NEW x \in Procs, NEW label \in Labels,
           NEW outcome \in Statuses, Report(x, label, outcome),
           pc[x] \notin {"idle", "done"}
    PROVE  ControlInv'
  BY DEF ControlInv, JobOK, Report, Job

\* /operation/transition stores a well-formed record.
LEMMA TransitionRecord ==
    ASSUME RecordInv, AlarmInv, NEW a \in Auths, NEW next \in Statuses,
           Transition(a, next)
    PROVE  RecordInv' /\ AlarmInv'
<1>1. Patched(op[a], next) \in Operation
  BY PatchedType DEF RecordInv
<1>2. RecordInv'
  BY <1>1 DEF RecordInv, Transition
<1>3. AlarmInv'
  BY DEF AlarmInv, Transition
<1>. QED BY <1>2, <1>3

\* A caller that gives up leaves everything well typed.
LEMMA GiveUpType ==
    ASSUME RecordInv, AlarmInv, ControlInv, OutboxInv, NEW x \in Procs,
           NEW outcome \in Statuses, GiveUp(x, outcome),
           pc[x] \notin {"idle", "done"}
    PROVE  RecordInv' /\ AlarmInv' /\ ControlInv' /\ OutboxInv'
<1>1. job[x].auth \in Auths
  BY DEF ControlInv, JobOK
<1>2. RecordInv' /\ AlarmInv'
  BY <1>1, TransitionRecord DEF GiveUp
<1>3. ControlInv'
  BY ReportControl DEF GiveUp, Labels
<1>4. OutboxInv'
  BY DEF GiveUp, OutboxInv
<1>. QED BY <1>2, <1>3, <1>4

\* So does a handler that has stored its record.
LEMMA StoredType ==
    ASSUME ControlInv, OutboxInv, NEW x \in Procs, NEW rec \in Operation,
           NEW outcome \in Statuses, Stored(x, rec, outcome),
           pc[x] \notin {"idle", "done"}
    PROVE  ControlInv' /\ OutboxInv'
<1>1. ControlInv'
  BY ReportControl DEF Stored, Labels
<1>2. OutboxInv'
  BY DEF Stored, OutboxInv
<1>. QED BY <1>1, <1>2

-----------------------------------------------------------------------------
\* Every step of the system keeps TypeInv.
LEMMA TypeStep == TypeInv /\ [Next]_vars => TypeInv'
<1> SUFFICES ASSUME TypeInv, [Next]_vars PROVE TypeInv'
  OBVIOUS
<1>a. /\ LedgerInv /\ RecordInv /\ AlarmInv /\ OutboxInv
      /\ ControlInv /\ ChainInv /\ HistoryInv
  BY Groups
<1>b. /\ LedgerInv' /\ RecordInv' /\ AlarmInv' /\ OutboxInv'
      /\ ControlInv' /\ ChainInv' /\ HistoryInv'
      => TypeInv'
  BY DEF TypeInv, TypeOK, LedgerInv, RecordInv, AlarmInv, OutboxInv, ControlInv,
         ChainInv, HistoryInv
<1>c. ASSUME NEW x \in Procs, pc[x] \notin {"idle", "done"}
      PROVE  job[x].auth \in Auths
  BY <1>a, <1>c DEF ControlInv, JobOK
<1>1. ASSUME NEW r \in Requests, NEW p \in Pids, NEW a \in Auths, Reserve(r, p, a)
      PROVE  TypeInv'
  <2>1. LedgerInv'
    BY <1>1, <1>a DEF Reserve, LedgerInv, Statuses
  <2>2. ControlInv'
    <3>1. CASE Finish(r)
      BY <1>a, <3>1, FinishControl DEF Procs
    <3>2. CASE \E step \in {"select", "peek"} :
                 pc' = [pc EXCEPT ![r] = step] /\ job' = [job EXCEPT ![r] = [@ EXCEPT !.pid = p, !.auth = a]]
      <4> PICK j : j = [job[r] EXCEPT !.pid = p, !.auth = a]
        OBVIOUS
      <4>1. j \in Job /\ j.pid = p /\ j.auth = a
        BY <1>1, <1>a DEF ControlInv, Job, Procs
      <4>2. job' = [job EXCEPT ![r] = j]
        BY <3>2
      <4> QED BY <1>1, <1>a, <3>2, <4>1, <4>2 DEF ControlInv, JobOK, Labels, Procs
    <3> QED BY <1>1, <3>1, <3>2 DEF Reserve
  <2>. QED
    BY <1>1, <1>a, <1>b, <2>1, <2>2
    DEF Reserve, object, history, RecordInv, AlarmInv, OutboxInv, ChainInv, HistoryInv
<1>2. ASSUME NEW r \in Requests, SelectFacilitator(r) PROVE TypeInv'
  <2>1. ControlInv'
    BY <1>2, <1>a, GotoControl DEF SelectFacilitator, Labels, Procs
  <2>. QED
    BY <1>2, <1>a, <1>b, <2>1
    DEF SelectFacilitator, ledger, object, history, LedgerInv, RecordInv, AlarmInv,
        OutboxInv, ChainInv, HistoryInv
<1>3. ASSUME NEW r \in Requests, Peek(r) PROVE TypeInv'
  <2>1. ControlInv'
    BY <1>3, <1>a, GotoControl, FinishControl DEF Peek, AwaitPreparation, Labels, Procs
  <2>. QED
    BY <1>3, <1>a, <1>b, <2>1
    DEF Peek, ledger, object, history, LedgerInv, RecordInv, AlarmInv,
        OutboxInv, ChainInv, HistoryInv
<1>4. ASSUME NEW r \in Requests, Release(r) PROVE TypeInv'
  <2>1. LedgerInv'
    BY <1>4, <1>a DEF Release, LedgerInv, Absent, Statuses
  <2>2. ControlInv'
    BY <1>4, <1>a, FinishControl DEF Release, Procs
  <2>. QED
    BY <1>4, <1>a, <1>b, <2>1, <2>2
    DEF Release, object, history, RecordInv, AlarmInv, OutboxInv, ChainInv, HistoryInv
<1>5. ASSUME NEW r \in Requests, Begin(r) PROVE TypeInv'
  <2>1. job[r].auth \in Auths /\ job[r].pid \in Pids \cup {None}
    BY <1>5, <1>a, <1>c DEF Begin, ControlInv, Job, Procs
  <2>2. NewOperation(job[r].pid) \in Operation
    BY <2>1, NoOperationType DEF NewOperation, Operation, NoOperation, Statuses, LifecycleStates
  <2>3. RecordInv'
    BY <1>5, <1>a, <2>2 DEF Begin, RecordInv
  <2>4. ControlInv'
    BY <1>5, <1>a, GotoControl, FinishControl DEF Begin, Labels, Procs
  <2>. QED
    BY <1>5, <1>a, <1>b, <2>3, <2>4
    DEF Begin, ledger, history, LedgerInv, AlarmInv, OutboxInv, ChainInv, HistoryInv
<1>6. ASSUME NEW r \in Requests, Verify(r) PROVE TypeInv'
  <2>1. r \in Procs /\ pc[r] = "verify" /\ job[r].auth \in Auths
    BY <1>6, <1>c DEF Verify, Procs
  <2>2. RecordInv' /\ AlarmInv'
    BY <1>6, <1>a, <2>1, TransitionRecord DEF Verify, GiveUp, Statuses
  <2>3. ControlInv'
    BY <1>6, <1>a, <2>1, GiveUpType, GotoControl, FinishControl DEF Verify, Labels, Statuses
  <2>. QED
    BY <1>6, <1>a, <1>b, <2>2, <2>3
    DEF Verify, GiveUp, ledger, history, LedgerInv, OutboxInv, ChainInv, HistoryInv
<1>7. ASSUME NEW r \in Requests, ReserveKey(r) PROVE TypeInv'
  <2>1. r \in Procs /\ pc[r] = "key" /\ job[r].auth \in Auths
    BY <1>7, <1>c DEF ReserveKey, Procs
  <2>2. LedgerInv'
    BY <1>7, <1>a, <2>1 DEF ReserveKey, LedgerInv
  <2>3. CASE GiveUp(r, "failed")
    BY <1>7, <1>a, <1>b, <2>1, <2>2, <2>3, GiveUpType
    DEF ReserveKey, history, ChainInv, HistoryInv, Statuses
  <2>4. CASE Goto(r, "book") /\ UNCHANGED object
    BY <1>7, <1>a, <1>b, <2>1, <2>2, <2>4, GotoControl
    DEF ReserveKey, history, object, RecordInv, AlarmInv, OutboxInv, ChainInv, HistoryInv, Labels
  <2>. QED BY <1>7, <2>3, <2>4 DEF ReserveKey
<1>8. ASSUME NEW r \in Requests, Book(r) PROVE TypeInv'
  <2>1. r \in Procs /\ pc[r] = "book" /\ job[r].auth \in Auths
    BY <1>8, <1>c DEF Book, Procs
  <2>2. RecordInv'
    <3>1. \A life : AdvanceLifecycle(life, "SETTLEMENT_PENDING") \in LifecycleStates
      BY AdvanceResult DEF LifecycleStates
    <3>2. CASE UNCHANGED op
      BY <1>a, <3>2 DEF RecordInv
    <3>3. CASE op' = [op EXCEPT ![job[r].auth] =
              [@ EXCEPT !.reserved = TRUE,
                        !.life = AdvanceLifecycle(AdvanceLifecycle(op[job[r].auth].life, "SETTLEMENT_RESERVED"),
                                                  "SETTLEMENT_PENDING")]]
      <4>1. op[job[r].auth] \in Operation
        BY <1>a, <2>1 DEF RecordInv
      <4>2. [op[job[r].auth] EXCEPT !.reserved = TRUE,
               !.life = AdvanceLifecycle(
                   AdvanceLifecycle(op[job[r].auth].life, "SETTLEMENT_RESERVED"),
                   "SETTLEMENT_PENDING")] \in Operation
        BY <3>1, <4>1 DEF Operation
      <4>. QED BY <1>a, <2>1, <3>3, <4>2 DEF RecordInv
    <3>. QED BY <1>8, <3>2, <3>3 DEF Book
  <2>3. AlarmInv' /\ ControlInv'
    BY <1>8, <1>a, <2>1, GotoControl, FinishControl DEF Book, SetAlarm, AlarmInv, Labels
  <2>. QED
    BY <1>8, <1>a, <1>b, <2>2, <2>3
    DEF Book, ledger, history, LedgerInv, OutboxInv, ChainInv, HistoryInv
<1>9. ASSUME NEW r \in Requests, Submit(r) PROVE TypeInv'
  <2>1. r \in Procs /\ pc[r] = "submit" /\ job[r].auth \in Auths
    BY <1>9, <1>c DEF Submit, Procs
  <2>2. ControlInv' /\ HistoryInv'
    BY <1>9, <1>a, <2>1, GotoControl DEF Submit, HistoryInv, Labels
  <2>. QED
    BY <1>9, <1>a, <1>b, <2>2
    DEF Submit, ledger, object, LedgerInv, RecordInv, AlarmInv, OutboxInv, ChainInv
<1>10. ASSUME NEW r \in Requests, Reply(r) PROVE TypeInv'
  <2>1. r \in Procs /\ pc[r] = "reply" /\ job[r].auth \in Auths
    BY <1>10, <1>c DEF Reply, Procs
  <2>2. ASSUME NEW outcome \in Statuses, GiveUp(r, outcome) PROVE TypeInv'
    BY <1>10, <1>a, <1>b, <2>1, <2>2, GiveUpType
    DEF Reply, ledger, history, LedgerInv, ChainInv, HistoryInv
  <2>3. ASSUME NEW label \in Labels, Goto(r, label), UNCHANGED object PROVE TypeInv'
    BY <1>10, <1>a, <1>b, <2>1, <2>3, GotoControl
    DEF Reply, ledger, object, history, LedgerInv, RecordInv, AlarmInv, OutboxInv,
        ChainInv, HistoryInv
  <2>. QED BY <1>10, <2>2, <2>3 DEF Reply, Unclear, Statuses, Labels
<1>11. ASSUME NEW r \in Requests, CheckEvidence(r) PROVE TypeInv'
  <2>1. r \in Procs /\ pc[r] = "evidence" /\ job[r].auth \in Auths
    BY <1>11, <1>c DEF CheckEvidence, Procs
  <2>2. CASE GiveUp(r, "ambiguous")
    BY <1>11, <1>a, <1>b, <2>1, <2>2, GiveUpType
    DEF CheckEvidence, ledger, history, LedgerInv, ChainInv, HistoryInv, Statuses
  <2>3. CASE Goto(r, "commit") /\ UNCHANGED object
    BY <1>11, <1>a, <1>b, <2>1, <2>3, GotoControl
    DEF CheckEvidence, ledger, object, history, LedgerInv, RecordInv, AlarmInv,
        OutboxInv, ChainInv, HistoryInv, Labels
  <2>. QED BY <1>11, <2>2, <2>3 DEF CheckEvidence
<1>12. ASSUME NEW r \in Requests, Commit(r) PROVE TypeInv'
  <2>1. r \in Procs /\ pc[r] = "commit" /\ job[r].auth \in Auths
    BY <1>12, <1>c DEF Commit, Procs
  <2>2. RecordInv' /\ AlarmInv'
    BY <1>12, <1>a, <2>1, TransitionRecord DEF Commit, Statuses
  <2>3. Patched(op[job[r].auth], "settled") \in Operation
    BY <1>a, <2>1, PatchedType DEF RecordInv, Statuses
  <2>4. ControlInv' /\ OutboxInv'
    BY <1>12, <1>a, <2>1, <2>3, StoredType, FinishControl DEF Commit, OutboxInv, Statuses
  <2>. QED
    BY <1>12, <1>a, <1>b, <2>2, <2>4
    DEF Commit, ledger, history, LedgerInv, ChainInv, HistoryInv
<1>13. ASSUME NEW x \in Procs, Sync(x) PROVE TypeInv'
  <2>1. pc[x] = "sync" /\ job[x].auth \in Auths /\ held[x] \in Operation
    BY <1>13, <1>a, <1>c DEF Sync, OutboxInv
  <2>2. RecordInv' /\ AlarmInv' /\ OutboxInv'
    BY <1>13, <1>a, <2>1, NoOperationType DEF Sync, RecordInv, AlarmInv, OutboxInv
  <2>3. ControlInv'
    BY <1>13, <1>a, <2>1, GotoControl, FinishControl DEF Sync, Labels
  <2>. QED
    BY <1>13, <1>a, <1>b, <2>2, <2>3
    DEF Sync, ledger, history, LedgerInv, ChainInv, HistoryInv
<1>14. ASSUME NEW x \in Procs, Finalize(x) PROVE TypeInv'
  <2>1. pc[x] = "finalize" /\ job[x].outcome \in Statuses
    BY <1>14, <1>a DEF Finalize, ControlInv, Job
  <2>2. LedgerInv'
    BY <1>14, <1>a, <2>1 DEF Finalize, FinalRow, LedgerInv
  <2>3. AlarmInv'
    BY <1>14, <1>a DEF Finalize, Rearms, AlarmInv
  <2>4. OutboxInv'
    BY <1>14, <1>a, NoOperationType DEF Finalize, OutboxInv
  <2>5. ControlInv'
    BY <1>14, <1>a, <2>1, GotoControl, FinishControl DEF Finalize, Labels
  <2>. QED
    BY <1>14, <1>a, <1>b, <2>2, <2>3, <2>4, <2>5
    DEF Finalize, history, RecordInv, ChainInv, HistoryInv
<1>15. ASSUME NEW x \in Procs, Claim(x) PROVE TypeInv'
  <2>1. pc[x] = "claim" /\ job[x].auth \in Auths
    BY <1>15, <1>c DEF Claim
  <2>2. CASE Claimable(op[job[x].auth])
    <3>1. started[job[x].auth] + 1 \in Nat /\ op[job[x].auth] \in Operation
      BY <1>a, <2>1 DEF HistoryInv, RecordInv
    <3>2. [op[job[x].auth] EXCEPT !.claim = started[job[x].auth] + 1,
                                  !.life = "EXECUTION_STARTED"] \in Operation
      BY <3>1 DEF Operation, LifecycleStates
    <3>3. RecordInv'
      BY <1>15, <1>a, <2>1, <2>2, <3>2 DEF Claim, RecordInv
    <3>4. ControlInv' /\ HistoryInv'
      BY <1>15, <1>a, <2>1, <2>2, <3>1
      DEF Claim, ControlInv, JobOK, Job, HistoryInv, Labels
    <3>. QED
      BY <1>15, <1>a, <1>b, <3>3, <3>4
      DEF Claim, ledger, LedgerInv, AlarmInv, OutboxInv, ChainInv
  <2>3. CASE ~Claimable(op[job[x].auth])
    BY <1>15, <1>a, <1>b, <2>3, FinishControl
    DEF Claim, ledger, LedgerInv, RecordInv, AlarmInv, OutboxInv, ChainInv, HistoryInv
  <2>. QED BY <2>2, <2>3
<1>16. ASSUME NEW x \in Procs, Execute(x) PROVE TypeInv'
  <2>1. pc[x] = "execute" /\ job[x].auth \in Auths /\ job[x].token \in Nat
    BY <1>16, <1>a, <1>c DEF Execute, ControlInv, Job
  <2>2. HoldForReview(op[job[x].auth]) \in Operation
    BY <1>a, <2>1, PatchedType DEF HoldForReview, RecordInv, Statuses
  <2>3. LedgerInv'
    BY <1>16, <1>a, <2>1 DEF Execute, LedgerInv
  <2>4. CASE Stored(x, HoldForReview(op[job[x].auth]), "credited")
    <3>1. ControlInv' /\ OutboxInv'
      BY <1>a, <2>1, <2>2, <2>4, StoredType DEF Statuses
    <3>2. RecordInv' /\ AlarmInv'
      BY <1>16, <1>a, <2>1, <2>2 DEF Execute, RecordInv, AlarmInv, object
    <3>. QED
      BY <1>16, <1>a, <1>b, <2>3, <3>1, <3>2 DEF Execute, history, ChainInv, HistoryInv
  <2>5. CASE UNCHANGED object /\ \/ \E label \in {"complete", "credit"} : Goto(x, label)
                                 \/ Report(x, "finalize", "credited")
    <3>1. ControlInv'
      BY <1>a, <2>1, <2>5, GotoControl, ReportControl DEF Labels, Statuses
    <3>. QED
      BY <1>16, <1>a, <1>b, <2>3, <2>5, <3>1
      DEF Execute, object, history, RecordInv, AlarmInv, OutboxInv, ChainInv, HistoryInv
  <2>. QED BY <1>16, <2>4, <2>5 DEF Execute
<1>17. ASSUME NEW x \in Procs, RecordCredit(x) PROVE TypeInv'
  <2>1. /\ pc[x] = "credit" /\ job[x].auth \in Auths /\ job[x].token \in Nat
        /\ op[job[x].auth] \in Operation
    BY <1>17, <1>a, <1>c DEF RecordCredit, ControlInv, RecordInv, Job
  <2>2. Patched(op[job[x].auth], "credited") \in Operation
    BY <2>1, PatchedType DEF Statuses
  <2>3. [Patched(op[job[x].auth], "credited") EXCEPT
            !.claim = 0, !.credit = job[x].token] \in Operation
    BY <2>1, <2>2 DEF Operation
  <2>4. RecordInv'
    BY <1>17, <1>a, <2>1, <2>3 DEF RecordCredit, RecordInv
  <2>5. ControlInv'
    BY <1>17, <1>a, <2>1, ReportControl DEF RecordCredit, Labels, Statuses
  <2>. QED
    BY <1>17, <1>a, <1>b, <2>4, <2>5
    DEF RecordCredit, ledger, history, LedgerInv, AlarmInv, OutboxInv, ChainInv, HistoryInv
<1>18. ASSUME NEW x \in Procs, Complete(x) PROVE TypeInv'
  <2> DEFINE done == [Patched(op[job[x].auth], "succeeded") EXCEPT !.claim = 0]
  <2>1. pc[x] = "complete" /\ job[x].auth \in Auths /\ op[job[x].auth] \in Operation
    BY <1>18, <1>a, <1>c DEF Complete, RecordInv
  <2>2. done \in Operation
    <3>1. Patched(op[job[x].auth], "succeeded") \in Operation
      BY <2>1, PatchedType DEF Statuses
    <3>. QED BY <3>1 DEF Operation
  <2>3. CASE /\ op' = [op EXCEPT ![job[x].auth] = done]
             /\ delivered' = [delivered EXCEPT ![job[x].auth] = @ + 1]
             /\ Stored(x, done, "succeeded")
    <3>1. ControlInv' /\ OutboxInv'
      BY <1>a, <2>1, <2>2, <2>3, StoredType DEF Statuses
    <3>2. RecordInv' /\ HistoryInv'
      <4>1. RecordInv'
        BY <1>a, <2>1, <2>2, <2>3 DEF RecordInv
      <4>2. HistoryInv'
        BY <1>18, <1>a, <2>1, <2>3 DEF Complete, HistoryInv
      <4>. QED BY <4>1, <4>2
    <3>. QED
      BY <1>18, <1>a, <1>b, <3>1, <3>2 DEF Complete, ledger, LedgerInv, AlarmInv, ChainInv
  <2>4. CASE /\ UNCHANGED <<op, pending, held, delivered>>
             /\ Report(x, "finalize", "succeeded") \/ Finish(x)
    <3>1. ControlInv'
      BY <1>a, <2>1, <2>4, ReportControl, FinishControl DEF Labels, Statuses
    <3>. QED
      BY <1>18, <1>a, <1>b, <2>4, <3>1
      DEF Complete, ledger, LedgerInv, RecordInv, AlarmInv, OutboxInv, ChainInv, HistoryInv
  <2>. QED BY <1>18, <2>3, <2>4 DEF Complete
<1>19. ASSUME NEW a \in Auths, FireAlarm(a) PROVE TypeInv'
  <2>1. Seen(a) \in Operation /\ op[a] \in Operation /\ a \in Procs
    BY SeenType DEF TypeInv, TypeOK, Procs
  <2>2. AlarmInv'
    BY <1>19, <1>a DEF FireAlarm, AlarmInv
  <2>3. CASE Owing(a, Seen(a))
    <3>0. op[a].pid \in Pids \cup {None}
      BY <2>1 DEF Operation
    <3>1. ControlInv' /\ OutboxInv' /\ UNCHANGED op
      <4>1. /\ held' = [held EXCEPT ![a] = op[a]]
            /\ pc' = [pc EXCEPT ![a] = "sync"]
            /\ job' = [job EXCEPT ![a] = [@ EXCEPT !.pid = op[a].pid, !.auth = a]]
            /\ UNCHANGED <<op, pending>>
        BY <1>19, <2>3 DEF FireAlarm
      <4>2. OutboxInv'
        BY <1>a, <2>1, <4>1 DEF OutboxInv
      <4>3. ControlInv'
        BY ZenonT(60), <1>a, <2>1, <3>0, <4>1 DEF ControlInv, JobOK, Job, Labels
      <4>. QED BY <4>1, <4>2, <4>3
    <3>. QED
      BY <1>19, <1>a, <1>b, <2>2, <2>3, <3>1
      DEF FireAlarm, ledger, history, LedgerInv, RecordInv, ChainInv, HistoryInv
  <2>4. CASE StartReconciling(a, Seen(a)) /\ ~Owing(a, Seen(a))
    <3>1. [Seen(a) EXCEPT !.dead = TRUE] \in Operation
      BY <2>1 DEF Operation
    <3>2. CountedAttempt(Seen(a)) \in Operation
      BY <2>1 DEF CountedAttempt, Operation
    <3>3. RecordInv'
      BY <1>a, <2>1, <2>4, <3>1, <3>2 DEF StartReconciling, RecordInv
    <3>4. ControlInv' /\ OutboxInv'
      <4>1. OutboxInv'
        BY <1>19, <1>a, <2>1, <2>4, <3>1, <3>2 DEF FireAlarm, StartReconciling, OutboxInv
      <4>2. Seen(a).pid \in Pids \cup {None}
        BY <2>1 DEF Operation
      <4>3. ControlInv'
        BY <1>a, <2>1, <2>4, <4>2
        DEF StartReconciling, ControlInv, JobOK, Job, Statuses, Labels
      <4>. QED BY <4>1, <4>3
    <3>. QED
      BY <1>19, <1>a, <1>b, <2>2, <2>4, <3>3, <3>4
      DEF FireAlarm, ledger, history, LedgerInv, ChainInv, HistoryInv
  <2>5. CASE op' = [op EXCEPT ![a] = Seen(a)] /\ UNCHANGED <<held, pc, job>>
    BY <1>19, <1>a, <1>b, <2>1, <2>2, <2>5
    DEF FireAlarm, ledger, history, LedgerInv, RecordInv, OutboxInv, ControlInv, JobOK,
        ChainInv, HistoryInv
  <2>. QED BY <1>19, <2>3, <2>4, <2>5 DEF FireAlarm
<1>20. ASSUME NEW a \in Auths, Query(a) PROVE TypeInv'
  <2>1. pc[a] = "query" /\ a \in Procs /\ held[a] \in Operation
    BY <1>20, <1>a DEF Query, OutboxInv, Procs
  <2>2. Patched(held[a], "settled") \in Operation
    BY <2>1, PatchedType DEF Statuses
  <2>3. [held[a] EXCEPT !.dead = held[a].attempts >= MaxAttempts] \in Operation
    <3>1. (held[a].attempts >= MaxAttempts) \in BOOLEAN
      OBVIOUS
    <3>. QED BY <2>1, <3>1 DEF Operation
  <2>4. RecordInv' /\ OutboxInv'
    BY <1>20, <1>a, <2>1, <2>2, <2>3 DEF Query, RecordInv, OutboxInv
  <2>5. ControlInv'
    BY <1>20, <1>a, <2>1, ReportControl DEF Query, Labels, Statuses
  <2>. QED
    BY <1>20, <1>a, <1>b, <2>4, <2>5
    DEF Query, ledger, history, LedgerInv, AlarmInv, ChainInv, HistoryInv
<1>21. ASSUME NEW a \in Auths, Outbox(a) PROVE TypeInv'
  <2>1. pc[a] = "outbox" /\ a \in Procs /\ held[a] \in Operation
    BY <1>21, <1>a DEF Outbox, OutboxInv, Procs
  <2>2. RecordInv' /\ OutboxInv'
    BY <1>21, <1>a, <2>1 DEF Outbox, RecordInv, OutboxInv
  <2>3. ControlInv'
    BY <1>21, <1>a, <2>1, GotoControl DEF Outbox, Labels
  <2>. QED
    BY <1>21, <1>a, <1>b, <2>2, <2>3
    DEF Outbox, ledger, history, LedgerInv, AlarmInv, ChainInv, HistoryInv
<1>22. ASSUME NEW a \in Auths, ChainDecides(a) PROVE TypeInv'
  BY <1>22, <1>a, <1>b
  DEF ChainDecides, ledger, object, history, LedgerInv, RecordInv, AlarmInv, OutboxInv,
      ControlInv, JobOK, ChainInv, HistoryInv
<1>23. ASSUME NEW r \in Requests, CrashRequest(r) PROVE TypeInv'
  <2>1. ControlInv' /\ OutboxInv'
    BY <1>23, <1>a, FinishControl, NoOperationType DEF CrashRequest, OutboxInv, Procs
  <2>. QED
    BY <1>23, <1>a, <1>b, <2>1
    DEF CrashRequest, ledger, history, LedgerInv, RecordInv, AlarmInv, ChainInv, HistoryInv
<1>24. ASSUME NEW a \in Auths, CrashAlarm(a) PROVE TypeInv'
  <2>1. ControlInv' /\ OutboxInv' /\ AlarmInv'
    BY <1>24, <1>a, FinishControl, NoOperationType
    DEF CrashAlarm, OutboxInv, AlarmInv, Procs
  <2>. QED
    BY <1>24, <1>a, <1>b, <2>1
    DEF CrashAlarm, ledger, history, LedgerInv, RecordInv, ChainInv, HistoryInv
<1>25. CASE UNCHANGED vars
  BY <1>25, <1>a, <1>b
  DEF vars, LedgerInv, RecordInv, AlarmInv, OutboxInv, ControlInv, JobOK, ChainInv, HistoryInv
<1>. QED
  BY <1>1, <1>2, <1>3, <1>4, <1>5, <1>6, <1>7, <1>8, <1>9, <1>10, <1>11, <1>12,
     <1>13, <1>14, <1>15, <1>16, <1>17, <1>18, <1>19, <1>20, <1>21, <1>22, <1>23,
     <1>24, <1>25
  DEF Next, RequestStep, ExecutionStep, AlarmStep

LEMMA TypeInit == Init => TypeInv
  BY NoOperationType, NoJobType
  DEF Init, TypeInv, TypeOK, JobOK, Absent, Statuses, Labels, Procs

\* The typing that is inductive: with each process's authorization.
LEMMA TypeInvariant == Spec => []TypeInv
  BY TypeInit, TypeStep, PTL DEF Spec

(* Every variable keeps its type: no handler stores a record the others     *)
(* cannot read, and a process under way always knows its authorization.    *)
THEOREM TypeCorrect == Spec => []TypeOK
<1>1. TypeInv => TypeOK
  BY DEF TypeInv
<1>. QED BY <1>1, TypeInvariant, PTL

-----------------------------------------------------------------------------
(* SettleOnce.  A booking is never undone, so the second /settle would need *)
(* a second worker between the booking and the call.                       *)

\* A record past the booking is booked, an absent one is not.
RecordOK(o) ==
    /\ \/ o.status \in {"ambiguous", "settled", "credited", "succeeded"}
       \/ o.life = "SETTLEMENT_PENDING"
       => o.reserved
    /\ o.reserved => o.status # "none"

RecordsOK == \A a \in Auths : RecordOK(op[a])

\* What a handler will write back is booked.
Writing(x) ==
    \/ pc[x] \in {"sync", "query", "outbox"}
    \/ x \in Auths /\ pc[x] = "finalize" /\ job[x].outcome = "settled"
HeldOK == \A x \in Procs : Writing(x) => held[x].reserved /\ RecordOK(held[x])

\* No /settle before the booking, one worker between the booking and its /settle.
SendOK ==
    /\ \A a \in Auths : settles[a] <= (IF op[a].reserved THEN 1 ELSE 0)
    /\ \A r \in Requests : pc[r] \in Settling => op[job[r].auth].reserved
    /\ \A r \in Requests : pc[r] = "submit" => settles[job[r].auth] = 0
    /\ \A r, s \in Requests :
          pc[r] = "submit" /\ pc[s] = "submit" /\ job[r].auth = job[s].auth => r = s

SettleInv == RecordsOK /\ HeldOK /\ SendOK

\* A patched record is booked exactly when it was before.
LEMMA PatchedBooked ==
    ASSUME NEW o \in Operation, RecordOK(o),
           NEW next \in {"verified", "failed", "ambiguous", "settled", "credited", "succeeded"},
           next \in {"verified", "failed"} \/ o.reserved
    PROVE  RecordOK(Patched(o, next)) /\ Patched(o, next).reserved = o.reserved
<1>1. FinancialLifecycle(o.life, next) # "SETTLEMENT_PENDING"
  <2>1. CASE next = "verified"
    BY <2>1, AdvanceResult DEF FinancialLifecycle
  <2>2. CASE next = "failed"
    BY <2>2, AdvanceResult DEF FinancialLifecycle
  <2>3. CASE next = "ambiguous"
    BY <2>3, AdvanceResult DEF FinancialLifecycle
  <2>4. CASE next = "settled"
    BY <2>4, AdvanceResult DEF FinancialLifecycle
  <2>5. CASE next = "credited"
    BY <2>5, AdvanceResult DEF FinancialLifecycle
  <2>6. CASE next = "succeeded"
    BY <2>6, AdvanceResult DEF FinancialLifecycle
  <2>. QED BY <2>1, <2>2, <2>3, <2>4, <2>5, <2>6
<1>2. /\ Patched(o, next).reserved = o.reserved
      /\ Patched(o, next).status = next
      /\ Patched(o, next).life = FinancialLifecycle(o.life, next)
  BY DEF Patched, Operation
<1>. QED BY <1>1, <1>2 DEF RecordOK

BookingsKept == \A a \in Auths : op[a].reserved => op'[a].reserved

\* /operation/transition never undoes a booking.
LEMMA TransitionBooked ==
    ASSUME TypeInv, RecordsOK, NEW a \in Auths,
           NEW next \in {"verified", "failed", "ambiguous", "settled"},
           next \in {"verified", "failed"} \/ op[a].reserved,
           Transition(a, next)
    PROVE  RecordsOK' /\ BookingsKept
<1>1. op[a] \in Operation /\ op \in [Auths -> Operation]
  BY DEF TypeInv, TypeOK
<1>2. RecordOK(Patched(op[a], next)) /\ Patched(op[a], next).reserved = op[a].reserved
  BY <1>1, PatchedBooked DEF RecordsOK
<1>. QED BY <1>1, <1>2 DEF Transition, RecordsOK, BookingsKept, RecordOK

OthersStay(x) ==
    \A y \in Procs \ {x} : pc'[y] = pc[y] /\ job'[y] = job[y] /\ held'[y] = held[y]

\* What every step but the booking and the /settle call does.
LEMMA StepKeeps ==
    ASSUME SettleInv, NEW x \in Procs, OthersStay(x),
           RecordsOK', BookingsKept, UNCHANGED settles,
           TypeInv, TypeInv',
           pc'[x] \in Settling =>
               pc[x] \in Settling /\ pc'[x] # "submit" /\ job'[x].auth = job[x].auth,
           Writing(x)' => held'[x].reserved /\ RecordOK(held'[x])
    PROVE  SettleInv'
<1>1. HeldOK'
  BY DEF SettleInv, HeldOK, OthersStay, Writing, RecordOK
<1>2. \A a \in Auths : settles'[a] <= (IF op'[a].reserved THEN 1 ELSE 0)
  <2> TAKE a \in Auths
  <2>1. settles'[a] = settles[a] /\ settles[a] \in Nat
    BY DEF TypeInv, TypeOK
  <2>2. settles[a] <= (IF op[a].reserved THEN 1 ELSE 0)
    BY DEF SettleInv, SendOK
  <2>3. op[a].reserved => op'[a].reserved
    BY DEF BookingsKept
  <2>. QED BY <2>1, <2>2, <2>3
<1>3. ASSUME NEW r \in Requests, pc'[r] \in Settling
      PROVE  /\ pc[r] \in Settling /\ job'[r].auth = job[r].auth
             /\ pc'[r] = "submit" => pc[r] = "submit" /\ r # x
  BY <1>3 DEF OthersStay, Procs
<1>4. \A r \in Requests : pc'[r] \in Settling => op'[job'[r].auth].reserved
  <2> SUFFICES ASSUME NEW r \in Requests, pc'[r] \in Settling
               PROVE  op'[job'[r].auth].reserved
    OBVIOUS
  <2>1. job[r].auth \in Auths
    BY <1>3 DEF TypeInv, JobOK, Settling, Procs
  <2>2. op[job[r].auth].reserved
    BY <1>3 DEF SettleInv, SendOK
  <2>. QED BY <1>3, <2>1, <2>2 DEF BookingsKept
<1>5. \A r \in Requests : pc'[r] = "submit" => settles'[job'[r].auth] = 0
  BY <1>3 DEF SettleInv, SendOK, Settling
<1>6. \A r, s \in Requests :
          pc'[r] = "submit" /\ pc'[s] = "submit" /\ job'[r].auth = job'[s].auth => r = s
  BY <1>3 DEF SettleInv, SendOK, Settling
<1>. QED BY <1>1, <1>2, <1>4, <1>5, <1>6 DEF SettleInv, SendOK

\* No step books twice or sends twice.
LEMMA SettleStep == TypeInv /\ SettleInv /\ [Next]_vars => SettleInv'
<1> SUFFICES ASSUME TypeInv, SettleInv, [Next]_vars PROVE SettleInv'
  OBVIOUS
<1>a. TypeInv'
  BY TypeStep
<1>b. /\ op \in [Auths -> Operation] /\ held \in [Procs -> Operation]
      /\ pc \in [Procs -> Labels] /\ job \in [Procs -> Job]
      /\ Requests \subseteq Procs /\ Auths \subseteq Procs
  BY DEF TypeInv, TypeOK, Procs
<1>c. ASSUME NEW x \in Procs, pc[x] \notin {"idle", "done"}
      PROVE  job[x].auth \in Auths
  BY <1>c DEF TypeInv, JobOK
\* Steps that store no record.
<1>d. ASSUME NEW x \in Procs, OthersStay(x), UNCHANGED <<op, settles>>,
             pc'[x] \in Settling =>
                 pc[x] \in Settling /\ pc'[x] # "submit" /\ job'[x].auth = job[x].auth,
             ~Writing(x)'
      PROVE  SettleInv'
  <2>1. RecordsOK' /\ BookingsKept
    BY <1>d DEF SettleInv, RecordsOK, RecordOK, BookingsKept
  <2>. QED BY <1>a, <1>d, <2>1, StepKeeps
\* Giving up, whatever the outcome.
<1>e. ASSUME NEW r \in Requests, pc[r] \notin {"idle", "done"},
             NEW outcome \in {"failed", "ambiguous"}, GiveUp(r, outcome), UNCHANGED settles,
             outcome = "failed" \/ pc[r] \in Settling
      PROVE  SettleInv'
  <2>1. job[r].auth \in Auths
    BY <1>b, <1>c, <1>e
  <2>2. outcome = "failed" \/ op[job[r].auth].reserved
    BY <1>e DEF SettleInv, SendOK
  <2>3. RecordsOK' /\ BookingsKept
    BY <1>e, <2>1, <2>2, TransitionBooked DEF GiveUp, SettleInv
  <2>4. OthersStay(r) /\ pc'[r] = "finalize"
    BY <1>b, <1>e DEF GiveUp, Report, OthersStay
  <2>5. ~Writing(r)'
    BY <2>4, ProcessAssumption DEF Writing
  <2>. QED BY <1>a, <1>b, <1>e, <2>3, <2>4, <2>5, StepKeeps DEF Settling
\* A record made from one that was settled, stored and passed on.
<1>f. ASSUME NEW x \in Procs, NEW rec \in Operation, NEW outcome \in Statuses,
             pc[x] \notin {"idle", "done"}, Stored(x, rec, outcome), UNCHANGED settles,
             RecordsOK', BookingsKept, rec.reserved, RecordOK(rec), outcome # "settled" \/ x \in Requests
      PROVE  SettleInv'
  <2>1. OthersStay(x) /\ pc'[x] \in {"sync", "finalize"}
    BY <1>b, <1>f DEF Stored, Report, OthersStay
  <2>2. Writing(x)' => held'[x] = rec
    BY <1>b, <1>f, ProcessAssumption DEF Writing, Stored, Report, Job
  <2>. QED BY <1>a, <1>f, <2>1, <2>2, StepKeeps DEF Settling
<1>1. ASSUME NEW r \in Requests, NEW p \in Pids, NEW a \in Auths, Reserve(r, p, a)
      PROVE  SettleInv'
  <2>1. OthersStay(r) /\ pc'[r] \in {"select", "peek", "done"}
    BY <1>1, <1>b DEF Reserve, Finish, OthersStay, object
  <2>. QED
    BY <1>1, <1>b, <1>d, <2>1, ProcessAssumption DEF Reserve, object, history, Settling, Writing
<1>2. ASSUME NEW r \in Requests, SelectFacilitator(r) PROVE SettleInv'
  <2>1. OthersStay(r) /\ pc'[r] \in {"begin", "release"}
    BY <1>2, <1>b DEF SelectFacilitator, Goto, OthersStay, object
  <2>. QED
    BY <1>2, <1>b, <1>d, <2>1 DEF SelectFacilitator, object, history, Settling, Writing
<1>3. ASSUME NEW r \in Requests, Peek(r) PROVE SettleInv'
  <2>1. OthersStay(r) /\ pc'[r] \in {"begin", "release", "done"}
    BY <1>3, <1>b DEF Peek, AwaitPreparation, Goto, Finish, OthersStay, object
  <2>. QED
    BY <1>3, <1>b, <1>d, <2>1 DEF Peek, object, history, Settling, Writing
<1>4. ASSUME NEW r \in Requests, Release(r) PROVE SettleInv'
  <2>1. OthersStay(r) /\ pc'[r] = "done"
    BY <1>4, <1>b DEF Release, Finish, OthersStay, object
  <2>. QED
    BY <1>4, <1>b, <1>d, <2>1 DEF Release, object, history, Settling, Writing
<1>5. ASSUME NEW r \in Requests, Begin(r) PROVE SettleInv'
  <2>1. OthersStay(r) /\ pc'[r] \in {"verify", "release", "claim", "done"}
    BY <1>5, <1>b DEF Begin, Goto, Finish, OthersStay
  <2>2. RecordsOK' /\ BookingsKept
    <3>1. CASE UNCHANGED op
      BY <3>1 DEF SettleInv, RecordsOK, RecordOK, BookingsKept
    <3>2. CASE /\ op[job[r].auth].status = "none"
               /\ op' = [op EXCEPT ![job[r].auth] = NewOperation(job[r].pid)]
      <4>1. RecordOK(NewOperation(job[r].pid))
        BY DEF RecordOK, NewOperation, NoOperation
      <4>2. \A a \in Auths : op[a].reserved => op[a].status # "none"
        BY DEF SettleInv, RecordsOK, RecordOK
      <4>. QED BY <1>b, <3>2, <4>1, <4>2 DEF SettleInv, RecordsOK, RecordOK, BookingsKept
    <3>. QED BY <1>5, <3>1, <3>2 DEF Begin
  <2>3. ~Writing(r)'
    BY <2>1 DEF Writing
  <2>. QED
    BY <1>5, <1>a, <1>b, <2>1, <2>2, <2>3, StepKeeps DEF Begin, history, Settling
<1>6. ASSUME NEW r \in Requests, Verify(r) PROVE SettleInv'
  <2>1. CASE GiveUp(r, "failed")
    BY <1>6, <1>e, <2>1 DEF Verify, history
  <2>2. CASE /\ Transition(job[r].auth, "verified") /\ UNCHANGED <<pending, held>>
             /\ Goto(r, "key") \/ Finish(r)
    <3>1. OthersStay(r) /\ pc'[r] \in {"key", "done"}
      BY <1>b, <2>2 DEF Goto, Finish, OthersStay
    <3>2. RecordsOK' /\ BookingsKept
      BY <1>6, <1>b, <1>c, <2>2, TransitionBooked DEF Verify, SettleInv
    <3>3. ~Writing(r)'
      BY <3>1 DEF Writing
    <3>. QED
      BY <1>6, <1>a, <1>b, <3>1, <3>2, <3>3, StepKeeps DEF Verify, history, Settling
  <2>. QED BY <1>6, <2>1, <2>2 DEF Verify
<1>7. ASSUME NEW r \in Requests, ReserveKey(r) PROVE SettleInv'
  <2>1. CASE GiveUp(r, "failed")
    BY <1>7, <1>e, <2>1 DEF ReserveKey, history
  <2>2. CASE Goto(r, "book") /\ UNCHANGED object
    <3>1. OthersStay(r) /\ pc'[r] = "book"
      BY <1>b, <2>2 DEF Goto, OthersStay, object
    <3>. QED
      BY <1>7, <1>b, <1>d, <2>2, <3>1 DEF ReserveKey, object, history, Settling, Writing
  <2>. QED BY <1>7, <2>1, <2>2 DEF ReserveKey
<1>8. ASSUME NEW r \in Requests, Book(r) PROVE SettleInv'
  <2> DEFINE a == job[r].auth
  <2>0. pc[r] = "book" /\ a \in Auths /\ r \in Procs
    BY <1>8, <1>b, <1>c DEF Book
  <2>1. CASE UNCHANGED op /\ Finish(r)
    <3>1. OthersStay(r) /\ pc'[r] = "done"
      BY <1>8, <1>b, <2>1 DEF Book, Finish, OthersStay
    <3>. QED
      BY <1>8, <1>b, <1>d, <2>1, <3>1 DEF Book, history, Settling, Writing
  <2>2. CASE /\ op[a].status = "verified" /\ ~op[a].reserved
             /\ op' = [op EXCEPT ![a] =
                       [@ EXCEPT !.reserved = TRUE,
                                 !.life = AdvanceLifecycle(AdvanceLifecycle(op[a].life, "SETTLEMENT_RESERVED"),
                                                           "SETTLEMENT_PENDING")]]
             /\ Goto(r, "submit") \/ Finish(r)
    <3>1. /\ op'[a].reserved /\ op'[a].status = "verified"
          /\ \A b \in Auths \ {a} : op'[b] = op[b]
      BY <1>b, <2>0, <2>2 DEF Operation
    <3>2. RecordsOK' /\ BookingsKept
      BY <3>1 DEF SettleInv, RecordsOK, RecordOK, BookingsKept
    <3>3. /\ (pc'[r] = "submit" /\ job'[r] = job[r]) \/ pc'[r] = "done"
          /\ held' = held /\ settles' = settles
          /\ \A y \in Procs \ {r} : pc'[y] = pc[y] /\ job'[y] = job[y]
      BY <1>8, <1>b, <2>2 DEF Book, Goto, Finish, history
    <3>4. settles[a] = 0
      BY <2>0, <2>2 DEF SettleInv, SendOK, TypeInv, TypeOK
    <3>5. \A s \in Requests : pc[s] \in Settling => op[job[s].auth].reserved /\ job[s].auth # a
      BY <2>2 DEF SettleInv, SendOK
    <3>6. HeldOK'
      BY <3>3 DEF SettleInv, HeldOK, Writing, RecordOK
    <3>7. \A b \in Auths : settles'[b] <= (IF op'[b].reserved THEN 1 ELSE 0)
      BY <3>1, <3>3, <3>4 DEF SettleInv, SendOK
    <3>8. \A s \in Requests : pc'[s] \in Settling => op'[job'[s].auth].reserved
      <4> SUFFICES ASSUME NEW s \in Requests, pc'[s] \in Settling
                   PROVE  op'[job'[s].auth].reserved
        OBVIOUS
      <4>1. CASE s = r
        BY <3>1, <3>3, <4>1 DEF Settling
      <4>2. CASE s # r
        <5>1. pc[s] \in Settling /\ job'[s] = job[s]
          BY <1>b, <3>3, <4>2
        <5>2. job[s].auth \in Auths
          BY <1>b, <1>c, <5>1 DEF Settling
        <5>. QED BY <3>1, <3>3, <3>5, <5>1, <5>2
      <4>. QED BY <4>1, <4>2
    <3>9. \A s \in Requests : pc'[s] = "submit" =>
              /\ job'[s] = job[s]
              /\ s = r \/ (pc[s] = "submit" /\ job[s].auth # a)
      BY <1>b, <3>3, <3>5 DEF Settling
    <3>. QED
      BY <3>2, <3>3, <3>4, <3>6, <3>7, <3>8, <3>9 DEF SettleInv, SendOK
  <2>. QED BY <1>8, <2>1, <2>2 DEF Book
<1>9. ASSUME NEW r \in Requests, Submit(r) PROVE SettleInv'
  <2> DEFINE a == job[r].auth
  <2>1. pc[r] = "submit" /\ a \in Auths /\ r \in Procs /\ settles[a] = 0 /\ op[a].reserved
    BY <1>9, <1>b, <1>c DEF Submit, SettleInv, SendOK, Settling
  <2>2. /\ pc'[r] = "reply" /\ UNCHANGED <<job, held, op>>
        /\ \A y \in Procs \ {r} : pc'[y] = pc[y]
        /\ settles' = [settles EXCEPT ![a] = @ + 1]
    BY <1>9, <1>b DEF Submit, Goto, object
  <2>3. settles'[a] = 1 /\ \A b \in Auths \ {a} : settles'[b] = settles[b]
    BY <2>1, <2>2 DEF TypeInv, TypeOK
  <2>4. RecordsOK' /\ HeldOK'
    BY <2>2 DEF SettleInv, RecordsOK, HeldOK, Writing, RecordOK
  <2>5. \A b \in Auths : settles'[b] <= (IF op'[b].reserved THEN 1 ELSE 0)
    BY <2>1, <2>2, <2>3 DEF SettleInv, SendOK
  <2>6. \A s \in Requests : pc'[s] \in Settling => op'[job'[s].auth].reserved
    BY <1>b, <2>1, <2>2 DEF SettleInv, SendOK
  <2>7. \A s \in Requests : pc'[s] = "submit" =>
            pc[s] = "submit" /\ job[s].auth # a /\ job[s].auth \in Auths
    BY <1>b, <1>c, <2>1, <2>2 DEF SettleInv, SendOK
  <2>. QED
    BY <2>2, <2>3, <2>4, <2>5, <2>6, <2>7 DEF SettleInv, SendOK
<1>10. ASSUME NEW r \in Requests, Reply(r) PROVE SettleInv'
  <2>1. ASSUME NEW outcome \in {"failed", "ambiguous"}, GiveUp(r, outcome) PROVE SettleInv'
    BY <1>10, <1>e, <2>1 DEF Reply, history, Settling
  <2>2. ASSUME NEW label \in {"evidence", "commit"}, Goto(r, label), UNCHANGED object
        PROVE SettleInv'
    <3>1. OthersStay(r) /\ pc'[r] = label /\ job' = job
      BY <1>b, <2>2 DEF Goto, OthersStay, object
    <3>. QED
      BY <1>10, <1>b, <1>d, <2>2, <3>1 DEF Reply, object, history, Settling, Writing
  <2>. QED BY <1>10, <2>1, <2>2 DEF Reply, Unclear
<1>11. ASSUME NEW r \in Requests, CheckEvidence(r) PROVE SettleInv'
  <2>1. CASE GiveUp(r, "ambiguous")
    BY <1>11, <1>e, <2>1 DEF CheckEvidence, history, Settling
  <2>2. CASE Goto(r, "commit") /\ UNCHANGED object
    <3>1. OthersStay(r) /\ pc'[r] = "commit" /\ job' = job
      BY <1>b, <2>2 DEF Goto, OthersStay, object
    <3>. QED
      BY <1>11, <1>b, <1>d, <2>2, <3>1 DEF CheckEvidence, object, history, Settling, Writing
  <2>. QED BY <1>11, <2>1, <2>2 DEF CheckEvidence
<1>12. ASSUME NEW r \in Requests, Commit(r) PROVE SettleInv'
  <2> DEFINE a == job[r].auth
  <2>1. pc[r] = "commit" /\ a \in Auths /\ r \in Procs /\ op[a].reserved /\ RecordOK(op[a])
    BY <1>12, <1>b, <1>c DEF Commit, SettleInv, SendOK, RecordsOK, Settling
  <2>2. RecordsOK' /\ BookingsKept
    BY <1>12, <2>1, TransitionBooked DEF Commit, SettleInv
  <2>3. CASE Stored(r, Patched(op[a], "settled"), "settled")
    <3>1. Patched(op[a], "settled") \in Operation
      BY <1>b, <2>1, PatchedType DEF Statuses
    <3>2. RecordOK(Patched(op[a], "settled")) /\ Patched(op[a], "settled").reserved
      BY <1>b, <2>1, PatchedBooked
    <3>. QED
      BY <1>12, <1>f, <2>1, <2>2, <2>3, <3>1, <3>2 DEF Commit, history, Statuses
  <2>4. CASE Finish(r) /\ UNCHANGED <<pending, held>>
    <3>1. OthersStay(r) /\ pc'[r] = "done"
      BY <1>b, <2>4 DEF Finish, OthersStay
    <3>. QED
      BY <1>12, <1>a, <1>b, <2>2, <3>1, StepKeeps DEF Commit, history, Settling, Writing
  <2>. QED BY <1>12, <2>3, <2>4 DEF Commit
<1>13. ASSUME NEW x \in Procs, Sync(x) PROVE SettleInv'
  <2>1. /\ pc[x] = "sync" /\ job[x].auth \in Auths
        /\ held[x].reserved /\ RecordOK(held[x])
    BY <1>13, <1>c DEF Sync, SettleInv, HeldOK, Writing
  <2>2. RecordsOK' /\ BookingsKept
    BY <1>13, <1>b, <2>1 DEF Sync, SettleInv, RecordsOK, RecordOK, BookingsKept
  <2>3. OthersStay(x) /\ ~Writing(x)' /\ pc'[x] \notin Settling
    <3>1. CASE x \in Auths /\ job[x].outcome = "none" /\ Finish(x)
      BY <1>13, <1>b, <3>1, ProcessAssumption DEF Sync, Finish, OthersStay, Writing, Settling
    <3>2. CASE x \in Auths /\ job[x].outcome = "settled" /\ Goto(x, "claim")
      BY <1>13, <1>b, <3>2 DEF Sync, Goto, OthersStay, Writing, Settling
    <3>3. CASE ~(x \in Auths /\ job[x].outcome = "settled") /\ Goto(x, "finalize")
      BY <1>13, <1>b, <3>3 DEF Sync, Goto, OthersStay, Writing, Settling
    <3>. QED BY <1>13, <3>1, <3>2, <3>3 DEF Sync
  <2>. QED BY <1>13, <1>a, <2>2, <2>3, StepKeeps DEF Sync, history
<1>14. ASSUME NEW x \in Procs, Finalize(x) PROVE SettleInv'
  <2>1. RecordsOK' /\ BookingsKept
    BY <1>14 DEF Finalize, SettleInv, RecordsOK, RecordOK, BookingsKept
  <2>2. OthersStay(x) /\ pc'[x] \in {"outbox", "claim", "idle", "done"}
    BY <1>14, <1>b DEF Finalize, Goto, Finish, OthersStay
  <2>3. Writing(x)' => held'[x].reserved /\ RecordOK(held'[x])
    <3> SUFFICES ASSUME Writing(x)' PROVE held'[x].reserved /\ RecordOK(held'[x])
      OBVIOUS
    <3>1. pc'[x] = "outbox"
      BY <2>2 DEF Writing
    <3>2. x \in Auths /\ job[x].outcome = "settled" /\ held' = held
      BY <1>14, <1>b, <3>1 DEF Finalize, Goto, Finish
    <3>. QED BY <1>14, <3>2 DEF Finalize, SettleInv, HeldOK, Writing
  <2>. QED BY <1>14, <1>a, <2>1, <2>2, <2>3, StepKeeps DEF Finalize, history, Settling
<1>15. ASSUME NEW x \in Procs, Claim(x) PROVE SettleInv'
  <2>0. job[x].auth \in Auths
    BY <1>15, <1>c DEF Claim
  <2>1. OthersStay(x) /\ pc'[x] \in {"execute", "idle", "done"}
    BY <1>15, <1>b DEF Claim, Finish, OthersStay
  <2>2. RecordsOK' /\ BookingsKept
    <3>1. CASE UNCHANGED op
      BY <3>1 DEF SettleInv, RecordsOK, RecordOK, BookingsKept
    <3>2. CASE op' = [op EXCEPT ![job[x].auth] = [@ EXCEPT !.claim = started[job[x].auth] + 1,
                                                           !.life = "EXECUTION_STARTED"]]
      <4>1. \A a \in Auths : /\ op'[a].reserved = op[a].reserved
                             /\ op'[a].status = op[a].status
                             /\ op'[a].life \in {op[a].life, "EXECUTION_STARTED"}
        BY <1>b, <2>0, <3>2 DEF Operation
      <4>. QED BY <4>1 DEF SettleInv, RecordsOK, RecordOK, BookingsKept
    <3>. QED BY <1>15, <3>1, <3>2 DEF Claim
  <2>3. ~Writing(x)'
    BY <2>1 DEF Writing
  <2>. QED BY <1>15, <1>a, <2>1, <2>2, <2>3, StepKeeps DEF Claim, Settling
\* A record that may become credited or delivered was booked.
<1>g. ASSUME NEW a \in Auths, NEW next \in {"credited", "succeeded"},
             Accepts(op[a], next) \/ op[a].status \in {"settled", "credited"}
      PROVE  op[a].reserved /\ RecordOK(op[a])
  <2>1. op[a].status \in Statuses
    BY <1>b DEF Operation
  <2>2. op[a].status \in {"settled", "credited", "succeeded"}
    BY <1>g, <2>1 DEF Accepts, PaymentStateCanTransition, PaymentTransitions, Statuses
  <2>. QED BY <2>2 DEF SettleInv, RecordsOK, RecordOK
\* Such a record, with the claim and the credit its handler stores.
<1>h. ASSUME NEW a \in Auths, NEW next \in {"credited", "succeeded"}, op[a].reserved,
             NEW rec \in Operation, rec.reserved = Patched(op[a], next).reserved,
             rec.status = Patched(op[a], next).status, rec.life = Patched(op[a], next).life
      PROVE  rec.reserved /\ RecordOK(rec)
  <2>1. RecordOK(Patched(op[a], next)) /\ Patched(op[a], next).reserved
    BY <1>b, <1>h, PatchedBooked DEF SettleInv, RecordsOK
  <2>. QED BY <1>h, <2>1 DEF RecordOK
<1>i. ASSUME NEW a \in Auths, NEW rec \in Operation, rec.reserved, RecordOK(rec),
             op' = [op EXCEPT ![a] = rec] \/ UNCHANGED op
      PROVE  RecordsOK' /\ BookingsKept
  BY <1>b, <1>i DEF SettleInv, RecordsOK, RecordOK, BookingsKept
<1>16. ASSUME NEW x \in Procs, Execute(x) PROVE SettleInv'
  <2> DEFINE a == job[x].auth
             rec == HoldForReview(op[a])
  <2>0. pc[x] = "execute" /\ a \in Auths
    BY <1>16, <1>c DEF Execute
  <2>1. CASE /\ Accepts(op[a], "credited") /\ op' = [op EXCEPT ![a] = rec]
             /\ Stored(x, rec, "credited")
    <3>1. rec \in Operation
      BY <1>b, <2>0, PatchedType DEF HoldForReview, Statuses
    <3>2. rec.reserved /\ RecordOK(rec)
      BY <1>g, <1>h, <2>0, <2>1, <3>1 DEF HoldForReview
    <3>3. RecordsOK' /\ BookingsKept
      BY <1>i, <2>0, <2>1, <3>1, <3>2
    <3>. QED BY <1>16, <1>f, <2>0, <2>1, <3>1, <3>2, <3>3 DEF Execute, history, Statuses
  <2>2. CASE UNCHANGED object /\ \/ \E label \in {"complete", "credit"} : Goto(x, label)
                                 \/ Report(x, "finalize", "credited")
    <3>1. OthersStay(x) /\ pc'[x] \notin Settling /\ ~Writing(x)'
      BY <1>b, <2>2 DEF Goto, Report, OthersStay, object, Settling, Writing, Job
    <3>. QED BY <1>16, <1>d, <2>2, <3>1 DEF Execute, object, history
  <2>. QED BY <1>16, <2>1, <2>2 DEF Execute
<1>17. ASSUME NEW x \in Procs, RecordCredit(x) PROVE SettleInv'
  <2> DEFINE a == job[x].auth
             rec == [Patched(op[a], "credited") EXCEPT !.claim = 0, !.credit = job[x].token]
  <2>0. pc[x] = "credit" /\ a \in Auths /\ job[x].token \in Nat
    BY <1>17, <1>b, <1>c DEF RecordCredit, Job
  <2>1. OthersStay(x) /\ pc'[x] = "finalize" /\ ~Writing(x)'
    BY <1>17, <1>b DEF RecordCredit, Report, OthersStay, Writing, Job
  <2>2. RecordsOK' /\ BookingsKept
    <3>1. CASE Accepts(op[a], "credited") /\ op' = [op EXCEPT ![a] = rec]
      <4>1. Patched(op[a], "credited") \in Operation
        BY <1>b, <2>0, PatchedType DEF Statuses
      <4>2. /\ rec \in Operation /\ rec.reserved = Patched(op[a], "credited").reserved
            /\ rec.status = Patched(op[a], "credited").status
            /\ rec.life = Patched(op[a], "credited").life
        BY <2>0, <4>1 DEF Operation
      <4>3. op[a].reserved
        BY <1>g, <2>0, <3>1
      <4>4. rec.reserved /\ RecordOK(rec)
        BY <1>h, <2>0, <4>2, <4>3
      <4>. QED BY <1>i, <2>0, <3>1, <4>2, <4>4
    <3>2. CASE UNCHANGED op
      BY <3>2 DEF SettleInv, RecordsOK, RecordOK, BookingsKept
    <3>3. op' = op \/ (Accepts(op[a], "credited") /\ op' = [op EXCEPT ![a] = rec])
      BY <1>17, <1>b, <2>0 DEF RecordCredit
    <3>. QED BY <3>1, <3>2, <3>3
  <2>. QED BY <1>17, <1>a, <2>1, <2>2, StepKeeps DEF RecordCredit, history, Settling
<1>18. ASSUME NEW x \in Procs, Complete(x) PROVE SettleInv'
  <2> DEFINE a == job[x].auth
             rec == [Patched(op[a], "succeeded") EXCEPT !.claim = 0]
  <2>0. pc[x] = "complete" /\ a \in Auths
    BY <1>18, <1>c DEF Complete
  <2>1. CASE /\ Accepts(op[a], "succeeded") /\ op' = [op EXCEPT ![a] = rec]
             /\ Stored(x, rec, "succeeded")
    <3>1. Patched(op[a], "succeeded") \in Operation
      BY <1>b, <2>0, PatchedType DEF Statuses
    <3>2. /\ rec \in Operation /\ rec.reserved = Patched(op[a], "succeeded").reserved
          /\ rec.status = Patched(op[a], "succeeded").status
          /\ rec.life = Patched(op[a], "succeeded").life
      BY <3>1 DEF Operation
    <3>3. op[a].reserved
      BY <1>g, <2>0, <2>1
    <3>4. rec.reserved /\ RecordOK(rec)
      BY <1>h, <2>0, <3>2, <3>3
    <3>5. RecordsOK' /\ BookingsKept
      BY <1>i, <2>0, <2>1, <3>2, <3>4
    <3>. QED BY <1>18, <1>f, <2>0, <2>1, <3>2, <3>4, <3>5 DEF Complete, Statuses
  <2>2. CASE /\ UNCHANGED <<op, pending, held, delivered>>
             /\ Report(x, "finalize", "succeeded") \/ Finish(x)
    <3>1. OthersStay(x) /\ pc'[x] \notin Settling /\ ~Writing(x)'
      BY <1>b, <2>2, ProcessAssumption
      DEF Finish, Report, OthersStay, Settling, Writing, Job
    <3>. QED BY <1>18, <1>d, <2>2, <3>1 DEF Complete
  <2>. QED BY <1>18, <2>1, <2>2 DEF Complete
<1>19. ASSUME NEW a \in Auths, FireAlarm(a) PROVE SettleInv'
  <2>0. a \in Procs /\ RecordOK(op[a]) /\ op[a] \in Operation /\ Seen(a) \in Operation
    BY <1>b, SeenType DEF SettleInv, RecordsOK
  <2>1. RecordOK(Seen(a)) /\ Seen(a).reserved = op[a].reserved
    <3>1. CASE op[a].life = "SETTLEMENT_PENDING"
      BY <2>0, <3>1, PatchedBooked DEF Seen, RecordOK
    <3>. QED BY <2>0, <3>1 DEF Seen
  <2>2. CASE Owing(a, Seen(a)) /\ UNCHANGED op
    <3>1. Seen(a).reserved
      BY <2>1, <2>2 DEF Owing, RecordOK
    <3>2. /\ held' = [held EXCEPT ![a] = op[a]]
          /\ pc' = [pc EXCEPT ![a] = "sync"]
          /\ job' = [job EXCEPT ![a] = [@ EXCEPT !.pid = op[a].pid, !.auth = a]]
      BY <1>19, <2>2 DEF FireAlarm, StartReconciling
    <3>3. OthersStay(a) /\ pc'[a] = "sync" /\ held'[a] = op[a]
      BY <1>b, <2>0, <3>2 DEF OthersStay
    <3>4. RecordsOK' /\ BookingsKept
      BY <2>2 DEF SettleInv, RecordsOK, RecordOK, BookingsKept
    <3>5. Writing(a)' => held'[a].reserved /\ RecordOK(held'[a])
      BY <2>0, <2>1, <3>1, <3>3
    <3>6. UNCHANGED settles /\ pc'[a] \notin Settling
      BY <1>19, <3>3 DEF FireAlarm, history, Settling
    <3>. QED BY <1>a, <2>0, <3>3, <3>4, <3>5, <3>6, StepKeeps
  <2>3. CASE StartReconciling(a, Seen(a))
    <3> DEFINE next == IF Seen(a).attempts >= MaxAttempts
                       THEN [Seen(a) EXCEPT !.dead = TRUE] ELSE CountedAttempt(Seen(a))
    <3>1. /\ next \in Operation /\ next.reserved = Seen(a).reserved
          /\ next.status = Seen(a).status /\ next.life = Seen(a).life
      <4> DEFINE shut == [Seen(a) EXCEPT !.dead = TRUE]
                 counted == CountedAttempt(Seen(a))
      <4>1. /\ shut \in Operation /\ shut.reserved = Seen(a).reserved
            /\ shut.status = Seen(a).status /\ shut.life = Seen(a).life
        BY <2>0 DEF Operation
      <4>2. /\ counted \in Operation /\ counted.reserved = Seen(a).reserved
            /\ counted.status = Seen(a).status /\ counted.life = Seen(a).life
        BY <2>0 DEF CountedAttempt, Operation
      <4>. QED BY <4>1, <4>2
    <3>2. Seen(a).reserved
      BY <2>1, <2>3 DEF StartReconciling, RecordOK
    <3>3. next.reserved /\ RecordOK(next)
      BY <2>1, <3>1, <3>2 DEF RecordOK
    <3>4. /\ op' = [op EXCEPT ![a] = next] /\ held' = [held EXCEPT ![a] = next]
          /\ pc' = [pc EXCEPT ![a] = IF Seen(a).attempts >= MaxAttempts
                                     THEN "finalize" ELSE "query"]
          /\ job' = [job EXCEPT ![a] = [pid |-> Seen(a).pid, auth |-> a,
                                        outcome |-> "ambiguous", token |-> 0]]
      BY <2>3 DEF StartReconciling
    <3>5. OthersStay(a) /\ pc'[a] \in {"finalize", "query"} /\ held'[a] = next
      BY <1>b, <2>0, <3>4 DEF OthersStay
    <3>6. RecordsOK' /\ BookingsKept
      BY <1>i, <3>1, <3>3, <3>4
    <3>. QED
      BY <1>19, <1>a, <2>0, <3>3, <3>5, <3>6, StepKeeps DEF FireAlarm, history, Settling
  <2>4. CASE op' = [op EXCEPT ![a] = Seen(a)] /\ UNCHANGED <<held, pc, job>>
    <3>1. RecordsOK' /\ BookingsKept
      BY <1>b, <2>1, <2>4 DEF SettleInv, RecordsOK, RecordOK, BookingsKept
    <3>2. OthersStay(a)
      BY <2>4 DEF OthersStay
    <3>3. pc[a] = "idle"
      BY <1>19 DEF FireAlarm
    <3>. QED
      BY <1>19, <1>a, <2>0, <2>4, <3>1, <3>2, <3>3, StepKeeps
      DEF FireAlarm, history, Settling, Writing
  <2>. QED BY <1>19, <2>2, <2>3, <2>4 DEF FireAlarm
<1>20. ASSUME NEW a \in Auths, Query(a) PROVE SettleInv'
  <2> DEFINE found == Patched(held[a], "settled")
             missing == [held[a] EXCEPT !.dead = held[a].attempts >= MaxAttempts]
  <2>0. a \in Procs /\ pc[a] = "query" /\ held[a] \in Operation
        /\ held[a].reserved /\ RecordOK(held[a])
    BY <1>20, <1>b DEF Query, SettleInv, HeldOK, Writing
  <2>1. found \in Operation /\ found.reserved /\ RecordOK(found)
    BY <2>0, PatchedType, PatchedBooked DEF Statuses
  <2>2. missing \in Operation /\ missing.reserved /\ RecordOK(missing)
    <3>1. (held[a].attempts >= MaxAttempts) \in BOOLEAN
      OBVIOUS
    <3>. QED BY <2>0, <3>1 DEF Operation, RecordOK
  <2>3. PICK rec \in {found, missing} :
            op' = [op EXCEPT ![a] = rec] /\ held' = [held EXCEPT ![a] = rec]
    BY <1>20 DEF Query
  <2>4. OthersStay(a) /\ pc'[a] = "finalize" /\ held'[a] = rec
    BY <1>20, <1>b, <2>0, <2>3 DEF Query, Report, OthersStay
  <2>5. RecordsOK' /\ BookingsKept
    BY <1>i, <2>1, <2>2, <2>3
  <2>. QED
    BY <1>20, <1>a, <2>0, <2>1, <2>2, <2>4, <2>5, StepKeeps DEF Query, history, Settling
<1>21. ASSUME NEW a \in Auths, Outbox(a) PROVE SettleInv'
  <2>0. a \in Procs /\ held[a] \in Operation /\ held[a].reserved /\ RecordOK(held[a])
    BY <1>21, <1>b DEF Outbox, SettleInv, HeldOK, Writing
  <2>1. OthersStay(a) /\ pc'[a] = "sync" /\ held' = held
    BY <1>21, <1>b, <2>0 DEF Outbox, Goto, OthersStay
  <2>2. RecordsOK' /\ BookingsKept
    BY <1>21, <1>i, <2>0 DEF Outbox
  <2>. QED BY <1>21, <1>a, <2>0, <2>1, <2>2, StepKeeps DEF Outbox, history, Settling
<1>22. ASSUME NEW a \in Auths, ChainDecides(a) PROVE SettleInv'
  BY <1>22
  DEF ChainDecides, object, history, SettleInv, RecordsOK, HeldOK, SendOK, RecordOK, Writing
<1>23. ASSUME NEW r \in Requests, CrashRequest(r) PROVE SettleInv'
  <2>1. OthersStay(r) /\ pc'[r] = "done"
    BY <1>23, <1>b DEF CrashRequest, Finish, OthersStay
  <2>. QED BY <1>23, <1>b, <1>d, <2>1 DEF CrashRequest, history, Settling, Writing
<1>24. ASSUME NEW a \in Auths, CrashAlarm(a) PROVE SettleInv'
  <2>1. OthersStay(a) /\ pc'[a] = "idle"
    BY <1>24, <1>b, ProcessAssumption DEF CrashAlarm, Finish, OthersStay
  <2>. QED BY <1>24, <1>b, <1>d, <2>1 DEF CrashAlarm, history, Settling, Writing
<1>25. CASE UNCHANGED vars
  BY <1>25 DEF vars, SettleInv, RecordsOK, HeldOK, SendOK, RecordOK, Writing
<1>. QED
  BY <1>1, <1>2, <1>3, <1>4, <1>5, <1>6, <1>7, <1>8, <1>9, <1>10, <1>11, <1>12, <1>13,
     <1>14, <1>15, <1>16, <1>17, <1>18, <1>19, <1>20, <1>21, <1>22, <1>23, <1>24, <1>25
  DEF Next, RequestStep, ExecutionStep, AlarmStep

LEMMA SettleInit == Init => SettleInv
  BY DEF Init, NoOperation, SettleInv, RecordsOK, HeldOK, SendOK, RecordOK, Writing,
         Settling, Procs

\* /settle is called at most once with an authorization, for any number of
\* requests, identifiers, crashes and alarms, whatever the facilitator answers.
THEOREM SettledOnce == Spec => []SettleOnce
<1>1. SettleInv /\ TypeInv => SettleOnce
  BY DEF SettleInv, SendOK, SettleOnce, TypeInv, TypeOK
<1>. QED BY <1>1, SettleInit, TypeInvariant, SettleStep, PTL DEF Spec

-----------------------------------------------------------------------------
(* PaidBeforeExecution.  The facilitator must agree with the chain, or the  *)
(* chain must be asked.                                                     *)

FacilitatorChecked == HonestFacilitator \/ Pids \subseteq LivePids

Received == {"settled", "credited", "succeeded"}

\* Money a record counts as received has arrived, whether the record is stored
\* or is about to be written back.
PaidInv ==
    /\ \A a \in Auths : op[a].status \in Received => chain[a] = "paid"
    /\ \A x \in Procs : Writing(x) /\ held[x].status \in Received
          => chain[job[x].auth] = "paid"
    /\ \A r \in Requests : pc[r] \notin {"idle", "done"} => job[r].pid \in Pids
    /\ \A r \in Requests : pc[r] = "commit" => chain[job[r].auth] = "paid"
    /\ \A a \in Auths : pc[a] \notin {"idle", "done"} => job[a].auth = a
    /\ PaidBeforeExecution

\* No record starts to count as received before the chain paid.
ReceiptsPaid == \A a \in Auths :
    op'[a].status \in Received => op[a].status \in Received \/ chain[a] = "paid"

\* A process keeps its job, ends it, or starts one.
JobKept(x) ==
    pc'[x] \notin {"idle", "done"} =>
        \/ /\ pc[x] \notin {"idle", "done"}
           /\ job'[x].pid = job[x].pid /\ job'[x].auth = job[x].auth
        \/ /\ x \in Requests => job'[x].pid \in Pids
           /\ x \in Auths => job'[x].auth = x

\* What every step but those of the chain does.
LEMMA PaidStepKeeps ==
    ASSUME PaidInv, NEW x \in Procs, OthersStay(x), JobKept(x), ReceiptsPaid,
           UNCHANGED chain,
           Writing(x)' /\ held'[x].status \in Received => chain[job'[x].auth] = "paid",
           pc'[x] = "commit" => chain[job'[x].auth] = "paid",
           \A a \in Auths : started'[a] > 0 => started[a] > 0 \/ chain[a] = "paid"
    PROVE  PaidInv'
<1>1. \A a \in Auths : op'[a].status \in Received => chain'[a] = "paid"
  BY DEF PaidInv, ReceiptsPaid
<1>2. \A y \in Procs : Writing(y)' /\ held'[y].status \in Received
          => chain'[job'[y].auth] = "paid"
  BY DEF PaidInv, OthersStay, Writing
<1>3. \A r \in Requests : pc'[r] \notin {"idle", "done"} => job'[r].pid \in Pids
  BY DEF PaidInv, OthersStay, JobKept, Procs
<1>4. \A r \in Requests : pc'[r] = "commit" => chain'[job'[r].auth] = "paid"
  BY DEF PaidInv, OthersStay, Procs
<1>5. \A a \in Auths : pc'[a] \notin {"idle", "done"} => job'[a].auth = a
  BY DEF PaidInv, OthersStay, JobKept, Procs
<1>6. PaidBeforeExecution'
  BY DEF PaidInv, PaidBeforeExecution
<1>. QED BY <1>1, <1>2, <1>3, <1>4, <1>5, <1>6 DEF PaidInv

\* A patched record has the new status.
LEMMA PatchedStatus ==
    ASSUME NEW o \in Operation, NEW next \in Statuses
    PROVE  Patched(o, next).status = next
  BY DEF Patched, Operation

\* A transition to anything but "settled" receives nothing.
LEMMA TransitionPaid ==
    ASSUME TypeInv, NEW a \in Auths, NEW next \in Statuses, Transition(a, next),
           next \notin Received \/ chain[a] = "paid"
    PROVE  ReceiptsPaid
<1>1. op[a] \in Operation /\ op \in [Auths -> Operation]
  BY DEF TypeInv, TypeOK
<1>2. Patched(op[a], next).status = next
  BY <1>1, PatchedStatus
<1>. QED BY <1>1, <1>2 DEF Transition, ReceiptsPaid

\* Nothing is received or executed before the chain has paid.
LEMMA PaidStep ==
    ASSUME FacilitatorChecked
    PROVE  TypeInv /\ PaidInv /\ [Next]_vars => PaidInv'
<1> SUFFICES ASSUME TypeInv, PaidInv, [Next]_vars PROVE PaidInv'
  OBVIOUS
<1>b. /\ op \in [Auths -> Operation] /\ held \in [Procs -> Operation]
      /\ pc \in [Procs -> Labels] /\ job \in [Procs -> Job]
      /\ started \in [Auths -> Nat]
      /\ Requests \subseteq Procs /\ Auths \subseteq Procs
  BY DEF TypeInv, TypeOK, Procs
<1>c. ASSUME NEW x \in Procs, pc[x] \notin {"idle", "done"}
      PROVE  job[x].auth \in Auths
  BY <1>c DEF TypeInv, JobOK
\* Steps that store no record.
<1>d. ASSUME NEW x \in Procs, OthersStay(x), JobKept(x), UNCHANGED <<op, chain, started>>,
             pc'[x] # "commit", ~Writing(x)'
      PROVE  PaidInv'
  BY <1>d, PaidStepKeeps DEF ReceiptsPaid
\* Giving up, whatever the outcome.
<1>e. ASSUME NEW r \in Requests, pc[r] \notin {"idle", "done"},
             NEW outcome \in {"failed", "ambiguous"}, GiveUp(r, outcome),
             UNCHANGED <<chain, started>>
      PROVE  PaidInv'
  <2>1. ReceiptsPaid
    BY <1>b, <1>c, <1>e, TransitionPaid DEF GiveUp, Received, Statuses
  <2>2. OthersStay(r) /\ JobKept(r) /\ pc'[r] = "finalize"
    BY <1>b, <1>e DEF GiveUp, Report, OthersStay, JobKept, Job
  <2>3. ~Writing(r)'
    BY <2>2, ProcessAssumption DEF Writing
  <2>. QED BY <1>b, <1>e, <2>1, <2>2, <2>3, PaidStepKeeps
\* A record passed on when its payment has arrived.
<1>f. ASSUME NEW x \in Procs, NEW rec \in Operation, NEW outcome \in Statuses,
             pc[x] \notin {"idle", "done"}, Stored(x, rec, outcome),
             UNCHANGED <<chain, started>>, ReceiptsPaid, chain[job[x].auth] = "paid"
      PROVE  PaidInv'
  <2>1. OthersStay(x) /\ pc'[x] \in {"sync", "finalize"}
    BY <1>b, <1>f DEF Stored, Report, OthersStay
  <2>2. job'[x].auth = job[x].auth /\ JobKept(x)
    BY <1>b, <1>f DEF Stored, Report, Job, JobKept
  <2>. QED BY <1>f, <2>1, <2>2, PaidStepKeeps
<1>1. ASSUME NEW r \in Requests, NEW p \in Pids, NEW a \in Auths, Reserve(r, p, a)
      PROVE  PaidInv'
  <2>1. OthersStay(r) /\ pc'[r] \in {"select", "peek", "done"}
    BY <1>1, <1>b DEF Reserve, Finish, OthersStay, object
  <2>2. pc'[r] # "done" => job'[r].pid = p
    <3>1. [job[r] EXCEPT !.pid = p, !.auth = a].pid = p
      BY <1>b DEF Job
    <3>2. \/ Finish(r)
          \/ job' = [job EXCEPT ![r] = [@ EXCEPT !.pid = p, !.auth = a]]
      BY <1>1 DEF Reserve
    <3>. QED BY <1>b, <3>1, <3>2 DEF Finish
  <2>3. JobKept(r)
    BY <2>1, <2>2, ProcessAssumption DEF JobKept
  <2>. QED
    BY <1>1, <1>b, <1>d, <2>1, <2>3 DEF Reserve, object, history, Writing
<1>2. ASSUME NEW r \in Requests, SelectFacilitator(r) PROVE PaidInv'
  <2>1. OthersStay(r) /\ JobKept(r) /\ pc'[r] \in {"begin", "release"}
    BY <1>2, <1>b DEF SelectFacilitator, Goto, OthersStay, JobKept, object
  <2>. QED
    BY <1>2, <1>b, <1>d, <2>1 DEF SelectFacilitator, object, history, Writing
<1>3. ASSUME NEW r \in Requests, Peek(r) PROVE PaidInv'
  <2>1. OthersStay(r) /\ JobKept(r) /\ pc'[r] \in {"begin", "release", "done"}
    BY <1>3, <1>b DEF Peek, AwaitPreparation, Goto, Finish, OthersStay, JobKept, object
  <2>. QED
    BY <1>3, <1>b, <1>d, <2>1 DEF Peek, object, history, Writing
<1>4. ASSUME NEW r \in Requests, Release(r) PROVE PaidInv'
  <2>1. OthersStay(r) /\ JobKept(r) /\ pc'[r] = "done"
    BY <1>4, <1>b DEF Release, Finish, OthersStay, JobKept, object
  <2>. QED
    BY <1>4, <1>b, <1>d, <2>1 DEF Release, object, history, Writing
<1>5. ASSUME NEW r \in Requests, Begin(r) PROVE PaidInv'
  <2>1. OthersStay(r) /\ JobKept(r) /\ pc'[r] \in {"verify", "release", "claim", "done"}
    BY <1>5, <1>b DEF Begin, Goto, Finish, OthersStay, JobKept
  <2>2. ReceiptsPaid
    BY ZenonT(60), <1>5, <1>b DEF Begin, ReceiptsPaid, NewOperation, NoOperation, Received
  <2>3. ~Writing(r)'
    BY <2>1 DEF Writing
  <2>. QED
    BY <1>5, <1>b, <2>1, <2>2, <2>3, PaidStepKeeps DEF Begin, history
<1>6. ASSUME NEW r \in Requests, Verify(r) PROVE PaidInv'
  <2>1. CASE GiveUp(r, "failed")
    BY <1>6, <1>e, <2>1 DEF Verify, history
  <2>2. CASE /\ Transition(job[r].auth, "verified") /\ UNCHANGED <<pending, held>>
             /\ Goto(r, "key") \/ Finish(r)
    <3>1. OthersStay(r) /\ JobKept(r) /\ pc'[r] \in {"key", "done"}
      BY <1>6, <1>b, <2>2 DEF Verify, Goto, Finish, OthersStay, JobKept
    <3>2. ReceiptsPaid
      BY <1>6, <1>b, <1>c, <2>2, TransitionPaid DEF Verify, Received, Statuses
    <3>3. ~Writing(r)'
      BY <3>1 DEF Writing
    <3>. QED
      BY <1>6, <1>b, <3>1, <3>2, <3>3, PaidStepKeeps DEF Verify, history
  <2>. QED BY <1>6, <2>1, <2>2 DEF Verify
<1>7. ASSUME NEW r \in Requests, ReserveKey(r) PROVE PaidInv'
  <2>1. CASE GiveUp(r, "failed")
    BY <1>7, <1>e, <2>1 DEF ReserveKey, history
  <2>2. CASE Goto(r, "book") /\ UNCHANGED object
    <3>1. OthersStay(r) /\ JobKept(r) /\ pc'[r] = "book"
      BY <1>7, <1>b, <2>2 DEF ReserveKey, Goto, OthersStay, JobKept, object
    <3>. QED
      BY <1>7, <1>b, <1>d, <2>2, <3>1 DEF ReserveKey, object, history, Writing
  <2>. QED BY <1>7, <2>1, <2>2 DEF ReserveKey
<1>8. ASSUME NEW r \in Requests, Book(r) PROVE PaidInv'
  <2>1. OthersStay(r) /\ JobKept(r) /\ pc'[r] \in {"submit", "done"} /\ ~Writing(r)'
    BY <1>8, <1>b DEF Book, Goto, Finish, OthersStay, JobKept, Writing
  <2>2. \A a \in Auths : op'[a].status = op[a].status
    <3>1. job[r].auth \in Auths
      BY <1>8, <1>b, <1>c DEF Book
    <3>. QED BY <1>8, <1>b, <3>1 DEF Book, Operation
  <2>3. ReceiptsPaid
    BY <2>2 DEF ReceiptsPaid
  <2>. QED BY <1>8, <1>b, <2>1, <2>3, PaidStepKeeps DEF Book, history
<1>9. ASSUME NEW r \in Requests, Submit(r) PROVE PaidInv'
  <2>1. OthersStay(r) /\ JobKept(r) /\ pc'[r] = "reply"
    BY <1>9, <1>b DEF Submit, Goto, OthersStay, JobKept, object
  <2>. QED BY <1>9, <1>b, <1>d, <2>1 DEF Submit, object, Writing
<1>10. ASSUME NEW r \in Requests, Reply(r) PROVE PaidInv'
  <2>1. ASSUME NEW outcome \in {"failed", "ambiguous"}, GiveUp(r, outcome) PROVE PaidInv'
    BY <1>10, <1>e, <2>1 DEF Reply, history
  <2>2. ASSUME HonestFacilitator => chain[job[r].auth] = "paid",
               Goto(r, IF job[r].pid \in LivePids THEN "evidence" ELSE "commit"),
               UNCHANGED object
        PROVE PaidInv'
    <3>1. OthersStay(r) /\ JobKept(r) /\ job' = job /\ pc'[r] \in {"evidence", "commit"}
      BY <1>10, <1>b, <2>2 DEF Reply, Goto, OthersStay, JobKept, object
    <3>2. job[r].pid \in Pids
      BY <1>10 DEF Reply, PaidInv
    <3>3. pc'[r] = "commit" => chain[job[r].auth] = "paid"
      BY <1>b, <2>2, <3>2 DEF Goto, FacilitatorChecked
    <3>4. ReceiptsPaid /\ ~Writing(r)'
      BY <2>2, <3>1 DEF ReceiptsPaid, Writing, object
    <3>. QED BY <1>10, <1>b, <3>1, <3>3, <3>4, PaidStepKeeps DEF Reply, history
  <2>. QED BY <1>10, <2>1, <2>2 DEF Reply, Unclear
<1>11. ASSUME NEW r \in Requests, CheckEvidence(r) PROVE PaidInv'
  <2>1. CASE GiveUp(r, "ambiguous")
    BY <1>11, <1>e, <2>1 DEF CheckEvidence, history
  <2>2. CASE Proven(job[r].auth) /\ Goto(r, "commit") /\ UNCHANGED object
    <3>1. OthersStay(r) /\ JobKept(r) /\ job' = job /\ pc'[r] = "commit"
      BY <1>11, <1>b, <2>2 DEF CheckEvidence, Goto, OthersStay, JobKept, object
    <3>2. ReceiptsPaid /\ ~Writing(r)'
      BY <2>2, <3>1 DEF ReceiptsPaid, Writing, object
    <3>. QED
      BY <1>11, <1>b, <2>2, <3>1, <3>2, PaidStepKeeps DEF CheckEvidence, Proven, history
  <2>. QED BY <1>11, <2>1, <2>2 DEF CheckEvidence
<1>12. ASSUME NEW r \in Requests, Commit(r) PROVE PaidInv'
  <2> DEFINE a == job[r].auth
  <2>1. pc[r] = "commit" /\ a \in Auths /\ r \in Procs /\ chain[a] = "paid"
    BY <1>12, <1>b, <1>c DEF Commit, PaidInv
  <2>2. ReceiptsPaid
    BY <1>12, <2>1, TransitionPaid DEF Commit, Statuses
  <2>3. CASE Stored(r, Patched(op[a], "settled"), "settled")
    <3>1. Patched(op[a], "settled") \in Operation
      BY <1>b, <2>1, PatchedType DEF Statuses
    <3>. QED BY <1>12, <1>f, <2>1, <2>2, <2>3, <3>1 DEF Commit, history, Statuses
  <2>4. CASE Finish(r) /\ UNCHANGED <<pending, held>>
    <3>1. OthersStay(r) /\ JobKept(r) /\ pc'[r] = "done"
      BY <1>b, <2>4 DEF Finish, OthersStay, JobKept
    <3>. QED
      BY <1>12, <1>b, <2>2, <3>1, PaidStepKeeps DEF Commit, history, Writing
  <2>. QED BY <1>12, <2>3, <2>4 DEF Commit
<1>13. ASSUME NEW x \in Procs, Sync(x) PROVE PaidInv'
  <2>1. /\ pc[x] = "sync" /\ job[x].auth \in Auths
        /\ held[x].status \in Received => chain[job[x].auth] = "paid"
    BY <1>13, <1>c DEF Sync, PaidInv, Writing
  <2>2. ReceiptsPaid
    BY <1>13, <1>b, <2>1 DEF Sync, ReceiptsPaid
  <2>3. OthersStay(x) /\ JobKept(x) /\ ~Writing(x)' /\ pc'[x] # "commit"
    <3>1. CASE x \in Auths /\ job[x].outcome = "none" /\ Finish(x)
      BY <1>13, <1>b, <3>1, ProcessAssumption
      DEF Sync, Finish, OthersStay, JobKept, Writing
    <3>2. CASE x \in Auths /\ job[x].outcome = "settled" /\ Goto(x, "claim")
      BY <1>13, <1>b, <3>2 DEF Sync, Goto, OthersStay, JobKept, Writing
    <3>3. CASE ~(x \in Auths /\ job[x].outcome = "settled") /\ Goto(x, "finalize")
      BY <1>13, <1>b, <3>3 DEF Sync, Goto, OthersStay, JobKept, Writing
    <3>. QED BY <1>13, <3>1, <3>2, <3>3 DEF Sync
  <2>. QED BY <1>13, <2>2, <2>3, PaidStepKeeps DEF Sync, history
<1>14. ASSUME NEW x \in Procs, Finalize(x) PROVE PaidInv'
  <2>1. ReceiptsPaid
    BY <1>14 DEF Finalize, ReceiptsPaid
  <2>2. OthersStay(x) /\ JobKept(x) /\ pc'[x] \in {"outbox", "claim", "idle", "done"}
    BY <1>14, <1>b DEF Finalize, Goto, Finish, OthersStay, JobKept
  <2>3. Writing(x)' /\ held'[x].status \in Received => chain[job'[x].auth] = "paid"
    <3> SUFFICES ASSUME Writing(x)', held'[x].status \in Received
                 PROVE  chain[job'[x].auth] = "paid"
      OBVIOUS
    <3>1. pc'[x] = "outbox"
      BY <2>2 DEF Writing
    <3>2. x \in Auths /\ job[x].outcome = "settled" /\ held' = held /\ job' = job
      BY <1>14, <1>b, <3>1 DEF Finalize, Goto, Finish
    <3>. QED BY <1>14, <3>2 DEF Finalize, PaidInv, Writing
  <2>. QED BY <1>14, <2>1, <2>2, <2>3, PaidStepKeeps DEF Finalize, history
<1>15. ASSUME NEW x \in Procs, Claim(x) PROVE PaidInv'
  <2> DEFINE a == job[x].auth
  <2>0. pc[x] = "claim" /\ a \in Auths
    BY <1>15, <1>c DEF Claim
  <2>1. OthersStay(x) /\ JobKept(x) /\ pc'[x] \in {"execute", "idle", "done"}
    BY <1>15, <1>b DEF Claim, Finish, OthersStay, JobKept, Job
  <2>2. \A b \in Auths : op'[b].status = op[b].status
    <3>1. CASE Claimable(op[a])
      <4> PICK o : o = [op[a] EXCEPT !.claim = started[a] + 1, !.life = "EXECUTION_STARTED"]
        OBVIOUS
      <4>1. o.status = op[a].status
        BY <1>b, <2>0 DEF Operation
      <4>2. op' = [op EXCEPT ![a] = o]
        BY <1>15, <3>1 DEF Claim
      <4> HIDE DEF a
      <4>. QED BY <1>b, <2>0, <4>1, <4>2
    <3>2. CASE ~Claimable(op[a])
      BY <1>15, <3>2 DEF Claim
    <3>. QED BY <3>1, <3>2
  <2>3. \A b \in Auths : started'[b] > 0 => started[b] > 0 \/ chain[b] = "paid"
    <3>1. CASE UNCHANGED started
      BY <3>1
    <3>2. CASE Claimable(op[a]) /\ started' = [started EXCEPT ![a] = @ + 1]
      <4>1. chain[a] = "paid"
        BY <2>0, <3>2 DEF Claimable, PaidInv, Received
      <4>. QED BY <1>b, <2>0, <3>2, <4>1
    <3>. QED BY <1>15, <3>1, <3>2 DEF Claim
  <2>4. ReceiptsPaid /\ ~Writing(x)'
    BY <2>1, <2>2 DEF ReceiptsPaid, Writing
  <2>. QED BY <1>15, <2>1, <2>3, <2>4, PaidStepKeeps DEF Claim
\* A record that may become credited or delivered was received.
<1>g. ASSUME NEW a \in Auths, NEW next \in {"credited", "succeeded"}, Accepts(op[a], next)
      PROVE  chain[a] = "paid"
  <2>1. op[a].status \in Statuses
    BY <1>b DEF Operation
  <2>2. op[a].status \in Received
    BY <1>g, <2>1 DEF Accepts, PaymentStateCanTransition, PaymentTransitions, Statuses, Received
  <2>. QED BY <2>2 DEF PaidInv
\* Storing a record of a payment that arrived.
<1>h. ASSUME NEW a \in Auths, NEW rec, chain[a] = "paid",
             op' = [op EXCEPT ![a] = rec] \/ UNCHANGED op
      PROVE  ReceiptsPaid
  BY <1>b, <1>h DEF ReceiptsPaid
<1>16. ASSUME NEW x \in Procs, Execute(x) PROVE PaidInv'
  <2> DEFINE a == job[x].auth
             rec == HoldForReview(op[a])
  <2>0. pc[x] = "execute" /\ a \in Auths
    BY <1>16, <1>c DEF Execute
  <2>1. CASE /\ Accepts(op[a], "credited") /\ op' = [op EXCEPT ![a] = rec]
             /\ Stored(x, rec, "credited")
    <3>1. rec \in Operation /\ chain[a] = "paid"
      BY <1>b, <1>g, <2>0, <2>1, PatchedType DEF HoldForReview, Statuses
    <3>2. ReceiptsPaid
      BY <1>h, <2>0, <2>1, <3>1
    <3>. QED BY <1>16, <1>f, <2>0, <2>1, <3>1, <3>2 DEF Execute, history, Statuses
  <2>2. CASE UNCHANGED object /\ \/ \E label \in {"complete", "credit"} : Goto(x, label)
                                 \/ Report(x, "finalize", "credited")
    <3>1. OthersStay(x) /\ JobKept(x) /\ pc'[x] # "commit" /\ ~Writing(x)'
      BY <1>b, <2>0, <2>2 DEF Goto, Report, OthersStay, JobKept, object, Writing, Job
    <3>. QED BY <1>16, <1>d, <2>2, <3>1 DEF Execute, object, history
  <2>. QED BY <1>16, <2>1, <2>2 DEF Execute
<1>17. ASSUME NEW x \in Procs, RecordCredit(x) PROVE PaidInv'
  <2> DEFINE a == job[x].auth
             rec == [Patched(op[a], "credited") EXCEPT !.claim = 0, !.credit = job[x].token]
  <2>0. pc[x] = "credit" /\ a \in Auths
    BY <1>17, <1>c DEF RecordCredit
  <2>1. OthersStay(x) /\ JobKept(x) /\ pc'[x] = "finalize" /\ ~Writing(x)'
    BY <1>17, <1>b DEF RecordCredit, Report, OthersStay, JobKept, Writing, Job
  <2>2. ReceiptsPaid
    <3>1. op' = op \/ (Accepts(op[a], "credited") /\ op' = [op EXCEPT ![a] = rec])
      BY <1>17, <1>b, <2>0 DEF RecordCredit
    <3>2. CASE op' = op
      BY <3>2 DEF ReceiptsPaid
    <3>3. CASE Accepts(op[a], "credited") /\ op' = [op EXCEPT ![a] = rec]
      BY <1>g, <1>h, <2>0, <3>3
    <3>. QED BY <3>1, <3>2, <3>3
  <2>. QED BY <1>17, <2>1, <2>2, PaidStepKeeps DEF RecordCredit, history
<1>18. ASSUME NEW x \in Procs, Complete(x) PROVE PaidInv'
  <2> DEFINE a == job[x].auth
             rec == [Patched(op[a], "succeeded") EXCEPT !.claim = 0]
  <2>0. pc[x] = "complete" /\ a \in Auths
    BY <1>18, <1>c DEF Complete
  <2>1. CASE /\ Accepts(op[a], "succeeded") /\ op' = [op EXCEPT ![a] = rec]
             /\ Stored(x, rec, "succeeded")
    <3>1. Patched(op[a], "succeeded") \in Operation
      BY <1>b, <2>0, PatchedType DEF Statuses
    <3>2. rec \in Operation
      BY <3>1 DEF Operation
    <3>3. chain[a] = "paid"
      BY <1>g, <2>0, <2>1
    <3>4. ReceiptsPaid
      BY <1>h, <2>0, <2>1, <3>3
    <3>. QED BY <1>18, <1>f, <2>0, <2>1, <3>2, <3>3, <3>4 DEF Complete, Statuses
  <2>2. CASE /\ UNCHANGED <<op, pending, held, delivered>>
             /\ Report(x, "finalize", "succeeded") \/ Finish(x)
    <3>1. OthersStay(x) /\ JobKept(x) /\ pc'[x] # "commit" /\ ~Writing(x)'
      BY <1>b, <2>0, <2>2, ProcessAssumption
      DEF Finish, Report, OthersStay, JobKept, Writing, Job
    <3>. QED BY <1>18, <1>d, <2>2, <3>1 DEF Complete
  <2>. QED BY <1>18, <2>1, <2>2 DEF Complete
<1>19. ASSUME NEW a \in Auths, FireAlarm(a) PROVE PaidInv'
  <2>0. a \in Procs /\ op[a] \in Operation /\ Seen(a) \in Operation
    BY <1>b, SeenType
  <2>1. op[a].status \in Received => chain[a] = "paid"
    BY DEF PaidInv
  <2>2. Seen(a).status = op[a].status \/ Seen(a).status = "ambiguous"
    BY <2>0, PatchedStatus DEF Seen, Statuses
  <2>3. CASE Owing(a, Seen(a)) /\ UNCHANGED op
    <3>1. /\ held' = [held EXCEPT ![a] = op[a]]
          /\ pc' = [pc EXCEPT ![a] = "sync"]
          /\ job' = [job EXCEPT ![a] = [@ EXCEPT !.pid = op[a].pid, !.auth = a]]
      BY <1>19, <2>3 DEF FireAlarm, StartReconciling
    <3>2. job'[a].auth = a
      BY <1>b, <2>0, <3>1 DEF Job
    <3>3. OthersStay(a) /\ JobKept(a) /\ pc'[a] = "sync" /\ held'[a] = op[a]
      BY <1>b, <2>0, <3>1, <3>2, ProcessAssumption DEF OthersStay, JobKept
    <3>4. ReceiptsPaid
      BY <2>3 DEF ReceiptsPaid
    <3>. QED
      BY <1>19, <2>0, <2>1, <3>2, <3>3, <3>4, PaidStepKeeps DEF FireAlarm, history
  <2>4. CASE StartReconciling(a, Seen(a))
    <3> DEFINE next == IF Seen(a).attempts >= MaxAttempts
                       THEN [Seen(a) EXCEPT !.dead = TRUE] ELSE CountedAttempt(Seen(a))
    <3>1. Seen(a).status = "ambiguous"
      BY <2>4 DEF StartReconciling
    <3>2. next.status = "ambiguous"
      <4>1. CountedAttempt(Seen(a)).status = "ambiguous"
        BY <2>0, <3>1 DEF CountedAttempt, Operation
      <4>2. [Seen(a) EXCEPT !.dead = TRUE].status = "ambiguous"
        BY <2>0, <3>1 DEF Operation
      <4>. QED BY <4>1, <4>2
    <3>3. /\ op' = [op EXCEPT ![a] = next] /\ held' = [held EXCEPT ![a] = next]
          /\ pc' = [pc EXCEPT ![a] = IF Seen(a).attempts >= MaxAttempts
                                     THEN "finalize" ELSE "query"]
          /\ job' = [job EXCEPT ![a] = [pid |-> Seen(a).pid, auth |-> a,
                                        outcome |-> "ambiguous", token |-> 0]]
      BY <2>4 DEF StartReconciling
    <3>4. /\ OthersStay(a) /\ JobKept(a) /\ pc'[a] \in {"finalize", "query"}
          /\ held'[a] = next
      BY <1>b, <2>0, <3>3, ProcessAssumption DEF OthersStay, JobKept
    <3>5. ReceiptsPaid
      BY <1>b, <3>2, <3>3 DEF ReceiptsPaid, Received
    <3>6. held'[a].status \notin Received
      BY <3>2, <3>4 DEF Received
    <3>. QED
      BY <1>19, <2>0, <3>4, <3>5, <3>6, PaidStepKeeps DEF FireAlarm, history
  <2>5. CASE op' = [op EXCEPT ![a] = Seen(a)] /\ UNCHANGED <<held, pc, job>>
    <3>1. ReceiptsPaid
      BY <1>b, <2>2, <2>5 DEF ReceiptsPaid, Received
    <3>2. OthersStay(a) /\ pc'[a] = "idle" /\ ~Writing(a)' /\ JobKept(a)
      BY <1>19, <2>5 DEF FireAlarm, OthersStay, Writing, JobKept
    <3>. QED
      BY <1>19, <2>0, <3>1, <3>2, PaidStepKeeps DEF FireAlarm, history
  <2>. QED BY <1>19, <2>3, <2>4, <2>5 DEF FireAlarm
<1>20. ASSUME NEW a \in Auths, Query(a) PROVE PaidInv'
  <2> DEFINE found == Patched(held[a], "settled")
             missing == [held[a] EXCEPT !.dead = held[a].attempts >= MaxAttempts]
  <2>0. /\ a \in Procs /\ pc[a] = "query" /\ held[a] \in Operation /\ job[a].auth = a
        /\ held[a].status \in Received => chain[a] = "paid"
    BY <1>20, <1>b DEF Query, PaidInv, Writing
  <2>1. missing.status = held[a].status
    BY <2>0 DEF Operation
  <2>2. PICK rec \in {found, missing} :
            /\ op' = [op EXCEPT ![a] = rec] /\ held' = [held EXCEPT ![a] = rec]
            /\ rec.status \in Received => chain[a] = "paid"
    BY <1>20, <2>0, <2>1 DEF Query
  <2>3. OthersStay(a) /\ pc'[a] = "finalize" /\ held'[a] = rec /\ job'[a].auth = a
    BY <1>20, <1>b, <2>0, <2>2 DEF Query, Report, OthersStay, Job
  <2>4. JobKept(a)
    BY <2>3, ProcessAssumption DEF JobKept
  <2>5. ReceiptsPaid
    BY <1>b, <2>2 DEF ReceiptsPaid
  <2>. QED
    BY <1>20, <2>0, <2>2, <2>3, <2>4, <2>5, PaidStepKeeps DEF Query, history
<1>21. ASSUME NEW a \in Auths, Outbox(a) PROVE PaidInv'
  <2>0. /\ a \in Procs /\ job[a].auth = a
        /\ held[a].status \in Received => chain[a] = "paid"
    BY <1>21, <1>b DEF Outbox, PaidInv, Writing
  <2>1. OthersStay(a) /\ JobKept(a) /\ pc'[a] = "sync" /\ held' = held /\ job' = job
    BY <1>21, <1>b, <2>0 DEF Outbox, Goto, OthersStay, JobKept
  <2>2. ReceiptsPaid
    BY <1>21, <1>b, <2>0 DEF Outbox, ReceiptsPaid
  <2>. QED BY <1>21, <2>0, <2>1, <2>2, PaidStepKeeps DEF Outbox, history
<1>22. ASSUME NEW a \in Auths, ChainDecides(a) PROVE PaidInv'
  <2>1. \A b \in Auths : chain[b] = "paid" => chain'[b] = "paid"
    BY <1>22 DEF ChainDecides, TypeInv, TypeOK
  <2>2. UNCHANGED <<op, held, pc, job, started>>
    BY <1>22 DEF ChainDecides, object, history
  <2>3. \A x \in Procs : Writing(x)' => Writing(x) /\ job[x].auth \in Auths
    BY <1>c, <2>2 DEF Writing
  <2>4. \A r \in Requests : pc[r] = "commit" => job[r].auth \in Auths
    BY <1>b, <1>c
  <2>. QED BY <2>1, <2>2, <2>3, <2>4 DEF PaidInv, PaidBeforeExecution
<1>23. ASSUME NEW r \in Requests, CrashRequest(r) PROVE PaidInv'
  <2>1. OthersStay(r) /\ JobKept(r) /\ pc'[r] = "done"
    BY <1>23, <1>b DEF CrashRequest, Finish, OthersStay, JobKept
  <2>. QED BY <1>23, <1>b, <1>d, <2>1 DEF CrashRequest, history, Writing
<1>24. ASSUME NEW a \in Auths, CrashAlarm(a) PROVE PaidInv'
  <2>1. OthersStay(a) /\ JobKept(a) /\ pc'[a] = "idle"
    BY <1>24, <1>b, ProcessAssumption DEF CrashAlarm, Finish, OthersStay, JobKept
  <2>. QED BY <1>24, <1>b, <1>d, <2>1 DEF CrashAlarm, history, Writing
<1>25. CASE UNCHANGED vars
  BY <1>25 DEF vars, PaidInv, PaidBeforeExecution, Writing
<1>. QED
  BY <1>1, <1>2, <1>3, <1>4, <1>5, <1>6, <1>7, <1>8, <1>9, <1>10, <1>11, <1>12, <1>13,
     <1>14, <1>15, <1>16, <1>17, <1>18, <1>19, <1>20, <1>21, <1>22, <1>23, <1>24, <1>25
  DEF Next, RequestStep, ExecutionStep, AlarmStep

\* No operation is executed before the chain has paid for it, when the
\* facilitator agrees with the chain or every quote demands chain evidence.
THEOREM PaidFirst ==
    ASSUME FacilitatorChecked
    PROVE  Spec => []PaidBeforeExecution
<1>1. Init => PaidInv
  BY DEF Init, NoOperation, PaidInv, PaidBeforeExecution, Received, Writing, Procs
<1>2. PaidInv => PaidBeforeExecution
  BY DEF PaidInv
<1>3. TypeInv /\ PaidInv /\ [Next]_vars => PaidInv'
  BY PaidStep
<1>. QED BY <1>1, <1>2, <1>3, TypeInvariant, PTL DEF Spec

-----------------------------------------------------------------------------
(* What the records, the processes and the index agree on.  The properties  *)
(* of the bookings follow: which authorization a key belongs to, what a      *)
(* failed record says of the chain, and who may execute a seller's service.  *)

Open == {"pending", "verified", "ambiguous"}

\* An execution was claimed and has not been answered.
Acted == {"EXECUTION_STARTED", "EXECUTION_FAILED_AFTER_SETTLEMENT"}

\* The fields of a record fit together: the lifecycle of a verified record says
\* whether it is booked, an open payment has its payload, and an operation of a
\* seller that may have acted has its claim.
Shape(o) ==
    /\ o.status # "none" => o.pid \in Pids
    /\ o.reserved => o.status \notin {"none", "pending"}
    /\ o.status = "verified" =>
          o.life = IF o.reserved THEN "SETTLEMENT_PENDING" ELSE "VERIFIED"
    /\ o.life = "SETTLEMENT_PENDING" => o.status = "verified"
    /\ o.status \in Open => o.payload
    /\ o.pid \in SellerPids /\ (o.status = "credited" \/ o.life \in Acted) => o.claim # 0

\* Before Begin has answered a process need not work on what the object holds.
Unbound == {"idle", "done", "select", "peek", "release", "begin"}
Fresh == {"verify", "key", "book"}

ShapesOK == \A a \in Auths : Shape(op[a])
BoundOK == \A x \in Procs : pc[x] \notin Unbound =>
    op[job[x].auth].status # "none" /\ op[job[x].auth].pid = job[x].pid

\* What is written back is of the same operation; only the alarm that asked the
\* chain may write back an ambiguous record.
MayWrite(x) ==
    /\ held[x].pid = job[x].pid /\ Shape(held[x])
    /\ \/ held[x].status \in Received
       \/ x \in Auths /\ pc[x] = "query" /\ held[x].status = "ambiguous"
WriteOK == \A x \in Procs : Writing(x) => op[job[x].auth].reserved /\ MayWrite(x)

\* One request prepares an operation, until it is booked.
OwnerOK ==
    /\ \A r \in Requests : pc[r] \in Fresh => ~op[job[r].auth].reserved
    /\ \A r, s \in Requests :
          pc[r] \in Fresh /\ pc[s] \in Fresh /\ job[r].auth = job[s].auth => r = s
JobsOK ==
    /\ \A r \in Requests : pc[r] \notin {"idle", "done"} => job[r].pid \in Pids
    /\ \A a \in Auths : pc[a] \notin {"idle", "done"} => job[a].auth = a
KeysOK ==
    /\ \A a \in Auths : op[a].reserved /\ KeyOf[op[a].pid] # None
          => keys[KeyOf[op[a].pid]] = a
    /\ \A r \in Requests : pc[r] = "book" /\ KeyOf[job[r].pid] # None
          => keys[KeyOf[job[r].pid]] = job[r].auth
CreditsOK == \A a \in Auths :
    op[a].status = "none" \/ op[a].pid \in SellerPids => available[a] = {}
RefundsOK == \A x \in Procs : pc[x] = "credit" => job[x].pid \notin SellerPids
SentOK == \A a \in Auths : settles[a] = 0 => chain[a] = "none"
FailedOK == HonestFacilitator =>
    \A a \in Auths : op[a].status = "failed" /\ op[a].reserved => chain[a] = "void"

OrderInv ==
    /\ ShapesOK /\ BoundOK /\ WriteOK /\ OwnerOK /\ JobsOK
    /\ KeysOK /\ CreditsOK /\ RefundsOK /\ SentOK /\ FailedOK

\* A patch changes the status, the lifecycle and the payload.
LEMMA PatchedFields ==
    ASSUME NEW o \in Operation, NEW next \in Statuses
    PROVE  LET q == Patched(o, next) IN
           /\ q.status = next /\ q.life = FinancialLifecycle(o.life, next)
           /\ q.pid = o.pid /\ q.reserved = o.reserved /\ q.claim = o.claim
           /\ q.dead = o.dead /\ q.attempts = o.attempts
           /\ next \notin {"failed", "settled", "succeeded"} => q.payload = o.payload
<1>1. o.payload \in BOOLEAN
  BY DEF Operation
<1>. QED BY <1>1 DEF Patched, Operation

\* The states that a patch is accepted from.
LEMMA AcceptedFrom ==
    ASSUME NEW o \in Operation, NEW next \in Statuses, Accepts(o, next)
    PROVE  /\ o.status # "none"
           /\ next = "verified" => o.status = "pending"
           /\ next = "ambiguous" => o.status \in Open
           /\ next = "failed" => o.status \in Open \cup {"failed"}
           /\ next = "settled" => o.status \in {"verified", "ambiguous"}
           /\ next = "credited" => o.status \in {"settled", "credited"}
           /\ next = "succeeded" => o.status \in Received
<1>1. o.status \in Statuses /\ next \in PaymentTransitions[o.status]
  BY DEF Accepts, PaymentStateCanTransition, Operation
<1>. QED BY <1>1 DEF PaymentTransitions, Statuses, Open, Received

\* The lifecycle that an accepted patch leads to.
LEMMA AcceptedLife ==
    ASSUME NEW o \in Operation, NEW next \in Statuses, Accepts(o, next)
    PROVE  LET life == FinancialLifecycle(o.life, next) IN
           /\ next = "verified" => life = "VERIFIED"
           /\ next = "ambiguous" => life = "RECONCILIATION_REQUIRED"
           /\ next = "failed" => life = "REJECTED"
           /\ next = "settled" => life = "SETTLED"
           /\ next = "credited" => life = "RECOVERY_CREDIT_ISSUED" /\ o.life \in Acted
           /\ next = "succeeded" => life = "RECEIPT_ISSUED"
<1>1. FinancialLifecycle(o.life, next) # "INVALID" /\ o.life \in LifecycleStates
  BY DEF Accepts, Operation
<1>2. CASE next = "verified"
  BY <1>1, <1>2, AdvanceResult DEF FinancialLifecycle
<1>3. CASE next = "ambiguous"
  BY <1>1, <1>3, AdvanceResult DEF FinancialLifecycle
<1>4. CASE next = "failed"
  BY <1>1, <1>4, AdvanceResult DEF FinancialLifecycle
<1>5. CASE next = "settled"
  BY <1>1, <1>5, AdvanceResult DEF FinancialLifecycle
<1>6. CASE next = "credited"
  <2>1. /\ FinancialLifecycle(o.life, next)
             = AdvanceLifecycle(AdvanceLifecycle(o.life, "EXECUTION_FAILED_AFTER_SETTLEMENT"),
                                "RECOVERY_CREDIT_ISSUED")
    BY <1>6 DEF FinancialLifecycle
  <2>2. FinancialLifecycle(o.life, next) = "RECOVERY_CREDIT_ISSUED"
    BY <1>1, <2>1, AdvanceResult
  <2>3. AdvanceLifecycle("INVALID", "RECOVERY_CREDIT_ISSUED") = "INVALID"
    BY DEF AdvanceLifecycle, ExecutionStates, LifecycleStates
  <2>4. AdvanceLifecycle(o.life, "EXECUTION_FAILED_AFTER_SETTLEMENT")
          = "EXECUTION_FAILED_AFTER_SETTLEMENT"
    BY <2>1, <2>2, <2>3, AdvanceResult
  <2>5. o.life \in Acted
    BY <1>1, <2>4 DEF AdvanceLifecycle, ExecutionStates, LifecycleStates, Acted
  <2>. QED BY <1>6, <2>2, <2>5
<1>7. CASE next = "succeeded"
  BY <1>1, <1>7, AdvanceResult DEF FinancialLifecycle
<1>. QED BY <1>2, <1>3, <1>4, <1>5, <1>6, <1>7

\* A patch that is accepted keeps the shape.
LEMMA PatchedShape ==
    ASSUME NEW o \in Operation, Shape(o),
           NEW next \in {"verified", "failed", "ambiguous", "settled", "credited", "succeeded"},
           Accepts(o, next)
    PROVE  Shape(Patched(o, next))
<1>1. next \in Statuses
  BY DEF Statuses
<1> PICK q : q = Patched(o, next)
  OBVIOUS
<1>2. /\ q.status = next /\ q.life = FinancialLifecycle(o.life, next)
      /\ q.pid = o.pid /\ q.reserved = o.reserved /\ q.claim = o.claim
      /\ next \notin {"failed", "settled", "succeeded"} => q.payload = o.payload
  BY <1>1, PatchedFields
<1>3. o.status # "none" /\ o.pid \in Pids
  BY <1>1, AcceptedFrom DEF Shape
<1>4. CASE next = "verified"
  <2>1. o.status = "pending" /\ q.life = "VERIFIED"
    BY <1>1, <1>2, <1>4, AcceptedFrom, AcceptedLife
  <2>. QED BY <1>2, <1>3, <1>4, <2>1 DEF Shape, Open, Acted
<1>5. CASE next = "failed"
  <2>1. o.status \in Open \cup {"failed"} /\ q.life = "REJECTED"
    BY <1>1, <1>2, <1>5, AcceptedFrom, AcceptedLife
  <2>. QED BY <1>2, <1>3, <1>5, <2>1 DEF Shape, Open, Acted
<1>6. CASE next = "ambiguous"
  <2>1. o.status \in Open /\ q.life = "RECONCILIATION_REQUIRED"
    BY <1>1, <1>2, <1>6, AcceptedFrom, AcceptedLife
  <2>. QED BY <1>2, <1>3, <1>6, <2>1 DEF Shape, Open, Acted
<1>7. CASE next = "settled"
  <2>1. q.life = "SETTLED"
    BY <1>1, <1>2, <1>7, AcceptedLife
  <2>. QED BY <1>2, <1>3, <1>7, <2>1 DEF Shape, Open, Acted
<1>8. CASE next = "credited"
  <2>1. o.life \in Acted /\ q.life = "RECOVERY_CREDIT_ISSUED"
    BY <1>1, <1>2, <1>8, AcceptedLife
  <2>. QED BY <1>2, <1>3, <1>8, <2>1 DEF Shape, Open, Acted
<1>9. CASE next = "succeeded"
  <2>1. q.life = "RECEIPT_ISSUED"
    BY <1>1, <1>2, <1>9, AcceptedLife
  <2>. QED BY <1>2, <1>3, <1>9, <2>1 DEF Shape, Open, Acted
<1>. QED BY <1>4, <1>5, <1>6, <1>7, <1>8, <1>9

\* The chain settles whatever the alarm holds.
LEMMA FoundShape ==
    ASSUME NEW o \in Operation, Shape(o), o.status # "none"
    PROVE  Shape(Patched(o, "settled"))
<1>1. FinancialLifecycle(o.life, "settled") \in {"SETTLED", "INVALID"}
  BY AdvanceResult DEF FinancialLifecycle
<1> PICK q : q = Patched(o, "settled")
  OBVIOUS
<1>2. /\ q.status = "settled" /\ q.life \in {"SETTLED", "INVALID"}
      /\ q.pid = o.pid /\ q.reserved = o.reserved /\ q.claim = o.claim
  BY <1>1, PatchedFields DEF Statuses
<1>. QED BY <1>2 DEF Shape, Open, Acted

\* An interrupted settlement is a booked one, and the alarm may call it ambiguous.
LEMMA SeenShape ==
    ASSUME NEW a \in Auths, op[a] \in Operation, Shape(op[a]), RecordOK(op[a])
    PROVE  /\ Shape(Seen(a)) /\ Seen(a).pid = op[a].pid /\ Seen(a).reserved = op[a].reserved
           /\ Seen(a).dead = op[a].dead
           /\ \/ Seen(a) = op[a] /\ op[a].life # "SETTLEMENT_PENDING"
              \/ Seen(a).status = "ambiguous" /\ op[a].status = "verified" /\ op[a].reserved
<1>1. CASE op[a].life = "SETTLEMENT_PENDING"
  <2>1. op[a].status = "verified" /\ op[a].reserved
    BY <1>1 DEF Shape, RecordOK
  <2>2. Accepts(op[a], "ambiguous")
    BY <1>1, <2>1 DEF Accepts, PaymentStateCanTransition, PaymentTransitions, Statuses,
       FinancialLifecycle, AdvanceLifecycle, ExecutionStates, LifecycleStates
  <2>3. Seen(a) = Patched(op[a], "ambiguous")
    BY <1>1 DEF Seen
  <2>4. Shape(Patched(op[a], "ambiguous"))
    BY <2>2, PatchedShape
  <2>5. LET q == Patched(op[a], "ambiguous") IN
        q.status = "ambiguous" /\ q.pid = op[a].pid /\ q.reserved = op[a].reserved
        /\ q.dead = op[a].dead
    BY PatchedFields DEF Statuses
  <2>. QED BY <2>1, <2>3, <2>4, <2>5
<1>2. CASE op[a].life # "SETTLEMENT_PENDING"
  BY <1>2 DEF Seen
<1>. QED BY <1>1, <1>2

-----------------------------------------------------------------------------
(* Steps of one process, as OrderInv sees them. *)

SameJob(x) == job'[x].pid = job[x].pid /\ job'[x].auth = job[x].auth

\* A process under way goes on with its job or ends.
Continues(x) ==
    /\ OthersStay(x)
    /\ pc[x] \notin {"idle", "done"}
    /\ pc'[x] \notin {"idle", "done"} => SameJob(x)

LEMMA GotoContinues ==
    ASSUME TypeInv, NEW x \in Procs, NEW label, pc[x] \notin {"idle", "done"}, Goto(x, label),
           \A y \in Procs \ {x} : held'[y] = held[y]
    PROVE  Continues(x) /\ pc'[x] = label /\ job' = job
<1>1. pc \in [Procs -> Labels] /\ pc' = [pc EXCEPT ![x] = label] /\ job' = job
  BY DEF TypeInv, TypeOK, Goto
<1>. QED BY <1>1 DEF Continues, OthersStay, SameJob

LEMMA FinishContinues ==
    ASSUME TypeInv, NEW x \in Procs, pc[x] \notin {"idle", "done"}, Finish(x),
           \A y \in Procs \ {x} : held'[y] = held[y]
    PROVE  Continues(x) /\ pc'[x] \in {"idle", "done"}
<1>1. /\ pc \in [Procs -> Labels] /\ job \in [Procs -> Job]
      /\ pc' = [pc EXCEPT ![x] = IF x \in Requests THEN "done" ELSE "idle"]
      /\ job' = [job EXCEPT ![x] = NoJob]
  BY DEF TypeInv, TypeOK, Finish
<1>. QED BY <1>1 DEF Continues, OthersStay

LEMMA ReportContinues ==
    ASSUME TypeInv, NEW x \in Procs, NEW label, NEW outcome, pc[x] \notin {"idle", "done"},
           Report(x, label, outcome), \A y \in Procs \ {x} : held'[y] = held[y]
    PROVE  /\ Continues(x) /\ pc'[x] = label
           /\ job'[x].outcome = outcome /\ SameJob(x)
<1>1. /\ pc \in [Procs -> Labels] /\ job \in [Procs -> Job]
      /\ pc' = [pc EXCEPT ![x] = label]
      /\ job' = [job EXCEPT ![x].outcome = outcome]
  BY DEF TypeInv, TypeOK, Report
<1>2. job'[x].outcome = outcome /\ SameJob(x)
  BY <1>1 DEF Job, SameJob
<1>. QED BY <1>1, <1>2 DEF Continues, OthersStay

\* What a step does to a record that is neither begun nor booked by it.
RecordStays(a) ==
    /\ Shape(op'[a]) /\ op'[a].pid = op[a].pid /\ op'[a].reserved = op[a].reserved
    /\ op[a].status # "none" => op'[a].status # "none"
    /\ op'[a].status = "failed" /\ op[a].reserved /\ HonestFacilitator
          => op[a].status = "failed" \/ chain[a] = "void"
RecordsStay == \A a \in Auths : RecordStays(a)

LEMMA NoRecordMoves ==
    ASSUME ShapesOK, UNCHANGED op
    PROVE  RecordsStay
  BY DEF ShapesOK, RecordsStay, RecordStays, Shape

LEMMA OneRecordMoves ==
    ASSUME TypeInv, ShapesOK, NEW a \in Auths, NEW rec, op' = [op EXCEPT ![a] = rec],
           Shape(rec), rec.pid = op[a].pid, rec.reserved = op[a].reserved, rec.status # "none",
           rec.status = "failed" /\ op[a].reserved /\ HonestFacilitator
              => op[a].status = "failed" \/ chain[a] = "void"
    PROVE  RecordsStay /\ op'[a] = rec
<1>1. op'[a] = rec /\ \A b \in Auths : b # a => op'[b] = op[b]
  BY DEF TypeInv, TypeOK
<1>2. RecordStays(a)
  BY <1>1 DEF RecordStays
<1>3. ASSUME NEW b \in Auths, b # a PROVE RecordStays(b)
  BY <1>1, <1>3 DEF ShapesOK, RecordStays
<1>. QED BY <1>1, <1>2, <1>3 DEF RecordsStay

\* The index and the chain are left alone.
Elsewhere == UNCHANGED <<keys, available, chain, settles>>

\* A step of x that neither begins nor books an operation nor takes a key.
LEMMA ProcessStepKeeps ==
    ASSUME TypeInv, TypeInv', OrderInv, NEW x \in Procs, OthersStay(x), RecordsStay,
           UNCHANGED <<keys, chain>>,
           available' = available \/ CreditsOK', settles' = settles \/ SentOK',
           pc'[x] \notin Unbound =>
              op[job'[x].auth].status # "none" /\ op[job'[x].auth].pid = job'[x].pid,
           pc'[x] \in Fresh => pc[x] \in Fresh /\ pc'[x] # "book" /\ SameJob(x),
           x \in Requests /\ pc'[x] \notin {"idle", "done"} => job'[x].pid \in Pids,
           x \in Auths /\ pc'[x] \notin {"idle", "done"} => job'[x].auth = x,
           Writing(x)' => op[job'[x].auth].reserved /\ MayWrite(x)',
           pc'[x] = "credit" => job'[x].pid \notin SellerPids
    PROVE  OrderInv'
<1>1. \A y \in Procs : y # x => pc'[y] = pc[y] /\ job'[y] = job[y] /\ held'[y] = held[y]
  BY DEF OthersStay
<1>2. \A y \in Procs : pc'[y] \notin {"idle", "done"} => job'[y].auth \in Auths
  BY DEF TypeInv, JobOK
<1>3. Requests \subseteq Procs /\ Auths \subseteq Procs
  BY DEF Procs
<1>4. ShapesOK'
  BY DEF ShapesOK, RecordsStay, RecordStays
<1>5. BoundOK'
  <2> SUFFICES ASSUME NEW y \in Procs, pc'[y] \notin Unbound
               PROVE  op'[job'[y].auth].status # "none" /\ op'[job'[y].auth].pid = job'[y].pid
    BY DEF BoundOK, Unbound
  <2>1. job'[y].auth \in Auths
    BY <1>2 DEF Unbound
  <2>2. op[job'[y].auth].status # "none" /\ op[job'[y].auth].pid = job'[y].pid
    <3>1. CASE y = x
      BY <3>1
    <3>2. CASE y # x
      BY <1>1, <3>2 DEF OrderInv, BoundOK
    <3>. QED BY <3>1, <3>2
  <2>. QED BY <2>1, <2>2 DEF RecordsStay, RecordStays
<1>6. WriteOK'
  <2> SUFFICES ASSUME NEW y \in Procs, Writing(y)'
               PROVE  op'[job'[y].auth].reserved /\ MayWrite(y)'
    BY DEF WriteOK
  <2>1. job'[y].auth \in Auths
    BY <1>2 DEF Writing
  <2>2. op[job'[y].auth].reserved /\ MayWrite(y)'
    <3>1. CASE y = x
      BY <3>1
    <3>2. CASE y # x
      <4>1. pc'[y] = pc[y] /\ job'[y] = job[y] /\ held'[y] = held[y]
        BY <1>1, <3>2
      <4>2. Writing(y)
        BY <4>1 DEF Writing
      <4>3. op[job[y].auth].reserved /\ MayWrite(y)
        BY <4>2 DEF OrderInv, WriteOK
      <4>. QED BY <4>1, <4>3 DEF MayWrite, Shape
    <3>. QED BY <3>1, <3>2
  <2>. QED BY <2>1, <2>2 DEF RecordsStay, RecordStays
<1>7. ASSUME NEW r \in Requests, pc'[r] \in Fresh
      PROVE  /\ pc[r] \in Fresh /\ job'[r].auth = job[r].auth /\ job[r].auth \in Auths
             /\ pc'[r] = "book" => pc[r] = "book" /\ job'[r] = job[r]
  <2>1. pc[r] \in Fresh /\ job'[r].auth = job[r].auth
    BY <1>1, <1>3, <1>7 DEF SameJob
  <2>2. job'[r].auth \in Auths
    BY <1>2, <1>3, <1>7 DEF Fresh
  <2>3. pc'[r] = "book" => pc[r] = "book" /\ job'[r] = job[r]
    BY <1>1, <1>3, <1>7
  <2>. QED BY <2>1, <2>2, <2>3
<1>8. OwnerOK'
  <2>1. \A r \in Requests : pc'[r] \in Fresh => ~op'[job'[r].auth].reserved
    BY <1>7 DEF OrderInv, OwnerOK, RecordsStay, RecordStays
  <2>2. \A r, s \in Requests :
           pc'[r] \in Fresh /\ pc'[s] \in Fresh /\ job'[r].auth = job'[s].auth => r = s
    BY <1>7 DEF OrderInv, OwnerOK
  <2>. QED BY <2>1, <2>2 DEF OwnerOK, Fresh
<1>9. JobsOK'
  BY <1>1, <1>3 DEF OrderInv, JobsOK
<1>10. KeysOK'
  <2>1. \A a \in Auths : op'[a].reserved /\ KeyOf[op'[a].pid] # None
            => keys'[KeyOf[op'[a].pid]] = a
    BY DEF OrderInv, KeysOK, RecordsStay, RecordStays
  <2>2. \A r \in Requests : pc'[r] = "book" /\ KeyOf[job'[r].pid] # None
            => keys'[KeyOf[job'[r].pid]] = job'[r].auth
    BY <1>7 DEF OrderInv, KeysOK, Fresh
  <2>. QED BY <2>1, <2>2 DEF KeysOK
<1>11. CreditsOK'
  BY DEF OrderInv, CreditsOK, RecordsStay, RecordStays
<1>12. SentOK'
  BY DEF OrderInv, SentOK
<1>13. FailedOK'
  BY DEF OrderInv, FailedOK, RecordsStay, RecordStays
<1>14. RefundsOK'
  BY <1>1 DEF OrderInv, RefundsOK
<1>. QED
  BY <1>4, <1>5, <1>6, <1>8, <1>9, <1>10, <1>11, <1>12, <1>13, <1>14 DEF OrderInv

\* A process that goes on with its job.
LEMMA OrderStepKeeps ==
    ASSUME TypeInv, TypeInv', OrderInv, NEW x \in Procs, Continues(x), RecordsStay,
           UNCHANGED <<keys, chain>>,
           available' = available \/ CreditsOK', settles' = settles \/ SentOK',
           pc[x] \notin Unbound \/ pc'[x] \in Unbound,
           pc'[x] \in Fresh => pc[x] \in Fresh /\ pc'[x] # "book",
           Writing(x)' => op[job[x].auth].reserved /\ MayWrite(x)',
           pc'[x] = "credit" => job[x].pid \notin SellerPids
    PROVE  OrderInv'
<1>1. pc'[x] \notin {"idle", "done"} => SameJob(x) /\ pc[x] \notin {"idle", "done"}
  BY DEF Continues
<1>2. pc'[x] \notin Unbound =>
         op[job'[x].auth].status # "none" /\ op[job'[x].auth].pid = job'[x].pid
  BY <1>1 DEF OrderInv, BoundOK, SameJob, Unbound
<1>3. pc'[x] \in Fresh => pc[x] \in Fresh /\ pc'[x] # "book" /\ SameJob(x)
  BY <1>1 DEF Fresh
<1>4. /\ x \in Requests /\ pc'[x] \notin {"idle", "done"} => job'[x].pid \in Pids
      /\ x \in Auths /\ pc'[x] \notin {"idle", "done"} => job'[x].auth = x
  BY <1>1 DEF OrderInv, JobsOK, SameJob
<1>5. Writing(x)' => op[job'[x].auth].reserved /\ MayWrite(x)'
  BY <1>1 DEF Writing, SameJob
<1>6. OthersStay(x)
  BY DEF Continues
<1>7. pc'[x] = "credit" => job'[x].pid \notin SellerPids
  BY <1>1 DEF SameJob
<1>. QED BY <1>2, <1>3, <1>4, <1>5, <1>6, <1>7, ProcessStepKeeps

-----------------------------------------------------------------------------
(* The steps that begin and book an operation, and take a key. *)

\* The object of a process that is bound to it.
LEMMA BoundRecord ==
    ASSUME TypeInv, SettleInv, OrderInv, NEW x \in Procs, pc[x] \notin Unbound
    PROVE  /\ pc[x] \notin {"idle", "done"} /\ job[x].auth \in Auths
           /\ op[job[x].auth] \in Operation
           /\ Shape(op[job[x].auth]) /\ RecordOK(op[job[x].auth])
           /\ op[job[x].auth].status # "none" /\ op[job[x].auth].pid = job[x].pid
<1>1. pc[x] \notin {"idle", "done"}
  BY DEF Unbound
<1>2. job[x].auth \in Auths
  BY <1>1 DEF TypeInv, JobOK
<1>3. op[job[x].auth] \in Operation
  BY <1>2 DEF TypeInv, TypeOK
<1>4. Shape(op[job[x].auth]) /\ RecordOK(op[job[x].auth])
  BY <1>2 DEF OrderInv, ShapesOK, SettleInv, RecordsOK
<1>5. op[job[x].auth].status # "none" /\ op[job[x].auth].pid = job[x].pid
  BY DEF OrderInv, BoundOK
<1>. QED BY <1>1, <1>2, <1>3, <1>4, <1>5

\* A record that is received was booked.
LEMMA ReceivedBooked ==
    ASSUME NEW o, RecordOK(o), o.status \in Received
    PROVE  o.reserved
  BY DEF RecordOK, Received

\* An operation begins where there was none: nobody works on it yet.
LEMMA BeginsOne ==
    ASSUME TypeInv, TypeInv', OrderInv, NEW r \in Requests, Continues(r),
           pc[r] = "begin", pc'[r] = "verify", NEW a, a = job[r].auth, op[a].status = "none",
           op' = [op EXCEPT ![a] = NewOperation(job[r].pid)], Elsewhere
    PROVE  OrderInv'
<1>1. /\ \A y \in Procs : y # r => pc'[y] = pc[y] /\ job'[y] = job[y] /\ held'[y] = held[y]
      /\ job'[r].pid = job[r].pid /\ job'[r].auth = a
  BY DEF Continues, OthersStay, SameJob
<1>2. /\ Requests \subseteq Procs /\ Auths \subseteq Procs /\ Requests \cap Auths = {}
      /\ \A y \in Procs : pc'[y] \notin {"idle", "done"} => job'[y].auth \in Auths
  BY ProcessAssumption DEF Procs, TypeInv, JobOK
<1>3. a \in Auths /\ job[r].pid \in Pids /\ job[r].pid # None
  BY <1>1, <1>2, NoneAssumption DEF OrderInv, JobsOK
<1> PICK rec : rec = NewOperation(job[r].pid)
  OBVIOUS
<1>4. /\ Shape(rec) /\ rec.status = "pending" /\ rec.pid = job[r].pid /\ ~rec.reserved
  BY <1>3 DEF NewOperation, NoOperation, Shape, Open, Acted
<1>5. op'[a] = rec /\ \A b \in Auths : b # a => op'[b] = op[b]
  BY <1>3 DEF TypeInv, TypeOK
<1>6. ~op[a].reserved /\ available[a] = {}
  BY <1>3 DEF OrderInv, ShapesOK, Shape, CreditsOK
\* Whoever works on an operation works on another one.
<1>7. ASSUME NEW y \in Procs, y # r, pc[y] \notin Unbound
      PROVE  job[y].auth \in Auths /\ job[y].auth # a
  <2>1. job[y].auth \in Auths
    BY <1>7 DEF TypeInv, JobOK, Unbound
  <2>. QED BY <1>7, <2>1 DEF OrderInv, BoundOK
<1>8. ShapesOK'
  BY <1>4, <1>5 DEF OrderInv, ShapesOK
<1>9. BoundOK'
  <2> SUFFICES ASSUME NEW y \in Procs, pc'[y] \notin Unbound
               PROVE  op'[job'[y].auth].status # "none" /\ op'[job'[y].auth].pid = job'[y].pid
    BY DEF BoundOK, Unbound
  <2>1. CASE y = r
    BY <1>1, <1>4, <1>5, <2>1
  <2>2. CASE y # r
    <3>1. pc[y] \notin Unbound /\ job'[y] = job[y]
      BY <1>1, <2>2
    <3>2. job[y].auth \in Auths /\ job[y].auth # a
      BY <1>7, <2>2, <3>1
    <3>. QED BY <1>5, <3>1, <3>2 DEF OrderInv, BoundOK
  <2>. QED BY <2>1, <2>2
<1>10. WriteOK'
  <2> SUFFICES ASSUME NEW y \in Procs, Writing(y)'
               PROVE  op'[job'[y].auth].reserved /\ MayWrite(y)'
    BY DEF WriteOK
  <2>1. y # r
    BY <1>2 DEF Writing
  <2>2. pc'[y] = pc[y] /\ job'[y] = job[y] /\ held'[y] = held[y]
    BY <1>1, <2>1
  <2>3. Writing(y)
    BY <2>2 DEF Writing
  <2>4. op[job[y].auth].reserved /\ MayWrite(y)
    BY <2>3 DEF OrderInv, WriteOK
  <2>5. job[y].auth \in Auths /\ job[y].auth # a
    BY <1>7, <2>1, <2>3 DEF Writing, Unbound
  <2>. QED BY <1>5, <2>2, <2>4, <2>5 DEF MayWrite, Shape
<1>11. OwnerOK'
  <2>1. ASSUME NEW s \in Requests, pc'[s] \in Fresh
        PROVE  \/ s = r
               \/ pc[s] \in Fresh /\ job'[s] = job[s] /\ job[s].auth \in Auths /\ job[s].auth # a
    BY <1>1, <1>2, <1>7, <2>1 DEF Fresh, Unbound
  <2>2. \A s \in Requests : pc'[s] \in Fresh => ~op'[job'[s].auth].reserved
    BY <1>1, <1>4, <1>5, <2>1 DEF OrderInv, OwnerOK
  <2>3. \A s, t \in Requests :
           pc'[s] \in Fresh /\ pc'[t] \in Fresh /\ job'[s].auth = job'[t].auth => s = t
    BY <1>1, <2>1 DEF OrderInv, OwnerOK
  <2>. QED BY <2>2, <2>3 DEF OwnerOK, Fresh
<1>12. JobsOK'
  BY <1>1, <1>2, <1>3 DEF OrderInv, JobsOK
<1>13. KeysOK'
  <2>1. \A b \in Auths : op'[b].reserved /\ KeyOf[op'[b].pid] # None
            => keys'[KeyOf[op'[b].pid]] = b
    BY <1>4, <1>5 DEF OrderInv, KeysOK, Elsewhere
  <2>2. \A s \in Requests : pc'[s] = "book" /\ KeyOf[job'[s].pid] # None
            => keys'[KeyOf[job'[s].pid]] = job'[s].auth
    BY <1>1, <1>2 DEF OrderInv, KeysOK, Elsewhere
  <2>. QED BY <2>1, <2>2 DEF KeysOK
<1>14. CreditsOK' /\ SentOK' /\ FailedOK'
  BY <1>4, <1>5, <1>6 DEF OrderInv, CreditsOK, SentOK, FailedOK, Elsewhere
<1>15. RefundsOK'
  BY <1>1 DEF OrderInv, RefundsOK
<1>. QED
  BY <1>8, <1>9, <1>10, <1>11, <1>12, <1>13, <1>14, <1>15 DEF OrderInv

\* A booking is made by the one request that prepares the operation, whose key
\* is the authorization's.
LEMMA BooksOne ==
    ASSUME TypeInv, TypeInv', OrderInv, NEW r \in Requests, Continues(r),
           pc[r] = "book", pc'[r] \in {"submit", "idle", "done"}, NEW a, a = job[r].auth,
           op[a].status = "verified", ~op[a].reserved, NEW rec, rec.reserved,
           rec.status = "verified", rec.life = "SETTLEMENT_PENDING",
           rec.pid = op[a].pid, rec.payload = op[a].payload,
           op' = [op EXCEPT ![a] = rec], Elsewhere
    PROVE  OrderInv'
<1>1. /\ \A y \in Procs : y # r => pc'[y] = pc[y] /\ job'[y] = job[y] /\ held'[y] = held[y]
      /\ pc'[r] \notin {"idle", "done"} => job'[r].pid = job[r].pid /\ job'[r].auth = a
  BY DEF Continues, OthersStay, SameJob
<1>2. /\ Requests \subseteq Procs /\ Auths \subseteq Procs /\ Requests \cap Auths = {}
      /\ \A y \in Procs : pc'[y] \notin {"idle", "done"} => job'[y].auth \in Auths
  BY ProcessAssumption DEF Procs, TypeInv, JobOK
<1>3. a \in Auths /\ op[a].pid = job[r].pid
  BY <1>2 DEF OrderInv, BoundOK, Unbound, TypeInv, JobOK
<1>4. op'[a] = rec /\ \A b \in Auths : b # a => op'[b] = op[b]
  BY <1>3 DEF TypeInv, TypeOK
<1>5. Shape(rec)
  <2>1. Shape(op[a])
    BY <1>3 DEF OrderInv, ShapesOK
  <2>. QED BY <2>1 DEF Shape, Open, Acted
<1>6. /\ \A b \in Auths : op'[b].pid = op[b].pid /\ op'[b].status = op[b].status
      /\ \A b \in Auths : op[b].reserved => op'[b].reserved
      /\ \A b \in Auths : op'[b].reserved => b = a \/ op[b].reserved
  BY <1>4
<1>7. ShapesOK'
  BY <1>4, <1>5 DEF OrderInv, ShapesOK
<1>8. BoundOK'
  <2> SUFFICES ASSUME NEW y \in Procs, pc'[y] \notin Unbound
               PROVE  op'[job'[y].auth].status # "none" /\ op'[job'[y].auth].pid = job'[y].pid
    BY DEF BoundOK, Unbound
  <2>1. job'[y].auth \in Auths
    BY <1>2 DEF Unbound
  <2>2. op[job'[y].auth].status # "none" /\ op[job'[y].auth].pid = job'[y].pid
    <3>1. CASE y = r
      BY <1>1, <1>3, <3>1 DEF Unbound
    <3>2. CASE y # r
      BY <1>1, <3>2 DEF OrderInv, BoundOK
    <3>. QED BY <3>1, <3>2
  <2>. QED BY <1>6, <2>1, <2>2
<1>9. WriteOK'
  <2> SUFFICES ASSUME NEW y \in Procs, Writing(y)'
               PROVE  op'[job'[y].auth].reserved /\ MayWrite(y)'
    BY DEF WriteOK
  <2>1. y # r
    BY <1>2 DEF Writing
  <2>2. pc'[y] = pc[y] /\ job'[y] = job[y] /\ held'[y] = held[y] /\ job'[y].auth \in Auths
    BY <1>1, <1>2, <2>1 DEF Writing
  <2>3. Writing(y)
    BY <2>2 DEF Writing
  <2>4. op[job[y].auth].reserved /\ MayWrite(y)
    BY <2>3 DEF OrderInv, WriteOK
  <2>. QED BY <1>6, <2>2, <2>4 DEF MayWrite, Shape
<1>10. ASSUME NEW s \in Requests, pc'[s] \in Fresh
       PROVE  pc[s] \in Fresh /\ job'[s] = job[s] /\ job[s].auth \in Auths /\ job[s].auth # a
  <2>1. s # r
    BY <1>10 DEF Fresh
  <2>2. pc[s] \in Fresh /\ job'[s] = job[s] /\ job[s].auth \in Auths
    BY <1>1, <1>2, <1>10, <2>1 DEF Fresh
  <2>. QED BY <2>1, <2>2 DEF OrderInv, OwnerOK, Fresh
<1>11. OwnerOK'
  <2>1. \A s \in Requests : pc'[s] \in Fresh => ~op'[job'[s].auth].reserved
    BY <1>6, <1>10 DEF OrderInv, OwnerOK
  <2>2. \A s, t \in Requests :
           pc'[s] \in Fresh /\ pc'[t] \in Fresh /\ job'[s].auth = job'[t].auth => s = t
    BY <1>10 DEF OrderInv, OwnerOK
  <2>. QED BY <2>1, <2>2 DEF OwnerOK, Fresh
<1>12. JobsOK'
  BY <1>1, <1>2 DEF OrderInv, JobsOK
<1>13. KeysOK'
  <2>1. KeyOf[op[a].pid] # None => keys[KeyOf[op[a].pid]] = a
    BY <1>3 DEF OrderInv, KeysOK
  <2>2. \A b \in Auths : op'[b].reserved /\ KeyOf[op'[b].pid] # None
            => keys'[KeyOf[op'[b].pid]] = b
    BY <1>6, <2>1 DEF OrderInv, KeysOK, Elsewhere
  <2>3. \A s \in Requests : pc'[s] = "book" /\ KeyOf[job'[s].pid] # None
            => keys'[KeyOf[job'[s].pid]] = job'[s].auth
    BY <1>1, <1>2 DEF OrderInv, KeysOK, Elsewhere
  <2>. QED BY <2>2, <2>3 DEF KeysOK
<1>14. CreditsOK' /\ SentOK' /\ FailedOK'
  BY <1>4, <1>6 DEF OrderInv, CreditsOK, SentOK, FailedOK, Elsewhere
<1>15. RefundsOK'
  BY <1>1 DEF OrderInv, RefundsOK
<1>. QED
  BY <1>7, <1>8, <1>9, <1>11, <1>12, <1>13, <1>14, <1>15 DEF OrderInv

\* A key is taken by an authorization that has it or while nobody has it.
LEMMA TakesKey ==
    ASSUME TypeInv, TypeInv', OrderInv, NEW r \in Requests, Continues(r),
           pc[r] = "key", pc'[r] = "book", NEW k, k = KeyOf[job[r].pid],
           UNCHANGED <<op, available, chain, settles>>,
           \/ k = None /\ keys' = keys
           \/ KeyFree(k, job[r].auth) /\ keys' = [keys EXCEPT ![k] = job[r].auth]
    PROVE  OrderInv'
<1> PICK a : a = job[r].auth
  OBVIOUS
<1>1. /\ \A y \in Procs : y # r => pc'[y] = pc[y] /\ job'[y] = job[y] /\ held'[y] = held[y]
      /\ job'[r].pid = job[r].pid /\ job'[r].auth = a
  BY DEF Continues, OthersStay, SameJob
<1>2. /\ Requests \subseteq Procs /\ Auths \subseteq Procs /\ Requests \cap Auths = {}
      /\ \A y \in Procs : pc'[y] \notin {"idle", "done"} => job'[y].auth \in Auths
  BY ProcessAssumption DEF Procs, TypeInv, JobOK
<1>3. /\ a \in Auths /\ job[r].pid \in Pids
      /\ op[a].status # "none" /\ op[a].pid = job[r].pid
  BY <1>1, <1>2 DEF OrderInv, BoundOK, JobsOK, Unbound
\* The keys that somebody has are kept.
<1>4. /\ \A p \in Pids : \A b \in Auths :
            KeyOf[p] # None /\ keys[KeyOf[p]] = b => keys'[KeyOf[p]] = b
      /\ k # None => keys'[k] = a
  <2>1. CASE k = None /\ keys' = keys
    BY <2>1
  <2>2. CASE KeyFree(k, a) /\ keys' = [keys EXCEPT ![k] = a]
    <3>1. k # None /\ keys[k] \in {None, a} /\ k \in Keys
      BY <1>3, <2>2, KeyAssumption DEF KeyFree
    <3>2. keys \in [Keys -> Auths \cup {None}] /\ None \notin Auths
      BY NoneAssumption DEF TypeInv, TypeOK
    <3>. QED BY <2>2, <3>1, <3>2
  <2>. QED BY <2>1, <2>2
<1>5. ShapesOK' /\ CreditsOK' /\ SentOK' /\ FailedOK'
  BY DEF OrderInv, ShapesOK, Shape, CreditsOK, SentOK, FailedOK
<1>6. BoundOK'
  BY <1>1, <1>3 DEF OrderInv, BoundOK, Unbound
<1>7. WriteOK'
  <2> SUFFICES ASSUME NEW y \in Procs, Writing(y)'
               PROVE  op'[job'[y].auth].reserved /\ MayWrite(y)'
    BY DEF WriteOK
  <2>1. y # r
    BY <1>2 DEF Writing
  <2>2. pc'[y] = pc[y] /\ job'[y] = job[y] /\ held'[y] = held[y]
    BY <1>1, <2>1
  <2>3. Writing(y)
    BY <2>2 DEF Writing
  <2>. QED BY <2>2, <2>3 DEF OrderInv, WriteOK, MayWrite, Shape
<1>8. ASSUME NEW s \in Requests, pc'[s] \in Fresh
      PROVE  pc[s] \in Fresh /\ job'[s].auth = job[s].auth /\ job'[s].pid = job[s].pid
             /\ (s = r \/ pc'[s] = pc[s])
  BY <1>1, <1>2, <1>8 DEF Fresh
<1>9. OwnerOK'
  <2>1. \A s \in Requests : pc'[s] \in Fresh => ~op'[job'[s].auth].reserved
    BY <1>8 DEF OrderInv, OwnerOK
  <2>2. \A s, t \in Requests :
           pc'[s] \in Fresh /\ pc'[t] \in Fresh /\ job'[s].auth = job'[t].auth => s = t
    BY <1>8 DEF OrderInv, OwnerOK
  <2>. QED BY <2>1, <2>2 DEF OwnerOK, Fresh
<1>10. JobsOK'
  BY <1>1, <1>2, <1>3 DEF OrderInv, JobsOK
<1>11. KeysOK'
  <2>1. ASSUME NEW b \in Auths, op'[b].reserved, KeyOf[op'[b].pid] # None
        PROVE  keys'[KeyOf[op'[b].pid]] = b
    <3>1. op[b].pid \in Pids
      BY <2>1 DEF OrderInv, ShapesOK, Shape
    <3>. QED BY <1>4, <2>1, <3>1 DEF OrderInv, KeysOK
  <2>2. ASSUME NEW s \in Requests, pc'[s] = "book", KeyOf[job'[s].pid] # None
        PROVE  keys'[KeyOf[job'[s].pid]] = job'[s].auth
    <3>1. CASE s = r
      BY <1>1, <1>4, <2>2, <3>1
    <3>2. CASE s # r
      <4>1. pc[s] = "book" /\ job'[s] = job[s] /\ job[s].auth \in Auths /\ job[s].pid \in Pids
        BY <1>1, <1>2, <2>2, <3>2 DEF OrderInv, JobsOK
      <4>. QED BY <1>4, <2>2, <4>1 DEF OrderInv, KeysOK
    <3>. QED BY <3>1, <3>2
  <2>. QED BY <2>1, <2>2 DEF KeysOK
<1>12. RefundsOK'
  BY <1>1 DEF OrderInv, RefundsOK
<1>. QED
  BY <1>5, <1>6, <1>7, <1>9, <1>10, <1>11, <1>12 DEF OrderInv

-----------------------------------------------------------------------------
(* The steps of OrderInv that several handlers share. *)

\* A step that stores nothing.
LEMMA QuietKeeps ==
    ASSUME TypeInv, TypeInv', OrderInv, NEW x \in Procs, Continues(x), UNCHANGED op, Elsewhere,
           pc[x] \notin Unbound \/ pc'[x] \in Unbound,
           pc'[x] \in Fresh => pc[x] \in Fresh /\ pc'[x] # "book",
           pc'[x] # "credit", ~Writing(x)'
    PROVE  OrderInv'
<1>1. RecordsStay
  BY NoRecordMoves DEF OrderInv
<1>. QED BY <1>1, OrderStepKeeps DEF Elsewhere

\* /operation/transition: a payment that was sent fails only when it is void.
LEMMA TransitionStays ==
    ASSUME TypeInv, OrderInv, NEW a \in Auths,
           NEW next \in {"verified", "failed", "ambiguous", "settled"}, Transition(a, next),
           next = "failed" /\ op[a].reserved /\ HonestFacilitator => chain[a] = "void"
    PROVE  RecordsStay
<1>1. op[a] \in Operation /\ op \in [Auths -> Operation] /\ Shape(op[a]) /\ ShapesOK
  BY DEF TypeInv, TypeOK, OrderInv, ShapesOK
<1>2. CASE Accepts(op[a], next)
  <2> PICK rec : rec = Patched(op[a], next)
    OBVIOUS
  <2>1. op' = [op EXCEPT ![a] = rec]
    BY <1>1, <1>2 DEF Transition
  <2>2. Shape(rec)
    BY <1>1, <1>2, PatchedShape
  <2>3. rec.status = next /\ rec.pid = op[a].pid /\ rec.reserved = op[a].reserved
    BY <1>1, PatchedFields DEF Statuses
  <2>. QED BY <1>1, <2>1, <2>2, <2>3, OneRecordMoves
<1>3. CASE ~Accepts(op[a], next)
  <2>1. op' = op
    BY <1>1, <1>3 DEF Transition
  <2>. QED BY <1>1, <2>1, NoRecordMoves
<1>. QED BY <1>2, <1>3

\* A request that gives up stores the outcome it reports.
LEMMA GiveUpKeeps ==
    ASSUME TypeInv, TypeInv', OrderInv, NEW r \in Requests, r \in Procs, pc[r] \notin Unbound,
           NEW outcome \in {"failed", "ambiguous"}, GiveUp(r, outcome), Elsewhere,
           outcome = "failed" /\ op[job[r].auth].reserved /\ HonestFacilitator
              => chain[job[r].auth] = "void"
    PROVE  OrderInv'
<1>1. pc[r] \notin {"idle", "done"} /\ job[r].auth \in Auths
  BY DEF Unbound, TypeInv, JobOK
<1>2. RecordsStay
  BY <1>1, TransitionStays DEF GiveUp
<1>3. Continues(r) /\ pc'[r] = "finalize"
  BY <1>1, ReportContinues DEF GiveUp
<1>4. ~Writing(r)'
  BY <1>3, ProcessAssumption DEF Writing
<1>. QED BY <1>2, <1>3, <1>4, OrderStepKeeps DEF Elsewhere, Fresh

\* A record that was received, stored and passed on.
LEMMA StoredKeeps ==
    ASSUME TypeInv, TypeInv', OrderInv, NEW x \in Procs, pc[x] \notin Unbound,
           NEW rec, NEW outcome, Stored(x, rec, outcome), RecordsStay, Elsewhere,
           Shape(rec), rec.status \in Received, rec.pid = job[x].pid,
           op[job[x].auth].reserved, outcome # "settled" \/ x \in Requests
    PROVE  OrderInv'
<1>1. pc[x] \notin {"idle", "done"}
  BY DEF Unbound
<1>2. CASE rec.pid \in SellerPids
  <2>1. held' = [held EXCEPT ![x] = rec] /\ Report(x, "sync", outcome)
    BY <1>2 DEF Stored
  <2>2. held'[x] = rec /\ \A y \in Procs \ {x} : held'[y] = held[y]
    BY <2>1 DEF TypeInv, TypeOK
  <2>3. Continues(x) /\ pc'[x] = "sync" /\ SameJob(x)
    BY <1>1, <2>1, <2>2, ReportContinues
  <2>4. MayWrite(x)'
    BY <2>2, <2>3 DEF MayWrite, Shape, SameJob
  <2>. QED BY <2>3, <2>4, OrderStepKeeps DEF Elsewhere, Fresh
<1>3. CASE rec.pid \notin SellerPids
  <2>1. UNCHANGED held /\ Report(x, "finalize", outcome)
    BY <1>3 DEF Stored
  <2>2. Continues(x) /\ pc'[x] = "finalize" /\ job'[x].outcome = outcome
    BY <1>1, <2>1, ReportContinues
  <2>3. ~Writing(x)'
    BY <2>2, ProcessAssumption DEF Writing
  <2>. QED BY <2>2, <2>3, OrderStepKeeps DEF Elsewhere, Fresh
<1>. QED BY <1>2, <1>3

\* A record that is written back as it was held.
LEMMA HeldStays ==
    ASSUME TypeInv, SettleInv, OrderInv, NEW x \in Procs, Writing(x),
           held[x].status \in Received, op' = [op EXCEPT ![job[x].auth] = held[x]]
    PROVE  RecordsStay
<1>1. pc[x] \notin Unbound
  BY DEF Writing, Unbound
<1>2. /\ job[x].auth \in Auths /\ op[job[x].auth].pid = job[x].pid
      /\ op[job[x].auth] \in Operation
  BY <1>1, BoundRecord
<1>3. op[job[x].auth].reserved /\ held[x].pid = job[x].pid /\ Shape(held[x])
  BY DEF OrderInv, WriteOK, MayWrite
<1>4. held[x].reserved /\ held[x] \in Operation
  BY DEF SettleInv, HeldOK, TypeInv, TypeOK
<1>5. held[x].status \notin {"none", "failed"}
  BY DEF Received
<1>. QED BY <1>2, <1>3, <1>4, <1>5, OneRecordMoves DEF OrderInv

-----------------------------------------------------------------------------
\* Every step of the system keeps OrderInv.
LEMMA OrderStep == TypeInv /\ SettleInv /\ OrderInv /\ [Next]_vars => OrderInv'
<1> SUFFICES ASSUME TypeInv, SettleInv, OrderInv, [Next]_vars PROVE OrderInv'
  OBVIOUS
<1>a. TypeInv'
  BY TypeStep
<1>b. /\ op \in [Auths -> Operation] /\ held \in [Procs -> Operation]
      /\ pc \in [Procs -> Labels] /\ job \in [Procs -> Job]
      /\ Requests \subseteq Procs /\ Auths \subseteq Procs
  BY DEF TypeInv, TypeOK, Procs
<1>r. UNCHANGED op => RecordsStay
  BY NoRecordMoves DEF OrderInv
<1>1. ASSUME NEW r \in Requests, NEW p \in Pids, NEW a \in Auths, Reserve(r, p, a)
      PROVE  OrderInv'
  <2>1. /\ OthersStay(r) /\ pc'[r] \in {"select", "peek", "done"}
        /\ pc'[r] # "done" => job'[r].pid = p
    <3>1. ASSUME NEW label \in {"select", "peek"}, pc' = [pc EXCEPT ![r] = label],
                 job' = [job EXCEPT ![r] = [@ EXCEPT !.pid = p, !.auth = a]]
          PROVE  /\ pc'[r] = label /\ job'[r].pid = p
                 /\ \A y \in Procs \ {r} : pc'[y] = pc[y] /\ job'[y] = job[y]
      BY <1>b, <3>1 DEF Job
    <3>2. ASSUME Finish(r)
          PROVE  /\ pc'[r] = "done"
                 /\ \A y \in Procs \ {r} : pc'[y] = pc[y] /\ job'[y] = job[y]
      BY <1>b, <3>2 DEF Finish
    <3>3. UNCHANGED held
      BY <1>1 DEF Reserve, object
    <3>. QED BY <1>1, <3>1, <3>2, <3>3 DEF Reserve, OthersStay
  <2>2. UNCHANGED op /\ Elsewhere
    BY <1>1 DEF Reserve, object, history, Elsewhere
  <2>3. r \notin Auths /\ ~Writing(r)'
    BY <2>1, ProcessAssumption DEF Writing
  <2>. QED
    BY <1>a, <1>b, <1>r, <2>1, <2>2, <2>3, ProcessStepKeeps DEF Elsewhere, Unbound, Fresh
<1>2. ASSUME NEW r \in Requests, SelectFacilitator(r) PROVE OrderInv'
  <2>1. UNCHANGED op /\ Elsewhere /\ UNCHANGED held /\ pc[r] = "select"
    BY <1>2 DEF SelectFacilitator, object, ledger, history, Elsewhere
  <2>2. PICK label \in {"begin", "release"} : Goto(r, label)
    BY <1>2 DEF SelectFacilitator
  <2>3. Continues(r) /\ pc'[r] = label
    BY <1>b, <2>1, <2>2, GotoContinues
  <2>. QED BY <1>a, <1>b, <2>1, <2>3, QuietKeeps DEF Unbound, Fresh, Writing
<1>3. ASSUME NEW r \in Requests, Peek(r) PROVE OrderInv'
  <2>1. UNCHANGED op /\ Elsewhere /\ UNCHANGED held /\ pc[r] = "peek"
    BY <1>3 DEF Peek, object, ledger, history, Elsewhere
  <2>2. ASSUME NEW label \in {"begin", "release"}, Goto(r, label) PROVE OrderInv'
    <3>1. Continues(r) /\ pc'[r] = label
      BY <1>b, <2>1, <2>2, GotoContinues
    <3>. QED BY <1>a, <1>b, <2>1, <3>1, QuietKeeps DEF Unbound, Fresh, Writing
  <2>3. CASE Finish(r)
    <3>1. Continues(r) /\ pc'[r] \in {"idle", "done"}
      BY <1>b, <2>1, <2>3, FinishContinues
    <3>. QED BY <1>a, <1>b, <2>1, <3>1, QuietKeeps DEF Unbound, Fresh, Writing
  <2>. QED BY <1>3, <2>2, <2>3 DEF Peek, AwaitPreparation
<1>4. ASSUME NEW r \in Requests, Release(r) PROVE OrderInv'
  <2>1. UNCHANGED op /\ Elsewhere /\ UNCHANGED held /\ pc[r] = "release" /\ Finish(r)
    BY <1>4 DEF Release, object, history, Elsewhere
  <2>2. Continues(r) /\ pc'[r] \in {"idle", "done"}
    BY <1>b, <2>1, FinishContinues
  <2>. QED BY <1>a, <1>b, <2>1, <2>2, QuietKeeps DEF Unbound, Fresh, Writing
<1>5. ASSUME NEW r \in Requests, Begin(r) PROVE OrderInv'
  <2>0. pc[r] = "begin" /\ Elsewhere /\ UNCHANGED held
    BY <1>5 DEF Begin, ledger, history, Elsewhere
  <2>1. CASE /\ op[job[r].auth].status = "none"
             /\ op' = [op EXCEPT ![job[r].auth] = NewOperation(job[r].pid)]
             /\ Goto(r, "verify")
    <3>1. Continues(r) /\ pc'[r] = "verify"
      BY <1>b, <2>0, <2>1, GotoContinues
    <3>. QED BY <1>a, <2>0, <2>1, <3>1, BeginsOne
  <2>2. CASE UNCHANGED op /\ Goto(r, "release")
    <3>1. Continues(r) /\ pc'[r] = "release"
      BY <1>b, <2>0, <2>2, GotoContinues
    <3>. QED BY <1>a, <1>b, <2>0, <2>2, <3>1, QuietKeeps DEF Unbound, Fresh, Writing
  <2>3. CASE /\ op[job[r].auth].status # "none" /\ op[job[r].auth].pid = job[r].pid
             /\ UNCHANGED op /\ Goto(r, "claim")
    <3>1. Continues(r) /\ pc'[r] = "claim" /\ job' = job
      BY <1>b, <2>0, <2>3, GotoContinues
    <3>2. OthersStay(r) /\ r \notin Auths /\ job[r].pid \in Pids
      BY <2>0, <3>1, ProcessAssumption DEF Continues, OrderInv, JobsOK
    <3>3. ~Writing(r)'
      BY <3>1 DEF Writing
    <3>. QED
      BY <1>a, <1>b, <1>r, <2>0, <2>3, <3>1, <3>2, <3>3, ProcessStepKeeps
      DEF Elsewhere, Fresh
  <2>4. CASE UNCHANGED op /\ Finish(r)
    <3>1. Continues(r) /\ pc'[r] \in {"idle", "done"}
      BY <1>b, <2>0, <2>4, FinishContinues
    <3>. QED BY <1>a, <1>b, <2>0, <2>4, <3>1, QuietKeeps DEF Unbound, Fresh, Writing
  <2>. QED BY <1>5, <2>1, <2>2, <2>3, <2>4 DEF Begin
<1>6. ASSUME NEW r \in Requests, Verify(r) PROVE OrderInv'
  <2>0. pc[r] = "verify" /\ Elsewhere /\ pc[r] \notin Unbound /\ ~op[job[r].auth].reserved
    BY <1>6 DEF Verify, ledger, history, Elsewhere, Unbound, Fresh, OrderInv, OwnerOK
  <2>1. CASE GiveUp(r, "failed")
    BY <1>a, <1>b, <2>0, <2>1, GiveUpKeeps
  <2>2. CASE /\ Transition(job[r].auth, "verified") /\ UNCHANGED <<pending, held>>
             /\ Goto(r, "key") \/ Finish(r)
    <3>1. RecordsStay
      BY <1>b, <2>0, <2>2, BoundRecord, TransitionStays
    <3>2. Continues(r) /\ pc'[r] \in {"key", "idle", "done"}
      BY <1>b, <2>0, <2>2, GotoContinues, FinishContinues
    <3>. QED
      BY <1>a, <1>b, <2>0, <3>1, <3>2, OrderStepKeeps DEF Elsewhere, Fresh, Writing
  <2>. QED BY <1>6, <2>1, <2>2 DEF Verify
<1>7. ASSUME NEW r \in Requests, ReserveKey(r) PROVE OrderInv'
  <2>0. /\ pc[r] = "key" /\ pc[r] \notin Unbound /\ ~op[job[r].auth].reserved
        /\ UNCHANGED <<available, chain, settles>>
    BY <1>7 DEF ReserveKey, history, Unbound, Fresh, OrderInv, OwnerOK
  <2>1. CASE GiveUp(r, "failed") /\ UNCHANGED keys
    BY <1>a, <1>b, <2>0, <2>1, GiveUpKeeps DEF Elsewhere
  <2>2. CASE /\ Goto(r, "book") /\ UNCHANGED object
             /\ \/ KeyOf[job[r].pid] = None /\ keys' = keys
                \/ /\ KeyFree(KeyOf[job[r].pid], job[r].auth)
                   /\ keys' = [keys EXCEPT ![KeyOf[job[r].pid]] = job[r].auth]
    <3>1. Continues(r) /\ pc'[r] = "book"
      BY <1>b, <2>0, <2>2, GotoContinues DEF object
    <3>. QED BY <1>a, <2>0, <2>2, <3>1, TakesKey DEF object
  <2>. QED BY <1>7, <2>1, <2>2 DEF ReserveKey
<1>8. ASSUME NEW r \in Requests, Book(r) PROVE OrderInv'
  <2> PICK a : a = job[r].auth
    OBVIOUS
  <2>0. pc[r] = "book" /\ pc[r] \notin Unbound /\ Elsewhere /\ UNCHANGED held
    BY <1>8 DEF Book, ledger, history, Elsewhere, Unbound
  <2>1. a \in Auths /\ op[a] \in Operation /\ Shape(op[a])
    BY <1>b, <2>0, BoundRecord
  <2>2. CASE UNCHANGED op /\ Finish(r)
    <3>1. Continues(r) /\ pc'[r] \in {"idle", "done"}
      BY <1>b, <2>0, <2>2, FinishContinues
    <3>. QED BY <1>a, <1>b, <2>0, <2>2, <3>1, QuietKeeps DEF Unbound, Fresh, Writing
  <2>3. CASE /\ op[a].status = "verified" /\ ~op[a].reserved
             /\ Goto(r, "submit") \/ Finish(r)
             /\ op' = [op EXCEPT ![a] =
                       [@ EXCEPT !.reserved = TRUE,
                                 !.life = AdvanceLifecycle(AdvanceLifecycle(op[a].life, "SETTLEMENT_RESERVED"),
                                                           "SETTLEMENT_PENDING")]]
    <3>1. op[a].life = "VERIFIED"
      BY <2>1, <2>3 DEF Shape
    <3>2. AdvanceLifecycle(AdvanceLifecycle("VERIFIED", "SETTLEMENT_RESERVED"),
                           "SETTLEMENT_PENDING") = "SETTLEMENT_PENDING"
      BY DEF AdvanceLifecycle, ExecutionStates, LifecycleStates
    <3>r. PICK rec : rec = [op[a] EXCEPT !.reserved = TRUE, !.life = "SETTLEMENT_PENDING"]
      OBVIOUS
    <3>3. /\ rec.reserved /\ rec.status = "verified" /\ rec.life = "SETTLEMENT_PENDING"
          /\ rec.pid = op[a].pid /\ rec.payload = op[a].payload
      BY <2>1, <2>3, <3>r DEF Operation
    <3>4. op' = [op EXCEPT ![a] = rec]
      BY <1>b, <2>1, <2>3, <3>r, <3>1, <3>2
    <3>5. op[a].status = "verified" /\ ~op[a].reserved
      BY <2>3
    <3>6. Continues(r) /\ pc'[r] \in {"submit", "idle", "done"}
      BY <1>b, <2>0, <2>3, GotoContinues, FinishContinues
    <3>. QED BY <1>a, <2>0, <3>3, <3>4, <3>5, <3>6, BooksOne
  <2>. QED BY <1>8, <2>2, <2>3 DEF Book
<1>9. ASSUME NEW r \in Requests, Submit(r) PROVE OrderInv'
  <2>1. /\ pc[r] = "submit" /\ pc[r] \notin Unbound /\ UNCHANGED <<keys, available, chain, op, held>>
        /\ settles' = [settles EXCEPT ![job[r].auth] = @ + 1] /\ Goto(r, "reply")
    BY <1>9 DEF Submit, object, ledger, Unbound
  <2>2. job[r].auth \in Auths
    BY <1>b, <2>1, BoundRecord
  <2>3. SentOK'
    BY <2>1, <2>2 DEF SentOK, OrderInv, TypeInv, TypeOK
  <2>4. Continues(r) /\ pc'[r] = "reply"
    BY <1>b, <2>1, GotoContinues
  <2>. QED BY <1>a, <1>b, <1>r, <2>1, <2>3, <2>4, OrderStepKeeps DEF Fresh, Writing
<1>10. ASSUME NEW r \in Requests, Reply(r) PROVE OrderInv'
  <2>0. pc[r] = "reply" /\ pc[r] \notin Unbound /\ Elsewhere
    BY <1>10 DEF Reply, ledger, history, Elsewhere, Unbound
  <2>1. CASE GiveUp(r, "failed") /\ (HonestFacilitator => chain[job[r].auth] = "void")
    BY <1>a, <1>b, <2>0, <2>1, GiveUpKeeps
  <2>2. CASE GiveUp(r, "ambiguous")
    BY <1>a, <1>b, <2>0, <2>2, GiveUpKeeps
  <2>3. ASSUME NEW label \in {"evidence", "commit"}, Goto(r, label), UNCHANGED object
        PROVE OrderInv'
    <3>1. Continues(r) /\ pc'[r] = label
      BY <1>b, <2>0, <2>3, GotoContinues DEF object
    <3>. QED BY <1>a, <1>b, <2>0, <2>3, <3>1, QuietKeeps DEF object, Fresh, Writing
  <2>. QED BY <1>10, <2>1, <2>2, <2>3 DEF Reply, Unclear
<1>11. ASSUME NEW r \in Requests, CheckEvidence(r) PROVE OrderInv'
  <2>0. pc[r] = "evidence" /\ pc[r] \notin Unbound /\ Elsewhere
    BY <1>11 DEF CheckEvidence, ledger, history, Elsewhere, Unbound
  <2>1. CASE GiveUp(r, "ambiguous")
    BY <1>a, <1>b, <2>0, <2>1, GiveUpKeeps
  <2>2. CASE Goto(r, "commit") /\ UNCHANGED object
    <3>1. Continues(r) /\ pc'[r] = "commit"
      BY <1>b, <2>0, <2>2, GotoContinues DEF object
    <3>. QED BY <1>a, <1>b, <2>0, <2>2, <3>1, QuietKeeps DEF object, Fresh, Writing
  <2>. QED BY <1>11, <2>1, <2>2 DEF CheckEvidence
<1>12. ASSUME NEW r \in Requests, Commit(r) PROVE OrderInv'
  <2> PICK a : a = job[r].auth
    OBVIOUS
  <2> PICK rec : rec = Patched(op[a], "settled")
    OBVIOUS
  <2>0. pc[r] = "commit" /\ pc[r] \notin Unbound /\ Elsewhere /\ Transition(a, "settled")
    BY <1>12 DEF Commit, ledger, history, Elsewhere, Unbound
  <2>1. /\ a \in Auths /\ op[a] \in Operation /\ Shape(op[a])
        /\ op[a].pid = job[r].pid /\ op[a].reserved
    BY <1>b, <2>0, BoundRecord DEF SettleInv, SendOK, Settling
  <2>2. RecordsStay
    BY <2>0, <2>1, TransitionStays
  <2>3. CASE Accepts(op[a], "settled") /\ Stored(r, rec, "settled")
    <3>1. Shape(rec)
      BY <2>1, <2>3, PatchedShape
    <3>2. rec.status = "settled" /\ rec.pid = job[r].pid
      BY <2>1, PatchedFields DEF Statuses
    <3>. QED BY <1>a, <1>b, <2>0, <2>1, <2>2, <2>3, <3>1, <3>2, StoredKeeps DEF Received
  <2>4. CASE Finish(r) /\ UNCHANGED <<pending, held>>
    <3>1. Continues(r) /\ pc'[r] \in {"idle", "done"}
      BY <1>b, <2>0, <2>4, FinishContinues
    <3>. QED
      BY <1>a, <1>b, <2>0, <2>2, <3>1, OrderStepKeeps DEF Elsewhere, Fresh, Writing
  <2>. QED BY <1>12, <2>3, <2>4 DEF Commit
<1>13. ASSUME NEW x \in Procs, Sync(x) PROVE OrderInv'
  <2>0. /\ pc[x] = "sync" /\ pc[x] \notin Unbound /\ Writing(x) /\ Elsewhere
        /\ held' = [held EXCEPT ![x] = NoOperation]
    BY <1>13 DEF Sync, ledger, history, Elsewhere, Unbound, Writing
  <2>1. held[x].status \in Received
    BY <2>0 DEF OrderInv, WriteOK, MayWrite
  <2>2. RecordsStay
    <3>1. CASE op' = [op EXCEPT ![job[x].auth] = held[x]]
      BY <2>0, <2>1, <3>1, HeldStays
    <3>2. CASE UNCHANGED op
      BY <1>r, <3>2
    <3>. QED BY <1>13, <3>1, <3>2 DEF Sync
  <2>3. \A y \in Procs \ {x} : held'[y] = held[y]
    BY <1>b, <2>0
  <2>4. ASSUME Continues(x), pc'[x] \in {"idle", "done", "claim", "finalize"}, ~Writing(x)'
        PROVE  OrderInv'
    BY <1>a, <2>0, <2>2, <2>4, OrderStepKeeps DEF Elsewhere, Fresh
  <2>5. CASE Finish(x)
    <3>1. Continues(x) /\ pc'[x] \in {"idle", "done"}
      BY <2>0, <2>3, <2>5, FinishContinues
    <3>. QED BY <2>4, <3>1 DEF Writing
  <2>6. CASE ~(x \in Auths /\ job[x].outcome = "settled") /\ Goto(x, "finalize")
    <3>1. Continues(x) /\ pc'[x] = "finalize" /\ job' = job
      BY <2>0, <2>3, <2>6, GotoContinues
    <3>. QED BY <2>4, <2>6, <3>1 DEF Writing
  <2>7. CASE Goto(x, "claim")
    <3>1. Continues(x) /\ pc'[x] = "claim"
      BY <2>0, <2>3, <2>7, GotoContinues
    <3>. QED BY <2>4, <3>1 DEF Writing
  <2>. QED BY <1>13, <2>5, <2>6, <2>7 DEF Sync
<1>14. ASSUME NEW x \in Procs, Finalize(x) PROVE OrderInv'
  <2>0. /\ pc[x] = "finalize" /\ pc[x] \notin Unbound /\ Elsewhere /\ UNCHANGED op
        /\ \A y \in Procs \ {x} : held'[y] = held[y]
    BY <1>14, <1>b DEF Finalize, history, Elsewhere, Unbound
  <2>1. CASE /\ x \in Auths /\ job[x].outcome = "settled" /\ UNCHANGED held
             /\ Goto(x, "outbox")
    <3>1. Continues(x) /\ pc'[x] = "outbox" /\ job' = job
      BY <2>0, <2>1, GotoContinues
    <3>2. op[job[x].auth].reserved /\ MayWrite(x)
      BY <2>0, <2>1 DEF Writing, OrderInv, WriteOK
    <3>3. MayWrite(x)'
      BY <2>0, <2>1, <3>1, <3>2 DEF MayWrite, Shape
    <3>. QED BY <1>a, <1>r, <2>0, <3>1, <3>2, <3>3, OrderStepKeeps DEF Elsewhere, Fresh
  <2>2. CASE Goto(x, "claim")
    <3>1. Continues(x) /\ pc'[x] = "claim"
      BY <2>0, <2>2, GotoContinues
    <3>. QED BY <1>a, <2>0, <3>1, QuietKeeps DEF Fresh, Writing
  <2>3. CASE Finish(x)
    <3>1. Continues(x) /\ pc'[x] \in {"idle", "done"}
      BY <2>0, <2>3, FinishContinues
    <3>. QED BY <1>a, <2>0, <3>1, QuietKeeps DEF Fresh, Writing
  <2>. QED BY <1>14, <2>1, <2>2, <2>3 DEF Finalize
<1>15. ASSUME NEW x \in Procs, Claim(x) PROVE OrderInv'
  <2> PICK a : a = job[x].auth
    OBVIOUS
  <2>0. pc[x] = "claim" /\ pc[x] \notin Unbound /\ Elsewhere /\ UNCHANGED held
    BY <1>15 DEF Claim, ledger, Elsewhere, Unbound
  <2>1. a \in Auths /\ op[a] \in Operation /\ Shape(op[a]) /\ pc[x] \notin {"idle", "done"}
    BY <2>0, BoundRecord
  <2>2. CASE UNCHANGED op /\ Finish(x)
    <3>1. Continues(x) /\ pc'[x] \in {"idle", "done"}
      BY <2>0, <2>2, FinishContinues
    <3>. QED BY <1>a, <2>0, <2>2, <3>1, QuietKeeps DEF Unbound, Fresh, Writing
  <2>3. CASE /\ Claimable(op[a])
             /\ op' = [op EXCEPT ![a] = [@ EXCEPT !.claim = started[a] + 1,
                                                  !.life = "EXECUTION_STARTED"]]
             /\ pc' = [pc EXCEPT ![x] = "execute"]
             /\ job' = [job EXCEPT ![x].token = started[a] + 1]
    <3>1. started[a] + 1 # 0 /\ started[a] + 1 \in Nat
      BY <2>1 DEF TypeInv, TypeOK
    <3>2. PICK rec : rec = [op[a] EXCEPT !.claim = started[a] + 1, !.life = "EXECUTION_STARTED"]
      OBVIOUS
    <3>3. /\ rec.status = op[a].status /\ rec.pid = op[a].pid /\ rec.reserved = op[a].reserved
          /\ rec.claim # 0 /\ rec.life = "EXECUTION_STARTED" /\ rec.payload = op[a].payload
      BY <2>1, <3>1, <3>2 DEF Operation
    <3>4. op[a].status \in {"settled", "credited"}
      BY <2>3 DEF Claimable
    <3>5. Shape(rec)
      BY <2>1, <3>3, <3>4 DEF Shape, Open
    <3>6. op' = [op EXCEPT ![a] = rec]
      BY <2>3, <3>2
    <3>7. RecordsStay
      BY <2>1, <3>3, <3>4, <3>5, <3>6, OneRecordMoves DEF OrderInv
    <3>8. /\ Continues(x) /\ pc'[x] = "execute"
      <4>1. /\ pc'[x] = "execute" /\ job'[x].pid = job[x].pid /\ job'[x].auth = job[x].auth
            /\ \A y \in Procs \ {x} : pc'[y] = pc[y] /\ job'[y] = job[y]
        BY <1>b, <2>3 DEF Job
      <4>. QED BY <2>0, <2>1, <4>1 DEF Continues, OthersStay, SameJob
    <3>. QED BY <1>a, <2>0, <3>7, <3>8, OrderStepKeeps DEF Elsewhere, Fresh, Writing
  <2>. QED BY <1>15, <2>2, <2>3 DEF Claim
<1>16. ASSUME NEW x \in Procs, Execute(x) PROVE OrderInv'
  <2> PICK a : a = job[x].auth
    OBVIOUS
  <2>0. /\ pc[x] = "execute" /\ pc[x] \notin Unbound
        /\ UNCHANGED <<keys, chain, settles>>
    BY <1>16 DEF Execute, history, Unbound
  <2>1. /\ a \in Auths /\ op[a] \in Operation /\ Shape(op[a]) /\ RecordOK(op[a])
        /\ op[a].status # "none" /\ op[a].pid = job[x].pid /\ pc[x] \notin {"idle", "done"}
    BY <2>0, BoundRecord
  <2>2. CASE Goto(x, "complete") /\ UNCHANGED <<object, available>>
    <3>1. Continues(x) /\ pc'[x] = "complete"
      BY <2>1, <2>2, GotoContinues DEF object
    <3>. QED BY <1>a, <2>0, <2>2, <3>1, QuietKeeps DEF object, Elsewhere, Fresh, Writing
  <2>3. CASE /\ Accepts(op[a], "credited") /\ UNCHANGED available
             /\ op' = [op EXCEPT ![a] = HoldForReview(@)]
             /\ Stored(x, HoldForReview(op[a]), "credited")
    <3>1. PICK rec : rec = Patched(op[a], "credited")
      OBVIOUS
    <3>2. /\ rec.status = "credited" /\ rec.pid = op[a].pid /\ rec.reserved = op[a].reserved
      BY <2>1, <3>1, PatchedFields DEF Statuses
    <3>3. Shape(rec)
      BY <2>1, <2>3, <3>1, PatchedShape
    <3>4. op[a].status \in {"settled", "credited"}
      BY <2>1, <2>3, AcceptedFrom DEF Statuses
    <3>5. op[a].reserved
      BY <2>1, <3>4, ReceivedBooked DEF Received
    <3>6. op' = [op EXCEPT ![a] = rec] /\ Stored(x, rec, "credited")
      BY <2>3, <3>1 DEF HoldForReview
    <3>7. RecordsStay
      BY <2>1, <3>2, <3>3, <3>6, OneRecordMoves DEF OrderInv
    <3>. QED
      BY <1>a, <2>0, <2>1, <2>3, <3>2, <3>3, <3>5, <3>6, <3>7, StoredKeeps
      DEF Elsewhere, Received
  <2>4. CASE Report(x, "finalize", "credited") /\ UNCHANGED <<object, available>>
    <3>1. Continues(x) /\ pc'[x] = "finalize" /\ job'[x].outcome = "credited"
      BY <2>1, <2>4, ReportContinues DEF object
    <3>. QED BY <1>a, <2>0, <2>4, <3>1, QuietKeeps DEF object, Elsewhere, Fresh, Writing
  <2>5. CASE /\ job[x].pid \notin SellerPids /\ Goto(x, "credit") /\ UNCHANGED object
             /\ available' = [available EXCEPT ![a] = @ \cup {job[x].token}]
    <3>1. Continues(x) /\ pc'[x] = "credit" /\ UNCHANGED op
      BY <2>1, <2>5, GotoContinues DEF object
    <3>2. \A b \in Auths : b # a => available'[b] = available[b]
      BY <2>5 DEF TypeInv, TypeOK
    <3>3. CreditsOK'
      BY <2>1, <2>5, <3>1, <3>2 DEF CreditsOK, OrderInv
    <3>. QED
      BY <1>a, <1>r, <2>0, <2>5, <3>1, <3>3, OrderStepKeeps DEF Fresh, Writing
  <2>. QED BY <1>16, <2>2, <2>3, <2>4, <2>5 DEF Execute
<1>17. ASSUME NEW x \in Procs, RecordCredit(x) PROVE OrderInv'
  <2> PICK a : a = job[x].auth
    OBVIOUS
  <2>0. pc[x] = "credit" /\ pc[x] \notin Unbound /\ Elsewhere /\ UNCHANGED held
    BY <1>17 DEF RecordCredit, ledger, history, Elsewhere, Unbound
  <2>1. /\ a \in Auths /\ op[a] \in Operation /\ Shape(op[a])
        /\ op[a].pid = job[x].pid /\ op[a].pid \notin SellerPids /\ pc[x] \notin {"idle", "done"}
    BY <2>0, BoundRecord DEF OrderInv, RefundsOK
  <2>2. Continues(x) /\ pc'[x] = "finalize" /\ job'[x].outcome = "credited"
    BY <1>17, <2>0, <2>1, ReportContinues DEF RecordCredit
  <2>3. RecordsStay
    <3>1. CASE UNCHANGED op
      BY <1>r, <3>1
    <3>2. ASSUME Accepts(op[a], "credited"), NEW rec,
                 rec = [Patched(op[a], "credited") EXCEPT !.claim = 0, !.credit = job[x].token],
                 op' = [op EXCEPT ![a] = rec]
          PROVE  RecordsStay
      <4>1. PICK q : q = Patched(op[a], "credited")
        OBVIOUS
      <4>2. q \in Operation /\ Shape(q)
        BY <2>1, <3>2, <4>1, PatchedType, PatchedShape DEF Statuses
      <4>3. q.status = "credited" /\ q.pid = op[a].pid /\ q.reserved = op[a].reserved
        BY <2>1, <4>1, PatchedFields DEF Statuses
      <4>4. /\ rec.status = q.status /\ rec.pid = q.pid /\ rec.reserved = q.reserved
            /\ rec.life = q.life /\ rec.payload = q.payload
        BY <3>2, <4>1, <4>2 DEF Operation
      <4>5. Shape(rec)
        BY <2>1, <4>2, <4>3, <4>4 DEF Shape
      <4>. QED BY <2>1, <3>2, <4>3, <4>4, <4>5, OneRecordMoves DEF OrderInv
    <3>3. \/ UNCHANGED op
          \/ /\ Accepts(op[a], "credited")
             /\ op' = [op EXCEPT ![a] = [Patched(op[a], "credited")
                                           EXCEPT !.claim = 0, !.credit = job[x].token]]
      BY <1>17, <1>b, <2>1 DEF RecordCredit
    <3>. QED BY <3>1, <3>2, <3>3
  <2>. QED
    BY <1>a, <2>0, <2>2, <2>3, OrderStepKeeps DEF Elsewhere, Fresh, Writing
<1>18. ASSUME NEW x \in Procs, Complete(x) PROVE OrderInv'
  <2> PICK a : a = job[x].auth
    OBVIOUS
  <2>0. pc[x] = "complete" /\ pc[x] \notin Unbound /\ Elsewhere
    BY <1>18 DEF Complete, ledger, Elsewhere, Unbound
  <2>1. /\ a \in Auths /\ op[a] \in Operation /\ Shape(op[a]) /\ RecordOK(op[a])
        /\ op[a].pid = job[x].pid /\ pc[x] \notin {"idle", "done"}
    BY <2>0, BoundRecord
  <2>2. ASSUME Accepts(op[a], "succeeded"), op[a].status \in {"settled", "credited"}, NEW rec,
               rec = [Patched(op[a], "succeeded") EXCEPT !.claim = 0],
               op' = [op EXCEPT ![a] = rec], Stored(x, rec, "succeeded")
        PROVE  OrderInv'
    <3>1. PICK q : q = Patched(op[a], "succeeded")
      OBVIOUS
    <3>2. q \in Operation /\ Shape(q)
      BY <2>1, <2>2, <3>1, PatchedType, PatchedShape DEF Statuses
    <3>3. /\ q.status = "succeeded" /\ q.pid = op[a].pid /\ q.reserved = op[a].reserved
          /\ q.life = "RECEIPT_ISSUED"
      BY <2>1, <2>2, <3>1, PatchedFields, AcceptedLife DEF Statuses
    <3>4. /\ rec.status = q.status /\ rec.pid = q.pid /\ rec.reserved = q.reserved
          /\ rec.life = q.life /\ rec.payload = q.payload
      BY <2>2, <3>1, <3>2 DEF Operation
    <3>5. Shape(rec)
      BY <3>2, <3>3, <3>4 DEF Shape, Acted
    <3>6. op[a].reserved
      BY <2>1, <2>2, ReceivedBooked DEF Received
    <3>7. RecordsStay
      BY <2>1, <2>2, <3>3, <3>4, <3>5, OneRecordMoves DEF OrderInv
    <3>. QED
      BY <1>a, <2>0, <2>1, <2>2, <3>3, <3>4, <3>5, <3>6, <3>7, StoredKeeps DEF Received
  <2>3. CASE UNCHANGED <<op, held>> /\ Report(x, "finalize", "succeeded")
    <3>1. Continues(x) /\ pc'[x] = "finalize" /\ job'[x].outcome = "succeeded"
      BY <2>1, <2>3, ReportContinues
    <3>. QED BY <1>a, <2>0, <2>3, <3>1, QuietKeeps DEF Fresh, Writing
  <2>4. CASE UNCHANGED <<op, held>> /\ Finish(x)
    <3>1. Continues(x) /\ pc'[x] \in {"idle", "done"}
      BY <2>1, <2>4, FinishContinues
    <3>. QED BY <1>a, <2>0, <2>4, <3>1, QuietKeeps DEF Unbound, Fresh, Writing
  <2>. QED BY <1>18, <2>2, <2>3, <2>4 DEF Complete
<1>19. ASSUME NEW a \in Auths, FireAlarm(a) PROVE OrderInv'
  <2>0. pc[a] = "idle" /\ UNCHANGED <<keys, available, chain, settles>> /\ a \in Procs
    BY <1>19, <1>b DEF FireAlarm, ledger, history
  <2>1. op[a] \in Operation /\ Shape(op[a]) /\ RecordOK(op[a]) /\ a \notin Requests
    BY <1>b, ProcessAssumption DEF OrderInv, ShapesOK, SettleInv, RecordsOK
  <2>s. PICK seen : seen = Seen(a)
    OBVIOUS
  <2>2. /\ seen \in Operation /\ Shape(seen)
        /\ seen.pid = op[a].pid /\ seen.reserved = op[a].reserved
        /\ seen = op[a] \/ (seen.status = "ambiguous" /\ op[a].status = "verified")
    BY <2>1, <2>s, SeenShape, SeenType DEF RecordInv, TypeInv, TypeOK
  <2>3. CASE Owing(a, Seen(a)) /\ UNCHANGED op
    <3>1. seen = op[a] /\ op[a].status \in Received
      BY <2>2, <2>3, <2>s DEF Owing, Received
    <3>2. op[a].reserved /\ op[a].status # "none"
      BY <2>1, <3>1, ReceivedBooked DEF Received
    <3>3. /\ held' = [held EXCEPT ![a] = op[a]]
          /\ pc' = [pc EXCEPT ![a] = "sync"]
          /\ job' = [job EXCEPT ![a] = [@ EXCEPT !.pid = op[a].pid, !.auth = a]]
      BY <1>19, <2>3 DEF FireAlarm, StartReconciling
    <3>4. /\ OthersStay(a) /\ pc'[a] = "sync" /\ held'[a] = op[a]
          /\ job'[a].pid = op[a].pid /\ job'[a].auth = a
      BY <1>b, <2>0, <3>3 DEF OthersStay, Job
    <3>5. MayWrite(a)'
      BY <2>1, <3>1, <3>4 DEF MayWrite, Shape
    <3>. QED
      BY <1>a, <1>r, <2>0, <2>1, <2>3, <3>2, <3>4, <3>5, ProcessStepKeeps DEF Unbound, Fresh
  <2>4. CASE StartReconciling(a, Seen(a))
    <3>1. seen.status = "ambiguous" /\ seen.payload
      BY <2>4, <2>s DEF StartReconciling
    <3>2. op[a].status \notin {"none", "failed"} /\ op[a].reserved
      BY <2>1, <2>2, <3>1, SeenShape, <2>s DEF RecordOK
    <3>3. PICK next : next = IF seen.attempts >= MaxAttempts THEN [seen EXCEPT !.dead = TRUE]
                                                             ELSE CountedAttempt(seen)
      OBVIOUS
    <3>4. /\ next.status = "ambiguous" /\ next.pid = op[a].pid /\ next.reserved = op[a].reserved
          /\ next.life = seen.life /\ next.payload /\ next.claim = seen.claim
      <4>1. seen.attempts \in Nat
        BY <2>2 DEF Operation
      <4>2. CASE next = [seen EXCEPT !.dead = TRUE]
        BY <2>2, <3>1, <4>2 DEF Operation
      <4>3. CASE next = CountedAttempt(seen)
        BY <2>2, <3>1, <4>3 DEF Operation, CountedAttempt
      <4>. QED BY <3>3, <4>2, <4>3
    <3>5. Shape(next)
      BY <2>2, <3>1, <3>4 DEF Shape, Open
    <3>6. /\ op' = [op EXCEPT ![a] = next] /\ held' = [held EXCEPT ![a] = next]
          /\ \E label \in {"finalize", "query"} : pc' = [pc EXCEPT ![a] = label]
          /\ job' = [job EXCEPT ![a] = [pid |-> seen.pid, auth |-> a,
                                        outcome |-> "ambiguous", token |-> 0]]
      BY <2>4, <2>s, <3>3 DEF StartReconciling
    <3>7. /\ OthersStay(a) /\ pc'[a] \in {"finalize", "query"} /\ held'[a] = next
          /\ job'[a].pid = seen.pid /\ job'[a].auth = a /\ job'[a].outcome = "ambiguous"
      BY <1>b, <2>0, <3>6 DEF OthersStay
    <3>8. RecordsStay
      BY <2>1, <3>4, <3>5, <3>6, OneRecordMoves DEF OrderInv
    <3>9. Writing(a)' => MayWrite(a)'
      <4>1. Writing(a)' => pc'[a] = "query"
        BY <3>7 DEF Writing
      <4>. QED BY <2>2, <3>4, <3>5, <3>7, <4>1 DEF MayWrite, Shape
    <3>. QED
      BY <1>a, <2>0, <2>1, <2>2, <3>2, <3>7, <3>8, <3>9, ProcessStepKeeps
      DEF Unbound, Fresh
  <2>5. CASE op' = [op EXCEPT ![a] = Seen(a)] /\ UNCHANGED <<held, pc, job>>
    <3>1. RecordsStay
      <4>1. CASE seen = op[a]
        BY <1>r, <1>b, <2>5, <2>s, <4>1
      <4>2. CASE seen.status = "ambiguous"
        BY <2>2, <2>5, <2>s, <4>2, OneRecordMoves DEF OrderInv
      <4>. QED BY <2>2, <4>1, <4>2
    <3>2. OthersStay(a) /\ pc'[a] = "idle"
      BY <2>0, <2>5 DEF OthersStay
    <3>. QED
      BY <1>a, <2>0, <2>1, <3>1, <3>2, ProcessStepKeeps DEF Unbound, Fresh, Writing
  <2>. QED BY <1>19, <2>3, <2>4, <2>5 DEF FireAlarm
<1>20. ASSUME NEW a \in Auths, Query(a) PROVE OrderInv'
  <2>0. /\ a \in Procs /\ pc[a] = "query" /\ pc[a] \notin Unbound /\ Writing(a) /\ Elsewhere
        /\ job[a].auth = a
    BY <1>20, <1>b DEF Query, ledger, history, Elsewhere, Unbound, Writing, OrderInv, JobsOK
  <2>1. /\ op[a] \in Operation /\ op[a].pid = job[a].pid /\ pc[a] \notin {"idle", "done"}
    BY <2>0, BoundRecord
  <2>2. /\ op[a].reserved /\ held[a].pid = job[a].pid /\ Shape(held[a])
        /\ held[a].status \in Received \cup {"ambiguous"}
    BY <2>0 DEF OrderInv, WriteOK, MayWrite
  <2>3. held[a] \in Operation /\ held[a].reserved
    BY <1>b, <2>0 DEF SettleInv, HeldOK
  <2>4. ASSUME NEW rec, NEW outcome, op' = [op EXCEPT ![a] = rec],
               held' = [held EXCEPT ![a] = rec], Report(a, "finalize", outcome),
               Shape(rec), rec.pid = held[a].pid, rec.reserved = held[a].reserved,
               rec.status \in Received \cup {"ambiguous"},
               outcome = "settled" => rec.status \in Received
        PROVE  OrderInv'
    <3>1. held'[a] = rec /\ \A y \in Procs \ {a} : held'[y] = held[y]
      BY <1>b, <2>0, <2>4
    <3>2. /\ Continues(a) /\ pc'[a] = "finalize" /\ SameJob(a) /\ job'[a].outcome = outcome
      BY <2>0, <2>1, <2>4, <3>1, ReportContinues
    <3>3. RecordsStay
      BY <2>1, <2>2, <2>3, <2>4, OneRecordMoves DEF OrderInv, Received
    <3>4. Writing(a)' => MayWrite(a)'
      <4>1. Writing(a)' => outcome = "settled"
        BY <3>2 DEF Writing
      <4>. QED BY <2>2, <2>4, <3>1, <3>2, <4>1 DEF MayWrite, Shape, SameJob
    <3>. QED
      BY <1>a, <2>0, <2>2, <3>2, <3>3, <3>4, OrderStepKeeps DEF Elsewhere, Fresh
  <2>5. ASSUME NEW found, found = Patched(held[a], "settled"),
               op' = [op EXCEPT ![a] = found], held' = [held EXCEPT ![a] = found],
               Report(a, "finalize", "settled")
        PROVE  OrderInv'
    <3>1. /\ found.status = "settled" /\ found.pid = held[a].pid
          /\ found.reserved = held[a].reserved
      BY <2>3, <2>5, PatchedFields DEF Statuses
    <3>2. Shape(found)
      BY <2>2, <2>3, <2>5, FoundShape DEF Received
    <3>. QED BY <2>4, <2>5, <3>1, <3>2 DEF Received
  <2>6. ASSUME NEW late, NEW missing, missing = [held[a] EXCEPT !.dead = late],
               op' = [op EXCEPT ![a] = missing], held' = [held EXCEPT ![a] = missing],
               Report(a, "finalize", "ambiguous")
        PROVE  OrderInv'
    <3>1. /\ missing.status = held[a].status /\ missing.pid = held[a].pid
          /\ missing.reserved = held[a].reserved /\ missing.life = held[a].life
          /\ missing.payload = held[a].payload /\ missing.claim = held[a].claim
      BY <2>3, <2>6 DEF Operation
    <3>2. Shape(missing)
      BY <2>2, <3>1 DEF Shape
    <3>. QED BY <2>2, <2>4, <2>6, <3>1, <3>2
  <2>. QED BY <1>20, <2>5, <2>6 DEF Query
<1>21. ASSUME NEW a \in Auths, Outbox(a) PROVE OrderInv'
  <2>0. /\ a \in Procs /\ pc[a] = "outbox" /\ pc[a] \notin Unbound /\ Writing(a) /\ Elsewhere
        /\ job[a].auth = a /\ UNCHANGED held /\ op' = [op EXCEPT ![a] = held[a]]
    BY <1>21, <1>b DEF Outbox, ledger, history, Elsewhere, Unbound, Writing, OrderInv, JobsOK
  <2>1. op[a].reserved /\ MayWrite(a) /\ held[a].status \in Received
    BY <2>0 DEF OrderInv, WriteOK, MayWrite
  <2>2. RecordsStay
    BY <2>0, <2>1, HeldStays
  <2>3. Continues(a) /\ pc'[a] = "sync" /\ job' = job
    BY <1>21, <2>0, GotoContinues DEF Outbox
  <2>4. MayWrite(a)'
    BY <2>0, <2>1, <2>3 DEF MayWrite, Shape
  <2>. QED BY <1>a, <2>0, <2>1, <2>2, <2>3, <2>4, OrderStepKeeps DEF Elsewhere, Fresh
<1>22. ASSUME NEW a \in Auths, ChainDecides(a) PROVE OrderInv'
  <2>1. /\ settles[a] # 0 /\ chain[a] = "none" /\ UNCHANGED <<settles, op>>
        /\ UNCHANGED <<keys, available, held, pc, job>>
    BY <1>22 DEF ChainDecides, ledger, object, history
  <2>2. \A b \in Auths : b # a => chain'[b] = chain[b]
    BY <1>22 DEF ChainDecides, TypeInv, TypeOK
  <2>3. SentOK' /\ FailedOK'
    BY <2>1, <2>2 DEF OrderInv, SentOK, FailedOK
  <2>4. ShapesOK' /\ BoundOK' /\ OwnerOK' /\ JobsOK'
    BY <2>1 DEF OrderInv, ShapesOK, Shape, BoundOK, OwnerOK, JobsOK
  <2>5. WriteOK' /\ KeysOK' /\ CreditsOK' /\ RefundsOK'
    BY <2>1 DEF OrderInv, WriteOK, MayWrite, Writing, Shape, KeysOK, CreditsOK, RefundsOK
  <2>. QED BY <2>3, <2>4, <2>5 DEF OrderInv
<1>23. ASSUME NEW r \in Requests, CrashRequest(r) PROVE OrderInv'
  <2>1. /\ pc[r] \notin {"idle", "done"} /\ UNCHANGED op /\ Elsewhere
        /\ \A y \in Procs \ {r} : held'[y] = held[y]
    BY <1>23, <1>b DEF CrashRequest, ledger, history, Elsewhere
  <2>2. Continues(r) /\ pc'[r] \in {"idle", "done"}
    BY <1>23, <1>b, <2>1, FinishContinues DEF CrashRequest
  <2>. QED BY <1>a, <1>b, <2>1, <2>2, QuietKeeps DEF Unbound, Fresh, Writing
<1>24. ASSUME NEW a \in Auths, CrashAlarm(a) PROVE OrderInv'
  <2>1. /\ UNCHANGED op /\ Elsewhere /\ \A y \in Procs \ {a} : held'[y] = held[y]
    BY <1>24, <1>b DEF CrashAlarm, ledger, history, Elsewhere
  <2>2. OthersStay(a) /\ pc'[a] = "idle"
    BY <1>24, <1>b, <2>1, ProcessAssumption DEF CrashAlarm, Finish, OthersStay
  <2>. QED
    BY <1>a, <1>b, <1>r, <2>1, <2>2, ProcessStepKeeps
    DEF Elsewhere, Unbound, Fresh, Writing
<1>25. CASE UNCHANGED vars
  <2>1. /\ UNCHANGED <<settles, op, chain>>
        /\ UNCHANGED <<keys, available, held, pc, job>>
    BY <1>25 DEF vars
  <2>2. ShapesOK' /\ BoundOK' /\ OwnerOK' /\ JobsOK' /\ SentOK' /\ FailedOK'
    BY <2>1 DEF OrderInv, ShapesOK, Shape, BoundOK, OwnerOK, JobsOK, SentOK, FailedOK
  <2>3. WriteOK' /\ KeysOK' /\ CreditsOK' /\ RefundsOK'
    BY <2>1 DEF OrderInv, WriteOK, MayWrite, Writing, Shape, KeysOK, CreditsOK, RefundsOK
  <2>. QED BY <2>2, <2>3 DEF OrderInv
<1>. QED
  BY <1>1, <1>2, <1>3, <1>4, <1>5, <1>6, <1>7, <1>8, <1>9, <1>10, <1>11, <1>12, <1>13,
     <1>14, <1>15, <1>16, <1>17, <1>18, <1>19, <1>20, <1>21, <1>22, <1>23, <1>24, <1>25
  DEF Next, RequestStep, ExecutionStep, AlarmStep

LEMMA OrderInit == Init => OrderInv
<1> SUFFICES ASSUME Init PROVE OrderInv
  OBVIOUS
<1>1. /\ \A x \in Procs : pc[x] = "idle"
      /\ \A a \in Auths : op[a] = NoOperation /\ available[a] = {} /\ chain[a] = "none"
      /\ Requests \subseteq Procs /\ Auths \subseteq Procs
  BY DEF Init, Procs
<1>2. Shape(NoOperation) /\ ~NoOperation.reserved
  BY DEF NoOperation, Shape, Open, Acted
<1>3. ShapesOK /\ BoundOK /\ WriteOK /\ CreditsOK
  BY <1>1, <1>2 DEF ShapesOK, BoundOK, WriteOK, Writing, CreditsOK, Unbound
<1>4. OwnerOK /\ JobsOK /\ KeysOK /\ RefundsOK
  BY <1>1, <1>2 DEF OwnerOK, JobsOK, KeysOK, RefundsOK, Fresh
<1>5. SentOK /\ FailedOK
  BY <1>1, <1>2 DEF SentOK, FailedOK
<1>. QED BY <1>3, <1>4, <1>5 DEF OrderInv

\* It holds of every state the system reaches.
LEMMA OrderInvariant == Spec => [](TypeInv /\ SettleInv /\ OrderInv)
  BY TypeInit, SettleInit, OrderInit, TypeStep, SettleStep, OrderStep, PTL DEF Spec

\* A buyer's idempotency key is booked for one authorization at most, however
\* many quotes were issued for it and whoever pays first.
THEOREM OneBuyerPerKey == Spec => []OneBookingPerKey
<1>1. OrderInv => OneBookingPerKey
  BY DEF OrderInv, KeysOK, OneBookingPerKey
<1>. QED BY <1>1, OrderInvariant, PTL

\* A payment that is reported as failed did not take the money, when the
\* facilitator's verdicts agree with the chain: it was never sent, or it is void.
THEOREM FailedNeverPaid ==
    ASSUME HonestFacilitator
    PROVE  Spec => []FailedIsUnpaid
<1>1. TypeInv /\ SettleInv /\ OrderInv => FailedIsUnpaid
  <2> SUFFICES ASSUME TypeInv, SettleInv, OrderInv, NEW a \in Auths, op[a].status = "failed"
               PROVE  chain[a] # "paid"
    BY DEF FailedIsUnpaid
  <2>1. CASE op[a].reserved
    BY <2>1 DEF OrderInv, FailedOK
  <2>2. CASE ~op[a].reserved
    <3>1. settles[a] = 0
      BY <2>2 DEF SettleInv, SendOK, TypeInv, TypeOK
    <3>. QED BY <3>1 DEF OrderInv, SentOK
  <2>. QED BY <2>1, <2>2
<1>. QED BY <1>1, OrderInvariant, PTL

-----------------------------------------------------------------------------
(* AlarmCovers.  While an alarm runs none is set: what it holds and where it *)
(* stands must say that it will set itself again, or that it need not.       *)

\* An alarm that has left its reconciliation found or made a received payment.
PastReconciling(a) ==
    \/ pc[a] \in {"sync", "outbox", "claim", "execute", "complete", "credit"}
    \/ pc[a] = "finalize" /\ job[a].outcome # "ambiguous"

CoverAt(a) ==
    /\ Sending(a) /\ Unresolved(a) => alarm[a] \/ pc[a] \in {"query", "finalize"}
    /\ PastReconciling(a) => op[a].status \in Received
    /\ pc[a] = "finalize" /\ job[a].outcome = "ambiguous" =>
          op[a].status \in Received \/ ~held[a].dead \/ op[a].dead
CoverInv == \A a \in Auths : CoverAt(a)

\* What a step of somebody else may do to an operation and its alarm.
CoverKept(a) ==
    /\ op[a].status \in Received => op'[a].status \in Received
    /\ op[a].status # "none" /\ op[a].dead => op'[a].dead \/ op'[a].status \in Received
    /\ op'[a].reserved /\ op'[a].status \in {"verified", "ambiguous"} /\ ~op'[a].dead
          => alarm'[a] \/ Unresolved(a) \/ ~Sending(a)'
    /\ alarm[a] => alarm'[a]
AlarmsKept == \A a \in Auths : alarm[a] => alarm'[a]

\* Nobody is about to send a settlement, or has sent it, before its alarm is set.
SendersKept == \A a \in Auths : Sending(a)' => Sending(a) \/ alarm'[a]

LEMMA CoverStepKeeps ==
    ASSUME OrderInv, CoverInv, SendersKept, NEW x \in Procs, OthersStay(x),
           \A a \in Auths \ {x} : CoverKept(a), x \in Auths => CoverAt(x)'
    PROVE  CoverInv'
<1> SUFFICES ASSUME NEW a \in Auths, a # x PROVE CoverAt(a)'
  BY DEF CoverInv
<1>1. pc'[a] = pc[a] /\ job'[a] = job[a] /\ held'[a] = held[a]
  BY DEF OthersStay, Procs
<1>2. CoverAt(a) /\ CoverKept(a)
  BY DEF CoverInv
<1>3. pc[a] = "finalize" => op[a].status # "none"
  <2>1. pc[a] = "finalize" => pc[a] \notin Unbound /\ job[a].auth = a /\ a \in Procs
    BY DEF Unbound, OrderInv, JobsOK, Procs
  <2>. QED BY <2>1 DEF OrderInv, BoundOK
<1>4. (Sending(a) /\ Unresolved(a))' => alarm'[a] \/ pc'[a] \in {"query", "finalize"}
  BY <1>1, <1>2 DEF CoverAt, CoverKept, Unresolved, SendersKept
<1>5. PastReconciling(a)' => op'[a].status \in Received
  BY <1>1, <1>2 DEF CoverAt, CoverKept, PastReconciling
<1>6. pc'[a] = "finalize" /\ job'[a].outcome = "ambiguous" =>
         op'[a].status \in Received \/ ~held'[a].dead \/ op'[a].dead
  BY <1>1, <1>2, <1>3 DEF CoverAt, CoverKept
<1>. QED BY <1>4, <1>5, <1>6 DEF CoverAt

LEMMA NoRecordCovered ==
    ASSUME UNCHANGED op, AlarmsKept
    PROVE  \A a \in Auths : CoverKept(a)
  BY DEF CoverKept, AlarmsKept, Unresolved

\* A received payment is resolved.
LEMMA OneRecordCovered ==
    ASSUME TypeInv, NEW a \in Auths, NEW rec, op' = [op EXCEPT ![a] = rec],
           rec.status \in Received, AlarmsKept
    PROVE  \A b \in Auths : CoverKept(b)
<1>1. op'[a] = rec /\ \A b \in Auths : b # a => op'[b] = op[b]
  BY DEF TypeInv, TypeOK
<1>2. CoverKept(a)
  BY <1>1 DEF CoverKept, AlarmsKept, Received
<1>3. ASSUME NEW b \in Auths, b # a PROVE CoverKept(b)
  BY <1>1, <1>3 DEF CoverKept, AlarmsKept, Unresolved
<1>. QED BY <1>2, <1>3

LEMMA TransitionCovered ==
    ASSUME TypeInv, OrderInv, NEW a \in Auths,
           NEW next \in {"verified", "failed", "ambiguous", "settled"}, Transition(a, next)
    PROVE  \A b \in Auths : CoverKept(b)
<1>1. op[a] \in Operation /\ op \in [Auths -> Operation] /\ Shape(op[a])
      /\ alarm \in [Auths -> BOOLEAN]
  BY DEF TypeInv, TypeOK, OrderInv, ShapesOK
<1>2. /\ AlarmsKept
      /\ next = "ambiguous" /\ Accepts(op[a], next) => alarm'[a]
  BY <1>1 DEF Transition, AlarmsKept
<1>3. CASE Accepts(op[a], next)
  <2>1. PICK rec : rec = Patched(op[a], next)
    OBVIOUS
  <2>2. op' = [op EXCEPT ![a] = rec]
    BY <1>1, <1>3, <2>1 DEF Transition
  <2>3. rec.status = next /\ rec.reserved = op[a].reserved /\ rec.dead = op[a].dead
    BY <1>1, <2>1, PatchedFields DEF Statuses
  <2>4. op'[a] = rec /\ \A b \in Auths : b # a => op'[b] = op[b]
    BY <1>1, <2>2
  <2>5. next = "verified" => ~op[a].reserved
    BY <1>1, <1>3, AcceptedFrom DEF Statuses, Shape
  <2>6. op[a].status \notin Received
    BY <1>1, <1>3, AcceptedFrom DEF Statuses, Received, Open
  <2>7. CoverKept(a)
    BY <1>2, <1>3, <2>3, <2>4, <2>5, <2>6 DEF CoverKept, AlarmsKept
  <2>8. ASSUME NEW b \in Auths, b # a PROVE CoverKept(b)
    BY <1>2, <2>4, <2>8 DEF CoverKept, AlarmsKept, Unresolved
  <2>. QED BY <2>7, <2>8
<1>4. CASE ~Accepts(op[a], next)
  <2>1. op' = op
    BY <1>1, <1>4 DEF Transition
  <2>. QED BY <1>2, <2>1, NoRecordCovered
<1>. QED BY <1>3, <1>4

\* A request disturbs no alarm.
LEMMA RequestCovers ==
    ASSUME OrderInv, CoverInv, SendersKept, NEW r \in Requests, OthersStay(r),
           \A a \in Auths : CoverKept(a)
    PROVE  CoverInv'
<1>1. r \in Procs /\ r \notin Auths
  BY ProcessAssumption DEF Procs
<1>. QED BY <1>1, CoverStepKeeps

\* Neither does what anybody does after a payment was received.
LEMMA ReceivedCovers ==
    ASSUME OrderInv, CoverInv, SendersKept, NEW x \in Procs, OthersStay(x),
           \A a \in Auths : CoverKept(a), x \in Auths => PastReconciling(x)
    PROVE  CoverInv'
<1>1. ASSUME x \in Auths PROVE CoverAt(x)'
  <2>1. op[x].status \in Received
    BY <1>1 DEF CoverInv, CoverAt
  <2>2. op'[x].status \in Received
    BY <1>1, <2>1 DEF CoverKept
  <2>. QED BY <2>2 DEF CoverAt, Unresolved, Received
<1>. QED BY <1>1, CoverStepKeeps

\* A request that gives up, a process that stores its record and goes on.
LEMMA GiveUpCovers ==
    ASSUME TypeInv, OrderInv, CoverInv, SendersKept, NEW r \in Requests, pc[r] \notin {"idle", "done"},
           NEW outcome \in {"failed", "ambiguous"}, GiveUp(r, outcome)
    PROVE  CoverInv'
<1>1. r \in Procs /\ job[r].auth \in Auths
  BY DEF Procs, TypeInv, JobOK
<1>2. \A a \in Auths : CoverKept(a)
  BY <1>1, TransitionCovered DEF GiveUp
<1>3. OthersStay(r)
  BY <1>1, ReportContinues DEF GiveUp, Continues
<1>. QED BY <1>2, <1>3, RequestCovers

LEMMA StoredStays ==
    ASSUME TypeInv, NEW x \in Procs, NEW rec, NEW outcome, pc[x] \notin {"idle", "done"},
           Stored(x, rec, outcome)
    PROVE  OthersStay(x)
<1>1. \A y \in Procs \ {x} : held'[y] = held[y]
  BY DEF Stored, TypeInv, TypeOK
<1>2. \E label : Report(x, label, outcome)
  BY DEF Stored
<1>. QED BY <1>1, <1>2, ReportContinues DEF Continues

\* Only a booking brings a Worker to the point of sending, and it has set the
\* alarm by then.
LEMMA SendersStep == TypeInv /\ [Next]_vars => SendersKept
<1> SUFFICES ASSUME TypeInv, [Next]_vars PROVE SendersKept
  OBVIOUS
<1>b. /\ pc \in [Procs -> Labels] /\ job \in [Procs -> Job] /\ alarm \in [Auths -> BOOLEAN]
      /\ settles \in [Auths -> Nat]
      /\ Requests \subseteq Procs /\ Auths \subseteq Procs /\ Requests \cap Auths = {}
  BY ProcessAssumption DEF TypeInv, TypeOK, Procs
<1>q. ASSUME NEW x \in Procs, UNCHANGED settles, pc'[x] # "submit",
             \A y \in Procs \ {x} : pc'[y] = pc[y] /\ job'[y] = job[y]
      PROVE  SendersKept
  BY <1>b, <1>q DEF SendersKept, Sending
<1>g. ASSUME NEW x \in Procs, UNCHANGED settles, NEW label, label # "submit",
             NEW outcome, Goto(x, label) \/ Finish(x) \/ Report(x, label, outcome)
      PROVE  SendersKept
  <2>1. /\ pc'[x] # "submit"
        /\ \A y \in Procs \ {x} : pc'[y] = pc[y] /\ job'[y] = job[y]
    BY <1>b, <1>g DEF Goto, Finish, Report
  <2>. QED BY <1>g, <1>q, <2>1
<1>1. ASSUME NEW r \in Requests, NEW p \in Pids, NEW a \in Auths, Reserve(r, p, a)
      PROVE  SendersKept
  <2>1. /\ pc'[r] # "submit" /\ UNCHANGED settles
        /\ \A y \in Procs \ {r} : pc'[y] = pc[y] /\ job'[y] = job[y]
    BY <1>1, <1>b DEF Reserve, Finish, history
  <2>. QED BY <1>b, <1>q, <2>1
<1>2. ASSUME NEW r \in Requests,
             \/ SelectFacilitator(r) \/ Peek(r) \/ Release(r) \/ Begin(r)
             \/ Verify(r) \/ ReserveKey(r) \/ Reply(r) \/ CheckEvidence(r)
      PROVE  SendersKept
  BY <1>2, <1>b, <1>g
  DEF SelectFacilitator, Peek, AwaitPreparation, Release, Begin, Verify, ReserveKey,
      Reply, Unclear, CheckEvidence, GiveUp, history
<1>3. ASSUME NEW r \in Requests, Book(r) PROVE SendersKept
  <2>1. CASE Finish(r)
    BY <1>3, <1>b, <1>g, <2>1 DEF Book, history
  <2>2. CASE SetAlarm(job[r].auth) /\ Goto(r, "submit")
    <3>1. job[r].auth \in Auths /\ UNCHANGED settles
      BY <1>3, <1>b DEF Book, history, TypeInv, JobOK
    <3>2. alarm'[job[r].auth] /\ job' = job /\ \A y \in Procs \ {r} : pc'[y] = pc[y]
      BY <1>b, <2>2, <3>1 DEF SetAlarm, Goto
    <3>. QED BY <1>b, <3>1, <3>2 DEF SendersKept, Sending
  <2>. QED BY <1>3, <2>1, <2>2 DEF Book
<1>4. ASSUME NEW r \in Requests, Submit(r) PROVE SendersKept
  <2>1. /\ pc[r] = "submit" /\ job' = job /\ pc' = [pc EXCEPT ![r] = "reply"]
        /\ settles' = [settles EXCEPT ![job[r].auth] = @ + 1]
    BY <1>4 DEF Submit, Goto
  <2>. QED BY <1>b, <2>1 DEF SendersKept, Sending
<1>5. ASSUME NEW r \in Requests, Commit(r) PROVE SendersKept
  BY <1>5, <1>b, <1>g DEF Commit, Stored, history
<1>6. ASSUME NEW x \in Procs,
             \/ Sync(x) \/ Finalize(x) \/ Execute(x) \/ RecordCredit(x) \/ Complete(x)
      PROVE  SendersKept
  BY <1>6, <1>b, <1>g DEF Sync, Finalize, Execute, RecordCredit, Complete, Stored, history
<1>7. ASSUME NEW x \in Procs, Claim(x) PROVE SendersKept
  <2>1. /\ pc'[x] # "submit" /\ UNCHANGED settles
        /\ \A y \in Procs \ {x} : pc'[y] = pc[y] /\ job'[y] = job[y]
    BY <1>7, <1>b DEF Claim, Finish
  <2>. QED BY <1>q, <2>1
<1>8. ASSUME NEW a \in Auths, FireAlarm(a) PROVE SendersKept
  <2>1. /\ pc'[a] # "submit" /\ UNCHANGED settles
        /\ \A y \in Procs \ {a} : pc'[y] = pc[y] /\ job'[y] = job[y]
    BY <1>8, <1>b DEF FireAlarm, StartReconciling, history
  <2>. QED BY <1>b, <1>q, <2>1
<1>9. ASSUME NEW a \in Auths, Query(a) \/ Outbox(a) PROVE SendersKept
  BY <1>9, <1>b, <1>g DEF Query, Outbox, history
<1>10. ASSUME NEW a \in Auths, ChainDecides(a) PROVE SendersKept
  BY <1>10 DEF ChainDecides, history, SendersKept, Sending
<1>11. ASSUME NEW r \in Requests, CrashRequest(r) PROVE SendersKept
  BY <1>11, <1>b, <1>g DEF CrashRequest, history
<1>12. ASSUME NEW a \in Auths, CrashAlarm(a) PROVE SendersKept
  BY <1>12, <1>b, <1>g DEF CrashAlarm, history
<1>13. CASE UNCHANGED vars
  BY <1>13 DEF vars, SendersKept, Sending
<1>. QED
  BY <1>1, <1>2, <1>3, <1>4, <1>5, <1>6, <1>7, <1>8, <1>9, <1>10, <1>11, <1>12, <1>13
  DEF Next, RequestStep, ExecutionStep, AlarmStep

\* Every step of the system keeps CoverInv.
LEMMA CoverStep ==
    TypeInv /\ SettleInv /\ OrderInv /\ CoverInv /\ SendersKept /\ [Next]_vars => CoverInv'
<1> SUFFICES ASSUME TypeInv, SettleInv, OrderInv, CoverInv, SendersKept, [Next]_vars
             PROVE  CoverInv'
  OBVIOUS
<1>b. /\ op \in [Auths -> Operation] /\ held \in [Procs -> Operation]
      /\ pc \in [Procs -> Labels] /\ job \in [Procs -> Job] /\ alarm \in [Auths -> BOOLEAN]
      /\ Requests \subseteq Procs /\ Auths \subseteq Procs
  BY DEF TypeInv, TypeOK, Procs
\* Requests that store nothing.
<1>q. ASSUME NEW r \in Requests, OthersStay(r), UNCHANGED <<op, alarm>> PROVE CoverInv'
  <2>1. \A a \in Auths : CoverKept(a)
    BY <1>q, NoRecordCovered DEF AlarmsKept
  <2>. QED BY <1>q, <2>1, RequestCovers
<1>c. ASSUME NEW r \in Requests, pc[r] \notin {"idle", "done"}, UNCHANGED <<held, op, alarm>>,
             NEW label, Goto(r, label) \/ Finish(r)
      PROVE  CoverInv'
  <2>1. OthersStay(r)
    BY <1>b, <1>c, GotoContinues, FinishContinues DEF Continues
  <2>. QED BY <1>c, <1>q, <2>1
<1>1. ASSUME NEW r \in Requests, NEW p \in Pids, NEW a \in Auths, Reserve(r, p, a)
      PROVE  CoverInv'
  <2>1. OthersStay(r)
    BY <1>1, <1>b DEF Reserve, Finish, OthersStay, object
  <2>. QED BY <1>1, <1>q, <2>1 DEF Reserve, object
<1>2. ASSUME NEW r \in Requests, SelectFacilitator(r) PROVE CoverInv'
  BY <1>2, <1>c DEF SelectFacilitator, object
<1>3. ASSUME NEW r \in Requests, Peek(r) PROVE CoverInv'
  BY <1>3, <1>c DEF Peek, AwaitPreparation, object
<1>4. ASSUME NEW r \in Requests, Release(r) PROVE CoverInv'
  BY <1>4, <1>c DEF Release, object
<1>5. ASSUME NEW r \in Requests, Begin(r) PROVE CoverInv'
  <2>0. pc[r] = "begin" /\ UNCHANGED <<held, alarm>>
    BY <1>5 DEF Begin
  <2>1. CASE UNCHANGED op /\ (Goto(r, "release") \/ Goto(r, "claim") \/ Finish(r))
    BY <1>c, <2>0, <2>1
  <2>2. CASE /\ op[job[r].auth].status = "none" /\ Goto(r, "verify")
             /\ op' = [op EXCEPT ![job[r].auth] = NewOperation(job[r].pid)]
    <3>1. PICK a : a = job[r].auth
      OBVIOUS
    <3>2. a \in Auths /\ op[a].status = "none"
      BY <1>b, <2>0, <2>2, <3>1 DEF TypeInv, JobOK
    <3>3. op'[a].status = "pending" /\ \A b \in Auths : b # a => op'[b] = op[b]
      BY <1>b, <2>2, <3>1, <3>2 DEF NewOperation, NoOperation
    <3>4. \A b \in Auths : CoverKept(b)
      BY <2>0, <3>2, <3>3 DEF CoverKept, Received, Unresolved
    <3>5. OthersStay(r)
      BY <1>b, <2>0, <2>2, GotoContinues DEF Continues
    <3>. QED BY <3>4, <3>5, RequestCovers
  <2>. QED BY <1>5, <2>1, <2>2 DEF Begin
<1>6. ASSUME NEW r \in Requests, Verify(r) PROVE CoverInv'
  <2>0. pc[r] = "verify" /\ job[r].auth \in Auths
    BY <1>6, <1>b DEF Verify, TypeInv, JobOK
  <2>1. CASE GiveUp(r, "failed")
    BY <2>0, <2>1, GiveUpCovers
  <2>2. CASE /\ Transition(job[r].auth, "verified") /\ UNCHANGED <<pending, held>>
             /\ Goto(r, "key") \/ Finish(r)
    <3>1. \A b \in Auths : CoverKept(b)
      BY <2>0, <2>2, TransitionCovered
    <3>2. OthersStay(r)
      BY <1>b, <2>0, <2>2, GotoContinues, FinishContinues DEF Continues
    <3>. QED BY <3>1, <3>2, RequestCovers
  <2>. QED BY <1>6, <2>1, <2>2 DEF Verify
<1>7. ASSUME NEW r \in Requests, ReserveKey(r) PROVE CoverInv'
  <2>0. pc[r] = "key"
    BY <1>7 DEF ReserveKey
  <2>1. CASE GiveUp(r, "failed")
    BY <2>0, <2>1, GiveUpCovers
  <2>2. CASE Goto(r, "book") /\ UNCHANGED object
    BY <1>c, <2>0, <2>2 DEF object
  <2>. QED BY <1>7, <2>1, <2>2 DEF ReserveKey
<1>8. ASSUME NEW r \in Requests, Book(r) PROVE CoverInv'
  <2>0. pc[r] = "book" /\ job[r].auth \in Auths /\ UNCHANGED held
    BY <1>8, <1>b DEF Book, TypeInv, JobOK
  <2>1. CASE UNCHANGED <<op, alarm>> /\ Finish(r)
    BY <1>c, <2>0, <2>1
  <2>2. ASSUME NEW a, a = job[r].auth, NEW life, SetAlarm(a), Goto(r, "submit"),
               op' = [op EXCEPT ![a] = [@ EXCEPT !.reserved = TRUE, !.life = life]]
        PROVE  CoverInv'
    <3>1. /\ op'[a].status = op[a].status /\ op'[a].dead = op[a].dead
          /\ \A b \in Auths : b # a => op'[b] = op[b]
      BY <1>b, <2>0, <2>2 DEF Operation
    <3>2. alarm'[a] /\ \A b \in Auths : b # a => alarm'[b] = alarm[b]
      BY <1>b, <2>0, <2>2 DEF SetAlarm
    <3>3. \A b \in Auths : CoverKept(b)
      BY <3>1, <3>2 DEF CoverKept, Unresolved
    <3>4. OthersStay(r)
      BY <1>b, <2>0, <2>2, GotoContinues DEF Continues
    <3>. QED BY <3>3, <3>4, RequestCovers
  \* Without its alarm the booking has no Worker left that could send it.
  <2>3. ASSUME NEW a, a = job[r].auth, NEW life, UNCHANGED alarm, Finish(r),
               ~op[a].reserved,
               op' = [op EXCEPT ![a] = [@ EXCEPT !.reserved = TRUE, !.life = life]]
        PROVE  CoverInv'
    <3>1. /\ op'[a].status = op[a].status /\ op'[a].dead = op[a].dead
          /\ \A b \in Auths : b # a => op'[b] = op[b]
      BY <1>b, <2>0, <2>3 DEF Operation
    <3>2. OthersStay(r) /\ pc'[r] \in {"idle", "done"}
      BY <1>b, <2>0, <2>3, FinishContinues DEF Continues
    <3>3. settles[a] = 0 /\ \A q \in Requests : pc[q] = "submit" => job[q].auth # a
      BY <2>0, <2>3 DEF SettleInv, SendOK, Settling, TypeInv, TypeOK
    <3>4. settles' = settles
      BY <1>8 DEF Book, history
    <3>5. ~Sending(a)'
      BY <1>b, <3>2, <3>3, <3>4 DEF Sending, OthersStay
    <3>6. \A b \in Auths : CoverKept(b)
      BY <2>3, <3>1, <3>5 DEF CoverKept, Unresolved
    <3>. QED BY <3>2, <3>6, RequestCovers
  <2>. QED BY <1>8, <2>1, <2>2, <2>3 DEF Book
<1>9. ASSUME NEW r \in Requests, Submit(r) PROVE CoverInv'
  BY <1>9, <1>c DEF Submit, object
<1>10. ASSUME NEW r \in Requests, Reply(r) PROVE CoverInv'
  <2>0. pc[r] = "reply"
    BY <1>10 DEF Reply
  <2>1. ASSUME NEW outcome \in {"failed", "ambiguous"}, GiveUp(r, outcome) PROVE CoverInv'
    BY <2>0, <2>1, GiveUpCovers
  <2>2. ASSUME NEW label, Goto(r, label), UNCHANGED object PROVE CoverInv'
    BY <1>c, <2>0, <2>2 DEF object
  <2>. QED BY <1>10, <2>1, <2>2 DEF Reply, Unclear
<1>11. ASSUME NEW r \in Requests, CheckEvidence(r) PROVE CoverInv'
  <2>0. pc[r] = "evidence"
    BY <1>11 DEF CheckEvidence
  <2>1. CASE GiveUp(r, "ambiguous")
    BY <2>0, <2>1, GiveUpCovers
  <2>2. CASE Goto(r, "commit") /\ UNCHANGED object
    BY <1>c, <2>0, <2>2 DEF object
  <2>. QED BY <1>11, <2>1, <2>2 DEF CheckEvidence
<1>12. ASSUME NEW r \in Requests, Commit(r) PROVE CoverInv'
  <2>0. pc[r] = "commit" /\ job[r].auth \in Auths /\ Transition(job[r].auth, "settled")
    BY <1>12, <1>b DEF Commit, TypeInv, JobOK
  <2>1. \A b \in Auths : CoverKept(b)
    BY <2>0, TransitionCovered
  <2>2. ASSUME NEW rec, Stored(r, rec, "settled") PROVE OthersStay(r)
    BY <1>b, <2>0, <2>2, StoredStays
  <2>3. CASE Finish(r) /\ UNCHANGED <<pending, held>>
    BY <1>b, <2>0, <2>1, <2>3, FinishContinues, RequestCovers DEF Continues
  <2>. QED BY <1>12, <2>1, <2>2, <2>3, RequestCovers DEF Commit
<1>13. ASSUME NEW x \in Procs, Sync(x) PROVE CoverInv'
  <2>0. /\ pc[x] = "sync" /\ job[x].auth \in Auths /\ held[x].status \in Received
        /\ held' = [held EXCEPT ![x] = NoOperation]
    BY <1>13 DEF Sync, Writing, TypeInv, JobOK, OrderInv, WriteOK, MayWrite
  <2>1. AlarmsKept
    BY <1>13, <1>b, <2>0 DEF Sync, AlarmsKept
  <2>2. \A a \in Auths : CoverKept(a)
    <3>1. CASE op' = [op EXCEPT ![job[x].auth] = held[x]]
      BY <2>0, <2>1, <3>1, OneRecordCovered
    <3>2. CASE UNCHANGED op
      BY <2>1, <3>2, NoRecordCovered
    <3>. QED BY <1>13, <3>1, <3>2 DEF Sync
  <2>3. \A y \in Procs \ {x} : held'[y] = held[y]
    BY <1>b, <2>0
  <2>4. Finish(x) \/ \E label : Goto(x, label)
    BY <1>13 DEF Sync
  <2>5. OthersStay(x)
    BY <2>0, <2>3, <2>4, GotoContinues, FinishContinues DEF Continues
  <2>. QED BY <2>0, <2>2, <2>5, ReceivedCovers DEF PastReconciling
<1>14. ASSUME NEW x \in Procs, Finalize(x) PROVE CoverInv'
  <2>0. pc[x] = "finalize" /\ UNCHANGED op
    BY <1>14 DEF Finalize
  <2>1. /\ \A y \in Procs \ {x} : held'[y] = held[y]
        /\ AlarmsKept /\ (Rearms(x) => alarm'[x])
    BY <1>14, <1>b DEF Finalize, AlarmsKept, Rearms
  <2>2. IF job[x].outcome = "settled" THEN \E label : Goto(x, label) ELSE Finish(x)
    BY <1>14 DEF Finalize
  <2>3. OthersStay(x)
    BY <2>0, <2>1, <2>2, GotoContinues, FinishContinues DEF Continues
  <2>4. \A a \in Auths : CoverKept(a)
    BY <2>0, <2>1, NoRecordCovered
  <2>5. CASE x \in Requests \/ job[x].outcome # "ambiguous"
    BY <2>0, <2>3, <2>4, <2>5, ReceivedCovers, ProcessAssumption DEF PastReconciling
  \* The alarm that gave up for now has set itself again.
  <2>6. CASE x \in Auths /\ job[x].outcome = "ambiguous"
    <3>1. pc'[x] = "idle"
      BY <1>b, <2>2, <2>6, ProcessAssumption DEF Finish
    <3>2. op[x].status \in Received \/ ~held[x].dead \/ op[x].dead
      BY <2>0, <2>6 DEF CoverInv, CoverAt
    <3>3. Unresolved(x) => alarm'[x]
      BY <2>1, <2>6, <3>2 DEF Unresolved, Rearms, Received
    <3>4. CoverAt(x)'
      BY <2>0, <3>1, <3>3 DEF CoverAt, Unresolved, PastReconciling
    <3>. QED BY <2>3, <2>4, <3>4, CoverStepKeeps
  <2>. QED BY <2>5, <2>6 DEF Procs
\* From here on a process works on a payment that was received.
<1>e. ASSUME NEW x \in Procs, pc[x] \in {"claim", "execute", "complete", "credit"},
             UNCHANGED op /\ AlarmsKept, OthersStay(x)
      PROVE  CoverInv'
  <2>1. \A a \in Auths : CoverKept(a)
    BY <1>e, NoRecordCovered
  <2>. QED BY <1>e, <2>1, ReceivedCovers DEF PastReconciling
<1>f. ASSUME NEW x \in Procs, pc[x] \in {"claim", "execute", "complete", "credit"},
             NEW rec, rec.status \in Received, op' = [op EXCEPT ![job[x].auth] = rec],
             AlarmsKept, OthersStay(x)
      PROVE  CoverInv'
  <2>1. job[x].auth \in Auths
    BY <1>f DEF TypeInv, JobOK
  <2>2. \A a \in Auths : CoverKept(a)
    BY <1>f, <2>1, OneRecordCovered
  <2>. QED BY <1>f, <2>2, ReceivedCovers DEF PastReconciling
<1>15. ASSUME NEW x \in Procs, Claim(x) PROVE CoverInv'
  <2>0. pc[x] = "claim" /\ job[x].auth \in Auths /\ UNCHANGED held /\ AlarmsKept
    BY <1>15 DEF Claim, AlarmsKept, TypeInv, JobOK
  <2>1. OthersStay(x)
    BY <1>15, <1>b DEF Claim, Finish, OthersStay
  <2>2. CASE UNCHANGED op
    BY <1>e, <2>0, <2>1, <2>2
  <2>3. ASSUME NEW a, a = job[x].auth, Claimable(op[a]), NEW token, NEW rec,
               rec = [op[a] EXCEPT !.claim = token, !.life = "EXECUTION_STARTED"],
               op' = [op EXCEPT ![a] = rec]
        PROVE  CoverInv'
    <3>1. rec.status \in Received
      BY <1>b, <2>0, <2>3 DEF Operation, Claimable, Received
    <3>. QED BY <1>f, <2>0, <2>1, <2>3, <3>1
  <2>4. \/ UNCHANGED op
        \/ /\ Claimable(op[job[x].auth])
           /\ op' = [op EXCEPT ![job[x].auth] =
                        [@ EXCEPT !.claim = started[job[x].auth] + 1,
                                  !.life = "EXECUTION_STARTED"]]
    BY <1>15 DEF Claim
  <2>. QED BY <2>2, <2>3, <2>4
<1>16. ASSUME NEW x \in Procs, Execute(x) PROVE CoverInv'
  <2>0. pc[x] = "execute" /\ job[x].auth \in Auths
    BY <1>16 DEF Execute, TypeInv, JobOK
  <2>1. AlarmsKept
    BY <1>16 DEF Execute, object, AlarmsKept
  <2>2. ASSUME UNCHANGED object, NEW label,
               Goto(x, label) \/ Report(x, label, "credited")
        PROVE  CoverInv'
    <3>1. OthersStay(x)
      BY <2>0, <2>2, GotoContinues, ReportContinues DEF Continues, object
    <3>. QED BY <1>e, <2>0, <2>1, <2>2, <3>1 DEF object
  <2>3. ASSUME NEW a, a = job[x].auth, NEW rec, rec = HoldForReview(op[a]),
               op' = [op EXCEPT ![a] = rec], Stored(x, rec, "credited")
        PROVE  CoverInv'
    <3>1. rec.status \in Received
      BY <1>b, <2>0, <2>3, PatchedFields DEF HoldForReview, Received, Statuses
    <3>2. OthersStay(x)
      BY <2>0, <2>3, StoredStays
    <3>. QED BY <1>f, <2>0, <2>1, <2>3, <3>1, <3>2
  <2>. QED BY <1>16, <2>2, <2>3 DEF Execute
<1>17. ASSUME NEW x \in Procs, RecordCredit(x) PROVE CoverInv'
  <2>0. pc[x] = "credit" /\ job[x].auth \in Auths /\ UNCHANGED held /\ AlarmsKept
    BY <1>17 DEF RecordCredit, AlarmsKept, TypeInv, JobOK
  <2>1. OthersStay(x)
    BY <1>17, <2>0, ReportContinues DEF RecordCredit, Continues
  <2>2. CASE UNCHANGED op
    BY <1>e, <2>0, <2>1, <2>2
  <2>3. ASSUME NEW a, a = job[x].auth, NEW rec,
               rec = [Patched(op[a], "credited") EXCEPT !.claim = 0, !.credit = job[x].token],
               op' = [op EXCEPT ![a] = rec]
        PROVE  CoverInv'
    <3>1. PICK q : q = Patched(op[a], "credited")
      OBVIOUS
    <3>2. q \in Operation /\ q.status = "credited"
      BY <1>b, <2>0, <2>3, <3>1, PatchedType, PatchedFields DEF Statuses
    <3>3. rec.status \in Received
      BY <2>3, <3>1, <3>2 DEF Operation, Received
    <3>. QED BY <1>f, <2>0, <2>1, <2>3, <3>3
  <2>4. \/ UNCHANGED op
        \/ op' = [op EXCEPT ![job[x].auth] =
                     [Patched(op[job[x].auth], "credited")
                        EXCEPT !.claim = 0, !.credit = job[x].token]]
    BY <1>17, <1>b, <2>0 DEF RecordCredit
  <2>. QED BY <2>2, <2>3, <2>4
<1>18. ASSUME NEW x \in Procs, Complete(x) PROVE CoverInv'
  <2>0. pc[x] = "complete" /\ job[x].auth \in Auths /\ AlarmsKept
    BY <1>18 DEF Complete, AlarmsKept, TypeInv, JobOK
  <2>1. CASE /\ UNCHANGED <<op, held>>
             /\ Report(x, "finalize", "succeeded") \/ Finish(x)
    <3>1. OthersStay(x)
      BY <2>0, <2>1, ReportContinues, FinishContinues DEF Continues
    <3>. QED BY <1>e, <2>0, <2>1, <3>1
  <2>2. ASSUME NEW a, a = job[x].auth, NEW rec,
               rec = [Patched(op[a], "succeeded") EXCEPT !.claim = 0],
               op' = [op EXCEPT ![a] = rec], Stored(x, rec, "succeeded")
        PROVE  CoverInv'
    <3>1. PICK q : q = Patched(op[a], "succeeded")
      OBVIOUS
    <3>2. q \in Operation /\ q.status = "succeeded"
      BY <1>b, <2>0, <2>2, <3>1, PatchedType, PatchedFields DEF Statuses
    <3>3. rec.status \in Received
      BY <2>2, <3>1, <3>2 DEF Operation, Received
    <3>4. OthersStay(x)
      BY <2>0, <2>2, StoredStays
    <3>. QED BY <1>f, <2>0, <2>2, <3>3, <3>4
  <2>. QED BY <1>18, <2>1, <2>2 DEF Complete
\* The steps of an alarm leave the other operations alone.
<1>g. ASSUME NEW a \in Auths, OthersStay(a), CoverAt(a)',
             \A b \in Auths : b # a => op'[b] = op[b] /\ alarm'[b] = alarm[b]
      PROVE  CoverInv'
  <2>1. \A b \in Auths \ {a} : CoverKept(b)
    BY <1>g DEF CoverKept, Unresolved
  <2>. QED BY <1>b, <1>g, <2>1, CoverStepKeeps
<1>19. ASSUME NEW a \in Auths, FireAlarm(a) PROVE CoverInv'
  <2>0. /\ pc[a] = "idle" /\ a \in Procs /\ a \notin Requests
        /\ \A b \in Auths : b # a => alarm'[b] = alarm[b]
    BY <1>19, <1>b, ProcessAssumption DEF FireAlarm
  <2>1. op[a] \in Operation /\ Shape(op[a]) /\ RecordOK(op[a])
    BY <1>b DEF OrderInv, ShapesOK, SettleInv, RecordsOK
  <2>s. PICK seen : seen = Seen(a)
    OBVIOUS
  <2>2. /\ seen \in Operation /\ Shape(seen)
        /\ \/ seen = op[a] /\ op[a].life # "SETTLEMENT_PENDING"
           \/ seen.status = "ambiguous" /\ op[a].status = "verified"
    BY <2>1, <2>s, SeenShape, SeenType DEF RecordInv, TypeInv, TypeOK
  <2>3. CASE Owing(a, Seen(a)) /\ UNCHANGED op
    <3>1. op'[a].status \in Received
      BY <2>2, <2>3, <2>s DEF Owing, Received
    <3>2. /\ held' = [held EXCEPT ![a] = op[a]]
          /\ pc' = [pc EXCEPT ![a] = "sync"]
          /\ job' = [job EXCEPT ![a] = [@ EXCEPT !.pid = op[a].pid, !.auth = a]]
      BY <1>19, <2>3 DEF FireAlarm, StartReconciling
    <3>3. OthersStay(a)
      BY <1>b, <2>0, <3>2 DEF OthersStay
    <3>4. CoverAt(a)'
      BY <3>1 DEF CoverAt, Unresolved, Received
    <3>. QED BY <1>g, <2>0, <2>3, <3>3, <3>4
  <2>4. CASE StartReconciling(a, Seen(a))
    <3>1. PICK next : next = IF seen.attempts >= MaxAttempts THEN [seen EXCEPT !.dead = TRUE]
                                                             ELSE CountedAttempt(seen)
      OBVIOUS
    <3>2. /\ op' = [op EXCEPT ![a] = next] /\ held' = [held EXCEPT ![a] = next]
          /\ \E label \in {"finalize", "query"} : pc' = [pc EXCEPT ![a] = label]
          /\ job' = [job EXCEPT ![a] = [pid |-> seen.pid, auth |-> a,
                                        outcome |-> "ambiguous", token |-> 0]]
      BY <2>4, <2>s, <3>1 DEF StartReconciling
    <3>3. /\ OthersStay(a) /\ pc'[a] \in {"finalize", "query"} /\ held'[a] = next
          /\ job'[a].outcome = "ambiguous" /\ op'[a] = next
          /\ \A b \in Auths : b # a => op'[b] = op[b]
      BY <1>b, <2>0, <3>2 DEF OthersStay
    <3>4. CoverAt(a)'
      <4>1. ~PastReconciling(a)'
        BY <3>3 DEF PastReconciling
      <4>2. ~held'[a].dead \/ op'[a].dead
        BY <3>3
      <4>. QED BY <3>3, <4>1, <4>2 DEF CoverAt
    <3>. QED BY <1>g, <2>0, <3>3, <3>4
  \* Neither an open payment nor a booked one is passed over.
  <2>5. CASE /\ Seen(a).status # "ambiguous" \/ ~Seen(a).payload
             /\ op' = [op EXCEPT ![a] = Seen(a)] /\ UNCHANGED <<held, pc, job>>
    <3>1. seen.status # "ambiguous"
      BY <2>2, <2>5, <2>s DEF Shape, Open
    <3>2. op' = op
      BY <1>b, <2>2, <2>5, <2>s, <3>1
    <3>3. ~Unresolved(a)
      <4>1. seen = op[a] /\ op[a].life # "SETTLEMENT_PENDING"
        BY <2>2, <3>1
      <4>. QED BY <2>1, <3>1, <4>1 DEF Unresolved, Shape
    <3>4. OthersStay(a) /\ pc'[a] = "idle"
      BY <2>0, <2>5 DEF OthersStay
    <3>5. CoverAt(a)'
      BY <3>2, <3>3, <3>4 DEF CoverAt, Unresolved, PastReconciling
    <3>. QED BY <1>g, <2>0, <3>2, <3>4, <3>5
  <2>. QED BY <1>19, <2>3, <2>4, <2>5 DEF FireAlarm
<1>20. ASSUME NEW a \in Auths, Query(a) PROVE CoverInv'
  <2>0. a \in Procs /\ pc[a] = "query" /\ held[a] \in Operation /\ UNCHANGED alarm
    BY <1>20, <1>b DEF Query
  <2>1. ASSUME NEW rec, NEW outcome, op' = [op EXCEPT ![a] = rec],
               held' = [held EXCEPT ![a] = rec], Report(a, "finalize", outcome),
               outcome = "ambiguous" \/ rec.status \in Received
        PROVE  CoverInv'
    <3>1. /\ held'[a] = rec /\ op'[a] = rec
          /\ \A y \in Procs \ {a} : held'[y] = held[y]
          /\ \A b \in Auths : b # a => op'[b] = op[b]
      BY <1>b, <2>0, <2>1
    <3>2. OthersStay(a) /\ pc'[a] = "finalize" /\ job'[a].outcome = outcome
      BY <2>0, <2>1, <3>1, ReportContinues DEF Continues
    <3>3. CoverAt(a)'
      <4>1. PastReconciling(a)' => outcome # "ambiguous"
        BY <3>2 DEF PastReconciling
      <4>2. ~held'[a].dead \/ op'[a].dead
        BY <3>1
      <4>. QED BY <2>1, <3>1, <3>2, <4>1, <4>2 DEF CoverAt
    <3>. QED BY <1>g, <2>0, <3>1, <3>2, <3>3
  <2>2. Patched(held[a], "settled").status \in Received
    BY <2>0, PatchedFields DEF Received, Statuses
  <2>. QED BY <1>20, <2>1, <2>2 DEF Query
<1>21. ASSUME NEW a \in Auths, Outbox(a) PROVE CoverInv'
  <2>0. /\ a \in Procs /\ pc[a] = "outbox" /\ AlarmsKept /\ UNCHANGED held
        /\ op' = [op EXCEPT ![a] = held[a]]
    BY <1>21, <1>b DEF Outbox, AlarmsKept
  <2>1. held[a].status \in Received
    BY <2>0 DEF Writing, OrderInv, WriteOK, MayWrite
  <2>2. \A b \in Auths : CoverKept(b)
    BY <2>0, <2>1, OneRecordCovered
  <2>3. OthersStay(a)
    BY <1>21, <2>0, GotoContinues DEF Outbox, Continues
  <2>. QED BY <2>0, <2>2, <2>3, ReceivedCovers DEF PastReconciling
<1>22. ASSUME NEW a \in Auths, ChainDecides(a) PROVE CoverInv'
  BY <1>22 DEF ChainDecides, object, history, CoverInv, CoverAt, Sending, Unresolved,
               PastReconciling
<1>23. ASSUME NEW r \in Requests, CrashRequest(r) PROVE CoverInv'
  <2>1. pc[r] \notin {"idle", "done"} /\ \A y \in Procs \ {r} : held'[y] = held[y]
    BY <1>23, <1>b DEF CrashRequest
  <2>2. OthersStay(r)
    BY <1>23, <1>b, <2>1, FinishContinues DEF CrashRequest, Continues
  <2>. QED BY <1>23, <1>q, <2>2 DEF CrashRequest
<1>24. ASSUME NEW a \in Auths, CrashAlarm(a) PROVE CoverInv'
  <2>1. /\ UNCHANGED op /\ \A y \in Procs \ {a} : held'[y] = held[y]
        /\ alarm'[a] /\ \A b \in Auths : b # a => alarm'[b] = alarm[b]
    BY <1>24, <1>b DEF CrashAlarm
  <2>2. OthersStay(a) /\ pc'[a] = "idle"
    BY <1>24, <1>b, <2>1, ProcessAssumption DEF CrashAlarm, Finish, OthersStay
  <2>3. CoverAt(a)'
    BY <2>1, <2>2 DEF CoverAt, PastReconciling
  <2>. QED BY <1>g, <2>1, <2>2, <2>3
<1>25. CASE UNCHANGED vars
  BY <1>25 DEF vars, CoverInv, CoverAt, Sending, Unresolved, PastReconciling
<1>. QED
  BY <1>1, <1>2, <1>3, <1>4, <1>5, <1>6, <1>7, <1>8, <1>9, <1>10, <1>11, <1>12, <1>13,
     <1>14, <1>15, <1>16, <1>17, <1>18, <1>19, <1>20, <1>21, <1>22, <1>23, <1>24, <1>25
  DEF Next, RequestStep, ExecutionStep, AlarmStep

\* A settlement that was or may be sent and whose outcome is not known is never
\* forgotten: its alarm is set or at work, until the last attempt hands it to
\* manual review.
THEOREM NeverForgotten == Spec => []AlarmCovers
<1>1. Init => CoverInv
  <2> SUFFICES ASSUME Init, NEW a \in Auths PROVE CoverAt(a)
    BY DEF CoverInv
  <2>1. op[a] = NoOperation /\ pc[a] = "idle"
    BY DEF Init, Procs
  <2>. QED BY <2>1 DEF CoverAt, Unresolved, PastReconciling, NoOperation
<1>2. CoverInv => AlarmCovers
  BY DEF CoverInv, CoverAt, AlarmCovers
<1>3. TypeInv /\ SettleInv /\ OrderInv /\ CoverInv /\ [Next]_vars => CoverInv'
  BY SendersStep, CoverStep
<1>. QED BY <1>1, <1>2, <1>3, OrderInvariant, PTL DEF Spec

-----------------------------------------------------------------------------
(* OneExecutor.  Where no settlement stage outlasts the alarm's delay and no  *)
(* sale is stored a second time, nobody writes a record back over a claim.    *)

NothingWrittenBack == SlowPids = {} /\ SellerPids = {}

Holding == {"execute", "complete", "credit"}

UnsoldOK ==
    /\ \A x \in Procs : pc[x] \notin {"sync", "outbox"}
    /\ \A a \in Auths : ~pending[a]

\* While an alarm asks the chain no worker settles the operation.
AloneAt(a) ==
    /\ op[a].status = "ambiguous"
    /\ held[a].status = "ambiguous" /\ held[a].claim = 0
    /\ \A r \in Requests : pc[r] \in Settling => job[r].auth # a
AloneOK == \A a \in Auths : pc[a] = "query" => AloneAt(a)

\* A claim is held on a received payment, by the one who executes it.
ClaimsOK == \A a \in Auths : op[a].claim # 0 => op[a].status \in Received
HoldersOK == \A x \in Procs : pc[x] \in Holding =>
    job[x].token # 0 /\ op[job[x].auth].claim = job[x].token

ClaimsKept == \A a \in Auths : ClaimKept(a)
ClaimInv == UnsoldOK /\ AloneOK /\ ClaimsOK /\ HoldersOK /\ OneExecutor

\* What a step of x may do to an operation that somebody else works on.
LeavesClaim(x, a) ==
    /\ op'[a].claim = op[a].claim
    /\ op[a].status \in Received => op'[a].status \in Received
    /\ a # x /\ pc[a] = "query" => op'[a].status = op[a].status

LEMMA ClaimStepKeeps ==
    ASSUME TypeInv, TypeInv', ClaimInv, NEW x \in Procs, OthersStay(x),
           \A a \in Auths : LeavesClaim(x, a), UNCHANGED pending,
           pc'[x] \notin {"sync", "outbox"},
           pc'[x] \in Holding =>
              pc[x] \in Holding /\ SameJob(x) /\ job'[x].token = job[x].token,
           x \in Requests /\ pc'[x] \in Settling => pc[job'[x].auth] # "query",
           x \in Auths /\ pc'[x] = "query" => AloneAt(x)'
    PROVE  ClaimInv' /\ ClaimsKept
<1>1. \A y \in Procs : y # x => pc'[y] = pc[y] /\ job'[y] = job[y] /\ held'[y] = held[y]
  BY DEF OthersStay
<1>2. /\ Requests \subseteq Procs /\ Auths \subseteq Procs /\ Requests \cap Auths = {}
      /\ \A y \in Procs : pc'[y] \notin {"idle", "done"} => job'[y].auth \in Auths
  BY ProcessAssumption DEF Procs, TypeInv, JobOK
<1>3. UnsoldOK'
  BY <1>1 DEF ClaimInv, UnsoldOK
<1>4. AloneOK'
  <2> SUFFICES ASSUME NEW a \in Auths, pc'[a] = "query" PROVE AloneAt(a)'
    BY DEF AloneOK
  <2>1. CASE a = x
    BY <2>1
  <2>2. CASE a # x
    <3>1. pc[a] = "query" /\ held'[a] = held[a] /\ AloneAt(a)
      BY <1>1, <1>2, <2>2 DEF ClaimInv, AloneOK
    <3>2. /\ op'[a].status = "ambiguous"
          /\ held'[a].status = "ambiguous" /\ held'[a].claim = 0
      BY <2>2, <3>1 DEF AloneAt, LeavesClaim
    <3>3. \A r \in Requests : pc'[r] \in Settling => job'[r].auth # a
      BY <1>1, <1>2, <3>1 DEF AloneAt
    <3>. QED BY <3>2, <3>3 DEF AloneAt
  <2>. QED BY <2>1, <2>2
<1>5. ClaimsOK'
  BY DEF ClaimInv, ClaimsOK, LeavesClaim
<1>6. ASSUME NEW y \in Procs, pc'[y] \in Holding
      PROVE  /\ pc[y] \in Holding /\ job'[y].auth = job[y].auth /\ job'[y].token = job[y].token
             /\ job[y].auth \in Auths
  BY <1>1, <1>2, <1>6 DEF SameJob, Holding
<1>7. HoldersOK'
  <2> SUFFICES ASSUME NEW y \in Procs, pc'[y] \in Holding
               PROVE  job'[y].token # 0 /\ op'[job'[y].auth].claim = job'[y].token
    BY DEF HoldersOK
  <2>. QED BY <1>6 DEF ClaimInv, HoldersOK, LeavesClaim
<1>8. OneExecutor'
  BY <1>6 DEF ClaimInv, OneExecutor, Executing, Holding
<1>9. ClaimsKept
  BY DEF ClaimsKept, ClaimKept, LeavesClaim
<1>. QED BY <1>3, <1>4, <1>5, <1>7, <1>8, <1>9 DEF ClaimInv

\* The one who may take or holds the claim changes the record.
LEMMA HolderStepKeeps ==
    ASSUME TypeInv, TypeInv', ClaimInv, NEW x \in Procs, OthersStay(x),
           NEW a \in Auths, NEW rec, op' = [op EXCEPT ![a] = rec],
           op[a].status \in Received, rec.status \in Received, UNCHANGED pending,
           op[a].claim # 0 => rec.claim = 0 /\ rec.status # "settled",
           \A y \in Procs \ {x} : ~Executing(y, a),
           pc'[x] \in {"execute", "finalize"}, job'[x].auth = a,
           pc'[x] = "execute" => job'[x].token # 0 /\ rec.claim = job'[x].token
    PROVE  ClaimInv' /\ ClaimsKept
<1>1. \A y \in Procs : y # x => pc'[y] = pc[y] /\ job'[y] = job[y] /\ held'[y] = held[y]
  BY DEF OthersStay
<1>2. /\ Requests \subseteq Procs /\ Auths \subseteq Procs /\ Requests \cap Auths = {}
      /\ \A y \in Procs : pc'[y] \notin {"idle", "done"} => job'[y].auth \in Auths
  BY ProcessAssumption DEF Procs, TypeInv, JobOK
<1>3. op'[a] = rec /\ \A b \in Auths : b # a => op'[b] = op[b]
  BY DEF TypeInv, TypeOK
<1>4. UnsoldOK'
  BY <1>1 DEF ClaimInv, UnsoldOK
<1>5. AloneOK'
  <2> SUFFICES ASSUME NEW b \in Auths, pc'[b] = "query" PROVE AloneAt(b)'
    BY DEF AloneOK
  <2>1. b # x /\ pc[b] = "query" /\ held'[b] = held[b] /\ AloneAt(b)
    BY <1>1, <1>2 DEF ClaimInv, AloneOK
  <2>2. b # a
    BY <2>1 DEF AloneAt, Received
  <2>3. \A r \in Requests : pc'[r] \in Settling => job'[r].auth # b
    BY <1>1, <1>2, <2>1 DEF AloneAt, Settling
  <2>. QED BY <1>3, <2>1, <2>2, <2>3 DEF AloneAt
<1>6. ClaimsOK'
  BY <1>3 DEF ClaimInv, ClaimsOK
<1>7. ASSUME NEW y \in Procs, pc'[y] \in Holding
      PROVE  \/ y = x /\ pc'[y] = "execute"
             \/ /\ y # x /\ pc[y] \in Holding /\ job'[y] = job[y]
                /\ job[y].auth \in Auths /\ job[y].auth # a
  <2>1. CASE y = x
    BY <1>7, <2>1 DEF Holding
  <2>2. CASE y # x
    <3>1. pc[y] \in Holding /\ job'[y] = job[y] /\ job[y].auth \in Auths
      BY <1>1, <1>2, <1>7, <2>2 DEF Holding
    <3>2. job[y].auth # a
      BY <2>2, <3>1 DEF Executing, Holding
    <3>. QED BY <2>2, <3>1, <3>2
  <2>. QED BY <2>1, <2>2
<1>8. HoldersOK'
  <2> SUFFICES ASSUME NEW y \in Procs, pc'[y] \in Holding
               PROVE  job'[y].token # 0 /\ op'[job'[y].auth].claim = job'[y].token
    BY DEF HoldersOK
  <2>. QED BY <1>3, <1>7 DEF ClaimInv, HoldersOK
<1>9. OneExecutor'
  <2> SUFFICES ASSUME NEW b \in Auths, NEW y \in Procs, NEW z \in Procs,
                      Executing(y, b)', Executing(z, b)'
               PROVE  y = z
    BY DEF OneExecutor
  <2>1. pc'[y] \in Holding /\ pc'[z] \in Holding /\ job'[y].auth = b /\ job'[z].auth = b
    BY DEF Executing, Holding
  <2>2. CASE y = x \/ z = x
    BY <1>7, <2>1, <2>2
  <2>3. CASE y # x /\ z # x
    BY <1>7, <2>1, <2>3 DEF ClaimInv, OneExecutor, Executing, Holding
  <2>. QED BY <2>2, <2>3
<1>10. ClaimsKept
  BY <1>3 DEF ClaimsKept, ClaimKept, Received
<1>. QED BY <1>4, <1>5, <1>6, <1>8, <1>9, <1>10 DEF ClaimInv

LEMMA TransitionLeaves ==
    ASSUME TypeInv, OrderInv, NEW x, NEW a \in Auths,
           NEW next \in {"verified", "failed", "ambiguous", "settled"}, Transition(a, next),
           pc[a] # "query"
    PROVE  \A b \in Auths : LeavesClaim(x, b)
<1>1. op[a] \in Operation /\ op \in [Auths -> Operation]
  BY DEF TypeInv, TypeOK
<1>2. CASE Accepts(op[a], next)
  <2>1. PICK rec : rec = Patched(op[a], next)
    OBVIOUS
  <2>2. rec.claim = op[a].claim
    BY <1>1, <2>1, PatchedFields DEF Statuses
  <2>3. op'[a] = rec /\ \A b \in Auths : b # a => op'[b] = op[b]
    BY <1>1, <1>2, <2>1 DEF Transition
  <2>4. op[a].status \notin Received
    BY <1>1, <1>2, AcceptedFrom DEF Statuses, Received, Open
  <2>5. LeavesClaim(x, a)
    BY <2>2, <2>3, <2>4 DEF LeavesClaim
  <2>6. ASSUME NEW b \in Auths, b # a PROVE LeavesClaim(x, b)
    BY <2>3, <2>6 DEF LeavesClaim
  <2>. QED BY <2>5, <2>6
<1>3. CASE ~Accepts(op[a], next)
  <2>1. op' = op
    BY <1>1, <1>3 DEF Transition
  <2>. QED BY <2>1 DEF LeavesClaim
<1>. QED BY <1>2, <1>3

\* A worker between the booking and its outcome, or one that prepares the
\* operation, has no alarm at work beside it.
LEMMA WorkerAlone ==
    ASSUME TypeInv, OrderInv, ClaimInv, NEW r \in Requests,
           pc[r] \in Settling \cup Fresh
    PROVE  job[r].auth \in Auths /\ pc[job[r].auth] # "query"
<1>1. job[r].auth \in Auths
  BY DEF TypeInv, JobOK, Procs, Settling, Fresh
<1>2. CASE pc[r] \in Settling
  BY <1>1, <1>2 DEF ClaimInv, AloneOK, AloneAt
<1>3. CASE pc[r] \in Fresh
  <2>1. ~op[job[r].auth].reserved
    BY <1>3 DEF OrderInv, OwnerOK
  <2>2. pc[job[r].auth] = "query" =>
           op[job[job[r].auth].auth].reserved /\ job[job[r].auth].auth = job[r].auth
    BY <1>1 DEF OrderInv, WriteOK, Writing, JobsOK, Procs
  <2>. QED BY <1>1, <2>1, <2>2
<1>. QED BY <1>1, <1>2, <1>3

LEMMA GiveUpLeaves ==
    ASSUME TypeInv, TypeInv', OrderInv, ClaimInv, NEW r \in Requests,
           pc[r] \in Settling \cup Fresh,
           NEW outcome \in {"failed", "ambiguous"}, GiveUp(r, outcome)
    PROVE  ClaimInv' /\ ClaimsKept
<1>1. r \in Procs /\ r \notin Auths /\ pc[r] \notin {"idle", "done"}
  BY ProcessAssumption DEF Procs, Settling, Fresh
<1>2. \A a \in Auths : LeavesClaim(r, a)
  BY WorkerAlone, TransitionLeaves DEF GiveUp
<1>3. OthersStay(r) /\ pc'[r] = "finalize"
  BY <1>1, ReportContinues DEF GiveUp, Continues
<1>4. UNCHANGED pending
  BY DEF GiveUp
<1>. QED BY <1>1, <1>2, <1>3, <1>4, ClaimStepKeeps DEF Holding, Settling

\* Without sellers what is stored is only reported.
LEMMA StoredReports ==
    ASSUME TypeInv, SellerPids = {}, NEW x \in Procs, NEW rec, NEW outcome,
           pc[x] \notin {"idle", "done"}, Stored(x, rec, outcome)
    PROVE  OthersStay(x) /\ pc'[x] = "finalize" /\ SameJob(x) /\ UNCHANGED <<pending, held>>
<1>1. Report(x, "finalize", outcome) /\ UNCHANGED <<pending, held>>
  BY DEF Stored
<1>. QED BY <1>1, ReportContinues DEF Continues

\* The execution's token is handed to the process that claimed it.
LEMMA TokenTaken ==
    ASSUME TypeInv, NEW x \in Procs, Claim(x), Claimable(op[job[x].auth])
    PROVE  /\ OthersStay(x) /\ pc'[x] = "execute"
           /\ job'[x].auth = job[x].auth /\ job'[x].token = started[job[x].auth] + 1
<1>1. pc \in [Procs -> Labels] /\ job \in [Procs -> Job]
  BY DEF TypeInv, TypeOK
<1>2. PICK token : token = started[job[x].auth] + 1
  OBVIOUS
<1>3. /\ pc' = [pc EXCEPT ![x] = "execute"] /\ held' = held
      /\ job' = [job EXCEPT ![x].token = token]
  BY <1>2 DEF Claim
<1>4. OthersStay(x) /\ pc'[x] = "execute"
  BY <1>1, <1>3 DEF OthersStay
<1>5. job'[x].auth = job[x].auth /\ job'[x].token = token
  BY <1>1, <1>3 DEF Job
<1>. QED BY <1>2, <1>4, <1>5

\* Every step of the system keeps ClaimInv and takes no claim from its holder.
LEMMA ClaimStep ==
    NothingWrittenBack /\ TypeInv /\ SettleInv /\ OrderInv /\ ClaimInv /\ [Next]_vars
    => ClaimInv' /\ ClaimsKept
<1> SUFFICES ASSUME NothingWrittenBack, TypeInv, SettleInv, OrderInv, ClaimInv, [Next]_vars
             PROVE  ClaimInv' /\ ClaimsKept
  OBVIOUS
<1>t. TypeInv'
  BY TypeStep
<1>b. /\ op \in [Auths -> Operation] /\ held \in [Procs -> Operation]
      /\ pc \in [Procs -> Labels] /\ job \in [Procs -> Job] /\ started \in [Auths -> Nat]
      /\ Requests \subseteq Procs /\ Auths \subseteq Procs /\ Requests \cap Auths = {}
  BY ProcessAssumption DEF TypeInv, TypeOK, Procs
\* Steps that store nothing and begin neither an execution nor a settlement.
<1>q. ASSUME NEW x \in Procs, OthersStay(x), UNCHANGED <<op, pending>>,
             pc'[x] \notin {"sync", "outbox", "query"} \cup Holding,
             pc'[x] \in Settling =>
                x \in Requests /\ pc[x] \in Settling \cup Fresh /\ SameJob(x)
      PROVE  ClaimInv' /\ ClaimsKept
  <2>1. \A a \in Auths : LeavesClaim(x, a)
    BY <1>q DEF LeavesClaim
  <2>2. x \in Requests /\ pc'[x] \in Settling => pc[job'[x].auth] # "query"
    BY <1>q, WorkerAlone DEF SameJob
  <2>. QED BY <1>t, <1>q, <2>1, <2>2, ClaimStepKeeps
<1>e. ASSUME NEW r \in Requests, pc[r] \notin {"idle", "done"}, UNCHANGED <<held, op, pending>>,
             Finish(r)
      PROVE  ClaimInv' /\ ClaimsKept
  <2>1. OthersStay(r) /\ pc'[r] \in {"idle", "done"}
    BY <1>b, <1>e, FinishContinues DEF Continues
  <2>. QED BY <1>b, <1>e, <1>q, <2>1 DEF Holding, Settling
<1>c. ASSUME NEW r \in Requests, pc[r] \notin {"idle", "done"}, UNCHANGED <<held, op, pending>>,
             NEW label, Goto(r, label), label \notin {"sync", "outbox", "query"} \cup Holding,
             label \in Settling => pc[r] \in Settling \cup Fresh
      PROVE  ClaimInv' /\ ClaimsKept
  <2>1. OthersStay(r) /\ pc'[r] = label /\ SameJob(r)
    BY <1>b, <1>c, GotoContinues DEF Continues, SameJob
  <2>. QED BY <1>b, <1>c, <1>q, <2>1
<1>1. ASSUME NEW r \in Requests, NEW p \in Pids, NEW a \in Auths, Reserve(r, p, a)
      PROVE  ClaimInv' /\ ClaimsKept
  <2>1. OthersStay(r) /\ pc'[r] \in {"select", "peek", "done"} /\ UNCHANGED <<op, pending>>
    BY <1>1, <1>b DEF Reserve, Finish, OthersStay, object
  <2>. QED BY <1>b, <1>q, <2>1 DEF Holding, Settling
<1>2. ASSUME NEW r \in Requests, SelectFacilitator(r) PROVE ClaimInv' /\ ClaimsKept
  BY <1>2, <1>c DEF SelectFacilitator, object, Holding, Settling
<1>3. ASSUME NEW r \in Requests, Peek(r) PROVE ClaimInv' /\ ClaimsKept
  BY <1>3, <1>c, <1>e DEF Peek, AwaitPreparation, object, Holding, Settling
<1>4. ASSUME NEW r \in Requests, Release(r) PROVE ClaimInv' /\ ClaimsKept
  BY <1>4, <1>e DEF Release, object
<1>5. ASSUME NEW r \in Requests, Begin(r) PROVE ClaimInv' /\ ClaimsKept
  <2>0. pc[r] = "begin" /\ UNCHANGED <<held, pending>> /\ job[r].auth \in Auths
    BY <1>5, <1>b DEF Begin, TypeInv, JobOK
  <2>1. CASE UNCHANGED op /\ (Goto(r, "release") \/ Goto(r, "claim") \/ Finish(r))
    BY <1>c, <1>e, <2>0, <2>1 DEF Holding, Settling
  <2>2. CASE /\ op[job[r].auth].status = "none" /\ Goto(r, "verify")
             /\ op' = [op EXCEPT ![job[r].auth] = NewOperation(job[r].pid)]
    <3>1. PICK a : a = job[r].auth
      OBVIOUS
    <3>2. op'[a].claim = 0 /\ \A b \in Auths : b # a => op'[b] = op[b]
      BY <1>b, <2>0, <2>2, <3>1 DEF NewOperation, NoOperation
    <3>3. op[a].claim = 0 /\ op[a].status \notin Received /\ pc[a] # "query"
      BY <2>0, <2>2, <3>1 DEF ClaimInv, ClaimsOK, AloneOK, AloneAt, Received
    <3>4. \A b \in Auths : LeavesClaim(r, b)
      BY <3>2, <3>3 DEF LeavesClaim
    <3>5. OthersStay(r) /\ pc'[r] = "verify"
      BY <1>b, <2>0, <2>2, GotoContinues DEF Continues
    <3>. QED BY <1>b, <1>t, <2>0, <3>4, <3>5, ClaimStepKeeps DEF Holding, Settling
  <2>. QED BY <1>5, <2>1, <2>2 DEF Begin
<1>6. ASSUME NEW r \in Requests, Verify(r) PROVE ClaimInv' /\ ClaimsKept
  <2>0. pc[r] = "verify"
    BY <1>6 DEF Verify
  <2>1. CASE GiveUp(r, "failed")
    BY <1>t, <2>0, <2>1, GiveUpLeaves DEF Fresh
  <2>2. CASE /\ Transition(job[r].auth, "verified") /\ UNCHANGED <<pending, held>>
             /\ Goto(r, "key") \/ Finish(r)
    <3>1. job[r].auth \in Auths /\ pc[job[r].auth] # "query"
      BY <2>0, WorkerAlone DEF Fresh
    <3>2. \A b \in Auths : LeavesClaim(r, b)
      BY <2>2, <3>1, TransitionLeaves
    <3>3. OthersStay(r) /\ pc'[r] \in {"key", "idle", "done"}
      BY <1>b, <2>0, <2>2, GotoContinues, FinishContinues DEF Continues
    <3>. QED BY <1>b, <1>t, <2>2, <3>2, <3>3, ClaimStepKeeps DEF Holding, Settling
  <2>. QED BY <1>6, <2>1, <2>2 DEF Verify
<1>7. ASSUME NEW r \in Requests, ReserveKey(r) PROVE ClaimInv' /\ ClaimsKept
  <2>0. pc[r] = "key"
    BY <1>7 DEF ReserveKey
  <2>1. CASE GiveUp(r, "failed")
    BY <1>t, <2>0, <2>1, GiveUpLeaves DEF Fresh
  <2>2. CASE Goto(r, "book") /\ UNCHANGED object
    BY <1>c, <2>0, <2>2 DEF object, Holding, Settling
  <2>. QED BY <1>7, <2>1, <2>2 DEF ReserveKey
<1>8. ASSUME NEW r \in Requests, Book(r) PROVE ClaimInv' /\ ClaimsKept
  <2>0. pc[r] = "book" /\ UNCHANGED <<held, pending>>
    BY <1>8 DEF Book
  <2>a. job[r].auth \in Auths /\ pc[job[r].auth] # "query"
    BY <2>0, WorkerAlone DEF Fresh
  <2>1. CASE UNCHANGED op /\ Finish(r)
    BY <1>e, <2>0, <2>1
  <2>2. ASSUME NEW a, a = job[r].auth, NEW life, Goto(r, "submit") \/ Finish(r),
               op' = [op EXCEPT ![a] = [@ EXCEPT !.reserved = TRUE, !.life = life]]
        PROVE  ClaimInv' /\ ClaimsKept
    <3>1. /\ op'[a].status = op[a].status /\ op'[a].claim = op[a].claim
          /\ \A b \in Auths : b # a => op'[b] = op[b]
      BY <1>b, <2>a, <2>2 DEF Operation
    <3>2. \A b \in Auths : LeavesClaim(r, b)
      BY <3>1 DEF LeavesClaim
    <3>3. /\ OthersStay(r) /\ pc'[r] \in {"submit", "idle", "done"}
          /\ pc'[r] = "submit" => job' = job
      BY <1>b, <2>0, <2>2, GotoContinues, FinishContinues DEF Continues
    <3>. QED BY <1>b, <1>t, <2>0, <2>a, <3>2, <3>3, ClaimStepKeeps DEF Holding, Settling
  <2>. QED BY <1>8, <2>1, <2>2 DEF Book
<1>9. ASSUME NEW r \in Requests, Submit(r) PROVE ClaimInv' /\ ClaimsKept
  BY <1>9, <1>c DEF Submit, object, Holding, Settling
<1>10. ASSUME NEW r \in Requests, Reply(r) PROVE ClaimInv' /\ ClaimsKept
  <2>0. pc[r] = "reply"
    BY <1>10 DEF Reply
  <2>1. ASSUME NEW outcome \in {"failed", "ambiguous"}, GiveUp(r, outcome)
        PROVE  ClaimInv' /\ ClaimsKept
    BY <1>t, <2>0, <2>1, GiveUpLeaves DEF Settling
  <2>2. ASSUME NEW label \in {"evidence", "commit"}, Goto(r, label), UNCHANGED object
        PROVE  ClaimInv' /\ ClaimsKept
    BY <1>c, <2>0, <2>2 DEF object, Holding, Settling
  <2>. QED BY <1>10, <2>1, <2>2 DEF Reply, Unclear
<1>11. ASSUME NEW r \in Requests, CheckEvidence(r) PROVE ClaimInv' /\ ClaimsKept
  <2>0. pc[r] = "evidence"
    BY <1>11 DEF CheckEvidence
  <2>1. CASE GiveUp(r, "ambiguous")
    BY <1>t, <2>0, <2>1, GiveUpLeaves DEF Settling
  <2>2. CASE Goto(r, "commit") /\ UNCHANGED object
    BY <1>c, <2>0, <2>2 DEF object, Holding, Settling
  <2>. QED BY <1>11, <2>1, <2>2 DEF CheckEvidence
<1>12. ASSUME NEW r \in Requests, Commit(r) PROVE ClaimInv' /\ ClaimsKept
  <2>0. pc[r] = "commit" /\ Transition(job[r].auth, "settled")
    BY <1>12 DEF Commit
  <2>1. job[r].auth \in Auths /\ pc[job[r].auth] # "query"
    BY <2>0, WorkerAlone DEF Settling
  <2>2. \A b \in Auths : LeavesClaim(r, b)
    BY <2>0, <2>1, TransitionLeaves
  <2>3. ASSUME NEW rec, Stored(r, rec, "settled")
        PROVE  OthersStay(r) /\ pc'[r] = "finalize" /\ UNCHANGED pending
    BY <1>b, <2>0, <2>3, StoredReports DEF NothingWrittenBack
  <2>4. CASE Finish(r) /\ UNCHANGED <<pending, held>>
    <3>1. OthersStay(r) /\ pc'[r] \in {"idle", "done"}
      BY <1>b, <2>0, <2>4, FinishContinues DEF Continues
    <3>. QED BY <1>b, <1>t, <2>2, <2>4, <3>1, ClaimStepKeeps DEF Holding, Settling
  <2>5. CASE OthersStay(r) /\ pc'[r] = "finalize" /\ UNCHANGED pending
    BY <1>b, <1>t, <2>2, <2>5, ClaimStepKeeps DEF Holding, Settling
  <2>. QED BY <1>12, <2>3, <2>4, <2>5 DEF Commit
<1>13. ASSUME NEW x \in Procs, Sync(x) PROVE FALSE
  BY <1>13 DEF Sync, ClaimInv, UnsoldOK
<1>14. ASSUME NEW x \in Procs, Finalize(x) PROVE ClaimInv' /\ ClaimsKept
  <2>0. pc[x] = "finalize" /\ UNCHANGED <<op, pending>>
    BY <1>14 DEF Finalize
  <2>1. \A y \in Procs \ {x} : held'[y] = held[y]
    BY <1>14, <1>b DEF Finalize
  <2>2. Finish(x) \/ Goto(x, "claim")
    BY <1>14 DEF Finalize, NothingWrittenBack
  <2>3. OthersStay(x) /\ pc'[x] \in {"claim", "idle", "done"}
    BY <2>0, <2>1, <2>2, GotoContinues, FinishContinues DEF Continues
  <2>. QED BY <1>q, <2>0, <2>3 DEF Holding, Settling
<1>15. ASSUME NEW x \in Procs, Claim(x) PROVE ClaimInv' /\ ClaimsKept
  <2>0. pc[x] = "claim" /\ job[x].auth \in Auths /\ UNCHANGED <<held, pending>>
    BY <1>15 DEF Claim, TypeInv, JobOK
  <2>1. CASE UNCHANGED op /\ Finish(x)
    <3>1. OthersStay(x) /\ pc'[x] \in {"idle", "done"}
      BY <2>0, <2>1, FinishContinues DEF Continues
    <3>. QED BY <1>q, <2>0, <2>1, <3>1 DEF Holding, Settling
  <2>2. ASSUME NEW a, a = job[x].auth, Claimable(op[a]), NEW token, token = started[a] + 1,
               NEW rec, rec = [op[a] EXCEPT !.claim = token, !.life = "EXECUTION_STARTED"],
               op' = [op EXCEPT ![a] = rec]
        PROVE  ClaimInv' /\ ClaimsKept
    <3>1. a \in Auths /\ op[a] \in Operation /\ started[a] \in Nat
      BY <1>b, <2>0, <2>2
    <3>2. op[a].status \in Received /\ op[a].claim = 0
      BY <2>2 DEF Claimable, Received
    <3>3. rec.status = op[a].status /\ rec.claim = token /\ token # 0
      BY <2>2, <3>1 DEF Operation
    <3>4. \A y \in Procs \ {x} : ~Executing(y, a)
      BY <3>2 DEF ClaimInv, HoldersOK, Executing, Holding
    <3>5. /\ OthersStay(x) /\ pc'[x] = "execute"
          /\ job'[x].auth = a /\ job'[x].token = token
      BY <1>15, <2>2, TokenTaken
    <3>. QED BY <1>t, <2>0, <2>2, <3>1, <3>2, <3>3, <3>4, <3>5, HolderStepKeeps
  <2>3. \/ UNCHANGED op /\ Finish(x)
        \/ /\ Claimable(op[job[x].auth])
           /\ op' = [op EXCEPT ![job[x].auth] =
                        [@ EXCEPT !.claim = started[job[x].auth] + 1,
                                  !.life = "EXECUTION_STARTED"]]
    BY <1>15 DEF Claim
  <2>. QED BY <2>1, <2>2, <2>3
<1>16. ASSUME NEW x \in Procs, Execute(x) PROVE ClaimInv' /\ ClaimsKept
  <2>0. pc[x] = "execute" /\ job[x].pid \notin SellerPids
    BY <1>16 DEF Execute, NothingWrittenBack
  <2>1. PICK label \in {"complete", "credit"} : Goto(x, label)
    BY <1>16, <2>0 DEF Execute
  <2>2. UNCHANGED <<op, pending, held>>
    BY <1>16, <2>0 DEF Execute, object
  <2>3. OthersStay(x) /\ pc'[x] = label /\ job' = job
    BY <2>0, <2>1, <2>2, GotoContinues DEF Continues
  <2>4. \A a \in Auths : LeavesClaim(x, a)
    BY <2>2 DEF LeavesClaim
  <2>. QED BY <1>t, <2>0, <2>1, <2>2, <2>3, <2>4, ClaimStepKeeps DEF Holding, Settling, SameJob
<1>17. ASSUME NEW x \in Procs, RecordCredit(x) PROVE ClaimInv' /\ ClaimsKept
  <2>0. pc[x] = "credit" /\ job[x].auth \in Auths /\ UNCHANGED <<held, pending>>
    BY <1>17 DEF RecordCredit, TypeInv, JobOK
  <2>1. OthersStay(x) /\ pc'[x] = "finalize" /\ SameJob(x)
    BY <1>17, <2>0, ReportContinues DEF RecordCredit, Continues
  <2>2. CASE UNCHANGED op
    BY <1>q, <2>0, <2>1, <2>2 DEF Holding, Settling
  <2>3. ASSUME NEW a, a = job[x].auth, Accepts(op[a], "credited"), NEW rec,
               rec = [Patched(op[a], "credited") EXCEPT !.claim = 0, !.credit = job[x].token],
               op' = [op EXCEPT ![a] = rec]
        PROVE  ClaimInv' /\ ClaimsKept
    <3>1. PICK q : q = Patched(op[a], "credited")
      OBVIOUS
    <3>2. q \in Operation /\ q.status = "credited"
      BY <1>b, <2>0, <2>3, <3>1, PatchedType, PatchedFields DEF Statuses
    <3>3. rec.status = "credited" /\ rec.claim = 0
      BY <2>3, <3>1, <3>2 DEF Operation
    <3>4. op[a].status \in Received
      BY <1>b, <2>0, <2>3, AcceptedFrom DEF Statuses, Received
    <3>5. \A y \in Procs \ {x} : ~Executing(y, a)
      BY <2>0, <2>3 DEF ClaimInv, OneExecutor, Executing
    <3>. QED
      BY <1>t, <2>0, <2>1, <2>3, <3>3, <3>4, <3>5, HolderStepKeeps DEF Received, SameJob
  <2>4. \/ UNCHANGED op
        \/ /\ Accepts(op[job[x].auth], "credited")
           /\ op' = [op EXCEPT ![job[x].auth] =
                        [Patched(op[job[x].auth], "credited")
                           EXCEPT !.claim = 0, !.credit = job[x].token]]
    BY <1>17, <1>b, <2>0 DEF RecordCredit
  <2>. QED BY <2>2, <2>3, <2>4
<1>18. ASSUME NEW x \in Procs, Complete(x) PROVE ClaimInv' /\ ClaimsKept
  <2>0. pc[x] = "complete" /\ job[x].auth \in Auths
    BY <1>18 DEF Complete, TypeInv, JobOK
  <2>1. CASE /\ UNCHANGED <<op, pending, held>>
             /\ Report(x, "finalize", "succeeded") \/ Finish(x)
    <3>1. OthersStay(x) /\ pc'[x] \in {"finalize", "idle", "done"}
      BY <2>0, <2>1, ReportContinues, FinishContinues DEF Continues
    <3>. QED BY <1>q, <2>0, <2>1, <3>1 DEF Holding, Settling
  <2>2. ASSUME NEW a, a = job[x].auth, Accepts(op[a], "succeeded"), NEW rec,
               rec = [Patched(op[a], "succeeded") EXCEPT !.claim = 0],
               op' = [op EXCEPT ![a] = rec], Stored(x, rec, "succeeded")
        PROVE  ClaimInv' /\ ClaimsKept
    <3>1. PICK q : q = Patched(op[a], "succeeded")
      OBVIOUS
    <3>2. q \in Operation /\ q.status = "succeeded"
      BY <1>b, <2>0, <2>2, <3>1, PatchedType, PatchedFields DEF Statuses
    <3>3. rec.status = "succeeded" /\ rec.claim = 0
      BY <2>2, <3>1, <3>2 DEF Operation
    <3>4. op[a].status \in Received
      BY <1>b, <2>0, <2>2, AcceptedFrom DEF Statuses, Received
    <3>5. \A y \in Procs \ {x} : ~Executing(y, a)
      BY <2>0, <2>2 DEF ClaimInv, OneExecutor, Executing
    <3>6. OthersStay(x) /\ pc'[x] = "finalize" /\ SameJob(x) /\ UNCHANGED pending
      BY <2>0, <2>2, StoredReports DEF NothingWrittenBack
    <3>. QED
      BY <1>t, <2>0, <2>2, <3>3, <3>4, <3>5, <3>6, HolderStepKeeps DEF Received, SameJob
  <2>. QED BY <1>18, <2>1, <2>2 DEF Complete
<1>19. ASSUME NEW a \in Auths, FireAlarm(a) PROVE ClaimInv' /\ ClaimsKept
  <2>0. /\ pc[a] = "idle" /\ a \in Procs /\ a \notin Requests
        /\ UNCHANGED pending /\ WorkerOverdue(a) /\ ~Owing(a, Seen(a))
    BY <1>19, <1>b DEF FireAlarm, Owing, ClaimInv, UnsoldOK
  <2>1. op[a] \in Operation /\ Shape(op[a]) /\ RecordOK(op[a])
    BY <1>b DEF OrderInv, ShapesOK, SettleInv, RecordsOK
  <2>s. PICK seen : seen = Seen(a)
    OBVIOUS
  <2>2. /\ seen \in Operation /\ Shape(seen)
        /\ \/ seen = op[a] /\ op[a].life # "SETTLEMENT_PENDING"
           \/ seen.status = "ambiguous" /\ op[a].status = "verified"
    BY <2>1, <2>s, SeenShape, SeenType DEF RecordInv, TypeInv, TypeOK
  <2>3. CASE StartReconciling(a, Seen(a))
    <3>1. PICK next : next = IF seen.attempts >= MaxAttempts THEN [seen EXCEPT !.dead = TRUE]
                                                             ELSE CountedAttempt(seen)
      OBVIOUS
    <3>2. /\ op' = [op EXCEPT ![a] = next] /\ held' = [held EXCEPT ![a] = next]
          /\ \E label \in {"finalize", "query"} : pc' = [pc EXCEPT ![a] = label]
          /\ job' = [job EXCEPT ![a] = [pid |-> seen.pid, auth |-> a,
                                        outcome |-> "ambiguous", token |-> 0]]
          /\ seen.status = "ambiguous"
      BY <2>3, <2>s, <3>1 DEF StartReconciling
    <3>3. op[a].status \in {"ambiguous", "verified"} /\ op[a].claim = 0
      BY <2>2, <3>2 DEF ClaimInv, ClaimsOK, Received
    <3>4. seen.claim = op[a].claim
      BY <2>1, <2>s, PatchedFields DEF Seen, Statuses
    <3>5. next.status = "ambiguous" /\ next.claim = 0
      BY <2>2, <3>1, <3>2, <3>3, <3>4 DEF Operation, CountedAttempt
    <3>6. /\ OthersStay(a) /\ pc'[a] \in {"finalize", "query"} /\ held'[a] = next
          /\ op'[a] = next /\ \A b \in Auths : b # a => op'[b] = op[b]
          /\ \A r \in Requests : pc'[r] = pc[r] /\ job'[r] = job[r]
      BY <1>b, <2>0, <3>2 DEF OthersStay
    <3>7. AloneAt(a)'
      BY <2>0, <3>5, <3>6 DEF AloneAt, WorkerOverdue, NothingWrittenBack
    <3>8. \A b \in Auths : LeavesClaim(a, b)
      BY <3>3, <3>5, <3>6 DEF LeavesClaim, Received
    <3>. QED BY <1>t, <2>0, <3>6, <3>7, <3>8, ClaimStepKeeps DEF Holding, Settling
  <2>4. CASE /\ Seen(a).status # "ambiguous" \/ ~Seen(a).payload
             /\ op' = [op EXCEPT ![a] = Seen(a)] /\ UNCHANGED <<held, pc, job>>
    <3>1. seen.status # "ambiguous"
      BY <2>2, <2>4, <2>s DEF Shape, Open
    <3>2. op' = op
      BY <1>b, <2>2, <2>4, <2>s, <3>1
    <3>3. OthersStay(a) /\ pc'[a] = "idle"
      BY <2>0, <2>4 DEF OthersStay
    <3>. QED BY <1>q, <2>0, <3>2, <3>3 DEF Holding, Settling
  <2>. QED BY <1>19, <2>0, <2>3, <2>4 DEF FireAlarm
<1>20. ASSUME NEW a \in Auths, Query(a) PROVE ClaimInv' /\ ClaimsKept
  <2>0. /\ a \in Procs /\ pc[a] = "query" /\ held[a] \in Operation /\ UNCHANGED pending
        /\ op[a].status = "ambiguous" /\ op[a].claim = 0 /\ held[a].claim = 0
    BY <1>20, <1>b DEF Query, ClaimInv, AloneOK, AloneAt, ClaimsOK, Received
  <2>1. ASSUME NEW rec, NEW outcome, op' = [op EXCEPT ![a] = rec],
               held' = [held EXCEPT ![a] = rec], Report(a, "finalize", outcome),
               rec.claim = 0
        PROVE  ClaimInv' /\ ClaimsKept
    <3>1. /\ op'[a] = rec /\ \A y \in Procs \ {a} : held'[y] = held[y]
          /\ \A b \in Auths : b # a => op'[b] = op[b]
      BY <1>b, <2>0, <2>1
    <3>2. OthersStay(a) /\ pc'[a] = "finalize"
      BY <2>0, <2>1, <3>1, ReportContinues DEF Continues
    <3>3. \A b \in Auths : LeavesClaim(a, b)
      BY <2>0, <2>1, <3>1 DEF LeavesClaim, Received
    <3>. QED BY <1>t, <2>0, <3>2, <3>3, ClaimStepKeeps DEF Holding, Settling
  <2>2. Patched(held[a], "settled").claim = 0
    BY <2>0, PatchedFields DEF Statuses
  <2>3. [held[a] EXCEPT !.dead = held[a].attempts >= MaxAttempts].claim = 0
    BY <2>0 DEF Operation
  <2>. QED BY <1>20, <2>1, <2>2, <2>3 DEF Query
<1>21. ASSUME NEW a \in Auths, Outbox(a) PROVE FALSE
  BY <1>21, <1>b DEF Outbox, ClaimInv, UnsoldOK
<1>22. ASSUME NEW a \in Auths, ChainDecides(a) PROVE ClaimInv' /\ ClaimsKept
  BY <1>22 DEF ChainDecides, object, ClaimInv, UnsoldOK, AloneOK, AloneAt, ClaimsOK, HoldersOK,
               OneExecutor, Executing, ClaimsKept, ClaimKept
<1>23. ASSUME NEW r \in Requests, CrashRequest(r) PROVE ClaimInv' /\ ClaimsKept
  <2>1. pc[r] \notin {"idle", "done"} /\ \A y \in Procs \ {r} : held'[y] = held[y]
    BY <1>23, <1>b DEF CrashRequest
  <2>2. OthersStay(r) /\ pc'[r] \in {"idle", "done"}
    BY <1>23, <1>b, <2>1, FinishContinues DEF CrashRequest, Continues
  <2>. QED BY <1>23, <1>b, <1>q, <2>2 DEF CrashRequest, Holding, Settling
<1>24. ASSUME NEW a \in Auths, CrashAlarm(a) PROVE ClaimInv' /\ ClaimsKept
  <2>1. UNCHANGED <<op, pending>> /\ \A y \in Procs \ {a} : held'[y] = held[y]
    BY <1>24, <1>b DEF CrashAlarm
  <2>2. OthersStay(a) /\ pc'[a] = "idle"
    BY <1>24, <1>b, <2>1 DEF CrashAlarm, Finish, OthersStay
  <2>. QED BY <1>b, <1>q, <2>1, <2>2 DEF Holding, Settling
<1>25. CASE UNCHANGED vars
  BY <1>25 DEF vars, ClaimInv, UnsoldOK, AloneOK, AloneAt, ClaimsOK, HoldersOK,
               OneExecutor, Executing, ClaimsKept, ClaimKept
<1>. QED
  BY <1>1, <1>2, <1>3, <1>4, <1>5, <1>6, <1>7, <1>8, <1>9, <1>10, <1>11, <1>12, <1>13,
     <1>14, <1>15, <1>16, <1>17, <1>18, <1>19, <1>20, <1>21, <1>22, <1>23, <1>24, <1>25
  DEF Next, RequestStep, ExecutionStep, AlarmStep

LEMMA ClaimInvariant ==
    ASSUME NothingWrittenBack
    PROVE  Spec => [](TypeInv /\ SettleInv /\ OrderInv /\ ClaimInv)
<1>1. Init => ClaimInv
  <2> SUFFICES ASSUME Init PROVE ClaimInv
    OBVIOUS
  <2>1. /\ \A x \in Procs : pc[x] = "idle"
        /\ \A a \in Auths : op[a] = NoOperation /\ ~pending[a] /\ a \in Procs
    BY DEF Init, Procs
  <2>. QED BY <2>1 DEF ClaimInv, UnsoldOK, AloneOK, ClaimsOK, HoldersOK, Holding, OneExecutor,
                       Executing, NoOperation
<1>2. TypeInv /\ SettleInv /\ OrderInv /\ ClaimInv /\ [Next]_vars => ClaimInv'
  BY ClaimStep
<1>. QED BY <1>1, <1>2, OrderInvariant, PTL DEF Spec

\* At most one process executes, completes or credits an operation, when no
\* settlement stage outlasts the alarm's delay and no sale is stored twice.
THEOREM OnlyOneExecutor ==
    ASSUME NothingWrittenBack
    PROVE  Spec => []OneExecutor
<1>1. ClaimInv => OneExecutor
  BY DEF ClaimInv
<1>. QED BY <1>1, ClaimInvariant, PTL

\* Nor is a claim ever taken away from its holder then: the write-backs that
\* NothingWrittenBack excludes are the only way to lose one.
THEOREM ClaimNeverTaken ==
    ASSUME NothingWrittenBack
    PROVE  Spec => ClaimHeld
<1>1. TypeInv /\ SettleInv /\ OrderInv /\ ClaimInv /\ [Next]_vars
         => [\A a \in Auths : ClaimKept(a)]_vars
  BY ClaimStep DEF ClaimsKept
<1>. QED BY <1>1, ClaimInvariant, PTL DEF Spec, ClaimHeld

-----------------------------------------------------------------------------
(* OnlyWriteBackReopens.  A sale is not Live, so no worker settles it while its    *)
(* alarm asks the chain, and the alarm's record is not older than the claim.  *)

\* An operation of a seller, or one that nobody has begun.
SoldOK == \A a \in Auths :
    started[a] > 0 /\ (op[a].status = "none" \/ op[a].pid \in SellerPids)
        => op[a].status \in Received
AskedAt(a) == op[a].pid \in SellerPids =>
    /\ op[a].status = "ambiguous"
    /\ \A r \in Requests : pc[r] \in Settling => job[r].auth # a
AskedOK == \A a \in Auths : pc[a] = "query" => AskedAt(a)
SyncedOK == \A r \in Requests : pc[r] = "sync" =>
    job[r].pid \in SellerPids /\ op[job[r].auth].status \in Received
SaleInv == SoldOK /\ AskedOK /\ SyncedOK

SaleKept(a) == SaleReopens(a) => \E y \in Procs : WritesBack(y, a)
SalesKept == \A a \in Auths : SaleKept(a)

\* What a step of x does to the record of an operation.
LeavesSale(x, a) ==
    /\ op[a].status # "none" => op'[a].status # "none" /\ op'[a].pid = op[a].pid
    /\ op[a].pid \in SellerPids /\ op[a].status \in Received => op'[a].status \in Received
    /\ op[a].pid \in SellerPids /\ pc[a] = "query" /\ a # x
          => op'[a].status = op[a].status
    /\ SaleKept(a)

LEMMA SaleStepKeeps ==
    ASSUME TypeInv, TypeInv', OrderInv, SaleInv, NEW x \in Procs, OthersStay(x),
           \A a \in Auths : LeavesSale(x, a),
           \A a \in Auths : started'[a] = started[a] \/ op'[a].status \in Received,
           x \in Requests /\ pc'[x] \in Settling =>
              pc[job'[x].auth] # "query" \/ op[job'[x].auth].pid \notin SellerPids,
           x \in Requests /\ pc'[x] = "sync" =>
              job'[x].pid \in SellerPids /\ op'[job'[x].auth].status \in Received,
           x \in Auths /\ pc'[x] = "query" => AskedAt(x)'
    PROVE  SaleInv' /\ SalesKept
<1>1. \A y \in Procs : y # x => pc'[y] = pc[y] /\ job'[y] = job[y] /\ held'[y] = held[y]
  BY DEF OthersStay
<1>2. /\ Requests \subseteq Procs /\ Auths \subseteq Procs /\ Requests \cap Auths = {}
      /\ \A y \in Procs : pc'[y] \notin {"idle", "done"} => job'[y].auth \in Auths
  BY ProcessAssumption DEF Procs, TypeInv, JobOK
<1>3. SoldOK'
  <2> SUFFICES ASSUME NEW a \in Auths, started'[a] > 0,
                      op'[a].status = "none" \/ op'[a].pid \in SellerPids,
                      started'[a] = started[a]
               PROVE  op'[a].status \in Received
    BY DEF SoldOK
  <2>1. op[a].status # "none"
    BY DEF SaleInv, SoldOK, Received
  <2>. QED BY <2>1 DEF SaleInv, SoldOK, LeavesSale
<1>4. AskedOK'
  <2> SUFFICES ASSUME NEW a \in Auths, pc'[a] = "query" PROVE AskedAt(a)'
    BY DEF AskedOK
  <2>1. CASE a = x
    BY <2>1
  <2>2. CASE a # x
    <3>1. pc[a] = "query" /\ AskedAt(a) /\ job[a].auth = a
      BY <1>1, <1>2, <2>2 DEF SaleInv, AskedOK, OrderInv, JobsOK
    <3>2. op[a].status # "none"
      BY <1>2, <3>1 DEF OrderInv, BoundOK, Unbound
    <3>3. op'[a].pid \in SellerPids =>
             op[a].pid \in SellerPids /\ op'[a].status = "ambiguous"
      BY <2>2, <3>1, <3>2 DEF AskedAt, LeavesSale
    <3>4. op'[a].pid \in SellerPids =>
             \A r \in Requests : pc'[r] \in Settling => job'[r].auth # a
      BY <1>1, <1>2, <3>1, <3>3 DEF AskedAt
    <3>. QED BY <3>3, <3>4 DEF AskedAt
  <2>. QED BY <2>1, <2>2
<1>5. SyncedOK'
  <2> SUFFICES ASSUME NEW r \in Requests, pc'[r] = "sync"
               PROVE  job'[r].pid \in SellerPids /\ op'[job'[r].auth].status \in Received
    BY DEF SyncedOK
  <2>1. CASE r = x
    BY <2>1
  <2>2. CASE r # x
    <3>1. /\ pc[r] = "sync" /\ job'[r] = job[r] /\ job[r].auth \in Auths
          /\ job[r].pid \in SellerPids /\ op[job[r].auth].status \in Received
      BY <1>1, <1>2, <2>2 DEF SaleInv, SyncedOK
    <3>2. op[job[r].auth].pid = job[r].pid
      BY <1>2, <3>1 DEF OrderInv, BoundOK, Unbound
    <3>. QED BY <3>1, <3>2 DEF LeavesSale
  <2>. QED BY <2>1, <2>2
<1>6. SalesKept
  BY DEF SalesKept, LeavesSale
<1>. QED BY <1>3, <1>4, <1>5, <1>6 DEF SaleInv

\* A record that stays what it is, and one record that is replaced.
LEMMA NoSaleMoves ==
    ASSUME NEW x, UNCHANGED op
    PROVE  \A a \in Auths : LeavesSale(x, a)
  BY DEF LeavesSale, SaleKept, SaleReopens

LEMMA OneSaleMoves ==
    ASSUME TypeInv, NEW x, NEW a \in Auths, NEW rec, op' = [op EXCEPT ![a] = rec],
           rec.pid = op[a].pid, rec.status # "none",
           op[a].pid \in SellerPids =>
              /\ op[a].status \in Received => rec.status \in Received
              /\ pc[a] = "query" /\ a # x => rec.status = op[a].status
              /\ SaleKept(a)
    PROVE  \A b \in Auths : LeavesSale(x, b)
<1>1. op'[a] = rec /\ \A b \in Auths : b # a => op'[b] = op[b]
  BY DEF TypeInv, TypeOK
<1>2. op[a].pid \notin SellerPids => SaleKept(a)
  BY DEF SaleKept, SaleReopens
<1>3. LeavesSale(x, a)
  BY <1>1, <1>2 DEF LeavesSale
<1>4. ASSUME NEW b \in Auths, b # a PROVE LeavesSale(x, b)
  BY <1>1, <1>4 DEF LeavesSale, SaleKept, SaleReopens
<1>. QED BY <1>3, <1>4

LEMMA TransitionLeavesSale ==
    ASSUME TypeInv, OrderInv, SaleInv, NEW x, NEW a \in Auths,
           NEW next \in {"verified", "failed", "ambiguous", "settled"}, Transition(a, next),
           pc[a] # "query" \/ op[a].pid \notin SellerPids
    PROVE  \A b \in Auths : LeavesSale(x, b)
<1>1. op[a] \in Operation /\ op \in [Auths -> Operation] /\ started[a] \in Nat
  BY DEF TypeInv, TypeOK
<1>2. CASE Accepts(op[a], next)
  <2>1. PICK rec : rec = Patched(op[a], next)
    OBVIOUS
  <2>2. rec.pid = op[a].pid /\ rec.status = next
    BY <1>1, <2>1, PatchedFields DEF Statuses
  <2>3. op' = [op EXCEPT ![a] = rec] /\ op'[a] = rec
    BY <1>1, <1>2, <2>1 DEF Transition
  <2>4. op[a].status \notin Received
    BY <1>1, <1>2, AcceptedFrom DEF Statuses, Received, Open
  <2>5. op[a].pid \in SellerPids => SaleKept(a)
    BY <1>1, <2>4 DEF SaleKept, SaleReopens, SaleInv, SoldOK
  <2>. QED BY <2>2, <2>3, <2>4, <2>5, OneSaleMoves
<1>3. CASE ~Accepts(op[a], next)
  <2>1. op' = op
    BY <1>1, <1>3 DEF Transition
  <2>. QED BY <2>1, NoSaleMoves
<1>. QED BY <1>2, <1>3

\* A worker between the verification and the outcome of the settlement has no
\* alarm beside it that asks for the same sale.
LEMMA WorkerUnasked ==
    ASSUME TypeInv, OrderInv, SaleInv, NEW r \in Requests,
           pc[r] \in Settling \cup Fresh
    PROVE  /\ job[r].auth \in Auths
           /\ pc[job[r].auth] # "query" \/ op[job[r].auth].pid \notin SellerPids
<1>1. job[r].auth \in Auths
  BY DEF TypeInv, JobOK, Procs, Settling, Fresh
<1>2. CASE pc[r] \in Settling
  BY <1>1, <1>2 DEF SaleInv, AskedOK, AskedAt
<1>3. CASE pc[r] \in Fresh
  <2>1. ~op[job[r].auth].reserved
    BY <1>3 DEF OrderInv, OwnerOK
  <2>2. pc[job[r].auth] = "query" =>
           op[job[job[r].auth].auth].reserved /\ job[job[r].auth].auth = job[r].auth
    BY <1>1 DEF OrderInv, WriteOK, Writing, JobsOK, Procs
  <2>. QED BY <1>1, <2>1, <2>2
<1>. QED BY <1>1, <1>2, <1>3

LEMMA GiveUpLeavesSale ==
    ASSUME TypeInv, TypeInv', OrderInv, SaleInv, NEW r \in Requests,
           pc[r] \in Settling \cup Fresh, UNCHANGED started,
           NEW outcome \in {"failed", "ambiguous"}, GiveUp(r, outcome)
    PROVE  SaleInv' /\ SalesKept
<1>1. r \in Procs /\ r \notin Auths /\ pc[r] \notin {"idle", "done"}
  BY ProcessAssumption DEF Procs, Settling, Fresh
<1>2. \A a \in Auths : LeavesSale(r, a)
  BY WorkerUnasked, TransitionLeavesSale DEF GiveUp
<1>3. OthersStay(r) /\ pc'[r] = "finalize"
  BY <1>1, ReportContinues DEF GiveUp, Continues
<1>. QED BY <1>1, <1>2, <1>3, SaleStepKeeps DEF Settling

\* What is stored of a sale is sent to the seller ledger.
LEMMA StoredSale ==
    ASSUME TypeInv, NEW x \in Procs, NEW rec, NEW outcome,
           pc[x] \notin {"idle", "done"}, Stored(x, rec, outcome), rec.pid = job[x].pid
    PROVE  /\ OthersStay(x) /\ SameJob(x) /\ pc'[x] \in {"sync", "finalize"}
           /\ pc'[x] = "sync" => job'[x].pid \in SellerPids
<1>1. OthersStay(x)
  BY StoredStays
<1>2. CASE rec.pid \in SellerPids
  <2>1. Report(x, "sync", outcome) /\ \A y \in Procs \ {x} : held'[y] = held[y]
    BY <1>2 DEF Stored, TypeInv, TypeOK
  <2>. QED BY <1>1, <1>2, <2>1, ReportContinues DEF SameJob
<1>3. CASE rec.pid \notin SellerPids
  <2>1. Report(x, "finalize", outcome) /\ UNCHANGED held
    BY <1>3 DEF Stored
  <2>. QED BY <1>1, <2>1, ReportContinues
<1>. QED BY <1>2, <1>3

\* Every step of the system keeps SaleInv and gives no sale back but by writing
\* back what was held across the call to the seller ledger.
LEMMA SaleStep ==
    TypeInv /\ SettleInv /\ OrderInv /\ SaleInv /\ [Next]_vars => SaleInv' /\ SalesKept
<1> SUFFICES ASSUME TypeInv, SettleInv, OrderInv, SaleInv, [Next]_vars
             PROVE  SaleInv' /\ SalesKept
  OBVIOUS
<1>t. TypeInv' /\ OrderInv'
  BY TypeStep, OrderStep
<1>b. /\ op \in [Auths -> Operation] /\ held \in [Procs -> Operation]
      /\ pc \in [Procs -> Labels] /\ job \in [Procs -> Job] /\ started \in [Auths -> Nat]
      /\ Requests \subseteq Procs /\ Auths \subseteq Procs /\ Requests \cap Auths = {}
  BY ProcessAssumption DEF TypeInv, TypeOK, Procs
\* Steps that store nothing and begin neither an execution nor a settlement.
<1>q. ASSUME NEW x \in Procs, OthersStay(x), UNCHANGED <<op, started>>,
             pc'[x] \notin {"sync", "query"},
             pc'[x] \in Settling =>
                x \in Requests /\ pc[x] \in Settling \cup Fresh /\ SameJob(x)
      PROVE  SaleInv' /\ SalesKept
  <2>1. \A a \in Auths : LeavesSale(x, a)
    BY <1>q, NoSaleMoves
  <2>2. x \in Requests /\ pc'[x] \in Settling =>
           pc[job'[x].auth] # "query" \/ op[job'[x].auth].pid \notin SellerPids
    BY <1>q, WorkerUnasked DEF SameJob
  <2>. QED BY <1>t, <1>q, <2>1, <2>2, SaleStepKeeps
<1>e. ASSUME NEW x \in Procs, pc[x] \notin {"idle", "done"},
             UNCHANGED <<op, started>>, \A y \in Procs \ {x} : held'[y] = held[y],
             Finish(x)
      PROVE  SaleInv' /\ SalesKept
  <2>1. OthersStay(x) /\ pc'[x] \in {"idle", "done"}
    BY <1>b, <1>e, FinishContinues DEF Continues
  <2>. QED BY <1>e, <1>q, <2>1 DEF Settling
<1>c. ASSUME NEW x \in Procs, pc[x] \notin {"idle", "done"},
             UNCHANGED <<op, started>>, \A y \in Procs \ {x} : held'[y] = held[y],
             NEW label, Goto(x, label), label \notin {"sync", "query"},
             label \in Settling => x \in Requests /\ pc[x] \in Settling \cup Fresh
      PROVE  SaleInv' /\ SalesKept
  <2>1. OthersStay(x) /\ pc'[x] = label /\ SameJob(x)
    BY <1>b, <1>c, GotoContinues DEF Continues, SameJob
  <2>. QED BY <1>c, <1>q, <2>1
<1>r. ASSUME NEW x \in Procs, pc[x] \notin {"idle", "done"},
             UNCHANGED <<op, started>>, \A y \in Procs \ {x} : held'[y] = held[y],
             NEW outcome, Report(x, "finalize", outcome)
      PROVE  SaleInv' /\ SalesKept
  <2>1. OthersStay(x) /\ pc'[x] = "finalize"
    BY <1>b, <1>r, ReportContinues DEF Continues
  <2>. QED BY <1>r, <1>q, <2>1 DEF Settling
<1>1. ASSUME NEW r \in Requests, NEW p \in Pids, NEW a \in Auths, Reserve(r, p, a)
      PROVE  SaleInv' /\ SalesKept
  <2>1. OthersStay(r) /\ pc'[r] \in {"select", "peek", "done"} /\ UNCHANGED <<op, started>>
    BY <1>1, <1>b DEF Reserve, Finish, OthersStay, object, history
  <2>. QED BY <1>b, <1>q, <2>1 DEF Settling
<1>2. ASSUME NEW r \in Requests, SelectFacilitator(r) \/ Peek(r) \/ Release(r)
      PROVE  SaleInv' /\ SalesKept
  BY <1>2, <1>b, <1>c, <1>e
  DEF SelectFacilitator, Peek, AwaitPreparation, Release, object, history, Settling
<1>5. ASSUME NEW r \in Requests, Begin(r) PROVE SaleInv' /\ SalesKept
  <2>0. pc[r] = "begin" /\ UNCHANGED <<held, started>> /\ job[r].auth \in Auths
    BY <1>5, <1>b DEF Begin, history, TypeInv, JobOK
  <2>1. CASE UNCHANGED op /\ (Goto(r, "release") \/ Goto(r, "claim") \/ Finish(r))
    BY <1>b, <1>c, <1>e, <2>0, <2>1 DEF Settling
  <2>2. CASE /\ op[job[r].auth].status = "none" /\ Goto(r, "verify")
             /\ op' = [op EXCEPT ![job[r].auth] = NewOperation(job[r].pid)]
    <3>1. PICK a : a = job[r].auth
      OBVIOUS
    <3>2. op'[a].status = "pending" /\ \A b \in Auths : b # a => op'[b] = op[b]
      BY <1>b, <2>0, <2>2, <3>1 DEF NewOperation, NoOperation
    <3>3. a \in Auths /\ op[a].status = "none" /\ pc[a] # "query"
      <4>1. pc[a] = "query" => op[a].reserved
        BY <1>b, <2>0, <3>1 DEF OrderInv, WriteOK, Writing, JobsOK
      <4>2. ~op[a].reserved
        BY <2>0, <2>2, <3>1 DEF SettleInv, RecordsOK, RecordOK
      <4>. QED BY <2>0, <2>2, <3>1, <4>1, <4>2
    <3>4. \A b \in Auths : LeavesSale(r, b)
      BY <3>2, <3>3 DEF LeavesSale, SaleKept, SaleReopens, Claimable, Received
    <3>5. OthersStay(r) /\ pc'[r] = "verify"
      BY <1>b, <2>0, <2>2, GotoContinues DEF Continues
    <3>. QED BY <1>b, <1>t, <2>0, <3>4, <3>5, SaleStepKeeps DEF Settling
  <2>. QED BY <1>5, <2>1, <2>2 DEF Begin
<1>6. ASSUME NEW r \in Requests, Verify(r) PROVE SaleInv' /\ SalesKept
  <2>0. pc[r] = "verify" /\ UNCHANGED started
    BY <1>6 DEF Verify, history
  <2>1. CASE GiveUp(r, "failed")
    BY <1>t, <2>0, <2>1, GiveUpLeavesSale DEF Fresh
  <2>2. CASE /\ Transition(job[r].auth, "verified") /\ UNCHANGED <<pending, held>>
             /\ Goto(r, "key") \/ Finish(r)
    <3>1. \A b \in Auths : LeavesSale(r, b)
      BY <2>0, <2>2, WorkerUnasked, TransitionLeavesSale DEF Fresh
    <3>2. OthersStay(r) /\ pc'[r] \in {"key", "idle", "done"}
      BY <1>b, <2>0, <2>2, GotoContinues, FinishContinues DEF Continues
    <3>. QED BY <1>b, <1>t, <2>0, <3>1, <3>2, SaleStepKeeps DEF Settling
  <2>. QED BY <1>6, <2>1, <2>2 DEF Verify
<1>7. ASSUME NEW r \in Requests, ReserveKey(r) PROVE SaleInv' /\ SalesKept
  <2>0. pc[r] = "key" /\ UNCHANGED started
    BY <1>7 DEF ReserveKey, history
  <2>1. CASE GiveUp(r, "failed")
    BY <1>t, <2>0, <2>1, GiveUpLeavesSale DEF Fresh
  <2>2. CASE Goto(r, "book") /\ UNCHANGED object
    BY <1>b, <1>c, <2>0, <2>2 DEF object, Settling
  <2>. QED BY <1>7, <2>1, <2>2 DEF ReserveKey
<1>8. ASSUME NEW r \in Requests, Book(r) PROVE SaleInv' /\ SalesKept
  <2>0. pc[r] = "book" /\ UNCHANGED <<held, started>>
    BY <1>8 DEF Book, history
  <2>a. /\ job[r].auth \in Auths
        /\ pc[job[r].auth] # "query" \/ op[job[r].auth].pid \notin SellerPids
    BY <2>0, WorkerUnasked DEF Fresh
  <2>1. CASE UNCHANGED op /\ Finish(r)
    BY <1>b, <1>e, <2>0, <2>1
  <2>2. ASSUME NEW a, a = job[r].auth, NEW life, Goto(r, "submit") \/ Finish(r),
               op[a].status = "verified", NEW rec,
               rec = [op[a] EXCEPT !.reserved = TRUE, !.life = life],
               op' = [op EXCEPT ![a] = rec]
        PROVE  SaleInv' /\ SalesKept
    <3>0. a \in Auths /\ op[a] \in Operation
      BY <1>b, <2>a, <2>2
    <3>1. rec.status = "verified" /\ rec.pid = op[a].pid /\ op'[a] = rec
      <4>1. rec.status = op[a].status /\ rec.pid = op[a].pid
        BY <2>2, <3>0 DEF Operation
      <4>2. op'[a] = rec
        BY <1>b, <2>2, <3>0
      <4>. QED BY <2>2, <4>1, <4>2
    <3>2. SaleKept(a)
      BY <3>1 DEF SaleKept, SaleReopens, Claimable
    <3>3. \A b \in Auths : LeavesSale(r, b)
      BY <2>a, <2>2, <3>1, <3>2, OneSaleMoves DEF Received
    <3>4. /\ OthersStay(r) /\ pc'[r] \in {"submit", "idle", "done"}
          /\ pc'[r] = "submit" => job' = job
      BY <1>b, <2>0, <2>2, GotoContinues, FinishContinues DEF Continues
    <3>. QED BY <1>b, <1>t, <2>0, <2>a, <3>3, <3>4, SaleStepKeeps DEF Settling
  <2>. QED BY <1>8, <2>1, <2>2 DEF Book
<1>9. ASSUME NEW r \in Requests, Submit(r) PROVE SaleInv' /\ SalesKept
  BY <1>9, <1>b, <1>c DEF Submit, object, Settling
<1>10. ASSUME NEW r \in Requests, Reply(r) PROVE SaleInv' /\ SalesKept
  <2>0. pc[r] = "reply" /\ UNCHANGED started
    BY <1>10 DEF Reply, history
  <2>1. ASSUME NEW outcome \in {"failed", "ambiguous"}, GiveUp(r, outcome)
        PROVE  SaleInv' /\ SalesKept
    BY <1>t, <2>0, <2>1, GiveUpLeavesSale DEF Settling
  <2>2. ASSUME NEW label \in {"evidence", "commit"}, Goto(r, label), UNCHANGED object
        PROVE  SaleInv' /\ SalesKept
    BY <1>b, <1>c, <2>0, <2>2 DEF object, Settling
  <2>. QED BY <1>10, <2>1, <2>2 DEF Reply, Unclear
<1>11. ASSUME NEW r \in Requests, CheckEvidence(r) PROVE SaleInv' /\ SalesKept
  <2>0. pc[r] = "evidence" /\ UNCHANGED started
    BY <1>11 DEF CheckEvidence, history
  <2>1. CASE GiveUp(r, "ambiguous")
    BY <1>t, <2>0, <2>1, GiveUpLeavesSale DEF Settling
  <2>2. CASE Goto(r, "commit") /\ UNCHANGED object
    BY <1>b, <1>c, <2>0, <2>2 DEF object, Settling
  <2>. QED BY <1>11, <2>1, <2>2 DEF CheckEvidence
<1>12. ASSUME NEW r \in Requests, Commit(r) PROVE SaleInv' /\ SalesKept
  <2>0. /\ pc[r] = "commit" /\ Transition(job[r].auth, "settled") /\ UNCHANGED started
        /\ job[r].auth \in Auths
    BY <1>12, <1>b DEF Commit, history, TypeInv, JobOK
  <2>1. \A b \in Auths : LeavesSale(r, b)
    BY <2>0, WorkerUnasked, TransitionLeavesSale DEF Settling
  <2>2. CASE Finish(r) /\ UNCHANGED <<pending, held>>
    <3>1. OthersStay(r) /\ pc'[r] \in {"idle", "done"}
      BY <1>b, <2>0, <2>2, FinishContinues DEF Continues
    <3>. QED BY <1>b, <1>t, <2>0, <2>1, <3>1, SaleStepKeeps DEF Settling
  <2>3. CASE /\ Accepts(op[job[r].auth], "settled")
             /\ Stored(r, Patched(op[job[r].auth], "settled"), "settled")
    <3>1. PICK rec : rec = Patched(op[job[r].auth], "settled")
      OBVIOUS
    <3>2. rec.status = "settled" /\ rec.pid = job[r].pid /\ op'[job[r].auth] = rec
      <4>1. op[job[r].auth].pid = job[r].pid
        BY <1>b, <2>0 DEF OrderInv, BoundOK, Unbound
      <4>2. op'[job[r].auth] = rec
        BY <1>b, <2>0, <2>3, <3>1 DEF Transition
      <4>. QED BY <1>b, <2>0, <3>1, <4>1, <4>2, PatchedFields DEF Statuses
    <3>3. /\ OthersStay(r) /\ SameJob(r) /\ pc'[r] \in {"sync", "finalize"}
          /\ pc'[r] = "sync" => job'[r].pid \in SellerPids
      BY <1>b, <2>0, <2>3, <3>1, <3>2, StoredSale
    <3>4. op'[job'[r].auth].status \in Received
      BY <3>2, <3>3 DEF SameJob, Received
    <3>. QED BY <1>b, <1>t, <2>0, <2>1, <3>3, <3>4, SaleStepKeeps DEF Settling
  <2>. QED BY <1>12, <2>2, <2>3 DEF Commit

<1>13. ASSUME NEW x \in Procs, Sync(x) PROVE SaleInv' /\ SalesKept
  <2>0. /\ pc[x] = "sync" /\ job[x].auth \in Auths /\ UNCHANGED started
        /\ held[x].status \in Received /\ held[x].pid = job[x].pid
        /\ held' = [held EXCEPT ![x] = NoOperation]
    BY <1>13 DEF Sync, history, Writing, TypeInv, JobOK, OrderInv, WriteOK, MayWrite
  <2>1. op[job[x].auth].pid = job[x].pid
    BY <2>0 DEF OrderInv, BoundOK, Unbound
  <2>2. \A y \in Procs \ {x} : held'[y] = held[y]
    BY <1>b, <2>0
  <2>3. \/ Finish(x)
        \/ \E label \in {"claim", "finalize"} : Goto(x, label)
    BY <1>13 DEF Sync
  <2>4. CASE UNCHANGED op
    BY <1>c, <1>e, <2>0, <2>2, <2>3, <2>4 DEF Settling
  <2>5. CASE op' = [op EXCEPT ![job[x].auth] = held[x]]
    <3>1. PICK a : a = job[x].auth
      OBVIOUS
    <3>2. WritesBack(x, a)
      BY <1>b, <2>0, <2>5, <3>1 DEF WritesBack
    \* The alarm that asks the chain is not beside a sale that was received.
    <3>3. pc[a] # "query" \/ a = x \/ op[a].pid \notin SellerPids
      <4>1. CASE x \in Requests
        BY <2>0, <3>1, <4>1 DEF SaleInv, SyncedOK, AskedOK, AskedAt, Received
      <4>2. CASE x \in Auths
        BY <2>0, <3>1, <4>2 DEF OrderInv, JobsOK
      <4>. QED BY <4>1, <4>2 DEF Procs
    <3>4. \A b \in Auths : LeavesSale(x, b)
      BY <2>0, <2>1, <2>5, <3>1, <3>2, <3>3, OneSaleMoves DEF Received, SaleKept
    <3>5. OthersStay(x) /\ pc'[x] \in {"claim", "finalize", "idle", "done"}
      BY <2>0, <2>2, <2>3, GotoContinues, FinishContinues DEF Continues
    <3>. QED BY <1>t, <2>0, <3>4, <3>5, SaleStepKeeps DEF Settling
  <2>. QED BY <1>13, <2>4, <2>5 DEF Sync
<1>14. ASSUME NEW x \in Procs, Finalize(x) PROVE SaleInv' /\ SalesKept
  <2>0. pc[x] = "finalize" /\ UNCHANGED <<op, started>>
    BY <1>14 DEF Finalize, history
  <2>1. \A y \in Procs \ {x} : held'[y] = held[y]
    BY <1>14, <1>b DEF Finalize
  <2>2. Finish(x) \/ Goto(x, "claim") \/ Goto(x, "outbox")
    BY <1>14 DEF Finalize
  <2>. QED BY <1>c, <1>e, <2>0, <2>1, <2>2 DEF Settling
\* From here on a process works on a payment that was received.
<1>f. ASSUME NEW x \in Procs, pc[x] \notin {"idle", "done"}, NEW a \in Auths, a = job[x].auth,
             op[a].status \in Received, NEW rec, rec.status \in Received,
             rec.pid = op[a].pid, op' = [op EXCEPT ![a] = rec],
             op[a].pid \in SellerPids => ~Claimable(rec),
             \A b \in Auths : started'[b] = started[b] \/ b = a, OthersStay(x),
             pc'[x] \in {"execute", "sync", "finalize"},
             pc'[x] = "sync" => job'[x].pid \in SellerPids /\ job'[x].auth = a
      PROVE  SaleInv' /\ SalesKept
  <2>1. op'[a] = rec
    BY <1>b, <1>f
  <2>2. op[a].pid \in SellerPids => pc[a] # "query"
    BY <1>f DEF SaleInv, AskedOK, AskedAt, Received
  <2>3. op[a].pid \in SellerPids => SaleKept(a)
    BY <1>f, <2>1 DEF SaleKept, SaleReopens
  <2>4. \A b \in Auths : LeavesSale(x, b)
    BY <1>f, <2>2, <2>3, OneSaleMoves DEF Received
  <2>. QED BY <1>t, <1>f, <2>1, <2>4, SaleStepKeeps DEF Settling
<1>15. ASSUME NEW x \in Procs, Claim(x) PROVE SaleInv' /\ SalesKept
  <2>0. pc[x] = "claim" /\ job[x].auth \in Auths /\ UNCHANGED held
    BY <1>15 DEF Claim, TypeInv, JobOK
  <2>1. CASE UNCHANGED <<op, started>> /\ Finish(x)
    BY <1>e, <2>0, <2>1
  <2>2. ASSUME NEW a, a = job[x].auth, Claimable(op[a]), NEW token, token = started[a] + 1,
               NEW rec, rec = [op[a] EXCEPT !.claim = token, !.life = "EXECUTION_STARTED"],
               op' = [op EXCEPT ![a] = rec], started' = [started EXCEPT ![a] = token]
        PROVE  SaleInv' /\ SalesKept
    <3>1. a \in Auths /\ op[a] \in Operation /\ started[a] \in Nat
      BY <1>b, <2>0, <2>2
    <3>2. op[a].status \in Received
      BY <2>2 DEF Claimable, Received
    <3>3. /\ rec.status = op[a].status /\ rec.pid = op[a].pid
          /\ rec.claim = token /\ token # 0
      BY <2>2, <3>1 DEF Operation
    <3>4. ~Claimable(rec)
      BY <3>3 DEF Claimable
    <3>5. OthersStay(x) /\ pc'[x] = "execute"
      BY <1>15, <2>2, TokenTaken
    <3>6. \A b \in Auths : started'[b] = started[b] \/ b = a
      BY <1>b, <2>2, <3>1
    <3>. QED BY <1>f, <2>0, <2>2, <3>1, <3>2, <3>3, <3>4, <3>5, <3>6
  <2>3. \/ UNCHANGED <<op, started>> /\ Finish(x)
        \/ /\ Claimable(op[job[x].auth])
           /\ op' = [op EXCEPT ![job[x].auth] =
                        [@ EXCEPT !.claim = started[job[x].auth] + 1,
                                  !.life = "EXECUTION_STARTED"]]
           /\ started' = [started EXCEPT ![job[x].auth] = started[job[x].auth] + 1]
    BY <1>15, <1>b, <2>0 DEF Claim
  <2>. QED BY <2>1, <2>2, <2>3
<1>16. ASSUME NEW x \in Procs, Execute(x) PROVE SaleInv' /\ SalesKept
  <2>0. pc[x] = "execute" /\ job[x].auth \in Auths /\ UNCHANGED started
    BY <1>16 DEF Execute, history, TypeInv, JobOK
  <2>1. CASE UNCHANGED object /\ (Goto(x, "complete") \/ Goto(x, "credit"))
    BY <1>c, <2>0, <2>1 DEF object, Settling
  <2>2. CASE UNCHANGED object /\ Report(x, "finalize", "credited")
    BY <1>r, <2>0, <2>2 DEF object
  \* A delivery that failed keeps the claim: it is credited only after it acted.
  <2>3. ASSUME NEW a, a = job[x].auth, Accepts(op[a], "credited"),
               NEW rec, rec = HoldForReview(op[a]),
               op' = [op EXCEPT ![a] = rec], Stored(x, rec, "credited")
        PROVE  SaleInv' /\ SalesKept
    <3>1. a \in Auths /\ op[a].pid = job[x].pid
      BY <2>0, <2>3 DEF OrderInv, BoundOK, Unbound
    <3>2. rec.status = "credited" /\ rec.pid = op[a].pid
      BY <1>b, <2>3, <3>1, PatchedFields DEF HoldForReview, Statuses
    <3>3. op[a].status \in Received
      BY <1>b, <2>3, <3>1, AcceptedFrom DEF Statuses, Received
    <3>4. op[a].pid \in SellerPids => ~Claimable(rec)
      <4>1. Shape(rec)
        BY <1>b, <1>t, <2>3, <3>1 DEF OrderInv, ShapesOK
      <4>. QED BY <3>2, <4>1 DEF Shape, Claimable
    <3>5. /\ OthersStay(x) /\ SameJob(x) /\ pc'[x] \in {"sync", "finalize"}
          /\ pc'[x] = "sync" => job'[x].pid \in SellerPids
      BY <2>0, <2>3, <3>1, <3>2, StoredSale
    <3>6. /\ rec.status \in Received /\ pc[x] \notin {"idle", "done"}
          /\ \A b \in Auths : started'[b] = started[b] \/ b = a
          /\ pc'[x] \in {"execute", "sync", "finalize"}
          /\ pc'[x] = "sync" => job'[x].pid \in SellerPids /\ job'[x].auth = a
      BY <2>0, <2>3, <3>2, <3>5 DEF Received, SameJob
    <3>. QED BY <1>f, <2>3, <3>1, <3>2, <3>3, <3>4, <3>5, <3>6
  <2>. QED BY <1>16, <2>1, <2>2, <2>3 DEF Execute
<1>17. ASSUME NEW x \in Procs, RecordCredit(x) PROVE SaleInv' /\ SalesKept
  <2>0. /\ pc[x] = "credit" /\ job[x].auth \in Auths /\ UNCHANGED <<held, started>>
        /\ Report(x, "finalize", "credited")
    BY <1>17 DEF RecordCredit, history, TypeInv, JobOK
  <2>1. CASE UNCHANGED op
    BY <1>r, <2>0, <2>1
  <2>2. ASSUME NEW a, a = job[x].auth, Accepts(op[a], "credited"), NEW rec,
               rec = [Patched(op[a], "credited") EXCEPT !.claim = 0, !.credit = job[x].token],
               op' = [op EXCEPT ![a] = rec]
        PROVE  SaleInv' /\ SalesKept
    <3>1. PICK q : q = Patched(op[a], "credited")
      OBVIOUS
    <3>2. q \in Operation /\ q.status = "credited" /\ q.pid = op[a].pid
      BY <1>b, <2>0, <2>2, <3>1, PatchedType, PatchedFields DEF Statuses
    <3>3. rec.status = "credited" /\ rec.pid = op[a].pid
      BY <2>2, <3>1, <3>2 DEF Operation
    <3>4. op[a].status \in Received
      BY <1>b, <2>0, <2>2, AcceptedFrom DEF Statuses, Received
    <3>5. op[a].pid \notin SellerPids
      BY <2>0, <2>2 DEF OrderInv, BoundOK, RefundsOK, Unbound
    <3>6. OthersStay(x) /\ pc'[x] = "finalize"
      BY <2>0, ReportContinues DEF Continues
    <3>7. /\ rec.status \in Received /\ pc[x] \notin {"idle", "done"}
          /\ \A b \in Auths : started'[b] = started[b] \/ b = a
          /\ OthersStay(x) /\ a \in Auths
      BY <2>0, <2>2, <3>3, <3>6 DEF Received, Continues
    <3>. QED BY <1>f, <2>2, <3>3, <3>4, <3>5, <3>6, <3>7
  <2>3. \/ UNCHANGED op
        \/ /\ Accepts(op[job[x].auth], "credited")
           /\ op' = [op EXCEPT ![job[x].auth] =
                        [Patched(op[job[x].auth], "credited")
                           EXCEPT !.claim = 0, !.credit = job[x].token]]
    BY <1>17, <1>b, <2>0 DEF RecordCredit
  <2>. QED BY <2>1, <2>2, <2>3
<1>18. ASSUME NEW x \in Procs, Complete(x) PROVE SaleInv' /\ SalesKept
  <2>0. pc[x] = "complete" /\ job[x].auth \in Auths /\ UNCHANGED started
    BY <1>18 DEF Complete, TypeInv, JobOK
  <2>1. CASE UNCHANGED <<op, held>> /\ (Report(x, "finalize", "succeeded") \/ Finish(x))
    BY <1>e, <1>r, <2>0, <2>1
  <2>2. ASSUME NEW a, a = job[x].auth, Accepts(op[a], "succeeded"), NEW rec,
               rec = [Patched(op[a], "succeeded") EXCEPT !.claim = 0],
               op' = [op EXCEPT ![a] = rec], Stored(x, rec, "succeeded")
        PROVE  SaleInv' /\ SalesKept
    <3>1. PICK q : q = Patched(op[a], "succeeded")
      OBVIOUS
    <3>2. q \in Operation /\ q.status = "succeeded" /\ q.pid = op[a].pid
      BY <1>b, <2>0, <2>2, <3>1, PatchedType, PatchedFields DEF Statuses
    <3>3. rec.status = "succeeded" /\ rec.pid = op[a].pid
      BY <2>2, <3>1, <3>2 DEF Operation
    <3>4. op[a].status \in Received
      BY <1>b, <2>0, <2>2, AcceptedFrom DEF Statuses, Received
    <3>5. op[a].pid = job[x].pid
      BY <2>0, <2>2 DEF OrderInv, BoundOK, Unbound
    <3>6. /\ OthersStay(x) /\ SameJob(x) /\ pc'[x] \in {"sync", "finalize"}
          /\ pc'[x] = "sync" => job'[x].pid \in SellerPids
      BY <2>0, <2>2, <3>3, <3>5, StoredSale
    <3>7. /\ rec.status \in Received /\ pc[x] \notin {"idle", "done"}
          /\ \A b \in Auths : started'[b] = started[b] \/ b = a
          /\ pc'[x] \in {"execute", "sync", "finalize"} /\ a \in Auths
          /\ pc'[x] = "sync" => job'[x].pid \in SellerPids /\ job'[x].auth = a
          /\ ~Claimable(rec)
      BY <2>0, <2>2, <3>3, <3>6 DEF Received, SameJob, Claimable
    <3>. QED BY <1>f, <2>2, <3>3, <3>4, <3>6, <3>7
  <2>. QED BY <1>18, <2>1, <2>2 DEF Complete
<1>19. ASSUME NEW a \in Auths, FireAlarm(a) PROVE SaleInv' /\ SalesKept
  <2>0. /\ pc[a] = "idle" /\ a \in Procs /\ a \notin Requests
        /\ UNCHANGED started /\ WorkerOverdue(a)
    BY <1>19, <1>b DEF FireAlarm, history
  <2>1. op[a] \in Operation /\ Shape(op[a]) /\ RecordOK(op[a])
    BY <1>b DEF OrderInv, ShapesOK, SettleInv, RecordsOK
  <2>s. PICK seen : seen = Seen(a)
    OBVIOUS
  <2>2. /\ seen \in Operation /\ Shape(seen) /\ seen.pid = op[a].pid
        /\ \/ seen = op[a] /\ op[a].life # "SETTLEMENT_PENDING"
           \/ seen.status = "ambiguous" /\ op[a].status = "verified"
    BY <2>1, <2>s, SeenShape, SeenType DEF RecordInv, TypeInv, TypeOK
  <2>3. CASE Owing(a, Seen(a)) /\ UNCHANGED op
    <3>1. /\ held' = [held EXCEPT ![a] = op[a]]
          /\ pc' = [pc EXCEPT ![a] = "sync"]
          /\ job' = [job EXCEPT ![a] = [@ EXCEPT !.pid = op[a].pid, !.auth = a]]
      BY <1>19, <2>3 DEF FireAlarm, StartReconciling
    <3>2. OthersStay(a) /\ pc'[a] = "sync"
      BY <1>b, <2>0, <3>1 DEF OthersStay
    <3>3. \A b \in Auths : LeavesSale(a, b)
      BY <2>3, NoSaleMoves
    <3>. QED BY <1>t, <2>0, <3>2, <3>3, SaleStepKeeps DEF Settling
  <2>4. CASE StartReconciling(a, Seen(a))
    <3>1. PICK next : next = IF seen.attempts >= MaxAttempts THEN [seen EXCEPT !.dead = TRUE]
                                                             ELSE CountedAttempt(seen)
      OBVIOUS
    <3>2. /\ op' = [op EXCEPT ![a] = next] /\ held' = [held EXCEPT ![a] = next]
          /\ \E label \in {"finalize", "query"} : pc' = [pc EXCEPT ![a] = label]
          /\ job' = [job EXCEPT ![a] = [pid |-> seen.pid, auth |-> a,
                                        outcome |-> "ambiguous", token |-> 0]]
          /\ seen.status = "ambiguous"
      BY <2>4, <2>s, <3>1 DEF StartReconciling
    <3>3. op[a].status \in {"ambiguous", "verified"}
      BY <2>2, <3>2
    <3>4. next.status = "ambiguous" /\ next.pid = op[a].pid
      BY <2>2, <3>1, <3>2 DEF Operation, CountedAttempt
    <3>5. /\ OthersStay(a) /\ pc'[a] \in {"finalize", "query"} /\ op'[a] = next
          /\ \A r \in Requests : pc'[r] = pc[r] /\ job'[r] = job[r]
      BY <1>b, <2>0, <3>2 DEF OthersStay
    \* A sale is not slow: its worker was not settling when the alarm was due.
    <3>6. AskedAt(a)'
      <4> SUFFICES ASSUME op[a].pid \in SellerPids, NEW r \in Requests,
                          pc[r] \in Settling, job[r].auth = a
                   PROVE  FALSE
        BY <3>4, <3>5 DEF AskedAt
      <4>1. op[a].pid = job[r].pid
        BY <1>b DEF OrderInv, BoundOK, Unbound, Settling
      <4>. QED BY <2>0, <4>1, PidAssumption, SellerAssumption DEF WorkerOverdue
    <3>7. SaleKept(a)
      BY <3>4, <3>5 DEF SaleKept, SaleReopens, Claimable
    <3>8. \A b \in Auths : LeavesSale(a, b)
      BY <3>2, <3>3, <3>4, <3>7, OneSaleMoves DEF Received
    <3>. QED BY <1>t, <2>0, <3>5, <3>6, <3>8, SaleStepKeeps DEF Settling
  <2>5. CASE /\ Seen(a).status # "ambiguous" \/ ~Seen(a).payload
             /\ op' = [op EXCEPT ![a] = Seen(a)] /\ UNCHANGED <<held, pc, job>>
    <3>1. seen.status # "ambiguous"
      BY <2>2, <2>5, <2>s DEF Shape, Open
    <3>2. op' = op
      BY <1>b, <2>2, <2>5, <2>s, <3>1
    <3>3. OthersStay(a) /\ pc'[a] = "idle"
      BY <2>0, <2>5 DEF OthersStay
    <3>. QED BY <1>q, <2>0, <3>2, <3>3 DEF Settling
  <2>. QED BY <1>19, <2>3, <2>4, <2>5 DEF FireAlarm
<1>20. ASSUME NEW a \in Auths, Query(a) PROVE SaleInv' /\ SalesKept
  <2>0. /\ a \in Procs /\ pc[a] = "query" /\ UNCHANGED started /\ held[a] \in Operation
        /\ held[a].pid = op[a].pid /\ AskedAt(a) /\ held[a].status # "none"
    <3>1. /\ a \in Procs /\ pc[a] = "query" /\ UNCHANGED started /\ held[a] \in Operation
          /\ AskedAt(a) /\ job[a].auth = a
      BY <1>20, <1>b DEF Query, history, SaleInv, AskedOK, OrderInv, JobsOK
    <3>2. MayWrite(a) /\ op[a].pid = job[a].pid
      BY <3>1 DEF OrderInv, WriteOK, Writing, BoundOK, Unbound
    <3>. QED BY <3>1, <3>2 DEF MayWrite, Received
  <2>1. ASSUME NEW rec, NEW outcome, op' = [op EXCEPT ![a] = rec],
               held' = [held EXCEPT ![a] = rec], Report(a, "finalize", outcome),
               rec.pid = op[a].pid, rec.status # "none"
        PROVE  SaleInv' /\ SalesKept
    \* Nobody has started the sale whose outcome is still asked for.
    <3>1. op[a].pid \in SellerPids => started[a] = 0 /\ op[a].status \notin Received
      BY <1>b, <2>0 DEF AskedAt, SaleInv, SoldOK, Received
    <3>2. op[a].pid \in SellerPids => SaleKept(a)
      BY <3>1 DEF SaleKept, SaleReopens
    <3>3. \A b \in Auths : LeavesSale(a, b)
      BY <2>1, <3>1, <3>2, OneSaleMoves
    <3>4. OthersStay(a) /\ pc'[a] = "finalize"
      <4>1. \A y \in Procs \ {a} : held'[y] = held[y]
        BY <1>b, <2>0, <2>1
      <4>. QED BY <2>0, <2>1, <4>1, ReportContinues DEF Continues
    <3>. QED BY <1>b, <1>t, <2>0, <3>3, <3>4, SaleStepKeeps DEF Settling
  <2>2. Patched(held[a], "settled").status = "settled" /\ Patched(held[a], "settled").pid = op[a].pid
    BY <2>0, PatchedFields DEF Statuses
  <2>3. /\ [held[a] EXCEPT !.dead = held[a].attempts >= MaxAttempts].pid = op[a].pid
        /\ [held[a] EXCEPT !.dead = held[a].attempts >= MaxAttempts].status # "none"
    BY <2>0 DEF Operation
  <2>. QED BY <1>20, <2>1, <2>2, <2>3 DEF Query
<1>21. ASSUME NEW a \in Auths, Outbox(a) PROVE SaleInv' /\ SalesKept
  <2>0. /\ a \in Procs /\ pc[a] = "outbox" /\ UNCHANGED <<held, started>>
        /\ op' = [op EXCEPT ![a] = held[a]] /\ job[a].auth = a
    BY <1>21, <1>b DEF Outbox, history, OrderInv, JobsOK
  <2>1. held[a].status \in Received /\ held[a].pid = op[a].pid
    BY <2>0 DEF Writing, OrderInv, WriteOK, MayWrite, BoundOK, Unbound
  <2>2. SaleKept(a)
    BY <1>b, <2>0 DEF SaleKept, WritesBack
  <2>3. \A b \in Auths : LeavesSale(a, b)
    BY <2>0, <2>1, <2>2, OneSaleMoves DEF Received
  <2>4. OthersStay(a) /\ pc'[a] = "sync"
    BY <1>21, <2>0, GotoContinues DEF Outbox, Continues
  <2>. QED BY <1>b, <1>t, <2>0, <2>3, <2>4, SaleStepKeeps DEF Settling
<1>22. ASSUME NEW a \in Auths, ChainDecides(a) PROVE SaleInv' /\ SalesKept
  BY <1>22 DEF ChainDecides, object, history, SaleInv, SoldOK, AskedOK, AskedAt, SyncedOK,
               SalesKept, SaleKept, SaleReopens
<1>23. ASSUME NEW r \in Requests, CrashRequest(r) PROVE SaleInv' /\ SalesKept
  <2>1. pc[r] \notin {"idle", "done"} /\ \A y \in Procs \ {r} : held'[y] = held[y]
    BY <1>23, <1>b DEF CrashRequest
  <2>. QED BY <1>23, <1>b, <1>e, <2>1 DEF CrashRequest, history
<1>24. ASSUME NEW a \in Auths, CrashAlarm(a) PROVE SaleInv' /\ SalesKept
  <2>1. UNCHANGED <<op, started>> /\ \A y \in Procs \ {a} : held'[y] = held[y]
    BY <1>24, <1>b DEF CrashAlarm, history
  <2>2. OthersStay(a) /\ pc'[a] = "idle"
    BY <1>24, <1>b, <2>1 DEF CrashAlarm, Finish, OthersStay
  <2>. QED BY <1>b, <1>q, <2>1, <2>2 DEF Settling
<1>25. CASE UNCHANGED vars
  BY <1>25 DEF vars, SaleInv, SoldOK, AskedOK, AskedAt, SyncedOK, SalesKept, SaleKept, SaleReopens
<1>. QED
  BY <1>1, <1>2, <1>5, <1>6, <1>7, <1>8, <1>9, <1>10, <1>11, <1>12, <1>13,
     <1>14, <1>15, <1>16, <1>17, <1>18, <1>19, <1>20, <1>21, <1>22, <1>23, <1>24, <1>25
  DEF Next, RequestStep, ExecutionStep, AlarmStep

\* For any number of buyers, replays, alarms and crashes a sale that was started
\* becomes claimable again only where syncSellerCommerce stores the record it
\* held across its call to the seller ledger.
THEOREM SaleNotGivenBack == Spec => OnlyWriteBackReopens
<1>1. Init => SaleInv
  <2> SUFFICES ASSUME Init PROVE SaleInv
    OBVIOUS
  <2>1. /\ \A x \in Procs : pc[x] = "idle"
        /\ \A a \in Auths : started[a] = 0 /\ a \in Procs
        /\ Requests \subseteq Procs
    BY DEF Init, Procs
  <2>. QED BY <2>1 DEF SaleInv, SoldOK, AskedOK, SyncedOK
<1>2. TypeInv /\ SettleInv /\ OrderInv /\ SaleInv /\ [Next]_vars => SaleInv'
  BY SaleStep
<1>3. TypeInv /\ SettleInv /\ OrderInv /\ SaleInv /\ [Next]_vars
         => [\A a \in Auths : SaleReopens(a) => \E x \in Procs : WritesBack(x, a)]_vars
  BY SaleStep DEF SalesKept, SaleKept
<1>. QED BY <1>1, <1>2, <1>3, OrderInvariant, PTL DEF Spec, OnlyWriteBackReopens

-----------------------------------------------------------------------------
(* The refinement of PaymentPromise.  That two authorizations are never booked *)
(* for one identifier follows from the row of the index, which is released     *)
(* only while its operation has not begun.                                     *)

\* A request that has bound an identifier and has not begun its operation.
Early == {"select", "begin", "release"}

RowsOK == \A a \in Auths : op[a].status # "none" => index[op[a].pid].auth = a
EarlyOK == \A r \in Requests : pc[r] \in Early /\ op[job[r].auth].status = "none"
    => index[job[r].pid].auth = job[r].auth
BeginnersOK == \A r, s \in Requests :
    /\ pc[r] \in Early /\ pc[s] \in Early /\ op[job[r].auth].status = "none"
    /\ job[r].auth = job[s].auth /\ job[r].pid = job[s].pid
    => r = s
ReleaseOK == \A r \in Requests : pc[r] \in {"select", "release"} =>
    op[job[r].auth].status = "none" \/ op[job[r].auth].pid # job[r].pid
RowsInv == RowsOK /\ EarlyOK /\ BeginnersOK /\ ReleaseOK

\* What a record may do to the promise, once booked.
Forward(s, t) ==
    \/ t = s
    \/ s \in {"verified", "ambiguous"} /\ t \in {"ambiguous", "failed", "settled"}
    \/ s = "settled" /\ t \in {"credited", "succeeded"}
    \/ s = "credited" /\ t = "succeeded"
Advances(a) ==
    /\ op'[a].pid = op[a].pid /\ op'[a].reserved = op[a].reserved
    /\ op[a].status = "none" <=> op'[a].status = "none"
    /\ op[a].reserved => Forward(op[a].status, op'[a].status)
    /\ \A b \in Auths : b # a => op'[b] = op[b]
RecordsAdvance == op' = op \/ \E a \in Auths : Advances(a)

RowsStay == \A p \in Pids : index'[p].auth = index[p].auth
EarlyStays(x) == x \in Requests /\ pc'[x] \in Early =>
    /\ SameJob(x) /\ (pc[x] \in Early \/ op[job[x].auth].status # "none")
    /\ pc'[x] # "begin" => op[job[x].auth].status = "none" \/ op[job[x].auth].pid # job[x].pid

OneBooked == \A a, b \in Auths :
    op[a].reserved /\ op[b].reserved /\ op[a].pid = op[b].pid => a = b

LEMMA RowsUnique ==
    ASSUME OrderInv, RowsInv
    PROVE  OneBooked
<1> SUFFICES ASSUME NEW a \in Auths, NEW b \in Auths,
                    op[a].reserved, op[b].reserved, op[a].pid = op[b].pid
             PROVE  a = b
  BY DEF OneBooked
<1>1. op[a].status # "none" /\ op[b].status # "none"
  BY DEF OrderInv, ShapesOK, Shape
<1>. QED BY <1>1 DEF RowsInv, RowsOK

\* What the mapping says, now and after a step.
LEMMA BookedFor ==
    ASSUME OneBooked
    PROVE  /\ \A a \in Auths : op[a].reserved => BookedAuth(op[a].pid) = a
           /\ \A p : BookedAuth(p) # None =>
                 /\ BookedAuth(p) \in Auths /\ op[BookedAuth(p)].reserved
                 /\ op[BookedAuth(p)].pid = p
<1>1. ASSUME NEW a \in Auths, op[a].reserved PROVE BookedAuth(op[a].pid) = a
  <2>1. Booked(op[a].pid) = {a}
    BY <1>1 DEF OneBooked, Booked
  <2>. QED BY <2>1 DEF BookedAuth
<1>2. ASSUME NEW p, BookedAuth(p) # None
      PROVE  /\ BookedAuth(p) \in Auths /\ op[BookedAuth(p)].reserved
             /\ op[BookedAuth(p)].pid = p
  <2>1. BookedAuth(p) \in Auths /\ Booked(p) = {BookedAuth(p)}
    BY <1>2 DEF BookedAuth
  <2>. QED BY <2>1 DEF Booked
<1>. QED BY <1>1, <1>2

LEMMA BookedForNext ==
    ASSUME OneBooked'
    PROVE  /\ \A a \in Auths : op'[a].reserved => BookedAuth(op[a].pid)' = a
           /\ \A p : BookedAuth(p)' # None =>
                 /\ BookedAuth(p)' \in Auths /\ op'[BookedAuth(p)'].reserved
                 /\ op'[BookedAuth(p)'].pid = p
<1>1. ASSUME NEW a \in Auths, op'[a].reserved PROVE BookedAuth(op[a].pid)' = a
  <2>1. Booked(op[a].pid)' = {a}
    BY <1>1 DEF OneBooked, Booked
  <2>. QED BY <2>1 DEF BookedAuth
<1>2. ASSUME NEW p, BookedAuth(p)' # None
      PROVE  /\ BookedAuth(p)' \in Auths /\ op'[BookedAuth(p)'].reserved
             /\ op'[BookedAuth(p)'].pid = p
  <2>1. BookedAuth(p)' \in Auths /\ Booked(p)' = {BookedAuth(p)'}
    BY <1>2 DEF BookedAuth
  <2>. QED BY <2>1 DEF Booked
<1>. QED BY <1>1, <1>2

PromiseAt(p) ==
    IF BookedAuth(p) = None THEN "open" ELSE PromiseOf(op[BookedAuth(p)].status)

LEMMA PromiseStays ==
    ASSUME \A p \in Pids : BookedAuth(p)' = BookedAuth(p) /\ PromiseAt(p)' = PromiseAt(p)
    PROVE  UNCHANGED Promise!vars
  BY DEF Promise!vars, PromiseAt

LEMMA PromiseMoves ==
    ASSUME NEW p \in Pids, NEW from, NEW to, PromiseAt(p) \in from, PromiseAt(p)' = to,
           \A q \in Pids : BookedAuth(q)' = BookedAuth(q),
           \A q \in Pids : q # p => PromiseAt(q)' = PromiseAt(q)
    PROVE  Promise!Move(p, from, to)
<1>1. PICK now : now = [q \in Pids |-> PromiseAt(q)]
  OBVIOUS
<1>2. [q \in Pids |-> PromiseAt(q)'] = [now EXCEPT ![p] = to]
  BY <1>1
<1>3. [q \in Pids |-> BookedAuth(q)'] = [q \in Pids |-> BookedAuth(q)]
  OBVIOUS
<1>4. now[p] \in from
  BY <1>1
<1>. QED BY <1>1, <1>2, <1>3, <1>4 DEF Promise!Move, PromiseAt

LEMMA PromiseSends ==
    ASSUME NEW p \in Pids, NEW a \in Auths, PromiseAt(p) = "open", PromiseAt(p)' = "sent",
           \A q \in Pids : BookedAuth(q) # a, BookedAuth(p)' = a,
           \A q \in Pids : q # p =>
              BookedAuth(q)' = BookedAuth(q) /\ PromiseAt(q)' = PromiseAt(q)
    PROVE  Promise!Send(p, a)
<1>1. PICK now : now = [q \in Pids |-> PromiseAt(q)]
  OBVIOUS
<1>2. PICK who : who = [q \in Pids |-> BookedAuth(q)]
  OBVIOUS
<1>3. [q \in Pids |-> PromiseAt(q)'] = [now EXCEPT ![p] = "sent"]
  BY <1>1
<1>4. [q \in Pids |-> BookedAuth(q)'] = [who EXCEPT ![p] = a]
  BY <1>2
<1>5. now[p] = "open" /\ \A q \in Pids : who[q] # a
  BY <1>1, <1>2
<1>. QED BY <1>1, <1>2, <1>3, <1>4, <1>5 DEF Promise!Send, PromiseAt

LEMMA ForwardKeeps ==
    ASSUME TypeInv, TypeInv', OrderInv, OneBooked, OneBooked', NEW a \in Auths, Advances(a)
    PROVE  [Promise!Next]_(Promise!vars)
<1>t. /\ None \notin Auths
      /\ op[a].reserved => op[a].pid \in Pids /\ op[a].status \notin {"none", "pending"}
  BY NoneAssumption DEF OrderInv, ShapesOK, Shape
<1>1. \A b \in Auths : /\ op'[b].reserved = op[b].reserved /\ op'[b].pid = op[b].pid
                       /\ b # a => op'[b].status = op[b].status
  BY DEF Advances
<1>2. ASSUME NEW p \in Pids PROVE BookedAuth(p)' = BookedAuth(p)
  <2>1. CASE BookedAuth(p) = None
    <3>1. BookedAuth(p)' # None =>
             BookedAuth(p)' \in Auths /\ op[BookedAuth(p)'].reserved /\ op[BookedAuth(p)'].pid = p
      BY <1>1, BookedForNext
    <3>. QED BY <1>t, <2>1, <3>1, BookedFor
  <2>2. CASE BookedAuth(p) # None
    <3>1. PICK b : b = BookedAuth(p)
      OBVIOUS
    <3>2. b \in Auths /\ op[b].reserved /\ op[b].pid = p
      BY <2>2, <3>1, BookedFor
    <3>3. op'[b].reserved /\ op'[b].pid = p
      BY <1>1, <3>2
    <3>. QED BY <3>1, <3>2, <3>3, BookedForNext
  <2>. QED BY <2>1, <2>2
\* The identifiers that the operation was not booked for stand where they were.
<1>3. ASSUME NEW p \in Pids, BookedAuth(p) # a PROVE PromiseAt(p)' = PromiseAt(p)
  <2>1. BookedAuth(p) # None => op'[BookedAuth(p)].status = op[BookedAuth(p)].status
    BY <1>1, <1>3, BookedFor
  <2>. QED BY <1>2, <2>1 DEF PromiseAt
<1>4. CASE ~op[a].reserved
  <2>1. \A p \in Pids : BookedAuth(p) # a
    BY <1>t, <1>4, BookedFor
  <2>. QED BY <1>2, <1>3, <2>1, PromiseStays
<1>5. CASE op[a].reserved
  <2>1. PICK p \in Pids : p = op[a].pid
    BY <1>t, <1>5
  <2>2. BookedAuth(p) = a /\ \A q \in Pids : q # p => BookedAuth(q) # a
    BY <1>t, <1>5, <2>1, BookedFor
  <2>3. PICK s, t : s = op[a].status /\ t = op'[a].status
    OBVIOUS
  <2>4. PromiseAt(p) = PromiseOf(s) /\ PromiseAt(p)' = PromiseOf(t)
    BY <1>t, <1>2, <2>2, <2>3 DEF PromiseAt
  <2>5. \A q \in Pids : q # p => PromiseAt(q)' = PromiseAt(q)
    BY <1>3, <2>2
  <2>6. Forward(s, t) /\ s \notin {"none", "pending"}
    BY <1>t, <1>5, <2>3 DEF Advances
  <2>7. CASE PromiseOf(s) = PromiseOf(t)
    BY <1>2, <2>4, <2>5, <2>7, PromiseStays
  <2>8. CASE s \in {"verified", "ambiguous"} /\ t = "failed"
    BY <1>2, <2>4, <2>5, <2>8, PromiseMoves DEF PromiseOf, Promise!Next, Promise!Void
  <2>9. CASE s \in {"verified", "ambiguous"} /\ t = "settled"
    BY <1>2, <2>4, <2>5, <2>9, PromiseMoves DEF PromiseOf, Promise!Next, Promise!Pay
  <2>10. CASE s = "settled" /\ t = "credited"
    BY <1>2, <2>4, <2>5, <2>10, PromiseMoves DEF PromiseOf, Promise!Next, Promise!Owe
  <2>11. CASE s \in {"settled", "credited"} /\ t = "succeeded"
    BY <1>2, <2>4, <2>5, <2>11, PromiseMoves DEF PromiseOf, Promise!Next, Promise!Deliver
  <2>12. CASE s \in {"verified", "ambiguous"} /\ t = "ambiguous"
    BY <2>7, <2>12 DEF PromiseOf
  <2>. QED BY <2>6, <2>7, <2>8, <2>9, <2>10, <2>11, <2>12 DEF Forward
<1>. QED BY <1>4, <1>5

\* The booking sends the payment of an identifier that stood open.
LEMMA BookingSends ==
    ASSUME TypeInv, TypeInv', OrderInv, OneBooked, OneBooked', NEW a \in Auths,
           ~op[a].reserved, op'[a].reserved, op'[a].pid = op[a].pid,
           op[a].status = "verified", op'[a].status = "verified",
           \A b \in Auths : b # a => op'[b] = op[b]
    PROVE  Promise!Next
<1>1. PICK p \in Pids : p = op[a].pid
  BY DEF OrderInv, ShapesOK, Shape
<1>2. None \notin Auths
  BY NoneAssumption
<1>3. BookedAuth(p)' = a
  BY <1>1, BookedForNext
<1>4. BookedAuth(p) = None
  <2>1. SUFFICES ASSUME BookedAuth(p) # None PROVE FALSE
    OBVIOUS
  <2>2. PICK b : b = BookedAuth(p)
    OBVIOUS
  <2>3. b \in Auths /\ op[b].reserved /\ op[b].pid = p /\ b # a
    BY <2>1, <2>2, BookedFor
  <2>. QED BY <1>1, <2>3 DEF OneBooked
<1>5. ASSUME NEW q \in Pids, q # p
      PROVE  BookedAuth(q)' = BookedAuth(q) /\ PromiseAt(q)' = PromiseAt(q)
  <2>1. CASE BookedAuth(q) = None
    <3>1. BookedAuth(q)' # None =>
             /\ BookedAuth(q)' \in Auths \ {a}
             /\ op[BookedAuth(q)'].reserved /\ op[BookedAuth(q)'].pid = q
      BY <1>1, <1>5, BookedForNext
    <3>2. BookedAuth(q)' = None
      BY <1>2, <2>1, <3>1, BookedFor
    <3>. QED BY <2>1, <3>2 DEF PromiseAt
  <2>2. CASE BookedAuth(q) # None
    <3>1. PICK b : b = BookedAuth(q)
      OBVIOUS
    <3>2. b \in Auths /\ op[b].reserved /\ op[b].pid = q /\ b # a
      BY <2>2, <3>1, BookedFor
    <3>3. op'[b] = op[b]
      BY <3>2
    <3>4. BookedAuth(q)' = b
      BY <3>2, <3>3, BookedForNext
    <3>. QED BY <3>1, <3>3, <3>4 DEF PromiseAt
  <2>. QED BY <2>1, <2>2
<1>6. \A q \in Pids : BookedAuth(q) # a
  BY <1>2, BookedFor
<1>7. PromiseAt(p) = "open" /\ PromiseAt(p)' = "sent"
  BY <1>2, <1>3, <1>4 DEF PromiseAt, PromiseOf
<1>. QED BY <1>3, <1>5, <1>6, <1>7, PromiseSends DEF Promise!Next

\* A step that begins or leaves alone what it does not book.
LEMMA UnbookedKeeps ==
    ASSUME OrderInv, OrderInv', OneBooked, OneBooked', NEW a \in Auths,
           ~op[a].reserved, ~op'[a].reserved, \A b \in Auths : b # a => op'[b] = op[b]
    PROVE  UNCHANGED Promise!vars
<1>1. None \notin Auths
  BY NoneAssumption
<1>2. ASSUME NEW q \in Pids
      PROVE  BookedAuth(q)' = BookedAuth(q) /\ PromiseAt(q)' = PromiseAt(q)
  <2>1. CASE BookedAuth(q) = None
    <3>1. BookedAuth(q)' # None =>
             /\ BookedAuth(q)' \in Auths \ {a}
             /\ op[BookedAuth(q)'].reserved /\ op[BookedAuth(q)'].pid = q
      BY BookedForNext
    <3>2. BookedAuth(q)' = None
      BY <1>1, <2>1, <3>1, BookedFor
    <3>. QED BY <2>1, <3>2 DEF PromiseAt
  <2>2. CASE BookedAuth(q) # None
    <3>1. PICK b : b = BookedAuth(q)
      OBVIOUS
    <3>2. b \in Auths /\ op[b].reserved /\ op[b].pid = q /\ b # a
      BY <2>2, <3>1, BookedFor
    <3>3. op'[b] = op[b]
      BY <3>2
    <3>4. BookedAuth(q)' = b
      BY <3>2, <3>3, BookedForNext
    <3>. QED BY <3>1, <3>3, <3>4 DEF PromiseAt
  <2>. QED BY <2>1, <2>2
<1>. QED BY <1>2, PromiseStays

\* What keeps the rows and the records together.
NamesStay == \A a \in Auths :
    /\ op'[a].pid = op[a].pid
    /\ op[a].status = "none" <=> op'[a].status = "none"

LEMMA RowsStepKeeps ==
    ASSUME TypeInv, TypeInv', OrderInv, RowsInv, NEW x \in Procs, OthersStay(x),
           RowsStay, NamesStay, EarlyStays(x)
    PROVE  RowsInv'
<1>1. \A r \in Requests : pc'[r] \in Early =>
         /\ job'[r].pid = job[r].pid /\ job'[r].auth = job[r].auth
         /\ pc[r] \in Early \/ op[job[r].auth].status # "none"
         /\ job'[r].auth \in Auths
         /\ pc'[r] # "begin" =>
               op[job[r].auth].status = "none" \/ op[job[r].auth].pid # job[r].pid
  <2> SUFFICES ASSUME NEW r \in Requests, pc'[r] \in Early
               PROVE  /\ job'[r].pid = job[r].pid /\ job'[r].auth = job[r].auth
                      /\ pc[r] \in Early \/ op[job[r].auth].status # "none"
                      /\ job'[r].auth \in Auths
                      /\ pc'[r] # "begin" =>
                            op[job[r].auth].status = "none" \/ op[job[r].auth].pid # job[r].pid
    OBVIOUS
  <2>0. r \in Procs /\ job'[r].auth \in Auths
    BY DEF Procs, TypeInv, JobOK, Early
  <2>1. CASE r = x
    BY <2>0, <2>1 DEF EarlyStays, SameJob
  <2>2. CASE r # x
    <3>1. pc'[r] = pc[r] /\ job'[r] = job[r]
      BY <2>0, <2>2 DEF OthersStay
    <3>. QED BY <2>0, <3>1 DEF RowsInv, ReleaseOK, Early
  <2>. QED BY <2>1, <2>2
<1>2. \A a \in Auths : op'[a].pid = op[a].pid /\ (op'[a].status = "none" <=> op[a].status = "none")
  BY DEF NamesStay
<1>3. RowsOK'
  <2> SUFFICES ASSUME NEW a \in Auths, op'[a].status # "none" PROVE index'[op'[a].pid].auth = a
    BY DEF RowsOK
  <2>1. op[a].status # "none" /\ op[a].pid \in Pids
    BY <1>2 DEF OrderInv, ShapesOK, Shape
  <2>. QED BY <1>2, <2>1 DEF RowsInv, RowsOK, RowsStay
<1>4. EarlyOK'
  <2> SUFFICES ASSUME NEW r \in Requests, pc'[r] \in Early, op'[job'[r].auth].status = "none"
               PROVE  index'[job'[r].pid].auth = job'[r].auth
    BY DEF EarlyOK
  <2>1. pc[r] \in Early /\ op[job[r].auth].status = "none"
    BY <1>1, <1>2
  <2>2. job[r].pid \in Pids
    BY <2>1 DEF OrderInv, JobsOK, Early
  <2>. QED BY <1>1, <2>1, <2>2 DEF RowsInv, EarlyOK, RowsStay
<1>5. BeginnersOK'
  <2> SUFFICES ASSUME NEW r \in Requests, NEW s \in Requests, pc'[r] \in Early, pc'[s] \in Early,
                      op'[job'[r].auth].status = "none",
                      job'[r].auth = job'[s].auth, job'[r].pid = job'[s].pid
               PROVE  r = s
    BY DEF BeginnersOK
  <2>1. /\ pc[r] \in Early /\ op[job[r].auth].status = "none"
        /\ pc[s] \in Early /\ op[job[s].auth].status = "none"
    BY <1>1, <1>2
  <2>. QED BY <1>1, <2>1 DEF RowsInv, BeginnersOK
<1>6. ReleaseOK'
  <2> SUFFICES ASSUME NEW r \in Requests, pc'[r] \in {"select", "release"}
               PROVE  op'[job'[r].auth].status = "none" \/ op'[job'[r].auth].pid # job'[r].pid
    BY DEF ReleaseOK
  <2>1. pc'[r] \in Early /\ pc'[r] # "begin"
    BY DEF Early
  <2>. QED BY <1>1, <1>2, <2>1
<1>. QED BY <1>3, <1>4, <1>5, <1>6 DEF RowsInv

\* The first request of an identifier binds it.
LEMMA BindsRow ==
    ASSUME TypeInv, TypeInv', OrderInv, RowsInv, NEW r \in Requests, OthersStay(r),
           NEW p \in Pids, NEW a \in Auths, index[p].auth = None,
           index' = [index EXCEPT ![p] = [auth |-> a, status |-> "pending"]],
           pc'[r] = "select", job'[r].auth = a, job'[r].pid = p, op' = op
    PROVE  RowsInv'
<1>1. /\ index'[p].auth = a /\ \A q \in Pids : q # p => index'[q] = index[q]
      /\ None \notin Auths /\ r \in Procs /\ Requests \subseteq Procs
  BY NoneAssumption DEF TypeInv, TypeOK, Procs
<1>2. \A s \in Requests : s # r => pc'[s] = pc[s] /\ job'[s] = job[s]
  BY <1>1 DEF OthersStay
<1>3. ASSUME NEW b \in Auths, op[b].status # "none" PROVE op[b].pid \in Pids /\ op[b].pid # p
  BY <1>1, <1>3 DEF OrderInv, ShapesOK, Shape, RowsInv, RowsOK
<1>4. ASSUME NEW s \in Requests, s # r, pc[s] \in Early, op[job[s].auth].status = "none"
      PROVE  job[s].pid \in Pids /\ job[s].pid # p
  <2>1. job[s].auth \in Auths /\ job[s].pid \in Pids
    BY <1>1, <1>4 DEF TypeInv, JobOK, OrderInv, JobsOK, Early
  <2>. QED BY <1>1, <1>4, <2>1 DEF RowsInv, EarlyOK
<1>5. RowsOK'
  BY <1>1, <1>3 DEF RowsInv, RowsOK
<1>6. EarlyOK'
  <2> SUFFICES ASSUME NEW s \in Requests, pc'[s] \in Early, op[job'[s].auth].status = "none"
               PROVE  index'[job'[s].pid].auth = job'[s].auth
    BY DEF EarlyOK
  <2>1. CASE s = r
    BY <1>1, <2>1
  <2>2. CASE s # r
    BY <1>1, <1>2, <1>4, <2>2 DEF RowsInv, EarlyOK
  <2>. QED BY <2>1, <2>2
<1>7. BeginnersOK'
  <2> SUFFICES ASSUME NEW s \in Requests, NEW t \in Requests, pc'[s] \in Early, pc'[t] \in Early,
                      op[job'[s].auth].status = "none",
                      job'[s].auth = job'[t].auth, job'[s].pid = job'[t].pid, s # t
               PROVE  FALSE
    BY DEF BeginnersOK
  <2>1. CASE s # r /\ t # r
    BY <1>2, <2>1 DEF RowsInv, BeginnersOK
  <2>2. CASE s = r
    BY <1>2, <1>4, <2>2
  <2>3. CASE t = r
    BY <1>2, <1>4, <2>3
  <2>. QED BY <2>1, <2>2, <2>3
<1>8. ReleaseOK'
  <2> SUFFICES ASSUME NEW s \in Requests, pc'[s] \in {"select", "release"}
               PROVE  op[job'[s].auth].status = "none" \/ op[job'[s].auth].pid # job'[s].pid
    BY DEF ReleaseOK
  <2>1. CASE s = r
    BY <1>3, <2>1
  <2>2. CASE s # r
    BY <1>2, <2>2 DEF RowsInv, ReleaseOK
  <2>. QED BY <2>1, <2>2
<1>. QED BY <1>5, <1>6, <1>7, <1>8 DEF RowsInv

\* A request that cannot begin gives its row back: nobody else needs it.
LEMMA ReleasesRow ==
    ASSUME TypeInv, TypeInv', OrderInv, RowsInv, NEW r \in Requests, OthersStay(r),
           pc[r] = "release", pc'[r] \in {"idle", "done"}, op' = op,
           NEW p, p = job[r].pid, index[p].auth = job[r].auth,
           index' = [index EXCEPT ![p] = Absent]
    PROVE  RowsInv'
<1>1. /\ p \in Pids /\ job[r].auth \in Auths /\ r \in Procs /\ Requests \subseteq Procs
      /\ \A q \in Pids : q # p => index'[q] = index[q]
  BY DEF TypeInv, TypeOK, JobOK, OrderInv, JobsOK, Procs
<1>2. \A s \in Requests : pc'[s] \in Early => s # r /\ pc[s] \in Early /\ job'[s] = job[s]
  BY <1>1 DEF OthersStay, Early
<1>3. op[job[r].auth].status = "none" \/ op[job[r].auth].pid # p
  BY DEF RowsInv, ReleaseOK
<1>4. RowsOK'
  <2> SUFFICES ASSUME NEW a \in Auths, op[a].status # "none" PROVE index'[op[a].pid].auth = a
    BY DEF RowsOK
  <2>1. op[a].pid \in Pids /\ index[op[a].pid].auth = a
    BY DEF OrderInv, ShapesOK, Shape, RowsInv, RowsOK
  <2>2. op[a].pid # p
    BY <1>3, <2>1
  <2>. QED BY <1>1, <2>1, <2>2
<1>5. EarlyOK'
  <2> SUFFICES ASSUME NEW s \in Requests, pc'[s] \in Early, op[job'[s].auth].status = "none"
               PROVE  index'[job'[s].pid].auth = job'[s].auth
    BY DEF EarlyOK
  <2>1. s # r /\ pc[s] \in Early /\ job'[s] = job[s]
    BY <1>2
  <2>2. job[s].pid \in Pids /\ index[job[s].pid].auth = job[s].auth
    BY <2>1 DEF OrderInv, JobsOK, Early, RowsInv, EarlyOK
  <2>3. job[s].pid # p
    BY <2>1, <2>2 DEF RowsInv, BeginnersOK, Early
  <2>. QED BY <1>1, <2>1, <2>2, <2>3
<1>6. BeginnersOK'
  BY <1>2 DEF RowsInv, BeginnersOK
<1>7. ReleaseOK'
  <2> SUFFICES ASSUME NEW s \in Requests, pc'[s] \in {"select", "release"}
               PROVE  op[job'[s].auth].status = "none" \/ op[job'[s].auth].pid # job'[s].pid
    BY DEF ReleaseOK
  <2>1. s # r /\ job'[s] = job[s]
    BY <1>2 DEF Early
  <2>2. pc'[s] = pc[s]
    BY <1>1, <2>1 DEF OthersStay
  <2>. QED BY <2>1, <2>2 DEF RowsInv, ReleaseOK
<1>. QED BY <1>4, <1>5, <1>6, <1>7 DEF RowsInv

\* The operation begins under the identifier its request has bound.
LEMMA BeginsRow ==
    ASSUME TypeInv, TypeInv', OrderInv, RowsInv, NEW r \in Requests, OthersStay(r), UNCHANGED index,
           pc[r] = "begin", pc'[r] = "verify", NEW a, a = job[r].auth, op[a].status = "none",
           op'[a].status = "pending", op'[a].pid = job[r].pid,
           \A b \in Auths : b # a => op'[b] = op[b]
    PROVE  RowsInv'
<1>1. /\ a \in Auths /\ r \in Procs /\ Requests \subseteq Procs
      /\ index[job[r].pid].auth = a
  BY DEF TypeInv, JobOK, Procs, RowsInv, EarlyOK, Early
<1>2. \A s \in Requests : pc'[s] \in Early => s # r /\ pc[s] \in Early /\ job'[s] = job[s] /\ pc'[s] = pc[s]
  BY <1>1 DEF OthersStay, Early
<1>3. \A s \in Requests : pc'[s] \in Early => job[s].auth \in Auths
  BY <1>1, <1>2 DEF TypeInv, JobOK, Early
<1>4. RowsOK'
  BY <1>1 DEF RowsInv, RowsOK
<1>5. EarlyOK'
  <2> SUFFICES ASSUME NEW s \in Requests, pc'[s] \in Early, op'[job'[s].auth].status = "none"
               PROVE  index[job'[s].pid].auth = job'[s].auth
    BY DEF EarlyOK
  <2>1. job[s].auth # a /\ job[s].auth \in Auths
    BY <1>2, <1>3
  <2>. QED BY <1>2, <2>1 DEF RowsInv, EarlyOK
<1>6. BeginnersOK'
  <2> SUFFICES ASSUME NEW s \in Requests, NEW t \in Requests, pc'[s] \in Early, pc'[t] \in Early,
                      op'[job'[s].auth].status = "none",
                      job'[s].auth = job'[t].auth, job'[s].pid = job'[t].pid
               PROVE  s = t
    BY DEF BeginnersOK
  <2>1. job[s].auth # a /\ job[s].auth \in Auths
    BY <1>2, <1>3
  <2>. QED BY <1>2, <2>1 DEF RowsInv, BeginnersOK
<1>7. ReleaseOK'
  <2> SUFFICES ASSUME NEW s \in Requests, pc'[s] \in {"select", "release"}
               PROVE  op'[job'[s].auth].status = "none" \/ op'[job'[s].auth].pid # job'[s].pid
    BY DEF ReleaseOK
  <2>1. /\ s # r /\ pc[s] \in Early /\ job'[s] = job[s] /\ pc[s] \in {"select", "release"}
        /\ job[s].auth \in Auths
    BY <1>2, <1>3 DEF Early
  <2>2. CASE job[s].auth = a
    BY <2>1, <2>2 DEF RowsInv, BeginnersOK, Early
  <2>3. CASE job[s].auth # a
    BY <2>1, <2>3 DEF RowsInv, ReleaseOK
  <2>. QED BY <2>1, <2>2, <2>3
<1>. QED BY <1>4, <1>5, <1>6, <1>7 DEF RowsInv

LEMMA NothingMoves ==
    ASSUME op' = op
    PROVE  UNCHANGED Promise!vars
  BY DEF Promise!vars, BookedAuth, Booked

\* A step that advances one record or none, and binds and begins nothing.
LEMMA RefineKeeps ==
    ASSUME TypeInv, TypeInv', OrderInv, OrderInv', RowsInv, NEW x \in Procs, OthersStay(x),
           RowsStay, RecordsAdvance, EarlyStays(x)
    PROVE  RowsInv' /\ [Promise!Next]_(Promise!vars)
<1>1. NamesStay
  BY DEF NamesStay, RecordsAdvance, Advances
<1>2. RowsInv'
  BY <1>1, RowsStepKeeps
<1>3. OneBooked
  BY RowsUnique
<1>4. OneBooked'
  <2> SUFFICES ASSUME NEW a \in Auths, NEW b \in Auths,
                      op'[a].reserved, op'[b].reserved, op'[a].pid = op'[b].pid
               PROVE  a = b
    BY DEF OneBooked
  <2>1. op'[a].status # "none" /\ op'[b].status # "none"
    BY DEF OrderInv, ShapesOK, Shape
  <2>. QED BY <1>2, <2>1 DEF RowsInv, RowsOK
<1>5. CASE op' = op
  BY <1>2, <1>5, NothingMoves
<1>6. ASSUME NEW a \in Auths, Advances(a) PROVE [Promise!Next]_(Promise!vars)
  BY <1>3, <1>4, <1>6, ForwardKeeps
<1>. QED BY <1>2, <1>5, <1>6 DEF RecordsAdvance

LEMMA TransitionAdvances ==
    ASSUME TypeInv, OrderInv, NEW a \in Auths,
           NEW next \in {"verified", "failed", "ambiguous", "settled"}, Transition(a, next)
    PROVE  RecordsAdvance
<1>1. op[a] \in Operation /\ op \in [Auths -> Operation] /\ Shape(op[a])
  BY DEF TypeInv, TypeOK, OrderInv, ShapesOK
<1>2. CASE Accepts(op[a], next)
  <2>1. PICK rec : rec = Patched(op[a], next)
    OBVIOUS
  <2>2. rec.status = next /\ rec.pid = op[a].pid /\ rec.reserved = op[a].reserved
    BY <1>1, <2>1, PatchedFields DEF Statuses
  <2>3. op'[a] = rec /\ \A b \in Auths : b # a => op'[b] = op[b]
    BY <1>1, <1>2, <2>1 DEF Transition
  <2>4. op[a].status # "none" /\ (op[a].reserved => Forward(op[a].status, next))
    BY <1>1, <1>2, AcceptedFrom DEF Statuses, Open, Forward, Shape
  <2>5. Advances(a)
    BY <2>2, <2>3, <2>4 DEF Advances
  <2>. QED BY <2>5 DEF RecordsAdvance
<1>3. CASE ~Accepts(op[a], next)
  <2>1. op' = op
    BY <1>1, <1>3 DEF Transition
  <2>. QED BY <2>1 DEF RecordsAdvance
<1>. QED BY <1>2, <1>3

LEMMA RecordAdvances ==
    ASSUME TypeInv, NEW a \in Auths, NEW rec, op' = [op EXCEPT ![a] = rec],
           rec.pid = op[a].pid, rec.reserved = op[a].reserved,
           op[a].status # "none", rec.status # "none",
           op[a].reserved => Forward(op[a].status, rec.status)
    PROVE  RecordsAdvance
<1>1. op'[a] = rec /\ \A b \in Auths : b # a => op'[b] = op[b]
  BY DEF TypeInv, TypeOK
<1>2. Advances(a)
  BY <1>1 DEF Advances
<1>. QED BY <1>2 DEF RecordsAdvance

LEMMA GiveUpAdvances ==
    ASSUME TypeInv, TypeInv', OrderInv, OrderInv', RowsInv, NEW r \in Requests,
           pc[r] \notin {"idle", "done"}, UNCHANGED index,
           NEW outcome \in {"failed", "ambiguous"}, GiveUp(r, outcome)
    PROVE  RowsInv' /\ [Promise!Next]_(Promise!vars)
<1>1. r \in Procs /\ job[r].auth \in Auths
  BY DEF Procs, TypeInv, JobOK
<1>2. RecordsAdvance
  BY <1>1, TransitionAdvances DEF GiveUp
<1>3. OthersStay(r) /\ pc'[r] = "finalize"
  BY <1>1, ReportContinues DEF GiveUp, Continues
<1>4. RowsStay /\ EarlyStays(r)
  BY <1>3 DEF RowsStay, EarlyStays, Early
<1>. QED BY <1>1, <1>2, <1>3, <1>4, RefineKeeps

\* Every step of the gateway is a step of the promise or leaves it as it is.
LEMMA RefineStep ==
    NothingWrittenBack /\ ~StubFaults /\ TypeInv /\ SettleInv /\ OrderInv /\ ClaimInv
    /\ RowsInv /\ [Next]_vars
    => RowsInv' /\ [Promise!Next]_(Promise!vars)
<1> SUFFICES ASSUME NothingWrittenBack, ~StubFaults, TypeInv, SettleInv, OrderInv, ClaimInv,
                    RowsInv, [Next]_vars
             PROVE  RowsInv' /\ [Promise!Next]_(Promise!vars)
  OBVIOUS
<1>t. TypeInv' /\ OrderInv'
  BY TypeStep, OrderStep
<1>b. /\ op \in [Auths -> Operation] /\ held \in [Procs -> Operation]
      /\ pc \in [Procs -> Labels] /\ job \in [Procs -> Job]
      /\ Requests \subseteq Procs /\ Auths \subseteq Procs /\ Requests \cap Auths = {}
  BY ProcessAssumption DEF TypeInv, TypeOK, Procs
<1>u. RowsInv' => OneBooked /\ OneBooked'
  <2>1. OneBooked
    BY RowsUnique
  <2>2. ASSUME RowsInv', NEW a \in Auths, NEW b \in Auths,
               op'[a].reserved, op'[b].reserved, op'[a].pid = op'[b].pid
        PROVE  a = b
    <3>1. op'[a].status # "none" /\ op'[b].status # "none"
      BY <1>t, <2>2 DEF OrderInv, ShapesOK, Shape
    <3>. QED BY <2>2, <3>1 DEF RowsInv, RowsOK
  <2>. QED BY <2>1, <2>2 DEF OneBooked
\* Steps beyond the binding and the beginning of an operation.
<1>q. ASSUME NEW x \in Procs, OthersStay(x), RecordsAdvance, UNCHANGED index,
             pc'[x] \notin Early
      PROVE  RowsInv' /\ [Promise!Next]_(Promise!vars)
  BY <1>t, <1>q, RefineKeeps DEF RowsStay, EarlyStays
<1>c. ASSUME NEW x \in Procs, pc[x] \notin {"idle", "done"}, UNCHANGED <<held, op, index>>,
             NEW label, Goto(x, label), label \notin Early
      PROVE  RowsInv' /\ [Promise!Next]_(Promise!vars)
  <2>1. OthersStay(x) /\ pc'[x] = label
    BY <1>c, GotoContinues DEF Continues
  <2>. QED BY <1>c, <1>q, <2>1 DEF RecordsAdvance
<1>e. ASSUME NEW x \in Procs, pc[x] \notin {"idle", "done"}, UNCHANGED <<held, op, index>>,
             Finish(x)
      PROVE  RowsInv' /\ [Promise!Next]_(Promise!vars)
  <2>1. OthersStay(x) /\ pc'[x] \in {"idle", "done"}
    BY <1>e, FinishContinues DEF Continues
  <2>. QED BY <1>e, <1>q, <2>1 DEF RecordsAdvance, Early
\* A request that is still to begin.
<1>d. ASSUME NEW r \in Requests, pc[r] \in {"select", "peek", "begin"},
             UNCHANGED <<held, op, index>>, NEW label, Goto(r, label),
             label \in Early =>
                /\ pc[r] \in Early \/ op[job[r].auth].status # "none"
                /\ label # "begin" =>
                      op[job[r].auth].status = "none" \/ op[job[r].auth].pid # job[r].pid
      PROVE  RowsInv' /\ [Promise!Next]_(Promise!vars)
  <2>1. OthersStay(r) /\ pc'[r] = label /\ SameJob(r)
    BY <1>b, <1>d, GotoContinues DEF Continues, SameJob
  <2>2. EarlyStays(r) /\ RowsStay /\ RecordsAdvance
    BY <1>d, <2>1 DEF EarlyStays, RowsStay, RecordsAdvance
  <2>. QED BY <1>b, <1>t, <2>1, <2>2, RefineKeeps
<1>1. ASSUME NEW r \in Requests, NEW p \in Pids, NEW a \in Auths, Reserve(r, p, a)
      PROVE  RowsInv' /\ [Promise!Next]_(Promise!vars)
  <2>0. OthersStay(r) /\ UNCHANGED op
    BY <1>1, <1>b DEF Reserve, Finish, OthersStay, object
  <2>1. CASE pc'[r] \notin Early /\ UNCHANGED index
    BY <1>b, <1>q, <2>0, <2>1 DEF RecordsAdvance
  <2>2. CASE /\ index[p].auth = None
             /\ index' = [index EXCEPT ![p] = [auth |-> a, status |-> "pending"]]
             /\ pc'[r] = "select" /\ job'[r].auth = a /\ job'[r].pid = p
    <3>1. RowsInv'
      BY <1>t, <2>0, <2>2, BindsRow
    <3>2. UNCHANGED Promise!vars
      BY <2>0, NothingMoves
    <3>. QED BY <3>1, <3>2
  <2>3. /\ job' = [job EXCEPT ![r] = [@ EXCEPT !.pid = p, !.auth = a]] =>
              job'[r].auth = a /\ job'[r].pid = p
    BY <1>b DEF Job
  <2>. QED BY <1>1, <1>b, <2>1, <2>2, <2>3 DEF Reserve, Finish, Early
<1>2. ASSUME NEW r \in Requests, SelectFacilitator(r)
      PROVE  RowsInv' /\ [Promise!Next]_(Promise!vars)
  <2>1. pc[r] = "select" /\ UNCHANGED <<held, op, index>>
        /\ \E label \in {"begin", "release"} : Goto(r, label)
    BY <1>2 DEF SelectFacilitator, ledger, object
  <2>2. op[job[r].auth].status = "none" \/ op[job[r].auth].pid # job[r].pid
    BY <2>1 DEF RowsInv, ReleaseOK
  <2>. QED BY <1>d, <2>1, <2>2 DEF Early
<1>3. ASSUME NEW r \in Requests, Peek(r) PROVE RowsInv' /\ [Promise!Next]_(Promise!vars)
  <2>1. pc[r] = "peek" /\ UNCHANGED <<held, op, index>>
        /\ \/ op[job[r].auth].status # "none" /\ Goto(r, "begin")
           \/ Finish(r)
    BY <1>3 DEF Peek, AwaitPreparation, ledger, object
  <2>2. CASE op[job[r].auth].status # "none" /\ Goto(r, "begin")
    BY <1>d, <2>1, <2>2
  <2>3. CASE Finish(r)
    BY <1>b, <1>e, <2>1, <2>3
  <2>. QED BY <2>1, <2>2, <2>3
<1>4. ASSUME NEW r \in Requests, Release(r) PROVE RowsInv' /\ [Promise!Next]_(Promise!vars)
  <2>0. pc[r] = "release" /\ UNCHANGED <<held, op>> /\ Finish(r)
    BY <1>4 DEF Release, object
  <2>1. OthersStay(r) /\ pc'[r] \in {"idle", "done"}
    BY <1>b, <2>0, FinishContinues DEF Continues
  <2>2. CASE UNCHANGED index
    BY <1>b, <1>e, <2>0, <2>2
  <2>3. CASE /\ index[job[r].pid].auth = job[r].auth
             /\ index' = [index EXCEPT ![job[r].pid] = Absent]
    <3>1. RowsInv'
      BY <1>t, <2>0, <2>1, <2>3, ReleasesRow
    <3>2. UNCHANGED Promise!vars
      BY <2>0, NothingMoves
    <3>. QED BY <3>1, <3>2
  <2>. QED BY <1>4, <2>2, <2>3 DEF Release
<1>5. ASSUME NEW r \in Requests, Begin(r) PROVE RowsInv' /\ [Promise!Next]_(Promise!vars)
  <2>0. pc[r] = "begin" /\ UNCHANGED <<held, index>> /\ job[r].auth \in Auths
    BY <1>5, <1>b DEF Begin, ledger, TypeInv, JobOK
  <2>1. CASE UNCHANGED op /\ op[job[r].auth].pid # job[r].pid /\ Goto(r, "release")
    BY <1>d, <2>0, <2>1 DEF Early
  <2>2. CASE UNCHANGED op /\ (Goto(r, "claim") \/ Finish(r))
    BY <1>b, <1>c, <1>e, <2>0, <2>2 DEF Early
  <2>3. CASE /\ op[job[r].auth].status = "none" /\ Goto(r, "verify")
             /\ op' = [op EXCEPT ![job[r].auth] = NewOperation(job[r].pid)]
    <3>1. PICK a : a = job[r].auth
      OBVIOUS
    <3>2. /\ op'[a].status = "pending" /\ op'[a].pid = job[r].pid /\ ~op'[a].reserved
          /\ \A b \in Auths : b # a => op'[b] = op[b]
      BY <1>b, <2>0, <2>3, <3>1 DEF NewOperation, NoOperation
    <3>3. ~op[a].reserved
      BY <2>0, <2>3, <3>1 DEF OrderInv, ShapesOK, Shape
    <3>4. OthersStay(r) /\ pc'[r] = "verify"
      BY <1>b, <2>0, <2>3, GotoContinues DEF Continues
    <3>5. RowsInv'
      BY <1>t, <2>0, <2>3, <3>1, <3>2, <3>4, BeginsRow
    <3>6. UNCHANGED Promise!vars
      BY <1>t, <1>u, <2>0, <3>1, <3>2, <3>3, <3>5, UnbookedKeeps
    <3>. QED BY <3>5, <3>6
  <2>. QED BY <1>5, <2>1, <2>2, <2>3 DEF Begin
<1>6. ASSUME NEW r \in Requests, Verify(r) PROVE RowsInv' /\ [Promise!Next]_(Promise!vars)
  <2>0. pc[r] = "verify" /\ UNCHANGED index /\ job[r].auth \in Auths
    BY <1>6, <1>b DEF Verify, ledger, TypeInv, JobOK
  <2>1. CASE GiveUp(r, "failed")
    BY <1>t, <2>0, <2>1, GiveUpAdvances
  <2>2. CASE /\ Transition(job[r].auth, "verified") /\ UNCHANGED <<pending, held>>
             /\ Goto(r, "key") \/ Finish(r)
    <3>1. RecordsAdvance
      BY <2>0, <2>2, TransitionAdvances
    <3>2. OthersStay(r) /\ pc'[r] \in {"key", "idle", "done"}
      BY <1>b, <2>0, <2>2, GotoContinues, FinishContinues DEF Continues
    <3>. QED BY <1>b, <1>q, <2>0, <3>1, <3>2 DEF Early
  <2>. QED BY <1>6, <2>1, <2>2 DEF Verify
<1>7. ASSUME NEW r \in Requests, ReserveKey(r) PROVE RowsInv' /\ [Promise!Next]_(Promise!vars)
  <2>0. pc[r] = "key" /\ UNCHANGED index
    BY <1>7 DEF ReserveKey
  <2>1. CASE GiveUp(r, "failed")
    BY <1>t, <2>0, <2>1, GiveUpAdvances
  <2>2. CASE Goto(r, "book") /\ UNCHANGED object
    BY <1>b, <1>c, <2>0, <2>2 DEF object, Early
  <2>. QED BY <1>7, <2>1, <2>2 DEF ReserveKey
<1>8. ASSUME NEW r \in Requests, Book(r) PROVE RowsInv' /\ [Promise!Next]_(Promise!vars)
  <2>0. pc[r] = "book" /\ UNCHANGED <<held, index>> /\ job[r].auth \in Auths
    BY <1>8, <1>b DEF Book, ledger, TypeInv, JobOK
  <2>1. CASE UNCHANGED op /\ Finish(r)
    BY <1>b, <1>e, <2>0, <2>1
  <2>2. ASSUME NEW a, a = job[r].auth, NEW life, Goto(r, "submit") \/ Finish(r),
               op[a].status = "verified", ~op[a].reserved,
               op' = [op EXCEPT ![a] = [@ EXCEPT !.reserved = TRUE, !.life = life]]
        PROVE  RowsInv' /\ [Promise!Next]_(Promise!vars)
    <3>1. /\ op'[a].status = "verified" /\ op'[a].pid = op[a].pid /\ op'[a].reserved
          /\ \A b \in Auths : b # a => op'[b] = op[b]
      BY <1>b, <2>0, <2>2 DEF Operation
    <3>2. OthersStay(r) /\ pc'[r] \in {"submit", "idle", "done"}
      BY <1>b, <2>0, <2>2, GotoContinues, FinishContinues DEF Continues
    <3>3. NamesStay /\ RowsStay /\ EarlyStays(r)
      BY <2>0, <2>2, <3>1, <3>2 DEF NamesStay, RowsStay, EarlyStays, Early
    <3>4. RowsInv'
      BY <1>b, <1>t, <3>2, <3>3, RowsStepKeeps
    <3>5. Promise!Next
      BY <1>t, <1>u, <2>0, <2>2, <3>1, <3>4, BookingSends
    <3>. QED BY <3>4, <3>5
  <2>. QED BY <1>8, <2>1, <2>2 DEF Book
<1>9. ASSUME NEW r \in Requests, Submit(r) PROVE RowsInv' /\ [Promise!Next]_(Promise!vars)
  BY <1>9, <1>b, <1>c DEF Submit, object, ledger, Early
<1>10. ASSUME NEW r \in Requests, Reply(r) PROVE RowsInv' /\ [Promise!Next]_(Promise!vars)
  <2>0. pc[r] = "reply" /\ UNCHANGED index
    BY <1>10 DEF Reply, ledger
  <2>1. ASSUME NEW outcome \in {"failed", "ambiguous"}, GiveUp(r, outcome)
        PROVE  RowsInv' /\ [Promise!Next]_(Promise!vars)
    BY <1>t, <2>0, <2>1, GiveUpAdvances
  <2>2. ASSUME NEW label \in {"evidence", "commit"}, Goto(r, label), UNCHANGED object
        PROVE  RowsInv' /\ [Promise!Next]_(Promise!vars)
    BY <1>b, <1>c, <2>0, <2>2 DEF object, Early
  <2>. QED BY <1>10, <2>1, <2>2 DEF Reply, Unclear
<1>11. ASSUME NEW r \in Requests, CheckEvidence(r)
       PROVE  RowsInv' /\ [Promise!Next]_(Promise!vars)
  <2>0. pc[r] = "evidence" /\ UNCHANGED index
    BY <1>11 DEF CheckEvidence, ledger
  <2>1. CASE GiveUp(r, "ambiguous")
    BY <1>t, <2>0, <2>1, GiveUpAdvances
  <2>2. CASE Goto(r, "commit") /\ UNCHANGED object
    BY <1>b, <1>c, <2>0, <2>2 DEF object, Early
  <2>. QED BY <1>11, <2>1, <2>2 DEF CheckEvidence
<1>12. ASSUME NEW r \in Requests, Commit(r) PROVE RowsInv' /\ [Promise!Next]_(Promise!vars)
  <2>0. /\ pc[r] = "commit" /\ UNCHANGED index /\ job[r].auth \in Auths
        /\ Transition(job[r].auth, "settled")
    BY <1>12, <1>b DEF Commit, ledger, TypeInv, JobOK
  <2>1. RecordsAdvance
    BY <2>0, TransitionAdvances
  <2>2. ASSUME NEW rec, Stored(r, rec, "settled")
        PROVE  OthersStay(r) /\ pc'[r] = "finalize"
    BY <1>b, <2>0, <2>2, StoredReports DEF NothingWrittenBack
  <2>3. CASE Finish(r) /\ UNCHANGED <<pending, held>>
    <3>1. OthersStay(r) /\ pc'[r] \in {"idle", "done"}
      BY <1>b, <2>0, <2>3, FinishContinues DEF Continues
    <3>. QED BY <1>b, <1>q, <2>0, <2>1, <3>1 DEF Early
  <2>4. CASE OthersStay(r) /\ pc'[r] = "finalize"
    BY <1>b, <1>q, <2>0, <2>1, <2>4 DEF Early
  <2>. QED BY <1>12, <2>2, <2>3, <2>4 DEF Commit
<1>13. ASSUME NEW x \in Procs, Sync(x) PROVE FALSE
  BY <1>13 DEF Sync, ClaimInv, UnsoldOK
<1>14. ASSUME NEW x \in Procs, Finalize(x) PROVE RowsInv' /\ [Promise!Next]_(Promise!vars)
  <2>0. pc[x] = "finalize" /\ UNCHANGED op
    BY <1>14 DEF Finalize
  <2>1. \A y \in Procs \ {x} : held'[y] = held[y]
    BY <1>14, <1>b DEF Finalize
  <2>2. Finish(x) \/ Goto(x, "claim")
    BY <1>14 DEF Finalize, NothingWrittenBack
  <2>3. OthersStay(x) /\ pc'[x] \in {"claim", "idle", "done"}
    BY <2>0, <2>1, <2>2, GotoContinues, FinishContinues DEF Continues
  <2>4. RowsStay
    <3>1. /\ index \in [Pids -> [auth : Auths \cup {None}, status : Statuses]]
          /\ \/ UNCHANGED index
             \/ index' = [index EXCEPT ![job[x].pid] = FinalRow(@, job[x].outcome)]
      BY <1>14 DEF Finalize, TypeInv, TypeOK
    <3>. QED BY <3>1 DEF RowsStay, FinalRow
  <2>. QED BY <1>t, <2>0, <2>3, <2>4, RefineKeeps DEF RecordsAdvance, EarlyStays, Early
<1>15. ASSUME NEW x \in Procs, Claim(x) PROVE RowsInv' /\ [Promise!Next]_(Promise!vars)
  <2>0. /\ pc[x] = "claim" /\ job[x].auth \in Auths /\ UNCHANGED <<held, index>>
    BY <1>15 DEF Claim, ledger, TypeInv, JobOK
  <2>1. CASE UNCHANGED op /\ Finish(x)
    BY <1>e, <2>0, <2>1
  <2>2. ASSUME NEW a, a = job[x].auth, Claimable(op[a]), NEW token,
               NEW rec, rec = [op[a] EXCEPT !.claim = token, !.life = "EXECUTION_STARTED"],
               op' = [op EXCEPT ![a] = rec]
        PROVE  RowsInv' /\ [Promise!Next]_(Promise!vars)
    <3>1. a \in Auths /\ op[a] \in Operation
      BY <1>b, <2>0, <2>2
    <3>2. rec.status = op[a].status /\ rec.pid = op[a].pid /\ rec.reserved = op[a].reserved
      BY <2>2, <3>1 DEF Operation
    <3>3. op[a].status # "none"
      BY <2>2 DEF Claimable
    <3>4. RecordsAdvance
      BY <2>2, <3>1, <3>2, <3>3, RecordAdvances DEF Forward
    <3>5. OthersStay(x) /\ pc'[x] = "execute"
      BY <1>15, <2>2, TokenTaken
    <3>. QED BY <1>q, <2>0, <3>4, <3>5 DEF Early
  <2>3. \/ UNCHANGED op /\ Finish(x)
        \/ /\ Claimable(op[job[x].auth])
           /\ op' = [op EXCEPT ![job[x].auth] =
                        [@ EXCEPT !.claim = started[job[x].auth] + 1,
                                  !.life = "EXECUTION_STARTED"]]
    BY <1>15 DEF Claim
  <2>. QED BY <2>1, <2>2, <2>3
<1>16. ASSUME NEW x \in Procs, Execute(x) PROVE RowsInv' /\ [Promise!Next]_(Promise!vars)
  <2>0. pc[x] = "execute" /\ job[x].pid \notin SellerPids /\ UNCHANGED index
    BY <1>16 DEF Execute, NothingWrittenBack
  <2>1. PICK label \in {"complete", "credit"} : Goto(x, label)
    BY <1>16, <2>0 DEF Execute
  <2>2. UNCHANGED <<op, held>>
    BY <1>16, <2>0 DEF Execute, object
  <2>. QED BY <1>c, <2>0, <2>1, <2>2 DEF Early
<1>17. ASSUME NEW x \in Procs, RecordCredit(x)
       PROVE  RowsInv' /\ [Promise!Next]_(Promise!vars)
  <2>0. pc[x] = "credit" /\ job[x].auth \in Auths /\ UNCHANGED <<held, index>>
    BY <1>17 DEF RecordCredit, ledger, TypeInv, JobOK
  <2>1. OthersStay(x) /\ pc'[x] = "finalize"
    BY <1>17, <2>0, ReportContinues DEF RecordCredit, Continues
  <2>2. CASE UNCHANGED op
    BY <1>q, <2>0, <2>1, <2>2 DEF RecordsAdvance, Early
  <2>3. ASSUME NEW a, a = job[x].auth, Accepts(op[a], "credited"), NEW rec,
               rec = [Patched(op[a], "credited") EXCEPT !.claim = 0, !.credit = job[x].token],
               op' = [op EXCEPT ![a] = rec]
        PROVE  RowsInv' /\ [Promise!Next]_(Promise!vars)
    <3>1. PICK q : q = Patched(op[a], "credited")
      OBVIOUS
    <3>o. op[a] \in Operation
      BY <1>b, <2>0, <2>3
    <3>2. q \in Operation
      BY <3>o, <3>1, PatchedType DEF Statuses
    <3>p. q.status = "credited" /\ q.pid = op[a].pid /\ q.reserved = op[a].reserved
      BY <3>o, <3>1, PatchedFields DEF Statuses
    <3>3. rec.status = "credited" /\ rec.pid = op[a].pid /\ rec.reserved = op[a].reserved
      BY <2>3, <3>1, <3>2, <3>p DEF Operation
    <3>4. op[a].status \in {"settled", "credited"}
      BY <1>b, <2>0, <2>3, AcceptedFrom DEF Statuses
    <3>5. RecordsAdvance
      BY <2>0, <2>3, <3>3, <3>4, RecordAdvances DEF Forward
    <3>. QED BY <1>q, <2>0, <2>1, <3>5 DEF Early
  <2>4. \/ UNCHANGED op
        \/ /\ Accepts(op[job[x].auth], "credited")
           /\ op' = [op EXCEPT ![job[x].auth] =
                        [Patched(op[job[x].auth], "credited")
                           EXCEPT !.claim = 0, !.credit = job[x].token]]
    BY <1>17, <1>b, <2>0 DEF RecordCredit
  <2>. QED BY <2>2, <2>3, <2>4
<1>18. ASSUME NEW x \in Procs, Complete(x) PROVE RowsInv' /\ [Promise!Next]_(Promise!vars)
  <2>0. pc[x] = "complete" /\ job[x].auth \in Auths /\ UNCHANGED index
    BY <1>18 DEF Complete, ledger, TypeInv, JobOK
  <2>1. CASE /\ UNCHANGED <<op, held>>
             /\ Report(x, "finalize", "succeeded") \/ Finish(x)
    <3>1. OthersStay(x) /\ pc'[x] \in {"finalize", "idle", "done"}
      BY <2>0, <2>1, ReportContinues, FinishContinues DEF Continues
    <3>. QED BY <1>q, <2>0, <2>1, <3>1 DEF RecordsAdvance, Early
  <2>2. ASSUME NEW a, a = job[x].auth, Accepts(op[a], "succeeded"), NEW rec,
               op[a].status \in {"settled", "credited"},
               rec = [Patched(op[a], "succeeded") EXCEPT !.claim = 0],
               op' = [op EXCEPT ![a] = rec], Stored(x, rec, "succeeded")
        PROVE  RowsInv' /\ [Promise!Next]_(Promise!vars)
    <3>1. PICK q : q = Patched(op[a], "succeeded")
      OBVIOUS
    <3>o. op[a] \in Operation
      BY <1>b, <2>0, <2>2
    <3>2. q \in Operation
      BY <3>o, <3>1, PatchedType DEF Statuses
    <3>p. q.status = "succeeded" /\ q.pid = op[a].pid /\ q.reserved = op[a].reserved
      BY <3>o, <3>1, PatchedFields DEF Statuses
    <3>3. rec.status = "succeeded" /\ rec.pid = op[a].pid /\ rec.reserved = op[a].reserved
      BY <2>2, <3>1, <3>2, <3>p DEF Operation
    <3>4. RecordsAdvance
      BY <2>0, <2>2, <3>3, RecordAdvances DEF Forward
    <3>5. OthersStay(x) /\ pc'[x] = "finalize"
      BY <2>0, <2>2, StoredReports DEF NothingWrittenBack
    <3>. QED BY <1>q, <2>0, <3>4, <3>5 DEF Early
  <2>. QED BY <1>18, <2>1, <2>2 DEF Complete
<1>19. ASSUME NEW a \in Auths, FireAlarm(a) PROVE RowsInv' /\ [Promise!Next]_(Promise!vars)
  <2>0. /\ pc[a] = "idle" /\ a \in Procs /\ a \notin Requests
        /\ UNCHANGED index /\ ~Owing(a, Seen(a))
    BY <1>19, <1>b DEF FireAlarm, ledger, Owing, ClaimInv, UnsoldOK
  <2>1. op[a] \in Operation /\ Shape(op[a]) /\ RecordOK(op[a])
    BY <1>b DEF OrderInv, ShapesOK, SettleInv, RecordsOK
  <2>s. PICK seen : seen = Seen(a)
    OBVIOUS
  <2>2. /\ seen \in Operation /\ Shape(seen)
        /\ \/ seen = op[a] /\ op[a].life # "SETTLEMENT_PENDING"
           \/ seen.status = "ambiguous" /\ op[a].status = "verified"
    BY <2>1, <2>s, SeenShape, SeenType DEF RecordInv, TypeInv, TypeOK
  <2>3. CASE StartReconciling(a, Seen(a))
    <3>1. PICK next : next = IF seen.attempts >= MaxAttempts THEN [seen EXCEPT !.dead = TRUE]
                                                             ELSE CountedAttempt(seen)
      OBVIOUS
    <3>2. /\ op' = [op EXCEPT ![a] = next] /\ held' = [held EXCEPT ![a] = next]
          /\ \E label \in {"finalize", "query"} : pc' = [pc EXCEPT ![a] = label]
          /\ job' = [job EXCEPT ![a] = [pid |-> seen.pid, auth |-> a,
                                        outcome |-> "ambiguous", token |-> 0]]
          /\ seen.status = "ambiguous"
      BY <2>3, <2>s, <3>1 DEF StartReconciling
    <3>3. op[a].status \in {"ambiguous", "verified"}
      BY <2>2, <3>2
    <3>4. seen.pid = op[a].pid /\ seen.reserved = op[a].reserved
      BY <2>1, <2>s, PatchedFields DEF Seen, Statuses
    <3>5. next.status = "ambiguous" /\ next.pid = op[a].pid /\ next.reserved = op[a].reserved
      BY <2>2, <3>1, <3>2, <3>4 DEF Operation, CountedAttempt
    <3>6. RecordsAdvance
      BY <3>2, <3>3, <3>5, RecordAdvances DEF Forward
    <3>7. OthersStay(a) /\ pc'[a] \in {"finalize", "query"}
      BY <1>b, <2>0, <3>2 DEF OthersStay
    <3>. QED BY <1>q, <2>0, <3>6, <3>7 DEF Early
  <2>4. CASE /\ Seen(a).status # "ambiguous" \/ ~Seen(a).payload
             /\ op' = [op EXCEPT ![a] = Seen(a)] /\ UNCHANGED <<held, pc, job>>
    <3>1. seen.status # "ambiguous"
      BY <2>2, <2>4, <2>s DEF Shape, Open
    <3>2. op' = op
      BY <1>b, <2>2, <2>4, <2>s, <3>1
    <3>3. OthersStay(a) /\ pc'[a] = "idle"
      BY <2>0, <2>4 DEF OthersStay
    <3>. QED BY <1>q, <2>0, <3>2, <3>3 DEF RecordsAdvance, Early
  <2>. QED BY <1>19, <2>0, <2>3, <2>4 DEF FireAlarm
<1>20. ASSUME NEW a \in Auths, Query(a) PROVE RowsInv' /\ [Promise!Next]_(Promise!vars)
  <2>0. /\ a \in Procs /\ pc[a] = "query" /\ held[a] \in Operation /\ UNCHANGED index
        /\ op[a].status = "ambiguous" /\ held[a].status = "ambiguous" /\ job[a].auth = a
    BY <1>20, <1>b DEF Query, ledger, ClaimInv, AloneOK, AloneAt, OrderInv, JobsOK
  <2>1. /\ held[a].reserved /\ held[a].pid = job[a].pid
        /\ op[a].reserved /\ op[a].pid = job[a].pid
    BY <2>0 DEF SettleInv, HeldOK, OrderInv, WriteOK, Writing, MayWrite, BoundOK, Unbound
  <2>2. ASSUME NEW rec, NEW outcome, op' = [op EXCEPT ![a] = rec],
               held' = [held EXCEPT ![a] = rec], Report(a, "finalize", outcome),
               rec.pid = held[a].pid, rec.reserved = held[a].reserved,
               rec.status \in {"ambiguous", "settled"}
        PROVE  RowsInv' /\ [Promise!Next]_(Promise!vars)
    <3>1. \A y \in Procs \ {a} : held'[y] = held[y]
      BY <1>b, <2>0, <2>2
    <3>2. OthersStay(a) /\ pc'[a] = "finalize"
      BY <2>0, <2>2, <3>1, ReportContinues DEF Continues
    <3>3. rec.pid = op[a].pid /\ rec.reserved = op[a].reserved
      BY <2>1, <2>2, <1>b DEF Operation
    <3>4. RecordsAdvance
      BY <2>0, <2>2, <3>3, RecordAdvances DEF Forward
    <3>. QED BY <1>q, <2>0, <3>2, <3>4 DEF Early
  <2>3. LET found == Patched(held[a], "settled") IN
        found.pid = held[a].pid /\ found.reserved = held[a].reserved /\ found.status = "settled"
    BY <2>0, PatchedFields DEF Statuses
  <2>4. ASSUME NEW dead
        PROVE  LET missing == [held[a] EXCEPT !.dead = dead] IN
               /\ missing.pid = held[a].pid /\ missing.reserved = held[a].reserved
               /\ missing.status = held[a].status
    BY <2>0 DEF Operation
  <2>. QED BY <1>20, <2>0, <2>2, <2>3, <2>4 DEF Query
<1>21. ASSUME NEW a \in Auths, Outbox(a) PROVE FALSE
  BY <1>21, <1>b DEF Outbox, ClaimInv, UnsoldOK
<1>22. ASSUME NEW a \in Auths, ChainDecides(a) PROVE RowsInv' /\ [Promise!Next]_(Promise!vars)
  <2>1. UNCHANGED <<op, index, pc, job>>
    BY <1>22 DEF ChainDecides, object, ledger
  <2>. QED BY <2>1, NothingMoves DEF RowsInv, RowsOK, EarlyOK, BeginnersOK, ReleaseOK
<1>23. ASSUME NEW r \in Requests, CrashRequest(r)
       PROVE  RowsInv' /\ [Promise!Next]_(Promise!vars)
  <2>1. pc[r] \notin {"idle", "done"} /\ \A y \in Procs \ {r} : held'[y] = held[y]
    BY <1>23, <1>b DEF CrashRequest
  <2>2. OthersStay(r) /\ pc'[r] \in {"idle", "done"}
    BY <1>23, <1>b, <2>1, FinishContinues DEF CrashRequest, Continues
  <2>. QED BY <1>23, <1>b, <1>q, <2>2 DEF CrashRequest, ledger, RecordsAdvance, Early
<1>24. ASSUME NEW a \in Auths, CrashAlarm(a) PROVE RowsInv' /\ [Promise!Next]_(Promise!vars)
  <2>1. UNCHANGED <<op, index>> /\ \A y \in Procs \ {a} : held'[y] = held[y]
    BY <1>24, <1>b DEF CrashAlarm, ledger
  <2>2. OthersStay(a) /\ pc'[a] = "idle"
    BY <1>24, <1>b, <2>1 DEF CrashAlarm, Finish, OthersStay
  <2>. QED BY <1>b, <1>q, <2>1, <2>2 DEF RecordsAdvance, Early
<1>25. CASE UNCHANGED vars
  <2>1. UNCHANGED <<op, index, pc, job>>
    BY <1>25 DEF vars
  <2>. QED BY <2>1, NothingMoves DEF RowsInv, RowsOK, EarlyOK, BeginnersOK, ReleaseOK
<1>. QED
  BY <1>1, <1>2, <1>3, <1>4, <1>5, <1>6, <1>7, <1>8, <1>9, <1>10, <1>11, <1>12, <1>13,
     <1>14, <1>15, <1>16, <1>17, <1>18, <1>19, <1>20, <1>21, <1>22, <1>23, <1>24, <1>25
  DEF Next, RequestStep, ExecutionStep, AlarmStep

\* Workers, replays, crashes and alarms together implement the promise made for
\* an identifier: one authorization is charged, and its charge only moves forward.
THEOREM PromiseKept ==
    ASSUME NothingWrittenBack, ~StubFaults
    PROVE  Spec => KeepsPromise
<1>1. Init => RowsInv /\ Promise!Init
  <2> SUFFICES ASSUME Init PROVE RowsInv /\ Promise!Init
    OBVIOUS
  <2>1. /\ \A r \in Requests : pc[r] = "idle"
        /\ \A a \in Auths : op[a].status = "none" /\ ~op[a].reserved
    BY DEF Init, Procs, NoOperation
  <2>2. RowsInv
    BY <2>1 DEF RowsInv, RowsOK, EarlyOK, BeginnersOK, ReleaseOK, Early
  <2>3. \A p \in Pids : BookedAuth(p) = None
    BY <2>1 DEF BookedAuth, Booked
  <2>. QED BY <2>2, <2>3 DEF Promise!Init
<1>2. /\ TypeInv /\ SettleInv /\ OrderInv /\ ClaimInv /\ RowsInv /\ [Next]_vars
      => RowsInv' /\ [Promise!Next]_(Promise!vars)
  BY RefineStep
<1>. QED BY <1>1, <1>2, ClaimInvariant, PTL DEF Spec, KeepsPromise, Promise!Spec

-----------------------------------------------------------------------------
(* CreditRedemption.  A redemption changes what its operation owes and the   *)
(* rows of the credit; whatever the gateway proves of itself stays true       *)
(* beside it.                                                                 *)

Active(d) == rpc[d] \notin {"idle", "done"}

RedeemTypeInv ==
    /\ TypeInv /\ RedemptionTypeOK
    /\ \A d \in Redeemers : Active(d) => rjob[d].auth \in Auths

\* The credit in hand is of an operation that exists, and not of a seller's.
PresentedOK == \A d \in Redeemers : Active(d) =>
    op[rjob[d].auth].status # "none" /\ op[rjob[d].auth].pid \notin SellerPids

\* What a redemption leaves of a record, and of the gateway.
OnlyOwed(a) ==
    /\ op'[a].pid = op[a].pid /\ op'[a].status = op[a].status /\ op'[a].life = op[a].life
    /\ op'[a].reserved = op[a].reserved /\ op'[a].claim = op[a].claim
    /\ op'[a].payload = op[a].payload /\ op'[a].credit = op[a].credit
    /\ op[a].redeemed => op'[a].redeemed
Beside ==
    /\ UNCHANGED <<index, keys, alarm, pending, held, pc, job, chain, settles, started>>
    /\ op' \in [Auths -> Operation] /\ \A a \in Auths : OnlyOwed(a)

LEMMA OneMarked ==
    ASSUME TypeInv, NEW a \in Auths, NEW rec \in Operation, op' = [op EXCEPT ![a] = rec],
           rec.pid = op[a].pid, rec.status = op[a].status, rec.life = op[a].life,
           rec.reserved = op[a].reserved, rec.claim = op[a].claim,
           rec.payload = op[a].payload, rec.credit = op[a].credit,
           op[a].redeemed => rec.redeemed
    PROVE  op' \in [Auths -> Operation] /\ \A b \in Auths : OnlyOwed(b)
<1>1. op \in [Auths -> Operation]
  BY DEF TypeInv, TypeOK
<1>2. op'[a] = rec /\ \A b \in Auths : b # a => op'[b] = op[b]
  BY <1>1
<1>3. OnlyOwed(a)
  BY <1>2 DEF OnlyOwed
<1>4. ASSUME NEW b \in Auths, b # a PROVE OnlyOwed(b)
  BY <1>2, <1>4 DEF OnlyOwed
<1>. QED BY <1>1, <1>3, <1>4

LEMMA NoneMarked ==
    ASSUME TypeInv, UNCHANGED op
    PROVE  op' \in [Auths -> Operation] /\ \A b \in Auths : OnlyOwed(b)
  BY DEF TypeInv, TypeOK, OnlyOwed

LEMMA AttemptBeside ==
    ASSUME RedeemTypeInv, NEW d \in Redeemers, Attempt(d)
    PROVE  Beside
<1>1. Active(d) /\ rjob[d].auth \in Auths /\ TypeInv
  BY DEF Attempt, At, Active, RedeemTypeInv
<1>2. ASSUME NEW a, a = rjob[d].auth, op' = [op EXCEPT ![a].attempter = d]
      PROVE  op' \in [Auths -> Operation] /\ \A b \in Auths : OnlyOwed(b)
  <2>1. PICK rec : rec = [op[a] EXCEPT !.attempter = d]
    OBVIOUS
  <2>2. op[a] \in Operation
    BY <1>1, <1>2 DEF TypeInv, TypeOK
  <2>3. /\ rec \in Operation
        /\ rec.pid = op[a].pid /\ rec.status = op[a].status /\ rec.life = op[a].life
        /\ rec.reserved = op[a].reserved /\ rec.claim = op[a].claim
        /\ rec.payload = op[a].payload /\ rec.credit = op[a].credit
        /\ rec.redeemed = op[a].redeemed
    BY <2>1, <2>2 DEF Operation
  <2>4. op' = [op EXCEPT ![a] = rec]
    BY <1>2, <2>1
  <2>. QED BY <1>1, <1>2, <2>3, <2>4, OneMarked
<1>3. UNCHANGED op => op' \in [Auths -> Operation] /\ \A b \in Auths : OnlyOwed(b)
  BY <1>1, NoneMarked
<1>4. op' = op \/ op' = [op EXCEPT ![rjob[d].auth].attempter = d]
  BY DEF Attempt
<1>5. UNCHANGED <<index, keys, alarm, pending, held, pc, job, chain, settles, started>>
  BY DEF Attempt, ledger, history
<1>. QED BY <1>2, <1>3, <1>4, <1>5 DEF Beside

LEMMA DeliverBeside ==
    ASSUME RedeemTypeInv, NEW d \in Redeemers, Deliver(d)
    PROVE  Beside
<1>1. Active(d) /\ rjob[d].auth \in Auths /\ TypeInv
  BY DEF Deliver, At, Active, RedeemTypeInv
<1>2. ASSUME NEW a, a = rjob[d].auth, op' = [op EXCEPT ![a] = Fulfilled(@)]
      PROVE  op' \in [Auths -> Operation] /\ \A b \in Auths : OnlyOwed(b)
  <2>1. PICK rec : rec = Fulfilled(op[a])
    OBVIOUS
  <2>2. op[a] \in Operation
    BY <1>1, <1>2 DEF TypeInv, TypeOK
  <2>3. /\ rec \in Operation
        /\ rec.pid = op[a].pid /\ rec.status = op[a].status /\ rec.life = op[a].life
        /\ rec.reserved = op[a].reserved /\ rec.claim = op[a].claim
        /\ rec.payload = op[a].payload /\ rec.credit = op[a].credit /\ rec.redeemed
    BY <2>1, <2>2 DEF Operation, Fulfilled
  <2>4. op' = [op EXCEPT ![a] = rec]
    BY <1>2, <2>1
  <2>. QED BY <1>1, <1>2, <2>3, <2>4, OneMarked
<1>3. UNCHANGED op => op' \in [Auths -> Operation] /\ \A b \in Auths : OnlyOwed(b)
  BY <1>1, NoneMarked
<1>4. op' = op \/ op' = [op EXCEPT ![rjob[d].auth] = Fulfilled(@)]
  BY DEF Deliver
<1>5. UNCHANGED <<index, keys, alarm, pending, held, pc, job, chain, settles, started>>
  BY DEF Deliver, ledger
<1>. QED BY <1>2, <1>3, <1>4, <1>5 DEF Beside

\* Every step of a redemption, or its death.
LEMMA RedeemBeside ==
    ASSUME RedeemTypeInv, NEW d \in Redeemers, RedeemStep(d) \/ CrashRedemption(d)
    PROVE  Beside
<1>1. UNCHANGED op => op' \in [Auths -> Operation] /\ \A b \in Auths : OnlyOwed(b)
  BY NoneMarked DEF RedeemTypeInv
<1>2. ASSUME NEW a \in Auths, NEW n \in available[a], Consume(d, a, n) PROVE Beside
  BY <1>1, <1>2 DEF Consume, Beside, object, history
<1>3. CASE RunAgain(d) \/ Confirm(d) \/ CrashRedemption(d)
  BY <1>1, <1>3 DEF RunAgain, Confirm, CrashRedemption, Beside, vars
<1>4. CASE Restore(d)
  BY <1>1, <1>4 DEF Restore, Beside, object, history
<1>. QED BY <1>2, <1>3, <1>4, AttemptBeside, DeliverBeside DEF RedeemStep

LEMMA RedeemTypeStep == RedeemTypeInv /\ [RedemptionNext]_rvars => RedeemTypeInv'
<1> SUFFICES ASSUME RedeemTypeInv, [RedemptionNext]_rvars PROVE RedeemTypeInv'
  OBVIOUS
<1>a. /\ TypeInv /\ TypeOK /\ available \in [Auths -> SUBSET Nat] /\ delivered \in [Auths -> Nat]
      /\ reserved \subseteq [auth : Auths, token : Nat, by : Redeemers]
      /\ rpc \in [Redeemers -> {"idle", "attempt", "execute", "deliver", "confirm", "restore", "done"}]
      /\ rjob \in [Redeemers -> [auth : Auths \cup {None}, token : Nat]]
      /\ \A d \in Redeemers : Active(d) => rjob[d].auth \in Auths
  BY DEF RedeemTypeInv, RedemptionTypeOK, TypeInv, TypeOK
<1>1. CASE Next /\ UNCHANGED redemption
  <2>1. TypeInv'
    BY <1>1, <1>a, TypeStep
  <2>. QED BY <1>1, <1>a, <2>1 DEF redemption, RedeemTypeInv, RedemptionTypeOK, TypeInv, Active
<1>2. CASE UNCHANGED rvars
  <2>1. TypeInv'
    BY <1>2, <1>a, TypeStep DEF rvars
  <2>. QED BY <1>2, <1>a, <2>1 DEF rvars, redemption, RedeemTypeInv, RedemptionTypeOK, TypeInv, Active
<1>3. ASSUME NEW d \in Redeemers, RedeemStep(d) \/ CrashRedemption(d) PROVE RedeemTypeInv'
  <2>1. Beside
    BY <1>3, RedeemBeside
  <2>2. available' \in [Auths -> SUBSET Nat]
    <3>1. CASE available' = available
      BY <1>a, <3>1
    <3>2. ASSUME NEW a \in Auths, NEW n \in available[a], Consume(d, a, n)
          PROVE  available' \in [Auths -> SUBSET Nat]
      BY <1>a, <3>2 DEF Consume, Taken
    <3>3. CASE Restore(d)
      <4>1. rjob[d].auth \in Auths /\ rjob[d].token \in Nat
        BY <1>a, <3>3 DEF Restore, At, Active
      <4>. QED BY <1>a, <3>3, <4>1 DEF Restore, Returned
    <3>4. Attempt(d) \/ RunAgain(d) \/ Deliver(d) \/ Confirm(d) \/ CrashRedemption(d)
             => available' = available
      BY DEF Attempt, RunAgain, Deliver, Confirm, CrashRedemption, ledger, vars
    <3>. QED BY <1>3, <3>1, <3>2, <3>3, <3>4 DEF RedeemStep
  <2>3. delivered' \in [Auths -> Nat]
    <3>1. CASE delivered' = delivered
      BY <1>a, <3>1
    <3>2. CASE Deliver(d)
      <4>1. rjob[d].auth \in Auths
        BY <1>a, <3>2 DEF Deliver, At, Active
      <4>2. PICK sum : sum = IF op[rjob[d].auth].redeemed THEN delivered[rjob[d].auth]
                                                       ELSE delivered[rjob[d].auth] + 1
        OBVIOUS
      <4>3. sum \in Nat
        BY <1>a, <4>1, <4>2
      <4>4. delivered' = delivered \/ delivered' = [delivered EXCEPT ![rjob[d].auth] = sum]
        BY <3>2, <4>2 DEF Deliver
      <4>. QED BY <1>a, <4>1, <4>3, <4>4
    <3>3. RedeemStep(d) \/ CrashRedemption(d) => delivered' = delivered \/ Deliver(d)
      BY DEF RedeemStep, Consume, Attempt, RunAgain, Confirm, Restore, CrashRedemption, history, vars
    <3>. QED BY <1>3, <3>1, <3>2, <3>3
  <2>4. TypeInv'
    BY <1>a, <2>1, <2>2, <2>3 DEF Beside, TypeInv, TypeOK, JobOK
  <2>5. /\ rjob' \in [Redeemers -> [auth : Auths \cup {None}, token : Nat]]
        /\ reserved' \subseteq [auth : Auths, token : Nat, by : Redeemers]
        /\ rpc' \in [Redeemers -> {"idle", "attempt", "execute", "deliver", "confirm", "restore", "done"}]
        /\ \A e \in Redeemers : Active(e)' => rjob'[e].auth \in Auths
    <3>1. ASSUME NEW a \in Auths, NEW n \in available[a], Consume(d, a, n)
          PROVE  <2>5!:
      <4>1. n \in Nat
        BY <1>a
      <4>2. /\ rjob' = [rjob EXCEPT ![d] = [auth |-> a, token |-> n]]
            /\ reserved' = reserved \cup {[auth |-> a, token |-> n, by |-> d]}
            /\ rpc' = [rpc EXCEPT ![d] = "attempt"]
        BY <3>1 DEF Consume, MoveOn
      <4>. QED BY <1>a, <4>1, <4>2 DEF Active
    <3>2. ASSUME UNCHANGED rjob, reserved' \subseteq reserved, Active(d),
                 \E label \in {"execute", "deliver", "confirm", "restore", "done"} : MoveOn(d, label)
          PROVE  <2>5!:
      BY <1>a, <3>2 DEF MoveOn, Active
    <3>3. Attempt(d) \/ RunAgain(d) \/ Deliver(d) \/ Confirm(d) \/ Restore(d) \/ CrashRedemption(d)
             => /\ UNCHANGED rjob /\ reserved' \subseteq reserved /\ Active(d)
                /\ \E label \in {"execute", "deliver", "confirm", "restore", "done"} : MoveOn(d, label)
      BY DEF Attempt, RunAgain, Deliver, Confirm, Restore, CrashRedemption, At, Active
    <3>. QED BY <1>3, <3>1, <3>2, <3>3 DEF RedeemStep
  <2>. QED BY <2>4, <2>5 DEF RedeemTypeInv, RedemptionTypeOK, TypeInv
<1>. QED BY <1>1, <1>2, <1>3 DEF RedemptionNext

\* What the gateway's invariants read of a record is left alone.
LEMMA BesideSettle ==
    ASSUME RedeemTypeInv, RedeemTypeInv', SettleInv, Beside
    PROVE  SettleInv'
<1>1. \A a \in Auths : /\ op'[a].status = op[a].status /\ op'[a].life = op[a].life
                       /\ op'[a].reserved = op[a].reserved
  BY DEF Beside, OnlyOwed
<1>2. UNCHANGED <<held, pc, job, settles>>
  BY DEF Beside
<1>3. \A x \in Procs : pc[x] \notin {"idle", "done"} => job[x].auth \in Auths
  BY DEF RedeemTypeInv, TypeInv, JobOK
<1>4. RecordsOK'
  BY <1>1 DEF SettleInv, RecordsOK, RecordOK
<1>5. HeldOK'
  BY <1>2 DEF SettleInv, HeldOK, Writing, RecordOK
<1>6. SendOK'
  BY <1>1, <1>2, <1>3 DEF SettleInv, SendOK, Settling, Procs
<1>. QED BY <1>4, <1>5, <1>6 DEF SettleInv

LEMMA BesideOrder ==
    ASSUME RedeemTypeInv, RedeemTypeInv', OrderInv, Beside, CreditsOK'
    PROVE  OrderInv'
<1>1. \A a \in Auths : /\ op'[a].pid = op[a].pid /\ op'[a].status = op[a].status
                       /\ op'[a].life = op[a].life /\ op'[a].reserved = op[a].reserved
                       /\ op'[a].payload = op[a].payload /\ op'[a].claim = op[a].claim
  BY DEF Beside, OnlyOwed
<1>2. UNCHANGED <<keys, held, pc, job, chain, settles>>
  BY DEF Beside
<1>3. /\ \A x \in Procs : pc[x] \notin {"idle", "done"} => job[x].auth \in Auths
      /\ Requests \subseteq Procs /\ Auths \subseteq Procs
  BY DEF RedeemTypeInv, TypeInv, JobOK, Procs
<1>4. ShapesOK'
  BY <1>1 DEF OrderInv, ShapesOK, Shape
<1>5. BoundOK'
  BY <1>1, <1>2, <1>3 DEF OrderInv, BoundOK, Unbound
<1>6. WriteOK'
  <2> SUFFICES ASSUME NEW x \in Procs, Writing(x)'
               PROVE  op'[job'[x].auth].reserved /\ MayWrite(x)'
    BY DEF WriteOK
  <2>1. Writing(x) /\ job[x].auth \in Auths
    BY <1>2, <1>3 DEF Writing
  <2>2. op[job[x].auth].reserved /\ MayWrite(x)
    BY <2>1 DEF OrderInv, WriteOK
  <2>. QED BY <1>1, <1>2, <2>1, <2>2 DEF MayWrite, Shape
<1>7. OwnerOK'
  BY <1>1, <1>2, <1>3 DEF OrderInv, OwnerOK, Fresh
<1>8. JobsOK' /\ RefundsOK' /\ SentOK'
  BY <1>2 DEF OrderInv, JobsOK, RefundsOK, SentOK
<1>9. KeysOK'
  BY <1>1, <1>2 DEF OrderInv, KeysOK
<1>10. FailedOK'
  BY <1>1, <1>2 DEF OrderInv, FailedOK
<1>. QED BY <1>4, <1>5, <1>6, <1>7, <1>8, <1>9, <1>10 DEF OrderInv

-----------------------------------------------------------------------------
(* OwedCreditExists, whoever writes what back.  A token names one execution:  *)
(* its credit is in the index before the operation owes it, and nobody else   *)
(* can have taken a credit of that name away.                                 *)

\* The tokens of an operation are numbered by its claims, and no two processes
\* hold the same one.
TokensOK ==
    /\ \A x \in Procs : pc[x] \in Holding => job[x].token <= started[job[x].auth]
    /\ \A x, y \in Procs :
          pc[x] \in Holding /\ pc[y] \in Holding
          /\ job[x].auth = job[y].auth /\ job[x].token = job[y].token => x = y
IssuedOK ==
    /\ \A a \in Auths : \A n \in available[a] : n <= started[a]
    /\ \A d \in Redeemers : Active(d) => rjob[d].token <= started[rjob[d].auth]

\* A credit is available from the failure of its execution on, and until the
\* failure is recorded nobody redeems it.
FreshOK == \A x \in Procs : pc[x] \in Holding =>
    /\ pc[x] = "credit" <=> job[x].token \in available[job[x].auth]
    /\ \A d \in Redeemers :
          Active(d) /\ rjob[d].auth = job[x].auth => rjob[d].token # job[x].token
NumberedOK ==
    /\ \A x \in Procs : pc[x] \in Holding => job[x].token # 0
    /\ \A a \in Auths : 0 \notin available[a]
    /\ \A d \in Redeemers : Active(d) => rjob[d].token # 0
TokenInv == TokensOK /\ IssuedOK /\ FreshOK /\ NumberedOK

Outstanding(a) == op[a].status = "credited" /\ op[a].credit # 0 /\ ~op[a].redeemed

\* Only a received payment, and no seller's, owes a credit; so no record that
\* is written back names one.
CreditedOK == \A a \in Auths :
    op[a].credit # 0 => op[a].status \in Received /\ op[a].pid \notin SellerPids
WrittenOK == \A x \in Procs : Writing(x) => held[x].credit = 0
PendingOK ==
    /\ \A a \in Auths : pending[a] => op[a].status # "none" /\ op[a].pid \in SellerPids
    /\ \A a \in Auths : pc[a] = "outbox" => job[a].pid \in SellerPids

\* A redemption that confirms has fulfilled what its credit was owed for.
ConfirmOK == \A d \in Redeemers : rpc[d] = "confirm" =>
    ~(Outstanding(rjob[d].auth) /\ op[rjob[d].auth].credit = rjob[d].token)

\* What was executed once is delivered once: when it is delivered, or owed as a
\* credit, nobody executes it, and what is delivered is owed no longer.
SpentOK == \A a \in Auths : started[a] <= 1 =>
    /\ delivered[a] <= 1
    /\ delivered[a] # 0 => ~Outstanding(a)
    /\ delivered[a] # 0 \/ op[a].credit # 0 =>
          started[a] = 1 /\ \A x \in Procs : pc[x] \in Holding => job[x].auth # a
OwedInv ==
    /\ CreditedOK /\ WrittenOK /\ PendingOK /\ PresentedOK /\ ConfirmOK /\ OwedCreditExists
    /\ SpentOK

\* What a step of the gateway that records no credit does to what is owed.
OwedStays(a) ==
    /\ op[a].status # "none" => op'[a].status # "none" /\ op'[a].pid = op[a].pid
    /\ op'[a].credit # 0 => op'[a].credit = op[a].credit /\ op'[a].status \in Received
    /\ Outstanding(a)' => Outstanding(a)

LEMMA OwedStepKeeps ==
    ASSUME RedeemTypeInv, RedeemTypeInv', OwedInv, NEW x \in Procs, OthersStay(x),
           \A a \in Auths : OwedStays(a), UNCHANGED redemption,
           \A a \in Auths : available[a] \subseteq available'[a],
           \A a \in Auths : pending'[a] =>
              pending[a] \/ (op'[a].status # "none" /\ op'[a].pid \in SellerPids),
           Writing(x)' => held'[x].credit = 0,
           x \in Auths /\ pc'[x] = "outbox" => job'[x].pid \in SellerPids,
           SpentOK'
    PROVE  OwedInv'
<1>1. \A y \in Procs : y # x => pc'[y] = pc[y] /\ job'[y] = job[y] /\ held'[y] = held[y]
  BY DEF OthersStay
<1>2. UNCHANGED <<reserved, rpc, rjob>> /\ \A d \in Redeemers : Active(d) => rjob[d].auth \in Auths
  BY DEF redemption, RedeemTypeInv
<1>3. CreditedOK'
  <2> SUFFICES ASSUME NEW a \in Auths, op'[a].credit # 0
               PROVE  op'[a].status \in Received /\ op'[a].pid \notin SellerPids
    BY DEF CreditedOK
  <2>1. op'[a].credit = op[a].credit /\ op'[a].status \in Received
    BY DEF OwedStays
  <2>2. op[a].status \in Received /\ op[a].pid \notin SellerPids
    BY <2>1 DEF OwedInv, CreditedOK
  <2>3. op'[a].pid = op[a].pid
    BY <2>2 DEF OwedStays, Received
  <2>. QED BY <2>1, <2>2, <2>3
<1>4. WrittenOK'
  BY <1>1 DEF OwedInv, WrittenOK, Writing
<1>5. PendingOK'
  <2>1. ASSUME NEW a \in Auths, pending'[a]
        PROVE  op'[a].status # "none" /\ op'[a].pid \in SellerPids
    <3>1. CASE pending[a]
      <4>1. op[a].status # "none" /\ op[a].pid \in SellerPids
        BY <3>1 DEF OwedInv, PendingOK
      <4>. QED BY <4>1 DEF OwedStays
    <3>. QED BY <2>1, <3>1
  <2>2. ASSUME NEW a \in Auths, pc'[a] = "outbox" PROVE job'[a].pid \in SellerPids
    <3>1. a \in Procs
      BY DEF Procs
    <3>. QED BY <1>1, <2>2, <3>1 DEF OwedInv, PendingOK
  <2>. QED BY <2>1, <2>2 DEF PendingOK
<1>6. PresentedOK'
  <2> SUFFICES ASSUME NEW d \in Redeemers, Active(d)'
               PROVE  op'[rjob'[d].auth].status # "none" /\ op'[rjob'[d].auth].pid \notin SellerPids
    BY DEF PresentedOK
  <2>1. Active(d) /\ rjob'[d] = rjob[d] /\ rjob[d].auth \in Auths
    BY <1>2 DEF Active
  <2>2. op[rjob[d].auth].status # "none" /\ op[rjob[d].auth].pid \notin SellerPids
    BY <2>1 DEF OwedInv, PresentedOK
  <2>. QED BY <2>1, <2>2 DEF OwedStays
<1>7. ConfirmOK'
  <2> SUFFICES ASSUME NEW d \in Redeemers, rpc'[d] = "confirm", NEW a, a = rjob'[d].auth,
                      Outstanding(a)', op'[a].credit = rjob'[d].token
               PROVE  FALSE
    BY DEF ConfirmOK, Outstanding
  <2>1. rpc[d] = "confirm" /\ a = rjob[d].auth /\ a \in Auths /\ rjob'[d] = rjob[d]
    BY <1>2 DEF Active
  <2>2. Outstanding(a) /\ op'[a].credit = op[a].credit
    BY <2>1 DEF OwedStays, Outstanding
  <2>. QED BY <2>1, <2>2 DEF OwedInv, ConfirmOK
<1>8. OwedCreditExists'
  <2> SUFFICES ASSUME NEW a \in Auths, Outstanding(a)'
               PROVE  \/ op'[a].credit \in available'[a]
                      \/ \E c \in reserved' : c.auth = a /\ c.token = op'[a].credit
    BY DEF OwedCreditExists, Outstanding
  <2>1. Outstanding(a) /\ op'[a].credit = op[a].credit
    BY DEF OwedStays, Outstanding
  <2>2. \/ op[a].credit \in available[a]
        \/ \E c \in reserved : c.auth = a /\ c.token = op[a].credit
    BY <2>1 DEF OwedInv, OwedCreditExists, Outstanding
  <2>. QED BY <1>2, <2>1, <2>2
<1>. QED BY <1>3, <1>4, <1>5, <1>6, <1>7, <1>8 DEF OwedInv

\* What the step of one process writes to one record, and to none.
LEMMA OneOwedStays ==
    ASSUME TypeInv, CreditedOK, NEW a \in Auths, NEW rec, op' = [op EXCEPT ![a] = rec],
           op[a].status # "none" => rec.status # "none" /\ rec.pid = op[a].pid,
           rec.credit # 0 => rec.credit = op[a].credit /\ rec.status \in Received,
           rec.status = "credited" /\ rec.credit # 0 /\ ~rec.redeemed
              => op[a].status = "credited" /\ ~op[a].redeemed
    PROVE  \A b \in Auths : OwedStays(b)
<1>1. op'[a] = rec /\ \A b \in Auths : b # a => op'[b] = op[b]
  BY DEF TypeInv, TypeOK
<1>2. OwedStays(a)
  BY <1>1 DEF OwedStays, Outstanding
<1>3. ASSUME NEW b \in Auths, b # a PROVE OwedStays(b)
  BY <1>1, <1>3 DEF OwedStays, Outstanding, CreditedOK
<1>. QED BY <1>2, <1>3

LEMMA NoneOwedStays ==
    ASSUME CreditedOK, UNCHANGED op
    PROVE  \A a \in Auths : OwedStays(a)
  BY DEF CreditedOK, OwedStays, Outstanding

LEMMA PatchedCredit ==
    ASSUME NEW o \in Operation, NEW next
    PROVE  /\ Patched(o, next).credit = o.credit /\ Patched(o, next).redeemed = o.redeemed
           /\ Patched(o, next).status = next /\ Patched(o, next).pid = o.pid
  BY DEF Patched, Operation

\* A payment whose outcome is still open owes nothing, whatever it becomes.
LEMMA TransitionOwed ==
    ASSUME TypeInv, CreditedOK, NEW a \in Auths,
           NEW next \in {"verified", "failed", "ambiguous", "settled"}, Transition(a, next)
    PROVE  \A b \in Auths : OwedStays(b)
<1>1. op[a] \in Operation /\ op \in [Auths -> Operation] /\ next \in Statuses
  BY DEF TypeInv, TypeOK, Statuses
<1>2. CASE Accepts(op[a], next)
  <2>1. PICK rec : rec = Patched(op[a], next)
    OBVIOUS
  <2>2. op' = [op EXCEPT ![a] = rec]
    BY <1>2, <2>1 DEF Transition
  <2>3. op[a].status \notin Received
    BY <1>1, <1>2, AcceptedFrom DEF Received, Open
  <2>4. rec.status = next /\ rec.pid = op[a].pid /\ rec.credit = 0
    BY <1>1, <2>1, <2>3, PatchedCredit DEF CreditedOK
  <2>. QED BY <2>2, <2>4, OneOwedStays
<1>3. CASE ~Accepts(op[a], next)
  <2>1. op' = op
    BY <1>1, <1>3 DEF Transition
  <2>. QED BY <2>1, NoneOwedStays
<1>. QED BY <1>2, <1>3

\* Nobody begins or ends an execution, or only ends it.
LEMMA TokensStay ==
    ASSUME RedeemTypeInv, RedeemTypeInv', TokenInv, UNCHANGED <<available, started, redemption>>,
           \A x \in Procs : pc'[x] \in Holding =>
              /\ pc[x] \in Holding /\ (pc'[x] = "credit" <=> pc[x] = "credit")
              /\ job'[x].auth = job[x].auth /\ job'[x].token = job[x].token
    PROVE  TokenInv'
<1>1. /\ UNCHANGED <<reserved, rpc, rjob>>
      /\ \A x \in Procs : pc'[x] \in Holding => job[x].auth \in Auths
  BY DEF redemption, RedeemTypeInv, TypeInv, JobOK, Holding
<1>2. TokensOK'
  BY DEF TokenInv, TokensOK
<1>3. IssuedOK'
  BY <1>1 DEF TokenInv, IssuedOK, Active
<1>4. FreshOK'
  BY <1>1 DEF TokenInv, FreshOK, Active
<1>5. NumberedOK'
  BY <1>1 DEF TokenInv, NumberedOK, Active
<1>. QED BY <1>2, <1>3, <1>4, <1>5 DEF TokenInv

\* A claim takes a token that no credit and no other execution has.
LEMMA ClaimTokens ==
    ASSUME RedeemTypeInv, RedeemTypeInv', TokenInv, UNCHANGED redemption,
           NEW x \in Procs, pc[x] = "claim", Claim(x), Claimable(op[job[x].auth])
    PROVE  TokenInv'
<1>a. /\ TypeInv /\ started \in [Auths -> Nat] /\ available \in [Auths -> SUBSET Nat]
      /\ job \in [Procs -> Job] /\ rjob \in [Redeemers -> [auth : Auths \cup {None}, token : Nat]]
      /\ \A y \in Procs : pc[y] \in Holding => job[y].auth \in Auths /\ job[y].token \in Nat
      /\ \A d \in Redeemers : Active(d) => rjob[d].auth \in Auths /\ rjob[d].token \in Nat
      /\ job[x].auth \in Auths
  BY DEF RedeemTypeInv, RedemptionTypeOK, TypeInv, TypeOK, JobOK, Holding, Job
<1>b. PICK a : a = job[x].auth
  OBVIOUS
<1>c. PICK token : token = started[a] + 1
  OBVIOUS
<1>1. /\ a \in Auths /\ started'[a] = token
      /\ \A b \in Auths : b # a => started'[b] = started[b]
      /\ UNCHANGED <<available, reserved, rpc, rjob>>
  BY <1>a, <1>b, <1>c DEF Claim, ledger, redemption
<1>2. /\ OthersStay(x) /\ pc'[x] = "execute" /\ job'[x].auth = a /\ job'[x].token = token
  BY <1>a, <1>b, <1>c, TokenTaken
<1>3. ASSUME NEW b \in Auths, NEW n \in Nat, n <= started[b]
      PROVE  n <= started'[b] /\ (b = a => n # token)
  BY <1>1, <1>3, <1>a, <1>c
<1>4. ASSUME NEW y \in Procs, y # x, pc'[y] \in Holding
      PROVE  /\ pc[y] = pc'[y] /\ job'[y] = job[y] /\ job[y].auth \in Auths
             /\ job[y].token \in Nat /\ job[y].token <= started[job[y].auth]
  BY <1>2, <1>4, <1>a DEF OthersStay, TokenInv, TokensOK
<1>5. TokensOK'
  <2>1. ASSUME NEW y \in Procs, pc'[y] \in Holding PROVE job'[y].token <= started'[job'[y].auth]
    <3>1. CASE y = x
      BY <1>1, <1>2, <3>1, <1>c, <1>a
    <3>2. CASE y # x
      BY <1>3, <1>4, <2>1, <3>2
    <3>. QED BY <3>1, <3>2
  <2>2. ASSUME NEW y \in Procs, NEW z \in Procs, pc'[y] \in Holding, pc'[z] \in Holding,
               job'[y].auth = job'[z].auth, job'[y].token = job'[z].token
        PROVE  y = z
    <3>1. CASE y # x /\ z # x
      BY <1>4, <2>2, <3>1 DEF TokenInv, TokensOK
    <3>2. ASSUME NEW w \in Procs, w # x, pc'[w] \in Holding, job'[w].auth = a, job'[w].token = token
          PROVE  FALSE
      BY <1>3, <1>4, <3>2
    <3>. QED BY <1>2, <2>2, <3>1, <3>2
  <2>. QED BY <2>1, <2>2 DEF TokensOK
<1>6. IssuedOK'
  <2>1. ASSUME NEW b \in Auths, NEW n \in available'[b] PROVE n <= started'[b]
    <3>1. n \in Nat /\ n <= started[b]
      BY <1>1, <1>a, <2>1 DEF TokenInv, IssuedOK
    <3>. QED BY <3>1, <1>3
  <2>2. ASSUME NEW d \in Redeemers, Active(d)' PROVE rjob'[d].token <= started'[rjob'[d].auth]
    <3>1. Active(d) /\ rjob'[d] = rjob[d]
      BY <1>1, <2>2 DEF Active
    <3>2. rjob[d].token <= started[rjob[d].auth]
      BY <3>1 DEF TokenInv, IssuedOK
    <3>. QED BY <3>1, <3>2, <1>a, <1>3
  <2>. QED BY <2>1, <2>2 DEF IssuedOK
<1>7. FreshOK'
  <2> SUFFICES ASSUME NEW y \in Procs, pc'[y] \in Holding
               PROVE  /\ pc'[y] = "credit" <=> job'[y].token \in available'[job'[y].auth]
                      /\ \A d \in Redeemers : Active(d)' /\ rjob'[d].auth = job'[y].auth
                           => rjob'[d].token # job'[y].token
    BY DEF FreshOK
  <2>1. CASE y # x
    BY <1>1, <1>4, <2>1 DEF TokenInv, FreshOK, Active
  <2>2. CASE y = x
    <3>1. token \notin available[a]
      <4>1. token \in available[a] => token \in Nat /\ token <= started[a]
        BY <1>1, <1>a DEF TokenInv, IssuedOK
      <4>. QED BY <4>1, <1>1, <1>3
    <3>2. ASSUME NEW d \in Redeemers, Active(d), rjob[d].auth = a PROVE rjob[d].token # token
      <4>1. rjob[d].token \in Nat /\ rjob[d].token <= started[a]
        BY <3>2, <1>a DEF TokenInv, IssuedOK
      <4>. QED BY <4>1, <1>1, <1>3
    <3>. QED BY <1>1, <1>2, <2>2, <3>1, <3>2 DEF Active
  <2>. QED BY <2>1, <2>2
<1>8. NumberedOK'
  <2>1. token # 0
    BY <1>a, <1>1, <1>c
  <2>2. ASSUME NEW y \in Procs, pc'[y] \in Holding PROVE job'[y].token # 0
    BY <1>2, <1>4, <2>1, <2>2 DEF TokenInv, NumberedOK
  <2>3. \A b \in Auths : 0 \notin available'[b]
    BY <1>1 DEF TokenInv, NumberedOK
  <2>4. \A d \in Redeemers : Active(d)' => rjob'[d].token # 0
    BY <1>1 DEF TokenInv, NumberedOK, Active
  <2>. QED BY <2>2, <2>3, <2>4 DEF NumberedOK
<1>. QED BY <1>5, <1>6, <1>7, <1>8 DEF TokenInv

\* An execution that fails puts its credit into the index.
LEMMA FailureTokens ==
    ASSUME RedeemTypeInv, RedeemTypeInv', TokenInv, UNCHANGED <<started, redemption>>,
           NEW x \in Procs, pc[x] = "execute", Goto(x, "credit"), OthersStay(x),
           NEW a, a = job[x].auth,
           available' = [available EXCEPT ![a] = @ \cup {job[x].token}]
    PROVE  TokenInv'
<1>a. /\ TypeInv /\ available \in [Auths -> SUBSET Nat]
      /\ \A y \in Procs : pc[y] \in Holding => job[y].auth \in Auths /\ job[y].token \in Nat
      /\ \A d \in Redeemers : Active(d) => rjob[d].auth \in Auths
      /\ a \in Auths /\ x \in Procs /\ pc \in [Procs -> Labels]
  BY DEF RedeemTypeInv, RedemptionTypeOK, TypeInv, TypeOK, JobOK, Holding, Job
<1>b. PICK token : token = job[x].token
  OBVIOUS
<1>1. /\ UNCHANGED <<reserved, rpc, rjob, job>> /\ pc'[x] = "credit"
      /\ available'[a] = available[a] \cup {token}
      /\ \A b \in Auths : b # a => available'[b] = available[b]
  BY <1>a, <1>b DEF redemption, Goto
<1>2. ASSUME NEW y \in Procs, pc'[y] \in Holding PROVE pc[y] \in Holding
  BY <1>2 DEF OthersStay, Holding
<1>3. TokensOK'
  BY <1>1, <1>2 DEF TokenInv, TokensOK
<1>4. token <= started[a]
  BY <1>b DEF TokenInv, TokensOK, Holding
<1>5. IssuedOK'
  BY <1>1, <1>4 DEF TokenInv, IssuedOK, Active
<1>6. FreshOK'
  <2> SUFFICES ASSUME NEW y \in Procs, pc'[y] \in Holding
               PROVE  /\ pc'[y] = "credit" <=> job'[y].token \in available'[job'[y].auth]
                      /\ \A d \in Redeemers : Active(d)' /\ rjob'[d].auth = job'[y].auth
                           => rjob'[d].token # job'[y].token
    BY DEF FreshOK
  <2>1. \A d \in Redeemers : Active(d)' /\ rjob'[d].auth = job'[y].auth
           => rjob'[d].token # job'[y].token
    BY <1>1, <1>2 DEF TokenInv, FreshOK, Active
  <2>2. CASE y = x
    BY <1>1, <1>b, <2>1, <2>2
  <2>3. CASE y # x
    <3>1. pc'[y] = pc[y] /\ pc[y] \in Holding /\ job[y].auth \in Auths
      BY <1>2, <1>a, <2>3 DEF OthersStay
    <3>2. job[y].auth = a => job[y].token # token
      BY <1>b, <2>3, <3>1 DEF TokenInv, TokensOK, Holding
    <3>3. pc[y] = "credit" <=> job[y].token \in available[job[y].auth]
      BY <3>1 DEF TokenInv, FreshOK
    <3>4. job[y].token \in available[job[y].auth] <=> job[y].token \in available'[job[y].auth]
      BY <1>1, <3>1, <3>2
    <3>. QED BY <1>1, <2>1, <3>1, <3>3, <3>4
  <2>. QED BY <2>2, <2>3
<1>7. NumberedOK'
  <2>1. \A y \in Procs : pc'[y] \in Holding => job'[y].token # 0
    BY <1>1, <1>2 DEF TokenInv, NumberedOK
  <2>2. \A b \in Auths : 0 \notin available'[b]
    BY <1>1, <1>b DEF TokenInv, NumberedOK, Holding
  <2>3. \A d \in Redeemers : Active(d)' => rjob'[d].token # 0
    BY <1>1 DEF TokenInv, NumberedOK, Active
  <2>. QED BY <2>1, <2>2, <2>3 DEF NumberedOK
<1>. QED BY <1>3, <1>5, <1>6, <1>7 DEF TokenInv

\* Nobody begins an execution and nothing is delivered.
LEMMA QuietSpends ==
    ASSUME SpentOK, UNCHANGED <<started, delivered>>, \A a \in Auths : OwedStays(a),
           \A x \in Procs : pc'[x] \in Holding =>
              pc[x] \in Holding /\ job'[x].auth = job[x].auth
    PROVE  SpentOK'
<1> SUFFICES ASSUME NEW a \in Auths, started[a] <= 1
             PROVE  /\ delivered[a] <= 1
                    /\ delivered[a] # 0 => ~Outstanding(a)'
                    /\ delivered[a] # 0 \/ op'[a].credit # 0 =>
                          /\ started[a] = 1
                          /\ \A x \in Procs : pc'[x] \in Holding => job'[x].auth # a
  BY DEF SpentOK
<1>1. (Outstanding(a)' => Outstanding(a)) /\ (op'[a].credit # 0 => op[a].credit # 0)
  BY DEF OwedStays
<1>. QED BY <1>1 DEF SpentOK

\* An execution begins: a first one finds nothing delivered and nothing owed.
LEMMA ClaimSpends ==
    ASSUME TypeInv, SpentOK, UNCHANGED delivered, \A a \in Auths : OwedStays(a),
           NEW x \in Procs, NEW a, a = job[x].auth, a \in Auths, OthersStay(x),
           started' = [started EXCEPT ![a] = @ + 1], job'[x].auth = a
    PROVE  SpentOK'
<1> SUFFICES ASSUME NEW b \in Auths, started'[b] <= 1
             PROVE  /\ delivered[b] <= 1
                    /\ delivered[b] # 0 => ~Outstanding(b)'
                    /\ delivered[b] # 0 \/ op'[b].credit # 0 =>
                          /\ started'[b] = 1
                          /\ \A y \in Procs : pc'[y] \in Holding => job'[y].auth # b
  BY DEF SpentOK
<1>1. (Outstanding(b)' => Outstanding(b)) /\ (op'[b].credit # 0 => op[b].credit # 0)
  BY DEF OwedStays
<1>2. started \in [Auths -> Nat] /\ delivered \in [Auths -> Nat]
  BY DEF TypeInv, TypeOK
<1>3. CASE b = a
  <2>1. started[a] = 0
    BY <1>2, <1>3
  <2>2. delivered[a] = 0 /\ op[a].credit = 0
    BY <2>1 DEF SpentOK
  <2>. QED BY <1>1, <1>3, <2>2
<1>4. CASE b # a
  <2>1. started'[b] = started[b]
    BY <1>2, <1>4
  <2>2. \A y \in Procs : pc'[y] \in Holding /\ y # x => pc[y] \in Holding /\ job'[y] = job[y]
    BY DEF OthersStay
  <2>. QED BY <1>1, <1>4, <2>1, <2>2 DEF SpentOK
<1>. QED BY <1>3, <1>4

\* Whoever executes what is executed once is the only one, and before it ends
\* nothing is delivered and nothing owed.
LEMMA OnlyHolder ==
    ASSUME RedeemTypeInv, TokenInv, SpentOK, NEW x \in Procs, pc[x] \in Holding,
           NEW a, a = job[x].auth, started[a] <= 1
    PROVE  /\ delivered[a] = 0 /\ op[a].credit = 0 /\ started[a] = 1
           /\ \A y \in Procs : pc[y] \in Holding /\ job[y].auth = a => y = x
<1>1. /\ started \in [Auths -> Nat] /\ a \in Auths
      /\ \A y \in Procs : pc[y] \in Holding => job[y].token \in Nat
  BY DEF RedeemTypeInv, TypeInv, TypeOK, JobOK, Holding, Job
<1>2. \A y \in Procs : pc[y] \in Holding /\ job[y].auth = a =>
         job[y].token # 0 /\ job[y].token <= started[a]
  BY DEF TokenInv, TokensOK, NumberedOK
<1>3. \A y \in Procs : pc[y] \in Holding /\ job[y].auth = a => job[y].token = 1
  BY <1>1, <1>2
<1>4. started[a] = 1
  BY <1>1, <1>2
<1>5. \A y \in Procs : pc[y] \in Holding /\ job[y].auth = a => y = x
  BY <1>3 DEF TokenInv, TokensOK
<1>6. delivered[a] = 0 /\ op[a].credit = 0
  BY <1>1 DEF SpentOK
<1>. QED BY <1>4, <1>5, <1>6

\* A process that gives up stores nothing that it would write back.
LEMMA GiveUpStays ==
    ASSUME TypeInv, CreditedOK, NEW r \in Requests, pc[r] \notin {"idle", "done"},
           NEW outcome \in {"failed", "ambiguous"}, GiveUp(r, outcome)
    PROVE  /\ OthersStay(r) /\ pc'[r] = "finalize" /\ ~Writing(r)' /\ UNCHANGED pending
           /\ \A a \in Auths : OwedStays(a)
<1>1. r \in Procs /\ r \notin Auths /\ job[r].auth \in Auths
  BY ProcessAssumption DEF Procs, TypeInv, JobOK
<1>2. \A a \in Auths : OwedStays(a)
  BY <1>1, TransitionOwed DEF GiveUp
<1>3. OthersStay(r) /\ pc'[r] = "finalize" /\ UNCHANGED pending
  BY <1>1, ReportContinues DEF GiveUp, Continues
<1>. QED BY <1>1, <1>2, <1>3 DEF Writing

\* What is stored for the seller ledger is of a seller, and owes no credit.
LEMMA StoredStaysOwed ==
    ASSUME TypeInv, NEW x \in Procs, NEW rec, NEW outcome, pc[x] \notin {"idle", "done"},
           Stored(x, rec, outcome), rec.pid \in SellerPids => rec.credit = 0,
           outcome # "settled" \/ x \in Requests,
           NEW a, a = job[x].auth, op'[a] = rec, rec.status # "none"
    PROVE  /\ OthersStay(x) /\ pc'[x] \in {"sync", "finalize"}
           /\ Writing(x)' => held'[x].credit = 0
           /\ \A b \in Auths : pending'[b] =>
                 pending[b] \/ (op'[b].status # "none" /\ op'[b].pid \in SellerPids)
<1>1. /\ held \in [Procs -> Operation] /\ pending \in [Auths -> BOOLEAN]
      /\ x \in Auths => x \notin Requests
  BY ProcessAssumption DEF TypeInv, TypeOK
<1>2. CASE rec.pid \in SellerPids
  <2>1. /\ pending' = [pending EXCEPT ![a] = TRUE] /\ held' = [held EXCEPT ![x] = rec]
        /\ Report(x, "sync", outcome)
    BY <1>2 DEF Stored
  <2>2. held'[x].credit = 0 /\ \A y \in Procs \ {x} : held'[y] = held[y]
    BY <1>1, <1>2, <2>1
  <2>3. OthersStay(x) /\ pc'[x] = "sync"
    BY <2>1, <2>2, ReportContinues DEF Continues
  <2>4. \A b \in Auths : pending'[b] => pending[b] \/ b = a
    BY <1>1, <2>1
  <2>. QED BY <1>2, <2>2, <2>3, <2>4
<1>3. CASE rec.pid \notin SellerPids
  <2>1. Report(x, "finalize", outcome) /\ UNCHANGED <<pending, held>>
    BY <1>3 DEF Stored
  <2>2. OthersStay(x) /\ pc'[x] = "finalize" /\ job'[x].outcome = outcome
    BY <2>1, ReportContinues DEF Continues
  <2>3. ~Writing(x)'
    BY <1>1, <2>2 DEF Writing
  <2>. QED BY <2>1, <2>2, <2>3
<1>. QED BY <1>2, <1>3

\* Every step of the gateway keeps what is owed.
LEMMA GatewayOwes ==
    RedeemTypeInv /\ SettleInv /\ OrderInv /\ TokenInv /\ OwedInv /\ Next /\ UNCHANGED redemption
    => TokenInv' /\ OwedInv'
<1> SUFFICES ASSUME RedeemTypeInv, SettleInv, OrderInv, TokenInv, OwedInv, Next,
                    UNCHANGED redemption
             PROVE  TokenInv' /\ OwedInv'
  OBVIOUS
<1>t. TypeInv /\ RedeemTypeInv' /\ CreditedOK /\ SpentOK
  BY RedeemTypeStep DEF RedemptionNext, RedeemTypeInv, OwedInv
<1>b. /\ op \in [Auths -> Operation] /\ held \in [Procs -> Operation]
      /\ pc \in [Procs -> Labels] /\ job \in [Procs -> Job] /\ pending \in [Auths -> BOOLEAN]
      /\ available \in [Auths -> SUBSET Nat]
      /\ Requests \subseteq Procs /\ Auths \subseteq Procs /\ Requests \cap Auths = {}
  BY <1>t, ProcessAssumption DEF TypeInv, TypeOK, Procs
<1>p. \A x \in Procs : pc[x] \notin {"idle", "done"} => job[x].auth \in Auths
  BY <1>t DEF TypeInv, JobOK
<1>g. ASSUME NEW x \in Procs, OthersStay(x), \A a \in Auths : OwedStays(a),
             UNCHANGED <<available, started>>, UNCHANGED delivered \/ SpentOK',
             pc'[x] \in Holding => pc[x] \in Holding /\ (pc'[x] = "credit" <=> pc[x] = "credit")
                                   /\ SameJob(x) /\ job'[x].token = job[x].token,
             \A a \in Auths : pending'[a] =>
                pending[a] \/ (op'[a].status # "none" /\ op'[a].pid \in SellerPids),
             Writing(x)' => held'[x].credit = 0,
             x \in Auths /\ pc'[x] = "outbox" => job'[x].pid \in SellerPids
      PROVE  TokenInv' /\ OwedInv'
  <2>1. \A y \in Procs : pc'[y] \in Holding =>
           /\ pc[y] \in Holding /\ (pc'[y] = "credit" <=> pc[y] = "credit")
           /\ job'[y].auth = job[y].auth /\ job'[y].token = job[y].token
    BY <1>g DEF OthersStay, SameJob
  <2>2. TokenInv'
    BY <1>t, <1>g, <2>1, TokensStay
  <2>3. SpentOK'
    BY <1>t, <1>g, <2>1, QuietSpends
  <2>. QED BY <1>t, <1>g, <2>2, <2>3, OwedStepKeeps
\* Steps that store nothing and begin no execution.
<1>q. ASSUME NEW x \in Procs, OthersStay(x), UNCHANGED <<op, available, started, delivered, pending>>,
             pc'[x] \notin Holding, ~Writing(x)'
      PROVE  TokenInv' /\ OwedInv'
  <2>1. \A a \in Auths : OwedStays(a)
    BY <1>q, <1>t, NoneOwedStays
  <2>. QED BY <1>g, <1>q, <2>1 DEF Writing
<1>e. ASSUME NEW r \in Requests, pc[r] \notin {"idle", "done"},
             UNCHANGED <<held, op, available, started, delivered, pending>>, Finish(r)
      PROVE  TokenInv' /\ OwedInv'
  <2>1. OthersStay(r) /\ pc'[r] \in {"idle", "done"}
    BY <1>b, <1>e, <1>t, FinishContinues DEF Continues
  <2>. QED BY <1>b, <1>e, <1>q, <2>1 DEF Holding, Writing
<1>c. ASSUME NEW r \in Requests, pc[r] \notin {"idle", "done"},
             UNCHANGED <<held, op, available, started, delivered, pending>>, NEW label, Goto(r, label),
             label \notin {"sync", "outbox", "query"} \cup Holding
      PROVE  TokenInv' /\ OwedInv'
  <2>1. OthersStay(r) /\ pc'[r] = label
    BY <1>b, <1>c, <1>t, GotoContinues DEF Continues
  <2>. QED BY <1>b, <1>c, <1>q, <2>1 DEF Writing
<1>v. ASSUME NEW r \in Requests, pc[r] \notin {"idle", "done"}, UNCHANGED <<available, started, delivered>>,
             NEW outcome \in {"failed", "ambiguous"}, GiveUp(r, outcome)
      PROVE  TokenInv' /\ OwedInv'
  <2>1. /\ OthersStay(r) /\ pc'[r] = "finalize" /\ ~Writing(r)' /\ UNCHANGED pending
        /\ \A a \in Auths : OwedStays(a)
    BY <1>t, <1>v, GiveUpStays
  <2>. QED BY <1>b, <1>g, <1>v, <2>1 DEF Holding
<1>1. ASSUME NEW r \in Requests, NEW p \in Pids, NEW a \in Auths, Reserve(r, p, a)
      PROVE  TokenInv' /\ OwedInv'
  <2>1. /\ OthersStay(r) /\ pc'[r] \in {"select", "peek", "done"}
        /\ UNCHANGED <<op, available, started, delivered, pending>>
    BY <1>1, <1>b DEF Reserve, Finish, OthersStay, object, history
  <2>. QED BY <1>b, <1>q, <2>1 DEF Holding, Writing
<1>2. ASSUME NEW r \in Requests, SelectFacilitator(r) PROVE TokenInv' /\ OwedInv'
  BY <1>2, <1>c DEF SelectFacilitator, object, ledger, history, Holding
<1>3. ASSUME NEW r \in Requests, Peek(r) PROVE TokenInv' /\ OwedInv'
  BY <1>3, <1>c, <1>e DEF Peek, AwaitPreparation, object, ledger, history, Holding
<1>4. ASSUME NEW r \in Requests, Release(r) PROVE TokenInv' /\ OwedInv'
  BY <1>4, <1>e DEF Release, object, history
<1>5. ASSUME NEW r \in Requests, Begin(r) PROVE TokenInv' /\ OwedInv'
  <2>0. /\ pc[r] = "begin" /\ UNCHANGED <<held, pending, available, started, delivered>>
        /\ job[r].auth \in Auths
    BY <1>5, <1>p, <1>b DEF Begin, ledger, history
  <2>1. CASE UNCHANGED op /\ (Goto(r, "release") \/ Goto(r, "claim") \/ Finish(r))
    BY <1>c, <1>e, <2>0, <2>1 DEF Holding
  <2>2. CASE /\ op[job[r].auth].status = "none" /\ Goto(r, "verify")
             /\ op' = [op EXCEPT ![job[r].auth] = NewOperation(job[r].pid)]
    <3>1. PICK rec : rec = NewOperation(job[r].pid)
      OBVIOUS
    <3>2. rec.credit = 0
      BY <3>1 DEF NewOperation, NoOperation
    <3>3. \A b \in Auths : OwedStays(b)
      BY <1>t, <2>0, <2>2, <3>1, <3>2, OneOwedStays
    <3>4. OthersStay(r) /\ pc'[r] = "verify"
      BY <1>b, <1>t, <2>0, <2>2, GotoContinues DEF Continues
    <3>. QED BY <1>b, <1>g, <2>0, <3>3, <3>4 DEF Holding, Writing
  <2>. QED BY <1>5, <2>1, <2>2 DEF Begin
<1>6. ASSUME NEW r \in Requests, Verify(r) PROVE TokenInv' /\ OwedInv'
  <2>0. pc[r] = "verify" /\ UNCHANGED <<available, started, delivered>> /\ job[r].auth \in Auths
    BY <1>6, <1>p, <1>b DEF Verify, ledger, history
  <2>1. CASE GiveUp(r, "failed")
    BY <1>v, <2>0, <2>1
  <2>2. CASE /\ Transition(job[r].auth, "verified") /\ UNCHANGED <<pending, held>>
             /\ Goto(r, "key") \/ Finish(r)
    <3>1. \A b \in Auths : OwedStays(b)
      BY <1>t, <2>0, <2>2, TransitionOwed
    <3>2. OthersStay(r) /\ pc'[r] \in {"key", "idle", "done"}
      BY <1>b, <1>t, <2>0, <2>2, GotoContinues, FinishContinues DEF Continues
    <3>. QED BY <1>b, <1>g, <2>0, <2>2, <3>1, <3>2 DEF Holding, Writing
  <2>. QED BY <1>6, <2>1, <2>2 DEF Verify
<1>7. ASSUME NEW r \in Requests, ReserveKey(r) PROVE TokenInv' /\ OwedInv'
  <2>0. pc[r] = "key" /\ UNCHANGED <<available, started, delivered>>
    BY <1>7 DEF ReserveKey, history
  <2>1. CASE GiveUp(r, "failed")
    BY <1>v, <2>0, <2>1
  <2>2. CASE Goto(r, "book") /\ UNCHANGED object
    BY <1>c, <2>0, <2>2 DEF object, Holding
  <2>. QED BY <1>7, <2>1, <2>2 DEF ReserveKey
<1>8. ASSUME NEW r \in Requests, Book(r) PROVE TokenInv' /\ OwedInv'
  <2>0. pc[r] = "book" /\ UNCHANGED <<held, pending, available, started, delivered>> /\ job[r].auth \in Auths
    BY <1>8, <1>p, <1>b DEF Book, ledger, history
  <2>1. CASE UNCHANGED op /\ Finish(r)
    BY <1>e, <2>0, <2>1
  <2>2. ASSUME NEW life, Goto(r, "submit") \/ Finish(r),
               NEW a, a = job[r].auth, op' = [op EXCEPT ![a] = [@ EXCEPT !.reserved = TRUE, !.life = life]],
               op[a].status = "verified"
        PROVE  TokenInv' /\ OwedInv'
    <3>1. PICK rec : rec = [op[a] EXCEPT !.reserved = TRUE, !.life = life]
      OBVIOUS
    <3>2. rec.credit = op[a].credit /\ rec.status = "verified" /\ rec.pid = op[a].pid
      BY <1>b, <2>0, <2>2, <3>1 DEF Operation
    <3>3. op[a].credit = 0
      BY <1>t, <2>0, <2>2 DEF CreditedOK, Received
    <3>4. op' = [op EXCEPT ![a] = rec]
      BY <2>2, <3>1
    <3>5. \A b \in Auths : OwedStays(b)
      BY <1>t, <2>0, <2>2, <3>2, <3>3, <3>4, OneOwedStays
    <3>6. OthersStay(r) /\ pc'[r] \in {"submit", "idle", "done"}
      BY <1>b, <1>t, <2>0, <2>2, GotoContinues, FinishContinues DEF Continues
    <3>. QED BY <1>b, <1>g, <2>0, <3>5, <3>6 DEF Holding, Writing
  <2>. QED BY <1>8, <2>1, <2>2 DEF Book
<1>9. ASSUME NEW r \in Requests, Submit(r) PROVE TokenInv' /\ OwedInv'
  BY <1>9, <1>c DEF Submit, object, ledger, Holding
<1>10. ASSUME NEW r \in Requests, Reply(r) PROVE TokenInv' /\ OwedInv'
  <2>0. pc[r] = "reply" /\ UNCHANGED <<available, started, delivered>>
    BY <1>10 DEF Reply, ledger, history
  <2>1. ASSUME NEW label \in {"evidence", "commit"}, Goto(r, label), UNCHANGED object
        PROVE  TokenInv' /\ OwedInv'
    BY <1>c, <2>0, <2>1 DEF object, Holding
  <2>. QED BY <1>10, <1>v, <2>0, <2>1 DEF Reply, Unclear
<1>11. ASSUME NEW r \in Requests, CheckEvidence(r) PROVE TokenInv' /\ OwedInv'
  <2>0. pc[r] = "evidence" /\ UNCHANGED <<available, started, delivered>>
    BY <1>11 DEF CheckEvidence, ledger, history
  <2>1. CASE Goto(r, "commit") /\ UNCHANGED object
    BY <1>c, <2>0, <2>1 DEF object, Holding
  <2>. QED BY <1>11, <1>v, <2>0, <2>1 DEF CheckEvidence
<1>12. ASSUME NEW r \in Requests, Commit(r) PROVE TokenInv' /\ OwedInv'
  <2>0. pc[r] = "commit" /\ UNCHANGED <<available, started, delivered>> /\ job[r].auth \in Auths
    BY <1>12, <1>p, <1>b DEF Commit, ledger, history
  <2>1. \A b \in Auths : OwedStays(b)
    BY <1>12, <1>t, <2>0, TransitionOwed DEF Commit
  <2>2. CASE Finish(r) /\ UNCHANGED <<pending, held>>
    <3>1. OthersStay(r) /\ pc'[r] \in {"idle", "done"}
      BY <1>b, <1>t, <2>0, <2>2, FinishContinues DEF Continues
    <3>. QED BY <1>b, <1>g, <2>0, <2>1, <2>2, <3>1 DEF Holding, Writing
  <2>3. CASE Accepts(op[job[r].auth], "settled")
             /\ Stored(r, Patched(op[job[r].auth], "settled"), "settled")
    <3>1. PICK a : a = job[r].auth
      OBVIOUS
    <3>2. PICK rec : rec = Patched(op[a], "settled")
      OBVIOUS
    <3>3. op'[a] = rec
      BY <1>12, <1>b, <2>0, <2>3, <3>1, <3>2 DEF Commit, Transition
    <3>4. rec.status = "settled" /\ rec.credit = op[a].credit
      BY <1>b, <2>0, <3>1, <3>2, PatchedCredit
    <3>5. op[a].status \notin Received
      BY <1>b, <2>0, <2>3, <3>1, AcceptedFrom DEF Statuses, Received
    <3>6. rec.credit = 0
      BY <1>t, <2>0, <3>1, <3>4, <3>5 DEF CreditedOK
    <3>7. /\ OthersStay(r) /\ pc'[r] \in {"sync", "finalize"}
          /\ Writing(r)' => held'[r].credit = 0
          /\ \A b \in Auths : pending'[b] =>
                pending[b] \/ (op'[b].status # "none" /\ op'[b].pid \in SellerPids)
      BY <1>b, <1>t, <2>0, <2>3, <3>1, <3>2, <3>3, <3>4, <3>6, StoredStaysOwed
    <3>. QED BY <1>b, <1>g, <2>0, <2>1, <3>7 DEF Holding
  <2>. QED BY <1>12, <2>2, <2>3 DEF Commit
<1>13. ASSUME NEW x \in Procs, Sync(x) PROVE TokenInv' /\ OwedInv'
  <2>0. /\ pc[x] = "sync" /\ UNCHANGED <<available, started, delivered>> /\ job[x].auth \in Auths
        /\ held' = [held EXCEPT ![x] = NoOperation]
    BY <1>13, <1>p DEF Sync, ledger, history
  <2>1. held'[x].credit = 0 /\ \A y \in Procs \ {x} : held'[y] = held[y]
    BY <1>b, <2>0 DEF NoOperation
  <2>2. \E label \in {"claim", "finalize"} : Finish(x) \/ Goto(x, label)
    BY <1>13 DEF Sync
  <2>3. OthersStay(x) /\ pc'[x] \in {"claim", "finalize", "idle", "done"}
    BY <1>t, <2>0, <2>1, <2>2, GotoContinues, FinishContinues DEF Continues
  <2>4. \A b \in Auths : OwedStays(b)
    <3>1. CASE UNCHANGED op
      BY <1>t, <3>1, NoneOwedStays
    <3>2. CASE op' = [op EXCEPT ![job[x].auth] = held[x]]
      <4>1. held[x].credit = 0
        BY <2>0 DEF Writing, OwedInv, WrittenOK
      <4>2. held[x].pid = job[x].pid /\ held[x].status # "none"
        BY <2>0 DEF Writing, OrderInv, WriteOK, MayWrite, Received
      <4>3. op[job[x].auth].pid = job[x].pid
        BY <2>0 DEF OrderInv, BoundOK, Unbound
      <4>. QED BY <1>t, <2>0, <3>2, <4>1, <4>2, <4>3, OneOwedStays
    <3>. QED BY <1>13, <3>1, <3>2 DEF Sync
  <2>5. \A b \in Auths : pending'[b] => pending[b]
    BY <1>13, <1>b, <2>0 DEF Sync
  <2>. QED BY <1>g, <2>0, <2>1, <2>3, <2>4, <2>5 DEF Holding
<1>14. ASSUME NEW x \in Procs, Finalize(x) PROVE TokenInv' /\ OwedInv'
  <2>0. /\ pc[x] = "finalize" /\ UNCHANGED <<op, pending, available, started, delivered>>
        /\ job[x].auth \in Auths
    BY <1>14, <1>p DEF Finalize, history
  <2>1. PICK unsent : unsent <=> /\ x \in Auths /\ job[x].outcome = "settled"
                                 /\ job[x].pid \in SellerPids
    OBVIOUS
  <2>2. /\ held' = IF unsent THEN held ELSE [held EXCEPT ![x] = NoOperation]
        /\ IF job[x].outcome = "settled"
           THEN Goto(x, IF unsent THEN "outbox" ELSE "claim") ELSE Finish(x)
    BY <1>14, <2>1 DEF Finalize
  <2>3. held'[x] = (IF unsent THEN held[x] ELSE NoOperation)
        /\ \A y \in Procs \ {x} : held'[y] = held[y]
    BY <1>b, <2>2
  <2>4. CASE unsent
    <3>1. OthersStay(x) /\ pc'[x] = "outbox" /\ job' = job
      BY <1>t, <2>0, <2>1, <2>2, <2>3, <2>4, GotoContinues DEF Continues
    <3>2. held'[x].credit = 0
      BY <2>0, <2>1, <2>3, <2>4 DEF Writing, OwedInv, WrittenOK
    <3>3. \A b \in Auths : OwedStays(b)
      BY <1>t, <2>0, NoneOwedStays
    <3>. QED BY <1>g, <2>0, <2>1, <2>4, <3>1, <3>2, <3>3 DEF Holding
  <2>5. CASE ~unsent
    <3>1. OthersStay(x) /\ pc'[x] \in {"claim", "idle", "done"}
      BY <1>t, <2>0, <2>2, <2>3, <2>5, GotoContinues, FinishContinues DEF Continues
    <3>. QED BY <1>q, <2>0, <3>1 DEF Holding, Writing
  <2>. QED BY <2>4, <2>5
<1>15. ASSUME NEW x \in Procs, Claim(x) PROVE TokenInv' /\ OwedInv'
  <2>0. pc[x] = "claim" /\ UNCHANGED <<held, pending, available, delivered>> /\ job[x].auth \in Auths
    BY <1>15, <1>p DEF Claim, ledger
  <2>1. CASE ~Claimable(op[job[x].auth])
    <3>1. UNCHANGED <<op, started>> /\ Finish(x)
      BY <1>15, <2>1 DEF Claim
    <3>2. OthersStay(x) /\ pc'[x] \in {"idle", "done"}
      BY <1>t, <2>0, <3>1, FinishContinues DEF Continues
    <3>. QED BY <1>q, <2>0, <3>1, <3>2 DEF Holding, Writing
  <2>2. CASE Claimable(op[job[x].auth])
    <3>1. TokenInv'
      BY <1>15, <1>t, <2>0, <2>2, ClaimTokens
    <3>2. OthersStay(x) /\ pc'[x] = "execute"
      BY <1>15, <1>t, <2>2, TokenTaken
    <3>a. PICK a : a = job[x].auth
      OBVIOUS
    <3>b. PICK token : token = started[a] + 1
      OBVIOUS
    <3>3. PICK rec : rec = [op[a] EXCEPT !.claim = token, !.life = "EXECUTION_STARTED"]
      OBVIOUS
    <3>4. op' = [op EXCEPT ![a] = rec] /\ op[a].status \in Received
      BY <1>15, <2>2, <3>a, <3>b, <3>3 DEF Claim, Claimable, Received
    <3>5. /\ rec.credit = op[a].credit /\ rec.status = op[a].status /\ rec.pid = op[a].pid
          /\ rec.redeemed = op[a].redeemed
      BY <1>b, <2>0, <3>a, <3>3 DEF Operation
    <3>6. \A b \in Auths : OwedStays(b)
      BY <1>t, <2>0, <3>a, <3>4, <3>5, OneOwedStays
    <3>7. job'[x].auth = a /\ started' = [started EXCEPT ![a] = @ + 1]
      BY <1>15, <1>t, <2>2, <3>a, TokenTaken DEF Claim
    <3>8. SpentOK'
      BY <1>t, <2>0, <3>2, <3>6, <3>7, <3>a, ClaimSpends
    <3>. QED BY <1>t, <2>0, <3>1, <3>2, <3>6, <3>8, OwedStepKeeps DEF Writing
  <2>. QED BY <2>1, <2>2
<1>16. ASSUME NEW x \in Procs, Execute(x) PROVE TokenInv' /\ OwedInv'
  <2>0. pc[x] = "execute" /\ UNCHANGED <<started, delivered>> /\ job[x].auth \in Auths
    BY <1>16, <1>p DEF Execute, history
  <2>1. CASE UNCHANGED <<object, available>> /\ Goto(x, "complete")
    <3>1. OthersStay(x) /\ pc'[x] = "complete" /\ job' = job
      BY <1>t, <2>0, <2>1, GotoContinues DEF Continues, object
    <3>2. \A b \in Auths : OwedStays(b)
      BY <1>t, <2>1, NoneOwedStays DEF object
    <3>. QED BY <1>g, <2>0, <2>1, <3>1, <3>2 DEF object, Holding, Writing, SameJob
  <2>2. CASE UNCHANGED <<object, available>> /\ Report(x, "finalize", "credited")
    <3>1. OthersStay(x) /\ pc'[x] = "finalize" /\ job'[x].outcome = "credited"
      BY <1>t, <2>0, <2>2, ReportContinues DEF Continues, object
    <3>. QED BY <1>q, <2>0, <2>2, <3>1 DEF object, Holding, Writing
  <2>3. ASSUME NEW a, a = job[x].auth, NEW rec, rec = HoldForReview(op[a]),
               op' = [op EXCEPT ![a] = rec], Stored(x, rec, "credited"),
               job[x].pid \in SellerPids, UNCHANGED available
        PROVE  TokenInv' /\ OwedInv'
    <3>1. rec.credit = op[a].credit /\ rec.pid = op[a].pid /\ rec.status = "credited"
      BY <1>b, <2>0, <2>3, PatchedCredit DEF HoldForReview
    <3>2. op[a].pid \in SellerPids /\ op[a].status # "none"
      BY <2>0, <2>3 DEF OrderInv, BoundOK, Unbound
    <3>3. rec.credit = 0
      BY <1>t, <2>0, <2>3, <3>1, <3>2 DEF CreditedOK
    <3>4. \A b \in Auths : OwedStays(b)
      BY <1>t, <2>0, <2>3, <3>1, <3>3, OneOwedStays
    <3>5. op'[a] = rec
      BY <1>b, <2>0, <2>3
    <3>6. /\ OthersStay(x) /\ pc'[x] \in {"sync", "finalize"}
          /\ Writing(x)' => held'[x].credit = 0
          /\ \A b \in Auths : pending'[b] =>
                pending[b] \/ (op'[b].status # "none" /\ op'[b].pid \in SellerPids)
      BY <1>t, <2>0, <2>3, <3>1, <3>3, <3>5, StoredStaysOwed
    <3>. QED BY <1>g, <2>0, <2>3, <3>4, <3>6 DEF Holding
  <2>4. ASSUME NEW a, a = job[x].auth, Goto(x, "credit"), UNCHANGED object,
               available' = [available EXCEPT ![a] = @ \cup {job[x].token}]
        PROVE  TokenInv' /\ OwedInv'
    <3>1. OthersStay(x) /\ pc'[x] = "credit"
      BY <1>t, <2>0, <2>4, GotoContinues DEF Continues, object
    <3>2. TokenInv'
      BY <1>t, <2>0, <2>4, <3>1, FailureTokens
    <3>3. \A b \in Auths : OwedStays(b)
      BY <1>t, <2>4, NoneOwedStays DEF object
    <3>4. \A b \in Auths : available[b] \subseteq available'[b]
      BY <1>b, <2>0, <2>4
    <3>5. SpentOK'
      <4>1. \A y \in Procs : pc'[y] \in Holding => pc[y] \in Holding /\ job'[y].auth = job[y].auth
        BY <2>0, <2>4, <3>1 DEF OthersStay, Goto, Holding
      <4>. QED BY <1>t, <2>0, <3>3, <4>1, QuietSpends
    <3>. QED BY <1>t, <2>4, <3>1, <3>2, <3>3, <3>4, <3>5, OwedStepKeeps DEF object, Writing
  <2>. QED BY <1>16, <2>1, <2>2, <2>3, <2>4 DEF Execute
\* The only step that makes an operation owe a credit: it is in the index.
<1>17. ASSUME NEW x \in Procs, RecordCredit(x) PROVE TokenInv' /\ OwedInv'
  <2>0. /\ pc[x] = "credit" /\ job[x].auth \in Auths
        /\ UNCHANGED <<pending, held, available, started, delivered>>
    BY <1>17, <1>p DEF RecordCredit, ledger, history
  <2>1. /\ OthersStay(x) /\ pc'[x] = "finalize" /\ job'[x].outcome = "credited" /\ SameJob(x)
    BY <1>17, <1>t, <2>0, ReportContinues DEF RecordCredit, Continues
  <2>2. CASE UNCHANGED op
    BY <1>q, <2>0, <2>1, <2>2 DEF Holding, Writing
  <2>3. ASSUME NEW a, a = job[x].auth, NEW token, token = job[x].token, Accepts(op[a], "credited"),
               NEW rec, rec = [Patched(op[a], "credited") EXCEPT !.claim = 0, !.credit = token],
               op' = [op EXCEPT ![a] = rec]
        PROVE  TokenInv' /\ OwedInv'
    <3>1. /\ UNCHANGED <<reserved, rpc, rjob>> /\ a \in Auths
          /\ \A d \in Redeemers : Active(d) => rjob[d].auth \in Auths
      BY <2>0, <2>3 DEF redemption, RedeemTypeInv
    <3>2. PICK q : q = Patched(op[a], "credited")
      OBVIOUS
    <3>3. /\ q \in Operation /\ q.status = "credited" /\ q.pid = op[a].pid
      BY <1>b, <3>1, <3>2, PatchedType, PatchedCredit DEF Statuses
    <3>4. rec.status = "credited" /\ rec.pid = op[a].pid /\ rec.credit = token
      BY <2>3, <3>2, <3>3 DEF Operation
    <3>5. op'[a] = rec /\ \A b \in Auths : b # a => op'[b] = op[b]
      BY <1>b, <2>3, <3>1
    <3>6. op[a].status # "none" /\ op[a].pid \notin SellerPids
      BY <2>0, <2>3 DEF OrderInv, BoundOK, RefundsOK, Unbound
    <3>7. token \in available[a] /\ \A d \in Redeemers : Active(d) /\ rjob[d].auth = a
                                                            => rjob[d].token # token
      BY <2>0, <2>3 DEF TokenInv, FreshOK, Holding
    <3>8. TokenInv'
      <4>1. \A y \in Procs : pc'[y] \in Holding =>
               /\ pc[y] \in Holding /\ (pc'[y] = "credit" <=> pc[y] = "credit")
               /\ job'[y].auth = job[y].auth /\ job'[y].token = job[y].token
        BY <2>1 DEF OthersStay, Holding
      <4>. QED BY <1>t, <2>0, <4>1, TokensStay
    <3>9. CreditedOK'
      BY <1>t, <3>4, <3>5, <3>6 DEF CreditedOK, Received
    <3>10. WrittenOK' /\ PendingOK'
      <4>1. \A y \in Procs : Writing(y)' => Writing(y) /\ held'[y] = held[y]
        BY <2>0, <2>1 DEF OthersStay, Writing
      <4>2. WrittenOK'
        BY <4>1 DEF OwedInv, WrittenOK
      <4>3. \A b \in Auths : pc'[b] = "outbox" => pc[b] = "outbox" /\ job'[b] = job[b]
        BY <1>b, <2>1 DEF OthersStay
      <4>4. PendingOK'
        BY <2>0, <3>4, <3>5, <3>6, <4>3 DEF OwedInv, PendingOK
      <4>. QED BY <4>2, <4>4
    <3>11. PresentedOK'
      BY <3>1, <3>4, <3>5, <3>6 DEF OwedInv, PresentedOK, Active
    <3>12. ConfirmOK'
      <4> SUFFICES ASSUME NEW d \in Redeemers, rpc'[d] = "confirm", NEW b, b = rjob'[d].auth,
                          op'[b].status = "credited", op'[b].credit # 0, ~op'[b].redeemed,
                          op'[b].credit = rjob'[d].token
                   PROVE  FALSE
        BY DEF ConfirmOK, Outstanding
      <4>1. rpc[d] = "confirm" /\ rjob'[d] = rjob[d] /\ Active(d) /\ b \in Auths
        BY <3>1 DEF Active
      <4>2. CASE b = a
        BY <3>4, <3>5, <3>7, <4>1, <4>2
      <4>3. CASE b # a
        <5>1. op'[b] = op[b]
          BY <3>5, <4>1, <4>3
        <5>2. Outstanding(b) /\ op[b].credit = rjob[d].token /\ b = rjob[d].auth
          BY <4>1, <5>1 DEF Outstanding
        <5>. QED BY <4>1, <5>2 DEF OwedInv, ConfirmOK
      <4>. QED BY <4>2, <4>3
    <3>13. OwedCreditExists'
      <4> SUFFICES ASSUME NEW b \in Auths, Outstanding(b)'
                   PROVE  \/ op'[b].credit \in available'[b]
                          \/ \E c \in reserved' : c.auth = b /\ c.token = op'[b].credit
        BY DEF OwedCreditExists, Outstanding
      <4>1. CASE b = a
        BY <2>0, <3>4, <3>5, <3>7, <4>1
      <4>2. CASE b # a
        BY <2>0, <3>1, <3>5, <4>2 DEF OwedInv, OwedCreditExists, Outstanding
      <4>. QED BY <4>1, <4>2
    \* It ends the only execution.
    <3>14. SpentOK'
      <4> SUFFICES ASSUME NEW b \in Auths, started[b] <= 1
                   PROVE  /\ delivered[b] <= 1
                          /\ delivered[b] # 0 => ~Outstanding(b)'
                          /\ delivered[b] # 0 \/ op'[b].credit # 0 =>
                                /\ started[b] = 1
                                /\ \A y \in Procs : pc'[y] \in Holding => job'[y].auth # b
        BY <2>0 DEF SpentOK
      <4>1. \A y \in Procs : pc'[y] \in Holding => y # x /\ pc[y] \in Holding /\ job'[y] = job[y]
        BY <2>1 DEF OthersStay, Holding
      <4>2. CASE b = a
        <5>1. /\ delivered[a] = 0 /\ started[a] = 1
              /\ \A y \in Procs : pc[y] \in Holding /\ job[y].auth = a => y = x
          BY <1>t, <2>0, <2>3, <4>2, OnlyHolder DEF Holding
        <5>. QED BY <4>1, <4>2, <5>1
      <4>3. CASE b # a
        <5>1. op'[b] = op[b]
          BY <3>5, <4>3
        <5>. QED BY <1>t, <4>1, <5>1 DEF SpentOK, Outstanding
      <4>. QED BY <4>2, <4>3
    <3>. QED BY <3>8, <3>9, <3>10, <3>11, <3>12, <3>13, <3>14 DEF OwedInv
  <2>4. \/ UNCHANGED op
        \/ /\ Accepts(op[job[x].auth], "credited")
           /\ op' = [op EXCEPT ![job[x].auth] =
                        [Patched(op[job[x].auth], "credited")
                           EXCEPT !.claim = 0, !.credit = job[x].token]]
    BY <1>17, <1>b, <2>0 DEF RecordCredit
  <2>. QED BY <2>2, <2>3, <2>4
<1>18. ASSUME NEW x \in Procs, Complete(x) PROVE TokenInv' /\ OwedInv'
  <2>0. pc[x] = "complete" /\ job[x].auth \in Auths /\ UNCHANGED <<available, started>>
    BY <1>18, <1>p DEF Complete, ledger
  <2>1. CASE /\ UNCHANGED <<op, pending, held, delivered>>
             /\ Report(x, "finalize", "succeeded") \/ Finish(x)
    <3>1. /\ OthersStay(x) /\ pc'[x] \in {"finalize", "idle", "done"}
          /\ pc'[x] = "finalize" => job'[x].outcome = "succeeded"
      BY <1>t, <2>0, <2>1, ReportContinues, FinishContinues DEF Continues
    <3>. QED BY <1>q, <2>0, <2>1, <3>1 DEF Holding, Writing
  <2>2. ASSUME NEW a, a = job[x].auth, NEW rec,
               rec = [Patched(op[a], "succeeded") EXCEPT !.claim = 0],
               op' = [op EXCEPT ![a] = rec], Stored(x, rec, "succeeded"),
               delivered' = [delivered EXCEPT ![a] = @ + 1]
        PROVE  TokenInv' /\ OwedInv'
    <3>1. PICK q : q = Patched(op[a], "succeeded")
      OBVIOUS
    <3>2. q \in Operation /\ q.status = "succeeded" /\ q.credit = op[a].credit /\ q.pid = op[a].pid
      BY <1>b, <2>0, <2>2, <3>1, PatchedType, PatchedCredit DEF Statuses
    <3>3. rec.status = "succeeded" /\ rec.credit = op[a].credit /\ rec.pid = op[a].pid
      BY <2>2, <3>1, <3>2 DEF Operation
    <3>4. rec.pid \in SellerPids => rec.credit = 0
      BY <1>t, <2>0, <2>2, <3>3 DEF CreditedOK
    <3>5. op'[a] = rec
      BY <1>b, <2>0, <2>2
    <3>6. \A b \in Auths : OwedStays(b)
      BY <1>t, <2>0, <2>2, <3>3, OneOwedStays DEF Received
    <3>7. /\ Stored(x, rec, "succeeded") /\ op'[a] = rec /\ rec.status # "none" /\ a = job[x].auth
          /\ pc[x] \notin {"idle", "done"} /\ "succeeded" # "settled"
          /\ rec.pid \in SellerPids => rec.credit = 0
      BY <2>0, <2>2, <3>3, <3>4, <3>5
    <3>8. /\ OthersStay(x) /\ pc'[x] \in {"sync", "finalize"}
          /\ Writing(x)' => held'[x].credit = 0
          /\ \A b \in Auths : pending'[b] =>
                pending[b] \/ (op'[b].status # "none" /\ op'[b].pid \in SellerPids)
      BY <1>t, <3>7, StoredStaysOwed, ZenonT(30)
    \* It delivers what was neither delivered nor owed, and ends the only execution.
    <3>9. SpentOK'
      <4>a. delivered \in [Auths -> Nat] /\ a \in Auths
        BY <1>t, <2>0, <2>2 DEF TypeInv, TypeOK
      <4> SUFFICES ASSUME NEW b \in Auths, started[b] <= 1
                   PROVE  /\ delivered'[b] <= 1
                          /\ delivered'[b] # 0 => ~Outstanding(b)'
                          /\ delivered'[b] # 0 \/ op'[b].credit # 0 =>
                                /\ started[b] = 1
                                /\ \A y \in Procs : pc'[y] \in Holding => job'[y].auth # b
        BY <2>0 DEF SpentOK
      <4>1. \A y \in Procs : pc'[y] \in Holding => y # x /\ pc[y] \in Holding /\ job'[y] = job[y]
        BY <3>8 DEF OthersStay, Holding
      <4>2. CASE b = a
        <5>1. /\ delivered[a] = 0 /\ started[a] = 1
              /\ \A y \in Procs : pc[y] \in Holding /\ job[y].auth = a => y = x
          BY <1>t, <2>0, <2>2, <4>2, OnlyHolder DEF Holding
        <5>2. delivered'[a] = 1
          BY <2>2, <4>a, <5>1
        <5>3. ~Outstanding(a)'
          BY <3>3, <3>5 DEF Outstanding
        <5>. QED BY <4>1, <4>2, <5>1, <5>2, <5>3
      <4>3. CASE b # a
        <5>1. op'[b] = op[b] /\ delivered'[b] = delivered[b]
          BY <1>b, <2>2, <4>a, <4>3
        <5>. QED BY <1>t, <4>1, <5>1 DEF SpentOK, Outstanding
      <4>. QED BY <4>2, <4>3
    <3>. QED BY <1>g, <2>0, <3>6, <3>8, <3>9 DEF Holding
  <2>. QED BY <1>18, <2>1, <2>2 DEF Complete
<1>19. ASSUME NEW a \in Auths, FireAlarm(a) PROVE TokenInv' /\ OwedInv'
  <2>0. /\ pc[a] = "idle" /\ a \in Procs /\ a \notin Requests
        /\ UNCHANGED <<pending, available, started, delivered>>
    BY <1>19, <1>b, ProcessAssumption DEF FireAlarm, ledger, history
  <2>1. op[a] \in Operation /\ Shape(op[a]) /\ RecordOK(op[a])
    BY <1>b DEF OrderInv, ShapesOK, SettleInv, RecordsOK
  <2>s. PICK seen : seen = Seen(a)
    OBVIOUS
  <2>2. /\ seen \in Operation /\ Shape(seen) /\ seen.pid = op[a].pid
        /\ \/ seen = op[a] /\ op[a].life # "SETTLEMENT_PENDING"
           \/ seen.status = "ambiguous" /\ op[a].status = "verified"
    BY <1>t, <2>1, <2>s, SeenShape, SeenType
  <2>3. CASE Owing(a, Seen(a)) /\ UNCHANGED op
    <3>1. op[a].credit = 0
      BY <1>t, <2>3 DEF Owing, OwedInv, PendingOK, CreditedOK
    <3>2. /\ held' = [held EXCEPT ![a] = op[a]]
          /\ pc' = [pc EXCEPT ![a] = "sync"]
          /\ job' = [job EXCEPT ![a] = [@ EXCEPT !.pid = op[a].pid, !.auth = a]]
      BY <1>19, <2>3 DEF FireAlarm, StartReconciling
    <3>3. OthersStay(a) /\ pc'[a] = "sync" /\ held'[a].credit = 0
      BY <1>b, <2>0, <3>1, <3>2 DEF OthersStay
    <3>4. \A b \in Auths : OwedStays(b)
      BY <1>t, <2>3, NoneOwedStays
    <3>. QED BY <1>g, <2>0, <3>3, <3>4 DEF Holding
  <2>4. CASE StartReconciling(a, Seen(a))
    <3>1. PICK next : next = IF seen.attempts >= MaxAttempts THEN [seen EXCEPT !.dead = TRUE]
                                                             ELSE CountedAttempt(seen)
      OBVIOUS
    <3>2. /\ op' = [op EXCEPT ![a] = next] /\ held' = [held EXCEPT ![a] = next]
          /\ \E label \in {"finalize", "query"} : pc' = [pc EXCEPT ![a] = label]
          /\ job' = [job EXCEPT ![a] = [pid |-> seen.pid, auth |-> a,
                                        outcome |-> "ambiguous", token |-> 0]]
          /\ seen.status = "ambiguous"
      BY <2>4, <2>s, <3>1 DEF StartReconciling
    <3>3. seen.credit = 0
      <4>1. op[a].credit = 0
        BY <1>t, <2>2, <3>2 DEF CreditedOK, Received
      <4>2. seen.credit = op[a].credit
        BY <2>1, <2>s, PatchedCredit DEF Seen
      <4>. QED BY <4>1, <4>2
    <3>4. next.status = "ambiguous" /\ next.pid = op[a].pid /\ next.credit = 0
      BY <2>2, <3>1, <3>2, <3>3 DEF CountedAttempt, Operation
    <3>5. \A b \in Auths : OwedStays(b)
      BY <1>t, <3>2, <3>4, OneOwedStays
    <3>6. /\ OthersStay(a) /\ pc'[a] \in {"finalize", "query"} /\ held'[a].credit = 0
      BY <1>b, <2>0, <3>2, <3>4 DEF OthersStay
    <3>. QED BY <1>g, <2>0, <3>5, <3>6 DEF Holding
  <2>5. CASE /\ Seen(a).status # "ambiguous" \/ ~Seen(a).payload
             /\ op' = [op EXCEPT ![a] = Seen(a)] /\ UNCHANGED <<held, pc, job>>
    <3>1. seen.status # "ambiguous"
      BY <2>2, <2>5, <2>s DEF Shape, Open
    <3>2. op' = op
      BY <1>b, <2>2, <2>5, <2>s, <3>1
    <3>3. OthersStay(a) /\ pc'[a] = "idle"
      BY <2>0, <2>5 DEF OthersStay
    <3>. QED BY <1>q, <2>0, <3>2, <3>3 DEF Holding, Writing
  <2>. QED BY <1>19, <2>3, <2>4, <2>5 DEF FireAlarm
<1>20. ASSUME NEW a \in Auths, Query(a) PROVE TokenInv' /\ OwedInv'
  <2>0. /\ a \in Procs /\ pc[a] = "query" /\ held[a] \in Operation
        /\ UNCHANGED <<pending, available, started, delivered>>
    BY <1>20, <1>b DEF Query, ledger, history
  <2>h. /\ held[a].credit = 0 /\ held[a].status # "none" /\ job[a].auth = a
        /\ op[a].pid = held[a].pid
    <3>1. Writing(a) /\ job[a].auth = a
      BY <2>0 DEF Writing, OrderInv, JobsOK
    <3>2. held[a].credit = 0 /\ held[a].pid = job[a].pid /\ held[a].status # "none"
      BY <2>0, <3>1 DEF OwedInv, WrittenOK, OrderInv, WriteOK, MayWrite, Received
    <3>3. op[a].pid = job[a].pid
      BY <2>0, <3>1 DEF OrderInv, BoundOK, Unbound
    <3>. QED BY <3>1, <3>2, <3>3
  <2>1. ASSUME NEW rec, NEW outcome, op' = [op EXCEPT ![a] = rec],
               held' = [held EXCEPT ![a] = rec], Report(a, "finalize", outcome),
               rec.credit = 0, rec.status # "none", rec.pid = held[a].pid
        PROVE  TokenInv' /\ OwedInv'
    <3>1. /\ held'[a] = rec /\ \A y \in Procs \ {a} : held'[y] = held[y]
      BY <1>b, <2>0, <2>1
    <3>2. OthersStay(a) /\ pc'[a] = "finalize"
      BY <1>t, <2>0, <2>1, <3>1, ReportContinues DEF Continues
    <3>3. \A b \in Auths : OwedStays(b)
      BY <1>t, <2>h, <2>1, OneOwedStays
    <3>. QED BY <1>g, <2>0, <2>1, <3>1, <3>2, <3>3 DEF Holding
  <2>2. /\ Patched(held[a], "settled").credit = 0 /\ Patched(held[a], "settled").status # "none"
        /\ Patched(held[a], "settled").pid = held[a].pid
    BY <2>0, <2>h, PatchedCredit
  <2>3. ASSUME NEW dead PROVE LET missing == [held[a] EXCEPT !.dead = dead] IN
           missing.credit = 0 /\ missing.status # "none" /\ missing.pid = held[a].pid
    BY <2>0, <2>h DEF Operation
  <2>. QED BY <1>20, <2>1, <2>2, <2>3 DEF Query
<1>21. ASSUME NEW a \in Auths, Outbox(a) PROVE TokenInv' /\ OwedInv'
  <2>0. /\ a \in Procs /\ pc[a] = "outbox" /\ UNCHANGED <<held, available, started, delivered>>
        /\ op' = [op EXCEPT ![a] = held[a]] /\ pending' = [pending EXCEPT ![a] = TRUE]
        /\ Goto(a, "sync")
    BY <1>21, <1>b DEF Outbox, ledger, history
  <2>1. OthersStay(a) /\ pc'[a] = "sync"
    BY <1>t, <2>0, GotoContinues DEF Continues
  <2>2. /\ held[a].credit = 0 /\ held[a].status # "none" /\ job[a].auth = a
        /\ held[a].pid = job[a].pid
    BY <2>0 DEF Writing, OwedInv, WrittenOK, OrderInv, WriteOK, MayWrite, JobsOK, Received
  <2>3. op[a].pid = job[a].pid /\ job[a].pid \in SellerPids
    BY <2>0, <2>2 DEF OrderInv, BoundOK, Unbound, OwedInv, PendingOK
  <2>4. \A b \in Auths : OwedStays(b)
    BY <1>t, <2>0, <2>2, <2>3, OneOwedStays
  <2>5. op'[a] = held[a] /\ \A b \in Auths : pending'[b] => pending[b] \/ b = a
    BY <1>b, <2>0
  <2>6. \A b \in Auths : pending'[b] =>
           pending[b] \/ (op'[b].status # "none" /\ op'[b].pid \in SellerPids)
    BY <2>2, <2>3, <2>5
  <2>7. held'[a].credit = 0
    BY <2>0, <2>2
  <2>. QED BY <1>g, <2>0, <2>1, <2>4, <2>6, <2>7 DEF Holding
<1>22. ASSUME NEW a \in Auths, ChainDecides(a) PROVE TokenInv' /\ OwedInv'
  <2>1. UNCHANGED <<op, pending, held, pc, job, available, started, delivered>> /\ a \in Procs
    BY <1>22, <1>b DEF ChainDecides, object, ledger, history
  <2>2. \A b \in Auths : OwedStays(b)
    BY <1>t, <2>1, NoneOwedStays
  <2>3. OthersStay(a)
    BY <2>1 DEF OthersStay
  <2>4. /\ Writing(a)' => held'[a].credit = 0
        /\ pc'[a] = "outbox" => job'[a].pid \in SellerPids
    BY <2>1 DEF OwedInv, WrittenOK, PendingOK, Writing
  <2>. QED BY <1>g, <2>1, <2>2, <2>3, <2>4 DEF SameJob
<1>23. ASSUME NEW r \in Requests, CrashRequest(r) PROVE TokenInv' /\ OwedInv'
  <2>1. /\ pc[r] \notin {"idle", "done"} /\ \A y \in Procs \ {r} : held'[y] = held[y]
        /\ UNCHANGED <<op, available, started, delivered, pending>> /\ Finish(r)
    BY <1>23, <1>b DEF CrashRequest, ledger, history
  <2>2. OthersStay(r) /\ pc'[r] \in {"idle", "done"}
    BY <1>b, <1>t, <2>1, FinishContinues DEF Continues
  <2>. QED BY <1>b, <1>q, <2>1, <2>2 DEF Holding, Writing
<1>24. ASSUME NEW a \in Auths, CrashAlarm(a) PROVE TokenInv' /\ OwedInv'
  <2>1. /\ a \in Procs /\ \A y \in Procs \ {a} : held'[y] = held[y]
        /\ UNCHANGED <<op, available, started, delivered, pending>>
    BY <1>24, <1>b DEF CrashAlarm, ledger, history
  <2>2. OthersStay(a) /\ pc'[a] = "idle"
    BY <1>24, <1>b, <2>1, ProcessAssumption DEF CrashAlarm, Finish, OthersStay
  <2>. QED BY <1>q, <2>1, <2>2 DEF Holding, Writing
<1>. QED
  BY <1>1, <1>2, <1>3, <1>4, <1>5, <1>6, <1>7, <1>8, <1>9, <1>10, <1>11, <1>12, <1>13,
     <1>14, <1>15, <1>16, <1>17, <1>18, <1>19, <1>20, <1>21, <1>22, <1>23, <1>24
  DEF Next, RequestStep, ExecutionStep, AlarmStep

\* Every step of a redemption keeps what is owed: it takes a credit only from
\* the free ones into its own row, gives back its own, and drops its row only
\* once the operation is marked.
LEMMA RedeemOwes ==
    ASSUME RedeemTypeInv, OrderInv, TokenInv, OwedInv,
           NEW d \in Redeemers, RedeemStep(d) \/ CrashRedemption(d)
    PROVE  TokenInv' /\ OwedInv' /\ CreditsOK'
<1>a. /\ op \in [Auths -> Operation] /\ available \in [Auths -> SUBSET Nat]
      /\ reserved \subseteq [auth : Auths, token : Nat, by : Redeemers]
      /\ rpc \in [Redeemers -> {"idle", "attempt", "execute", "deliver", "confirm", "restore", "done"}]
      /\ rjob \in [Redeemers -> [auth : Auths \cup {None}, token : Nat]]
      /\ \A e \in Redeemers : Active(e) => rjob[e].auth \in Auths
      /\ TypeInv /\ Auths \subseteq Procs
  BY DEF RedeemTypeInv, RedemptionTypeOK, TypeInv, TypeOK, Procs
<1>b. /\ Beside /\ UNCHANGED <<pending, held, pc, job, started>>
      /\ \A a \in Auths : OnlyOwed(a)
  BY RedeemBeside DEF Beside
\* What no step of a redemption disturbs.
<1>c. /\ TokensOK' /\ CreditedOK' /\ WrittenOK' /\ PendingOK'
  <2>1. TokensOK'
    BY <1>b DEF TokenInv, TokensOK
  <2>2. CreditedOK'
    BY <1>b DEF OwedInv, CreditedOK, OnlyOwed
  <2>3. WrittenOK'
    BY <1>b DEF OwedInv, WrittenOK, Writing
  <2>4. PendingOK'
    BY <1>b DEF OwedInv, PendingOK, OnlyOwed
  <2>. QED BY <2>1, <2>2, <2>3, <2>4
<1>d. \A a \in Auths : /\ Outstanding(a)' => Outstanding(a)
                        /\ op'[a].credit = op[a].credit
                        /\ op'[a].status = op[a].status /\ op'[a].pid = op[a].pid
  BY <1>b DEF OnlyOwed, Outstanding
<1>s. \A a \in Auths : op'[a].status = op[a].status /\ op'[a].pid = op[a].pid
  BY <1>b DEF OnlyOwed
\* Where nothing is delivered, what was delivered or owed stays so.
<1>u. ASSUME UNCHANGED delivered PROVE SpentOK'
  <2> SUFFICES ASSUME NEW a \in Auths, started[a] <= 1
               PROVE  /\ delivered[a] <= 1
                      /\ delivered[a] # 0 => ~Outstanding(a)'
                      /\ delivered[a] # 0 \/ op'[a].credit # 0 =>
                            /\ started[a] = 1
                            /\ \A x \in Procs : pc[x] \in Holding => job[x].auth # a
    BY <1>b, <1>u DEF SpentOK
  <2>1. (Outstanding(a)' => Outstanding(a)) /\ op'[a].credit = op[a].credit
    BY <1>b DEF OnlyOwed, Outstanding
  <2>. QED BY <2>1 DEF OwedInv, SpentOK
\* A step in which nobody gains or loses a free credit.
<1>e. ASSUME UNCHANGED <<available, rjob>>, UNCHANGED delivered \/ SpentOK', NEW label, MoveOn(d, label),
             label \in {"execute", "deliver", "confirm", "restore", "done"}, Active(d),
             label = "confirm" => ~(Outstanding(rjob[d].auth)' /\ op'[rjob[d].auth].credit = rjob[d].token),
             \A a \in Auths : Outstanding(a)' =>
                \A c \in reserved : c.auth = a /\ c.token = op[a].credit => c \in reserved'
      PROVE  TokenInv' /\ OwedInv' /\ CreditsOK'
  <2>1. /\ rpc'[d] = label /\ \A e \in Redeemers : e # d => rpc'[e] = rpc[e]
    BY <1>a, <1>e DEF MoveOn
  <2>2. \A e \in Redeemers : Active(e)' => Active(e) /\ rjob'[e] = rjob[e] /\ rjob[e].auth \in Auths
    BY <1>a, <1>e, <2>1 DEF Active
  <2>3. IssuedOK' /\ FreshOK' /\ NumberedOK'
    <3>1. IssuedOK'
      BY <1>b, <1>e, <2>2 DEF TokenInv, IssuedOK
    <3>2. FreshOK'
      BY <1>b, <1>e, <2>2 DEF TokenInv, FreshOK
    <3>3. NumberedOK'
      BY <1>b, <1>e, <2>2 DEF TokenInv, NumberedOK
    <3>. QED BY <3>1, <3>2, <3>3
  <2>4. PresentedOK'
    BY <1>s, <2>2 DEF OwedInv, PresentedOK
  <2>5. ConfirmOK'
    <3> SUFFICES ASSUME NEW e \in Redeemers, rpc'[e] = "confirm", NEW b, b = rjob'[e].auth,
                        Outstanding(b)', op'[b].credit = rjob'[e].token
                 PROVE  FALSE
      BY DEF ConfirmOK, Outstanding
    <3>1. Active(e) /\ rjob'[e] = rjob[e] /\ b \in Auths /\ b = rjob[e].auth
      BY <2>2 DEF Active
    <3>2. Outstanding(b) /\ op[b].credit = rjob[e].token
      BY <1>d, <3>1
    <3>3. CASE e = d
      BY <1>e, <2>1, <3>1, <3>3
    <3>4. CASE e # d
      BY <2>1, <3>1, <3>2, <3>4 DEF OwedInv, ConfirmOK
    <3>. QED BY <3>3, <3>4
  <2>6. OwedCreditExists'
    <3> SUFFICES ASSUME NEW a \in Auths, Outstanding(a)'
                 PROVE  \/ op'[a].credit \in available'[a]
                        \/ \E c \in reserved' : c.auth = a /\ c.token = op'[a].credit
      BY DEF OwedCreditExists, Outstanding
    <3>1. Outstanding(a) /\ op'[a].credit = op[a].credit
      BY <1>d
    <3>2. \/ op[a].credit \in available[a]
          \/ \E c \in reserved : c.auth = a /\ c.token = op[a].credit
      BY <3>1 DEF OwedInv, OwedCreditExists, Outstanding
    <3>. QED BY <1>e, <3>1, <3>2
  <2>7. CreditsOK'
    BY <1>s, <1>e DEF OrderInv, CreditsOK
  <2>. QED BY <1>c, <1>e, <1>u, <2>3, <2>4, <2>5, <2>6, <2>7 DEF TokenInv, OwedInv
<1>1. ASSUME NEW a \in Auths, NEW n \in available[a], Consume(d, a, n)
      PROVE  TokenInv' /\ OwedInv' /\ CreditsOK'
  <2>0. /\ n \in Nat /\ InHand(a, n) /\ UNCHANGED op
        /\ rpc' = [rpc EXCEPT ![d] = "attempt"]
        /\ rjob' = [rjob EXCEPT ![d] = [auth |-> a, token |-> n]]
        /\ available' = [available EXCEPT ![a] = @ \ {n}]
        /\ reserved' = reserved \cup {[auth |-> a, token |-> n, by |-> d]}
    BY <1>1, <1>a DEF Consume, MoveOn, Taken, object
  <2>1. /\ rpc'[d] = "attempt" /\ rjob'[d].auth = a /\ rjob'[d].token = n
        /\ \A e \in Redeemers : e # d => rpc'[e] = rpc[e] /\ rjob'[e] = rjob[e]
        /\ available'[a] = available[a] \ {n}
        /\ \A b \in Auths : b # a => available'[b] = available[b]
    BY <2>0, <1>a
  <2>2. \A e \in Redeemers : e # d /\ Active(e)' => Active(e) /\ rjob[e].auth \in Auths
    BY <2>1, <1>a DEF Active
  <2>3. IssuedOK'
    <3>1. n <= started[a]
      BY DEF TokenInv, IssuedOK
    <3>2. \A b \in Auths : available'[b] \subseteq available[b]
      BY <2>1
    <3>. QED BY <1>b, <2>1, <2>2, <3>1, <3>2 DEF TokenInv, IssuedOK
  <2>4. FreshOK'
    <3> SUFFICES ASSUME NEW x \in Procs, pc'[x] \in Holding, NEW b, b = job[x].auth
                 PROVE  /\ pc'[x] = "credit" <=> job'[x].token \in available'[b]
                        /\ \A e \in Redeemers : Active(e)' /\ rjob'[e].auth = b
                             => rjob'[e].token # job'[x].token
      BY <1>b DEF FreshOK
    <3>1. /\ pc[x] \in Holding /\ pc'[x] = pc[x] /\ job'[x] = job[x] /\ b \in Auths
          /\ pc[x] = "credit" <=> job[x].token \in available[b]
          /\ \A e \in Redeemers : Active(e) /\ rjob[e].auth = b => rjob[e].token # job[x].token
      BY <1>b, <1>a DEF TokenInv, FreshOK, TypeInv, JobOK, Holding
    <3>2. ~(b = a /\ job[x].token = n)
      BY <2>0, <3>1 DEF InHand
    <3>3. pc'[x] = "credit" <=> job'[x].token \in available'[b]
      BY <2>1, <3>1, <3>2
    <3>4. \A e \in Redeemers : Active(e)' /\ rjob'[e].auth = b => rjob'[e].token # job'[x].token
      BY <2>1, <2>2, <3>1, <3>2
    <3>. QED BY <3>3, <3>4
  <2>5. PresentedOK'
    <3>1. op[a].status # "none" /\ op[a].pid \notin SellerPids
      BY DEF OrderInv, CreditsOK
    <3>. QED BY <2>0, <2>1, <2>2, <3>1 DEF OwedInv, PresentedOK
  <2>6. ConfirmOK'
    <3> SUFFICES ASSUME NEW e \in Redeemers, rpc'[e] = "confirm", NEW b, b = rjob'[e].auth,
                        Outstanding(b)', op'[b].credit = rjob'[e].token
                 PROVE  FALSE
      BY DEF ConfirmOK, Outstanding
    <3>1. e # d /\ rpc[e] = "confirm" /\ rjob'[e] = rjob[e]
      BY <2>1
    <3>. QED BY <2>0, <3>1 DEF OwedInv, ConfirmOK, Outstanding
  <2>7. OwedCreditExists'
    <3> SUFFICES ASSUME NEW b \in Auths, Outstanding(b)'
                 PROVE  \/ op'[b].credit \in available'[b]
                        \/ \E c \in reserved' : c.auth = b /\ c.token = op'[b].credit
      BY DEF OwedCreditExists, Outstanding
    <3>1. Outstanding(b) /\ op'[b].credit = op[b].credit
      BY <1>d
    <3>2. \/ op[b].credit \in available[b]
          \/ \E c \in reserved : c.auth = b /\ c.token = op[b].credit
      BY <3>1 DEF OwedInv, OwedCreditExists, Outstanding
    <3>3. CASE op[b].credit \in available[b] /\ ~(b = a /\ op[b].credit = n)
      BY <2>1, <3>1, <3>3
    <3>4. CASE b = a /\ op[b].credit = n
      <4>1. PICK c : c = [auth |-> a, token |-> n, by |-> d]
        OBVIOUS
      <4>2. c \in reserved' /\ c.auth = b /\ c.token = op'[b].credit
        BY <2>0, <3>1, <3>4, <4>1
      <4>. QED BY <4>2
    <3>5. ASSUME NEW c \in reserved PROVE c \in reserved'
      BY <2>0, <3>5
    <3>. QED BY <3>1, <3>2, <3>3, <3>4, <3>5
  <2>8. CreditsOK'
    BY <1>s, <2>1 DEF OrderInv, CreditsOK
  <2>9. NumberedOK'
    <3>1. n # 0
      BY DEF TokenInv, NumberedOK
    <3>2. \A b \in Auths : available'[b] \subseteq available[b]
      BY <2>1
    <3>. QED BY <1>b, <2>1, <2>2, <3>1, <3>2 DEF TokenInv, NumberedOK
  <2>10. SpentOK'
    BY <1>1, <1>u DEF Consume, history
  <2>. QED BY <1>c, <2>3, <2>4, <2>5, <2>6, <2>7, <2>8, <2>9, <2>10 DEF TokenInv, OwedInv
<1>2. CASE Attempt(d)
  <2>1. /\ UNCHANGED <<available, rjob, reserved>> /\ Active(d)
        /\ MoveOn(d, "execute") \/ MoveOn(d, "restore")
        /\ UNCHANGED delivered
    BY <1>2 DEF Attempt, At, Active, ledger, history
  <2>. QED BY <1>e, <2>1
<1>3. CASE RunAgain(d)
  <2>1. /\ UNCHANGED <<available, rjob, reserved>> /\ Active(d)
        /\ MoveOn(d, "deliver") \/ MoveOn(d, "restore")
        /\ UNCHANGED delivered
    BY <1>3 DEF RunAgain, At, Active, vars
  <2>. QED BY <1>e, <2>1
<1>4. CASE Deliver(d)
  <2>1. /\ UNCHANGED <<available, rjob, reserved>> /\ Active(d) /\ rjob[d].auth \in Auths
    BY <1>4, <1>a DEF Deliver, At, Active, ledger
  <2>2. ASSUME op' = [op EXCEPT ![rjob[d].auth] = Fulfilled(@)], MoveOn(d, "confirm") \/ MoveOn(d, "restore"),
               Owes(op[rjob[d].auth], rjob[d].token),
               delivered' = [delivered EXCEPT ![rjob[d].auth] = IF op[rjob[d].auth].redeemed THEN @ ELSE @ + 1]
        PROVE  TokenInv' /\ OwedInv' /\ CreditsOK'
    <3>a. PICK a : a = rjob[d].auth
      OBVIOUS
    <3>1. op'[a].redeemed /\ a \in Auths /\ delivered \in [Auths -> Nat]
      BY <1>a, <2>1, <2>2, <3>a DEF Fulfilled, Operation, TypeInv, TypeOK
    <3>2. op[a].status = "credited" /\ op[a].credit # 0
      BY <2>1, <2>2, <3>a DEF Owes, TokenInv, NumberedOK
    \* What it fulfils was owed, hence neither delivered nor in execution.
    <3>3. SpentOK'
      <4> SUFFICES ASSUME NEW b \in Auths, started[b] <= 1
                   PROVE  /\ delivered'[b] <= 1
                          /\ delivered'[b] # 0 => ~Outstanding(b)'
                          /\ delivered'[b] # 0 \/ op'[b].credit # 0 =>
                                /\ started[b] = 1
                                /\ \A x \in Procs : pc[x] \in Holding => job[x].auth # b
        BY <1>b DEF SpentOK
      <4>1. /\ (Outstanding(b)' => Outstanding(b)) /\ op'[b].credit = op[b].credit
            /\ SpentOK
        BY <1>b DEF OwedInv, OnlyOwed, Outstanding
      <4>2. CASE b = a
        <5>1. delivered'[a] = IF op[a].redeemed THEN delivered[a] ELSE delivered[a] + 1
          BY <2>2, <3>1, <3>a
        <5>2. ~op[a].redeemed => delivered[a] = 0
          BY <3>1, <3>2, <4>1, <4>2 DEF SpentOK, Outstanding
        <5>3. /\ delivered[a] <= 1 /\ started[a] = 1
              /\ \A x \in Procs : pc[x] \in Holding => job[x].auth # a
          BY <3>1, <3>2, <4>1, <4>2 DEF SpentOK
        <5>4. ~Outstanding(a)'
          BY <3>1 DEF Outstanding
        <5>. QED BY <3>1, <4>2, <5>1, <5>2, <5>3, <5>4
      <4>3. CASE b # a
        <5>1. delivered'[b] = delivered[b]
          BY <2>2, <3>1, <3>a, <4>3
        <5>. QED BY <4>1, <5>1 DEF SpentOK
      <4>. QED BY <4>2, <4>3
    <3>4. ~Outstanding(rjob[d].auth)'
      BY <3>1, <3>a, <2>1 DEF Outstanding
    <3>. QED BY <1>e, <2>1, <2>2, <3>3, <3>4
  <2>3. CASE MoveOn(d, "restore") /\ UNCHANGED <<op, delivered>>
    BY <1>e, <2>1, <2>3
  <2>. QED BY <1>4, <2>2, <2>3 DEF Deliver
\* The row that is dropped is not one that is still owed.
<1>5. CASE Confirm(d)
  <2>1. /\ UNCHANGED <<available, rjob, op>> /\ Active(d) /\ MoveOn(d, "done")
        /\ reserved' = reserved \ {Row(d)} /\ rpc[d] = "confirm" /\ rjob[d].auth \in Auths
        /\ UNCHANGED delivered
    BY <1>5, <1>a DEF Confirm, At, Active, vars
  <2>2. ASSUME NEW a \in Auths, Outstanding(a)', NEW c \in reserved,
               c.auth = a, c.token = op[a].credit
        PROVE  c \in reserved'
    <3>1. CASE c = Row(d)
      <4>1. Outstanding(a) /\ a = rjob[d].auth /\ op[a].credit = rjob[d].token
        BY <1>d, <2>2, <3>1 DEF Row
      <4>. QED BY <2>1, <4>1 DEF OwedInv, ConfirmOK
    <3>2. CASE c # Row(d)
      BY <2>1, <2>2, <3>2
    <3>. QED BY <3>1, <3>2
  <2>. QED BY <1>e, <2>1, <2>2
<1>6. CASE CrashRedemption(d)
  <2>1. /\ UNCHANGED <<available, rjob, reserved>> /\ Active(d) /\ MoveOn(d, "done")
        /\ UNCHANGED delivered
    BY <1>6 DEF CrashRedemption, Active, vars
  <2>. QED BY <1>e, <2>1
\* The row that is given back becomes a free credit.
<1>7. CASE Restore(d)
  <2>0. /\ UNCHANGED <<rjob, op>> /\ Active(d) /\ MoveOn(d, "done") /\ rjob[d].auth \in Auths
        /\ reserved' = reserved \ {Row(d)} /\ rpc[d] = "restore"
        /\ available' = IF Row(d) \in reserved
                        THEN [available EXCEPT ![rjob[d].auth] = @ \cup {rjob[d].token}]
                        ELSE available
    BY <1>7, <1>a DEF Restore, At, Active, object, Returned
  <2>a. PICK a : a = rjob[d].auth
    OBVIOUS
  <2>n. PICK n : n = rjob[d].token
    OBVIOUS
  <2>1. /\ a \in Auths /\ n \in Nat /\ \A b \in Auths : b # a => available'[b] = available[b]
        /\ available'[a] = available[a] \/ available'[a] = available[a] \cup {n}
        /\ Row(d) \in reserved => available'[a] = available[a] \cup {n}
    BY <1>a, <2>0, <2>a, <2>n
  <2>2. /\ rpc'[d] = "done" /\ \A e \in Redeemers : e # d => rpc'[e] = rpc[e]
    BY <1>a, <2>0 DEF MoveOn
  <2>3. \A e \in Redeemers : Active(e)' => Active(e) /\ rjob'[e] = rjob[e] /\ rjob[e].auth \in Auths
                                           /\ rpc'[e] = rpc[e]
    BY <1>a, <2>0, <2>2 DEF Active
  <2>4. IssuedOK'
    <3>1. n <= started[a]
      BY <2>0, <2>a, <2>n DEF TokenInv, IssuedOK
    <3>. QED BY <1>b, <2>1, <2>3, <3>1 DEF TokenInv, IssuedOK
  <2>5. FreshOK'
    <3> SUFFICES ASSUME NEW x \in Procs, pc'[x] \in Holding, NEW b, b = job[x].auth
                 PROVE  /\ pc'[x] = "credit" <=> job'[x].token \in available'[b]
                        /\ \A e \in Redeemers : Active(e)' /\ rjob'[e].auth = b
                             => rjob'[e].token # job'[x].token
      BY <1>b DEF FreshOK
    <3>1. /\ pc[x] \in Holding /\ pc'[x] = pc[x] /\ job'[x] = job[x] /\ b \in Auths
          /\ pc[x] = "credit" <=> job[x].token \in available[b]
          /\ \A e \in Redeemers : Active(e) /\ rjob[e].auth = b => rjob[e].token # job[x].token
      BY <1>b, <1>a DEF TokenInv, FreshOK, TypeInv, JobOK, Holding
    <3>2. b = a => job[x].token # n
      BY <2>0, <2>a, <2>n, <3>1
    <3>. QED BY <2>1, <2>3, <3>1, <3>2
  <2>6. PresentedOK'
    BY <1>s, <2>3 DEF OwedInv, PresentedOK
  <2>7. ConfirmOK'
    <3> SUFFICES ASSUME NEW e \in Redeemers, rpc'[e] = "confirm", NEW b, b = rjob'[e].auth,
                        Outstanding(b)', op'[b].credit = rjob'[e].token
                 PROVE  FALSE
      BY DEF ConfirmOK, Outstanding
    <3>1. rpc[e] = "confirm" /\ rjob'[e] = rjob[e]
      BY <2>3 DEF Active
    <3>. QED BY <2>0, <3>1 DEF OwedInv, ConfirmOK, Outstanding
  <2>8. OwedCreditExists'
    <3> SUFFICES ASSUME NEW b \in Auths, Outstanding(b)'
                 PROVE  \/ op'[b].credit \in available'[b]
                        \/ \E c \in reserved' : c.auth = b /\ c.token = op'[b].credit
      BY DEF OwedCreditExists, Outstanding
    <3>1. Outstanding(b) /\ op'[b].credit = op[b].credit
      BY <1>d
    <3>2. CASE op[b].credit \in available[b]
      BY <2>1, <3>1, <3>2
    <3>3. ASSUME NEW c \in reserved, c.auth = b, c.token = op[b].credit, c # Row(d)
          PROVE  c \in reserved'
      BY <2>0, <3>3
    <3>4. CASE \E c \in reserved : c.auth = b /\ c.token = op[b].credit /\ c = Row(d)
      <4>1. Row(d) \in reserved /\ b = a /\ op[b].credit = n
        BY <2>a, <2>n, <3>4 DEF Row
      <4>. QED BY <2>1, <3>1, <4>1
    <3>5. \/ op[b].credit \in available[b]
          \/ \E c \in reserved : c.auth = b /\ c.token = op[b].credit
      BY <3>1 DEF OwedInv, OwedCreditExists, Outstanding
    <3>. QED BY <3>1, <3>2, <3>3, <3>4, <3>5
  <2>9. CreditsOK'
    <3>1. op[a].status # "none" /\ op[a].pid \notin SellerPids
      BY <2>0, <2>a DEF OwedInv, PresentedOK
    <3>. QED BY <1>s, <2>1, <3>1 DEF OrderInv, CreditsOK
  <2>10. NumberedOK'
    <3>1. n # 0
      BY <2>0, <2>n DEF TokenInv, NumberedOK
    <3>. QED BY <1>b, <2>1, <2>3, <3>1 DEF TokenInv, NumberedOK
  <2>11. SpentOK'
    BY <1>7, <1>u DEF Restore, history
  <2>. QED BY <1>c, <2>4, <2>5, <2>6, <2>7, <2>8, <2>9, <2>10, <2>11 DEF TokenInv, OwedInv
<1>. QED BY <1>1, <1>2, <1>3, <1>4, <1>5, <1>6, <1>7 DEF RedeemStep

RedeemInv == RedeemTypeInv /\ SettleInv /\ OrderInv /\ TokenInv /\ OwedInv

\* The inductive invariant of the gateway and its redemptions together.
LEMMA RedeemInvStep == RedeemInv /\ [RedemptionNext]_rvars => RedeemInv'
<1> SUFFICES ASSUME RedeemInv, [RedemptionNext]_rvars PROVE RedeemInv'
  OBVIOUS
<1>a. RedeemTypeInv' /\ TypeInv
  BY RedeemTypeStep DEF RedeemInv, RedeemTypeInv
<1>1. CASE Next /\ UNCHANGED redemption
  <2>1. SettleInv' /\ OrderInv'
    BY <1>1, <1>a, SettleStep, OrderStep DEF RedeemInv
  <2>2. TokenInv' /\ OwedInv'
    BY <1>1, GatewayOwes DEF RedeemInv
  <2>. QED BY <1>a, <2>1, <2>2 DEF RedeemInv
<1>2. ASSUME NEW d \in Redeemers, RedeemStep(d) \/ CrashRedemption(d) PROVE RedeemInv'
  <2>1. TokenInv' /\ OwedInv' /\ CreditsOK' /\ Beside
    BY <1>2, RedeemOwes, RedeemBeside DEF RedeemInv
  <2>2. SettleInv' /\ OrderInv'
    BY <1>a, <2>1, BesideSettle, BesideOrder DEF RedeemInv
  <2>. QED BY <1>a, <2>1, <2>2 DEF RedeemInv
<1>3. CASE UNCHANGED rvars
  <2>1. SettleInv' /\ OrderInv'
    BY <1>3, <1>a, SettleStep, OrderStep DEF RedeemInv, rvars
  <2>2. UNCHANGED <<available, reserved, rpc, rjob, op, pending, held, pc, job, started, delivered>>
    BY <1>3 DEF rvars, vars, redemption
  <2>3. TokenInv'
    BY <2>2 DEF RedeemInv, TokenInv, TokensOK, IssuedOK, FreshOK, NumberedOK, Active
  <2>4. CreditedOK' /\ WrittenOK' /\ PendingOK' /\ PresentedOK'
    BY <2>2 DEF RedeemInv, OwedInv, CreditedOK, WrittenOK, Writing, PendingOK, PresentedOK, Active
  <2>5. ConfirmOK' /\ OwedCreditExists'
    BY <2>2 DEF RedeemInv, OwedInv, ConfirmOK, OwedCreditExists, Outstanding
  <2>6. SpentOK'
    BY <2>2 DEF RedeemInv, OwedInv, SpentOK, Outstanding
  <2>. QED BY <1>a, <2>1, <2>3, <2>4, <2>5, <2>6 DEF RedeemInv, OwedInv
<1>. QED BY <1>1, <1>2, <1>3 DEF RedemptionNext

LEMMA RedeemInvInit == RedemptionInit => RedeemInv
<1> SUFFICES ASSUME RedemptionInit PROVE RedeemInv
  OBVIOUS
<1>1. Init /\ TypeInv /\ SettleInv /\ OrderInv
  BY TypeInit, SettleInit, OrderInit DEF RedemptionInit
<1>2. /\ reserved = {} /\ rpc = [d \in Redeemers |-> "idle"]
      /\ rjob = [d \in Redeemers |-> NoCredit] /\ available = [a \in Auths |-> {}]
      /\ op = [a \in Auths |-> NoOperation] /\ pc = [x \in Procs |-> "idle"]
      /\ pending = [a \in Auths |-> FALSE] /\ Auths \subseteq Procs
      /\ delivered = [a \in Auths |-> 0]
  BY DEF RedemptionInit, Init, Procs
<1>3. RedeemTypeInv
  BY <1>1, <1>2 DEF RedeemTypeInv, RedemptionTypeOK, TypeInv, Active, NoCredit
<1>4. TokenInv
  BY <1>2 DEF TokenInv, TokensOK, IssuedOK, FreshOK, NumberedOK, Holding, Active
<1>5. OwedInv
  BY <1>2 DEF OwedInv, CreditedOK, WrittenOK, Writing, PendingOK, PresentedOK, ConfirmOK,
     OwedCreditExists, SpentOK, Outstanding, NoOperation, Active
<1>. QED BY <1>1, <1>3, <1>4, <1>5 DEF RedeemInv

\* A buyer who is owed a credit finds it, free or reserved, in the index, however
\* many requests, redemptions and alarms write the record and whoever dies.
THEOREM CreditNeverLost == RedemptionSpec => []OwedCreditExists
<1>1. RedeemInv => OwedCreditExists
  BY DEF RedeemInv, OwedInv
<1>. QED BY <1>1, RedeemInvInit, RedeemInvStep, PTL DEF RedemptionSpec

\* Redeeming a credit costs no second payment: with redemptions beside it, the
\* gateway still settles an authorization once and a key for one buyer.
THEOREM RedeemedUnpaid == RedemptionSpec => [](SettleOnce /\ OneBookingPerKey)
<1>1. RedeemInv => SettleOnce
  BY DEF RedeemInv, RedeemTypeInv, SettleInv, SendOK, SettleOnce, TypeInv, TypeOK
<1>2. RedeemInv => OneBookingPerKey
  BY DEF RedeemInv, OrderInv, KeysOK, OneBookingPerKey
<1>. QED BY <1>1, <1>2, RedeemInvInit, RedeemInvStep, PTL DEF RedemptionSpec

\* A payment that was executed at most once is delivered at most once: by its
\* execution or through its credit, never through both, however often the
\* credit is presented, restored or confirmed twice (paid-agent-entry.js
\* credit-attempt, credit-delivered, credit-finalize).
THEOREM DeliveredOncePerExecution ==
    RedemptionSpec => []((\A a \in Auths : started[a] <= 1) => DeliveredOnce)
<1>1. RedeemInv => ((\A a \in Auths : started[a] <= 1) => DeliveredOnce)
  BY DEF RedeemInv, OwedInv, SpentOK, DeliveredOnce
<1>. QED BY <1>1, RedeemInvInit, RedeemInvStep, PTL DEF RedemptionSpec
=============================================================================
