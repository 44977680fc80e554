------------------------ MODULE SettlementTruthProofs ------------------------
(***************************************************************************)
(* Proofs about the settlement-truth gateway, for every value of the       *)
(* constants.  No step of the argument uses a lease or a time: the journal *)
(* alone carries it, which is why a lapse, a sweep or a crash cannot harm. *)
(***************************************************************************)
EXTENDS BuyerCheckout, SumLemmas

-----------------------------------------------------------------------------
(* The inductive invariant. *)

\* A job is prepared before it is journalled, settling or done with its row.
JournalTells ==
    \A n \in Ids :
        /\ job[n].phase \in {"working", "retry"} => journal[n].phase = "none"
        /\ job[n].phase = "settling" => journal[n].phase = "settling"
        /\ job[n].phase = "done" => journal[n].phase = "done"
        /\ job[n].phase \in {"settling", "done"} => job[n].body \in Bodies

KeysUnique ==
    \A n, k \in Ids :
        /\ journal[n].phase # "none" /\ journal[k].phase # "none"
        /\ KeyOfRow(n) = KeyOfRow(k)
        => n = k

\* A request that may settle is the only one, and nobody settled before it.
Underway ==
    \A r \in Requests :
        /\ req[r].step \in {"submit", "sent", "reconcile"} => journal[Own(r)].phase # "none"
        /\ req[r].step = "ready" => req[r].body \in Bodies
        /\ req[r].step = "submit" =>
             /\ sent[Own(r)] = 0
             /\ \A q \in Requests : req[q].step = "submit" /\ Own(q) = Own(r) => q = r

Covered ==
    \A n \in Ids :
        /\ sent[n] <= 1
        /\ sent[n] > 0 \/ n \in debited => journal[n].phase # "none"

\* A row is completed by money that moved.
Moved == \A n \in Ids : journal[n].phase = "done" => n \in paid \cup debited \cup Spent

Handed ==
    \A d \in delivered :
        /\ journal[d[1]].phase = "done"
        /\ job[d[1]].phase = "none" \/ job[d[1]].body = d[2]

OneBody == \A d, e \in delivered : d[1] = e[1] => d = e

IInv ==
    /\ TablesTyped
    /\ JournalTells
    /\ KeysUnique
    /\ Underway
    /\ Covered
    /\ Moved
    /\ Handed
    /\ OneBody
-----------------------------------------------------------------------------
(* Each action keeps the invariant. *)

LEMMA ClaimDoneKeeps ==
    ASSUME IInv, NEW i \in Intents, ClaimDone(i)
    PROVE  IInv'
<1>1. TablesTyped'
  BY IntentsAssumption DEF IInv, TablesTyped, JournalTells, ClaimDone, world, Deliver
<1>2. JournalTells'
  BY DEF IInv, JournalTells, ClaimDone
<1>3. KeysUnique'
  BY DEF IInv, KeysUnique, KeyOfRow, ClaimDone
<1>4. Underway'
  BY DEF IInv, Underway, ClaimDone, Own
<1>5. Covered'
  BY DEF IInv, Covered, ClaimDone, world
<1>6. Handed'
  BY IntentsAssumption DEF IInv, JournalTells, Handed, ClaimDone, Deliver
<1>8. Moved'
  BY DEF IInv, Moved, Spent, ClaimDone, world
<1>7. OneBody'
  <2> DEFINE now == <<IdOf[i], job[IdOf[i]].body>>
  <2>1. \A x \in delivered' : x = <<x[1], x[2]>>
    BY <1>1 DEF TablesTyped
  <2>2. delivered' = delivered \cup {now} /\ now[1] = IdOf[i] /\ now[2] = job[IdOf[i]].body
    BY DEF ClaimDone, Deliver
  <2>3. \A x \in delivered : x[1] = IdOf[i] => x[2] = now[2]
    BY <2>2 DEF IInv, Handed, ClaimDone
  <2>4. \A d, e \in delivered' : d[1] = e[1] => d[2] = e[2]
    BY <2>2, <2>3 DEF IInv, OneBody
  <2> QED BY <2>1, <2>4 DEF OneBody
<1> QED BY <1>1, <1>2, <1>3, <1>4, <1>5, <1>6, <1>7, <1>8 DEF IInv

LEMMA ClaimExpiredKeeps ==
    ASSUME IInv, NEW i \in Intents, ClaimExpired(i)
    PROVE  IInv'
<1>1. TablesTyped'
  BY DEF IInv, TablesTyped, ClaimExpired, Prune, Pruned, world
<1>2. JournalTells'
  BY DEF IInv, NoJob, JournalTells, ClaimExpired, Prune, Pruned
<1>3. KeysUnique'
  BY DEF IInv, KeysUnique, KeyOfRow, ClaimExpired
<1>4. Underway'
  BY DEF IInv, Underway, ClaimExpired, Own
<1>5. Covered'
  BY DEF IInv, Covered, ClaimExpired, world
<1>6. Handed'
  BY DEF IInv, TablesTyped, NoJob, Handed, ClaimExpired, Prune, Pruned
<1>8. Moved'
  BY DEF IInv, Moved, Spent, ClaimExpired, world
<1>7. OneBody'
  BY DEF IInv, OneBody, ClaimExpired
<1> QED BY <1>1, <1>2, <1>3, <1>4, <1>5, <1>6, <1>7, <1>8 DEF IInv

LEMMA ClaimRefusedKeeps ==
    ASSUME IInv, NEW i \in Intents, ClaimRefused(i)
    PROVE  IInv'
<1>1. TablesTyped'
  BY DEF IInv, TablesTyped, ClaimRefused, Prune, Pruned, world
<1>2. JournalTells'
  BY DEF IInv, NoJob, JournalTells, ClaimRefused, Prune, Pruned
<1>3. KeysUnique'
  BY DEF IInv, KeysUnique, KeyOfRow, ClaimRefused
<1>4. Underway'
  BY DEF IInv, Underway, ClaimRefused, Own
<1>5. Covered'
  BY DEF IInv, Covered, ClaimRefused, world
<1>6. Handed'
  BY DEF IInv, TablesTyped, NoJob, Handed, ClaimRefused, Prune, Pruned
<1>8. Moved'
  BY DEF IInv, Moved, Spent, ClaimRefused, world
<1>7. OneBody'
  BY DEF IInv, OneBody, ClaimRefused
<1> QED BY <1>1, <1>2, <1>3, <1>4, <1>5, <1>6, <1>7, <1>8 DEF IInv

LEMMA ClaimWorkKeeps ==
    ASSUME IInv, NEW r \in Requests, NEW i \in Intents, ClaimWork(r, i)
    PROVE  IInv'
<1>0. job' \in [Ids -> Jobs \cup {NoJob}]
  <2>1. Pruned[IdOf[i]] \in Jobs \cup {NoJob}
    BY IntentsAssumption DEF IInv, TablesTyped, Pruned
  <2>2. Pruned[IdOf[i]].body \in Bodies \cup {None} /\ Pruned[IdOf[i]].held \in {0, 1}
    BY <2>1 DEF Jobs, NoJob
  <2>3. Hold(i) \in {0, 1 - Pruned[IdOf[i]].held}
    BY DEF Hold
  <2>4. Pruned[IdOf[i]].held + Hold(i) \in {0, 1}
    BY <2>2, <2>3
  <2>5. [phase |-> "working", intent |-> i, owner |-> r, leased |-> TRUE, kept |-> TRUE,
         held |-> Pruned[IdOf[i]].held + Hold(i), body |-> Pruned[IdOf[i]].body] \in Jobs
    BY <2>2, <2>4 DEF Jobs, Phases
  <2> QED BY <2>5, IntentsAssumption DEF IInv, TablesTyped, ClaimWork, Pruned
<1>1. TablesTyped'
  BY <1>0 DEF IInv, TablesTyped, Processes, Steps, ClaimWork, world
<1>2. JournalTells'
  BY DEF IInv, TablesTyped, Jobs, Phases, NoJob, JournalTells, ClaimWork, Pruned, Expired,
     Workable, Free, Granted, Tombstone
<1>3. KeysUnique'
  BY DEF IInv, KeysUnique, KeyOfRow, ClaimWork
<1>4. Underway'
  BY DEF IInv, Underway, ClaimWork, Own
<1>5. Covered'
  BY DEF IInv, Covered, ClaimWork, world
<1>6. Handed'
  BY DEF IInv, TablesTyped, Jobs, Phases, NoJob, Handed, ClaimWork, Pruned, Expired, Workable,
     Free, Granted, Tombstone
<1>8. Moved'
  BY DEF IInv, Moved, Spent, ClaimWork, world
<1>7. OneBody'
  BY DEF IInv, OneBody, ClaimWork
<1> QED BY <1>1, <1>2, <1>3, <1>4, <1>5, <1>6, <1>7, <1>8 DEF IInv

\* What an action leaves alone: every job, journal row or request but one.
OnlyJob(n) ==
    job' \in [Ids -> Jobs \cup {NoJob}] /\ \A k \in Ids \ {n} : job'[k] = job[k]
OnlyRow(n) ==
    /\ journal' \in [Ids -> [phase : {"settling", "done"}, intent : Intents] \cup {NoRow}]
    /\ \A k \in Ids \ {n} : journal'[k] = journal[k]
OnlyRequest(r) ==
    req' \in [Requests -> Processes] /\ \A q \in Requests \ {r} : req'[q] = req[q]

LEMMA JobMoves ==
    ASSUME TablesTyped, NEW n \in Ids, NEW j \in Jobs, job' = [job EXCEPT ![n] = j]
    PROVE  OnlyJob(n) /\ job'[n] = j
  BY DEF TablesTyped, OnlyJob

LEMMA RowMoves ==
    ASSUME TablesTyped, NEW n \in Ids, NEW row \in [phase : {"settling", "done"}, intent : Intents],
           journal' = [journal EXCEPT ![n] = row]
    PROVE  OnlyRow(n) /\ journal'[n] = row
  BY DEF TablesTyped, OnlyRow

LEMMA RequestMoves ==
    ASSUME TablesTyped, NEW r \in Requests, NEW q \in Processes, req' = [req EXCEPT ![r] = q]
    PROVE  OnlyRequest(r) /\ req'[r] = q
  BY DEF TablesTyped, OnlyRequest

LEMMA RequestEnds ==
    ASSUME TablesTyped, NEW r \in Requests, Finished(r)
    PROVE  OnlyRequest(r) /\ req'[r].step = "idle"
<1>1. Idle \in Processes /\ Idle.step = "idle" /\ req' = [req EXCEPT ![r] = Idle]
  BY DEF Processes, Idle, Finished
<1> QED BY <1>1, RequestMoves

\* A request at work has an intent, and a job it holds is one.
LEMMA AtWork ==
    ASSUME TablesTyped, NEW r \in Requests, req[r].step # "idle"
    PROVE  /\ req[r] \in [step : Steps, intent : Intents, body : Bodies \cup {None}]
           /\ req[r].intent \in Intents /\ Own(r) \in Ids
<1>1. req[r] \in [step : Steps, intent : Intents, body : Bodies \cup {None}]
  BY DEF TablesTyped, Processes, Idle
<1> QED BY <1>1, IntentsAssumption DEF Own

LEMMA JobPresent ==
    ASSUME TablesTyped, NEW n \in Ids, job[n].phase # "none"
    PROVE  job[n] \in Jobs /\ job[n].intent \in Intents
<1>1. job[n] \in Jobs
  BY DEF TablesTyped, NoJob
<1> QED BY <1>1 DEF Jobs

\* A request that ends leaves the others as they were.
LEMMA EndingKeepsUnderway ==
    ASSUME Underway, NEW r \in Requests, OnlyRequest(r), req'[r].step = "idle", sent' = sent,
           \A n \in Ids : journal[n].phase # "none" => journal'[n].phase # "none",
           \A q \in Requests : req[q].step # "idle" => Own(q) \in Ids
    PROVE  Underway'
<1>1. \A q \in Requests : req'[q].step # "idle" => q # r /\ req'[q] = req[q] /\ Own(q) \in Ids
  BY DEF OnlyRequest
<1> QED BY <1>1 DEF Underway, Own

LEMMA ClaimReconcileKeeps ==
    ASSUME IInv, NEW r \in Requests, NEW i \in Intents, ClaimReconcile(r, i)
    PROVE  IInv'
<1> PICK n : n = IdOf[i]
  OBVIOUS
<1> PICK j, q : /\ j = [job[n] EXCEPT !.owner = r, !.leased = TRUE]
                /\ q = [step |-> "reconcile", intent |-> i, body |-> None]
  OBVIOUS
<1>1. /\ job[n].phase = "settling" /\ job' = [job EXCEPT ![n] = j] /\ req' = [req EXCEPT ![r] = q]
      /\ UNCHANGED <<journal, sent, delivered, world>>
  BY DEF ClaimReconcile, Resumes
<1>2. n \in Ids /\ job[n] \in Jobs /\ TablesTyped
  <2>1. n \in Ids /\ TablesTyped
    BY IntentsAssumption DEF IInv
  <2> QED BY <1>1, <2>1, JobPresent
<1>3. /\ j \in Jobs /\ j.phase = "settling" /\ j.body = job[n].body
      /\ q \in Processes /\ q.step = "reconcile" /\ q.intent = i
  BY <1>1, <1>2 DEF Jobs, Processes, Steps
<1>4. OnlyJob(n) /\ job'[n] = j /\ OnlyRequest(r) /\ req'[r] = q
  BY <1>1, <1>2, <1>3, JobMoves, RequestMoves
<1>5. TablesTyped'
  BY <1>1, <1>2, <1>4 DEF TablesTyped, world, OnlyJob, OnlyRequest
<1>6. JournalTells'
  BY <1>1, <1>2, <1>3, <1>4 DEF IInv, JournalTells, OnlyJob
<1>7. KeysUnique' /\ Covered' /\ Moved' /\ OneBody'
  BY <1>1 DEF IInv, KeysUnique, KeyOfRow, Covered, Moved, Spent, OneBody, world
<1>8. Underway'
  <2>1. journal[n].phase # "none"
    BY <1>1, <1>2 DEF IInv, JournalTells
  <2> QED BY <1>1, <1>3, <1>4, <2>1 DEF IInv, Underway, Own, OnlyRequest
<1>9. Handed'
  BY <1>1, <1>2, <1>3, <1>4 DEF IInv, TablesTyped, Handed, OnlyJob
<1> QED BY <1>5, <1>6, <1>7, <1>8, <1>9 DEF IInv

LEMMA PrepareKeeps ==
    ASSUME IInv, NEW r \in Requests, Prepare(r)
    PROVE  IInv'
<1>0. req' \in [Requests -> Processes]
  <2>1. req[r].step = "work" /\ req[r].intent \in Intents /\ req[r] \in Processes
    BY DEF IInv, TablesTyped, Prepare, Processes, Idle
  <2>2. [req[r] EXCEPT !.step = "ready", !.body = edition] \in Processes
    BY <2>1 DEF Processes, IInv, TablesTyped, Steps, Idle
  <2> QED BY <2>2 DEF IInv, TablesTyped, Prepare
<1>1. TablesTyped'
  BY <1>0 DEF IInv, TablesTyped, Prepare, tables, world
<1>2. JournalTells'
  BY DEF IInv, JournalTells, Prepare, tables
<1>3. KeysUnique'
  BY DEF IInv, KeysUnique, KeyOfRow, Prepare, tables
<1>4. Underway'
  BY DEF IInv, TablesTyped, Underway, Prepare, tables, Own
<1>5. Covered'
  BY DEF IInv, Covered, Prepare, tables, world
<1>6. Handed'
  BY DEF IInv, Handed, Prepare, tables
<1>8. Moved'
  BY DEF IInv, Moved, Spent, Prepare, tables, world
<1>7. OneBody'
  BY DEF IInv, OneBody, Prepare
<1> QED BY <1>1, <1>2, <1>3, <1>4, <1>5, <1>6, <1>7, <1>8 DEF IInv

LEMMA StartSettlementKeeps ==
    ASSUME IInv, NEW r \in Requests, StartSettlement(r)
    PROVE  IInv'
<1> PICK n, i, j, q :
       /\ n = Own(r) /\ i = job[n].intent /\ q = [req[r] EXCEPT !.step = "submit"]
       /\ j = [job[n] EXCEPT !.phase = "settling", !.body = req[r].body, !.leased = TRUE]
  OBVIOUS
<1>1. /\ req[r].step = "ready" /\ job[n].phase = "working" /\ Unsettled(n, i)
      /\ job' = [job EXCEPT ![n] = j] /\ req' = [req EXCEPT ![r] = q]
      /\ journal' = [journal EXCEPT ![n] = [phase |-> "settling", intent |-> i]]
      /\ UNCHANGED <<sent, delivered, world>>
  BY DEF StartSettlement, MaySettle, Holds
<1>2. TablesTyped /\ req[r].body \in Bodies
  BY <1>1 DEF IInv, Underway
<1>3. /\ n \in Ids /\ req[r] \in [step : Steps, intent : Intents, body : Bodies \cup {None}]
      /\ job[n] \in Jobs /\ i \in Intents
  BY <1>1, <1>2, AtWork, JobPresent
<1>4. /\ j \in Jobs /\ j.phase = "settling" /\ j.body \in Bodies
      /\ q \in Processes /\ q.step = "submit" /\ q.intent = req[r].intent
  <2>1. j \in Jobs /\ j.phase = "settling" /\ j.body \in Bodies
    BY <1>2, <1>3 DEF Jobs, Phases
  <2> QED BY <1>3, <2>1 DEF Processes, Steps
<1>5. OnlyJob(n) /\ job'[n] = j /\ OnlyRequest(r) /\ req'[r] = q
  <2>1. OnlyJob(n) /\ job'[n] = j
    BY <1>1, <1>2, <1>3, <1>4, JobMoves
  <2>2. OnlyRequest(r) /\ req'[r] = q
    BY <1>1, <1>2, <1>4, RequestMoves
  <2> QED BY <2>1, <2>2
<1>6. OnlyRow(n) /\ journal'[n].phase = "settling" /\ journal'[n].intent = i
  <2>1. PICK row : row = [phase |-> "settling", intent |-> i]
    OBVIOUS
  <2>2. row \in [phase : {"settling", "done"}, intent : Intents]
    BY <1>3, <2>1
  <2>3. OnlyRow(n) /\ journal'[n] = row
    <3>1. journal' = [journal EXCEPT ![n] = row]
      BY <1>1, <2>1
    <3> QED BY <1>2, <1>3, <2>2, <3>1, RowMoves
  <2> QED BY <2>1, <2>3
<1>7. /\ journal[n].phase = "none"
      /\ \A k \in Ids : journal[k].phase # "none" => KeyOf[journal[k].intent] # KeyOf[i]
  BY <1>1 DEF Unsettled, SameKey
<1>8. TablesTyped'
  BY <1>1, <1>2, <1>5, <1>6 DEF TablesTyped, world, OnlyJob, OnlyRow, OnlyRequest
<1>9. JournalTells'
  <2>1. \A k \in Ids : k # n => job'[k] = job[k] /\ journal'[k] = journal[k]
    BY <1>5, <1>6 DEF OnlyJob, OnlyRow
  <2>2. job'[n].phase = "settling" /\ job'[n].body \in Bodies /\ journal'[n].phase = "settling"
    BY <1>4, <1>5, <1>6
  <2> QED BY <2>1, <2>2 DEF IInv, JournalTells
<1>10. KeysUnique'
  BY <1>6, <1>7 DEF IInv, KeysUnique, KeyOfRow, OnlyRow
<1>11. Covered' /\ sent[n] = 0
  <2>1. sent[n] = 0
    BY <1>2, <1>3, <1>7 DEF IInv, Covered, TablesTyped
  <2> QED BY <1>1, <1>6, <2>1 DEF IInv, Covered, OnlyRow, world
<1>12. Underway'
  <2>1. /\ \A p \in Requests : Own(p)' = Own(p)
        /\ \A p \in Requests \ {r} : req'[p] = req[p]
        /\ req'[r].step = "submit" /\ Own(r) = n
    BY <1>4, <1>5 DEF Own, OnlyRequest
  <2>2. \A p \in Requests \ {r} : req[p].step = "submit" => Own(p) # n
    BY <1>7 DEF IInv, Underway
  <2>3. \A k \in Ids : journal[k].phase # "none" => journal'[k].phase # "none"
    BY <1>6 DEF OnlyRow
  <2>4. \A p \in Requests : req[p].step # "idle" => Own(p) \in Ids
    BY <1>2, AtWork
  <2> QED BY <1>1, <1>6, <1>11, <2>1, <2>2, <2>3, <2>4 DEF IInv, Underway
<1>13. Moved'
  BY <1>1, <1>6, <1>7 DEF IInv, Moved, Spent, OnlyRow, world
<1>14. Handed' /\ OneBody'
  BY <1>1, <1>7 DEF IInv, Handed, OneBody
<1> QED BY <1>8, <1>9, <1>10, <1>11, <1>12, <1>13, <1>14 DEF IInv

LEMMA SubmitKeeps ==
    ASSUME IInv, NEW r \in Requests, Submit(r)
    PROVE  IInv'
<1>1. TablesTyped'
  BY IntentsAssumption DEF IInv, TablesTyped, Processes, Steps, Idle, Submit, tables, world, Own,
     Finished, Rail, Deliver
<1>2. JournalTells'
  BY DEF IInv, JournalTells, Submit, tables
<1>3. KeysUnique'
  BY DEF IInv, KeysUnique, KeyOfRow, Submit, tables
<1>4. Underway'
  BY DEF IInv, TablesTyped, Underway, Submit, tables, Own
<1>5. Covered'
  BY DEF IInv, Covered, Underway, Submit, tables, world
<1>6. Handed'
  BY DEF IInv, Handed, Submit, tables
<1>8. Moved'
  BY DEF IInv, Moved, Spent, Submit, tables, world
<1>7. OneBody'
  BY DEF IInv, OneBody, Submit
<1> QED BY <1>1, <1>2, <1>3, <1>4, <1>5, <1>6, <1>7, <1>8 DEF IInv

LEMMA FinishChainKeeps ==
    ASSUME IInv, NEW r \in Requests, FinishChain(r)
    PROVE  IInv'
<1> PICK n, i, j :
       /\ n = Own(r) /\ i = journal[n].intent
       /\ j = [job[n] EXCEPT !.phase = "done", !.leased = FALSE]
  OBVIOUS
<1>1. /\ req[r].step \in {"sent", "reconcile"} /\ job[n].phase = "settling"
      /\ n \in paid \cup debited
      /\ job' = [job EXCEPT ![n] = j] /\ journal' = [journal EXCEPT ![n].phase = "done"]
      /\ delivered' = delivered \cup {<<n, job[n].body>>} /\ Finished(r)
      /\ UNCHANGED <<sent, world>>
  BY DEF FinishChain, Holds, Truth, Deliver
<1>2. TablesTyped /\ n \in Ids /\ job[n] \in Jobs
  BY <1>1, AtWork, JobPresent DEF IInv
<1>3. journal[n].phase = "settling" /\ job[n].body \in Bodies /\ i \in Intents
  BY <1>1, <1>2 DEF IInv, JournalTells, TablesTyped, NoRow
<1>4. j \in Jobs /\ j.phase = "done" /\ j.body = job[n].body
  BY <1>2 DEF Jobs, Phases
<1>5. OnlyJob(n) /\ job'[n] = j /\ OnlyRequest(r) /\ req'[r].step = "idle"
  BY <1>1, <1>2, <1>4, JobMoves, RequestEnds
<1>6. OnlyRow(n) /\ journal'[n].phase = "done" /\ journal'[n].intent = i
  <2>1. [journal[n] EXCEPT !.phase = "done"] = [phase |-> "done", intent |-> i]
    BY <1>2, <1>3 DEF TablesTyped, NoRow
  <2>2. journal' = [journal EXCEPT ![n] = [phase |-> "done", intent |-> i]]
    BY <1>1, <2>1
  <2> QED BY <1>2, <1>3, <2>2 DEF TablesTyped, OnlyRow
<1>7. TablesTyped'
  BY <1>1, <1>2, <1>3, <1>5, <1>6 DEF TablesTyped, world, OnlyJob, OnlyRow, OnlyRequest
<1>8. JournalTells'
  <2>1. \A k \in Ids : k # n => job'[k] = job[k] /\ journal'[k] = journal[k]
    BY <1>5, <1>6 DEF OnlyJob, OnlyRow
  <2>2. job'[n].phase = "done" /\ job'[n].body \in Bodies /\ journal'[n].phase = "done"
    BY <1>3, <1>4, <1>5, <1>6
  <2> QED BY <2>1, <2>2 DEF IInv, JournalTells
<1>9. KeysUnique'
  BY <1>2, <1>3, <1>6 DEF IInv, KeysUnique, KeyOfRow, OnlyRow
<1>10. Covered'
  BY <1>1, <1>6 DEF IInv, Covered, OnlyRow, world
<1>11. Underway'
  BY <1>1, <1>2, <1>5, <1>6, AtWork, EndingKeepsUnderway DEF IInv, OnlyRow
<1>12. Moved'
  BY <1>1, <1>2, <1>6 DEF IInv, Moved, Spent, OnlyRow, world
<1>13. \A d \in delivered : d[1] \in Ids /\ d[1] # n
  BY <1>2, <1>3 DEF IInv, TablesTyped, Handed
<1>14. Handed' /\ OneBody'
  <2>1. Handed'
    BY <1>1, <1>4, <1>5, <1>6, <1>13 DEF IInv, Handed, OnlyJob, OnlyRow
  <2> QED BY <1>1, <1>13, <2>1 DEF IInv, OneBody
<1> QED BY <1>7, <1>8, <1>9, <1>10, <1>11, <1>12, <1>14 DEF IInv

LEMMA DeferSettlementKeeps ==
    ASSUME IInv, NEW r \in Requests, DeferSettlement(r)
    PROVE  IInv'
<1> PICK n : n = Own(r)
  OBVIOUS
<1>1. /\ req[r].step # "idle" /\ Finished(r) /\ UNCHANGED <<journal, sent, delivered, world>>
      /\ \/ job' = job
         \/ job[n].phase = "settling" /\ job' = [job EXCEPT ![n].leased = TRUE]
  BY DEF DeferSettlement, Holds
<1>2. TablesTyped /\ n \in Ids /\ OnlyRequest(r) /\ req'[r].step = "idle"
  BY <1>1, AtWork, RequestEnds DEF IInv
<1>3. /\ job' \in [Ids -> Jobs \cup {NoJob}]
      /\ \A k \in Ids : job'[k].phase = job[k].phase /\ job'[k].body = job[k].body
  <2>1. CASE job' = job
    BY <1>2, <2>1 DEF TablesTyped
  <2>2. CASE job[n].phase = "settling" /\ job' = [job EXCEPT ![n].leased = TRUE]
    <3> PICK j : j = [job[n] EXCEPT !.leased = TRUE]
      OBVIOUS
    <3>1. j \in Jobs /\ j.phase = job[n].phase /\ j.body = job[n].body
      <4>1. job[n] \in Jobs
        BY <1>2, <2>2, JobPresent
      <4> QED BY <4>1 DEF Jobs
    <3>2. OnlyJob(n) /\ job'[n] = j
      BY <1>2, <2>2, <3>1, JobMoves
    <3> QED BY <3>1, <3>2 DEF OnlyJob
  <2> QED BY <1>1, <2>1, <2>2
<1>4. TablesTyped'
  BY <1>1, <1>2, <1>3 DEF TablesTyped, world, OnlyRequest
<1>5. JournalTells'
  BY <1>1, <1>3 DEF IInv, JournalTells
<1>6. KeysUnique' /\ Covered' /\ Moved' /\ OneBody'
  BY <1>1 DEF IInv, KeysUnique, KeyOfRow, Covered, Moved, Spent, OneBody, world
<1>7. Underway'
  BY <1>1, <1>2, AtWork, EndingKeepsUnderway DEF IInv
<1>8. Handed'
  BY <1>1, <1>2, <1>3 DEF IInv, TablesTyped, Handed
<1> QED BY <1>4, <1>5, <1>6, <1>7, <1>8 DEF IInv

LEMMA FinishCreditsKeeps ==
    ASSUME IInv, NEW r \in Requests, FinishCredits(r)
    PROVE  IInv'
<1> PICK n, i, j :
       /\ n = Own(r) /\ i = job[n].intent
       /\ j = [job[n] EXCEPT !.phase = "done", !.held = 0, !.leased = FALSE, !.body = req[r].body]
  OBVIOUS
<1>1. /\ req[r].step = "ready" /\ Rail(req[r].intent) = "credits"
      /\ job[n].phase = "working" /\ Unsettled(n, i)
      /\ job' = [job EXCEPT ![n] = j]
      /\ journal' = [journal EXCEPT ![n] = [phase |-> "done", intent |-> i]]
      /\ delivered' = delivered \cup {<<n, req[r].body>>} /\ Finished(r)
      /\ UNCHANGED <<sent, world>>
  BY DEF FinishCredits, Holds, Deliver
<1>2. TablesTyped /\ req[r].body \in Bodies
  BY <1>1 DEF IInv, Underway
<1>3. n \in Ids /\ job[n] \in Jobs /\ i \in Intents /\ RailOf[n] = "credits"
  BY <1>1, <1>2, AtWork, JobPresent DEF Rail, Own
<1>4. j \in Jobs /\ j.phase = "done" /\ j.body = req[r].body
  BY <1>2, <1>3 DEF Jobs, Phases
<1>5. OnlyJob(n) /\ job'[n] = j /\ OnlyRequest(r) /\ req'[r].step = "idle"
  BY <1>1, <1>2, <1>3, <1>4, JobMoves, RequestEnds
<1>6. OnlyRow(n) /\ journal'[n].phase = "done" /\ journal'[n].intent = i
  <2>1. PICK row : row = [phase |-> "done", intent |-> i]
    OBVIOUS
  <2>2. row \in [phase : {"settling", "done"}, intent : Intents]
    BY <1>3, <2>1
  <2>3. OnlyRow(n) /\ journal'[n] = row
    <3>1. journal' = [journal EXCEPT ![n] = row]
      BY <1>1, <2>1
    <3> QED BY <1>2, <1>3, <2>2, <3>1, RowMoves
  <2> QED BY <2>1, <2>3
<1>7. /\ journal[n].phase = "none"
      /\ \A k \in Ids : journal[k].phase # "none" => KeyOf[journal[k].intent] # KeyOf[i]
  BY <1>1 DEF Unsettled, SameKey
<1>8. TablesTyped'
  BY <1>1, <1>2, <1>3, <1>5, <1>6 DEF TablesTyped, world, OnlyJob, OnlyRow, OnlyRequest
<1>9. JournalTells'
  <2>1. \A k \in Ids : k # n => job'[k] = job[k] /\ journal'[k] = journal[k]
    BY <1>5, <1>6 DEF OnlyJob, OnlyRow
  <2>2. job'[n].phase = "done" /\ job'[n].body \in Bodies /\ journal'[n].phase = "done"
    BY <1>2, <1>4, <1>5, <1>6
  <2> QED BY <2>1, <2>2 DEF IInv, JournalTells
<1>10. KeysUnique'
  BY <1>6, <1>7 DEF IInv, KeysUnique, KeyOfRow, OnlyRow
<1>11. Covered'
  BY <1>1, <1>6 DEF IInv, Covered, OnlyRow, world
<1>12. Underway'
  BY <1>1, <1>2, <1>5, <1>6, AtWork, EndingKeepsUnderway DEF IInv, OnlyRow
<1>13. Moved'
  BY <1>1, <1>3, <1>6, <1>7 DEF IInv, Moved, Spent, OnlyRow, world
<1>14. \A d \in delivered : d[1] \in Ids /\ d[1] # n
  BY <1>2, <1>7 DEF IInv, TablesTyped, Handed
<1>15. Handed' /\ OneBody'
  <2>1. Handed'
    BY <1>1, <1>4, <1>5, <1>6, <1>14 DEF IInv, Handed, OnlyJob, OnlyRow
  <2> QED BY <1>1, <1>14, <2>1 DEF IInv, OneBody
<1> QED BY <1>8, <1>9, <1>10, <1>11, <1>12, <1>13, <1>15 DEF IInv

LEMMA FailKeeps ==
    ASSUME IInv, NEW r \in Requests, Fail(r)
    PROVE  IInv'
<1> PICK n : n = Own(r)
  OBVIOUS
<1> PICK j : j = [job[n] EXCEPT !.phase = "retry", !.held = 0, !.leased = FALSE]
  OBVIOUS
<1>1. /\ req[r].step # "idle" /\ Finished(r) /\ UNCHANGED <<journal, sent, delivered, world>>
      /\ job' = job \/ (job[n].phase = "working" /\ job' = [job EXCEPT ![n] = j])
  BY DEF Fail, Release, Holds
<1>2. TablesTyped /\ n \in Ids /\ OnlyRequest(r) /\ req'[r].step = "idle"
  BY <1>1, AtWork, RequestEnds DEF IInv
<1>3. /\ job' \in [Ids -> Jobs \cup {NoJob}]
      /\ \A k \in Ids : \/ job'[k] = job[k]
                        \/ job[k].phase = "working" /\ job'[k].phase = "retry"
                           /\ job'[k].body = job[k].body
  <2>1. CASE job' = job
    BY <1>2, <2>1 DEF TablesTyped
  <2>2. CASE job[n].phase = "working" /\ job' = [job EXCEPT ![n] = j]
    <3>1. j \in Jobs /\ j.phase = "retry" /\ j.body = job[n].body
      <4>1. job[n] \in Jobs
        BY <1>2, <2>2, JobPresent
      <4> QED BY <4>1 DEF Jobs, Phases
    <3>2. OnlyJob(n) /\ job'[n] = j
      BY <1>2, <2>2, <3>1, JobMoves
    <3> QED BY <2>2, <3>1, <3>2 DEF OnlyJob
  <2> QED BY <1>1, <2>1, <2>2
<1>4. TablesTyped'
  BY <1>1, <1>2, <1>3 DEF TablesTyped, world, OnlyRequest
<1>5. JournalTells'
  BY <1>1, <1>3 DEF IInv, JournalTells
<1>6. KeysUnique' /\ Covered' /\ Moved' /\ OneBody'
  BY <1>1 DEF IInv, KeysUnique, KeyOfRow, Covered, Moved, Spent, OneBody, world
<1>7. Underway'
  BY <1>1, <1>2, AtWork, EndingKeepsUnderway DEF IInv
<1>8. Handed'
  BY <1>1, <1>2, <1>3 DEF IInv, TablesTyped, Handed
<1> QED BY <1>4, <1>5, <1>6, <1>7, <1>8 DEF IInv

LEMMA CrashRequestKeeps ==
    ASSUME IInv, NEW r \in Requests, CrashRequest(r)
    PROVE  IInv'
<1>1. TablesTyped'
  BY DEF IInv, TablesTyped, Processes, CrashRequest, tables, world, Finished
<1>2. JournalTells'
  BY DEF IInv, JournalTells, CrashRequest, tables
<1>3. KeysUnique'
  BY DEF IInv, KeysUnique, KeyOfRow, CrashRequest, tables
<1>4. Underway'
  BY DEF IInv, Idle, Underway, CrashRequest, tables, Own, Finished
<1>5. Covered'
  BY DEF IInv, Covered, CrashRequest, tables, world
<1>6. Handed'
  BY DEF IInv, Handed, CrashRequest, tables
<1>8. Moved'
  BY DEF IInv, Moved, Spent, CrashRequest, tables, world
<1>7. OneBody'
  BY DEF IInv, OneBody, CrashRequest
<1> QED BY <1>1, <1>2, <1>3, <1>4, <1>5, <1>6, <1>7, <1>8 DEF IInv

LEMMA LeaseLapsesKeeps ==
    ASSUME IInv, NEW n \in Ids, LeaseLapses(n)
    PROVE  IInv'
<1>0. job' \in [Ids -> Jobs \cup {NoJob}]
  <2>1. job[n] \in Jobs
    BY DEF IInv, TablesTyped, NoJob, LeaseLapses, Present
  <2>2. [job[n] EXCEPT !.leased = FALSE] \in Jobs
    BY <2>1 DEF Jobs
  <2> QED BY <2>2 DEF IInv, TablesTyped, LeaseLapses
<1>1. TablesTyped'
  BY <1>0 DEF IInv, TablesTyped, LeaseLapses, world
<1>2. JournalTells'
  BY DEF IInv, JournalTells, LeaseLapses
<1>3. KeysUnique'
  BY DEF IInv, KeysUnique, KeyOfRow, LeaseLapses
<1>4. Underway'
  BY DEF IInv, Underway, LeaseLapses, Own
<1>5. Covered'
  BY DEF IInv, Covered, LeaseLapses, world
<1>6. Handed'
  BY DEF IInv, Handed, LeaseLapses
<1>8. Moved'
  BY DEF IInv, Moved, Spent, LeaseLapses, world
<1>7. OneBody'
  BY DEF IInv, OneBody, LeaseLapses
<1> QED BY <1>1, <1>2, <1>3, <1>4, <1>5, <1>6, <1>7, <1>8 DEF IInv

LEMMA RetentionEndsKeeps ==
    ASSUME IInv, NEW n \in Ids, RetentionEnds(n)
    PROVE  IInv'
<1>0. job' \in [Ids -> Jobs \cup {NoJob}]
  <2>1. job[n] \in Jobs
    BY DEF IInv, TablesTyped, NoJob, RetentionEnds, Present
  <2>2. [job[n] EXCEPT !.kept = FALSE] \in Jobs
    BY <2>1 DEF Jobs
  <2> QED BY <2>2 DEF IInv, TablesTyped, RetentionEnds
<1>1. TablesTyped'
  BY <1>0 DEF IInv, TablesTyped, RetentionEnds, world
<1>2. JournalTells'
  BY DEF IInv, JournalTells, RetentionEnds
<1>3. KeysUnique'
  BY DEF IInv, KeysUnique, KeyOfRow, RetentionEnds
<1>4. Underway'
  BY DEF IInv, Underway, RetentionEnds, Own
<1>5. Covered'
  BY DEF IInv, Covered, RetentionEnds, world
<1>6. Handed'
  BY DEF IInv, Handed, RetentionEnds
<1>8. Moved'
  BY DEF IInv, Moved, Spent, RetentionEnds, world
<1>7. OneBody'
  BY DEF IInv, OneBody, RetentionEnds
<1> QED BY <1>1, <1>2, <1>3, <1>4, <1>5, <1>6, <1>7, <1>8 DEF IInv

LEMMA ConfirmKeeps ==
    ASSUME IInv, NEW n \in Ids, Confirm(n)
    PROVE  IInv'
<1>1. TablesTyped'
  BY DEF IInv, TablesTyped, Confirm, tables
<1>2. JournalTells'
  BY DEF IInv, JournalTells, Confirm, tables
<1>3. KeysUnique'
  BY DEF IInv, KeysUnique, KeyOfRow, Confirm, tables
<1>4. Underway'
  BY DEF IInv, Underway, Confirm, tables, Own
<1>5. Covered'
  BY DEF IInv, Covered, Confirm, tables
<1>6. Handed'
  BY DEF IInv, Handed, Confirm, tables
<1>8. Moved'
  BY DEF IInv, Moved, Spent, Confirm, tables
<1>7. OneBody'
  BY DEF IInv, OneBody, Confirm
<1> QED BY <1>1, <1>2, <1>3, <1>4, <1>5, <1>6, <1>7, <1>8 DEF IInv

LEMMA DebitKeeps ==
    ASSUME IInv, NEW n \in Ids, Debit(n)
    PROVE  IInv'
<1>1. TablesTyped'
  BY DEF IInv, TablesTyped, Debit, tables
<1>2. JournalTells'
  BY DEF IInv, JournalTells, Debit, tables
<1>3. KeysUnique'
  BY DEF IInv, KeysUnique, KeyOfRow, Debit, tables
<1>4. Underway'
  BY DEF IInv, Underway, Debit, tables, Own
<1>5. Covered'
  BY DEF IInv, Covered, Underway, Debit, tables
<1>6. Handed'
  BY DEF IInv, Handed, Debit, tables
<1>8. Moved'
  BY DEF IInv, Moved, Spent, Debit, tables
<1>7. OneBody'
  BY DEF IInv, OneBody, Debit
<1> QED BY <1>1, <1>2, <1>3, <1>4, <1>5, <1>6, <1>7, <1>8 DEF IInv
-----------------------------------------------------------------------------
(* The invariant holds in every behaviour. *)

LEMMA InitKeeps == Init => IInv
<1> SUFFICES ASSUME Init PROVE IInv
  OBVIOUS
<1>1. TablesTyped
  BY BoundsAssumption DEF Init, TablesTyped, Processes, Bodies
<1>2. JournalTells /\ KeysUnique /\ Covered /\ Moved
  BY DEF Init, JournalTells, KeysUnique, Covered, Moved, NoJob, NoRow
<1>3. Underway /\ Handed /\ OneBody
  BY DEF Init, Underway, Handed, OneBody, Idle
<1> QED BY <1>1, <1>2, <1>3 DEF IInv

\* What the invariant reads is not changed by the funding of the account, by
\* time passing for an authorization, by the RAM cache or by stuttering.
LEMMA ElsewhereKeeps ==
    ASSUME IInv,
           UNCHANGED <<job, journal, req, paid, debited, sent, delivered>>,
           edition' \in Bodies
    PROVE  IInv'
<1>1. TablesTyped'
  BY DEF IInv, TablesTyped
<1>2. JournalTells' /\ KeysUnique' /\ Covered' /\ Moved'
  BY DEF IInv, JournalTells, KeysUnique, KeyOfRow, Covered, Moved, Spent
<1>3. Underway' /\ Handed' /\ OneBody'
  BY DEF IInv, Underway, Own, Handed, OneBody
<1> QED BY <1>1, <1>2, <1>3 DEF IInv

LEMMA NextKeeps == IInv /\ [Next]_vars => IInv'
<1> SUFFICES ASSUME IInv, [Next]_vars PROVE IInv'
  OBVIOUS
<1>1. ASSUME NEW i \in Intents, ClaimDone(i) \/ ClaimExpired(i) \/ ClaimRefused(i)
      PROVE  IInv'
  BY <1>1, ClaimDoneKeeps, ClaimExpiredKeeps, ClaimRefusedKeeps
<1>2. ASSUME NEW r \in Requests, NEW i \in Intents, ClaimWork(r, i) \/ ClaimReconcile(r, i)
      PROVE  IInv'
  BY <1>2, ClaimWorkKeeps, ClaimReconcileKeeps
<1>3. ASSUME NEW r \in Requests, RequestNext(r)
      PROVE  IInv'
  BY <1>3, PrepareKeeps, StartSettlementKeeps, SubmitKeeps, FinishChainKeeps,
     DeferSettlementKeeps, FinishCreditsKeeps, FailKeeps, CrashRequestKeeps DEF RequestNext
<1>4. ASSUME NEW n \in Ids, LeaseLapses(n) \/ RetentionEnds(n) \/ Confirm(n) \/ Debit(n)
      PROVE  IInv'
  BY <1>4, LeaseLapsesKeeps, RetentionEndsKeeps, ConfirmKeeps, DebitKeeps
<1>5. ASSUME NEW p \in Payments, AddCredit(p) \/ \E a \in Amounts : BindFunding(p, a)
      PROVE  IInv'
  BY <1>5, ElsewhereKeeps DEF AddCredit, BindFunding, world, IInv, TablesTyped
<1>6. ASSUME (\E i \in Intents : AuthorizationEnds(i)) \/ Evict \/ UNCHANGED vars
      PROVE  IInv'
  BY <1>6, ElsewhereKeeps DEF AuthorizationEnds, Evict, vars, tables, world, IInv, TablesTyped
<1>7. ASSUME NewEdition
      PROVE  IInv'
  <2>1. edition' \in Bodies
    BY <1>7, BoundsAssumption DEF IInv, TablesTyped, NewEdition, Bodies
  <2> QED BY <1>7, <2>1, ElsewhereKeeps DEF NewEdition, tables
<1> QED BY <1>1, <1>2, <1>3, <1>4, <1>5, <1>6, <1>7 DEF Next

LEMMA Invariance == Spec => []IInv
<1>1. Init => IInv
  BY InitKeeps
<1>2. IInv /\ [Next]_vars => IInv'
  BY NextKeeps
<1> QED BY <1>1, <1>2, PTL DEF Spec

(***************************************************************************)
(* One /settle call per authorization, for any number of requests, ids,    *)
(* lapses, sweeps and crashes.                                             *)
(***************************************************************************)
THEOREM SettledOnceOnly == Spec => []OneSettleAttempt
<1>1. IInv => OneSettleAttempt
  BY DEF IInv, Covered, OneSettleAttempt
<1> QED BY <1>1, Invariance, PTL

(***************************************************************************)
(* One charge per idempotency key of a buyer, on each rail.                *)
(***************************************************************************)
THEOREM ChargedOncePerKey == Spec => []OneChargePerKey
<1>1. IInv => OneChargePerKey
  BY DEF IInv, Covered, KeysUnique, Charged, OneChargePerKey
<1> QED BY <1>1, Invariance, PTL

(***************************************************************************)
(* Money moves before a result is handed out, and a retry receives the     *)
(* same result.                                                            *)
(***************************************************************************)
THEOREM PaidBodyDelivered == Spec => []DeliveredPaidBody
<1>1. IInv => DeliveredPaidBody
  BY DEF IInv, TablesTyped, Handed, Moved, OneBody, DeliveredPaidBody
<1> QED BY <1>1, Invariance, PTL
-----------------------------------------------------------------------------
(* The credits of the account: what is held is the sum of the holds, and   *)
(* what is spent is the number of journalled credit reads.  A job that is  *)
(* settling is of another rail, so only finishCredits spends.              *)

HeldBy == [n \in Ids |-> job[n].held]
Back == [n \in Ids |-> IF Expired(n) THEN job[n].held ELSE 0]

FundsTyped ==
    /\ balance \in [available : Nat, held : Nat]
    /\ grants \in [Payments -> Nat] /\ bound \in [Payments -> Nat]
RailsApart == \A n \in Ids : job[n].phase = "settling" => RailOf[n] # "credits"
FundsInv == IInv /\ FundsTyped /\ RailsApart /\ CreditConserved

LEMMA HoldsAre == CreditConserved => balance.held = SumFunctionOnSet(HeldBy, Ids)
BY DEF CreditConserved, HeldBy

LEMMA HoldsFit ==
    ASSUME TablesTyped
    PROVE  /\ Countable(HeldBy, Ids) /\ Countable(Back, Ids)
           /\ \A n \in Ids : job[n].held \in {0, 1}
<1>1. \A n \in Ids : job[n].held \in {0, 1}
  <2>1. \A n \in Ids : job[n] \in Jobs \cup {NoJob}
    BY DEF TablesTyped
  <2> QED BY <2>1 DEF Jobs, NoJob
<1> QED BY <1>1, StorageAssumption DEF Countable, HeldBy, Back

LEMMA NextHoldsFit ==
    ASSUME TablesTyped'
    PROVE  Countable(HeldBy', Ids)
<1>1. \A n \in Ids : job'[n].held \in {0, 1}
  <2>1. \A n \in Ids : job'[n] \in Jobs \cup {NoJob}
    BY DEF TablesTyped
  <2> QED BY <2>1 DEF Jobs, NoJob
<1> QED BY <1>1, StorageAssumption DEF Countable, HeldBy

LEMMA SpentFinite == IsFiniteSet(Spent) /\ Cardinality(Spent) \in Nat
<1>1. Spent \subseteq Ids
  BY DEF Spent
<1> QED BY <1>1, StorageAssumption, FS_Subset, FS_CardinalityType

\* A step that holds, grants and spends nothing.
LEMMA FundsUntouched ==
    ASSUME FundsInv, IInv', UNCHANGED <<balance, grants, bound>>,
           \A n \in Ids : job'[n].held = job[n].held,
           \A n \in Ids : RailOf[n] = "credits" => journal'[n].phase = journal[n].phase,
           RailsApart'
    PROVE  FundsInv'
<1>1. HeldBy' = HeldBy
  BY DEF HeldBy
<1>2. Spent' = Spent
  BY DEF Spent
<1>3. CreditConserved'
  BY <1>1, <1>2 DEF FundsInv, CreditConserved, HeldBy
<1> QED BY <1>3 DEF FundsInv, FundsTyped

\* prune returns what the expired jobs held.
LEMMA SweepReturns ==
    ASSUME FundsInv
    PROVE  /\ Swept \in [available : Nat, held : Nat]
           /\ Swept.held = SumFunctionOnSet([n \in Ids |-> Pruned[n].held], Ids)
           /\ Swept.available + Swept.held = balance.available + balance.held
           /\ Countable([n \in Ids |-> Pruned[n].held], Ids)
<1> DEFINE left == [n \in Ids |-> Pruned[n].held]
           back == SumFunctionOnSet(Back, Ids)
<1>1. Countable(HeldBy, Ids) /\ Countable(Back, Ids) /\ \A n \in Ids : job[n].held \in {0, 1}
  BY HoldsFit DEF FundsInv, IInv
<1>2. \A n \in Ids : HeldBy[n] = left[n] + Back[n] /\ left[n] \in {0, 1}
  BY <1>1 DEF HeldBy, Back, Pruned, NoJob
<1>3. Countable(left, Ids)
  BY <1>2, StorageAssumption DEF Countable
<1>4. /\ Summable(left, Ids) /\ Summable(Back, Ids)
      /\ SumFunctionOnSet(left, Ids) \in Nat /\ back \in Nat
  BY <1>1, <1>3, SumNat
<1>5. SumFunctionOnSet(HeldBy, Ids) = SumFunctionOnSet(left, Ids) + back
  BY <1>2, <1>4, SumAdds
<1>6. balance.held = SumFunctionOnSet(left, Ids) + back
  BY <1>5, HoldsAre DEF FundsInv
<1>7. Swept = [available |-> balance.available + back, held |-> balance.held - back]
  BY DEF Swept, Back
<1>8. balance.available \in Nat
  BY DEF FundsInv, FundsTyped
<1> HIDE DEF left, back
<1>9. Swept.available = balance.available + back /\ Swept.held = SumFunctionOnSet(left, Ids)
  BY <1>4, <1>6, <1>7
<1>10. Swept.available + Swept.held = balance.available + balance.held
  BY <1>4, <1>6, <1>8, <1>9
<1>11. Swept \in [available : Nat, held : Nat]
  BY <1>4, <1>7, <1>8, <1>9
<1> QED BY <1>3, <1>9, <1>10, <1>11 DEF left

LEMMA PrunedRails == RailsApart => \A n \in Ids : Pruned[n].phase = "settling" => RailOf[n] # "credits"
BY DEF RailsApart, Pruned, NoJob

LEMMA SweepKeepsFunds ==
    ASSUME FundsInv, IInv', Prune, UNCHANGED <<journal, grants, bound>>
    PROVE  FundsInv'
<1>1. /\ balance' \in [available : Nat, held : Nat]
      /\ balance'.held = SumFunctionOnSet([n \in Ids |-> job'[n].held], Ids)
      /\ balance'.available + balance'.held = balance.available + balance.held
  BY SweepReturns DEF Prune
<1>2. Spent' = Spent
  BY DEF Spent
<1>3. RailsApart'
  BY PrunedRails DEF FundsInv, RailsApart, Prune
<1>4. CreditConserved'
  BY <1>1, <1>2 DEF FundsInv, CreditConserved
<1> QED BY <1>1, <1>3, <1>4 DEF FundsInv, FundsTyped

LEMMA ClaimWorkKeepsFunds ==
    ASSUME FundsInv, IInv', NEW r \in Requests, NEW i \in Intents, ClaimWork(r, i)
    PROVE  FundsInv'
<1> DEFINE n == IdOf[i]
           left == [k \in Ids |-> Pruned[k].held]
<1>1. n \in Ids
  BY IntentsAssumption
<1>2. /\ Swept \in [available : Nat, held : Nat]
      /\ Swept.held = SumFunctionOnSet(left, Ids)
      /\ Swept.available + Swept.held = balance.available + balance.held
      /\ Countable(left, Ids)
  BY SweepReturns
<1>3. Hold(i) \in Nat /\ left[n] \in Nat
  <2>1. left[n] \in {0, 1}
    <3>1. job[n].held \in {0, 1}
      BY <1>1, HoldsFit DEF FundsInv, IInv
    <3> QED BY <1>1, <3>1 DEF Pruned, NoJob
  <2>2. Hold(i) \in {0, 1 - left[n]}
    BY <1>1 DEF Hold
  <2> QED BY <2>1, <2>2
<1>4. /\ \A k \in Ids \ {n} : job'[k].held = left[k]
      /\ job'[n].held = left[n] + Hold(i)
  BY <1>1 DEF ClaimWork, Pruned
<1>5. balance' = [available |-> Swept.available - Hold(i), held |-> Swept.held + Hold(i)]
  BY DEF ClaimWork
<1>6. Swept.available >= Hold(i)
  BY DEF ClaimWork, Granted
<1>7. Summable(left, Ids) /\ Countable(HeldBy', Ids) /\ Summable(HeldBy', Ids)
  <2>1. Countable(HeldBy', Ids)
    BY NextHoldsFit DEF IInv
  <2> QED BY <1>2, <2>1, SumNat
<1>8. SumFunctionOnSet(HeldBy', Ids) = SumFunctionOnSet(left, Ids) - left[n] + HeldBy'[n]
  <2>1. \A k \in Ids \ {n} : left[k] = HeldBy'[k]
    BY <1>4 DEF HeldBy
  <2> HIDE DEF left, n
  <2> QED BY <1>1, <1>7, <2>1, SumChanges
<1>9. HeldBy'[n] = left[n] + Hold(i)
  BY <1>1, <1>4 DEF HeldBy
<1>10. Swept.available \in Nat /\ Swept.held \in Nat
  BY <1>2
<1> HIDE DEF n, left
<1>11. SumFunctionOnSet(HeldBy', Ids) = Swept.held + Hold(i)
  BY <1>2, <1>3, <1>8, <1>9, <1>10
<1>12. /\ balance' \in [available : Nat, held : Nat]
       /\ balance'.held = SumFunctionOnSet(HeldBy', Ids)
       /\ balance'.available + balance'.held = balance.available + balance.held
  BY <1>2, <1>3, <1>5, <1>6, <1>10, <1>11
<1>13. Spent' = Spent
  BY DEF Spent, ClaimWork
<1>14. RailsApart'
  BY <1>1, PrunedRails DEF FundsInv, RailsApart, ClaimWork, Pruned, n
<1>15. CreditConserved'
  BY <1>12, <1>13 DEF FundsInv, CreditConserved, HeldBy, ClaimWork
<1> QED BY <1>12, <1>14, <1>15 DEF FundsInv, FundsTyped, ClaimWork

\* A hold of one job changes by what the account holds more.
LEMMA OneHoldChanges ==
    ASSUME FundsInv, IInv', NEW n \in Ids, \A k \in Ids \ {n} : job'[k].held = job[k].held
    PROVE  SumFunctionOnSet(HeldBy', Ids) = balance.held - job[n].held + job'[n].held
<1>1. Countable(HeldBy, Ids) /\ Countable(HeldBy', Ids)
  <2>1. Countable(HeldBy', Ids)
    BY NextHoldsFit DEF IInv
  <2> QED BY <2>1, HoldsFit DEF FundsInv, IInv
<1>2. Summable(HeldBy, Ids) /\ Summable(HeldBy', Ids)
  BY <1>1, SumNat
<1>3. \A k \in Ids \ {n} : HeldBy[k] = HeldBy'[k]
  BY DEF HeldBy
<1>4. SumFunctionOnSet(HeldBy', Ids) = SumFunctionOnSet(HeldBy, Ids) - HeldBy[n] + HeldBy'[n]
  BY <1>2, <1>3, SumChanges
<1>5. HeldBy[n] = job[n].held /\ HeldBy'[n] = job'[n].held
  BY DEF HeldBy
<1> QED BY <1>4, <1>5, HoldsAre DEF FundsInv

LEMMA FailKeepsFunds ==
    ASSUME FundsInv, IInv', NEW r \in Requests, Fail(r)
    PROVE  FundsInv'
<1> DEFINE n == Own(r)
<1>1. CASE ~Holds(r, "working")
  BY <1>1, FundsUntouched DEF Fail, Release, FundsInv, RailsApart
<1>2. CASE Holds(r, "working")
  <2>1. n \in Ids
    BY IntentsAssumption DEF Fail, FundsInv, IInv, TablesTyped, Processes, Idle, Own
  <2>2. /\ job' = [job EXCEPT ![n] = [@ EXCEPT !.phase = "retry", !.held = 0, !.leased = FALSE]]
        /\ balance' = [available |-> balance.available + job[n].held, held |-> balance.held - job[n].held]
        /\ UNCHANGED <<journal, grants, bound>>
    BY <1>2 DEF Fail, Release, Refund
  <2>3. job \in [Ids -> Jobs \cup {NoJob}]
    BY DEF FundsInv, IInv, TablesTyped
  <2>4. /\ \A k \in Ids \ {n} : job'[k].held = job[k].held
        /\ job'[n].held = 0
        /\ \A k \in Ids : job'[k].phase = "settling" => job[k].phase = "settling"
    <3>1. job[n] \in Jobs
      BY <1>2, <2>1, <2>3 DEF Holds, NoJob
    <3> HIDE DEF n
    <3> QED BY <2>1, <2>2, <2>3, <3>1 DEF Jobs
  <2>5. SumFunctionOnSet(HeldBy', Ids) = balance.held - job[n].held + 0
    BY <2>1, <2>4, OneHoldChanges
  <2>6. job[n].held \in {0, 1} /\ balance.available \in Nat /\ balance.held \in Nat
    BY <2>1, HoldsFit DEF FundsInv, IInv, FundsTyped
  <2>7. SumFunctionOnSet(HeldBy', Ids) \in Nat
    <3>1. Countable(HeldBy', Ids)
      BY NextHoldsFit DEF IInv
    <3> QED BY <3>1, SumNat
  <2> HIDE DEF n
  <2>8. /\ balance' \in [available : Nat, held : Nat]
        /\ balance'.held = SumFunctionOnSet(HeldBy', Ids)
        /\ balance'.available + balance'.held = balance.available + balance.held
    BY <2>2, <2>5, <2>6, <2>7
  <2>9. Spent' = Spent
    BY <2>2 DEF Spent
  <2>10. CreditConserved'
    BY <2>2, <2>8, <2>9 DEF FundsInv, CreditConserved, HeldBy
  <2>11. RailsApart'
    BY <2>4 DEF FundsInv, RailsApart
  <2> QED BY <2>2, <2>8, <2>10, <2>11 DEF FundsInv, FundsTyped
<1> QED BY <1>1, <1>2

\* One more read is journalled for the credit that was held.
LEMMA FinishCreditsKeepsFunds ==
    ASSUME FundsInv, IInv', NEW r \in Requests, FinishCredits(r)
    PROVE  FundsInv'
<1> DEFINE n == Own(r)
<1>1. n \in Ids /\ RailOf[n] = "credits"
  <2>1. req[r].step = "ready" /\ RailOf[n] = "credits" /\ TablesTyped
    BY DEF FinishCredits, FundsInv, IInv, Own, Rail
  <2> QED BY <2>1, AtWork
<1>2. /\ balance' = [balance EXCEPT !.held = @ - 1]
      /\ job' = [job EXCEPT ![n] = [@ EXCEPT !.phase = "done", !.held = 0, !.leased = FALSE,
                                             !.body = req[r].body]]
      /\ journal' = [journal EXCEPT ![n] = [phase |-> "done", intent |-> job[n].intent]]
      /\ job[n].held = 1 /\ job[n].phase = "working" /\ journal[n].phase = "none"
      /\ UNCHANGED <<grants, bound>>
  BY DEF FinishCredits, Unsettled, Holds
<1>3. job \in [Ids -> Jobs \cup {NoJob}] /\ balance \in [available : Nat, held : Nat]
  BY DEF FundsInv, IInv, TablesTyped, FundsTyped
<1> HIDE DEF n
<1>4. /\ \A k \in Ids \ {n} : job'[k].held = job[k].held
      /\ job'[n].held = 0
      /\ \A k \in Ids : job'[k].phase = "settling" => job[k].phase = "settling"
  <2>1. job[n] \in Jobs
    BY <1>1, <1>2, <1>3 DEF NoJob
  <2> QED BY <1>1, <1>2, <1>3, <2>1 DEF Jobs
<1>5. SumFunctionOnSet(HeldBy', Ids) = balance.held - 1 + 0
  BY <1>1, <1>2, <1>4, OneHoldChanges
<1>6. SumFunctionOnSet(HeldBy', Ids) \in Nat
  <2>1. Countable(HeldBy', Ids)
    BY NextHoldsFit DEF IInv
  <2> QED BY <2>1, SumNat
<1>7. /\ balance' \in [available : Nat, held : Nat]
      /\ balance'.held = SumFunctionOnSet(HeldBy', Ids)
      /\ balance'.available = balance.available /\ balance'.held = balance.held - 1
  BY <1>2, <1>3, <1>5, <1>6
<1>8. Cardinality(Spent') = Cardinality(Spent) + 1
  <2>1. Spent' = Spent \cup {n} /\ n \notin Spent
    <3>1. journal \in [Ids -> [phase : {"settling", "done"}, intent : Intents] \cup {NoRow}]
      BY DEF FundsInv, IInv, TablesTyped
    <3> QED BY <1>1, <1>2, <3>1 DEF Spent
  <2> QED BY <2>1, SpentFinite, FS_AddElement
<1>9. CreditConserved'
  <2>1. balance'.available + balance'.held + Cardinality(Spent')
          = balance.available + balance.held + Cardinality(Spent)
    BY <1>3, <1>7, <1>8, SpentFinite
  <2> QED BY <1>2, <1>7, <2>1 DEF FundsInv, CreditConserved, HeldBy
<1>10. RailsApart'
  BY <1>4 DEF FundsInv, RailsApart
<1> QED BY <1>2, <1>7, <1>9, <1>10 DEF FundsInv, FundsTyped

LEMMA FundingKeepsFunds ==
    ASSUME FundsInv, IInv', NEW p \in Payments,
           AddCredit(p) \/ \E a \in Amounts : BindFunding(p, a)
    PROVE  FundsInv'
<1>0. /\ balance \in [available : Nat, held : Nat]
      /\ grants \in [Payments -> Nat] /\ bound \in [Payments -> Nat]
  BY DEF FundsInv, FundsTyped
<1>1. CASE AddCredit(p)
  <2>1. Summable(grants, Payments) /\ Summable(grants', Payments)
    BY <1>0, <1>1, StorageAssumption DEF Summable, AddCredit
  <2>2. /\ \A q \in Payments \ {p} : grants[q] = grants'[q]
        /\ grants[p] = 0 /\ grants'[p] = bound[p]
    BY <1>0, <1>1 DEF AddCredit
  <2>3. SumFunctionOnSet(grants', Payments) = SumFunctionOnSet(grants, Payments) - 0 + bound[p]
    BY <2>1, <2>2, SumChanges
  <2>4. SumFunctionOnSet(grants, Payments) \in Int
    BY <2>1, SumType
  <2>5. /\ balance'.available = balance.available + bound[p] /\ balance'.held = balance.held
        /\ balance' \in [available : Nat, held : Nat]
    BY <1>0, <1>1 DEF AddCredit
  <2>6. Spent' = Spent /\ HeldBy' = HeldBy
    BY <1>1 DEF AddCredit, Spent, HeldBy
  <2>7. balance'.available + balance'.held + Cardinality(Spent')
          = SumFunctionOnSet(grants', Payments)
    BY <1>0, <2>3, <2>4, <2>5, <2>6, SpentFinite DEF FundsInv, CreditConserved
  <2>8. \A q \in Payments : grants'[q] \in {0, bound'[q]}
    BY <1>0, <1>1, <2>2 DEF FundsInv, CreditConserved, AddCredit
  <2>9. CreditConserved'
    BY <1>1, <2>5, <2>6, <2>7, <2>8 DEF FundsInv, CreditConserved, HeldBy
  <2> QED BY <1>0, <1>1, <2>5, <2>9 DEF FundsInv, FundsTyped, RailsApart, AddCredit
<1>2. ASSUME NEW a \in Amounts, BindFunding(p, a) PROVE FundsInv'
  <2>1. bound' \in [Payments -> Nat]
    BY <1>0, <1>2, BoundsAssumption DEF BindFunding
  <2>2. \A q \in Payments : grants[q] \in {0, bound'[q]}
    BY <1>0, <1>2 DEF BindFunding, FundsInv, CreditConserved
  <2>3. CreditConserved'
    BY <1>2, <2>2 DEF BindFunding, FundsInv, CreditConserved, Spent
  <2> QED BY <1>2, <2>1, <2>3 DEF BindFunding, FundsInv, FundsTyped, RailsApart
<1> QED BY <1>1, <1>2

LEMMA WorkerKeepsFunds ==
    ASSUME FundsInv, IInv', NEW r \in Requests, RequestNext(r)
    PROVE  FundsInv'
<1>1. /\ job \in [Ids -> Jobs \cup {NoJob}] /\ req \in [Requests -> Processes]
      /\ journal \in [Ids -> [phase : {"settling", "done"}, intent : Intents] \cup {NoRow}]
  BY DEF FundsInv, IInv, TablesTyped
<1>2. CASE Prepare(r) \/ Submit(r) \/ CrashRequest(r)
  BY <1>2, FundsUntouched DEF Prepare, Submit, CrashRequest, tables, FundsInv, RailsApart
<1>3. CASE StartSettlement(r)
  <2> DEFINE n == Own(r)
  <2>1. n \in Ids /\ RailOf[n] # "credits"
    BY <1>1, <1>3, IntentsAssumption DEF StartSettlement, Processes, Idle, Own, Rail
  <2>2. job[n] \in Jobs
    BY <1>1, <1>3, <2>1 DEF StartSettlement, MaySettle, Holds, NoJob
  <2>3. /\ \A k \in Ids : job'[k].held = job[k].held
        /\ \A k \in Ids \ {n} : job'[k] = job[k] /\ journal'[k] = journal[k]
        /\ UNCHANGED <<balance, grants, bound>>
    BY <1>1, <1>3, <2>1, <2>2 DEF StartSettlement, Jobs
  <2> HIDE DEF n
  <2> QED BY <2>1, <2>3, FundsUntouched DEF FundsInv, RailsApart
<1>4. CASE FinishChain(r)
  <2> DEFINE n == Own(r)
  <2>1. n \in Ids
    BY <1>1, <1>4, IntentsAssumption DEF FinishChain, Processes, Idle, Own
  <2>2. job[n] \in Jobs /\ RailOf[n] # "credits"
    BY <1>1, <1>4, <2>1 DEF FinishChain, Holds, NoJob, FundsInv, RailsApart
  <2>3. /\ \A k \in Ids : job'[k].held = job[k].held
        /\ \A k \in Ids \ {n} : job'[k] = job[k] /\ journal'[k] = journal[k]
        /\ UNCHANGED <<balance, grants, bound>>
    BY <1>1, <1>4, <2>1, <2>2 DEF FinishChain, Jobs
  <2> HIDE DEF n
  <2> QED BY <2>1, <2>2, <2>3, FundsUntouched DEF FundsInv, RailsApart
<1>5. CASE DeferSettlement(r)
  <2>1. /\ \A k \in Ids : job'[k].held = job[k].held /\ job'[k].phase = job[k].phase
        /\ UNCHANGED <<journal, balance, grants, bound>>
    <3>1. CASE job' = job
      BY <1>5, <3>1 DEF DeferSettlement
    <3>2. CASE Holds(r, "settling") /\ job' = [job EXCEPT ![Own(r)].leased = TRUE]
      <4>1. Own(r) \in Ids
        BY <1>1, <1>5, IntentsAssumption DEF DeferSettlement, Processes, Idle, Own
      <4>2. job[Own(r)] \in Jobs
        BY <1>1, <3>2, <4>1 DEF Holds, NoJob
      <4> QED BY <1>1, <1>5, <3>2, <4>1, <4>2 DEF DeferSettlement, Jobs
    <3> QED BY <1>5, <3>1, <3>2 DEF DeferSettlement
  <2> QED BY <2>1, FundsUntouched DEF FundsInv, RailsApart
<1> QED BY <1>2, <1>3, <1>4, <1>5, FailKeepsFunds, FinishCreditsKeepsFunds DEF RequestNext

\* Steps of the outside leave holds, phases and journal as they are.
LEMMA OutsideKeepsFunds ==
    ASSUME FundsInv, IInv', NEW n \in Ids, LeaseLapses(n) \/ RetentionEnds(n) \/ Confirm(n) \/ Debit(n)
    PROVE  FundsInv'
<1>1. job \in [Ids -> Jobs \cup {NoJob}]
  BY DEF FundsInv, IInv, TablesTyped
<1>2. /\ \A k \in Ids : job'[k].held = job[k].held /\ job'[k].phase = job[k].phase
      /\ UNCHANGED <<journal, balance, grants, bound>>
  <2>1. CASE LeaseLapses(n) \/ RetentionEnds(n)
    <3>1. job[n] \in Jobs
      BY <1>1, <2>1 DEF LeaseLapses, RetentionEnds, Present, NoJob
    <3> QED BY <1>1, <2>1, <3>1 DEF LeaseLapses, RetentionEnds, Jobs
  <2>2. CASE Confirm(n) \/ Debit(n)
    BY <2>2 DEF Confirm, Debit, tables
  <2> QED BY <2>1, <2>2
<1> QED BY <1>2, FundsUntouched DEF FundsInv, RailsApart

LEMMA ReconcileKeepsFunds ==
    ASSUME FundsInv, IInv', NEW r \in Requests, NEW i \in Intents, ClaimReconcile(r, i)
    PROVE  FundsInv'
<1>1. job \in [Ids -> Jobs \cup {NoJob}]
  BY DEF FundsInv, IInv, TablesTyped
<1>2. IdOf[i] \in Ids /\ job[IdOf[i]] \in Jobs
  BY <1>1, IntentsAssumption DEF ClaimReconcile, NoJob
<1>3. /\ \A k \in Ids : job'[k].held = job[k].held /\ job'[k].phase = job[k].phase
      /\ UNCHANGED <<journal, balance, grants, bound>>
  BY <1>1, <1>2 DEF ClaimReconcile, Jobs
<1> QED BY <1>3, FundsUntouched DEF FundsInv, RailsApart

LEMMA NextKeepsFunds == FundsInv /\ [Next]_vars => FundsInv'
<1> SUFFICES ASSUME FundsInv, [Next]_vars PROVE FundsInv'
  OBVIOUS
<1>0. IInv'
  BY NextKeeps DEF FundsInv
<1>1. ASSUME NEW i \in Intents, ClaimDone(i) PROVE FundsInv'
  BY <1>0, <1>1, FundsUntouched DEF ClaimDone, FundsInv, RailsApart
<1>2. ASSUME NEW i \in Intents, ClaimExpired(i) \/ ClaimRefused(i) PROVE FundsInv'
  BY <1>0, <1>2, SweepKeepsFunds DEF ClaimExpired, ClaimRefused
<1>3. ASSUME (\E i \in Intents : AuthorizationEnds(i)) \/ NewEdition \/ Evict \/ UNCHANGED vars
      PROVE  FundsInv'
  BY <1>0, <1>3, FundsUntouched DEF AuthorizationEnds, NewEdition, Evict, vars, tables, FundsInv,
     RailsApart
<1> QED BY <1>0, <1>1, <1>2, <1>3, ClaimWorkKeepsFunds, ReconcileKeepsFunds, WorkerKeepsFunds,
           OutsideKeepsFunds, FundingKeepsFunds DEF Next

LEMMA InitFunds == Init => FundsInv
<1> SUFFICES ASSUME Init PROVE FundsInv
  OBVIOUS
<1>1. /\ balance = [available |-> 0, held |-> 0]
      /\ grants = [p \in Payments |-> 0] /\ bound = [p \in Payments |-> 0]
      /\ job = [n \in Ids |-> NoJob] /\ journal = [n \in Ids |-> NoRow]
  BY DEF Init
<1>2. Spent = {}
  BY <1>1 DEF Spent, NoRow
<1>3. Cardinality(Spent) = 0
  BY <1>2, FS_EmptySet
<1>4. SumFunctionOnSet(grants, Payments) = 0 /\ SumFunctionOnSet(HeldBy, Ids) = 0
  <2>1. (\A p \in Payments : grants[p] = 0) /\ \A n \in Ids : HeldBy[n] = 0
    BY <1>1 DEF HeldBy, NoJob
  <2> QED BY <2>1, StorageAssumption, SumZero
<1>5. CreditConserved
  <2>1. balance.available = 0 /\ balance.held = 0
    BY <1>1
  <2> QED BY <1>1, <1>3, <1>4, <2>1 DEF CreditConserved, HeldBy
<1>6. FundsTyped /\ RailsApart
  BY <1>1 DEF FundsTyped, RailsApart, NoJob
<1> QED BY <1>5, <1>6, InitKeeps DEF FundsInv

(***************************************************************************)
(* Prepaid credits are conserved by leases, sweeps, crashes and retries of *)
(* any number of requests, payments and jobs.                              *)
(***************************************************************************)
THEOREM CreditsAddUp == Spec => []CreditConserved
<1>1. Init => FundsInv
  BY InitFunds
<1>2. FundsInv /\ [Next]_vars => FundsInv'
  BY NextKeepsFunds
<1>3. FundsInv => CreditConserved
  BY DEF FundsInv
<1> QED BY <1>1, <1>2, <1>3, PTL DEF Spec

-----------------------------------------------------------------------------
(***************************************************************************)
(* That an order the checkout page forgot is never paid, for any number of *)
(* Workers and orders.  The invariant of the gateway says what its journal *)
(* knows; what is added here is whose claim the tab waits for.             *)
(***************************************************************************)

\* The pending order was made, and a forgotten one is not pending.
TabFit ==
    /\ CheckoutTypeOK
    /\ tab.order \in made \cup {None}
    /\ \A a \in abandoned : a[1] \in made /\ a[1] # tab.order

\* Only orders that were made are presented.
Presented == \A r \in Requests : req[r] # Idle => req[r].intent \in made

OrdersFit == TabFit /\ Presented

\* The Worker that the tab waits for has the claim of the pending order.
Heard ==
    \A r \in Requests : tab.at = r =>
        /\ tab.order # None /\ req[r] # Idle /\ req[r].intent = tab.order
        /\ req[r].step \in {"work", "ready"} => Holds(r, "working")

\* Nobody can settle an order after the source or the balance refused it.
Dropped(i) ==
    /\ journal[IdOf[i]].phase = "none"
    /\ \A r \in Requests : req[r] # Idle /\ req[r].intent = i => ~Holds(r, "working")
Unpayable == \A a \in abandoned : a[2] # "license" => Dropped(a[1])

CheckoutInv == IInv /\ OrdersFit /\ Heard /\ Unpayable

LEMMA NeverCharged == CheckoutInv => AbandonedUnpaid
<1> SUFFICES ASSUME CheckoutInv, NEW a \in abandoned, a[2] # "license"
             PROVE  ~Charged(IdOf[a[1]])
  BY DEF AbandonedUnpaid
<1>1. a[1] \in Orders /\ journal[IdOf[a[1]]].phase = "none"
  BY DEF CheckoutInv, OrdersFit, TabFit, CheckoutTypeOK, Unpayable, Dropped
<1>2. IdOf[a[1]] \in Ids /\ RailOf[IdOf[a[1]]] # "credits"
  BY <1>1, OrdersAssumption, IntentsAssumption DEF Rail
<1> QED BY <1>1, <1>2 DEF CheckoutInv, IInv, TablesTyped, Covered, Charged

-----------------------------------------------------------------------------
(* Every step of the checkout is one of the gateway, or none. *)

LEMMA GatewayStep ==
    ASSUME OrdersFit, CheckoutNext
    PROVE  [Next]_vars
<1>1. ASSUME NEW i \in Orders, MakeOrder(i) \/ Withdraw(i) PROVE UNCHANGED vars
  BY <1>1 DEF MakeOrder, Withdraw
<1>2. ASSUME RefuseLicense \/ GiveUp PROVE UNCHANGED vars
  BY <1>2 DEF RefuseLicense, GiveUp
<1>3. ASSUME PresentOrder PROVE Next
  <2>1. tab.order \in Intents
    BY <1>3, OrdersAssumption DEF PresentOrder, Pending, OrdersFit, TabFit, CheckoutTypeOK
  <2> QED BY <1>3, <2>1 DEF PresentOrder, Next
<1>4. ASSUME NEW r \in Requests, Answer(r) \/ Work(r) PROVE Next
  <2>1. RequestNext(r)
    BY <1>4 DEF Answer, RefuseRead, Work, RequestNext
  <2> QED BY <2>1 DEF Next
<1>5. ASSUME Outside PROVE Next
  BY <1>5, OrdersAssumption DEF Outside, Next
<1> QED BY <1>1, <1>2, <1>3, <1>4, <1>5 DEF CheckoutNext

-----------------------------------------------------------------------------
(* What the steps of the gateway do to claims. *)

\* A Worker touches only a job that it owns, and never makes one "working".
LEMMA WorkerTouchesOwn ==
    ASSUME TablesTyped, NEW q \in Requests, RequestNext(q), NEW n \in Ids
    PROVE  \/ job'[n] = job[n]
           \/ job[n].owner = q /\ job'[n].phase # "working"
<1>1. job \in [Ids -> Jobs \cup {NoJob}] /\ job[n] \in Jobs \cup {NoJob}
  BY DEF TablesTyped
<1>2. CASE Prepare(q) \/ Submit(q) \/ CrashRequest(q)
  BY <1>2 DEF Prepare, Submit, CrashRequest, tables
<1>3. CASE StartSettlement(q)
  BY <1>1, <1>3 DEF StartSettlement, MaySettle, Holds, Jobs, NoJob
<1>4. CASE FinishChain(q)
  BY <1>1, <1>4 DEF FinishChain, Holds, Jobs, NoJob
<1>5. CASE DeferSettlement(q)
  BY <1>1, <1>5 DEF DeferSettlement, Holds, Jobs, NoJob
<1>6. CASE FinishCredits(q)
  BY <1>1, <1>6 DEF FinishCredits, Holds, Jobs, NoJob
<1>7. CASE Fail(q)
  BY <1>1, <1>7 DEF Fail, Release, Holds, Jobs, NoJob
<1> QED BY <1>2, <1>3, <1>4, <1>5, <1>6, <1>7 DEF RequestNext

\* A Worker goes on with its order or ends.
LEMMA WorkerKeepsOrder ==
    ASSUME TablesTyped, NEW q \in Requests, RequestNext(q)
    PROVE  /\ req[q] # Idle
           /\ \A r \in Requests \ {q} : req'[r] = req[r]
           /\ req'[q] = Idle \/ req'[q].intent = req[q].intent
<1>1. req \in [Requests -> Processes]
  BY DEF TablesTyped
<1>2. CASE FinishChain(q) \/ DeferSettlement(q) \/ FinishCredits(q) \/ Fail(q) \/ CrashRequest(q)
  BY <1>1, <1>2 DEF FinishChain, DeferSettlement, FinishCredits, Fail, CrashRequest, Finished, Idle
<1>3. CASE Prepare(q) \/ StartSettlement(q) \/ Submit(q)
  <2>1. req[q] \in Processes /\ req[q] # Idle
    BY <1>1, <1>3 DEF Prepare, StartSettlement, Submit, Idle
  <2>2. PICK p : req' = [req EXCEPT ![q] = p] /\ p.intent = req[q].intent
    <3>1. CASE Prepare(q)
      <4>1. [req[q] EXCEPT !.step = "ready", !.body = edition].intent = req[q].intent
        BY <2>1 DEF Processes
      <4> QED BY <3>1, <4>1 DEF Prepare
    <3>2. CASE StartSettlement(q)
      <4>1. [req[q] EXCEPT !.step = "submit"].intent = req[q].intent
        BY <2>1 DEF Processes
      <4> QED BY <3>2, <4>1 DEF StartSettlement
    <3>3. CASE Submit(q)
      <4>1. [req[q] EXCEPT !.step = "sent"].intent = req[q].intent
        BY <2>1 DEF Processes
      <4> QED BY <3>3, <4>1 DEF Submit
    <3> QED BY <1>3, <3>1, <3>2, <3>3
  <2> QED BY <1>1, <2>1, <2>2
<1> QED BY <1>2, <1>3 DEF RequestNext

\* What was dropped stays dropped while Workers go on.
LEMMA WorkerKeepsDropped ==
    ASSUME IInv, OrdersFit, NEW q \in Requests, RequestNext(q), NEW i \in Orders, Dropped(i)
    PROVE  Dropped(i)'
<1>1. journal'[IdOf[i]].phase = "none"
  <2>1. CASE StartSettlement(q)
    BY <2>1, OrdersAssumption DEF StartSettlement, MaySettle, Dropped, OrdersFit, TabFit,
       CheckoutTypeOK, Presented, Own, Idle, IInv, TablesTyped
  <2>2. CASE FinishChain(q)
    BY <2>2 DEF FinishChain, Dropped, Underway, IInv, TablesTyped
  <2>3. CASE FinishCredits(q)
    BY <2>3, OrdersAssumption DEF FinishCredits, OrdersFit, TabFit, CheckoutTypeOK, Presented, Idle
  <2>4. CASE Prepare(q) \/ Submit(q) \/ CrashRequest(q) \/ DeferSettlement(q) \/ Fail(q)
    BY <2>4 DEF Prepare, Submit, CrashRequest, DeferSettlement, Fail, tables, Dropped
  <2> QED BY <2>1, <2>2, <2>3, <2>4 DEF RequestNext
<1>2. ASSUME NEW r \in Requests, req'[r] # Idle, req'[r].intent = i
      PROVE  ~Holds(r, "working")'
  <2>1. req[r] # Idle /\ req[r].intent = i
    BY <1>2, WorkerKeepsOrder DEF IInv
  <2>2. ~(job[IdOf[i]].owner = r /\ job[IdOf[i]].phase = "working")
    BY <2>1 DEF Dropped, Holds, Own
  <2>3. ~(job'[IdOf[i]].owner = r /\ job'[IdOf[i]].phase = "working")
    BY <2>2, WorkerTouchesOwn, IntentsAssumption, OrdersAssumption DEF IInv
  <2> QED BY <1>2, <2>3 DEF Holds, Own
<1> QED BY <1>1, <1>2 DEF Dropped

\* A claim gives the request that makes it its intent, and touches no other.
LEMMA ClaimTakes ==
    ASSUME TablesTyped, NEW q \in Requests, NEW k, ClaimWork(q, k) \/ ClaimReconcile(q, k)
    PROVE  /\ req'[q].intent = k
           /\ \A r \in Requests : r # q => req'[r] = req[r]
<1>1. PICK p : p.intent = k /\ req' = [req EXCEPT ![q] = p]
  BY DEF ClaimWork, ClaimReconcile
<1> QED BY <1>1 DEF TablesTyped

\* A claim is made for one order and may sweep the others.
LEMMA ClaimKeepsDropped ==
    ASSUME IInv, OrdersFit, NEW k \in Orders, NEW i \in Orders, k # i, Dropped(i),
           \/ ClaimDone(k) \/ ClaimExpired(k) \/ ClaimRefused(k)
           \/ \E r \in Requests : ClaimWork(r, k) \/ ClaimReconcile(r, k)
    PROVE  Dropped(i)'
<1>1. IdOf[k] # IdOf[i] /\ IdOf[k] \in Ids /\ IdOf[i] \in Ids
  BY OrdersAssumption, IntentsAssumption
<1>2. journal' = journal
  BY DEF ClaimDone, ClaimExpired, ClaimRefused, ClaimWork, ClaimReconcile
<1>3. job'[IdOf[i]] \in {job[IdOf[i]], NoJob}
  <2>1. CASE ClaimDone(k) \/ ClaimExpired(k) \/ ClaimRefused(k)
    BY <1>1, <2>1 DEF ClaimDone, ClaimExpired, ClaimRefused, Prune, Pruned
  <2>2. ASSUME NEW q \in Requests, ClaimWork(q, k) \/ ClaimReconcile(q, k)
        PROVE  job'[IdOf[i]] \in {job[IdOf[i]], NoJob}
    BY <1>1, <2>2 DEF ClaimWork, ClaimReconcile, Pruned, IInv, TablesTyped
  <2> QED BY <2>1, <2>2
<1>4. ASSUME NEW r \in Requests, req'[r] # Idle, req'[r].intent = i
      PROVE  req[r] # Idle /\ req[r].intent = i
  <2>1. CASE ClaimDone(k) \/ ClaimExpired(k) \/ ClaimRefused(k)
    BY <1>4, <2>1 DEF ClaimDone, ClaimExpired, ClaimRefused
  <2>2. ASSUME NEW q \in Requests, ClaimWork(q, k) \/ ClaimReconcile(q, k)
        PROVE  req[r] # Idle /\ req[r].intent = i
    BY <1>4, <2>2, ClaimTakes DEF IInv
  <2> QED BY <2>1, <2>2
<1>5. ASSUME NEW r \in Requests, req'[r] # Idle, req'[r].intent = i
      PROVE  ~Holds(r, "working")'
  BY <1>3, <1>4, <1>5 DEF Dropped, Holds, Own, NoJob
<1> QED BY <1>2, <1>5 DEF Dropped

\* Time, the chain and a debit change no claim.
LEMMA OutsideKeepsClaims ==
    ASSUME TablesTyped, Outside
    PROVE  /\ req' = req /\ journal' = journal
           /\ \A n \in Ids : job'[n].owner = job[n].owner /\ job'[n].phase = job[n].phase
<1>1. job \in [Ids -> Jobs \cup {NoJob}]
  BY DEF TablesTyped
<1>2. ASSUME NEW n \in Ids, LeaseLapses(n) \/ RetentionEnds(n) \/ Confirm(n) \/ Debit(n)
      PROVE  /\ req' = req /\ journal' = journal
             /\ \A k \in Ids : job'[k].owner = job[k].owner /\ job'[k].phase = job[k].phase
  BY <1>1, <1>2 DEF LeaseLapses, RetentionEnds, Confirm, Debit, tables, Jobs, NoJob
<1>3. ASSUME (\E i \in Orders : AuthorizationEnds(i)) \/ Evict
      PROVE  req' = req /\ journal' = journal /\ job' = job
  BY <1>3 DEF AuthorizationEnds, Evict, tables
<1> QED BY <1>2, <1>3 DEF Outside

-----------------------------------------------------------------------------
(* What the steps do to the tab. *)

LEMMA RefusedTab ==
    ASSUME TabFit, tab.order # None, NEW answer, Refused(answer)
    PROVE  /\ TabFit' /\ tab'.at = None
           /\ abandoned' = abandoned \/
              abandoned' = abandoned \cup {<<tab.order, answer>>}
<1>1. tab.order \in made /\ tab.order \in Orders /\ tab.order \in Intents
  BY OrdersAssumption DEF TabFit, CheckoutTypeOK
<1>2. CASE Clears(tab.order, answer)
  <2>1. answer \in Reasons
    BY <1>2 DEF Clears, Reasons
  <2>2. tab' = NoOrder /\ abandoned' = abandoned \cup {<<tab.order, answer>>}
        /\ made' = made /\ withdrawn' = withdrawn
    BY <1>2 DEF Refused
  <2>3. CheckoutTypeOK'
    BY <1>1, <2>1, <2>2 DEF TabFit, CheckoutTypeOK, NoOrder
  <2>4. \A a \in abandoned' : a[1] \in made' /\ a[1] # tab'.order
    BY <1>1, <2>2, NoneAssumption, OrdersAssumption DEF TabFit, CheckoutTypeOK, NoOrder
  <2> QED BY <2>2, <2>3, <2>4 DEF TabFit, NoOrder
<1>3. CASE ~Clears(tab.order, answer)
  BY <1>3 DEF Refused, Hears, Keeps, TabFit, CheckoutTypeOK
<1> QED BY <1>2, <1>3

LEMMA HearsTab ==
    ASSUME TabFit, NEW r \in Requests \cup {None}, Hears(r), Keeps
    PROVE  TabFit' /\ tab'.at = r /\ tab'.order = tab.order
BY DEF Hears, Keeps, TabFit, CheckoutTypeOK

LEMMA ReceivedTab ==
    ASSUME TabFit, Received
    PROVE  TabFit' /\ tab'.at = None
BY NoneAssumption, OrdersAssumption DEF Received, Keeps, NoOrder, TabFit, CheckoutTypeOK

LEMMA NextKeepsTab ==
    ASSUME OrdersFit, Heard, CheckoutNext
    PROVE  TabFit'
<1>1. ASSUME NEW i \in Orders, MakeOrder(i) PROVE TabFit'
  BY <1>1 DEF MakeOrder, NoOrder, OrdersFit, TabFit, CheckoutTypeOK
<1>2. ASSUME NEW i \in Orders, Withdraw(i) PROVE TabFit'
  BY <1>2 DEF Withdraw, OrdersFit, TabFit, CheckoutTypeOK
<1>3. CASE RefuseLicense
  BY <1>3, RefusedTab DEF RefuseLicense, Pending, OrdersFit
<1>4. CASE PresentOrder
  BY <1>4, RefusedTab, HearsTab, ReceivedTab DEF PresentOrder, Pending, checkout, OrdersFit,
     TabFit, CheckoutTypeOK
<1>5. CASE GiveUp
  BY <1>5, HearsTab DEF GiveUp, OrdersFit
<1>6. ASSUME NEW r \in Requests, Answer(r) PROVE TabFit'
  BY <1>6, RefusedTab, ReceivedTab DEF Answer, RefuseRead, Heard, OrdersFit
<1>7. ASSUME (\E r \in Requests : Work(r)) \/ Outside PROVE TabFit'
  BY <1>7 DEF Work, Outside, checkout, OrdersFit, TabFit, CheckoutTypeOK
<1> QED BY <1>1, <1>2, <1>3, <1>4, <1>5, <1>6, <1>7 DEF CheckoutNext

LEMMA NextKeepsPresented ==
    ASSUME IInv, OrdersFit, CheckoutNext
    PROVE  Presented'
<1>1. made \subseteq made'
  BY DEF CheckoutNext, MakeOrder, Withdraw, RefuseLicense, PresentOrder, GiveUp, Answer,
     RefuseRead, Work, Outside, Refused, Received, Keeps, checkout
<1>2. ASSUME UNCHANGED req PROVE Presented'
  BY <1>1, <1>2 DEF OrdersFit, Presented
<1>3. CASE PresentOrder
  <2>1. CASE ClaimDone(tab.order) \/ ClaimExpired(tab.order) \/ ClaimRefused(tab.order)
    BY <1>2, <2>1 DEF ClaimDone, ClaimExpired, ClaimRefused
  <2>2. ASSUME NEW r \in Requests, ClaimWork(r, tab.order) \/ ClaimReconcile(r, tab.order)
        PROVE  Presented'
    <3>1. tab.order \in made
      BY <1>3 DEF PresentOrder, Pending, OrdersFit, TabFit
    <3>2. req'[r].intent = tab.order /\ \A q \in Requests : q # r => req'[q] = req[q]
      BY <2>2, ClaimTakes DEF IInv
    <3> QED BY <1>1, <3>1, <3>2 DEF OrdersFit, Presented
  <2> QED BY <1>3, <2>1, <2>2 DEF PresentOrder
<1>4. ASSUME NEW q \in Requests, Answer(q) \/ Work(q) PROVE Presented'
  <2>1. RequestNext(q)
    BY <1>4 DEF Answer, RefuseRead, Work, RequestNext
  <2> QED BY <1>1, <2>1, WorkerKeepsOrder DEF OrdersFit, Presented, IInv
<1>5. CASE Outside
  BY <1>2, <1>5, OutsideKeepsClaims DEF IInv
<1>6. ASSUME (\E i \in Orders : MakeOrder(i) \/ Withdraw(i)) \/ RefuseLicense \/ GiveUp
      PROVE  Presented'
  BY <1>2, <1>6 DEF MakeOrder, Withdraw, RefuseLicense, GiveUp, vars
<1> QED BY <1>3, <1>4, <1>5, <1>6 DEF CheckoutNext

LEMMA NextKeepsHeard ==
    ASSUME IInv, OrdersFit, Heard, CheckoutNext
    PROVE  Heard'
<1>1. ASSUME tab'.at = None PROVE Heard'
  BY <1>1, NoneAssumption DEF Heard
<1>2. ASSUME UNCHANGED <<tab, req, job>> PROVE Heard'
  BY <1>2 DEF Heard, Holds, Own
<1>3. ASSUME NEW i \in Orders, MakeOrder(i) \/ Withdraw(i) PROVE Heard'
  BY <1>1, <1>2, <1>3 DEF MakeOrder, Withdraw, NoOrder, vars
<1>4. CASE RefuseLicense \/ GiveUp
  BY <1>1, <1>4, RefusedTab, HearsTab DEF RefuseLicense, GiveUp, Pending, OrdersFit
<1>5. CASE PresentOrder
  <2>1. ASSUME NEW r \in Requests, ClaimWork(r, tab.order) \/ ClaimReconcile(r, tab.order),
               Hears(r), Keeps
        PROVE  Heard'
    <3>1. tab'.at = r /\ tab'.order = tab.order /\ tab.order # None /\ IdOf[tab.order] \in Ids
      BY <1>5, <2>1, HearsTab, IntentsAssumption, OrdersAssumption
      DEF PresentOrder, Pending, OrdersFit, TabFit, CheckoutTypeOK
    <3>2. req'[r] # Idle /\ req'[r].intent = tab.order
          /\ (req'[r].step \in {"work", "ready"}
                => job'[IdOf[tab.order]].owner = r /\ job'[IdOf[tab.order]].phase = "working")
      BY <2>1, <3>1 DEF ClaimWork, ClaimReconcile, Resumes, Idle, Pruned, IInv, TablesTyped
    <3> QED BY <3>1, <3>2 DEF Heard, Holds, Own
  <2>2. ASSUME ~(\E r \in Requests :
                   (ClaimWork(r, tab.order) \/ ClaimReconcile(r, tab.order)) /\ Hears(r) /\ Keeps)
        PROVE  tab'.at = None
    BY <1>5, <2>2, RefusedTab, ReceivedTab DEF PresentOrder, Pending, checkout, OrdersFit
  <2> QED BY <1>1, <2>1, <2>2
<1>6. ASSUME NEW q \in Requests, Answer(q) PROVE tab'.at = None
  BY <1>6, RefusedTab, ReceivedTab DEF Answer, RefuseRead, Heard, OrdersFit
<1>7. ASSUME NEW q \in Requests, Work(q), NEW r \in Requests, tab.at = r
      PROVE  /\ req'[r] # Idle /\ req'[r].intent = tab.order
             /\ req'[r].step \in {"work", "ready"} => Holds(r, "working")'
  <2>1. RequestNext(q)
    BY <1>7 DEF Work, RequestNext
  <2>2. /\ tab.order \in Orders /\ IdOf[tab.order] \in Ids /\ req[r] # Idle /\ req[r].intent = tab.order
        /\ req[r].step \in {"work", "ready"} =>
             job[IdOf[tab.order]].owner = r /\ job[IdOf[tab.order]].phase = "working"
    BY <1>7, IntentsAssumption, OrdersAssumption DEF Heard, Holds, Own, OrdersFit, TabFit,
       CheckoutTypeOK
  <2>3. CASE q # r
    <3>1. req'[r] = req[r]
      BY <2>1, <2>3, WorkerKeepsOrder DEF IInv
    <3>2. job'[IdOf[tab.order]] = job[IdOf[tab.order]] \/ job[IdOf[tab.order]].owner = q
      BY <2>1, <2>2, WorkerTouchesOwn DEF IInv
    <3> QED BY <2>2, <2>3, <3>1, <3>2 DEF Holds, Own
  <2>4. CASE q = r
    <3>1. req[r] \in Processes
      BY DEF IInv, TablesTyped
    <3>2. CASE Prepare(r)
      BY <2>2, <3>2 DEF Prepare, tables, Holds, Own, Idle, IInv, TablesTyped, Processes
    <3>3. CASE StartSettlement(r) \/ Submit(r)
      BY <2>2, <3>3 DEF StartSettlement, Submit, Idle, IInv, TablesTyped, Processes
    <3> QED BY <1>7, <2>4, <3>2, <3>3 DEF Work
  <2> QED BY <2>3, <2>4
<1>8. ASSUME NEW q \in Requests, Work(q) PROVE Heard'
  BY <1>7, <1>8 DEF Heard, Work, checkout
<1>9. CASE Outside
  <2>1. UNCHANGED <<tab, req>>
    BY <1>9, OutsideKeepsClaims DEF Outside, checkout, IInv
  <2>2. \A r \in Requests : tab.at = r => IdOf[req[r].intent] \in Ids
    BY IntentsAssumption, OrdersAssumption DEF Heard, OrdersFit, TabFit, CheckoutTypeOK
  <2> QED BY <1>9, <2>1, <2>2, OutsideKeepsClaims DEF Heard, Holds, Own, IInv
<1> QED BY <1>1, <1>3, <1>4, <1>5, <1>6, <1>8, <1>9 DEF CheckoutNext

\* An order that a Worker drops while the tab waits for it is dropped for good.
LEMMA RefuseReadDrops ==
    ASSUME IInv, OrdersFit, Heard, NEW r \in Requests, tab.at = r, RefuseRead(r),
           NEW i \in Orders, i = tab.order
    PROVE  Dropped(i)'
<1> DEFINE n == IdOf[i]
<1>1. n \in Ids /\ req[r].intent = i /\ job[n].owner = r /\ job[n].phase = "working"
  BY IntentsAssumption, OrdersAssumption DEF RefuseRead, Heard, Holds, Own
<1>2. RequestNext(r) /\ req'[r] = Idle /\ journal' = journal
  BY DEF RefuseRead, RequestNext, Fail, CrashRequest, Finished, tables, IInv, TablesTyped
<1>3. journal[n].phase = "none"
  BY <1>1 DEF IInv, JournalTells
<1>4. job'[n].owner = r \/ job'[n].phase # "working"
  BY <1>1, <1>2, WorkerTouchesOwn DEF IInv
<1>5. ASSUME NEW q \in Requests, req'[q] # Idle, req'[q].intent = i
      PROVE  ~Holds(q, "working")'
  BY <1>2, <1>4, <1>5 DEF Holds, Own
<1>6. journal'[n].phase = "none"
  BY <1>2, <1>3
<1> QED BY <1>5, <1>6 DEF Dropped

\* What was dropped is pending no more, and nothing picks it up.
LEMMA DroppedStays ==
    ASSUME IInv, OrdersFit, CheckoutNext, NEW i \in Orders, i # tab.order, Dropped(i)
    PROVE  Dropped(i)'
<1>1. ASSUME UNCHANGED <<req, job, journal>> PROVE Dropped(i)'
  BY <1>1 DEF Dropped, Holds, Own
<1>2. CASE (\E k \in Orders : MakeOrder(k) \/ Withdraw(k)) \/ RefuseLicense \/ GiveUp
  BY <1>1, <1>2 DEF MakeOrder, Withdraw, RefuseLicense, GiveUp, vars
<1>3. CASE PresentOrder
  <2>1. tab.order \in Orders
    BY <1>3 DEF PresentOrder, Pending, OrdersFit, TabFit, CheckoutTypeOK
  <2> QED BY <1>3, <2>1, ClaimKeepsDropped DEF PresentOrder
<1>4. ASSUME NEW q \in Requests, Answer(q) \/ Work(q) PROVE Dropped(i)'
  <2>1. RequestNext(q)
    BY <1>4 DEF Answer, RefuseRead, Work, RequestNext
  <2> QED BY <2>1, WorkerKeepsDropped
<1>5. CASE Outside
  <2>1. IdOf[i] \in Ids
    BY IntentsAssumption, OrdersAssumption
  <2>2. /\ req' = req /\ journal' = journal
        /\ job'[IdOf[i]].owner = job[IdOf[i]].owner /\ job'[IdOf[i]].phase = job[IdOf[i]].phase
    BY <1>5, <2>1, OutsideKeepsClaims DEF IInv
  <2> QED BY <2>2 DEF Dropped, Holds, Own
<1> QED BY <1>2, <1>3, <1>4, <1>5 DEF CheckoutNext

\* An order is forgotten after a refusal that says so.
LEMMA ForgottenNow ==
    ASSUME OrdersFit, Heard, CheckoutNext,
           NEW a \in abandoned', a \notin abandoned, a[2] # "license"
    PROVE  /\ a[1] \in Orders /\ a[1] = tab.order
           /\ \E r \in Requests : tab.at = r /\ RefuseRead(r)
<1>1. ASSUME NEW answer, tab.order # None, Refused(answer)
      PROVE  Clears(tab.order, answer) /\ a[1] = tab.order /\ a[2] = answer
  BY <1>1 DEF Refused, Keeps
<1>2. ASSUME UNCHANGED abandoned PROVE FALSE
  BY <1>2
<1>3. CASE (\E i \in Orders : MakeOrder(i) \/ Withdraw(i)) \/ GiveUp \/ Outside \/ \E r \in Requests : Work(r)
  BY <1>3 DEF MakeOrder, Withdraw, GiveUp, Outside, Work, Keeps, checkout
<1>4. CASE RefuseLicense
  BY <1>1, <1>4 DEF RefuseLicense, Pending
<1>5. CASE PresentOrder
  <2>1. Refused("claim") /\ tab.order # None
    BY <1>2, <1>5 DEF PresentOrder, Pending, Received, Keeps, checkout
  <2> QED BY <1>1, <2>1 DEF Clears, Reasons
<1>6. ASSUME NEW r \in Requests, Answer(r)
      PROVE  RefuseRead(r) /\ tab.at = r /\ Refused("read") /\ tab.order # None
  <2>1. tab.at = r /\ tab.order # None
    BY <1>6 DEF Answer, Heard
  <2>2. CASE Received
    BY <1>2, <2>2 DEF Received, Keeps
  <2>3. CASE Refused("error")
    BY <1>1, <2>1, <2>3 DEF Clears, Reasons
  <2> QED BY <1>6, <2>1, <2>2, <2>3 DEF Answer, RefuseRead
<1> QED BY <1>1, <1>3, <1>4, <1>5, <1>6 DEF CheckoutNext, OrdersFit, TabFit, CheckoutTypeOK

LEMMA NextKeepsUnpayable ==
    ASSUME IInv, OrdersFit, Heard, Unpayable, CheckoutNext
    PROVE  Unpayable'
<1> SUFFICES ASSUME NEW a \in abandoned', a[2] # "license" PROVE Dropped(a[1])'
  BY DEF Unpayable
<1>1. CASE a \in abandoned
  <2>1. a[1] \in Orders /\ a[1] # tab.order /\ Dropped(a[1])
    BY <1>1 DEF OrdersFit, TabFit, CheckoutTypeOK, Unpayable
  <2> QED BY <2>1, DroppedStays
<1>2. CASE a \notin abandoned
  <2>1. a[1] \in Orders /\ a[1] = tab.order
    BY <1>2, ForgottenNow
  <2>2. PICK r \in Requests : tab.at = r /\ RefuseRead(r)
    BY <1>2, ForgottenNow
  <2> QED BY <2>1, <2>2, RefuseReadDrops
<1> QED BY <1>1, <1>2

(***************************************************************************)
(* An order that the page forgot after an answer about the source or the   *)
(* balance is never paid: the Worker that answered had the only claim, and *)
(* gave it up or died, so that no earlier request can settle either.       *)
(***************************************************************************)
THEOREM ForgottenIsUnpaid == CheckoutSpec => []AbandonedUnpaid
<1>1. Init /\ CheckoutInit(TRUE) => CheckoutInv
  <2> SUFFICES ASSUME Init, CheckoutInit(TRUE) PROVE CheckoutInv
    OBVIOUS
  <2>1. IInv
    BY InitKeeps
  <2>2. TabFit
    BY DEF CheckoutInit, NoOrder, TabFit, CheckoutTypeOK
  <2>3. Presented /\ Heard /\ Unpayable
    BY NoneAssumption DEF Init, CheckoutInit, NoOrder, Presented, Heard, Unpayable
  <2> QED BY <2>1, <2>2, <2>3 DEF CheckoutInv, OrdersFit
<1>2. CheckoutInv /\ [CheckoutNext]_all => CheckoutInv'
  <2> SUFFICES ASSUME CheckoutInv, [CheckoutNext]_all PROVE CheckoutInv'
    OBVIOUS
  <2>1. CASE CheckoutNext
    <3>1. IInv /\ OrdersFit /\ Heard /\ Unpayable
      BY DEF CheckoutInv
    <3>2. IInv'
      BY <2>1, <3>1, GatewayStep, NextKeeps
    <3>3. OrdersFit'
      BY <2>1, <3>1, NextKeepsTab, NextKeepsPresented DEF OrdersFit
    <3>4. Heard' /\ Unpayable'
      BY <2>1, <3>1, NextKeepsHeard, NextKeepsUnpayable
    <3> QED BY <3>2, <3>3, <3>4 DEF CheckoutInv
  <2>2. CASE UNCHANGED all
    <3>1. IInv'
      BY <2>2, NextKeeps DEF CheckoutInv, all
    <3>2. OrdersFit' /\ Heard' /\ Unpayable'
      BY <2>2 DEF all, vars, checkout, CheckoutInv, OrdersFit, TabFit, CheckoutTypeOK, Presented,
         Heard, Unpayable, Dropped, Holds, Own
    <3> QED BY <3>1, <3>2 DEF CheckoutInv
  <2> QED BY <2>1, <2>2
<1> QED BY <1>1, <1>2, NeverCharged, PTL DEF CheckoutSpec
=============================================================================
