---------------------------- MODULE RelayProofs ----------------------------
(***************************************************************************)
(* That a signed authorization pays the merchant at most once and costs it *)
(* at most one charge, for any number of payments, requests, facilitators  *)
(* and crashes.                                                            *)
(*                                                                         *)
(* On Base the chain itself takes a nonce once.  On any other network the  *)
(* argument is the receipt: whoever has submitted a payment holds its      *)
(* receipt for good, so that nobody else submits it, and the holder        *)
(* submits again only after an answer that leaves nothing in flight.       *)
(*                                                                         *)
(* Then the Live catalogue of the same program: what is published was      *)
(* served, a domain is leased to one refresh, and what was suppressed      *)
(* stays hidden, for any number of sources, shards and bodies.             *)
(***************************************************************************)
EXTENDS SettlementRelay, LiveRefresh, FiniteSetTheorems, TLAPS

Early == {"arriving", "verifying", "reserving", "admitting", "releasing",
          "retrying", "recovered"}
Reserved == {"admitting", "routing", "releasing", "sent", "settled"}
Proven == {"settled", "recovered", "charging", "recording"}
Steps == Early \cup Reserved \cup Proven \cup {"sent", "failed", "late", "answered"}
Finals == {"none", "settled", "declined", "limited", "unknown", "ambiguous"}

Records == [step : Steps, tried : SUBSET Facilitators, final : Finals]
Receipts == [status : {"none", "pending", "confirmed"}, token : Requests \cup {Nobody}]

Typed ==
  /\ request \in [Requests -> Records]
  /\ receipt \in [Payments -> Receipts]
  /\ flying \subseteq Requests \X Facilitators
  /\ paid \in [Payments -> Nat]

Elsewhere(r) == Pays[r] \notin Base
HeldBy(r) == [status |-> "pending", token |-> r]
Untried(r) == request[r].tried = {}

\* A request that may submit holds the reservation; who has submitted keeps the
\* receipt for good.
HoldsReceipt(r) ==
  /\ request[r].step \in Early => Untried(r)
  /\ request[r].step \in {"sent", "settled"} => ~Untried(r)
  /\ request[r].step # "recording"
  /\ request[r].step \in Reserved => receipt[Pays[r]] = HeldBy(r)
  /\ ~Untried(r) =>
       receipt[Pays[r]] = HeldBy(r) \/ receipt[Pays[r]].status = "confirmed"
ReceiptHeld == \A r \in Requests : Elsewhere(r) => HoldsReceipt(r)

OneSubmitter ==
  \A r, q \in Requests :
    Elsewhere(r) /\ Pays[r] = Pays[q] /\ ~Untried(r) /\ ~Untried(q) => r = q

\* What was paid, or may still be, was submitted, and is not both.
Traced ==
  /\ \A s \in flying : ~Untried(s[1])
  /\ \A p \in Payments \ Base : paid[p] > 0 => \E r \in Requests : Pays[r] = p /\ ~Untried(r)
OneFlies ==
  \A s \in flying : Elsewhere(s[1]) =>
    /\ paid[Pays[s[1]]] = 0
    /\ \A t \in flying : Pays[t[1]] = Pays[s[1]] => s = t

\* A request that may submit has nothing in flight.
Undecided(r) ==
  request[r].step = "routing" \/ (request[r].step = "sent" /\ request[r].final = "limited")
Clear(p) == paid[p] = 0 /\ \A s \in flying : Pays[s[1]] # p
NothingFlies == \A r \in Requests : Elsewhere(r) /\ Undecided(r) => Clear(Pays[r])

SubmitInv ==
  Typed /\ ReceiptHeld /\ OneSubmitter /\ Traced /\ OneFlies /\ NothingFlies /\ PaysOnce

USE RelayAssumption

-----------------------------------------------------------------------------
LEMMA InitEstablishes == Init => SubmitInv
<1> SUFFICES ASSUME Init PROVE SubmitInv
  OBVIOUS
<1>1. Typed
  BY DEF Init, Typed, Fresh, NoReceipt, Records, Receipts, Steps, Early, Finals
<1>2. \A r \in Requests : Untried(r) /\ request[r].step = "arriving"
  BY DEF Init, Fresh, Untried
<1>3. ReceiptHeld /\ OneSubmitter
  BY <1>2 DEF ReceiptHeld, HoldsReceipt, OneSubmitter, Reserved
<1>4. Traced /\ OneFlies /\ NothingFlies /\ PaysOnce
  BY <1>2 DEF Init, Traced, OneFlies, NothingFlies, Undecided, PaysOnce
<1> QED BY <1>1, <1>3, <1>4 DEF SubmitInv

\* Off Base, nobody but the holder of a reservation that was not used can have
\* paid or submitted.
LEMMA UnusedIsClear ==
  ASSUME SubmitInv, NEW r \in Requests, Elsewhere(r), Untried(r),
         receipt[Pays[r]] = HeldBy(r)
  PROVE  Clear(Pays[r]) /\ \A q \in Requests : Pays[q] = Pays[r] => Untried(q)
<1>1. ASSUME NEW q \in Requests, Pays[q] = Pays[r] PROVE Untried(q)
  <2>1. ~Untried(q) =>
          receipt[Pays[q]] = HeldBy(q) \/ receipt[Pays[q]].status = "confirmed"
    BY <1>1 DEF SubmitInv, ReceiptHeld, HoldsReceipt, Elsewhere
  <2>2. /\ receipt[Pays[q]] = HeldBy(r) /\ receipt[Pays[q]].status = "pending"
        /\ receipt[Pays[q]].token = r
    BY <1>1 DEF HeldBy
  <2>3. receipt[Pays[q]] = HeldBy(q) => q = r
    BY <2>2 DEF HeldBy
  <2> QED BY <2>1, <2>2, <2>3
<1>2. Pays[r] \in Payments \ Base
  BY DEF Elsewhere
<1>3. ~(paid[Pays[r]] > 0)
  BY <1>1, <1>2 DEF SubmitInv, Traced
<1>4. \A s \in flying : Pays[s[1]] # Pays[r]
  BY <1>1 DEF SubmitInv, Traced, Typed
<1>5. paid[Pays[r]] = 0
  BY <1>2, <1>3 DEF SubmitInv, Typed
<1> QED BY <1>1, <1>4, <1>5 DEF Clear

\* A request moves on without submitting, and holds what its step requires;
\* receipts change only where nobody relies on them.
LEMMA MoveKeeps ==
  ASSUME SubmitInv, NEW r \in Requests, NEW s \in Records,
         request' = [request EXCEPT ![r] = s], s.tried = request[r].tried,
         receipt' \in [Payments -> Receipts], UNCHANGED <<flying, paid>>,
         Elsewhere(r) =>
           /\ s.step \in Early => request[r].tried = {}
           /\ s.step \in {"sent", "settled"} => request[r].tried # {}
           /\ s.step # "recording"
           /\ s.step \in Reserved => receipt'[Pays[r]] = HeldBy(r)
           /\ s.step = "routing" \/ (s.step = "sent" /\ s.final = "limited") => Clear(Pays[r]),
         \A q \in Requests : Elsewhere(q) =>
           /\ q # r /\ request[q].step \in Reserved => receipt'[Pays[q]] = receipt[Pays[q]]
           /\ ~Untried(q) =>
                \/ receipt'[Pays[q]] = receipt[Pays[q]]
                \/ receipt'[Pays[q]].status = "confirmed"
  PROVE  SubmitInv'
<1>1. /\ request' \in [Requests -> Records] /\ request'[r] = s
      /\ \A q \in Requests : q # r => request'[q] = request[q]
      /\ \A q \in Requests : request'[q].tried = request[q].tried
  BY DEF SubmitInv, Typed
<1>2. Typed'
  BY <1>1 DEF SubmitInv, Typed
<1>3. \A q \in Requests : Untried(q)' = Untried(q)
  BY <1>1 DEF Untried
<1>4. ReceiptHeld'
  <2> SUFFICES ASSUME NEW q \in Requests, Elsewhere(q) PROVE HoldsReceipt(q)'
    BY DEF ReceiptHeld, Elsewhere
  <2>1. HoldsReceipt(q)
    BY DEF SubmitInv, ReceiptHeld
  <2>2. (/\ request[q].step \in Early => Untried(q)
         /\ request[q].step \in {"sent", "settled"} => ~Untried(q)
         /\ request[q].step # "recording")'
    BY <1>1, <1>3, <2>1 DEF HoldsReceipt, Untried
  <2>3. (request[q].step \in Reserved => receipt[Pays[q]] = HeldBy(q))'
    BY <1>1, <2>1 DEF HoldsReceipt, HeldBy
  <2>4. (~Untried(q) =>
           receipt[Pays[q]] = HeldBy(q) \/ receipt[Pays[q]].status = "confirmed")'
    BY <1>3, <2>1 DEF HoldsReceipt, HeldBy
  <2> QED BY <2>2, <2>3, <2>4 DEF HoldsReceipt
<1>5. OneSubmitter' /\ Traced' /\ OneFlies' /\ PaysOnce'
  <2>1. OneSubmitter'
    BY <1>3 DEF SubmitInv, OneSubmitter, Elsewhere
  <2>2. Traced'
    BY <1>3 DEF SubmitInv, Traced, Typed
  <2> QED BY <2>1, <2>2 DEF SubmitInv, OneFlies, Elsewhere, PaysOnce
<1>6. NothingFlies'
  BY <1>1 DEF SubmitInv, NothingFlies, Undecided, Clear, Elsewhere
<1> QED BY <1>2, <1>4, <1>5, <1>6 DEF SubmitInv

\* Receipts stay as they are.
LEMMA PlainMoveKeeps ==
  ASSUME SubmitInv, NEW r \in Requests, NEW s \in Records,
         request' = [request EXCEPT ![r] = s], s.tried = request[r].tried,
         UNCHANGED <<receipt, flying, paid>>,
         Elsewhere(r) =>
           /\ s.step \in Early => request[r].tried = {}
           /\ s.step \in {"sent", "settled"} => request[r].tried # {}
           /\ s.step # "recording"
           /\ s.step \in Reserved => receipt[Pays[r]] = HeldBy(r)
           /\ s.step = "routing" \/ (s.step = "sent" /\ s.final = "limited") => Clear(Pays[r])
  PROVE  SubmitInv'
<1>1. receipt' \in [Payments -> Receipts]
  BY DEF SubmitInv, Typed
<1> QED BY <1>1, MoveKeeps

\* What Goto and Conclude make of the record of a request.
LEMMA Goes ==
  ASSUME Typed, NEW r \in Requests, NEW step \in Steps, Goto(r, step)
  PROVE  \E s \in Records :
           /\ request' = [request EXCEPT ![r] = s]
           /\ s.step = step /\ s.tried = request[r].tried /\ s.final = request[r].final
<1> DEFINE s == [request[r] EXCEPT !.step = step]
<1>1. s \in Records /\ s.step = step /\ s.tried = request[r].tried /\ s.final = request[r].final
  BY DEF Typed, Records
<1>2. request' = [request EXCEPT ![r] = s]
  BY DEF Goto, Typed
<1> QED BY <1>1, <1>2

LEMMA Concludes ==
  ASSUME Typed, NEW r \in Requests, NEW step \in Steps, NEW final \in Finals,
         Conclude(r, step, final)
  PROVE  \E s \in Records :
           /\ request' = [request EXCEPT ![r] = s]
           /\ s.step = step /\ s.tried = request[r].tried /\ s.final = final
<1> DEFINE s == [request[r] EXCEPT !.step = step, !.final = final]
<1>1. s \in Records /\ s.step = step /\ s.tried = request[r].tried /\ s.final = final
  BY DEF Typed, Records
<1>2. request' = [request EXCEPT ![r] = s]
  BY DEF Conclude, Typed
<1> QED BY <1>1, <1>2

\* Steps after which a request holds and may do nothing any more.
Passive == {"charging", "failed", "late", "answered", "verifying", "reserving",
            "retrying", "recovered"}

LEMMA PassiveKeeps ==
  ASSUME SubmitInv, NEW r \in Requests, NEW step \in Passive, Goto(r, step),
         step \in Early => Untried(r) \/ ~Elsewhere(r),
         UNCHANGED <<receipt, flying, paid>>
  PROVE  SubmitInv'
<1>1. step \in Steps /\ step \notin Reserved /\ step # "recording"
  BY DEF Passive, Steps, Early, Reserved, Proven
<1>2. PICK s \in Records :
        /\ request' = [request EXCEPT ![r] = s]
        /\ s.step = step /\ s.tried = request[r].tried
  BY <1>1, Goes DEF SubmitInv
<1> QED BY <1>1, <1>2, PlainMoveKeeps DEF Untried, Reserved

\* At an early step off Base nothing was submitted by this request.
LEMMA EarlyUntried ==
  ASSUME SubmitInv, NEW r \in Requests, request[r].step \in Early, Elsewhere(r)
  PROVE  Untried(r)
  BY DEF SubmitInv, ReceiptHeld, HoldsReceipt

LEMMA ArriveKeeps == ASSUME SubmitInv, NEW r \in Requests, Arrive(r) PROVE SubmitInv'
<1>1. request[r].step \in Early /\ UNCHANGED <<receipt, flying, paid>>
  BY DEF Arrive, At, Early, world
<1>2. PICK step \in {"verifying", "answered", "retrying"} : Goto(r, step)
  BY DEF Arrive
<1>3. step \in Passive
  BY DEF Passive
<1> QED BY <1>1, <1>2, <1>3, EarlyUntried, PassiveKeeps

LEMMA VerifyKeeps == ASSUME SubmitInv, NEW r \in Requests, Verify(r) PROVE SubmitInv'
<1>1. request[r].step \in Early /\ UNCHANGED <<receipt, flying, paid>>
  BY DEF Verify, At, Early, world
<1>2. PICK step \in {"reserving", "answered"} : Goto(r, step)
  BY DEF Verify
<1>3. step \in Passive
  BY DEF Passive
<1> QED BY <1>1, <1>2, <1>3, EarlyUntried, PassiveKeeps

LEMMA ChargeMovesKeep ==
  ASSUME SubmitInv, NEW r \in Requests, RetryCharges(r) \/ Account(r) \/ Failed(r) \/ Crash(r)
  PROVE  SubmitInv'
<1>1. PICK step \in {"answered", "late"} : Goto(r, step)
  BY DEF RetryCharges, Account, Failed, Crash
<1>2. UNCHANGED <<receipt, flying, paid>>
  BY DEF RetryCharges, Account, Failed, Crash, world
<1>3. step \in Passive /\ step \notin Early
  BY DEF Passive, Early
<1> QED BY <1>1, <1>2, <1>3, PassiveKeeps

LEMMA AdmitKeeps == ASSUME SubmitInv, NEW r \in Requests, Admit(r) PROVE SubmitInv'
<1>1. /\ request[r].step = "admitting" /\ request[r].step \in Early
      /\ request[r].step \in Reserved /\ UNCHANGED <<receipt, flying, paid>>
  BY DEF Admit, At, Early, Reserved, world
<1>2. PICK step \in {"routing", "releasing"} : Goto(r, step)
  BY DEF Admit
<1>3. step \in Steps /\ step \notin {"sent", "settled", "recording"}
  BY DEF Steps, Reserved, Early
<1>4. PICK s \in Records :
        /\ request' = [request EXCEPT ![r] = s]
        /\ s.step = step /\ s.tried = request[r].tried
  BY <1>2, <1>3, Goes DEF SubmitInv
<1>5. Elsewhere(r) =>
        Untried(r) /\ receipt[Pays[r]] = HeldBy(r) /\ Clear(Pays[r])
  BY <1>1, UnusedIsClear DEF SubmitInv, ReceiptHeld, HoldsReceipt
<1> QED BY <1>1, <1>3, <1>4, <1>5, PlainMoveKeeps DEF Untried

\* A receipt that exists is held by nobody else.
LEMMA ReserveKeeps == ASSUME SubmitInv, NEW r \in Requests, Reserve(r) PROVE SubmitInv'
<1>1. request[r].step \in Early /\ UNCHANGED <<flying, paid>>
  BY DEF Reserve, At, Early, world
<1>2. CASE CanReserve(Pays[r])
  <2>1. /\ receipt[Pays[r]].status = "none" /\ Goto(r, "admitting")
        /\ receipt' = [receipt EXCEPT ![Pays[r]] = HeldBy(r)]
    BY <1>2 DEF Reserve, CanReserve, ReserveReceipt, HeldBy
  <2>2. /\ receipt' \in [Payments -> Receipts] /\ receipt'[Pays[r]] = HeldBy(r)
        /\ \A p \in Payments : p # Pays[r] => receipt'[p] = receipt[p]
    BY <2>1 DEF SubmitInv, Typed, Receipts, HeldBy
  <2>3. PICK s \in Records :
          /\ request' = [request EXCEPT ![r] = s]
          /\ s.step = "admitting" /\ s.tried = request[r].tried
    BY <2>1, Goes DEF SubmitInv, Steps, Early
  <2>4. ASSUME NEW q \in Requests, Elsewhere(q), Pays[q] = Pays[r]
        PROVE  Untried(q) /\ request[q].step \notin Reserved
    <3>1. receipt[Pays[q]].status = "none" /\ HeldBy(q).status = "pending"
      BY <2>1, <2>4 DEF HeldBy
    <3> QED BY <2>4, <3>1 DEF SubmitInv, ReceiptHeld, HoldsReceipt
  <2>5. Elsewhere(r) => Untried(r)
    BY <2>4
  <2> QED BY <1>1, <2>2, <2>3, <2>4, <2>5, MoveKeeps DEF Untried, Reserved
<1>3. CASE ~CanReserve(Pays[r])
  <2>1. Goto(r, "answered") /\ UNCHANGED receipt /\ "answered" \in Passive \ Early
    BY <1>3 DEF Reserve, Passive, Early
  <2> QED BY <1>1, <2>1, PassiveKeeps
<1> QED BY <1>2, <1>3

LEMMA ReleaseKeeps == ASSUME SubmitInv, NEW r \in Requests, Release(r) PROVE SubmitInv'
<1>1. /\ request[r].step \in Early /\ request[r].step \in Reserved
      /\ Goto(r, "answered") /\ ReleaseReceipt(r) /\ UNCHANGED <<flying, paid>>
  BY DEF Release, At, Early, Reserved, world
<1>2. /\ receipt' \in [Payments -> Receipts]
      /\ \A p \in Payments : p # Pays[r] => receipt'[p] = receipt[p]
  BY <1>1 DEF ReleaseReceipt, SubmitInv, Typed, Receipts, NoReceipt
<1>3. PICK s \in Records :
        /\ request' = [request EXCEPT ![r] = s]
        /\ s.step = "answered" /\ s.tried = request[r].tried
  BY <1>1, Goes DEF SubmitInv, Steps
<1>4. ASSUME NEW q \in Requests, Elsewhere(q), Pays[q] = Pays[r], q # r
      PROVE  Untried(q) /\ request[q].step \notin Reserved
  <2>1. Elsewhere(r)
    BY <1>4 DEF Elsewhere
  <2>2. Untried(r) /\ receipt[Pays[r]] = HeldBy(r)
    BY <1>1, <2>1 DEF SubmitInv, ReceiptHeld, HoldsReceipt
  <2>3. Untried(q)
    BY <1>4, <2>1, <2>2, UnusedIsClear
  <2>4. request[q].step \in Reserved => receipt[Pays[q]] = HeldBy(q)
    BY <1>4 DEF SubmitInv, ReceiptHeld, HoldsReceipt
  <2>5. HeldBy(q) # HeldBy(r)
    BY <1>4 DEF HeldBy
  <2> QED BY <1>4, <2>2, <2>3, <2>4, <2>5
<1>5. Elsewhere(r) => Untried(r)
  BY <1>1, EarlyUntried
<1> QED BY <1>2, <1>1, <1>3, <1>4, <1>5, MoveKeeps DEF Untried, Early, Reserved

-----------------------------------------------------------------------------
\* After the answer of a facilitator.

LEMMA SentHolds ==
  ASSUME SubmitInv, NEW r \in Requests, Elsewhere(r), request[r].step \in {"sent", "settled"}
  PROVE  ~Untried(r) /\ receipt[Pays[r]] = HeldBy(r)
  BY DEF SubmitInv, ReceiptHeld, HoldsReceipt, Reserved

LEMMA FailOverKeeps == ASSUME SubmitInv, NEW r \in Requests, FailOver(r) PROVE SubmitInv'
<1>1. request[r].step = "sent" /\ UNCHANGED <<receipt, flying, paid>>
  BY DEF FailOver, At, world
<1>2. PICK step \in {"failed", "routing"} : Goto(r, step)
  BY DEF FailOver
<1>3. step \in Steps /\ step \notin Early \cup {"sent", "settled", "recording"}
  BY DEF Steps, Reserved, Early
<1>4. PICK s \in Records :
        /\ request' = [request EXCEPT ![r] = s]
        /\ s.step = step /\ s.tried = request[r].tried
  BY <1>2, <1>3, Goes DEF SubmitInv
<1>5. Elsewhere(r) => Clear(Pays[r]) /\ receipt[Pays[r]] = HeldBy(r)
  <2> SUFFICES ASSUME Elsewhere(r) PROVE Clear(Pays[r]) /\ receipt[Pays[r]] = HeldBy(r)
    OBVIOUS
  <2>1. request[r].final = "limited"
    BY DEF FailOver, MayFailOver, Elsewhere
  <2> QED BY <1>1, <2>1, SentHolds DEF SubmitInv, NothingFlies, Undecided
<1> QED BY <1>1, <1>3, <1>4, <1>5, PlainMoveKeeps

LEMMA RecoverKeeps == ASSUME SubmitInv, NEW r \in Requests, Recover(r) PROVE SubmitInv'
<1>1. ~Elsewhere(r) /\ Conclude(r, "settled", "settled") /\ UNCHANGED <<receipt, flying, paid>>
  BY DEF Recover, TransferFound, Elsewhere, world
<1>2. PICK s \in Records : request' = [request EXCEPT ![r] = s] /\ s.tried = request[r].tried
  BY <1>1, Concludes DEF SubmitInv, Steps, Proven, Finals
<1> QED BY <1>1, <1>2, PlainMoveKeeps

LEMMA FailClosedKeeps == ASSUME SubmitInv, NEW r \in Requests, FailClosed(r) PROVE SubmitInv'
<1>1. Conclude(r, "failed", "ambiguous") /\ UNCHANGED <<receipt, flying, paid>>
  BY DEF FailClosed, world
<1>2. PICK s \in Records :
        /\ request' = [request EXCEPT ![r] = s]
        /\ s.step = "failed" /\ s.tried = request[r].tried
  BY <1>1, Concludes DEF SubmitInv, Steps, Finals
<1> QED BY <1>1, <1>2, PlainMoveKeeps DEF Early, Reserved

LEMMA AnsweredKeeps == ASSUME SubmitInv, NEW r \in Requests, Answered(r) PROVE SubmitInv'
<1>1. request[r].step = "sent" /\ UNCHANGED <<receipt, flying, paid>>
  BY DEF Answered, At, world
<1>2. PICK step \in {"failed", "settled"} : Goto(r, step)
  BY DEF Answered
<1>3. step \in Steps /\ step \notin Early \cup {"sent", "routing", "recording"}
  BY DEF Steps, Reserved, Early
<1>4. PICK s \in Records :
        /\ request' = [request EXCEPT ![r] = s]
        /\ s.step = step /\ s.tried = request[r].tried
  BY <1>2, <1>3, Goes DEF SubmitInv
<1>5. Elsewhere(r) => request[r].tried # {} /\ receipt[Pays[r]] = HeldBy(r)
  BY <1>1, SentHolds DEF Untried
<1> QED BY <1>1, <1>3, <1>4, <1>5, PlainMoveKeeps

\* A receipt is confirmed by a transfer that the chain shows, or by the one
\* request that submitted the payment.
LEMMA ConfirmKeeps ==
  ASSUME SubmitInv, NEW r \in Requests, NEW step \in {"recovered", "charging", "answered"},
         Goto(r, step), RecordReceipt(Pays[r]), UNCHANGED <<flying, paid>>,
         Elsewhere(r) => request[r].step = "settled" /\ step # "recovered"
  PROVE  SubmitInv'
<1>1. /\ receipt' \in [Payments -> Receipts] /\ receipt'[Pays[r]].status = "confirmed"
      /\ \A p \in Payments : p # Pays[r] => receipt'[p] = receipt[p]
  BY DEF RecordReceipt, SubmitInv, Typed, Receipts
<1>2. step \in Steps /\ step \notin Reserved \cup {"recording"}
  BY DEF Steps, Early, Proven, Reserved
<1>3. PICK s \in Records :
        /\ request' = [request EXCEPT ![r] = s]
        /\ s.step = step /\ s.tried = request[r].tried
  BY <1>2, Goes DEF SubmitInv
<1>4. ASSUME NEW q \in Requests, Elsewhere(q), q # r, request[q].step \in Reserved
      PROVE  Pays[q] # Pays[r]
  <2>1. receipt[Pays[q]] = HeldBy(q)
    BY <1>4 DEF SubmitInv, ReceiptHeld, HoldsReceipt
  <2>2. Elsewhere(r) => receipt[Pays[r]] = HeldBy(r)
    BY SentHolds
  <2>3. HeldBy(q) # HeldBy(r)
    BY <1>4 DEF HeldBy
  <2> QED BY <1>4, <2>1, <2>2, <2>3 DEF Elsewhere
<1>5. step \in Early => ~Elsewhere(r)
  BY DEF Early
<1> QED BY <1>1, <1>2, <1>3, <1>4, <1>5, MoveKeeps DEF Reserved

LEMMA RecordKeeps == ASSUME SubmitInv, NEW r \in Requests, Record(r) PROVE SubmitInv'
<1>1. request[r].step = "settled" /\ UNCHANGED <<flying, paid>>
  BY DEF Record, At, world
<1>2. CASE RecordReceipt(Pays[r]) /\ Goto(r, "charging")
  BY <1>1, <1>2, ConfirmKeeps
<1>3. CASE Goto(r, "answered") /\ UNCHANGED receipt
  BY <1>1, <1>3, PassiveKeeps DEF Passive, Early
<1> QED BY <1>2, <1>3 DEF Record

LEMMA RetryReconcilesKeeps ==
  ASSUME SubmitInv, NEW r \in Requests, RetryReconciles(r) PROVE SubmitInv'
<1>1. UNCHANGED <<flying, paid>>
  BY DEF RetryReconciles, world
<1>2. CASE TransferFound(Pays[r]) /\ RecordReceipt(Pays[r]) /\ Goto(r, "recovered")
  BY <1>1, <1>2, ConfirmKeeps DEF TransferFound, Elsewhere
<1>3. CASE Goto(r, "answered") /\ UNCHANGED receipt
  BY <1>1, <1>3, PassiveKeeps DEF Passive, Early
<1> QED BY <1>2, <1>3 DEF RetryReconciles

LEMMA LateKeeps ==
  ASSUME SubmitInv, NEW r \in Requests, LateReconciles(r) \/ LateRecords(r) PROVE SubmitInv'
<1>1. UNCHANGED <<flying, paid>>
  BY DEF LateReconciles, LateRecords, world
<1>2. CASE TransferFound(Pays[r]) /\ Goto(r, "recording") /\ UNCHANGED receipt
  <2>1. PICK s \in Records :
          request' = [request EXCEPT ![r] = s] /\ s.tried = request[r].tried
    BY <1>2, Goes DEF SubmitInv, Steps, Proven
  <2>2. ~Elsewhere(r)
    BY <1>2 DEF TransferFound, Elsewhere
  <2> QED BY <1>1, <1>2, <2>1, <2>2, PlainMoveKeeps
<1>3. CASE Goto(r, "answered") /\ UNCHANGED receipt
  BY <1>1, <1>3, PassiveKeeps DEF Passive, Early
<1>4. CASE LateRecords(r) /\ RecordReceipt(Pays[r]) /\ Goto(r, "answered")
  <2>1. request[r].step = "recording"
    BY <1>4 DEF LateRecords, At
  <2>2. ~Elsewhere(r)
    BY <2>1 DEF SubmitInv, ReceiptHeld, HoldsReceipt
  <2> QED BY <1>1, <1>4, <2>2, ConfirmKeeps
<1> QED BY <1>2, <1>3, <1>4 DEF LateReconciles, LateRecords

-----------------------------------------------------------------------------
\* The two steps that pay.

LEMMA SubmitKeeps == ASSUME SubmitInv, NEW r \in Requests, Submit(r) PROVE SubmitInv'
<1> DEFINE p == Pays[r]
<1>1. PICK f \in Facilitators, answer \in {"settled", "declined", "limited", "unknown"} :
        /\ answer = "settled" => CanLand(Pays[r])
        /\ request' = [request EXCEPT ![r] =
             [step |-> "sent", tried |-> @.tried \cup {f}, final |-> answer]]
        /\ paid' = IF answer = "settled" THEN [paid EXCEPT ![Pays[r]] = @ + 1] ELSE paid
        /\ flying' = IF answer = "unknown" THEN flying \cup {<<r, f>>} ELSE flying
  BY DEF Submit
<1>2. request[r].step = "routing" /\ UNCHANGED receipt
  BY DEF Submit, At
<1>3. /\ request' \in [Requests -> Records] /\ request'[r].step = "sent"
      /\ request'[r].final = answer /\ request'[r].tried # {}
      /\ \A q \in Requests : q # r => request'[q] = request[q]
  BY <1>1 DEF SubmitInv, Typed, Records, Steps, Finals
<1>4. Elsewhere(r) => receipt[p] = HeldBy(r) /\ Clear(p)
  BY <1>2 DEF SubmitInv, ReceiptHeld, HoldsReceipt, Reserved, NothingFlies, Undecided
<1>5. ASSUME NEW q \in Requests, Elsewhere(q), Pays[q] = p, q # r
      PROVE  Untried(q) /\ request[q].step \notin Reserved
  <2>1. HeldBy(q) # HeldBy(r) /\ HeldBy(r).status # "confirmed"
    BY <1>5 DEF HeldBy
  <2>2. receipt[Pays[q]] = HeldBy(r)
    BY <1>4, <1>5 DEF Elsewhere
  <2> QED BY <1>5, <2>1, <2>2 DEF SubmitInv, ReceiptHeld, HoldsReceipt
<1>6. /\ \A x \in Payments : x # p => paid'[x] = paid[x]
      /\ paid' \in [Payments -> Nat] /\ paid'[p] <= 1
      /\ answer # "settled" => paid'[p] = paid[p]
  <2>1. answer = "settled" => paid[p] = 0
    BY <1>1, <1>4 DEF CanLand, Unused, Clear, Elsewhere
  <2> QED BY <1>1, <2>1 DEF SubmitInv, Typed, PaysOnce
<1>7. /\ flying' \subseteq Requests \X Facilitators
      /\ \A s \in flying' : s \in flying \/ (answer = "unknown" /\ s = <<r, f>>)
  BY <1>1 DEF SubmitInv, Typed
<1>8. Typed'
  BY <1>2, <1>3, <1>6, <1>7 DEF SubmitInv, Typed
<1>9. ReceiptHeld'
  <2> SUFFICES ASSUME NEW q \in Requests, Elsewhere(q) PROVE HoldsReceipt(q)'
    BY DEF ReceiptHeld, Elsewhere
  <2>1. CASE q = r
    BY <1>2, <1>3, <1>4, <2>1 DEF HoldsReceipt, Untried, HeldBy, Early
  <2>2. CASE q # r
    BY <1>2, <1>3, <2>2 DEF SubmitInv, ReceiptHeld, HoldsReceipt, Untried, HeldBy
  <2> QED BY <2>1, <2>2
<1>10. OneSubmitter'
  BY <1>3, <1>5 DEF SubmitInv, OneSubmitter, Untried, Elsewhere
<1>11. Traced'
  <2>1. \A s \in flying' : ~Untried(s[1])'
    BY <1>3, <1>7 DEF SubmitInv, Typed, Traced, Untried
  <2>2. \A x \in Payments \ Base : paid'[x] > 0 =>
          \E q \in Requests : Pays[q] = x /\ ~Untried(q)'
    BY <1>3, <1>6 DEF SubmitInv, Traced, Untried
  <2> QED BY <2>1, <2>2 DEF Traced
<1>12. OneFlies'
  <2> SUFFICES ASSUME NEW s \in flying', Elsewhere(s[1])
               PROVE  /\ paid'[Pays[s[1]]] = 0
                      /\ \A t \in flying' : Pays[t[1]] = Pays[s[1]] => s = t
    BY DEF OneFlies, Elsewhere
  <2>1. CASE Pays[s[1]] = p
    <3>1. Elsewhere(r)
      BY <2>1 DEF Elsewhere
    <3>2. \A t \in flying' : Pays[t[1]] = p => answer = "unknown" /\ t = <<r, f>>
      BY <1>4, <1>7, <3>1 DEF Clear
    <3> QED BY <1>4, <1>6, <2>1, <3>1, <3>2 DEF Clear
  <2>2. CASE Pays[s[1]] # p
    <3>1. \A t \in flying' : Pays[t[1]] # p => t \in flying
      BY <1>7
    <3>2. Pays[s[1]] \in Payments
      BY <1>7
    <3> QED BY <1>6, <2>2, <3>1, <3>2 DEF SubmitInv, OneFlies
  <2> QED BY <2>1, <2>2
<1>13. NothingFlies'
  <2> SUFFICES ASSUME NEW q \in Requests, Elsewhere(q), Undecided(q)' PROVE Clear(Pays[q])'
    BY DEF NothingFlies, Elsewhere
  <2>1. CASE q = r
    BY <1>1, <1>3, <1>4, <2>1 DEF Undecided, Clear
  <2>2. CASE q # r
    <3>1. Undecided(q) /\ request[q].step \in Reserved
      BY <1>3, <2>2 DEF Undecided, Reserved
    <3>2. Pays[q] # p /\ Clear(Pays[q])
      BY <1>5, <2>2, <3>1 DEF SubmitInv, NothingFlies
    <3> QED BY <1>6, <1>7, <3>2 DEF Clear
  <2> QED BY <2>1, <2>2
<1>14. PaysOnce'
  BY <1>6 DEF SubmitInv, PaysOnce
<1> QED BY <1>8, <1>9, <1>10, <1>11, <1>12, <1>13, <1>14 DEF SubmitInv

LEMMA LandKeeps == ASSUME SubmitInv, NEW r \in Requests, Land(r) PROVE SubmitInv'
<1> DEFINE p == Pays[r]
<1>1. PICK s \in flying :
        /\ s[1] = r /\ CanLand(Pays[r]) /\ flying' = flying \ {s}
        /\ paid' = [paid EXCEPT ![Pays[r]] = @ + 1]
  BY DEF Land
<1>2. UNCHANGED <<request, receipt>>
  BY DEF Land
<1>3. paid[p] = 0
  BY <1>1 DEF CanLand, Unused, SubmitInv, OneFlies, Elsewhere
<1>4. /\ paid' \in [Payments -> Nat] /\ paid'[p] = 1
      /\ \A x \in Payments : x # p => paid'[x] = paid[x]
  BY <1>1, <1>3 DEF SubmitInv, Typed
<1>5. Typed' /\ ReceiptHeld' /\ OneSubmitter' /\ PaysOnce'
  BY <1>1, <1>2, <1>4
     DEF SubmitInv, Typed, ReceiptHeld, HoldsReceipt, OneSubmitter, PaysOnce, Untried, HeldBy,
         Elsewhere
<1>6. ~Untried(r)
  BY <1>1 DEF SubmitInv, Traced
<1>7. Traced'
  <2>1. \A x \in Payments \ Base : paid'[x] > 0 =>
          \E q \in Requests : Pays[q] = x /\ ~Untried(q)
    BY <1>4, <1>6 DEF SubmitInv, Traced
  <2> QED BY <1>1, <1>2, <2>1 DEF SubmitInv, Traced, Untried
<1>8. Elsewhere(r) => \A t \in flying' : Pays[t[1]] # p
  BY <1>1 DEF SubmitInv, OneFlies
<1>9. \A t \in flying' : Elsewhere(t[1]) => Pays[t[1]] # p /\ Pays[t[1]] \in Payments
  BY <1>1, <1>8 DEF Elsewhere, SubmitInv, Typed
<1>10. OneFlies'
  BY <1>1, <1>4, <1>9 DEF SubmitInv, OneFlies, Elsewhere
<1>11. \A q \in Requests : Elsewhere(q) /\ Undecided(q) => Pays[q] # p /\ Clear(Pays[q])
  BY <1>1 DEF SubmitInv, NothingFlies, Clear
<1>12. NothingFlies'
  BY <1>1, <1>2, <1>4, <1>11 DEF NothingFlies, Undecided, Clear, Elsewhere
<1> QED BY <1>5, <1>7, <1>10, <1>12 DEF SubmitInv

LEMMA NextKeeps == SubmitInv /\ [Next]_vars => SubmitInv'
<1> SUFFICES ASSUME SubmitInv, [Next]_vars PROVE SubmitInv'
  OBVIOUS
<1>1. ASSUME NEW r \in Requests,
             Arrive(r) \/ RetryReconciles(r) \/ RetryCharges(r) \/ Verify(r) \/ Reserve(r)
             \/ Admit(r) \/ Release(r)
      PROVE  SubmitInv'
  BY <1>1, ArriveKeeps, RetryReconcilesKeeps, ChargeMovesKeep, VerifyKeeps, ReserveKeeps,
     AdmitKeeps, ReleaseKeeps
<1>2. ASSUME NEW r \in Requests,
             Submit(r) \/ FailOver(r) \/ Recover(r) \/ FailClosed(r) \/ Answered(r)
             \/ Land(r)
      PROVE  SubmitInv'
  BY <1>2, SubmitKeeps, FailOverKeeps, RecoverKeeps, FailClosedKeeps, AnsweredKeeps, LandKeeps
<1>3. ASSUME NEW r \in Requests,
             Record(r) \/ Account(r) \/ Failed(r) \/ LateReconciles(r) \/ LateRecords(r)
             \/ Crash(r)
      PROVE  SubmitInv'
  BY <1>3, RecordKeeps, ChargeMovesKeep, LateKeeps
<1>4. ASSUME UNCHANGED <<request, receipt, flying, paid>> PROVE SubmitInv'
  BY <1>4 DEF SubmitInv, Typed, ReceiptHeld, HoldsReceipt, OneSubmitter, Traced, OneFlies,
     NothingFlies, Undecided, Clear, PaysOnce, Untried, HeldBy, Elsewhere
<1>5. ASSUME NEW p \in Payments, Cancel(p) \/ PendingLapses(p) \/ Age(p) PROVE SubmitInv'
  BY <1>4, <1>5 DEF Cancel, PendingLapses, Age, world
<1>6. CASE UNCHANGED vars
  BY <1>4, <1>6 DEF vars
<1> QED BY <1>1, <1>2, <1>3, <1>5, <1>6 DEF Next

(***************************************************************************)
(* However requests, retries, facilitators and crashes race, a signed      *)
(* authorization pays the merchant at most once, on Base as well as on the *)
(* networks where nothing but the receipt object stands in the way of a    *)
(* second payment.                                                         *)
(***************************************************************************)
THEOREM OnePayment == Spec => []PaysOnce
<1>1. SubmitInv => PaysOnce
  BY DEF SubmitInv
<1> QED BY <1>1, InitEstablishes, NextKeeps, PTL DEF Spec

-----------------------------------------------------------------------------
(***************************************************************************)
(* What is recorded and charged was paid.  paid never decreases, so a step *)
(* need only account for what it adds.                                     *)
(***************************************************************************)

Showed(r) ==
  request[r].step \in Proven \/ (request[r].step = "sent" /\ request[r].final = "settled")
Evidence == \A r \in Requests : Showed(r) => paid[Pays[r]] > 0

BooksTyped ==
  /\ consumed \subseteq {<<p, "settlement">> : p \in Payments}
  /\ quota \in [success : Nat, pending : SUBSET Payments, confirmed : SUBSET Payments]
  /\ IsFiniteSet(quota.confirmed) /\ quota.success = Cardinality(quota.confirmed)
Funded ==
  /\ \A key \in consumed : paid[key[1]] > 0
  /\ \A p \in quota.confirmed : paid[p] > 0

ChargeInv == SubmitInv /\ Evidence /\ ConfirmedIsPaid /\ BooksTyped /\ Funded

LEMMA ChargeInit == Init => ChargeInv
<1> SUFFICES ASSUME Init PROVE ChargeInv
  OBVIOUS
<1>1. Evidence /\ ConfirmedIsPaid /\ Funded
  BY DEF Init, Evidence, Showed, ConfirmedIsPaid, Funded, Fresh, NoReceipt, Proven
<1>2. BooksTyped
  BY FS_EmptySet DEF Init, BooksTyped
<1> QED BY <1>1, <1>2, InitEstablishes DEF ChargeInv

LEMMA PaidGrows ==
  ASSUME SubmitInv, [Next]_vars PROVE \A p \in Payments : paid[p] > 0 => paid'[p] > 0
<1> USE DEF SubmitInv, Typed
<1>1. ASSUME NEW r \in Requests, Submit(r)
      PROVE  \A p \in Payments : paid[p] > 0 => paid'[p] > 0
  BY <1>1 DEF Submit
<1>2. ASSUME NEW r \in Requests, Land(r)
      PROVE  \A p \in Payments : paid[p] > 0 => paid'[p] > 0
  BY <1>2 DEF Land
<1>3. CASE UNCHANGED paid
  BY <1>3
<1> QED
  BY <1>1, <1>2, <1>3
     DEF Next, vars, world, Arrive, RetryReconciles, RetryCharges, Verify, Reserve, Admit,
         Release, FailOver, Recover, FailClosed, Answered, Record, Account, Failed,
         LateReconciles, LateRecords, Crash, Cancel, PendingLapses, Age

\* A request that moves shows a payment only if there is one.
LEMMA ShownKeeps ==
  ASSUME SubmitInv, Evidence, [Next]_vars, NEW r \in Requests, NEW s,
         request' = [request EXCEPT ![r] = s],
         s.step \in Proven \/ (s.step = "sent" /\ s.final = "settled") => paid'[Pays[r]] > 0
  PROVE  Evidence'
<1>1. request'[r] = s /\ \A q \in Requests : q # r => request'[q] = request[q]
  BY DEF SubmitInv, Typed
<1>2. \A q \in Requests : paid[Pays[q]] > 0 => paid'[Pays[q]] > 0
  BY PaidGrows
<1> QED BY <1>1, <1>2 DEF Evidence, Showed

LEMMA EvidenceKeeps == ASSUME SubmitInv, Evidence, [Next]_vars PROVE Evidence'
<1>1. ASSUME NEW r \in Requests, NEW step \in Steps, Goto(r, step), step # "sent",
             step \in Proven => paid'[Pays[r]] > 0
      PROVE  Evidence'
  BY <1>1, Goes, ShownKeeps DEF SubmitInv
<1>2. ASSUME NEW r \in Requests, NEW step \in Steps \ (Proven \cup {"sent"}), Goto(r, step)
      PROVE  Evidence'
  BY <1>1, <1>2
<1>3. ASSUME NEW r \in Requests, request[r].step \in Proven, UNCHANGED paid
      PROVE  paid'[Pays[r]] > 0
  BY <1>3 DEF Evidence, Showed
<1>4. ASSUME NEW r \in Requests,
             Arrive(r) \/ Verify(r) \/ Reserve(r) \/ Admit(r) \/ Release(r)
             \/ RetryCharges(r) \/ Account(r) \/ Failed(r) \/ FailOver(r) \/ Crash(r)
             \/ LateRecords(r)
      PROVE  Evidence'
  <2>1. PICK step \in {"verifying", "answered", "retrying", "reserving", "admitting",
                       "routing", "releasing", "late", "failed"} : Goto(r, step)
    BY <1>4 DEF Arrive, Verify, Reserve, Admit, Release, RetryCharges, Account, Failed,
       FailOver, Crash, LateRecords
  <2>2. step \in Steps \ (Proven \cup {"sent"})
    BY DEF Steps, Early, Reserved, Proven
  <2> QED BY <1>2, <2>1, <2>2
<1>5. ASSUME NEW r \in Requests, RetryReconciles(r) \/ LateReconciles(r) PROVE Evidence'
  <2>1. CASE Goto(r, "answered")
    BY <1>2, <2>1 DEF Steps, Proven
  <2>2. CASE TransferFound(Pays[r]) /\ (Goto(r, "recovered") \/ Goto(r, "recording"))
    <3>1. paid'[Pays[r]] > 0
      BY <1>5, <2>2 DEF TransferFound, RetryReconciles, LateReconciles, world
    <3> QED BY <1>1, <2>2, <3>1 DEF Steps, Early, Proven
  <2> QED BY <1>5, <2>1, <2>2 DEF RetryReconciles, LateReconciles
<1>6. ASSUME NEW r \in Requests, Record(r) PROVE Evidence'
  <2>1. paid'[Pays[r]] > 0
    BY <1>6, <1>3 DEF Record, At, Proven, world
  <2> QED BY <1>1, <1>6, <2>1 DEF Record, Steps, Proven
<1>7. ASSUME NEW r \in Requests, Answered(r) PROVE Evidence'
  <2>1. CASE request[r].final = "settled"
    <3>1. paid'[Pays[r]] > 0
      BY <1>7, <2>1 DEF Answered, At, world, Evidence, Showed
    <3> QED BY <1>1, <1>7, <2>1, <3>1 DEF Answered, Steps, Proven
  <2>2. CASE request[r].final # "settled"
    BY <1>2, <1>7, <2>2 DEF Answered, Steps, Proven
  <2> QED BY <2>1, <2>2
<1>8. ASSUME NEW r \in Requests, Recover(r) PROVE Evidence'
  <2>1. paid'[Pays[r]] > 0
    BY <1>8 DEF Recover, TransferFound, world
  <2>2. \E s \in Records : request' = [request EXCEPT ![r] = s]
    BY <1>8, Concludes DEF Recover, SubmitInv, Steps, Proven, Finals
  <2> QED BY <2>1, <2>2, ShownKeeps
<1>9. ASSUME NEW r \in Requests, FailClosed(r) PROVE Evidence'
  <2>1. \E s \in Records : request' = [request EXCEPT ![r] = s] /\ s.step = "failed"
    BY <1>9, Concludes DEF FailClosed, SubmitInv, Steps, Finals
  <2> QED BY <2>1, ShownKeeps DEF Proven
<1>10. ASSUME NEW r \in Requests, Submit(r) PROVE Evidence'
  <2>1. PICK f \in Facilitators, answer \in {"settled", "declined", "limited", "unknown"} :
          /\ request' = [request EXCEPT ![r] =
               [step |-> "sent", tried |-> @.tried \cup {f}, final |-> answer]]
          /\ paid' = IF answer = "settled" THEN [paid EXCEPT ![Pays[r]] = @ + 1] ELSE paid
    BY <1>10 DEF Submit
  <2> DEFINE s == [step |-> "sent", tried |-> request[r].tried \cup {f}, final |-> answer]
  <2>2. request' = [request EXCEPT ![r] = s]
    BY <2>1 DEF SubmitInv, Typed
  <2>3. s.step = "sent" /\ s.final = answer
    OBVIOUS
  <2>4. answer = "settled" => paid'[Pays[r]] > 0
    BY <2>1 DEF SubmitInv, Typed
  <2> HIDE DEF s
  <2> QED BY <2>2, <2>3, <2>4, ShownKeeps DEF Proven
<1>11. ASSUME UNCHANGED request PROVE Evidence'
  BY <1>11, PaidGrows DEF Evidence, Showed
<1> QED
  BY <1>4, <1>5, <1>6, <1>7, <1>8, <1>9, <1>10, <1>11
     DEF Next, vars, Land, Cancel, PendingLapses, Age

LEMMA ConfirmedKeeps ==
  ASSUME SubmitInv, Evidence, ConfirmedIsPaid, [Next]_vars PROVE ConfirmedIsPaid'
<1> USE DEF SubmitInv, Typed
<1>1. \A p \in Payments : paid[p] > 0 => paid'[p] > 0
  BY PaidGrows
<1>2. ASSUME NEW r \in Requests, RecordReceipt(Pays[r]), paid[Pays[r]] > 0
      PROVE  ConfirmedIsPaid'
  BY <1>1, <1>2 DEF RecordReceipt, ConfirmedIsPaid
<1>3. ASSUME UNCHANGED receipt PROVE ConfirmedIsPaid'
  BY <1>1, <1>3 DEF ConfirmedIsPaid
<1>4. ASSUME NEW r \in Requests, Record(r) \/ LateRecords(r) \/ RetryReconciles(r)
      PROVE  ConfirmedIsPaid'
  <2>1. Record(r) \/ LateRecords(r) => paid[Pays[r]] > 0
    BY DEF Record, LateRecords, At, Evidence, Showed, Proven
  <2> QED BY <1>2, <1>3, <1>4, <2>1 DEF Record, LateRecords, RetryReconciles, TransferFound
<1>5. ASSUME NEW r \in Requests, Reserve(r) PROVE ConfirmedIsPaid'
  BY <1>1, <1>5 DEF Reserve, ReserveReceipt, ConfirmedIsPaid
<1>6. ASSUME NEW r \in Requests, Release(r) PROVE ConfirmedIsPaid'
  BY <1>1, <1>6 DEF Release, ReleaseReceipt, NoReceipt, ConfirmedIsPaid
<1> QED
  BY <1>3, <1>4, <1>5, <1>6
     DEF Next, vars, Arrive, RetryCharges, Verify, Admit, Submit, FailOver, Recover, FailClosed,
         Answered, Account, Failed, LateReconciles, Crash, Land, Cancel, PendingLapses, Age

\* One charge, of a payment that was made: a key is taken once however often it
\* is presented, and the quota counts a nonce it has not counted.
LEMMA ChargeKeeps ==
  ASSUME SubmitInv, BooksTyped, Funded, NEW r \in Requests, NEW force \in BOOLEAN,
         Charge(r, force), UNCHANGED paid, paid[Pays[r]] > 0
  PROVE  BooksTyped' /\ Funded'
<1>1. CASE consumed' = consumed \cup {BillingKey(r)} /\ UNCHANGED quota
  BY <1>1 DEF BillingKey, BooksTyped, Funded
<1>2. CASE ConfirmFree(Pays[r], force) /\ UNCHANGED consumed
  <2>1. CASE Counts(Pays[r], force)
    <3>1. /\ quota'.success = quota.success + 1
          /\ quota'.confirmed = quota.confirmed \cup {Pays[r]}
          /\ quota' \in [success : Nat, pending : SUBSET Payments, confirmed : SUBSET Payments]
      BY <1>2, <2>1 DEF ConfirmFree, BooksTyped
    <3>2. Pays[r] \notin quota.confirmed
      BY <2>1 DEF Counts
    <3>3. IsFiniteSet(quota'.confirmed) /\ Cardinality(quota'.confirmed) = quota.success + 1
      BY <3>1, <3>2, FS_AddElement DEF BooksTyped
    <3> QED BY <1>2, <3>1, <3>3 DEF BooksTyped, Funded
  <2>2. CASE ~Counts(Pays[r], force)
    BY <1>2, <2>2 DEF ConfirmFree, BooksTyped, Funded
  <2> QED BY <2>1, <2>2
<1>3. CASE UNCHANGED <<quota, consumed>>
  BY <1>3 DEF BooksTyped, Funded
<1> QED BY <1>1, <1>2, <1>3 DEF Charge

LEMMA BooksKeep ==
  ASSUME SubmitInv, Evidence, BooksTyped, Funded, [Next]_vars PROVE BooksTyped' /\ Funded'
<1>1. ASSUME UNCHANGED <<quota, consumed>> PROVE BooksTyped' /\ Funded'
  BY <1>1, PaidGrows DEF BooksTyped, Funded
<1>2. ASSUME NEW p \in Payments, AdmitFree(p) \/ ReleaseFree(p), UNCHANGED <<consumed, paid>>
      PROVE  BooksTyped' /\ Funded'
  <2>1. /\ quota'.success = quota.success /\ quota'.confirmed = quota.confirmed
        /\ quota' \in [success : Nat, pending : SUBSET Payments, confirmed : SUBSET Payments]
    BY <1>2 DEF AdmitFree, ReleaseFree, BooksTyped
  <2> QED BY <1>2, <2>1 DEF BooksTyped, Funded
<1>3. ASSUME NEW r \in Requests, RetryCharges(r) \/ Account(r) \/ LateReconciles(r)
      PROVE  BooksTyped' /\ Funded'
  <2>1. RetryCharges(r) \/ Account(r) => paid[Pays[r]] > 0
    BY DEF RetryCharges, Account, At, Evidence, Showed, Proven
  <2>2. UNCHANGED paid
    BY <1>3 DEF RetryCharges, Account, LateReconciles, world
  <2> QED
    BY <1>1, <1>3, <2>1, <2>2, ChargeKeeps
       DEF RetryCharges, Account, LateReconciles, TransferFound
<1>4. ASSUME NEW r \in Requests, Admit(r) \/ Failed(r) PROVE BooksTyped' /\ Funded'
  BY <1>1, <1>2, <1>4 DEF Admit, Failed, world
<1>5. ASSUME NEW p \in Payments, PendingLapses(p) PROVE BooksTyped' /\ Funded'
  BY <1>2, <1>5 DEF PendingLapses, world
<1> QED
  BY <1>1, <1>3, <1>4, <1>5
     DEF Next, vars, Arrive, RetryReconciles, Verify, Reserve, Release, Submit, FailOver, Recover,
         FailClosed, Answered, Record, LateRecords, Crash, Land, Cancel, Age

LEMMA ChargeStep == ChargeInv /\ [Next]_vars => ChargeInv'
  BY NextKeeps, EvidenceKeeps, ConfirmedKeeps, BooksKeep DEF ChargeInv

LEMMA ChargedHolds == ASSUME BooksTyped, Funded PROVE ChargedOnce
<1>1. ASSUME NEW p \in Payments
      PROVE  Cardinality({key \in consumed : key[1] = p}) <= 1
  <2>1. {key \in consumed : key[1] = p} \subseteq {<<p, "settlement">>}
    BY DEF BooksTyped
  <2>2. IsFiniteSet({<<p, "settlement">>}) /\ Cardinality({<<p, "settlement">>}) = 1
    BY FS_Singleton
  <2>3. Cardinality({key \in consumed : key[1] = p}) <= Cardinality({<<p, "settlement">>})
    BY <2>1, <2>2, FS_Subset
  <2> QED BY <2>2, <2>3
<1> QED BY <1>1 DEF ChargedOnce, BooksTyped, Funded

(***************************************************************************)
(* A confirmed receipt stands for a transfer that reached the merchant,    *)
(* never for a nonce that was only used or for an answer that was only     *)
(* hoped for.                                                              *)
(***************************************************************************)
THEOREM ConfirmedWasPaid == Spec => []ConfirmedIsPaid
<1>1. ChargeInv => ConfirmedIsPaid
  BY DEF ChargeInv
<1> QED BY <1>1, ChargeInit, ChargeStep, PTL DEF Spec

(***************************************************************************)
(* A settlement costs its credits or its free place once, and only if the  *)
(* merchant was paid, although the request, each identical retry and the   *)
(* late recovery of the gateway charge for it on their own.                *)
(***************************************************************************)
THEOREM OneCharge == Spec => []ChargedOnce
<1>1. ChargeInv => ChargedOnce
  BY ChargedHolds DEF ChargeInv
<1> QED BY <1>1, ChargeInit, ChargeStep, PTL DEF Spec

-----------------------------------------------------------------------------
(* XGuard Live.  What a fact is verified against is part of the evidence it   *)
(* names, so that confirming a body confirms just the facts taken from it;    *)
(* and a suppression is answered when nothing that read before it is left.    *)

FactValues == {NoContent} \cup (UNION {{c[k] : k \in DOMAIN c} : c \in Contents})
Hashes == Contents \cup {NoContent}
Fact == [value : FactValues, hash : Contents, at : Contents,
         mark : {"verified", "removed", "stale"}]
SourceRow == [enabled : BOOLEAN, due : BOOLEAN, leased : BOOLEAN, hash : Hashes, etag : Hashes]
Work == {"idle", "asking", "leased", "fetching", "cooling", "releasing"}
Snapshots == (SUBSET Sources) \cup {NoSnapshot}
Flights == (UNION {[read -> SUBSET Sources] : read \in SUBSET Shards}) \cup {NoFlight}
FactsOf(f) == f \in [DOMAIN f -> Fact]

RowsTyped ==
  /\ served \in [Sources -> Contents]
  /\ source \in [Sources -> SourceRow]
  /\ DOMAIN facts = Sources /\ facts = [s \in Sources |-> facts[s]]
  /\ \A s \in Sources : FactsOf(facts[s])
WorkTyped ==
  /\ worker \in [Shards -> [step : Work, source : Sources \cup {NoSource}]]
  /\ \A h \in Shards : worker[h].step # "idle" => worker[h].source \in Sources
  /\ domain \in [token : Shards \cup {"none", "cooldown"}, until : 0..3]
  /\ late \subseteq Shards /\ refused \in BOOLEAN
CatalogTyped ==
  /\ suppressed \subseteq Sources /\ hidden \subseteq Sources
  /\ owner \in Sources \cup {NoSource}
  /\ catalog \in [value : Snapshots, stored : Snapshots, flight : Flights]

\* What the evidence of a fact says of it: the value it has, or that it is gone.
Evident(f, k) ==
  /\ f.mark # "removed" => k \in DOMAIN f.hash /\ f.hash[k] = f.value
  /\ f.mark = "removed" => k \notin DOMAIN f.hash
  /\ f.mark = "verified" => k \in DOMAIN f.at /\ f.at[k] = f.value
  /\ f.mark = "removed" => k \notin DOMAIN f.at
EvidenceOK == \A s \in Sources : \A k \in DOMAIN facts[s] : Evident(facts[s][k], k)

\* Whoever works in time holds the lease, or a cooldown keeps the others away.
Holds(h) == domain.until = Cooldown \/ (domain.token = h /\ domain.until = Leased)
LeaseOK ==
  /\ refused => domain.until = Cooldown
  /\ domain.until = Cooldown => domain.token = "cooldown"
  /\ \A h \in Shards : Working(h) /\ h \notin late => Holds(h)

\* What an answered suppression hides is still suppressed, and in no snapshot
\* and no flight.
HiddenOK ==
  /\ hidden \subseteq suppressed
  /\ SuppressedHidden
  /\ catalog.flight # NoFlight => \A h \in DOMAIN catalog.flight : catalog.flight[h] \cap hidden = {}

LiveInv == RowsTyped /\ WorkTyped /\ CatalogTyped /\ EvidenceOK /\ LeaseOK /\ HiddenOK

\* The row of one source, or the worker of one shard, is replaced.
LEMMA SourceReplaced ==
    ASSUME source \in [Sources -> SourceRow], NEW s \in Sources, NEW row \in SourceRow,
           source' = [source EXCEPT ![s] = row]
    PROVE  source' \in [Sources -> SourceRow]
  OBVIOUS

LEMMA WorkerMoves ==
    ASSUME WorkTyped, NEW h \in Shards, NEW step \in Work \ {"idle"}, worker[h].step # "idle",
           worker' = [worker EXCEPT ![h].step = step]
    PROVE  /\ worker' \in [Shards -> [step : Work, source : Sources \cup {NoSource}]]
           /\ worker'[h].step = step /\ worker'[h].source = worker[h].source
           /\ \A g \in Shards : g # h => worker'[g] = worker[g]
           /\ \A g \in Shards : worker'[g].step # "idle" => worker'[g].source \in Sources
<1>1. PICK w : w = [worker[h] EXCEPT !.step = step]
  OBVIOUS
<1>2. worker[h] \in [step : Work, source : Sources \cup {NoSource}] /\ worker[h].source \in Sources
  BY DEF WorkTyped
<1>3. /\ w \in [step : Work, source : Sources \cup {NoSource}]
      /\ w.step = step /\ w.source = worker[h].source
  BY <1>1, <1>2
<1>4. worker' = [worker EXCEPT ![h] = w]
  BY <1>1
<1>. QED BY <1>2, <1>3, <1>4 DEF WorkTyped

LEMMA WorkerEnds ==
    ASSUME WorkTyped, NEW h \in Shards, worker' = [worker EXCEPT ![h] = Idle]
    PROVE  /\ worker' \in [Shards -> [step : Work, source : Sources \cup {NoSource}]]
           /\ worker'[h].step = "idle"
           /\ \A g \in Shards : g # h => worker'[g] = worker[g]
           /\ \A g \in Shards : worker'[g].step # "idle" => worker'[g].source \in Sources
<1>1. Idle \in [step : Work, source : Sources \cup {NoSource}] /\ Idle.step = "idle"
  BY DEF Idle, Work
<1>. QED BY <1>1 DEF WorkTyped

LEMMA RowMarked ==
    ASSUME RowsTyped, NEW s \in Sources, NEW due \in BOOLEAN, NEW leased \in BOOLEAN,
           NEW enabled \in BOOLEAN
    PROVE  [source[s] EXCEPT !.due = due, !.leased = leased, !.enabled = enabled] \in SourceRow
<1>1. source[s] \in SourceRow
  BY DEF RowsTyped
<1>. QED BY <1>1 DEF SourceRow

\* The row of a source that was refreshed.
LEMMA RefreshedRow ==
    ASSUME RowsTyped, NEW s \in Sources, NEW hash \in Hashes
    PROVE  Refreshed(s, hash) \in SourceRow
<1>1. source[s] \in SourceRow
  BY DEF RowsTyped
<1>. QED BY <1>1 DEF Refreshed, SourceRow

\* A confirmed body speaks for every fact that was taken from it.
LEMMA ConfirmEvident ==
    ASSUME NEW f \in Fact, NEW k, NEW body \in Contents, f.hash = body, Evident(f, k)
    PROVE  Confirm(f, body) \in Fact /\ Evident(Confirm(f, body), k)
<1>1. PICK mark : mark = IF f.mark = "removed" THEN "removed" ELSE "verified"
  OBVIOUS
<1>2. Confirm(f, body) = [f EXCEPT !.at = body, !.mark = mark]
  BY <1>1 DEF Confirm
<1>3. PICK g : g = [f EXCEPT !.at = body, !.mark = mark]
  OBVIOUS
<1>4. /\ g \in Fact /\ g.value = f.value /\ g.hash = body /\ g.at = body /\ g.mark = mark
  BY <1>1, <1>3 DEF Fact
<1>5. Evident(g, k)
  BY <1>1, <1>4 DEF Evident
<1>. QED BY <1>2, <1>3, <1>4, <1>5

LEMMA StaleKeeps ==
    ASSUME NEW f \in Fact, NEW k, Evident(f, k)
    PROVE  Stale(f) \in Fact /\ Evident(Stale(f), k)
<1>1. PICK mark : mark = IF f.mark = "verified" THEN "stale" ELSE f.mark
  OBVIOUS
<1>2. Stale(f) = [f EXCEPT !.mark = mark]
  BY <1>1 DEF Stale
<1>3. PICK g : g = [f EXCEPT !.mark = mark]
  OBVIOUS
<1>4. /\ g \in Fact /\ g.value = f.value /\ g.hash = f.hash /\ g.at = f.at /\ g.mark = mark
  BY <1>1, <1>3 DEF Fact
<1>. QED BY <1>1, <1>2, <1>3, <1>4 DEF Evident

LEMMA ObservedEvident ==
    ASSUME NEW s \in Sources, NEW body \in Contents, NEW k
    PROVE  Observed(s, body, k) \in Fact /\ Evident(Observed(s, body, k), k)
<1>1. k \in DOMAIN body => body[k] \in FactValues
  BY DEF FactValues
<1>2. NoContent \in FactValues
  BY DEF FactValues
<1>. QED BY <1>1, <1>2 DEF Observed, Fact, Evident

\* The facts of one source are replaced by ones that fit their evidence.
LEMMA FactsReplaced ==
    ASSUME RowsTyped, EvidenceOK, NEW s \in Sources, NEW new,
           facts' = [facts EXCEPT ![s] = new], FactsOf(new),
           \A k \in DOMAIN new : Evident(new[k], k)
    PROVE  /\ DOMAIN facts' = Sources /\ facts' = [t \in Sources |-> facts'[t]]
           /\ \A t \in Sources : FactsOf(facts'[t])
           /\ EvidenceOK'
<1>1. facts'[s] = new /\ \A t \in Sources : t # s => facts'[t] = facts[t]
  BY DEF RowsTyped
<1>2. DOMAIN facts' = Sources /\ facts' = [t \in Sources |-> facts'[t]]
  BY DEF RowsTyped
<1>3. \A t \in Sources : FactsOf(facts'[t])
  BY <1>1 DEF RowsTyped
<1>4. ASSUME NEW t \in Sources, NEW k \in DOMAIN facts'[t]
      PROVE  Evident(facts'[t][k], k)
  BY <1>1, <1>4 DEF EvidenceOK
<1>5. EvidenceOK'
  BY <1>4 DEF EvidenceOK, Evident
<1>. QED BY <1>2, <1>3, <1>5

LEMMA LiveStep == LiveInv /\ [LiveNext]_liveVars => LiveInv'
<1> SUFFICES ASSUME LiveInv, [LiveNext]_liveVars PROVE LiveInv'
  OBVIOUS
<1>a. /\ RowsTyped /\ WorkTyped /\ CatalogTyped /\ EvidenceOK /\ LeaseOK /\ HiddenOK
      /\ served \in [Sources -> Contents] /\ source \in [Sources -> SourceRow]
      /\ worker \in [Shards -> [step : Work, source : Sources \cup {NoSource}]]
      /\ domain \in [token : Shards \cup {"none", "cooldown"}, until : 0..3]
      /\ catalog \in [value : Snapshots, stored : Snapshots, flight : Flights]
      /\ \A h \in Shards : worker[h].step # "idle" => worker[h].source \in Sources
  BY DEF LiveInv, RowsTyped, WorkTyped, CatalogTyped
\* What a step leaves alone keeps what is known of it.
<1>f. UNCHANGED facts => EvidenceOK'
  BY <1>a DEF EvidenceOK, Evident
<1>r. UNCHANGED <<served, source, facts>> => RowsTyped' /\ EvidenceOK'
  BY <1>a, <1>f DEF RowsTyped, FactsOf
<1>k. UNCHANGED <<worker, domain, late, refused>> => WorkTyped' /\ LeaseOK'
  BY <1>a DEF WorkTyped, LeaseOK, Working, Holds
<1>c. UNCHANGED <<suppressed, hidden, owner, catalog>> => CatalogTyped' /\ HiddenOK'
  BY <1>a DEF CatalogTyped, HiddenOK, SuppressedHidden
<1>w. ASSUME UNCHANGED <<domain, late, refused>>, NEW h \in Shards,
             worker' \in [Shards -> [step : Work, source : Sources \cup {NoSource}]],
             \A g \in Shards : worker'[g].step # "idle" => worker'[g].source \in Sources,
             \A g \in Shards : g # h => worker'[g] = worker[g],
             worker'[h].step \in {"leased", "fetching"} => worker[h].step \in {"leased", "fetching"}
      PROVE  WorkTyped' /\ LeaseOK'
  <2>1. WorkTyped'
    BY <1>a, <1>w DEF WorkTyped
  <2>2. ASSUME NEW g \in Shards, worker'[g].step \in {"leased", "fetching"}, g \notin late
        PROVE  Holds(g)
    BY <1>a, <1>w, <2>2 DEF LeaseOK, Working
  <2>3. LeaseOK'
    BY <1>a, <1>w, <2>2 DEF LeaseOK, Working, Holds
  <2>. QED BY <2>1, <2>3
<1>s. ASSUME NEW s \in Sources, NEW row \in SourceRow, source' = [source EXCEPT ![s] = row],
             UNCHANGED <<served, facts>>
      PROVE  RowsTyped' /\ EvidenceOK'
  BY <1>a, <1>f, <1>s DEF RowsTyped, FactsOf
<1>1. ASSUME NEW h \in Shards, Alarm(h) PROVE LiveInv'
  <2>1. PICK s \in Sources : worker' = [worker EXCEPT ![h] = [step |-> "asking", source |-> s]]
    BY <1>1 DEF Alarm, PeekDue, Available
  <2>2. /\ UNCHANGED <<domain, late, refused, served, source, facts>>
        /\ UNCHANGED <<suppressed, hidden, owner, catalog>>
    BY <1>1 DEF Alarm, shardVars
  <2>3. /\ worker' \in [Shards -> [step : Work, source : Sources \cup {NoSource}]]
        /\ worker'[h].step = "asking" /\ worker'[h].source = s
        /\ \A g \in Shards : g # h => worker'[g] = worker[g]
    BY <1>a, <2>1 DEF Work
  <2>4. WorkTyped' /\ LeaseOK'
    BY <1>a, <1>w, <2>2, <2>3
  <2>. QED BY <1>r, <1>c, <2>2, <2>4 DEF LiveInv
<1>2. ASSUME NEW h \in Shards, SourceLease(h) PROVE LiveInv'
  <2>0. /\ UNCHANGED <<late, refused, served, source, facts>>
        /\ UNCHANGED <<suppressed, hidden, owner, catalog>> /\ worker[h].step = "asking"
    BY <1>2 DEF SourceLease
  <2>1. CASE LeaseDenied(h)
    BY <1>a, <1>r, <1>c, <1>w, <2>0, <2>1, WorkerEnds DEF LeaseDenied, LiveInv
  <2>2. CASE LeaseGranted(h)
    <3>1. /\ worker' \in [Shards -> [step : Work, source : Sources \cup {NoSource}]]
          /\ worker'[h].step = "leased"
          /\ \A g \in Shards : g # h => worker'[g] = worker[g]
          /\ \A g \in Shards : worker'[g].step # "idle" => worker'[g].source \in Sources
      BY <1>a, <2>0, <2>2, WorkerMoves DEF LeaseGranted, Work
    <3>2. domain' = [token |-> h, until |-> Leased] /\ domain.until = Past
      BY <2>2 DEF LeaseGranted
    <3>3. WorkTyped'
      BY <1>a, <2>0, <3>1, <3>2 DEF WorkTyped, Leased
    \* Before the grant nobody was at work in time.
    <3>4. ASSUME NEW g \in Shards, g # h PROVE Working(g) => g \in late
      BY <1>a, <3>2 DEF LeaseOK, Holds, Past, Leased, Cooldown
    <3>5. LeaseOK'
      <4>1. ~refused'
        BY <1>a, <2>0, <3>2 DEF LeaseOK, Past, Cooldown
      <4>2. domain'.until # Cooldown /\ domain'.token = h /\ domain'.until = Leased
        BY <3>2 DEF Leased, Cooldown
      <4>3. ASSUME NEW g \in Shards, Working(g)', g \notin late' PROVE g = h
        BY <2>0, <3>1, <3>4, <4>3 DEF Working
      <4>. QED BY <4>1, <4>2, <4>3 DEF LeaseOK, Holds, Working
    <3>. QED BY <1>r, <1>c, <2>0, <3>3, <3>5 DEF LiveInv
  <2>. QED BY <1>2, <2>1, <2>2 DEF SourceLease
<1>3. ASSUME NEW h \in Shards, ClaimDue(h) PROVE LiveInv'
  <2>0. /\ UNCHANGED <<domain, late, refused, served, facts>>
        /\ UNCHANGED <<suppressed, hidden, owner, catalog>>
        /\ worker[h].step = "leased" /\ worker[h].source \in Sources
        /\ \E step \in {"fetching", "releasing"} : worker' = [worker EXCEPT ![h].step = step]
    BY <1>3, <1>a DEF ClaimDue
  <2>1. WorkTyped' /\ LeaseOK'
    <3>1. PICK step \in {"fetching", "releasing"} : worker' = [worker EXCEPT ![h].step = step]
      BY <2>0
    <3>. QED BY <1>a, <1>w, <2>0, <3>1, WorkerMoves DEF Work
  <2>2. RowsTyped' /\ EvidenceOK'
    <3>1. PICK row : row = [source[worker[h].source] EXCEPT !.leased = TRUE]
      OBVIOUS
    <3>2. row \in SourceRow
      <4>1. source[worker[h].source] \in SourceRow
        BY <1>a, <2>0
      <4>. QED BY <3>1, <4>1 DEF SourceRow
    <3>3. source' = source \/ source' = [source EXCEPT ![worker[h].source] = row]
      BY <1>3, <3>1 DEF ClaimDue
    <3>. QED BY <1>r, <1>s, <2>0, <3>2, <3>3
  <2>. QED BY <1>c, <2>0, <2>1, <2>2 DEF LiveInv
\* The facts and the row of a source that was just asked.
<1>e. ASSUME NEW s \in Sources, NEW new, NEW row \in SourceRow, UNCHANGED served,
             source' = [source EXCEPT ![s] = row], facts' = [facts EXCEPT ![s] = new],
             \A k \in DOMAIN new : new[k] \in Fact /\ Evident(new[k], k),
             new = [k \in DOMAIN new |-> new[k]]
      PROVE  RowsTyped' /\ EvidenceOK'
  <2>1. FactsOf(new)
    BY <1>e DEF FactsOf
  <2>2. /\ DOMAIN facts' = Sources /\ facts' = [t \in Sources |-> facts'[t]]
        /\ \A t \in Sources : FactsOf(facts'[t])
        /\ EvidenceOK'
    BY <1>a, <1>e, <2>1, FactsReplaced
  <2>3. source' \in [Sources -> SourceRow]
    BY <1>a, <1>e
  <2>. QED BY <1>a, <1>e, <2>2, <2>3 DEF RowsTyped, FactsOf
<1>t. ASSUME NEW s \in Sources, NEW k \in DOMAIN facts[s]
      PROVE  facts[s][k] \in Fact /\ Evident(facts[s][k], k)
  BY <1>a DEF RowsTyped, FactsOf, EvidenceOK
<1>4. ASSUME NEW h \in Shards, Fetch(h) PROVE LiveInv'
  <2>0. /\ UNCHANGED <<domain, late, refused, served>>
        /\ UNCHANGED <<suppressed, hidden, owner, catalog>>
        /\ worker[h].step = "fetching" /\ worker' = [worker EXCEPT ![h].step = "releasing"]
    BY <1>4 DEF Fetch
  <2>1. WorkTyped' /\ LeaseOK'
    BY <1>a, <1>w, <2>0, WorkerMoves DEF Work
  <2>2. PICK s \in Sources : s = worker[h].source
    BY <1>a, <2>0
  <2>3. served[s] \in Contents
    BY <1>a
  <2>4. Refreshed(s, served[s]) \in SourceRow
    BY <1>a, <2>3, RefreshedRow DEF Hashes
  <2>5. ASSUME Confirms(s), Revalidated(s) PROVE RowsTyped' /\ EvidenceOK'
    <3>1. source[s].hash = served[s]
      BY <2>5 DEF Confirms
    <3>2. PICK new : new = [k \in DOMAIN facts[s] |-> IF k \in Matching(s, served[s])
                              THEN Confirm(facts[s][k], served[s]) ELSE facts[s][k]]
      OBVIOUS
    <3>3. facts' = [facts EXCEPT ![s] = new] /\ source' = [source EXCEPT ![s] = Refreshed(s, served[s])]
      BY <2>5, <3>1, <3>2 DEF Revalidated
    <3>4. ASSUME NEW k \in DOMAIN new PROVE new[k] \in Fact /\ Evident(new[k], k)
      <4>1. k \in DOMAIN facts[s] /\ facts[s][k] \in Fact /\ Evident(facts[s][k], k)
        BY <1>t, <3>2
      <4>2. CASE k \in Matching(s, served[s])
        <5>1. facts[s][k].hash = served[s] /\ new[k] = Confirm(facts[s][k], served[s])
          BY <3>2, <4>1, <4>2 DEF Matching
        <5>. QED BY <2>3, <4>1, <5>1, ConfirmEvident
      <4>3. CASE k \notin Matching(s, served[s])
        <5>1. new[k] = facts[s][k]
          BY <3>2, <4>1, <4>3
        <5>. QED BY <4>1, <5>1
      <4>. QED BY <4>2, <4>3
    <3>5. new = [k \in DOMAIN new |-> new[k]]
      BY <3>2
    <3>. QED BY <1>e, <2>0, <2>4, <3>3, <3>4, <3>5
  <2>6. ASSUME Observe(s) PROVE RowsTyped' /\ EvidenceOK'
    <3>1. PICK new, listed :
            /\ listed = DOMAIN served[s] \cup Gone(s, served[s])
            /\ new = [k \in DOMAIN facts[s] \cup listed |->
                        IF k \in listed THEN Observed(s, served[s], k) ELSE facts[s][k]]
      OBVIOUS
    <3>2. facts' = [facts EXCEPT ![s] = new] /\ source' = [source EXCEPT ![s] = Refreshed(s, served[s])]
      BY <2>6, <3>1 DEF Observe
    <3>3. ASSUME NEW k \in DOMAIN new PROVE new[k] \in Fact /\ Evident(new[k], k)
      <4>1. CASE k \in listed
        <5>1. new[k] = Observed(s, served[s], k)
          BY <3>1, <4>1
        <5>. QED BY <2>3, <5>1, ObservedEvident
      <4>2. CASE k \notin listed
        <5>1. new[k] = facts[s][k] /\ k \in DOMAIN facts[s]
          BY <3>1, <4>2
        <5>. QED BY <1>t, <5>1
      <4>. QED BY <4>1, <4>2
    <3>4. new = [k \in DOMAIN new |-> new[k]]
      BY <3>1
    <3>. QED BY <1>e, <2>0, <2>4, <3>2, <3>3, <3>4
  <2>7. (Confirms(s) /\ Revalidated(s)) \/ Observe(s)
    BY <1>4, <2>2 DEF Fetch
  <2>8. RowsTyped' /\ EvidenceOK'
    BY <2>5, <2>6, <2>7
  <2>. QED BY <1>c, <2>0, <2>1, <2>8 DEF LiveInv
<1>5. ASSUME NEW h \in Shards, FetchFails(h) PROVE LiveInv'
  <2>0. /\ UNCHANGED <<domain, late, refused, served>>
        /\ UNCHANGED <<suppressed, hidden, owner, catalog>>
        /\ worker[h].step = "fetching"
        /\ \E step \in {"cooling", "releasing"} : worker' = [worker EXCEPT ![h].step = step]
    BY <1>5 DEF FetchFails
  <2>1. WorkTyped' /\ LeaseOK'
    <3>1. PICK step \in {"cooling", "releasing"} : worker' = [worker EXCEPT ![h].step = step]
      BY <2>0
    <3>. QED BY <1>a, <1>w, <2>0, <3>1, WorkerMoves DEF Work
  <2>2. PICK s \in Sources : s = worker[h].source
    BY <1>a, <2>0
  <2>3. PICK new, row : /\ new = [k \in DOMAIN facts[s] |-> Stale(facts[s][k])]
                        /\ row = [source[s] EXCEPT !.leased = FALSE, !.due = FALSE]
    OBVIOUS
  <2>4. facts' = [facts EXCEPT ![s] = new] /\ source' = [source EXCEPT ![s] = row]
    BY <1>5, <2>2, <2>3 DEF FetchFails
  <2>5. row \in SourceRow
    <3>1. source[s] \in SourceRow
      BY <1>a
    <3>. QED BY <2>3, <3>1 DEF SourceRow
  <2>6. ASSUME NEW k \in DOMAIN new PROVE new[k] \in Fact /\ Evident(new[k], k)
    <3>1. k \in DOMAIN facts[s] /\ new[k] = Stale(facts[s][k])
      BY <2>3
    <3>. QED BY <1>t, <3>1, StaleKeeps
  <2>7. RowsTyped' /\ EvidenceOK'
    BY <1>e, <2>0, <2>3, <2>4, <2>5, <2>6
  <2>. QED BY <1>c, <2>0, <2>1, <2>7 DEF LiveInv
<1>6. ASSUME NEW h \in Shards, SourceCooldown(h) PROVE LiveInv'
  <2>0. /\ UNCHANGED <<late, served, source, facts>>
        /\ UNCHANGED <<suppressed, hidden, owner, catalog>>
        /\ worker[h].step = "cooling" /\ worker' = [worker EXCEPT ![h].step = "releasing"]
        /\ domain' = [token |-> "cooldown", until |-> Cooldown] /\ refused' = TRUE
    BY <1>6 DEF SourceCooldown, shardVars
  <2>1. WorkTyped'
    <3>1. /\ worker' \in [Shards -> [step : Work, source : Sources \cup {NoSource}]]
          /\ \A g \in Shards : worker'[g].step # "idle" => worker'[g].source \in Sources
      BY <1>a, <2>0, WorkerMoves DEF Work
    <3>. QED BY <1>a, <2>0, <3>1 DEF WorkTyped, Cooldown
  <2>2. LeaseOK'
    BY <2>0 DEF LeaseOK, Holds, Cooldown
  <2>. QED BY <1>r, <1>c, <2>0, <2>1, <2>2 DEF LiveInv
<1>7. ASSUME NEW h \in Shards, SourceRelease(h) PROVE LiveInv'
  <2>0. /\ UNCHANGED <<refused, served, source, facts>>
        /\ UNCHANGED <<suppressed, hidden, owner, catalog>>
        /\ worker[h].step = "releasing" /\ late' = late \ {h}
        /\ domain' = IF domain.token = h THEN [token |-> "none", until |-> Gap] ELSE domain
    BY <1>7 DEF SourceRelease, ReleaseDomain, shardVars
  <2>1. /\ worker' \in [Shards -> [step : Work, source : Sources \cup {NoSource}]]
        /\ worker'[h].step = "idle"
        /\ \A g \in Shards : g # h => worker'[g] = worker[g]
        /\ \A g \in Shards : worker'[g].step # "idle" => worker'[g].source \in Sources
    BY <1>a, <1>7, WorkerEnds DEF SourceRelease
  <2>2. WorkTyped'
    BY <1>a, <2>0, <2>1 DEF WorkTyped, Gap
  <2>3. ASSUME NEW g \in Shards, worker'[g].step \in {"leased", "fetching"}, g \notin late'
        PROVE  g # h /\ Holds(g)
    BY <1>a, <2>0, <2>1, <2>3 DEF LeaseOK, Working
  \* Its own token is no cooldown's, and whoever works in time holds another.
  <2>4. ASSUME domain.token = h PROVE LeaseOK'
    <3>1. domain.until # Cooldown /\ ~refused
      BY <1>a, <2>4, RefreshAssumption DEF LeaseOK
    <3>2. ~(\E g \in Shards : worker'[g].step \in {"leased", "fetching"} /\ g \notin late')
      BY <2>3, <2>4, <3>1 DEF Holds
    <3>3. domain'.until = Gap
      BY <2>0, <2>4
    <3>. QED BY <2>0, <3>1, <3>2, <3>3 DEF LeaseOK, Working, Gap, Cooldown
  <2>5. ASSUME domain.token # h PROVE LeaseOK'
    <3>1. domain' = domain
      BY <2>0, <2>5
    <3>. QED BY <1>a, <2>0, <2>3, <3>1 DEF LeaseOK, Working, Holds
  <2>6. LeaseOK'
    BY <2>4, <2>5
  <2>. QED BY <1>r, <1>c, <2>0, <2>2, <2>6 DEF LiveInv
<1>8. ASSUME NEW h \in Shards, Evicted(h) PROVE LiveInv'
  <2>0. /\ UNCHANGED <<domain, refused, served, source, facts>>
        /\ UNCHANGED <<suppressed, hidden, owner, catalog>> /\ late' = late \ {h}
    BY <1>8 DEF Evicted, shardVars
  <2>1. /\ worker' \in [Shards -> [step : Work, source : Sources \cup {NoSource}]]
        /\ worker'[h].step = "idle"
        /\ \A g \in Shards : g # h => worker'[g] = worker[g]
        /\ \A g \in Shards : worker'[g].step # "idle" => worker'[g].source \in Sources
    BY <1>a, <1>8, WorkerEnds DEF Evicted
  <2>2. WorkTyped'
    BY <1>a, <2>0, <2>1 DEF WorkTyped
  <2>3. ASSUME NEW g \in Shards, worker'[g].step \in {"leased", "fetching"}, g \notin late'
        PROVE  Holds(g)
    BY <1>a, <2>0, <2>1, <2>3 DEF LeaseOK, Working
  <2>4. LeaseOK'
    BY <1>a, <2>0, <2>3 DEF LeaseOK, Working, Holds
  <2>. QED BY <1>r, <1>c, <2>0, <2>2, <2>4 DEF LiveInv
\* The steps of the owner and of time: one source's row, or the lease.
<1>9. ASSUME NEW s \in Sources, ComesDue(s) \/ Refresh(s) PROVE LiveInv'
  <2>0. /\ UNCHANGED <<served, facts, worker, domain, late, refused>>
        /\ UNCHANGED <<suppressed, hidden, owner, catalog>>
        /\ source' = [source EXCEPT ![s].due = TRUE]
    BY <1>9 DEF ComesDue, Refresh
  <2>1. PICK row : row = [source[s] EXCEPT !.due = TRUE]
    OBVIOUS
  <2>2. row \in SourceRow
    <3>1. source[s] \in SourceRow
      BY <1>a
    <3>. QED BY <2>1, <3>1 DEF SourceRow
  <2>3. source' = [source EXCEPT ![s] = row]
    BY <2>0, <2>1
  <2>. QED BY <1>k, <1>c, <1>s, <2>0, <2>2, <2>3 DEF LiveInv
<1>10. ASSUME NEW s \in Sources, SourceLeaseEnds(s) PROVE LiveInv'
  <2>0. /\ UNCHANGED <<served, facts, worker, domain, late, refused>>
        /\ UNCHANGED <<suppressed, hidden, owner, catalog>>
        /\ source' = [source EXCEPT ![s].leased = FALSE]
    BY <1>10 DEF SourceLeaseEnds
  <2>1. PICK row : row = [source[s] EXCEPT !.leased = FALSE]
    OBVIOUS
  <2>2. row \in SourceRow
    <3>1. source[s] \in SourceRow
      BY <1>a
    <3>. QED BY <2>1, <3>1 DEF SourceRow
  <2>3. source' = [source EXCEPT ![s] = row]
    BY <2>0, <2>1
  <2>. QED BY <1>k, <1>c, <1>s, <2>0, <2>2, <2>3 DEF LiveInv
<1>11. ASSUME NEW s \in Sources, SourceEnabled(s) PROVE LiveInv'
  <2>0. /\ UNCHANGED <<served, facts, worker, domain, late, refused>>
        /\ UNCHANGED <<suppressed, hidden, owner, catalog>>
        /\ source' = [source EXCEPT ![s].enabled = ~source[s].enabled]
    BY <1>11 DEF SourceEnabled
  <2>1. PICK row : row = [source[s] EXCEPT !.enabled = ~source[s].enabled]
    OBVIOUS
  <2>2. row \in SourceRow
    <3>1. source[s] \in SourceRow
      BY <1>a
    <3>2. ASSUME NEW r \in SourceRow PROVE [r EXCEPT !.enabled = ~r.enabled] \in SourceRow
      <4>1. CASE r.enabled
        BY <4>1 DEF SourceRow
      <4>2. CASE ~r.enabled
        BY <4>2 DEF SourceRow
      <4>. QED BY <4>1, <4>2
    <3>. QED BY <2>1, <3>1, <3>2
  <2>3. source' = [source EXCEPT ![s] = row]
    BY <2>0, <2>1
  <2>. QED BY <1>k, <1>c, <1>s, <2>0, <2>2, <2>3 DEF LiveInv
<1>12. ASSUME NEW s \in Sources, Edit(s) PROVE LiveInv'
  <2>0. /\ UNCHANGED <<source, facts, worker, domain, late, refused>>
        /\ UNCHANGED <<suppressed, hidden, owner, catalog>>
        /\ \E c \in Contents : served' = [served EXCEPT ![s] = c]
    BY <1>12 DEF Edit, shardVars
  <2>1. RowsTyped'
    BY <1>a, <2>0 DEF RowsTyped, FactsOf
  <2>. QED BY <1>f, <1>k, <1>c, <2>0, <2>1 DEF LiveInv
<1>13. ASSUME DomainEnds PROVE LiveInv'
  <2>0. /\ UNCHANGED <<served, source, facts, worker>>
        /\ UNCHANGED <<suppressed, hidden, owner, catalog>>
        /\ domain.until # Past /\ domain' = [domain EXCEPT !.until = Past]
        /\ refused' = (refused /\ domain.until # Cooldown)
        /\ late' = IF domain.until = Gap THEN late ELSE late \cup {h \in Shards : Working(h)}
    BY <1>13 DEF DomainEnds, shardVars
  <2>1. domain' \in [token : Shards \cup {"none", "cooldown"}, until : 0..3] /\ domain'.until = Past
    BY <1>a, <2>0 DEF Past
  <2>2. ~refused'
    BY <1>a, <2>0 DEF LeaseOK
  <2>3. WorkTyped'
    <3>1. late' \subseteq Shards
      BY <1>a, <2>0 DEF WorkTyped
    <3>. QED BY <1>a, <2>0, <2>1, <2>2, <3>1 DEF WorkTyped
  \* The end of a gap, or of a lease that was released, makes nobody late.
  <2>4. ASSUME NEW h \in Shards, Working(h) PROVE h \in late'
    BY <1>a, <2>0, <2>4 DEF LeaseOK, Holds, Gap, Leased, Cooldown
  <2>5. LeaseOK'
    BY <2>0, <2>1, <2>2, <2>4 DEF LeaseOK, Working, Past, Cooldown
  <2>. QED BY <1>r, <1>c, <2>0, <2>3, <2>5 DEF LiveInv
<1>14. ASSUME NEW h \in Shards, BackoffEnds(h) PROVE LiveInv'
  BY <1>14, <1>r, <1>k, <1>c DEF BackoffEnds, LiveInv
\* The catalogue.
<1>15. ASSUME NEW s \in Sources, Suppress(s) PROVE LiveInv'
  <2>0. /\ UNCHANGED <<served, source, facts, worker>> /\ UNCHANGED <<domain, refused, late, catalog>>
        /\ suppressed' \in {suppressed, suppressed \cup {s}, suppressed \ {s}}
        /\ hidden' = hidden \cap suppressed' /\ owner' = s
    BY <1>15 DEF Suppress, shardVars
  <2>1. CatalogTyped'
    BY <1>a, <2>0 DEF CatalogTyped
  <2>2. hidden' \subseteq hidden /\ hidden' \subseteq suppressed'
    BY <1>a, <2>0 DEF HiddenOK
  <2>3. HiddenOK'
    BY <1>a, <2>0, <2>2 DEF HiddenOK, SuppressedHidden
  <2>. QED BY <1>r, <1>k, <2>0, <2>1, <2>3 DEF LiveInv
\* What a step of the catalogue leaves alone.
<1>q. UNCHANGED controlVars => RowsTyped' /\ EvidenceOK' /\ WorkTyped' /\ LeaseOK' /\ UNCHANGED suppressed
  BY <1>r, <1>k DEF controlVars, shardVars
\* A catalogue with nothing but old snapshots and no flight.
<1>n. ASSUME UNCHANGED <<suppressed, hidden>>, owner' \in Sources \cup {NoSource},
             NEW value \in {catalog.value, catalog.stored, NoSnapshot},
             NEW stored \in {catalog.value, catalog.stored, NoSnapshot},
             NEW flight \in {catalog.flight, NoFlight},
             catalog' = [value |-> value, stored |-> stored, flight |-> flight]
      PROVE  CatalogTyped' /\ HiddenOK'
  <2>1. /\ catalog.value \in Snapshots /\ catalog.stored \in Snapshots /\ catalog.flight \in Flights
        /\ NoSnapshot \in Snapshots /\ NoFlight \in Flights
    BY <1>a DEF Snapshots, Flights
  <2>2. CatalogTyped'
    BY <1>a, <1>n, <2>1 DEF CatalogTyped
  <2>3. catalog'.value = value /\ catalog'.stored = stored /\ catalog'.flight = flight
    BY <1>n
  <2>4. SuppressedHidden'
    BY <1>a, <1>n, <2>3 DEF HiddenOK, SuppressedHidden
  <2>5. hidden' \subseteq suppressed'
    BY <1>a, <1>n DEF HiddenOK
  <2>6. ASSUME catalog'.flight # NoFlight, NEW h \in DOMAIN catalog'.flight
        PROVE  catalog'.flight[h] \cap hidden' = {}
    BY <1>a, <1>n, <2>3, <2>6 DEF HiddenOK
  <2>. QED BY <2>2, <2>4, <2>5, <2>6 DEF HiddenOK
<1>16. ASSUME LoadStored PROVE LiveInv'
  <2>0. /\ UNCHANGED controlVars /\ UNCHANGED <<suppressed, hidden, owner>>
        /\ catalog' = [value |-> catalog.stored, stored |-> catalog.stored, flight |-> catalog.flight]
    BY <1>16, <1>a DEF LoadStored, controlVars
  <2>1. owner' \in Sources \cup {NoSource}
    BY <1>a, <2>0 DEF CatalogTyped
  <2>. QED BY <1>q, <1>n, <2>0, <2>1 DEF LiveInv
<1>17. ASSUME SnapshotExpires PROVE LiveInv'
  <2>0. /\ UNCHANGED controlVars /\ UNCHANGED <<suppressed, hidden, owner>>
        /\ catalog' = [value |-> NoSnapshot, stored |-> NoSnapshot, flight |-> catalog.flight]
    BY <1>17, <1>a DEF SnapshotExpires, controlVars
  <2>1. owner' \in Sources \cup {NoSource}
    BY <1>a, <2>0 DEF CatalogTyped
  <2>. QED BY <1>q, <1>n, <2>0, <2>1 DEF LiveInv
<1>18. ASSUME ControlEvicted PROVE LiveInv'
  <2>0. /\ UNCHANGED controlVars /\ UNCHANGED <<suppressed, hidden>> /\ owner' = NoSource
        /\ catalog' = [value |-> NoSnapshot, stored |-> catalog.stored, flight |-> NoFlight]
    BY <1>18, <1>a DEF ControlEvicted, controlVars
  <2>. QED BY <1>q, <1>n, <2>0 DEF LiveInv
<1>19. ASSUME StartFlight PROVE LiveInv'
  <2>0. /\ UNCHANGED controlVars /\ UNCHANGED <<suppressed, hidden, owner>>
        /\ catalog' = [value |-> catalog.value, stored |-> catalog.stored, flight |-> [h \in {} |-> {}]]
    BY <1>19, <1>a DEF StartFlight, controlVars
  <2>1. [h \in {} |-> {}] \in [{} -> SUBSET Sources] /\ {} \in SUBSET Shards
    OBVIOUS
  <2>2. [h \in {} |-> {}] \in Flights
    BY <2>1 DEF Flights
  <2>3. CatalogTyped'
    BY <1>a, <2>0, <2>2 DEF CatalogTyped
  <2>4. HiddenOK'
    BY <1>a, <2>0 DEF HiddenOK, SuppressedHidden
  <2>. QED BY <1>q, <2>0, <2>3, <2>4 DEF LiveInv
<1>20. ASSUME NEW h \in Shards, ReadSummary(h) PROVE LiveInv'
  <2>0. PICK flight :
          /\ flight = [g \in DOMAIN catalog.flight \cup {h} |->
                         IF g = h THEN Visible(h) ELSE catalog.flight[g]]
          /\ catalog' = [value |-> catalog.value, stored |-> catalog.stored, flight |-> flight]
          /\ UNCHANGED controlVars /\ UNCHANGED <<suppressed, hidden, owner>>
          /\ catalog.flight # NoFlight
    BY <1>20, <1>a DEF ReadSummary, controlVars
  <2>1. PICK read \in SUBSET Shards : catalog.flight \in [read -> SUBSET Sources]
    BY <1>a, <2>0 DEF Flights
  \* What is read now shows nothing that is suppressed now.
  <2>2. Visible(h) \subseteq Sources /\ Visible(h) \cap hidden = {}
    BY <1>a DEF Visible, HiddenOK
  <2>3. read \cup {h} \in SUBSET Shards /\ flight \in [read \cup {h} -> SUBSET Sources]
    BY <2>0, <2>1, <2>2
  <2>4. flight \in Flights
    BY <2>3 DEF Flights
  <2>5. CatalogTyped'
    BY <1>a, <2>0, <2>4 DEF CatalogTyped
  <2>6. ASSUME NEW g \in DOMAIN flight PROVE flight[g] \cap hidden = {}
    BY <1>a, <2>0, <2>2 DEF HiddenOK
  <2>7. HiddenOK'
    BY <1>a, <2>0, <2>6 DEF HiddenOK, SuppressedHidden
  <2>. QED BY <1>q, <2>0, <2>5, <2>7 DEF LiveInv
<1>21. ASSUME LandFlight PROVE LiveInv'
  <2>0. PICK value : value = UNION Range(catalog.flight)
    OBVIOUS
  <2>1. /\ UNCHANGED controlVars /\ UNCHANGED <<suppressed, hidden, owner>> /\ catalog.flight # NoFlight
        /\ \E stored \in {value, catalog.stored} :
             catalog' = [value |-> value, stored |-> stored, flight |-> NoFlight]
    BY <1>21, <2>0 DEF LandFlight, controlVars
  <2>2. PICK stored \in {value, catalog.stored} :
          catalog' = [value |-> value, stored |-> stored, flight |-> NoFlight]
    BY <2>1
  <2>3. PICK read \in SUBSET Shards : catalog.flight \in [read -> SUBSET Sources]
    BY <1>a, <2>1 DEF Flights
  <2>4. value \in SUBSET Sources /\ value \cap hidden = {}
    BY <1>a, <2>0, <2>1, <2>3 DEF Range, HiddenOK
  <2>5. value \in Snapshots /\ stored \in Snapshots /\ NoFlight \in Flights
    BY <1>a, <2>2, <2>4 DEF Snapshots, Flights
  <2>6. CatalogTyped'
    BY <1>a, <2>1, <2>2, <2>5 DEF CatalogTyped
  <2>7. catalog'.value = value /\ catalog'.stored = stored /\ catalog'.flight = NoFlight
    BY <2>2
  <2>8. HiddenOK'
    BY <1>a, <2>1, <2>2, <2>4, <2>7 DEF HiddenOK, SuppressedHidden
  <2>. QED BY <1>q, <2>1, <2>6, <2>8 DEF LiveInv
\* It waits for the flight: nothing that read the old state is left.
<1>22. ASSUME CatalogInvalidate PROVE LiveInv'
  <2>0. /\ UNCHANGED controlVars /\ UNCHANGED suppressed /\ catalog.flight = NoFlight
        /\ catalog' = [value |-> NoSnapshot, stored |-> NoSnapshot, flight |-> NoFlight]
        /\ hidden' = hidden \cup ({owner} \cap suppressed) /\ owner' = NoSource
    BY <1>22, <1>a DEF CatalogInvalidate, Landed, controlVars
  <2>1. CatalogTyped'
    <3>1. NoSnapshot \in Snapshots /\ NoFlight \in Flights
      BY DEF Snapshots, Flights
    <3>. QED BY <1>a, <2>0, <3>1 DEF CatalogTyped
  <2>2. HiddenOK'
    BY <1>a, <2>0 DEF HiddenOK, SuppressedHidden
  <2>. QED BY <1>q, <2>0, <2>1, <2>2 DEF LiveInv
<1>23. ASSUME UNCHANGED liveVars PROVE LiveInv'
  BY <1>23, <1>r, <1>k, <1>c DEF liveVars, shardVars, LiveInv
<1>. QED
  BY <1>1, <1>2, <1>3, <1>4, <1>5, <1>6, <1>7, <1>8, <1>9, <1>10, <1>11, <1>12, <1>13, <1>14, <1>15,
     <1>16, <1>17, <1>18, <1>19, <1>20, <1>21, <1>22, <1>23 DEF LiveNext

LEMMA LiveInvInit == LiveInit => LiveInv
<1> SUFFICES ASSUME LiveInit PROVE LiveInv
  OBVIOUS
<1>1. Start
  BY DEF LiveInit
<1>2. RowsTyped
  <2>1. PICK row : row = [NoRow EXCEPT !.enabled = TRUE, !.due = TRUE]
    OBVIOUS
  <2>2. row \in SourceRow
    BY <2>1 DEF NoRow, SourceRow, Hashes
  <2>3. source = [s \in Sources |-> row] /\ facts = [s \in Sources |-> NoFacts]
    BY <1>1, <2>1 DEF Start
  <2>4. FactsOf(NoFacts)
    BY DEF FactsOf, NoFacts
  <2>. QED BY <1>1, <2>2, <2>3, <2>4 DEF Start, RowsTyped
<1>3. WorkTyped
  <2>1. Idle \in [step : Work, source : Sources \cup {NoSource}] /\ Idle.step = "idle"
    BY DEF Idle, Work
  <2>2. worker \in [Shards -> [step : Work, source : Sources \cup {NoSource}]]
    BY <1>1, <2>1 DEF Start
  <2>3. \A h \in Shards : worker[h].step = "idle"
    BY <1>1, <2>1 DEF Start
  <2>4. domain \in [token : Shards \cup {"none", "cooldown"}, until : 0..3]
    BY <1>1 DEF Start, Past
  <2>. QED BY <1>1, <2>2, <2>3, <2>4 DEF Start, WorkTyped
<1>4. CatalogTyped
  <2>1. NoSnapshot \in Snapshots /\ NoFlight \in Flights
    BY DEF Snapshots, Flights
  <2>. QED BY <1>1, <2>1 DEF Start, CatalogTyped
<1>5. EvidenceOK
  BY <1>1 DEF Start, EvidenceOK, NoFacts
<1>6. LeaseOK
  BY <1>1 DEF Start, LeaseOK, Working, Idle, Past, Cooldown
<1>7. HiddenOK
  BY <1>1 DEF Start, HiddenOK, SuppressedHidden
<1>. QED BY <1>2, <1>3, <1>4, <1>5, <1>6, <1>7 DEF LiveInv

LEMMA LiveInvariant == LiveSpec => []LiveInv
  BY LiveInvInit, LiveStep, PTL DEF LiveSpec

\* A fact published as verified was served with its value, and one published
\* as removed was missing, when the source was last asked, for every set of
\* bodies a source can serve (live/store.ts revalidated, observe, failed).
THEOREM PublishedTrue == LiveSpec => []VerifiedTruthful
<1>1. LiveInv => VerifiedTruthful
  BY DEF LiveInv, EvidenceOK, Evident, VerifiedTruthful
<1>. QED BY <1>1, LiveInvariant, PTL

\* No snapshot of the catalogue, in memory or stored, shows an entity whose
\* suppression was answered (live/objects.ts catalog-invalidate).
THEOREM SuppressionHeld == LiveSpec => []SuppressedHidden
<1>1. LiveInv => SuppressedHidden
  BY DEF LiveInv, HiddenOK
<1>. QED BY <1>1, LiveInvariant, PTL

\* A domain is leased only outside a cooldown and when every other refresh at
\* work has outlived its lease (live/objects.ts source-lease, source-release).
THEOREM DomainHeldByOne == LiveSpec => DomainShared
<1>1. ASSUME LiveInv, [LiveNext]_liveVars, NEW h \in Shards, worker[h].step = "asking",
             worker'[h].step = "leased"
      PROVE  ~refused /\ \A g \in Shards \ {h} : Working(g) => g \in late
  <2>1. worker \in [Shards -> [step : Work, source : Sources \cup {NoSource}]]
    BY <1>1 DEF LiveInv, WorkTyped
  \* No other step turns an asking worker into one with a lease.
  <2>2. ASSUME NEW g \in Shards, NEW w, w.step # "leased", worker' = [worker EXCEPT ![g] = w]
        PROVE  FALSE
    BY <1>1, <2>1, <2>2
  <2>3. ASSUME NEW g \in Shards, NEW step, step # "leased", worker' = [worker EXCEPT ![g].step = step]
        PROVE  FALSE
    BY <1>1, <2>1, <2>3
  <2>4. ASSUME UNCHANGED worker PROVE FALSE
    BY <1>1, <2>4
  <2>5. ASSUME NEW g \in Shards, Alarm(g) PROVE FALSE
    <3>1. PICK s : worker' = [worker EXCEPT ![g] = [step |-> "asking", source |-> s]]
      BY <2>5 DEF Alarm
    <3>. QED BY <2>2, <3>1
  <2>6. ASSUME NEW g \in Shards, SourceLease(g) PROVE domain.until = Past
    BY <2>2, <2>6 DEF SourceLease, LeaseGranted, LeaseDenied, Idle
  <2>7. ASSUME NEW g \in Shards, worker' = [worker EXCEPT ![g] = Idle] PROVE FALSE
    BY <2>2, <2>7 DEF Idle
  <2>8. ASSUME NEW g \in Shards,
               ClaimDue(g) \/ Fetch(g) \/ FetchFails(g) \/ SourceCooldown(g)
        PROVE  FALSE
    <3>1. \E step \in {"fetching", "releasing", "cooling"} : worker' = [worker EXCEPT ![g].step = step]
      BY <2>8 DEF ClaimDue, Fetch, FetchFails, SourceCooldown
    <3>. QED BY <2>3, <3>1
  <2>9. domain.until = Past
    BY <1>1, <2>4, <2>5, <2>6, <2>7, <2>8
       DEF LiveNext, SourceRelease, Evicted, BackoffEnds, ReadSummary, ComesDue, SourceLeaseEnds,
           Edit, Refresh, SourceEnabled, Suppress, DomainEnds, LoadStored, StartFlight, LandFlight,
           CatalogInvalidate, SnapshotExpires, ControlEvicted, controlVars, liveVars
  <2>. QED BY <1>1, <2>9 DEF LiveInv, LeaseOK, Holds, Past, Leased, Cooldown
<1>2. LiveInv /\ [LiveNext]_liveVars =>
        [\A h \in Shards :
           worker[h].step = "asking" /\ worker'[h].step = "leased" =>
             /\ ~refused
             /\ \A g \in Shards \ {h} : Working(g) => g \in late]_liveVars
  BY <1>1
<1>. QED BY <1>2, LiveInvariant, PTL DEF LiveSpec, DomainShared
=============================================================================
