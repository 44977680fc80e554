-------------------------- MODULE SellerPayoutProofs --------------------------
(***************************************************************************)
(* That a sale moves money out of the treasury at most once and that the   *)
(* move is never forgotten, for any number of sales, prices and retries.   *)
(*                                                                         *)
(* Only a pending payout is prepared, and preparing it ends that status    *)
(* for good before anything is sent.  So the handler reaches "submit" once *)
(* per payout, whatever dies afterwards, and until then nothing was sent.  *)
(***************************************************************************)
EXTENDS SellerPayout, SumLemmas

Transfers == afloat \cup landed
Unsent(s) == \A a \in Transfers : a[1] # s

Payouts == [status : Settled \cup Awaiting \cup Stopped \cup {"none", "pending"},
            attempts : Nat, nonce : Nat]
Typed ==
    /\ payout \in [Sales -> Payouts]
    /\ step \in [Sales -> Steps]
    /\ afloat \subseteq Sales \X Nat /\ landed \subseteq Sales \X Nat

\* What the payout is at each step of its handler.
StepFits(s) ==
    /\ step[s] = "prepare" => payout[s].status = "pending"
    /\ step[s] = "submit" => payout[s].status = "submission_reserved" /\ s \notin Own /\ Unsent(s)
    /\ step[s] = "reply" => payout[s].status = "submission_reserved" /\ s \notin Own
    /\ step[s] = "check" => payout[s].status \in Awaiting
StepsFit == \A s \in Sales : StepFits(s)

\* A transfer that landed is no longer decided by the facilitator.
Decided == afloat \cap landed = {}

PayoutInv == Typed /\ StepsFit /\ Decided /\ PaidOnce

USE OwnAssumption, AttemptsAssumption

-----------------------------------------------------------------------------
LEMMA InitEstablishes == Init => PayoutInv
  BY DEF Init, PayoutInv, Typed, Payouts, NoPayout, Steps, StepsFit, StepFits, Decided, PaidOnce

\* Money was sent only for a payout that awaits evidence or has found it.
LEMMA UnsentByStatus ==
    ASSUME PayoutInv, NEW s \in Sales, payout[s].status \notin Awaiting \cup {"confirmed"}
    PROVE  Unsent(s)
  BY DEF PayoutInv, PaidOnce, Unsent, Transfers

\* One payout moves while no money does.
LEMMA MoveKeeps ==
    ASSUME PayoutInv, NEW s \in Sales, NEW p \in Payouts, NEW at \in Steps,
           payout' = [payout EXCEPT ![s] = p], step' = [step EXCEPT ![s] = at],
           UNCHANGED chain,
           p.nonce # payout[s].nonce \/ p.status \notin Awaiting \cup {"confirmed"} => Unsent(s),
           at = "prepare" => p.status = "pending",
           at = "submit" => p.status = "submission_reserved" /\ s \notin Own /\ Unsent(s),
           at # "reply", at = "check" => p.status \in Awaiting
    PROVE  PayoutInv'
<1>1. /\ payout'[s] = p /\ step'[s] = at
      /\ \A x \in Sales : x # s => payout'[x] = payout[x] /\ step'[x] = step[x]
  BY DEF PayoutInv, Typed
<1>2. Typed'
  BY DEF PayoutInv, Typed, chain
<1>3. Transfers' = Transfers /\ \A x \in Sales : Unsent(x)' = Unsent(x)
  BY DEF Transfers, Unsent, chain
<1>4. StepsFit'
  <2> SUFFICES ASSUME NEW x \in Sales PROVE StepFits(x)'
    BY DEF StepsFit
  <2>1. CASE x = s
    BY <1>1, <1>3, <2>1 DEF StepFits
  <2>2. CASE x # s
    BY <1>1, <1>3, <2>2 DEF PayoutInv, StepsFit, StepFits
  <2> QED BY <2>1, <2>2
<1>5. Decided'
  BY DEF PayoutInv, Decided, chain
<1>6. PaidOnce'
  <2>1. ASSUME NEW a \in Transfers
        PROVE  /\ a[1] \notin Own
               /\ payout'[a[1]].status \in Awaiting \cup {"confirmed"}
               /\ payout'[a[1]].nonce = a[2]
    <3>1. a[1] \in Sales
      BY DEF Transfers, PayoutInv, Typed
    <3>2. CASE a[1] = s
      BY <1>1, <3>2 DEF Unsent, PayoutInv, PaidOnce, Transfers
    <3>3. CASE a[1] # s
      BY <1>1, <3>1, <3>3 DEF PayoutInv, PaidOnce, Transfers
    <3> QED BY <3>2, <3>3
  <2> QED BY <1>3, <2>1 DEF PayoutInv, PaidOnce, Transfers
<1> QED BY <1>2, <1>4, <1>5, <1>6 DEF PayoutInv

\* The same, when the payout keeps its nonce and a status that fits.
LEMMA HandlerKeeps ==
    ASSUME PayoutInv, NEW s \in Sales, NEW at \in Steps, NEW p \in Payouts,
           payout' = [payout EXCEPT ![s] = p], step' = [step EXCEPT ![s] = at],
           UNCHANGED chain, p.nonce = payout[s].nonce,
           \/ p.status = payout[s].status
           \/ p.status \in Awaiting \cup {"confirmed"}
           \/ payout[s].status \notin Awaiting \cup {"confirmed"}
           \/ Unsent(s),
           at = "prepare" => p.status = "pending",
           at # "submit", at # "reply", at = "check" => p.status \in Awaiting
    PROVE  PayoutInv'
<1>1. p.status \notin Awaiting \cup {"confirmed"} => Unsent(s)
  BY UnsentByStatus
<1> QED BY <1>1, MoveKeeps

\* What SetStatus makes of a payout, and what an unchanged one is.
LEMMA Sets ==
    ASSUME Typed, NEW s \in Sales, NEW status, SetStatus(s, status),
           status \in Settled \cup Awaiting \cup Stopped
    PROVE  \E p \in Payouts :
             /\ payout' = [payout EXCEPT ![s] = p]
             /\ p.status = status /\ p.nonce = payout[s].nonce
<1> DEFINE p == [payout[s] EXCEPT !.status = status]
<1>1. p \in Payouts /\ p.status = status /\ p.nonce = payout[s].nonce
  BY DEF Typed, Payouts
<1>2. payout' = [payout EXCEPT ![s] = p]
  BY DEF SetStatus
<1> QED BY <1>1, <1>2

LEMMA SameKeeps ==
    ASSUME PayoutInv, NEW s \in Sales, NEW at \in Steps, step' = [step EXCEPT ![s] = at],
           UNCHANGED <<payout, chain>>,
           at = "prepare" => payout[s].status = "pending",
           at # "submit", at # "reply", at = "check" => payout[s].status \in Awaiting
    PROVE  PayoutInv'
<1>1. payout[s] \in Payouts /\ payout' = [payout EXCEPT ![s] = payout[s]]
  BY DEF PayoutInv, Typed
<1> QED BY <1>1, HandlerKeeps

-----------------------------------------------------------------------------
\* The index and the alarms.

LEMMA CreatePayoutKeeps == ASSUME PayoutInv, NEW s \in Sales, CreatePayout(s) PROVE PayoutInv'
<1>1. CASE UNCHANGED payout
  BY <1>1 DEF CreatePayout, chain, PayoutInv, Typed, StepsFit, StepFits, Decided, PaidOnce, Unsent,
     Transfers
<1>2. CASE NotStarted(s) /\ payout' = [payout EXCEPT ![s] =
                [payout[s] EXCEPT !.status = "pending", !.attempts = 0]]
  <2> DEFINE p == [payout[s] EXCEPT !.status = "pending", !.attempts = 0]
  <2>1. p \in Payouts /\ p.status = "pending" /\ p.nonce = payout[s].nonce
    BY DEF PayoutInv, Typed, Payouts
  <2>2. payout[s].status = "none" /\ payout' = [payout EXCEPT ![s] = p]
    BY <1>2 DEF NotStarted
  <2>3. /\ step[s] \in Steps \ {"submit", "reply", "check", "prepare"}
        /\ step' = [step EXCEPT ![s] = step[s]] /\ UNCHANGED chain
    BY <2>2 DEF CreatePayout, PayoutInv, Typed, StepsFit, StepFits, Awaiting
  <2>4. payout[s].status \notin Awaiting \cup {"confirmed"}
    BY <2>2 DEF Awaiting
  <2> HIDE DEF p
  <2> QED BY <2>1, <2>2, <2>3, <2>4, HandlerKeeps
<1> QED BY <1>1, <1>2 DEF CreatePayout

LEMMA FireAlarmKeeps == ASSUME PayoutInv, NEW s \in Sales, FireAlarm(s) PROVE PayoutInv'
<1> DEFINE at == Entry(payout[s].status)
<1>1. /\ at \in Steps \ {"submit", "reply"}
      /\ at = "prepare" => payout[s].status = "pending"
      /\ at = "check" => payout[s].status \in Awaiting
  BY DEF Entry, Prepares, Steps, Settled, Awaiting
<1>2. step' = [step EXCEPT ![s] = at] /\ UNCHANGED <<payout, chain>>
  BY DEF FireAlarm, At
<1> HIDE DEF at
<1> QED BY <1>1, <1>2, SameKeeps

\* The handler ends, tells the index, or dies.
LEMMA EndKeeps ==
    ASSUME PayoutInv, NEW s \in Sales, Tell(s) \/ TellLost(s) \/ Crash(s) PROVE PayoutInv'
<1>1. step' = [step EXCEPT ![s] = "idle"] /\ UNCHANGED <<payout, chain>>
  BY DEF Tell, TellLost, Crash, At
<1> QED BY <1>1, SameKeeps DEF Steps

-----------------------------------------------------------------------------
\* The handler.

LEMMA RetainOrBlockKeeps ==
    ASSUME PayoutInv, NEW s \in Sales, Retain(s) \/ Block(s) PROVE PayoutInv'
<1>1. step[s] = "prepare" /\ UNCHANGED chain
  BY DEF Retain, Block, At
<1>2. PICK status \in {"same_owner_retained", "configuration_blocked"}, at \in {"tell", "idle"} :
        SetStatus(s, status) /\ step' = [step EXCEPT ![s] = at]
  BY DEF Retain, Block, At
<1>3. PICK p \in Payouts :
        payout' = [payout EXCEPT ![s] = p] /\ p.status = status /\ p.nonce = payout[s].nonce
  BY <1>2, Sets DEF PayoutInv, Settled, Stopped
<1>4. payout[s].status \notin Awaiting \cup {"confirmed"}
  BY <1>1 DEF PayoutInv, StepsFit, StepFits, Awaiting
<1>5. at \in Steps \ {"prepare", "submit", "reply", "check"}
  BY DEF Steps
<1> QED BY <1>1, <1>2, <1>3, <1>4, <1>5, HandlerKeeps

LEMMA ReserveKeeps == ASSUME PayoutInv, NEW s \in Sales, Reserve(s) PROVE PayoutInv'
<1> PICK n, p : /\ n = payout[s].nonce + 1
                /\ p = [payout[s] EXCEPT !.nonce = n, !.status = "submission_reserved"]
  OBVIOUS
<1>1. s \notin Own /\ step[s] = "prepare" /\ UNCHANGED chain
  BY DEF Reserve, At
<1>2. payout[s] \in Payouts /\ DOMAIN payout = Sales
  BY DEF PayoutInv, Typed
<1>3. n \in Nat
  BY <1>2 DEF Payouts
<1>4. payout' = [payout EXCEPT ![s] = p]
  BY DEF Reserve
<1>5. p \in Payouts /\ p.status = "submission_reserved"
  BY <1>2, <1>3 DEF Payouts, Awaiting
<1>6. Unsent(s)
  BY <1>1, UnsentByStatus DEF PayoutInv, StepsFit, StepFits, Awaiting
<1>7. step' = [step EXCEPT ![s] = "submit"]
  BY DEF Reserve, At
<1> QED BY <1>1, <1>4, <1>5, <1>6, <1>7, MoveKeeps DEF Steps

LEMMA SubmitKeeps == ASSUME PayoutInv, NEW s \in Sales, Submit(s) PROVE PayoutInv'
<1> DEFINE a == <<s, payout[s].nonce>>
<1>1. /\ step[s] = "submit" /\ step' = [step EXCEPT ![s] = "reply"]
      /\ afloat' = afloat \cup {a} /\ UNCHANGED <<payout, landed>>
  BY DEF Submit, At
<1>2. payout[s].status = "submission_reserved" /\ s \notin Own /\ Unsent(s)
  BY <1>1 DEF PayoutInv, StepsFit, StepFits
<1>3. /\ step'[s] = "reply" /\ \A x \in Sales : x # s => step'[x] = step[x]
      /\ step' \in [Sales -> Steps]
  BY <1>1 DEF PayoutInv, Typed, Steps
<1>4. a \in Sales \X Nat /\ a[1] = s /\ a[2] = payout[s].nonce
  BY DEF PayoutInv, Typed, Payouts
<1>5. Transfers' = Transfers \cup {a} /\ a \notin Transfers
  BY <1>1, <1>2, <1>4 DEF Transfers, Unsent
<1>6. Typed'
  BY <1>1, <1>3, <1>4 DEF PayoutInv, Typed
<1>7. StepsFit'
  <2> SUFFICES ASSUME NEW x \in Sales PROVE StepFits(x)'
    BY DEF StepsFit
  <2>1. CASE x = s
    BY <1>1, <1>2, <1>3, <2>1 DEF StepFits
  <2>2. CASE x # s
    <3>1. Unsent(x) => Unsent(x)'
      BY <1>4, <1>5, <2>2 DEF Unsent
    <3> QED BY <1>1, <1>3, <2>2, <3>1 DEF PayoutInv, StepsFit, StepFits
  <2> QED BY <2>1, <2>2
<1>8. Decided'
  BY <1>1, <1>5 DEF PayoutInv, Decided, Transfers
<1>9. PaidOnce'
  <2>1. \A b \in Transfers : b[1] # s
    BY <1>2 DEF Unsent
  <2>2. \A b, c \in Transfers \cup {a} : b[1] = c[1] => b = c
    BY <1>4, <2>1 DEF PayoutInv, PaidOnce, Transfers
  <2>3. \A b \in Transfers \cup {a} :
          /\ b[1] \notin Own
          /\ payout[b[1]].status \in Awaiting \cup {"confirmed"}
          /\ payout[b[1]].nonce = b[2]
    BY <1>2, <1>4 DEF PayoutInv, PaidOnce, Transfers, Awaiting
  <2> QED BY <1>1, <1>5, <2>2, <2>3 DEF PaidOnce, Transfers
<1> QED BY <1>6, <1>7, <1>8, <1>9 DEF PayoutInv

LEMMA AwaitKeeps == ASSUME PayoutInv, NEW s \in Sales, Await(s) PROVE PayoutInv'
<1>1. step' = [step EXCEPT ![s] = "check"] /\ SetStatus(s, Unclear) /\ UNCHANGED chain
  BY DEF Await, At
<1>2. Unclear \in Awaiting
  BY DEF Unclear, Awaiting
<1>3. PICK p \in Payouts :
        payout' = [payout EXCEPT ![s] = p] /\ p.status = Unclear /\ p.nonce = payout[s].nonce
  BY <1>1, <1>2, Sets DEF PayoutInv
<1> QED BY <1>1, <1>2, <1>3, HandlerKeeps DEF Steps

LEMMA FindKeeps == ASSUME PayoutInv, NEW s \in Sales, Find(s) PROVE PayoutInv'
<1>1. step' = [step EXCEPT ![s] = "tell"] /\ SetStatus(s, "confirmed") /\ UNCHANGED chain
  BY DEF Find, At
<1>2. PICK p \in Payouts :
        payout' = [payout EXCEPT ![s] = p] /\ p.status = "confirmed" /\ p.nonce = payout[s].nonce
  BY <1>1, Sets DEF PayoutInv, Settled
<1> QED BY <1>1, <1>2, HandlerKeeps DEF Steps

LEMMA MissKeeps == ASSUME PayoutInv, NEW s \in Sales, Miss(s) PROVE PayoutInv'
<1>1. step' = [step EXCEPT ![s] = "idle"] /\ UNCHANGED chain
  BY DEF Miss, At
<1>2. CASE payout' = [payout EXCEPT ![s].attempts = @ + 1]
  <2> DEFINE p == [payout[s] EXCEPT !.attempts = @ + 1]
  <2>1. /\ p \in Payouts /\ p.status = payout[s].status /\ p.nonce = payout[s].nonce
        /\ payout' = [payout EXCEPT ![s] = p]
    BY <1>2 DEF PayoutInv, Typed, Payouts
  <2> HIDE DEF p
  <2> QED BY <1>1, <2>1, HandlerKeeps DEF Steps
<1>3. CASE UNCHANGED payout
  BY <1>1, <1>3, SameKeeps DEF Steps
<1> QED BY <1>2, <1>3 DEF Miss

-----------------------------------------------------------------------------
\* The facilitator decides what is afloat.

LEMMA LandKeeps == ASSUME PayoutInv, NEW a \in afloat, Land(a) PROVE PayoutInv'
<1>1. /\ afloat' = afloat \ {a} /\ landed' = landed \cup {a}
      /\ UNCHANGED <<payout, step>>
  BY DEF Land, object
<1>2. Transfers' = Transfers
  BY <1>1 DEF Transfers
<1> QED BY <1>1, <1>2
           DEF PayoutInv, Typed, StepsFit, StepFits, Decided, PaidOnce, Unsent, Transfers

\* Refused: what was afloat is withdrawn, and had not landed.
LEMMA RejectKeeps == ASSUME PayoutInv, NEW s \in Sales, Reject(s) PROVE PayoutInv'
<1> DEFINE a == <<s, payout[s].nonce>>
<1>1. /\ step' = [step EXCEPT ![s] = "idle"] /\ SetStatus(s, "rejected")
      /\ afloat' = afloat \ {a} /\ UNCHANGED landed
  BY DEF Reject, At
<1>2. \A b \in Transfers : b[1] = s => b = a /\ b \notin landed
  <2>1. CASE step[s] = "submit"
    BY <2>1 DEF PayoutInv, StepsFit, StepFits, Unsent
  <2>2. CASE a \in afloat
    BY <2>2 DEF PayoutInv, PaidOnce, Decided, Transfers
  <2> QED BY <2>1, <2>2 DEF Reject, At
<1>3. /\ Transfers' = Transfers \ {a} /\ \A b \in Transfers' : b[1] # s
  BY <1>1, <1>2 DEF Transfers
<1>4. PICK p \in Payouts : payout' = [payout EXCEPT ![s] = p]
  BY <1>1, Sets DEF PayoutInv, Stopped
<1>5. /\ step'[s] = "idle" /\ step' \in [Sales -> Steps] /\ payout' \in [Sales -> Payouts]
      /\ \A x \in Sales : x # s => payout'[x] = payout[x] /\ step'[x] = step[x]
  BY <1>1, <1>4 DEF PayoutInv, Typed, Steps
<1>6. Typed' /\ Decided'
  BY <1>1, <1>5 DEF PayoutInv, Typed, Decided
<1>7. StepsFit'
  <2> SUFFICES ASSUME NEW x \in Sales PROVE StepFits(x)'
    BY DEF StepsFit
  <2>1. Unsent(x) => Unsent(x)'
    BY <1>3 DEF Unsent
  <2> QED BY <1>5, <2>1 DEF PayoutInv, StepsFit, StepFits
<1>8. PaidOnce'
  <2>1. \A b \in Transfers' : b \in Transfers /\ b[1] # s /\ b[1] \in Sales
    BY <1>3 DEF PayoutInv, Typed, Transfers
  <2> QED BY <1>5, <2>1 DEF PayoutInv, PaidOnce, Transfers
<1> QED BY <1>6, <1>7, <1>8 DEF PayoutInv

LEMMA NextKeeps == PayoutInv /\ [Next]_vars => PayoutInv'
<1> SUFFICES ASSUME PayoutInv, [Next]_vars PROVE PayoutInv'
  OBVIOUS
<1>1. ASSUME UNCHANGED <<payout, step, chain>> PROVE PayoutInv'
  BY <1>1 DEF chain, PayoutInv, Typed, StepsFit, StepFits, Decided, PaidOnce, Unsent, Transfers
<1>2. ASSUME NEW s \in Sales,
             \/ \E status \in Financial : Advance(s, status) \/ Record(s, status)
             \/ CreateLost(s)
      PROVE  PayoutInv'
  BY <1>1, <1>2 DEF Advance, Record, CreateLost, object
<1>3. ASSUME NEW s \in Sales, Handler(s) PROVE PayoutInv'
  BY <1>3, RetainOrBlockKeeps, ReserveKeeps, SubmitKeeps, RejectKeeps, AwaitKeeps, FindKeeps,
     MissKeeps DEF Handler
<1>4. CASE UNCHANGED vars
  BY <1>1, <1>4 DEF vars, object
<1> QED
  BY <1>2, <1>3, <1>4, CreatePayoutKeeps, FireAlarmKeeps, EndKeeps, LandKeeps DEF Next

(***************************************************************************)
(* One transfer per sale, and never without a payout that still looks for  *)
(* it or has found it: for any number of sales, and although the payout    *)
(* object may die at each of its steps and the facilitator may carry out a *)
(* transfer whose answer was lost, or never do so.                         *)
(***************************************************************************)
THEOREM OneTransfer == Spec => []PaidOnce
<1>1. PayoutInv => PaidOnce
  BY DEF PayoutInv
<1> QED BY <1>1, InitEstablishes, NextKeeps, PTL DEF Spec

-----------------------------------------------------------------------------
(* The books of the seller.  A row only goes up, so a sale enters each sum *)
(* once; and its payout is booked when the handler tells of it, which it   *)
(* does for a transfer it has found on chain.                              *)

RowsTyped ==
    /\ row \in [Sales -> [status : Financial \cup {"none"}, payout : Settled \cup {"none"}]]
    /\ books \in [gross : Int, unfulfilled : Int, fee : Int, earned : Int,
                  count : Int, paid : Int, retained : Int]
Landed(s) == \E a \in landed : a[1] = s
Told(s) ==
    /\ step[s] = "tell" => payout[s].status \in Settled
    /\ payout[s].status = "confirmed" => Landed(s)
    /\ row[s].payout = "confirmed" => Landed(s)
    /\ row[s].payout # "none" => row[s].status = "succeeded"
ToldAll == \A s \in Sales : Told(s)

RowsAdd ==
    /\ books.gross = SumFunctionOnSet(PriceOf, In(Financial))
    /\ books.gross = books.unfulfilled + books.fee + books.earned
    /\ books.earned = SumFunctionOnSet(Earnings, In({"succeeded"}))
    /\ books.paid = SumFunctionOnSet(Earnings, Booked("confirmed"))
    /\ books.retained = SumFunctionOnSet(Earnings, Booked("same_owner_retained"))
    /\ books.paid + books.retained = SumFunctionOnSet(Earnings, In({"succeeded"}) \ Booked("none"))

BooksInv == PayoutInv /\ RowsTyped /\ ToldAll /\ RowsAdd

LEMMA Money ==
    \A s \in Sales : PriceOf[s] \in Nat /\ Fee(s) \in Nat /\ Earnings[s] \in Nat
                     /\ Earnings[s] = PriceOf[s] - Fee(s)
<1> TAKE s \in Sales
<1>1. PriceOf[s] \in Nat /\ Bps \in Nat /\ Fixed \in Nat /\ Minimum \in Nat /\ Fee(s) < PriceOf[s]
  BY FeeAssumption
<1>2. PriceOf[s] * Bps \in Nat
  BY <1>1
<1>3. \A i \in Nat : (i + 9999) \div 10000 \in Nat
  OBVIOUS
<1>4. Fee(s) \in Nat
  BY <1>1, <1>2, <1>3 DEF Fee
<1> QED BY <1>1, <1>4 DEF Earnings, Proceeds

LEMMA SumsFit ==
    \A S \in SUBSET Sales :
        /\ IsFiniteSet(S) /\ Countable(PriceOf, S) /\ Countable(Earnings, S)
        /\ Summable(PriceOf, S) /\ Summable(Earnings, S)
<1> TAKE S \in SUBSET Sales
<1>1. IsFiniteSet(S)
  BY DigestAssumption, FS_Subset
<1> QED BY <1>1, Money DEF Countable, Summable

\* One more sale in a sum.
LEMMA PriceGains ==
    ASSUME NEW S \in SUBSET Sales, NEW s \in Sales, s \notin S
    PROVE  SumFunctionOnSet(PriceOf, S \cup {s}) = SumFunctionOnSet(PriceOf, S) + PriceOf[s]
<1>1. Summable(PriceOf, S \cup {s})
  BY SumsFit
<1> QED BY <1>1, SumGains

LEMMA EarningsGain ==
    ASSUME NEW S \in SUBSET Sales, NEW s \in Sales, s \notin S
    PROVE  SumFunctionOnSet(Earnings, S \cup {s}) = SumFunctionOnSet(Earnings, S) + Proceeds(s)
<1>1. Summable(Earnings, S \cup {s})
  BY SumsFit
<1> QED BY <1>1, SumGains DEF Earnings

LEMMA BooksFollow == BooksInv => SellerBooks
<1> SUFFICES ASSUME BooksInv PROVE SellerBooks
  OBVIOUS
<1> DEFINE all == In({"succeeded"})
           paid == In({"succeeded"}) \ Booked("none")
<1>1. all \in SUBSET Sales /\ paid \in SUBSET all
  BY DEF In
<1>2. Countable(Earnings, all)
  BY <1>1, SumsFit
<1> HIDE DEF all, paid
<1>3. SumFunctionOnSet(Earnings, paid) <= SumFunctionOnSet(Earnings, all)
  BY <1>1, <1>2, SumGrows
<1>4. books.paid + books.retained <= books.earned
  BY <1>3 DEF BooksInv, RowsAdd, all, paid
<1> QED BY <1>4 DEF BooksInv, RowsAdd, ToldAll, Told, Landed, SellerBooks

\* Steps that write no row.
LEMMA RowsUntouched ==
    ASSUME BooksInv, PayoutInv', UNCHANGED <<row, books>>, ToldAll'
    PROVE  BooksInv'
<1>1. RowsAdd'
  BY DEF BooksInv, RowsAdd, In, Booked, Earnings
<1> QED BY <1>1 DEF BooksInv, RowsTyped

LEMMA FirstOpens ==
    ASSUME BooksInv, NEW s \in Sales, row[s].status = "none", NEW b, b = First(books, s),
           NEW S, S = In(Financial) \cup {s}
    PROVE  /\ b.gross = SumFunctionOnSet(PriceOf, S)
           /\ b.gross = b.unfulfilled + b.fee + b.earned
           /\ b \in [gross : Int, unfulfilled : Int, fee : Int, earned : Int,
                     count : Int, paid : Int, retained : Int]
           /\ b.earned = books.earned /\ b.paid = books.paid /\ b.retained = books.retained
<1>1. In(Financial) \in SUBSET Sales /\ s \notin In(Financial)
  BY DEF In, Financial
<1>2. SumFunctionOnSet(PriceOf, S) = SumFunctionOnSet(PriceOf, In(Financial)) + PriceOf[s]
  BY <1>1, PriceGains
<1>3. books \in [gross : Int, unfulfilled : Int, fee : Int, earned : Int,
                 count : Int, paid : Int, retained : Int]
  BY DEF BooksInv, RowsTyped
<1>4. PriceOf[s] \in Nat
  BY Money
<1>5. b = [gross |-> books.gross + PriceOf[s], unfulfilled |-> books.unfulfilled + PriceOf[s],
           fee |-> books.fee, earned |-> books.earned, count |-> books.count,
           paid |-> books.paid, retained |-> books.retained]
  BY <1>3 DEF First
<1>6. /\ books.gross = SumFunctionOnSet(PriceOf, In(Financial))
      /\ books.gross = books.unfulfilled + books.fee + books.earned
  BY DEF BooksInv, RowsAdd
<1>7. /\ books.gross \in Int /\ books.unfulfilled \in Int /\ books.fee \in Int
      /\ books.earned \in Int /\ books.count \in Int /\ books.paid \in Int /\ books.retained \in Int
  BY <1>3
<1> QED BY <1>2, <1>4, <1>5, <1>6, <1>7

LEMMA DeliveredEarns ==
    ASSUME NEW s \in Sales, NEW d, NEW b, b = Delivered(d, s),
           d \in [gross : Int, unfulfilled : Int, fee : Int, earned : Int,
                  count : Int, paid : Int, retained : Int],
           d.gross = d.unfulfilled + d.fee + d.earned
    PROVE  /\ b.gross = d.gross /\ b.gross = b.unfulfilled + b.fee + b.earned
           /\ b.earned = d.earned + Proceeds(s)
           /\ b \in [gross : Int, unfulfilled : Int, fee : Int, earned : Int,
                     count : Int, paid : Int, retained : Int]
           /\ b.paid = d.paid /\ b.retained = d.retained
<1>1. PriceOf[s] \in Nat /\ Fee(s) \in Nat /\ Proceeds(s) = PriceOf[s] - Fee(s)
  BY Money DEF Proceeds
<1>2. b = [gross |-> d.gross, unfulfilled |-> d.unfulfilled - PriceOf[s],
           fee |-> d.fee + Fee(s), earned |-> d.earned + Proceeds(s), count |-> d.count + 1,
           paid |-> d.paid, retained |-> d.retained]
  BY DEF Delivered
<1>3. /\ d.gross \in Int /\ d.unfulfilled \in Int /\ d.fee \in Int
      /\ d.earned \in Int /\ d.count \in Int /\ d.paid \in Int /\ d.retained \in Int
  OBVIOUS
<1> QED BY <1>1, <1>2, <1>3

LEMMA RecordKeeps ==
    ASSUME BooksInv, PayoutInv', NEW s \in Sales, NEW status \in Financial, Record(s, status)
    PROVE  BooksInv'
<1>1. UNCHANGED <<payout, step, landed>>
  BY DEF Record, object, chain
<1>2. CASE UNCHANGED <<row, books>>
  BY <1>1, <1>2, RowsUntouched DEF BooksInv, ToldAll, Told, Landed
<1>3. CASE /\ Newer(row[s].status, status)
           /\ row' = [row EXCEPT ![s].status = status]
  <2> DEFINE opened == IF row[s].status = "none" THEN First(books, s) ELSE books
  <2>1. books' = IF status = "succeeded" THEN Delivered(opened, s) ELSE opened
    BY <1>3 DEF Record
  <2>2. /\ row \in [Sales -> [status : Financial \cup {"none"}, payout : Settled \cup {"none"}]]
        /\ row[s].status \in Financial \cup {"none"} /\ row[s].status # "succeeded"
    <3>1. row \in [Sales -> [status : Financial \cup {"none"}, payout : Settled \cup {"none"}]]
      BY DEF BooksInv, RowsTyped
    <3> QED BY <1>3, <3>1 DEF Newer, Rank, Financial
  <2>3. /\ row' \in [Sales -> [status : Financial \cup {"none"}, payout : Settled \cup {"none"}]]
        /\ row'[s].status = status /\ \A x \in Sales : row'[x].payout = row[x].payout
        /\ \A x \in Sales \ {s} : row'[x] = row[x]
    BY <1>3, <2>2
  <2>4. /\ In(Financial)' = In(Financial) \cup {s}
        /\ In({"succeeded"})' = IF status = "succeeded" THEN In({"succeeded"}) \cup {s}
                                ELSE In({"succeeded"})
        /\ \A k : Booked(k)' = Booked(k)
    BY <2>2, <2>3 DEF In, Booked
  <2>5. row[s].payout = "none" /\ s \notin In({"succeeded"}) /\ s \in Booked("none")
    BY <2>2 DEF BooksInv, ToldAll, Told, In, Booked
  <2>6. opened \in [gross : Int, unfulfilled : Int, fee : Int, earned : Int,
                    count : Int, paid : Int, retained : Int]
        /\ opened.gross = SumFunctionOnSet(PriceOf, In(Financial) \cup {s})
        /\ opened.gross = opened.unfulfilled + opened.fee + opened.earned
        /\ opened.earned = books.earned /\ opened.paid = books.paid /\ opened.retained = books.retained
    <3>1. CASE row[s].status = "none"
      BY <3>1, FirstOpens
    <3>2. CASE row[s].status # "none"
      <4>1. In(Financial) \cup {s} = In(Financial)
        BY <2>2, <3>2 DEF In
      <4> QED BY <3>2, <4>1 DEF BooksInv, RowsTyped, RowsAdd
    <3> QED BY <3>1, <3>2
  <2> HIDE DEF opened
  <2>7. /\ books' \in [gross : Int, unfulfilled : Int, fee : Int, earned : Int,
                       count : Int, paid : Int, retained : Int]
        /\ books'.gross = opened.gross
        /\ books'.gross = books'.unfulfilled + books'.fee + books'.earned
        /\ books'.earned = IF status = "succeeded" THEN books.earned + Proceeds(s) ELSE books.earned
        /\ books'.paid = books.paid /\ books'.retained = books.retained
    <3>1. CASE status = "succeeded"
      BY <2>1, <2>6, <3>1, DeliveredEarns
    <3>2. CASE status # "succeeded"
      BY <2>1, <2>6, <3>2
    <3> QED BY <3>1, <3>2
  <2>8. books'.earned = SumFunctionOnSet(Earnings, In({"succeeded"})')
    <3>1. In({"succeeded"}) \in SUBSET Sales
      BY DEF In
    <3>2. SumFunctionOnSet(Earnings, In({"succeeded"}) \cup {s})
            = SumFunctionOnSet(Earnings, In({"succeeded"})) + Proceeds(s)
      BY <2>5, <3>1, EarningsGain
    <3> QED BY <2>4, <2>7, <3>2 DEF BooksInv, RowsAdd
  <2>9. In({"succeeded"})' \ Booked("none")' = In({"succeeded"}) \ Booked("none")
    BY <2>4, <2>5
  <2>10. RowsAdd'
    BY <2>4, <2>6, <2>7, <2>8, <2>9 DEF BooksInv, RowsAdd, Earnings
  <2>11. ToldAll'
    BY <1>1, <2>2, <2>3, <2>5 DEF BooksInv, ToldAll, Told, Landed
  <2> QED BY <2>3, <2>7, <2>10, <2>11 DEF BooksInv, RowsTyped
<1> QED BY <1>2, <1>3 DEF Record

\* Telling the index books the payout once.
LEMMA BookKeeps ==
    ASSUME BooksInv, NEW s \in Sales, Confirm(s), step[s] = "tell", UNCHANGED <<payout, landed>>,
           NotBooked(s),
           row' = [row EXCEPT ![s].payout = payout[s].status],
           books' = Paid(books, s, payout[s].status)
    PROVE  RowsTyped' /\ RowsAdd'
<1> DEFINE now == payout[s].status
           old == In({"succeeded"}) \ Booked("none")
<1>1. now \in Settled /\ row[s].status = "succeeded" /\ row[s].payout = "none"
  BY DEF BooksInv, ToldAll, Told, Confirm, NotBooked
<1>2. row \in [Sales -> [status : Financial \cup {"none"}, payout : Settled \cup {"none"}]]
  BY DEF BooksInv, RowsTyped
<1>3. /\ row' \in [Sales -> [status : Financial \cup {"none"}, payout : Settled \cup {"none"}]]
      /\ row'[s].payout = now /\ \A x \in Sales : row'[x].status = row[x].status
      /\ \A x \in Sales \ {s} : row'[x] = row[x]
  BY <1>1, <1>2
<1>4. books \in [gross : Int, unfulfilled : Int, fee : Int, earned : Int,
                 count : Int, paid : Int, retained : Int]
  BY DEF BooksInv, RowsTyped
<1>5. /\ \A k : In(k)' = In(k)
      /\ \A k \in Settled : Booked(k)' = IF k = now THEN Booked(k) \cup {s} ELSE Booked(k)
      /\ In({"succeeded"})' \ Booked("none")' = old \cup {s}
      /\ s \notin Booked("confirmed") /\ s \notin Booked("same_owner_retained") /\ s \notin old
      /\ Booked("confirmed") \in SUBSET Sales /\ Booked("same_owner_retained") \in SUBSET Sales
      /\ old \in SUBSET Sales
  BY <1>1, <1>3 DEF In, Booked, Settled
<1>6. /\ SumFunctionOnSet(Earnings, Booked("confirmed") \cup {s})
           = SumFunctionOnSet(Earnings, Booked("confirmed")) + Proceeds(s)
      /\ SumFunctionOnSet(Earnings, Booked("same_owner_retained") \cup {s})
           = SumFunctionOnSet(Earnings, Booked("same_owner_retained")) + Proceeds(s)
      /\ SumFunctionOnSet(Earnings, old \cup {s}) = SumFunctionOnSet(Earnings, old) + Proceeds(s)
  BY <1>5, EarningsGain
<1>7. Proceeds(s) \in Int
  BY Money DEF Earnings
<1>8. /\ books.gross \in Int /\ books.unfulfilled \in Int /\ books.fee \in Int
      /\ books.earned \in Int /\ books.count \in Int /\ books.paid \in Int /\ books.retained \in Int
  BY <1>4
<1>12. /\ Booked("confirmed")' = IF now = "confirmed" THEN Booked("confirmed") \cup {s}
                                 ELSE Booked("confirmed")
       /\ Booked("same_owner_retained")'
            = IF now = "same_owner_retained" THEN Booked("same_owner_retained") \cup {s}
              ELSE Booked("same_owner_retained")
  BY <1>5 DEF Settled
<1>13. /\ books.gross = SumFunctionOnSet(PriceOf, In(Financial))
       /\ books.gross = books.unfulfilled + books.fee + books.earned
       /\ books.earned = SumFunctionOnSet(Earnings, In({"succeeded"}))
       /\ books.paid = SumFunctionOnSet(Earnings, Booked("confirmed"))
       /\ books.retained = SumFunctionOnSet(Earnings, Booked("same_owner_retained"))
       /\ books.paid + books.retained = SumFunctionOnSet(Earnings, old)
       /\ In(Financial)' = In(Financial) /\ In({"succeeded"})' = In({"succeeded"})
  BY <1>5 DEF BooksInv, RowsAdd
<1>10. CASE now = "confirmed"
  <2>1. books' = [gross |-> books.gross, unfulfilled |-> books.unfulfilled, fee |-> books.fee,
                  earned |-> books.earned, count |-> books.count,
                  paid |-> books.paid + Proceeds(s), retained |-> books.retained]
    BY <1>4, <1>10 DEF Paid
  <2>2. RowsTyped'
    BY <1>3, <1>7, <1>8, <2>1 DEF RowsTyped
  <2>3. /\ books'.paid = books.paid + Proceeds(s) /\ books'.retained = books.retained
        /\ books'.gross = books.gross /\ books'.unfulfilled = books.unfulfilled
        /\ books'.fee = books.fee /\ books'.earned = books.earned
    BY <2>1
  <2>4. Booked("confirmed")' = Booked("confirmed") \cup {s} /\ Booked("same_owner_retained")' = Booked("same_owner_retained")
    BY <1>10, <1>12
  <2>5. /\ books'.paid = SumFunctionOnSet(Earnings, Booked("confirmed")')
        /\ books'.retained = SumFunctionOnSet(Earnings, Booked("same_owner_retained")')
    BY <1>6, <1>13, <2>3, <2>4
  <2> HIDE DEF now, old
  <2>6. books'.paid + books'.retained = SumFunctionOnSet(Earnings, old \cup {s})
    BY <1>6, <1>7, <1>8, <1>13, <2>3
  <2>7. RowsAdd'
    BY <1>5, <1>13, <2>3, <2>5, <2>6 DEF RowsAdd, Earnings
  <2> QED BY <2>2, <2>7
<1>11. CASE now = "same_owner_retained"
  <2>1. books' = [gross |-> books.gross, unfulfilled |-> books.unfulfilled, fee |-> books.fee,
                  earned |-> books.earned, count |-> books.count,
                  paid |-> books.paid, retained |-> books.retained + Proceeds(s)]
    BY <1>4, <1>11 DEF Paid
  <2>2. RowsTyped'
    BY <1>3, <1>7, <1>8, <2>1 DEF RowsTyped
  <2>3. /\ books'.retained = books.retained + Proceeds(s) /\ books'.paid = books.paid
        /\ books'.gross = books.gross /\ books'.unfulfilled = books.unfulfilled
        /\ books'.fee = books.fee /\ books'.earned = books.earned
    BY <2>1
  <2>4. Booked("same_owner_retained")' = Booked("same_owner_retained") \cup {s} /\ Booked("confirmed")' = Booked("confirmed")
    BY <1>11, <1>12
  <2>5. /\ books'.retained = SumFunctionOnSet(Earnings, Booked("same_owner_retained")')
        /\ books'.paid = SumFunctionOnSet(Earnings, Booked("confirmed")')
    BY <1>6, <1>13, <2>3, <2>4
  <2> HIDE DEF now, old
  <2>6. books'.paid + books'.retained = SumFunctionOnSet(Earnings, old \cup {s})
    BY <1>6, <1>7, <1>8, <1>13, <2>3
  <2>7. RowsAdd'
    BY <1>5, <1>13, <2>3, <2>5, <2>6 DEF RowsAdd, Earnings
  <2> QED BY <2>2, <2>7
<1> QED BY <1>1, <1>10, <1>11 DEF Settled

LEMMA TellKeeps ==
    ASSUME BooksInv, PayoutInv', NEW s \in Sales, Tell(s) \/ TellLost(s)
    PROVE  BooksInv'
<1>1. /\ step[s] = "tell" /\ step' = [step EXCEPT ![s] = "idle"]
      /\ UNCHANGED <<payout, landed>>
      /\ Confirm(s) \/ UNCHANGED <<row, books>>
  BY DEF Tell, TellLost, At, chain
<1>2. \A x \in Sales : step'[x] = "tell" => step[x] = "tell"
  BY <1>1 DEF BooksInv, PayoutInv, Typed
<1>3. CASE UNCHANGED <<row, books>>
  BY <1>1, <1>2, <1>3, RowsUntouched DEF BooksInv, ToldAll, Told, Landed
<1>4. CASE /\ Confirm(s) /\ NotBooked(s)
           /\ row' = [row EXCEPT ![s].payout = payout[s].status]
           /\ books' = Paid(books, s, payout[s].status)
  <2>1. RowsTyped' /\ RowsAdd'
    BY <1>1, <1>4, BookKeeps
  <2>2. /\ row'[s].payout = payout[s].status /\ row'[s].status = "succeeded"
        /\ \A x \in Sales \ {s} : row'[x] = row[x]
    BY <1>4 DEF BooksInv, RowsTyped, Confirm
  <2>3. ToldAll'
    BY <1>1, <1>2, <2>2 DEF BooksInv, ToldAll, Told, Landed
  <2> QED BY <2>1, <2>3 DEF BooksInv
<1> QED BY <1>1, <1>3, <1>4 DEF Confirm

\* Steps of the payout object: a status is settled by what was found.
LEMMA ObjectKeeps ==
    ASSUME BooksInv, PayoutInv', NEW s \in Sales, UNCHANGED <<row, books, landed>>,
           NEW at, step' = [step EXCEPT ![s] = at] \/ step' = step,
           \A x \in Sales \ {s} : payout'[x] = payout[x],
           step'[s] = "tell" => payout'[s].status \in Settled,
           payout'[s].status = "confirmed" => Landed(s)
    PROVE  BooksInv'
<1>1. \A x \in Sales \ {s} : step'[x] = step[x]
  BY DEF BooksInv, PayoutInv, Typed
<1>2. ToldAll'
  <2> SUFFICES ASSUME NEW x \in Sales PROVE Told(x)'
    BY DEF ToldAll
  <2>1. CASE x = s
    BY <2>1 DEF BooksInv, ToldAll, Told, Landed
  <2>2. CASE x # s
    BY <1>1, <2>2 DEF BooksInv, ToldAll, Told, Landed
  <2> QED BY <2>1, <2>2
<1> QED BY <1>2, RowsUntouched

LEMMA HandlerKeepsBooks ==
    ASSUME BooksInv, PayoutInv', NEW s \in Sales,
           Handler(s) \/ FireAlarm(s) \/ Crash(s) \/ CreatePayout(s)
    PROVE  BooksInv'
<1>1. payout \in [Sales -> Payouts] /\ step \in [Sales -> Steps] /\ Told(s) /\ StepFits(s)
  BY DEF BooksInv, PayoutInv, Typed, ToldAll, StepsFit
<1>2. UNCHANGED <<row, books, landed>>
  BY DEF Handler, Retain, Block, Reserve, Submit, Reject, Await, Find, Miss, FireAlarm, Crash,
     CreatePayout, index, chain
<1>3. CASE Find(s)
  BY <1>1, <1>2, <1>3, ObjectKeeps DEF Find, At, SetStatus, Landed, Settled, Payouts
<1>4. CASE Retain(s)
  BY <1>1, <1>2, <1>4, ObjectKeeps DEF Retain, At, SetStatus, Settled, Payouts
<1>5. CASE Block(s) \/ Reserve(s) \/ Submit(s) \/ Reject(s) \/ Await(s)
  <2>1. /\ \A x \in Sales \ {s} : payout'[x] = payout[x]
        /\ step'[s] # "tell" /\ payout'[s].status # "confirmed"
    <3>1. CASE Block(s)
      BY <1>1, <3>1 DEF Block, At, SetStatus, Payouts
    <3>2. CASE Reserve(s)
      BY <1>1, <3>2 DEF Reserve, At, Payouts
    <3>3. CASE Submit(s)
      BY <1>1, <3>3 DEF Submit, At, StepFits
    <3>4. CASE Reject(s)
      BY <1>1, <3>4 DEF Reject, At, SetStatus, Payouts
    <3>5. CASE Await(s)
      <4>1. step' = [step EXCEPT ![s] = "check"]
        BY <3>5 DEF Await, At
      <4>2. payout' = [payout EXCEPT ![s].status = "awaiting_chain_evidence"]
        BY <3>5 DEF Await, SetStatus, Unclear
      <4> QED BY <1>1, <4>1, <4>2 DEF Payouts
    <3> QED BY <1>5, <3>1, <3>2, <3>3, <3>4, <3>5
  <2>2. PICK at : step' = [step EXCEPT ![s] = at]
    BY <1>5 DEF Block, Reserve, Submit, Reject, Await, At
  <2> QED BY <1>2, <2>1, <2>2, ObjectKeeps
<1>6. CASE Miss(s)
  BY <1>1, <1>2, <1>6, ObjectKeeps DEF Miss, At, Payouts, Told
<1>7. CASE FireAlarm(s)
  <2>1. Entry(payout[s].status) = "tell" => payout[s].status \in Settled
    BY DEF Entry, Prepares, Settled, Awaiting
  <2> QED BY <1>1, <1>2, <1>7, <2>1, ObjectKeeps DEF FireAlarm, At, Told
<1>8. CASE Crash(s)
  BY <1>1, <1>2, <1>8, ObjectKeeps DEF Crash, object, Told
<1>9. CASE CreatePayout(s)
  <2>1. CASE UNCHANGED payout
    BY <1>1, <1>2, <1>9, <2>1, ObjectKeeps DEF CreatePayout, Told
  <2>2. CASE NotStarted(s) /\ payout' = [payout EXCEPT ![s] =
               [payout[s] EXCEPT !.status = "pending", !.attempts = 0]]
    BY <1>1, <1>2, <1>9, <2>2, ObjectKeeps DEF CreatePayout, NotStarted, Told, Settled, Payouts
  <2> QED BY <1>9, <2>1, <2>2 DEF CreatePayout
<1> QED BY <1>3, <1>4, <1>5, <1>6, <1>7, <1>8, <1>9 DEF Handler

LEMMA NextKeepsBooks == BooksInv /\ [Next]_vars => BooksInv'
<1> SUFFICES ASSUME BooksInv, [Next]_vars PROVE BooksInv'
  OBVIOUS
<1>0. PayoutInv'
  BY NextKeeps DEF BooksInv
<1>1. ASSUME UNCHANGED <<row, books, payout, step, landed>> PROVE BooksInv'
  BY <1>0, <1>1, RowsUntouched DEF BooksInv, ToldAll, Told, Landed
<1>2. ASSUME NEW s \in Sales, NEW status \in Financial, Advance(s, status) PROVE BooksInv'
  BY <1>1, <1>2 DEF Advance, index, object, chain
<1>3. ASSUME NEW s \in Sales, CreateLost(s) PROVE BooksInv'
  BY <1>1, <1>3 DEF CreateLost, object, chain
<1>4. ASSUME NEW a \in afloat, Land(a) PROVE BooksInv'
  BY <1>0, <1>4, RowsUntouched DEF Land, index, object, BooksInv, ToldAll, Told, Landed
<1>5. CASE UNCHANGED vars
  BY <1>1, <1>5 DEF vars, index, object, chain
<1> QED BY <1>0, <1>2, <1>3, <1>4, <1>5, RecordKeeps, TellKeeps, HandlerKeepsBooks DEF Next

LEMMA InitBooks == Init => BooksInv
<1> SUFFICES ASSUME Init PROVE BooksInv
  OBVIOUS
<1>1. /\ row = [s \in Sales |-> NoSale]
      /\ books = [gross |-> 0, unfulfilled |-> 0, fee |-> 0, earned |-> 0,
                  count |-> 0, paid |-> 0, retained |-> 0]
  BY DEF Init
<1>2. /\ In(Financial) = {} /\ In({"succeeded"}) = {} /\ Booked("confirmed") = {}
      /\ Booked("same_owner_retained") = {} /\ In({"succeeded"}) \ Booked("none") = {}
  BY <1>1 DEF In, Booked, NoSale, Financial
<1>3. \A f : SumFunctionOnSet(f, {}) = 0
  BY FS_EmptySet, SumUnfolds
<1>4. RowsAdd
  BY <1>1, <1>2, <1>3 DEF RowsAdd
<1>5. RowsTyped /\ ToldAll
  BY <1>1 DEF RowsTyped, ToldAll, Told, Init, NoSale, NoPayout, Settled, Financial
<1> QED BY <1>4, <1>5, InitEstablishes DEF BooksInv

(***************************************************************************)
(* The seller's books add up over its sales, and a payout that is booked   *)
(* as confirmed is on chain: for any number of sales, any prices and any   *)
(* order of copies, announcements, alarms and lost answers.                *)
(***************************************************************************)
THEOREM BooksAddUp == Spec => []SellerBooks
<1> QED BY BooksFollow, InitBooks, NextKeepsBooks, PTL DEF Spec
=============================================================================
