---------------------------- MODULE SellerPayout ------------------------------
(***************************************************************************)
(* The seller ledger and the payouts (seller-commerce.js, seller-payout.js)*)
(* of the marketplace.  Every sale sends copies of its state to the seller *)
(* index, late, repeatedly and in any order.  A delivered sale starts a    *)
(* payout object of its own, whose alarm signs one transfer from the       *)
(* treasury, reserves it before it is sent, reads the chain until it finds *)
(* the transfer, and then tells the index.  The object dies at any step    *)
(* and its alarm runs again; the facilitator answers truly, or not at all, *)
(* and then carries the transfer out later, or never.                      *)
(*                                                                         *)
(* One seller, one traffic class.                                          *)
(***************************************************************************)
EXTENDS Naturals, Integers, FiniteSets, Functions

CONSTANTS
    Sales, PriceOf,
    Own,            \* sales whose payout destination is the treasury itself
    Bps, Fixed, Minimum,    \* fee policy, in ten-thousandths and atomic units
    MaxAttempts     \* unconfirmed checks after which no alarm is set (12)

\* splitSellerPrice: the percentage is rounded up.
Fee(s) ==
    LET percentage == (PriceOf[s] * Bps + 9999) \div 10000 + Fixed
    IN  IF percentage > Minimum THEN percentage ELSE Minimum
Proceeds(s) == PriceOf[s] - Fee(s)

ASSUME FeeAssumption ==
    /\ Bps \in 0..10000 /\ Fixed \in Nat /\ Minimum \in Nat
    /\ PriceOf \in [Sales -> Nat]
    /\ \A s \in Sales : Fee(s) < PriceOf[s]
ASSUME AttemptsAssumption == MaxAttempts \in Nat
ASSUME OwnAssumption == Own \subseteq Sales
\* A sale is named by the digest of its operation.
ASSUME DigestAssumption == IsFiniteSet(Sales)

VARIABLES
    reached,    \* operation: the financial states it was in
    row,        \* index: "sale:" rows
    books,      \* index: "revenue" and "earnings:"
    creating,   \* sales for which the index calls /seller/payout-create
    payout,     \* payout object: "seller_payout"
    alarm,      \* payout object: is an alarm set
    step,       \* payout object: where its alarm handler stands
    afloat,     \* transfers handed to the facilitator and not decided
    landed      \* transfers on chain

index == <<row, books, creating>>
object == <<payout, alarm, step>>
chain == <<afloat, landed>>
vars == <<reached, index, object, chain>>

Financial == {"settled", "credited", "succeeded"}
Rank == [s \in Financial \cup {"none"} |->
            CASE s = "none" -> 0 [] s = "settled" -> 1
              [] s = "credited" -> 2 [] s = "succeeded" -> 3]

Settled == {"confirmed", "same_owner_retained"}
Awaiting == {"submission_reserved", "awaiting_chain_evidence"}
Stopped == {"rejected", "configuration_blocked"}
NoSale == [status |-> "none", payout |-> "none"]
NoPayout == [status |-> "none", attempts |-> 0, nonce |-> 0]
Steps == {"idle", "prepare", "submit", "reply", "check", "tell"}

\* Nonces count the transfers signed for a sale.
PayoutTypeOK ==
    /\ reached \in [Sales -> SUBSET Financial]
    /\ row \in [Sales -> [status : Financial \cup {"none"}, payout : Settled \cup {"none"}]]
    /\ books \in [gross : Nat, unfulfilled : Nat, fee : Nat, earned : Nat,
                  count : Nat, paid : Nat, retained : Nat]
    /\ creating \subseteq Sales
    /\ payout \in [Sales -> [status : Settled \cup Awaiting \cup Stopped \cup {"none", "pending"},
                             attempts : 0..MaxAttempts, nonce : Nat]]
    /\ alarm \in [Sales -> BOOLEAN]
    /\ step \in [Sales -> Steps]
    /\ afloat \subseteq Sales \X Nat
    /\ landed \subseteq Sales \X Nat

Init ==
    /\ reached = [s \in Sales |-> {}]
    /\ row = [s \in Sales |-> NoSale]
    /\ books = [gross |-> 0, unfulfilled |-> 0, fee |-> 0, earned |-> 0,
                count |-> 0, paid |-> 0, retained |-> 0]
    /\ creating = {}
    /\ payout = [s \in Sales |-> NoPayout]
    /\ alarm = [s \in Sales |-> FALSE]
    /\ step = [s \in Sales |-> "idle"]
    /\ afloat = {} /\ landed = {}

-----------------------------------------------------------------------------
(* The operation and the seller index                                      *)

Moves(s) ==
    IF reached[s] = {} THEN {"settled"}
    ELSE IF "succeeded" \in reached[s] THEN {} ELSE {"credited", "succeeded"} \ reached[s]

Advance(s, status) ==
    /\ status \in Moves(s)
    /\ reached' = [reached EXCEPT ![s] = @ \cup {status}]
    /\ UNCHANGED <<index, object, chain>>

Newer(old, new) == Rank[new] > Rank[old]

\* Mutant: the delivered sale stays counted as unfulfilled.
StillOwed(b, s) ==
    [b EXCEPT !.fee = @ + Fee(s), !.earned = @ + Proceeds(s), !.count = @ + 1]
First(b, s) == [b EXCEPT !.gross = @ + PriceOf[s], !.unfulfilled = @ + PriceOf[s]]
Delivered(b, s) ==
    [b EXCEPT !.unfulfilled = @ - PriceOf[s], !.fee = @ + Fee(s),
              !.earned = @ + Proceeds(s), !.count = @ + 1]

(* /seller/commerce: the transaction; a delivered sale is then announced   *)
(* to its payout object.                                                   *)
Record(s, status) ==
    LET opened == IF row[s].status = "none" THEN First(books, s) ELSE books IN
    /\ status \in reached[s]
    /\ \/ /\ Newer(row[s].status, status)
          /\ row' = [row EXCEPT ![s].status = status]
          /\ books' = IF status = "succeeded" THEN Delivered(opened, s) ELSE opened
       \/ ~Newer(row[s].status, status) /\ UNCHANGED <<row, books>>
    /\ creating' = IF row'[s].status = "succeeded" THEN creating \cup {s} ELSE creating
    /\ UNCHANGED <<reached, object, chain>>

NotStarted(s) == payout[s].status = "none"

(* /seller/payout-create *)
CreatePayout(s) ==
    /\ s \in creating
    /\ creating' = creating \ {s}
    /\ \/ /\ NotStarted(s)
          /\ payout' = [payout EXCEPT ![s] = [payout[s] EXCEPT !.status = "pending", !.attempts = 0]]
          /\ alarm' = [alarm EXCEPT ![s] = TRUE]
       \/ ~NotStarted(s) /\ UNCHANGED <<payout, alarm>>
    /\ UNCHANGED <<reached, row, books, step, chain>>

\* The call fails or the index dies: the copy is sent again.
CreateLost(s) ==
    /\ s \in creating
    /\ creating' = creating \ {s}
    /\ UNCHANGED <<reached, row, books, object, chain>>

NotBooked(s) == row[s].payout = "none"

Paid(b, s, status) ==
    IF status = "confirmed" THEN [b EXCEPT !.paid = @ + Proceeds(s)]
    ELSE [b EXCEPT !.retained = @ + Proceeds(s)]

(* /seller/payout-confirm *)
Confirm(s) ==
    /\ row[s].status = "succeeded"
    /\ \/ /\ NotBooked(s)
          /\ row' = [row EXCEPT ![s].payout = payout[s].status]
          /\ books' = Paid(books, s, payout[s].status)
       \/ ~NotBooked(s) /\ UNCHANGED <<row, books>>

-----------------------------------------------------------------------------
(* sellerPayoutAlarm *)

At(s, from, to) == step[s] = from /\ step' = [step EXCEPT ![s] = to]
SetStatus(s, status) == payout' = [payout EXCEPT ![s].status = status]

\* Mutant: a reserved payout is prepared again when the alarm runs again.
PreparesReserved(status) == status \in {"pending", "submission_reserved"}
Prepares(status) == status = "pending"

Entry(status) ==
    CASE Prepares(status) -> "prepare"
      [] ~Prepares(status) /\ status \in Awaiting -> "check"
      [] status \in Settled -> "tell"
      [] OTHER -> "idle"

FireAlarm(s) ==
    /\ alarm[s] /\ At(s, "idle", Entry(payout[s].status))
    /\ alarm' = [alarm EXCEPT ![s] = FALSE]
    /\ UNCHANGED <<reached, index, payout, chain>>

\* prepareSellerPayout: nothing is sent when the destination is the treasury.
Retain(s) ==
    /\ s \in Own /\ At(s, "prepare", "tell")
    /\ SetStatus(s, "same_owner_retained")
    /\ UNCHANGED <<reached, index, alarm, chain>>

\* A limit, a signer or a facilitator that is missing or does not fit.
Block(s) ==
    /\ At(s, "prepare", "idle")
    /\ SetStatus(s, "configuration_blocked")
    /\ UNCHANGED <<reached, index, alarm, chain>>

\* The signed transfer is stored, and an alarm set, before it is sent.
Reserve(s) ==
    /\ s \notin Own /\ At(s, "prepare", "submit")
    /\ payout' = [payout EXCEPT ![s] = [@ EXCEPT !.nonce = payout[s].nonce + 1,
                                                 !.status = "submission_reserved"]]
    /\ alarm' = [alarm EXCEPT ![s] = TRUE]
    /\ UNCHANGED <<reached, index, chain>>

Submit(s) ==
    /\ At(s, "submit", "reply")
    /\ afloat' = afloat \cup {<<s, payout[s].nonce>>}
    /\ UNCHANGED <<reached, index, payout, alarm, landed>>

\* submitSellerPayout: the facilitator refuses before or instead of sending.
Reject(s) ==
    /\ \/ At(s, "submit", "idle")
       \/ At(s, "reply", "idle") /\ <<s, payout[s].nonce>> \in afloat
    /\ afloat' = afloat \ {<<s, payout[s].nonce>>}
    /\ SetStatus(s, "rejected")
    /\ UNCHANGED <<reached, index, alarm, landed>>

Unclear == "awaiting_chain_evidence"

\* Its answer is positive, lost or in doubt, or the call was never made.
Await(s) ==
    /\ At(s, "submit", "check") \/ At(s, "reply", "check")
    /\ SetStatus(s, Unclear)
    /\ UNCHANGED <<reached, index, alarm, chain>>

\* confirmSellerPayout finds the transfer on chain.
Find(s) ==
    /\ <<s, payout[s].nonce>> \in landed
    /\ At(s, "check", "tell")
    /\ SetStatus(s, "confirmed")
    /\ UNCHANGED <<reached, index, alarm, chain>>

\* Mutant: a miss sets no alarm.
NoAlarm(s) == UNCHANGED alarm

LookAgain(s) == alarm' = [alarm EXCEPT ![s] = TRUE]
Left(s) == payout[s].attempts < MaxAttempts

\* It is not there, or the chain does not answer.
Miss(s) ==
    /\ At(s, "check", "idle")
    /\ \/ /\ Left(s)
          /\ payout' = [payout EXCEPT ![s].attempts = @ + 1]
          /\ LookAgain(s)
       \/ ~Left(s) /\ UNCHANGED <<payout, alarm>>
    /\ UNCHANGED <<reached, index, chain>>

Tell(s) ==
    /\ At(s, "tell", "idle") /\ Confirm(s)
    /\ UNCHANGED <<reached, creating, payout, alarm, chain>>

\* The index refuses, or its answer is lost.
TellLost(s) ==
    /\ At(s, "tell", "idle")
    /\ Confirm(s) \/ UNCHANGED <<row, books>>
    /\ alarm' = [alarm EXCEPT ![s] = TRUE]
    /\ UNCHANGED <<reached, creating, payout, chain>>

\* An alarm handler that dies is run again.
Crash(s) ==
    /\ step[s] # "idle"
    /\ step' = [step EXCEPT ![s] = "idle"]
    /\ alarm' = [alarm EXCEPT ![s] = TRUE]
    /\ UNCHANGED <<reached, index, payout, chain>>

\* The facilitator carries a transfer out.
Land(a) ==
    /\ a \in afloat
    /\ afloat' = afloat \ {a}
    /\ landed' = landed \cup {a}
    /\ UNCHANGED <<reached, index, object>>

Handler(s) ==
    \/ Retain(s) \/ Block(s) \/ Reserve(s) \/ Submit(s) \/ Reject(s) \/ Await(s)
    \/ Find(s) \/ Miss(s)

Next ==
    \/ \E s \in Sales :
        \/ \E status \in Financial : Advance(s, status) \/ Record(s, status)
        \/ CreatePayout(s) \/ CreateLost(s)
        \/ FireAlarm(s) \/ Handler(s) \/ Tell(s) \/ TellLost(s) \/ Crash(s)
    \/ \E a \in afloat : Land(a)

Spec == Init /\ [][Next]_vars

\* Set alarms run, and not every run of a handler dies or loses its answer.
Fairness ==
    \A s \in Sales : WF_vars(FireAlarm(s)) /\ SF_vars(Handler(s)) /\ SF_vars(Tell(s))

FairSpec == Spec /\ Fairness

-----------------------------------------------------------------------------
In(states) == {s \in Sales : row[s].status \in states}
Booked(status) == {s \in Sales : row[s].payout = status}
Earnings == [s \in Sales |-> Proceeds(s)]

(***************************************************************************)
(* "An ambiguous payout is never resubmitted": for one sale at most one    *)
(* transfer is ever handed to the facilitator; and money that left, or may *)
(* still leave, the treasury is never forgotten: its payout awaits         *)
(* evidence or is confirmed.                                               *)
(***************************************************************************)
PaidOnce ==
    /\ \A a, b \in afloat \cup landed : a[1] = b[1] => a = b
    /\ \A a \in afloat \cup landed :
        /\ a[1] \notin Own
        /\ payout[a[1]].status \in Awaiting \cup {"confirmed"}
        /\ payout[a[1]].nonce = a[2]

(***************************************************************************)
(* The seller's books: gross is what the buyers of its sales paid, and is  *)
(* unfulfilled, a fee or earned; "separate chain-confirmed transfers only" *)
(* are counted as paid out; and no copy, announcement or confirmation is   *)
(* counted twice, however they are repeated and reordered.                 *)
(***************************************************************************)
SellerBooks ==
    /\ books.gross = SumFunctionOnSet(PriceOf, In(Financial))
    /\ books.gross = books.unfulfilled + books.fee + books.earned
    /\ books.earned = SumFunctionOnSet(Earnings, In({"succeeded"}))
    /\ books.paid = SumFunctionOnSet(Earnings, Booked("confirmed"))
    /\ books.paid + books.retained <= books.earned
    /\ \A s \in Sales : row[s].payout = "confirmed" => \E a \in landed : a[1] = s

(***************************************************************************)
(* A payout that was started ends: the index books it, or it is rejected,  *)
(* blocked, or was looked for MaxAttempts times and is left to a person.   *)
(***************************************************************************)
PayoutResolves ==
    \A s \in Sales :
        payout[s].status = "pending" ~>
            \/ row[s].payout \in Settled
            \/ payout[s].status \in Stopped
            \/ payout[s].attempts = MaxAttempts
=============================================================================
