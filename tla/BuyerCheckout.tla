---------------------------- MODULE BuyerCheckout ----------------------------
(***************************************************************************)
(* The checkout page of the settlement-truth gateway                       *)
(* (apps/settlement-gateway/buyer.ts).  A tab keeps one pending order, its *)
(* key and what was signed for it, and presents it until a receipt comes;  *)
(* it forgets the order only after an answer that it takes to precede any  *)
(* payment, and then a click makes a new order.                            *)
(*                                                                         *)
(* The tab hears at most one Worker.  A request is given up after 25 s,    *)
(* and the Worker behind it may live on; it made its claim before that     *)
(* (lemonBalance is given 8 s), so the claim is part of the presentation.  *)
(***************************************************************************)
EXTENDS SettlementTruth

CONSTANT Orders         \* what the tab may sign, each with a key of its own

ASSUME OrdersAssumption ==
    /\ Orders \subseteq Intents
    /\ \A i \in Orders : Rail(i) \in {"base", "lemon"}
    /\ \A i, k \in Orders : IdOf[i] = IdOf[k] => i = k

VARIABLES
    tab,        \* the pending order, the Worker it waits for, and whether it is open
    made,       \* orders the tab ever made
    withdrawn,  \* orders whose license was revoked
    abandoned   \* forgotten orders, with the answer that made the tab forget them

checkout == <<tab, made, withdrawn, abandoned>>
all == <<vars, checkout>>

NoOrder == [open |-> TRUE, order |-> None, at |-> None]
NoTab == [open |-> FALSE, order |-> None, at |-> None]
Reasons == {"license", "read"}

CheckoutTypeOK ==
    /\ tab \in [open : BOOLEAN, order : Orders \cup {None}, at : Requests \cup {None}]
    /\ made \subseteq Orders /\ withdrawn \subseteq Orders
    /\ abandoned \subseteq Orders \X Reasons

\* No order is pending and none was ever made.
CheckoutInit(open) ==
    /\ tab = IF open THEN NoOrder ELSE NoTab
    /\ made = {} /\ withdrawn = {} /\ abandoned = {}

\* pay() without a pending order: a new key, and for Base a new signed
\* authorization, are stored before anything is sent.
MakeOrder(i) ==
    /\ tab = NoOrder /\ i \notin made
    /\ Rail(i) = "base" => i \in valid
    /\ tab' = [tab EXCEPT !.order = i]
    /\ made' = made \cup {i}
    /\ UNCHANGED <<vars, withdrawn, abandoned>>

Hears(r) == tab' = [tab EXCEPT !.at = r]
Keeps == UNCHANGED <<made, withdrawn, abandoned>>

\* Mutant: every refusal, and every error of the service, clears the order.
AnyRefusal(i, answer) == TRUE
\* An error that is named in errorText, and on Base an answer 502 to a read.
Clears(i, answer) ==
    \/ Rail(i) = "lemon" /\ answer \in Reasons
    \/ Rail(i) = "base" /\ answer = "read"

\* The end of a request, with its answer or without.
Received == tab' = NoOrder /\ Keeps
Refused(answer) ==
    LET i == tab.order IN
    IF Clears(i, answer)
    THEN /\ tab' = NoOrder
         /\ abandoned' = abandoned \cup {<<i, answer>>}
         /\ UNCHANGED <<made, withdrawn>>
    ELSE Hears(None) /\ Keeps

Pending == tab.order # None /\ tab.at = None

\* lemonBalance is asked before the claim, whatever became of the order.
RefuseLicense ==
    /\ Pending /\ tab.order \in withdrawn
    /\ Refused("license")
    /\ UNCHANGED vars

\* The request claims the job of the order; a refusal here is final but says
\* nothing of an earlier request.
PresentOrder ==
    LET i == tab.order IN
    /\ Pending /\ i \notin withdrawn
    /\ \/ ClaimDone(i) /\ (Received \/ UNCHANGED checkout)
       \/ (ClaimExpired(i) \/ ClaimRefused(i)) /\ Refused("claim")
       \/ \E r \in Requests :
             (ClaimWork(r, i) \/ ClaimReconcile(r, i)) /\ Hears(r) /\ Keeps

\* The fetch times out, or the page is reloaded.
GiveUp ==
    /\ tab.at # None
    /\ Hears(None) /\ Keeps
    /\ UNCHANGED vars

\* The read or the look at the balance failed; the claim may not be released.
RefuseRead(r) ==
    /\ req[r].step = "work" /\ (Fail(r) \/ CrashRequest(r))
    /\ Refused("read")

\* The Worker the tab hears: what it answers.
Answer(r) ==
    /\ tab.at = r
    /\ \/ FinishChain(r) /\ Received
       \/ RefuseRead(r)
       \/ (Fail(r) \/ DeferSettlement(r) \/ CrashRequest(r)) /\ Refused("error")

\* What it does before it answers, and what Workers do that nobody hears.
Work(r) ==
    /\ \/ Prepare(r) \/ StartSettlement(r) \/ Submit(r)
       \/ tab.at # r /\ RequestNext(r)
    /\ UNCHANGED checkout

\* The license is revoked, and debited no more.
Withdraw(i) ==
    /\ tab.open /\ Rail(i) = "lemon" /\ i \notin withdrawn
    /\ withdrawn' = withdrawn \cup {i}
    /\ UNCHANGED <<vars, tab, made, abandoned>>

\* Editions of the source are left out: the tab does not tell bodies apart.
Outside ==
    /\ \/ \E n \in Ids : LeaseLapses(n) \/ RetentionEnds(n) \/ Confirm(n)
       \/ \E n \in Ids : Debit(n) /\ \A i \in withdrawn : IdOf[i] # n
       \/ \E i \in Orders : AuthorizationEnds(i)
       \/ Evict
    /\ UNCHANGED checkout

CheckoutNext ==
    \/ \E i \in Orders : MakeOrder(i) \/ Withdraw(i)
    \/ RefuseLicense \/ PresentOrder \/ GiveUp
    \/ \E r \in Requests : Answer(r) \/ Work(r)
    \/ Outside

CheckoutSpec == Init /\ CheckoutInit(TRUE) /\ [][CheckoutNext]_all

-----------------------------------------------------------------------------
(***************************************************************************)
(* "Never ... create a second payment after uncertainty": an order that    *)
(* the tab forgot, so that the next click makes a new one, was never       *)
(* submitted or debited and never will be, by the Worker that refused it   *)
(* or by one that was given up before.  A license that was found revoked   *)
(* says nothing of earlier requests and is left out.                       *)
(***************************************************************************)
AbandonedUnpaid == \A a \in abandoned : a[2] # "license" => ~Charged(IdOf[a[1]])
=============================================================================
