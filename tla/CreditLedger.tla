---------------------------- MODULE CreditLedger -----------------------------
(***************************************************************************)
(* Prepaid usage credits of one operator key (apps/billing).  The ledger   *)
(* object is credited by paid orders, debited by refunds and by /consume;  *)
(* the order webhook reaches it through two index objects, one per         *)
(* checkout and one per order, in three calls that a crash may separate.   *)
(* The payment provider delivers events late, repeatedly and in any order. *)
(*                                                                         *)
(* Every checkout here belongs to the key.  Journal lines, records of the  *)
(* legacy format and the naming of products are left out.                  *)
(***************************************************************************)
EXTENDS Naturals, FiniteSetsExt

CONSTANTS
    Orders, Checkouts,
    CreditsOf,      \* order: credits of its variant
    Total,          \* order: amount charged; an event reports a refund up to it
    Tags,           \* idempotency keys of /consume
    NoOrder, NoCheckout

ASSUME CreditsAssumption == CreditsOf \in [Orders -> Nat \ {0}]
ASSUME TotalAssumption == Total \in [Orders -> Nat \ {0}]
ASSUME AbsenceAssumption == NoOrder \notin Orders /\ NoCheckout \notin Checkouts
\* Both are part of a storage key, whose length is bounded.
ASSUME StorageAssumption == IsFiniteSet(Orders) /\ IsFiniteSet(Tags)

VARIABLES
    account,        \* ledger: "record"
    order,          \* ledger: "order:" records
    events,         \* ledger: "event:" records
    replay,         \* ledger: units of "consume:" records, 0 when absent
    via,            \* checkout named in the order's metadata, if any
    claim,          \* checkout index: the order that claimed it
    bound,          \* order index: orders mapped to the key
    hooks           \* order_created deliveries under way, with their last step

ledger == <<account, order, events, replay>>
shop == <<via, claim, bound, hooks>>

Absent == [recorded |-> FALSE, amount |-> 0, credits |-> 0]

LedgerTypeOK ==
    /\ account \in [granted : Nat, balance : Nat, consumed : Nat, refunded : Nat, debt : Nat]
    /\ order \in [Orders -> [recorded : BOOLEAN, amount : Nat, credits : Nat]]
    /\ events \subseteq ({"created"} \X Orders) \cup ({"refunded"} \X Orders \X Nat)
    /\ replay \in [Tags -> Nat]
    /\ via \in [Orders -> Checkouts \cup {NoCheckout}]
    /\ claim \in [Checkouts -> Orders \cup {NoOrder}]
    /\ bound \subseteq Orders
    /\ hooks \subseteq Orders \X {"claimed", "purchased"}

LedgerInit ==
    /\ account = [granted |-> 0, balance |-> 0, consumed |-> 0, refunded |-> 0, debt |-> 0]
    /\ order = [o \in Orders |-> Absent]
    /\ events = {}
    /\ replay = [t \in Tags |-> 0]
    /\ via \in [Orders -> Checkouts \cup {NoCheckout}]
    /\ claim = [c \in Checkouts |-> NoOrder]
    /\ bound = {}
    /\ hooks = {}

Provisioned == account.granted > 0
Restricted == account.debt > 0

(* /purchase: an order is credited by the first event that names it. *)
Purchase(o) ==
    LET known == <<"created", o>> \in events \/ order[o].recorded IN
    /\ events' = events \cup {<<"created", o>>}
    /\ order' = [order EXCEPT ![o].recorded = TRUE]
    /\ account' = IF known THEN account
                  ELSE [account EXCEPT !.granted = @ + CreditsOf[o],
                                       !.balance = @ + CreditsOf[o]]
    /\ UNCHANGED replay

\* Credits withdrawn once the provider has paid back an amount in total.
Cumulative(o, amount) ==
    LET part == (CreditsOf[o] * amount) \div Total[o]
    IN  IF part > CreditsOf[o] THEN CreditsOf[o] ELSE part

\* Mutant: a late event of a smaller amount is accepted.
NeverRegressed(o, amount) == FALSE

Regressed(o, amount) == amount < order[o].amount

Taken(delta) == Min({account.balance, delta})

(* /refund: what the balance cannot give becomes debt. *)
Refund(o, amount) ==
    LET delta == Cumulative(o, amount) - order[o].credits IN
    /\ order[o].recorded
    /\ <<"refunded", o, amount>> \notin events
    /\ ~Regressed(o, amount)
    /\ account' = [account EXCEPT !.balance = @ - Taken(delta), !.refunded = @ + delta,
                                  !.debt = @ + (delta - Taken(delta))]
    /\ order' = [order EXCEPT ![o] = [@ EXCEPT !.amount = amount,
                                               !.credits = Cumulative(o, amount)]]
    /\ events' = events \cup {<<"refunded", o, amount>>}
    /\ UNCHANGED replay

(* /consume, when it takes credits: the first of each idempotency key. *)
Spendable(units) == Provisioned /\ ~Restricted /\ account.balance >= units

Consume(tag, units) ==
    /\ Spendable(units)
    /\ replay[tag] = 0
    /\ account' = [account EXCEPT !.balance = @ - units, !.consumed = @ + units]
    /\ replay' = [replay EXCEPT ![tag] = units]
    /\ UNCHANGED <<order, events>>

\* A second /consume of the key answers again without taking anything.
Replayed(tag) == Provisioned /\ ~Restricted /\ replay[tag] > 0

(* handleWebhook, order_created: claim the checkout, credit the ledger, map *)
(* the order to the key.                                                   *)
ClaimFree(o) == via[o] # NoCheckout /\ claim[via[o]] \in {NoOrder, o}

ClaimCheckout(o) ==
    /\ ClaimFree(o)
    /\ claim' = [claim EXCEPT ![via[o]] = o]
    /\ hooks' = hooks \cup {<<o, "claimed">>}
    /\ UNCHANGED <<ledger, via, bound>>

CreditOrder(o) ==
    /\ <<o, "claimed">> \in hooks
    /\ Purchase(o)
    /\ hooks' = (hooks \ {<<o, "claimed">>}) \cup {<<o, "purchased">>}
    /\ UNCHANGED <<via, claim, bound>>

BindOrder(o) ==
    /\ <<o, "purchased">> \in hooks
    /\ bound' = bound \cup {o}
    /\ hooks' = hooks \ {<<o, "purchased">>}
    /\ UNCHANGED <<ledger, via, claim>>

DropHook(h) ==
    /\ h \in hooks
    /\ hooks' = hooks \ {h}
    /\ UNCHANGED <<ledger, via, claim, bound>>

(* handleWebhook, order_refunded: only for a mapped order, else 503. *)
RefundOrder(o, amount) ==
    /\ o \in bound
    /\ Refund(o, amount)
    /\ UNCHANGED shop

ShopNext ==
    \/ \E o \in Orders : ClaimCheckout(o) \/ CreditOrder(o) \/ BindOrder(o)
    \/ \E h \in Orders \X {"claimed", "purchased"} : DropHook(h)
    \/ \E o \in Orders : \E amount \in 1..Total[o] : RefundOrder(o, amount)

-----------------------------------------------------------------------------
(***************************************************************************)
(* However deliveries are repeated, reordered and cut short, credits are   *)
(* neither made nor lost: what was granted plus what is owed is in the     *)
(* balance, was consumed or was withdrawn; each total is the sum over the  *)
(* orders and the idempotency keys it was counted from; each refund event  *)
(* that was accepted has withdrawn at least its share; one checkout pays   *)
(* for one order; and an order is mapped only when it was credited, so     *)
(* that no refund finds a mapped order without a purchase.                 *)
(***************************************************************************)
GrantOf == [o \in Orders |-> IF order[o].recorded THEN CreditsOf[o] ELSE 0]
RefundOf == [o \in Orders |-> order[o].credits]

CreditsConserved ==
    /\ account.granted + account.debt = account.balance + account.consumed + account.refunded
    /\ account.granted = SumFunctionOnSet(GrantOf, Orders)
    /\ account.refunded = SumFunctionOnSet(RefundOf, Orders)
    /\ account.consumed = SumFunctionOnSet(replay, Tags)

RefundsHonoured ==
    \A o \in Orders : \A amount \in 1..Total[o] :
        <<"refunded", o, amount>> \in events => order[o].credits >= Cumulative(o, amount)

OneOrderPerCheckout ==
    /\ \A o, q \in Orders : order[o].recorded /\ order[q].recorded /\ via[o] = via[q] => o = q
    /\ \A o \in bound : order[o].recorded

LedgerSound == CreditsConserved /\ RefundsHonoured /\ OneOrderPerCheckout
=============================================================================
