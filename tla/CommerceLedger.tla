--------------------------- MODULE CommerceLedger ----------------------------
(***************************************************************************)
(* The books of the gateway index.  Every operation object sends a copy of *)
(* its financial state to /index/commerce each time it settles, is         *)
(* credited or is delivered (syncCommerce), and again from its alarm when  *)
(* a call failed.  Copies may be lost before or after they are applied,    *)
(* overlap and arrive out of order; the index keeps one row per operation, *)
(* totals over the rows, and the share of each outcome and Live service in *)
(* the totals.                                                             *)
(*                                                                         *)
(* Only external production settlements with a positive price send copies. *)
(***************************************************************************)
EXTENDS Naturals, Integers, FiniteSets, Functions

CONSTANTS
    Ops,        \* operations whose revenue is real
    Payers, PayerOf, PriceOf,
    Capabilities,   \* outcomes whose revenue is told apart
    Services,       \* and the Live services
    CapabilityOf,   \* operation: what it bought; a plain fetch is in neither
    MaxSync,    \* failed syncs after which no alarm is set (5 in the code)
    Serial      \* operations whose copies neither overlap nor are cut off by an
                \* eviction of the object: the next state comes after the answer

ASSUME PayerAssumption == PayerOf \in [Ops -> Payers]
ASSUME PriceAssumption == PriceOf \in [Ops -> Nat \ {0}]
ASSUME CapabilityAssumption == Capabilities \cap Services = {} /\ Ops \subseteq DOMAIN CapabilityOf
ASSUME SyncAssumption == MaxSync \in Nat
ASSUME SerialAssumption == Serial \subseteq Ops
\* Operations and payers are keyed by digests.
ASSUME DigestAssumption == IsFiniteSet(Ops) /\ IsFiniteSet(Payers)

VARIABLES
    life,       \* operation: its status; a redeemed credit counts as "succeeded"
    pending,    \* operation: "commerce_pending"
    failed,     \* operation: "commerce_sync_attempts"
    alarm,      \* operation: is an alarm set
    call,       \* the copies under way, one for each reason to send one
    row,        \* index: status of "commerce:operation:" rows, "none" when absent
    totals,     \* index: "commerce:v1"
    wallet,     \* index: executions in "commerce:wallet:" rows
    share,      \* index: "product:commerce:" rows and "live-commerce:v1"
    bought      \* index: executions in "product:wallet:" rows

object == <<life, pending, failed, alarm>>
books == <<row, totals, wallet, share, bought>>
vars == <<life, pending, failed, alarm, call, row, totals, wallet, share, bought>>

Financial == {"settled", "credited", "succeeded"}
Reasons == Financial \cup {"alarm"}
Calls == [phase : {"none", "sent", "applied"}, status : Financial \cup {"none"}]
NoCall == [phase |-> "none", status |-> "none"]

Rank == [s \in Financial \cup {"none"} |->
            CASE s = "none" -> 0 [] s = "settled" -> 1
              [] s = "credited" -> 2 [] s = "succeeded" -> 3]

\* executionEconomics, as /index/commerce stores it.
NoMoney == [cash |-> 0, recognized |-> 0, liability |-> 0, deliveries |-> 0]
Snapshot(o, status) ==
    CASE status = "none" -> NoMoney
      [] status = "succeeded" -> [cash |-> PriceOf[o], recognized |-> PriceOf[o],
                                  liability |-> 0, deliveries |-> 1]
      [] OTHER -> [cash |-> PriceOf[o], recognized |-> 0,
                   liability |-> PriceOf[o], deliveries |-> 0]

Books == [cash : Nat, recognized : Nat, liability : Nat, deliveries : Nat,
          paying : Nat, repeat : Nat]
NoBooks == [cash |-> 0, recognized |-> 0, liability |-> 0, deliveries |-> 0,
            paying |-> 0, repeat |-> 0]

TypeOK ==
    /\ life \in [Ops -> Financial \cup {"none"}]
    /\ pending \in [Ops -> BOOLEAN]
    /\ failed \in [Ops -> 0..MaxSync + 1]
    /\ alarm \in [Ops -> BOOLEAN]
    /\ call \in [Ops -> [Reasons -> Calls]]
    /\ row \in [Ops -> Financial \cup {"none"}]
    /\ totals \in Books
    /\ wallet \in [Payers -> Nat]
    /\ share \in [Capabilities \cup Services -> Books]
    /\ bought \in [Capabilities -> [Payers -> Nat]]

Init ==
    /\ life = [o \in Ops |-> "none"]
    /\ pending = [o \in Ops |-> FALSE]
    /\ failed = [o \in Ops |-> 0]
    /\ alarm = [o \in Ops |-> FALSE]
    /\ call = [o \in Ops |-> [why \in Reasons |-> NoCall]]
    /\ row = [o \in Ops |-> "none"]
    /\ totals = NoBooks
    /\ wallet = [b \in Payers |-> 0]
    /\ share = [c \in Capabilities \cup Services |-> NoBooks]
    /\ bought = [c \in Capabilities |-> wallet]

UnderWay(o) == \E why \in Reasons : call[o][why].phase # "none"

\* The first half of syncCommerce.
Send(o, why, status) ==
    /\ call[o][why].phase = "none"
    /\ o \in Serial => ~UnderWay(o)
    /\ call' = [call EXCEPT ![o][why] = [phase |-> "sent", status |-> status]]
    /\ pending' = [pending EXCEPT ![o] = TRUE]

Moves == [s \in Financial \cup {"none"} |->
            CASE s = "none" -> {"settled"}
              [] s = "settled" -> {"credited", "succeeded"}
              [] s = "credited" -> {"succeeded"}
              [] s = "succeeded" -> {}]

\* /operation/transition, /operation/complete or /operation/credit-delivered
\* stored a new state and sends it.
Advance(o, status) ==
    /\ status \in Moves[life[o]]
    /\ life' = [life EXCEPT ![o] = status]
    /\ Send(o, status, status)
    /\ UNCHANGED <<failed, alarm, books>>

Newer(old, new) == Rank[new] > Rank[old]

\* Mutant: the liability of the earlier state stays.
LiabilityKept(t, old, new) ==
    [t EXCEPT !.cash = @ + new.cash - old.cash,
              !.recognized = @ + new.recognized - old.recognized,
              !.liability = @ + new.liability,
              !.deliveries = @ + new.deliveries - old.deliveries]
\* What the row held before is taken back.
Replaced(t, old, new) ==
    [t EXCEPT !.cash = @ + new.cash - old.cash,
              !.recognized = @ + new.recognized - old.recognized,
              !.liability = @ + new.liability - old.liability,
              !.deliveries = @ + new.deliveries - old.deliveries]

Counted(t, executions) ==
    [t EXCEPT !.paying = @ + (IF executions = 0 THEN 1 ELSE 0),
              !.repeat = @ + (IF executions = 1 THEN 1 ELSE 0)]

Delivers(o, new) == new = "succeeded" /\ row[o] # "succeeded"

\* Books after the copy; executions is what the payer's wallet row counts.
Updated(t, o, new, executions) ==
    LET changed == Replaced(t, Snapshot(o, row[o]), Snapshot(o, new)) IN
    IF Delivers(o, new) THEN Counted(changed, executions) ELSE changed

\* The same change once more, for what was bought.
ApplyOutcome(o, c, b, new) ==
    /\ share' = [share EXCEPT ![c] = Updated(@, o, new, bought[c][b])]
    /\ bought' = IF Delivers(o, new) THEN [bought EXCEPT ![c][b] = @ + 1] ELSE bought

\* The books of a Live service count no wallets.
ApplyLive(o, c, new) ==
    /\ share' = [share EXCEPT ![c] = Replaced(@, Snapshot(o, row[o]), Snapshot(o, new))]
    /\ UNCHANGED bought

Attribute(o, new) ==
    LET c == CapabilityOf[o] IN
    CASE c \in Capabilities -> ApplyOutcome(o, c, PayerOf[o], new)
      [] c \in Services -> ApplyLive(o, c, new)
      [] OTHER -> UNCHANGED <<share, bought>>

\* /index/commerce, in one transaction.
Apply(o, why) ==
    LET new == call[o][why].status
        b == PayerOf[o] IN
    /\ call[o][why].phase = "sent"
    /\ call' = [call EXCEPT ![o][why].phase = "applied"]
    /\ \/ ~Newer(row[o], new) /\ UNCHANGED books
       \/ /\ Newer(row[o], new)
          /\ row' = [row EXCEPT ![o] = new]
          /\ totals' = Updated(totals, o, new, wallet[b])
          /\ wallet' = IF Delivers(o, new) THEN [wallet EXCEPT ![b] = @ + 1] ELSE wallet
          /\ Attribute(o, new)
    /\ UNCHANGED object

\* The index answered: the copy is no longer owed.
Acknowledge(o, why) ==
    /\ call[o][why].phase = "applied"
    /\ call' = [call EXCEPT ![o][why] = NoCall]
    /\ pending' = [pending EXCEPT ![o] = FALSE]
    /\ failed' = [failed EXCEPT ![o] = 0]
    /\ UNCHANGED <<life, alarm, books>>

\* Mutant: a failed call leaves the retry to the next state change.
NoRetry(o) == UNCHANGED alarm
Retry(o) == alarm' = [alarm EXCEPT ![o] = @ \/ failed[o] + 1 <= MaxSync]

\* The call failed; whether the index applied the copy is not known.
Fail(o, why) ==
    /\ call[o][why].phase # "none"
    /\ failed[o] <= MaxSync          \* bounds the counter
    /\ call' = [call EXCEPT ![o][why] = NoCall]
    /\ failed' = [failed EXCEPT ![o] = @ + 1]
    /\ Retry(o)
    /\ UNCHANGED <<life, pending, books>>

\* The alarm sends the record it finds when a copy is owed.
Alarm(o) ==
    /\ alarm[o] /\ call[o]["alarm"].phase = "none"
    /\ alarm' = [alarm EXCEPT ![o] = FALSE]
    /\ \/ pending[o] /\ Send(o, "alarm", life[o])
       \/ ~pending[o] /\ UNCHANGED <<pending, call>>
    /\ UNCHANGED <<life, failed, books>>

\* The object is evicted: its calls are gone, what it stored is not, and an
\* alarm that was running is run again.
Evict(o) ==
    /\ o \notin Serial /\ UnderWay(o)
    /\ alarm' = [alarm EXCEPT ![o] = @ \/ call[o]["alarm"].phase # "none"]
    /\ call' = [call EXCEPT ![o] = [why \in Reasons |-> NoCall]]
    /\ UNCHANGED <<life, pending, failed, books>>

Next ==
    \E o \in Ops :
        \/ \E status \in Financial : Advance(o, status)
        \/ \E why \in Reasons : Apply(o, why) \/ Acknowledge(o, why) \/ Fail(o, why)
        \/ Alarm(o) \/ Evict(o)

Spec == Init /\ [][Next]_vars

\* Set alarms run and calls end.  Payments need not advance.
Fairness ==
    \A o \in Ops :
        /\ WF_vars(Alarm(o))
        /\ \A why \in Reasons : WF_vars(Apply(o, why) \/ Acknowledge(o, why))

FairSpec == Spec /\ Fairness

-----------------------------------------------------------------------------
Total(field, S) == SumFunctionOnSet([o \in Ops |-> Snapshot(o, row[o])[field]], S)
Deliveries(b, S) == Cardinality({o \in S : PayerOf[o] = b /\ row[o] = "succeeded"})
Buyers(S, least) == Cardinality({b \in Payers : Deliveries(b, S) >= least})
Sold(c) == {o \in Ops : CapabilityOf[o] = c}

SumsOf(t, S) ==
    \A field \in {"cash", "recognized", "liability", "deliveries"} : t[field] = Total(field, S)
WalletsOf(t, executions, S) ==
    /\ \A b \in Payers : executions[b] = Deliveries(b, S)
    /\ t.paying = Buyers(S, 1) /\ t.repeat = Buyers(S, 2)

\* The books agree with the rows, however copies were lost, repeated and
\* reordered: no settlement is counted twice and none is dropped by a late
\* copy, cash is either earned or owed, and a wallet pays or repeats once, by
\* the number of deliveries it bought.  The same holds of the books of each
\* outcome and Live service, over the operations that bought it.
BooksAgree ==
    /\ SumsOf(totals, Ops) /\ totals.cash = totals.recognized + totals.liability
    /\ WalletsOf(totals, wallet, Ops)
    /\ \A c \in DOMAIN share : SumsOf(share[c], Sold(c))
    /\ \A c \in Capabilities : WalletsOf(share[c], bought[c], Sold(c))

\* Unless its calls overlap or are cut off, a state the operation reached
\* reaches the books or MaxSync calls have failed.
EventuallyRecorded ==
    \A o \in Serial : \A s \in Financial :
        life[o] = s ~> (Rank[row[o]] >= Rank[s] \/ failed[o] > MaxSync)
=============================================================================
