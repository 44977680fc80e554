---------------------------- MODULE PaidAdmission -----------------------------
(***************************************************************************)
(* What comes before a payment is settled: the price of an offer under the *)
(* configuration of a deployment (gatewayConfig), the signed quote         *)
(* (issueQuote), and the checks of handlePaidWebFetch that bind a payment  *)
(* to its quote, its input and a facilitator, up to the record that        *)
(* PaidGateway goes on from.  Deployments change the configuration while   *)
(* quotes are out; old and new isolates serve side by side.                *)
(*                                                                         *)
(* Signatures are not modelled: a quote is what some isolate signed.       *)
(***************************************************************************)
EXTENDS GatewayCircuits, UnitEconomics, FiniteSets

CONSTANTS
    Requests, Quotes, Auths, Inputs,
    EnvOf,          \* isolate: the environment of its deployment
    Fallbacks,      \* XGUARD_PAID_FACILITATOR_FALLBACKS
    QuoteFor,       \* life of a quote (300 s)
    MaxNow,         \* bounds the clock
    None

\* A plain fetch and its testnet route, an outcome, a Live service, and a
\* seller's product, of whose price the gateway keeps a fee.
Offers == {"fetch", "testnet", "outcome", "live", "seller"}

\* An environment: "open" is what does not depend on the offer (recipient,
\* facilitator and payment environment are set and agree with the network).
Environments ==
    [payTo : STRING, price : [Offers -> Nat], keeps : [Offers -> Nat],
     mainnet : BOOLEAN, testnet : BOOLEAN, payable : [Offers -> BOOLEAN],
     budgeted : BOOLEAN, budget : Budgets, liveInfra : Nat,
     rail : [{"mainnet", "testnet"} -> Rails]]

ASSUME EnvAssumption == EnvOf \in [Isolates -> Environments]
ASSUME FallbackAssumption == Fallbacks \subseteq Rails
ASSUME AdmissionAssumption ==
    QuoteFor \in Nat /\ MaxNow \in Nat /\ None \notin Quotes \cup Auths \cup Rails

VARIABLES
    quote,      \* quotes issued
    req,        \* where each request is
    reserved,        \* gateway index: the authorization an identifier is reserved for
    op          \* operation objects: the record of each authorization

admission == <<now, rail, live, ready, quote, req, reserved, op>>

-----------------------------------------------------------------------------
(* gatewayConfig *)

Network(o) == IF o = "testnet" THEN "testnet" ELSE "mainnet"

\* An outcome may fetch six sources; a Live service has a budget of its own.
BudgetOf(d, o) ==
    LET b == EnvOf[d].budget IN
    CASE o = "live" -> [b EXCEPT !.infra = EnvOf[d].liveInfra]
      [] o \in {"outcome", "seller"} -> [b EXCEPT !.infra = b.infra * 6]
      [] OTHER -> b

\* config.configured
Configured(d, o) ==
    /\ IF o = "testnet" THEN EnvOf[d].testnet ELSE EnvOf[d].mainnet
    /\ EnvOf[d].payable[o]
    /\ EnvOf[d].budgeted
    /\ Available(BudgetOf(d, o), EnvOf[d].keeps[o])

\* paymentRequirements: what a payment must say, and pay.
Terms(d, o) ==
    [network |-> Network(o), payTo |-> EnvOf[d].payTo, amount |-> EnvOf[d].price[o]]

AllTerms == {Terms(d, o) : d \in Isolates, o \in Offers}

NoQuote == [known |-> FALSE]
NoOp == [status |-> "none"]
Waiting == [step |-> "idle"]

AdmissionInit ==
    /\ now = 0
    /\ rail = [u \in Rails |-> NoRail]
    /\ live = NoLive
    /\ ready = [d \in Isolates |-> NotReady]
    /\ quote = [q \in Quotes |-> NoQuote]
    /\ req = [r \in Requests |-> Waiting]
    /\ reserved = [q \in Quotes |-> None]
    /\ op = [a \in Auths |-> NoOp]

Goto(r, step) == req' = [req EXCEPT ![r].step = step]

\* issueQuote: the terms, the budget and the input are signed.  (An offer's
\* preflight asks the same questions and signs nothing.)
Issue(q, d, o, i) ==
    /\ ~quote[q].known
    /\ Configured(d, o)
    /\ quote' = [quote EXCEPT ![q] =
          [known |-> TRUE, offer |-> o, input |-> i, terms |-> Terms(d, o),
           keeps |-> EnvOf[d].keeps[o], budget |-> BudgetOf(d, o),
           expires |-> now + QuoteFor]]
    /\ UNCHANGED <<now, circuits, req, reserved, op>>

-----------------------------------------------------------------------------
(* A request with a payment header. *)

\* livePaidFetch: refused unless the isolate believes it is ready ...
AskReady(r, d) ==
    /\ req[r].step = "idle"
    /\ Probe(d)
    /\ req' = [req EXCEPT ![r] = [step |-> IF ready'[d].ok THEN "ready" ELSE "done", at |-> d]]
    /\ UNCHANGED <<now, rail, live, quote, reserved, op>>

\* Mutant: a readiness that was cached is believed.
TrustCache == TRUE
MayBuy == ~Paused
\* ... and, whatever it cached, the shared circuit is asked again.
Regate(r) ==
    /\ req[r].step = "ready"
    /\ Goto(r, IF MayBuy THEN "gated" ELSE "done")
    /\ UNCHANGED <<now, circuits, quote, reserved, op>>

\* Mutant: the price may have changed since the quote.
SameRecipient(q, d, o) ==
    /\ quote[q].terms.network = Network(o)
    /\ quote[q].terms.payTo = EnvOf[d].payTo
SameTerms(q, d, o) == quote[q].terms = Terms(d, o)

\* The checks of the quote: signed, for this offer and this input, not expired,
\* and equal to the configuration of the isolate that serves.
QuoteValid(q, d, o, i) ==
    /\ quote[q].known /\ quote[q].offer = o
    /\ now < quote[q].expires
    /\ Configured(d, o)
    /\ quote[q].input = i
    /\ SameTerms(q, d, o)

\* What is signed is compared with the terms here for all but a plain fetch,
\* which leaves that to the facilitator.
PayloadBound(d, o, pays) ==
    o \in {"outcome", "live", "seller"} => pays = Terms(d, o)

Arrived(r, d, o) ==
    IF o = "live" THEN req[r].step = "gated" /\ req[r].at = d ELSE req[r].step = "idle"

\* The payload accepts the terms that the isolate serves.
Present(r, d, o, i, q) ==
    /\ Arrived(r, d, o)
    /\ QuoteValid(q, d, o, i)
    /\ \E a \in Auths, pays \in AllTerms :
          /\ PayloadBound(d, o, pays)
          /\ req' = [req EXCEPT ![r] =
               [step |-> "bound", at |-> d, offer |-> o, input |-> i, q |-> q, auth |-> a,
                pays |-> pays, rail |-> EnvOf[d].rail[Network(o)]]]
    /\ UNCHANGED <<now, circuits, quote, reserved, op>>

\* Any other quote or payload is refused, for a Live service perhaps by an error.
Refuse(r) ==
    /\ req[r].step \in {"idle", "gated"}
    /\ Goto(r, "done")
    /\ (req[r].step = "gated" /\ LiveFailure) \/ UNCHANGED live
    /\ UNCHANGED <<now, rail, ready, quote, reserved, op>>

\* /index/reserve; a replay goes on with the record (PaidGateway).
Reserve(r) ==
    LET q == req[r].q IN
    /\ req[r].step = "bound"
    /\ \/ reserved[q] = None /\ reserved' = [reserved EXCEPT ![q] = req[r].auth] /\ Goto(r, "select")
       \/ reserved[q] # None /\ UNCHANGED reserved /\ Goto(r, "done")
    /\ UNCHANGED <<now, circuits, quote, op>>

\* A failed or slow purchase is reported by waitUntil, which may not be run.
Reported(r) == (req[r].offer = "live" /\ LiveFailure) \/ UNCHANGED live

SelectFacilitator(r) ==
    LET u == req[r].rail
        fallbacks == IF req[r].offer = "testnet" THEN {} ELSE Fallbacks \ {u} IN
    /\ req[r].step = "select"
    /\ \/ \E v \in Selectable(u, fallbacks) :
             req' = [req EXCEPT ![r] = [@ EXCEPT !.rail = v, !.step = "begin"]]
          /\ UNCHANGED <<live, reserved>>
       \/ \* no rail is left, or the health object or a fallback did not answer
          /\ Goto(r, "done")
          /\ reserved' = [reserved EXCEPT ![req[r].q] = None]
          /\ Reported(r)
    /\ UNCHANGED <<now, rail, ready, quote, op>>

\* /operation/begin
Begin(r) ==
    LET a == req[r].auth IN
    /\ req[r].step = "begin"
    /\ \/ /\ op[a].status = "none"
          /\ op' = [op EXCEPT ![a] =
                [status |-> "pending", q |-> req[r].q, input |-> req[r].input,
                 terms |-> Terms(req[r].at, req[r].offer), pays |-> req[r].pays,
                 budget |-> quote[req[r].q].budget,
                 floor |-> BudgetOf(req[r].at, req[r].offer),
                 keeps |-> EnvOf[req[r].at].keeps[req[r].offer], rail |-> req[r].rail]]
          /\ Goto(r, "verify") /\ UNCHANGED reserved
       \/ /\ op[a].status # "none"
          /\ reserved' = IF op[a].q = req[r].q THEN reserved ELSE [reserved EXCEPT ![req[r].q] = None]
          /\ Goto(r, "done") /\ UNCHANGED op
    /\ UNCHANGED <<now, circuits, quote>>

\* An observation whose call fails is dropped.
Seen(r, phase, ok, counted) == Observe(req[r].rail, phase, ok, counted) \/ UNCHANGED rail

Conclude(r, status, step) ==
    /\ op' = [op EXCEPT ![req[r].auth].status = status]
    /\ Goto(r, step)

\* The facilitator's /verify: valid only if what was signed pays the terms.
Verify(r) ==
    /\ req[r].step = "verify"
    /\ \/ /\ req[r].pays = op[req[r].auth].terms
          /\ Seen(r, "verify", TRUE, FALSE) /\ Conclude(r, "verified", "settle")
       \/ Seen(r, "verify", FALSE, FALSE) /\ Conclude(r, "failed", "done")   \* refused
       \/ Seen(r, "verify", FALSE, TRUE) /\ Conclude(r, "failed", "done")    \* no answer
    /\ UNCHANGED <<now, live, ready, quote, reserved>>

\* Its /settle: settled; refused; or without a usable answer, which counts
\* against the rail whether the payment failed or is ambiguous (503).
Settle(r) ==
    /\ req[r].step = "settle"
    /\ \/ Seen(r, "settle", TRUE, FALSE) /\ Conclude(r, "settled", "done") /\ Reported(r)
       \/ /\ \E counted \in BOOLEAN : Seen(r, "settle", FALSE, counted)
          /\ Conclude(r, "failed", "done") /\ UNCHANGED live
       \/ Seen(r, "settle", FALSE, TRUE) /\ Conclude(r, "ambiguous", "done") /\ Reported(r)
    /\ UNCHANGED <<now, ready, quote, reserved>>

\* The owner ends a pause.
Reset ==
    /\ live # NoLive
    /\ ResetLive
    /\ UNCHANGED <<now, rail, ready, quote, req, reserved, op>>

Tick == now < MaxNow /\ now' = now + 1 /\ UNCHANGED <<circuits, quote, req, reserved, op>>

Step(r) ==
    \/ Regate(r) \/ Refuse(r) \/ Reserve(r) \/ SelectFacilitator(r) \/ Begin(r) \/ Verify(r) \/ Settle(r)

AdmissionNext ==
    \/ \E q \in Quotes, d \in Isolates, o \in Offers, i \in Inputs : Issue(q, d, o, i)
    \/ \E r \in Requests, d \in Isolates : AskReady(r, d)
    \/ \E r \in Requests, d \in Isolates, o \in Offers, i \in Inputs, q \in Quotes :
          Present(r, d, o, i, q)
    \/ \E r \in Requests : Step(r)
    \/ Reset \/ Tick

AdmissionSpec == AdmissionInit /\ [][AdmissionNext]_admission

-----------------------------------------------------------------------------
\* Whatever was deployed between the quote and the payment, an operation has
\* the terms and the input that were quoted, its price leaves the margin of the
\* budget it was quoted under and of the budget it is served under, and a
\* payment that verifies pays those terms (issueQuote, handlePaidWebFetch).
QuoteKept ==
    \A a \in Auths : op[a].status # "none" =>
        LET q == quote[op[a].q] IN
        /\ op[a].terms = q.terms /\ op[a].input = q.input
        /\ LeavesMargin(q.budget, q.keeps) /\ LeavesMargin(op[a].floor, op[a].keeps)
        /\ op[a].status \in {"verified", "settled", "ambiguous"} => op[a].pays = q.terms

\* The settlements among the observations of a rail from number k on.
Settlements(u, k) ==
    {j \in k..Len(rail[u].seen) :
        LET e == rail[u].seen[j] IN e.phase = "settle" /\ (e.ok \/ e.counted)}

\* A rail whose last TripAfter settlements failed, one of them within OpenFor,
\* whatever it verified since.
Failing(u) ==
    \E k \in DOMAIN rail[u].seen :
        /\ Cardinality(Settlements(u, k)) >= TripAfter
        /\ \A j \in Settlements(u, k) : ~rail[u].seen[j].ok
        /\ \E j \in Settlements(u, k) : rail[u].seen[j].at + OpenFor > now

\* A pause of the Live services is never cut short by a new window or a later
\* failure, only by the owner.
PauseLasts == Paused => live'.until >= live.until \/ live' = NoLive
\* No request passes its gate on what an isolate remembers of the time before.
GateAsks ==
    \A r \in Requests : req[r].step # "gated" /\ req'[r].step = "gated" => ~Paused

\* A failing rail is not chosen, a pause holds and every gate asks for it
\* (recordPaymentHealth, /live/health, livePaidFetch).
CircuitsKept ==
    [][(\A u \in Rails : Failing(u)' => RailOpen(u)') /\ PauseLasts /\ GateAsks]_admission
=============================================================================
