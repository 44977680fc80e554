---------------------------- MODULE UnitEconomics ----------------------------
(***************************************************************************)
(* pricingEconomics and executionEconomics: the operator's cost budget, in *)
(* millionths of a dollar, and the least price at which the gateway sells. *)
(* A price must leave bps/10000 of itself after the cost.  The code works  *)
(* on BigInt, so nothing overflows before the final test.                  *)
(***************************************************************************)
EXTENDS Integers

CONSTANT MaxSafe    \* Number.MAX_SAFE_INTEGER

ASSUME MaxSafeAssumption == MaxSafe \in Nat

\* XGUARD_INFRASTRUCTURE_COST_BUDGET, XGUARD_PAYMENT_COST_BUDGET and
\* XGUARD_MIN_CONTRIBUTION_BPS, when all three are set to whole numbers.
Budgets == [infra : Nat, fees : Nat, bps : {n \in Nat : n < 10000}]

Cost(b) == b.infra + b.fees

\* Mutant: the quotient rounds down.
FloorDown(b) == (Cost(b) * 10000) \div (10000 - b.bps)
\* minimum_price_usd_micros: the quotient rounds up.
MinimumPrice(b) == (Cost(b) * 10000 + (9999 - b.bps)) \div (10000 - b.bps)

Available(b, price) ==
    /\ Cost(b) <= MaxSafe
    /\ MinimumPrice(b) <= MaxSafe
    /\ price \in 1..MaxSafe
    /\ price >= MinimumPrice(b)

\* What the minimum stands for: the price leaves the margin asked for.
LeavesMargin(b, price) == (price - Cost(b)) * 10000 >= b.bps * price

\* estimated_contribution_usd_micros of a delivered execution; each attempt
\* uses the infrastructure again, the payment is made once.
Contribution(b, price, attempts) == price - attempts * b.infra - b.fees
=============================================================================
