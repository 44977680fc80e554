--------------------------- MODULE SettlementRelay ---------------------------
(***************************************************************************)
(* The public facilitator of XGuard: POST /settle as gateway.js and        *)
(* index.js of the relay handle it, with the receipt object of an          *)
(* authorization (SettlementReceipt) and the free quota of a merchant      *)
(* (MerchantQuota).                                                        *)
(*                                                                         *)
(* A payment is a signed authorization with a nonce.  On Base its use can  *)
(* be read from the chain, and the chain accepts it once; on any other     *)
(* network nothing is known of either.  A request is a Worker handling one *)
(* POST /settle; it may die at every await.  Facilitators are chosen in    *)
(* any order, may answer wrongly late, and land a payment after they       *)
(* failed to answer.                                                       *)
(***************************************************************************)
EXTENDS Naturals, FiniteSets

CONSTANTS Payments, Requests,
          Pays,          \* the payment each request carries
          Base,          \* the payments on Base
          Keyed,         \* the payments whose merchant sends a license key
          Facilitators,
          Nobody,
          FreeLimit      \* free settlements of the merchant

ASSUME RelayAssumption ==
  /\ Pays \in [Requests -> Payments]
  /\ Base \subseteq Payments /\ Keyed \subseteq Payments
  /\ IsFiniteSet(Requests) /\ Nobody \notin Requests /\ FreeLimit \in Nat

VARIABLES
  request,     \* step of each request, facilitators it tried, what it learned
  receipt,     \* the SettlementReceipt of each payment: status and token
  aged,        \* payments reserved more than two minutes ago
  quota,       \* MerchantQuota: success, pending, confirmed
  consumed,    \* idempotency keys under which credits were taken
  flying,      \* ghost: submissions that may still take effect
  paid,        \* ghost: how often a payment reached the merchant
  canceled     \* ghost: authorizations the payer canceled on the chain

vars == <<request, receipt, aged, quota, consumed, flying, paid, canceled>>
world == <<flying, paid, canceled>>

Fresh == [step |-> "arriving", tried |-> {}, final |-> "none"]
NoReceipt == [status |-> "none", token |-> Nobody]

Goto(r, step) == request' = [request EXCEPT ![r].step = step]
Conclude(r, step, final) == request' = [request EXCEPT ![r] = [@ EXCEPT !.step = step,
                                                                        !.final = final]]
At(r, step) == request[r].step = step

(***************************************************************************)
(* The chain and the facilitators.                                         *)
(***************************************************************************)

Unused(p) == paid[p] = 0 /\ p \notin canceled

\* On Base a nonce is spent once; elsewhere nothing stops a second payment.
CanLand(p) == p \in Base => Unused(p)

Land(r) ==
  /\ \E s \in flying :
       /\ s[1] = r /\ CanLand(Pays[r])
       /\ flying' = flying \ {s}
       /\ paid' = [paid EXCEPT ![Pays[r]] = @ + 1]
  /\ UNCHANGED <<request, receipt, aged, quota, consumed, canceled>>

Cancel(p) ==
  /\ p \in Base /\ Unused(p)
  /\ canceled' = canceled \cup {p}
  /\ UNCHANGED <<request, receipt, aged, quota, consumed, flying, paid>>

(***************************************************************************)
(* The receipt object: /reserve, /release, /record in one transaction.     *)
(***************************************************************************)

\* /reserve is acquired only when there is neither a record nor a reservation.
CanReserve(p) == receipt[p].status = "none"
ReserveReceipt(r) ==
  receipt' = [receipt EXCEPT ![Pays[r]] = [status |-> "pending", token |-> r]]

ReleaseReceipt(r) ==
  receipt' = IF receipt[Pays[r]] = [status |-> "pending", token |-> r]
             THEN [receipt EXCEPT ![Pays[r]] = NoReceipt] ELSE receipt

RecordReceipt(p) == receipt' = [receipt EXCEPT ![p] = [status |-> "confirmed", token |-> Nobody]]

(***************************************************************************)
(* The merchant quota.                                                     *)
(***************************************************************************)

QuotaLeft == quota.success + Cardinality(quota.pending) < FreeLimit
AdmitFree(p) == quota' = [quota EXCEPT !.pending = @ \cup {p}]
ReleaseFree(p) == quota' = [quota EXCEPT !.pending = @ \ {p}]

\* confirm: a nonce counts once; without force only while it is pending.
Counts(p, force) == p \notin quota.confirmed /\ (force \/ p \in quota.pending)
ConfirmFree(p, force) ==
  quota' = IF Counts(p, force)
           THEN [success |-> quota.success + 1, pending |-> quota.pending \ {p},
                 confirmed |-> quota.confirmed \cup {p}]
           ELSE quota

PendingLapses(p) ==
  /\ p \in quota.pending
  /\ ReleaseFree(p)
  /\ UNCHANGED <<request, receipt, aged, consumed, world>>

\* Mutant: every request bills under a key of its own.
RequestKey(r) == <<Pays[r], r>>

\* The key under which the billing service takes the credits of a settlement.
BillingKey(r) == <<Pays[r], "settlement">>

\* Credits of the license or the free quota, by what the merchant sent; a
\* failed call is only logged.
Charge(r, force) ==
  \/ /\ Pays[r] \in Keyed
     /\ consumed' = consumed \cup {BillingKey(r)}
     /\ UNCHANGED quota
  \/ /\ Pays[r] \notin Keyed
     /\ ConfirmFree(Pays[r], force)
     /\ UNCHANGED consumed
  \/ UNCHANGED <<quota, consumed>>

(***************************************************************************)
(* gateway.js handleSettle, up to the relay.                               *)
(***************************************************************************)

\* A confirmed receipt is the answer; a pending one is reconciled when it is
\* two minutes old and otherwise reported; without one the relay settles.
Arrive(r) ==
  LET p == Pays[r] IN
  /\ At(r, "arriving")
  /\ Goto(r, CASE receipt[p].status = "none" -> "verifying"
               [] receipt[p].status = "confirmed" -> "answered"
               [] OTHER -> IF p \in aged THEN "retrying" ELSE "answered")
  /\ UNCHANGED <<receipt, aged, quota, consumed, world>>

\* Mutant: a used nonce is taken for the transfer.
NonceUsed(p) == p \in Base /\ ~Unused(p)

\* recoverLateBase: the transfer itself must be in a receipt of the chain, a
\* used nonce is not enough.  Reading may fail until the window is over.
TransferFound(p) == p \in Base /\ paid[p] > 0

\* The reconciliation of an identical retry: recorded first, charged after.
RetryReconciles(r) ==
  /\ At(r, "retrying")
  /\ \/ /\ TransferFound(Pays[r])
        /\ RecordReceipt(Pays[r])
        /\ Goto(r, "recovered")
     \/ Goto(r, "answered") /\ UNCHANGED receipt
  /\ UNCHANGED <<aged, quota, consumed, world>>

RetryCharges(r) ==
  /\ At(r, "recovered")
  /\ Charge(r, TRUE)
  /\ Goto(r, "answered")
  /\ UNCHANGED <<receipt, aged, world>>

(***************************************************************************)
(* index.js doSettle.                                                      *)
(***************************************************************************)

\* A fresh verification; a refusal or an outage ends the request.
Verify(r) ==
  /\ At(r, "verifying")
  /\ Goto(r, "reserving") \/ Goto(r, "answered")
  /\ UNCHANGED <<receipt, aged, quota, consumed, world>>

Reserve(r) ==
  LET p == Pays[r] IN
  /\ At(r, "reserving")
  /\ IF CanReserve(p)
     THEN ReserveReceipt(r) /\ aged' = aged \ {p} /\ Goto(r, "admitting")
     ELSE Goto(r, "answered") /\ UNCHANGED <<receipt, aged>>
  /\ UNCHANGED <<quota, consumed, world>>

\* The balance of the license, or a place in the free quota; either call may
\* refuse or fail.
Admit(r) ==
  LET p == Pays[r] IN
  /\ At(r, "admitting")
  /\ \/ p \in Keyed /\ Goto(r, "routing") /\ UNCHANGED quota
     \/ /\ p \notin Keyed /\ QuotaLeft
        /\ AdmitFree(p)
        /\ Goto(r, "routing") \/ Goto(r, "releasing")
     \/ Goto(r, "releasing") /\ UNCHANGED quota
  /\ UNCHANGED <<receipt, aged, consumed, world>>

\* finally: a reservation that was never submitted is given back.
Release(r) ==
  /\ At(r, "releasing")
  /\ ReleaseReceipt(r)
  /\ Goto(r, "answered")
  /\ UNCHANGED <<aged, quota, consumed, world>>

\* callUpstream: settled, declined, rate limited, or a failure or timeout
\* that may still take effect.
Submit(r) ==
  /\ At(r, "routing")
  /\ \E f \in Facilitators \ request[r].tried :
       \E answer \in {"settled", "declined", "limited", "unknown"} :
         /\ answer = "settled" => CanLand(Pays[r])
         /\ request' = [request EXCEPT ![r] =
              [step |-> "sent", tried |-> @.tried \cup {f}, final |-> answer]]
         /\ paid' = IF answer = "settled" THEN [paid EXCEPT ![Pays[r]] = @ + 1] ELSE paid
         /\ flying' = IF answer = "unknown" THEN flying \cup {<<r, f>>} ELSE flying
  /\ UNCHANGED <<receipt, aged, quota, consumed, canceled>>

\* Mutant: any failure lets another facilitator be asked.
AlwaysFailOver(r) == TRUE

\* Another facilitator may be asked after this answer: on Base when the chain
\* shows the nonce unused, elsewhere only when the answer was a plain 429.
MayFailOver(r) == IF Pays[r] \in Base THEN Unused(Pays[r]) ELSE request[r].final = "limited"

FailOver(r) ==
  /\ At(r, "sent") /\ request[r].final \in {"limited", "unknown"}
  /\ MayFailOver(r)
  /\ Goto(r, IF request[r].tried = Facilitators THEN "failed" ELSE "routing")
  /\ UNCHANGED <<receipt, aged, quota, consumed, world>>

\* recoverBase found the transfer after the facilitator failed.
Recover(r) ==
  /\ At(r, "sent") /\ request[r].final \in {"limited", "unknown"}
  /\ TransferFound(Pays[r])
  /\ Conclude(r, "settled", "settled")
  /\ UNCHANGED <<receipt, aged, quota, consumed, world>>

\* Used in another way, not readable, or on another network: fail closed.
FailClosed(r) ==
  /\ At(r, "sent") /\ request[r].final \in {"limited", "unknown"}
  /\ Pays[r] \notin Base => request[r].final # "limited"
  /\ Conclude(r, "failed", "ambiguous")
  /\ UNCHANGED <<receipt, aged, quota, consumed, world>>

Answered(r) ==
  /\ At(r, "sent") /\ request[r].final \in {"settled", "declined"}
  /\ Goto(r, IF request[r].final = "settled" THEN "settled" ELSE "failed")
  /\ UNCHANGED <<receipt, aged, quota, consumed, world>>

\* Confirmed evidence is stored before accounting; a failed write ends the
\* request and leaves the reservation.
Record(r) ==
  /\ At(r, "settled")
  /\ \/ RecordReceipt(Pays[r]) /\ Goto(r, "charging")
     \/ Goto(r, "answered") /\ UNCHANGED receipt
  /\ UNCHANGED <<aged, quota, consumed, world>>

Account(r) ==
  /\ At(r, "charging")
  /\ Charge(r, FALSE)
  /\ Goto(r, "answered")
  /\ UNCHANGED <<receipt, aged, world>>

\* A settlement that did not succeed gives its place in the quota back.  A
\* response of 500 or more goes through the late recovery of the gateway.
Failed(r) ==
  /\ At(r, "failed")
  /\ IF Pays[r] \in Keyed THEN UNCHANGED quota ELSE ReleaseFree(Pays[r])
  /\ Goto(r, IF request[r].final \in {"declined", "limited"} THEN "answered" ELSE "late")
  /\ UNCHANGED <<receipt, aged, consumed, world>>

\* gateway.js after the relay: here the charge comes before the record.
LateReconciles(r) ==
  /\ At(r, "late")
  /\ \/ TransferFound(Pays[r]) /\ Charge(r, TRUE) /\ Goto(r, "recording")
     \/ Goto(r, "answered") /\ UNCHANGED <<quota, consumed>>
  /\ UNCHANGED <<receipt, aged, world>>

LateRecords(r) ==
  /\ At(r, "recording")
  /\ \/ RecordReceipt(Pays[r])
     \/ UNCHANGED receipt
  /\ Goto(r, "answered")
  /\ UNCHANGED <<aged, quota, consumed, world>>

(***************************************************************************)
(* Time and crashes.                                                       *)
(***************************************************************************)

Age(p) ==
  /\ receipt[p].status = "pending" /\ p \notin aged
  /\ aged' = aged \cup {p}
  /\ UNCHANGED <<request, receipt, quota, consumed, world>>

Crash(r) ==
  /\ request[r].step \notin {"arriving", "answered"}
  /\ Goto(r, "answered")
  /\ UNCHANGED <<receipt, aged, quota, consumed, world>>

Init ==
  /\ request = [r \in Requests |-> Fresh]
  /\ receipt = [p \in Payments |-> NoReceipt]
  /\ aged = {}
  /\ quota = [success |-> 0, pending |-> {}, confirmed |-> {}]
  /\ consumed = {} /\ flying = {}
  /\ paid = [p \in Payments |-> 0] /\ canceled = {}

Next ==
  \/ \E r \in Requests :
       \/ Arrive(r) \/ RetryReconciles(r) \/ RetryCharges(r)
       \/ Verify(r) \/ Reserve(r) \/ Admit(r) \/ Release(r)
       \/ Submit(r) \/ FailOver(r) \/ Recover(r) \/ FailClosed(r) \/ Answered(r)
       \/ Record(r) \/ Account(r) \/ Failed(r)
       \/ LateReconciles(r) \/ LateRecords(r) \/ Crash(r) \/ Land(r)
  \/ \E p \in Payments : Cancel(p) \/ PendingLapses(p) \/ Age(p)

Spec == Init /\ [][Next]_vars

(***************************************************************************)
(* Properties                                                              *)
(***************************************************************************)

\* However requests, retries and facilitators race, a signed authorization
\* pays the merchant at most once, also where the chain would not refuse the
\* second payment.
PaysOnce == \A p \in Payments : paid[p] <= 1

\* A confirmed receipt stands for a transfer to the merchant; a nonce that was
\* used in another way never confirms one.
ConfirmedIsPaid == \A p \in Payments : receipt[p].status = "confirmed" => paid[p] > 0

\* A failed settlement costs nothing, and a settlement that was recovered as
\* well as answered costs its credits or its free place once.
ChargedOnce ==
  /\ \A p \in Payments : Cardinality({key \in consumed : key[1] = p}) <= 1
  /\ \A key \in consumed : paid[key[1]] > 0
  /\ \A p \in quota.confirmed : paid[p] > 0
  /\ quota.success = Cardinality(quota.confirmed)
=============================================================================
