--------------------------- MODULE AgentAuthority ----------------------------
(***************************************************************************)
(* One delegated-spend mandate (authority.js).  /consume authorizes a      *)
(* permit within the mandate, /revoke ends it.  Both handlers read the     *)
(* record, wait for the body of their request and write the record back    *)
(* outside a transaction, so two of them may both start from one record.   *)
(*                                                                         *)
(* The currency, merchant and action rules do not change the record, the   *)
(* expiry of the mandate refuses as a revocation does, and all uses fall   *)
(* on one day.                                                             *)
(***************************************************************************)
EXTENDS Naturals, FiniteSetsExt

CONSTANTS
    Callers,        \* requests that consume the mandate
    AmountOf,       \* caller: amount it asks for
    MaxUses, MaxAmount, DailyLimit,
    Unread

ASSUME AmountAssumption == AmountOf \in [Callers -> Nat]
ASSUME LimitAssumption == MaxUses \in Nat /\ MaxAmount \in Nat /\ DailyLimit \in Nat

VARIABLES
    mandate,        \* the mandate's "record"
    slow,           \* requests whose body arrives after the record was read
    seen            \* request: the record it read, when its body is still to come

Owner == "owner"
Mandates == [revoked : BOOLEAN, uses : Nat, spent : Nat]

AuthorityTypeOK ==
    /\ mandate \in Mandates
    /\ slow \subseteq Callers \cup {Owner}
    /\ seen \in [Callers \cup {Owner} -> Mandates \cup {Unread}]

\* A mandate in use; what it spent on earlier days no longer counts.
AuthorityInit ==
    /\ mandate \in [revoked : BOOLEAN, uses : 0..MaxUses, spent : 0..DailyLimit]
    /\ mandate.spent > 0 => mandate.uses > 0
    /\ slow \in SUBSET (Callers \cup {Owner})
    /\ seen = [c \in Callers \cup {Owner} |-> Unread]

ReadRecord(c) ==
    /\ c \in slow
    /\ seen[c] = Unread
    /\ seen' = [seen EXCEPT ![c] = mandate]
    /\ UNCHANGED <<mandate, slow>>

\* The record a handler works on once it has its body.
Held(c) == IF c \in slow THEN seen[c] ELSE mandate
Ready(c) == c \in slow => seen[c] # Unread
Forget(c) == seen' = [seen EXCEPT ![c] = Unread]

\* Mutant: the daily limit is compared without the new amount.
AllowsLast(record, amount) ==
    /\ ~record.revoked
    /\ record.uses < MaxUses
    /\ amount <= MaxAmount
    /\ record.spent < DailyLimit

Allows(record, amount) ==
    /\ ~record.revoked
    /\ record.uses < MaxUses
    /\ amount <= MaxAmount
    /\ record.spent + amount <= DailyLimit

Authorize(c) ==
    /\ Ready(c)
    /\ Allows(Held(c), AmountOf[c])
    /\ mandate' = [Held(c) EXCEPT !.uses = @ + 1, !.spent = @ + AmountOf[c]]
    /\ Forget(c)
    /\ UNCHANGED slow

Deny(c) ==
    /\ Ready(c)
    /\ ~Allows(Held(c), AmountOf[c])
    /\ Forget(c)
    /\ UNCHANGED <<mandate, slow>>

Revoke ==
    /\ Ready(Owner)
    /\ mandate' = [Held(Owner) EXCEPT !.revoked = TRUE]
    /\ Forget(Owner)
    /\ UNCHANGED slow
=============================================================================
