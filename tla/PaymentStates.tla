---------------------------- MODULE PaymentStates ----------------------------
(***************************************************************************)
(* The two state graphs a paid operation moves through: the financial      *)
(* status (core/payment-rail.js) and the execution lifecycle that every    *)
(* lifecycle_version 1 record carries beside it (core/payment-lifecycle.js).*)
(* Only the states and edges are kept; timestamps, sequence numbers and    *)
(* event lists are left out.                                               *)
(***************************************************************************)

\* "none" is an operation object that holds no record yet.
Statuses == {"none", "pending", "verified", "settled", "succeeded",
             "failed", "ambiguous", "refunded", "credited"}

PaymentTransitions ==
    [s \in Statuses |->
        CASE s = "pending"   -> {"verified", "failed", "ambiguous"}
          [] s = "verified"  -> {"settled", "failed", "ambiguous"}
          [] s = "ambiguous" -> {"settled", "failed", "ambiguous"}
          [] s = "settled"   -> {"succeeded", "credited"}
          [] s = "credited"  -> {"succeeded", "credited"}
          [] s = "succeeded" -> {"succeeded"}
          [] s = "failed"    -> {"failed"}
          [] s = "refunded"  -> {"refunded"}
          [] OTHER           -> {}]

PaymentStateCanTransition(from, to) == to \in PaymentTransitions[from]

\* "INVALID" stands for the exception advanceLifecycle throws.
LifecycleStates ==
    {"none", "PAYMENT_PRESENTED", "VERIFIED", "SETTLEMENT_RESERVED",
     "SETTLEMENT_PENDING", "SETTLEMENT_AMBIGUOUS", "RECONCILIATION_REQUIRED",
     "SETTLED", "EXECUTION_STARTED", "EXECUTED",
     "EXECUTION_FAILED_AFTER_SETTLEMENT", "RECOVERY_CREDIT_ISSUED",
     "RECEIPT_ISSUED", "REJECTED", "EXPIRED", "REPLAYED", "INVALID"}

ExecutionStates ==
    [s \in LifecycleStates |->
        CASE s = "PAYMENT_PRESENTED"       -> {"VERIFIED", "REJECTED", "EXPIRED", "REPLAYED"}
          [] s = "VERIFIED"                -> {"SETTLEMENT_RESERVED", "REJECTED"}
          [] s = "SETTLEMENT_RESERVED"     -> {"SETTLEMENT_PENDING", "SETTLEMENT_AMBIGUOUS"}
          [] s = "SETTLEMENT_PENDING"      -> {"SETTLED", "SETTLEMENT_AMBIGUOUS", "REJECTED"}
          [] s = "SETTLEMENT_AMBIGUOUS"    -> {"RECONCILIATION_REQUIRED"}
          [] s = "RECONCILIATION_REQUIRED" -> {"SETTLED", "REJECTED"}
          [] s = "SETTLED"                 -> {"EXECUTION_STARTED"}
          [] s = "EXECUTION_STARTED"       -> {"EXECUTED", "EXECUTION_FAILED_AFTER_SETTLEMENT"}
          [] s = "EXECUTED"                -> {"RECEIPT_ISSUED"}
          [] s = "EXECUTION_FAILED_AFTER_SETTLEMENT" -> {"RECOVERY_CREDIT_ISSUED"}
          [] s = "RECOVERY_CREDIT_ISSUED"  -> {"EXECUTION_STARTED"}
          [] OTHER                         -> {}]

AdvanceLifecycle(life, next) ==
    IF life = next \/ next \in ExecutionStates[life] THEN next ELSE "INVALID"

\* The lifecycle edges one financial status change walks.
FinancialLifecycle(life, next) ==
    CASE next = "verified"  -> AdvanceLifecycle(life, "VERIFIED")
      [] next = "settled"   -> AdvanceLifecycle(life, "SETTLED")
      [] next = "failed"    -> AdvanceLifecycle(life, "REJECTED")
      [] next = "ambiguous" ->
            IF life = "RECONCILIATION_REQUIRED" THEN life
            ELSE AdvanceLifecycle(AdvanceLifecycle(life, "SETTLEMENT_AMBIGUOUS"),
                                  "RECONCILIATION_REQUIRED")
      [] next = "credited"  ->
            AdvanceLifecycle(AdvanceLifecycle(life, "EXECUTION_FAILED_AFTER_SETTLEMENT"),
                             "RECOVERY_CREDIT_ISSUED")
      [] next = "succeeded" ->
            AdvanceLifecycle(AdvanceLifecycle(life, "EXECUTED"), "RECEIPT_ISSUED")
      [] OTHER -> life

=============================================================================
