---------------------------- MODULE PaymentStatus ----------------------------
(***************************************************************************)
(* The two status machines of the domain layer: the thirteen states of a   *)
(* payment (internal/domain/payment/status.go) and the six of a payment    *)
(* run (internal/domain/run/run.go), each with its table of legal          *)
(* transitions.  The module is pure: services and workers consult these    *)
(* tables, nothing in the database enforces them.                          *)
(***************************************************************************)

Status ==
  { "RECEIVED", "VALIDATED_LOCAL", "UNDER_REVIEW", "PREVALIDATED", "APPROVED",
    "ON_HOLD", "SUBMITTING", "SENT", "SETTLED", "FAILED", "REJECTED",
    "CANCELED", "EXPIRED" }

IsTerminal(s) == s \in {"SETTLED", "REJECTED", "CANCELED", "EXPIRED"}

Allowed ==
  UNION
  { {"RECEIVED"}        \X {"VALIDATED_LOCAL", "REJECTED", "CANCELED"},
    {"VALIDATED_LOCAL"} \X {"UNDER_REVIEW", "PREVALIDATED", "REJECTED", "CANCELED"},
    {"UNDER_REVIEW"}    \X {"VALIDATED_LOCAL", "REJECTED", "CANCELED"},
    {"PREVALIDATED"}    \X {"APPROVED", "REJECTED", "CANCELED", "EXPIRED"},
    {"APPROVED"}        \X {"SUBMITTING", "ON_HOLD", "CANCELED", "EXPIRED"},
    {"ON_HOLD"}         \X {"APPROVED", "CANCELED"},
    {"SUBMITTING"}      \X {"SUBMITTING", "SENT", "FAILED"},
    {"SENT"}            \X {"SETTLED", "FAILED"},
    {"FAILED"}          \X {"SUBMITTING"} }

CanTransition(from, to) == <<from, to>> \in Allowed

-----------------------------------------------------------------------------

RunStatus ==
  { "OPEN", "APPROVED", "EXECUTING", "PARTIALLY_SETTLED", "CLOSED", "FAILED" }

RunAllowed ==
  UNION
  { {"OPEN"}              \X {"APPROVED", "CLOSED"},
    {"APPROVED"}          \X {"EXECUTING", "FAILED"},
    {"EXECUTING"}         \X {"PARTIALLY_SETTLED", "CLOSED", "FAILED"},
    {"PARTIALLY_SETTLED"} \X {"CLOSED", "FAILED"} }

RunCanTransition(from, to) == <<from, to>> \in RunAllowed
=============================================================================
