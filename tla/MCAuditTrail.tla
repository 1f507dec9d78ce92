---------------------------- MODULE MCAuditTrail ----------------------------
(* Two commands and a queue of abandoned outcomes that one of them fills.      *)
EXTENDS AuditTrail
=============================================================================
