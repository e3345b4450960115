--------------------------- MODULE MCAuditDamage ---------------------------
(* Model values for AuditDamage.                                           *)
EXTENDS AuditDamage
CONSTANTS b1, b2
=============================================================================
