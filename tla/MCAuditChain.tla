---------------------------- MODULE MCAuditChain ----------------------------
(* Model values for AuditChain.                                            *)
EXTENDS AuditChain

CONSTANTS w1, w2, w3, b1, b2

MCWriters == {w1, w2, w3}
MCBodies == {b1, b2}
=============================================================================
