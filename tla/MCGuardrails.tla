---------------------------- MODULE MCGuardrails ----------------------------
(* Model values for AIGuardrails.                                          *)
EXTENDS AIGuardrails

CONSTANTS c1, c2
=============================================================================
