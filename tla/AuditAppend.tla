---------------------------- MODULE AuditAppend ----------------------------
(***************************************************************************)
(* What WriteAuditEntry promises its callers, the ingestion pipeline and   *)
(* the matching engine: a call appends one entry, sealed against the last  *)
(* one there is, in a single step, or fails and appends none.  The modules *)
(* of the callers take it for such a step.                                 *)
(***************************************************************************)
EXTENDS AuditHash

CONSTANT Writers

VARIABLES
    log,       \* the audit log
    pending    \* pending[w]: the entry w has asked to append, in a sequence

vars == <<log, pending>>

Init ==
    /\ log = << >>
    /\ pending = [w \in Writers |-> << >>]

Call(w, b) ==
    /\ pending[w] = << >>
    /\ pending' = [pending EXCEPT ![w] = <<b>>]
    /\ UNCHANGED log

AppendEntry(w) ==
    /\ pending[w] # << >>
    /\ log' = Append(log, SealedRow(HeadHash(log, Len(log)), pending[w][1]))
    /\ pending' = [pending EXCEPT ![w] = << >>]

Fail(w) ==
    /\ pending[w] # << >>
    /\ pending' = [pending EXCEPT ![w] = << >>]
    /\ UNCHANGED log

Next ==
    \E w \in Writers :
        \/ \E b \in Bodies : Call(w, b)
        \/ AppendEntry(w)
        \/ Fail(w)

Spec == Init /\ [][Next]_vars
=============================================================================
