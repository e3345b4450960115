---------------------------- MODULE AuditDamage ----------------------------
(***************************************************************************)
(* What audit.Verify (reconctl verify-chain, POST /v1/ingest/verify-chain) *)
(* says of an audit_log that was damaged outside the application, which    *)
(* itself has no UPDATE or DELETE of the table.  Damage is a field         *)
(* overwritten, a row lost, or a row written anew with a hash that fits.   *)
(***************************************************************************)
EXTENDS AuditHash

CONSTANTS MaxRows, MaxDamage   \* bounds: rows written, changes made to them

ASSUME DamageAssumption == MaxRows \in Nat /\ MaxDamage \in Nat

VARIABLES
    written,   \* the rows WriteAuditEntry committed
    stored,    \* the rows the table holds now
    damage     \* changes made so far

vars == <<written, stored, damage>>

Init ==
    /\ written = << >>
    /\ stored = << >>
    /\ damage = 0

\* WriteAuditEntry on an undisturbed table, without concurrency (AuditChain).
WriteEntry(b) ==
    /\ damage = 0
    /\ Len(written) < MaxRows
    /\ written' = Append(written, SealedRow(HeadHash(written, Len(written)), b))
    /\ stored' = written'
    /\ UNCHANGED damage

KnownHashes == {EmptyHash} \cup {written[i].rowHash : i \in 1..Len(written)}

Overwrite(i, row) ==
    /\ damage < MaxDamage
    /\ stored[i] # row
    /\ stored' = [stored EXCEPT ![i] = row]
    /\ damage' = damage + 1
    /\ UNCHANGED written

EditBody(i, b) == Overwrite(i, [stored[i] EXCEPT !.body = b])

EditPrevious(i, h) == Overwrite(i, [stored[i] EXCEPT !.previousHash = h])

EditHash(i, h) == Overwrite(i, [stored[i] EXCEPT !.rowHash = h])

Reseal(i, b) == Overwrite(i, SealedRow(HeadHash(stored, i - 1), b))

RemoveRow(i) ==
    /\ damage < MaxDamage
    /\ stored' = SubSeq(stored, 1, i - 1) \o SubSeq(stored, i + 1, Len(stored))
    /\ damage' = damage + 1
    /\ UNCHANGED written

Next ==
    \/ \E b \in Bodies : WriteEntry(b)
    \/ \E i \in 1..Len(stored) :
          \/ \E b \in Bodies : EditBody(i, b) \/ Reseal(i, b)
          \/ \E h \in KnownHashes : EditPrevious(i, h) \/ EditHash(i, h)
          \/ RemoveRow(i)

Spec == Init /\ [][Next]_vars

-----------------------------------------------------------------------------
\* Type correctness of the table as written and as stored.
TypeOK ==
    /\ written \in Seq(Row)
    /\ stored \in Seq(Row)
    /\ damage \in 0..MaxDamage

\* A table that Verify accepts and that ends in a hash that was once written is
\* the table as it stood then: the last hash stands for the whole history.
HeadPinsHistory ==
    \A n \in 0..Len(written) :
        /\ Verify(stored) = -1
        /\ HeadHash(stored, Len(stored)) = HeadHash(written, n)
        => stored = SubSeq(written, 1, n)

\* The index Verify reports is never before the first row that differs from
\* what was written: an untouched prefix is never blamed.
BlameIsNotEarly ==
    \A n \in 0..Len(stored) :
        /\ n <= Len(written)
        /\ SubSeq(stored, 1, n) = SubSeq(written, 1, n)
        => Verify(stored) = -1 \/ Verify(stored) >= n

-----------------------------------------------------------------------------
\* The inductive invariant: whatever happens to the stored rows, the rows that
\* WriteAuditEntry committed form a chain that Verify accepts.
IInv == TypeOK /\ Breaks(written) = {}
=============================================================================
