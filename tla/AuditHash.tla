----------------------------- MODULE AuditHash -----------------------------
(***************************************************************************)
(* internal/audit/hash.go: how an audit entry is sealed against its        *)
(* predecessor, and how Verify walks a table of entries.                   *)
(***************************************************************************)
EXTENDS Integers, Sequences, FiniteSets

CONSTANT Bodies   \* contents of an entry: event type, payload and timestamp

(***************************************************************************)
(* SHA-256 is taken to be injective: the hash of an entry is the sequence  *)
(* of the contents it was sealed over, and the empty string the first      *)
(* entry is sealed against is the empty sequence.                          *)
(***************************************************************************)
Hash == Seq(Bodies)

EmptyHash == << >>

Seal(prev, b) == Append(prev, b)

Row == [previousHash : Hash, body : Bodies, rowHash : Hash]

SealedRow(prev, b) ==
    [previousHash |-> prev, body |-> b, rowHash |-> Seal(prev, b)]

\* The hash the entry after the first n entries must carry.
HeadHash(entries, n) == IF n = 0 THEN EmptyHash ELSE entries[n].rowHash

\* Mutant: the comparison with the predecessor's hash is dropped.
BreaksWithoutLinkage(entries) ==
    {i \in 1..Len(entries) :
        entries[i].rowHash # Seal(entries[i].previousHash, entries[i].body)}

\* The indices at which the loop of Verify would return an error.
Breaks(entries) ==
    {i \in 1..Len(entries) :
        \/ entries[i].previousHash # HeadHash(entries, i - 1)
        \/ entries[i].rowHash # Seal(entries[i].previousHash, entries[i].body)}

\* Mutant: the index of the entry before the break is reported.
VerifyEarly(entries) ==
    IF Breaks(entries) = {}
    THEN -1
    ELSE (CHOOSE i \in Breaks(entries) : \A j \in Breaks(entries) : i <= j) - 2

\* Verify's result: the zero-based index of the first break, or -1.
Verify(entries) ==
    IF Breaks(entries) = {}
    THEN -1
    ELSE (CHOOSE i \in Breaks(entries) : \A j \in Breaks(entries) : i <= j) - 1
=============================================================================
