---------------------------- MODULE Identifiers ----------------------------
(***************************************************************************)
(* The bounded identifier comparison of Tier 2: normalize and levenshtein  *)
(* of internal/recon/matcher.go.                                           *)
(*                                                                         *)
(* An identifier is a sequence of runes.  Go indexes a string by bytes,    *)
(* and levenshtein uses these byte positions as the columns of its table:  *)
(* a rune of WideRunes occupies two of them.                               *)
(***************************************************************************)
EXTENDS Integers, Sequences, FiniteSets, Stripping

CONSTANTS
    WideRunes,    \* runes encoded in two bytes
    Separators,   \* the runes normalize removes
    LowerCase     \* LowerCase[r]: the lower case of the upper case rune r

\* Letters are no separators, and a lower case rune is in lower case.
ASSUME LowerCaseAssumption ==
    \A r \in DOMAIN LowerCase : /\ r \notin Separators /\ LowerCase[r] \notin Separators
                                /\ LowerCase[r] \notin DOMAIN LowerCase

ToLower(r) == IF r \in DOMAIN LowerCase THEN LowerCase[r] ELSE r

\* Mutant: only the case is normalized.
normalizeCaseOnly(s) == [i \in DOMAIN s |-> ToLower(s[i])]

normalize(s) ==
    LET kept == Strip(s, Separators)
    IN  [i \in DOMAIN kept |-> ToLower(kept[i])]

Bytes(s) == Len(s) + Cardinality({i \in DOMAIN s : s[i] \in WideRunes})

\* The byte position of the i-th rune.
Position(s, i) == Bytes(SubSeq(s, 1, i - 1))

Smaller(a, b) == IF a < b THEN a ELSE b

\* Mutant: a substitution costs nothing.
FreeSubstitution(previous, s, i, right) ==
    LET row[j \in 0..Len(right)] ==
        IF j = 0
        THEN [c \in 0..Bytes(right) |-> IF c = 0 THEN Position(s, i) + 1 ELSE 0]
        ELSE LET at == Position(right, j)
                 filled == row[j - 1]
             IN  [filled EXCEPT ![at + 1] =
                    Smaller(filled[at] + 1,
                            Smaller(previous[at + 1] + 1, previous[at]))]
    IN  row[Len(right)]

\* The row of the table for the i-th rune of s: zeros, then the first column,
\* then one column per rune of `right`, from left to right.
NextRow(previous, s, i, right) ==
    LET row[j \in 0..Len(right)] ==
        IF j = 0
        THEN [c \in 0..Bytes(right) |-> IF c = 0 THEN Position(s, i) + 1 ELSE 0]
        ELSE LET at == Position(right, j)
                 cost == IF s[i] # right[j] THEN 1 ELSE 0
                 filled == row[j - 1]
             IN  [filled EXCEPT ![at + 1] =
                    Smaller(filled[at] + 1,
                            Smaller(previous[at + 1] + 1, previous[at] + cost))]
    IN  row[Len(right)]

levenshtein(left, right) ==
    LET table[i \in 0..Len(left)] ==
        IF i = 0 THEN [c \in 0..Bytes(right) |-> c]
                 ELSE NextRow(table[i - 1], left, i, right)
    IN  table[Len(left)][Bytes(right)]

\* What Tier 2 accepts as the same identifier with at most two typing errors.
BoundedID(id, entity) == levenshtein(normalize(id), normalize(entity)) <= 2
=============================================================================
