---------------------------- MODULE CardNumbers ----------------------------
(***************************************************************************)
(* RejectPossiblePAN of internal/schema/pan.go, with which Validate turns  *)
(* away a payload that holds a card number.                                *)
(*                                                                         *)
(* A payload is a sequence of bytes, and a byte stands for its distance    *)
(* from '0': the digits are 0..9.                                          *)
(***************************************************************************)
EXTENDS Integers, Sequences, FiniteSetsExt, Stripping

CONSTANTS
    Spaces,         \* space, hyphen and the bytes unicode.IsSpace accepts
    MinRun, MaxRun  \* the digit runs looked at: 13 to 19 in the code

Digit == 0..9

ASSUME CardAssumption ==
    /\ Spaces \cap Digit = {}
    /\ MinRun \in Nat \ {0} /\ MaxRun \in Nat

stripSeparators(raw) == Strip(raw, Spaces)

\* Mutant: doubling a digit over 4 keeps both of its digits.
luhnWithoutCarry(digits) ==
    LET sum[i \in 0..Len(digits)] ==
        IF i = 0 THEN 0
        ELSE sum[i - 1] + (IF (Len(digits) - i) % 2 = 1 THEN 2 * digits[i] ELSE digits[i])
    IN  sum[Len(digits)] % 10 = 0

Doubled(d) == IF 2 * d > 9 THEN 2 * d - 9 ELSE 2 * d

\* Every second digit from the right counts double.
luhnValid(digits) ==
    LET sum[i \in 0..Len(digits)] ==
        IF i = 0 THEN 0
        ELSE sum[i - 1] + (IF (Len(digits) - i) % 2 = 1 THEN Doubled(digits[i]) ELSE digits[i])
    IN  /\ \A i \in DOMAIN digits : digits[i] \in Digit
        /\ sum[Len(digits)] % 10 = 0

\* The length of the digit run at i, as far as the pattern reads it.
RunLength(s, i) ==
    Max({n \in 0..MaxRun : i + n - 1 <= Len(s) /\ \A k \in i..(i + n - 1) : s[k] \in Digit})

\* FindAll: the runs from left to right, each as long as it can be, none
\* overlapping the one before, which ends at `past`.
DigitRuns(s) ==
    LET scan[i \in 0..Len(s)] ==
        IF i = 0 THEN [runs |-> {}, past |-> 0]
        ELSE LET before == scan[i - 1]
                 n == RunLength(s, i)
             IN  IF i <= before.past \/ n < MinRun THEN before
                 ELSE [runs |-> before.runs \cup {SubSeq(s, i, i + n - 1)},
                       past |-> i + n - 1]
    IN  scan[Len(s)].runs

RejectPossiblePAN(raw) == \E run \in DigitRuns(stripSeparators(raw)) : luhnValid(run)
=============================================================================
