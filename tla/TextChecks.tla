----------------------------- MODULE TextChecks -----------------------------
(***************************************************************************)
(* levenshtein, normalize and RejectPossiblePAN against what they promise, *)
(* on every pair of identifiers up to MaxLength runes and every payload up *)
(* to MaxPayload bytes.  They are typed one rune or byte at a time, so     *)
(* that each is a reachable state.                                         *)
(***************************************************************************)
EXTENDS Identifiers, CardNumbers

CONSTANTS
    Runes, MaxLength,     \* the runes of an identifier, and how many it has
    Payload, MaxPayload   \* the bytes of a payload, and how many it has

\* The identifiers are of one-byte runes: the columns of the table are bytes.
ASSUME TextAssumption ==
    /\ Runes \cap WideRunes = {} /\ MaxLength \in Nat
    /\ Payload \subseteq Int /\ MaxPayload \in Nat

VARIABLES left, right, payload

vars == <<left, right, payload>>

Init == left = << >> /\ right = << >> /\ payload = << >>

TypeLeft(r) ==
    /\ payload = << >> /\ Len(left) < MaxLength
    /\ left' = Append(left, r)
    /\ UNCHANGED <<right, payload>>

TypeRight(r) ==
    /\ payload = << >> /\ Len(right) < MaxLength
    /\ right' = Append(right, r)
    /\ UNCHANGED <<left, payload>>

TypePayload(b) ==
    /\ left = << >> /\ right = << >> /\ Len(payload) < MaxPayload
    /\ payload' = Append(payload, b)
    /\ UNCHANGED <<left, right>>

Next ==
    \/ \E r \in Runes : TypeLeft(r) \/ TypeRight(r)
    \/ \E b \in Payload : TypePayload(b)

Spec == Init /\ [][Next]_vars

TypeOK ==
    /\ left \in Seq(Runes) /\ Len(left) <= MaxLength
    /\ right \in Seq(Runes) /\ Len(right) <= MaxLength
    /\ payload \in Seq(Payload) /\ Len(payload) <= MaxPayload

Without(s, i) == SubSeq(s, 1, i - 1) \o SubSeq(s, i + 1, Len(s))
Inserted(s, i, r) == SubSeq(s, 1, i) \o <<r>> \o SubSeq(s, i + 1, Len(s))

\* The sequences one edit away from s.
Edits(s) ==
    {Without(s, i) : i \in 1..Len(s)}
    \cup {[s EXCEPT ![i] = r] : i \in 1..Len(s), r \in Runes}
    \cup {Inserted(s, i, r) : i \in 0..Len(s), r \in Runes}

\* The sequences of at most MaxLength runes at most n edits away from s.
Within(s, n) ==
    LET reached[k \in 0..n] ==
        IF k = 0 THEN {s}
        ELSE reached[k - 1] \cup
             {t \in UNION {Edits(u) : u \in reached[k - 1]} : Len(t) <= MaxLength}
    IN  reached[n]

EditDistance(s, t) == Min({n \in 0..MaxLength : t \in Within(s, n)})

\* "levenshtein calculates edit distance" (matcher.go): the least number of
\* insertions, removals and substitutions that turn one into the other.
LevenshteinIsEditDistance ==
    levenshtein(left, right) = EditDistance(left, right)

\* normalize removes "formatting differences": separators anywhere and letter
\* case never make a difference to Tier 2.
FormattingIsIgnored ==
    /\ \A i \in 0..Len(left), r \in Separators :
          BoundedID(Inserted(left, i, r), right) = BoundedID(left, right)
    /\ \A i \in 1..Len(left), r \in DOMAIN LowerCase :
          left[i] = LowerCase[r] =>
              BoundedID([left EXCEPT ![i] = r], right) = BoundedID(left, right)

\* From i to j of s there are digits and nothing but digits, as many as a card
\* number has, and none before or after them.
RunAt(s, i, j) ==
    /\ j - i + 1 \in MinRun..MaxRun
    /\ \A k \in i..j : s[k] \in Digit
    /\ i = 1 \/ s[i - 1] \notin Digit
    /\ j = Len(s) \/ s[j + 1] \notin Digit

\* "Grouped card numbers are still detected" (pan.go): separators anywhere make
\* no difference.  "Any 13-19 digit run" with the right check digit is found,
\* wherever in the payload it stands and whatever runs come before it, as long
\* as no other digits touch it once the separators are gone.  And the check
\* digit does its work: where the payload is the number alone, none of the
\* numbers that differ from it in one digit is taken for a card number.
CardNumberIsFound ==
    /\ \A i \in 0..Len(payload), b \in Spaces :
          RejectPossiblePAN(Inserted(payload, i, b)) = RejectPossiblePAN(payload)
    /\ LET s == stripSeparators(payload)
       IN  \A i \in 1..Len(s) : \A j \in i..Len(s) :
              RunAt(s, i, j) /\ luhnValid(SubSeq(s, i, j)) => RejectPossiblePAN(payload)
    /\ RejectPossiblePAN(payload) /\ payload \in Seq(Digit) /\ Len(payload) <= MaxRun =>
          \A i \in DOMAIN payload : \A d \in Digit \ {payload[i]} :
             ~RejectPossiblePAN([payload EXCEPT ![i] = d])
=============================================================================
