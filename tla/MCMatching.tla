----------------------------- MODULE MCMatching -----------------------------
(* Runs and records for MatchingEngine.                                    *)
EXTENDS MatchingEngine, TLC

CONSTANTS r1, r2

MCRuns == {r1, r2}
RunSymmetry == Permutations(MCRuns)
MCLowerCase == [A |-> "a"]

Aaaa == <<"A", "a", "a", "a">>
Typo == <<"a", "-", "a", "a", "b">>   \* one edit from Aaaa once normalized
Aaab == <<"A", "a", "a", "b">>        \* Typo once normalized

Payment(id, order, amount, m, captured) ==
    [id |-> id, order |-> order, amount |-> amount, fee |-> 1, tax |-> 1,
     method |-> m, captured |-> captured]
Line(id, entity, credit, m, settled) ==
    [id |-> <<id>>, entity |-> entity, credit |-> credit, method |-> m, settled |-> settled]
Booking(id, reference, amount, booked) ==
    [id |-> <<id>>, reference |-> reference, amount |-> amount, booked |-> booked]

\* Two payments whose ids are one edit apart, the line of the first, a line with
\* a mistyped id that could be either's, and a ledger line.
Alike == {Payment(Aaaa, "o1", 10, "wallet", -2), Payment(Aaab, "o2", 10, "wallet", -1)}
Lines == {Line("c1", Aaaa, 8, "wallet", 0), Line("c2", Typo, 8, "wallet", 0)}
OneBooking == {Booking("l1", "o1", 10, -5)}

\* Payments of two methods.
TwoMethods == {Payment(Aaaa, "o1", 10, "upi", -2), Payment(Aaab, "o2", 10, "card", -1)}

\* A run that outlives its lock and a run that dies are looked at one at a time,
\* and a run outlives its lock on the last day.
OneMishap == overran => deaths = 0 /\ now = MaxTime
=============================================================================
