---------------------------- MODULE MCTextChecks ----------------------------
EXTENDS TextChecks

MCLowerCase == [A |-> "a"]

\* Distances from '0' of some digits, the hyphen and a letter.
MCPayload == {0, 1, 4, 5, 8, 9, -3, 49}
MCSpaces == {-16, -3}
=============================================================================
