-------------------------- MODULE MCExceptionReads --------------------------
(* Five rows with equal and zero amounts, two payments and two reasons.     *)
EXTENDS ExceptionReads

A  == <<"a">>
AB == <<"a", "b">>
B  == <<"b">>

Row(id, amount, reason, payment, mentions) ==
    [id |-> id, amount |-> amount, reason |-> reason, payment |-> payment,
     mentions |-> mentions]

MCRows == {Row(1, 1, 1, AB, {AB}), Row(2, 2, 2, AB, {B}), Row(3, 1, 1, B, {}),
           Row(4, 0, 2, B, {}), Row(5, 2, 1, AB, {})}

MCIds == {A, AB, B}

Question(length, ids, words) == [length |-> length, ids |-> ids, words |-> words]

MCQuestions == {Question(0, << >>, {}), Question(3, << >>, {}),
                Question(1, << >>, {"how much"}), Question(2, <<AB>>, {"how much"}),
                Question(1, <<B, A>>, {}),
                Question(1, << >>, {"worst", "method", "how much"}),
                Question(1, << >>, {"worst"})}

\* Walks and questions share nothing but the log, which neither changes, so
\* each is looked at by itself.
OneClient == walk.status = None \/ (asked = None /\ answer.status = None)
=============================================================================
