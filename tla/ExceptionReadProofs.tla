------------------------ MODULE ExceptionReadProofs ------------------------
(***************************************************************************)
(* Walks through GET /v1/exceptions are exact, and answers of POST /v1/qa  *)
(* are backed, for every log, page size and interleaving with the engine.  *)
(***************************************************************************)
EXTENDS ExceptionReads, FiniteSetTheorems, WellFoundedInduction, TLAPS

\* Most leaves are first-order: Zenon is asked before the SMT solver.
USE ZenonT(5), SMTT(10)

-----------------------------------------------------------------------------
(* ORDER BY                                                                *)

\* R orders the members of S, as an ORDER BY with a unique last column does.
Orders(R, S) ==
    /\ \A x \in S : <<x, x>> \notin R
    /\ \A x, y, z \in S : <<x, y>> \in R /\ <<y, z>> \in R => <<x, z>> \in R
    /\ \A x, y \in S : x = y \/ <<x, y>> \in R \/ <<y, x>> \in R

Rank(R, S, x) == Cardinality({y \in S : <<y, x>> \in R})

\* A row has fewer rows before it than the rows that come after it, and fewer
\* than there are rows.
LEMMA RankGrows ==
    ASSUME NEW S, IsFiniteSet(S), NEW R, Orders(R, S)
    PROVE  /\ \A x \in S : Rank(R, S, x) \in 0..(Cardinality(S) - 1)
           /\ \A x, y \in S : <<x, y>> \in R <=> Rank(R, S, x) < Rank(R, S, y)
<1> DEFINE Below(x) == {y \in S : <<y, x>> \in R}
<1>1. ASSUME NEW x \in S
      PROVE  /\ IsFiniteSet(Below(x)) /\ Cardinality(Below(x)) \in Nat
             /\ Cardinality(Below(x)) < Cardinality(S)
             /\ Rank(R, S, x) = Cardinality(Below(x))
  <2>1. Below(x) \in SUBSET S /\ Below(x) # S
    BY DEF Orders
  <2> DEFINE B == Below(x)
  <2>2. Rank(R, S, x) = Cardinality(B)
    BY DEF Rank
  <2> HIDE DEF B
  <2>3. B \in SUBSET S /\ B # S
    BY <2>1 DEF B
  <2>4. IsFiniteSet(B) /\ Cardinality(B) <= Cardinality(S) /\ Cardinality(B) # Cardinality(S)
    BY <2>3, FS_Subset
  <2>5. Cardinality(B) \in Nat /\ Cardinality(S) \in Nat
    BY <2>4, FS_CardinalityType
  <2>6. IsFiniteSet(B) /\ Cardinality(B) \in Nat /\ Cardinality(B) < Cardinality(S)
    BY <2>4, <2>5
  <2> QED
    BY <2>2, <2>6 DEF B
<1>2. Cardinality(S) \in Nat
  BY FS_CardinalityType
<1>3. ASSUME NEW x \in S, NEW y \in S, <<x, y>> \in R
      PROVE  Rank(R, S, x) < Rank(R, S, y)
  <2> DEFINE A == Below(x)
             B == Below(y)
  <2>1. A \in SUBSET B /\ x \in B /\ x \notin A
    BY <1>3 DEF Orders
  <2>2. IsFiniteSet(B) /\ Cardinality(A) \in Nat /\ Cardinality(B) \in Nat
    BY <1>1
  <2>3. Rank(R, S, x) = Cardinality(A) /\ Rank(R, S, y) = Cardinality(B)
    BY <1>1
  <2> HIDE DEF A, B
  <2>4. Cardinality(A) <= Cardinality(B) /\ Cardinality(A) # Cardinality(B)
    BY <2>1, <2>2, FS_Subset
  <2> QED
    BY <2>2, <2>3, <2>4
<1>4. \A x \in S : Rank(R, S, x) \in Nat /\ Rank(R, S, x) < Cardinality(S)
  BY <1>1
<1> HIDE DEF Below
<1>5. \A x \in S : Rank(R, S, x) \in 0..(Cardinality(S) - 1)
  BY <1>2, <1>4
<1>6. ASSUME NEW x \in S, NEW y \in S, Rank(R, S, x) < Rank(R, S, y)
      PROVE  <<x, y>> \in R
  <2>1. Rank(R, S, x) \in Nat /\ Rank(R, S, y) \in Nat
    BY <1>4
  <2>2. x # y
    BY <1>6, <2>1
  <2>3. ~(<<y, x>> \in R)
    BY <1>3, <1>6, <2>1
  <2> QED
    BY <2>2, <2>3 DEF Orders
<1> QED
  BY <1>3, <1>5, <1>6

\* Every place is taken by exactly one row.
LEMMA RankIsTaken ==
    ASSUME NEW S, IsFiniteSet(S), NEW R, Orders(R, S), NEW i \in 0..(Cardinality(S) - 1)
    PROVE  \E x \in S : Rank(R, S, x) = i
<1> DEFINE n == Cardinality(S)
           T == 0..(n - 1)
           f == [x \in S |-> Rank(R, S, x)]
<1>1. n \in Nat
  BY FS_CardinalityType
<1>2. IsFiniteSet(T) /\ Cardinality(T) = n
  BY <1>1, FS_Interval
<1>3. f \in [S -> T]
  BY RankGrows
<1>4. \A x, y \in S : x # y => f[x] # f[y]
  <2> SUFFICES ASSUME NEW x \in S, NEW y \in S, x # y
               PROVE  Rank(R, S, x) # Rank(R, S, y)
    OBVIOUS
  <2>1. Rank(R, S, x) < Rank(R, S, y) \/ Rank(R, S, y) < Rank(R, S, x)
    BY RankGrows DEF Orders
  <2>2. Rank(R, S, x) \in Int /\ Rank(R, S, y) \in Int
    BY <1>1, RankGrows
  <2> QED
    BY <2>1, <2>2
<1> HIDE DEF f
<1>5. f \in Injection(S, T)
  BY <1>3, <1>4 DEF Injection, IsInjective
<1>6. f \in Surjection(S, T)
  BY <1>2, <1>5, FS_Injection
<1>7. \E x \in S : f[x] = i
  BY <1>6 DEF Surjection
<1> QED
  BY <1>7 DEF f

\* A function on 1..n is a sequence of length n.
LEMMA FunctionIsSeq ==
    ASSUME NEW S, NEW n \in Nat, NEW q \in [1..n -> S]
    PROVE  q \in Seq(S) /\ Len(q) = n
OBVIOUS

\* The rows in order: all of them, each once, and in their order.
LEMMA Ordered ==
    ASSUME NEW S, IsFiniteSet(S), NEW R, Orders(R, S)
    PROVE  LET q == InOrder(S, R)
           IN  /\ q \in Seq(S) /\ Len(q) \in Nat
               /\ \A x \in S : \E i \in 1..Len(q) : q[i] = x
               /\ \A i, j \in 1..Len(q) : i < j => <<q[i], q[j]>> \in R
<1> DEFINE Place(i) == CHOOSE x \in S : Rank(R, S, x) = i - 1
           q == InOrder(S, R)
<1>1. Cardinality(S) \in Nat
  BY FS_CardinalityType
<1>2. q = [i \in 1..Cardinality(S) |-> Place(i)]
  BY DEF InOrder, Rank
<1>3. ASSUME NEW i \in 1..Cardinality(S)
      PROVE  Place(i) \in S /\ Rank(R, S, Place(i)) = i - 1
  <2>1. i - 1 \in 0..(Cardinality(S) - 1)
    BY <1>1
  <2>2. \E x \in S : Rank(R, S, x) = i - 1
    BY <2>1, RankIsTaken
  <2> QED
    BY <2>2
<1> HIDE DEF Place, q
<1>4. /\ q \in [1..Cardinality(S) -> S]
      /\ \A i \in 1..Cardinality(S) : q[i] \in S /\ Rank(R, S, q[i]) = i - 1
  BY <1>2, <1>3
<1>5. q \in Seq(S) /\ Len(q) = Cardinality(S)
  BY <1>1, <1>4, FunctionIsSeq
<1>6. ASSUME NEW x \in S
      PROVE  \E i \in 1..Len(q) : q[i] = x
  <2> DEFINE i == Rank(R, S, x) + 1
  <2>1. Rank(R, S, x) \in 0..(Cardinality(S) - 1)
    BY RankGrows
  <2>2. i \in 1..Cardinality(S) /\ i - 1 = Rank(R, S, x) /\ Rank(R, S, x) \in Int
    BY <1>1, <2>1
  <2> HIDE DEF i
  <2>3. q[i] \in S /\ Rank(R, S, q[i]) = Rank(R, S, x)
    BY <1>4, <2>2
  <2>4. <<q[i], x>> \notin R /\ <<x, q[i]>> \notin R
    BY <2>2, <2>3, RankGrows
  <2> QED
    BY <1>5, <2>2, <2>3, <2>4 DEF Orders
<1>7. ASSUME NEW i \in 1..Len(q), NEW j \in 1..Len(q), i < j
      PROVE  <<q[i], q[j]>> \in R
  <2>1. i \in 1..Cardinality(S) /\ j \in 1..Cardinality(S)
    BY <1>5
  <2>2. Rank(R, S, q[i]) < Rank(R, S, q[j])
    BY <1>1, <1>4, <1>7, <2>1
  <2> QED
    BY <1>4, <2>1, <2>2, RankGrows
<1> QED
  BY <1>1, <1>5, <1>6, <1>7 DEF q

-----------------------------------------------------------------------------
(* Pages                                                                   *)

\* The order of the listing is strict and total on rows with distinct ids.
LEMMA AfterOrders ==
    /\ \A r \in ExceptionRows : ~After(r, r)
    /\ \A r, s, t \in ExceptionRows : After(s, r) /\ After(t, s) => After(t, r)
    /\ \A r, s \in ExceptionRows : r = s \/ After(r, s) \/ After(s, r)
BY ReadAssumption DEF After

\* ORDER BY amount_at_risk_paise DESC, id DESC.
LEMMA WorstFirstFacts ==
    ASSUME NEW rows \in SUBSET ExceptionRows, IsFiniteSet(rows)
    PROVE  /\ WorstFirst(rows) \in Seq(rows) /\ Len(WorstFirst(rows)) \in Nat
           /\ \A r \in rows : \E i \in 1..Len(WorstFirst(rows)) : WorstFirst(rows)[i] = r
           /\ \A i, j \in 1..Len(WorstFirst(rows)) :
                 i < j => After(WorstFirst(rows)[j], WorstFirst(rows)[i])
<1> DEFINE q == WorstFirst(rows)
           R == {p \in rows \X rows : After(p[2], p[1])}
<1>1. \A r, s \in rows : <<r, s>> \in R <=> After(s, r)
  OBVIOUS
<1>2. q = InOrder(rows, R)
  BY DEF WorstFirst
<1> HIDE DEF q, R
<1>3. Orders(R, rows)
  BY <1>1, AfterOrders DEF Orders
<1>4. /\ q \in Seq(rows) /\ Len(q) \in Nat
      /\ \A x \in rows : \E i \in 1..Len(q) : q[i] = x
      /\ \A i, j \in 1..Len(q) : i < j => <<q[i], q[j]>> \in R
  BY <1>2, <1>3, Ordered
<1>5. \A i \in 1..Len(q) : q[i] \in rows
  BY <1>4
<1>6. \A i, j \in 1..Len(q) : i < j => After(q[j], q[i])
  BY <1>1, <1>4, <1>5
<1> QED
  BY <1>4, <1>6 DEF q

\* LIMIT n: the first n rows, or all.
LEMMA TakeFacts ==
    ASSUME NEW S, NEW q \in Seq(S), NEW n \in Nat
    PROVE  /\ Take(q, n) \in Seq(S)
           /\ Len(Take(q, n)) = IF Len(q) < n THEN Len(q) ELSE n
           /\ Len(Take(q, n)) \in Nat
           /\ \A i \in 1..Len(Take(q, n)) : Take(q, n)[i] = q[i]
<1> DEFINE m == IF Len(q) < n THEN Len(q) ELSE n
<1>1. m \in Nat /\ m <= Len(q) /\ Len(q) \in Nat
  OBVIOUS
<1>2. Take(q, n) = SubSeq(q, 1, m)
  BY DEF Take
<1> HIDE DEF m
<1>3. /\ SubSeq(q, 1, m) \in Seq(S) /\ Len(SubSeq(q, 1, m)) = m
      /\ \A i \in 1..m : SubSeq(q, 1, m)[i] = q[i]
  BY <1>1
<1> QED
  BY <1>1, <1>2, <1>3 DEF m

\* The rows that come after a cursor.
Remaining(cursor) == {r \in log : cursor # None => After(r, cursor)}

\* A page: rows that come after the cursor in their order, none left out
\* before the last one, and a cursor exactly when more rows follow.
LEMMA PageFacts ==
    ASSUME TypeOK, NEW limit \in Nat \ {0}, NEW cursor
    PROVE  LET response == Page(limit, cursor)
               records == response.records
           IN  /\ records \in Seq(ExceptionRows) /\ Len(records) \in Nat
               /\ \A i \in 1..Len(records) : records[i] \in Remaining(cursor)
               /\ \A i, j \in 1..Len(records) : i < j => After(records[j], records[i])
               /\ response.next \in Cursors \cup {None}
               /\ Remaining(cursor) # {} => Len(records) > 0
               /\ response.next = None =>
                     \A r \in Remaining(cursor) : \E i \in 1..Len(records) : records[i] = r
               /\ response.next # None =>
                     /\ Len(records) > 0
                     /\ response.next = encodeExceptionCursor(Last(records))
                     /\ \E r \in Remaining(cursor) : After(r, Last(records))
                     /\ \A r \in Remaining(cursor) :
                           \/ \E i \in 1..Len(records) : records[i] = r
                           \/ After(r, Last(records))
<1> DEFINE E == Remaining(cursor)
           q == WorstFirst(E)
           found == Take(q, limit + 1)
           records == Take(found, limit)
           next == IF Len(found) > limit THEN encodeExceptionCursor(Last(records)) ELSE None
<1>1. Page(limit, cursor) = [records |-> records, next |-> next]
  BY DEF Page, ListUnresolvedExceptions, Remaining
<1>2. Page(limit, cursor).records = records /\ Page(limit, cursor).next = next
  <2> HIDE DEF records, next
  <2> QED
    BY <1>1
<1>3. E \in SUBSET log /\ E \in SUBSET ExceptionRows /\ IsFiniteSet(E)
  <2>1. E \in SUBSET log
    BY DEF Remaining
  <2> HIDE DEF E
  <2> QED
    BY <2>1, FS_Subset DEF TypeOK
<1> HIDE DEF E
<1>4. /\ q \in Seq(E) /\ Len(q) \in Nat
      /\ \A r \in E : \E i \in 1..Len(q) : q[i] = r
      /\ \A i, j \in 1..Len(q) : i < j => After(q[j], q[i])
  BY <1>3, WorstFirstFacts
<1> HIDE DEF q
<1>5. /\ found \in Seq(E) /\ Len(found) \in Nat
      /\ Len(found) = IF Len(q) < limit + 1 THEN Len(q) ELSE limit + 1
      /\ \A i \in 1..Len(found) : found[i] = q[i]
  <2>1. limit + 1 \in Nat
    OBVIOUS
  <2> QED
    BY <1>4, <2>1, TakeFacts
<1> HIDE DEF found
<1>6. /\ records \in Seq(E) /\ Len(records) \in Nat
      /\ Len(records) = IF Len(found) < limit THEN Len(found) ELSE limit
      /\ \A i \in 1..Len(records) : records[i] = found[i]
  BY <1>5, TakeFacts
<1> HIDE DEF records
<1>7. /\ Len(q) \in Nat /\ Len(found) \in Nat /\ Len(records) \in Nat
      /\ Len(found) = IF Len(q) < limit + 1 THEN Len(q) ELSE limit + 1
      /\ Len(records) = IF Len(found) < limit THEN Len(found) ELSE limit
  BY <1>4, <1>5, <1>6, Zenon
<1>8. /\ Len(records) = IF Len(q) < limit THEN Len(q) ELSE limit
      /\ Len(records) <= Len(found) /\ Len(found) <= Len(q)
  BY <1>7
<1>9. \A i \in 1..Len(records) : records[i] = q[i] /\ i \in 1..Len(q)
  <2>1. \A i \in 1..Len(records) : i \in 1..Len(found) /\ i \in 1..Len(q)
    BY <1>7, <1>8
  <2> QED
    BY <1>5, <1>6, <2>1
<1>10. \A i \in 1..Len(records) : records[i] \in E
  BY <1>6
<1>11. records \in Seq(ExceptionRows)
  <2>1. records \in [1..Len(records) -> ExceptionRows]
    BY <1>3, <1>6
  <2> QED
    BY <1>6, <2>1, FunctionIsSeq
<1>12. \A i, j \in 1..Len(records) : i < j => After(records[j], records[i])
  BY <1>4, <1>9
<1>13. E # {} => Len(records) > 0
  BY <1>4, <1>8
<1>14. CASE Len(q) <= limit
  <2>1. next = None
    BY <1>7, <1>14
  <2>2. Len(records) = Len(q)
    BY <1>7, <1>8, <1>14
  <2>3. \A r \in E : \E i \in 1..Len(records) : records[i] = r
    BY <1>4, <1>9, <2>2
  <2> HIDE DEF next
  <2> QED
    BY <1>2, <1>7, <1>10, <1>11, <1>12, <1>13, <2>1, <2>3 DEF E
<1>15. CASE Len(q) > limit
  <2>1. next = encodeExceptionCursor(Last(records)) /\ Len(records) = limit
    BY <1>7, <1>8, <1>15
  <2>2. Last(records) = q[limit] /\ limit \in 1..Len(q) /\ limit + 1 \in 1..Len(q)
    BY <1>4, <1>9, <1>15, <2>1 DEF Last
  <2>3. Last(records) \in ExceptionRows
    BY <1>11, <2>1 DEF Last
  <2>4. next \in Cursors
    BY <2>1, <2>3, ReadAssumption DEF encodeExceptionCursor, Cursors
  <2>5. next # None
    BY <2>4, ReadAssumption DEF Cursors
  <2>6. \E r \in E : After(r, Last(records))
    <3>1. q[limit + 1] \in E /\ After(q[limit + 1], q[limit])
      BY <1>4, <2>2
    <3> QED
      BY <2>2, <3>1
  <2>7. ASSUME NEW r \in E
        PROVE  (\E i \in 1..Len(records) : records[i] = r) \/ After(r, Last(records))
    <3>1. PICK i \in 1..Len(q) : q[i] = r
      BY <1>4
    <3>2. CASE i <= limit
      <4>1. i \in 1..Len(records)
        BY <2>1, <3>2
      <4> QED
        BY <1>9, <3>1, <4>1
    <3>3. CASE i > limit
      BY <1>4, <2>2, <3>1, <3>3
    <3> QED
      BY <1>4, <3>2, <3>3
  <2> HIDE DEF next
  <2> QED
    BY <1>2, <1>7, <1>10, <1>11, <1>12, <2>1, <2>4, <2>5, <2>6, <2>7 DEF E
<1> QED
  BY <1>7, <1>14, <1>15

\* The limit of a page is at least 1, whatever the parameter is.
LEMMA LimitType ==
    ASSUME NEW raw \in LimitParameters
    PROVE  Limit(raw) \in Nat \ {0}
<1>1. CASE raw = None
  BY <1>1, ReadAssumption DEF Limit
<1>2. CASE raw # None
  <2>1. raw \in Int
    BY <1>2, ReadAssumption DEF LimitParameters
  <2> QED
    BY <1>2, <2>1, ReadAssumption DEF Limit
<1> QED
  BY <1>1, <1>2

\* Decoding a cursor gives back the place of the row it was made from.
LEMMA CursorRoundTrip ==
    ASSUME NEW c \in ExceptionRows
    PROVE  /\ decodeExceptionCursor(encodeExceptionCursor(c)) # None
           /\ \A r \in ExceptionRows :
                 After(r, decodeExceptionCursor(encodeExceptionCursor(c))) <=> After(r, c)
<1> DEFINE token == encodeExceptionCursor(c)
<1>1. Field(token, "amount_at_risk_paise") = c.amount /\ Field(token, "id") = c.id
  BY DEF Field, encodeExceptionCursor
<1> HIDE DEF token
<1>2. decodeExceptionCursor(token) = [amount |-> c.amount, id |-> c.id]
  BY <1>1 DEF decodeExceptionCursor
<1>3. c.amount \in Int /\ c.id \in Int
  BY ReadAssumption
<1>4. [amount |-> c.amount, id |-> c.id] # None
  BY <1>3, ReadAssumption
<1> QED
  BY <1>2, <1>4 DEF After, token

\* The rows of a page follow the rows listed before it.
LEMMA ListingGoesOn ==
    ASSUME NEW s \in Seq(ExceptionRows), NEW t \in Seq(ExceptionRows),
           \A i, j \in 1..Len(s) : i < j => After(s[j], s[i]),
           \A i, j \in 1..Len(t) : i < j => After(t[j], t[i]),
           s # << >> => \A i \in 1..Len(t) : After(t[i], Last(s))
    PROVE  /\ s \o t \in Seq(ExceptionRows)
           /\ \A i, j \in 1..Len(s \o t) : i < j => After((s \o t)[j], (s \o t)[i])
           /\ ToSet(s \o t) = ToSet(s) \cup ToSet(t)
           /\ Len(t) > 0 => s \o t # << >> /\ Last(s \o t) = Last(t)
<1> DEFINE u == s \o t
<1>1. Len(s) \in Nat /\ Len(t) \in Nat
  OBVIOUS
<1>2. /\ u \in Seq(ExceptionRows) /\ Len(u) = Len(s) + Len(t)
      /\ \A i \in 1..Len(s) : u[i] = s[i]
      /\ \A i \in 1..Len(t) : u[Len(s) + i] = t[i]
  OBVIOUS
<1> HIDE DEF u
<1>3. \A i \in 1..Len(u) : i \in 1..Len(s) \/ (i - Len(s) \in 1..Len(t) /\ u[i] = t[i - Len(s)])
  <2> SUFFICES ASSUME NEW i \in 1..Len(u), i \notin 1..Len(s)
               PROVE  i - Len(s) \in 1..Len(t) /\ u[i] = t[i - Len(s)]
    OBVIOUS
  <2>1. i - Len(s) \in 1..Len(t) /\ Len(s) + (i - Len(s)) = i
    BY <1>1, <1>2
  <2> QED
    BY <1>2, <2>1
<1>4. ASSUME NEW i \in 1..Len(u), NEW j \in 1..Len(u), i < j
      PROVE  After(u[j], u[i])
  <2>1. CASE i \in 1..Len(s) /\ j \in 1..Len(s)
    BY <1>2, <1>4, <2>1
  <2>2. CASE i \in 1..Len(s) /\ j \notin 1..Len(s)
    <3>1. j - Len(s) \in 1..Len(t) /\ u[j] = t[j - Len(s)]
      BY <1>3, <2>2
    <3>2. After(u[j], Last(s)) /\ Last(s) \in ExceptionRows /\ Len(s) \in 1..Len(s)
      BY <1>1, <2>2, <3>1 DEF Last
    <3>3. Last(s) = u[i] \/ After(Last(s), u[i])
      BY <1>1, <1>2, <2>2, <3>2 DEF Last
    <3>4. u[i] \in ExceptionRows /\ u[j] \in ExceptionRows
      BY <1>2
    <3> QED
      BY <3>2, <3>3, <3>4, AfterOrders
  <2>3. CASE i \notin 1..Len(s)
    <3>1. j \notin 1..Len(s)
      BY <1>1, <1>2, <1>4, <2>3
    <3>2. /\ i - Len(s) \in 1..Len(t) /\ u[i] = t[i - Len(s)]
          /\ j - Len(s) \in 1..Len(t) /\ u[j] = t[j - Len(s)]
      BY <1>3, <2>3, <3>1
    <3>3. i - Len(s) < j - Len(s)
      BY <1>1, <1>2, <1>4
    <3> QED
      BY <3>2, <3>3
  <2> QED
    BY <2>1, <2>2, <2>3
<1>5. ToSet(u) = ToSet(s) \cup ToSet(t)
  <2>1. DOMAIN u = 1..Len(u) /\ DOMAIN s = 1..Len(s) /\ DOMAIN t = 1..Len(t)
    BY <1>2
  <2>2. ToSet(u) \subseteq ToSet(s) \cup ToSet(t)
    BY <1>2, <1>3, <2>1 DEF ToSet
  <2>3. ToSet(s) \subseteq ToSet(u)
    <3>1. \A i \in 1..Len(s) : i \in 1..Len(u)
      BY <1>1, <1>2
    <3> QED
      BY <1>2, <2>1, <3>1 DEF ToSet
  <2>4. ToSet(t) \subseteq ToSet(u)
    <3>1. \A i \in 1..Len(t) : Len(s) + i \in 1..Len(u)
      BY <1>1, <1>2
    <3> QED
      BY <1>2, <2>1, <3>1 DEF ToSet
  <2> QED
    BY <2>2, <2>3, <2>4
<1>6. ASSUME Len(t) > 0
      PROVE  u # << >> /\ Last(u) = Last(t)
  <2>1. Len(t) \in 1..Len(t) /\ Len(u) > 0
    BY <1>1, <1>2, <1>6
  <2> QED
    BY <1>2, <2>1 DEF Last
<1> QED
  BY <1>2, <1>4, <1>5, <1>6 DEF u

-----------------------------------------------------------------------------
(* The steps of a walk                                                     *)

\* A request of a walk, be it the first or a later one: what was listed before,
\* and the cursor that stands for its last row, if there is one.
LEMMA WalkGoesOn ==
    ASSUME TypeOK, NEW limit \in Nat \ {0}, NEW cursor,
           NEW before \in Seq(ExceptionRows), NEW begun \in SUBSET log,
           \A i, j \in 1..Len(before) : i < j => After(before[j], before[i]),
           before = << >> => begun = log /\ cursor = None,
           before # << >> => /\ cursor # None /\ Remaining(cursor) # {}
                             /\ \A r \in ExceptionRows : After(r, cursor) <=> After(r, Last(before)),
           \A r \in begun : r \in ToSet(before) \/ r \in Remaining(cursor),
           ToSet(before) \subseteq log,
           walk' = Walked(Page(limit, cursor), before, begun), log' = log
    PROVE  TypeOK' /\ WalkIsOnTrack' /\ NoEmptyPage'
<1> DEFINE records == Page(limit, cursor).records
           next == Page(limit, cursor).next
           listed == before \o records
<1>1. /\ records \in Seq(ExceptionRows) /\ Len(records) \in Nat
      /\ \A i \in 1..Len(records) : records[i] \in Remaining(cursor)
      /\ \A i, j \in 1..Len(records) : i < j => After(records[j], records[i])
      /\ next \in Cursors \cup {None}
      /\ Remaining(cursor) # {} => Len(records) > 0
  BY PageFacts
<1>2. next = None =>
         \A r \in Remaining(cursor) : \E i \in 1..Len(records) : records[i] = r
  BY PageFacts
<1>3. next # None =>
         /\ Len(records) > 0
         /\ next = encodeExceptionCursor(Last(records))
         /\ \E r \in Remaining(cursor) : After(r, Last(records))
         /\ \A r \in Remaining(cursor) :
               (\E i \in 1..Len(records) : records[i] = r) \/ After(r, Last(records))
  BY PageFacts
<1>4. walk' = [status |-> 200, page |-> records, next |-> next, listed |-> listed, begun |-> begun]
  BY DEF Walked
<1> HIDE DEF records, next
<1>5. ToSet(records) = {records[i] : i \in 1..Len(records)}
  BY <1>1 DEF ToSet
<1>6. ASSUME before # << >>, NEW i \in 1..Len(records)
      PROVE  After(records[i], Last(before))
  <2>1. records[i] \in ExceptionRows
    BY <1>1
  <2>2. After(records[i], cursor)
    BY <1>1, <1>6 DEF Remaining
  <2> QED
    BY <1>6, <2>1, <2>2
<1>7. /\ listed \in Seq(ExceptionRows)
      /\ \A i, j \in 1..Len(listed) : i < j => After(listed[j], listed[i])
      /\ ToSet(listed) = ToSet(before) \cup ToSet(records)
      /\ Len(records) > 0 => listed # << >> /\ Last(listed) = Last(records)
  BY <1>1, <1>6, ListingGoesOn
<1> HIDE DEF listed
<1>8. TypeOK'
  <2>1. begun \in SUBSET ExceptionRows
    BY DEF TypeOK
  <2> QED
    BY <1>1, <1>4, <1>7, <2>1 DEF TypeOK
<1>9. WalkIsOnTrack'
  <2>1. /\ walk.listed' = listed /\ walk.next' = next /\ walk.begun' = begun
    BY <1>4
  <2>2. ASSUME next = None
        PROVE  begun \subseteq ToSet(listed)
    BY <1>2, <1>5, <1>7, <2>2
  <2>3. ASSUME next # None
        PROVE  /\ listed # << >> /\ next = encodeExceptionCursor(Last(listed))
               /\ \E r \in log : After(r, Last(listed))
               /\ \A r \in begun : r \in ToSet(listed) \/ After(r, Last(listed))
    <3>1. listed # << >> /\ Last(listed) = Last(records)
      BY <1>3, <1>7, <2>3
    <3>2. \E r \in log : After(r, Last(listed))
      BY <1>3, <2>3, <3>1 DEF Remaining
    <3>3. \A r \in begun : r \in ToSet(listed) \/ After(r, Last(listed))
      BY <1>3, <1>5, <1>7, <2>3, <3>1
    <3> QED
      BY <1>3, <2>3, <3>1, <3>2, <3>3
  <2>4. ToSet(listed) \subseteq log
    BY <1>1, <1>5, <1>7 DEF Remaining
  <2> QED
    BY <1>7, <2>1, <2>2, <2>3, <2>4 DEF WalkIsOnTrack
<1>10. NoEmptyPage'
  <2>1. walk.page' = records /\ walk.listed' = listed /\ walk.begun' = begun
    BY <1>4
  <2> SUFFICES ASSUME records = << >>
               PROVE  listed = << >> /\ begun = {}
    BY <2>1 DEF NoEmptyPage
  <2>2. Remaining(cursor) = {} /\ before = << >>
    BY <1>1
  <2>3. begun = {}
    BY <2>2 DEF Remaining
  <2>4. listed = << >>
    BY <2>2 DEF listed
  <2> QED
    BY <2>3, <2>4
<1> QED
  BY <1>8, <1>9, <1>10

\* The first request of a walk.
LEMMA FirstPagePreserves ==
    ASSUME IInv, FirstPage
    PROVE  TypeOK' /\ WalkIsOnTrack' /\ NoEmptyPage'
<1>1. PICK raw \in LimitParameters : walk' = Walked(Page(Limit(raw), None), << >>, log)
  BY DEF FirstPage
<1>2. Limit(raw) \in Nat \ {0}
  BY LimitType
<1>3. Remaining(None) = log /\ log' = log
  BY DEF Remaining, FirstPage
<1> DEFINE before == << >>
<1>4. /\ before \in Seq(ExceptionRows)
      /\ \A i, j \in 1..Len(before) : i < j => After(before[j], before[i])
  OBVIOUS
<1>5. before = << >> /\ walk' = Walked(Page(Limit(raw), None), before, log)
  BY <1>1
<1> HIDE DEF before
<1>6. TypeOK /\ log \in SUBSET log
  BY DEF IInv
<1>7. \A r \in log : r \in ToSet(before) \/ r \in Remaining(None)
  BY <1>3
<1>8. ToSet(before) \subseteq log
  BY <1>5 DEF ToSet
<1> QED
  BY <1>2, <1>3, <1>4, <1>5, <1>6, <1>7, <1>8, WalkGoesOn

\* A later request, with the cursor of the page before.
LEMMA NextPagePreserves ==
    ASSUME IInv, NextPage
    PROVE  TypeOK' /\ WalkIsOnTrack' /\ NoEmptyPage'
<1> DEFINE cursor == decodeExceptionCursor(walk.next)
<1>1. PICK raw \in LimitParameters :
         walk' = Walked(Page(Limit(raw), cursor), walk.listed, walk.begun)
  BY DEF NextPage
<1>2. Limit(raw) \in Nat \ {0}
  BY LimitType
<1>3. /\ walk.next # None /\ walk.listed # << >> /\ log' = log /\ TypeOK
      /\ walk.next = encodeExceptionCursor(Last(walk.listed))
      /\ \E r \in log : After(r, Last(walk.listed))
      /\ \A r \in walk.begun : r \in ToSet(walk.listed) \/ After(r, Last(walk.listed))
      /\ \A i, j \in 1..Len(walk.listed) : i < j => After(walk.listed[j], walk.listed[i])
  BY DEF NextPage, IInv, WalkIsOnTrack
<1>4. /\ walk.listed \in Seq(ExceptionRows) /\ ToSet(walk.listed) \subseteq log
      /\ walk.begun \in SUBSET log /\ log \subseteq ExceptionRows
  BY DEF IInv, TypeOK, WalkIsOnTrack
<1>5. Last(walk.listed) \in ExceptionRows
  BY <1>3, <1>4 DEF Last
<1>6. /\ cursor # None
      /\ \A r \in ExceptionRows : After(r, cursor) <=> After(r, Last(walk.listed))
  BY <1>3, <1>5, CursorRoundTrip
<1> HIDE DEF cursor
<1>7. Remaining(cursor) # {}
  BY <1>3, <1>4, <1>6 DEF Remaining
<1>8. \A r \in walk.begun : r \in ToSet(walk.listed) \/ r \in Remaining(cursor)
  BY <1>3, <1>4, <1>6 DEF Remaining
<1> QED
  BY <1>1, <1>2, <1>3, <1>4, <1>6, <1>7, <1>8, WalkGoesOn

-----------------------------------------------------------------------------
(* The sums of POST /v1/qa                                                 *)

\* The row that a fold of the library takes next.
Pick(s) == CHOOSE x \in s : TRUE

\* sum adds f up over the parts of S: 0 for none, and otherwise f of one member
\* and the sum over the others.
IsSum(sum, f, S) ==
    \A s \in SUBSET S :
        sum[s] = IF s = {} THEN 0 ELSE f[Pick(s)] + sum[s \ {Pick(s)}]

\* Parts of a finite set have its parts' sizes.
LEMMA PartFacts ==
    ASSUME NEW S, IsFiniteSet(S), NEW s \in SUBSET S
    PROVE  /\ IsFiniteSet(s) /\ Cardinality(s) \in Nat /\ Cardinality(s) <= Cardinality(S)
           /\ s # {} => /\ Pick(s) \in s /\ s \ {Pick(s)} \in SUBSET S
                        /\ Cardinality(s \ {Pick(s)}) = Cardinality(s) - 1
<1>1. IsFiniteSet(s) /\ Cardinality(s) <= Cardinality(S)
  BY FS_Subset
<1>2. s # {} => Pick(s) \in s
  BY DEF Pick
<1> QED
  BY <1>1, <1>2, FS_CardinalityType, FS_RemoveElement

\* A set that holds 0, and each number up to n if it holds the one before, holds
\* them all: a sum is taken one row at a time.
LEMMA CountUp ==
    ASSUME NEW n \in Nat, NEW S, 0 \in S,
           \A m \in 1..n : m - 1 \in S => m \in S
    PROVE  \A m \in 0..n : m \in S
<1> DEFINE Missing == (0..n) \ S
<1> SUFFICES ASSUME Missing # {}
             PROVE  FALSE
  OBVIOUS
<1>1. Missing \subseteq Nat
  OBVIOUS
<1>2. PICK m \in Missing : \A k \in Missing : ~(<<k, m>> \in OpToRel(<, Nat))
  <2> HIDE DEF Missing
  <2> QED
    BY <1>1, NatLessThanWellFounded, WFMin
<1>3. \A k \in Missing : ~(k < m)
  <2> HIDE DEF Missing
  <2> QED
    BY <1>1, <1>2 DEF OpToRel
<1>4. m \in 1..n /\ m - 1 \in 0..n
  OBVIOUS
<1>5. m - 1 \in S
  BY <1>3, <1>4
<1> QED
  BY <1>4, <1>5

\* Induction over the parts of a finite set.
LEMMA PartsInduction ==
    ASSUME NEW S, IsFiniteSet(S), NEW P,
           \A s \in SUBSET S : (\A t \in SUBSET s : t # s => t \in P) => s \in P
    PROVE  \A s \in SUBSET S : s \in P
<1> DEFINE n == Cardinality(S)
           T == {m \in 0..n : \A s \in SUBSET S : Cardinality(s) <= m => s \in P}
<1>1. n \in Nat
  BY FS_CardinalityType
<1>2. ASSUME NEW s \in SUBSET S, NEW t \in SUBSET s, t # s
      PROVE  t \in SUBSET S /\ Cardinality(t) \in Nat /\ Cardinality(t) < Cardinality(s)
  <2>1. IsFiniteSet(s) /\ Cardinality(s) \in Nat
    BY PartFacts
  <2>2. Cardinality(t) \in Nat /\ Cardinality(t) <= Cardinality(s)
    BY <2>1, PartFacts
  <2>3. Cardinality(t) # Cardinality(s)
    BY <1>2, <2>1, FS_Subset
  <2> QED
    BY <2>1, <2>2, <2>3
<1>3. 0 \in T
  <2> SUFFICES ASSUME NEW s \in SUBSET S, Cardinality(s) <= 0
               PROVE  s \in P
    BY <1>1
  <2>1. IsFiniteSet(s) /\ Cardinality(s) \in Nat
    BY PartFacts
  <2>2. s = {}
    BY <2>1, FS_EmptySet
  <2> QED
    BY <2>2
<1>4. ASSUME NEW m \in 1..n, m - 1 \in T
      PROVE  m \in T
  <2> SUFFICES ASSUME NEW s \in SUBSET S, Cardinality(s) <= m
               PROVE  s \in P
    BY <1>1
  <2>1. ASSUME NEW t \in SUBSET s, t # s
        PROVE  Cardinality(t) <= m - 1 /\ t \in SUBSET S
    <3>1. t \in SUBSET S /\ Cardinality(t) \in Nat /\ Cardinality(t) < Cardinality(s)
      BY <1>2, <2>1
    <3>2. Cardinality(s) \in Nat
      BY PartFacts
    <3> QED
      BY <3>1, <3>2
  <2>2. \A t \in SUBSET s : t # s => t \in P
    BY <1>4, <2>1
  <2> QED
    BY <2>2
<1>5. n \in T
  <2> HIDE DEF T
  <2>1. \A m \in 1..n : m - 1 \in T => m \in T
    BY <1>4
  <2>2. \A m \in 0..n : m \in T
    BY <1>1, <1>3, <2>1, CountUp
  <2> QED
    BY <1>1, <2>2
<1> QED
  BY <1>5, PartFacts

\* The step of the recursion.
Adding(g, f, S) ==
    [s \in SUBSET S |-> IF s = {} THEN 0 ELSE f[Pick(s)] + g[s \ {Pick(s)}]]

\* There is a sum: the recursion of the library's folds has a solution.
LEMMA SumExists ==
    ASSUME NEW S, IsFiniteSet(S), NEW f
    PROVE  \E g : g = Adding(g, f, S)
<1> DEFINE n == Cardinality(S)
           Body(g, s) == IF s = {} THEN 0 ELSE f[Pick(s)] + g[s \ {Pick(s)}]
           Small(m) == {s \in SUBSET S : Cardinality(s) <= m}
           Exists(m) == \E g : g = [s \in Small(m) |-> Body(g, s)]
<1>1. n \in Nat
  BY FS_CardinalityType
<1>2. \A s \in SUBSET S : IsFiniteSet(s) /\ Cardinality(s) \in Nat /\ Cardinality(s) <= n
  BY PartFacts
<1>3. ASSUME NEW s \in SUBSET S, s # {}
      PROVE  /\ Pick(s) \in s /\ s \ {Pick(s)} \in SUBSET S
             /\ Cardinality(s \ {Pick(s)}) = Cardinality(s) - 1
  BY <1>3, PartFacts
<1>4. Exists(0)
  <2> DEFINE g == [s \in Small(0) |-> 0]
  <2>1. \A s \in Small(0) : s = {}
    BY <1>2, FS_EmptySet
  <2>2. g = [s \in Small(0) |-> Body(g, s)]
    BY <2>1
  <2> QED
    BY <2>2
<1>5. ASSUME NEW m \in 1..n, Exists(m - 1)
      PROVE  Exists(m)
  <2>1. PICK g : g = [s \in Small(m - 1) |-> Body(g, s)]
    BY <1>5
  <2> DEFINE h == [s \in Small(m) |-> Body(g, s)]
  <2>2. \A s \in Small(m - 1) : g[s] = Body(g, s)
    BY <2>1
  <2>3. \A s \in Small(m) : h[s] = Body(g, s)
    OBVIOUS
  <2>4. Small(m - 1) \subseteq Small(m)
    BY <1>1, <1>2
  <2>5. \A s \in Small(m - 1) : h[s] = g[s]
    BY <2>2, <2>3, <2>4
  <2>6. ASSUME NEW s \in Small(m), s # {}
        PROVE  s \ {Pick(s)} \in Small(m - 1)
    BY <1>1, <1>2, <1>3, <2>6
  <2>7. \A s \in Small(m) : Body(g, s) = Body(h, s)
    <3> HIDE DEF h, Small
    <3> QED
      BY <2>5, <2>6
  <2>8. h = [s \in Small(m) |-> Body(h, s)]
    <3>1. h = [s \in Small(m) |-> h[s]]
      OBVIOUS
    <3> HIDE DEF h, Small
    <3> QED
      BY <2>3, <2>7, <3>1
  <2> QED
    BY <2>8
<1>6. Exists(n)
  <2> HIDE DEF Exists, n
  <2> DEFINE T == {m \in 0..n : Exists(m)}
  <2>1. 0 \in T /\ \A m \in 1..n : m - 1 \in T => m \in T
    BY <1>1, <1>4, <1>5
  <2> HIDE DEF T
  <2>2. \A m \in 0..n : m \in T
    BY <1>1, <2>1, CountUp
  <2> QED
    BY <1>1, <2>2 DEF T
<1>7. Small(n) = SUBSET S
  BY <1>2
<1> QED
  BY <1>6, <1>7 DEF Adding

\* Sums of numbers are numbers.
LEMMA SumType ==
    ASSUME NEW S, IsFiniteSet(S), NEW f \in [S -> Int], NEW sum, IsSum(sum, f, S)
    PROVE  \A s \in SUBSET S : sum[s] \in Int
<1> DEFINE P == {s \in SUBSET S : sum[s] \in Int}
<1>1. ASSUME NEW s \in SUBSET S, \A t \in SUBSET s : t # s => t \in P
      PROVE  s \in P
  <2>1. CASE s = {}
    <3>1. sum[s] = 0
      BY <2>1 DEF IsSum
    <3> QED
      BY <3>1
  <2>2. CASE s # {}
    <3>1. Pick(s) \in s
      BY <2>2, PartFacts
    <3>2. sum[s \ {Pick(s)}] \in Int
      BY <1>1, <3>1
    <3>3. sum[s] = f[Pick(s)] + sum[s \ {Pick(s)}]
      BY <2>2 DEF IsSum
    <3> QED
      BY <3>1, <3>2, <3>3
  <2> QED
    BY <2>1, <2>2
<1>2. \A s \in SUBSET S : s \in P
  <2> HIDE DEF P
  <2> QED
    BY <1>1, PartsInduction
<1> QED
  BY <1>2

\* sum adds up numbers over the parts of a finite set.
Sums(sum, f, S) == IsFiniteSet(S) /\ f \in [S -> Int] /\ IsSum(sum, f, S)

\* A sum does not depend on the order of its members.
LEMMA SumRemove ==
    ASSUME NEW S, NEW f, NEW sum, Sums(sum, f, S)
    PROVE  \A s \in SUBSET S : \A x \in s : sum[s] = f[x] + sum[s \ {x}]
<1> DEFINE P == {s \in SUBSET S : \A x \in s : sum[s] = f[x] + sum[s \ {x}]}
<1>1. IsFiniteSet(S) /\ f \in [S -> Int] /\ IsSum(sum, f, S)
  BY DEF Sums
<1>2. ASSUME NEW s \in SUBSET S, \A t \in SUBSET s : t # s => t \in P
      PROVE  s \in P
  <2> SUFFICES ASSUME NEW x \in s
               PROVE  sum[s] = f[x] + sum[s \ {x}]
    OBVIOUS
  <2> DEFINE p == Pick(s)
             rest == s \ {x, p}
  <2>1. p \in s
    BY <1>1, PartFacts
  <2>2. sum[s] = f[p] + sum[s \ {p}]
    BY <1>1 DEF IsSum
  <2> HIDE DEF p
  <2>3. CASE x = p
    BY <2>2, <2>3
  <2>4. CASE x # p
    <3>1. s \ {p} \in P /\ s \ {x} \in P
      BY <1>2, <2>1
    <3>2. (s \ {p}) \ {x} = rest /\ (s \ {x}) \ {p} = rest
      OBVIOUS
    <3> HIDE DEF rest
    <3>3. sum[s \ {p}] = f[x] + sum[rest]
      BY <2>4, <3>1, <3>2
    <3>4. sum[s \ {x}] = f[p] + sum[rest]
      BY <2>1, <2>4, <3>1, <3>2
    <3>5. f[x] \in Int /\ f[p] \in Int
      BY <1>1, <2>1
    <3>6. sum[rest] \in Int
      <4>1. rest \in SUBSET S
        BY DEF rest
      <4> QED
        BY <1>1, <4>1, SumType
    <3> QED
      BY <2>2, <3>3, <3>4, <3>5, <3>6
  <2> QED
    BY <2>3, <2>4
<1>3. \A s \in SUBSET S : s \in P
  <2> HIDE DEF P
  <2> QED
    BY <1>1, <1>2, PartsInduction
<1> QED
  BY <1>3

\* The sum over two disjoint parts.
LEMMA SumUnion ==
    ASSUME NEW S, IsFiniteSet(S), NEW f \in [S -> Int], NEW sum, IsSum(sum, f, S)
    PROVE  \A s, t \in SUBSET S : s \cap t = {} => sum[s \cup t] = sum[s] + sum[t]
<1> DEFINE P == {s \in SUBSET S :
                    \A t \in SUBSET S : s \cap t = {} => sum[s \cup t] = sum[s] + sum[t]}
<1>1. Sums(sum, f, S)
  BY DEF Sums
<1>2. ASSUME NEW s \in SUBSET S, \A u \in SUBSET s : u # s => u \in P
      PROVE  s \in P
  <2> SUFFICES ASSUME NEW t \in SUBSET S, s \cap t = {}
               PROVE  sum[s \cup t] = sum[s] + sum[t]
    OBVIOUS
  <2>1. sum[s] \in Int /\ sum[t] \in Int
    BY SumType
  <2>2. CASE s = {}
    <3>1. s \cup t = t /\ sum[s] = 0
      BY <2>2 DEF IsSum
    <3> QED
      BY <2>1, <3>1
  <2>3. CASE s # {}
    <3>1. PICK p : p \in s
      BY <2>3
    <3> DEFINE u == s \ {p}
    <3>2. u \in P /\ u \in SUBSET S /\ u \cap t = {}
      BY <1>2, <3>1
    <3>3. sum[u \cup t] = sum[u] + sum[t]
      BY <3>2
    <3>4. sum[s] = f[p] + sum[u]
      BY <1>1, <3>1, SumRemove
    <3>5. sum[s \cup t] = f[p] + sum[u \cup t]
      <4>1. s \cup t \in SUBSET S /\ p \in s \cup t /\ (s \cup t) \ {p} = u \cup t
        BY <3>1
      <4> HIDE DEF u
      <4> QED
        BY <1>1, <4>1, SumRemove
    <3>6. sum[u] \in Int /\ f[p] \in Int
      BY <3>1, <3>2, SumType
    <3> QED
      BY <2>1, <3>3, <3>4, <3>5, <3>6
  <2> QED
    BY <2>2, <2>3
<1>3. \A s \in SUBSET S : s \in P
  <2> HIDE DEF P
  <2> QED
    BY <1>2, PartsInduction
<1> QED
  BY <1>3

\* Sums of the same numbers are the same.
LEMMA SumAgrees ==
    ASSUME NEW S, IsFiniteSet(S), NEW f, NEW sum, IsSum(sum, f, S),
           NEW T, S \subseteq T, NEW g, NEW other, IsSum(other, g, T),
           \A x \in S : f[x] = g[x]
    PROVE  \A s \in SUBSET S : sum[s] = other[s]
<1> DEFINE P == {s \in SUBSET S : sum[s] = other[s]}
<1>1. ASSUME NEW s \in SUBSET S, \A t \in SUBSET s : t # s => t \in P
      PROVE  s \in P
  <2>1. s \in SUBSET T
    OBVIOUS
  <2>2. CASE s = {}
    BY <2>1, <2>2 DEF IsSum
  <2>3. CASE s # {}
    <3>1. Pick(s) \in s
      BY <2>3, PartFacts
    <3>2. sum[s \ {Pick(s)}] = other[s \ {Pick(s)}] /\ f[Pick(s)] = g[Pick(s)]
      BY <1>1, <3>1
    <3>3. sum[s] = f[Pick(s)] + sum[s \ {Pick(s)}]
      BY <2>3 DEF IsSum
    <3>4. other[s] = g[Pick(s)] + other[s \ {Pick(s)}]
      BY <2>1, <2>3 DEF IsSum
    <3> QED
      BY <3>2, <3>3, <3>4
  <2> QED
    BY <2>2, <2>3
<1>2. \A s \in SUBSET S : s \in P
  <2> HIDE DEF P
  <2> QED
    BY <1>1, PartsInduction
<1> QED
  BY <1>2

\* SUM(amount_at_risk_paise) over rows is their sum.
LEMMA TotalIsSum ==
    ASSUME NEW S \in SUBSET ExceptionRows, IsFiniteSet(S)
    PROVE  \E sum : IsSum(sum, [r \in S |-> r.amount], S) /\ Total(S) = sum[S]
<1> DEFINE f == [r \in S |-> r.amount]
           Fold(g) == [s \in SUBSET S |-> IF s = {} THEN 0 ELSE Pick(s).amount + g[s \ {Pick(s)}]]
           sum == CHOOSE g : g = Fold(g)
<1>1. \A g : Adding(g, f, S) = Fold(g)
  <2> SUFFICES ASSUME NEW g
               PROVE  \A s \in SUBSET S : s # {} => f[Pick(s)] = Pick(s).amount
    BY DEF Adding
  <2> QED
    BY PartFacts
<1>2. \E g : g = Adding(g, f, S)
  <2> HIDE DEF f
  <2> QED
    BY SumExists
<1>3. sum = Fold(sum)
  <2> HIDE DEF Fold
  <2> QED
    BY <1>1, <1>2
<1>4. Total(S) = sum[S]
  BY DEF Total, MapThenSumSet, MapThenFoldSet, Pick
<1> HIDE DEF sum
<1>5. sum = Adding(sum, f, S)
  BY <1>1, <1>3
<1>6. IsSum(sum, f, S)
  <2> HIDE DEF f, Fold
  <2> QED
    BY <1>5 DEF IsSum, Adding
<1> QED
  BY <1>4, <1>6

\* A sum of amounts is a number.
LEMMA TotalType ==
    ASSUME NEW S \in SUBSET ExceptionRows, IsFiniteSet(S)
    PROVE  Total(S) \in Int
<1> DEFINE f == [r \in S |-> r.amount]
<1>1. f \in [S -> Int]
  BY ReadAssumption
<1>2. PICK sum : IsSum(sum, f, S) /\ Total(S) = sum[S]
  BY TotalIsSum
<1> HIDE DEF f
<1> QED
  BY <1>1, <1>2, SumType

-----------------------------------------------------------------------------
(* The evidence of POST /v1/qa                                             *)

\* WhyNotSettled returns rows of the log, all of the payment asked for.
LEMMA WhyNotSettledFacts ==
    ASSUME TypeOK, NEW payment
    PROVE  \A i \in DOMAIN WhyNotSettled(payment) :
               WhyNotSettled(payment)[i] \in {r \in log : r.payment = payment}
<1> DEFINE rows == {r \in log : r.payment = payment}
           R == {p \in rows \X rows : p[1].id > p[2].id}
           q == InOrder(rows, R)
<1>1. WhyNotSettled(payment) = Take(q, WhyCap)
  BY DEF WhyNotSettled
<1>2. rows \in SUBSET log /\ rows \in SUBSET ExceptionRows /\ IsFiniteSet(rows)
  BY FS_Subset DEF TypeOK
<1> HIDE DEF rows
<1>3. \A r, s \in rows : <<r, s>> \in R <=> r.id > s.id
  OBVIOUS
<1> HIDE DEF R
<1>4. Orders(R, rows)
  BY <1>2, <1>3, ReadAssumption DEF Orders
<1>5. q \in Seq(rows)
  BY <1>2, <1>4, Ordered
<1> HIDE DEF q
<1>6. WhyCap \in Nat
  BY ReadAssumption
<1>7. Take(q, WhyCap) \in Seq(rows)
  BY <1>5, <1>6, TakeFacts
<1>8. \A i \in DOMAIN Take(q, WhyCap) : Take(q, WhyCap)[i] \in rows
  BY <1>7
<1> QED
  BY <1>1, <1>8 DEF rows

\* The rows of one reason code.
Group(c) == {r \in log : r.reason = c}

\* UnresolvedAmountByReason returns one row for each reason code, with the sums
\* over its group.  The rows mention no payment.
LEMMA AmountFacts ==
    ASSUME TypeOK
    PROVE  LET q == UnresolvedAmountByReason
           IN  /\ Len(q) \in Nat /\ DOMAIN q = 1..Len(q)
               /\ \A i \in 1..Len(q) : /\ q[i].mentions = {}
                                        /\ q[i].total = Total(Group(q[i].reason))
                                        /\ q[i].count = Cardinality(Group(q[i].reason))
               /\ \A r \in log : \E i \in 1..Len(q) : q[i].reason = r.reason
               /\ \A i, j \in 1..Len(q) : i < j => q[i].reason # q[j].reason
<1> DEFINE group(c) == {r \in log : r.reason = c}
           reasons == {r.reason : r \in log}
           row(c) == [reason |-> c, total |-> Total(group(c)), count |-> Cardinality(group(c)),
                      mentions |-> {}]
           rows == {row(c) : c \in reasons}
           Above(a, b) == a.total > b.total \/ (a.total = b.total /\ a.reason < b.reason)
           R == {p \in rows \X rows : Above(p[1], p[2])}
           q == InOrder(rows, R)
<1>1. UnresolvedAmountByReason = q
  BY DEF UnresolvedAmountByReason
<1>2. reasons \subseteq Int
  BY ReadAssumption DEF TypeOK
<1>3. \A c \in reasons : Total(group(c)) \in Int
  <2> SUFFICES ASSUME NEW c \in reasons
               PROVE  Total(group(c)) \in Int
    OBVIOUS
  <2>1. group(c) \in SUBSET log /\ group(c) \in SUBSET ExceptionRows
    BY DEF TypeOK
  <2> HIDE DEF group
  <2> QED
    BY <2>1, FS_Subset, TotalType DEF TypeOK
<1>4. IsFiniteSet(reasons)
  <2>1. [r \in log |-> r.reason] \in Surjection(log, reasons)
    BY DEF Surjection
  <2> QED
    BY <2>1, FS_Surjection DEF TypeOK
<1>5. \A r \in rows : /\ r.mentions = {} /\ r.total \in Int /\ r.reason \in reasons
                      /\ r = row(r.reason)
  <2> HIDE DEF reasons, group
  <2> QED
    BY <1>3
<1> HIDE DEF reasons
<1>6. IsFiniteSet(rows)
  <2> HIDE DEF row
  <2>1. [c \in reasons |-> row(c)] \in Surjection(reasons, rows)
    BY DEF Surjection
  <2> HIDE DEF rows
  <2> QED
    BY <1>4, <2>1, FS_Surjection
<1> HIDE DEF rows
<1>7. \A r, s \in rows : r.reason = s.reason => r = s
  <2> HIDE DEF row
  <2> QED
    BY <1>5
<1>8. \A r, s \in rows : <<r, s>> \in R <=> Above(r, s)
  OBVIOUS
<1>9. Orders(R, rows)
  <2> HIDE DEF R
  <2>1. \A r \in rows : r.total \in Int /\ r.reason \in Int
    BY <1>2, <1>5
  <2> HIDE DEF row
  <2> QED
    BY <1>7, <1>8, <2>1 DEF Orders
<1> HIDE DEF R, Above, q
<1>10. /\ q \in Seq(rows) /\ Len(q) \in Nat
       /\ \A x \in rows : \E i \in 1..Len(q) : q[i] = x
       /\ \A i, j \in 1..Len(q) : i < j => <<q[i], q[j]>> \in R
  BY <1>6, <1>9, Ordered DEF q
<1>11. DOMAIN q = 1..Len(q) /\ \A i \in 1..Len(q) : q[i] \in rows
  BY <1>10
<1>12. \A i \in 1..Len(q) : /\ q[i].mentions = {}
                             /\ q[i].total = Total(Group(q[i].reason))
                             /\ q[i].count = Cardinality(Group(q[i].reason))
  <2> SUFFICES ASSUME NEW i \in 1..Len(q)
               PROVE  /\ q[i].mentions = {}
                      /\ q[i].total = Total(Group(q[i].reason))
                      /\ q[i].count = Cardinality(Group(q[i].reason))
    OBVIOUS
  <2>1. q[i] = row(q[i].reason)
    BY <1>5, <1>11
  <2>2. \A c : Group(c) = group(c)
    BY DEF Group
  <2>3. PICK c : c = q[i].reason
    OBVIOUS
  <2>4. q[i] = row(c)
    BY <2>1, <2>3
  <2> HIDE DEF group
  <2>5. q[i].mentions = {} /\ q[i].total = Total(group(c)) /\ q[i].count = Cardinality(group(c))
    BY <2>4
  <2> HIDE DEF row
  <2> QED
    BY <2>2, <2>3, <2>5
<1>13. \A r \in log : \E i \in 1..Len(q) : q[i].reason = r.reason
  <2> SUFFICES ASSUME NEW r \in log
               PROVE  \E i \in 1..Len(q) : q[i].reason = r.reason
    OBVIOUS
  <2>1. r.reason \in reasons
    BY DEF reasons
  <2>2. row(r.reason) \in rows /\ row(r.reason).reason = r.reason
    <3>1. row(r.reason).reason = r.reason
      OBVIOUS
    <3> HIDE DEF row
    <3> QED
      BY <2>1, <3>1 DEF rows
  <2> HIDE DEF row
  <2> QED
    BY <1>10, <2>2
<1>14. \A i, j \in 1..Len(q) : i < j => q[i].reason # q[j].reason
  <2> SUFFICES ASSUME NEW i \in 1..Len(q), NEW j \in 1..Len(q), i < j, q[i].reason = q[j].reason
               PROVE  FALSE
    OBVIOUS
  <2> HIDE DEF row
  <2>1. q[i] \in rows /\ q[j] \in rows /\ <<q[i], q[j]>> \in R
    BY <1>10, <1>11
  <2>2. q[i] = q[j]
    BY <1>7, <2>1
  <2>3. \A x \in rows : <<x, x>> \notin R
    BY <1>9 DEF Orders
  <2> QED
    BY <2>1, <2>2, <2>3
<1> HIDE DEF row
<1> QED
  BY <1>1, <1>10, <1>11, <1>12, <1>13, <1>14

\* The rows of a question that names a payment are exceptions of that payment, and
\* those of any other mention none.
LEMMA EvidenceFacts ==
    ASSUME TypeOK, NEW q, NEW rows \in Evidence(q)
    PROVE  /\ q.ids # << >> =>
                 \A i \in DOMAIN rows : rows[i] \in {r \in log : r.payment = Head(q.ids)}
           /\ q.ids = << >> => \A i \in DOMAIN rows : rows[i].mentions = {}
<1>1. CASE q.ids # << >>
  <2>1. Classify(q) = "why_not_settled"
    BY <1>1 DEF Classify
  <2>2. rows = WhyNotSettled(Head(q.ids))
    BY <2>1 DEF Evidence
  <2> QED
    BY <1>1, <2>2, WhyNotSettledFacts
<1>2. CASE q.ids = << >>
  <2>1. Classify(q) # "why_not_settled"
    BY <1>2 DEF Classify
  <2>2. CASE Classify(q) = "amount_at_risk"
    <3>1. rows = UnresolvedAmountByReason
      BY <2>2 DEF Evidence
    <3> QED
      BY <1>2, <3>1, AmountFacts
  <2>3. CASE Classify(q) = "worst_method_by_match_rate"
    <3>1. rows \in MethodRates
      BY <2>3 DEF Evidence
    <3> QED
      BY <1>2, <3>1 DEF MethodRates
  <2>4. CASE Classify(q) \notin {"amount_at_risk", "worst_method_by_match_rate"}
    <3>1. rows = << >>
      BY <2>1, <2>4 DEF Evidence
    <3> QED
      BY <1>2, <3>1
  <2> QED
    BY <2>2, <2>3, <2>4
<1> QED
  BY <1>1, <1>2

-----------------------------------------------------------------------------
(* What the summary of POST /v1/qa states                                  *)

\* The loop of summarizeAmountAtRisk adds up what the rows say.
LEMMA SummaryIsSum ==
    ASSUME NEW n \in Nat, NEW q, DOMAIN q = 1..n,
           \A i \in 1..n : q[i].total \in Int /\ q[i].count \in Int
    PROVE  /\ \E sum : /\ IsSum(sum, [i \in 1..n |-> q[i].total], 1..n)
                       /\ summarizeAmountAtRisk(q).total = sum[1..n]
           /\ \E sum : /\ IsSum(sum, [i \in 1..n |-> q[i].count], 1..n)
                       /\ summarizeAmountAtRisk(q).count = sum[1..n]
<1> DEFINE S == 1..n
<1>1. IsFiniteSet(S)
  BY FS_Interval
<1>2. ASSUME NEW f \in [S -> Int]
      PROVE  LET Fold(g) == [s \in SUBSET S |->
                               IF s = {} THEN 0 ELSE g[s \ {Pick(s)}] + f[Pick(s)]]
             IN  IsSum(CHOOSE g : g = Fold(g), f, S)
  <2> DEFINE Fold(g) == [s \in SUBSET S |->
                           IF s = {} THEN 0 ELSE g[s \ {Pick(s)}] + f[Pick(s)]]
             sum == CHOOSE g : g = Fold(g)
  <2> HIDE DEF S
  <2>1. PICK g : g = Adding(g, f, S)
    BY <1>1, SumExists
  <2>2. IsSum(g, f, S)
    BY <2>1 DEF IsSum, Adding
  <2>3. \A s \in SUBSET S : g[s] \in Int
    BY <1>1, <2>2, SumType
  <2>4. ASSUME NEW s \in SUBSET S, s # {}
        PROVE  f[Pick(s)] + g[s \ {Pick(s)}] = g[s \ {Pick(s)}] + f[Pick(s)]
    <3>1. Pick(s) \in S /\ s \ {Pick(s)} \in SUBSET S
      BY <1>1, <2>4, PartFacts
    <3>2. f[Pick(s)] \in Int /\ g[s \ {Pick(s)}] \in Int
      BY <2>3, <3>1
    <3> QED
      BY <3>2
  <2>5. Adding(g, f, S) = Fold(g)
    BY <2>4 DEF Adding
  <2>6. sum = Fold(sum)
    <3> HIDE DEF Fold
    <3> QED
      BY <2>1, <2>5
  <2> HIDE DEF sum
  <2>7. \A s \in SUBSET S :
           sum[s] = IF s = {} THEN 0 ELSE sum[s \ {Pick(s)}] + f[Pick(s)]
    BY <2>6
  <2> HIDE DEF Fold
  <2> DEFINE P == {s \in SUBSET S : sum[s] \in Int}
  <2>8. ASSUME NEW s \in SUBSET S, \A t \in SUBSET s : t # s => t \in P
        PROVE  s \in P
    <3>1. CASE s = {}
      <4>1. sum[s] = 0
        BY <2>7, <3>1
      <4> QED
        BY <4>1
    <3>2. CASE s # {}
      <4>1. Pick(s) \in s
        BY <1>1, <3>2, PartFacts
      <4>2. sum[s \ {Pick(s)}] \in Int /\ f[Pick(s)] \in Int
        BY <2>8, <4>1
      <4>3. sum[s] = sum[s \ {Pick(s)}] + f[Pick(s)]
        BY <2>7, <3>2
      <4> QED
        BY <4>2, <4>3
    <3> QED
      BY <3>1, <3>2
  <2>9. \A s \in SUBSET S : sum[s] \in Int
    <3>1. \A s \in SUBSET S : s \in P
      <4> HIDE DEF P
      <4> QED
        BY <1>1, <2>8, PartsInduction
    <3> QED
      BY <3>1
  <2>10. ASSUME NEW s \in SUBSET S
         PROVE  sum[s] = IF s = {} THEN 0 ELSE f[Pick(s)] + sum[s \ {Pick(s)}]
    <3>1. CASE s = {}
      BY <2>7, <3>1
    <3>2. CASE s # {}
      <4>1. Pick(s) \in S /\ s \ {Pick(s)} \in SUBSET S
        BY <1>1, <3>2, PartFacts
      <4>2. f[Pick(s)] \in Int /\ sum[s \ {Pick(s)}] \in Int
        BY <2>9, <4>1
      <4>3. sum[s] = sum[s \ {Pick(s)}] + f[Pick(s)]
        BY <2>7, <3>2
      <4> QED
        BY <3>2, <4>2, <4>3
    <3> QED
      BY <3>1, <3>2
  <2>11. IsSum(sum, f, S)
    BY <2>10 DEF IsSum
  <2> QED
    BY <2>11 DEF sum, Fold
<1>3. \E sum : /\ IsSum(sum, [i \in S |-> q[i].total], S)
               /\ summarizeAmountAtRisk(q).total = sum[S]
  <2> DEFINE f == [i \in S |-> q[i].total]
             Fold(g) == [s \in SUBSET S |->
                           IF s = {} THEN 0 ELSE g[s \ {Pick(s)}] + f[Pick(s)]]
             Loop(g) == [s \in SUBSET S |->
                           IF s = {} THEN 0 ELSE g[s \ {Pick(s)}] + q[Pick(s)].total]
  <2>1. summarizeAmountAtRisk(q).total = (CHOOSE g : g = Loop(g))[S]
    BY DEF summarizeAmountAtRisk, FoldSeq, FoldFunction, FoldFunctionOnSet,
           MapThenFoldSet, Pick
  <2>2. f \in [S -> Int]
    OBVIOUS
  <2>3. \A g : Fold(g) = Loop(g)
    <3>1. \A s \in SUBSET S : s # {} => f[Pick(s)] = q[Pick(s)].total
      BY <1>1, PartFacts
    <3> HIDE DEF f, S
    <3> QED
      BY <3>1
  <2>4. IsSum(CHOOSE g : g = Fold(g), f, S)
    <3> HIDE DEF f, S
    <3> QED
      BY <1>2, <2>2
  <2>5. (CHOOSE g : g = Fold(g)) = (CHOOSE g : g = Loop(g))
    <3> HIDE DEF Fold, Loop
    <3> QED
      BY <2>3
  <2> HIDE DEF Fold, Loop
  <2> QED
    BY <2>1, <2>4, <2>5
<1>4. \E sum : /\ IsSum(sum, [i \in S |-> q[i].count], S)
               /\ summarizeAmountAtRisk(q).count = sum[S]
  <2> DEFINE f == [i \in S |-> q[i].count]
             Fold(g) == [s \in SUBSET S |->
                           IF s = {} THEN 0 ELSE g[s \ {Pick(s)}] + f[Pick(s)]]
             Loop(g) == [s \in SUBSET S |->
                           IF s = {} THEN 0 ELSE g[s \ {Pick(s)}] + q[Pick(s)].count]
  <2>1. summarizeAmountAtRisk(q).count = (CHOOSE g : g = Loop(g))[S]
    BY DEF summarizeAmountAtRisk, FoldSeq, FoldFunction, FoldFunctionOnSet,
           MapThenFoldSet, Pick
  <2>2. f \in [S -> Int]
    OBVIOUS
  <2>3. \A g : Fold(g) = Loop(g)
    <3>1. \A s \in SUBSET S : s # {} => f[Pick(s)] = q[Pick(s)].count
      BY <1>1, PartFacts
    <3> HIDE DEF f, S
    <3> QED
      BY <3>1
  <2>4. IsSum(CHOOSE g : g = Fold(g), f, S)
    <3> HIDE DEF f, S
    <3> QED
      BY <1>2, <2>2
  <2>5. (CHOOSE g : g = Fold(g)) = (CHOOSE g : g = Loop(g))
    <3> HIDE DEF Fold, Loop
    <3> QED
      BY <2>3
  <2> HIDE DEF Fold, Loop
  <2> QED
    BY <2>1, <2>4, <2>5
<1> QED
  BY <1>3, <1>4

\* Adding one more row to those before it.
LEMMA SumUpTo ==
    ASSUME NEW n \in Nat, NEW f, NEW sum, Sums(sum, f, 1..n)
    PROVE  \A m \in 1..n : sum[1..m] = f[m] + sum[1..(m - 1)]
<1> SUFFICES ASSUME NEW m \in 1..n
             PROVE  sum[1..m] = f[m] + sum[1..(m - 1)]
  OBVIOUS
<1>1. PICK S : S = 1..n
  OBVIOUS
<1>2. PICK s : s = 1..m
  OBVIOUS
<1>3. s \in SUBSET S
  BY <1>1, <1>2
<1>4. m \in s /\ s \ {m} = 1..(m - 1)
  BY <1>2
<1>5. Sums(sum, f, S)
  BY <1>1
<1>6. sum[s] = f[m] + sum[s \ {m}]
  BY <1>3, <1>4, <1>5, SumRemove
<1> QED
  BY <1>2, <1>4, <1>6

\* The summary adds up to the whole log: the groups share no row and leave none out.
LEMMA GroupsAddUp ==
    ASSUME TypeOK
    PROVE  /\ summarizeAmountAtRisk(UnresolvedAmountByReason).total = Total(log)
           /\ summarizeAmountAtRisk(UnresolvedAmountByReason).count = Cardinality(log)
<1> DEFINE amounts == [r \in log |-> r.amount]
<1>1. log \in SUBSET ExceptionRows /\ IsFiniteSet(log) /\ amounts \in [log -> Int]
  BY ReadAssumption DEF TypeOK
<1>2. PICK all : IsSum(all, amounts, log) /\ Total(log) = all[log]
  BY <1>1, TotalIsSum
<1>3. ASSUME NEW c
      PROVE  /\ Group(c) \in SUBSET log /\ IsFiniteSet(Group(c))
             /\ Total(Group(c)) = all[Group(c)] /\ Total(Group(c)) \in Int
  <2> DEFINE G == Group(c)
             own == [r \in G |-> r.amount]
  <2>1. G \in SUBSET log /\ G \in SUBSET ExceptionRows
    BY <1>1 DEF Group
  <2> HIDE DEF G
  <2>2. IsFiniteSet(G)
    BY <1>1, <2>1, FS_Subset
  <2>3. PICK sum : IsSum(sum, own, G) /\ Total(G) = sum[G]
    BY <2>1, <2>2, TotalIsSum
  <2>4. \A r \in G : own[r] = amounts[r]
    BY <2>1
  <2> HIDE DEF own, amounts
  <2>5. sum[G] = all[G]
    <3>1. IsSum(sum, own, G) /\ IsSum(all, amounts, log) /\ G \subseteq log
      BY <1>2, <2>1, <2>3
    <3>2. \A s \in SUBSET G : sum[s] = all[s]
      BY <2>2, <2>4, <3>1, SumAgrees
    <3> QED
      BY <3>2
  <2>6. Total(G) \in Int
    BY <2>1, <2>2, TotalType
  <2> QED
    BY <2>1, <2>2, <2>3, <2>5, <2>6 DEF G
<1> HIDE DEF amounts
<1>4. PICK q : q = UnresolvedAmountByReason
  OBVIOUS
<1> DEFINE n == Len(q)
<1>5. /\ n \in Nat /\ DOMAIN q = 1..n
      /\ \A i \in 1..n : /\ q[i].total = Total(Group(q[i].reason))
                         /\ q[i].count = Cardinality(Group(q[i].reason))
      /\ \A r \in log : \E i \in 1..n : q[i].reason = r.reason
      /\ \A i, j \in 1..n : i < j => q[i].reason # q[j].reason
  BY <1>4, AmountFacts
<1> HIDE DEF n
<1>6. \A i \in 1..n : /\ q[i].total \in Int /\ q[i].count \in Int
                      /\ q[i].total = all[Group(q[i].reason)]
  BY <1>3, <1>5, FS_CardinalityType
<1> DEFINE ft == [i \in 1..n |-> q[i].total]
           fc == [i \in 1..n |-> q[i].count]
<1>7. PICK totals : /\ IsSum(totals, ft, 1..n)
                    /\ summarizeAmountAtRisk(q).total = totals[1..n]
  BY <1>5, <1>6, SummaryIsSum
<1>8. PICK counts : /\ IsSum(counts, fc, 1..n)
                    /\ summarizeAmountAtRisk(q).count = counts[1..n]
  BY <1>5, <1>6, SummaryIsSum
<1>9. /\ ft \in [1..n -> Int] /\ \A i \in 1..n : ft[i] = q[i].total
      /\ fc \in [1..n -> Int] /\ \A i \in 1..n : fc[i] = q[i].count
  BY <1>6
<1> HIDE DEF ft, fc
<1>10. Sums(totals, ft, 1..n) /\ Sums(counts, fc, 1..n)
  BY <1>5, <1>7, <1>8, <1>9, FS_Interval DEF Sums
<1> DEFINE U(m) == {r \in log : \E i \in 1..m : q[i].reason = r.reason}
           Upto(m) == totals[1..m] = all[U(m)] /\ counts[1..m] = Cardinality(U(m))
<1>11. Upto(0)
  <2>1. 1..0 = {} /\ U(0) = {}
    OBVIOUS
  <2>2. totals[{}] = 0 /\ counts[{}] = 0 /\ all[{}] = 0
    BY <1>2, <1>7, <1>8 DEF IsSum
  <2>3. Cardinality({}) = 0
    BY FS_EmptySet
  <2> QED
    BY <2>1, <2>2, <2>3
<1>12. ASSUME NEW m \in 1..n, Upto(m - 1)
       PROVE  Upto(m)
  <2> DEFINE G == Group(q[m].reason)
             V == U(m - 1)
  <2>1. /\ U(m) = V \cup G /\ V \cap G = {}
        /\ V \in SUBSET log /\ G \in SUBSET log
    <3>1. \A i \in 1..(m - 1) : i \in 1..n /\ i < m /\ i \in 1..m
      BY <1>5
    <3>2. \A i \in 1..m : i \in 1..(m - 1) \/ i = m
      BY <1>5
    <3>3. m \in 1..m
      BY <1>5
    <3>4. U(m) \subseteq V \cup G
      BY <3>2 DEF Group
    <3>5. V \cup G \subseteq U(m)
      BY <3>1, <3>3 DEF Group
    <3>6. V \cap G = {}
      BY <1>5, <3>1 DEF Group
    <3> QED
      BY <3>4, <3>5, <3>6 DEF Group
  <2>2. totals[1..m] = q[m].total + totals[1..(m - 1)]
    <3>1. totals[1..m] = ft[m] + totals[1..(m - 1)]
      BY <1>5, <1>10, SumUpTo
    <3>2. ft[m] = q[m].total
      BY <1>9
    <3> QED
      BY <3>1, <3>2
  <2>3. counts[1..m] = q[m].count + counts[1..(m - 1)]
    <3>1. counts[1..m] = fc[m] + counts[1..(m - 1)]
      BY <1>5, <1>10, SumUpTo
    <3>2. fc[m] = q[m].count
      BY <1>9
    <3> QED
      BY <3>1, <3>2
  <2>4. q[m].total = all[G] /\ q[m].count = Cardinality(G)
    BY <1>5, <1>6
  <2>5. totals[1..(m - 1)] = all[V] /\ counts[1..(m - 1)] = Cardinality(V)
    BY <1>12
  <2>6. IsFiniteSet(V) /\ IsFiniteSet(G)
    BY <1>1, <2>1, FS_Subset
  <2> HIDE DEF G, V
  <2>7. all[V \cup G] = all[V] + all[G]
    BY <1>1, <1>2, <2>1, SumUnion
  <2>8. all[V] \in Int /\ all[G] \in Int
    BY <1>1, <1>2, <2>1, SumType
  <2>9. Cardinality(V \cup G) = Cardinality(V) + Cardinality(G)
    <3>1. Cardinality(V \cup G) = Cardinality(V) + Cardinality(G) - Cardinality(V \cap G)
      BY <2>6, FS_Union
    <3>2. Cardinality(V \cap G) = 0
      BY <2>1, FS_EmptySet
    <3> QED
      BY <2>6, <3>1, <3>2, FS_CardinalityType
  <2>10. Cardinality(V) \in Nat /\ Cardinality(G) \in Nat
    BY <2>6, FS_CardinalityType
  <2>11. totals[1..m] = all[V \cup G]
    BY <2>2, <2>4, <2>5, <2>7, <2>8
  <2>12. counts[1..m] = Cardinality(V \cup G)
    BY <2>3, <2>4, <2>5, <2>9, <2>10
  <2> QED
    BY <2>1, <2>11, <2>12
<1>13. Upto(n)
  <2> HIDE DEF Upto
  <2> DEFINE T == {m \in 0..n : Upto(m)}
  <2>1. 0 \in T /\ \A m \in 1..n : m - 1 \in T => m \in T
    BY <1>5, <1>11, <1>12
  <2> HIDE DEF T
  <2>2. \A m \in 0..n : m \in T
    BY <1>5, <2>1, CountUp
  <2> QED
    BY <1>5, <2>2 DEF T
<1>14. U(n) = log
  BY <1>5
<1> QED
  BY <1>2, <1>4, <1>7, <1>8, <1>13, <1>14

-----------------------------------------------------------------------------
(* The inductive invariant                                                 *)

\* A row the engine writes between two pages takes nothing from a walk, and
\* nothing from what a question is answered from.
LEMMA WriteExceptionPreserves ==
    ASSUME IInv, WriteException
    PROVE  IInv'
<1>1. PICK r \in ExceptionRows : log' = log \cup {r}
  BY DEF WriteException
<1>2. walk' = walk /\ asked' = asked /\ answer' = answer
  BY DEF WriteException
<1>3. IsFiniteSet(log')
  <2>1. IsFiniteSet(log)
    BY DEF IInv, TypeOK
  <2> QED
    BY <1>1, <2>1, FS_AddElement
<1>4. TypeOK'
  BY <1>1, <1>2, <1>3 DEF IInv, TypeOK
<1>5. WalkIsOnTrack'
  BY <1>1, <1>2 DEF IInv, WalkIsOnTrack
<1>6. NoEmptyPage'
  BY <1>2 DEF IInv, NoEmptyPage
<1>7. ASSUME NEW q, NEW rows, RowsAnswer(q, rows)
      PROVE  RowsAnswer(q, rows)'
  BY <1>1, <1>7 DEF RowsAnswer
<1>8. EvidenceFits'
  BY <1>2, <1>7 DEF IInv, EvidenceFits
<1>9. ModelTextIsBacked'
  BY <1>2, <1>7 DEF IInv, ModelTextIsBacked
<1> QED
  BY <1>4, <1>5, <1>6, <1>8, <1>9 DEF IInv

\* A failed request leaves the operator with the page before.
LEMMA PageFailsPreserves ==
    ASSUME IInv, PageFails
    PROVE  TypeOK' /\ WalkIsOnTrack' /\ NoEmptyPage'
<1>1. PICK status \in {400, 500} : walk' = [walk EXCEPT !.status = status]
  BY DEF PageFails
<1>2. log' = log
  BY DEF PageFails
<1>3. TypeOK'
  <2> DEFINE C == Cursors \cup {None}
             W == [status : {None, 200, 400, 500}, page : Seq(ExceptionRows),
                   next : C, listed : Seq(ExceptionRows), begun : SUBSET ExceptionRows]
  <2> HIDE DEF C
  <2>1. walk \in W
    BY DEF IInv, TypeOK, C
  <2>2. walk' \in W
    BY <1>1, <2>1
  <2> QED
    BY <1>2, <2>2 DEF IInv, TypeOK, C
<1>4. /\ walk'.status = status /\ walk'.next = walk.next
      /\ walk'.listed = walk.listed /\ walk'.begun = walk.begun
  BY <1>1 DEF IInv, TypeOK
<1>5. WalkIsOnTrack'
  BY <1>2, <1>4 DEF IInv, WalkIsOnTrack
<1>6. NoEmptyPage'
  BY <1>4 DEF NoEmptyPage
<1> QED
  BY <1>3, <1>5, <1>6

\* The engine and the walks leave answers alone.
LEMMA AnswersStay ==
    ASSUME IInv, UNCHANGED <<log, asked, answer>>
    PROVE  EvidenceFits' /\ ModelTextIsBacked'
BY DEF IInv, EvidenceFits, RowsAnswer, ModelTextIsBacked

\* The agent leaves walks alone.
LEMMA WalkStays ==
    ASSUME IInv, UNCHANGED <<log, walk>>
    PROVE  TypeOK' /\ WalkIsOnTrack' /\ NoEmptyPage'
BY DEF IInv, TypeOK, WalkIsOnTrack, NoEmptyPage

\* A summary and a refusal are not texts of the model.
LEMMA NotFromTheModel ==
    /\ \A a : Summary(a).source # "llm"
    /\ \A status : Refusal(status).source # "llm"
BY ReadAssumption DEF Summary, Answered, Refusal

\* The query of a question.
LEMMA AskPreserves ==
    ASSUME IInv, Ask
    PROVE  EvidenceFits' /\ ModelTextIsBacked'
<1>1. PICK q \in Questions : \E rows \in Evidence(q) :
         LET a == [question |-> q, rows |-> rows]
         IN  IF rows = << >>
             THEN answer' = Summary(a) /\ UNCHANGED asked
             ELSE asked' = a /\ UNCHANGED answer
  BY DEF Ask
<1>2. PICK rows \in Evidence(q) :
         LET a == [question |-> q, rows |-> rows]
         IN  IF rows = << >>
             THEN answer' = Summary(a) /\ UNCHANGED asked
             ELSE asked' = a /\ UNCHANGED answer
  BY <1>1
<1>3. log' = log
  BY DEF Ask
<1>4. CASE rows = << >>
  <2>1. asked' = asked /\ answer'.source # "llm"
    BY <1>2, <1>4, NotFromTheModel
  <2> QED
    BY <1>3, <2>1 DEF IInv, EvidenceFits, RowsAnswer, ModelTextIsBacked
<1>5. CASE rows # << >>
  <2>1. answer' = answer /\ asked'.rows = rows /\ asked'.question = q
    BY <1>2, <1>5
  <2>2. /\ q.ids # << >> =>
              \A i \in DOMAIN rows : rows[i] \in {r \in log : r.payment = Head(q.ids)}
        /\ q.ids = << >> => \A i \in DOMAIN rows : rows[i].mentions = {}
    BY EvidenceFacts DEF IInv
  <2>4. RowsAnswer(q, rows)'
    BY <1>3, <1>5, <2>2 DEF RowsAnswer
  <2>5. EvidenceFits'
    BY <2>1, <2>2, <2>4 DEF EvidenceFits
  <2>6. ModelTextIsBacked'
    BY <1>3, <2>1 DEF IInv, ModelTextIsBacked, RowsAnswer
  <2> QED
    BY <2>5, <2>6
<1> QED
  BY <1>4, <1>5

\* A question that is refused.
LEMMA QuestionFailsPreserves ==
    ASSUME IInv, QuestionFails
    PROVE  EvidenceFits' /\ ModelTextIsBacked'
<1>1. log' = log /\ asked' = asked
  BY DEF QuestionFails
<1>2. answer'.source # "llm"
  BY NotFromTheModel DEF QuestionFails
<1> QED
  BY <1>1, <1>2 DEF IInv, EvidenceFits, RowsAnswer, ModelTextIsBacked

\* The text of the model, or the summary.
LEMMA ComposePreserves ==
    ASSUME IInv, Compose
    PROVE  EvidenceFits' /\ ModelTextIsBacked'
<1>1. asked # None /\ asked' = None /\ log' = log
  BY DEF Compose
<1>2. EvidenceFits'
  BY <1>1 DEF EvidenceFits
<1>3. CASE answer' = Summary(asked)
  BY <1>2, <1>3, NotFromTheModel DEF ModelTextIsBacked
<1>4. ASSUME NEW text, answer' = Answered("llm", text, asked), groundedInEvidence(text, asked)
      PROVE  ModelTextIsBacked'
  <2>1. answer'.text = text /\ answer'.to = asked
    BY <1>4 DEF Answered
  <2>2. /\ RowsAnswer(asked.question, asked.rows)
        /\ asked.question.ids = << >> =>
              \A i \in DOMAIN asked.rows : asked.rows[i].mentions = {}
    BY <1>1 DEF IInv, EvidenceFits
  <2>3. Given(asked) = ToSet(asked.question.ids)
                           \cup UNION {asked.rows[i].mentions : i \in DOMAIN asked.rows}
    BY DEF Given
  <2>4. \A id \in text : \E g \in Given(asked) : IsPrefix(id, g)
    BY <1>4 DEF groundedInEvidence
  <2>5. ASSUME asked.question.ids = << >>
        PROVE  text = {}
    <3>1. ToSet(asked.question.ids) = {}
      BY <2>5 DEF ToSet
    <3>2. Given(asked) = {}
      BY <2>2, <2>5, <3>1 DEF Given
    <3> QED
      BY <2>4, <3>2
  <2> QED
    BY <1>1, <2>1, <2>2, <2>3, <2>4, <2>5 DEF ModelTextIsBacked, RowsAnswer
<1>5. \/ answer' = Summary(asked)
      \/ \E text : answer' = Answered("llm", text, asked) /\ groundedInEvidence(text, asked)
  BY DEF Compose
<1> QED
  BY <1>2, <1>3, <1>4, <1>5

\* IInv is an invariant: pages, answers and the engine's inserts keep it in
\* every order, for every log, limit and question.
THEOREM Inductive == Spec => []IInv
<1>1. Init => IInv
  <2> SUFFICES ASSUME Init
               PROVE  IInv
    OBVIOUS
  <2>1. /\ log = {} /\ asked = None /\ answer = Refusal(None)
        /\ walk = [status |-> None, page |-> << >>, next |-> None, listed |-> << >>, begun |-> {}]
    BY DEF Init
  <2>2. TypeOK
    BY <2>1, FS_EmptySet DEF TypeOK
  <2>3. walk.next = None /\ walk.listed = << >> /\ walk.begun = {}
    BY <2>1
  <2>4. WalkIsOnTrack
    BY <2>3 DEF ToSet, WalkIsOnTrack
  <2>5. NoEmptyPage
    BY <2>3 DEF NoEmptyPage
  <2>6. EvidenceFits
    BY <2>1 DEF EvidenceFits
  <2>7. ModelTextIsBacked
    BY <2>1, NotFromTheModel DEF ModelTextIsBacked
  <2> QED
    BY <2>2, <2>4, <2>5, <2>6, <2>7 DEF IInv
<1>2. IInv /\ [Next]_vars => IInv'
  <2> SUFFICES ASSUME IInv, [Next]_vars
               PROVE  IInv'
    OBVIOUS
  <2>1. CASE WriteException
    BY <2>1, WriteExceptionPreserves
  <2>2. CASE FirstPage
    <3>1. UNCHANGED <<log, asked, answer>>
      BY <2>2 DEF FirstPage
    <3> QED
      BY <2>2, <3>1, FirstPagePreserves, AnswersStay DEF IInv
  <2>3. CASE NextPage
    <3>1. UNCHANGED <<log, asked, answer>>
      BY <2>3 DEF NextPage
    <3> QED
      BY <2>3, <3>1, NextPagePreserves, AnswersStay DEF IInv
  <2>4. CASE PageFails
    <3>1. UNCHANGED <<log, asked, answer>>
      BY <2>4 DEF PageFails
    <3> QED
      BY <2>4, <3>1, PageFailsPreserves, AnswersStay DEF IInv
  <2>5. CASE Ask
    <3>1. UNCHANGED <<log, walk>>
      BY <2>5 DEF Ask
    <3> QED
      BY <2>5, <3>1, AskPreserves, WalkStays DEF IInv
  <2>6. CASE QuestionFails
    <3>1. UNCHANGED <<log, walk>>
      BY <2>6 DEF QuestionFails
    <3> QED
      BY <2>6, <3>1, QuestionFailsPreserves, WalkStays DEF IInv
  <2>7. CASE Compose
    <3>1. UNCHANGED <<log, walk>>
      BY <2>7 DEF Compose
    <3> QED
      BY <2>7, <3>1, ComposePreserves, WalkStays DEF IInv
  <2>8. CASE UNCHANGED vars
    <3>1. UNCHANGED <<log, asked, answer>> /\ UNCHANGED <<log, walk>>
      BY <2>8 DEF vars
    <3> QED
      BY <3>1, AnswersStay, WalkStays DEF IInv
  <2> QED
    BY <2>1, <2>2, <2>3, <2>4, <2>5, <2>6, <2>7, <2>8 DEF Next
<1> QED
  BY <1>1, <1>2, PTL DEF Spec

\* The log and the walk keep their types.
THEOREM TypeCorrect == Spec => []TypeOK
<1>1. IInv => TypeOK
  BY DEF IInv
<1> QED
  BY <1>1, Inductive, PTL

\* A walk through GET /v1/exceptions lists rows worst first, none twice, and
\* ends with all that were there when it began, for every log, every sequence
\* of limits and every insert between two pages.
THEOREM ListingExact == Spec => []ListingIsExact
<1>1. IInv => ListingIsExact
  <2> SUFFICES ASSUME IInv
               PROVE  ListingIsExact
    OBVIOUS
  <2>1. /\ \A i, j \in 1..Len(walk.listed) : i < j => After(walk.listed[j], walk.listed[i])
        /\ walk.next = None => walk.begun \subseteq ToSet(walk.listed)
    BY DEF IInv, WalkIsOnTrack
  <2>2. Len(walk.listed) \in Nat
    BY DEF IInv, TypeOK
  <2>3. \A i \in 2..Len(walk.listed) : After(walk.listed[i], walk.listed[i - 1])
    <3> SUFFICES ASSUME NEW i \in 2..Len(walk.listed)
                 PROVE  After(walk.listed[i], walk.listed[i - 1])
      OBVIOUS
    <3>1. i \in 1..Len(walk.listed) /\ i - 1 \in 1..Len(walk.listed) /\ i - 1 < i
      BY <2>2
    <3> QED
      BY <2>1, <3>1
  <2> QED
    BY <2>1, <2>3 DEF ListingIsExact, WalkedToTheEnd
<1> QED
  BY <1>1, Inductive, PTL

\* A cursor that listExceptions gave out never leads to an empty page: the row
\* that was found beyond the page is still there for the next one.
THEOREM PagesNotEmpty == Spec => []NoEmptyPage
<1>1. IInv => NoEmptyPage
  BY DEF IInv
<1> QED
  BY <1>1, Inductive, PTL

\* A text of the model that POST /v1/qa shows stands on rows about the payment
\* asked for and names only what stands in the question or in those rows, whole or
\* cut short, for every question, every log and every set of ids the model may name.
THEOREM AnswersAreBacked == Spec => []ModelTextIsBacked
<1>1. IInv => ModelTextIsBacked
  BY DEF IInv
<1> QED
  BY <1>1, Inductive, PTL

\* The two views of the operator agree: a walk that ends while the log is as it
\* was at its beginning lists what the agent's summary adds up, for every log,
\* every grouping by reason code and every page size.
THEOREM ViewsAgree == Spec => []TotalsAgree
<1>1. IInv => TotalsAgree
  <2> SUFFICES ASSUME IInv, WalkedToTheEnd, log = walk.begun
               PROVE  summarizeAmountAtRisk(UnresolvedAmountByReason)
                         = [total |-> Total(ToSet(walk.listed)), count |-> Len(walk.listed)]
    BY DEF TotalsAgree
  <2> DEFINE n == Len(walk.listed)
  <2>1. /\ TypeOK /\ ToSet(walk.listed) = log
        /\ \A i, j \in 1..n : i < j => After(walk.listed[j], walk.listed[i])
    <3>1. TypeOK /\ WalkIsOnTrack /\ walk.next = None
      BY DEF IInv, WalkedToTheEnd
    <3>2. ToSet(walk.listed) \subseteq log /\ walk.begun \subseteq ToSet(walk.listed)
      BY <3>1 DEF WalkIsOnTrack
    <3>3. ToSet(walk.listed) = log
      BY <3>2
    <3> QED
      BY <3>1, <3>3 DEF WalkIsOnTrack
  <2>2. walk.listed \in Seq(ExceptionRows)
    BY DEF IInv, TypeOK
  <2>3. n \in Nat /\ DOMAIN walk.listed = 1..n /\ \A i \in 1..n : walk.listed[i] \in ExceptionRows
    BY <2>2
  <2>4. log = {walk.listed[i] : i \in 1..n}
    BY <2>1, <2>3 DEF ToSet
  <2>5. PICK f : f = [i \in 1..n |-> walk.listed[i]]
    OBVIOUS
  <2>6. \A i, j \in 1..n : f[i] = f[j] => i = j
    <3> SUFFICES ASSUME NEW i \in 1..n, NEW j \in 1..n, i < j
                 PROVE  walk.listed[i] # walk.listed[j]
      BY <2>3, <2>5
    <3> QED
      BY <2>1, <2>3, AfterOrders
  <2>7. f \in Bijection(1..n, log)
    BY <2>4, <2>5, <2>6 DEF Bijection, Injection, IsInjective, Surjection
  <2>8. Cardinality(log) = n
    <3>1. IsFiniteSet(1..n) /\ Cardinality(1..n) = n
      BY <2>3, FS_Interval
    <3>2. ExistsBijection(1..n, log)
      BY <2>7 DEF ExistsBijection
    <3> QED
      BY <3>1, <3>2, FS_Bijection
  <2>9. /\ summarizeAmountAtRisk(UnresolvedAmountByReason).total = Total(log)
        /\ summarizeAmountAtRisk(UnresolvedAmountByReason).count = Cardinality(log)
    BY <2>1, GroupsAddUp
  <2>10. \A q : summarizeAmountAtRisk(q) = [total |-> summarizeAmountAtRisk(q).total,
                                             count |-> summarizeAmountAtRisk(q).count]
    BY DEF summarizeAmountAtRisk
  <2> QED
    BY <2>1, <2>8, <2>9, <2>10
<1> QED
  BY <1>1, Inductive, PTL
=============================================================================
