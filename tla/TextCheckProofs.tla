-------------------------- MODULE TextCheckProofs --------------------------
(***************************************************************************)
(* levenshtein, normalize and RejectPossiblePAN keep their promises for    *)
(* identifiers and payloads of every length, over every alphabet.          *)
(***************************************************************************)
EXTENDS TextChecks, FiniteSetTheorems, SequenceTheorems, WellFoundedInduction, TLAPS

\* Most leaves are first-order: Zenon is asked before the SMT solver.
USE ZenonT(5), SMTT(10)

-----------------------------------------------------------------------------
(* Loops                                                                   *)

\* A set that holds 0, and each number up to n if it holds the one before, holds
\* them all: what holds before a loop over n runes and survives each of its
\* rounds holds after it.
LEMMA CountUp ==
    ASSUME NEW n \in Nat, NEW S, 0 \in S,
           \A m \in 1..n : m - 1 \in S => m \in S
    PROVE  \A m \in 0..n : m \in S
<1> DEFINE Missing == (0..n) \ S
<1> SUFFICES ASSUME Missing # {}
             PROVE  FALSE
  OBVIOUS
<1>1. Missing \subseteq Nat
  OBVIOUS
<1>2. PICK m \in Missing : \A k \in Missing : ~(<<k, m>> \in OpToRel(<, Nat))
  <2> HIDE DEF Missing
  <2> QED
    BY <1>1, NatLessThanWellFounded, WFMin
<1>3. \A k \in Missing : ~(k < m)
  <2> HIDE DEF Missing
  <2> QED
    BY <1>1, <1>2 DEF OpToRel
<1>4. m \in 1..n /\ m - 1 \in 0..n
  OBVIOUS
<1>5. m - 1 \in S
  BY <1>3, <1>4
<1> QED
  BY <1>4, <1>5

\* f holds the values of a loop variable: c before the loop, and after each
\* round what G makes of the value before it.
Runs(f, n, c, G) == f[0] = c /\ \A i \in 1..n : f[i] = G[<<f[i - 1], i>>]

\* A loop of n rounds over a variable with values in V has an outcome.
LEMMA LoopRuns ==
    ASSUME NEW n \in Nat, NEW V, NEW c \in V, NEW G \in [V \X (1..n) -> V]
    PROVE  \E f \in [0..n -> V] : Runs(f, n, c, G)
<1> DEFINE S == {m \in 0..n : \E f \in [0..m -> V] : Runs(f, m, c, G)}
<1>1. 0 \in S
  <2> DEFINE f == [i \in 0..0 |-> c]
  <2>1. f \in [0..0 -> V] /\ f[0] = c
    OBVIOUS
  <2> HIDE DEF f
  <2>2. Runs(f, 0, c, G)
    BY <2>1 DEF Runs
  <2> QED
    BY <2>1, <2>2
<1>2. ASSUME NEW m \in 1..n, m - 1 \in S
      PROVE  m \in S
  <2>1. PICK f \in [0..(m - 1) -> V] : Runs(f, m - 1, c, G)
    BY <1>2
  <2> DEFINE last == G[<<f[m - 1], m>>]
             g == [i \in 0..m |-> IF i = m THEN last ELSE f[i]]
  <2>2. m - 1 \in 0..(m - 1) /\ f[m - 1] \in V
    OBVIOUS
  <2>3. last \in V
    BY <2>2
  <2> HIDE DEF last
  <2>4. g \in [0..m -> V] /\ g[m] = last /\ \A i \in 0..(m - 1) : g[i] = f[i]
    BY <2>3
  <2> HIDE DEF g
  <2>5. g[0] = c
    BY <2>1, <2>4 DEF Runs
  <2>6. ASSUME NEW i \in 1..m
        PROVE  g[i] = G[<<g[i - 1], i>>]
    <3>1. CASE i = m
      BY <2>2, <2>4, <3>1 DEF last
    <3>2. CASE i # m
      <4>1. i \in 1..(m - 1) /\ i \in 0..(m - 1) /\ i - 1 \in 0..(m - 1)
        BY <3>2
      <4>2. f[i] = G[<<f[i - 1], i>>]
        BY <2>1, <4>1 DEF Runs
      <4> QED
        BY <2>4, <4>1, <4>2
    <3> QED
      BY <3>1, <3>2
  <2>7. Runs(g, m, c, G)
    BY <2>5, <2>6 DEF Runs
  <2> QED
    BY <2>4, <2>7
<1>3. n \in S
  <2> HIDE DEF S
  <2>1. \A m \in 0..n : m \in S
    BY <1>1, <1>2, CountUp
  <2> QED
    BY <2>1
<1> QED
  BY <1>3

\* Two loops start alike, and go on alike from equal values.
Alike(f, g, n) ==
    f[0] = g[0] /\ \A i \in 1..n : f[i - 1] = g[i - 1] => f[i] = g[i]

\* Two loops that start and go on alike have the same outcome.
LEMMA SameLoop ==
    ASSUME NEW n \in Nat, NEW f, NEW g, Alike(f, g, n)
    PROVE  \A i \in 0..n : f[i] = g[i]
<1> DEFINE S == {i \in 0..n : f[i] = g[i]}
<1>1. 0 \in S /\ \A i \in 1..n : i - 1 \in S => i \in S
  BY DEF Alike
<1> HIDE DEF S
<1>2. \A i \in 0..n : i \in S
  BY <1>1, CountUp
<1> QED
  BY <1>2 DEF S

-----------------------------------------------------------------------------
(* Strip                                                                   *)

\* kept holds the parts of s without the runes of removed, one rune more each.
Strips(kept, s, removed) ==
    /\ kept[0] = << >>
    /\ \A i \in 1..Len(s) :
          kept[i] = IF s[i] \in removed THEN kept[i - 1] ELSE Append(kept[i - 1], s[i])

\* stripSeparators goes through the bytes of its argument one by one.
LEMMA StripSteps ==
    ASSUME NEW X, NEW s \in Seq(X), NEW removed
    PROVE  \E kept \in [0..Len(s) -> Seq(X)] :
               Strips(kept, s, removed) /\ Strip(s, removed) = kept[Len(s)]
<1> DEFINE n == Len(s)
           Body(v, i) == IF s[i] \in removed THEN v ELSE Append(v, s[i])
           Step(g) == [i \in 0..n |-> IF i = 0 THEN << >> ELSE Body(g[i - 1], i)]
           G == [x \in Seq(X) \X (1..n) |-> Body(x[1], x[2])]
           kept == CHOOSE g : g = Step(g)
<1>1. n \in Nat /\ \A i \in 1..n : s[i] \in X
  OBVIOUS
<1>2. G \in [Seq(X) \X (1..n) -> Seq(X)]
  BY <1>1
<1>3. \A v \in Seq(X), i \in 1..n : G[<<v, i>>] = Body(v, i)
  OBVIOUS
<1>4. << >> \in Seq(X)
  OBVIOUS
<1> HIDE DEF G, n
<1>5. PICK f \in [0..n -> Seq(X)] : Runs(f, n, << >>, G)
  BY <1>1, <1>2, <1>4, LoopRuns
<1>6. \A i \in 0..n : f[i] = IF i = 0 THEN << >> ELSE Body(f[i - 1], i)
  <2> SUFFICES ASSUME NEW i \in 0..n, i # 0
               PROVE  f[i] = Body(f[i - 1], i)
    BY <1>5 DEF Runs
  <2>1. i \in 1..n /\ i - 1 \in 0..n
    BY <1>1
  <2> HIDE DEF Body
  <2> QED
    BY <1>3, <1>5, <2>1 DEF Runs
<1>7. f = Step(f)
  <2> HIDE DEF Body
  <2> QED
    BY <1>6
<1>8. kept = Step(kept)
  <2> HIDE DEF Step
  <2> QED
    BY <1>7
<1>9. Strip(s, removed) = kept[n]
  BY DEF Strip, n
<1>10. \A i \in 1..n : kept[i - 1] = f[i - 1] => kept[i] = f[i]
  <2> SUFFICES ASSUME NEW i \in 1..n
               PROVE  kept[i] = Body(kept[i - 1], i) /\ f[i] = Body(f[i - 1], i)
    OBVIOUS
  <2>1. i \in 0..n /\ i # 0
    BY <1>1
  <2> HIDE DEF Body, kept
  <2> QED
    BY <1>6, <1>8, <2>1
<1>11. kept[0] = f[0]
  <2> HIDE DEF Body, kept
  <2> QED
    BY <1>1, <1>6, <1>8
<1>12. kept[n] = f[n]
  <2> HIDE DEF kept
  <2>1. Alike(kept, f, n)
    BY <1>10, <1>11 DEF Alike
  <2>2. \A i \in 0..n : kept[i] = f[i]
    BY <1>1, <2>1, SameLoop
  <2> QED
    BY <1>1, <2>2
<1>13. Strips(f, s, removed)
  <2>1. f[0] = << >>
    BY <1>1, <1>6
  <2>2. \A i \in 1..n : f[i] = Body(f[i - 1], i)
    <3> HIDE DEF Body
    <3> QED
      BY <1>1, <1>6
  <2> QED
    BY <2>1, <2>2 DEF Strips, n
<1> QED
  BY <1>9, <1>12, <1>13 DEF n

\* t is s with r inserted behind the first i runes.
HasInserted(t, s, i, r) ==
    /\ Len(t) = Len(s) + 1
    /\ \A j \in 1..i : t[j] = s[j]
    /\ t[i + 1] = r
    /\ \A j \in (i + 1)..Len(s) : t[j + 1] = s[j]

\* What typing one separator more does to an identifier or a payload.
LEMMA InsertedFacts ==
    ASSUME NEW X, NEW s \in Seq(X), NEW i \in 0..Len(s), NEW r \in X
    PROVE  Inserted(s, i, r) \in Seq(X) /\ HasInserted(Inserted(s, i, r), s, i, r)
<1> DEFINE n == Len(s)
           a == SubSeq(s, 1, i)
           b == Append(a, r)
           c == SubSeq(s, i + 1, n)
           t == b \o c
<1>1. n \in Nat
  OBVIOUS
<1>2. a \in Seq(X) /\ Len(a) = i /\ \A j \in 1..i : a[j] = s[j]
  BY <1>1
<1>3. c \in Seq(X) /\ Len(c) = n - i /\ \A j \in 1..(n - i) : c[j] = s[i + j]
  BY <1>1
<1> HIDE DEF a, c
<1>4. /\ b \in Seq(X) /\ Len(b) = i + 1 /\ b[i + 1] = r
      /\ \A j \in 1..i : b[j] = s[j]
  BY <1>2
<1>5. a \o <<r>> = b
  BY <1>2
<1> HIDE DEF b
<1>6. /\ t \in Seq(X) /\ Len(t) = n + 1
      /\ \A j \in 1..(i + 1) : t[j] = b[j]
      /\ \A j \in 1..(n - i) : t[i + 1 + j] = c[j]
  BY <1>1, <1>3, <1>4
<1>7. Inserted(s, i, r) = t
  BY <1>5 DEF Inserted, a, c
<1> HIDE DEF t
<1>8. \A j \in (i + 1)..n : t[j + 1] = s[j]
  <2> SUFFICES ASSUME NEW j \in (i + 1)..n
               PROVE  t[j + 1] = s[j]
    OBVIOUS
  <2>1. j - i \in 1..(n - i) /\ i + 1 + (j - i) = j + 1 /\ i + (j - i) = j
    BY <1>1
  <2> HIDE DEF n
  <2> QED
    BY <1>3, <1>6, <2>1
<1>9. t[i + 1] = r /\ \A j \in 1..i : t[j] = s[j]
  BY <1>4, <1>6
<1> QED
  BY <1>6, <1>7, <1>8, <1>9 DEF HasInserted

\* A separator more, wherever it is, is stripped like the others.
LEMMA StripInserted ==
    ASSUME NEW X, NEW s \in Seq(X), NEW removed, NEW i \in 0..Len(s), NEW r \in X,
           r \in removed
    PROVE  Strip(Inserted(s, i, r), removed) = Strip(s, removed)
<1> DEFINE n == Len(s)
           t == Inserted(s, i, r)
<1>1. /\ n \in Nat /\ i \in 0..n
      /\ t \in Seq(X) /\ Len(t) = n + 1
      /\ \A j \in 1..i : t[j] = s[j]
      /\ t[i + 1] = r
      /\ \A j \in (i + 1)..n : t[j + 1] = s[j]
  <2>1. t \in Seq(X) /\ HasInserted(t, s, i, r)
    BY InsertedFacts
  <2> HIDE DEF t
  <2> QED
    BY <2>1 DEF HasInserted
<1> HIDE DEF t
<1>2. PICK k \in [0..n -> Seq(X)] : Strips(k, s, removed) /\ Strip(s, removed) = k[n]
  BY StripSteps
<1>3. PICK l \in [0..Len(t) -> Seq(X)] : Strips(l, t, removed) /\ Strip(t, removed) = l[Len(t)]
  <2>1. t \in Seq(X)
    BY <1>1
  <2> QED
    BY <2>1, StripSteps
<1> HIDE DEF n
<1>4. /\ k[0] = << >>
      /\ \A j \in 1..n : k[j] = IF s[j] \in removed THEN k[j - 1] ELSE Append(k[j - 1], s[j])
  BY <1>2 DEF Strips, n
<1>5. /\ l[0] = << >>
      /\ \A j \in 1..(n + 1) : l[j] = IF t[j] \in removed THEN l[j - 1] ELSE Append(l[j - 1], t[j])
  BY <1>1, <1>3 DEF Strips
<1>6. l[i + 1] = l[i]
  BY <1>1, <1>5
<1> DEFINE S == {j \in 0..n : (j <= i => l[j] = k[j]) /\ (j >= i => l[j + 1] = k[j])}
<1>7. 0 \in S
  BY <1>1, <1>4, <1>5, <1>6
<1>8. ASSUME NEW j \in 1..n, j - 1 \in S
      PROVE  j \in S
  <2>1. ASSUME j <= i
        PROVE  l[j] = k[j]
    <3>1. t[j] = s[j] /\ l[j - 1] = k[j - 1] /\ j \in 1..(n + 1)
      BY <1>1, <1>8, <2>1
    <3> QED
      BY <1>4, <1>5, <3>1
  <2>2. ASSUME j > i
        PROVE  l[j + 1] = k[j]
    <3>1. t[j + 1] = s[j] /\ j + 1 \in 1..(n + 1) /\ (j + 1) - 1 = j
      BY <1>1, <2>2
    <3>2. l[j] = k[j - 1]
      BY <1>1, <1>8, <2>2
    <3> QED
      BY <1>4, <1>5, <3>1, <3>2
  <2>3. ASSUME j = i
        PROVE  l[j + 1] = k[j]
    BY <1>1, <1>6, <2>1, <2>3
  <2> QED
    BY <1>1, <2>1, <2>2, <2>3
<1>9. n \in S
  <2> HIDE DEF S
  <2>1. \A j \in 0..n : j \in S
    BY <1>1, <1>7, <1>8, CountUp
  <2> QED
    BY <1>1, <2>1
<1> QED
  BY <1>1, <1>2, <1>3, <1>9 DEF t

-----------------------------------------------------------------------------
(* normalize                                                               *)

\* Runes that normalize takes for the same.
SameRune(a, b) == ToLower(a) = ToLower(b) /\ (a \in Separators <=> b \in Separators)

\* Texts whose runes are the same to normalize are normalized to the same.
LEMMA NormalizeFolds ==
    ASSUME NEW X, NEW s \in Seq(X), NEW t \in Seq(X), Len(t) = Len(s),
           \A j \in 1..Len(s) : SameRune(s[j], t[j])
    PROVE  normalize(t) = normalize(s)
<1> DEFINE n == Len(s)
<1>1. n \in Nat
  OBVIOUS
<1>2. PICK k \in [0..n -> Seq(X)] : Strips(k, s, Separators) /\ Strip(s, Separators) = k[n]
  BY StripSteps
<1>3. PICK l \in [0..Len(t) -> Seq(X)] : Strips(l, t, Separators) /\ Strip(t, Separators) = l[Len(t)]
  BY StripSteps
<1>4. Len(t) = n /\ \A j \in 1..n : SameRune(s[j], t[j])
  OBVIOUS
<1>5. /\ k[0] = << >>
      /\ \A j \in 1..n : k[j] = IF s[j] \in Separators THEN k[j - 1] ELSE Append(k[j - 1], s[j])
  BY <1>2 DEF Strips
<1>6. /\ l[0] = << >>
      /\ \A j \in 1..n : l[j] = IF t[j] \in Separators THEN l[j - 1] ELSE Append(l[j - 1], t[j])
  BY <1>3, <1>4 DEF Strips
<1> DEFINE Same(a, b) == Len(a) = Len(b) /\ \A m \in 1..Len(b) : ToLower(a[m]) = ToLower(b[m])
           S == {j \in 0..n : Same(l[j], k[j])}
<1>7. \A j \in 1..n : s[j] \in X /\ t[j] \in X
  BY <1>4
<1> HIDE DEF n
<1>8. 0 \in S
  <2>1. Same(<< >>, << >>)
    OBVIOUS
  <2> HIDE DEF Same
  <2> QED
    BY <1>1, <1>5, <1>6, <2>1
<1>9. ASSUME NEW j \in 1..n, j - 1 \in S
      PROVE  j \in S
  <2>1. l[j - 1] \in Seq(X) /\ k[j - 1] \in Seq(X) /\ Same(l[j - 1], k[j - 1])
    BY <1>1, <1>3, <1>4, <1>9
  <2>2. CASE s[j] \in Separators
    <3>1. t[j] \in Separators
      BY <1>4, <2>2 DEF SameRune
    <3>2. l[j] = l[j - 1] /\ k[j] = k[j - 1]
      BY <1>5, <1>6, <2>2, <3>1
    <3> HIDE DEF Same
    <3> QED
      BY <2>1, <3>2
  <2>3. CASE s[j] \notin Separators
    <3>1. t[j] \notin Separators /\ ToLower(t[j]) = ToLower(s[j])
      BY <1>4, <2>3 DEF SameRune
    <3>2. l[j] = Append(l[j - 1], t[j]) /\ k[j] = Append(k[j - 1], s[j])
      BY <1>5, <1>6, <2>3, <3>1
    <3>3. ASSUME NEW a \in Seq(X), NEW b \in Seq(X), Same(a, b)
          PROVE  Same(Append(a, t[j]), Append(b, s[j]))
      <4>1. /\ Len(Append(a, t[j])) = Len(a) + 1 /\ Len(Append(b, s[j])) = Len(b) + 1
            /\ Append(a, t[j])[Len(a) + 1] = t[j] /\ Append(b, s[j])[Len(b) + 1] = s[j]
            /\ \A m \in 1..Len(a) : Append(a, t[j])[m] = a[m]
            /\ \A m \in 1..Len(b) : Append(b, s[j])[m] = b[m]
        BY <1>7
      <4>2. Len(a) \in Nat /\ Len(b) = Len(a)
        BY <3>3
      <4> QED
        BY <3>1, <3>3, <4>1, <4>2
    <3> HIDE DEF Same
    <3>4. Same(Append(l[j - 1], t[j]), Append(k[j - 1], s[j]))
      BY <2>1, <3>3
    <3>5. Same(l[j], k[j])
      BY <3>2, <3>4, Zenon
    <3>6. j \in 0..n
      BY <1>1
    <3> QED
      BY <3>5, <3>6
  <2> QED
    BY <2>2, <2>3
<1>10. Same(l[n], k[n])
  <2> HIDE DEF S
  <2>1. \A j \in 0..n : j \in S
    BY <1>1, <1>8, <1>9, CountUp
  <2> QED
    BY <1>1, <2>1 DEF S
<1>11. l[n] \in Seq(X) /\ k[n] \in Seq(X)
  BY <1>1, <1>3, <1>4
<1>12. /\ normalize(s) = [i \in DOMAIN k[n] |-> ToLower(k[n][i])]
       /\ normalize(t) = [i \in DOMAIN l[n] |-> ToLower(l[n][i])]
  BY <1>2, <1>3, <1>4 DEF normalize
<1>13. DOMAIN k[n] = 1..Len(k[n]) /\ DOMAIN l[n] = 1..Len(k[n])
  BY <1>10, <1>11
<1> QED
  BY <1>10, <1>12, <1>13

\* A separator more makes no difference to normalize.
LEMMA NormalizeInserted ==
    ASSUME NEW X, NEW s \in Seq(X), NEW i \in 0..Len(s), NEW r \in Separators
    PROVE  normalize(Inserted(s, i, r)) = normalize(s)
<1>1. s \in Seq(X \cup Separators)
  BY SeqMonotonic
<1>2. Strip(Inserted(s, i, r), Separators) = Strip(s, Separators)
  BY <1>1, StripInserted
<1> QED
  BY <1>2 DEF normalize

\* Nor does an upper case letter.
LEMMA NormalizeUpper ==
    ASSUME NEW X, NEW s \in Seq(X), NEW i \in 1..Len(s), NEW r \in DOMAIN LowerCase,
           s[i] = LowerCase[r]
    PROVE  normalize([s EXCEPT ![i] = r]) = normalize(s)
<1> DEFINE t == [s EXCEPT ![i] = r]
           Y == X \cup {r}
<1>1. s \in Seq(Y)
  BY SeqMonotonic
<1>2. t \in Seq(Y) /\ Len(t) = Len(s) /\ t[i] = r /\ \A j \in 1..Len(s) : j # i => t[j] = s[j]
  BY <1>1
<1> HIDE DEF t, Y
<1>3. SameRune(s[i], r)
  BY LowerCaseAssumption DEF SameRune, ToLower
<1>4. \A j \in 1..Len(s) : SameRune(s[j], s[j])
  BY DEF SameRune
<1>5. \A j \in 1..Len(s) : SameRune(s[j], t[j])
  BY <1>2, <1>3, <1>4
<1>6. normalize(t) = normalize(s)
  BY <1>1, <1>2, <1>5, NormalizeFolds
<1> QED
  BY <1>6 DEF t

-----------------------------------------------------------------------------
(* luhnValid                                                               *)

\* What a digit counts, with `behind` digits to its right.
Counts(behind, d) == IF behind % 2 = 1 THEN Doubled(d) ELSE d

\* A digit counts at most 9, and different digits count differently.
LEMMA CountsFacts ==
    ASSUME NEW behind \in Int, NEW d \in Digit
    PROVE  /\ Counts(behind, d) \in 0..9
           /\ \A e \in Digit : e # d => Counts(behind, e) # Counts(behind, d)
BY DEF Counts, Doubled, Digit

\* sum holds the sums of luhnValid, one digit more each.
AddsUp(sum, s) ==
    sum[0] = 0 /\ \A i \in 1..Len(s) : sum[i] = sum[i - 1] + Counts(Len(s) - i, s[i])

\* luhnValid adds up its digits one by one.
LEMMA LuhnSteps ==
    ASSUME NEW s \in Seq(Digit)
    PROVE  \E sum \in [0..Len(s) -> Int] :
               AddsUp(sum, s) /\ (luhnValid(s) <=> sum[Len(s)] % 10 = 0)
<1> DEFINE n == Len(s)
           Body(v, i) == v + (IF (n - i) % 2 = 1 THEN Doubled(s[i]) ELSE s[i])
           Step(g) == [i \in 0..n |-> IF i = 0 THEN 0 ELSE Body(g[i - 1], i)]
           G == [x \in Int \X (1..n) |-> Body(x[1], x[2])]
           sum == CHOOSE g : g = Step(g)
<1>1. n \in Nat /\ \A i \in 1..n : s[i] \in Digit
  OBVIOUS
<1>2. \A v \in Int, i \in 1..n : Body(v, i) = v + Counts(n - i, s[i]) /\ Body(v, i) \in Int
  <2> SUFFICES ASSUME NEW v \in Int, NEW i \in 1..n
               PROVE  Body(v, i) = v + Counts(n - i, s[i]) /\ Body(v, i) \in Int
    OBVIOUS
  <2>1. Body(v, i) = v + Counts(n - i, s[i])
    BY DEF Counts
  <2>2. Counts(n - i, s[i]) \in 0..9
    BY <1>1, CountsFacts
  <2> HIDE DEF Body
  <2> QED
    BY <2>1, <2>2
<1> HIDE DEF Body
<1>3. G \in [Int \X (1..n) -> Int]
  BY <1>2
<1>4. \A v \in Int, i \in 1..n : G[<<v, i>>] = Body(v, i)
  OBVIOUS
<1> HIDE DEF G, n
<1>5. PICK f \in [0..n -> Int] : Runs(f, n, 0, G)
  <2>1. 0 \in Int
    OBVIOUS
  <2> QED
    BY <1>1, <1>3, <2>1, LoopRuns
<1>6. \A i \in 0..n : f[i] = IF i = 0 THEN 0 ELSE Body(f[i - 1], i)
  <2> SUFFICES ASSUME NEW i \in 0..n, i # 0
               PROVE  f[i] = Body(f[i - 1], i)
    BY <1>5 DEF Runs
  <2>1. i \in 1..n /\ i - 1 \in 0..n
    BY <1>1
  <2> QED
    BY <1>4, <1>5, <2>1 DEF Runs
<1>7. f = Step(f)
  BY <1>6
<1>8. sum = Step(sum)
  <2> HIDE DEF Step
  <2> QED
    BY <1>7
<1>9. luhnValid(s) <=> sum[n] % 10 = 0
  BY <1>1 DEF luhnValid, n, Body
<1> HIDE DEF sum
<1>10. Alike(sum, f, n)
  <2>1. sum[0] = f[0]
    BY <1>1, <1>6, <1>8
  <2>2. ASSUME NEW i \in 1..n
        PROVE  sum[i] = Body(sum[i - 1], i) /\ f[i] = Body(f[i - 1], i)
    <3>1. i \in 0..n /\ i # 0
      BY <1>1
    <3> QED
      BY <1>6, <1>8, <3>1
  <2> QED
    BY <2>1, <2>2 DEF Alike
<1>11. sum[n] = f[n]
  <2>1. \A i \in 0..n : sum[i] = f[i]
    BY <1>1, <1>10, SameLoop
  <2> QED
    BY <1>1, <2>1
<1>12. AddsUp(f, s)
  <2>1. f[0] = 0
    BY <1>1, <1>6
  <2>2. \A i \in 1..n : f[i] = f[i - 1] + Counts(n - i, s[i])
    <3> SUFFICES ASSUME NEW i \in 1..n
                 PROVE  f[i] = f[i - 1] + Counts(n - i, s[i])
      OBVIOUS
    <3>1. i \in 0..n /\ i # 0 /\ f[i - 1] \in Int
      BY <1>1
    <3> QED
      BY <1>2, <1>6, <3>1
  <2> QED
    BY <2>1, <2>2 DEF AddsUp, n
<1> QED
  BY <1>9, <1>11, <1>12 DEF n

\* sum%10 == 0 in luhnValid: less than 10 away from a multiple of 10 is no other.
LEMMA NoMultipleOfTen ==
    ASSUME NEW a \in Int, NEW d \in -9..9, d # 0, a % 10 = 0
    PROVE  (a + d) % 10 # 0
OBVIOUS

\* No number that differs from a card number in one digit passes luhnValid.
LEMMA LuhnDetects ==
    ASSUME NEW s \in Seq(Digit), luhnValid(s), NEW p \in 1..Len(s), NEW d \in Digit, d # s[p]
    PROVE  ~luhnValid([s EXCEPT ![p] = d])
<1> DEFINE n == Len(s)
           t == [s EXCEPT ![p] = d]
           delta == Counts(n - p, d) - Counts(n - p, s[p])
<1>1. n \in Nat /\ \A i \in 1..n : s[i] \in Digit
  OBVIOUS
<1>2. t \in Seq(Digit) /\ Len(t) = n /\ t[p] = d /\ \A i \in 1..n : i # p => t[i] = s[i]
  OBVIOUS
<1> HIDE DEF t
<1>3. PICK f \in [0..n -> Int] : AddsUp(f, s) /\ (luhnValid(s) <=> f[n] % 10 = 0)
  BY LuhnSteps
<1>4. PICK g \in [0..n -> Int] : AddsUp(g, t) /\ (luhnValid(t) <=> g[n] % 10 = 0)
  BY <1>2, LuhnSteps
<1>5. delta \in -9..9 /\ delta # 0
  <2>1. n - p \in Int /\ s[p] \in Digit
    BY <1>1
  <2> HIDE DEF n
  <2>2. /\ Counts(n - p, d) \in 0..9 /\ Counts(n - p, s[p]) \in 0..9
        /\ Counts(n - p, d) # Counts(n - p, s[p])
    BY <2>1, CountsFacts
  <2>3. \A x, y \in 0..9 : x # y => x - y \in -9..9 /\ x - y # 0
    OBVIOUS
  <2> QED
    BY <2>2, <2>3
<1>6. /\ f[0] = 0 /\ g[0] = 0
      /\ \A i \in 1..n : f[i] = f[i - 1] + Counts(n - i, s[i])
      /\ \A i \in 1..n : g[i] = g[i - 1] + Counts(n - i, t[i])
  BY <1>2, <1>3, <1>4 DEF AddsUp
<1>7. p \in 1..n
  OBVIOUS
<1>8. g[p] - f[p] = (g[p - 1] - f[p - 1]) + delta
  <2>1. /\ f[p] = f[p - 1] + Counts(n - p, s[p])
        /\ g[p] = g[p - 1] + Counts(n - p, d)
    BY <1>2, <1>6, <1>7
  <2>2. f[p - 1] \in Int /\ g[p - 1] \in Int
    <3>1. p - 1 \in 0..n
      BY <1>1, <1>7
    <3> HIDE DEF n
    <3> QED
      BY <3>1
  <2>3. Counts(n - p, s[p]) \in Int /\ Counts(n - p, d) \in Int
    <3>1. n - p \in Int /\ s[p] \in Digit
      BY <1>1
    <3>2. Counts(n - p, s[p]) \in 0..9 /\ Counts(n - p, d) \in 0..9
      BY <3>1, CountsFacts
    <3> QED
      BY <3>2
  <2> HIDE DEF n
  <2> QED
    BY <2>1, <2>2, <2>3
<1> DEFINE S == {i \in 0..n : g[i] - f[i] = IF i < p THEN 0 ELSE delta}
<1> HIDE DEF n, delta
<1>9. 0 \in S
  BY <1>1, <1>6, <1>7
<1>10. ASSUME NEW i \in 1..n, i - 1 \in S
       PROVE  i \in S
  <2>1. CASE i = p
    BY <1>1, <1>5, <1>8, <1>10, <2>1
  <2>2. CASE i # p
    <3>1. f[i] = f[i - 1] + Counts(n - i, s[i]) /\ g[i] = g[i - 1] + Counts(n - i, s[i])
      BY <1>2, <1>6, <2>2
    <3>2. Counts(n - i, s[i]) \in Int
      <4>1. n - i \in Int /\ s[i] \in Digit
        BY <1>1
      <4> QED
        BY <4>1, CountsFacts
    <3>3. f[i - 1] \in Int /\ g[i - 1] \in Int
      BY <1>1
    <3>4. g[i] - f[i] = g[i - 1] - f[i - 1]
      BY <3>1, <3>2, <3>3
    <3> QED
      BY <1>7, <1>10, <2>2, <3>4
  <2> QED
    BY <2>1, <2>2
<1>11. n \in S
  <2> HIDE DEF S
  <2>1. \A i \in 0..n : i \in S
    BY <1>1, <1>9, <1>10, CountUp
  <2> QED
    BY <1>1, <2>1
<1>12. g[n] - f[n] = delta /\ f[n] \in Int /\ g[n] \in Int
  BY <1>1, <1>7, <1>11
<1>13. f[n] % 10 = 0
  BY <1>3
<1>14. g[n] % 10 # 0
  <2>1. g[n] = f[n] + delta
    BY <1>5, <1>12
  <2>2. (f[n] + delta) % 10 # 0
    BY <1>5, <1>12, <1>13, NoMultipleOfTen
  <2> QED
    BY <2>1, <2>2
<1> QED
  BY <1>4, <1>14 DEF t

-----------------------------------------------------------------------------
(* RejectPossiblePAN                                                       *)

\* stripSeparators leaves a payload without separators as it is.
LEMMA StripNothing ==
    ASSUME NEW X, NEW s \in Seq(X), NEW removed, \A i \in 1..Len(s) : s[i] \notin removed
    PROVE  Strip(s, removed) = s
<1> DEFINE n == Len(s)
<1>1. n \in Nat /\ \A i \in 1..n : s[i] \in X
  OBVIOUS
<1>2. PICK k \in [0..n -> Seq(X)] : Strips(k, s, removed) /\ Strip(s, removed) = k[n]
  BY StripSteps
<1>3. k[0] = << >> /\ \A i \in 1..n : k[i] = Append(k[i - 1], s[i])
  BY <1>2 DEF Strips
<1> DEFINE Begins(a, i) == Len(a) = i /\ \A j \in 1..i : a[j] = s[j]
           S == {i \in 0..n : Begins(k[i], i)}
<1> HIDE DEF n
<1>4. 0 \in S
  BY <1>1, <1>3
<1>5. ASSUME NEW i \in 1..n, i - 1 \in S
      PROVE  i \in S
  <2>1. k[i - 1] \in Seq(X) /\ Begins(k[i - 1], i - 1) /\ s[i] \in X
    BY <1>1, <1>5
  <2>2. ASSUME NEW a \in Seq(X), Begins(a, i - 1)
        PROVE  Begins(Append(a, s[i]), i)
    BY <2>1, <2>2
  <2> HIDE DEF Begins
  <2>3. Begins(k[i], i)
    BY <1>3, <2>1, <2>2
  <2>4. i \in 0..n
    BY <1>1
  <2> QED
    BY <2>3, <2>4
<1>6. Begins(k[n], n) /\ k[n] \in Seq(X)
  <2> HIDE DEF S
  <2>1. \A i \in 0..n : i \in S
    BY <1>1, <1>4, <1>5, CountUp
  <2> QED
    BY <1>1, <2>1 DEF S
<1>7. k[n] = s
  BY <1>6, SeqEqual DEF n
<1> QED
  BY <1>2, <1>7

\* The run that starts at i and ends at `last`: no digit follows, and the pattern
\* reads as many.  An empty run ends where it would start.
LEMMA RunEnds ==
    ASSUME NEW s \in Seq(Int), NEW i \in 1..Len(s), NEW last \in (i - 1)..Len(s),
           \A k \in i..last : s[k] \in Digit,
           last = Len(s) \/ s[last + 1] \notin Digit,
           last - i + 1 <= MaxRun
    PROVE  RunLength(s, i) = last - i + 1
<1> DEFINE m == last - i + 1
           N == {n \in 0..MaxRun : i + n - 1 <= Len(s) /\ \A k \in i..(i + n - 1) : s[k] \in Digit}
<1>1. Len(s) \in Nat /\ MaxRun \in Nat
  BY CardAssumption
<1>2. m \in 0..MaxRun /\ i + m - 1 = last
  BY <1>1
<1>3. m \in N
  BY <1>1, <1>2
<1>4. ASSUME NEW n \in N
      PROVE  n \in Int /\ n <= m
  <2>1. /\ n \in 0..MaxRun /\ i + n - 1 <= Len(s)
        /\ \A k \in i..(i + n - 1) : s[k] \in Digit
    BY <1>4
  <2>2. SUFFICES ASSUME n > m
                 PROVE  FALSE
    BY <1>1, <1>2, <2>1
  <2>3. last + 1 \in i..(i + n - 1) /\ last # Len(s)
    BY <1>1, <2>1, <2>2
  <2> QED
    BY <2>1, <2>3
<1>5. m \in Int
  BY <1>1
<1>6. RunLength(s, i) = Max(N)
  BY DEF RunLength
<1> HIDE DEF m, N
<1>7. Max(N) = m
  <2>1. Max(N) \in N /\ \A y \in N : Max(N) >= y
    <3>1. \A y \in N : m >= y
      BY <1>4, <1>5
    <3> QED
      BY <1>3, <3>1 DEF Max
  <2>2. Max(N) \in Int /\ Max(N) <= m /\ Max(N) >= m
    BY <1>3, <1>4, <2>1
  <2> QED
    BY <1>5, <2>2
<1> QED
  BY <1>6, <1>7 DEF m

\* scan holds the runs found so far and the end of the last one.
Scans(scan, s) ==
    /\ scan[0] = [runs |-> {}, past |-> 0]
    /\ \A i \in 1..Len(s) :
          scan[i] = IF i <= scan[i - 1].past \/ RunLength(s, i) < MinRun THEN scan[i - 1]
                    ELSE [runs |-> scan[i - 1].runs \cup {SubSeq(s, i, i + RunLength(s, i) - 1)},
                          past |-> i + RunLength(s, i) - 1]

\* FindAll goes through the positions of its argument one by one.
LEMMA ScanSteps ==
    ASSUME NEW s \in Seq(Int)
    PROVE  \E scan : Scans(scan, s) /\ DigitRuns(s) = scan[Len(s)].runs
<1> DEFINE n == Len(s)
           Run(i) == SubSeq(s, i, i + RunLength(s, i) - 1)
           End(i) == i + RunLength(s, i) - 1
           Body(v, i) == IF i <= v.past \/ RunLength(s, i) < MinRun THEN v
                         ELSE [runs |-> v.runs \cup {Run(i)}, past |-> End(i)]
           Start == [runs |-> {}, past |-> 0]
           Step(g) == [i \in 0..n |-> IF i = 0 THEN Start ELSE Body(g[i - 1], i)]
           V == [runs : SUBSET {Run(i) : i \in 1..n}, past : {0} \cup {End(i) : i \in 1..n}]
           G == [x \in V \X (1..n) |-> Body(x[1], x[2])]
           scan == CHOOSE g : g = Step(g)
<1>1. n \in Nat
  OBVIOUS
<1>2. DigitRuns(s) = scan[n].runs
  BY DEF DigitRuns
<1> HIDE DEF n, Run, End
<1>3. G \in [V \X (1..n) -> V]
  OBVIOUS
<1>4. Start \in V
  OBVIOUS
<1>5. \A v \in V, i \in 1..n : G[<<v, i>>] = Body(v, i)
  OBVIOUS
<1> HIDE DEF V, G, Start, Body
<1>6. PICK f \in [0..n -> V] : Runs(f, n, Start, G)
  BY <1>1, <1>3, <1>4, LoopRuns
<1>7. \A i \in 0..n : f[i] = IF i = 0 THEN Start ELSE Body(f[i - 1], i)
  <2> SUFFICES ASSUME NEW i \in 0..n, i # 0
               PROVE  f[i] = Body(f[i - 1], i)
    BY <1>6 DEF Runs
  <2>1. i \in 1..n /\ i - 1 \in 0..n
    BY <1>1
  <2> QED
    BY <1>5, <1>6, <2>1 DEF Runs
<1>8. f = Step(f)
  BY <1>7
<1>9. scan = Step(scan)
  <2> HIDE DEF Step
  <2> QED
    BY <1>8
<1> HIDE DEF scan
<1>10. \A i \in 0..n : scan[i] = IF i = 0 THEN Start ELSE Body(scan[i - 1], i)
  BY <1>9
<1>11. scan[0] = [runs |-> {}, past |-> 0]
  BY <1>1, <1>10 DEF Start
<1>12. \A i \in 1..n : scan[i] = Body(scan[i - 1], i)
  BY <1>1, <1>10
<1>13. Scans(scan, s)
  BY <1>11, <1>12 DEF Scans, Body, Run, End, n
<1> QED
  BY <1>2, <1>13 DEF n

\* A round of FindAll: inside the last run, or where no run starts, nothing is
\* found, and otherwise one run more.
LEMMA ScanCases ==
    ASSUME NEW s, NEW scan, Scans(scan, s), NEW i \in 1..Len(s)
    PROVE  /\ i <= scan[i - 1].past \/ RunLength(s, i) < MinRun => scan[i] = scan[i - 1]
           /\ ~(i <= scan[i - 1].past) /\ ~(RunLength(s, i) < MinRun) =>
                 /\ scan[i].runs = scan[i - 1].runs \cup {SubSeq(s, i, i + RunLength(s, i) - 1)}
                 /\ scan[i].past = i + RunLength(s, i) - 1
           /\ scan[i - 1].runs \subseteq scan[i].runs
<1>1. CASE i <= scan[i - 1].past \/ RunLength(s, i) < MinRun
  BY <1>1 DEF Scans
<1>2. CASE ~(i <= scan[i - 1].past \/ RunLength(s, i) < MinRun)
  <2>1. scan[i] = [runs |-> scan[i - 1].runs \cup {SubSeq(s, i, i + RunLength(s, i) - 1)},
                   past |-> i + RunLength(s, i) - 1]
    BY <1>2 DEF Scans
  <2> QED
    BY <1>2, <2>1
<1> QED
  BY <1>1, <1>2

\* In a payload of digits only, FindAll finds the payload, if it is long enough.
LEMMA DigitsOnly ==
    ASSUME NEW s \in Seq(Digit), Len(s) <= MaxRun
    PROVE  DigitRuns(s) = IF Len(s) < MinRun THEN {} ELSE {s}
<1> DEFINE n == Len(s)
<1>1. n \in Nat /\ n <= MaxRun /\ MaxRun \in Nat /\ MinRun \in Nat \ {0}
  BY CardAssumption
<1>2. s \in Seq(Int) /\ \A k \in 1..n : s[k] \in Digit
  BY DEF Digit
<1>3. ASSUME NEW i \in 1..n
      PROVE  RunLength(s, i) = n - i + 1
  <2>1. n \in (i - 1)..n /\ (\A k \in i..n : s[k] \in Digit) /\ n - i + 1 <= MaxRun
    BY <1>1, <1>2
  <2> QED
    BY <1>2, <2>1, RunEnds
<1>4. PICK scan : Scans(scan, s) /\ DigitRuns(s) = scan[n].runs
  BY <1>2, ScanSteps
<1>5. scan[0].runs = {} /\ scan[0].past = 0
  BY <1>4 DEF Scans
<1>6. CASE n < MinRun
  <2> DEFINE S == {i \in 0..n : scan[i] = scan[0]}
  <2> HIDE DEF n
  <2>1. 0 \in S
    BY <1>1
  <2>2. ASSUME NEW i \in 1..n, i - 1 \in S
        PROVE  i \in S
    <3>1. RunLength(s, i) < MinRun
      BY <1>1, <1>3, <1>6
    <3>2. scan[i] = scan[i - 1]
      BY <1>4, <3>1, ScanCases DEF n
    <3> QED
      BY <1>1, <2>2, <3>2
  <2> HIDE DEF S
  <2>3. \A i \in 0..n : i \in S
    BY <1>1, <2>1, <2>2, CountUp
  <2>4. scan[n] = scan[0]
    BY <1>1, <2>3 DEF S
  <2> QED
    BY <1>4, <1>5, <1>6, <2>4 DEF n
<1>7. CASE n >= MinRun
  <2> DEFINE Found(v) == v.runs = {s} /\ v.past = n
             S == {i \in 0..n : i >= 1 => Found(scan[i])}
  <2>1. SubSeq(s, 1, n) = s
    BY SubSeqFull
  <2>2. 1 \in 1..n /\ RunLength(s, 1) = n /\ 1 - 1 = 0 /\ 1 + n - 1 = n
    BY <1>1, <1>3, <1>7
  <2>3. Found(scan[1])
    <3>1. ~(1 <= scan[0].past) /\ ~(RunLength(s, 1) < MinRun)
      BY <1>1, <1>5, <1>7, <2>2
    <3>2. /\ scan[1].runs = scan[0].runs \cup {SubSeq(s, 1, 1 + RunLength(s, 1) - 1)}
          /\ scan[1].past = 1 + RunLength(s, 1) - 1
      BY <1>4, <2>2, <3>1, ScanCases
    <3> QED
      BY <1>5, <2>1, <2>2, <3>2
  <2> HIDE DEF n
  <2>4. 0 \in S
    BY <1>1
  <2>5. ASSUME NEW i \in 1..n, i - 1 \in S
        PROVE  i \in S
    <3>1. CASE i = 1
      BY <1>1, <2>3, <3>1
    <3>2. CASE i # 1
      <4>1. Found(scan[i - 1]) /\ i \in 0..n
        BY <1>1, <2>5, <3>2
      <4>2. i <= scan[i - 1].past
        BY <1>1, <4>1
      <4>3. scan[i] = scan[i - 1]
        BY <1>4, <4>2, ScanCases DEF n
      <4> QED
        BY <4>1, <4>3
    <3> QED
      BY <3>1, <3>2
  <2> HIDE DEF S
  <2>6. \A i \in 0..n : i \in S
    BY <1>1, <2>4, <2>5, CountUp
  <2>7. Found(scan[n])
    BY <1>1, <1>7, <2>6 DEF S
  <2>8. ~(n < MinRun)
    BY <1>1, <1>7
  <2> QED
    BY <1>4, <2>7, <2>8 DEF n
<1> QED
  BY <1>1, <1>6, <1>7

\* What the pattern reads at i are digits.
LEMMA RunIsDigits ==
    ASSUME NEW s \in Seq(Int), NEW i \in 1..Len(s)
    PROVE  /\ RunLength(s, i) \in 0..MaxRun
           /\ \A k \in i..(i + RunLength(s, i) - 1) : s[k] \in Digit
<1> DEFINE N == {n \in 0..MaxRun : i + n - 1 <= Len(s) /\ \A k \in i..(i + n - 1) : s[k] \in Digit}
           Greatest(b) == \E x \in N : x <= b /\ \A y \in N : y <= b => y <= x
           S == {b \in 0..MaxRun : Greatest(b)}
<1>1. Len(s) \in Nat /\ MaxRun \in Nat
  BY CardAssumption
<1>2. 0 \in N
  BY <1>1
<1>3. N \subseteq 0..MaxRun
  OBVIOUS
<1>4. RunLength(s, i) = Max(N)
  BY DEF RunLength
<1>5. \A n \in N : \A k \in i..(i + n - 1) : s[k] \in Digit
  OBVIOUS
<1> HIDE DEF N
<1>6. 0 \in S
  <2>1. 0 <= 0 /\ \A y \in N : y <= 0 => y <= 0
    OBVIOUS
  <2>2. Greatest(0)
    BY <1>2, <2>1
  <2> QED
    BY <1>1, <2>2
<1>7. ASSUME NEW b \in 1..MaxRun, b - 1 \in S
      PROVE  b \in S
  <2>1. PICK x \in N : x <= b - 1 /\ \A y \in N : y <= b - 1 => y <= x
    BY <1>7
  <2>2. CASE b \in N
    <3>1. b <= b /\ \A y \in N : y <= b => y <= b
      BY <1>1
    <3> QED
      BY <1>1, <2>2, <3>1
  <2>3. CASE b \notin N
    <3>1. x <= b /\ \A y \in N : y <= b => y <= x
      <4>1. x \in Nat
        BY <1>1, <1>3
      <4>2. ASSUME NEW y \in N, y <= b
            PROVE  y <= x
        <5>1. y \in Nat /\ y # b
          BY <1>1, <1>3, <2>3
        <5>2. y <= b - 1
          BY <1>1, <4>2, <5>1
        <5> QED
          BY <2>1, <5>2
      <4> QED
        BY <1>1, <2>1, <4>1, <4>2
    <3> QED
      BY <1>1, <3>1
  <2> QED
    BY <2>2, <2>3
<1> HIDE DEF S
<1>8. MaxRun \in S
  <2>1. \A b \in 0..MaxRun : b \in S
    BY <1>1, <1>6, <1>7, CountUp
  <2> QED
    BY <1>1, <2>1
<1>9. PICK x \in N : \A y \in N : y <= MaxRun => y <= x
  BY <1>8 DEF S
<1>10. \A y \in N : x >= y
  BY <1>1, <1>3, <1>9
<1>11. Max(N) \in N
  BY <1>10 DEF Max
<1> QED
  BY <1>3, <1>4, <1>5, <1>11

\* Before its i-th position FindAll has either passed the last run or is still
\* among its digits.
Behind(scan, s, i) ==
    /\ scan[i].past \in Int
    /\ scan[i].past <= i \/ \A k \in i..scan[i].past : k >= 1 => s[k] \in Digit

\* FindAll never looks ahead over bytes that are no digits.
LEMMA ScanBehind ==
    ASSUME NEW s \in Seq(Int), NEW scan, Scans(scan, s)
    PROVE  \A i \in 0..Len(s) : Behind(scan, s, i)
<1> DEFINE n == Len(s)
           S == {i \in 0..n : Behind(scan, s, i)}
<1>1. n \in Nat /\ MaxRun \in Nat
  BY CardAssumption
<1>2. 0 \in S
  <2>1. scan[0].past = 0
    BY DEF Scans
  <2> QED
    BY <1>1, <2>1 DEF Behind
<1>3. ASSUME NEW i \in 1..n, i - 1 \in S
      PROVE  i \in S
  <2>1. Behind(scan, s, i - 1)
    BY <1>3
  <2>2. CASE i <= scan[i - 1].past \/ RunLength(s, i) < MinRun
    <3>1. scan[i] = scan[i - 1]
      BY <2>2, ScanCases
    <3>2. scan[i].past \in Int
      BY <2>1, <3>1 DEF Behind
    <3>3. scan[i].past <= i \/ \A k \in i..scan[i].past : k >= 1 => s[k] \in Digit
      BY <1>1, <2>1, <3>1, <3>2 DEF Behind
    <3> QED
      BY <1>1, <3>2, <3>3 DEF Behind
  <2>3. CASE ~(i <= scan[i - 1].past \/ RunLength(s, i) < MinRun)
    <3>1. scan[i].past = i + RunLength(s, i) - 1
      BY <2>3, ScanCases
    <3>2. RunLength(s, i) \in 0..MaxRun /\ \A k \in i..(i + RunLength(s, i) - 1) : s[k] \in Digit
      BY RunIsDigits
    <3>3. scan[i].past \in Int
      BY <1>1, <3>1, <3>2
    <3> QED
      BY <1>1, <3>1, <3>2, <3>3 DEF Behind
  <2> QED
    BY <2>2, <2>3
<1> HIDE DEF S
<1>4. \A i \in 0..n : i \in S
  <2> HIDE DEF n
  <2> QED
    BY <1>1, <1>2, <1>3, CountUp
<1> QED
  BY <1>4 DEF S

\* FindAll finds every run that no other digits touch.
LEMMA RunIsFound ==
    ASSUME NEW s \in Seq(Int), NEW i \in 1..Len(s), NEW j \in i..Len(s), RunAt(s, i, j)
    PROVE  SubSeq(s, i, j) \in DigitRuns(s)
<1> DEFINE n == Len(s)
           run == SubSeq(s, i, j)
<1>1. n \in Nat /\ i \in Nat /\ j \in Nat /\ i >= 1 /\ i <= j /\ j <= n
      /\ MaxRun \in Nat /\ MinRun \in Nat \ {0}
  BY CardAssumption
<1>2. PICK scan : Scans(scan, s) /\ DigitRuns(s) = scan[n].runs
  BY ScanSteps
<1>3. RunLength(s, i) = j - i + 1
  <2>1. /\ j \in (i - 1)..Len(s)
        /\ \A k \in i..j : s[k] \in Digit
        /\ j = Len(s) \/ s[j + 1] \notin Digit
        /\ j - i + 1 <= MaxRun
    BY <1>1 DEF RunAt
  <2> QED
    BY <2>1, RunEnds
<1>4. ~(RunLength(s, i) < MinRun)
  BY <1>1, <1>3 DEF RunAt
<1>5. ~(i <= scan[i - 1].past)
  <2>1. i - 1 \in 0..n
    BY <1>1
  <2>2. Behind(scan, s, i - 1)
    BY <1>2, <2>1, ScanBehind
  <2>3. CASE i = 1
    <3>1. scan[i - 1].past = 0
      BY <1>2, <2>3 DEF Scans
    <3> QED
      BY <2>3, <3>1
  <2>4. CASE i # 1
    <3>1. s[i - 1] \notin Digit /\ i - 1 >= 1
      BY <1>1, <2>4 DEF RunAt
    <3>2. scan[i - 1].past \in Int
      BY <2>2 DEF Behind
    <3>3. SUFFICES ASSUME i <= scan[i - 1].past
                   PROVE  FALSE
      OBVIOUS
    <3>4. i - 1 \in (i - 1)..scan[i - 1].past /\ ~(scan[i - 1].past <= i - 1)
      BY <1>1, <3>2, <3>3
    <3> QED
      BY <2>2, <3>1, <3>4 DEF Behind
  <2> QED
    BY <2>3, <2>4
<1>6. run \in scan[i].runs
  <2>1. scan[i].runs = scan[i - 1].runs \cup {SubSeq(s, i, i + RunLength(s, i) - 1)}
    BY <1>2, <1>4, <1>5, ScanCases
  <2>2. i + RunLength(s, i) - 1 = j
    BY <1>1, <1>3
  <2> QED
    BY <2>1, <2>2
<1> DEFINE S == {k \in 0..n : k >= i => run \in scan[k].runs}
<1> HIDE DEF run
<1>7. 0 \in S
  BY <1>1
<1>8. ASSUME NEW k \in 1..n, k - 1 \in S
      PROVE  k \in S
  <2>1. scan[k - 1].runs \subseteq scan[k].runs
    BY <1>2, ScanCases
  <2>2. k \in 0..n /\ k - 1 \in 0..n
    BY <1>1
  <2>3. CASE k < i
    BY <1>1, <2>2, <2>3
  <2>4. CASE k = i
    BY <1>6, <2>2, <2>4
  <2>5. CASE k > i
    <3>1. k - 1 >= i
      BY <1>1, <2>2, <2>5
    <3> QED
      BY <1>8, <2>1, <2>2, <3>1
  <2> QED
    BY <1>1, <2>2, <2>3, <2>4, <2>5
<1> HIDE DEF S
<1>9. \A k \in 0..n : k \in S
  <2> HIDE DEF n
  <2> QED
    BY <1>1, <1>7, <1>8, CountUp
<1>10. run \in scan[n].runs
  BY <1>1, <1>9 DEF S
<1> QED
  BY <1>2, <1>10 DEF run

-----------------------------------------------------------------------------
(* The table of levenshtein                                                *)

\* Where every rune takes one byte, the i-th rune is at position i - 1.
LEMMA OneByteRunes ==
    ASSUME NEW s \in Seq(Runes)
    PROVE  Bytes(s) = Len(s) /\ \A i \in 1..Len(s) : Position(s, i) = i - 1
<1>1. ASSUME NEW t \in Seq(Runes)
      PROVE  Bytes(t) = Len(t)
  <2> DEFINE W == {i \in DOMAIN t : t[i] \in WideRunes}
  <2>1. \A i \in DOMAIN t : t[i] \in Runes
    OBVIOUS
  <2>2. W = {}
    BY <2>1, TextAssumption
  <2>3. Cardinality(W) = 0
    BY <2>2, FS_EmptySet
  <2>4. Len(t) \in Nat
    OBVIOUS
  <2> HIDE DEF W
  <2>5. Len(t) + Cardinality(W) = Len(t)
    BY <2>3, <2>4
  <2> QED
    BY <2>5 DEF Bytes, W
<1>2. ASSUME NEW i \in 1..Len(s)
      PROVE  Position(s, i) = i - 1
  <2>1. SubSeq(s, 1, i - 1) \in Seq(Runes) /\ Len(SubSeq(s, 1, i - 1)) = i - 1
    OBVIOUS
  <2> QED
    BY <1>1, <2>1 DEF Position
<1> QED
  BY <1>1, <1>2

\* The cost of taking the i-th rune of s for the j-th of t.
Cost(s, i, t, j) == IF s[i] # t[j] THEN 1 ELSE 0

\* row is what the inner loop of levenshtein leaves in `current` for the i-th
\* rune of s.
IsRow(row, previous, s, i, t) ==
    /\ row[0] = i
    /\ \A j \in 1..Len(t) :
          row[j] = Smaller(row[j - 1] + 1,
                           Smaller(previous[j] + 1, previous[j - 1] + Cost(s, i, t, j)))

\* The inner loop fills the columns of `current` from left to right, each once.
LEMMA RowSteps ==
    ASSUME NEW s \in Seq(Runes), NEW t \in Seq(Runes), NEW i \in 1..Len(s),
           NEW previous \in [0..Len(t) -> Nat]
    PROVE  /\ NextRow(previous, s, i, t) \in [0..Len(t) -> Nat]
           /\ IsRow(NextRow(previous, s, i, t), previous, s, i, t)
<1> DEFINE n == Len(t)
           V == [0..n -> Nat]
           start == [c \in 0..n |-> IF c = 0 THEN i ELSE 0]
           Best(v, j) == Smaller(v[j - 1] + 1,
                                 Smaller(previous[j] + 1, previous[j - 1] + Cost(s, i, t, j)))
           Body(v, j) == [v EXCEPT ![j] = Best(v, j)]
           Start == [c \in 0..Bytes(t) |-> IF c = 0 THEN Position(s, i) + 1 ELSE 0]
           Column(v, j) ==
               LET at == Position(t, j)
                   cost == IF s[i] # t[j] THEN 1 ELSE 0
               IN  [v EXCEPT ![at + 1] =
                      Smaller(v[at] + 1, Smaller(previous[at + 1] + 1, previous[at] + cost))]
           Step(g) == [j \in 0..n |-> IF j = 0 THEN Start ELSE Column(g[j - 1], j)]
           G == [x \in V \X (1..n) |-> Body(x[1], x[2])]
           row == CHOOSE g : g = Step(g)
<1>1. n \in Nat /\ i \in Nat /\ previous \in V
  OBVIOUS
<1>2. ASSUME NEW v \in V, NEW j \in 1..n
      PROVE  Best(v, j) \in Nat
  <2>0. j \in 0..n /\ j - 1 \in 0..n
    BY <1>1
  <2>1. v[j - 1] \in Nat /\ previous[j] \in Nat /\ previous[j - 1] \in Nat
    BY <2>0
  <2>2. Cost(s, i, t, j) \in Nat
    BY DEF Cost
  <2> QED
    BY <2>1, <2>2 DEF Smaller
<1>3. ASSUME NEW v \in V, NEW j \in 1..n
      PROVE  Body(v, j) \in V
  <2> HIDE DEF Best
  <2> QED
    BY <1>2
<1>4. start \in V
  BY <1>1
<1>5. ASSUME NEW v, NEW j \in 1..n
       PROVE  Column(v, j) = Body(v, j)
  <2>1. Position(t, j) = j - 1 /\ (j - 1) + 1 = j
    BY OneByteRunes
  <2> QED
    BY <2>1 DEF Cost
<1>6. Start = start
  <2>1. Bytes(t) = n /\ Position(s, i) + 1 = i
    BY OneByteRunes
  <2> QED
    BY <2>1
<1>7. NextRow(previous, s, i, t) = row[n]
  BY DEF NextRow
<1> HIDE DEF V, Body, n, start, Start, Column
<1>8. G \in [V \X (1..n) -> V]
  BY <1>3
<1>9. \A v \in V, j \in 1..n : G[<<v, j>>] = Body(v, j)
  OBVIOUS
<1> HIDE DEF G
<1>10. PICK f \in [0..n -> V] : Runs(f, n, start, G)
  BY <1>1, <1>4, <1>8, LoopRuns
<1>11. \A j \in 0..n : f[j] = IF j = 0 THEN start ELSE Body(f[j - 1], j)
  <2> SUFFICES ASSUME NEW j \in 0..n, j # 0
               PROVE  f[j] = Body(f[j - 1], j)
    BY <1>10 DEF Runs
  <2>1. j \in 1..n /\ j - 1 \in 0..n
    BY <1>1
  <2> QED
    BY <1>9, <1>10, <2>1 DEF Runs
<1>12. f = Step(f)
  <2>1. \A j \in 0..n : j # 0 => j \in 1..n
    BY <1>1
  <2>2. \A j \in 0..n : f[j] = IF j = 0 THEN Start ELSE Column(f[j - 1], j)
    BY <1>11, <1>5, <1>6, <2>1
  <2> QED
    BY <2>2
<1>13. row = Step(row)
  <2> HIDE DEF Step
  <2> QED
    BY <1>12
<1> HIDE DEF row
<1>14. \A j \in 1..n : row[j - 1] = f[j - 1] => row[j] = f[j]
  <2> SUFFICES ASSUME NEW j \in 1..n
               PROVE  row[j] = Body(row[j - 1], j) /\ f[j] = Body(f[j - 1], j)
    OBVIOUS
  <2>1. j \in 0..n /\ j # 0
    BY <1>1
  <2> QED
    BY <1>11, <1>13, <1>5, <2>1
<1>15. row[0] = f[0]
  BY <1>1, <1>11, <1>13, <1>6
<1>16. row[n] = f[n]
  <2>1. Alike(row, f, n)
    BY <1>14, <1>15 DEF Alike
  <2>2. \A j \in 0..n : row[j] = f[j]
    BY <1>1, <2>1, SameLoop
  <2> QED
    BY <1>1, <2>2
<1> HIDE DEF row
<1>17. ASSUME NEW j \in 1..n
       PROVE  /\ f[j][j] = Best(f[j - 1], j)
              /\ \A k \in 0..n : k # j => f[j][k] = f[j - 1][k]
  <2>1. j \in 0..n /\ j - 1 \in 0..n /\ j # 0
    BY <1>1
  <2>2. f[j - 1] \in V
    BY <2>1
  <2>3. f[j] = Body(f[j - 1], j)
    BY <1>11, <2>1
  <2> HIDE DEF Best
  <2> QED
    BY <2>1, <2>2, <2>3 DEF Body, V
<1> DEFINE S == {m \in 0..n : \A k \in 0..m : f[m][k] = f[k][k]}
<1>18. 0 \in S
  BY <1>1
<1>19. ASSUME NEW m \in 1..n, m - 1 \in S
       PROVE  m \in S
  <2> SUFFICES ASSUME NEW k \in 0..m, k # m
               PROVE  f[m][k] = f[k][k]
    BY <1>1
  <2>1. k \in 0..(m - 1) /\ k \in 0..n
    BY <1>1
  <2>2. f[m - 1][k] = f[k][k]
    BY <1>19, <2>1
  <2> QED
    BY <1>17, <2>1, <2>2
<1>20. \A k \in 0..n : f[n][k] = f[k][k]
  <2> HIDE DEF S
  <2>1. \A m \in 0..n : m \in S
    BY <1>1, <1>18, <1>19, CountUp
  <2>2. n \in S
    BY <1>1, <2>1
  <2> QED
    BY <2>2 DEF S
<1>21. f[n][0] = i
  <2>1. f[0][0] = i
    BY <1>1, <1>11 DEF start
  <2> QED
    BY <1>1, <1>20, <2>1
<1>22. ASSUME NEW j \in 1..n
       PROVE  f[n][j] = Best(f[n], j)
  <2>1. j \in 0..n /\ j - 1 \in 0..n
    BY <1>1
  <2>2. f[n][j] = f[j][j] /\ f[n][j - 1] = f[j - 1][j - 1]
    BY <1>20, <2>1
  <2>3. f[j][j] = Best(f[j - 1], j)
    BY <1>17
  <2> QED
    BY <2>2, <2>3
<1>23. f[n] \in V
  BY <1>1
<1>24. IsRow(f[n], previous, s, i, t)
  BY <1>21, <1>22 DEF IsRow, n
<1> QED
  BY <1>16, <1>7, <1>23, <1>24 DEF V, n

\* D is the table levenshtein computes for s and t: one row per rune of s.
IsTable(D, s, t) ==
    /\ D \in [0..Len(s) -> [0..Len(t) -> Nat]]
    /\ \A j \in 0..Len(t) : D[0][j] = j
    /\ \A i \in 1..Len(s) : IsRow(D[i], D[i - 1], s, i, t)

\* The outer loop computes the table row by row, and its last cell is returned.
LEMMA TableSteps ==
    ASSUME NEW s \in Seq(Runes), NEW t \in Seq(Runes)
    PROVE  \E D : IsTable(D, s, t) /\ levenshtein(s, t) = D[Len(s)][Len(t)]
<1> DEFINE m == Len(s)
           n == Len(t)
           V == [0..n -> Nat]
           Start == [c \in 0..Bytes(t) |-> c]
           Step(g) == [i \in 0..m |-> IF i = 0 THEN Start ELSE NextRow(g[i - 1], s, i, t)]
           G == [x \in V \X (1..m) |-> NextRow(x[1], s, x[2], t)]
           table == CHOOSE g : g = Step(g)
<1>1. m \in Nat /\ n \in Nat
  OBVIOUS
<1>2. Bytes(t) = n
  BY OneByteRunes
<1>3. Start \in V /\ \A j \in 0..n : Start[j] = j
  BY <1>2
<1>4. \A v \in V, i \in 1..m : NextRow(v, s, i, t) \in V /\ IsRow(NextRow(v, s, i, t), v, s, i, t)
  BY RowSteps
<1>5. levenshtein(s, t) = table[m][n]
  BY <1>2 DEF levenshtein
<1> HIDE DEF V, m, n, Start
<1>6. G \in [V \X (1..m) -> V]
  BY <1>4
<1>7. \A v \in V, i \in 1..m : G[<<v, i>>] = NextRow(v, s, i, t)
  OBVIOUS
<1> HIDE DEF G
<1>8. PICK D \in [0..m -> V] : Runs(D, m, Start, G)
  BY <1>1, <1>3, <1>6, LoopRuns
<1>9. \A i \in 0..m : D[i] = IF i = 0 THEN Start ELSE NextRow(D[i - 1], s, i, t)
  <2> SUFFICES ASSUME NEW i \in 0..m, i # 0
               PROVE  D[i] = NextRow(D[i - 1], s, i, t)
    BY <1>8 DEF Runs
  <2>1. i \in 1..m /\ i - 1 \in 0..m
    BY <1>1
  <2> QED
    BY <1>7, <1>8, <2>1 DEF Runs
<1>10. D = Step(D)
  BY <1>9
<1>11. table = Step(table)
  <2> HIDE DEF Step
  <2> QED
    BY <1>10
<1> HIDE DEF table
<1>12. \A i \in 1..m : table[i - 1] = D[i - 1] => table[i] = D[i]
  <2> SUFFICES ASSUME NEW i \in 1..m
               PROVE  /\ table[i] = NextRow(table[i - 1], s, i, t)
                      /\ D[i] = NextRow(D[i - 1], s, i, t)
    OBVIOUS
  <2>1. i \in 0..m /\ i # 0
    BY <1>1
  <2> QED
    BY <1>9, <1>11, <2>1
<1>13. table[0] = D[0]
  BY <1>1, <1>9, <1>11
<1>14. table[m] = D[m]
  <2>1. Alike(table, D, m)
    BY <1>12, <1>13 DEF Alike
  <2>2. \A i \in 0..m : table[i] = D[i]
    BY <1>1, <2>1, SameLoop
  <2> QED
    BY <1>1, <2>2
<1>15. ASSUME NEW i \in 1..m
       PROVE  IsRow(D[i], D[i - 1], s, i, t)
  <2>1. i \in 0..m /\ i - 1 \in 0..m /\ i # 0
    BY <1>1
  <2>2. D[i] = NextRow(D[i - 1], s, i, t) /\ D[i - 1] \in V
    BY <1>9, <2>1
  <2> QED
    BY <1>4, <2>2
<1>16. \A j \in 0..n : D[0][j] = j
  BY <1>1, <1>3, <1>9
<1>17. IsTable(D, s, t)
  BY <1>15, <1>16 DEF IsTable, V, m, n
<1> QED
  BY <1>5, <1>14, <1>17 DEF m, n

\* A set of cells that holds the first row, the first column and each cell whose
\* three neighbours before it it holds, is the whole table.
LEMMA FillTable ==
    ASSUME NEW m \in Nat, NEW n \in Nat, NEW S,
           \A j \in 0..n : <<0, j>> \in S,
           \A i \in 1..m : <<i, 0>> \in S,
           \A i \in 1..m, j \in 1..n :
               /\ <<i - 1, j - 1>> \in S
               /\ <<i - 1, j>> \in S
               /\ <<i, j - 1>> \in S
               => <<i, j>> \in S
    PROVE  \A i \in 0..m, j \in 0..n : <<i, j>> \in S
<1> DEFINE Rows == {i \in 0..m : \A j \in 0..n : <<i, j>> \in S}
<1>1. 0 \in Rows
  OBVIOUS
<1>2. ASSUME NEW i \in 1..m, i - 1 \in Rows
      PROVE  i \in Rows
  <2> DEFINE Columns == {j \in 0..n : <<i, j>> \in S}
  <2>1. 0 \in Columns
    OBVIOUS
  <2>2. ASSUME NEW j \in 1..n, j - 1 \in Columns
        PROVE  j \in Columns
    <3>1. j \in 0..n /\ j - 1 \in 0..n
      OBVIOUS
    <3>2. <<i - 1, j - 1>> \in S /\ <<i - 1, j>> \in S
      BY <1>2, <3>1
    <3> QED
      BY <2>2, <3>1, <3>2
  <2> HIDE DEF Columns
  <2>3. \A j \in 0..n : j \in Columns
    BY <2>1, <2>2, CountUp
  <2>4. i \in 0..m
    OBVIOUS
  <2> QED
    BY <2>3, <2>4 DEF Columns
<1> HIDE DEF Rows
<1>3. \A i \in 0..m : i \in Rows
  BY <1>1, <1>2, CountUp
<1> QED
  BY <1>3 DEF Rows


\* What a cell of the table holds: the best of what its neighbours allow.
IsCell(D, s, i, t, j) ==
    /\ D[i][j] <= D[i][j - 1] + 1
    /\ D[i][j] <= D[i - 1][j] + 1
    /\ D[i][j] <= D[i - 1][j - 1] + Cost(s, i, t, j)
    /\ \/ D[i][j] = D[i][j - 1] + 1
       \/ D[i][j] = D[i - 1][j] + 1
       \/ D[i][j] = D[i - 1][j - 1] + Cost(s, i, t, j)

\* The cells of the table levenshtein computes.
LEMMA CellFacts ==
    ASSUME NEW s \in Seq(Runes), NEW t \in Seq(Runes), NEW D, IsTable(D, s, t)
    PROVE  /\ Len(s) \in Nat /\ Len(t) \in Nat
           /\ \A i \in 0..Len(s), j \in 0..Len(t) : D[i][j] \in Nat
           /\ \A j \in 0..Len(t) : D[0][j] = j
           /\ \A i \in 0..Len(s) : D[i][0] = i
           /\ \A i \in 1..Len(s), j \in 1..Len(t) : IsCell(D, s, i, t, j)
<1> DEFINE m == Len(s)
           n == Len(t)
<1>1. m \in Nat /\ n \in Nat
  OBVIOUS
<1>2. /\ D \in [0..m -> [0..n -> Nat]]
      /\ \A j \in 0..n : D[0][j] = j
      /\ \A i \in 1..m : IsRow(D[i], D[i - 1], s, i, t)
  BY DEF IsTable
<1>3. /\ \A i \in 1..m : D[i][0] = i
      /\ \A i \in 1..m, j \in 1..n :
            D[i][j] = Smaller(D[i][j - 1] + 1,
                              Smaller(D[i - 1][j] + 1, D[i - 1][j - 1] + Cost(s, i, t, j)))
  BY <1>2 DEF IsRow
<1> HIDE DEF m, n
<1>4. \A i \in 0..m, j \in 0..n : D[i][j] \in Nat
  BY <1>2
<1>5. \A i \in 0..m : D[i][0] = i
  BY <1>1, <1>2, <1>3
<1>6. ASSUME NEW i \in 1..m, NEW j \in 1..n
      PROVE  IsCell(D, s, i, t, j)
  <2>1. i \in 0..m /\ i - 1 \in 0..m /\ j \in 0..n /\ j - 1 \in 0..n
    BY <1>1
  <2>2. D[i][j - 1] \in Nat /\ D[i - 1][j] \in Nat /\ D[i - 1][j - 1] \in Nat
    BY <1>4, <2>1
  <2>3. Cost(s, i, t, j) \in Nat
    BY DEF Cost
  <2>4. D[i][j] = Smaller(D[i][j - 1] + 1,
                          Smaller(D[i - 1][j] + 1, D[i - 1][j - 1] + Cost(s, i, t, j)))
    BY <1>3
  <2>5. \A a, b, c \in Nat : /\ Smaller(a, Smaller(b, c)) \in {a, b, c}
                            /\ Smaller(a, Smaller(b, c)) <= a
                            /\ Smaller(a, Smaller(b, c)) <= b
                            /\ Smaller(a, Smaller(b, c)) <= c
    BY DEF Smaller
  <2>6. /\ D[i][j - 1] + 1 \in Nat /\ D[i - 1][j] + 1 \in Nat
        /\ D[i - 1][j - 1] + Cost(s, i, t, j) \in Nat
    <3>1. \A x, y \in Nat : x + 1 \in Nat /\ x + y \in Nat
      OBVIOUS
    <3> QED
      BY <2>2, <2>3, <3>1
  <2>7. PICK a \in Nat, b \in Nat, c \in Nat :
            /\ a = D[i][j - 1] + 1
            /\ b = D[i - 1][j] + 1
            /\ c = D[i - 1][j - 1] + Cost(s, i, t, j)
    BY <2>6
  <2>8. D[i][j] = Smaller(a, Smaller(b, c))
    BY <2>4, <2>7
  <2>9. D[i][j] \in {a, b, c} /\ D[i][j] <= a /\ D[i][j] <= b /\ D[i][j] <= c
    BY <2>5, <2>8
  <2> QED
    BY <2>7, <2>9 DEF IsCell
<1> QED
  BY <1>1, <1>2, <1>4, <1>5, <1>6 DEF m, n

\* Below a cell the distance grows by at most one.
LEMMA DownByOne ==
    ASSUME NEW s \in Seq(Runes), NEW t \in Seq(Runes), NEW D, IsTable(D, s, t),
           NEW i \in 1..Len(s), NEW j \in 0..Len(t)
    PROVE  D[i][j] <= D[i - 1][j] + 1
<1>1. CASE j = 0
  <2>1. i \in 0..Len(s) /\ i - 1 \in 0..Len(s)
    OBVIOUS
  <2>2. D[i][0] = i /\ D[i - 1][0] = i - 1
    BY <2>1, CellFacts
  <2> QED
    BY <1>1, <2>2
<1>2. CASE j # 0
  <2>1. j \in 1..Len(t)
    BY <1>2
  <2> QED
    BY <2>1, CellFacts DEF IsCell
<1> QED
  BY <1>1, <1>2

\* Beside a cell the distance grows by at most one.
LEMMA RightByOne ==
    ASSUME NEW s \in Seq(Runes), NEW t \in Seq(Runes), NEW D, IsTable(D, s, t),
           NEW i \in 0..Len(s), NEW j \in 1..Len(t)
    PROVE  D[i][j] <= D[i][j - 1] + 1
<1>1. CASE i = 0
  <2>1. j \in 0..Len(t) /\ j - 1 \in 0..Len(t)
    OBVIOUS
  <2>2. D[0][j] = j /\ D[0][j - 1] = j - 1
    BY <2>1, CellFacts
  <2> QED
    BY <1>1, <2>2
<1>2. CASE i # 0
  <2>1. i \in 1..Len(s)
    BY <1>2
  <2> QED
    BY <2>1, CellFacts DEF IsCell
<1> QED
  BY <1>1, <1>2


-----------------------------------------------------------------------------
(* An edit changes the distance by at most one                             *)

\* t is u with another p-th rune.
HasSubstituted(t, u, p) ==
    Len(t) = Len(u) /\ \A j \in 1..Len(u) : j # p => t[j] = u[j]

\* Another rune in the second text adds at most one to what levenshtein returns:
\* the cells before the rune are the same, the others at most one larger.
LEMMA SubstitutionCosts ==
    ASSUME NEW s \in Seq(Runes), NEW t \in Seq(Runes), NEW u \in Seq(Runes),
           NEW p \in 1..Len(u), HasSubstituted(t, u, p),
           NEW D, IsTable(D, s, u), NEW E, IsTable(E, s, t)
    PROVE  E[Len(s)][Len(t)] <= D[Len(s)][Len(u)] + 1
<1> DEFINE m == Len(s)
           n == Len(u)
<1>1. /\ m \in Nat /\ n \in Nat
      /\ \A i \in 0..m, j \in 0..n : D[i][j] \in Nat
      /\ \A j \in 0..n : D[0][j] = j
      /\ \A i \in 0..m : D[i][0] = i
      /\ \A i \in 1..m, j \in 1..n : IsCell(D, s, i, u, j)
  BY CellFacts
<1>2. Len(t) = n /\ \A j \in 1..n : j # p => t[j] = u[j]
  BY DEF HasSubstituted
<1>3. /\ \A i \in 0..m, j \in 0..n : E[i][j] \in Nat
      /\ \A j \in 0..n : E[0][j] = j
      /\ \A i \in 0..m : E[i][0] = i
      /\ \A i \in 1..m, j \in 1..n : IsCell(E, s, i, t, j)
  <2>1. /\ \A i \in 0..m, j \in 0..Len(t) : E[i][j] \in Nat
        /\ \A j \in 0..Len(t) : E[0][j] = j
        /\ \A i \in 0..m : E[i][0] = i
        /\ \A i \in 1..m, j \in 1..Len(t) : IsCell(E, s, i, t, j)
    BY CellFacts
  <2> QED
    BY <1>2, <2>1
<1>4. p \in 1..n
  OBVIOUS
<1> HIDE DEF m, n
<1> DEFINE S == {x \in (0..m) \X (0..n) :
                   /\ x[2] < p => E[x[1]][x[2]] <= D[x[1]][x[2]]
                   /\ E[x[1]][x[2]] <= D[x[1]][x[2]] + 1}
           In(i, j) == (j < p => E[i][j] <= D[i][j]) /\ E[i][j] <= D[i][j] + 1
<1>5. \A i \in 0..m, j \in 0..n : <<i, j>> \in S <=> In(i, j)
  OBVIOUS
<1> HIDE DEF S
<1>6. \A j \in 0..n : <<0, j>> \in S
  <2> SUFFICES ASSUME NEW j \in 0..n
               PROVE  In(0, j)
    BY <1>1, <1>5
  <2>1. E[0][j] = D[0][j] /\ D[0][j] \in Nat
    BY <1>1, <1>3
  <2> QED
    BY <2>1
<1>7. \A i \in 1..m : <<i, 0>> \in S
  <2> SUFFICES ASSUME NEW i \in 0..m
               PROVE  In(i, 0)
    BY <1>1, <1>5
  <2>1. E[i][0] = D[i][0] /\ D[i][0] \in Nat
    BY <1>1, <1>3
  <2> QED
    BY <2>1
<1>8. ASSUME NEW i \in 1..m, NEW j \in 1..n,
             <<i - 1, j - 1>> \in S, <<i - 1, j>> \in S, <<i, j - 1>> \in S
      PROVE  <<i, j>> \in S
  <2>1. i \in 0..m /\ i - 1 \in 0..m /\ j \in 0..n /\ j - 1 \in 0..n
    BY <1>1
  <2>2. In(i - 1, j - 1) /\ In(i - 1, j) /\ In(i, j - 1)
    BY <1>5, <1>8, <2>1
  <2>3. PICK d00 \in Nat, d01 \in Nat, d10 \in Nat, d11 \in Nat :
            /\ d00 = D[i - 1][j - 1] /\ d01 = D[i - 1][j]
            /\ d10 = D[i][j - 1] /\ d11 = D[i][j]
    BY <1>1, <2>1
  <2>4. PICK e00 \in Nat, e01 \in Nat, e10 \in Nat, e11 \in Nat :
            /\ e00 = E[i - 1][j - 1] /\ e01 = E[i - 1][j]
            /\ e10 = E[i][j - 1] /\ e11 = E[i][j]
    BY <1>3, <2>1
  <2>5. PICK c \in 0..1, d \in 0..1 :
            c = Cost(s, i, u, j) /\ d = Cost(s, i, t, j) /\ (j # p => c = d)
    BY <1>2 DEF Cost
  <2>6. d11 = d10 + 1 \/ d11 = d01 + 1 \/ d11 = d00 + c
    BY <1>1, <2>3, <2>5 DEF IsCell
  <2>7. e11 <= e10 + 1 /\ e11 <= e01 + 1 /\ e11 <= e00 + d
    BY <1>3, <2>4, <2>5 DEF IsCell
  <2>8. /\ j - 1 < p => e00 <= d00 /\ e10 <= d10
        /\ j < p => e01 <= d01
        /\ e00 <= d00 + 1 /\ e10 <= d10 + 1 /\ e01 <= d01 + 1
    BY <2>2, <2>3, <2>4
  <2>9. j \in Int /\ p \in Int
    BY <1>1, <1>4
  <2>10. (j < p => e11 <= d11) /\ e11 <= d11 + 1
    <3>1. CASE j < p
      BY <2>5, <2>6, <2>7, <2>8, <2>9, <3>1
    <3>2. CASE j = p
      BY <2>5, <2>6, <2>7, <2>8, <2>9, <3>2
    <3>3. CASE j > p
      BY <2>5, <2>6, <2>7, <2>8, <2>9, <3>3
    <3> QED
      BY <2>9, <3>1, <3>2, <3>3
  <2>11. In(i, j)
    BY <2>3, <2>4, <2>10
  <2> QED
    BY <1>5, <2>1, <2>11
<1>9. \A i \in 0..m, j \in 0..n : <<i, j>> \in S
  BY <1>1, <1>6, <1>7, <1>8, FillTable
<1>10. m \in 0..m /\ n \in 0..n
  BY <1>1
<1>11. In(m, n)
  BY <1>5, <1>9, <1>10
<1> QED
  BY <1>2, <1>11 DEF m, n


\* A rune more in the second text adds at most one to what levenshtein returns: from
\* the new rune on, a cell is compared with its left neighbour in the other table.
LEMMA InsertionCosts ==
    ASSUME NEW s \in Seq(Runes), NEW t \in Seq(Runes), NEW u \in Seq(Runes),
           NEW p \in 0..Len(u), NEW r, HasInserted(t, u, p, r),
           NEW D, IsTable(D, s, u), NEW E, IsTable(E, s, t)
    PROVE  E[Len(s)][Len(t)] <= D[Len(s)][Len(u)] + 1
<1> DEFINE m == Len(s)
           n == Len(u)
<1>1. /\ m \in Nat /\ n \in Nat
      /\ \A i \in 0..m, j \in 0..n : D[i][j] \in Nat
      /\ \A j \in 0..n : D[0][j] = j
      /\ \A i \in 0..m : D[i][0] = i
      /\ \A i \in 1..m, j \in 1..n : IsCell(D, s, i, u, j)
  BY CellFacts
<1>2. /\ Len(t) = n + 1
      /\ \A j \in 1..p : t[j] = u[j]
      /\ \A j \in (p + 1)..n : t[j + 1] = u[j]
  BY DEF HasInserted
<1>3. /\ \A i \in 0..m, j \in 0..(n + 1) : E[i][j] \in Nat
      /\ \A j \in 0..(n + 1) : E[0][j] = j
      /\ \A i \in 0..m : E[i][0] = i
      /\ \A i \in 1..m, j \in 1..(n + 1) : IsCell(E, s, i, t, j)
  <2>1. /\ \A i \in 0..m, j \in 0..Len(t) : E[i][j] \in Nat
        /\ \A j \in 0..Len(t) : E[0][j] = j
        /\ \A i \in 0..m : E[i][0] = i
        /\ \A i \in 1..m, j \in 1..Len(t) : IsCell(E, s, i, t, j)
    BY CellFacts
  <2> QED
    BY <1>2, <2>1
<1>4. p \in 0..n /\ \A i \in 0..m : E[i][p + 1] <= E[i][p] + 1
  <2>1. p + 1 \in 1..Len(t) /\ (p + 1) - 1 = p
    BY <1>1, <1>2
  <2> QED
    BY <2>1, RightByOne
<1> HIDE DEF m, n
<1> DEFINE S == {x \in (0..m) \X (0..n) :
                   /\ x[2] <= p => E[x[1]][x[2]] <= D[x[1]][x[2]]
                   /\ x[2] >= p => E[x[1]][x[2] + 1] <= D[x[1]][x[2]] + 1}
           In(i, j) == /\ j <= p => E[i][j] <= D[i][j]
                       /\ j >= p => E[i][j + 1] <= D[i][j] + 1
<1>5. \A i \in 0..m, j \in 0..n : <<i, j>> \in S <=> In(i, j)
  OBVIOUS
<1> HIDE DEF S
<1>6. \A j \in 0..n : <<0, j>> \in S
  <2> SUFFICES ASSUME NEW j \in 0..n
               PROVE  In(0, j)
    BY <1>1, <1>5
  <2>1. j \in 0..(n + 1) /\ j + 1 \in 0..(n + 1)
    BY <1>1
  <2>2. E[0][j] = j /\ E[0][j + 1] = j + 1 /\ D[0][j] = j
    BY <1>1, <1>3, <2>1
  <2> QED
    BY <2>2
<1>7. \A i \in 1..m : <<i, 0>> \in S
  <2> SUFFICES ASSUME NEW i \in 0..m
               PROVE  In(i, 0)
    BY <1>1, <1>5
  <2>1. E[i][0] = i /\ D[i][0] = i
    BY <1>1, <1>3
  <2>2. 0 >= p => p = 0
    BY <1>4
  <2>3. 0 >= p => E[i][0 + 1] <= D[i][0] + 1
    BY <1>4, <2>1, <2>2
  <2> QED
    BY <2>1, <2>3
<1>8. ASSUME NEW i \in 1..m, NEW j \in 1..n,
             <<i - 1, j - 1>> \in S, <<i - 1, j>> \in S, <<i, j - 1>> \in S
      PROVE  <<i, j>> \in S
  <2>1. i \in 0..m /\ i - 1 \in 0..m /\ j \in 0..n /\ j - 1 \in 0..n
    BY <1>1
  <2>2. In(i - 1, j - 1) /\ In(i - 1, j) /\ In(i, j - 1)
    BY <1>5, <1>8, <2>1
  <2>3. PICK d00 \in Nat, d01 \in Nat, d10 \in Nat, d11 \in Nat :
            /\ d00 = D[i - 1][j - 1] /\ d01 = D[i - 1][j]
            /\ d10 = D[i][j - 1] /\ d11 = D[i][j]
    BY <1>1, <2>1
  <2>4. /\ j \in 1..(n + 1) /\ j + 1 \in 1..(n + 1) /\ (j + 1) - 1 = j
        /\ (j - 1) + 1 = j /\ j - 1 \in 0..(n + 1) /\ j \in 0..(n + 1)
        /\ j + 1 \in 0..(n + 1)
    BY <1>1
  <2>5. PICK c \in 0..1 : c = Cost(s, i, u, j)
    BY DEF Cost
  <2>6. d11 = d10 + 1 \/ d11 = d01 + 1 \/ d11 = d00 + c
    BY <1>1, <2>3, <2>5 DEF IsCell
  <2>7. PICK e00 \in Nat, e01 \in Nat, e10 \in Nat, e11 \in Nat, e02 \in Nat, e12 \in Nat :
            /\ e00 = E[i - 1][j - 1] /\ e01 = E[i - 1][j] /\ e02 = E[i - 1][j + 1]
            /\ e10 = E[i][j - 1] /\ e11 = E[i][j] /\ e12 = E[i][j + 1]
    BY <1>3, <2>1, <2>4
  <2>8. ASSUME j <= p
        PROVE  e11 <= d11
    <3>1. Cost(s, i, t, j) = c
      BY <1>2, <1>4, <2>5, <2>8 DEF Cost
    <3>2. e11 <= e10 + 1 /\ e11 <= e01 + 1 /\ e11 <= e00 + c
      BY <1>3, <2>4, <2>7, <3>1 DEF IsCell
    <3>3. j - 1 <= p
      BY <1>1, <1>4, <2>8
    <3>4. e00 <= d00 /\ e10 <= d10 /\ e01 <= d01
      BY <2>2, <2>3, <2>7, <2>8, <3>3
    <3> QED
      BY <2>6, <3>2, <3>4
  <2>9. ASSUME j > p
        PROVE  e12 <= d11 + 1
    <3>1. j \in (p + 1)..n
      BY <1>1, <1>4, <2>9
    <3>2. Cost(s, i, t, j + 1) = c
      BY <1>2, <2>5, <3>1 DEF Cost
    <3>3. e12 <= e11 + 1 /\ e12 <= e02 + 1 /\ e12 <= e01 + c
      BY <1>3, <2>4, <2>7, <3>2 DEF IsCell
    <3>4. j - 1 >= p /\ j >= p
      BY <1>1, <1>4, <2>9
    <3>5. e01 <= d00 + 1 /\ e11 <= d10 + 1 /\ e02 <= d01 + 1
      BY <2>2, <2>3, <2>4, <2>7, <3>4
    <3> QED
      BY <2>6, <3>3, <3>5
  <2>10. ASSUME j = p
         PROVE  e12 <= d11 + 1
    <3>1. e12 <= e11 + 1
      BY <1>4, <2>1, <2>7, <2>10
    <3>2. e11 <= d11
      BY <1>4, <2>8, <2>10
    <3> QED
      BY <3>1, <3>2
  <2>11. In(i, j)
    <3>1. j >= p => j = p \/ j > p
      BY <1>1, <1>4
    <3> QED
      BY <2>3, <2>7, <2>8, <2>9, <2>10, <3>1
  <2> QED
    BY <1>5, <2>1, <2>11
<1>9. \A i \in 0..m, j \in 0..n : <<i, j>> \in S
  BY <1>1, <1>6, <1>7, <1>8, FillTable
<1>10. m \in 0..m /\ n \in 0..n
  BY <1>1
<1>11. In(m, n)
  BY <1>5, <1>9, <1>10
<1>12. n >= p
  BY <1>1, <1>4
<1> QED
  BY <1>2, <1>11, <1>12 DEF m, n


\* t is u without its p-th rune.
HasRemoved(t, u, p) ==
    /\ Len(t) = Len(u) - 1
    /\ \A j \in 1..(p - 1) : t[j] = u[j]
    /\ \A j \in (p + 1)..Len(u) : t[j - 1] = u[j]

\* A rune less in the second text adds at most one to what levenshtein returns: from
\* the missing rune on, a cell is compared with its right neighbour in the other table.
LEMMA RemovalCosts ==
    ASSUME NEW s \in Seq(Runes), NEW t \in Seq(Runes), NEW u \in Seq(Runes),
           NEW p \in 1..Len(u), HasRemoved(t, u, p),
           NEW D, IsTable(D, s, u), NEW E, IsTable(E, s, t)
    PROVE  E[Len(s)][Len(t)] <= D[Len(s)][Len(u)] + 1
<1> DEFINE m == Len(s)
           n == Len(u)
<1>1. /\ m \in Nat /\ n \in Nat
      /\ \A i \in 0..m, j \in 0..n : D[i][j] \in Nat
      /\ \A j \in 0..n : D[0][j] = j
      /\ \A i \in 0..m : D[i][0] = i
      /\ \A i \in 1..m, j \in 1..n : IsCell(D, s, i, u, j)
  BY CellFacts
<1>2. /\ Len(t) = n - 1
      /\ \A j \in 1..(p - 1) : t[j] = u[j]
      /\ \A j \in (p + 1)..n : t[j - 1] = u[j]
  BY DEF HasRemoved
<1>3. /\ \A i \in 0..m, j \in 0..(n - 1) : E[i][j] \in Nat
      /\ \A j \in 0..(n - 1) : E[0][j] = j
      /\ \A i \in 0..m : E[i][0] = i
      /\ \A i \in 1..m, j \in 1..(n - 1) : IsCell(E, s, i, t, j)
  <2>1. /\ \A i \in 0..m, j \in 0..Len(t) : E[i][j] \in Nat
        /\ \A j \in 0..Len(t) : E[0][j] = j
        /\ \A i \in 0..m : E[i][0] = i
        /\ \A i \in 1..m, j \in 1..Len(t) : IsCell(E, s, i, t, j)
    BY CellFacts
  <2> QED
    BY <1>2, <2>1
<1>4. p \in 1..n /\ \A i \in 1..m : E[i][p - 1] <= E[i - 1][p - 1] + 1
  <2>1. p - 1 \in 0..Len(t)
    BY <1>1, <1>2
  <2> QED
    BY <2>1, DownByOne
<1> HIDE DEF m, n
<1> DEFINE S == {x \in (0..m) \X (0..n) :
                   /\ x[2] < p => E[x[1]][x[2]] <= D[x[1]][x[2]]
                   /\ x[2] >= p => E[x[1]][x[2] - 1] <= D[x[1]][x[2]] + 1}
           In(i, j) == /\ j < p => E[i][j] <= D[i][j]
                       /\ j >= p => E[i][j - 1] <= D[i][j] + 1
<1>5. \A i \in 0..m, j \in 0..n : <<i, j>> \in S <=> In(i, j)
  OBVIOUS
<1> HIDE DEF S
<1>6. \A j \in 0..n : <<0, j>> \in S
  <2> SUFFICES ASSUME NEW j \in 0..n
               PROVE  In(0, j)
    BY <1>1, <1>5
  <2>1. D[0][j] = j
    BY <1>1
  <2>2. ASSUME j < p
        PROVE  E[0][j] <= D[0][j]
    <3>1. j \in 0..(n - 1)
      BY <1>1, <1>4, <2>2
    <3> QED
      BY <1>3, <2>1, <3>1
  <2>3. ASSUME j >= p
        PROVE  E[0][j - 1] <= D[0][j] + 1
    <3>1. j - 1 \in 0..(n - 1)
      BY <1>1, <1>4, <2>3
    <3>2. E[0][j - 1] = j - 1
      BY <1>3, <3>1
    <3> QED
      BY <2>1, <3>2
  <2> QED
    BY <2>2, <2>3
<1>7. \A i \in 1..m : <<i, 0>> \in S
  <2> SUFFICES ASSUME NEW i \in 0..m
               PROVE  In(i, 0)
    BY <1>1, <1>5
  <2>1. E[i][0] = i /\ D[i][0] = i
    BY <1>1, <1>3
  <2>2. ~(0 >= p)
    BY <1>4
  <2> QED
    BY <2>1, <2>2
<1>8. ASSUME NEW i \in 1..m, NEW j \in 1..n,
             <<i - 1, j - 1>> \in S, <<i - 1, j>> \in S, <<i, j - 1>> \in S
      PROVE  <<i, j>> \in S
  <2>1. i \in 0..m /\ i - 1 \in 0..m /\ j \in 0..n /\ j - 1 \in 0..n
    BY <1>1
  <2>2. In(i - 1, j - 1) /\ In(i - 1, j) /\ In(i, j - 1)
    BY <1>5, <1>8, <2>1
  <2>3. PICK d00 \in Nat, d01 \in Nat, d10 \in Nat, d11 \in Nat :
            /\ d00 = D[i - 1][j - 1] /\ d01 = D[i - 1][j]
            /\ d10 = D[i][j - 1] /\ d11 = D[i][j]
    BY <1>1, <2>1
  <2>4. PICK c \in 0..1 : c = Cost(s, i, u, j)
    BY DEF Cost
  <2>5. d11 = d10 + 1 \/ d11 = d01 + 1 \/ d11 = d00 + c
    BY <1>1, <2>3, <2>4 DEF IsCell
  <2>6. j - 1 \in 0..(n - 1)
    BY <1>1
  <2>7. PICK e00 \in Nat, e10 \in Nat : e00 = E[i - 1][j - 1] /\ e10 = E[i][j - 1]
    BY <1>3, <2>1, <2>6
  <2>8. ASSUME j < p
        PROVE  E[i][j] <= D[i][j]
    <3>1. j \in 1..(p - 1) /\ j \in 1..(n - 1) /\ j \in 0..(n - 1) /\ j - 1 < p
      BY <1>1, <1>4, <2>8
    <3>2. Cost(s, i, t, j) = c
      BY <1>2, <2>4, <3>1 DEF Cost
    <3>3. PICK e01 \in Nat, e11 \in Nat : e01 = E[i - 1][j] /\ e11 = E[i][j]
      BY <1>3, <2>1, <3>1
    <3>4. e11 <= e10 + 1 /\ e11 <= e01 + 1 /\ e11 <= e00 + c
      BY <1>3, <2>7, <3>1, <3>2, <3>3 DEF IsCell
    <3>5. e00 <= d00 /\ e10 <= d10 /\ e01 <= d01
      BY <2>2, <2>3, <2>7, <2>8, <3>1, <3>3
    <3>6. e11 <= d11
      BY <2>5, <3>4, <3>5
    <3> QED
      BY <2>3, <3>3, <3>6
  <2>9. ASSUME j > p
        PROVE  e10 <= d11 + 1
    <3>1. /\ j \in (p + 1)..n /\ j - 1 \in 1..(n - 1) /\ (j - 1) - 1 \in 0..(n - 1)
          /\ j - 1 >= p /\ j >= p
      BY <1>1, <1>4, <2>9
    <3>2. Cost(s, i, t, j - 1) = c
      BY <1>2, <2>4, <3>1 DEF Cost
    <3>3. PICK f0 \in Nat, f1 \in Nat :
              f0 = E[i - 1][(j - 1) - 1] /\ f1 = E[i][(j - 1) - 1]
      BY <1>3, <2>1, <3>1
    <3>4. e10 <= f1 + 1 /\ e10 <= e00 + 1 /\ e10 <= f0 + c
      BY <1>3, <2>7, <3>1, <3>2, <3>3 DEF IsCell
    <3>5. f0 <= d00 + 1 /\ f1 <= d10 + 1 /\ e00 <= d01 + 1
      BY <2>2, <2>3, <2>7, <3>1, <3>3
    <3> QED
      BY <2>5, <3>4, <3>5
  <2>10. ASSUME j = p
         PROVE  e10 <= d11 + 1
    <3>1. e10 <= e00 + 1
      BY <1>4, <2>7, <2>10
    <3>2. j - 1 < p /\ j >= p
      BY <1>1, <2>10
    <3>3. e00 <= d00 /\ e10 <= d10 /\ e00 <= d01 + 1
      BY <2>2, <2>3, <2>7, <3>2
    <3> QED
      BY <2>5, <3>1, <3>3
  <2>11. In(i, j)
    <3>1. j >= p => j = p \/ j > p
      BY <1>1, <1>4
    <3> QED
      BY <2>3, <2>7, <2>8, <2>9, <2>10, <3>1
  <2> QED
    BY <1>5, <2>1, <2>11
<1>9. \A i \in 0..m, j \in 0..n : <<i, j>> \in S
  BY <1>1, <1>6, <1>7, <1>8, FillTable
<1>10. m \in 0..m /\ n \in 0..n
  BY <1>1
<1>11. In(m, n)
  BY <1>5, <1>9, <1>10
<1>12. n >= p
  BY <1>1, <1>4
<1> QED
  BY <1>2, <1>11, <1>12 DEF m, n

\* The distance of s from itself is zero.
LEMMA NoDistance ==
    ASSUME NEW s \in Seq(Runes)
    PROVE  levenshtein(s, s) = 0
<1> DEFINE n == Len(s)
<1>1. PICK D : IsTable(D, s, s) /\ levenshtein(s, s) = D[n][n]
  BY TableSteps
<1>2. /\ n \in Nat
      /\ \A i \in 0..n, j \in 0..n : D[i][j] \in Nat
      /\ D[0][0] = 0
      /\ \A i \in 1..n, j \in 1..n : IsCell(D, s, i, s, j)
  BY <1>1, CellFacts
<1> HIDE DEF n
<1> DEFINE S == {i \in 0..n : D[i][i] = 0}
<1>3. 0 \in S
  BY <1>2
<1>4. ASSUME NEW i \in 1..n, i - 1 \in S
      PROVE  i \in S
  <2>1. i \in 0..n /\ D[i][i] \in Nat /\ D[i - 1][i - 1] = 0
    BY <1>2, <1>4
  <2>2. D[i][i] <= D[i - 1][i - 1] + 0
    BY <1>2 DEF IsCell, Cost
  <2> QED
    BY <2>1, <2>2
<1>5. n \in S
  <2> HIDE DEF S
  <2>1. \A i \in 0..n : i \in S
    BY <1>2, <1>3, <1>4, CountUp
  <2> QED
    BY <1>2, <2>1
<1> QED
  BY <1>1, <1>5


\* What removing a rune does to an identifier.
LEMMA WithoutFacts ==
    ASSUME NEW s \in Seq(Runes), NEW p \in 1..Len(s)
    PROVE  Without(s, p) \in Seq(Runes) /\ HasRemoved(Without(s, p), s, p)
<1> DEFINE n == Len(s)
           a == SubSeq(s, 1, p - 1)
           b == SubSeq(s, p + 1, n)
           t == a \o b
<1>1. n \in Nat
  OBVIOUS
<1>2. a \in Seq(Runes) /\ Len(a) = p - 1 /\ \A j \in 1..(p - 1) : a[j] = s[j]
  BY <1>1
<1>3. b \in Seq(Runes) /\ Len(b) = n - p /\ \A j \in 1..(n - p) : b[j] = s[p + j]
  BY <1>1
<1>4. Without(s, p) = t
  BY DEF Without
<1> HIDE DEF a, b
<1>5. /\ t \in Seq(Runes) /\ Len(t) = n - 1
      /\ \A j \in 1..(p - 1) : t[j] = a[j]
      /\ \A j \in 1..(n - p) : t[(p - 1) + j] = b[j]
  <2>1. t \in Seq(Runes) /\ Len(t) = Len(a) + Len(b)
    BY <1>2, <1>3, ConcatProperties
  <2>2. \A j \in 1..Len(a) : t[j] = a[j]
    BY <1>2, <1>3
  <2>3. \A j \in 1..Len(b) : t[Len(a) + j] = b[j]
    BY <1>2, <1>3
  <2>4. (p - 1) + (n - p) = n - 1
    BY <1>1
  <2> HIDE DEF t, n
  <2> QED
    BY <1>2, <1>3, <2>1, <2>2, <2>3, <2>4
<1> HIDE DEF t
<1>6. ASSUME NEW j \in (p + 1)..n
      PROVE  t[j - 1] = s[j]
  <2>1. j - p \in 1..(n - p) /\ (p - 1) + (j - p) = j - 1 /\ p + (j - p) = j
    BY <1>1
  <2> HIDE DEF n
  <2> QED
    BY <1>3, <1>5, <2>1
<1>7. \A j \in 1..(p - 1) : t[j] = s[j]
  BY <1>2, <1>5
<1> QED
  BY <1>4, <1>5, <1>6, <1>7 DEF HasRemoved

\* What substituting a rune does to an identifier.
LEMMA SubstitutedFacts ==
    ASSUME NEW s \in Seq(Runes), NEW p \in 1..Len(s), NEW r \in Runes
    PROVE  [s EXCEPT ![p] = r] \in Seq(Runes) /\ HasSubstituted([s EXCEPT ![p] = r], s, p)
<1> DEFINE t == [s EXCEPT ![p] = r]
<1>1. t \in Seq(Runes) /\ Len(t) = Len(s)
  OBVIOUS
<1>2. \A j \in 1..Len(s) : j # p => t[j] = s[j]
  OBVIOUS
<1> QED
  BY <1>1, <1>2 DEF HasSubstituted

\* The three kinds of edit.
LEMMA EditCases ==
    ASSUME NEW u \in Seq(Runes), NEW t \in Edits(u)
    PROVE  /\ t \in Seq(Runes)
           /\ \/ \E p \in 1..Len(u) : HasRemoved(t, u, p)
              \/ \E p \in 1..Len(u) : HasSubstituted(t, u, p)
              \/ \E p \in 0..Len(u), r \in Runes : HasInserted(t, u, p, r)
<1>1. CASE \E p \in 1..Len(u) : t = Without(u, p)
  BY <1>1, WithoutFacts
<1>2. CASE \E p \in 1..Len(u), r \in Runes : t = [u EXCEPT ![p] = r]
  BY <1>2, SubstitutedFacts
<1>3. CASE \E p \in 0..Len(u), r \in Runes : t = Inserted(u, p, r)
  BY <1>3, InsertedFacts
<1> QED
  BY <1>1, <1>2, <1>3 DEF Edits

\* One edit more costs at most one more.
LEMMA OneEdit ==
    ASSUME NEW s \in Seq(Runes), NEW u \in Seq(Runes), NEW t \in Edits(u)
    PROVE  levenshtein(s, t) <= levenshtein(s, u) + 1
<1>1. t \in Seq(Runes)
  BY EditCases
<1>2. PICK D : IsTable(D, s, u) /\ levenshtein(s, u) = D[Len(s)][Len(u)]
  BY TableSteps
<1>3. PICK E : IsTable(E, s, t) /\ levenshtein(s, t) = E[Len(s)][Len(t)]
  BY <1>1, TableSteps
<1>4. CASE \E p \in 1..Len(u) : HasRemoved(t, u, p)
  BY <1>1, <1>2, <1>3, <1>4, RemovalCosts
<1>5. CASE \E p \in 1..Len(u) : HasSubstituted(t, u, p)
  BY <1>1, <1>2, <1>3, <1>5, SubstitutionCosts
<1>6. CASE \E p \in 0..Len(u), r \in Runes : HasInserted(t, u, p, r)
  BY <1>1, <1>2, <1>3, <1>6, InsertionCosts
<1> QED
  BY <1>4, <1>5, <1>6, EditCases

-----------------------------------------------------------------------------
(* Within                                                                  *)

\* The sequences of at most MaxLength runes one edit away from one of U.
Further(U) == U \cup {t \in UNION {Edits(u) : u \in U} : Len(t) <= MaxLength}

\* R[k] holds what k edits reach from s.
Reaches(R, s, n) ==
    /\ R[0] = {s}
    /\ \A k \in 1..n : R[k] = Further(R[k - 1])

\* The reference definition counts its edits one by one.
LEMMA WithinSteps ==
    ASSUME NEW s \in Seq(Runes), NEW n \in Nat
    PROVE  \E R \in [0..n -> SUBSET Seq(Runes)] : Reaches(R, s, n) /\ Within(s, n) = R[n]
<1> DEFINE V == SUBSET Seq(Runes)
           Body(U) == U \cup {t \in UNION {Edits(u) : u \in U} : Len(t) <= MaxLength}
           Step(g) == [k \in 0..n |-> IF k = 0 THEN {s} ELSE Body(g[k - 1])]
           G == [x \in V \X (1..n) |-> Body(x[1])]
           reached == CHOOSE g : g = Step(g)
<1>1. ASSUME NEW U \in V
      PROVE  Body(U) \in V
  <2>1. \A u \in U : \A t \in Edits(u) : t \in Seq(Runes)
    BY EditCases
  <2> QED
    BY <2>1
<1>2. {s} \in V
  OBVIOUS
<1>3. Within(s, n) = reached[n]
  BY DEF Within
<1>4. \A U : Body(U) = Further(U)
  BY DEF Further
<1> HIDE DEF V, Body
<1>5. G \in [V \X (1..n) -> V]
  BY <1>1
<1>6. \A U \in V, k \in 1..n : G[<<U, k>>] = Body(U)
  OBVIOUS
<1> HIDE DEF G
<1>7. PICK R \in [0..n -> V] : Runs(R, n, {s}, G)
  BY <1>2, <1>5, LoopRuns
<1>8. \A k \in 0..n : R[k] = IF k = 0 THEN {s} ELSE Body(R[k - 1])
  <2> SUFFICES ASSUME NEW k \in 0..n, k # 0
               PROVE  R[k] = Body(R[k - 1])
    BY <1>7 DEF Runs
  <2>1. k \in 1..n /\ k - 1 \in 0..n
    OBVIOUS
  <2> QED
    BY <1>6, <1>7, <2>1 DEF Runs
<1>9. R = Step(R)
  BY <1>8
<1>10. reached = Step(reached)
  <2> HIDE DEF Step
  <2> QED
    BY <1>9
<1> HIDE DEF reached
<1>11. \A k \in 1..n : reached[k - 1] = R[k - 1] => reached[k] = R[k]
  <2> SUFFICES ASSUME NEW k \in 1..n
               PROVE  reached[k] = Body(reached[k - 1]) /\ R[k] = Body(R[k - 1])
    OBVIOUS
  <2>1. k \in 0..n /\ k # 0
    OBVIOUS
  <2> QED
    BY <1>8, <1>10, <2>1
<1>12. reached[0] = R[0]
  BY <1>8, <1>10
<1>13. reached[n] = R[n]
  <2>1. Alike(reached, R, n)
    BY <1>11, <1>12 DEF Alike
  <2>2. \A k \in 0..n : reached[k] = R[k]
    BY <2>1, SameLoop
  <2> QED
    BY <2>2
<1>14. ASSUME NEW k \in 1..n
       PROVE  R[k] = Further(R[k - 1])
  <2>1. k \in 0..n /\ k # 0
    OBVIOUS
  <2> QED
    BY <1>4, <1>8, <2>1
<1>15. R[0] = {s}
  BY <1>8
<1>16. Reaches(R, s, n)
  BY <1>14, <1>15 DEF Reaches
<1> QED
  BY <1>3, <1>13, <1>16 DEF V

\* levenshtein never asks for more edits than are enough.
LEMMA NeverMore ==
    ASSUME NEW s \in Seq(Runes), NEW n \in Nat, NEW t \in Within(s, n)
    PROVE  levenshtein(s, t) <= n
<1>1. PICK R \in [0..n -> SUBSET Seq(Runes)] : Reaches(R, s, n) /\ Within(s, n) = R[n]
  BY WithinSteps
<1>2. ASSUME NEW u \in Seq(Runes)
      PROVE  levenshtein(s, u) \in Nat
  <2>1. PICK D : IsTable(D, s, u) /\ levenshtein(s, u) = D[Len(s)][Len(u)]
    BY TableSteps
  <2>2. Len(s) \in 0..Len(s) /\ Len(u) \in 0..Len(u)
    OBVIOUS
  <2> QED
    BY <2>1, <2>2, CellFacts
<1> DEFINE S == {k \in 0..n : \A u \in R[k] : levenshtein(s, u) <= k}
<1>3. 0 \in S
  BY <1>1, NoDistance DEF Reaches
<1>4. ASSUME NEW k \in 1..n, k - 1 \in S
      PROVE  k \in S
  <2> SUFFICES ASSUME NEW u \in R[k]
               PROVE  levenshtein(s, u) <= k
    OBVIOUS
  <2>1. k - 1 \in 0..n /\ k \in 0..n
    OBVIOUS
  <2>2. R[k] \subseteq Seq(Runes) /\ R[k - 1] \subseteq Seq(Runes)
    BY <2>1
  <2>3. R[k] = Further(R[k - 1])
    BY <1>1 DEF Reaches
  <2>4. CASE u \in R[k - 1]
    <3>1. levenshtein(s, u) <= k - 1
      BY <1>4, <2>4
    <3> QED
      BY <1>2, <2>2, <3>1
  <2>5. CASE \E v \in R[k - 1] : u \in Edits(v)
    <3>1. PICK v \in R[k - 1] : u \in Edits(v)
      BY <2>5
    <3>2. levenshtein(s, v) <= k - 1
      BY <1>4
    <3>3. levenshtein(s, u) <= levenshtein(s, v) + 1
      BY <2>2, <3>1, OneEdit
    <3>4. levenshtein(s, u) \in Nat /\ levenshtein(s, v) \in Nat
      BY <1>2, <2>2
    <3> QED
      BY <3>2, <3>3, <3>4
  <2> QED
    BY <2>3, <2>4, <2>5 DEF Further
<1>5. n \in S
  <2> HIDE DEF S
  <2>1. \A k \in 0..n : k \in S
    BY <1>3, <1>4, CountUp
  <2> QED
    BY <2>1
<1> QED
  BY <1>1, <1>5


-----------------------------------------------------------------------------
(* The edits the table stands for                                          *)

\* t comes of u by one of the three kinds of edit.
IsEdit(t, u) ==
    \/ \E p \in 1..Len(u) : HasRemoved(t, u, p)
    \/ \E p \in 1..Len(u) : HasSubstituted(t, u, p)
    \/ \E p \in 0..Len(u), r \in Runes : HasInserted(t, u, p, r)

\* These are all the edits there are.
LEMMA EditsAre ==
    ASSUME NEW u \in Seq(Runes), NEW t \in Seq(Runes), IsEdit(t, u)
    PROVE  t \in Edits(u)
<1>1. ASSUME NEW p \in 1..Len(u), HasRemoved(t, u, p)
      PROVE  t \in Edits(u)
  <2> DEFINE v == Without(u, p)
             n == Len(u)
  <2>1. v \in Seq(Runes) /\ HasRemoved(v, u, p)
    BY WithoutFacts
  <2> HIDE DEF v
  <2>2. n \in Nat /\ Len(t) = n - 1 /\ Len(v) = n - 1
    BY <1>1, <2>1 DEF HasRemoved
  <2>3. ASSUME NEW j \in 1..(n - 1)
        PROVE  t[j] = v[j]
    <3>1. CASE j < p
      <4>1. j \in 1..(p - 1)
        BY <3>1
      <4> QED
        BY <1>1, <2>1, <4>1 DEF HasRemoved
    <3>2. CASE ~(j < p)
      <4>1. j + 1 \in (p + 1)..n /\ (j + 1) - 1 = j
        BY <2>2, <3>2
      <4>2. t[(j + 1) - 1] = u[j + 1] /\ v[(j + 1) - 1] = u[j + 1]
        BY <1>1, <2>1, <4>1 DEF HasRemoved
      <4> QED
        BY <4>1, <4>2
    <3> QED
      BY <3>1, <3>2
  <2>4. t = v
    BY <2>1, <2>2, <2>3, SeqEqual
  <2> QED
    BY <2>4 DEF Edits, v
<1>2. ASSUME NEW p \in 1..Len(u), HasSubstituted(t, u, p)
      PROVE  t \in Edits(u)
  <2> DEFINE v == [u EXCEPT ![p] = t[p]]
             n == Len(u)
  <2>1. n \in Nat /\ Len(t) = n /\ \A j \in 1..n : j # p => t[j] = u[j]
    BY <1>2 DEF HasSubstituted
  <2>2. t[p] \in Runes
    BY <2>1
  <2>3. v \in Seq(Runes) /\ Len(v) = n
    BY <2>2
  <2>4. \A j \in 1..n : t[j] = v[j]
    BY <2>1
  <2>5. v \in Edits(u)
    <3> DEFINE Substituted(k, q) == [u EXCEPT ![k] = q]
    <3>1. {Substituted(k, q) : k \in 1..Len(u), q \in Runes} \subseteq Edits(u)
      BY DEF Edits
    <3>2. v = Substituted(p, t[p])
      OBVIOUS
    <3> HIDE DEF Substituted, v
    <3>3. Substituted(p, t[p]) \in {Substituted(k, q) : k \in 1..Len(u), q \in Runes}
      BY <2>2
    <3> QED
      BY <3>1, <3>2, <3>3
  <2> HIDE DEF v
  <2>6. t = v
    BY <2>1, <2>3, <2>4, SeqEqual
  <2> QED
    BY <2>5, <2>6
<1>3. ASSUME NEW p \in 0..Len(u), NEW r \in Runes, HasInserted(t, u, p, r)
      PROVE  t \in Edits(u)
  <2> DEFINE v == Inserted(u, p, r)
             n == Len(u)
  <2>1. v \in Seq(Runes) /\ HasInserted(v, u, p, r)
    BY InsertedFacts
  <2> HIDE DEF v
  <2>2. n \in Nat /\ Len(t) = n + 1 /\ Len(v) = n + 1
    BY <1>3, <2>1 DEF HasInserted
  <2>3. ASSUME NEW j \in 1..(n + 1)
        PROVE  t[j] = v[j]
    <3>1. CASE j \in 1..p
      BY <1>3, <2>1, <3>1 DEF HasInserted
    <3>2. CASE j = p + 1
      BY <1>3, <2>1, <3>2 DEF HasInserted
    <3>3. CASE j > p + 1
      <4>1. j - 1 \in (p + 1)..n /\ (j - 1) + 1 = j
        BY <2>2, <3>3
      <4>2. t[(j - 1) + 1] = u[j - 1] /\ v[(j - 1) + 1] = u[j - 1]
        BY <1>3, <2>1, <4>1 DEF HasInserted
      <4> QED
        BY <4>1, <4>2
    <3> QED
      BY <2>2, <3>1, <3>2, <3>3
  <2>4. t = v
    BY <2>1, <2>2, <2>3, SeqEqual
  <2> QED
    BY <2>4 DEF Edits, v
<1> QED
  BY <1>1, <1>2, <1>3 DEF IsEdit

\* An edit is one too when the same rune follows.
LEMMA EditBeforeRune ==
    ASSUME NEW u \in Seq(Runes), NEW t \in Edits(u), NEW r \in Runes
    PROVE  Append(t, r) \in Edits(Append(u, r))
<1> DEFINE x == Append(u, r)
           y == Append(t, r)
           n == Len(u)
<1>1. t \in Seq(Runes) /\ IsEdit(t, u)
  BY EditCases DEF IsEdit
<1>2. n \in Nat /\ Len(t) \in Nat
  BY <1>1
<1>3. x \in Seq(Runes) /\ Len(x) = n + 1 /\ x[n + 1] = r /\ \A j \in 1..n : x[j] = u[j]
  OBVIOUS
<1>4. /\ y \in Seq(Runes) /\ Len(y) = Len(t) + 1 /\ y[Len(t) + 1] = r
      /\ \A j \in 1..Len(t) : y[j] = t[j]
  BY <1>1
<1> HIDE DEF x, y
<1>5. ASSUME NEW p \in 1..n, HasRemoved(t, u, p)
      PROVE  p \in 1..Len(x) /\ HasRemoved(y, x, p)
  <2>1. Len(t) = n - 1 /\ Len(y) = Len(x) - 1 /\ Len(y) = n /\ y[n] = r
    BY <1>2, <1>3, <1>4, <1>5 DEF HasRemoved
  <2>2. ASSUME NEW j \in 1..(p - 1)
        PROVE  y[j] = x[j]
    <3>1. j \in 1..n /\ j \in 1..Len(t)
      BY <1>2, <2>1
    <3>2. t[j] = u[j]
      BY <1>5 DEF HasRemoved
    <3> QED
      BY <1>3, <1>4, <3>1, <3>2
  <2>3. ASSUME NEW j \in (p + 1)..(n + 1)
        PROVE  y[j - 1] = x[j]
    <3>1. CASE j = n + 1
      <4>1. j - 1 = n
        BY <1>2, <3>1
      <4> QED
        BY <1>3, <2>1, <3>1, <4>1
    <3>2. CASE j # n + 1
      <4>1. j \in (p + 1)..n /\ j \in 1..n /\ j - 1 \in 1..(n - 1)
        BY <1>2, <3>2
      <4>2. t[j - 1] = u[j]
        BY <1>5, <4>1 DEF HasRemoved
      <4> QED
        BY <1>3, <1>4, <2>1, <4>1, <4>2
    <3> QED
      BY <3>1, <3>2
  <2>4. p \in 1..(n + 1)
    BY <1>2
  <2> QED
    BY <1>3, <2>1, <2>2, <2>3, <2>4 DEF HasRemoved
<1>6. ASSUME NEW p \in 1..n, HasSubstituted(t, u, p)
      PROVE  p \in 1..Len(x) /\ HasSubstituted(y, x, p)
  <2>1. Len(t) = n /\ Len(y) = n + 1 /\ y[n + 1] = r
    BY <1>4, <1>6 DEF HasSubstituted
  <2>2. ASSUME NEW j \in 1..(n + 1), j # p
        PROVE  y[j] = x[j]
    <3>1. CASE j = n + 1
      BY <1>3, <2>1, <3>1
    <3>2. CASE j # n + 1
      <4>1. j \in 1..n
        BY <1>2, <3>2
      <4>2. t[j] = u[j]
        BY <1>6, <2>2, <4>1 DEF HasSubstituted
      <4> QED
        BY <1>3, <1>4, <2>1, <4>1, <4>2
    <3> QED
      BY <3>1, <3>2
  <2>3. p \in 1..(n + 1)
    BY <1>2
  <2> QED
    BY <1>3, <2>1, <2>2, <2>3 DEF HasSubstituted
<1>7. ASSUME NEW p \in 0..n, NEW q \in Runes, HasInserted(t, u, p, q)
      PROVE  p \in 0..Len(x) /\ HasInserted(y, x, p, q)
  <2>1. Len(t) = n + 1 /\ Len(y) = (n + 1) + 1 /\ y[(n + 1) + 1] = r
    BY <1>4, <1>7 DEF HasInserted
  <2>2. ASSUME NEW j \in 1..p
        PROVE  y[j] = x[j]
    <3>1. j \in 1..n /\ j \in 1..(n + 1)
      BY <1>2
    <3>2. t[j] = u[j]
      BY <1>7 DEF HasInserted
    <3> QED
      BY <1>3, <1>4, <2>1, <3>1, <3>2
  <2>3. y[p + 1] = q
    <3>1. p + 1 \in 1..(n + 1)
      BY <1>2
    <3>2. t[p + 1] = q
      BY <1>7 DEF HasInserted
    <3> QED
      BY <1>4, <2>1, <3>1, <3>2
  <2>4. ASSUME NEW j \in (p + 1)..(n + 1)
        PROVE  y[j + 1] = x[j]
    <3>1. CASE j = n + 1
      BY <1>3, <2>1, <3>1
    <3>2. CASE j # n + 1
      <4>1. j \in (p + 1)..n /\ j \in 1..n /\ j + 1 \in 1..(n + 1)
        BY <1>2, <3>2
      <4>2. t[j + 1] = u[j]
        BY <1>7, <4>1 DEF HasInserted
      <4> QED
        BY <1>3, <1>4, <2>1, <4>1, <4>2
    <3> QED
      BY <3>1, <3>2
  <2>5. p \in 0..(n + 1)
    BY <1>2
  <2> QED
    BY <1>3, <2>1, <2>2, <2>3, <2>4, <2>5 DEF HasInserted
<1>8. IsEdit(y, x)
  BY <1>1, <1>5, <1>6, <1>7 DEF IsEdit
<1>9. y \in Edits(x)
  BY <1>3, <1>4, <1>8, EditsAre
<1> QED
  BY <1>9 DEF x, y


\* f leads from u to w in k edits, through sequences of at most n runes.
IsPath(f, u, w, k, n) ==
    /\ f \in [0..k -> Seq(Runes)]
    /\ f[0] = u /\ f[k] = w
    /\ \A i \in 1..k : f[i] \in Edits(f[i - 1]) /\ Len(f[i]) <= n

Path(u, w, k, n) == \E f : IsPath(f, u, w, k, n)

\* No edit is needed to stay.
LEMMA PathStays ==
    ASSUME NEW u \in Seq(Runes), NEW n \in Nat
    PROVE  Path(u, u, 0, n)
<1> DEFINE f == [i \in 0..0 |-> u]
<1>1. f \in [0..0 -> Seq(Runes)] /\ f[0] = u
  OBVIOUS
<1> HIDE DEF f
<1>2. IsPath(f, u, u, 0, n)
  BY <1>1 DEF IsPath
<1> QED
  BY <1>2 DEF Path

\* A path through short sequences is one through longer ones.
LEMMA PathWider ==
    ASSUME NEW u, NEW w, NEW k \in Nat, NEW n \in Nat, NEW l \in Nat, n <= l,
           Path(u, w, k, n)
    PROVE  Path(u, w, k, l)
<1>1. PICK f : IsPath(f, u, w, k, n)
  BY DEF Path
<1>2. ASSUME NEW i \in 1..k
      PROVE  Len(f[i]) <= l
  <2>1. f[i] \in Seq(Runes) /\ Len(f[i]) <= n
    BY <1>1 DEF IsPath
  <2>2. Len(f[i]) \in Nat
    BY <2>1
  <2> QED
    BY <2>1, <2>2
<1>3. IsPath(f, u, w, k, l)
  BY <1>1, <1>2 DEF IsPath
<1> QED
  BY <1>3 DEF Path

\* A path goes on with one edit more.
LEMMA PathThenEdit ==
    ASSUME NEW u, NEW v, NEW k \in Nat, NEW n \in Nat, Path(u, v, k, n),
           NEW w \in Seq(Runes), w \in Edits(v), Len(w) <= n
    PROVE  Path(u, w, k + 1, n)
<1>1. PICK f : IsPath(f, u, v, k, n)
  BY DEF Path
<1>2. /\ f \in [0..k -> Seq(Runes)] /\ f[0] = u /\ f[k] = v
      /\ \A i \in 1..k : f[i] \in Edits(f[i - 1]) /\ Len(f[i]) <= n
  BY <1>1 DEF IsPath
<1> DEFINE g == [i \in 0..(k + 1) |-> IF i = k + 1 THEN w ELSE f[i]]
<1>3. g \in [0..(k + 1) -> Seq(Runes)]
  <2>1. \A i \in 0..(k + 1) : i # k + 1 => i \in 0..k
    OBVIOUS
  <2> QED
    BY <1>2, <2>1
<1>4. g[k + 1] = w /\ \A i \in 0..k : g[i] = f[i]
  OBVIOUS
<1> HIDE DEF g
<1>5. g[0] = u
  BY <1>2, <1>4
<1>6. ASSUME NEW i \in 1..(k + 1)
      PROVE  g[i] \in Edits(g[i - 1]) /\ Len(g[i]) <= n
  <2>1. CASE i = k + 1
    <3>1. i - 1 = k /\ k \in 0..k
      BY <2>1
    <3> QED
      BY <1>2, <1>4, <2>1, <3>1
  <2>2. CASE i # k + 1
    <3>1. i \in 1..k /\ i \in 0..k /\ i - 1 \in 0..k
      BY <2>2
    <3> QED
      BY <1>2, <1>4, <3>1
  <2> QED
    BY <2>1, <2>2
<1>7. IsPath(g, u, w, k + 1, n)
  BY <1>3, <1>4, <1>5, <1>6 DEF IsPath
<1> QED
  BY <1>7 DEF Path

\* One edit leads to the start of a path.
LEMMA EditThenPath ==
    ASSUME NEW u \in Seq(Runes), NEW v \in Edits(u), NEW k \in Nat, NEW n \in Nat,
           Len(v) <= n, NEW w, Path(v, w, k, n)
    PROVE  Path(u, w, k + 1, n)
<1>1. PICK f : IsPath(f, v, w, k, n)
  BY DEF Path
<1>2. /\ f \in [0..k -> Seq(Runes)] /\ f[0] = v /\ f[k] = w
      /\ \A i \in 1..k : f[i] \in Edits(f[i - 1]) /\ Len(f[i]) <= n
  BY <1>1 DEF IsPath
<1> DEFINE g == [i \in 0..(k + 1) |-> IF i = 0 THEN u ELSE f[i - 1]]
<1>3. g \in [0..(k + 1) -> Seq(Runes)]
  <2>1. \A i \in 0..(k + 1) : i # 0 => i - 1 \in 0..k
    OBVIOUS
  <2> QED
    BY <1>2, <2>1
<1>4. g[0] = u /\ \A i \in 1..(k + 1) : g[i] = f[i - 1]
  OBVIOUS
<1> HIDE DEF g
<1>5. g[k + 1] = w
  <2>1. k + 1 \in 1..(k + 1) /\ (k + 1) - 1 = k
    OBVIOUS
  <2> QED
    BY <1>2, <1>4, <2>1
<1>6. ASSUME NEW i \in 1..(k + 1)
      PROVE  g[i] \in Edits(g[i - 1]) /\ Len(g[i]) <= n
  <2>1. CASE i = 1
    <3>1. i - 1 = 0
      BY <2>1
    <3> QED
      BY <1>2, <1>4, <3>1
  <2>2. CASE i # 1
    <3>1. i - 1 \in 1..k /\ i - 1 \in 1..(k + 1)
      BY <2>2
    <3> QED
      BY <1>2, <1>4, <3>1
  <2> QED
    BY <2>1, <2>2
<1>7. IsPath(g, u, w, k + 1, n)
  BY <1>3, <1>4, <1>5, <1>6 DEF IsPath
<1> QED
  BY <1>7 DEF Path

\* A path is one too when the same rune follows everywhere.
LEMMA PathBeforeRune ==
    ASSUME NEW u, NEW w, NEW k \in Nat, NEW n \in Nat, Path(u, w, k, n), NEW r \in Runes
    PROVE  Path(Append(u, r), Append(w, r), k, n + 1)
<1>1. PICK f : IsPath(f, u, w, k, n)
  BY DEF Path
<1>2. /\ f \in [0..k -> Seq(Runes)] /\ f[0] = u /\ f[k] = w
      /\ \A i \in 1..k : f[i] \in Edits(f[i - 1]) /\ Len(f[i]) <= n
  BY <1>1 DEF IsPath
<1> DEFINE g == [i \in 0..k |-> Append(f[i], r)]
<1>3. \A i \in 0..k : Append(f[i], r) \in Seq(Runes) /\ Len(Append(f[i], r)) = Len(f[i]) + 1
  BY <1>2
<1>4. g \in [0..k -> Seq(Runes)] /\ \A i \in 0..k : g[i] = Append(f[i], r)
  BY <1>3
<1> HIDE DEF g
<1>5. g[0] = Append(u, r) /\ g[k] = Append(w, r)
  BY <1>2, <1>4
<1>6. ASSUME NEW i \in 1..k
      PROVE  g[i] \in Edits(g[i - 1]) /\ Len(g[i]) <= n + 1
  <2>1. i \in 0..k /\ i - 1 \in 0..k
    OBVIOUS
  <2>2. f[i] \in Seq(Runes) /\ f[i - 1] \in Seq(Runes) /\ f[i] \in Edits(f[i - 1])
    BY <1>2, <2>1
  <2>3. Append(f[i], r) \in Edits(Append(f[i - 1], r))
    BY <2>2, EditBeforeRune
  <2>4. Len(f[i]) \in Nat /\ Len(f[i]) <= n
    BY <1>2, <2>2
  <2>5. Len(g[i]) <= n + 1
    BY <1>3, <1>4, <2>1, <2>4
  <2> QED
    BY <1>4, <2>1, <2>3, <2>5
<1>7. IsPath(g, Append(u, r), Append(w, r), k, n + 1)
  BY <1>4, <1>5, <1>6 DEF IsPath
<1> QED
  BY <1>7 DEF Path

\* What a path through sequences of at most MaxLength runes leads to is within
\* its number of edits.
LEMMA PathIsWithin ==
    ASSUME NEW u \in Seq(Runes), NEW w, NEW k \in Nat, Path(u, w, k, MaxLength)
    PROVE  w \in Within(u, k)
<1>1. PICK f : IsPath(f, u, w, k, MaxLength)
  BY DEF Path
<1>2. PICK R \in [0..k -> SUBSET Seq(Runes)] : Reaches(R, u, k) /\ Within(u, k) = R[k]
  BY WithinSteps
<1>3. /\ f[0] = u /\ f[k] = w
      /\ \A i \in 1..k : f[i] \in Edits(f[i - 1]) /\ Len(f[i]) <= MaxLength
  BY <1>1 DEF IsPath
<1> DEFINE S == {i \in 0..k : f[i] \in R[i]}
<1>4. 0 \in S
  BY <1>2, <1>3 DEF Reaches
<1>5. ASSUME NEW i \in 1..k, i - 1 \in S
      PROVE  i \in S
  <2>1. R[i] = Further(R[i - 1]) /\ f[i - 1] \in R[i - 1]
    BY <1>2, <1>5 DEF Reaches
  <2>2. f[i] \in Further(R[i - 1])
    BY <1>3, <2>1 DEF Further
  <2> QED
    BY <2>1, <2>2
<1>6. k \in S
  <2> HIDE DEF S
  <2>1. \A i \in 0..k : i \in S
    BY <1>4, <1>5, CountUp
  <2> QED
    BY <2>1
<1> QED
  BY <1>2, <1>3, <1>6


Prefix(s, i) == SubSeq(s, 1, i)

\* The prefixes of an identifier, which the rows and columns of the table stand for,
\* are one edit apart.
LEMMA PrefixFacts ==
    ASSUME NEW s \in Seq(Runes)
    PROVE  /\ Prefix(s, 0) = << >> /\ Prefix(s, Len(s)) = s
           /\ \A i \in 0..Len(s) : Prefix(s, i) \in Seq(Runes) /\ Len(Prefix(s, i)) = i
           /\ \A i \in 1..Len(s) : /\ s[i] \in Runes
                                   /\ Prefix(s, i) = Append(Prefix(s, i - 1), s[i])
                                   /\ Prefix(s, i) \in Edits(Prefix(s, i - 1))
                                   /\ Prefix(s, i - 1) \in Edits(Prefix(s, i))
<1> DEFINE n == Len(s)
<1>1. n \in Nat
  OBVIOUS
<1>2. Prefix(s, 0) = << >> /\ Prefix(s, n) = s
  BY DEF Prefix
<1>3. ASSUME NEW i \in 0..n
      PROVE  /\ Prefix(s, i) \in Seq(Runes) /\ Len(Prefix(s, i)) = i
             /\ \A j \in 1..i : Prefix(s, i)[j] = s[j]
  BY <1>1 DEF Prefix
<1>4. ASSUME NEW i \in 1..n
      PROVE  /\ s[i] \in Runes
             /\ Prefix(s, i) = Append(Prefix(s, i - 1), s[i])
             /\ Prefix(s, i) \in Edits(Prefix(s, i - 1))
             /\ Prefix(s, i - 1) \in Edits(Prefix(s, i))
  <2> DEFINE a == Prefix(s, i - 1)
             b == Prefix(s, i)
  <2>1. i \in 0..n /\ i - 1 \in 0..n /\ (i - 1) + 1 = i
    BY <1>1
  <2>2. s[i] \in Runes
    OBVIOUS
  <2>3. a \in Seq(Runes) /\ Len(a) = i - 1 /\ \A j \in 1..(i - 1) : a[j] = s[j]
    BY <1>3, <2>1
  <2>4. b \in Seq(Runes) /\ Len(b) = i /\ \A j \in 1..i : b[j] = s[j]
    BY <1>3, <2>1
  <2> HIDE DEF a, b, n
  <2>5. b = Append(a, s[i])
    <3> DEFINE c == Append(a, s[i])
    <3>1. /\ c \in Seq(Runes) /\ Len(c) = Len(a) + 1 /\ c[Len(a) + 1] = s[i]
          /\ \A j \in 1..Len(a) : c[j] = a[j]
      BY <2>2, <2>3, AppendProperties
    <3>2. Len(c) = i /\ c[i] = s[i] /\ \A j \in 1..(i - 1) : c[j] = s[j]
      BY <2>1, <2>3, <3>1
    <3> HIDE DEF c
    <3>3. ASSUME NEW j \in 1..i
          PROVE  b[j] = c[j]
      <4>1. j = i \/ j \in 1..(i - 1)
        BY <1>1
      <4> QED
        BY <2>4, <3>2, <4>1
    <3>4. b = c
      BY <2>4, <3>1, <3>2, <3>3, SeqEqual
    <3> QED
      BY <3>4 DEF c
  <2>6. \A j \in 1..(i - 1) : j \in 1..i
    BY <1>1
  <2>7. HasInserted(b, a, i - 1, s[i])
    <3>1. ((i - 1) + 1)..(i - 1) = {}
      BY <1>1
    <3>2. i \in 1..i
      BY <1>1
    <3> QED
      BY <2>1, <2>3, <2>4, <2>6, <3>1, <3>2 DEF HasInserted
  <2>8. HasRemoved(a, b, i)
    <3>1. (i + 1)..i = {}
      BY <1>1
    <3> QED
      BY <2>3, <2>4, <2>6, <3>1 DEF HasRemoved
  <2>9. i - 1 \in 0..Len(a) /\ i \in 1..Len(b)
    BY <1>1, <2>3, <2>4
  <2>10. b \in Edits(a)
    <3>1. IsEdit(b, a)
      BY <2>2, <2>7, <2>9 DEF IsEdit
    <3> QED
      BY <2>3, <2>4, <3>1, EditsAre
  <2>11. a \in Edits(b)
    <3>1. IsEdit(a, b)
      BY <2>8, <2>9 DEF IsEdit
    <3> QED
      BY <2>3, <2>4, <3>1, EditsAre
  <2> QED
    BY <2>2, <2>5, <2>10, <2>11 DEF a, b
<1> QED
  BY <1>2, <1>3, <1>4

Larger(a, b) == IF a < b THEN b ELSE a

\* A distance is at most the length of the longer text.
LEMMA TableBound ==
    ASSUME NEW s \in Seq(Runes), NEW t \in Seq(Runes), NEW D, IsTable(D, s, t)
    PROVE  D[Len(s)][Len(t)] <= Larger(Len(s), Len(t))
<1> DEFINE m == Len(s)
           n == Len(t)
<1>1. /\ m \in Nat /\ n \in Nat
      /\ \A i \in 0..m, j \in 0..n : D[i][j] \in Nat
      /\ \A j \in 0..n : D[0][j] = j
      /\ \A i \in 0..m : D[i][0] = i
      /\ \A i \in 1..m, j \in 1..n : IsCell(D, s, i, t, j)
  BY CellFacts
<1> HIDE DEF m, n
<1> DEFINE S == {x \in (0..m) \X (0..n) : D[x[1]][x[2]] <= Larger(x[1], x[2])}
<1>2. \A i \in 0..m, j \in 0..n : <<i, j>> \in S <=> D[i][j] <= Larger(i, j)
  OBVIOUS
<1> HIDE DEF S
<1>3. \A j \in 0..n : <<0, j>> \in S
  <2> SUFFICES ASSUME NEW j \in 0..n
               PROVE  D[0][j] <= Larger(0, j)
    BY <1>1, <1>2
  <2> QED
    BY <1>1 DEF Larger
<1>4. \A i \in 1..m : <<i, 0>> \in S
  <2> SUFFICES ASSUME NEW i \in 0..m
               PROVE  D[i][0] <= Larger(i, 0)
    BY <1>1, <1>2
  <2> QED
    BY <1>1 DEF Larger
<1>5. ASSUME NEW i \in 1..m, NEW j \in 1..n,
             <<i - 1, j - 1>> \in S, <<i - 1, j>> \in S, <<i, j - 1>> \in S
      PROVE  <<i, j>> \in S
  <2>1. i \in 0..m /\ i - 1 \in 0..m /\ j \in 0..n /\ j - 1 \in 0..n
    BY <1>1
  <2>2. PICK d \in Nat, e \in Nat : d = D[i - 1][j - 1] /\ e = D[i][j]
    BY <1>1, <2>1
  <2>3. d <= Larger(i - 1, j - 1)
    BY <1>2, <1>5, <2>1, <2>2
  <2>4. e <= d + Cost(s, i, t, j)
    BY <1>1, <2>2 DEF IsCell
  <2>5. e <= d + 1
    BY <2>4 DEF Cost
  <2>6. e <= Larger(i, j)
    BY <2>1, <2>3, <2>5 DEF Larger
  <2> QED
    BY <1>2, <2>1, <2>2, <2>6
<1>6. \A i \in 0..m, j \in 0..n : <<i, j>> \in S
  BY <1>1, <1>3, <1>4, <1>5, FillTable
<1>7. m \in 0..m /\ n \in 0..n
  BY <1>1
<1>8. D[m][n] <= Larger(m, n)
  BY <1>2, <1>6, <1>7
<1> QED
  BY <1>8 DEF m, n


\* Each cell of the table counts the edits of a path between the prefixes it
\* stands for, and no sequence on the path is longer than the longer of them.
LEMMA TablePaths ==
    ASSUME NEW s \in Seq(Runes), NEW t \in Seq(Runes), NEW D, IsTable(D, s, t)
    PROVE  Path(s, t, D[Len(s)][Len(t)], Larger(Len(s), Len(t)))
<1> DEFINE m == Len(s)
           n == Len(t)
<1>1. /\ m \in Nat /\ n \in Nat
      /\ \A i \in 0..m, j \in 0..n : D[i][j] \in Nat
      /\ \A j \in 0..n : D[0][j] = j
      /\ \A i \in 0..m : D[i][0] = i
      /\ \A i \in 1..m, j \in 1..n : IsCell(D, s, i, t, j)
  BY CellFacts
<1>2. /\ Prefix(s, 0) = << >> /\ Prefix(s, m) = s
      /\ \A i \in 0..m : Prefix(s, i) \in Seq(Runes) /\ Len(Prefix(s, i)) = i
      /\ \A i \in 1..m : /\ s[i] \in Runes
                         /\ Prefix(s, i) = Append(Prefix(s, i - 1), s[i])
                         /\ Prefix(s, i - 1) \in Edits(Prefix(s, i))
  BY PrefixFacts
<1>3. /\ Prefix(t, 0) = << >> /\ Prefix(t, n) = t
      /\ \A j \in 0..n : Prefix(t, j) \in Seq(Runes) /\ Len(Prefix(t, j)) = j
      /\ \A j \in 1..n : /\ t[j] \in Runes
                         /\ Prefix(t, j) = Append(Prefix(t, j - 1), t[j])
                         /\ Prefix(t, j) \in Edits(Prefix(t, j - 1))
  BY PrefixFacts
<1> HIDE DEF m, n
<1> DEFINE Joined(i, j) == Path(Prefix(s, i), Prefix(t, j), D[i][j], Larger(i, j))
           S == {x \in (0..m) \X (0..n) : Joined(x[1], x[2])}
<1>4. \A i \in 0..m, j \in 0..n : <<i, j>> \in S <=> Joined(i, j)
  <2> HIDE DEF Joined
  <2> QED
    OBVIOUS
<1> HIDE DEF S
<1>5. \A i, j \in Nat : Larger(i, j) \in Nat /\ i <= Larger(i, j) /\ j <= Larger(i, j)
  BY DEF Larger
\* The first row: runes are appended.
<1>6. \A j \in 0..n : <<0, j>> \in S
  <2> DEFINE T == {j \in 0..n : <<0, j>> \in S}
  <2>1. 0 \in T
    <3>1. Path(<< >>, << >>, 0, 0)
      BY PathStays, EmptySeq
    <3>2. Larger(0, 0) = 0 /\ D[0][0] = 0
      BY <1>1 DEF Larger
    <3>3. Joined(0, 0)
      BY <1>2, <1>3, <3>1, <3>2
    <3> QED
      BY <1>1, <1>4, <3>3
  <2>2. ASSUME NEW j \in 1..n, j - 1 \in T
        PROVE  j \in T
    <3>1. j \in 0..n /\ j - 1 \in 0..n /\ 0 \in 0..m /\ (j - 1) + 1 = j
      BY <1>1
    <3>2. D[0][j - 1] = j - 1 /\ D[0][j] = j
      BY <1>1, <3>1
    <3>3. Larger(0, j - 1) = j - 1 /\ Larger(0, j) = j /\ j - 1 \in Nat /\ j \in Nat /\ j - 1 <= j
      BY <1>1 DEF Larger
    <3>4. Path(Prefix(s, 0), Prefix(t, j - 1), j - 1, j - 1)
      BY <1>4, <2>2, <3>1, <3>2, <3>3
    <3>5. Path(Prefix(s, 0), Prefix(t, j - 1), j - 1, j)
      BY <3>3, <3>4, PathWider
    <3>6. /\ Prefix(t, j) \in Seq(Runes) /\ Prefix(t, j) \in Edits(Prefix(t, j - 1))
          /\ Len(Prefix(t, j)) <= j
      BY <1>3, <3>1, <3>3
    <3>7. Path(Prefix(s, 0), Prefix(t, j), (j - 1) + 1, j)
      BY <3>3, <3>5, <3>6, PathThenEdit
    <3>8. Joined(0, j)
      BY <3>1, <3>2, <3>3, <3>7
    <3> QED
      BY <1>4, <3>1, <3>8
  <2> HIDE DEF T
  <2>3. \A j \in 0..n : j \in T
    BY <1>1, <2>1, <2>2, CountUp
  <2> QED
    BY <2>3 DEF T
\* The first column: runes are removed.
<1>7. \A i \in 0..m : <<i, 0>> \in S
  <2> DEFINE T == {i \in 0..m : <<i, 0>> \in S}
  <2>1. 0 \in T
    BY <1>1, <1>6
  <2>2. ASSUME NEW i \in 1..m, i - 1 \in T
        PROVE  i \in T
    <3>1. i \in 0..m /\ i - 1 \in 0..m /\ 0 \in 0..n /\ (i - 1) + 1 = i
      BY <1>1
    <3>2. D[i - 1][0] = i - 1 /\ D[i][0] = i
      BY <1>1, <3>1
    <3>3. Larger(i - 1, 0) = i - 1 /\ Larger(i, 0) = i /\ i - 1 \in Nat /\ i \in Nat /\ i - 1 <= i
      BY <1>1 DEF Larger
    <3>4. Path(Prefix(s, i - 1), Prefix(t, 0), i - 1, i - 1)
      BY <1>4, <2>2, <3>1, <3>2, <3>3
    <3>5. Path(Prefix(s, i - 1), Prefix(t, 0), i - 1, i)
      BY <3>3, <3>4, PathWider
    <3>6. /\ Prefix(s, i) \in Seq(Runes) /\ Prefix(s, i - 1) \in Edits(Prefix(s, i))
          /\ Len(Prefix(s, i - 1)) <= i
      BY <1>2, <3>1, <3>3
    <3>7. Path(Prefix(s, i), Prefix(t, 0), (i - 1) + 1, i)
      BY <3>3, <3>5, <3>6, EditThenPath
    <3>8. Joined(i, 0)
      BY <3>1, <3>2, <3>3, <3>7
    <3> QED
      BY <1>4, <3>1, <3>8
  <2> HIDE DEF T
  <2>3. \A i \in 0..m : i \in T
    BY <1>1, <2>1, <2>2, CountUp
  <2> QED
    BY <2>3 DEF T
<1>8. ASSUME NEW i \in 1..m, NEW j \in 1..n,
             <<i - 1, j - 1>> \in S, <<i - 1, j>> \in S, <<i, j - 1>> \in S
      PROVE  <<i, j>> \in S
  <2> DEFINE a == Prefix(s, i - 1)
             b == Prefix(s, i)
             c == Prefix(t, j - 1)
             d == Prefix(t, j)
             l == Larger(i, j)
  <2>1. i \in 0..m /\ i - 1 \in 0..m /\ j \in 0..n /\ j - 1 \in 0..n
    BY <1>1
  <2>2. Joined(i - 1, j - 1) /\ Joined(i - 1, j) /\ Joined(i, j - 1)
    <3> HIDE DEF Joined
    <3> QED
      BY <1>4, <1>8, <2>1
  <2>3. /\ a \in Seq(Runes) /\ Len(a) = i - 1 /\ b \in Seq(Runes) /\ a \in Edits(b)
        /\ s[i] \in Runes /\ b = Append(a, s[i])
    BY <1>2, <2>1
  <2>4. /\ c \in Seq(Runes) /\ Len(c) = j - 1 /\ d \in Seq(Runes) /\ d \in Edits(c) /\ Len(d) = j
        /\ t[j] \in Runes /\ d = Append(c, t[j])
    BY <1>3, <2>1
  <2>5. /\ i \in Nat /\ j \in Nat /\ i - 1 \in Nat /\ j - 1 \in Nat
        /\ l \in Nat /\ i <= l /\ j <= l /\ i - 1 <= l
    <3>1. i \in Nat /\ j \in Nat /\ i - 1 \in Nat /\ j - 1 \in Nat
      BY <1>1
    <3>2. l \in Nat /\ i <= l /\ j <= l
      BY <1>5, <3>1
    <3> HIDE DEF l
    <3> QED
      BY <3>1, <3>2
  <2>6. /\ Larger(i - 1, j - 1) \in Nat /\ Larger(i - 1, j - 1) + 1 = l
        /\ Larger(i - 1, j) \in Nat /\ Larger(i - 1, j) <= l
        /\ Larger(i, j - 1) \in Nat /\ Larger(i, j - 1) <= l
    BY <2>5 DEF Larger
  <2>7. PICK e00 \in Nat, e01 \in Nat, e10 \in Nat :
            e00 = D[i - 1][j - 1] /\ e01 = D[i - 1][j] /\ e10 = D[i][j - 1]
    BY <1>1, <2>1
  <2>8. /\ Path(a, c, e00, Larger(i - 1, j - 1))
        /\ Path(a, d, e01, Larger(i - 1, j))
        /\ Path(b, c, e10, Larger(i, j - 1))
    BY <2>2, <2>7
  <2> HIDE DEF a, b, c, d, l
  <2>9. Path(b, d, e10 + 1, l)
    <3>1. Path(b, c, e10, l)
      BY <2>5, <2>6, <2>7, <2>8, PathWider
    <3> QED
      BY <2>4, <2>5, <2>7, <3>1, PathThenEdit
  <2>10. Path(b, d, e01 + 1, l)
    <3>1. Path(a, d, e01, l)
      BY <2>5, <2>6, <2>7, <2>8, PathWider
    <3> QED
      BY <2>3, <2>5, <2>7, <3>1, EditThenPath
  <2>11. Path(b, d, e00 + Cost(s, i, t, j), l)
    <3>1. Path(Append(a, s[i]), Append(c, s[i]), e00, Larger(i - 1, j - 1) + 1)
      BY <2>3, <2>6, <2>7, <2>8, PathBeforeRune
    <3>2. Path(b, Append(c, s[i]), e00, l)
      BY <2>3, <2>6, <3>1
    <3>3. CASE s[i] = t[j]
      <4>1. e00 + Cost(s, i, t, j) = e00
        BY <2>7, <3>3 DEF Cost
      <4> QED
        BY <2>4, <3>2, <3>3, <4>1
    <3>4. CASE s[i] # t[j]
      <4>1. Cost(s, i, t, j) = 1
        BY <3>4 DEF Cost
      <4> DEFINE x == Append(c, s[i])
      <4>2. /\ x \in Seq(Runes) /\ Len(x) = Len(c) + 1
            /\ \A k \in 1..Len(c) : x[k] = c[k]
        BY <2>3, <2>4, AppendProperties
      <4>3. Len(d) = Len(c) + 1 /\ \A k \in 1..Len(c) : d[k] = c[k]
        BY <2>4, AppendProperties
      <4>4. Len(x) = j /\ \A k \in 1..j : k # j => k \in 1..Len(c)
        BY <2>4, <2>5, <4>2
      <4> HIDE DEF x
      <4>5. HasSubstituted(d, x, j)
        BY <2>4, <4>2, <4>3, <4>4 DEF HasSubstituted
      <4>6. j \in 1..Len(x)
        BY <1>1, <4>4
      <4>7. IsEdit(d, x)
        BY <4>5, <4>6 DEF IsEdit
      <4>8. d \in Edits(x)
        BY <2>4, <4>2, <4>7, EditsAre
      <4>9. Path(b, x, e00, l)
        BY <3>2 DEF x
      <4>10. Path(b, d, e00 + 1, l)
        BY <2>4, <2>5, <2>7, <4>8, <4>9, PathThenEdit
      <4> QED
        BY <4>1, <4>10
    <3> QED
      BY <3>3, <3>4
  <2>12. \/ D[i][j] = e10 + 1 \/ D[i][j] = e01 + 1
         \/ D[i][j] = e00 + Cost(s, i, t, j)
    BY <1>1, <2>7 DEF IsCell
  <2>13. Path(b, d, D[i][j], l)
    BY <2>9, <2>10, <2>11, <2>12
  <2>14. Joined(i, j)
    BY <2>13 DEF b, d, l
  <2> HIDE DEF Joined
  <2> QED
    BY <1>4, <2>1, <2>14
<1>9. \A i \in 0..m, j \in 0..n : <<i, j>> \in S
  <2>1. \A i \in 1..m : <<i, 0>> \in S
    <3>1. \A i \in 1..m : i \in 0..m
      BY <1>1
    <3> QED
      BY <1>7, <3>1
  <2> QED
    BY <1>1, <1>6, <1>8, <2>1, FillTable
<1>10. m \in 0..m /\ n \in 0..n
  BY <1>1
<1>11. Joined(m, n)
  <2> HIDE DEF Joined
  <2> QED
    BY <1>4, <1>9, <1>10
<1> QED
  BY <1>2, <1>3, <1>11 DEF m, n


-----------------------------------------------------------------------------
(* The checks                                                              *)

\* The texts stay texts of their alphabets, up to their lengths.
THEOREM TypeCorrect == Spec => []TypeOK
<1>1. Init => TypeOK
  BY TextAssumption DEF Init, TypeOK
<1>2. TypeOK /\ [Next]_vars => TypeOK'
  <2> SUFFICES ASSUME TypeOK, [Next]_vars
               PROVE  TypeOK'
    OBVIOUS
  <2>1. MaxLength \in Nat /\ MaxPayload \in Nat
    BY TextAssumption
  <2>2. ASSUME NEW r \in Runes, TypeLeft(r)
        PROVE  TypeOK'
    BY <2>1, <2>2 DEF TypeOK, TypeLeft
  <2>3. ASSUME NEW r \in Runes, TypeRight(r)
        PROVE  TypeOK'
    BY <2>1, <2>3 DEF TypeOK, TypeRight
  <2>4. ASSUME NEW b \in Payload, TypePayload(b)
        PROVE  TypeOK'
    BY <2>1, <2>4 DEF TypeOK, TypePayload
  <2>5. CASE UNCHANGED vars
    BY <2>5 DEF TypeOK, vars
  <2> QED
    BY <2>2, <2>3, <2>4, <2>5 DEF Next
<1> QED
  BY <1>1, <1>2, PTL DEF Spec

\* "levenshtein calculates edit distance": what the loops of levenshtein compute
\* is the least number of edits from one identifier to the other, for identifiers
\* of any length over one-byte runes.  The table never asks for more edits than
\* are enough, and each of its cells counts the edits of a path that exists.
THEOREM LevenshteinComputesEditDistance == Spec => []LevenshteinIsEditDistance
<1>1. TypeOK => LevenshteinIsEditDistance
  <2> SUFFICES ASSUME TypeOK
               PROVE  LevenshteinIsEditDistance
    OBVIOUS
  <2> DEFINE d == levenshtein(left, right)
             N == {n \in 0..MaxLength : right \in Within(left, n)}
  <2>1. /\ left \in Seq(Runes) /\ right \in Seq(Runes)
        /\ Len(left) <= MaxLength /\ Len(right) <= MaxLength /\ MaxLength \in Nat
    BY TextAssumption DEF TypeOK
  <2>2. PICK D : IsTable(D, left, right) /\ d = D[Len(left)][Len(right)]
    BY <2>1, TableSteps
  <2> HIDE DEF d
  <2>3. d \in Nat
    <3>1. Len(left) \in 0..Len(left) /\ Len(right) \in 0..Len(right)
      BY <2>1
    <3> QED
      BY <2>1, <2>2, <3>1, CellFacts
  <2>4. Larger(Len(left), Len(right)) \in Nat /\ Larger(Len(left), Len(right)) <= MaxLength
    BY <2>1 DEF Larger
  <2>5. d <= MaxLength
    <3>1. d <= Larger(Len(left), Len(right))
      BY <2>1, <2>2, TableBound
    <3> QED
      BY <2>1, <2>3, <2>4, <3>1
  <2>6. right \in Within(left, d)
    <3>1. Path(left, right, d, Larger(Len(left), Len(right)))
      BY <2>1, <2>2, TablePaths
    <3>2. Path(left, right, d, MaxLength)
      BY <2>1, <2>3, <2>4, <3>1, PathWider
    <3> QED
      BY <2>1, <2>3, <3>2, PathIsWithin
  <2>7. d \in N
    BY <2>1, <2>3, <2>5, <2>6
  <2>8. \A n \in N : d <= n
    BY <2>1, NeverMore DEF d
  <2>9. \A n \in N : n \in Nat
    BY <2>1
  <2>10. EditDistance(left, right) = Min(N)
    BY DEF EditDistance
  <2> HIDE DEF N
  <2>11. Min(N) = d
    <3>1. Min(N) \in N /\ \A n \in N : Min(N) <= n
      BY <2>7, <2>8 DEF Min
    <3>2. Min(N) <= d /\ d <= Min(N)
      BY <2>7, <2>8, <3>1
    <3> QED
      BY <2>3, <2>9, <3>1, <3>2
  <2> QED
    BY <2>10, <2>11 DEF LevenshteinIsEditDistance, d
<1> QED
  BY <1>1, TypeCorrect, PTL

\* Separators and letter case never make a difference to Tier 2, for identifiers
\* of any length: normalize takes them away before levenshtein compares.
THEOREM FormattingDoesNotMatter == Spec => []FormattingIsIgnored
<1>1. TypeOK => FormattingIsIgnored
  <2> SUFFICES ASSUME TypeOK
               PROVE  FormattingIsIgnored
    OBVIOUS
  <2>1. left \in Seq(Runes)
    BY DEF TypeOK
  <2>2. ASSUME NEW i \in 0..Len(left), NEW r \in Separators
        PROVE  BoundedID(Inserted(left, i, r), right) = BoundedID(left, right)
    BY <2>1, NormalizeInserted DEF BoundedID
  <2>3. ASSUME NEW i \in 1..Len(left), NEW r \in DOMAIN LowerCase, left[i] = LowerCase[r]
        PROVE  BoundedID([left EXCEPT ![i] = r], right) = BoundedID(left, right)
    BY <2>1, <2>3, NormalizeUpper DEF BoundedID
  <2> QED
    BY <2>2, <2>3 DEF FormattingIsIgnored
<1> QED
  BY <1>1, TypeCorrect, PTL

\* Digits are found whole when nothing but digits is there.
LEMMA WholeNumber ==
    ASSUME NEW s \in Seq(Digit), Len(s) <= MaxRun
    PROVE  RejectPossiblePAN(s) <=> Len(s) >= MinRun /\ luhnValid(s)
<1>1. \A i \in 1..Len(s) : s[i] \notin Spaces
  BY CardAssumption
<1>2. stripSeparators(s) = s
  BY <1>1, StripNothing DEF stripSeparators
<1>3. Len(s) \in Nat /\ MinRun \in Nat
  BY CardAssumption
<1>4. CASE Len(s) < MinRun
  <2>1. DigitRuns(s) = {}
    BY <1>4, DigitsOnly
  <2> QED
    BY <1>2, <1>3, <1>4, <2>1 DEF RejectPossiblePAN
<1>5. CASE ~(Len(s) < MinRun)
  <2>1. DigitRuns(s) = {s}
    BY <1>5, DigitsOnly
  <2> QED
    BY <1>2, <1>3, <1>5, <2>1 DEF RejectPossiblePAN
<1> QED
  BY <1>4, <1>5

\* RejectPossiblePAN finds a card number however it is grouped and wherever it
\* stands, unless other digits touch it, and takes no number with one wrong digit
\* for one, for payloads and card numbers of any length.
THEOREM CardNumbersAreFound == Spec => []CardNumberIsFound
<1>1. TypeOK => CardNumberIsFound
  <2> SUFFICES ASSUME TypeOK
               PROVE  CardNumberIsFound
    OBVIOUS
  <2>1. payload \in Seq(Payload)
    BY DEF TypeOK
  <2>2. ASSUME NEW i \in 0..Len(payload), NEW b \in Spaces
        PROVE  RejectPossiblePAN(Inserted(payload, i, b)) = RejectPossiblePAN(payload)
    <3>1. payload \in Seq(Payload \cup Spaces)
      BY <2>1, SeqMonotonic
    <3>2. Strip(Inserted(payload, i, b), Spaces) = Strip(payload, Spaces)
      BY <3>1, StripInserted
    <3> QED
      BY <3>2 DEF RejectPossiblePAN, stripSeparators
  <2> DEFINE s == stripSeparators(payload)
  <2>3. ASSUME NEW i \in 1..Len(s), NEW j \in i..Len(s), RunAt(s, i, j),
               luhnValid(SubSeq(s, i, j))
        PROVE  RejectPossiblePAN(payload)
    <3>1. payload \in Seq(Int)
      <4>1. Payload \subseteq Int
        BY TextAssumption
      <4> QED
        BY <2>1, <4>1, SeqMonotonic
    <3>2. s \in Seq(Int)
      <4>1. PICK kept \in [0..Len(payload) -> Seq(Int)] : Strip(payload, Spaces) = kept[Len(payload)]
        BY <3>1, StripSteps
      <4>2. Len(payload) \in 0..Len(payload)
        BY <3>1
      <4> QED
        BY <4>1, <4>2 DEF stripSeparators
    <3> HIDE DEF s
    <3>3. SubSeq(s, i, j) \in DigitRuns(s)
      BY <2>3, <3>2, RunIsFound
    <3> QED
      BY <2>3, <3>3 DEF RejectPossiblePAN, s
  <2>4. ASSUME RejectPossiblePAN(payload), payload \in Seq(Digit), Len(payload) <= MaxRun,
               NEW i \in DOMAIN payload, NEW d \in Digit \ {payload[i]}
        PROVE  ~RejectPossiblePAN([payload EXCEPT ![i] = d])
    <3> DEFINE n == Len(payload)
               t == [payload EXCEPT ![i] = d]
    <3>1. n \in Nat /\ MinRun \in Nat \ {0} /\ DOMAIN payload = 1..n
      BY <2>4, CardAssumption
    <3>2. MinRun <= n /\ luhnValid(payload)
      BY <2>4, <3>1, WholeNumber
    <3>3. t \in Seq(Digit) /\ Len(t) = n
      BY <2>4, <3>1
    <3>4. ~luhnValid(t)
      BY <2>4, <3>1, <3>2, LuhnDetects
    <3> HIDE DEF t
    <3>5. ~RejectPossiblePAN(t)
      BY <2>4, <3>3, <3>4, WholeNumber
    <3> QED
      BY <3>5 DEF t
  <2> QED
    BY <2>2, <2>3, <2>4 DEF CardNumberIsFound
<1> QED
  BY <1>1, TypeCorrect, PTL
=============================================================================
