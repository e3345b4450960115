-------------------------- MODULE MigrationProofs --------------------------
(***************************************************************************)
(* ApplyMigrations leaves the tracker true for every number of programs    *)
(* and every set of files that keeps to FilesAssumption.                   *)
(*                                                                         *)
(* The argument: once a statement is Done it stays so, whoever executes    *)
(* what afterwards, and a statement that ApplyMigrations skips is Done.    *)
(***************************************************************************)
EXTENDS Migrations, SequenceTheorems, WellFoundedInduction, TLAPS

\* Most leaves are first-order: Zenon is asked before the SMT solver.
USE ZenonT(5), SMTT(10)

-----------------------------------------------------------------------------
(* One statement                                                           *)

\* A file's statements are places, and places are positions in files.
LEMMA PlaceFacts ==
    /\ \A a \in Places : a = <<a[1], a[2]>> /\ a[1] \in 1..Len(Files) /\ a[2] \in 1..Len(Files[a[1]])
    /\ \A i \in 1..Len(Files) : \A j \in 1..Len(Files[i]) : <<i, j>> \in Places
BY DEF Places

\* What a statement needs or creates for good is never dropped.
LEMMA NeededStays ==
    ASSUME NEW a \in Places
    PROVE  Needs(a) \cap EverDropped = {}
BY FilesAssumption DEF EverDropped

\* The effect of a statement that MySQL executes: nothing that was done is
\* undone, the statement is done, and no statement is left half visible.
LEMMA ExecutedIsDone ==
    ASSUME NEW b \in Places, NEW objects, WholeStatements(objects),
           Needs(b) \subseteq objects, Drops(b) \subseteq objects, Adds(b) \cap objects = {},
           NEW new, new = (objects \ Drops(b)) \cup Adds(b)
    PROVE  /\ \A a \in Places : Done(objects, a) => Done(new, a)
           /\ Done(new, b)
           /\ WholeStatements(new)
<1>1. ASSUME NEW a \in Places, Done(objects, a)
      PROVE  Done(new, a)
  <2>1. Needs(a) \subseteq new
    BY <1>1, FilesAssumption DEF Done
  <2>2. Adds(a) \ EverDropped \subseteq new
    BY <1>1 DEF Done, EverDropped
  <2>3. Drops(a) \cap new = {}
    <3> SUFFICES ASSUME NEW n \in Drops(a), n \in Adds(b)
                 PROVE  FALSE
      BY <1>1 DEF Done
    <3>1. PICK t \in Needs(a) : CreatedTogether(n, t)
      BY FilesAssumption
    <3>2. t \in Adds(b)
      BY <3>1 DEF CreatedTogether
    <3> QED
      BY <1>1, <3>2 DEF Done
  <2> QED
    BY <2>1, <2>2, <2>3 DEF Done
<1>2. Done(new, b)
  <2>1. Adds(b) \cap Drops(b) = {}
    <3>1. b[1] \in Nat
      BY PlaceFacts, MigrationAssumption
    <3>2. Adds(b) \cap Drops(b) # {} => b[1] < b[1]
      BY FilesAssumption
    <3> QED
      BY <3>1, <3>2
  <2>2. Needs(b) \cap Drops(b) = {}
    BY FilesAssumption
  <2> QED
    BY <2>1, <2>2 DEF Done
<1>3. ASSUME NEW a \in Places, Touched(new, a)
      PROVE  Done(new, a)
  <2>1. CASE Adds(a) \cap Adds(b) # {}
    <3>1. CASE a = b
      BY <1>2, <3>1
    <3>2. CASE a # b
      <4>1. Adds(a) = Adds(b) /\ Needs(a) = Needs(b) /\ Drops(a) = {}
        BY <2>1, <3>2, FilesAssumption
      <4> QED
        BY <1>2, <4>1 DEF Done
    <3> QED
      BY <3>1, <3>2
  <2>2. CASE Adds(a) \cap objects # {}
    BY <1>1, <2>2 DEF WholeStatements, Touched
  <2>3. ASSUME NEW n \in Drops(a) \ new, NEW t \in Needs(a) \cap new, CreatedTogether(n, t)
        PROVE  Done(new, a)
    <3>1. t \in objects
      <4>1. t \notin Adds(b)
        BY <2>3 DEF CreatedTogether
      <4> QED
        BY <4>1
    <3>2. CASE n \in objects
      <4>1. n \in Drops(b)
        BY <3>2
      <4>2. a = b
        BY <4>1, FilesAssumption
      <4> QED
        BY <1>2, <4>2
    <3>3. CASE n \notin objects
      <4>1. Touched(objects, a)
        BY <2>3, <3>1, <3>3 DEF Touched
      <4> QED
        BY <1>1, <4>1 DEF WholeStatements
    <3> QED
      BY <3>2, <3>3
  <2> QED
    BY <1>3, <2>1, <2>2, <2>3 DEF Touched
<1> QED
  BY <1>1, <1>2, <1>3 DEF WholeStatements

\* A statement that ApplyMigrations skips because of isAlreadyAppliedError is
\* done: the comment's "recording the file as applied reflects reality".
LEMMA SkippedIsDone ==
    ASSUME NEW b \in Places, NEW objects, WholeStatements(objects), Needs(b) \subseteq objects,
           ~(Drops(b) \subseteq objects) \/ Adds(b) \cap objects # {}
    PROVE  Done(objects, b)
<1>1. CASE Adds(b) \cap objects # {}
  BY <1>1 DEF WholeStatements, Touched
<1>2. CASE ~(Drops(b) \subseteq objects)
  <2>1. PICK n \in Drops(b) \ objects : TRUE
    BY <1>2
  <2>2. PICK t \in Needs(b) : CreatedTogether(n, t)
    BY FilesAssumption
  <2>3. Touched(objects, b)
    BY <2>1, <2>2 DEF Touched
  <2> QED
    BY <2>3 DEF WholeStatements
<1> QED
  BY <1>1, <1>2

\* A statement that was tried, with whatever outcome.
LEMMA TriedStatement ==
    ASSUME NEW b \in Places, NEW s, WholeStatements(DOMAIN s)
    PROVE  /\ WholeStatements(DOMAIN After(s, At(b)))
           /\ \A a \in Places : Done(DOMAIN s, a) => Done(DOMAIN After(s, At(b)), a)
           /\ ~TableMissing(s, At(b)) => Done(DOMAIN After(s, At(b)), b)
<1>1. CASE TableMissing(s, At(b))
  BY <1>1 DEF After
<1>2. CASE ~TableMissing(s, At(b)) /\ AlreadyApplied(s, At(b))
  <2>1. Done(DOMAIN s, b)
    BY <1>2, SkippedIsDone DEF TableMissing, AlreadyApplied, Needs, Drops, Adds
  <2> QED
    BY <1>2, <2>1 DEF After
<1>3. CASE ~TableMissing(s, At(b)) /\ ~AlreadyApplied(s, At(b))
  <2>1. After(s, At(b)) = Applied(s, At(b))
    BY <1>3 DEF After
  <2>2. DOMAIN Applied(s, At(b)) = (DOMAIN s \ Drops(b)) \cup Adds(b)
    BY DEF Applied, Drops, Adds
  <2>3. Needs(b) \subseteq DOMAIN s /\ Drops(b) \subseteq DOMAIN s /\ Adds(b) \cap DOMAIN s = {}
    BY <1>3 DEF TableMissing, AlreadyApplied, Needs, Drops, Adds
  <2> QED
    BY <2>1, <2>2, <2>3, ExecutedIsDone
<1> QED
  BY <1>1, <1>2, <1>3

\* In an empty database no statement is half visible.
LEMMA EmptyIsWhole == WholeStatements({})
BY DEF WholeStatements, Touched

-----------------------------------------------------------------------------
(* The schema that the tracker finds                                       *)

\* A set that holds 0, and each number up to n if it holds the one before, holds
\* them all: what holds of an empty schema and survives each statement that
\* ApplyMigrations tries holds at the end.
LEMMA CountUp ==
    ASSUME NEW n \in Nat, NEW S, 0 \in S,
           \A m \in 1..n : m - 1 \in S => m \in S
    PROVE  \A m \in 0..n : m \in S
<1> DEFINE Missing == (0..n) \ S
<1> SUFFICES ASSUME Missing # {}
             PROVE  FALSE
  OBVIOUS
<1>1. Missing \subseteq Nat
  OBVIOUS
<1>2. PICK m \in Missing : \A k \in Missing : ~(<<k, m>> \in OpToRel(<, Nat))
  <2> HIDE DEF Missing
  <2> QED
    BY <1>1, NatLessThanWellFounded, WFMin
<1>3. \A k \in Missing : ~(k < m)
  <2> HIDE DEF Missing
  <2> QED
    BY <1>1, <1>2 DEF OpToRel
<1>4. m \in 1..n /\ m - 1 \in 0..n
  OBVIOUS
<1>5. m - 1 \in S
  BY <1>3, <1>4
<1> QED
  BY <1>4, <1>5

\* The list of all statements, in the order of the files, holds statements of
\* files and nothing else.
LEMMA AllStatementsType == AllStatements \in Seq(Statements)
<1> DEFINE N == Len(Files)
           Up(g, m) == [i \in 0..m |-> IF i = 0 THEN << >> ELSE g[i - 1] \o Files[i]]
           Exists(m) == \E g : g = Up(g, m)
           upTo == CHOOSE g : g = Up(g, N)
<1>1. N \in Nat /\ \A i \in 1..N : Files[i] \in Seq(Statements)
  BY FilesAssumption
<1>2. Exists(0)
  <2> DEFINE g == [i \in 0..0 |-> << >>]
  <2>1. g = Up(g, 0)
    OBVIOUS
  <2> QED
    BY <2>1
<1>3. ASSUME NEW m \in 1..N, Exists(m - 1)
      PROVE  Exists(m)
  <2>1. PICK g : g = Up(g, m - 1)
    BY <1>3
  <2> DEFINE h == [i \in 0..m |-> IF i = m THEN g[m - 1] \o Files[m] ELSE g[i]]
  <2>2. \A i \in 0..(m - 1) : g[i] = IF i = 0 THEN << >> ELSE g[i - 1] \o Files[i]
    BY <2>1
  <2>3. \A i \in 0..m : h[i] = IF i = 0 THEN << >> ELSE h[i - 1] \o Files[i]
    BY <1>1, <2>2
  <2>4. h = [i \in 0..m |-> h[i]]
    OBVIOUS
  <2> HIDE DEF h
  <2>5. h = Up(h, m)
    BY <2>3, <2>4
  <2> QED
    BY <2>5
<1>4. Exists(N)
  <2> HIDE DEF Exists, N
  <2> DEFINE S == {m \in 0..N : Exists(m)}
  <2>1. 0 \in S /\ \A m \in 1..N : m - 1 \in S => m \in S
    BY <1>1, <1>2, <1>3
  <2> HIDE DEF S
  <2>2. \A m \in 0..N : m \in S
    BY <1>1, <2>1, CountUp
  <2> QED
    BY <1>1, <2>2 DEF S
<1>5. upTo = Up(upTo, N)
  BY <1>4
<1>6. AllStatements = upTo[N]
  BY DEF AllStatements
<1> HIDE DEF upTo
<1>7. \A i \in 0..N : upTo[i] = IF i = 0 THEN << >> ELSE upTo[i - 1] \o Files[i]
  BY <1>5
<1>8. \A i \in 0..N : upTo[i] \in Seq(Statements)
  <2> HIDE DEF N
  <2> DEFINE S == {m \in 0..N : upTo[m] \in Seq(Statements)}
  <2>1. 0 \in S
    <3>1. 0 \in 0..N /\ upTo[0] = << >>
      BY <1>1, <1>7
    <3>2. << >> \in Seq(Statements)
      OBVIOUS
    <3> QED
      BY <3>1, <3>2
  <2>2. ASSUME NEW m \in 1..N, m - 1 \in S
        PROVE  m \in S
    <3>0. m \in 0..N /\ m # 0
      BY <1>1
    <3>1. upTo[m] = upTo[m - 1] \o Files[m]
      BY <1>7, <3>0
    <3>2. upTo[m - 1] \in Seq(Statements) /\ Files[m] \in Seq(Statements)
      BY <1>1, <2>2
    <3>3. upTo[m - 1] \o Files[m] \in Seq(Statements)
      BY <3>2, ConcatProperties
    <3> QED
      BY <3>0, <3>1, <3>3
  <2> HIDE DEF S
  <2>3. \A m \in 0..N : m \in S
    BY <1>1, <2>1, <2>2, CountUp
  <2> QED
    BY <2>3 DEF S
<1> QED
  BY <1>1, <1>6, <1>8

\* However many statements an earlier version of ApplyMigrations or an operator
\* has tried in order, no statement is half visible.
LEMMA BuiltIsWhole ==
    ASSUME NEW k \in 0..Len(AllStatements)
    PROVE  WholeStatements(DOMAIN BuiltSchema(k))
<1> DEFINE Up(g, m) == [i \in 0..m |-> IF i = 0 THEN << >> ELSE After(g[i - 1], AllStatements[i])]
           Exists(m) == \E g : g = Up(g, m)
           built == CHOOSE g : g = Up(g, k)
<1>1. /\ k \in Nat
      /\ \A i \in 1..k : \E a \in Places : AllStatements[i] = At(a)
  BY AllStatementsType DEF Statements
<1>2. Exists(0)
  <2> DEFINE g == [i \in 0..0 |-> << >>]
  <2>1. g = Up(g, 0)
    OBVIOUS
  <2> QED
    BY <2>1
<1>3. ASSUME NEW m \in 1..k, Exists(m - 1)
      PROVE  Exists(m)
  <2>1. PICK g : g = Up(g, m - 1)
    BY <1>3
  <2> DEFINE h == [i \in 0..m |-> IF i = m THEN After(g[m - 1], AllStatements[m]) ELSE g[i]]
  <2>2. \A i \in 0..(m - 1) : g[i] = IF i = 0 THEN << >> ELSE After(g[i - 1], AllStatements[i])
    BY <2>1
  <2>3. \A i \in 0..m : h[i] = IF i = 0 THEN << >> ELSE After(h[i - 1], AllStatements[i])
    BY <1>1, <2>2
  <2>4. h = [i \in 0..m |-> h[i]]
    OBVIOUS
  <2> HIDE DEF h
  <2>5. h = Up(h, m)
    BY <2>3, <2>4
  <2> QED
    BY <2>5
<1>4. Exists(k)
  <2> HIDE DEF Exists
  <2> DEFINE S == {m \in 0..k : Exists(m)}
  <2>1. 0 \in S /\ \A m \in 1..k : m - 1 \in S => m \in S
    BY <1>1, <1>2, <1>3
  <2> HIDE DEF S
  <2>2. \A m \in 0..k : m \in S
    BY <1>1, <2>1, CountUp
  <2> QED
    BY <1>1, <2>2 DEF S
<1>5. built = Up(built, k)
  BY <1>4
<1>6. BuiltSchema(k) = built[k]
  BY DEF BuiltSchema
<1> HIDE DEF built
<1>7. \A i \in 0..k : built[i] = IF i = 0 THEN << >> ELSE After(built[i - 1], AllStatements[i])
  BY <1>5
<1> DEFINE S == {m \in 0..k : WholeStatements(DOMAIN built[m])}
<1>8. 0 \in S
  <2>1. 0 \in 0..k /\ built[0] = << >>
    BY <1>1, <1>7
  <2>2. DOMAIN << >> = {}
    OBVIOUS
  <2>3. WholeStatements(DOMAIN built[0])
    BY <2>1, <2>2, EmptyIsWhole
  <2> QED
    BY <2>1, <2>3
<1>9. ASSUME NEW m \in 1..k, m - 1 \in S
      PROVE  m \in S
  <2>1. PICK a \in Places : AllStatements[m] = At(a)
    BY <1>1
  <2>2. built[m] = After(built[m - 1], At(a))
    BY <1>1, <1>7, <2>1
  <2>3. WholeStatements(DOMAIN built[m])
    BY <1>9, <2>2, TriedStatement
  <2> QED
    BY <2>3
<1>10. k \in S
  <2> HIDE DEF S
  <2>1. \A m \in 1..k : m - 1 \in S => m \in S
    BY <1>9
  <2>2. \A m \in 0..k : m \in S
    BY <1>1, <1>8, <2>1, CountUp
  <2> QED
    BY <1>1, <2>2
<1> QED
  BY <1>6, <1>10

-----------------------------------------------------------------------------
(* The steps of the programs                                               *)

\* The file a busy program is at exists, and so does the statement.
LEMMA Position ==
    ASSUME IInv, NEW p \in Programs, Busy(p)
    PROVE  /\ file[p] \in 1..Len(Files) /\ file[p] \in 1..Shipped[p]
           /\ Len(Files) \in Nat /\ Len(Files[file[p]]) \in Nat \ {0} /\ Shipped[p] \in Nat
           /\ pc[p] = "execute" => /\ stmt[p] \in 1..Len(Files[file[p]])
                                   /\ <<file[p], stmt[p]>> \in Places
                                   /\ Statement(p) = At(<<file[p], stmt[p]>>)
<1>1. Len(Files) \in Nat /\ Shipped[p] \in 0..Len(Files)
  BY FilesAssumption, MigrationAssumption
<1>2. file[p] \in Nat \ {0} /\ stmt[p] \in Nat \ {0} /\ file[p] <= Shipped[p]
  BY DEF IInv, TypeOK, BehindIsDone
<1>3. file[p] \in 1..Len(Files) /\ file[p] \in 1..Shipped[p] /\ Shipped[p] \in Nat
  BY <1>1, <1>2
<1>4. Files[file[p]] \in Seq(Statements) \ {<< >>}
  BY <1>3, FilesAssumption
<1>5. Len(Files[file[p]]) \in Nat \ {0}
  BY <1>4
<1>6. ASSUME pc[p] = "execute"
      PROVE  /\ stmt[p] \in 1..Len(Files[file[p]])
             /\ <<file[p], stmt[p]>> \in Places
             /\ Statement(p) = At(<<file[p], stmt[p]>>)
  <2>1. stmt[p] \in 1..Len(Files[file[p]])
    BY <1>2, <1>5, <1>6 DEF IInv, BehindIsDone
  <2> QED
    BY <1>3, <2>1, PlaceFacts DEF Statement, At
<1> QED
  BY <1>1, <1>3, <1>5, <1>6

\* When a program comes to a statement, the tables it names are there: MySQL
\* never answers ApplyMigrations with error 1146.
LEMMA TableIsThere ==
    ASSUME IInv, NEW p \in Programs, pc[p] = "execute"
    PROVE  ~TableMissing(schema, Statement(p))
<1> DEFINE a == <<file[p], stmt[p]>>
<1>1. /\ a \in Places /\ Statement(p) = At(a) /\ a[1] = file[p] /\ a[2] = stmt[p]
      /\ file[p] \in 1..Len(Files) /\ stmt[p] \in Nat \ {0} /\ file[p] \in Nat
  BY Position DEF Busy, IInv, TypeOK
<1> HIDE DEF a
<1> SUFFICES ASSUME NEW n \in Needs(a)
             PROVE  n \in Objects
  BY <1>1 DEF TableMissing, Needs, Objects
<1>2. PICK b \in Places : Before(b, a) /\ n \in Adds(b)
  BY <1>1, FilesAssumption
<1>3. n \notin EverDropped
  BY <1>1, FilesAssumption DEF EverDropped
<1>4. /\ b = <<b[1], b[2]>> /\ b[1] \in 1..Len(Files) /\ b[2] \in 1..Len(Files[b[1]])
      /\ b[1] \in Nat /\ b[2] \in Nat
  BY PlaceFacts
<1>5. Done(Objects, b)
  <2>1. CASE b[1] < file[p]
    <3>1. b[1] \in recorded
      BY <1>1, <1>4, <2>1 DEF IInv, BehindIsDone, Busy
    <3>2. FileDone(b[1])
      BY <3>1 DEF IInv
    <3> QED
      BY <1>4, <3>2 DEF FileDone
  <2>2. CASE b[1] = file[p] /\ b[2] < stmt[p]
    <3>1. b[2] \in 1..(stmt[p] - 1)
      BY <1>1, <1>4, <2>2
    <3>2. Done(Objects, <<file[p], b[2]>>)
      BY <3>1 DEF IInv, BehindIsDone
    <3> QED
      BY <1>4, <2>2, <3>2
  <2> QED
    BY <1>1, <1>2, <2>1, <2>2 DEF Before
<1> QED
  BY <1>2, <1>3, <1>5 DEF Done

\* No step of any program undoes a statement, and no row of the tracker is lost.
LEMMA DoneStays ==
    ASSUME IInv, [Next]_vars
    PROVE  /\ WholeStatements(Objects')
           /\ \A a \in Places : Done(Objects, a) => Done(Objects', a)
           /\ recorded \subseteq recorded'
<1>1. ASSUME schema' = schema
      PROVE  /\ WholeStatements(Objects')
             /\ \A a \in Places : Done(Objects, a) => Done(Objects', a)
  BY <1>1 DEF Objects, IInv
<1>2. ASSUME NEW p \in Programs, pc[p] = "execute", schema' = After(schema, Statement(p))
      PROVE  /\ WholeStatements(Objects')
             /\ \A a \in Places : Done(Objects, a) => Done(Objects', a)
  <2>1. /\ <<file[p], stmt[p]>> \in Places
        /\ schema' = After(schema, At(<<file[p], stmt[p]>>))
    BY <1>2, Position DEF Busy
  <2>2. WholeStatements(DOMAIN schema)
    BY DEF IInv, Objects
  <2> QED
    BY <2>1, <2>2, TriedStatement DEF Objects
<1>3. schema' = schema \/ \E p \in Programs : pc[p] = "execute" /\ schema' = After(schema, Statement(p))
  <2>1. ASSUME NEW p \in Programs, Execute(p)
        PROVE  schema' = schema \/ (pc[p] = "execute" /\ schema' = After(schema, Statement(p)))
    BY <2>1 DEF Execute
  <2>2. ASSUME NEW p \in Programs, Fault(p)
        PROVE  schema' = schema \/ (pc[p] = "execute" /\ schema' = After(schema, Statement(p)))
    BY <2>2 DEF Fault
  <2>3. ASSUME NEW p \in Programs, Start(p) \/ Check(p) \/ Record(p)
        PROVE  schema' = schema
    BY <2>3 DEF Start, Check, Record
  <2>4. CASE UNCHANGED vars
    BY <2>4 DEF vars
  <2> QED
    BY <2>1, <2>2, <2>3, <2>4 DEF Next, Step
<1>4. recorded \subseteq recorded'
  <2>1. ASSUME NEW p \in Programs, Start(p) \/ Check(p) \/ Execute(p)
        PROVE  recorded' = recorded
    BY <2>1 DEF Start, Check, Execute
  <2>2. ASSUME NEW p \in Programs, Record(p) \/ Fault(p)
        PROVE  recorded \subseteq recorded'
    BY <2>2 DEF Record, Fault
  <2>3. CASE UNCHANGED vars
    BY <2>3 DEF vars
  <2> QED
    BY <2>1, <2>2, <2>3 DEF Next, Step
<1> QED
  BY <1>1, <1>2, <1>3, <1>4

\* Only its own steps move a program.
LEMMA OwnSteps ==
    ASSUME TypeOK, [Next]_vars, NEW p \in Programs
    PROVE  \/ Start(p) \/ Check(p) \/ Execute(p) \/ Record(p) \/ Fault(p)
           \/ /\ pc'[p] = pc[p] /\ file'[p] = file[p]
              /\ stmt'[p] = stmt[p] /\ starts'[p] = starts[p]
<1>1. CASE UNCHANGED vars
  BY <1>1 DEF vars
<1>2. ASSUME NEW q \in Programs, q # p, Start(q) \/ Check(q) \/ Record(q)
      PROVE  /\ pc'[p] = pc[p] /\ file'[p] = file[p]
             /\ stmt'[p] = stmt[p] /\ starts'[p] = starts[p]
  BY <1>2 DEF Start, Check, Record, NextFile, Goto, TypeOK
<1>3. ASSUME NEW q \in Programs, q # p, Execute(q) \/ Fault(q)
      PROVE  /\ pc'[p] = pc[p] /\ file'[p] = file[p]
             /\ stmt'[p] = stmt[p] /\ starts'[p] = starts[p]
  BY <1>3 DEF Execute, Fault, Goto, TypeOK
<1> QED
  BY <1>1, <1>2, <1>3 DEF Next, Step

\* The end of the loop's body keeps the types of what it moves.
LEMMA NextFileType ==
    ASSUME TypeOK, NEW p \in Programs, NextFile(p)
    PROVE  /\ pc' \in [Programs -> {"stopped", "check", "execute", "record", "ready", "failed"}]
           /\ file' \in [Programs -> Nat \ {0}]
<1>1. CASE Goto(p, "check") /\ file' = [file EXCEPT ![p] = @ + 1]
  BY <1>1 DEF Goto, TypeOK
<1>2. CASE Goto(p, "ready") /\ UNCHANGED file
  BY <1>2 DEF Goto, TypeOK
<1> QED
  BY <1>1, <1>2 DEF NextFile

\* Every step keeps the types.
LEMMA NextKeepsType ==
    ASSUME IInv, [Next]_vars
    PROVE  TypeOK'
<1>1. CASE UNCHANGED vars
  BY <1>1 DEF vars, IInv, TypeOK
<1>2. ASSUME NEW p \in Programs, Start(p)
      PROVE  TypeOK'
  BY <1>2 DEF Start, Goto, IInv, TypeOK
<1>3. ASSUME NEW p \in Programs, Check(p)
      PROVE  TypeOK'
  <2>1. UNCHANGED <<recorded, starts, faults>>
    BY <1>3 DEF Check
  <2>2. CASE NextFile(p) /\ UNCHANGED stmt
    BY <2>1, <2>2, NextFileType DEF IInv, TypeOK
  <2>3. CASE Goto(p, "execute") /\ stmt' = [stmt EXCEPT ![p] = 1] /\ UNCHANGED file
    BY <2>1, <2>3 DEF Goto, IInv, TypeOK
  <2> QED
    BY <1>3, <2>2, <2>3 DEF Check
<1>4. ASSUME NEW p \in Programs, Execute(p)
      PROVE  TypeOK'
  <2>1. UNCHANGED <<recorded, file, starts, faults>>
    BY <1>4 DEF Execute
  <2>2. stmt' \in [Programs -> Nat \ {0}]
    <3>1. UNCHANGED stmt \/ stmt' = [stmt EXCEPT ![p] = @ + 1]
      BY <1>4 DEF Execute
    <3> QED
      BY <3>1 DEF IInv, TypeOK
  <2>3. UNCHANGED pc \/ Goto(p, "failed") \/ Goto(p, "record")
    BY <1>4 DEF Execute
  <2> QED
    BY <2>1, <2>2, <2>3 DEF Goto, IInv, TypeOK
<1>5. ASSUME NEW p \in Programs, Record(p)
      PROVE  TypeOK'
  <2>1. file[p] \in 1..Len(Files)
    BY <1>5, Position DEF Record, Busy
  <2>2. UNCHANGED <<stmt, starts, faults>>
    BY <1>5 DEF Record
  <2>3. CASE Goto(p, "failed") /\ UNCHANGED <<recorded, file>>
    BY <2>2, <2>3 DEF Goto, IInv, TypeOK
  <2>4. CASE recorded' = recorded \cup {file[p]} /\ NextFile(p)
    BY <2>1, <2>2, <2>4, NextFileType DEF IInv, TypeOK
  <2> QED
    BY <1>5, <2>3, <2>4 DEF Record
<1>6. ASSUME NEW p \in Programs, Fault(p)
      PROVE  TypeOK'
  <2>1. file[p] \in 1..Len(Files)
    BY <1>6, Position DEF Fault
  <2>2. recorded' \subseteq 1..Len(Files)
    BY <1>6, <2>1 DEF Fault, IInv, TypeOK
  <2>3. UNCHANGED <<file, stmt, starts>> /\ Goto(p, "failed") /\ faults' \in Nat
    BY <1>6 DEF Fault, IInv, TypeOK
  <2> QED
    BY <2>2, <2>3 DEF Goto, IInv, TypeOK
<1> QED
  BY <1>1, <1>2, <1>3, <1>4, <1>5, <1>6 DEF Next, Step

\* What was done before a step is done after it, file by file.
LEMMA FilesStayDone ==
    ASSUME IInv, [Next]_vars, NEW i \in 1..Len(Files), FileDone(i)
    PROVE  FileDone(i)'
<1> SUFFICES ASSUME NEW j \in 1..Len(Files[i])
             PROVE  Done(Objects', <<i, j>>)
  BY DEF FileDone
<1>1. <<i, j>> \in Places
  BY PlaceFacts
<1> QED
  BY <1>1, DoneStays DEF FileDone

\* Whoever writes the row of a file has just executed all of it.
LEMMA RecordedStaysDone ==
    ASSUME IInv, [Next]_vars, NEW i \in recorded'
    PROVE  FileDone(i)'
<1>1. CASE i \in recorded
  BY <1>1, FilesStayDone DEF IInv, TypeOK
<1>2. ASSUME NEW p \in Programs, pc[p] = "record", i = file[p]
      PROVE  FileDone(i)'
  BY <1>2, Position, FilesStayDone DEF IInv, BehindIsDone, Busy
<1>3. i \in recorded \/ \E p \in Programs : pc[p] = "record" /\ i = file[p]
  <2>1. ASSUME NEW p \in Programs, Start(p) \/ Check(p) \/ Execute(p)
        PROVE  recorded' = recorded
    BY <2>1 DEF Start, Check, Execute
  <2>2. ASSUME NEW p \in Programs, Record(p) \/ Fault(p)
        PROVE  recorded' = recorded \/ (pc[p] = "record" /\ recorded' = recorded \cup {file[p]})
    BY <2>2 DEF Record, Fault
  <2>3. CASE UNCHANGED vars
    BY <2>3 DEF vars
  <2> QED
    BY <2>1, <2>2, <2>3 DEF Next, Step
<1> QED
  BY <1>1, <1>2, <1>3

\* What the invariant says of one program.
Behind(p) ==
    /\ Busy(p) => file[p] <= Shipped[p] /\ 1..(file[p] - 1) \subseteq recorded
    /\ pc[p] = "execute" => /\ stmt[p] <= Len(Files[file[p]])
                            /\ \A j \in 1..(stmt[p] - 1) : Done(Objects, <<file[p], j>>)
    /\ pc[p] = "record" => FileDone(file[p])
    /\ pc[p] = "ready" => 1..Shipped[p] \subseteq recorded

\* The step to the next file, or the return of nil, when the file a program
\* was at has its row.
LEMMA NextFileBehind ==
    ASSUME IInv, NEW p \in Programs, Busy(p), NextFile(p), recorded \subseteq recorded',
           file[p] \in recorded'
    PROVE  Behind(p)'
<1>1. /\ file[p] \in 1..Shipped[p] /\ Shipped[p] \in Nat
      /\ 1..(file[p] - 1) \subseteq recorded
  BY Position DEF IInv, BehindIsDone
<1>2. 1..file[p] \subseteq recorded'
  BY <1>1
<1>3. CASE file[p] < Shipped[p]
  <2>1. pc'[p] = "check" /\ file'[p] = file[p] + 1
    BY <1>3 DEF NextFile, Goto, IInv, TypeOK
  <2> QED
    BY <1>1, <1>2, <1>3, <2>1 DEF Behind, Busy
<1>4. CASE ~(file[p] < Shipped[p])
  <2>1. pc'[p] = "ready" /\ file[p] = Shipped[p]
    BY <1>1, <1>4 DEF NextFile, Goto, IInv, TypeOK
  <2> QED
    BY <1>2, <2>1 DEF Behind, Busy
<1> QED
  BY <1>3, <1>4

\* All before the place where a program is stays reached.
LEMMA BehindStays ==
    ASSUME IInv, [Next]_vars, NEW p \in Programs
    PROVE  Behind(p)'
<1>1. recorded \subseteq recorded'
  BY DoneStays
<1>2. Behind(p)
  BY DEF IInv, BehindIsDone, Behind
<1>3. CASE Start(p)
  <2>0. Shipped[p] \in Nat
    BY MigrationAssumption, FilesAssumption
  <2>1. pc'[p] = (IF Shipped[p] = 0 THEN "ready" ELSE "check") /\ file'[p] = 1
    BY <1>3 DEF Start, Goto, IInv, TypeOK
  <2> QED
    BY <2>0, <2>1 DEF Behind, Busy
<1>4. CASE Check(p)
  <2>1. CASE file[p] \in recorded /\ NextFile(p)
    BY <1>1, <1>4, <2>1, NextFileBehind DEF Check, Busy
  <2>2. CASE Goto(p, "execute") /\ stmt' = [stmt EXCEPT ![p] = 1] /\ UNCHANGED file
    <3>1. pc'[p] = "execute" /\ stmt'[p] = 1 /\ file'[p] = file[p]
      BY <2>2 DEF Goto, IInv, TypeOK
    <3>2. Len(Files[file[p]]) \in Nat \ {0}
      BY <1>4, Position DEF Check, Busy
    <3> QED
      BY <1>1, <1>2, <1>4, <3>1, <3>2 DEF Behind, Check, Busy
  <2> QED
    BY <1>4, <2>1, <2>2 DEF Check
<1>5. CASE Execute(p)
  <2> DEFINE i == file[p]
             j == stmt[p]
  <2>1. /\ pc[p] = "execute" /\ i \in 1..Len(Files) /\ j \in 1..Len(Files[i])
        /\ Len(Files[i]) \in Nat /\ <<i, j>> \in Places /\ Statement(p) = At(<<i, j>>)
    BY <1>5, Position DEF Execute, Busy
  <2>0. CASE Refused(schema, Statement(p))
    <3>1. pc'[p] = "failed"
      BY <1>5, <2>0 DEF Execute, Goto, IInv, TypeOK
    <3> QED
      BY <3>1 DEF Behind, Busy
  <2> SUFFICES ASSUME ~Refused(schema, Statement(p))
               PROVE  Behind(p)'
    BY <2>0
  <2>2. schema' = After(schema, At(<<i, j>>)) /\ ~TableMissing(schema, At(<<i, j>>))
    BY <1>5, <2>1 DEF Execute, Refused
  <2>3. \A k \in 1..j : Done(Objects', <<i, k>>)
    <3>1. Done(Objects', <<i, j>>)
      BY <2>1, <2>2, TriedStatement DEF Objects, IInv
    <3>2. ASSUME NEW k \in 1..(j - 1)
          PROVE  Done(Objects', <<i, k>>)
      <4>1. <<i, k>> \in Places
        BY <2>1, PlaceFacts
      <4>2. Done(Objects, <<i, k>>)
        BY <1>2, <2>1 DEF Behind
      <4> QED
        BY <4>1, <4>2, DoneStays
    <3> QED
      BY <2>1, <3>1, <3>2
  <2>4. file' = file
    BY <1>5 DEF Execute
  <2>5. CASE j < Len(Files[i])
    <3>1. pc'[p] = "execute" /\ stmt'[p] = j + 1
      BY <1>5, <2>1, <2>2, <2>5 DEF Execute, IInv, TypeOK
    <3> QED
      BY <1>1, <1>2, <2>1, <2>3, <2>4, <2>5, <3>1 DEF Behind, Busy
  <2>6. CASE ~(j < Len(Files[i]))
    <3>1. pc'[p] = "record" /\ j = Len(Files[i])
      BY <1>5, <2>1, <2>2, <2>6 DEF Execute, Goto, IInv, TypeOK
    <3>2. FileDone(file[p])'
      BY <2>3, <2>4, <3>1 DEF FileDone
    <3> QED
      BY <1>1, <1>2, <2>1, <2>4, <3>1, <3>2 DEF Behind, Busy
  <2> QED
    BY <2>5, <2>6
<1>6. CASE Record(p)
  <2>1. CASE recorded' = recorded \cup {file[p]} /\ NextFile(p)
    BY <1>1, <1>6, <2>1, NextFileBehind DEF Record, Busy
  <2>2. CASE Goto(p, "failed")
    BY <2>2 DEF Goto, Behind, Busy, IInv, TypeOK
  <2> QED
    BY <1>6, <2>1, <2>2 DEF Record
<1>7. CASE Fault(p)
  <2>1. pc'[p] = "failed"
    BY <1>7 DEF Fault, Goto, IInv, TypeOK
  <2> QED
    BY <2>1 DEF Behind, Busy
<1>8. CASE pc'[p] = pc[p] /\ file'[p] = file[p] /\ stmt'[p] = stmt[p]
  <2>1. Busy(p)' => file'[p] <= Shipped[p] /\ 1..(file'[p] - 1) \subseteq recorded'
    BY <1>1, <1>2, <1>8 DEF Behind, Busy
  <2>2. ASSUME pc[p] = "execute"
        PROVE  /\ stmt[p] <= Len(Files[file[p]])
               /\ \A k \in 1..(stmt[p] - 1) : Done(Objects', <<file[p], k>>)
    <3>1. /\ file[p] \in 1..Len(Files) /\ stmt[p] \in 1..Len(Files[file[p]])
          /\ Len(Files[file[p]]) \in Nat
      BY <2>2, Position DEF Busy
    <3>2. \A k \in 1..(stmt[p] - 1) : <<file[p], k>> \in Places
      BY <3>1, PlaceFacts
    <3> QED
      BY <1>2, <2>2, <3>1, <3>2, DoneStays DEF Behind
  <2>3. ASSUME pc[p] = "record"
        PROVE  FileDone(file[p])'
    <3>1. file[p] \in 1..Len(Files) /\ FileDone(file[p])
      BY <1>2, <2>3, Position DEF Behind, Busy
    <3> DEFINE i == file[p]
    <3>2. \A k \in 1..Len(Files[i]) : Done(Objects', <<i, k>>)
      BY <3>1, PlaceFacts, DoneStays DEF FileDone
    <3> QED
      BY <1>8, <3>2 DEF FileDone
  <2>4. pc'[p] = "ready" => 1..Shipped[p] \subseteq recorded'
    BY <1>1, <1>2, <1>8 DEF Behind
  <2> QED
    BY <1>8, <2>1, <2>2, <2>3, <2>4 DEF Behind
<1> QED
  BY <1>3, <1>4, <1>5, <1>6, <1>7, <1>8, OwnSteps DEF IInv

\* A program that was not started does nothing, whatever the others do.
LEMMA StartedOnlyStays ==
    ASSUME IInv, [Next]_vars
    PROVE  StartedOnly'
<1> SUFFICES ASSUME NEW p \in Programs, starts'[p] = 0
             PROVE  pc'[p] = "stopped"
  BY DEF StartedOnly
<1>1. starts[p] \in Nat
  BY DEF IInv, TypeOK
<1>2. ~Start(p)
  BY <1>1 DEF Start, IInv, TypeOK
<1>3. CASE Check(p) \/ Execute(p) \/ Record(p) \/ Fault(p)
  <2>1. starts[p] = 0 /\ Busy(p)
    BY <1>3 DEF Check, Execute, Record, Fault, Busy
  <2> QED
    BY <2>1 DEF IInv, StartedOnly, Busy
<1>4. CASE pc'[p] = pc[p] /\ starts'[p] = starts[p]
  BY <1>4 DEF IInv, StartedOnly
<1> QED
  BY <1>2, <1>3, <1>4, OwnSteps DEF IInv

\* Nobody else writes the row of the file that a program is at, when nobody
\* else was started.
LEMMA AloneRecordsStays ==
    ASSUME IInv, [Next]_vars
    PROVE  AloneRecords'
<1> SUFFICES ASSUME NEW p \in Programs, \A q \in Programs \ {p} : starts'[q] = 0,
                    pc'[p] \in {"execute", "record"}
             PROVE  file'[p] \notin recorded'
  BY DEF AloneRecords
<1>1. ASSUME NEW q \in Programs, q # p
      PROVE  starts[q] = 0 /\ pc[q] = "stopped" /\ pc'[q] = "stopped"
  <2>1. pc'[q] = "stopped"
    BY <1>1, StartedOnlyStays DEF StartedOnly
  <2>2. starts[q] \in Nat
    BY DEF IInv, TypeOK
  <2>3. ~Start(q)
    BY <1>1, <2>2 DEF Start, IInv, TypeOK
  <2>4. starts[q] = 0
    BY <1>1, <2>3, OwnSteps DEF IInv, Check, Execute, Record, Fault
  <2> QED
    BY <2>1, <2>4 DEF IInv, StartedOnly
<1>2. pc[p] \in {"execute", "record"} => file[p] \notin recorded
  BY <1>1 DEF IInv, AloneRecords
<1>3. \A q \in Programs : q # p => ~Start(q) /\ ~Check(q) /\ ~Execute(q) /\ ~Record(q) /\ ~Fault(q)
  <2> SUFFICES ASSUME NEW q \in Programs, q # p
               PROVE  ~Start(q) /\ ~Check(q) /\ ~Execute(q) /\ ~Record(q) /\ ~Fault(q)
    OBVIOUS
  <2>1. starts[q] = 0 /\ starts'[q] = 0 /\ ~Busy(q)
    BY <1>1 DEF Busy
  <2>2. ~Start(q)
    BY <2>1 DEF Start, IInv, TypeOK
  <2> QED
    BY <2>1, <2>2 DEF Check, Execute, Record, Fault, Busy
<1>4. ~Start(p) /\ ~Record(p) /\ ~Fault(p)
  <2>1. ~Start(p)
    BY DEF Start, Goto, IInv, TypeOK
  <2>2. ~Fault(p)
    BY DEF Fault, Goto, IInv, TypeOK
  <2>3. ~Record(p)
    BY DEF Record, NextFile, Goto, IInv, TypeOK
  <2> QED
    BY <2>1, <2>2, <2>3
<1>5. CASE Check(p)
  <2>1. ~NextFile(p)
    BY DEF NextFile, Goto, IInv, TypeOK
  <2> QED
    BY <1>5, <2>1 DEF Check
<1>6. CASE Execute(p)
  BY <1>2, <1>6 DEF Execute
<1>7. CASE UNCHANGED vars
  BY <1>2, <1>7 DEF vars
<1> QED
  BY <1>3, <1>4, <1>5, <1>6, <1>7 DEF Next, Step

-----------------------------------------------------------------------------
(* The theorems                                                            *)

\* Every statement before the place of a program is done, for good, and the
\* tracker names only files all of whose statements are.
THEOREM Inductive == Spec => []IInv
<1>1. Init => IInv
  <2> SUFFICES ASSUME Init
               PROVE  IInv
    OBVIOUS
  <2>1. TypeOK
    BY DEF Init, TypeOK
  <2>2. WholeStatements(Objects)
    BY BuiltIsWhole DEF Init, Objects
  <2>3. BehindIsDone /\ AloneRecords /\ StartedOnly
    BY DEF Init, BehindIsDone, AloneRecords, StartedOnly, Busy
  <2> QED
    BY <2>1, <2>2, <2>3 DEF IInv, Init
<1>2. IInv /\ [Next]_vars => IInv'
  <2> SUFFICES ASSUME IInv, [Next]_vars
               PROVE  IInv'
    OBVIOUS
  <2>1. BehindIsDone'
    BY BehindStays DEF BehindIsDone, Behind
  <2>2. WholeStatements(Objects)'
    BY DoneStays DEF WholeStatements, Touched, Done
  <2>3. (\A i \in recorded : FileDone(i))'
    BY RecordedStaysDone
  <2> QED
    BY <2>1, <2>2, <2>3, NextKeepsType, StartedOnlyStays, AloneRecordsStays DEF IInv
<1> QED
  BY <1>1, <1>2, PTL DEF Spec

\* Types of the positions of the programs and of the tracker.
THEOREM TypeCorrect == Spec => []TypeOK
<1>1. IInv => TypeOK
  BY DEF IInv
<1> QED
  BY <1>1, Inductive, PTL

\* The tracker tells the truth, and who returned nil has all its files in it.
THEOREM TrackerIsTrue == Spec => []RecordedIsBuilt
<1>1. IInv => RecordedIsBuilt
  <2> SUFFICES ASSUME IInv
               PROVE  RecordedIsBuilt
    OBVIOUS
  <2>1. ASSUME NEW i \in recorded
        PROVE  /\ Added(i) \ DroppedAfter(i) \subseteq Objects
               /\ Dropped(i) \cap Objects = {}
    <3>1. i \in 1..Len(Files) /\ FileDone(i) /\ Len(Files) \in Nat
      BY FilesAssumption DEF IInv, TypeOK
    <3>2. \A j \in 1..Len(Files[i]) : <<i, j>> \in Places /\ Done(Objects, <<i, j>>)
      BY <3>1, PlaceFacts DEF FileDone
    <3>3. Dropped(i) \cap Objects = {}
      <4> SUFFICES ASSUME NEW j \in 1..Len(Files[i]), NEW n \in Files[i][j].drops
                   PROVE  n \notin Objects
        BY DEF Dropped
      <4>1. n \in Drops(<<i, j>>)
        BY DEF Drops, At
      <4> QED
        BY <3>2, <4>1 DEF Done
    <3>4. ASSUME NEW j \in 1..Len(Files[i]), NEW n \in DOMAIN Files[i][j].adds,
                 n \notin DroppedAfter(i)
          PROVE  n \in Objects
      <4>1. n \in Adds(<<i, j>>)
        BY DEF Adds, At
      <4>2. n \notin EverDropped
        <5> SUFFICES ASSUME NEW b \in Places, n \in Drops(b)
                     PROVE  FALSE
          BY DEF EverDropped
        <5>1. i < b[1]
          BY <3>2, <4>1, FilesAssumption
        <5>2. b[1] \in 1..Len(Files) /\ b[2] \in 1..Len(Files[b[1]])
          BY PlaceFacts
        <5>3. b[1] \in (i + 1)..Len(Files)
          BY <3>1, <5>1, <5>2
        <5>4. n \in Dropped(b[1])
          BY <5>2 DEF Dropped, Drops, At
        <5> QED
          BY <3>4, <5>3, <5>4 DEF DroppedAfter
      <4> QED
        BY <3>2, <4>1, <4>2 DEF Done
    <3>5. Added(i) \ DroppedAfter(i) \subseteq Objects
      <4> SUFFICES ASSUME NEW n \in Added(i), n \notin DroppedAfter(i)
                   PROVE  n \in Objects
        OBVIOUS
      <4>1. PICK j \in 1..Len(Files[i]) : n \in DOMAIN Files[i][j].adds
        BY DEF Added
      <4> QED
        BY <3>4, <4>1
    <3> QED
      BY <3>3, <3>5
  <2>2. \A p \in Programs : pc[p] = "ready" => 1..Shipped[p] \subseteq recorded
    BY DEF IInv, BehindIsDone
  <2> QED
    BY <2>1, <2>2 DEF RecordedIsBuilt
<1> QED
  BY <1>1, Inductive, PTL

\* A program that is alone fails only by a fault or at a unique key that the rows
\* do not allow: no table is missing, and no row of the tracker is in its way.
THEOREM AloneGetsThrough == Spec => AloneSucceeds
<1>1. IInv /\ [Next]_vars =>
         [\A p \in Programs :
             /\ \A q \in Programs \ {p} : starts[q] = 0
             /\ Busy(p) /\ pc'[p] = "failed"
             => \/ faults' > faults
                \/ pc[p] = "execute" /\ ValueTwice(schema, Statement(p))]_vars
  <2> SUFFICES ASSUME IInv, [Next]_vars, NEW p \in Programs,
                      \A q \in Programs \ {p} : starts[q] = 0, Busy(p), pc'[p] = "failed"
               PROVE  \/ faults' > faults
                      \/ pc[p] = "execute" /\ ValueTwice(schema, Statement(p))
    OBVIOUS
  <2>1. CASE Fault(p)
    <3>1. faults' = faults + 1
      BY <2>1 DEF Fault
    <3>2. faults \in Nat
      BY DEF IInv, TypeOK
    <3> QED
      BY <3>1, <3>2
  <2>2. ~Start(p) /\ pc[p] # "failed"
    BY DEF Start, Busy
  <2>3. ~Check(p)
    BY DEF Check, NextFile, Goto, IInv, TypeOK
  <2>4. CASE Execute(p)
    <3>1. pc[p] = "execute" /\ Refused(schema, Statement(p))
      BY <2>4 DEF Execute, Goto, IInv, TypeOK
    <3> QED
      BY <3>1, TableIsThere DEF Refused
  <2>5. ~Record(p)
    <3> SUFFICES ASSUME Record(p)
                 PROVE  FALSE
      OBVIOUS
    <3>1. file[p] \notin recorded
      BY DEF Record, IInv, AloneRecords
    <3>2. NextFile(p)
      BY <3>1 DEF Record
    <3> QED
      BY <3>2 DEF NextFile, Goto, IInv, TypeOK
  <2> QED
    BY <2>1, <2>2, <2>3, <2>4, <2>5, OwnSteps DEF IInv
<1> QED
  BY <1>1, Inductive, PTL DEF Spec, AloneSucceeds
=============================================================================
