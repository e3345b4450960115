----------------------------- MODULE Migrations -----------------------------
(***************************************************************************)
(* store.ApplyMigrations (internal/store/migrate.go), which cmd/api,       *)
(* cmd/matching-engine and cmd/ingestion-worker all call when they start,  *)
(* on the same database and without a lock.                                *)
(*                                                                         *)
(* A DDL statement of MySQL commits by itself, so the statements of a file *)
(* and the row of settletrace_schema_migrations that says the file was     *)
(* applied are as many separate steps, and a crash or another program may  *)
(* come between any two of them.                                           *)
(***************************************************************************)
EXTENDS Integers, Sequences, FiniteSets

CONSTANTS
    Programs,   \* programs that call ApplyMigrations
    Files,      \* the *.up.sql files in lexical order, each a sequence of statements
    Shipped,    \* Shipped[p]: how many of them the directory of p holds
    MaxStarts,  \* bound: starts of one program
    MaxFaults   \* bound: statements that fail for other reasons, and crashes

(***************************************************************************)
(* A statement needs the tables it names, drops some keys and adds tables  *)
(* and keys: adds[n] is the definition it gives to object n.  The keys in  *)
(* `unique` are UNIQUE ones that it adds to a table that may have rows.    *)
(***************************************************************************)
ASSUME MigrationAssumption ==
    /\ MaxStarts \in Nat /\ MaxFaults \in Nat
    /\ Shipped \in [Programs -> 0..Len(Files)]

\* The places of the statements, in the order ApplyMigrations comes to them.
Places == UNION {{i} \X (1..Len(Files[i])) : i \in 1..Len(Files)}

Before(a, b) == a[1] < b[1] \/ (a[1] = b[1] /\ a[2] < b[2])

At(a) == Files[a[1]][a[2]]
Needs(a) == At(a).needs
Drops(a) == At(a).drops
Adds(a) == DOMAIN At(a).adds

Statements == {At(a) : a \in Places}

\* Every statement that creates one of the two objects creates the other.
CreatedTogether(n, m) == \A a \in Places : n \in Adds(a) <=> m \in Adds(a)

(***************************************************************************)
(* What the files of migrations/ have in common, and what a new file must  *)
(* keep to: a table that is needed was created before and is never         *)
(* dropped; a key is dropped by one statement only, after it was created,  *)
(* and was created with its table; and statements that create an object of *)
(* the same name (0003 and 0006 do) create nothing else and drop nothing.  *)
(***************************************************************************)
ASSUME FilesAssumption ==
    /\ Files \in Seq(Seq(Statements) \ {<< >>})
    /\ \A a \in Places :
           /\ \A n \in Needs(a) : /\ \E b \in Places : Before(b, a) /\ n \in Adds(b)
                                  /\ \A b \in Places : n \notin Drops(b)
           /\ \A n \in Drops(a) : \E t \in Needs(a) : CreatedTogether(n, t)
           /\ \A b \in Places :
                 /\ Drops(a) \cap Drops(b) # {} => a = b
                 /\ Adds(a) \cap Drops(b) # {} => a[1] < b[1]
                 /\ Adds(a) \cap Adds(b) # {} /\ a # b =>
                       /\ Adds(a) = Adds(b) /\ Needs(a) = Needs(b)
                       /\ Drops(a) = {} /\ Drops(b) = {}

VARIABLES
    schema,     \* schema[n]: the definition of object n, for the objects there are
    clashing,   \* unique keys still to be added whose columns hold a value twice
    recorded,   \* the files that have a row in settletrace_schema_migrations
    pc,         \* where each program is inside ApplyMigrations
    file, stmt, \* the file and the statement it is at
    starts,     \* how often each program was started
    faults      \* faults so far

vars == <<schema, clashing, recorded, pc, file, stmt, starts, faults>>

Goto(p, l) == pc' = [pc EXCEPT ![p] = l]

-----------------------------------------------------------------------------
(* What MySQL does with a statement                                        *)

Objects == DOMAIN schema

\* Errors 1050, 1060, 1061, 1826 (it exists) and 1091 (it does not).
AlreadyApplied(s, st) ==
    \/ ~(st.drops \subseteq DOMAIN s)
    \/ DOMAIN st.adds \cap DOMAIN s # {}

\* Error 1146: the statement names a table that is not there.
TableMissing(s, st) == ~(st.needs \subseteq DOMAIN s)

\* Error 1062: a new unique key finds a value twice, and nothing is changed.
\* MySQL reads the rows only once it knows that the key can be added.
ValueTwice(s, st) == ~AlreadyApplied(s, st) /\ st.unique \cap clashing # {}

\* The errors that ApplyMigrations returns.
Refused(s, st) == TableMissing(s, st) \/ ValueTwice(s, st)

Applied(s, st) ==
    [n \in (DOMAIN s \ st.drops) \cup DOMAIN st.adds |->
        IF n \in DOMAIN st.adds THEN st.adds[n] ELSE s[n]]

\* The schema after a statement was tried on rows that allow it.
After(s, st) == IF TableMissing(s, st) \/ AlreadyApplied(s, st) THEN s ELSE Applied(s, st)

AllStatements ==
    LET upTo[i \in 0..Len(Files)] == IF i = 0 THEN << >> ELSE upTo[i - 1] \o Files[i]
    IN  upTo[Len(Files)]

\* The schema once the first k statements of all files were tried in order.
BuiltSchema(k) ==
    LET built[i \in 0..k] == IF i = 0 THEN << >> ELSE After(built[i - 1], AllStatements[i])
    IN  built[k]

-----------------------------------------------------------------------------
(* ApplyMigrations                                                         *)

\* The tracker is empty when it is created, however much of the schema an
\* earlier version of the function or an operator has built.  Where a table still
\* lacks its unique key, the release that made it may have stored a value twice.
Init ==
    /\ \E k \in 0..Len(AllStatements) : schema = BuiltSchema(k)
    /\ clashing \in SUBSET UNION {st.unique : st \in {x \in Statements :
                                     ~TableMissing(schema, x) /\ ~AlreadyApplied(schema, x)}}
    /\ recorded = {}
    /\ pc = [p \in Programs |-> "stopped"]
    /\ file = [p \in Programs |-> 1]
    /\ stmt = [p \in Programs |-> 1]
    /\ starts = [p \in Programs |-> 0]
    /\ faults = 0

Busy(p) == pc[p] \in {"check", "execute", "record"}

\* The end of the loop's body: the next file, or nil is returned.
NextFile(p) ==
    IF file[p] < Shipped[p]
    THEN Goto(p, "check") /\ file' = [file EXCEPT ![p] = @ + 1]
    ELSE Goto(p, "ready") /\ UNCHANGED file

\* A program starts, makes sure there is a tracker and reads its directory.
Start(p) ==
    /\ ~Busy(p)
    /\ starts[p] < MaxStarts
    /\ starts' = [starts EXCEPT ![p] = @ + 1]
    /\ file' = [file EXCEPT ![p] = 1]
    /\ Goto(p, IF Shipped[p] = 0 THEN "ready" ELSE "check")
    /\ UNCHANGED <<schema, clashing, recorded, stmt, faults>>

\* SELECT COUNT(*) for the file.
Check(p) ==
    /\ pc[p] = "check"
    /\ \/ file[p] \in recorded /\ NextFile(p) /\ UNCHANGED stmt
       \/ /\ file[p] \notin recorded
          /\ Goto(p, "execute")
          /\ stmt' = [stmt EXCEPT ![p] = 1]
          /\ UNCHANGED file
    /\ UNCHANGED <<schema, clashing, recorded, starts, faults>>

Statement(p) == Files[file[p]][stmt[p]]

\* Mutant: an object that exists already is an error like any other.
ExecuteAll(p) ==
    /\ pc[p] = "execute"
    /\ IF Refused(schema, Statement(p)) \/ AlreadyApplied(schema, Statement(p))
       THEN Goto(p, "failed") /\ UNCHANGED <<schema, stmt>>
       ELSE /\ schema' = After(schema, Statement(p))
            /\ IF stmt[p] < Len(Files[file[p]])
               THEN stmt' = [stmt EXCEPT ![p] = @ + 1] /\ UNCHANGED pc
               ELSE Goto(p, "record") /\ UNCHANGED stmt
    /\ UNCHANGED <<clashing, recorded, file, starts, faults>>

\* Mutant: a statement that was applied already ends the file.
ExecuteOrSkipFile(p) ==
    /\ pc[p] = "execute"
    /\ schema' = After(schema, Statement(p))
    /\ IF stmt[p] < Len(Files[file[p]]) /\ schema' # schema
       THEN stmt' = [stmt EXCEPT ![p] = @ + 1] /\ UNCHANGED pc
       ELSE Goto(p, "record") /\ UNCHANGED stmt
    /\ UNCHANGED <<clashing, recorded, file, starts, faults>>

\* One statement of the file: applied, or skipped as already applied, or the
\* function returns its error.
Execute(p) ==
    /\ pc[p] = "execute"
    /\ IF Refused(schema, Statement(p))
       THEN Goto(p, "failed") /\ UNCHANGED <<schema, stmt>>
       ELSE /\ schema' = After(schema, Statement(p))
            /\ IF stmt[p] < Len(Files[file[p]])
               THEN stmt' = [stmt EXCEPT ![p] = @ + 1] /\ UNCHANGED pc
               ELSE Goto(p, "record") /\ UNCHANGED stmt
    /\ UNCHANGED <<clashing, recorded, file, starts, faults>>

\* INSERT of the file's name.  When another program was faster the primary key
\* refuses it (error 1062), and that is not one of the errors skipped.
Record(p) ==
    /\ pc[p] = "record"
    /\ IF file[p] \in recorded
       THEN Goto(p, "failed") /\ UNCHANGED <<recorded, file>>
       ELSE recorded' = recorded \cup {file[p]} /\ NextFile(p)
    /\ UNCHANGED <<schema, clashing, stmt, starts, faults>>

\* A lost connection, a full disk, a crash: the statement that was under way
\* may have taken effect.
Fault(p) ==
    /\ Busy(p)
    /\ faults < MaxFaults
    /\ faults' = faults + 1
    /\ Goto(p, "failed")
    /\ \/ UNCHANGED <<schema, recorded>>
       \/ /\ pc[p] = "execute" /\ ~Refused(schema, Statement(p))
          /\ schema' = After(schema, Statement(p)) /\ UNCHANGED recorded
       \/ pc[p] = "record" /\ recorded' = recorded \cup {file[p]} /\ UNCHANGED schema
    /\ UNCHANGED <<clashing, file, stmt, starts>>

Step(p) == Check(p) \/ Execute(p) \/ Record(p)

Next == \E p \in Programs : Start(p) \/ Step(p) \/ Fault(p)

Spec == Init /\ [][Next]_vars

\* A program that was started goes on.  Nobody promises to start one again.
Fairness == \A p \in Programs : WF_vars(Step(p))

FairSpec == Spec /\ Fairness

-----------------------------------------------------------------------------
(* Properties                                                              *)

Added(i) == UNION {DOMAIN Files[i][j].adds : j \in 1..Len(Files[i])}
Dropped(i) == UNION {Files[i][j].drops : j \in 1..Len(Files[i])}
DroppedAfter(i) == UNION {Dropped(j) : j \in (i + 1)..Len(Files)}

\* The tracker tells the truth, and who has returned nil has all its files in
\* it: what a recorded file adds is there unless a later file drops it, and
\* what it drops is gone, although programs skip statements, overtake each
\* other and die between a statement and the row for its file ("still
\* recording the file as applied reflects reality").
RecordedIsBuilt ==
    /\ \A i \in recorded :
          /\ Added(i) \ DroppedAfter(i) \subseteq Objects
          /\ Dropped(i) \cap Objects = {}
    /\ \A p \in Programs : pc[p] = "ready" => 1..Shipped[p] \subseteq recorded

\* A program that is alone brings a database in any stage to the end, whoever
\* built the schema in it and however often the program died before: it fails
\* only by a fault, or at a unique key that the rows do not allow.  Skipping what
\* exists closes the regression in which "re-running that already-applied DDL
\* fails outright".
AloneSucceeds ==
    [][\A p \in Programs :
        /\ \A q \in Programs \ {p} : starts[q] = 0
        /\ Busy(p) /\ pc'[p] = "failed"
        => \/ faults' > faults
           \/ pc[p] = "execute" /\ ValueTwice(schema, Statement(p))]_vars

\* Programs that start together throw each other out with error 1062, but
\* never all of them: where no rows are in the way of a unique key, one gets to
\* the end until there is a fault.
SomeoneGetsReady ==
    (\E p \in Programs : Busy(p)) /\ faults = 0 /\ clashing = {}
    ~> (\E p \in Programs : pc[p] = "ready") \/ faults > 0

-----------------------------------------------------------------------------
(* What a comment of the code says, and the code does not do               *)

\* "If the object already exists, it was built BY this same file": an object
\* that a recorded file adds, and that no later file drops or adds again, has
\* the definition that file gives.
BuiltByThisFile ==
    \A i \in recorded : \A j \in 1..Len(Files[i]) : \A n \in DOMAIN Files[i][j].adds :
        (\A k \in (i + 1)..Len(Files) : n \notin Added(k) \cup Dropped(k))
        => schema[n] = Files[i][j].adds[n]

-----------------------------------------------------------------------------
(* The inductive invariant                                                 *)

EverDropped == UNION {Drops(a) : a \in Places}

\* What a statement is for has been reached, by itself or by one like it.
Done(objects, a) ==
    /\ Needs(a) \subseteq objects
    /\ Drops(a) \cap objects = {}
    /\ Adds(a) \ EverDropped \subseteq objects

\* The traces of a statement: something it creates is there, or something it
\* drops is not, although what it was created with is.
Touched(objects, a) ==
    \/ Adds(a) \cap objects # {}
    \/ \E n \in Drops(a) \ objects : \E t \in Needs(a) \cap objects : CreatedTogether(n, t)

\* No statement has left half of its traces.
WholeStatements(objects) == \A a \in Places : Touched(objects, a) => Done(objects, a)

FileDone(i) == \A j \in 1..Len(Files[i]) : Done(Objects, <<i, j>>)

\* Types of the positions of the programs and of the tracker.
TypeOK ==
    /\ recorded \subseteq 1..Len(Files)
    /\ pc \in [Programs -> {"stopped", "check", "execute", "record", "ready", "failed"}]
    /\ file \in [Programs -> Nat \ {0}]
    /\ stmt \in [Programs -> Nat \ {0}]
    /\ starts \in [Programs -> Nat]
    /\ faults \in Nat

\* Where a program is, all before it has been reached.
BehindIsDone ==
    \A p \in Programs :
        /\ Busy(p) => file[p] <= Shipped[p] /\ 1..(file[p] - 1) \subseteq recorded
        /\ pc[p] = "execute" => /\ stmt[p] <= Len(Files[file[p]])
                                /\ \A j \in 1..(stmt[p] - 1) : Done(Objects, <<file[p], j>>)
        /\ pc[p] = "record" => FileDone(file[p])
        /\ pc[p] = "ready" => 1..Shipped[p] \subseteq recorded

\* A program that nobody else was started with finds no row of a file it has
\* not recorded itself.
AloneRecords ==
    \A p \in Programs :
        (\A q \in Programs \ {p} : starts[q] = 0) /\ pc[p] \in {"execute", "record"}
        => file[p] \notin recorded

\* A program that was not started does nothing.
StartedOnly == \A p \in Programs : starts[p] = 0 => pc[p] = "stopped"

IInv ==
    /\ TypeOK
    /\ WholeStatements(Objects)
    /\ \A i \in recorded : FileDone(i)
    /\ BehindIsDone
    /\ AloneRecords
    /\ StartedOnly
=============================================================================
