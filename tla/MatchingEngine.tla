--------------------------- MODULE MatchingEngine ---------------------------
(***************************************************************************)
(* cmd/matching-engine: scheduled runs of Engine.RunWindow under the Redis *)
(* window lock of internal/matcher/locker.go, while ingestion goes on.     *)
(*                                                                         *)
(* Every statement sent to MySQL or Redis is a step of its own.  A run     *)
(* works on the slices it loaded, which may be out of date when it writes; *)
(* a result row, the ledger line's pointer and the audit entry are three   *)
(* separate transactions.  Any error of the store ends the process through *)
(* log.Fatalf, which runs no deferred release, so it looks like a crash.   *)
(***************************************************************************)
EXTENDS ReconTiers

CONSTANTS
    Runs,          \* invocations of the program
    AllPayments, AllLines, AllLedger,   \* records ingestion may ever store
    Lookback,      \* -lookback: the length of the window
    MaxTime,       \* bound: the last day
    MaxDeaths,     \* bound: crashes and errors
    NoRun          \* the lock is free

ASSUME EngineAssumption ==
    /\ Lookback \in Nat /\ MaxTime \in Nat /\ MaxDeaths \in Nat
    /\ NoRun \notin Runs

\* payment_id and ledger_lines.id are primary keys, NULL (NoPayment below) is no
\* payment's id, and the time columns hold times.
ASSUME RecordsAssumption ==
    /\ IsFiniteSet(AllPayments) /\ IsFiniteSet(AllLines)
    /\ \A p \in AllPayments : p.captured \in Int /\ p.id # << >>
    /\ \A c \in AllLines : c.settled \in Int
    /\ \A l \in AllLedger : l.booked \in Int
    /\ \A p, q \in AllPayments : p.id = q.id => p = q
    /\ \A l, k \in AllLedger : l.id = k.id => l = k

VARIABLES
    now,           \* the clock
    paymentRows, lineRows, ledgerRows,  \* payments, settlement_lines, ledger_lines
    pointer,       \* ledger_lines.matched_payment_id
    results,       \* rows of match_results and exception_log
    audited,       \* the results that have an audit entry
    lock,          \* the run whose token the Redis key holds
    overran,       \* history: a run was still alive when its -lock-ttl was over
    pc,            \* where each run is
    end,           \* the end of its window
    payments,      \* the unmatched payments it loaded
    method,        \* the method it is working on
    candidates,    \* the settlement lines it loaded for that method
    ledger,        \* the unmatched ledger lines it loaded
    ledgerPayments,\* the payments it loaded for them
    current,       \* the result it has just written and not audited yet, if any
    deaths         \* crashes and errors so far

tables == <<paymentRows, lineRows, ledgerRows>>
written == <<pointer, results, audited>>
slices == <<payments, method, candidates, ledger, ledgerPayments>>
local == <<pc, end, slices, current>>
vars == <<now, tables, written, lock, overran, local, deaths>>

NoPayment == << >>
Start(r) == end[r] - Lookback
Goto(r, l) == pc' = [pc EXCEPT ![r] = l]

\* A row, with the run that wrote it and the record the tier matched it to.
\* MySQL keeps neither: a match_results row names no settlement line.
Row(r, type, id, d) ==
    [by |-> r, type |-> type, record |-> id, kind |-> d.kind, rule |-> d.rule, to |-> d.to]

RowsOf(type, id) == {x \in results : x.type = type /\ x.record = id}

Init ==
    /\ now = 0
    /\ paymentRows = {} /\ lineRows = {} /\ ledgerRows = {}
    /\ pointer = [l \in AllLedger |-> NoPayment]
    /\ results = {} /\ audited = {}
    /\ lock = NoRun
    /\ overran = FALSE
    /\ pc = [r \in Runs |-> "idle"]
    /\ end = [r \in Runs |-> 0]
    /\ payments = [r \in Runs |-> {}]
    /\ method = [r \in Runs |-> "none"]
    /\ candidates = [r \in Runs |-> {}]
    /\ ledger = [r \in Runs |-> {}]
    /\ ledgerPayments = [r \in Runs |-> {}]
    /\ current = [r \in Runs |-> {}]
    /\ deaths = 0

-----------------------------------------------------------------------------
(* The world around the runs                                               *)

\* Ingestion stores a record some time after it came into being.
Ingest ==
    /\ \/ /\ \E p \in AllPayments \ paymentRows :
                p.captured <= now /\ paymentRows' = paymentRows \cup {p}
          /\ UNCHANGED <<lineRows, ledgerRows>>
       \/ /\ \E c \in AllLines \ lineRows :
                c.settled <= now /\ lineRows' = lineRows \cup {c}
          /\ UNCHANGED <<paymentRows, ledgerRows>>
       \/ /\ \E l \in AllLedger \ ledgerRows :
                l.booked <= now /\ ledgerRows' = ledgerRows \cup {l}
          /\ UNCHANGED <<paymentRows, lineRows>>
    /\ UNCHANGED <<now, written, lock, local, deaths, overran>>

Tick ==
    /\ now < MaxTime
    /\ now' = now + 1
    /\ UNCHANGED <<tables, written, lock, local, deaths, overran>>

Over(r) == pc[r] \in {"done", "dead"}

\* The TTL of the Redis key runs out.
Expire ==
    /\ lock # NoRun
    /\ lock' = NoRun
    /\ overran' = (overran \/ ~Over(lock))
    /\ UNCHANGED <<now, tables, written, local, deaths>>

\* A crash, or an error of MySQL or Redis and log.Fatalf.
Die(r) ==
    /\ pc[r] \notin {"idle", "done", "dead"}
    /\ deaths < MaxDeaths
    /\ deaths' = deaths + 1
    /\ Goto(r, "dead")
    /\ UNCHANGED <<now, tables, written, lock, end, slices, current, overran>>

-----------------------------------------------------------------------------
(* main and the lock                                                       *)

\* main computes the window, then asks for the lock.
Begin(r) ==
    /\ pc[r] = "idle"
    /\ end' = [end EXCEPT ![r] = now]
    /\ Goto(r, "acquire")
    /\ UNCHANGED <<now, tables, written, lock, slices, current, deaths, overran>>

\* Mutant: SET without NX.
AcquireByOverwriting(r) ==
    /\ pc[r] = "acquire"
    /\ lock' = r
    /\ Goto(r, "loadPayments")
    /\ UNCHANGED <<now, tables, written, end, slices, current, deaths, overran>>

\* SETNX; main gives up when another run holds the lock.
Acquire(r) ==
    /\ pc[r] = "acquire"
    /\ \/ lock = NoRun /\ lock' = r /\ Goto(r, "loadPayments")
       \/ lock # NoRun /\ UNCHANGED lock /\ Goto(r, "dead")
    /\ UNCHANGED <<now, tables, written, end, slices, current, deaths, overran>>

\* release: GET, and only if it is this run's token, DEL.
ReleaseGet(r) ==
    /\ pc[r] = "release"
    /\ Goto(r, IF lock = r THEN "delete" ELSE "done")
    /\ UNCHANGED <<now, tables, written, lock, end, slices, current, deaths, overran>>

\* Mutant: the token is compared and the key is left.
ReleaseWithoutDel(r) ==
    /\ pc[r] = "delete"
    /\ Goto(r, "done")
    /\ UNCHANGED <<now, tables, written, lock, end, slices, current, deaths, overran>>

ReleaseDel(r) ==
    /\ pc[r] = "delete"
    /\ lock' = NoRun
    /\ Goto(r, "done")
    /\ UNCHANGED <<now, tables, written, end, slices, current, deaths, overran>>

\* GET or DEL fails, which main logs before it exits as after a crash; the DEL
\* may have been done.
ReleaseFails(r) ==
    /\ pc[r] \in {"release", "delete"}
    /\ deaths < MaxDeaths
    /\ deaths' = deaths + 1
    /\ lock' \in {lock} \cup (IF pc[r] = "delete" THEN {NoRun} ELSE {})
    /\ Goto(r, "dead")
    /\ UNCHANGED <<now, tables, written, end, slices, current, overran>>

-----------------------------------------------------------------------------
(* runSettlementSide                                                       *)

\* Mutant: the loop does not move on.
PaymentsAgain(r) == payments[r]

\* What this run has not decided yet, of what it loaded.
PaymentsLeft(r) ==
    {p \in payments[r] : \A x \in RowsOf("payment", p.id) : x.by # r}

\* Mutant: payments with an exception are loaded again.
LoadExcepted(r) ==
    /\ pc[r] = "loadPayments"
    /\ payments' = [payments EXCEPT ![r] =
          {p \in PaymentsInWindow(paymentRows, Start(r), end[r]) :
              \A x \in RowsOf("payment", p.id) : x.kind # "match"}]
    /\ Goto(r, "group")
    /\ UNCHANGED <<now, tables, written, lock, end, method, candidates, ledger,
                   ledgerPayments, current, deaths, overran>>

\* GetUnmatchedPaymentsInWindow: no match and no open exception.  Nothing in
\* the program resolves an exception.
LoadPayments(r) ==
    /\ pc[r] = "loadPayments"
    /\ payments' = [payments EXCEPT ![r] =
          {p \in PaymentsInWindow(paymentRows, Start(r), end[r]) :
              RowsOf("payment", p.id) = {}}]
    /\ Goto(r, "group")
    /\ UNCHANGED <<now, tables, written, lock, end, method, candidates, ledger,
                   ledgerPayments, current, deaths, overran>>

\* The methods come in any order (a Go map); the candidates are loaded once
\* for all payments of a method.
LoadCandidates(r, m) ==
    /\ pc[r] = "group"
    /\ \E p \in PaymentsLeft(r) : p.method = m
    /\ method' = [method EXCEPT ![r] = m]
    /\ candidates' = [candidates EXCEPT ![r] =
          SettlementCandidates(lineRows, m, Start(r), end[r])]
    /\ Goto(r, "settle")
    /\ UNCHANGED <<now, tables, written, lock, end, payments, ledger, ledgerPayments,
                   current, deaths, overran>>

SettlementSideDone(r) ==
    /\ pc[r] = "group"
    /\ PaymentsLeft(r) = {}
    /\ Goto(r, "loadLedger")
    /\ UNCHANGED <<now, tables, written, lock, end, slices, current, deaths, overran>>

GroupLeft(r) == {p \in PaymentsLeft(r) : p.method = method[r]}

WriteResult(r, row) ==
    /\ results' = results \cup {row}
    /\ current' = [current EXCEPT ![r] = {row}]

\* The next payment of the group, by captured_at: tiers, then WriteMatchResult
\* or WriteExceptionLog.
SettlePayment(r) ==
    /\ pc[r] = "settle"
    /\ \E p \in GroupLeft(r) :
          /\ \A q \in GroupLeft(r) : p.captured <= q.captured
          /\ \E d \in DecidePayment(p, candidates[r]) :
                WriteResult(r, Row(r, "payment", p.id, d))
    /\ Goto(r, "audit")
    /\ UNCHANGED <<now, tables, pointer, audited, lock, end, slices, deaths, overran>>

\* Mutant: the audit entry is forgotten.
SkipAudit(r) ==
    /\ current' = [current EXCEPT ![r] = {}]
    /\ UNCHANGED audited

WriteAudit(r) ==
    /\ audited' = audited \cup current[r]
    /\ current' = [current EXCEPT ![r] = {}]

\* Mutant: the first payment of a method ends its group.
AuditPaymentAndStop(r) ==
    /\ pc[r] = "audit"
    /\ WriteAudit(r)
    /\ Goto(r, "loadLedger")
    /\ UNCHANGED <<now, tables, pointer, results, lock, end, slices, deaths, overran>>

\* writeAudit of recordPaymentMatch or recordException.
AuditPayment(r) ==
    /\ pc[r] = "audit"
    /\ WriteAudit(r)
    /\ Goto(r, IF GroupLeft(r) = {} THEN "group" ELSE "settle")
    /\ UNCHANGED <<now, tables, pointer, results, lock, end, slices, deaths, overran>>

-----------------------------------------------------------------------------
(* runLedgerSide                                                           *)

LinesLeft(r) == {l \in ledger[r] : \A x \in RowsOf("ledger", l.id) : x.by # r}

\* GetUnmatchedLedgerLines, with an early return when there are none.
LoadLedger(r) ==
    /\ pc[r] = "loadLedger"
    /\ ledger' = [ledger EXCEPT ![r] =
          {l \in LedgerInWindow(ledgerRows, Start(r), end[r]) : pointer[l] = NoPayment}]
    /\ Goto(r, IF ledger'[r] = {} THEN "release" ELSE "loadLedgerPayments")
    /\ UNCHANGED <<now, tables, written, lock, end, payments, method, candidates,
                   ledgerPayments, current, deaths, overran>>

LoadLedgerPayments(r) ==
    /\ pc[r] = "loadLedgerPayments"
    /\ ledgerPayments' = [ledgerPayments EXCEPT ![r] =
          LedgerPayments(paymentRows, Start(r), end[r])]
    /\ Goto(r, "settleLedger")
    /\ UNCHANGED <<now, tables, written, lock, end, payments, method, candidates,
                   ledger, current, deaths, overran>>

\* The next ledger line, by booked_at: Tier L, then WriteMatchResult or
\* WriteExceptionLog.
SettleLedger(r) ==
    /\ pc[r] = "settleLedger"
    /\ \E l \in LinesLeft(r) :
          /\ \A k \in LinesLeft(r) : l.booked <= k.booked
          /\ LET d == DecideLedger(l, ledgerPayments[r]) IN
                /\ WriteResult(r, Row(r, "ledger", l.id, d))
                /\ Goto(r, IF d.kind = "match" THEN "point" ELSE "auditLedger")
    /\ UNCHANGED <<now, tables, pointer, audited, lock, end, slices, deaths, overran>>

\* Mutant: the line is not pointed anywhere.
LeavePointer(r) ==
    /\ pc[r] = "point"
    /\ Goto(r, "auditLedger")
    /\ UNCHANGED <<now, tables, written, lock, end, slices, current, deaths, overran>>

\* Mutant: the line is pointed at itself.
PointAtItself(r) ==
    /\ pc[r] = "point"
    /\ pointer' = [l \in AllLedger |->
          IF \E x \in current[r] : x.record = l.id THEN l.id ELSE pointer[l]]
    /\ Goto(r, "auditLedger")
    /\ UNCHANGED <<now, tables, results, audited, lock, end, slices, current, deaths, overran>>

\* UPDATE ledger_lines SET matched_payment_id ... WHERE it IS NULL.
SetLedgerMatchedPayment(r) ==
    /\ pc[r] = "point"
    /\ pointer' = [l \in AllLedger |->
          IF pointer[l] = NoPayment /\ \E x \in current[r] : x.record = l.id
          THEN (CHOOSE x \in current[r] : TRUE).to
          ELSE pointer[l]]
    /\ Goto(r, "auditLedger")
    /\ UNCHANGED <<now, tables, results, audited, lock, end, slices, current, deaths, overran>>

AuditLedger(r) ==
    /\ pc[r] = "auditLedger"
    /\ WriteAudit(r)
    /\ Goto(r, "settleLedger")
    /\ UNCHANGED <<now, tables, pointer, results, lock, end, slices, deaths, overran>>

LedgerSideDone(r) ==
    /\ pc[r] = "settleLedger"
    /\ LinesLeft(r) = {}
    /\ Goto(r, "release")
    /\ UNCHANGED <<now, tables, written, lock, end, slices, current, deaths, overran>>

-----------------------------------------------------------------------------

Step(r) ==
    \/ Acquire(r) \/ ReleaseGet(r) \/ ReleaseDel(r)
    \/ LoadPayments(r) \/ (\E p \in AllPayments : LoadCandidates(r, p.method))
    \/ SettlePayment(r) \/ AuditPayment(r) \/ SettlementSideDone(r)
    \/ LoadLedger(r) \/ LoadLedgerPayments(r)
    \/ SettleLedger(r) \/ SetLedgerMatchedPayment(r) \/ AuditLedger(r)
    \/ LedgerSideDone(r)

Next ==
    \/ Ingest \/ Tick \/ Expire
    \/ \E r \in Runs : Begin(r) \/ Step(r) \/ Die(r) \/ ReleaseFails(r)

Spec == Init /\ [][Next]_vars

\* A run that was started goes on until it ends or dies.  Nothing is assumed of
\* the scheduler, the clock, ingestion or the TTL of the lock.
Fairness == \A r \in Runs : WF_vars(Step(r))

FairSpec == Spec /\ Fairness

-----------------------------------------------------------------------------
(* Properties                                                              *)

Busy(r) == pc[r] \notin {"idle", "acquire", "done", "dead"}

ResultType ==
    [by : Runs, type : {"payment", "ledger"},
     record : {p.id : p \in AllPayments} \cup {l.id : l \in AllLedger},
     kind : {"match", "exception"},
     rule : {"TIER1_EXACT", "TIER2_BOUNDED_ID", "TIERL_GROSS_EXACT",
             "MULTI_CANDIDATE_AMBIGUOUS", "NO_CANDIDATE_IN_WINDOW",
             "AMOUNT_MISMATCH_UNEXPLAINED", "LEDGER_AMOUNT_MISMATCH", "LEDGER_ORPHAN"},
     to : {p.id : p \in AllPayments} \cup {c.id : c \in AllLines} \cup {<< >>}]

\* Type correctness of the tables, the lock and the runs.
TypeOK ==
    /\ now \in Nat /\ deaths \in Nat
    /\ paymentRows \subseteq AllPayments
    /\ lineRows \subseteq AllLines
    /\ ledgerRows \subseteq AllLedger
    /\ pointer \in [AllLedger -> {p.id : p \in AllPayments} \cup {NoPayment}]
    /\ results \subseteq ResultType
    /\ audited \subseteq results
    /\ lock \in Runs \cup {NoRun} /\ overran \in BOOLEAN
    /\ pc \in [Runs -> {"idle", "acquire", "loadPayments", "group", "settle", "audit",
                        "loadLedger", "loadLedgerPayments", "settleLedger", "point",
                        "auditLedger", "release", "delete", "done", "dead"}]
    /\ end \in [Runs -> Nat]
    /\ payments \in [Runs -> SUBSET AllPayments]
    /\ method \in [Runs -> {p.method : p \in AllPayments} \cup {"none"}]
    /\ candidates \in [Runs -> SUBSET AllLines]
    /\ ledger \in [Runs -> SUBSET AllLedger]
    /\ ledgerPayments \in [Runs -> SUBSET AllPayments]
    /\ current \in [Runs -> SUBSET results]

\* As long as no run outlives its TTL the window lock "prevents two
\* matching-engine invocations from processing the same window at once"
\* (Locker), through the GET and DEL of the release and through crashes.
OneRunAtATime == ~overran => \A r, s \in Runs : Busy(r) /\ Busy(s) => r = s

\* A payment gets one decision, a match or an exception, however often runs
\* crash and are repeated and however their windows overlap; a run that outlives
\* its lock may decide it a second time, but no run does so twice.
DecidedOnce ==
    \A x, y \in results :
        x.type = "payment" /\ y.type = "payment" /\ x.record = y.record /\ x # y
        => overran /\ x.by # y.by

LedgerMatch(x) == x.type = "ledger" /\ x.kind = "match"

\* A ledger line is matched once, as its pointer keeps it out of later runs
\* (SetLedgerMatchedPayment).  As long as no run outlives its lock, a second match
\* is written only while the line still points nowhere, and each earlier match is
\* the last thing a run wrote that died before it could set the pointer.
LedgerMatchedOnce ==
    [][\A x \in results, y \in results' \ results :
          LedgerMatch(x) /\ LedgerMatch(y) /\ x.record = y.record /\ ~overran =>
              /\ pc[x.by] = "dead" /\ x \in current[x.by]
              /\ \A l \in AllLedger : l.id = x.record => pointer[l] = NoPayment]_vars

\* A run leaves at most one result without its audit entry, the one it was
\* recording when it died (record* write the row, then the entry).
OnlyTheLastIsUnaudited ==
    \A x \in results : x \notin audited => x \in current[x.by] /\ ~(pc[x.by] = "done")

\* A run that gets past the settlement side has decided every payment it
\* loaded ("matches every unmatched payment ... inside that window").
LoadedIsDecided ==
    \A r \in Runs :
        pc[r] \in {"loadLedger", "loadLedgerPayments", "settleLedger", "point",
                   "auditLedger", "release", "delete", "done"}
        => \A p \in payments[r] : RowsOf("payment", p.id) # {}

\* A matched payment has a stored settlement line of its method that pays its
\* exact net amount inside its SLA window, under its own id for Tier 1 and at
\* most two edits away for Tier 2.
MatchesAreSound ==
    \A x \in results : x.type = "payment" /\ x.kind = "match" =>
        \E p \in paymentRows, c \in lineRows :
            /\ p.id = x.record /\ c.id = x.to /\ c.method = p.method
            /\ IF x.rule = "TIER1_EXACT" THEN Tier1Fits(p, c) ELSE Tier2Fits(p, c)

\* When a run writes a match no other candidate it loaded would do as well:
\* recovery "never chooses between competing candidates".
MatchIsUnrivalled ==
    \A r \in Runs : pc[r] = "audit" => \A x \in current[r] : x.kind = "match" =>
        \A p \in payments[r], c \in candidates[r] :
            p.id = x.record /\ c.id # x.to =>
                IF x.rule = "TIER1_EXACT" THEN ~Tier1Fits(p, c) ELSE ~Tier2Fits(p, c)

\* A ledger line points at a payment only if a match result says so.
PointerIsBacked ==
    \A l \in AllLedger : pointer[l] # NoPayment =>
        \E x \in results : /\ x.type = "ledger" /\ x.kind = "match"
                           /\ x.record = l.id /\ x.to = pointer[l]

\* The candidate window of a method loses no stored line that could settle a
\* payment the run is about to decide.
CandidatesAreComplete ==
    [][\A r \in Runs : pc[r] = "group" /\ pc'[r] = "settle" =>
          \A p \in payments'[r], c \in lineRows :
              p.method = method'[r] /\ c.method = p.method /\ Plausible(p, c)
              => c \in candidates'[r]]_vars

\* The doubly widened ledger window misses no unmatched line that belongs to a
\* payment the run compares the ledger with (runLedgerSide).
LedgerIsComplete ==
    [][\A r \in Runs : pc[r] = "loadLedger" /\ pc'[r] # "loadLedger" /\ pc'[r] # "dead" =>
          \A p \in LedgerPayments(paymentRows, Start(r), end[r]), l \in ledgerRows :
              SameBooking(l, p) /\ pointer[l] = NoPayment => l \in ledger'[r]]_vars

\* A run that does not die gives its lock back by itself, whichever way it ends
\* (main defers the release) and whatever the other runs do: the next run need
\* not wait for the TTL.
LockIsReleased == \A r \in Runs : (lock = r) ~> (lock # r \/ pc[r] = "dead")

\* A run that was started ends: neither the loops over what it loaded nor the
\* lock keep it from finishing.
RunsEnd == \A r \in Runs : (pc[r] # "idle") ~> Over(r)

-----------------------------------------------------------------------------
(* The inductive invariant                                                 *)

\* Until a run outlives its TTL, the key in Redis is that of the one busy run.
LockIsHeld == ~overran => \A r \in Runs : Busy(r) => lock = r

\* No run decides a record twice.
OneOfEachRun ==
    \A x, y \in results :
        x.type = y.type /\ x.record = y.record /\ x.by = y.by => x = y

\* Between a result and its audit entry a run remembers that result only.
CurrentIsLast ==
    \A r \in Runs :
        /\ \A x, y \in current[r] : x = y
        /\ \A x \in current[r] : x.by = r
        /\ pc[r] \notin {"audit", "point", "auditLedger", "dead"} => current[r] = {}
        /\ pc[r] = "point" => current[r] # {}

\* The payments a run is deciding were decided by nobody else.
PaymentsAreFresh ==
    ~overran => \A r \in Runs : pc[r] \in {"group", "settle", "audit"} =>
        \A p \in payments[r] : \A x \in RowsOf("payment", p.id) : x.by = r

\* A match of a ledger line is about to be pointed to, unless its run died, or
\* it has been.
MatchesArePointed ==
    \A x \in results : LedgerMatch(x) =>
        /\ x.to \in {p.id : p \in AllPayments}
        /\ \/ pc[x.by] \in {"point", "dead"} /\ x \in current[x.by]
           \/ \A l \in AllLedger : l.id = x.record => pointer[l] # NoPayment

PointIsForMatches ==
    \A r \in Runs : pc[r] = "point" => \A x \in current[r] : LedgerMatch(x)

\* The ledger lines a run has still to decide point nowhere, as when it loaded them.
LedgerIsFresh ==
    ~overran => \A r \in Runs :
        pc[r] \in {"loadLedgerPayments", "settleLedger", "point", "auditLedger"} =>
            \A l \in LinesLeft(r) : pointer[l] = NoPayment

\* What a run loaded is in the tables, and the payments are in its window.
SlicesAreStored ==
    \A r \in Runs :
        /\ payments[r] \subseteq paymentRows
        /\ \A c \in candidates[r] : c \in lineRows /\ c.method = method[r]
        /\ pc[r] \in {"group", "settle", "audit"} =>
              \A p \in payments[r] : Within(p.captured, Start(r), end[r])

IInv ==
    /\ TypeOK /\ LockIsHeld /\ OneOfEachRun /\ CurrentIsLast
    /\ PaymentsAreFresh /\ MatchesArePointed /\ PointIsForMatches /\ LedgerIsFresh
    /\ SlicesAreStored
=============================================================================
