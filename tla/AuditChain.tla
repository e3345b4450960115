----------------------------- MODULE AuditChain -----------------------------
(***************************************************************************)
(* The hash-chained audit_log table and its only writer,                   *)
(* MySQLStore.WriteAuditEntry (internal/store/mysql.go), run by any number *)
(* of concurrent callers: ingestion handlers, the queue poller and         *)
(* matching-engine runs.                                                   *)
(*                                                                         *)
(* WriteAuditEntry opens a transaction, reads the last row_hash with       *)
(*     SELECT row_hash ... ORDER BY id DESC LIMIT 1 FOR UPDATE             *)
(* seals the new entry against it, inserts it and commits.  The code takes *)
(* no lock of its own: what serialises the writers is InnoDB under the     *)
(* default REPEATABLE READ isolation (BeginTx is given no level):          *)
(*   - the descending scan locks the gap after the last row; gap locks     *)
(*     never wait for one another;                                         *)
(*   - it then locks the last row exclusively, waiting for a writer that   *)
(*     holds it or that inserted it and has not committed;                 *)
(*   - an INSERT at the end waits for every other holder of that gap;      *)
(*   - a cycle of waits is broken by rolling one transaction back.         *)
(*                                                                         *)
(* The uncommitted row of a writer is kept beside the table (pc[w] is      *)
(* "inserted"); OneOpenInsert shows there is never more than one, so the   *)
(* order of commits is the order of ids.                                   *)
(***************************************************************************)
EXTENDS AuditHash

CONSTANTS
    Writers,    \* concurrent callers of WriteAuditEntry
    MaxCalls,   \* bound: calls of WriteAuditEntry
    MaxFaults   \* bound: connection losses, timeouts and crashes

ASSUME BoundsAssumption == MaxCalls \in Nat /\ MaxFaults \in Nat

VARIABLES
    log,        \* the committed rows of audit_log in id order
    pc,         \* where each writer is inside WriteAuditEntry
    body,       \* the entry each writer is to append
    target,     \* the row each writer's scan stopped at, or has locked; 0: none
    previous,   \* the previousHash each writer has read
    calls,      \* calls made so far
    faults      \* faults so far

vars == <<log, pc, body, target, previous, calls, faults>>

-----------------------------------------------------------------------------
(* InnoDB's locks, as the statements of WriteAuditEntry take them          *)

Active == {w \in Writers : pc[w] # "idle"}

\* Every transaction that has begun its scan holds the gap after the last row.
GapHolders == Active

Inserting == {w \in Writers : pc[w] = "inserted"}

\* The row a descending scan meets first: an uncommitted row counts.
ScanRow == IF Inserting = {} THEN Len(log) ELSE Len(log) + 1

\* The row a scan that stopped at `target` gets: the one before it when the
\* uncommitted row it stopped at has been rolled back.
ReachedRow(w) == IF target[w] <= Len(log) THEN target[w] ELSE Len(log)

\* The transactions w must wait for before it can lock the row it scanned to.
RowHolders(w) ==
    {v \in Writers \ {w} :
        \/ pc[v] = "inserted" /\ target[w] > Len(log)
        \/ pc[v] = "read" /\ target[v] = ReachedRow(w) /\ target[v] # 0}

\* The transactions an INSERT at the end of the table waits for.
GapBlockers(w) == GapHolders \ {w}

WaitsFor(w) ==
    CASE pc[w] = "scan" -> RowHolders(w)
      [] pc[w] = "read" -> GapBlockers(w)
      [] OTHER          -> {}

\* Every cycle of waits has two transactions that wait for each other.
Deadlocked(w) == \E v \in WaitsFor(w) : w \in WaitsFor(v)

-----------------------------------------------------------------------------
(* WriteAuditEntry, statement by statement                                 *)

Init ==
    /\ log = << >>
    /\ pc = [w \in Writers |-> "idle"]
    /\ body \in [Writers -> Bodies]
    /\ target = [w \in Writers |-> 0]
    /\ previous = [w \in Writers |-> EmptyHash]
    /\ calls = 0
    /\ faults = 0

\* BeginTx, and the SELECT ... FOR UPDATE as far as the gap lock.
Begin(w, b) ==
    /\ pc[w] = "idle"
    /\ calls < MaxCalls
    /\ pc' = [pc EXCEPT ![w] = "scan"]
    /\ body' = [body EXCEPT ![w] = b]
    /\ target' = [target EXCEPT ![w] = ScanRow]
    /\ calls' = calls + 1
    /\ UNCHANGED <<log, previous, faults>>

\* Mutant: a plain SELECT, without FOR UPDATE.
ReadWithoutRowLock(w) ==
    /\ pc[w] = "scan"
    /\ pc' = [pc EXCEPT ![w] = "read"]
    /\ target' = [target EXCEPT ![w] = Len(log)]
    /\ previous' = [previous EXCEPT ![w] = HeadHash(log, Len(log))]
    /\ UNCHANGED <<log, body, calls, faults>>

\* The SELECT returns: the last row is locked and its hash has been read.
\* An empty table gives sql.ErrNoRows, which is not an error here.
ReadPrevious(w) ==
    /\ pc[w] = "scan"
    /\ RowHolders(w) = {}
    /\ pc' = [pc EXCEPT ![w] = "read"]
    /\ target' = [target EXCEPT ![w] = ReachedRow(w)]
    /\ previous' = [previous EXCEPT ![w] = HeadHash(log, ReachedRow(w))]
    /\ UNCHANGED <<log, body, calls, faults>>

\* Mutant: no gap locks, as under READ COMMITTED.
InsertWithoutGapLock(w) ==
    /\ pc[w] = "read"
    /\ pc' = [pc EXCEPT ![w] = "inserted"]
    /\ UNCHANGED <<log, body, target, previous, calls, faults>>

\* The entry is sealed and inserted.
Insert(w) ==
    /\ pc[w] = "read"
    /\ GapBlockers(w) = {}
    /\ pc' = [pc EXCEPT ![w] = "inserted"]
    /\ UNCHANGED <<log, body, target, previous, calls, faults>>

\* The row becomes visible.  A COMMIT whose answer is lost does the same to
\* the table; only the caller sees an error.
Commit(w) ==
    /\ pc[w] = "inserted"
    /\ log' = Append(log, SealedRow(previous[w], body[w]))
    /\ pc' = [pc EXCEPT ![w] = "idle"]
    /\ UNCHANGED <<body, target, previous, calls, faults>>

\* The deferred Rollback: the transaction ends and leaves nothing behind.
Rollback(w) ==
    /\ pc' = [pc EXCEPT ![w] = "idle"]
    /\ UNCHANGED <<log, body, target, previous, calls>>

\* Mutant: no deadlock detection.
NoVictim(w) == FALSE /\ UNCHANGED vars

\* Mutant: every transaction of a deadlock is rolled back.
AllVictims(w) ==
    /\ Deadlocked(w)
    /\ pc' = [v \in Writers |-> IF Deadlocked(v) THEN "idle" ELSE pc[v]]
    /\ UNCHANGED <<log, body, target, previous, calls, faults>>

\* InnoDB picks w as the victim of a deadlock: the waiting statement fails and
\* WriteAuditEntry returns the error without trying again.
DeadlockVictim(w) ==
    /\ Deadlocked(w)
    /\ Rollback(w)
    /\ UNCHANGED faults

\* A lost connection, a lock wait timeout, a cancelled context or a crash.
Fault(w) ==
    /\ pc[w] # "idle"
    /\ faults < MaxFaults
    /\ Rollback(w)
    /\ faults' = faults + 1

\* One step of writer w that needs no new call and no fault.
Proceed(w) == ReadPrevious(w) \/ Insert(w) \/ Commit(w)

Next ==
    \E w \in Writers :
        \/ \E b \in Bodies : Begin(w, b)
        \/ Proceed(w)
        \/ DeadlockVictim(w)
        \/ Fault(w)

Spec == Init /\ [][Next]_vars

(***************************************************************************)
(* A statement that need not wait is executed, and the deadlock detector   *)
(* (on by default) breaks every cycle.  Nobody is obliged to call.         *)
(***************************************************************************)
Fairness ==
    /\ \A w \in Writers : WF_vars(Proceed(w))
    /\ WF_vars(\E w \in Writers : DeadlockVictim(w))

FairSpec == Spec /\ Fairness

-----------------------------------------------------------------------------
(* Properties                                                              *)

\* Type correctness of the table and of the writers' local state.
TypeOK ==
    /\ log \in Seq(Row)
    /\ pc \in [Writers -> {"idle", "scan", "read", "inserted"}]
    /\ body \in [Writers -> Bodies]
    /\ target \in [Writers -> Nat]
    /\ previous \in [Writers -> Hash]
    /\ calls \in Nat
    /\ faults \in Nat

\* The chain never forks or breaks: whatever the interleaving of concurrent
\* WriteAuditEntry calls, deadlock victims and faults, audit.Verify accepts the
\* committed table ("the hash chain cannot fork under concurrent writers").
ChainIntact == Verify(log) = -1

\* Two transactions never hold an uncommitted audit row at the same time, so
\* the rows become visible in the order of their ids.
OneOpenInsert == \A v, w \in Inserting : v = w

\* For its callers WriteAuditEntry is one atomic append that may fail: the
\* transaction of several statements implements AuditAppend.
Asked == [w \in Writers |-> IF pc[w] = "idle" THEN << >> ELSE <<body[w]>>]

Promise == INSTANCE AuditAppend WITH pending <- Asked

RefinesAuditAppend == Promise!Spec

\* Every call of WriteAuditEntry returns: no wait for a row or gap lock lasts
\* for ever, although the scan-then-insert pattern deadlocks routinely.
CallsReturn == \A w \in Writers : (pc[w] # "idle") ~> (pc[w] = "idle")

\* Deadlock resolution never sacrifices every writer: when nothing fails, any
\* group of concurrent calls leaves at least one more row in the table.
SomeoneCommits ==
    \A n \in 0..MaxCalls, k \in 0..MaxFaults :
        (Active # {} /\ Len(log) = n /\ faults = k) ~> (Len(log) > n \/ faults > k)

-----------------------------------------------------------------------------
(***************************************************************************)
(* The inductive invariant behind ChainIntact.  A writer that has read the *)
(* last hash keeps it current: the log grows only by the commit of a       *)
(* writer that inserted while nobody else held the gap, and whoever scans  *)
(* after that insert waits for the new row.                                *)
(***************************************************************************)
ChainLinked ==
    \A i \in 1..Len(log) :
        /\ log[i].previousHash = HeadHash(log, i - 1)
        /\ log[i].rowHash = Seal(log[i].previousHash, log[i].body)

ReadIsCurrent ==
    \A w \in Writers :
        pc[w] \in {"read", "inserted"} => previous[w] = HeadHash(log, Len(log))

ScanIsCurrent ==
    \A w \in Writers :
        pc[w] = "scan" => target[w] \in {Len(log), Len(log) + 1}

InsertIsAlone ==
    \A v, w \in Writers :
        pc[v] = "inserted" /\ v # w =>
            \/ pc[w] = "idle"
            \/ pc[w] = "scan" /\ target[w] = Len(log) + 1

IInv == ChainLinked /\ ReadIsCurrent /\ ScanIsCurrent /\ InsertIsAlone

=============================================================================
