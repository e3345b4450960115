-------------------------- MODULE AuditChainProofs --------------------------
(***************************************************************************)
(* The audit chain stays intact for every number of writers, calls and     *)
(* faults.                                                                 *)
(***************************************************************************)
EXTENDS AuditChain, TLAPS

\* A sealed row is a row: Seal (audit.Seal) maps a hash and a body to a hash.
LEMMA SealedRowType ==
    ASSUME NEW prev \in Hash, NEW b \in Bodies
    PROVE  SealedRow(prev, b) \in Row
BY DEF SealedRow, Seal, Row, Hash

\* The hash the next entry must carry is a hash, for every prefix of the table.
LEMMA HeadHashType ==
    ASSUME NEW s \in Seq(Row), NEW n \in 0..Len(s)
    PROVE  HeadHash(s, n) \in Hash
<1>1. CASE n = 0
  BY <1>1 DEF HeadHash, EmptyHash, Hash
<1>2. CASE n # 0
  <2>1. s[n] \in Row
    BY <1>2
  <2> QED
    BY <1>2, <2>1 DEF HeadHash, Row
<1> QED
  BY <1>1, <1>2

\* Appending a row to audit_log leaves the hash of every earlier prefix alone.
LEMMA AppendKeepsHeads ==
    ASSUME NEW s \in Seq(Row), NEW r \in Row, NEW n \in 0..Len(s)
    PROVE  HeadHash(Append(s, r), n) = HeadHash(s, n)
BY DEF HeadHash

\* The row a scan falls back to is a row of the table, or 0 in an empty one.
LEMMA ReachedRowType ==
    ASSUME TypeOK, NEW w \in Writers
    PROVE  ReachedRow(w) \in 0..Len(log)
BY DEF ReachedRow, TypeOK

\* Type correctness of the model of WriteAuditEntry.
THEOREM TypeCorrect == Spec => []TypeOK
<1>1. Init => TypeOK
  BY DEF Init, TypeOK, EmptyHash, Hash
<1>2. TypeOK /\ [Next]_vars => TypeOK'
  <2> SUFFICES ASSUME TypeOK, [Next]_vars
               PROVE  TypeOK'
    OBVIOUS
  <2> USE DEF TypeOK
  <2>1. ASSUME NEW w \in Writers, NEW b \in Bodies, Begin(w, b)
        PROVE  TypeOK'
    BY <2>1 DEF Begin, ScanRow
  <2>2. ASSUME NEW w \in Writers, ReadPrevious(w)
        PROVE  TypeOK'
    <3>1. ReachedRow(w) \in 0..Len(log)
      BY ReachedRowType
    <3>2. HeadHash(log, ReachedRow(w)) \in Hash
      BY <3>1, HeadHashType
    <3> QED
      BY <2>2, <3>1, <3>2 DEF ReadPrevious
  <2>3. ASSUME NEW w \in Writers, Insert(w)
        PROVE  TypeOK'
    BY <2>3 DEF Insert
  <2>4. ASSUME NEW w \in Writers, Commit(w)
        PROVE  TypeOK'
    <3>1. SealedRow(previous[w], body[w]) \in Row
      BY SealedRowType
    <3>2. log' \in Seq(Row)
      BY <2>4, <3>1 DEF Commit
    <3> QED
      BY <2>4, <3>2 DEF Commit
  <2>5. ASSUME NEW w \in Writers, DeadlockVictim(w)
        PROVE  TypeOK'
    BY <2>5 DEF DeadlockVictim, Rollback
  <2>6. ASSUME NEW w \in Writers, Fault(w)
        PROVE  TypeOK'
    BY <2>6 DEF Fault, Rollback
  <2>7. CASE UNCHANGED vars
    BY <2>7 DEF vars
  <2> QED
    BY <2>1, <2>2, <2>3, <2>4, <2>5, <2>6, <2>7 DEF Next, Proceed
<1> QED
  BY <1>1, <1>2, PTL DEF Spec

-----------------------------------------------------------------------------
\* Begin (BeginTx and the start of the locking scan) preserves the invariant:
\* the scan stops at the uncommitted row if there is one.
LEMMA BeginPreserves ==
    ASSUME TypeOK, IInv, NEW w \in Writers, NEW b \in Bodies, Begin(w, b)
    PROVE  IInv'
<1> USE DEF TypeOK
<1>1. ChainLinked' /\ ReadIsCurrent'
  BY DEF IInv, ChainLinked, ReadIsCurrent, Begin
<1>2. ScanIsCurrent'
  BY DEF IInv, ScanIsCurrent, Begin, ScanRow
<1>3. ASSUME NEW v \in Writers, NEW u \in Writers, pc'[v] = "inserted", v # u
      PROVE  pc'[u] = "idle" \/ (pc'[u] = "scan" /\ target'[u] = Len(log') + 1)
  <2>1. pc[v] = "inserted" /\ v # w
    BY <1>3 DEF Begin
  <2>2. CASE u = w
    <3>1. ScanRow = Len(log) + 1
      BY <2>1 DEF ScanRow, Inserting
    <3> QED
      BY <2>2, <3>1 DEF Begin
  <2>3. CASE u # w
    BY <1>3, <2>1, <2>3 DEF IInv, InsertIsAlone, Begin
  <2> QED
    BY <2>2, <2>3
<1> QED
  BY <1>1, <1>2, <1>3 DEF IInv, InsertIsAlone

\* The SELECT ... FOR UPDATE returns the hash of the last committed row.
LEMMA ReadPreviousPreserves ==
    ASSUME TypeOK, IInv, NEW w \in Writers, ReadPrevious(w)
    PROVE  IInv'
<1> USE DEF TypeOK
<1>1. ReachedRow(w) = Len(log)
  BY DEF IInv, ScanIsCurrent, ReadPrevious, ReachedRow
<1>2. \A v \in Writers : pc[v] # "inserted"
  <2> SUFFICES ASSUME NEW v \in Writers, pc[v] = "inserted"
               PROVE  FALSE
    OBVIOUS
  <2>1. v # w /\ target[w] > Len(log)
    BY DEF IInv, InsertIsAlone, ReadPrevious
  <2>2. v \in RowHolders(w)
    BY <2>1 DEF RowHolders
  <2> QED
    BY <2>2 DEF ReadPrevious
<1>3. ChainLinked'
  BY DEF IInv, ChainLinked, ReadPrevious
<1>4. ReadIsCurrent'
  BY <1>1 DEF IInv, ReadIsCurrent, ReadPrevious
<1>5. ScanIsCurrent'
  BY DEF IInv, ScanIsCurrent, ReadPrevious
<1>6. InsertIsAlone'
  BY <1>2 DEF InsertIsAlone, ReadPrevious
<1> QED
  BY <1>3, <1>4, <1>5, <1>6 DEF IInv

\* An INSERT is granted only when nobody else holds the gap.
LEMMA InsertPreserves ==
    ASSUME TypeOK, IInv, NEW w \in Writers, Insert(w)
    PROVE  IInv'
<1> USE DEF TypeOK
<1>1. \A v \in Writers \ {w} : pc[v] = "idle"
  BY DEF Insert, GapBlockers, GapHolders, Active
<1>2. ChainLinked' /\ ReadIsCurrent' /\ ScanIsCurrent'
  BY DEF IInv, ChainLinked, ReadIsCurrent, ScanIsCurrent, Insert
<1>3. InsertIsAlone'
  BY <1>1 DEF InsertIsAlone, Insert
<1> QED
  BY <1>2, <1>3 DEF IInv

\* A commit extends the chain by a row sealed against the last hash.
LEMMA CommitPreserves ==
    ASSUME TypeOK, IInv, NEW w \in Writers, Commit(w)
    PROVE  IInv'
<1> DEFINE r == SealedRow(previous[w], body[w])
<1> USE DEF TypeOK
<1>1. r \in Row
  BY SealedRowType
<1>2. log' = Append(log, r) /\ Len(log') = Len(log) + 1 /\ Len(log) \in Nat
  BY <1>1 DEF Commit
<1>3. previous[w] = HeadHash(log, Len(log))
  BY DEF IInv, ReadIsCurrent, Commit
<1>4. \A n \in 0..Len(log) : HeadHash(log', n) = HeadHash(log, n)
  BY <1>1, <1>2, AppendKeepsHeads
<1>5. \A v \in Writers \ {w} :
          \/ pc[v] = "idle"
          \/ pc[v] = "scan" /\ target[v] = Len(log) + 1
  BY DEF IInv, InsertIsAlone, Commit
<1>6. ChainLinked'
  <2> SUFFICES ASSUME NEW i \in 1..Len(log')
               PROVE  /\ log'[i].previousHash = HeadHash(log', i - 1)
                      /\ log'[i].rowHash = Seal(log'[i].previousHash, log'[i].body)
    BY DEF ChainLinked
  <2>0. i - 1 \in 0..Len(log)
    BY <1>2
  <2>1. CASE i \in 1..Len(log)
    <3>1. log'[i] = log[i]
      BY <1>1, <1>2, <2>1
    <3> QED
      BY <1>4, <2>0, <2>1, <3>1 DEF IInv, ChainLinked
  <2>2. CASE i = Len(log) + 1
    <3>1. log'[i] = r
      BY <1>1, <1>2, <2>2
    <3>2. HeadHash(log', i - 1) = previous[w]
      BY <1>2, <1>3, <1>4, <2>0, <2>2
    <3> QED
      BY <3>1, <3>2 DEF SealedRow
  <2> QED
    BY <1>2, <2>1, <2>2
<1>7. ReadIsCurrent'
  BY <1>5 DEF ReadIsCurrent, Commit
<1>8. ScanIsCurrent'
  BY <1>2, <1>5 DEF ScanIsCurrent, Commit
<1>9. InsertIsAlone'
  BY <1>5 DEF InsertIsAlone, Commit
<1> QED
  BY <1>6, <1>7, <1>8, <1>9 DEF IInv

\* The deferred Rollback leaves the table and the other transactions alone.
LEMMA RollbackPreserves ==
    ASSUME TypeOK, IInv, NEW w \in Writers, Rollback(w)
    PROVE  IInv'
BY DEF TypeOK, IInv, ChainLinked, ReadIsCurrent, ScanIsCurrent,
       InsertIsAlone, Rollback

-----------------------------------------------------------------------------
\* The inductive invariant of the writers holds in every reachable state.
THEOREM Inductive == Spec => []IInv
<1>1. Init => IInv
  BY DEF Init, IInv, ChainLinked, ReadIsCurrent, ScanIsCurrent, InsertIsAlone
<1>2. TypeOK /\ IInv /\ [Next]_vars => IInv'
  <2> SUFFICES ASSUME TypeOK, IInv, [Next]_vars
               PROVE  IInv'
    OBVIOUS
  <2>1. ASSUME NEW w \in Writers, NEW b \in Bodies, Begin(w, b)
        PROVE  IInv'
    BY <2>1, BeginPreserves
  <2>2. ASSUME NEW w \in Writers, Proceed(w)
        PROVE  IInv'
    BY <2>2, ReadPreviousPreserves, InsertPreserves, CommitPreserves DEF Proceed
  <2>3. ASSUME NEW w \in Writers, DeadlockVictim(w) \/ Fault(w)
        PROVE  IInv'
    BY <2>3, RollbackPreserves DEF DeadlockVictim, Fault
  <2>4. CASE UNCHANGED vars
    BY <2>4 DEF vars, IInv, ChainLinked, ReadIsCurrent, ScanIsCurrent,
                InsertIsAlone
  <2> QED
    BY <2>1, <2>2, <2>3, <2>4 DEF Next
<1> QED
  BY <1>1, <1>2, TypeCorrect, PTL DEF Spec

\* For any number of concurrent WriteAuditEntry calls the chain never forks:
\* audit.Verify accepts audit_log in every reachable state.
THEOREM ChainNeverForks == Spec => []ChainIntact
<1>1. IInv => ChainIntact
  BY DEF IInv, ChainLinked, ChainIntact, Verify, Breaks
<1> QED
  BY <1>1, Inductive, PTL

\* No two transactions hold an uncommitted audit row at once, so audit_log ids
\* and commits have the same order.
THEOREM InsertsAreExclusive == Spec => []OneOpenInsert
<1>1. IInv => OneOpenInsert
  BY DEF IInv, InsertIsAlone, OneOpenInsert, Inserting
<1> QED
  BY <1>1, Inductive, PTL

\* Every step of the transaction is, to the caller, a call, one atomic append, a
\* failure or nothing.
LEMMA StepsImplement ==
    ASSUME TypeOK, IInv, [Next]_vars
    PROVE  [Promise!Next]_(Promise!vars)
<1> USE DEF TypeOK
<1>1. ASSUME NEW w \in Writers, NEW b \in Bodies, Begin(w, b)
      PROVE  Promise!Next
  <2>1. Asked[w] = << >> /\ Asked' = [Asked EXCEPT ![w] = <<b>>] /\ log' = log
    BY <1>1 DEF Begin, Asked
  <2> QED
    BY <2>1 DEF Promise!Next, Promise!Call
<1>2. ASSUME NEW w \in Writers, ReadPrevious(w) \/ Insert(w)
      PROVE  UNCHANGED Promise!vars
  <2>1. log' = log /\ Asked' = Asked
    BY <1>2 DEF ReadPrevious, Insert, Asked
  <2> QED
    BY <2>1 DEF Promise!vars
<1>3. ASSUME NEW w \in Writers, Commit(w)
      PROVE  Promise!Next
  <2>1. Asked[w] = <<body[w]>> /\ Asked' = [Asked EXCEPT ![w] = << >>]
    BY <1>3 DEF Commit, Asked
  <2>2. log' = Append(log, SealedRow(HeadHash(log, Len(log)), body[w]))
    BY <1>3 DEF Commit, IInv, ReadIsCurrent
  <2>3. log' = Append(log, Promise!SealedRow(Promise!HeadHash(log, Len(log)), body[w]))
    BY <2>2 DEF SealedRow, Seal, HeadHash, EmptyHash, Promise!SealedRow, Promise!Seal,
                Promise!HeadHash, Promise!EmptyHash
  <2>4. Asked[w] # << >> /\ Asked[w][1] = body[w]
    BY <2>1
  <2> QED
    BY <2>1, <2>3, <2>4 DEF Promise!Next, Promise!AppendEntry
<1>4. ASSUME NEW w \in Writers, DeadlockVictim(w) \/ Fault(w)
      PROVE  Promise!Next
  <2>1. pc[w] # "idle"
    BY <1>4 DEF DeadlockVictim, Deadlocked, WaitsFor, Fault
  <2>2. Asked[w] # << >> /\ Asked' = [Asked EXCEPT ![w] = << >>] /\ log' = log
    BY <1>4, <2>1 DEF DeadlockVictim, Fault, Rollback, Asked
  <2> QED
    BY <2>2 DEF Promise!Next, Promise!Fail
<1>5. CASE UNCHANGED vars
  BY <1>5 DEF vars, Asked, Promise!vars
<1> QED
  BY <1>1, <1>2, <1>3, <1>4, <1>5 DEF Next, Proceed

\* To any number of callers WriteAuditEntry is an atomic append that may fail,
\* whatever the locks, the deadlocks and the faults.
THEOREM Implements == Spec => RefinesAuditAppend
<1>1. Init => Promise!Init
  BY DEF Init, Asked, Promise!Init
<1>2. TypeOK /\ IInv /\ [Next]_vars => [Promise!Next]_(Promise!vars)
  BY StepsImplement
<1> QED
  BY <1>1, <1>2, TypeCorrect, Inductive, PTL DEF Spec, RefinesAuditAppend, Promise!Spec
=============================================================================
