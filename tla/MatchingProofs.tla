--------------------------- MODULE MatchingProofs ---------------------------
(***************************************************************************)
(* Proofs about MatchingEngine for any set of runs and records, any window *)
(* and any number of crashes and overrun locks.                            *)
(***************************************************************************)
EXTENDS MatchingEngine, FiniteSetTheorems, TLAPS

\* Most leaves are first-order: Zenon is asked before the SMT solver.
USE ZenonT(5), SMTT(10)

-----------------------------------------------------------------------------
(* What the tiers decide                                                   *)

\* A tier that found one candidate takes that one and there is no other.
LEMMA SingleFacts ==
    ASSUME NEW S, IsFiniteSet(S), Single(S)
    PROVE  S = {The(S)}
<1>1. PICK x : S = {x}
  BY FS_Singleton DEF Single
<1>2. The(S) = x
  BY <1>1 DEF The
<1> QED
  BY <1>1, <1>2

\* A payment is matched by the one candidate of Tier 1, or by the one candidate
\* of Tier 2, or gets one of three exceptions.
LEMMA PaymentDecision ==
    ASSUME NEW p, NEW C \in SUBSET AllLines, NEW d \in DecidePayment(p, C)
    PROVE  \/ \E t \in C : d = Match("TIER1_EXACT", t.id) /\ Tier1(p, C) = {t}
           \/ \E t \in C : d = Match("TIER2_BOUNDED_ID", t.id) /\ Tier2(p, C) = {t}
           \/ \E reason \in {"MULTI_CANDIDATE_AMBIGUOUS", "NO_CANDIDATE_IN_WINDOW",
                             "AMOUNT_MISMATCH_UNEXPLAINED"} : d = Exception(reason)
<1>1. /\ Tier1(p, C) \subseteq C /\ IsFiniteSet(Tier1(p, C))
      /\ Tier2(p, C) \subseteq C /\ IsFiniteSet(Tier2(p, C))
  <2>1. Tier1(p, C) \subseteq C /\ Tier2(p, C) \subseteq C
    BY DEF Tier1, Tier2
  <2> QED
    BY <2>1, RecordsAssumption, FS_Subset
<1>2. CASE Single(Tier1(p, C))
  <2>1. d = Match("TIER1_EXACT", The(Tier1(p, C)).id)
    BY <1>2 DEF DecidePayment
  <2> QED
    BY <1>1, <1>2, <2>1, SingleFacts
<1>3. CASE ~Single(Tier1(p, C)) /\ Single(Tier2(p, C))
  <2>1. d = Match("TIER2_BOUNDED_ID", The(Tier2(p, C)).id)
    BY <1>3 DEF DecidePayment
  <2> QED
    BY <1>1, <1>3, <2>1, SingleFacts
<1>4. CASE ~Single(Tier1(p, C)) /\ ~Single(Tier2(p, C))
  <2>1. d \in classifyAfterTier2(p, C)
    BY <1>4 DEF DecidePayment
  <2> QED
    BY <2>1 DEF classifyAfterTier2, ClassifyPayment
<1> QED
  BY <1>2, <1>3, <1>4

\* A ledger line is matched to the one payment of Tier L or gets one of two
\* exceptions.
LEMMA LedgerDecision ==
    ASSUME NEW l, NEW P \in SUBSET AllPayments
    PROVE  \/ \E p \in P : DecideLedger(l, P) = Match("TIERL_GROSS_EXACT", p.id)
           \/ \E reason \in {"LEDGER_AMOUNT_MISMATCH", "LEDGER_ORPHAN"} :
                 DecideLedger(l, P) = Exception(reason)
<1>1. TierL(l, P) \subseteq P
  BY DEF TierL
<1>2. IsFiniteSet(TierL(l, P))
  BY <1>1, RecordsAssumption, FS_Subset
<1>3. CASE Single(TierL(l, P))
  <2>1. The(TierL(l, P)) \in P
    BY <1>1, <1>2, <1>3, SingleFacts
  <2> QED
    BY <1>3, <2>1 DEF DecideLedger
<1>4. CASE ~Single(TierL(l, P))
  BY <1>4 DEF DecideLedger, ClassifyLedger
<1> QED
  BY <1>3, <1>4

-----------------------------------------------------------------------------
(* Type correctness                                                        *)

\* Each run has a program counter, a window and what it loaded.
LEMMA Domains ==
    ASSUME TypeOK
    PROVE  /\ DOMAIN pc = Runs /\ DOMAIN end = Runs /\ DOMAIN current = Runs
           /\ DOMAIN payments = Runs /\ DOMAIN method = Runs /\ DOMAIN candidates = Runs
           /\ DOMAIN ledger = Runs /\ DOMAIN ledgerPayments = Runs
BY DEF TypeOK

\* A result names the run that wrote it.
LEMMA Writers ==
    ASSUME TypeOK
    PROVE  \A x \in results : x.by \in Runs
BY DEF TypeOK, ResultType

\* The tables, and what a run holds of them.
LEMMA Holdings ==
    ASSUME TypeOK
    PROVE  /\ paymentRows \subseteq AllPayments /\ lineRows \subseteq AllLines
           /\ ledgerRows \subseteq AllLedger
           /\ \A r \in Runs : /\ payments[r] \subseteq AllPayments
                              /\ candidates[r] \subseteq AllLines
                              /\ ledger[r] \subseteq AllLedger
                              /\ ledgerPayments[r] \subseteq AllPayments
                              /\ current[r] \subseteq results /\ end[r] \in Nat
BY DEF TypeOK

\* The result a run writes for a payment, and what is in it.
LEMMA PaymentRow ==
    ASSUME TypeOK, NEW r \in Runs, SettlePayment(r)
    PROVE  \E p \in GroupLeft(r) : \E d \in DecidePayment(p, candidates[r]) :
              /\ p \in payments[r] /\ p \in AllPayments
              /\ results' = results \cup {Row(r, "payment", p.id, d)}
              /\ current' = [current EXCEPT ![r] = {Row(r, "payment", p.id, d)}]
              /\ Row(r, "payment", p.id, d) \in ResultType
<1>1. PICK p \in GroupLeft(r) : \E d \in DecidePayment(p, candidates[r]) :
         WriteResult(r, Row(r, "payment", p.id, d))
  BY DEF SettlePayment
<1> PICK d \in DecidePayment(p, candidates[r]) :
         WriteResult(r, Row(r, "payment", p.id, d))
  BY <1>1
<1>2. p \in payments[r] /\ p \in AllPayments /\ candidates[r] \in SUBSET AllLines
  BY <1>1, Holdings DEF GroupLeft, PaymentsLeft
<1>3. /\ d.kind \in {"match", "exception"}
      /\ d.rule \in {"TIER1_EXACT", "TIER2_BOUNDED_ID", "MULTI_CANDIDATE_AMBIGUOUS",
                     "NO_CANDIDATE_IN_WINDOW", "AMOUNT_MISMATCH_UNEXPLAINED"}
      /\ d.to \in {c.id : c \in AllLines} \cup {<< >>}
  BY <1>2, PaymentDecision DEF Match, Exception
<1>4. Row(r, "payment", p.id, d) \in ResultType
  BY <1>2, <1>3 DEF Row, ResultType
<1> QED
  BY <1>1, <1>2, <1>4 DEF WriteResult

\* The result a run writes for a ledger line, and what is in it.
LEMMA LedgerRow ==
    ASSUME TypeOK, NEW r \in Runs, SettleLedger(r)
    PROVE  \E l \in LinesLeft(r) :
              LET d == DecideLedger(l, ledgerPayments[r])
                  row == Row(r, "ledger", l.id, d)
              IN  /\ l \in ledger[r] /\ l \in AllLedger
                  /\ results' = results \cup {row}
                  /\ current' = [current EXCEPT ![r] = {row}]
                  /\ pc' = [pc EXCEPT ![r] = IF d.kind = "match" THEN "point" ELSE "auditLedger"]
                  /\ row \in ResultType
                  /\ row.kind = "match" => row.to \in {p.id : p \in AllPayments}
<1>1. PICK l \in LinesLeft(r) :
         LET d == DecideLedger(l, ledgerPayments[r]) IN
            /\ WriteResult(r, Row(r, "ledger", l.id, d))
            /\ Goto(r, IF d.kind = "match" THEN "point" ELSE "auditLedger")
  BY DEF SettleLedger
<1> DEFINE d == DecideLedger(l, ledgerPayments[r])
<1>2. l \in ledger[r] /\ l \in AllLedger /\ ledgerPayments[r] \in SUBSET AllPayments
  BY <1>1, Holdings DEF LinesLeft
<1>3. /\ d.kind \in {"match", "exception"}
      /\ d.rule \in {"TIERL_GROSS_EXACT", "LEDGER_AMOUNT_MISMATCH", "LEDGER_ORPHAN"}
      /\ d.to \in {p.id : p \in AllPayments} \cup {<< >>}
      /\ d.kind = "match" => d.to \in {p.id : p \in AllPayments}
  BY <1>2, LedgerDecision DEF Match, Exception
<1> HIDE DEF d
<1>4. /\ Row(r, "ledger", l.id, d) \in ResultType
      /\ Row(r, "ledger", l.id, d).kind = "match" =>
            Row(r, "ledger", l.id, d).to \in {p.id : p \in AllPayments}
  BY <1>2, <1>3 DEF Row, ResultType
<1> QED
  BY <1>1, <1>2, <1>4 DEF WriteResult, Goto, d

\* The world around the runs changes nothing they hold.
LEMMA WorldKeepsType ==
    ASSUME TypeOK, Ingest \/ Tick \/ Expire \/ UNCHANGED vars
    PROVE  TypeOK'
<1>1. CASE Ingest
  <2>1. /\ paymentRows' \subseteq AllPayments
        /\ lineRows' \subseteq AllLines /\ ledgerRows' \subseteq AllLedger
    BY <1>1 DEF Ingest, TypeOK
  <2> QED
    BY <1>1, <2>1 DEF Ingest, TypeOK, written, local, slices
<1>2. CASE Tick
  BY <1>2 DEF Tick, TypeOK, tables, written, local, slices
<1>3. CASE Expire
  <2>1. lock' \in Runs \cup {NoRun} /\ overran' \in BOOLEAN
    BY <1>3 DEF Expire, TypeOK
  <2> QED
    BY <1>3, <2>1 DEF Expire, TypeOK, tables, written, local, slices
<1>4. CASE UNCHANGED vars
  BY <1>4 DEF vars, TypeOK, tables, written, local, slices
<1> QED
  BY <1>1, <1>2, <1>3, <1>4

\* Steps of a run that load nothing and write nothing.
LEMMA MoveKeepsType ==
    ASSUME TypeOK, NEW r \in Runs,
           \/ Begin(r) \/ Die(r) \/ Acquire(r) \/ ReleaseGet(r) \/ ReleaseDel(r)
           \/ ReleaseFails(r) \/ SettlementSideDone(r) \/ LedgerSideDone(r)
    PROVE  TypeOK'
<1>1. UNCHANGED <<now, tables, written, slices, current, overran>>
  BY DEF Begin, Die, Acquire, ReleaseGet, ReleaseDel, ReleaseFails, SettlementSideDone,
         LedgerSideDone
<1>2. lock' \in Runs \cup {NoRun} /\ deaths' \in Nat
  BY DEF TypeOK, Begin, Die, Acquire, ReleaseGet, ReleaseDel, ReleaseFails,
         SettlementSideDone, LedgerSideDone
<1>3. /\ end' \in [Runs -> Nat]
      /\ pc' \in [Runs -> {"idle", "acquire", "loadPayments", "group", "settle", "audit",
                           "loadLedger", "loadLedgerPayments", "settleLedger", "point",
                           "auditLedger", "release", "delete", "done", "dead"}]
  BY DEF TypeOK, Begin, Die, Acquire, ReleaseGet, ReleaseDel, ReleaseFails,
         SettlementSideDone, LedgerSideDone, Goto
<1> QED
  BY <1>1, <1>2, <1>3 DEF TypeOK, tables, written, slices

\* Queries.
LEMMA LoadKeepsType ==
    ASSUME TypeOK, NEW r \in Runs,
           \/ LoadPayments(r) \/ (\E p \in AllPayments : LoadCandidates(r, p.method))
           \/ LoadLedger(r) \/ LoadLedgerPayments(r)
    PROVE  TypeOK'
<1>1. UNCHANGED <<now, tables, written, lock, end, current, deaths, overran>>
  BY DEF LoadPayments, LoadCandidates, LoadLedger, LoadLedgerPayments
<1>2. pc' \in [Runs -> {"idle", "acquire", "loadPayments", "group", "settle", "audit",
                        "loadLedger", "loadLedgerPayments", "settleLedger", "point",
                        "auditLedger", "release", "delete", "done", "dead"}]
  BY DEF TypeOK, LoadPayments, LoadCandidates, LoadLedger, LoadLedgerPayments, Goto
<1>3. /\ payments' \in [Runs -> SUBSET AllPayments]
      /\ method' \in [Runs -> {p.method : p \in AllPayments} \cup {"none"}]
      /\ candidates' \in [Runs -> SUBSET AllLines]
  <2>1. CASE LoadPayments(r)
    BY <2>1 DEF TypeOK, LoadPayments, PaymentsInWindow
  <2>2. ASSUME NEW p \in AllPayments, LoadCandidates(r, p.method)
        PROVE  /\ payments' \in [Runs -> SUBSET AllPayments]
               /\ method' \in [Runs -> {q.method : q \in AllPayments} \cup {"none"}]
               /\ candidates' \in [Runs -> SUBSET AllLines]
    BY <2>2 DEF TypeOK, LoadCandidates, SettlementCandidates
  <2>3. CASE LoadLedger(r) \/ LoadLedgerPayments(r)
    BY <2>3 DEF TypeOK, LoadLedger, LoadLedgerPayments
  <2> QED
    BY <2>1, <2>2, <2>3
<1>4. /\ ledger' \in [Runs -> SUBSET AllLedger]
      /\ ledgerPayments' \in [Runs -> SUBSET AllPayments]
  <2>1. CASE LoadLedger(r)
    BY <2>1 DEF TypeOK, LoadLedger, LedgerInWindow
  <2>2. CASE LoadLedgerPayments(r)
    BY <2>2 DEF TypeOK, LoadLedgerPayments, LedgerPayments, PaymentsInWindow
  <2>3. CASE LoadPayments(r) \/ \E p \in AllPayments : LoadCandidates(r, p.method)
    BY <2>3 DEF TypeOK, LoadPayments, LoadCandidates
  <2> QED
    BY <2>1, <2>2, <2>3
<1> QED
  BY <1>1, <1>2, <1>3, <1>4 DEF TypeOK, tables, written

\* Results, audit entries and pointers.
LEMMA WriteKeepsType ==
    ASSUME TypeOK, CurrentIsLast, MatchesArePointed, PointIsForMatches, NEW r \in Runs,
           \/ SettlePayment(r) \/ AuditPayment(r)
           \/ SettleLedger(r) \/ SetLedgerMatchedPayment(r) \/ AuditLedger(r)
    PROVE  TypeOK'
<1>1. UNCHANGED <<now, tables, lock, end, slices, deaths, overran>>
  BY DEF SettlePayment, AuditPayment, SettleLedger, SetLedgerMatchedPayment, AuditLedger
<1>2. pc' \in [Runs -> {"idle", "acquire", "loadPayments", "group", "settle", "audit",
                        "loadLedger", "loadLedgerPayments", "settleLedger", "point",
                        "auditLedger", "release", "delete", "done", "dead"}]
  <2>1. PICK l \in {"group", "settle", "audit", "settleLedger", "point", "auditLedger"} :
           pc' = [pc EXCEPT ![r] = l]
    BY DEF SettlePayment, AuditPayment, SettleLedger, SetLedgerMatchedPayment, AuditLedger, Goto
  <2> QED
    BY <2>1 DEF TypeOK
<1>3. ASSUME NEW row \in ResultType, results' = results \cup {row},
             current' = [current EXCEPT ![r] = {row}]
      PROVE  results' \subseteq ResultType /\ current' \in [Runs -> SUBSET results']
  BY <1>3 DEF TypeOK
<1>4. CASE SettlePayment(r)
  <2>1. results' \subseteq ResultType /\ current' \in [Runs -> SUBSET results']
    BY <1>3, <1>4, PaymentRow
  <2>2. UNCHANGED <<pointer, audited>> /\ audited \subseteq results'
    BY <1>4, PaymentRow DEF SettlePayment, TypeOK
  <2> QED
    BY <1>1, <1>2, <2>1, <2>2 DEF TypeOK, tables, slices
<1>5. CASE SettleLedger(r)
  <2>1. results' \subseteq ResultType /\ current' \in [Runs -> SUBSET results']
    BY <1>3, <1>5, LedgerRow
  <2>2. UNCHANGED <<pointer, audited>> /\ audited \subseteq results'
    BY <1>5, LedgerRow DEF SettleLedger, TypeOK
  <2> QED
    BY <1>1, <1>2, <2>1, <2>2 DEF TypeOK, tables, slices
<1>6. CASE AuditPayment(r) \/ AuditLedger(r)
  <2>1. /\ UNCHANGED <<pointer, results>> /\ audited' \subseteq results
        /\ current' \in [Runs -> SUBSET results]
    BY <1>6 DEF AuditPayment, AuditLedger, WriteAudit, TypeOK
  <2> QED
    BY <1>1, <1>2, <2>1 DEF TypeOK, tables, slices
<1>7. CASE SetLedgerMatchedPayment(r)
  <2>1. PICK x \in current[r] : x = CHOOSE y \in current[r] : TRUE
    BY <1>7 DEF SetLedgerMatchedPayment, CurrentIsLast
  <2>2. x.to \in {p.id : p \in AllPayments}
    BY <1>7, <2>1 DEF SetLedgerMatchedPayment, PointIsForMatches, MatchesArePointed, TypeOK
  <2>3. pointer' \in [AllLedger -> {p.id : p \in AllPayments} \cup {NoPayment}]
    BY <1>7, <2>1, <2>2 DEF SetLedgerMatchedPayment, TypeOK
  <2> QED
    BY <1>1, <1>2, <1>7, <2>3 DEF SetLedgerMatchedPayment, TypeOK, tables, slices
<1> QED
  BY <1>4, <1>5, <1>6, <1>7

-----------------------------------------------------------------------------
(* Steps preserve the inductive invariant                                  *)

\* Ingestion, time and the TTL: the tables grow, and a lock that expires under
\* a living run is remembered.
LEMMA WorldPreserves ==
    ASSUME IInv, Ingest \/ Tick \/ Expire \/ UNCHANGED vars
    PROVE  IInv'
<1> USE DEF IInv
<1>1. TypeOK'
  BY WorldKeepsType
<1>2. /\ UNCHANGED <<written, local>>
      /\ paymentRows \subseteq paymentRows' /\ lineRows \subseteq lineRows'
      /\ overran => overran'
  <2>1. CASE Expire
    <3>1. overran' = (overran \/ ~Over(lock))
      BY <2>1 DEF Expire
    <3>2. overran => overran'
      BY <3>1
    <3> QED
      BY <2>1, <3>2 DEF Expire, tables
  <2>2. CASE Ingest
    <3>1. overran => overran'
      BY <2>2 DEF Ingest
    <3> QED
      BY <2>2, <3>1 DEF Ingest
  <2>3. CASE Tick \/ UNCHANGED vars
    BY <2>3 DEF Tick, vars, tables
  <2> QED
    BY <2>1, <2>2, <2>3
<1>3. UNCHANGED <<pointer, results, audited, pc, end, payments, method, candidates, ledger,
                  ledgerPayments, current>>
  BY <1>2 DEF written, local, slices
<1>4. LockIsHeld'
  <2>1. CASE Expire
    BY <1>3, <2>1, EngineAssumption DEF Expire, LockIsHeld, Busy, Over
  <2>2. CASE Ingest \/ Tick \/ UNCHANGED vars
    BY <1>3, <2>2 DEF Ingest, Tick, vars, LockIsHeld, Busy
  <2> QED
    BY <2>1, <2>2
<1>5. OneOfEachRun' /\ CurrentIsLast' /\ PointIsForMatches'
  BY <1>3 DEF OneOfEachRun, CurrentIsLast, PointIsForMatches, LedgerMatch
<1>6. PaymentsAreFresh' /\ MatchesArePointed'
  BY <1>2, <1>3 DEF PaymentsAreFresh, MatchesArePointed, LedgerMatch, RowsOf
<1>8. LedgerIsFresh'
  BY <1>2, <1>3 DEF LedgerIsFresh, LinesLeft, RowsOf
<1>7. SlicesAreStored'
  BY <1>2, <1>3 DEF SlicesAreStored, Start
<1> QED
  BY <1>1, <1>4, <1>5, <1>6, <1>7, <1>8

\* Starting, locking, releasing, dying, and moving on when nothing is left.
LEMMA MovePreserves ==
    ASSUME IInv, NEW r \in Runs,
           \/ Begin(r) \/ Die(r) \/ Acquire(r) \/ ReleaseGet(r) \/ ReleaseDel(r)
           \/ ReleaseFails(r) \/ SettlementSideDone(r) \/ LedgerSideDone(r)
    PROVE  IInv'
<1> USE DEF IInv
<1>1. TypeOK'
  BY MoveKeepsType
<1>2. UNCHANGED <<tables, written, slices, current, overran>>
  BY DEF Begin, Die, Acquire, ReleaseGet, ReleaseDel, ReleaseFails, SettlementSideDone,
         LedgerSideDone
<1>3. UNCHANGED <<paymentRows, lineRows, pointer, results, audited, payments, method, candidates,
                  ledger, ledgerPayments, current, overran>>
  BY <1>2 DEF tables, written, slices
<1>4. PICK l \in {"acquire", "loadPayments", "loadLedger", "release", "delete", "done", "dead"} :
         /\ pc' = [pc EXCEPT ![r] = l]
         /\ l # "dead" => pc[r] \notin {"audit", "point", "auditLedger"}
         /\ pc[r] # "dead"
         /\ end' = end \/ (end' = [end EXCEPT ![r] = now] /\ l = "acquire")
  <2>1. CASE Begin(r) \/ Die(r) \/ Acquire(r)
    BY <2>1 DEF Begin, Die, Acquire, Goto
  <2>2. CASE ReleaseGet(r) \/ ReleaseDel(r) \/ ReleaseFails(r)
    BY <2>2 DEF ReleaseGet, ReleaseDel, ReleaseFails, Goto
  <2>3. CASE SettlementSideDone(r) \/ LedgerSideDone(r)
    BY <2>3 DEF SettlementSideDone, LedgerSideDone, Goto
  <2> QED
    BY <2>1, <2>2, <2>3
<1>5. \A s \in Runs \ {r} : pc'[s] = pc[s] /\ end'[s] = end[s]
  BY <1>4, Domains
<1>6. pc'[r] = l
  BY <1>4, Domains
<1>7. LockIsHeld'
  <2>1. CASE Begin(r) \/ Die(r)
    BY <1>3, <2>1, Domains DEF Begin, Die, Goto, LockIsHeld, Busy
  <2>2. CASE Acquire(r)
    BY <1>3, <2>2, EngineAssumption, Domains DEF Acquire, Goto, LockIsHeld, Busy
  <2>3. CASE ReleaseGet(r) \/ ReleaseDel(r) \/ ReleaseFails(r)
    BY <1>3, <2>3, Domains DEF ReleaseGet, ReleaseDel, ReleaseFails, Goto, LockIsHeld, Busy
  <2>4. CASE SettlementSideDone(r) \/ LedgerSideDone(r)
    BY <1>3, <2>4, Domains DEF SettlementSideDone, LedgerSideDone, Goto, LockIsHeld, Busy
  <2> QED
    BY <2>1, <2>2, <2>3, <2>4
<1>8. OneOfEachRun' /\ CurrentIsLast' /\ PointIsForMatches'
  BY <1>3, <1>4, <1>5, <1>6 DEF OneOfEachRun, CurrentIsLast, PointIsForMatches, LedgerMatch
<1>9. PaymentsAreFresh'
  BY <1>3, <1>5, <1>6 DEF PaymentsAreFresh, RowsOf
<1>10. MatchesArePointed'
  <2>1. \A s \in Runs : pc[s] = "dead" => pc'[s] = "dead"
    BY <1>4, <1>5
  <2>2. \A s \in Runs : pc[s] = "point" => pc'[s] \in {"point", "dead"}
    BY <1>4, <1>5, <1>6
  <2>3. \A x \in results : x.by \in Runs
    BY Writers
  <2> QED
    BY <1>3, <2>1, <2>2, <2>3 DEF MatchesArePointed, LedgerMatch
<1>11. LedgerIsFresh'
  BY <1>3, <1>5, <1>6 DEF LedgerIsFresh, LinesLeft, RowsOf
<1>12. SlicesAreStored'
  BY <1>3, <1>5, <1>6 DEF SlicesAreStored, Start
<1> QED
  BY <1>1, <1>7, <1>8, <1>9, <1>10, <1>11, <1>12

\* As long as no run outlives its TTL a busy run is alone.
LEMMA BusyIsAlone ==
    ASSUME LockIsHeld, ~overran
    PROVE  \A r, s \in Runs : Busy(r) /\ Busy(s) => r = s
BY DEF LockIsHeld

\* Queries: what a run loads is stored, in its window, and undecided.
LEMMA LoadPreserves ==
    ASSUME IInv, NEW r \in Runs,
           \/ LoadPayments(r) \/ (\E p \in AllPayments : LoadCandidates(r, p.method))
           \/ LoadLedger(r) \/ LoadLedgerPayments(r)
    PROVE  IInv'
<1> USE DEF IInv
<1>1. TypeOK'
  BY LoadKeepsType
<1>2. UNCHANGED <<paymentRows, lineRows, pointer, results, audited, lock, end, current, overran>>
  BY DEF LoadPayments, LoadCandidates, LoadLedger, LoadLedgerPayments, tables, written
<1>3. PICK l \in {"group", "settle", "release", "loadLedgerPayments", "settleLedger"} :
         /\ pc' = [pc EXCEPT ![r] = l]
         /\ pc[r] \in {"loadPayments", "group", "loadLedger", "loadLedgerPayments"}
         /\ l = "group" => pc[r] = "loadPayments"
         /\ l = "settle" => pc[r] = "group"
         /\ l = "loadLedgerPayments" => pc[r] = "loadLedger"
         /\ l = "settleLedger" => pc[r] = "loadLedgerPayments"
  BY DEF LoadPayments, LoadCandidates, LoadLedger, LoadLedgerPayments, Goto
<1>4. pc'[r] = l /\ \A s \in Runs \ {r} : pc'[s] = pc[s]
  BY <1>3, Domains
<1>5. LockIsHeld'
  BY <1>2, <1>3, <1>4 DEF LockIsHeld, Busy
<1>6. OneOfEachRun' /\ CurrentIsLast' /\ PointIsForMatches'
  BY <1>2, <1>3, <1>4 DEF OneOfEachRun, CurrentIsLast, PointIsForMatches, LedgerMatch
<1>7. \A x \in results : /\ x.by \in Runs
                         /\ pc[x.by] \in {"dead", "point"} => pc'[x.by] = pc[x.by]
  BY <1>3, <1>4, Writers
<1>8. MatchesArePointed'
  BY <1>2, <1>7 DEF MatchesArePointed, LedgerMatch
<1>9. PaymentsAreFresh'
  <2>1. \A s \in Runs \ {r} : payments'[s] = payments[s]
    BY Domains DEF LoadPayments, LoadCandidates, LoadLedger, LoadLedgerPayments
  <2>2. CASE LoadPayments(r)
    <3>1. \A p \in payments'[r] : RowsOf("payment", p.id) = {}
      BY <2>2, Domains DEF LoadPayments
    <3> QED
      BY <1>2, <1>4, <2>1, <3>1 DEF PaymentsAreFresh, RowsOf
  <2>3. CASE ~LoadPayments(r)
    <3>1. payments' = payments /\ pc[r] # "loadPayments"
      BY <2>3 DEF LoadCandidates, LoadLedger, LoadLedgerPayments
    <3> QED
      BY <1>2, <1>3, <1>4, <3>1 DEF PaymentsAreFresh, RowsOf
  <2> QED
    BY <2>2, <2>3
<1>10. LedgerIsFresh'
  <2> SUFFICES ASSUME ~overran, NEW s \in Runs,
                      pc'[s] \in {"loadLedgerPayments", "settleLedger", "point", "auditLedger"},
                      NEW l1 \in LinesLeft(s)'
               PROVE  pointer[l1] = NoPayment
    BY <1>2 DEF LedgerIsFresh
  <2>1. CASE s # r \/ ~LoadLedger(r)
    <3>1. ledger'[s] = ledger[s]
      BY <2>1, Domains DEF LoadPayments, LoadCandidates, LoadLedger, LoadLedgerPayments
    <3>2. pc[s] \in {"loadLedgerPayments", "settleLedger", "point", "auditLedger"}
      BY <1>3, <1>4, <2>1 DEF LoadPayments, LoadCandidates, LoadLedgerPayments
    <3>3. l1 \in LinesLeft(s)
      BY <1>2, <3>1 DEF LinesLeft, RowsOf
    <3> QED
      BY <3>2, <3>3 DEF LedgerIsFresh
  <2>2. CASE s = r /\ LoadLedger(r)
    BY <2>2, Domains DEF LoadLedger, LinesLeft
  <2> QED
    BY <2>1, <2>2
<1>11. SlicesAreStored'
  <2>1. CASE LoadPayments(r)
    BY <1>2, <1>4, <2>1, Domains DEF LoadPayments, SlicesAreStored, PaymentsInWindow, Start
  <2>2. ASSUME NEW p \in AllPayments, LoadCandidates(r, p.method)
        PROVE  SlicesAreStored'
    BY <1>2, <1>3, <1>4, <2>2, Domains
       DEF LoadCandidates, SlicesAreStored, SettlementCandidates, Start
  <2>3. CASE LoadLedger(r) \/ LoadLedgerPayments(r)
    BY <1>2, <1>3, <1>4, <2>3, Domains DEF LoadLedger, LoadLedgerPayments, SlicesAreStored, Start
  <2> QED
    BY <2>1, <2>2, <2>3
<1> QED
  BY <1>1, <1>5, <1>6, <1>8, <1>9, <1>10, <1>11

\* Audit entries: the result is audited and the run forgets it.
LEMMA AuditPreserves ==
    ASSUME IInv, NEW r \in Runs, AuditPayment(r) \/ AuditLedger(r)
    PROVE  IInv'
<1> USE DEF IInv
<1>1. TypeOK'
  BY WriteKeepsType
<1>2. UNCHANGED <<paymentRows, lineRows, pointer, results, lock, end, payments, method,
                  candidates, ledger, ledgerPayments, overran>>
  BY DEF AuditPayment, AuditLedger, tables, slices
<1>3. PICK l \in {"group", "settle", "settleLedger"} :
         /\ pc' = [pc EXCEPT ![r] = l]
         /\ pc[r] = IF l = "settleLedger" THEN "auditLedger" ELSE "audit"
         /\ current' = [current EXCEPT ![r] = {}]
  BY DEF AuditPayment, AuditLedger, WriteAudit, Goto
<1>4. /\ pc'[r] = l /\ \A s \in Runs \ {r} : pc'[s] = pc[s]
      /\ current'[r] = {} /\ \A s \in Runs \ {r} : current'[s] = current[s]
  BY <1>3, Domains
<1>5. LockIsHeld'
  BY <1>2, <1>3, <1>4 DEF LockIsHeld, Busy
<1>6. OneOfEachRun' /\ CurrentIsLast' /\ PointIsForMatches'
  BY <1>2, <1>3, <1>4 DEF OneOfEachRun, CurrentIsLast, PointIsForMatches, LedgerMatch
<1>7. \A x \in results :
         /\ x.by \in Runs
         /\ pc[x.by] \in {"dead", "point"} => pc'[x.by] = pc[x.by] /\ current'[x.by] = current[x.by]
  BY <1>3, <1>4, Writers
<1>8. MatchesArePointed'
  BY <1>2, <1>7 DEF MatchesArePointed, LedgerMatch
<1>9. PaymentsAreFresh'
  BY <1>2, <1>3, <1>4 DEF PaymentsAreFresh, RowsOf
<1>10. LedgerIsFresh'
  BY <1>2, <1>3, <1>4 DEF LedgerIsFresh, LinesLeft, RowsOf
<1>11. SlicesAreStored'
  BY <1>2, <1>3, <1>4 DEF SlicesAreStored, Start
<1> QED
  BY <1>1, <1>5, <1>6, <1>8, <1>9, <1>10, <1>11

\* Deciding a payment: nobody decided it before, at least not this run.
LEMMA SettlePaymentPreserves ==
    ASSUME IInv, NEW r \in Runs, SettlePayment(r)
    PROVE  IInv'
<1> USE DEF IInv
<1>1. TypeOK'
  BY WriteKeepsType
<1>2. UNCHANGED <<paymentRows, lineRows, pointer, lock, end, payments, method,
                  candidates, ledger, ledgerPayments, overran>>
  BY DEF SettlePayment, tables, slices
<1>3. PICK p \in GroupLeft(r) : \E d \in DecidePayment(p, candidates[r]) :
         /\ results' = results \cup {Row(r, "payment", p.id, d)}
         /\ current' = [current EXCEPT ![r] = {Row(r, "payment", p.id, d)}]
  BY PaymentRow
<1> PICK d \in DecidePayment(p, candidates[r]) :
         /\ results' = results \cup {Row(r, "payment", p.id, d)}
         /\ current' = [current EXCEPT ![r] = {Row(r, "payment", p.id, d)}]
  BY <1>3
<1> DEFINE row == Row(r, "payment", p.id, d)
<1>4. /\ results' = results \cup {row} /\ current' = [current EXCEPT ![r] = {row}]
      /\ row.by = r /\ row.type = "payment" /\ row.record = p.id
  BY DEF Row
<1> HIDE DEF row
<1>5. \A x \in results : x.type = "payment" /\ x.record = p.id => x.by # r
  BY <1>3 DEF GroupLeft, PaymentsLeft, RowsOf
<1>6. pc[r] = "settle" /\ pc' = [pc EXCEPT ![r] = "audit"]
  BY DEF SettlePayment, Goto
<1>7. /\ pc'[r] = "audit" /\ \A s \in Runs \ {r} : pc'[s] = pc[s]
      /\ current'[r] = {row} /\ \A s \in Runs \ {r} : current'[s] = current[s]
  BY <1>4, <1>6, Domains
<1>8. LockIsHeld'
  BY <1>2, <1>6, <1>7 DEF LockIsHeld, Busy
<1>9. OneOfEachRun'
  BY <1>4, <1>5 DEF OneOfEachRun
<1>10. CurrentIsLast' /\ PointIsForMatches'
  BY <1>4, <1>6, <1>7 DEF CurrentIsLast, PointIsForMatches, LedgerMatch
<1>11. \A x \in results :
         /\ x.by \in Runs
         /\ pc[x.by] \in {"dead", "point"} => pc'[x.by] = pc[x.by] /\ current'[x.by] = current[x.by]
  BY <1>6, <1>7, Writers
<1>12. MatchesArePointed'
  BY <1>2, <1>4, <1>11 DEF MatchesArePointed, LedgerMatch
<1>13. PaymentsAreFresh'
  <2>1. ~overran => \A s \in Runs : pc'[s] \in {"group", "settle", "audit"} => s = r
    BY <1>6, <1>7, BusyIsAlone DEF Busy
  <2> QED
    BY <1>2, <1>4, <1>6, <2>1 DEF PaymentsAreFresh, RowsOf
<1>14. LedgerIsFresh'
  <2>1. \A s \in Runs : LinesLeft(s)' = LinesLeft(s)
    BY <1>2, <1>4 DEF LinesLeft, RowsOf
  <2> QED
    BY <1>2, <1>7, <2>1 DEF LedgerIsFresh
<1>15. SlicesAreStored'
  BY <1>2, <1>6, <1>7 DEF SlicesAreStored, Start
<1> QED
  BY <1>1, <1>8, <1>9, <1>10, <1>12, <1>13, <1>14, <1>15

\* Deciding a ledger line.
LEMMA SettleLedgerPreserves ==
    ASSUME IInv, NEW r \in Runs, SettleLedger(r)
    PROVE  IInv'
<1> USE DEF IInv
<1>1. TypeOK'
  BY WriteKeepsType
<1>2. UNCHANGED <<paymentRows, lineRows, pointer, lock, end, payments, method,
                  candidates, ledger, ledgerPayments, overran>>
  BY DEF SettleLedger, tables, slices
<1>3. PICK l \in LinesLeft(r), row \in ResultType :
         /\ results' = results \cup {row} /\ current' = [current EXCEPT ![r] = {row}]
         /\ row.by = r /\ row.type = "ledger" /\ row.record = l.id
         /\ pc' = [pc EXCEPT ![r] = IF row.kind = "match" THEN "point" ELSE "auditLedger"]
         /\ row.kind = "match" => row.to \in {p.id : p \in AllPayments}
  BY LedgerRow DEF Row
<1>4. \A x \in results : x.type = "ledger" /\ x.record = l.id => x.by # r
  BY <1>3 DEF LinesLeft, RowsOf
<1>5. pc[r] = "settleLedger"
  BY DEF SettleLedger
<1>6. /\ pc'[r] = IF row.kind = "match" THEN "point" ELSE "auditLedger"
      /\ \A s \in Runs \ {r} : pc'[s] = pc[s]
      /\ current'[r] = {row} /\ \A s \in Runs \ {r} : current'[s] = current[s]
  BY <1>3, Domains
<1>7. LockIsHeld'
  BY <1>2, <1>5, <1>6 DEF LockIsHeld, Busy
<1>8. OneOfEachRun'
  BY <1>3, <1>4 DEF OneOfEachRun
<1>9. CurrentIsLast' /\ PointIsForMatches'
  BY <1>3, <1>5, <1>6 DEF CurrentIsLast, PointIsForMatches, LedgerMatch
<1>10. \A x \in results :
         /\ x.by \in Runs
         /\ pc[x.by] \in {"dead", "point"} => pc'[x.by] = pc[x.by] /\ current'[x.by] = current[x.by]
  BY <1>5, <1>6, Writers
<1>11. MatchesArePointed'
  BY <1>2, <1>3, <1>6, <1>10 DEF MatchesArePointed, LedgerMatch
<1>12. PaymentsAreFresh'
  BY <1>2, <1>3, <1>5, <1>6 DEF PaymentsAreFresh, RowsOf
<1>13. LedgerIsFresh'
  <2>1. ~overran => \A s \in Runs :
           pc'[s] \in {"loadLedgerPayments", "settleLedger", "point", "auditLedger"} => s = r
    BY <1>5, <1>6, BusyIsAlone DEF Busy
  <2>2. LinesLeft(r)' \subseteq LinesLeft(r)
    BY <1>2, <1>3 DEF LinesLeft, RowsOf
  <2> QED
    BY <1>2, <1>5, <2>1, <2>2 DEF LedgerIsFresh
<1>14. SlicesAreStored'
  BY <1>2, <1>5, <1>6 DEF SlicesAreStored, Start
<1> QED
  BY <1>1, <1>7, <1>8, <1>9, <1>11, <1>12, <1>13, <1>14

\* Pointing a ledger line at its payment: the match that was just written finds
\* the line pointed to, by this run or another.
LEMMA PointPreserves ==
    ASSUME IInv, NEW r \in Runs, SetLedgerMatchedPayment(r)
    PROVE  IInv'
<1> USE DEF IInv
<1>1. TypeOK'
  BY WriteKeepsType
<1>2. UNCHANGED <<paymentRows, lineRows, results, current, lock, end, payments, method,
                  candidates, ledger, ledgerPayments, overran>>
  BY DEF SetLedgerMatchedPayment, tables, slices
<1>3. pc[r] = "point" /\ pc' = [pc EXCEPT ![r] = "auditLedger"]
  BY DEF SetLedgerMatchedPayment, Goto
<1>4. pc'[r] = "auditLedger" /\ \A s \in Runs \ {r} : pc'[s] = pc[s]
  BY <1>3, Domains
<1>5. LockIsHeld'
  BY <1>2, <1>3, <1>4 DEF LockIsHeld, Busy
<1>6. OneOfEachRun' /\ CurrentIsLast' /\ PointIsForMatches'
  BY <1>2, <1>3, <1>4 DEF OneOfEachRun, CurrentIsLast, PointIsForMatches, LedgerMatch
<1>7. PICK x \in current[r] : x = CHOOSE y \in current[r] : TRUE
  BY <1>3 DEF CurrentIsLast
<1>8. x.to # NoPayment
  <2>1. x \in results /\ LedgerMatch(x)
    BY <1>3, <1>7, Holdings DEF PointIsForMatches
  <2>2. x.to \in {p.id : p \in AllPayments}
    BY <2>1 DEF MatchesArePointed
  <2> QED
    BY <2>2, RecordsAssumption DEF NoPayment
<1>9. \A l \in AllLedger :
         /\ pointer[l] # NoPayment => pointer'[l] # NoPayment
         /\ l.id = x.record => pointer'[l] # NoPayment
  BY <1>7, <1>8 DEF SetLedgerMatchedPayment
<1>10. \A y \in current[r] : y = x
  BY <1>7 DEF CurrentIsLast
<1>11. \A y \in results : /\ y.by \in Runs
                          /\ pc[y.by] = "dead" => pc'[y.by] = "dead"
                          /\ pc[y.by] = "point" => y.by = r \/ pc'[y.by] = "point"
  BY <1>3, <1>4, Writers
<1>12. MatchesArePointed'
  BY <1>2, <1>9, <1>10, <1>11 DEF MatchesArePointed, LedgerMatch
<1>13. PaymentsAreFresh'
  BY <1>2, <1>3, <1>4 DEF PaymentsAreFresh, RowsOf
<1>14. LedgerIsFresh'
  <2>1. ~overran => \A s \in Runs :
           pc'[s] \in {"loadLedgerPayments", "settleLedger", "point", "auditLedger"} => s = r
    BY <1>3, <1>4, BusyIsAlone DEF Busy
  <2>2. x \in results /\ x.type = "ledger" /\ x.by = r
    BY <1>3, <1>7, Holdings DEF PointIsForMatches, LedgerMatch, CurrentIsLast
  <2>3. \A l \in LinesLeft(r) : l \in AllLedger /\ l.id # x.record
    BY <2>2, Holdings DEF LinesLeft, RowsOf
  <2>4. \A l \in AllLedger : l.id # x.record => pointer'[l] = pointer[l]
    BY <1>10 DEF SetLedgerMatchedPayment
  <2>5. LinesLeft(r)' = LinesLeft(r)
    BY <1>2 DEF LinesLeft, RowsOf
  <2> QED
    BY <1>2, <1>3, <2>1, <2>3, <2>4, <2>5 DEF LedgerIsFresh
<1>15. SlicesAreStored'
  BY <1>2, <1>3, <1>4 DEF SlicesAreStored, Start
<1> QED
  BY <1>1, <1>5, <1>6, <1>12, <1>13, <1>14, <1>15

-----------------------------------------------------------------------------
(* How a step may change what the properties speak of                      *)

\* Only five statements write results, audit entries and pointers.
LEMMA OnlyWritesWrite ==
    ASSUME [Next]_vars
    PROVE  \/ UNCHANGED <<pointer, results, audited, current>>
           \/ \E r \in Runs : \/ SettlePayment(r) \/ AuditPayment(r) \/ SettleLedger(r)
                              \/ SetLedgerMatchedPayment(r) \/ AuditLedger(r)
<1>1. CASE Ingest \/ Tick \/ Expire \/ UNCHANGED vars
  BY <1>1 DEF Ingest, Tick, Expire, vars, written, local
<1>2. ASSUME NEW r \in Runs,
             \/ Begin(r) \/ Die(r) \/ Acquire(r) \/ ReleaseGet(r) \/ ReleaseDel(r)
             \/ ReleaseFails(r) \/ SettlementSideDone(r) \/ LedgerSideDone(r)
      PROVE  UNCHANGED <<pointer, results, audited, current>>
  BY <1>2 DEF Begin, Die, Acquire, ReleaseGet, ReleaseDel, ReleaseFails, SettlementSideDone,
              LedgerSideDone, written
<1>3. ASSUME NEW r \in Runs,
             \/ LoadPayments(r) \/ (\E p \in AllPayments : LoadCandidates(r, p.method))
             \/ LoadLedger(r) \/ LoadLedgerPayments(r)
      PROVE  UNCHANGED <<pointer, results, audited, current>>
  BY <1>3 DEF LoadPayments, LoadCandidates, LoadLedger, LoadLedgerPayments, written
<1> QED
  BY <1>1, <1>2, <1>3 DEF Next, Step

\* The program counter of a run, its payments, its candidates and its window
\* change only by its own steps, and an ended run takes none.
LEMMA OwnSteps ==
    ASSUME TypeOK, [Next]_vars, NEW s \in Runs
    PROVE  \/ /\ pc'[s] = pc[s] /\ payments'[s] = payments[s]
              /\ candidates'[s] = candidates[s] /\ method'[s] = method[s]
              /\ end'[s] = end[s]
           \/ /\ Begin(s) \/ Step(s) \/ Die(s) \/ ReleaseFails(s)
              /\ pc[s] \notin {"done", "dead"}
<1>1. CASE Ingest \/ Tick \/ Expire \/ UNCHANGED vars
  BY <1>1 DEF Ingest, Tick, Expire, vars, local, slices
<1>2. ASSUME NEW r \in Runs, r # s,
             \/ Begin(r) \/ Die(r) \/ Acquire(r) \/ ReleaseGet(r) \/ ReleaseDel(r)
             \/ ReleaseFails(r) \/ SettlementSideDone(r) \/ LedgerSideDone(r)
      PROVE  /\ pc'[s] = pc[s] /\ payments'[s] = payments[s]
             /\ candidates'[s] = candidates[s] /\ method'[s] = method[s]
             /\ end'[s] = end[s]
  BY <1>2, Domains DEF Begin, Die, Acquire, ReleaseGet, ReleaseDel, ReleaseFails, SettlementSideDone,
              LedgerSideDone, slices, Goto
<1>3. ASSUME NEW r \in Runs, r # s,
             \/ LoadPayments(r) \/ (\E p \in AllPayments : LoadCandidates(r, p.method))
             \/ LoadLedger(r) \/ LoadLedgerPayments(r)
      PROVE  /\ pc'[s] = pc[s] /\ payments'[s] = payments[s]
             /\ candidates'[s] = candidates[s] /\ method'[s] = method[s]
             /\ end'[s] = end[s]
  BY <1>3, Domains DEF LoadPayments, LoadCandidates, LoadLedger, LoadLedgerPayments, Goto
<1>4. ASSUME NEW r \in Runs, r # s,
             \/ SettlePayment(r) \/ AuditPayment(r) \/ SettleLedger(r)
             \/ SetLedgerMatchedPayment(r) \/ AuditLedger(r)
      PROVE  /\ pc'[s] = pc[s] /\ payments'[s] = payments[s]
             /\ candidates'[s] = candidates[s] /\ method'[s] = method[s]
             /\ end'[s] = end[s]
  BY <1>4, Domains DEF SettlePayment, AuditPayment, SettleLedger, SetLedgerMatchedPayment, AuditLedger,
              slices, Goto
<1>5. ASSUME Begin(s) \/ Step(s) \/ Die(s) \/ ReleaseFails(s)
      PROVE  pc[s] \notin {"done", "dead"}
  BY <1>5 DEF Begin, Die, ReleaseFails, Step, Acquire, ReleaseGet, ReleaseDel, LoadPayments,
              LoadCandidates, SettlePayment, AuditPayment, SettlementSideDone, LoadLedger,
              LoadLedgerPayments, SettleLedger, SetLedgerMatchedPayment, AuditLedger, LedgerSideDone
<1> QED
  BY <1>1, <1>2, <1>3, <1>4, <1>5 DEF Next, Step

\* Having overrun, once true, stays true.
LEMMA OverranStays ==
    ASSUME [Next]_vars, overran
    PROVE  overran'
<1>1. CASE Expire
  BY <1>1 DEF Expire
<1>2. CASE Ingest \/ Tick \/ UNCHANGED vars
  BY <1>2 DEF Ingest, Tick, vars
<1>3. ASSUME NEW r \in Runs, Begin(r) \/ Step(r) \/ Die(r) \/ ReleaseFails(r)
      PROVE  overran' = overran
  BY <1>3 DEF Begin, Die, ReleaseFails, Step, Acquire, ReleaseGet, ReleaseDel, LoadPayments,
              LoadCandidates, SettlePayment, AuditPayment, SettlementSideDone, LoadLedger,
              LoadLedgerPayments, SettleLedger, SetLedgerMatchedPayment, AuditLedger, LedgerSideDone
<1> QED
  BY <1>1, <1>2, <1>3 DEF Next

-----------------------------------------------------------------------------
(* The theorems                                                            *)

\* The inductive invariant holds: what a run loaded, wrote last and still has to
\* point or to audit, and who holds the lock, fit together at every step.
THEOREM Inductive == Spec => []IInv
<1>1. Init => IInv
  <2> SUFFICES ASSUME Init PROVE IInv
    OBVIOUS
  <2>1. TypeOK
    BY DEF Init, TypeOK
  <2>2. LockIsHeld /\ CurrentIsLast /\ PaymentsAreFresh /\ LedgerIsFresh
    BY DEF Init, LockIsHeld, Busy, CurrentIsLast, PaymentsAreFresh, LedgerIsFresh
  <2>3. OneOfEachRun /\ MatchesArePointed /\ PointIsForMatches /\ SlicesAreStored
    BY DEF Init, OneOfEachRun, MatchesArePointed, PointIsForMatches, SlicesAreStored
  <2> QED
    BY <2>1, <2>2, <2>3 DEF IInv
<1>2. IInv /\ [Next]_vars => IInv'
  <2> SUFFICES ASSUME IInv, [Next]_vars PROVE IInv'
    OBVIOUS
  <2>1. CASE Ingest \/ Tick \/ Expire \/ UNCHANGED vars
    BY <2>1, WorldPreserves
  <2>2. ASSUME NEW r \in Runs, Begin(r) \/ Die(r) \/ ReleaseFails(r) PROVE IInv'
    BY <2>2, MovePreserves
  <2>3. ASSUME NEW r \in Runs, Step(r) PROVE IInv'
    BY <2>3, MovePreserves, LoadPreserves, AuditPreserves, SettlePaymentPreserves,
       SettleLedgerPreserves, PointPreserves DEF Step
  <2> QED
    BY <2>1, <2>2, <2>3 DEF Next
<1> QED
  BY <1>1, <1>2, PTL DEF Spec

\* Type correctness.
THEOREM TypeCorrect == Spec => []TypeOK
<1>1. IInv => TypeOK
  BY DEF IInv
<1> QED
  BY <1>1, Inductive, PTL

\* As long as no run outlives its TTL, the window lock keeps runs apart, through
\* the separate GET and DEL of the release and through crashes at any point.
THEOREM LockExcludes == Spec => []OneRunAtATime
<1>1. IInv => OneRunAtATime
  BY BusyIsAlone DEF IInv, OneRunAtATime
<1> QED
  BY <1>1, Inductive, PTL

\* A payment gets one decision: a second one only from another run, and only
\* once some run outlived its lock.
THEOREM PaymentsDecidedOnce == Spec => []DecidedOnce
<1>1. Init => DecidedOnce
  BY DEF Init, DecidedOnce
<1>2. IInv /\ DecidedOnce /\ [Next]_vars => DecidedOnce'
  <2> SUFFICES ASSUME IInv, DecidedOnce, [Next]_vars PROVE DecidedOnce'
    OBVIOUS
  <2>1. ASSUME NEW r \in Runs, SettlePayment(r) PROVE DecidedOnce'
    <3>1. PICK p \in GroupLeft(r) : \E d \in DecidePayment(p, candidates[r]) :
             results' = results \cup {Row(r, "payment", p.id, d)}
      BY <2>1, PaymentRow DEF IInv
    <3> PICK d \in DecidePayment(p, candidates[r]) :
             results' = results \cup {Row(r, "payment", p.id, d)}
      BY <3>1
    <3> DEFINE row == Row(r, "payment", p.id, d)
    <3>2. results' = results \cup {row} /\ row.by = r /\ row.record = p.id
      BY DEF Row
    <3> HIDE DEF row
    <3>3. p \in payments[r] /\ \A x \in results : x.type = "payment" /\ x.record = p.id => x.by # r
      BY <3>1 DEF GroupLeft, PaymentsLeft, RowsOf
    <3>4. ~overran => \A x \in results : x.type = "payment" /\ x.record = p.id => x.by = r
      BY <2>1, <3>3 DEF IInv, PaymentsAreFresh, RowsOf, SettlePayment
    <3>5. overran' = overran
      BY <2>1 DEF SettlePayment
    <3> QED
      BY <3>2, <3>3, <3>4, <3>5 DEF DecidedOnce
  <2>2. ASSUME NEW r \in Runs, SettleLedger(r) PROVE DecidedOnce'
    <3>1. PICK l \in LinesLeft(r) :
             results' = results \cup {Row(r, "ledger", l.id, DecideLedger(l, ledgerPayments[r]))}
      BY <2>2, LedgerRow DEF IInv
    <3>2. \A x \in results' : x.type = "payment" => x \in results
      BY <3>1 DEF Row
    <3> QED
      BY <3>2, OverranStays DEF DecidedOnce
  <2>3. CASE results' = results
    BY <2>3, OverranStays DEF DecidedOnce
  <2> QED
    BY <2>1, <2>2, <2>3, OnlyWritesWrite DEF AuditPayment, AuditLedger, SetLedgerMatchedPayment
<1> QED
  BY <1>1, <1>2, Inductive, PTL DEF Spec

\* As long as no run outlives its lock, a ledger line is matched again only while
\* it points nowhere, and only if the run that matched it died before it set the
\* pointer.
THEOREM LedgerLinesMatchedOnce == Spec => LedgerMatchedOnce
<1> DEFINE Again(x, y) == LedgerMatch(x) /\ LedgerMatch(y) /\ x.record = y.record
           Unpointed(x) == /\ pc[x.by] = "dead" /\ x \in current[x.by]
                           /\ \A l \in AllLedger : l.id = x.record => pointer[l] = NoPayment
<1>1. ASSUME IInv, [Next]_vars, ~overran, NEW x \in results, NEW y \in results' \ results, Again(x, y)
      PROVE  Unpointed(x)
  <2> USE <1>1 DEF IInv
  <2>1. ASSUME NEW r \in Runs, SettleLedger(r) PROVE Unpointed(x)
    <3>1. PICK l \in LinesLeft(r) :
             results' = results \cup {Row(r, "ledger", l.id, DecideLedger(l, ledgerPayments[r]))}
      BY <2>1, LedgerRow
    <3>2. pc[r] = "settleLedger"
      BY <2>1 DEF SettleLedger
    <3>3. x.record = l.id /\ l \in AllLedger
      <4>1. y = Row(r, "ledger", l.id, DecideLedger(l, ledgerPayments[r]))
        BY <3>1
      <4>2. y.record = l.id
        BY <4>1 DEF Row
      <4> QED
        BY <4>2, Holdings DEF LinesLeft
    <3>4. pointer[l] = NoPayment
      BY <3>2 DEF LedgerIsFresh
    <3>5. pc[x.by] \in {"point", "dead"} /\ x \in current[x.by]
      BY <3>3, <3>4 DEF MatchesArePointed
    <3>6. pc[x.by] # "point"
      BY <3>2, BusyIsAlone, Writers DEF Busy
    <3>7. \A k \in AllLedger : k.id = x.record => k = l
      BY <3>3, RecordsAssumption
    <3> QED
      BY <3>4, <3>5, <3>6, <3>7
  <2>2. ASSUME NEW r \in Runs, SettlePayment(r) PROVE FALSE
    <3>1. PICK p \in GroupLeft(r) : \E d \in DecidePayment(p, candidates[r]) :
             results' = results \cup {Row(r, "payment", p.id, d)}
      BY <2>2, PaymentRow
    <3>2. y.type = "payment"
      BY <3>1 DEF Row
    <3> QED
      BY <3>2 DEF LedgerMatch
  <2>3. results' # results
    OBVIOUS
  <2> QED
    BY <2>1, <2>2, <2>3, OnlyWritesWrite DEF AuditPayment, AuditLedger, SetLedgerMatchedPayment
<1>2. IInv /\ [Next]_vars =>
         [\A x \in results, y \in results' \ results : Again(x, y) /\ ~overran => Unpointed(x)]_vars
  BY <1>1
<1> QED
  BY <1>2, Inductive, PTL DEF Spec, LedgerMatchedOnce

\* A run leaves at most one result unaudited, the one it was recording when it
\* died.
THEOREM LastIsUnaudited == Spec => []OnlyTheLastIsUnaudited
<1>1. Init => OnlyTheLastIsUnaudited
  BY DEF Init, OnlyTheLastIsUnaudited
<1>2. IInv /\ IInv' /\ OnlyTheLastIsUnaudited /\ [Next]_vars => OnlyTheLastIsUnaudited'
  <2> SUFFICES ASSUME IInv, IInv', OnlyTheLastIsUnaudited, [Next]_vars
               PROVE  OnlyTheLastIsUnaudited'
    OBVIOUS
  <2>1. \A x \in results' : x \in current'[x.by] => ~(pc'[x.by] = "done")
    <3>1. \A x \in results' : x.by \in Runs
      BY DEF IInv, TypeOK, ResultType
    <3> QED
      BY <3>1 DEF IInv, CurrentIsLast
  <2> SUFFICES ASSUME NEW x \in results', x \notin audited' PROVE x \in current'[x.by]
    BY <2>1 DEF OnlyTheLastIsUnaudited
  <2>2. x \in results /\ audited' = audited => x \in current[x.by] /\ x.by \in Runs
    BY Writers DEF OnlyTheLastIsUnaudited, IInv
  <2>3. ASSUME NEW r \in Runs, SettlePayment(r) PROVE x \in current'[x.by]
    <3>1. PICK p \in GroupLeft(r) : \E d \in DecidePayment(p, candidates[r]) :
             /\ results' = results \cup {Row(r, "payment", p.id, d)}
             /\ current' = [current EXCEPT ![r] = {Row(r, "payment", p.id, d)}]
      BY <2>3, PaymentRow DEF IInv
    <3> PICK d \in DecidePayment(p, candidates[r]) :
             /\ results' = results \cup {Row(r, "payment", p.id, d)}
             /\ current' = [current EXCEPT ![r] = {Row(r, "payment", p.id, d)}]
      BY <3>1
    <3> DEFINE row == Row(r, "payment", p.id, d)
    <3>2. /\ results' = results \cup {row} /\ current' = [current EXCEPT ![r] = {row}]
          /\ row.by = r
      BY DEF Row
    <3> HIDE DEF row
    <3>3. current[r] = {} /\ audited' = audited
      BY <2>3 DEF SettlePayment, IInv, CurrentIsLast
    <3> QED
      BY <2>2, <3>2, <3>3, Domains DEF IInv
  <2>4. ASSUME NEW r \in Runs, SettleLedger(r) PROVE x \in current'[x.by]
    <3>1. PICK l \in LinesLeft(r) :
             LET row == Row(r, "ledger", l.id, DecideLedger(l, ledgerPayments[r]))
             IN  results' = results \cup {row} /\ current' = [current EXCEPT ![r] = {row}]
      BY <2>4, LedgerRow DEF IInv
    <3> DEFINE row == Row(r, "ledger", l.id, DecideLedger(l, ledgerPayments[r]))
    <3>2. /\ results' = results \cup {row} /\ current' = [current EXCEPT ![r] = {row}]
          /\ row.by = r
      BY <3>1 DEF Row
    <3> HIDE DEF row
    <3>3. current[r] = {} /\ audited' = audited
      BY <2>4 DEF SettleLedger, IInv, CurrentIsLast
    <3> QED
      BY <2>2, <3>2, <3>3, Domains DEF IInv
  <2>5. ASSUME NEW r \in Runs, AuditPayment(r) \/ AuditLedger(r) PROVE x \in current'[x.by]
    <3>1. /\ results' = results /\ audited' = audited \cup current[r]
          /\ current' = [current EXCEPT ![r] = {}]
      BY <2>5 DEF AuditPayment, AuditLedger, WriteAudit
    <3>2. x \in current[x.by] /\ x \notin current[r] /\ x.by \in Runs
      BY <3>1, Writers DEF OnlyTheLastIsUnaudited, IInv
    <3> QED
      BY <3>1, <3>2, Domains DEF IInv
  <2>6. CASE UNCHANGED <<results, audited, current>>
    BY <2>6 DEF OnlyTheLastIsUnaudited
  <2> QED
    BY <2>3, <2>4, <2>5, <2>6, OnlyWritesWrite DEF SetLedgerMatchedPayment
<1> QED
  BY <1>1, <1>2, Inductive, PTL DEF Spec

\* Results are never withdrawn.
LEMMA ResultsGrow ==
    ASSUME TypeOK, [Next]_vars
    PROVE  results \subseteq results'
<1>1. ASSUME NEW r \in Runs, SettlePayment(r) PROVE results \subseteq results'
  BY <1>1, PaymentRow
<1>2. ASSUME NEW r \in Runs, SettleLedger(r) PROVE results \subseteq results'
  BY <1>2, LedgerRow
<1> QED
  BY <1>1, <1>2, OnlyWritesWrite DEF AuditPayment, AuditLedger, SetLedgerMatchedPayment

\* A run that gets past the settlement side has decided all it loaded.
THEOREM AllLoadedDecided == Spec => []LoadedIsDecided
<1> DEFINE Past == {"loadLedger", "loadLedgerPayments", "settleLedger", "point",
                    "auditLedger", "release", "delete", "done"}
<1>1. Init => LoadedIsDecided
  BY DEF Init, LoadedIsDecided
<1>2. IInv /\ LoadedIsDecided /\ [Next]_vars => LoadedIsDecided'
  <2> SUFFICES ASSUME IInv, LoadedIsDecided, [Next]_vars, NEW r \in Runs, pc'[r] \in Past,
                      NEW p \in payments'[r]
               PROVE  RowsOf("payment", p.id)' # {}
    BY DEF LoadedIsDecided
  <2>1. CASE pc[r] \in Past /\ payments'[r] = payments[r]
    <3>1. PICK x \in results : x.type = "payment" /\ x.record = p.id
      BY <2>1 DEF LoadedIsDecided, RowsOf
    <3> QED
      BY <3>1, ResultsGrow DEF RowsOf, IInv
  <2>2. CASE SettlementSideDone(r)
    <3>1. PaymentsLeft(r) = {} /\ payments' = payments /\ results' = results
      BY <2>2 DEF SettlementSideDone, slices, written
    <3>2. PICK x \in RowsOf("payment", p.id) : x.by = r
      BY <3>1 DEF PaymentsLeft
    <3> QED
      BY <3>1, <3>2 DEF RowsOf
  <2>3. ASSUME Begin(r) \/ Die(r) \/ ReleaseFails(r) \/ Step(r), ~SettlementSideDone(r)
        PROVE  pc[r] \in Past /\ payments'[r] = payments[r]
    <3>1. CASE \/ Begin(r) \/ Die(r) \/ ReleaseFails(r) \/ Acquire(r) \/ ReleaseGet(r)
               \/ ReleaseDel(r) \/ LedgerSideDone(r)
      BY <3>1, Domains DEF Begin, Die, ReleaseFails, Acquire, ReleaseGet, ReleaseDel, LedgerSideDone,
                  slices, Goto, IInv
    <3>2. CASE \/ LoadPayments(r) \/ (\E q \in AllPayments : LoadCandidates(r, q.method))
               \/ LoadLedger(r) \/ LoadLedgerPayments(r)
      BY <3>2, Domains DEF LoadPayments, LoadCandidates, LoadLedger, LoadLedgerPayments, Goto, IInv
    <3>3. CASE \/ SettlePayment(r) \/ AuditPayment(r) \/ SettleLedger(r)
               \/ SetLedgerMatchedPayment(r) \/ AuditLedger(r)
      BY <3>3, Domains DEF SettlePayment, AuditPayment, SettleLedger, SetLedgerMatchedPayment, AuditLedger,
                  slices, Goto, IInv
    <3> QED
      BY <2>3, <3>1, <3>2, <3>3 DEF Step
  <2> QED
    BY <2>1, <2>2, <2>3, OwnSteps DEF IInv
<1> QED
  BY <1>1, <1>2, Inductive, PTL DEF Spec

\* No ledger line points at a payment that no match result names.
THEOREM PointersAreBacked == Spec => []PointerIsBacked
<1>1. Init => PointerIsBacked
  BY DEF Init, PointerIsBacked
<1>2. IInv /\ PointerIsBacked /\ [Next]_vars => PointerIsBacked'
  <2> SUFFICES ASSUME IInv, PointerIsBacked, [Next]_vars PROVE PointerIsBacked'
    OBVIOUS
  <2>1. results \subseteq results'
    BY ResultsGrow DEF IInv
  <2>2. ASSUME NEW r \in Runs, SetLedgerMatchedPayment(r) PROVE PointerIsBacked'
    <3>1. PICK x \in current[r] : x = CHOOSE y \in current[r] : TRUE
      BY <2>2 DEF SetLedgerMatchedPayment, IInv, CurrentIsLast
    <3>2. \A y \in current[r] : y = x
      BY <3>1 DEF IInv, CurrentIsLast
    <3>3. x \in results /\ LedgerMatch(x)
      BY <2>2, <3>1, Holdings DEF SetLedgerMatchedPayment, IInv, PointIsForMatches
    <3>4. \A l \in AllLedger :
             \/ pointer'[l] = pointer[l]
             \/ pointer'[l] = x.to /\ x.record = l.id
      BY <2>2, <3>1, <3>2 DEF SetLedgerMatchedPayment
    <3> QED
      BY <2>1, <3>3, <3>4 DEF PointerIsBacked, LedgerMatch
  <2>3. CASE pointer' = pointer
    BY <2>1, <2>3 DEF PointerIsBacked
  <2> QED
    BY <2>2, <2>3, OnlyWritesWrite
       DEF AuditPayment, AuditLedger, SettlePayment, SettleLedger
<1> QED
  BY <1>1, <1>2, Inductive, PTL DEF Spec

-----------------------------------------------------------------------------
(* What a match stands for                                                 *)

\* A match has a candidate that fits by its tier, and no other candidate does.
LEMMA DecisionFits ==
    ASSUME NEW p, NEW C \in SUBSET AllLines, NEW d \in DecidePayment(p, C), d.kind = "match"
    PROVE  \E t \in C :
              /\ d.to = t.id
              /\ IF d.rule = "TIER1_EXACT" THEN Tier1(p, C) = {t} ELSE Tier2(p, C) = {t}
<1>1. ASSUME NEW t \in C, d = Match("TIER1_EXACT", t.id), Tier1(p, C) = {t}
      PROVE  d.to = t.id /\ d.rule = "TIER1_EXACT"
  BY <1>1 DEF Match
<1>2. ASSUME NEW t \in C, d = Match("TIER2_BOUNDED_ID", t.id), Tier2(p, C) = {t}
      PROVE  d.to = t.id /\ d.rule # "TIER1_EXACT"
  BY <1>2 DEF Match
<1>3. ASSUME NEW reason, d = Exception(reason) PROVE FALSE
  BY <1>3 DEF Exception
<1> QED
  BY <1>1, <1>2, <1>3, PaymentDecision

\* A matched payment has a stored line of its method with its exact net amount
\* inside its SLA window, under its id or at most two edits away.
THEOREM SoundMatches == Spec => []MatchesAreSound
<1>1. Init => MatchesAreSound
  BY DEF Init, MatchesAreSound
<1>2. IInv /\ MatchesAreSound /\ [Next]_vars => MatchesAreSound'
  <2> SUFFICES ASSUME IInv, MatchesAreSound, [Next]_vars PROVE MatchesAreSound'
    OBVIOUS
  <2>1. paymentRows \subseteq paymentRows' /\ lineRows \subseteq lineRows'
    <3>1. CASE Ingest \/ Tick \/ Expire \/ UNCHANGED vars
      BY <3>1 DEF Ingest, Tick, Expire, vars, tables
    <3>2. ASSUME NEW r \in Runs, Begin(r) \/ Step(r) \/ Die(r) \/ ReleaseFails(r)
          PROVE  UNCHANGED tables
      BY <3>2 DEF Begin, Die, ReleaseFails, Step, Acquire, ReleaseGet, ReleaseDel, LoadPayments,
                  LoadCandidates, SettlePayment, AuditPayment, SettlementSideDone, LoadLedger,
                  LoadLedgerPayments, SettleLedger, SetLedgerMatchedPayment, AuditLedger,
                  LedgerSideDone
    <3> QED
      BY <3>1, <3>2 DEF Next, tables
  <2>2. ASSUME \A x \in results' : x.type = "payment" => x \in results
        PROVE  MatchesAreSound'
    BY <2>1, <2>2 DEF MatchesAreSound
  <2>3. ASSUME NEW r \in Runs, SettlePayment(r) PROVE MatchesAreSound'
    <3>1. PICK p \in GroupLeft(r) : \E d \in DecidePayment(p, candidates[r]) :
             results' = results \cup {Row(r, "payment", p.id, d)}
      BY <2>3, PaymentRow DEF IInv
    <3> PICK d \in DecidePayment(p, candidates[r]) :
             results' = results \cup {Row(r, "payment", p.id, d)}
      BY <3>1
    <3> DEFINE row == Row(r, "payment", p.id, d)
    <3>2. /\ results' = results \cup {row} /\ row.record = p.id
          /\ row.kind = d.kind /\ row.rule = d.rule /\ row.to = d.to
      BY DEF Row
    <3> HIDE DEF row
    <3>3. candidates[r] \in SUBSET AllLines
      BY Holdings DEF IInv
    <3>4. p \in paymentRows /\ p.method = method[r]
      BY <3>1 DEF GroupLeft, PaymentsLeft, IInv, SlicesAreStored
    <3>5. \A c \in candidates[r] : c \in lineRows /\ c.method = method[r]
      BY DEF IInv, SlicesAreStored
    <3>6. ASSUME d.kind = "match"
          PROVE  \E c \in lineRows :
                    /\ c.id = d.to /\ c.method = p.method
                    /\ IF d.rule = "TIER1_EXACT" THEN Tier1Fits(p, c) ELSE Tier2Fits(p, c)
      BY <3>3, <3>4, <3>5, <3>6, DecisionFits DEF Tier1, Tier2
    <3> QED
      BY <2>1, <3>2, <3>4, <3>6 DEF MatchesAreSound
  <2>4. ASSUME NEW r \in Runs, SettleLedger(r) PROVE MatchesAreSound'
    <3>1. PICK l \in LinesLeft(r) :
             results' = results \cup {Row(r, "ledger", l.id, DecideLedger(l, ledgerPayments[r]))}
      BY <2>4, LedgerRow DEF IInv
    <3>2. \A x \in results' : x.type = "payment" => x \in results
      BY <3>1 DEF Row
    <3> QED
      BY <2>2, <3>2
  <2>5. CASE results' = results
    BY <2>2, <2>5
  <2> QED
    BY <2>3, <2>4, <2>5, OnlyWritesWrite DEF AuditPayment, AuditLedger, SetLedgerMatchedPayment
<1> QED
  BY <1>1, <1>2, Inductive, PTL DEF Spec

\* When a run writes a match, no other candidate it loaded fits by that tier.
THEOREM UnrivalledMatches == Spec => []MatchIsUnrivalled
<1>1. Init => MatchIsUnrivalled
  BY DEF Init, MatchIsUnrivalled
<1>2. IInv /\ MatchIsUnrivalled /\ [Next]_vars => MatchIsUnrivalled'
  <2> SUFFICES ASSUME IInv, MatchIsUnrivalled, [Next]_vars, NEW r \in Runs, pc'[r] = "audit",
                      NEW x \in current'[r], x.kind = "match",
                      NEW p \in payments'[r], NEW c \in candidates'[r],
                      p.id = x.record, c.id # x.to
               PROVE  IF x.rule = "TIER1_EXACT" THEN ~Tier1Fits(p, c) ELSE ~Tier2Fits(p, c)
    BY DEF MatchIsUnrivalled
  <2>1. CASE SettlePayment(r)
    <3>1. PICK q \in GroupLeft(r) : \E d \in DecidePayment(q, candidates[r]) :
             /\ q \in payments[r] /\ q \in AllPayments
             /\ current' = [current EXCEPT ![r] = {Row(r, "payment", q.id, d)}]
      BY <2>1, PaymentRow DEF IInv
    <3> PICK d \in DecidePayment(q, candidates[r]) :
             current' = [current EXCEPT ![r] = {Row(r, "payment", q.id, d)}]
      BY <3>1
    <3>2. x = Row(r, "payment", q.id, d)
      BY Domains DEF IInv
    <3>3. x.record = q.id /\ d.kind = "match" /\ x.rule = d.rule /\ x.to = d.to
      BY <3>2 DEF Row
    <3>4. payments' = payments /\ candidates' = candidates
      BY <2>1 DEF SettlePayment, slices
    <3>5. p = q
      BY <3>1, <3>3, <3>4, RecordsAssumption, Holdings DEF IInv
    <3>6. candidates[r] \in SUBSET AllLines
      BY Holdings DEF IInv
    <3>7. PICK t \in candidates[r] :
             /\ d.to = t.id
             /\ IF d.rule = "TIER1_EXACT" THEN Tier1(q, candidates[r]) = {t}
                                          ELSE Tier2(q, candidates[r]) = {t}
      BY <3>3, <3>6, DecisionFits
    <3>8. c # t /\ c \in candidates[r]
      BY <3>3, <3>4, <3>7
    <3> QED
      BY <3>3, <3>5, <3>7, <3>8 DEF Tier1, Tier2
  <2>2. ASSUME Begin(r) \/ Die(r) \/ ReleaseFails(r) \/ Step(r), ~SettlePayment(r)
        PROVE  FALSE
    <3>1. CASE \/ Begin(r) \/ Die(r) \/ ReleaseFails(r) \/ Acquire(r) \/ ReleaseGet(r)
               \/ ReleaseDel(r) \/ SettlementSideDone(r) \/ LedgerSideDone(r)
      BY <3>1, Domains DEF Begin, Die, ReleaseFails, Acquire, ReleaseGet, ReleaseDel, SettlementSideDone,
                  LedgerSideDone, Goto, IInv
    <3>2. CASE \/ LoadPayments(r) \/ (\E q \in AllPayments : LoadCandidates(r, q.method))
               \/ LoadLedger(r) \/ LoadLedgerPayments(r)
      BY <3>2, Domains DEF LoadPayments, LoadCandidates, LoadLedger, LoadLedgerPayments, Goto, IInv
    <3>3. CASE \/ AuditPayment(r) \/ SettleLedger(r) \/ SetLedgerMatchedPayment(r)
               \/ AuditLedger(r)
      BY <3>3, Domains DEF AuditPayment, SettleLedger, SetLedgerMatchedPayment, AuditLedger, Goto, IInv
    <3> QED
      BY <2>2, <3>1, <3>2, <3>3 DEF Step
  <2>3. CASE /\ pc'[r] = pc[r] /\ payments'[r] = payments[r] /\ candidates'[r] = candidates[r]
             /\ ~SettlePayment(r)
    <3>1. current'[r] = current[r]
      <4>1. ASSUME NEW s \in Runs,
                   SettlePayment(s) \/ AuditPayment(s) \/ SettleLedger(s) \/ AuditLedger(s)
            PROVE  current'[r] = current[r]
        <5>1. s # r
          BY <2>2, <2>3, <4>1 DEF Step
        <5>2. \E S : current' = [current EXCEPT ![s] = S]
          BY <4>1, PaymentRow, LedgerRow DEF AuditPayment, AuditLedger, WriteAudit, IInv
        <5> QED
          BY <5>1, <5>2, Domains DEF IInv
      <4> QED
        BY <4>1, OnlyWritesWrite DEF SetLedgerMatchedPayment
    <3> QED
      BY <2>3, <3>1 DEF MatchIsUnrivalled
  <2> QED
    BY <2>1, <2>2, <2>3, OwnSteps DEF IInv
<1> QED
  BY <1>1, <1>2, Inductive, PTL DEF Spec

-----------------------------------------------------------------------------
(* The windows of the queries                                              *)

\* The settlement window of a method is a number of days.
LEMMA SLAType == \A m : slaFor(m) \in Nat
BY DEF slaFor

\* The candidate query of a method misses no stored line that could settle one
\* of the payments it is asked for.
THEOREM CandidatesComplete == Spec => CandidatesAreComplete
<1>1. IInv /\ [Next]_vars =>
         [\A r \in Runs : pc[r] = "group" /\ pc'[r] = "settle" =>
             \A p \in payments'[r], c \in lineRows :
                 p.method = method'[r] /\ c.method = p.method /\ Plausible(p, c)
                 => c \in candidates'[r]]_vars
  <2> SUFFICES ASSUME IInv, [Next]_vars, NEW r \in Runs, pc[r] = "group", pc'[r] = "settle",
                      NEW p \in payments'[r], NEW c \in lineRows,
                      p.method = method'[r], c.method = p.method, Plausible(p, c)
               PROVE  c \in candidates'[r]
    OBVIOUS
  <2>1. PICK m : LoadCandidates(r, m)
    <3>1. Begin(r) \/ Step(r) \/ Die(r) \/ ReleaseFails(r)
      BY OwnSteps DEF IInv
    <3>2. ~Begin(r) /\ ~Die(r) /\ ~ReleaseFails(r)
      BY Domains DEF Begin, Die, ReleaseFails, Goto, IInv
    <3>3. /\ ~Acquire(r) /\ ~ReleaseGet(r) /\ ~ReleaseDel(r) /\ ~LoadPayments(r)
          /\ ~SettlePayment(r) /\ ~AuditPayment(r)
      BY DEF Acquire, ReleaseGet, ReleaseDel, LoadPayments, SettlePayment, AuditPayment
    <3>4. /\ ~SettlementSideDone(r) /\ ~LoadLedger(r) /\ ~LoadLedgerPayments(r)
          /\ ~SettleLedger(r) /\ ~SetLedgerMatchedPayment(r) /\ ~AuditLedger(r)
          /\ ~LedgerSideDone(r)
      BY Domains DEF SettlementSideDone, LoadLedger, LoadLedgerPayments, SettleLedger,
             SetLedgerMatchedPayment, AuditLedger, LedgerSideDone, Goto, IInv
    <3> QED
      BY <3>1, <3>2, <3>3, <3>4 DEF Step
  <2>2. /\ p \in payments[r] /\ method'[r] = m
        /\ candidates'[r] = SettlementCandidates(lineRows, m, Start(r), end[r])
    BY <2>1, Domains DEF LoadCandidates, IInv
  <2>3. Start(r) <= p.captured /\ p.captured < end[r]
    BY <2>2 DEF IInv, SlicesAreStored, Within
  <2>4. p.captured <= c.settled /\ c.settled <= p.captured + slaFor(m)
    BY <2>2 DEF Plausible, inFutureWindow
  <2>5. /\ p.captured \in Int /\ c.settled \in Int /\ slaFor(m) \in Nat
        /\ Start(r) \in Int /\ end[r] \in Int
    BY <2>2, SLAType, RecordsAssumption, EngineAssumption, Holdings DEF IInv, Start
  <2>6. Within(c.settled, Start(r), end[r] + slaFor(m))
    BY <2>3, <2>4, <2>5 DEF Within
  <2> QED
    BY <2>2, <2>6 DEF SettlementCandidates
<1> QED
  BY <1>1, Inductive, PTL DEF Spec, CandidatesAreComplete

\* The ledger query misses no unmatched line of a payment the run compares with.
THEOREM LedgerComplete == Spec => LedgerIsComplete
<1>1. IInv /\ [Next]_vars =>
         [\A r \in Runs : pc[r] = "loadLedger" /\ pc'[r] # "loadLedger" /\ pc'[r] # "dead" =>
             \A p \in LedgerPayments(paymentRows, Start(r), end[r]), l \in ledgerRows :
                 SameBooking(l, p) /\ pointer[l] = NoPayment => l \in ledger'[r]]_vars
  <2> SUFFICES ASSUME IInv, [Next]_vars, NEW r \in Runs,
                      pc[r] = "loadLedger", pc'[r] # "loadLedger", pc'[r] # "dead",
                      NEW p \in LedgerPayments(paymentRows, Start(r), end[r]),
                      NEW l \in ledgerRows, SameBooking(l, p), pointer[l] = NoPayment
               PROVE  l \in ledger'[r]
    OBVIOUS
  <2>1. LoadLedger(r)
    <3>1. Begin(r) \/ Step(r) \/ Die(r) \/ ReleaseFails(r)
      BY OwnSteps DEF IInv
    <3>2. ~Begin(r) /\ ~Die(r) /\ ~ReleaseFails(r)
      BY Domains DEF Begin, Die, ReleaseFails, Goto, IInv
    <3>3. /\ ~Acquire(r) /\ ~ReleaseGet(r) /\ ~ReleaseDel(r) /\ ~LoadPayments(r)
          /\ ~SettlePayment(r) /\ ~AuditPayment(r) /\ \A m : ~LoadCandidates(r, m)
      BY DEF Acquire, ReleaseGet, ReleaseDel, LoadPayments, SettlePayment, AuditPayment,
             LoadCandidates
    <3>4. /\ ~SettlementSideDone(r) /\ ~LoadLedgerPayments(r) /\ ~SettleLedger(r)
          /\ ~SetLedgerMatchedPayment(r) /\ ~AuditLedger(r) /\ ~LedgerSideDone(r)
      BY DEF SettlementSideDone, LoadLedgerPayments, SettleLedger, SetLedgerMatchedPayment,
             AuditLedger, LedgerSideDone
    <3> QED
      BY <3>1, <3>2, <3>3, <3>4 DEF Step
  <2>2. p \in AllPayments /\ l \in AllLedger
    BY Holdings DEF IInv, LedgerPayments, PaymentsInWindow
  <2>3. /\ p.captured \in Int /\ l.booked \in Int /\ Start(r) \in Int /\ end[r] \in Int
    BY <2>2, RecordsAssumption, EngineAssumption, Holdings DEF IInv, Start
  <2>4. Start(r) - 3 <= p.captured /\ p.captured < end[r] + 3
    BY DEF LedgerPayments, PaymentsInWindow, Within, ledgerBookingLagWindow
  <2>5. l.booked - p.captured <= 3 /\ p.captured - l.booked <= 3
    BY DEF SameBooking, withinDays
  <2>6. Within(l.booked, Start(r) - 2 * 3, end[r] + 2 * 3)
    BY <2>3, <2>4, <2>5 DEF Within
  <2>7. l \in LedgerInWindow(ledgerRows, Start(r), end[r])
    BY <2>6 DEF LedgerInWindow, ledgerBookingLagWindow
  <2> QED
    BY <2>1, <2>7, Domains DEF LoadLedger, IInv
<1> QED
  BY <1>1, Inductive, PTL DEF Spec, LedgerIsComplete
=============================================================================
