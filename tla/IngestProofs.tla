---------------------------- MODULE IngestProofs ----------------------------
(***************************************************************************)
(* Proofs about IngestPipeline for any set of workers and messages and any *)
(* number of faults.                                                       *)
(***************************************************************************)
EXTENDS IngestPipeline, TLAPS

\* Most leaves are first-order: Zenon is asked before the SMT solver.
USE ZenonT(5), SMTT(10)

-----------------------------------------------------------------------------
(* Records of a payload                                                    *)

\* Parse yields one record per event, and Keys and Rows collect all of them.
LEMMA BatchFacts ==
    ASSUME NEW m \in Messages
    PROVE  /\ Len(Batch(m)) \in Nat
           /\ Len(Batch(m)) = Len(Payload[m].events)
           /\ \A i \in 1..Len(Batch(m)) : /\ Batch(m)[i].key \in Keys(m)
                                          /\ Batch(m)[i].row \in Rows(m)
           /\ \A k \in Keys(m) : \E i \in 1..Len(Batch(m)) : Batch(m)[i].key = k
<1> DEFINE n == Len(Payload[m].events)
<1>1. n \in Nat
  BY PayloadAssumption
<1>2. Batch(m) = [i \in 1..n |-> RecordFromObject(Payload[m].source, Payload[m].events[i])]
  BY DEF Batch, Records, Parse
<1> HIDE DEF n
<1>3. Len(Batch(m)) = n /\ DOMAIN Batch(m) = 1..n
  BY <1>1, <1>2
<1>4. Keys(m) = {Batch(m)[i].key : i \in 1..n}
  BY <1>3 DEF Keys
<1>5. Rows(m) = {Batch(m)[i].row : i \in 1..n}
  BY <1>3 DEF Rows
<1> QED
  BY <1>1, <1>3, <1>4, <1>5 DEF n

\* A worker inside persist is at a record of its message.
LEMMA RecordFacts ==
    ASSUME TypeOK, JobsKnown, PassedIsStored, NEW w \in Workers, Persisting(w)
    PROVE  /\ job[w] \in Messages
           /\ Record(w).key \in Keys(job[w])
           /\ Record(w).key \in AllKeys
           /\ Record(w).row \in AllRows
<1>1. job[w] \in Messages
  BY DEF JobsKnown, Persisting
<1>2. next[w] \in 1..Len(Batch(job[w]))
  BY DEF PassedIsStored
<1>3. Record(w).key \in Keys(job[w]) /\ Record(w).row \in Rows(job[w])
  BY <1>1, <1>2, BatchFacts DEF Record
<1> QED
  BY <1>1, <1>3 DEF AllKeys, AllRows

-----------------------------------------------------------------------------
(* Steps preserve the inductive invariant                                  *)

\* Receiving a batch, and dropping it when an object cannot be fetched.
LEMMA ReceivePreserves ==
    ASSUME IInv, NEW w \in Workers,
           (\E ms \in Batches : Receive(w, ms)) \/ (\E m \in Messages : FetchFails(w, m))
    PROVE  IInv'
<1>1. /\ UNCHANGED <<stored, place, pc, job, next, applied, status, mishaps>>
      /\ \E ms \in SUBSET Messages : batch' = [batch EXCEPT ![w] = ms]
  <2>1. \A ms \in Batches : ms \subseteq Messages
    <3>1. \A ms \in Receives : ms \subseteq Messages
      BY DEF Receives
    <3>2. \A ms \in Walks : ms \subseteq Messages
      BY DEF Walks
    <3>3. \A ms \in Posts : ms \subseteq Messages
      BY DEF Posts
    <3> QED
      BY <3>1, <3>2, <3>3 DEF Batches
  <2>2. CASE \E ms \in Batches : Receive(w, ms)
    BY <2>1, <2>2 DEF Receive
  <2>3. CASE \E m \in Messages : FetchFails(w, m)
    BY <2>3 DEF FetchFails
  <2> QED
    BY <2>2, <2>3
<1> USE <1>1 DEF IInv, stored, mishaps
<1>2. TypeOK'
  BY DEF TypeOK
<1>3. JobsKnown' /\ PassedIsStored'
  BY DEF JobsKnown, PassedIsStored, Persisting
<1>4. CurrentIsStored' /\ ResultIsStored' /\ AuditIsExclusive'
  BY DEF CurrentIsStored, ResultIsStored, AuditIsExclusive, Record, ShouldAck
<1>5. CacheIsSound' /\ AckAfterCommitted' /\ AuditedAtMostOnce'
  BY DEF CacheIsSound, AckAfterCommitted, AuditedAtMostOnce
<1> QED
  BY <1>2, <1>3, <1>4, <1>5

\* Beginning a message of the batch: authentication and parsing.
LEMMA TakePreserves ==
    ASSUME IInv, NEW w \in Workers, NEW m \in Messages, Take(w, m)
    PROVE  IInv'
<1> USE DEF IInv, Take, Goto, stored, mishaps
<1>1. TypeOK'
  BY DEF TypeOK
<1>2. JobsKnown'
  BY DEF TypeOK, JobsKnown
<1>3. PassedIsStored'
  <2>1. next[w] = 1 /\ next' = next
    BY DEF JobsKnown
  <2>2. Valid(m) => Len(Batch(m)) \in Nat /\ Len(Batch(m)) > 0
    BY BatchFacts DEF Valid, Validate
  <2> QED
    BY <2>1, <2>2 DEF TypeOK, PassedIsStored, Persisting
<1>4. CurrentIsStored' /\ ResultIsStored'
  BY DEF TypeOK, CurrentIsStored, ResultIsStored, Record, ShouldAck
<1>5. CacheIsSound' /\ AckAfterCommitted' /\ AuditedAtMostOnce'
  BY DEF CacheIsSound, AckAfterCommitted, AuditedAtMostOnce
<1>6. AuditIsExclusive'
  BY DEF TypeOK, AuditIsExclusive, Record
<1> QED
  BY <1>1, <1>2, <1>3, <1>4, <1>5, <1>6

\* Returning from persist, whatever the outcome, keeps what workers know.
LEMMA NextRecordKeeps ==
    ASSUME IInv, NEW w \in Workers, NEW n \in {0, 1}, NextRecord(w, n),
           Persisting(w), Record(w).key \in rawEvents,
           UNCHANGED <<rawEvents, audited>>
    PROVE  /\ JobsKnown' /\ PassedIsStored' /\ CurrentIsStored' /\ ResultIsStored'
           /\ AuditIsExclusive'
           /\ pc' \in [Workers -> {"idle", "lookup", "transaction",
                                   "audit", "mark", "markDuplicate", "reply"}]
           /\ job' = job /\ batch' = batch
           /\ next' \in [Workers -> Nat \ {0}]
           /\ applied' \in [Workers -> Nat]
           /\ status' \in [Workers -> {"none", "applied", "duplicate", "rejected"}]
<1> USE DEF IInv
<1>1. job[w] \in Messages /\ Len(Batch(job[w])) \in Nat
  BY RecordFacts, BatchFacts
<1>2. /\ next[w] \in 1..Len(Batch(job[w]))
      /\ \A i \in 1..next[w] : Batch(job[w])[i].key \in rawEvents
  BY <1>1 DEF PassedIsStored, Record, TypeOK
<1>3. CASE next[w] < Len(Batch(job[w]))
  <2>1. /\ job' = job /\ batch' = batch
        /\ next' = [next EXCEPT ![w] = @ + 1]
        /\ pc' = [pc EXCEPT ![w] = "lookup"]
        /\ status' = status
        /\ applied' = [applied EXCEPT ![w] = @ + n]
    BY <1>3 DEF NextRecord, Goto
  <2>2. JobsKnown'
    BY <2>1, <1>1 DEF TypeOK, JobsKnown
  <2>3. PassedIsStored'
    <3> SUFFICES ASSUME NEW v \in Workers, Persisting(v)'
                 PROVE  /\ next'[v] \in 1..Len(Batch(job[v]))
                        /\ \A i \in 1..(next'[v] - 1) : Batch(job[v])[i].key \in rawEvents
      BY <2>1 DEF PassedIsStored
    <3>1. CASE v = w
      <4>1. next'[w] = next[w] + 1 /\ next[w] \in Nat
        BY <2>1 DEF TypeOK
      <4> QED
        BY <3>1, <4>1, <1>1, <1>2, <1>3
    <3>2. CASE v # w
      BY <3>2, <2>1 DEF TypeOK, PassedIsStored, Persisting
    <3> QED
      BY <3>1, <3>2
  <2>4. CurrentIsStored' /\ ResultIsStored'
    BY <2>1 DEF TypeOK, CurrentIsStored, ResultIsStored, Record, ShouldAck
  <2>5. AuditIsExclusive'
    BY <2>1 DEF TypeOK, AuditIsExclusive, Record
  <2> QED
    BY <2>1, <2>2, <2>3, <2>4, <2>5 DEF TypeOK
<1>4. CASE ~(next[w] < Len(Batch(job[w])))
  <2>1. /\ job' = job /\ batch' = batch
        /\ next' = next
        /\ pc' = [pc EXCEPT ![w] = "reply"]
        /\ status' = [status EXCEPT ![w] =
                         IF applied[w] + n = 0 THEN "duplicate" ELSE "applied"]
        /\ applied' = [applied EXCEPT ![w] = @ + n]
    BY <1>4 DEF NextRecord, Goto
  <2>2. JobsKnown'
    BY <2>1, <1>1 DEF TypeOK, JobsKnown
  <2>3. PassedIsStored' /\ CurrentIsStored'
    BY <2>1 DEF TypeOK, PassedIsStored, CurrentIsStored, Persisting, Record
  <2>4. ResultIsStored'
    <3>1. Keys(job[w]) \subseteq rawEvents
      BY <1>1, <1>2, <1>4, BatchFacts
    <3> QED
      BY <2>1, <3>1 DEF TypeOK, ResultIsStored, ShouldAck
  <2>5. AuditIsExclusive'
    BY <2>1 DEF TypeOK, AuditIsExclusive, Record
  <2>6. /\ pc' \in [Workers -> {"idle", "lookup", "transaction",
                               "audit", "mark", "markDuplicate", "reply"}]
        /\ next' \in [Workers -> Nat \ {0}]
        /\ status' \in [Workers -> {"none", "applied", "duplicate", "rejected"}]
    BY <2>1 DEF TypeOK
  <2>7. applied' \in [Workers -> Nat]
    <3>1. applied' = [applied EXCEPT ![w] = applied[w] + n]
      BY <2>1
    <3> QED
      BY <3>1 DEF TypeOK
  <2> QED
    BY <2>1, <2>2, <2>3, <2>4, <2>5, <2>6, <2>7
<1> QED
  BY <1>3, <1>4

\* Skipping a record the cache knows.
LEMMA CacheHitPreserves ==
    ASSUME IInv, NEW w \in Workers, CacheHit(w)
    PROVE  IInv'
<1> USE DEF IInv, CacheHit, stored, mishaps
<1>1. Persisting(w) /\ Record(w).key \in rawEvents
  BY DEF Persisting, CacheIsSound
<1>2. NextRecord(w, 0) /\ UNCHANGED <<rawEvents, audited>>
  OBVIOUS
<1>3. CacheIsSound' /\ AckAfterCommitted' /\ AuditedAtMostOnce'
  BY DEF CacheIsSound, AckAfterCommitted, AuditedAtMostOnce
<1> QED
  BY <1>1, <1>2, <1>3, NextRecordKeeps DEF TypeOK

\* Moving inside persist without writing: a cache miss or a duplicate key.
LEMMA LookPreserves ==
    ASSUME IInv, NEW w \in Workers, CacheMiss(w) \/ DuplicateRecord(w)
    PROVE  IInv'
<1> USE DEF IInv, CacheMiss, DuplicateRecord, Goto, stored, mishaps
<1>1. TypeOK'
  BY DEF TypeOK
<1>2. JobsKnown' /\ PassedIsStored'
  BY DEF TypeOK, JobsKnown, PassedIsStored, Persisting
<1>3. CurrentIsStored' /\ ResultIsStored'
  BY DEF TypeOK, CurrentIsStored, ResultIsStored, Record, ShouldAck
<1>4. CacheIsSound' /\ AckAfterCommitted' /\ AuditedAtMostOnce'
  BY DEF CacheIsSound, AckAfterCommitted, AuditedAtMostOnce
<1>5. AuditIsExclusive'
  BY DEF TypeOK, AuditIsExclusive, Record
<1> QED
  BY <1>1, <1>2, <1>3, <1>4, <1>5

\* Committing a raw event with its normalized row.
LEMMA CommitPreserves ==
    ASSUME IInv, NEW w \in Workers, CommitRecord(w)
    PROVE  IInv'
<1> USE DEF IInv, CommitRecord, Persist, Goto, mishaps
<1>1. Record(w).key \in AllKeys /\ Record(w).row \in AllRows /\ job[w] \in Messages
  BY RecordFacts DEF Persisting
<1>2. TypeOK'
  BY <1>1 DEF TypeOK
<1>3. JobsKnown' /\ PassedIsStored'
  BY DEF TypeOK, JobsKnown, PassedIsStored, Persisting
<1>4. CurrentIsStored' /\ ResultIsStored'
  BY DEF TypeOK, CurrentIsStored, ResultIsStored, Record, ShouldAck
<1>5. CacheIsSound' /\ AckAfterCommitted' /\ AuditedAtMostOnce'
  BY DEF CacheIsSound, AckAfterCommitted, AuditedAtMostOnce
<1>6. AuditIsExclusive'
  <2>1. audited[Record(w).key] = 0
    BY <1>1 DEF TypeOK, AuditedAtMostOnce
  <2>2. \A v \in Workers : pc[v] = "audit" => Record(v).key # Record(w).key
    BY DEF CurrentIsStored
  <2> QED
    BY <2>1, <2>2 DEF TypeOK, AuditIsExclusive, Record
<1> QED
  BY <1>2, <1>3, <1>4, <1>5, <1>6

\* A transaction that reports an error, with or without having taken effect.
LEMMA TransactionFailsPreserves ==
    ASSUME IInv, NEW w \in Workers, TransactionFails(w) \/ RefusedRecord(w)
    PROVE  IInv'
<1> USE DEF IInv, TransactionFails, RefusedRecord, Persist, Reject, Goto, SpendFault, stored, mishaps
<1>1. Record(w).key \in AllKeys /\ Record(w).row \in AllRows /\ job[w] \in Messages
  BY RecordFacts DEF Persisting
<1>2. /\ rawEvents' \in {rawEvents, rawEvents \cup {Record(w).key}}
      /\ rows' \in {rows, rows \cup {Record(w).row}}
      /\ UNCHANGED <<audited, cache, place>>
  OBVIOUS
<1>3. TypeOK'
  BY <1>1, <1>2 DEF TypeOK
<1>4. JobsKnown' /\ PassedIsStored'
  BY <1>2 DEF TypeOK, JobsKnown, PassedIsStored, Persisting
<1>5. CurrentIsStored' /\ ResultIsStored'
  BY <1>2 DEF TypeOK, CurrentIsStored, ResultIsStored, Record, ShouldAck
<1>6. CacheIsSound' /\ AckAfterCommitted' /\ AuditedAtMostOnce'
  BY <1>2 DEF CacheIsSound, AckAfterCommitted, AuditedAtMostOnce
<1>7. AuditIsExclusive'
  BY <1>2 DEF TypeOK, AuditIsExclusive, Record
<1> QED
  BY <1>3, <1>4, <1>5, <1>6, <1>7

\* The audit entry of a committed event, or its failure.
LEMMA AuditPreserves ==
    ASSUME IInv, NEW w \in Workers, WriteIngestAudit(w) \/ AuditDeadlock(w) \/ AuditFails(w)
    PROVE  IInv'
<1> USE DEF IInv, WriteIngestAudit, AuditDeadlock, AuditFails, AppendAudit, Reject, Goto,
            SpendFault, stored, mishaps
<1>1. Record(w).key \in AllKeys /\ job[w] \in Messages /\ pc[w] = "audit"
  BY RecordFacts DEF Persisting
<1>2. /\ audited' \in {audited, [audited EXCEPT ![Record(w).key] = @ + 1]}
      /\ UNCHANGED <<rawEvents, rows, cache, place, batch, job, next, applied>>
      /\ \/ pc' = [pc EXCEPT ![w] = "mark"] /\ status' = status
         \/ /\ pc' = [pc EXCEPT ![w] = "reply"]
            /\ status' = [status EXCEPT ![w] = "rejected"]
      /\ faults' \in {faults, faults + 1}
      /\ spoilt' = spoilt \/ spoilt' \subseteq spoilt \cup {job[w]}
  OBVIOUS
<1> HIDE DEF WriteIngestAudit, AuditDeadlock, AuditFails, AppendAudit, Reject, Goto,
             SpendFault, stored, mishaps
<1>3. TypeOK'
  BY <1>1, <1>2 DEF TypeOK
<1>4. JobsKnown' /\ PassedIsStored'
  BY <1>1, <1>2 DEF TypeOK, JobsKnown, PassedIsStored, Persisting
<1>5. CurrentIsStored' /\ ResultIsStored'
  BY <1>1, <1>2 DEF TypeOK, CurrentIsStored, ResultIsStored, Record, ShouldAck
<1>6. CacheIsSound' /\ AckAfterCommitted'
  BY <1>2 DEF CacheIsSound, AckAfterCommitted
<1>7. AuditedAtMostOnce'
  <2>1. audited[Record(w).key] = 0 /\ Record(w).key \in rawEvents
    BY <1>1 DEF AuditIsExclusive, CurrentIsStored
  <2> QED
    BY <1>1, <1>2, <2>1 DEF TypeOK, AuditedAtMostOnce
<1>8. AuditIsExclusive'
  <2>1. \A v \in Workers \ {w} : pc[v] = "audit" => Record(v).key # Record(w).key
    BY <1>1 DEF AuditIsExclusive
  <2>2. \A v \in Workers : pc'[v] = "audit" => v # w /\ pc[v] = "audit"
    BY <1>1, <1>2 DEF TypeOK
  <2>3. ASSUME NEW v \in Workers, pc'[v] = "audit"
        PROVE  audited'[Record(v).key] = 0
    <3>1. audited[Record(v).key] = 0 /\ Record(v).key # Record(w).key
      BY <2>1, <2>2, <2>3 DEF AuditIsExclusive
    <3>2. Record(v).key \in AllKeys
      <4>1. Persisting(v)
        BY <2>2, <2>3 DEF Persisting
      <4> QED
        BY <4>1, RecordFacts
    <3> QED
      BY <1>2, <3>1, <3>2 DEF TypeOK
  <2>4. ASSUME NEW v \in Workers, NEW u \in Workers \ {v}, pc'[v] = "audit", pc'[u] = "audit"
        PROVE  Record(u).key # Record(v).key
    BY <2>2, <2>4 DEF AuditIsExclusive
  <2> QED
    BY <1>2, <2>3, <2>4 DEF AuditIsExclusive, Record
<1> QED
  BY <1>3, <1>4, <1>5, <1>6, <1>7, <1>8

\* Marking the cache after the commit, and returning from persist.
LEMMA MarkPreserves ==
    ASSUME IInv, NEW w \in Workers, Mark(w)
    PROVE  IInv'
<1> USE DEF IInv, Mark, mishaps
<1>1. Persisting(w) /\ Record(w).key \in rawEvents
  BY DEF Persisting, CurrentIsStored
<1>2. PICK n \in {0, 1} : NextRecord(w, n)
  OBVIOUS
<1>3. CacheIsSound' /\ AckAfterCommitted' /\ AuditedAtMostOnce'
  BY <1>1 DEF CacheIsSound, AckAfterCommitted, AuditedAtMostOnce
<1>4. Record(w).key \in AllKeys
  BY <1>1, RecordFacts
<1>5. /\ JobsKnown' /\ PassedIsStored' /\ CurrentIsStored' /\ ResultIsStored'
      /\ AuditIsExclusive'
  BY <1>1, <1>2, NextRecordKeeps
<1>6. TypeOK'
  BY <1>1, <1>2, <1>4, NextRecordKeeps DEF TypeOK
<1> QED
  BY <1>3, <1>5, <1>6

\* Answering the transport, moving the file, or giving up on the message.
LEMMA ReplyPreserves ==
    ASSUME IInv, NEW w \in Workers,
           Acknowledge(w) \/ LeaveWaiting(w) \/ MoveToFailed(w) \/ Abandon(w)
    PROVE  IInv'
<1> USE DEF IInv
<1>1. /\ UNCHANGED <<rawEvents, rows, audited, cache>>
      /\ pc' = [pc EXCEPT ![w] = "idle"]
      /\ job' = [job EXCEPT ![w] = NoJob]
      /\ next' = [next EXCEPT ![w] = 1]
      /\ applied' = [applied EXCEPT ![w] = 0]
      /\ status' = [status EXCEPT ![w] = "none"]
      /\ batch' = batch \/ batch' = [batch EXCEPT ![w] = {}]
      /\ faults' \in {faults, faults + 1}
      /\ spoilt' \subseteq spoilt \cup {job[w]}
  BY DEF Acknowledge, LeaveWaiting, MoveToFailed, Abandon, Finish, Goto, SpendFault, stored, mishaps
<1>2. /\ pc[w] # "idle" /\ job[w] \in Messages
      /\ \/ place' = place
         \/ place' = [place EXCEPT ![job[w]] = "failed"]
         \/ /\ pc[w] = "reply" /\ ShouldAck(w)
            /\ place' = [place EXCEPT ![job[w]] = "done"]
  BY DEF Acknowledge, LeaveWaiting, MoveToFailed, Abandon, JobsKnown
<1>3. TypeOK'
  BY <1>1, <1>2 DEF TypeOK
<1>4. JobsKnown' /\ PassedIsStored'
  BY <1>1 DEF TypeOK, JobsKnown, PassedIsStored, Persisting
<1>5. CurrentIsStored' /\ ResultIsStored'
  BY <1>1 DEF TypeOK, CurrentIsStored, ResultIsStored, Record, ShouldAck
<1>6. CacheIsSound' /\ AuditedAtMostOnce'
  BY <1>1 DEF CacheIsSound, AuditedAtMostOnce
<1>7. AckAfterCommitted'
  BY <1>1, <1>2 DEF TypeOK, AckAfterCommitted, ResultIsStored
<1>8. AuditIsExclusive'
  BY <1>1 DEF TypeOK, AuditIsExclusive, Record
<1> QED
  BY <1>3, <1>4, <1>5, <1>6, <1>7, <1>8

\* A cached key disappearing, or nothing happening.
LEMMA ExpirePreserves ==
    ASSUME IInv, (\E k \in AllKeys : Expire(k)) \/ UNCHANGED vars
    PROVE  IInv'
<1>1. cache' \subseteq cache /\ UNCHANGED <<rawEvents, rows, audited, place, local, mishaps>>
  BY DEF Expire, vars, stored
<1> USE <1>1 DEF IInv, local, mishaps
<1>2. TypeOK' /\ CacheIsSound'
  BY DEF TypeOK, CacheIsSound
<1>3. JobsKnown' /\ PassedIsStored' /\ AckAfterCommitted' /\ AuditedAtMostOnce'
  BY DEF JobsKnown, PassedIsStored, Persisting, AckAfterCommitted, AuditedAtMostOnce
<1>4. CurrentIsStored' /\ ResultIsStored' /\ AuditIsExclusive'
  BY DEF CurrentIsStored, ResultIsStored, AuditIsExclusive, Record, ShouldAck
<1> QED
  BY <1>2, <1>3, <1>4

-----------------------------------------------------------------------------
(* The theorems                                                            *)

\* The inductive invariant holds: what a worker has learnt of MySQL at each
\* step of persist stays true whatever other workers, crashes and errors do.
THEOREM Inductive == Spec => []IInv
<1>1. Init => IInv
  BY PayloadAssumption DEF Init, IInv, TypeOK, JobsKnown, PassedIsStored, Persisting,
       CurrentIsStored, ResultIsStored, CacheIsSound, AckAfterCommitted,
       AuditIsExclusive, AuditedAtMostOnce
<1>2. IInv /\ [Next]_vars => IInv'
  <2> SUFFICES ASSUME IInv, [Next]_vars PROVE IInv'
    OBVIOUS
  <2>1. CASE (\E k \in AllKeys : Expire(k)) \/ UNCHANGED vars
    BY <2>1, ExpirePreserves
  <2>2. CASE \E w \in Workers, ms \in Batches : Receive(w, ms)
    BY <2>2, ReceivePreserves
  <2>3. CASE \E w \in Workers : Step(w) \/ TransactionFails(w) \/ AuditFails(w) \/ Abandon(w)
    BY <2>3, ReceivePreserves, TakePreserves, CacheHitPreserves, LookPreserves, CommitPreserves,
       TransactionFailsPreserves, AuditPreserves, MarkPreserves, ReplyPreserves DEF Step
  <2> QED
    BY <2>1, <2>2, <2>3 DEF Next
<1> QED
  BY <1>1, <1>2, PTL DEF Spec

\* Type correctness.
THEOREM TypeCorrect == Spec => []TypeOK
<1>1. IInv => TypeOK
  BY DEF IInv
<1> QED
  BY <1>1, Inductive, PTL

\* No message is acknowledged before all its events are committed.
THEOREM AcksFollowCommits == Spec => []AckAfterCommitted
<1>1. IInv => AckAfterCommitted
  BY DEF IInv
<1> QED
  BY <1>1, Inductive, PTL

\* A cache hit never drops an event.
THEOREM CacheNeverLies == Spec => []CacheIsSound
<1>1. IInv => CacheIsSound
  BY DEF IInv
<1> QED
  BY <1>1, Inductive, PTL

\* Redelivery and concurrency never audit an event twice.
THEOREM NoDoubleAudit == Spec => []AuditedAtMostOnce
<1>1. IInv => AuditedAtMostOnce
  BY DEF IInv
<1> QED
  BY <1>1, Inductive, PTL

\* A reason to reject a file stays one: an event that lost its audit entry is
\* stored, so that no transaction will insert it and nobody will audit it.
LEMMA ExcusesLast ==
    ASSUME IInv, [Next]_vars, NEW m \in Messages, Excused(m)
    PROVE  Excused(m)'
<1> USE DEF IInv
<1>1. spoilt \subseteq spoilt'
  BY DEF Next, Step, vars, mishaps, Receive, Take, FetchFails, CacheHit, CacheMiss, CommitRecord,
         DuplicateRecord, RefusedRecord, WriteIngestAudit, AuditDeadlock, Mark, Acknowledge,
         LeaveWaiting, MoveToFailed, TransactionFails, AuditFails, Abandon, Expire, SpendFault
<1>2. ASSUME NEW k, LostItsEntry(k)
      PROVE  LostItsEntry(k)'
  <2>1. k \in rawEvents /\ audited[k] = 0 /\ k \in AllKeys
    BY <1>2 DEF LostItsEntry, TypeOK
  <2>2. \A w \in Workers : pc[w] = "audit" => Record(w).key # k
    BY <1>2 DEF LostItsEntry
  <2>3. CASE /\ UNCHANGED <<audited, job, next>> /\ rawEvents \subseteq rawEvents'
             /\ \A w \in Workers : pc'[w] = "audit" => pc[w] = "audit"
    BY <2>1, <2>2, <2>3 DEF LostItsEntry, Record
  <2>4. ASSUME NEW w \in Workers, UNCHANGED <<rawEvents, audited>>, pc'[w] # "audit",
               \A v \in Workers \ {w} : /\ pc'[v] = pc[v] /\ job'[v] = job[v]
                                        /\ next'[v] = next[v]
        PROVE  LostItsEntry(k)'
    BY <2>1, <2>2, <2>4 DEF LostItsEntry, Record
  <2>5. ASSUME NEW w \in Workers, CommitRecord(w)
        PROVE  LostItsEntry(k)'
    <3>1. Record(w).key # k /\ rawEvents \subseteq rawEvents' /\ UNCHANGED <<audited, job, next>>
      BY <2>1, <2>5 DEF CommitRecord, Persist
    <3>2. \A v \in Workers : pc'[v] = "audit" => v = w \/ pc[v] = "audit"
      BY <2>5 DEF CommitRecord, Goto, TypeOK
    <3> QED
      BY <2>1, <2>2, <3>1, <3>2 DEF LostItsEntry, Record
  <2>6. ASSUME NEW w \in Workers, WriteIngestAudit(w) \/ AuditFails(w)
        PROVE  LostItsEntry(k)'
    <3>1. pc[w] = "audit" /\ Record(w).key # k
      BY <2>2, <2>6 DEF WriteIngestAudit, AuditFails
    <3>2. /\ audited' \in {audited, [audited EXCEPT ![Record(w).key] = @ + 1]}
          /\ UNCHANGED <<rawEvents, job, next>>
      BY <2>6 DEF WriteIngestAudit, AuditFails, AppendAudit, Reject, stored
    <3>3. \A v \in Workers : pc'[v] = "audit" => pc[v] = "audit"
      BY <2>6 DEF WriteIngestAudit, AuditFails, Reject, Goto, TypeOK
    <3>4. audited'[k] = 0
      BY <2>1, <3>1, <3>2 DEF TypeOK
    <3> QED
      BY <2>1, <2>2, <3>2, <3>3, <3>4 DEF LostItsEntry, Record
  <2>7. CASE (\E j \in AllKeys : Expire(j)) \/ UNCHANGED vars
    BY <2>3, <2>7 DEF Expire, vars, stored, local
  <2>8. ASSUME NEW w \in Workers,
               \/ \E ms \in Batches : Receive(w, ms)
               \/ \E n \in Messages : FetchFails(w, n)
               \/ CacheMiss(w) \/ DuplicateRecord(w) \/ RefusedRecord(w) \/ AuditDeadlock(w)
               \/ TransactionFails(w)
        PROVE  LostItsEntry(k)'
    <3>1. UNCHANGED <<audited, job, next>> /\ rawEvents \subseteq rawEvents'
      BY <2>8 DEF Receive, FetchFails, CacheMiss, DuplicateRecord, RefusedRecord, AuditDeadlock,
                  TransactionFails, Persist, Reject, stored
    <3>2. \A v \in Workers : pc'[v] = "audit" => pc[v] = "audit"
      BY <2>8 DEF Receive, FetchFails, CacheMiss, DuplicateRecord, RefusedRecord, AuditDeadlock,
                  TransactionFails, Reject, Goto, TypeOK
    <3> QED
      BY <2>3, <3>1, <3>2
  <2>9. ASSUME NEW w \in Workers,
               \/ \E n \in Messages : Take(w, n)
               \/ CacheHit(w) \/ Mark(w)
               \/ Acknowledge(w) \/ LeaveWaiting(w) \/ MoveToFailed(w) \/ Abandon(w)
        PROVE  LostItsEntry(k)'
    <3>1. UNCHANGED <<rawEvents, audited>>
      BY <2>9 DEF Take, CacheHit, Mark, Acknowledge, LeaveWaiting, MoveToFailed, Abandon, stored
    <3>2. /\ pc'[w] # "audit"
          /\ \A v \in Workers \ {w} : /\ pc'[v] = pc[v] /\ job'[v] = job[v]
                                      /\ next'[v] = next[v]
      <4>1. CASE \E n \in Messages : Take(w, n)
        BY <4>1 DEF Take, Goto, TypeOK
      <4>2. CASE CacheHit(w) \/ Mark(w)
        BY <4>2 DEF CacheHit, Mark, NextRecord, Goto, TypeOK
      <4>3. CASE Acknowledge(w) \/ LeaveWaiting(w) \/ MoveToFailed(w) \/ Abandon(w)
        BY <4>3 DEF Acknowledge, LeaveWaiting, MoveToFailed, Abandon, Finish, Goto, TypeOK
      <4> QED
        BY <2>9, <4>1, <4>2, <4>3
    <3> QED
      BY <2>4, <3>1, <3>2
  <2> QED
    BY <2>5, <2>6, <2>7, <2>8, <2>9 DEF Next, Step
<1> QED
  BY <1>1, <1>2 DEF Excused

\* Whoever gives up on a file gives it a reason: MySQL refuses a value of it, a
\* fault met it, or its audit entry was rolled back and will never be written.
LEMMA RejectsHaveReasons ==
    ASSUME IInv, NEW w \in Workers, Transport(job[w]) = "landing",
           RefusedRecord(w) \/ AuditDeadlock(w) \/ TransactionFails(w) \/ AuditFails(w)
    PROVE  Excused(job[w])'
<1> USE DEF IInv
<1>1. Persisting(w)
  BY DEF RefusedRecord, AuditDeadlock, TransactionFails, AuditFails, Persisting
<1>2. job[w] \in Messages /\ job' = job /\ Record(w).key \in Keys(job[w])
  BY <1>1, RecordFacts DEF RefusedRecord, AuditDeadlock, TransactionFails, AuditFails, Reject
<1>3. CASE RefusedRecord(w)
  <2>1. next[w] \in 1..Len(Payload[job[w]].events)
    BY <1>1, <1>2, BatchFacts DEF PassedIsStored
  <2>2. ~Parse(Payload[job[w]])[next[w]].fits
    BY <1>2, <1>3 DEF RefusedRecord, Record, Batch, Records
  <2> QED
    BY <1>2, <2>1, <2>2 DEF Excused, Storable
<1>4. CASE AuditDeadlock(w)
  <2>1. /\ Record(w).key \in rawEvents /\ audited[Record(w).key] = 0
        /\ \A v \in Workers \ {w} : pc[v] = "audit" => Record(v).key # Record(w).key
    BY <1>4 DEF AuditDeadlock, CurrentIsStored, AuditIsExclusive
  <2>2. /\ UNCHANGED <<rawEvents, audited, job, next>>
        /\ \A v \in Workers : pc'[v] = "audit" => v # w /\ pc[v] = "audit"
    BY <1>4 DEF AuditDeadlock, Reject, Goto, stored, TypeOK
  <2>3. LostItsEntry(Record(w).key)'
    BY <2>1, <2>2 DEF LostItsEntry, Record
  <2>4. Record(w)' = Record(w)
    BY <2>2 DEF Record
  <2> QED
    BY <1>2, <2>3, <2>4 DEF Excused
<1>5. CASE TransactionFails(w) \/ AuditFails(w)
  BY <1>2, <1>5 DEF TransactionFails, AuditFails, SpendFault, Excused
<1> QED
  BY <1>3, <1>4, <1>5

\* A landing file ends up in failed/ only when it is not valid, MySQL refuses a
\* value of it, a fault met it, or one of its events is stored and will never
\* have its audit entry; duplicates and concurrent stores never put it there.
THEOREM GoodFilesAreKept == Spec => []OnlyBadFilesFail
<1> DEFINE Due == RejectsAreDue /\ OnlyBadFilesFail
<1>1. Init => Due
  BY DEF Init, RejectsAreDue, OnlyBadFilesFail
<1>2. IInv /\ Due /\ [Next]_vars => Due'
  <2> SUFFICES ASSUME IInv, Due, [Next]_vars PROVE Due'
    OBVIOUS
  <2> USE DEF IInv, RejectsAreDue, OnlyBadFilesFail
  <2>1. \A m \in Messages : Excused(m) => Excused(m)'
    BY ExcusesLast
  <2>2. ASSUME /\ \A m \in Messages : place'[m] = "failed" => place[m] = "failed"
               /\ \A v \in Workers : pc'[v] = "reply" /\ ~ShouldAck(v)' =>
                     /\ pc[v] = "reply" /\ ~ShouldAck(v)
                     /\ job'[v] = job[v] /\ job[v] \in Messages
        PROVE  Due'
    BY <2>1, <2>2
  <2>3. \A v \in Workers : pc[v] = "reply" => job[v] \in Messages
    BY DEF JobsKnown
  <2>4. CASE (\E k \in AllKeys : Expire(k)) \/ UNCHANGED vars
    BY <2>2, <2>3, <2>4 DEF Expire, vars, local, ShouldAck
  <2>5. ASSUME NEW w \in Workers,
               \/ \E ms \in Batches : Receive(w, ms)
               \/ \E m \in Messages : FetchFails(w, m)
               \/ CacheMiss(w) \/ CommitRecord(w) \/ DuplicateRecord(w) \/ WriteIngestAudit(w)
        PROVE  Due'
    BY <2>2, <2>3, <2>5 DEF TypeOK, Receive, FetchFails, CacheMiss, CommitRecord,
                            DuplicateRecord, WriteIngestAudit, Goto, ShouldAck
  <2>6. ASSUME NEW w \in Workers, CacheHit(w) \/ Mark(w)
        PROVE  Due'
    BY <2>2, <2>3, <2>6 DEF TypeOK, CacheHit, Mark, NextRecord, Goto, ShouldAck
  <2>7. ASSUME NEW w \in Workers, NEW m \in Messages, Take(w, m)
        PROVE  Due'
    <3>1. ~Valid(m) => Excused(m)'
      BY DEF Excused
    <3>2. /\ place' = place /\ job'[w] = m
          /\ pc'[w] = "reply" => ~Valid(m)
          /\ \A v \in Workers \ {w} : pc'[v] = pc[v] /\ status'[v] = status[v] /\ job'[v] = job[v]
      BY <2>7 DEF Take, Goto, TypeOK
    <3> QED
      BY <2>1, <2>3, <3>1, <3>2 DEF ShouldAck
  <2>8. ASSUME NEW w \in Workers,
               RefusedRecord(w) \/ AuditDeadlock(w) \/ TransactionFails(w) \/ AuditFails(w)
        PROVE  Due'
    <3>1. Transport(job[w]) = "landing" => Excused(job[w])'
      BY <2>8, RejectsHaveReasons
    <3>2. /\ place' = place /\ job' = job
          /\ \A v \in Workers \ {w} : pc'[v] = pc[v] /\ status'[v] = status[v]
      BY <2>8 DEF RefusedRecord, AuditDeadlock, TransactionFails, AuditFails, Reject, Goto, TypeOK
    <3> QED
      BY <2>1, <2>3, <3>1, <3>2 DEF ShouldAck
  <2>9. ASSUME NEW w \in Workers,
               Acknowledge(w) \/ LeaveWaiting(w) \/ MoveToFailed(w) \/ Abandon(w)
        PROVE  Due'
    <3>1. /\ job[w] \in Messages
          /\ \/ place' = place
             \/ place' = [place EXCEPT ![job[w]] = "done"]
             \/ place' = [place EXCEPT ![job[w]] = "failed"] /\ Excused(job[w])
      BY <2>9 DEF JobsKnown, Acknowledge, LeaveWaiting, MoveToFailed, Abandon
    <3>2. /\ pc' = [pc EXCEPT ![w] = "idle"] /\ job' = [job EXCEPT ![w] = NoJob]
          /\ status' = [status EXCEPT ![w] = "none"]
      BY <2>9 DEF Acknowledge, LeaveWaiting, MoveToFailed, Abandon, Finish, Goto
    <3>3. \A v \in Workers : pc'[v] = "reply" =>
             pc[v] = "reply" /\ status'[v] = status[v] /\ job'[v] = job[v]
      BY <3>2 DEF TypeOK
    <3>4. RejectsAreDue'
      BY <2>1, <2>3, <3>3 DEF ShouldAck
    <3>5. OnlyBadFilesFail'
      BY <2>1, <3>1 DEF TypeOK
    <3> QED
      BY <3>4, <3>5
  <2> QED
    BY <2>4, <2>5, <2>6, <2>7, <2>8, <2>9 DEF Next, Step
<1>3. Due => OnlyBadFilesFail
  OBVIOUS
<1> QED
  BY <1>1, <1>2, <1>3, Inductive, PTL DEF Spec

-----------------------------------------------------------------------------
(* The pipeline implements AckAfterCommit                                  *)

\* How a step may move the workers' messages.
LEMMA JobMoves ==
    ASSUME IInv, [Next]_vars
    PROVE  \/ /\ UNCHANGED <<batch, job, place>>
              /\ \A v \in Workers : pc[v] = "idle" <=> pc'[v] = "idle"
           \/ \E w \in Workers, ms \in Batches : Receive(w, ms)
           \/ \E w \in Workers, m \in Messages : Take(w, m) \/ FetchFails(w, m)
           \/ \E w \in Workers :
                 Acknowledge(w) \/ LeaveWaiting(w) \/ MoveToFailed(w) \/ Abandon(w)
<1>1. CASE (\E k \in AllKeys : Expire(k)) \/ UNCHANGED vars
  BY <1>1 DEF Expire, vars, local
<1>2. ASSUME NEW w \in Workers,
             \/ CacheMiss(w) \/ CommitRecord(w) \/ DuplicateRecord(w) \/ RefusedRecord(w)
             \/ WriteIngestAudit(w) \/ AuditDeadlock(w) \/ TransactionFails(w) \/ AuditFails(w)
      PROVE  /\ UNCHANGED <<batch, job, place>>
             /\ \A v \in Workers : pc[v] = "idle" <=> pc'[v] = "idle"
  BY <1>2 DEF CacheMiss, CommitRecord, DuplicateRecord, RefusedRecord, WriteIngestAudit,
              AuditDeadlock, TransactionFails, AuditFails, Reject, Goto, IInv, TypeOK
<1>3. ASSUME NEW w \in Workers, CacheHit(w) \/ Mark(w)
      PROVE  /\ UNCHANGED <<batch, job, place>>
             /\ \A v \in Workers : pc[v] = "idle" <=> pc'[v] = "idle"
  BY <1>3 DEF CacheHit, Mark, NextRecord, Goto, IInv, TypeOK
<1> QED
  BY <1>1, <1>2, <1>3 DEF Next, Step

\* Landing files have one owner (only one process walks the directory).
LEMMA FilesStayOwned == Spec => []FilesAreOwned
<1>1. Init => FilesAreOwned
  BY DEF Init, FilesAreOwned, Held
<1>2. IInv /\ FilesAreOwned /\ [Next]_vars => FilesAreOwned'
  <2> SUFFICES ASSUME IInv, FilesAreOwned, [Next]_vars PROVE FilesAreOwned'
    OBVIOUS
  <2> USE DEF IInv, TypeOK, FilesAreOwned
  <2>1. CASE /\ UNCHANGED <<batch, job, place>>
             /\ \A v \in Workers : pc[v] = "idle" <=> pc'[v] = "idle"
    BY <2>1 DEF Held
  <2>2. ASSUME NEW w \in Workers, NEW ms \in Batches, Receive(w, ms)
        PROVE  FilesAreOwned'
    <3>1. /\ batch' = [batch EXCEPT ![w] = ms] /\ UNCHANGED <<pc, job, place>>
          /\ job[w] = NoJob
          /\ \A m \in ms : place[m] = "waiting"
      BY <2>2 DEF Receive
    <3>2. \A m \in ms : Transport(m) = "landing" =>
             \A v \in Workers : \A n \in Held(v) \ {NoJob} : Transport(n) # "landing"
      BY <2>2 DEF Receive
    <3>3. Held(w)' = ms \cup {NoJob} /\ \A v \in Workers \ {w} : Held(v)' = Held(v)
      BY <3>1 DEF Held
    <3>4. ASSUME NEW v \in Workers, NEW m \in Held(v)' \ {NoJob}, Transport(m) = "landing"
          PROVE  /\ place'[m] = "waiting"
                 /\ ~(m = job'[v] /\ m \in batch'[v])
                 /\ \A u \in Workers \ {v} : m \notin Held(u)'
      <4>1. CASE v = w
        BY <3>1, <3>2, <3>3, <3>4, <4>1
      <4>2. CASE v # w
        BY <3>1, <3>2, <3>3, <3>4, <4>2
      <4> QED
        BY <4>1, <4>2
    <3> QED
      BY <3>1, <3>4
  <2>3. ASSUME NEW w \in Workers, NEW m \in Messages, Take(w, m) \/ FetchFails(w, m)
        PROVE  FilesAreOwned'
    <3>1. /\ place' = place /\ job[w] = NoJob /\ m # NoJob
          /\ \/ /\ batch' = [batch EXCEPT ![w] = @ \ {m}] /\ m \in batch[w]
                /\ job' = [job EXCEPT ![w] = m]
             \/ batch' = [batch EXCEPT ![w] = {}] /\ job' = job
      BY <2>3, PayloadAssumption DEF Take, FetchFails
    <3>2. \A v \in Workers : Held(v)' \ {NoJob} \subseteq Held(v)
      BY <3>1 DEF Held
    <3>3. \A v \in Workers : job'[v] \in batch'[v] => job'[v] = job[v] /\ job[v] \in batch[v]
      BY <3>1
    <3>4. \A v \in Workers : pc'[v] = "idle" => job'[v] = NoJob
      BY <2>3 DEF Take, FetchFails, Goto
    <3> QED
      BY <3>1, <3>2, <3>3, <3>4
  <2>4. ASSUME NEW w \in Workers,
               Acknowledge(w) \/ LeaveWaiting(w) \/ MoveToFailed(w) \/ Abandon(w)
        PROVE  FilesAreOwned'
    <3>1. /\ pc' = [pc EXCEPT ![w] = "idle"] /\ job' = [job EXCEPT ![w] = NoJob]
          /\ batch' = batch \/ batch' = [batch EXCEPT ![w] = {}]
          /\ job[w] \in Messages /\ job[w] # NoJob
          /\ \A m \in Messages \ {job[w]} : place'[m] = place[m]
      BY <2>4, PayloadAssumption
         DEF Acknowledge, LeaveWaiting, MoveToFailed, Abandon, Finish, Goto, JobsKnown
    <3>2. \A v \in Workers : Held(v)' \ {NoJob} \subseteq Held(v) \ {NoJob}
      BY <3>1 DEF Held
    <3>3. Held(w)' \ {NoJob} \subseteq batch[w]
      BY <3>1 DEF Held
    <3>4. ASSUME NEW v \in Workers, NEW m \in Held(v)' \ {NoJob}, Transport(m) = "landing"
          PROVE  /\ place'[m] = "waiting"
                 /\ ~(m = job'[v] /\ m \in batch'[v])
                 /\ \A u \in Workers \ {v} : m \notin Held(u)'
      <4>1. /\ m \in Messages /\ m # NoJob
            /\ place[m] = "waiting" /\ ~(m = job[v] /\ m \in batch[v])
            /\ \A u \in Workers \ {v} : m \notin Held(u)
        BY <3>2, <3>4 DEF Held
      <4>2. m # job[w]
        BY <3>3, <3>4, <4>1 DEF Held
      <4> QED
        BY <3>1, <3>2, <4>1, <4>2
    <3> QED
      BY <3>1, <3>4
  <2> QED
    BY <2>1, <2>2, <2>3, <2>4, JobMoves
<1> QED
  BY <1>1, <1>2, Inductive, PTL DEF Spec

\* Every step stores events of one message, acknowledges a stored message, or
\* changes neither what is stored nor what is acknowledged.
LEMMA StepsImplement ==
    ASSUME IInv, FilesAreOwned, [Next]_vars
    PROVE  [Promise!Next]_(Promise!vars)
<1> DEFINE acked == {m \in Messages : place[m] = "done"}
<1> USE DEF IInv
<1>1. ASSUME UNCHANGED <<rawEvents, place>> PROVE UNCHANGED Promise!vars
  BY <1>1 DEF Promise!vars
<1>2. ASSUME NEW w \in Workers, CommitRecord(w) \/ TransactionFails(w)
      PROVE  [Promise!Next]_(Promise!vars)
  <2>1. Record(w).key \in Keys(job[w]) /\ job[w] \in Messages
    BY <1>2, RecordFacts DEF CommitRecord, TransactionFails, Persisting
  <2>2. place' = place /\ rawEvents' \in {rawEvents, rawEvents \cup {Record(w).key}}
    BY <1>2 DEF CommitRecord, TransactionFails, Persist, stored
  <2>3. CASE rawEvents' = rawEvents
    BY <2>2, <2>3, <1>1
  <2>4. CASE rawEvents' = rawEvents \cup {Record(w).key}
    BY <2>1, <2>2, <2>4 DEF Promise!Next, Promise!Store
  <2> QED
    BY <2>2, <2>3, <2>4
<1>3. ASSUME NEW w \in Workers, Acknowledge(w) \/ Abandon(w)
      PROVE  [Promise!Next]_(Promise!vars)
  <2>1. rawEvents' = rawEvents
    BY <1>3 DEF Acknowledge, Abandon, stored
  <2>2. CASE place' = place
    BY <1>1, <2>1, <2>2
  <2>3. CASE place' # place
    <3>1. /\ job[w] \in Messages /\ Keys(job[w]) \subseteq rawEvents
          /\ place' = [place EXCEPT ![job[w]] = "done"]
      BY <1>3, <2>3 DEF Acknowledge, Abandon, JobsKnown, ResultIsStored
    <3>2. acked' = acked \cup {job[w]}
      BY <3>1 DEF TypeOK
    <3> QED
      BY <2>1, <3>1, <3>2 DEF Promise!Next, Promise!Acknowledge
  <2> QED
    BY <2>2, <2>3
<1>4. ASSUME NEW w \in Workers, MoveToFailed(w)
      PROVE  UNCHANGED Promise!vars
  <2>1. place[job[w]] = "waiting" /\ job[w] \in Messages
    <3>1. job[w] \in Messages /\ Transport(job[w]) = "landing" /\ job[w] # NoJob
      BY <1>4, PayloadAssumption DEF MoveToFailed, JobsKnown
    <3>2. job[w] \in Held(w) \ {NoJob}
      BY <3>1 DEF Held
    <3> QED
      BY <3>1, <3>2 DEF FilesAreOwned
  <2>2. acked' = acked /\ rawEvents' = rawEvents
    BY <1>4, <2>1 DEF MoveToFailed, TypeOK, stored
  <2> QED
    BY <2>2 DEF Promise!vars
<1>5. ASSUME NEW w \in Workers,
             \/ \E ms \in Batches : Receive(w, ms)
             \/ \E m \in Messages : Take(w, m) \/ FetchFails(w, m)
             \/ CacheHit(w) \/ CacheMiss(w) \/ DuplicateRecord(w) \/ RefusedRecord(w)
             \/ WriteIngestAudit(w) \/ AuditDeadlock(w) \/ AuditFails(w) \/ Mark(w)
             \/ LeaveWaiting(w)
      PROVE  UNCHANGED <<rawEvents, place>>
  BY <1>5 DEF Receive, Take, FetchFails, CacheHit, CacheMiss, DuplicateRecord, RefusedRecord,
              WriteIngestAudit, AuditDeadlock, AuditFails, AppendAudit, Mark, LeaveWaiting, stored
<1>6. CASE (\E k \in AllKeys : Expire(k)) \/ UNCHANGED vars
  BY <1>6, <1>1 DEF Expire, vars, stored
<1> HIDE DEF acked
<1> QED
  BY <1>1, <1>2, <1>3, <1>4, <1>5, <1>6 DEF Next, Step

\* The pipeline keeps the promise it makes to its transports, whatever the
\* interleaving, the redeliveries, the crashes and the errors.
THEOREM Implements == Spec => RefinesAckAfterCommit
<1>1. Init => Promise!Init
  BY DEF Init, Promise!Init
<1>2. IInv /\ FilesAreOwned /\ [Next]_vars => [Promise!Next]_(Promise!vars)
  BY StepsImplement
<1> QED
  BY <1>1, <1>2, Inductive, FilesStayOwned, PTL DEF Spec, RefinesAckAfterCommit, Promise!Spec
=============================================================================
