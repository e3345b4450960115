--------------------------- MODULE IngestPipeline ---------------------------
(***************************************************************************)
(* internal/ingestion: Pipeline.Process and its three callers, the queue   *)
(* poller (ProcessQueue), the landing directory (ProcessLandingDir) and    *)
(* the webhook endpoint (WebhookHandler), run by concurrent workers.       *)
(*                                                                         *)
(* persist is not one step.  For each record a worker asks the duplicate   *)
(* cache, commits raw event and normalized row in one transaction, appends *)
(* an audit entry in a second transaction, and marks the cache; a crash or *)
(* an error can fall between any two of these.  A queue message stays in   *)
(* the queue until it is deleted and may be delivered again meanwhile, a   *)
(* webhook may be posted again, a landing file is read again at the next   *)
(* start, if there is one.  ProcessQueue works through the messages of one *)
(* receive and ProcessLandingDir through the files of one walk; both       *)
(* return early from some errors, which leaves the rest of the batch to a  *)
(* later receive or walk.                                                  *)
(*                                                                         *)
(* WriteAuditEntry is one step here, which may fail; AuditChain models its *)
(* transaction and shows that it is such a step (RefinesAuditAppend).      *)
(***************************************************************************)
EXTENDS IngestRecords, FiniteSets

CONSTANTS
    Workers,     \* goroutines running Process, in any number of processes
    Messages,    \* queue messages, landing files and webhook deliveries
    Payload,     \* Payload[m]: transport, source, signature and events of m, and
                 \* whether a queue message points to an object to be fetched
    NoJob,       \* the job of an idle worker
    MaxBatch,    \* MaxNumberOfMessages of a receive, 5 in the code
    MaxFaults    \* bound: errors, lost answers and crashes

Records == [m \in Messages |-> Parse(Payload[m])]
Batch(m) == Records[m]
Keys(m) == {Batch(m)[i].key : i \in DOMAIN Batch(m)}
AllKeys == UNION {Keys(m) : m \in Messages}
Rows(m) == {Batch(m)[i].row : i \in DOMAIN Batch(m)}
AllRows == UNION {Rows(m) : m \in Messages}

ASSUME PayloadAssumption ==
    /\ MaxFaults \in Nat /\ MaxBatch \in Nat
    /\ NoJob \notin Messages
    /\ \A m \in Messages :
          /\ Payload[m].transport \in Transports
          /\ Payload[m].source \in Sources
          /\ Payload[m].transport = "http" => Payload[m].source = "webhook"
          /\ Payload[m].signature \in Signatures
          /\ Payload[m].byReference \in BOOLEAN
          /\ Payload[m].byReference => Payload[m].transport = "queue"
          /\ Len(Payload[m].events) \in Nat

VARIABLES
    rawEvents,   \* idempotency keys with a committed raw_events row
    rows,        \* unique keys of the committed normalized rows
    audited,     \* audited[k]: RAW_EVENT_INGESTED entries for key k
    cache,       \* keys the duplicate cache holds
    place,       \* where each message is: waiting, done or failed
    batch,       \* the messages each worker has received and not begun yet
    pc,          \* where each worker is inside Process
    job,         \* the message each worker is processing
    next,        \* the record of it that is being persisted
    applied,     \* Result.Applied so far
    status,      \* Result.Status once Process has returned
    faults,      \* faults so far
    spoilt       \* landing files a fault met while they were processed

stored == <<rawEvents, rows, audited, cache>>
local == <<batch, pc, job, next, applied, status>>
mishaps == <<faults, spoilt>>
vars == <<stored, place, local, mishaps>>

Record(w) == Batch(job[w])[next[w]]
Transport(m) == Payload[m].transport
Goto(w, l) == pc' = [pc EXCEPT ![w] = l]

Init ==
    /\ rawEvents = {} /\ rows = {} /\ cache = {}
    /\ audited = [k \in AllKeys |-> 0]
    /\ place = [m \in Messages |-> "waiting"]
    /\ batch = [w \in Workers |-> {}]
    /\ pc = [w \in Workers |-> "idle"]
    /\ job = [w \in Workers |-> NoJob]
    /\ next = [w \in Workers |-> 1]
    /\ applied = [w \in Workers |-> 0]
    /\ status = [w \in Workers |-> "none"]
    /\ faults = 0 /\ spoilt = {}

\* Something outside the code goes wrong while w is busy, or an answer is lost.
SpendFault(w) ==
    /\ faults < MaxFaults
    /\ faults' = faults + 1
    /\ spoilt' = spoilt \cup {m \in {job[w]} : Transport(m) = "landing"}

-----------------------------------------------------------------------------
(* Receiving a message and validating it                                   *)

\* A landing webhook without a .sig file beside it is skipped at every start.
Skipped(m) ==
    /\ Transport(m) = "landing"
    /\ Payload[m].source = "webhook"
    /\ Payload[m].signature = "missing"

\* What a worker has in hand.
Held(w) == batch[w] \cup {job[w]}

\* What one receive of the queue, one walk of the landing directory or one
\* posted webhook may hand to a worker.  A walk loads the files that are there,
\* and some may come later.
Receives == {ms \in SUBSET {m \in Messages : Transport(m) = "queue"} : Cardinality(ms) <= MaxBatch}
Walks == SUBSET {m \in Messages : Transport(m) = "landing" /\ ~Skipped(m)}
Posts == {{m} : m \in {n \in Messages : Transport(n) = "http"}}
Batches == Receives \cup Walks \cup Posts

\* Only one process walks a landing directory; the other transports may hand
\* the same message to several workers.
Receive(w, ms) ==
    /\ pc[w] = "idle" /\ batch[w] = {}
    /\ ms # {}
    /\ \A m \in ms :
          /\ place[m] = "waiting"
          /\ Transport(m) = "landing" =>
                \A v \in Workers : \A n \in Held(v) \ {NoJob} : Transport(n) # "landing"
    /\ batch' = [batch EXCEPT ![w] = ms]
    /\ UNCHANGED <<stored, place, pc, job, next, applied, status, mishaps>>

Valid(m) == VerifyHMAC(Payload[m]) /\ Validate(Payload[m])

\* The next message of the batch; a queue promises no order.  Process asks
\* VerifyHMAC about a webhook, then Parse: all of the payload or none of it.
Take(w, m) ==
    /\ pc[w] = "idle"
    /\ m \in batch[w]
    /\ batch' = [batch EXCEPT ![w] = @ \ {m}]
    /\ job' = [job EXCEPT ![w] = m]
    /\ \/ /\ Valid(m)
          /\ Goto(w, "lookup")
          /\ UNCHANGED status
       \/ /\ ~Valid(m)
          /\ Goto(w, "reply")
          /\ status' = [status EXCEPT ![w] = "rejected"]
    /\ UNCHANGED <<stored, place, next, applied, mishaps>>

\* The object a message points to cannot be fetched, perhaps at no delivery:
\* ProcessQueue returns, and the rest of the batch stays in the queue.
FetchFails(w, m) ==
    /\ pc[w] = "idle"
    /\ m \in batch[w]
    /\ Payload[m].byReference
    /\ batch' = [batch EXCEPT ![w] = {}]
    /\ UNCHANGED <<stored, place, pc, job, next, applied, status, mishaps>>

-----------------------------------------------------------------------------
(* persist                                                                 *)

\* persist returned an error: Process gives up on the remaining records.
Reject(w) ==
    /\ Goto(w, "reply")
    /\ status' = [status EXCEPT ![w] = "rejected"]
    /\ UNCHANGED <<batch, job, next, applied>>

\* persist returned, having committed n new raw events: on to the next record,
\* or Process returns.
NextRecord(w, n) ==
    /\ applied' = [applied EXCEPT ![w] = @ + n]
    /\ IF next[w] < Len(Batch(job[w]))
       THEN /\ next' = [next EXCEPT ![w] = @ + 1]
            /\ Goto(w, "lookup")
            /\ UNCHANGED status
       ELSE /\ Goto(w, "reply")
            /\ status' = [status EXCEPT ![w] =
                             IF applied[w] + n = 0 THEN "duplicate" ELSE "applied"]
            /\ UNCHANGED next
    /\ UNCHANGED <<batch, job>>

\* Cache.Seen finds the key: nothing else is asked or written.
CacheHit(w) ==
    /\ pc[w] = "lookup"
    /\ Record(w).key \in cache
    /\ NextRecord(w, 0)
    /\ UNCHANGED <<stored, place, mishaps>>

\* The key is not cached, or Redis is unreachable or not configured.
CacheMiss(w) ==
    /\ pc[w] = "lookup"
    /\ Goto(w, "transaction")
    /\ UNCHANGED <<stored, place, batch, job, next, applied, status, mishaps>>

\* The raw event of the transaction and its normalized row, whose INSERT is a
\* no-op when the row exists.
Persist(r) ==
    /\ rawEvents' = rawEvents \cup {r.key}
    /\ rows' = rows \cup {r.row}
    /\ UNCHANGED <<audited, cache>>

\* Mutant: the cache is marked before the transaction commits.
MarkBeforeCommit(w) ==
    /\ pc[w] = "transaction"
    /\ Record(w).key \notin rawEvents
    /\ Record(w).fits
    /\ \/ /\ Record(w).key \in cache
          /\ rawEvents' = rawEvents \cup {Record(w).key}
          /\ rows' = rows \cup {Record(w).row}
          /\ Goto(w, "audit")
          /\ UNCHANGED cache
       \/ /\ Record(w).key \notin cache
          /\ cache' = cache \cup {Record(w).key}
          /\ UNCHANGED <<rawEvents, rows, pc>>
    /\ UNCHANGED <<audited, place, batch, job, next, applied, status, mishaps>>

CommitRecord(w) ==
    /\ pc[w] = "transaction"
    /\ Record(w).key \notin rawEvents
    /\ Record(w).fits
    /\ Persist(Record(w))
    /\ Goto(w, "audit")
    /\ UNCHANGED <<place, batch, job, next, applied, status, mishaps>>

\* Mutant: ErrDuplicate is an error like any other.
RejectDuplicate(w) ==
    /\ pc[w] = "transaction"
    /\ Record(w).key \in rawEvents
    /\ Reject(w)
    /\ UNCHANGED <<stored, place, mishaps>>

\* Mutant: a duplicate is audited like a new event.
AuditDuplicate(w) ==
    /\ pc[w] = "transaction"
    /\ Record(w).key \in rawEvents
    /\ Goto(w, "audit")
    /\ UNCHANGED <<stored, place, batch, job, next, applied, status, mishaps>>

\* The unique key of raw_events rejects the row (ErrDuplicate).
DuplicateRecord(w) ==
    /\ pc[w] = "transaction"
    /\ Record(w).key \in rawEvents
    /\ Goto(w, "markDuplicate")
    /\ UNCHANGED <<stored, place, batch, job, next, applied, status, mishaps>>

\* MySQL refuses a value of the record, as it will at every delivery: InTx rolls
\* back and Process gives up.
RefusedRecord(w) ==
    /\ pc[w] = "transaction"
    /\ Record(w).key \notin rawEvents
    /\ ~Record(w).fits
    /\ Reject(w)
    /\ UNCHANGED <<stored, place, mishaps>>

\* Any other error of InTx; the COMMIT may have taken effect all the same.
TransactionFails(w) ==
    /\ pc[w] = "transaction"
    /\ SpendFault(w)
    /\ \/ UNCHANGED stored
       \/ Record(w).key \notin rawEvents /\ Record(w).fits /\ Persist(Record(w))
    /\ Reject(w)
    /\ UNCHANGED place

AppendAudit(w) ==
    /\ audited' = [audited EXCEPT ![Record(w).key] = @ + 1]
    /\ UNCHANGED <<rawEvents, rows, cache>>

\* writeIngestAudit succeeds.
WriteIngestAudit(w) ==
    /\ pc[w] = "audit"
    /\ AppendAudit(w)
    /\ Goto(w, "mark")
    /\ UNCHANGED <<place, batch, job, next, applied, status, mishaps>>

\* InnoDB rolls WriteAuditEntry back as the victim of a deadlock with another
\* writer, here or in the matching engine (AuditChain, DeadlockVictim).  That is
\* no fault of anything outside the code, and nothing tries again.
AuditDeadlock(w) ==
    /\ pc[w] = "audit"
    /\ Reject(w)
    /\ UNCHANGED <<stored, place, mishaps>>

\* writeIngestAudit returns another error (a lost connection, a timeout); its
\* COMMIT may have taken effect all the same.
AuditFails(w) ==
    /\ pc[w] = "audit"
    /\ SpendFault(w)
    /\ UNCHANGED stored \/ AppendAudit(w)
    /\ Reject(w)
    /\ UNCHANGED place

\* Cache.Mark, whose failure is ignored, and the return from persist.
Mark(w) ==
    /\ pc[w] \in {"mark", "markDuplicate"}
    /\ cache' \in {cache, cache \cup {Record(w).key}}
    /\ NextRecord(w, IF pc[w] = "mark" THEN 1 ELSE 0)
    /\ UNCHANGED <<rawEvents, rows, audited, place, mishaps>>

-----------------------------------------------------------------------------
(* What the caller does with the result                                    *)

\* On to the next message of the batch, if there is one.
Finish(w) ==
    /\ Goto(w, "idle")
    /\ job' = [job EXCEPT ![w] = NoJob]
    /\ next' = [next EXCEPT ![w] = 1]
    /\ applied' = [applied EXCEPT ![w] = 0]
    /\ status' = [status EXCEPT ![w] = "none"]


ShouldAck(w) == status[w] \in {"applied", "duplicate"}

\* Mutant: the caller does not look at the status.
AcknowledgeAnything(w) ==
    /\ pc[w] = "reply"
    /\ place' = [place EXCEPT ![job[w]] = "done"]
    /\ Finish(w)
    /\ UNCHANGED <<stored, batch, mishaps>>

\* queue.Delete, the move to processed/, or the 200 answer.
Acknowledge(w) ==
    /\ pc[w] = "reply"
    /\ ShouldAck(w)
    /\ place' = [place EXCEPT ![job[w]] = "done"]
    /\ Finish(w)
    /\ UNCHANGED <<stored, batch, mishaps>>

\* The message stays in the queue, or the sender gets a 400 or 401.
LeaveWaiting(w) ==
    /\ pc[w] = "reply"
    /\ ~ShouldAck(w)
    /\ Transport(job[w]) # "landing"
    /\ Finish(w)
    /\ UNCHANGED <<stored, place, batch, mishaps>>

\* A landing file that was not acknowledged is moved to failed/ for good.
MoveToFailed(w) ==
    /\ pc[w] = "reply"
    /\ ~ShouldAck(w)
    /\ Transport(job[w]) = "landing"
    /\ place' = [place EXCEPT ![job[w]] = "failed"]
    /\ Finish(w)
    /\ UNCHANGED <<stored, batch, mishaps>>

\* A crash at any point, a failed fetch, or a failed Delete, move or answer,
\* which may have taken effect all the same: the rest of the batch is dropped.
Abandon(w) ==
    /\ pc[w] # "idle"
    /\ SpendFault(w)
    /\ \/ UNCHANGED place
       \/ /\ pc[w] = "reply" /\ ShouldAck(w)
          /\ place' = [place EXCEPT ![job[w]] = "done"]
    /\ batch' = [batch EXCEPT ![w] = {}]
    /\ Finish(w)
    /\ UNCHANGED stored

\* A cached key expires after its TTL, or Redis loses it.
Expire(k) ==
    /\ k \in cache
    /\ cache' = cache \ {k}
    /\ UNCHANGED <<rawEvents, rows, audited, place, local, mishaps>>

Step(w) ==
    \/ \E m \in Messages : Take(w, m) \/ FetchFails(w, m)
    \/ CacheHit(w) \/ CacheMiss(w)
    \/ CommitRecord(w) \/ DuplicateRecord(w) \/ RefusedRecord(w)
    \/ WriteIngestAudit(w) \/ AuditDeadlock(w) \/ Mark(w)
    \/ Acknowledge(w) \/ LeaveWaiting(w) \/ MoveToFailed(w)

Next ==
    \/ \E w \in Workers :
          \/ \E ms \in Batches : Receive(w, ms)
          \/ Step(w)
          \/ TransactionFails(w) \/ AuditFails(w) \/ Abandon(w)
    \/ \E k \in AllKeys : Expire(k)

Spec == Init /\ [][Next]_vars

(***************************************************************************)
(* A worker does not stop in the middle of a batch unless it crashes.  The *)
(* poller loops for ever, and the queue hands out an undeleted message     *)
(* again and again, in no fixed order: it is not always behind one that    *)
(* ends the batch.  Nobody promises that an object can ever be fetched,    *)
(* that a webhook is posted again or that the program is started again to  *)
(* walk the landing directory.                                             *)
(***************************************************************************)
Fairness ==
    /\ \A w \in Workers : WF_vars(Step(w))
    /\ \A m \in Messages : Transport(m) = "queue" /\ ~Payload[m].byReference =>
          /\ SF_vars(\E w \in Workers, ms \in Batches : m \in ms /\ Receive(w, ms))
          /\ SF_vars(\E w \in Workers : Take(w, m))

FairSpec == Spec /\ Fairness

-----------------------------------------------------------------------------
(* Properties                                                              *)

\* An event that is stored, has no audit entry, and that nobody will audit.
LostItsEntry(k) ==
    /\ k \in rawEvents /\ audited[k] = 0
    /\ \A w \in Workers : pc[w] = "audit" => Record(w).key # k

\* Why Process may reject a landing file.
Excused(m) ==
    \/ ~Valid(m) \/ ~Storable(Payload[m])
    \/ m \in spoilt
    \/ \E k \in Keys(m) : LostItsEntry(k)

\* Type correctness of the tables, the cache, the transports and the workers.
TypeOK ==
    /\ rawEvents \subseteq AllKeys
    /\ rows \subseteq AllRows
    /\ audited \in [AllKeys -> Nat]
    /\ cache \subseteq AllKeys
    /\ place \in [Messages -> {"waiting", "done", "failed"}]
    /\ batch \in [Workers -> SUBSET Messages]
    /\ pc \in [Workers -> {"idle", "lookup", "transaction", "audit",
                           "mark", "markDuplicate", "reply"}]
    /\ job \in [Workers -> Messages \cup {NoJob}]
    /\ next \in [Workers -> Nat \ {0}]
    /\ applied \in [Workers -> Nat]
    /\ status \in [Workers -> {"none", "applied", "duplicate", "rejected"}]
    /\ faults \in Nat
    /\ spoilt \subseteq Messages

\* A message is deleted, moved to processed/ or answered with 200 only after
\* every event in it was committed, whoever committed it ("acknowledges them
\* only after commit", pollQueue).
AckAfterCommitted ==
    \A m \in Messages : place[m] = "done" => Keys(m) \subseteq rawEvents

\* The duplicate cache never claims an event MySQL does not hold, so a cache
\* hit can never drop an event (persist marks "only after commit").
CacheIsSound == cache \subseteq rawEvents

\* However often a message is delivered, and to however many workers at once,
\* no event gets a second audit entry and none gets one without being stored.
AuditedAtMostOnce ==
    \A k \in AllKeys :
        /\ audited[k] <= 1
        /\ audited[k] = 1 => k \in rawEvents


\* A landing file is put away in failed/ only when it is not valid, MySQL refuses
\* it or a fault met this very file, or when an event of it is stored and stays
\* without its audit entry, as WriteAuditEntry lost to another writer.  Nothing
\* else that other workers do puts a good file there: neither duplicates of its
\* events nor their being stored at the same time (ProcessLandingDir).
OnlyBadFilesFail ==
    \A m \in Messages : place[m] = "failed" => Excused(m)

\* The pipeline implements its promise to the transports: events are stored
\* for ever, and a message is acknowledged only once all of it is stored.
Promise ==
    INSTANCE AckAfterCommit
    WITH Needs <- Keys, stored <- rawEvents,
         acknowledged <- {m \in Messages : place[m] = "done"}

RefinesAckAfterCommit == Promise!Spec

-----------------------------------------------------------------------------
(* The inductive invariant                                                 *)

Persisting(w) ==
    pc[w] \in {"lookup", "transaction", "audit", "mark", "markDuplicate"}

\* A busy worker has a message, and starts it at its first record.
JobsKnown ==
    \A w \in Workers :
        /\ pc[w] # "idle" => job[w] \in Messages
        /\ pc[w] = "idle" => next[w] = 1

\* The records a worker has gone past are stored, by it or by another.
PassedIsStored ==
    \A w \in Workers : Persisting(w) =>
        /\ next[w] \in 1..Len(Batch(job[w]))
        /\ \A i \in 1..(next[w] - 1) : Batch(job[w])[i].key \in rawEvents

\* From the end of its transaction the current record is stored too.
CurrentIsStored ==
    \A w \in Workers :
        pc[w] \in {"audit", "mark", "markDuplicate"} => Record(w).key \in rawEvents

\* A result that will be acknowledged stands for a message stored as a whole.
ResultIsStored ==
    \A w \in Workers :
        pc[w] = "reply" /\ ShouldAck(w) => Keys(job[w]) \subseteq rawEvents

\* The one worker whose transaction inserted an event is the one that audits
\* it, and until it does there is no audit entry for the event.
AuditIsExclusive ==
    \A w \in Workers : pc[w] = "audit" =>
        /\ audited[Record(w).key] = 0
        /\ \A v \in Workers \ {w} : pc[v] = "audit" => Record(v).key # Record(w).key

\* A landing file in hand is still in the landing zone and nobody else's: it
\* cannot be moved to processed/ by one worker and to failed/ by another.
FilesAreOwned ==
    /\ \A w \in Workers : pc[w] = "idle" => job[w] = NoJob
    /\ \A w \in Workers : \A m \in Held(w) \ {NoJob} : Transport(m) = "landing" =>
          /\ place[m] = "waiting"
          /\ ~(m = job[w] /\ m \in batch[w])
          /\ \A v \in Workers \ {w} : m \notin Held(v)

\* A landing file that will not be acknowledged has such a reason already.
RejectsAreDue ==
    \A w \in Workers :
        pc[w] = "reply" /\ ~ShouldAck(w) /\ Transport(job[w]) = "landing" => Excused(job[w])

\* What makes the three invariants above inductive: what each worker knows
\* about MySQL at each step of persist stays true whatever the others do.
IInv ==
    /\ TypeOK
    /\ JobsKnown
    /\ PassedIsStored /\ CurrentIsStored /\ ResultIsStored
    /\ CacheIsSound /\ AckAfterCommitted
    /\ AuditIsExclusive /\ AuditedAtMostOnce

-----------------------------------------------------------------------------
(* What comments of the code say, and the code does not do                 *)

\* Once nobody is working on anything, an acknowledged message has all its
\* events in the audit log: writeIngestAudit is there for "closing the gap"
\* between raw events and the audit chain.
AckedIsAudited ==
    \A m \in Messages :
        place[m] = "done" /\ (\A w \in Workers : pc[w] = "idle") => \A k \in Keys(m) : audited[k] = 1

\* "StatusDuplicate means the payload was already persisted": then all the
\* normalized rows of the payload are there.
DuplicateMeansPersisted ==
    \A w \in Workers :
        pc[w] = "reply" /\ status[w] = "duplicate" => Rows(job[w]) \subseteq rows
=============================================================================
