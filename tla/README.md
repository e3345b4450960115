# SettleTrace in TLA+

A TLA+ model of SettleTrace: what its parts do to MySQL, Redis and the queue when
they run side by side, crash, retry and meet each other's half-done work. TLC checks
it on small instances; TLAPS proves the main results for instances of any size.

## The system

| part | source | modules | modelled |
|---|---|---|---|
| audit log writer | `internal/store/mysql.go` (`WriteAuditEntry`), `internal/audit/hash.go` | `AuditHash`, `AuditChain`, `AuditAppend` | yes |
| audit log verification | `internal/audit/hash.go` (`Verify`), `internal/store/audit_mysql.go` | `AuditHash`, `AuditDamage` | `Verify`; not the command line and the route around it |
| ingestion pipeline | `internal/ingestion/{pipeline,parse,idempotency,cache}.go`, `internal/schema/validate.go` | `IngestRecords`, `IngestPipeline`, `AckAfterCommit` | yes |
| transports | `internal/ingestion/{worker,sources,awsx,http}.go`, `cmd/ingestion-worker` | `IngestPipeline` | receipt in batches, early returns, redelivery, acknowledgement |
| reconciliation tiers | `internal/recon` | `Stripping`, `Identifiers`, `ReconTiers` | yes |
| matching engine | `internal/matcher/dispatcher.go`, `cmd/matching-engine` | `MatchingEngine` | all but the report and the group ids |
| window lock | `internal/matcher/locker.go` | `MatchingEngine` | yes |
| Tier 3 | `internal/matcher/tier3.go`, `services/fuzzy-ranker` | `ReconTiers` | its outcome, as a free choice |
| AI budget and breaker | `internal/ai/{budget,breaker}.go` | `AIGuardrails` | yes |
| explainer | `internal/ai/explainer.go` | `AIGuardrails` | from the budget check to the log row |
| Q&A agent | `internal/ai/qa`, `internal/store/qa_mysql.go` | `ExceptionReads`, `AIGuardrails` | all but texts, time windows and match rates |
| HTTP API | `internal/api`, `cmd/api` | `ExceptionReads`, `AIGuardrails` | exception list, questions, explanations |
| schema migrations | `internal/store/migrate.go`, `migrations/*.up.sql` | `Migrations`, `MigrationFiles` | yes |
| card number check | `internal/schema/pan.go` | `Stripping`, `CardNumbers` | yes |
| in-memory store, generator, legacy adapter, deployment | | | no |

Payments, settlement lines, bank lines and ledger lines enter through ingestion, which
stores each as a raw event and a normalized row and adds an audit entry. Scheduled runs
of the matching engine read the normalized rows, write a match or an exception for each,
and add an audit entry. All audit entries go through `WriteAuditEntry`, the one place
where the hash chain grows. The API lists exceptions page by page, answers questions
about them and asks a language model to explain them, under a budget in Redis and a
circuit breaker in memory. Every program brings the schema up to date when it starts.

`PROJECT.json` has the definition-to-source map, the runs, the hazards and the findings.

## Modules

**`AuditHash`** has `Seal` and `Verify`. SHA-256 is taken as injective: the hash of an
entry is the sequence of all bodies up to it.

**`AuditChain`** is `WriteAuditEntry` statement by statement (`Begin`, `ReadPrevious`,
`Insert`, `Commit`) with the InnoDB locks these statements take under REPEATABLE READ,
MySQL's default: gap locks that do not wait for each other, the exclusive lock of the
last row, inserts that wait for the other holders of the gap, and a victim for each
deadlock. The code has no lock of its own, so this is what the chain depends on. These
definitions are external in the map: they model InnoDB from how the statements use it.

**`AuditAppend`** is what `WriteAuditEntry` promises its callers: one atomic append,
sealed against the present head, or a failure. `AuditChain` implements it, with the calls
under way as `pending`. This is what lets `IngestPipeline` and `MatchingEngine` take an
audit entry for one step that may fail.

**`AuditDamage`** lets stored rows be edited, resealed or removed, and states what
`Verify` then says.

**`IngestRecords`** has parsing, validation and the two keys of a record: the
idempotency key of its raw event and the unique key of its normalized row. A payload is
its transport, source, signature and a sequence of events. Of an event the model keeps what
keys are made of, whether validation accepts it, and whether the tables do: validation
looks neither at lengths nor at the sign of fees and taxes, which the tables `CHECK`.

**`IngestPipeline`** is `Process` run by several workers for the queue, the landing
directory and the webhook. A worker receives a batch from the queue, the files of one walk
or one webhook, and takes the messages one by one; an object that cannot be fetched, a
failed `Delete` or a failed move ends the batch, and what is left of it waits for the next.
Cache lookup, transaction, audit entry, cache mark and acknowledgement are steps of their
own, with a fault or a crash between any two. `WriteAuditEntry` is one step here, as
`AuditAppend` allows, and fails without any fault when it is the victim of a deadlock
(`AuditDeadlock`). `spoilt` remembers which landing files a fault met.

**`AckAfterCommit`** is what the pipeline promises to its transports: events are stored
for ever, and a message is acknowledged only when all of it is stored.
`IngestPipeline` implements it with `stored <- rawEvents` and the messages that are
done as `acknowledged`.

**`Stripping`** takes separators out of a text, as `stripSeparators` and the `Replacer` of
`normalize` do.

**`Identifiers`** has `normalize` and the byte-indexed `levenshtein` of Tier 2.

**`CardNumbers`** has `RejectPossiblePAN`: separators, digit runs of bounded length from
left to right, and the Luhn sum.

**`TextChecks`** types any two identifiers or any payload, rune by rune, so that each is a
state, and says of them what these three functions promise. `EditDistance` is the reference
for `levenshtein`: sets of sequences, one edit further each.

**`ReconTiers`** has the windows of the three queries, Tier 1, Tier 2, Tier L and the
classifiers. Time is in days.

**`MatchingEngine`** is the program of `cmd/matching-engine`: lock, settlement side,
ledger side, release. Each MySQL or Redis statement is a step. Records arrive at any
time; a run may die at any step (`log.Fatalf` included, which skips the release).
The lock may expire under a run that is still at work; the history variable `overran`
remembers that this happened, and the properties say what holds until then and what holds
even afterwards.

**`AIGuardrails`** is the model call that `Explainer.Explain` and `Agent.compose` share:
reserve, check, roll back, ask the breaker, call, record, log. `INCRBYFLOAT`, the check
after it and the rollback are steps of their own, and so are `Allow` and `Record`.
`kept` counts the calls that passed the check of a bucket, `carried` the reservations
whose bucket expired before they were kept or taken back.

**`ExceptionReads`** is what operators read while the engine writes: `listExceptions` with
its limit, its cursor and the keyset query, and `Agent.Answer` from the classification of
the question over one query to the summary or the text of the model, with the grounding
check. A payment id is a sequence of characters, because the check compares substrings; a
cursor is its JSON fields. The engine's rows may become visible in any order of ids.

**`Migrations`** is `ApplyMigrations`, run by several programs on one database: the
tracker lookup, each statement and the tracker row are steps of their own, since DDL
commits by itself. A statement needs tables, drops keys and adds tables and keys; a unique
key is refused (error 1062) where rows have the same value twice, which `clashing` chooses.
**`MigrationFiles`** has the statements of the six files of the repository.

The `MC*` modules hold the instances. Each `*Proofs` module holds the theorems about the
module it is named after.

## Runs that pass

| run | instance | shows |
|---|---|---|
| `audit_chain` | 3 writers, 2 bodies, 4 calls, 1 fault | the committed log is one chain (`ChainIntact`), one open insert at a time, `WriteAuditEntry` implements `AuditAppend`; every call returns, and of a group of calls some commit |
| `audit_damage` | 3 rows, 3 changes | a log that verifies and ends in a hash that was written is the log as it stood then (`HeadPinsHistory`); `Verify` does not blame a row before the first damaged one |
| `ingest` | 2 workers, 5 messages, batches of 2, 1 fault (203,400 states) | acknowledgement after commit, a sound cache, one audit entry at most, refinement of `AckAfterCommit`, `IInv`; the only reasons for which a landing file is put into `failed/`; every good queue message is acknowledged whatever it is received with, and every walk of the landing directory ends |
| `text_checks` | all pairs of up to 3 single-byte runes; all payloads of up to 5 bytes with digit runs of 2 to 3 | `levenshtein` is the edit distance; formatting makes no difference; a card number is found however it is grouped and wherever it stands, unless other digits touch it; a wrong digit in it is noticed |
| `matching` | 2 runs, 2 payments with ids one edit apart, 2 settlement lines, 1 ledger line, 2 days, 1 death or overrun | one run at a time, one decision per payment and one match per ledger line until a lock is outlived, at most the last result unaudited, pointers backed by results, all that was loaded decided, sound and unrivalled matches, complete windows |
| `matching_live` | 2 runs, payments of 2 methods, 1 ledger line, 1 death, overruns | every run ends, and one that does not die gives its lock back without the TTL |
| `guardrails` | 2 calls at a time, a cap of two calls, 1 Redis error, 1 lapse, threshold 1, cooldown 2 | the cap holds, no needless refusal, `IInv`; the breaker allows calls again and again |
| `migrations` | 2 programs with 6 and 5 of the real files, 2 starts each, 1 fault, a schema in any stage, rows that do or do not allow the unique keys | what the tracker records is built (`RecordedIsBuilt`); a program that is alone fails only by a fault or by rows that a unique key does not allow; of programs that start together one gets ready |
| `exception_reads` | 5 rows, limits up to 3, 7 questions, 3 payment ids | a walk through the pages lists what was there once each, in order, without an empty page; list and agent agree on the total; a text of the model comes with rows about the payment asked for, and names only ids, or beginnings of ids, in the question or these rows |

Why the bounds are enough. Three writers are the fewest in which a deadlock victim
leaves two others in conflict, and with four calls one of them comes back. Two workers, runs
or calls give every pairwise race, each may work again and again, and the code relates
no more than two at a time. The messages of `ingest` are a queue message of two bank
lines, so that a fault falls between two records; a queue message that points to an object,
which may never be fetched and is malformed when it is, so that a batch of two ends early or
has a message that is not acknowledged; a landing file with one of the two lines, so that two
transports race for a key; a landing webhook without its signature; and a posted webhook with
a fee that the tables refuse. In `matching` each of the two
lines can be the match of either payment, alone or as a rival, and the records lie on
both ends of the windows; SLA and booking lag have their real values in days. A
constraint keeps a death and an overrun out of the same behaviour of `matching`, and lets
an overrun happen only when the clock has stopped; `matching_live` has no such
constraint. The migration files are the real ones, and two starts of each program let a
program meet its own half-done work as well as the other's. The five exceptions hold
equal amounts and a zero, and pages of one to three rows end before, at and after the
last one; a constraint looks at walks and at questions separately, as they share only
the log, which neither changes. Digit runs of 2 to 3 instead of 13 to 19 keep what
matters: an even and an odd length, payloads longer than the longest run, and payloads with
room for two runs and a byte between them. Two
counters at one below and at the cap are enough for the budget, whose code compares one
sum with it. A run of the model stops when its calls, days or faults are used up, so
deadlock is not checked; it is in `guardrails` and `exception_reads`, which go on for
ever. Symmetry is used in `matching`, which has no liveness property.

Fairness. Workers, runs and calls go on with what they started (goroutines are
scheduled and calls have timeouts). InnoDB breaks deadlocks (its detector is on by
default). Nothing is assumed of the TTL of the lock: `LockIsReleased` and `RunsEnd` hold
without it. A program that began to migrate goes on, but nobody is
assumed to start it again, so `SomeoneGetsReady` speaks of behaviours up to the first
fault. `pollQueue` loops for ever, and SQS hands out what is not deleted again and again and
in no fixed order, hence strong fairness of receiving a queue message and of reaching it in
its batch. This is not assumed of a message that points to an object, which may be missing
for good; nor of landing files, since the directory is walked once per start and nothing
starts the worker again; nor of webhooks, which nobody is bound to post again.
Nothing is assumed of callers, schedulers or ingestion.

## Runs that are violated

Each states what a comment or a document says, and TLC shows a behaviour of the code
that does otherwise. The quotations are in `PROJECT.json` under `findings`.

| run | property | what happens |
|---|---|---|
| `ingest_audit_gap` | `AckedIsAudited` | the audit entry fails after the commit; the redelivery is a duplicate and is acknowledged |
| `ingest_line_types` | `DuplicateMeansPersisted` | lines that differ in type share a key, and one is lost |
| `migrations_index` | `BuiltByThisFile` | `0003` and `0006` name the same key with different columns; `0006` is skipped, recorded and never built |

Other behaviours of the model that a reader of the comments may not expect:

- `matcher/locker.go:15`: the TTL is not renewed and nothing checks it, so a run that
  outlives it works beside the next one (`OneRunAtATime` and `DecidedOnce` hold until then).
- `README.md:3`: a payment ingested after the runs over its window is in no later window,
  and is neither matched nor logged.
- `recon/matcher.go:112`: `levenshtein` takes byte positions for rune positions, so it is
  the edit distance only for single-byte text (`WideRunes = {}`).
- `migrate.go:94`: of two programs that apply the same file the slower one gets error
  1062 and fails, upon which the matching engine and the ingestion worker exit. The same
  happens to the survivor when the other records a file and dies.
- `qa_mysql.go:21`: "every exception_log row" is at most the newest 20.
- `answer.go:191-193`: "the model may only mention payment IDs that appear in the question or
  the rows", but `strings.Contains` (`answer.go:205`) also finds the beginning of one: with
  `pay_AB` in the question or a row a text about `pay_A` is shown. `ModelTextIsBacked` states
  this limit. A `pay_` inside a longer word of the question, which the pattern does not read
  as an id and `strings.Contains` would find, is not in the model.
- `pan.go:14,25`: "any 13-19 digit run" is a run of the text without separators, so a card
  number next to another number (`1 4111111111111111`) is judged together with it, and of a
  run of more than 19 digits the first 19 are judged together. Both may go unnoticed;
  `CardNumberIsFound` is about numbers that no other digits touch.
- `0002_ledger_uniqueness.up.sql:3`: over ledger lines with the same reference, which `0001`
  allows, the unique key fails with error 1062 at every start until the rows are changed.
- `server.go:173`: a cursor without one of its fields is read as having 0 there.
- `worker.go:32`: a database error while a landing file is processed, or a deadlock of its
  audit entry with another writer's, puts a good file into `failed/`, and nothing takes it
  out again.
- `worker.go:71`: a message that validates and that MySQL refuses (a negative `fee_paise`,
  `0001_core.up.sql:24`) is received for ever.
- `pipeline.go:22,55`: a batch commits record by record, and one that is reported as
  rejected because persisting failed may have committed records.
- `cmd/matching-engine/main.go:6`: a run that dies between a result and its audit entry
  leaves a result that no later run audits (`OnlyTheLastIsUnaudited` bounds this to one).
- `recon/types.go:19`: an exception `NO_CANDIDATE_IN_WINDOW` stays when the settlement
  line is ingested later, and a payment without a line in its own window is reported as
  an amount mismatch when the query for its method returned somebody else's.
- `recon/types.go:25,27`: an order paid twice makes an amount mismatch of a ledger line
  with the right amount; a line loaded from the outer lag of the window is reported as an
  orphan, because its payment is loaded from a narrower one.
- `breaker.go:8,42`: the late success of a call that was let through earlier closes the
  breaker inside its cooldown, and after the cooldown all waiting calls are let through.
- `budget.go:89`: a bucket that expires between a reservation and its rollback starts
  below zero. `SpendWithinCap` counts such reservations in `carried`.
- `explainer.go:97`: an error of the budget check ends `Explain` without a log row.

## Proofs

**`AuditChainProofs`**, for any writers, bodies and bounds (`BoundsAssumption`: they are
natural numbers). `ChainIntact` is not inductive: it says nothing of what the writers
have read. `IInv` adds that a writer between its read and its commit holds the hash of
the present head (`ReadIsCurrent`), that a waiting scan is at the last row or the open
one (`ScanIsCurrent`), and that beside an open insert every other writer is idle or
waits for the new row (`InsertIsAlone`). The last makes a commit safe: nobody has read a
head that the commit makes stale. `TypeCorrect` is proved first and used in
`Inductive`; `ChainNeverForks` and `InsertsAreExclusive` follow. `Implements` shows that
every step is a step of `AuditAppend` or a stutter: all but the call, the commit and the
failures stutter, and the commit appends an entry sealed against the present head because
of `ReadIsCurrent`.

**`IngestProofs`**, for any workers, messages and payloads that meet `PayloadAssumption`.
`IInv` ties the place of each worker to what is stored: the records it went past, the
current one from its transaction on, and all of the message when a result that will be
acknowledged is ready. The unique key of `raw_events` gives `AuditIsExclusive`: only one
worker is ever between the insert of a key and its audit entry. From `Inductive` follow
`TypeCorrect`, `AcksFollowCommits`, `CacheNeverLies`, `NoDoubleAudit` and, with
`FilesStayOwned` (a landing file in work is nobody else's), `Implements`: the pipeline
implements `AckAfterCommit`. `RejectsAreDue` gives `GoodFilesAreKept`: a landing
file that is not acknowledged is invalid, cannot be stored, was met by a fault, or has an event
that is stored and that no worker will audit any more (`LostItsEntry`). The last stays so for
good, because only the worker that inserted an event ever audits it.

**`GuardrailProofs`**, for any finite set of concurrent calls, any cap and any cost
(`GuardrailAssumption`). `SpendWithinCap` counts what passed, and cannot be inductive
without what is under way. `IInv` says that the Redis counter is at least the cost of all
reservations that are kept or held (`CounterCovers`) and at most that and what errors left
behind (`CounterIsTight`). So a reservation that will pass found room for itself and all
that pass before it (`PassingFits`), and one that will be refused was preceded by a full
bucket (`RefusalIsRight`). The steps are arithmetic about the cardinalities of `Holding` and
`Passing`. `CapIsKept` and `RefusalsAreDue` follow.

**`MatchingProofs`**, for any runs, records, lookback and times (`EngineAssumption`;
`RecordsAssumption`: ids are primary keys, there are finitely many payments and settlement
lines, and times are numbers). Until a lock is outlived the key in Redis is that of the one
busy run (`LockIsHeld`), so what it loaded stays undecided by others (`PaymentsAreFresh`,
`LedgerIsFresh`); no run decides a record twice (`OneOfEachRun`); between a result and its
audit entry a run remembers that result only (`CurrentIsLast`); a ledger match is about to
be pointed to, has been, or is the last result of a run that died (`MatchesArePointed`);
what is loaded is stored and lies in the window (`SlicesAreStored`). With `Inductive` come `LockExcludes`,
`PaymentsDecidedOnce`, `LedgerLinesMatchedOnce`, `LastIsUnaudited`, `AllLoadedDecided` and
`PointersAreBacked`; `SoundMatches` and `UnrivalledMatches`, which rest on lemmas about the
tiers (who matches fits, and fits alone); and the action properties `CandidatesComplete`
and `LedgerComplete`, that no window is too narrow: the SLA days of a method and the
booking lag are added to the window of the run, whose payments lie inside it.

**`AuditDamageProofs`**, for logs of any length and any damage. `HashDeterminesRows`: a log
that `Verify` accepts is determined by its last hash, by induction over its length, as the
hash of a row holds the bodies of all rows up to it. With the invariant that what was
written verifies, this is `HeadPins`. `VerifyFindsTheFirst`, that `Verify` reports the
least broken row, gives `BlameNotEarly`.

**`MigrationProofs`**, for any programs, starts and faults, and any files that meet
`FilesAssumption`, which TLC evaluates on the files of the repository: a table is created
before it is needed and never dropped; a key is dropped once, in a later file than the one
that creates it together with its table; statements that add the same key add and need the
same and drop nothing.
The difficulty is that a duplicate error counts as success. `WholeStatements` is the
answer: a statement takes effect as a whole, so when one of its objects is there
(`Touched`), all it is for has been reached (`Done`). Then what lies behind a program is
done (`BehindIsDone`), what is recorded is done, and nothing undoes it: `TrackerIsTrue`.
`TableIsThere` shows that no statement misses its table, so that only rows which a unique key
does not allow make one fail, and `AloneRecords` that a
program that is alone finds no row of the file it is at: `AloneGetsThrough`. What
`migrations_index` shows is not in conflict with this: `RecordedIsBuilt` asks that a key of
that name is there, and not which file built it.

**`ExceptionReadProofs`**, for any rows, limits, questions and ids (`ReadAssumption`: `id`
is the primary key, amounts are numbers, reason codes are numbered). `InOrder` puts a row
where as many rows as its place says come before it; `RankIsTaken` shows that a total
order on a finite set fills every place once. `WalkIsOnTrack` says that the cursor is the
last row listed, that some row follows it, and that what the walk owes comes after it. A
keyset cursor keeps this true when rows are inserted anywhere, which gives `ListingExact`
and `PagesNotEmpty`. `EvidenceFits`, that the rows an answer was made from are
those of its question, gives `AnswersAreBacked`. `ViewsAgree` unfolds
the folds of the community modules: sums over parts of a finite set do not depend on the
order (`SumRemove`) and add up over disjoint parts (`SumUnion`), and the groups by reason
code share no row and leave none out (`GroupsAddUp`).

**`TextCheckProofs`**, for texts of any length over any alphabet (`TextAssumption`: the runes
of an identifier take one byte, bytes are numbers; `LowerCaseAssumption`: letters are no
separators, and what is in lower case stays so; `CardAssumption`: digits are no separators,
and a run has a digit). Each is a fact about loops, so all follow from the types of the texts
(`TypeCorrect`).

- `LevenshteinComputesEditDistance`. `TableSteps` shows that the two loops leave a table in
  which each cell is the best of its three neighbours (`IsTable`), and `FillTable` is the
  induction over its cells. The distance is not too large: one edit of the second text makes
  the last cell at most one larger (`RemovalCosts`, `SubstitutionCosts`, `InsertionCosts`, each
  relating the cells of two tables up to, at and behind the edit), so what `n` edits reach has a
  distance of at most `n` (`NeverMore`). It is not too small: each cell counts the edits of a
  path between the two prefixes it stands for (`TablePaths`). `EditDistance` looks only at
  sequences of up to `MaxLength` runes, and the path obeys this: nothing on it is longer than
  the longer prefix.
- `FormattingDoesNotMatter`. `StripInserted`: a loop that skips a rune is where it was before it
  (`NormalizeInserted`); `NormalizeUpper` is the same for a letter in upper case.
- `CardNumbersAreFound`. `StripInserted` again; `DigitsOnly` and `RunIsFound` say which runs
  the scan finds: it has not passed a run that no digits touch before it stands at its first
  digit (`ScanBehind`); `LuhnDetects` says that another digit at one place changes the sum by
  something that is no multiple of ten, as `Doubled` permutes the digits.

Induction. The library's induction theorems take an operator as a parameter and cannot be
used. `LeastNatural` and `CountUp` speak of sets of numbers instead, and come from the
well-foundedness of `<` on the natural numbers; the modules that need one have it. With them
the recursive functions of `Migrations`, `Identifiers`, `CardNumbers` and of the folds are
shown to exist and to be unique (in `TextCheckProofs` by `LoopRuns` and `SameLoop`) and are
unfolded. `Strip` is a recursive function because the provers know nothing of `SelectSeq`.

The strengthened invariants hold on the instances of the runs as well. `IInv` of
`IngestPipeline` and of `AIGuardrails` are properties of their runs; the others were
checked with the same configurations before they were proved.

Only model-checked: liveness, which the prover does not do, like `ENABLED`. These are
`BreakerRecovers`, `LockIsReleased`, `RunsEnd`, `SomeoneGetsReady`, and the progress of writers,
queue messages and landing files. Every safety invariant and action property of the passing
runs is a theorem.

## Not modelled

- Float arithmetic of the budget: costs are whole units.
- Texts: prompts, answers, summaries and evidence; a question is its ids and telling words.
- The status of a payment, which no tier and no query reads; a later event of a payment
  does not change the row that is there.
- Match rates per method, the reports and the group ids: computed, shown and not used again.
- Which settlement line a match used: `match_results` does not record it, so that a line
  may serve two payments is in the model but not in a property.
- The types of columns, and the down migrations, which no program runs.
- `GuardMutation`, which every `Exec` of the store passes (`mysql.go:164,184`): it looks at the
  text of a statement, and no statement of the program updates or deletes rows of the
  append-only tables, so it lets all of them through.
- The retries of go-redis: a rollback whose answer is lost may be sent again and be applied
  twice, which would leave the counter too low. `RollBackFails` has a rollback that is not
  applied.
- The decoding of queue bodies (`DecodeQueueBody`), and the conversion of fields into rows.
- The in-memory store, a test double of the MySQL one; `NoopLocker` and `NoopCache`, for
  tests and single runs.
- The generator, the legacy adapter, Terraform and scripts.

## Plan

Show that the matching engine implements an abstract matcher that decides a payment in one
step. State what `levenshtein` computes for wide runes.
