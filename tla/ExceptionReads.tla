--------------------------- MODULE ExceptionReads ---------------------------
(***************************************************************************)
(* Reading exception_log while the matching engine writes to it: an        *)
(* operator pages through GET /v1/exceptions (internal/api/server.go,      *)
(* store.ListUnresolvedExceptions), and another asks the Settlement Q&A    *)
(* agent (POST /v1/qa, internal/ai/qa, internal/store/qa_mysql.go).        *)
(*                                                                         *)
(* Each request runs one query, which sees one state of the table.  No     *)
(* route sets resolved_at or deletes a row, so the table only grows; its   *)
(* rows need not become visible in the order of their ids.                 *)
(***************************************************************************)
EXTENDS Integers, Sequences, SequencesExt, FiniteSetsExt

CONSTANTS
    ExceptionRows,  \* rows the engine may write: id, amount, reason, payment, mentions
    Questions,      \* questions: length, the pay_ ids in them, and their telling words
    Ids,            \* payment ids the model may name, as sequences of characters
    DefaultLimit, MaxLimit,  \* 50 and 200 in listExceptions
    MaxQuestion,    \* maxQuestionRunes
    WhyCap,         \* maxWhyNotSettledRows
    None            \* no cursor, no parameter, no question

ASSUME ReadAssumption ==
    /\ DefaultLimit \in Nat \ {0} /\ MaxLimit \in Nat \ {0} /\ WhyCap \in Nat \ {0}
    /\ \A r \in ExceptionRows : r.id \in Int /\ r.amount \in Int /\ r.reason \in Int
    /\ \A r, s \in ExceptionRows : r.id = s.id => r = s
    /\ None \notin [{"amount_at_risk_paise", "id"} -> Int] \cup [amount : Int, id : Int] \cup {"llm"}

VARIABLES
    log,     \* the rows of exception_log
    walk,    \* the operator's walk through the pages
    asked,   \* the question that is being answered, after its query
    answer   \* the last response of POST /v1/qa

vars == <<log, walk, asked, answer>>

-----------------------------------------------------------------------------
(* GET /v1/exceptions                                                      *)

\* Row order: worst amount at risk first, the newer row first on equal amounts.
After(r, c) == r.amount < c.amount \/ (r.amount = c.amount /\ r.id < c.id)

\* ORDER BY, with the pairs of rows of which the first comes before the second:
\* the row at place i has i - 1 rows before it.
InOrder(rows, before) ==
    [i \in 1..Cardinality(rows) |->
        CHOOSE r \in rows : Cardinality({s \in rows : <<s, r>> \in before}) = i - 1]

WorstFirst(rows) == InOrder(rows, {p \in rows \X rows : After(p[2], p[1])})

Take(s, n) == SubSeq(s, 1, IF Len(s) < n THEN Len(s) ELSE n)

\* Mutant: the cursor is a position in today's order (OFFSET).
ListByOffset(limit, cursor) ==
    LET all == WorstFirst(log)
    IN  Take(SubSeq(all, IF cursor = None THEN 1 ELSE Len(walk.listed) + 1, Len(all)), limit)

ListUnresolvedExceptions(limit, cursor) ==
    Take(WorstFirst({r \in log : cursor # None => After(r, cursor)}), limit)

\* next_cursor is base64 of a JSON object, here its fields and their values.
\* Decoding gives 0 to a field that is not there, and an error for anything else.
encodeExceptionCursor(c) ==
    [f \in {"amount_at_risk_paise", "id"} |-> IF f = "id" THEN c.id ELSE c.amount]

Field(token, f) == IF f \in DOMAIN token THEN token[f] ELSE 0

decodeExceptionCursor(token) ==
    [amount |-> Field(token, "amount_at_risk_paise"), id |-> Field(token, "id")]

\* The limit parameter; one that is no number, or out of range, is ignored.
Limit(raw) == IF raw # None /\ raw > 0 /\ raw <= MaxLimit THEN raw ELSE DefaultLimit

LimitParameters == {None} \cup (-1..(MaxLimit + 1))

\* Mutant: a full page is taken for a page that others follow.
PageIfFull(limit, cursor) ==
    LET records == ListUnresolvedExceptions(limit, cursor)
    IN  [records |-> records,
         next |-> IF Len(records) = limit THEN encodeExceptionCursor(Last(records)) ELSE None]

\* A page, and the cursor of the next one when a row more than the page was found.
Page(limit, cursor) ==
    LET found == ListUnresolvedExceptions(limit + 1, cursor)
        records == Take(found, limit)
    IN  [records |-> records,
         next |-> IF Len(found) > limit THEN encodeExceptionCursor(Last(records)) ELSE None]

Walked(response, before, begun) ==
    [status |-> 200, page |-> response.records, next |-> response.next,
     listed |-> before \o response.records, begun |-> begun]

\* The first request of a walk has no cursor.
FirstPage ==
    /\ \E raw \in LimitParameters : walk' = Walked(Page(Limit(raw), None), << >>, log)
    /\ UNCHANGED <<log, asked, answer>>

\* The next one has the cursor of the last page.
NextPage ==
    /\ walk.next # None
    /\ \E raw \in LimitParameters :
          walk' = Walked(Page(Limit(raw), decodeExceptionCursor(walk.next)),
                         walk.listed, walk.begun)
    /\ UNCHANGED <<log, asked, answer>>

\* A cursor that does not decode is answered 400, a failed query 500; the
\* operator still has the cursor of the page before.
PageFails ==
    /\ \E status \in {400, 500} : walk' = [walk EXCEPT !.status = status]
    /\ UNCHANGED <<log, asked, answer>>

-----------------------------------------------------------------------------
(* POST /v1/qa                                                             *)

\* A payment id wins over all words, and "worst method" over "how much".
Classify(q) ==
    IF q.ids # << >> THEN "why_not_settled"
    ELSE IF {"worst", "method"} \subseteq q.words THEN "worst_method_by_match_rate"
    ELSE IF "how much" \in q.words THEN "amount_at_risk"
    ELSE "unsupported"

\* Rows of one payment, the newest first.
WhyNotSettled(payment) ==
    LET rows == {r \in log : r.payment = payment}
    IN  Take(InOrder(rows, {p \in rows \X rows : p[1].id > p[2].id}), WhyCap)

Total(rows) == MapThenSumSet(LAMBDA r : r.amount, rows)

\* Totals by reason code, the largest first and by reason code on equal ones.
\* Reason codes are numbered in their lexical order.
UnresolvedAmountByReason ==
    LET group(c) == {r \in log : r.reason = c}
        rows == {[reason |-> c, total |-> Total(group(c)), count |-> Cardinality(group(c)),
                  mentions |-> {}] : c \in {r.reason : r \in log}}
    IN  InOrder(rows, {p \in rows \X rows :
                         \/ p[1].total > p[2].total
                         \/ p[1].total = p[2].total /\ p[1].reason < p[2].reason})

\* Mutant: the summary stops before the last group.
summarizeAllButLast(rows) ==
    [total |-> FoldSeq(LAMBDA r, acc : acc + r.total, 0, Front(rows)),
     count |-> FoldSeq(LAMBDA r, acc : acc + r.count, 0, Front(rows))]

\* The sums over all groups that the summary states.
summarizeAmountAtRisk(rows) ==
    [total |-> FoldSeq(LAMBDA r, acc : acc + r.total, 0, rows),
     count |-> FoldSeq(LAMBDA r, acc : acc + r.count, 0, rows)]

\* Rates per method: rows that name no payment.  How they come about is left out.
MethodRates == {<< >>, <<[mentions |-> {}]>>}

\* What the query for the question may return.
Evidence(q) ==
    CASE Classify(q) = "why_not_settled" -> {WhyNotSettled(Head(q.ids))}
      [] Classify(q) = "amount_at_risk" -> {UnresolvedAmountByReason}
      [] Classify(q) = "worst_method_by_match_rate" -> MethodRates
      [] OTHER -> {<< >>}

Answered(source, text, a) ==
    [status |-> 200, source |-> source, text |-> text, to |-> a]

Summary(a) == Answered("deterministic", {}, a)

Refusal(status) == [status |-> status, source |-> None, text |-> {}, to |-> None]

\* A question that is empty or too long is answered 400, and a failed query 500.
QuestionFails ==
    /\ asked = None
    /\ \/ \E q \in Questions : q.length \notin 1..MaxQuestion /\ answer' = Refusal(400)
       \/ answer' = Refusal(500)
    /\ UNCHANGED <<log, walk, asked>>

\* The question is classified and its query run.  Without rows the summary says
\* so, and the model is not asked.
Ask ==
    /\ asked = None
    /\ \E q \in {x \in Questions : x.length \in 1..MaxQuestion} : \E rows \in Evidence(q) :
          LET a == [question |-> q, rows |-> rows]
          IN  IF rows = << >>
              THEN answer' = Summary(a) /\ UNCHANGED asked
              ELSE asked' = a /\ UNCHANGED answer
    /\ UNCHANGED <<log, walk>>

\* The ids in what the model was given: the question, and the evidence in the rows.
Given(a) == ToSet(a.question.ids) \cup UNION {a.rows[i].mentions : i \in DOMAIN a.rows}

\* strings.Contains finds an id also at the start of a longer one.
groundedInEvidence(text, a) == \A id \in text : \E g \in Given(a) : IsPrefix(id, g)

\* Mutant: the model's text is shown as it comes.
ComposeUnchecked ==
    /\ asked # None
    /\ \/ answer' = Summary(asked)
       \/ \E text \in SUBSET Ids : answer' = Answered("llm", text, asked)
    /\ asked' = None
    /\ UNCHANGED <<log, walk>>

\* compose: the budget, the breaker or the call fails, or the model returns a
\* text with some payment ids in it.
Compose ==
    /\ asked # None
    /\ \/ answer' = Summary(asked)
       \/ \E text \in SUBSET Ids :
             answer' = IF groundedInEvidence(text, asked)
                       THEN Answered("llm", text, asked)
                       ELSE Summary(asked)
    /\ asked' = None
    /\ UNCHANGED <<log, walk>>

-----------------------------------------------------------------------------

Init ==
    /\ log = {}
    /\ walk = [status |-> None, page |-> << >>, next |-> None, listed |-> << >>, begun |-> {}]
    /\ asked = None
    /\ answer = Refusal(None)

\* The engine's INSERT of an exception becomes visible.
WriteException ==
    /\ \E r \in ExceptionRows \ log : log' = log \cup {r}
    /\ UNCHANGED <<walk, asked, answer>>

Next ==
    \/ WriteException
    \/ FirstPage \/ NextPage \/ PageFails
    \/ Ask \/ QuestionFails \/ Compose

Spec == Init /\ [][Next]_vars

-----------------------------------------------------------------------------
(* Properties                                                              *)

\* The walk is over when a page came without a next_cursor.
WalkedToTheEnd == walk.status = 200 /\ walk.next = None

\* A walk lists rows worst first, none twice, and ends only when it has listed
\* every row that was there when it began, whatever is written between its
\* pages: ListUnresolvedExceptions is "stable under concurrent inserts".
ListingIsExact ==
    /\ \A i \in 2..Len(walk.listed) : After(walk.listed[i], walk.listed[i - 1])
    /\ WalkedToTheEnd => walk.begun \subseteq ToSet(walk.listed)

\* A cursor that listExceptions gave out leads to a page with rows: there is no
\* "round trip that returns zero rows".  Only the first page may be empty, and
\* then the log was.
NoEmptyPage ==
    walk.status = 200 /\ walk.page = << >> => walk.listed = << >> /\ walk.begun = {}

\* The two views of the operator agree: when nothing was written since a walk
\* began, what it listed adds up to what the agent says is at risk.
TotalsAgree ==
    WalkedToTheEnd /\ log = walk.begun =>
        summarizeAmountAtRisk(UnresolvedAmountByReason)
            = [total |-> Total(ToSet(walk.listed)), count |-> Len(walk.listed)]

\* The rows given with the question: some, and when the question names a payment
\* exceptions of the first it names.
RowsAnswer(q, rows) ==
    /\ rows # << >>
    /\ q.ids # << >> => \A i \in DOMAIN rows : rows[i] \in log /\ rows[i].payment = Head(q.ids)

\* The text of the model is shown only with rows that are there and are about the
\* payment asked for, and then a payment it names is one that stands in the
\* question or in those rows, whole or cut short, whatever is written to the log
\* between the query and the text; an answer to a question without a payment
\* names none.  answer.go says more, that the model "may only mention payment
\* IDs that appear in the question or the rows", but looks for them with
\* strings.Contains, which also finds the beginning of one.
ModelTextIsBacked ==
    answer.source = "llm" =>
        LET q == answer.to.question
            rows == answer.to.rows
        IN  /\ RowsAnswer(q, rows)
            /\ \A id \in answer.text :
                  \E g \in ToSet(q.ids) \cup UNION {rows[i].mentions : i \in DOMAIN rows} :
                     IsPrefix(id, g)
            /\ q.ids = << >> => answer.text = {}

-----------------------------------------------------------------------------
(* The inductive invariant                                                 *)

Cursors == [{"amount_at_risk_paise", "id"} -> Int]

\* Types of the log and of a walk.
TypeOK ==
    /\ log \subseteq ExceptionRows
    /\ IsFiniteSet(log)
    /\ walk \in [status : {None, 200, 400, 500}, page : Seq(ExceptionRows),
                 next : Cursors \cup {None}, listed : Seq(ExceptionRows),
                 begun : SUBSET ExceptionRows]

\* What is listed is in the log.  The cursor is the last row listed, rows follow it,
\* and what the walk still owes comes after it.  Without a cursor it owes nothing.
WalkIsOnTrack ==
    /\ \A i, j \in 1..Len(walk.listed) : i < j => After(walk.listed[j], walk.listed[i])
    /\ walk.begun \subseteq log /\ ToSet(walk.listed) \subseteq log
    /\ walk.next = None => walk.begun \subseteq ToSet(walk.listed)
    /\ walk.next # None =>
          /\ walk.listed # << >>
          /\ walk.next = encodeExceptionCursor(Last(walk.listed))
          /\ \E r \in log : After(r, Last(walk.listed))
          /\ \A r \in walk.begun : r \in ToSet(walk.listed) \/ After(r, Last(walk.listed))

\* The rows a question is about to be answered from are about its payment, and
\* without one they mention none.
EvidenceFits ==
    asked # None => /\ RowsAnswer(asked.question, asked.rows)
                    /\ asked.question.ids = << >> =>
                          \A i \in DOMAIN asked.rows : asked.rows[i].mentions = {}

IInv == TypeOK /\ WalkIsOnTrack /\ NoEmptyPage /\ EvidenceFits /\ ModelTextIsBacked
=============================================================================
