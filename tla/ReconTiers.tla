----------------------------- MODULE ReconTiers -----------------------------
(***************************************************************************)
(* The pure decisions of internal/recon and the windows internal/matcher   *)
(* loads records for.  Times are days, amounts are whole numbers, and a    *)
(* slice of candidates is a set: no tier depends on their order, and every *)
(* candidate has an id of its own.                                         *)
(*                                                                         *)
(* A payment is [id, order, amount, fee, tax, method, captured], a         *)
(* settlement line [id, entity, credit, method, settled] and a ledger line *)
(* [id, reference, amount, booked].                                        *)
(***************************************************************************)
EXTENDS Identifiers

\* Settlement SLA of a payment method.
slaFor(method) ==
    CASE method = "card"       -> 4
      [] method = "netbanking" -> 3
      [] method = "upi"        -> 1
      [] method = "wallet"     -> 2
      [] OTHER                 -> 5

ledgerBookingLagWindow == 3

NetAmount(p) == p.amount - p.fee - p.tax

inFutureWindow(captured, settled, sla) ==
    settled >= captured /\ settled <= captured + sla

withinDays(left, right, days) == left - right <= days /\ right - left <= days

-----------------------------------------------------------------------------
(* What the store returns for a window [start, end)                        *)

Within(t, start, end) == start <= t /\ t < end

PaymentsInWindow(payments, start, end) ==
    {p \in payments : Within(p.captured, start, end)}

\* Mutant: the candidates of the payment window alone.
CandidatesWithoutSLA(lines, method, start, end) ==
    {c \in lines : c.method = method /\ Within(c.settled, start, end)}

\* GetSettlementCandidates as runSettlementSide calls it.
SettlementCandidates(lines, method, start, end) ==
    {c \in lines : c.method = method /\ Within(c.settled, start, end + slaFor(method))}

\* Mutant: the ledger is widened once.
LedgerWidenedOnce(ledger, start, end) ==
    {l \in ledger : Within(l.booked, start - ledgerBookingLagWindow,
                                     end + ledgerBookingLagWindow)}

\* The window of GetUnmatchedLedgerLines, and of the payments they are
\* compared with, as runLedgerSide calls them.
LedgerInWindow(ledger, start, end) ==
    {l \in ledger : Within(l.booked, start - 2 * ledgerBookingLagWindow,
                                     end + 2 * ledgerBookingLagWindow)}

LedgerPayments(payments, start, end) ==
    PaymentsInWindow(payments, start - ledgerBookingLagWindow,
                               end + ledgerBookingLagWindow)

-----------------------------------------------------------------------------
(* Tier 1, Tier 2, Tier 3 and the payment exceptions                       *)

\* Net amount and settlement window agree.
Plausible(p, c) ==
    /\ c.credit = NetAmount(p)
    /\ inFutureWindow(p.captured, c.settled, slaFor(p.method))

Tier1Fits(p, c) == c.entity = p.id /\ Plausible(p, c)
Tier2Fits(p, c) == Plausible(p, c) /\ BoundedID(p.id, c.entity)

Tier1(p, candidates) == {c \in candidates : Tier1Fits(p, c)}
Tier2(p, candidates) == {c \in candidates : Tier2Fits(p, c)}

Single(S) == Cardinality(S) = 1
The(S) == CHOOSE x \in S : TRUE

ClassifyPayment(p, candidates) ==
    IF Cardinality({c \in candidates : Plausible(p, c)}) > 1
      THEN "MULTI_CANDIDATE_AMBIGUOUS"
    ELSE IF candidates = {}
      THEN "NO_CANDIDATE_IN_WINDOW"
    ELSE "AMOUNT_MISMATCH_UNEXPLAINED"

Match(rule, to) == [kind |-> "match", rule |-> rule, to |-> to]
Exception(reason) == [kind |-> "exception", rule |-> reason, to |-> << >>]

\* After Tier 1 and Tier 2 fail, the ranking service may turn the exception
\* into an ambiguous one, if it is configured, up, and ranks any candidate.
classifyAfterTier2(p, candidates) ==
    {Exception(ClassifyPayment(p, candidates))}
    \cup (IF candidates = {} THEN {} ELSE {Exception("MULTI_CANDIDATE_AMBIGUOUS")})

\* Mutant: an ambiguous set of candidates is settled by taking one of them.
DecideByFirst(p, candidates) ==
    IF Tier1(p, candidates) # {}
      THEN {Match("TIER1_EXACT", The(Tier1(p, candidates)).id)}
    ELSE IF Tier2(p, candidates) # {}
      THEN {Match("TIER2_BOUNDED_ID", The(Tier2(p, candidates)).id)}
    ELSE classifyAfterTier2(p, candidates)

\* Mutant: a Tier 2 match is reported as an exact one.
DecideMislabelled(p, candidates) ==
    IF Single(Tier2(p, candidates))
      THEN {Match("TIER1_EXACT", The(Tier2(p, candidates)).id)}
      ELSE classifyAfterTier2(p, candidates)

\* The possible outcomes for one payment.
DecidePayment(p, candidates) ==
    IF Single(Tier1(p, candidates))
      THEN {Match("TIER1_EXACT", The(Tier1(p, candidates)).id)}
    ELSE IF Single(Tier2(p, candidates))
      THEN {Match("TIER2_BOUNDED_ID", The(Tier2(p, candidates)).id)}
    ELSE classifyAfterTier2(p, candidates)

-----------------------------------------------------------------------------
(* Tier L                                                                  *)

SameBooking(l, p) ==
    l.reference = p.order /\ withinDays(l.booked, p.captured, 3)

TierL(l, payments) == {p \in payments : SameBooking(l, p) /\ l.amount = p.amount}

ClassifyLedger(l, payments) ==
    IF \E p \in payments : SameBooking(l, p) THEN "LEDGER_AMOUNT_MISMATCH"
                                             ELSE "LEDGER_ORPHAN"

DecideLedger(l, payments) ==
    IF Single(TierL(l, payments))
      THEN Match("TIERL_GROSS_EXACT", The(TierL(l, payments)).id)
      ELSE Exception(ClassifyLedger(l, payments))
=============================================================================
