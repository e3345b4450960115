---------------------------- MODULE AIGuardrails ----------------------------
(***************************************************************************)
(* The guardrails around the language model: Explainer.Explain and         *)
(* Agent.compose, called by concurrent requests of cmd/api, which share    *)
(* one circuit breaker and one BudgetTracker with a bucket per feature.    *)
(*                                                                         *)
(* A call reserves its cost in Redis, asks the breaker, calls the model,   *)
(* tells the breaker how it went and (Explain only) logs the outcome.  Any *)
(* two of these steps of one call may be far apart.  Costs are whole       *)
(* units.  Time is kept as the age of the breaker's openedAt, which counts *)
(* no further than Cooldown, and consecutiveFail counts no further than    *)
(* the threshold: the code compares them with these values only.           *)
(***************************************************************************)
EXTENDS Integers, FiniteSets

CONSTANTS
    Callers,      \* concurrent requests
    Cap, Cost,    \* capUSD and estCost()
    Threshold,    \* failureThreshold
    Cooldown,     \* cooldown
    MaxFaults,    \* bound: Redis errors
    MaxCarried    \* bound: reservations whose bucket expires before they are settled

ASSUME GuardrailAssumption ==
    /\ Cap \in Nat /\ Cost \in Nat \ {0}
    /\ Threshold \in Nat \ {0} /\ Cooldown \in Nat \ {0}
    /\ MaxFaults \in Nat /\ MaxCarried \in Nat
    /\ IsFiniteSet(Callers)

Features == {"explain", "qa"}   \* buckets api:adhoc and api:qa

VARIABLES
    spent,        \* the Redis counter of each bucket
    fails,        \* consecutiveFail
    age,          \* now - openedAt
    pc,           \* where each call is
    feature,      \* which function was called
    total,        \* what INCRBYFLOAT returned
    answer,       \* what the model returned
    kept,         \* reservations of each bucket that passed the check
    faults,       \* Redis errors so far
    carried       \* reservations that outlived their bucket so far

budget == <<spent, total, kept>>
breaker == <<fails, age>>
bounds == <<faults, carried>>
vars == <<budget, breaker, pc, feature, answer, bounds>>

Goto(c, l) == pc' = [pc EXCEPT ![c] = l]
LogOrReturn(c) == Goto(c, IF feature[c] = "explain" THEN "log" ELSE "idle")
SpendFault == faults < MaxFaults /\ faults' = faults + 1 /\ UNCHANGED carried
Add(f, n) == spent' = [spent EXCEPT ![f] = @ + n]

\* The calls whose reservation in bucket f is neither kept nor taken back yet.
Holding(f) == {c \in Callers : pc[c] \in {"check", "rollback"} /\ feature[c] = f}

Init ==
    /\ spent = [f \in Features |-> 0]
    /\ fails = 0 /\ age = Cooldown
    /\ pc = [c \in Callers |-> "idle"]
    /\ feature = [c \in Callers |-> "explain"]
    /\ total = [c \in Callers |-> 0]
    /\ answer = [c \in Callers |-> "none"]
    /\ kept = [f \in Features |-> 0]
    /\ faults = 0 /\ carried = 0

-----------------------------------------------------------------------------
(* BudgetTracker.CheckAndReserve                                           *)

\* A request arrives and reaches its budget check.
Call(c, f) ==
    /\ pc[c] = "idle"
    /\ Goto(c, "reserve")
    /\ feature' = [feature EXCEPT ![c] = f]
    /\ UNCHANGED <<budget, breaker, answer, bounds>>

\* INCRBYFLOAT.
Reserve(c) ==
    /\ pc[c] = "reserve"
    /\ Add(feature[c], Cost)
    /\ total' = [total EXCEPT ![c] = spent[feature[c]] + Cost]
    /\ Goto(c, "check")
    /\ UNCHANGED <<kept, breaker, feature, answer, bounds>>

\* INCRBYFLOAT fails or its answer is lost; the call returns at once.
ReserveFails(c) ==
    /\ pc[c] = "reserve"
    /\ SpendFault
    /\ UNCHANGED spent \/ Add(feature[c], Cost)
    /\ Goto(c, "idle")
    /\ UNCHANGED <<total, kept, breaker, feature, answer>>

\* Mutant: a call that starts below the cap may pass it.
CheckBeforeCost(c) ==
    /\ pc[c] = "check"
    /\ IF total[c] - Cost > Cap
       THEN Goto(c, "rollback") /\ UNCHANGED kept
       ELSE Goto(c, "allow") /\ kept' = [kept EXCEPT ![feature[c]] = @ + 1]
    /\ total' = [total EXCEPT ![c] = 0]
    /\ UNCHANGED <<spent, breaker, feature, answer, bounds>>

\* Mutant: a call that reaches the cap exactly is refused.
CheckStrictly(c) ==
    /\ pc[c] = "check"
    /\ IF total[c] >= Cap
       THEN Goto(c, "rollback") /\ UNCHANGED kept
       ELSE Goto(c, "allow") /\ kept' = [kept EXCEPT ![feature[c]] = @ + 1]
    /\ total' = [total EXCEPT ![c] = 0]
    /\ UNCHANGED <<spent, breaker, feature, answer, bounds>>

\* EXPIRE, and the comparison with the cap.
Check(c) ==
    /\ pc[c] = "check"
    /\ IF total[c] > Cap
       THEN Goto(c, "rollback") /\ UNCHANGED kept
       ELSE Goto(c, "allow") /\ kept' = [kept EXCEPT ![feature[c]] = @ + 1]
    /\ total' = [total EXCEPT ![c] = 0]
    /\ UNCHANGED <<spent, breaker, feature, answer, bounds>>

\* Mutant: the reservation is taken back twice.
RollBackTwice(c) ==
    /\ pc[c] = "rollback"
    /\ Add(feature[c], -2 * Cost)
    /\ LogOrReturn(c)
    /\ UNCHANGED <<total, kept, breaker, feature, answer, bounds>>

\* The reservation is taken back, and Explain logs that it skipped the call.
RollBack(c) ==
    /\ pc[c] = "rollback"
    /\ Add(feature[c], -Cost)
    /\ LogOrReturn(c)
    /\ UNCHANGED <<total, kept, breaker, feature, answer, bounds>>

\* The error of the second INCRBYFLOAT is ignored.
RollBackFails(c) ==
    /\ pc[c] = "rollback"
    /\ SpendFault
    /\ LogOrReturn(c)
    /\ UNCHANGED <<budget, breaker, feature, answer>>

\* The bucket expires.  INCRBYFLOAT does not renew a bucket's ttl and the error
\* of EXPIRE is ignored, so a call may have its reservation in the bucket.
KeyExpires(f) ==
    /\ spent[f] # 0 \/ kept[f] # 0
    /\ carried + Cardinality(Holding(f)) <= MaxCarried
    /\ carried' = carried + Cardinality(Holding(f))
    /\ spent' = [spent EXCEPT ![f] = 0]
    /\ kept' = [kept EXCEPT ![f] = 0]
    /\ UNCHANGED <<total, breaker, pc, feature, answer, faults>>

-----------------------------------------------------------------------------
(* CircuitBreaker                                                          *)

Tripped == fails >= Threshold

Allowed == ~Tripped \/ age >= Cooldown

\* Mutant: a refused call counts as a failure.
AllowOrRecordFailure(c) ==
    /\ pc[c] = "allow"
    /\ IF Allowed
       THEN Goto(c, "call") /\ UNCHANGED age
       ELSE age' = 0 /\ LogOrReturn(c)
    /\ UNCHANGED <<budget, fails, feature, answer, bounds>>

\* Allow: the model is called, or the call is skipped.
Allow(c) ==
    /\ pc[c] = "allow"
    /\ IF Allowed THEN Goto(c, "call") ELSE LogOrReturn(c)
    /\ UNCHANGED <<budget, breaker, feature, answer, bounds>>

\* The model answers, or fails, or the timeout of the call runs out.
Complete(c) ==
    /\ pc[c] = "call"
    /\ \E a \in {"text", "empty", "error"} : answer' = [answer EXCEPT ![c] = a]
    /\ Goto(c, "record")
    /\ UNCHANGED <<budget, breaker, feature, bounds>>

\* An empty text is an answer to Explain and a failure to compose.
Failed(c) == answer[c] = "error" \/ (answer[c] = "empty" /\ feature[c] = "qa")

RecordFailure ==
    /\ fails' = IF Tripped THEN fails ELSE fails + 1
    /\ age' = IF fails' >= Threshold THEN 0 ELSE age

RecordSuccess == fails' = 0 /\ UNCHANGED age

\* RecordFailure or RecordSuccess, under the breaker's mutex.
Record(c) ==
    /\ pc[c] = "record"
    /\ IF Failed(c) THEN RecordFailure ELSE RecordSuccess
    /\ answer' = [answer EXCEPT ![c] = "none"]
    /\ LogOrReturn(c)
    /\ UNCHANGED <<budget, feature, bounds>>

\* writeLog, whose errors are swallowed: the call returns whether the row is
\* written or not.
WriteLog(c) ==
    /\ pc[c] = "log"
    /\ Goto(c, "idle")
    /\ UNCHANGED <<budget, breaker, feature, answer, bounds>>

Tick ==
    /\ age < Cooldown
    /\ age' = age + 1
    /\ UNCHANGED <<budget, fails, pc, feature, answer, bounds>>

Step(c) ==
    \/ Reserve(c) \/ Check(c) \/ RollBack(c)
    \/ Allow(c) \/ Complete(c) \/ Record(c) \/ WriteLog(c)

Next ==
    \/ \E c \in Callers :
          \/ \E f \in Features : Call(c, f)
          \/ Step(c) \/ ReserveFails(c) \/ RollBackFails(c)
    \/ \E f \in Features : KeyExpires(f)
    \/ Tick

Spec == Init /\ [][Next]_vars

\* Every call has a timeout and goes on, and time passes.
Fairness == (\A c \in Callers : WF_vars(Step(c))) /\ WF_vars(Tick)

FairSpec == Spec /\ Fairness

-----------------------------------------------------------------------------
(* Properties                                                              *)

\* Type correctness of the buckets, the breaker and the calls.
TypeOK ==
    /\ spent \in [Features -> Int]
    /\ fails \in 0..Threshold
    /\ age \in 0..Cooldown
    /\ pc \in [Callers -> {"idle", "reserve", "check", "rollback", "allow", "call",
                           "record", "log"}]
    /\ feature \in [Callers -> Features]
    /\ total \in [Callers -> Int]
    /\ answer \in [Callers -> {"none", "text", "empty", "error"}]
    /\ kept \in [Features -> Nat]
    /\ faults \in 0..MaxFaults /\ carried \in 0..MaxCarried

\* However many calls reserve and roll back at the same time, and whatever
\* Redis loses, the calls that pass the budget check of a bucket never cost
\* more than its cap and the reservations that outlived their bucket
\* (CheckAndReserve is "shared and atomic ... including concurrently").
SpendWithinCap == \A f \in Features : kept[f] * Cost <= Cap + carried * Cost

\* The reservations of a bucket that have not been checked yet and will pass.
Passing(f) == {c \in Callers : pc[c] = "check" /\ feature[c] = f /\ total[c] <= Cap}

\* A call is refused only when, with one more, the calls that pass would cost
\* more than the cap, up to the charges Redis errors left behind, as long as
\* no reservation outlived its bucket: the reservations of calls that are about
\* to be refused take nobody's place ("a true no-op for the batch's remaining
\* spend").
RefusedOnlyAtCap ==
    \A c \in Callers : carried = 0 /\ pc[c] = "rollback" =>
        (kept[feature[c]] + Cardinality(Passing(feature[c])) + faults + 1) * Cost > Cap

\* A tripped breaker does not stay shut: again and again a call is allowed.
BreakerRecovers == []<>Allowed

-----------------------------------------------------------------------------
(***************************************************************************)
(* The inductive invariant.  A counter is never below the reservations it  *)
(* accounts for (those that outlived a bucket aside), so a reservation     *)
(* that will pass finds room for itself and for all that passed or will    *)
(* pass before it.  And it is never above them by more than Redis errors   *)
(* left behind, so the first reservation that will not pass finds the      *)
(* bucket full; the ones after it change nothing of that.                  *)
(***************************************************************************)
CounterCovers ==
    \A f \in Features : spent[f] >= (kept[f] + Cardinality(Holding(f)) - carried) * Cost

PassingFits ==
    \A f \in Features : (kept[f] + Cardinality(Passing(f)) - carried) * Cost <= Cap

CounterIsTight ==
    carried = 0 => \A f \in Features :
        spent[f] <= (kept[f] + Cardinality(Holding(f)) + faults) * Cost

RefusalIsRight ==
    carried = 0 => \A f \in Features :
        \/ Holding(f) = Passing(f)
        \/ (kept[f] + Cardinality(Passing(f)) + faults + 1) * Cost > Cap

IInv == TypeOK /\ CounterCovers /\ PassingFits /\ CounterIsTight /\ RefusalIsRight
=============================================================================
