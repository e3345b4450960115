-------------------------- MODULE GuardrailProofs --------------------------
(***************************************************************************)
(* Proofs about AIGuardrails for any number of concurrent calls, any cap   *)
(* and cost, and any number of Redis errors and expired buckets.           *)
(***************************************************************************)
EXTENDS AIGuardrails, FiniteSetTheorems, TLAPS

-----------------------------------------------------------------------------
(* Counting reservations                                                   *)

\* Multiplying by the cost of a call keeps the order of two counts.
LEMMA CostMonotonic ==
    ASSUME NEW a \in Int, NEW b \in Int, a <= b
    PROVE  a * Cost <= b * Cost
BY GuardrailAssumption

\* A call that passes still holds its reservation, and both can be counted.
LEMMA Counts ==
    ASSUME TypeOK, NEW f \in Features
    PROVE  /\ IsFiniteSet(Holding(f)) /\ Cardinality(Holding(f)) \in Nat
           /\ IsFiniteSet(Passing(f)) /\ Cardinality(Passing(f)) \in Nat
           /\ Passing(f) \subseteq Holding(f)
           /\ Cardinality(Passing(f)) <= Cardinality(Holding(f))
<1>1. Passing(f) \subseteq Holding(f) /\ Holding(f) \subseteq Callers
  BY DEF Passing, Holding
<1>2. IsFiniteSet(Holding(f)) /\ IsFiniteSet(Passing(f))
  BY <1>1, GuardrailAssumption, FS_Subset
<1>3. Cardinality(Passing(f)) <= Cardinality(Holding(f))
  BY <1>1, <1>2, FS_Subset
<1> QED
  BY <1>1, <1>2, <1>3, FS_CardinalityType

\* One call more in a set of calls.
LEMMA OneMore ==
    ASSUME NEW S, IsFiniteSet(S), NEW c, c \notin S
    PROVE  Cardinality(S \cup {c}) = Cardinality(S) + 1
BY FS_AddElement

\* One call less in a set of calls.
LEMMA OneLess ==
    ASSUME NEW S, IsFiniteSet(S), NEW c, c \in S
    PROVE  Cardinality(S \ {c}) = Cardinality(S) - 1
BY FS_RemoveElement

-----------------------------------------------------------------------------
(* The invariant of one bucket                                             *)

\* What the inductive invariant says of bucket f.
BucketOK(f) ==
    /\ spent[f] >= (kept[f] + Cardinality(Holding(f)) - carried) * Cost
    /\ (kept[f] + Cardinality(Passing(f)) - carried) * Cost <= Cap
    /\ carried = 0 =>
          /\ spent[f] <= (kept[f] + Cardinality(Holding(f)) + faults) * Cost
          /\ \/ Holding(f) = Passing(f)
             \/ (kept[f] + Cardinality(Passing(f)) + faults + 1) * Cost > Cap

\* The buckets are independent of each other.
LEMMA IInvByBucket ==
    /\ IInv <=> TypeOK /\ \A f \in Features : BucketOK(f)
    /\ IInv' <=> TypeOK' /\ \A f \in Features : BucketOK(f)'
<1>1. IInv <=> TypeOK /\ \A f \in Features : BucketOK(f)
  BY DEF IInv, BucketOK, CounterCovers, PassingFits, CounterIsTight, RefusalIsRight
<1>2. IInv' <=> TypeOK' /\ \A f \in Features : BucketOK(f)'
  BY DEF IInv, BucketOK, CounterCovers, PassingFits, CounterIsTight, RefusalIsRight
<1> QED
  BY <1>1, <1>2

\* A Redis error, or a reservation that outlives another bucket, gives a bucket
\* more room and takes none.
LEMMA OtherBucket ==
    ASSUME TypeOK, NEW f \in Features, BucketOK(f),
           spent'[f] = spent[f], kept'[f] = kept[f],
           Holding(f)' = Holding(f), Passing(f)' = Passing(f),
           faults' \in Nat, faults' >= faults, carried' \in Nat, carried' >= carried
    PROVE  BucketOK(f)'
<1> DEFINE h == Cardinality(Holding(f))
           p == Cardinality(Passing(f))
<1>1. /\ h \in Nat /\ p \in Nat /\ kept[f] \in Nat /\ spent[f] \in Int
      /\ faults \in Nat /\ carried \in Nat /\ Cap \in Nat /\ Cost \in Nat
  BY Counts, GuardrailAssumption DEF TypeOK
<1>2. h' = h /\ p' = p
  OBVIOUS
<1> HIDE DEF h, p
<1>3. /\ (kept[f] + h - carried') * Cost <= (kept[f] + h - carried) * Cost
      /\ (kept[f] + p - carried') * Cost <= (kept[f] + p - carried) * Cost
      /\ (kept[f] + h + faults) * Cost <= (kept[f] + h + faults') * Cost
      /\ (kept[f] + p + faults + 1) * Cost <= (kept[f] + p + faults' + 1) * Cost
      /\ carried' = 0 => carried = 0
  BY <1>1, CostMonotonic
<1>4. /\ spent[f] >= (kept[f] + h - carried) * Cost
      /\ (kept[f] + p - carried) * Cost <= Cap
      /\ carried = 0 =>
            /\ spent[f] <= (kept[f] + h + faults) * Cost
            /\ \/ Holding(f) = Passing(f)
               \/ (kept[f] + p + faults + 1) * Cost > Cap
  BY DEF BucketOK, h, p
<1>5. /\ spent'[f] >= (kept'[f] + h' - carried') * Cost
      /\ (kept'[f] + p' - carried') * Cost <= Cap
      /\ carried' = 0 =>
            /\ spent'[f] <= (kept'[f] + h' + faults') * Cost
            /\ \/ Holding(f)' = Passing(f)'
               \/ (kept'[f] + p' + faults' + 1) * Cost > Cap
  BY <1>1, <1>2, <1>3, <1>4
<1> QED
  BY <1>5 DEF BucketOK, h, p

-----------------------------------------------------------------------------
(* Steps preserve the inductive invariant                                  *)

\* A step outside CheckAndReserve touches no bucket and no reservation.
LEMMA QuietPreserves ==
    ASSUME IInv,
           \/ Tick \/ UNCHANGED vars
           \/ \E c \in Callers : \/ Allow(c) \/ Complete(c) \/ Record(c) \/ WriteLog(c)
                                 \/ \E f \in Features : Call(c, f)
    PROVE  IInv'
<1> USE DEF IInv
<1>1. TypeOK'
  <2>1. CASE Tick \/ UNCHANGED vars
    BY <2>1, GuardrailAssumption DEF TypeOK, Tick, vars, budget, breaker, bounds
  <2>2. ASSUME NEW c \in Callers, Record(c) PROVE TypeOK'
    BY <2>2, GuardrailAssumption DEF TypeOK, Record, RecordFailure, RecordSuccess, Tripped,
       LogOrReturn, Goto, budget, bounds
  <2>3. ASSUME NEW c \in Callers,
               Allow(c) \/ Complete(c) \/ WriteLog(c) \/ \E f \in Features : Call(c, f)
        PROVE TypeOK'
    BY <2>3 DEF TypeOK, Allow, Complete, WriteLog, Call, LogOrReturn, Goto, budget, breaker, bounds
  <2> QED
    BY <2>1, <2>2, <2>3
<1>2. UNCHANGED <<spent, kept, faults, carried, total>>
  BY DEF Tick, vars, Allow, Complete, Record, WriteLog, Call, budget, bounds
<1>3. ASSUME NEW c \in Callers
      PROVE  /\ pc'[c] \in {"check", "rollback"} <=> pc[c] \in {"check", "rollback"}
             /\ pc[c] \in {"check", "rollback"} => pc'[c] = pc[c] /\ feature'[c] = feature[c]
  <2>1. CASE Tick \/ UNCHANGED vars
    BY <2>1 DEF Tick, vars
  <2>2. ASSUME NEW d \in Callers, NEW l \in {"idle", "reserve", "call", "record", "log"},
               pc[d] \notin {"check", "rollback"}, pc' = [pc EXCEPT ![d] = l],
               \A e \in Callers \ {d} : feature'[e] = feature[e]
        PROVE  /\ pc'[c] \in {"check", "rollback"} <=> pc[c] \in {"check", "rollback"}
               /\ pc[c] \in {"check", "rollback"} => pc'[c] = pc[c] /\ feature'[c] = feature[c]
    BY <2>2 DEF TypeOK
  <2>3. ASSUME NEW d \in Callers,
               \/ Allow(d) \/ Complete(d) \/ Record(d) \/ WriteLog(d)
               \/ \E f \in Features : Call(d, f)
        PROVE  \E l \in {"idle", "reserve", "call", "record", "log"} :
                  /\ pc[d] \notin {"check", "rollback"} /\ pc' = [pc EXCEPT ![d] = l]
                  /\ \A e \in Callers \ {d} : feature'[e] = feature[e]
    BY <2>3 DEF TypeOK, Allow, Complete, Record, WriteLog, Call, LogOrReturn, Goto
  <2> QED
    BY <2>1, <2>2, <2>3
<1>4. \A f \in Features : Holding(f)' = Holding(f) /\ Passing(f)' = Passing(f)
  BY <1>2, <1>3 DEF Holding, Passing
<1>5. ASSUME NEW f \in Features PROVE BucketOK(f)'
  BY <1>2, <1>4, OtherBucket, IInvByBucket DEF TypeOK
<1> QED
  BY <1>1, <1>5, IInvByBucket

\* INCRBYFLOAT: the call finds the bucket with room for it, or full.
LEMMA ReservePreserves ==
    ASSUME IInv, NEW c \in Callers, Reserve(c)
    PROVE  IInv'
<1> USE DEF IInv
<1>1. PICK g \in Features : feature[c] = g
  BY DEF TypeOK
<1> DEFINE h == Cardinality(Holding(g))
           p == Cardinality(Passing(g))
           fits == spent[g] + Cost <= Cap
<1>2. TypeOK'
  BY GuardrailAssumption DEF TypeOK, Reserve, Add, Goto, breaker, bounds
<1>3. spent'[g] = spent[g] + Cost /\ UNCHANGED <<kept, faults, carried>>
  BY <1>1 DEF TypeOK, Reserve, Add, bounds
<1>4. ASSUME NEW f \in Features \ {g} PROVE BucketOK(f)'
  <2>1. spent'[f] = spent[f] /\ Holding(f)' = Holding(f) /\ Passing(f)' = Passing(f)
    BY <1>1 DEF TypeOK, Reserve, Add, Goto, Holding, Passing
  <2> QED
    BY <1>3, <2>1, OtherBucket, IInvByBucket, GuardrailAssumption DEF TypeOK
<1>5. /\ Holding(g)' = Holding(g) \cup {c} /\ c \notin Holding(g) /\ c \notin Passing(g)
      /\ Passing(g)' = IF fits THEN Passing(g) \cup {c} ELSE Passing(g)
  BY <1>1 DEF TypeOK, Reserve, Goto, Holding, Passing
<1>6. /\ h \in Nat /\ p \in Nat /\ p <= h /\ kept[g] \in Nat /\ spent[g] \in Int
      /\ faults \in Nat /\ carried \in Nat /\ Cap \in Nat /\ Cost \in Nat
  BY Counts, GuardrailAssumption DEF TypeOK
<1>7. h' = h + 1 /\ p' = IF fits THEN p + 1 ELSE p
  BY <1>5, Counts, OneMore
<1>8. /\ spent[g] >= (kept[g] + h - carried) * Cost
      /\ (kept[g] + p - carried) * Cost <= Cap
      /\ carried = 0 =>
            /\ spent[g] <= (kept[g] + h + faults) * Cost
            /\ Holding(g) = Passing(g) \/ (kept[g] + p + faults + 1) * Cost > Cap
  BY IInvByBucket DEF BucketOK
<1>9. Holding(g) = Passing(g) => h = p
  OBVIOUS
<1> HIDE DEF h, p
<1>10. (kept[g] + p - carried) * Cost <= (kept[g] + h - carried) * Cost
  BY <1>6, CostMonotonic
<1>11. (kept[g] + p + faults + 1) * Cost <= (kept[g] + (p + 1) + faults + 1) * Cost
  BY <1>6, CostMonotonic
<1>12. /\ spent[g] + Cost >= (kept[g] + h' - carried) * Cost
       /\ carried = 0 => spent[g] + Cost <= (kept[g] + h' + faults) * Cost
  BY <1>6, <1>7, <1>8
<1>13. (kept[g] + p' - carried) * Cost <= Cap
  BY <1>6, <1>7, <1>8, <1>10
<1>14. carried = 0 => \/ Holding(g)' = Passing(g)'
                      \/ (kept[g] + p' + faults + 1) * Cost > Cap
  <2>1. CASE Holding(g) = Passing(g) /\ fits
    BY <2>1, <1>5
  <2>2. CASE Holding(g) = Passing(g) /\ ~fits
    BY <2>2, <1>6, <1>7, <1>8, <1>9
  <2>3. CASE Holding(g) # Passing(g)
    BY <2>3, <1>6, <1>7, <1>8, <1>11
  <2> QED
    BY <2>1, <2>2, <2>3
<1>15. BucketOK(g)'
  BY <1>3, <1>12, <1>13, <1>14 DEF BucketOK, h, p
<1> QED
  BY <1>2, <1>4, <1>15, IInvByBucket

\* A lost INCRBYFLOAT: the charge it may leave is one Redis error.
LEMMA ReserveFailsPreserves ==
    ASSUME IInv, NEW c \in Callers, ReserveFails(c)
    PROVE  IInv'
<1> USE DEF IInv
<1>1. PICK g \in Features : feature[c] = g
  BY DEF TypeOK
<1> DEFINE h == Cardinality(Holding(g))
           p == Cardinality(Passing(g))
<1>2. TypeOK'
  BY GuardrailAssumption DEF TypeOK, ReserveFails, SpendFault, Add, Goto, breaker
<1>3. /\ spent'[g] \in {spent[g], spent[g] + Cost}
      /\ UNCHANGED <<kept, carried>> /\ faults' = faults + 1
  BY <1>1 DEF TypeOK, ReserveFails, SpendFault, Add
<1>4. \A f \in Features : Holding(f)' = Holding(f) /\ Passing(f)' = Passing(f)
  BY DEF TypeOK, ReserveFails, Goto, Holding, Passing
<1>5. ASSUME NEW f \in Features \ {g} PROVE BucketOK(f)'
  <2>1. spent'[f] = spent[f]
    BY <1>1 DEF TypeOK, ReserveFails, Add
  <2> QED
    BY <1>3, <1>4, <2>1, OtherBucket, IInvByBucket, GuardrailAssumption DEF TypeOK
<1>6. /\ h \in Nat /\ p \in Nat /\ kept[g] \in Nat /\ spent[g] \in Int
      /\ faults \in Nat /\ carried \in Nat /\ Cap \in Nat /\ Cost \in Nat
  BY Counts, GuardrailAssumption DEF TypeOK
<1>7. h' = h /\ p' = p
  BY <1>4
<1>8. /\ spent[g] >= (kept[g] + h - carried) * Cost
      /\ (kept[g] + p - carried) * Cost <= Cap
      /\ carried = 0 =>
            /\ spent[g] <= (kept[g] + h + faults) * Cost
            /\ Holding(g) = Passing(g) \/ (kept[g] + p + faults + 1) * Cost > Cap
  BY IInvByBucket DEF BucketOK
<1> HIDE DEF h, p
<1>9. /\ spent'[g] >= (kept[g] + h - carried) * Cost
      /\ carried = 0 =>
            /\ spent'[g] <= (kept[g] + h + (faults + 1)) * Cost
            /\ Holding(g) = Passing(g) \/ (kept[g] + p + (faults + 1) + 1) * Cost > Cap
  BY <1>3, <1>6, <1>8
<1>10. BucketOK(g)'
  BY <1>3, <1>4, <1>7, <1>8, <1>9 DEF BucketOK, h, p
<1> QED
  BY <1>2, <1>5, <1>10, IInvByBucket

\* The comparison with the cap: a call that passes is counted where it was
\* waiting, a call that does not keeps its reservation a little longer.
LEMMA CheckPreserves ==
    ASSUME IInv, NEW c \in Callers, Check(c)
    PROVE  IInv'
<1> USE DEF IInv
<1>1. PICK g \in Features : feature[c] = g
  BY DEF TypeOK
<1> DEFINE h == Cardinality(Holding(g))
           p == Cardinality(Passing(g))
<1>2. TypeOK'
  BY GuardrailAssumption DEF TypeOK, Check, Goto, breaker, bounds
<1>3. UNCHANGED <<spent, faults, carried>>
  BY DEF Check, bounds
<1>4. ASSUME NEW f \in Features \ {g} PROVE BucketOK(f)'
  <2>1. kept'[f] = kept[f] /\ Holding(f)' = Holding(f) /\ Passing(f)' = Passing(f)
    BY <1>1 DEF TypeOK, Check, Goto, Holding, Passing
  <2> QED
    BY <1>3, <2>1, OtherBucket, IInvByBucket, GuardrailAssumption DEF TypeOK
<1>5. CASE total[c] > Cap
  <2>1. kept' = kept /\ Holding(g)' = Holding(g) /\ Passing(g)' = Passing(g)
    BY <1>1, <1>5, GuardrailAssumption DEF TypeOK, Check, Goto, Holding, Passing
  <2>2. BucketOK(g)'
    BY <1>3, <2>1, OtherBucket, IInvByBucket, GuardrailAssumption DEF TypeOK
  <2> QED
    BY <1>2, <1>4, <2>2, IInvByBucket
<1>6. CASE ~(total[c] > Cap)
  <2>1. /\ Holding(g)' = Holding(g) \ {c} /\ c \in Holding(g)
        /\ Passing(g)' = Passing(g) \ {c} /\ c \in Passing(g)
    BY <1>1, <1>6, GuardrailAssumption DEF TypeOK, Check, Goto, Holding, Passing
  <2>2. kept'[g] = kept[g] + 1
    BY <1>1, <1>6 DEF TypeOK, Check
  <2>3. h' = h - 1 /\ p' = p - 1
    BY <2>1, Counts, OneLess
  <2>4. /\ h \in Nat /\ p \in Nat /\ kept[g] \in Nat /\ spent[g] \in Int
        /\ faults \in Nat /\ carried \in Nat /\ Cap \in Nat /\ Cost \in Nat
    BY Counts, GuardrailAssumption DEF TypeOK
  <2>6. Holding(g) = Passing(g) => Holding(g)' = Passing(g)'
    BY <2>1
  <2>7. /\ spent[g] >= (kept[g] + h - carried) * Cost
        /\ (kept[g] + p - carried) * Cost <= Cap
        /\ carried = 0 =>
              /\ spent[g] <= (kept[g] + h + faults) * Cost
              /\ Holding(g) = Passing(g) \/ (kept[g] + p + faults + 1) * Cost > Cap
    BY IInvByBucket DEF BucketOK
  <2> HIDE DEF h, p
  <2>8. /\ spent'[g] >= (kept'[g] + h' - carried') * Cost
        /\ (kept'[g] + p' - carried') * Cost <= Cap
        /\ carried' = 0 =>
              /\ spent'[g] <= (kept'[g] + h' + faults') * Cost
              /\ Holding(g)' = Passing(g)' \/ (kept'[g] + p' + faults' + 1) * Cost > Cap
    BY <1>3, <2>2, <2>3, <2>4, <2>6, <2>7
  <2>9. BucketOK(g)'
    BY <2>8 DEF BucketOK, h, p
  <2> QED
    BY <1>2, <1>4, <2>9, IInvByBucket
<1> QED
  BY <1>5, <1>6

\* Taking a reservation back, or failing to: the bucket is charged for it no
\* longer, or charged once too often for one Redis error.
LEMMA RollBackPreserves ==
    ASSUME IInv, NEW c \in Callers, RollBack(c) \/ RollBackFails(c)
    PROVE  IInv'
<1> USE DEF IInv
<1>1. PICK g \in Features : feature[c] = g
  BY DEF TypeOK
<1> DEFINE h == Cardinality(Holding(g))
           p == Cardinality(Passing(g))
<1>2. TypeOK'
  BY GuardrailAssumption DEF TypeOK, RollBack, RollBackFails, SpendFault, Add, LogOrReturn, Goto,
     budget, breaker, bounds
<1>3. /\ \/ spent'[g] = spent[g] - Cost /\ faults' = faults
         \/ spent'[g] = spent[g] /\ faults' = faults + 1
      /\ UNCHANGED <<kept, carried>>
  BY <1>1, GuardrailAssumption DEF TypeOK, RollBack, RollBackFails, SpendFault, Add, budget, bounds
<1>4. /\ Holding(g)' = Holding(g) \ {c} /\ c \in Holding(g)
      /\ Passing(g)' = Passing(g) /\ c \notin Passing(g)
  BY <1>1 DEF TypeOK, RollBack, RollBackFails, LogOrReturn, Goto, budget, Holding, Passing
<1>5. ASSUME NEW f \in Features \ {g} PROVE BucketOK(f)'
  <2>1. spent'[f] = spent[f] /\ Holding(f)' = Holding(f) /\ Passing(f)' = Passing(f)
    BY <1>1 DEF TypeOK, RollBack, RollBackFails, Add, LogOrReturn, Goto, budget, Holding, Passing
  <2> QED
    BY <1>3, <2>1, OtherBucket, IInvByBucket, GuardrailAssumption DEF TypeOK
<1>6. /\ h \in Nat /\ p \in Nat /\ kept[g] \in Nat /\ spent[g] \in Int
      /\ faults \in Nat /\ carried \in Nat /\ Cap \in Nat /\ Cost \in Nat
  BY Counts, GuardrailAssumption DEF TypeOK
<1>7. h' = h - 1 /\ p' = p
  BY <1>4, Counts, OneLess
<1>8. /\ spent[g] >= (kept[g] + h - carried) * Cost
      /\ (kept[g] + p - carried) * Cost <= Cap
      /\ carried = 0 =>
            /\ spent[g] <= (kept[g] + h + faults) * Cost
            /\ (kept[g] + p + faults + 1) * Cost > Cap
  BY <1>4, IInvByBucket DEF BucketOK
<1> HIDE DEF h, p
<1>9. /\ spent'[g] >= (kept[g] + (h - 1) - carried) * Cost
      /\ carried = 0 =>
            /\ spent'[g] <= (kept[g] + (h - 1) + faults') * Cost
            /\ (kept[g] + p + faults' + 1) * Cost > Cap
  BY <1>3, <1>6, <1>8
<1>10. BucketOK(g)'
  BY <1>3, <1>7, <1>8, <1>9 DEF BucketOK, h, p
<1> QED
  BY <1>2, <1>5, <1>10, IInvByBucket

\* The bucket expires: it starts again, and what it held is carried over.
LEMMA KeyExpiresPreserves ==
    ASSUME IInv, NEW g \in Features, KeyExpires(g)
    PROVE  IInv'
<1> USE DEF IInv
<1> DEFINE h == Cardinality(Holding(g))
           p == Cardinality(Passing(g))
<1>1. /\ h \in Nat /\ p \in Nat /\ p <= h /\ Passing(g) \subseteq Holding(g)
      /\ faults \in Nat /\ carried \in Nat /\ Cap \in Nat /\ Cost \in Nat
  BY Counts, GuardrailAssumption DEF TypeOK
<1>2. h = 0 => Holding(g) = {}
  BY Counts, FS_EmptySet
<1>3. /\ carried' = carried + h /\ carried + h <= MaxCarried
      /\ spent'[g] = 0 /\ kept'[g] = 0 /\ faults' = faults
      /\ \A f \in Features \ {g} : spent'[f] = spent[f] /\ kept'[f] = kept[f]
      /\ \A f \in Features : Holding(f)' = Holding(f) /\ Passing(f)' = Passing(f)
  BY DEF TypeOK, KeyExpires, Holding, Passing
<1> HIDE DEF h, p
<1>4. TypeOK'
  <2>1. carried' \in 0..MaxCarried
    BY <1>1, <1>3, GuardrailAssumption
  <2> QED
    BY <2>1 DEF TypeOK, KeyExpires, breaker
<1>5. ASSUME NEW f \in Features \ {g} PROVE BucketOK(f)'
  BY <1>1, <1>3, OtherBucket, IInvByBucket
<1>6. /\ 0 >= (0 + h - (carried + h)) * Cost
      /\ (0 + p - (carried + h)) * Cost <= Cap
  <2>1. (0 + h - (carried + h)) * Cost <= 0 * Cost /\ (0 + p - (carried + h)) * Cost <= 0 * Cost
    BY <1>1, CostMonotonic
  <2> QED
    BY <1>1, <2>1
<1>7. carried' = 0 => /\ 0 <= (0 + h + faults) * Cost
                      /\ Holding(g) = Passing(g)
  <2>1. 0 * Cost <= (0 + h + faults) * Cost /\ 0 * Cost = 0
    BY <1>1, CostMonotonic
  <2>2. carried' = 0 => h = 0
    BY <1>1, <1>3
  <2>3. carried' = 0 => Holding(g) = Passing(g)
    BY <1>1, <1>2, <2>2
  <2> QED
    BY <2>1, <2>3
<1>8. BucketOK(g)'
  BY <1>3, <1>6, <1>7 DEF BucketOK, h, p
<1> QED
  BY <1>4, <1>5, <1>8, IInvByBucket

-----------------------------------------------------------------------------
(* The theorems                                                            *)

\* The inductive invariant holds: between any two Redis commands of any number
\* of calls, each counter stays between what is reserved in its bucket and that
\* plus what Redis errors left behind.
THEOREM Inductive == Spec => []IInv
<1>1. Init => IInv
  <2> SUFFICES ASSUME Init PROVE IInv
    OBVIOUS
  <2>1. TypeOK
    BY GuardrailAssumption DEF Init, TypeOK, Features
  <2>2. \A f \in Features : Holding(f) = {} /\ Passing(f) = {}
    BY DEF Init, Holding, Passing
  <2>3. \A f \in Features : Cardinality(Holding(f)) = 0 /\ Cardinality(Passing(f)) = 0
    BY <2>2, FS_EmptySet
  <2>4. \A f \in Features : BucketOK(f)
    BY <2>2, <2>3, GuardrailAssumption DEF Init, BucketOK
  <2> QED
    BY <2>1, <2>4, IInvByBucket
<1>2. IInv /\ [Next]_vars => IInv'
  <2> SUFFICES ASSUME IInv, [Next]_vars PROVE IInv'
    OBVIOUS
  <2>1. CASE \E f \in Features : KeyExpires(f)
    BY <2>1, KeyExpiresPreserves
  <2>2. CASE \E c \in Callers : \/ Reserve(c) \/ ReserveFails(c) \/ Check(c)
                                \/ RollBack(c) \/ RollBackFails(c)
    BY <2>2, ReservePreserves, ReserveFailsPreserves, CheckPreserves, RollBackPreserves
  <2>3. CASE \/ Tick \/ UNCHANGED vars
             \/ \E c \in Callers : \/ Allow(c) \/ Complete(c) \/ Record(c) \/ WriteLog(c)
                                   \/ \E f \in Features : Call(c, f)
    BY <2>3, QuietPreserves
  <2> QED
    BY <2>1, <2>2, <2>3 DEF Next, Step
<1> QED
  BY <1>1, <1>2, PTL DEF Spec

\* Type correctness: the breaker's counters stay within threshold and cooldown.
THEOREM TypeCorrect == Spec => []TypeOK
<1>1. IInv => TypeOK
  BY DEF IInv
<1> QED
  BY <1>1, Inductive, PTL

\* However many calls race through CheckAndReserve, what passes its check never
\* costs more than the cap and the reservations that outlived their bucket.
THEOREM CapIsKept == Spec => []SpendWithinCap
<1>1. IInv => SpendWithinCap
  <2> SUFFICES ASSUME IInv, NEW f \in Features
               PROVE  kept[f] * Cost <= Cap + carried * Cost
    BY DEF SpendWithinCap
  <2> DEFINE p == Cardinality(Passing(f))
  <2>1. /\ p \in Nat /\ kept[f] \in Nat /\ carried \in Nat /\ Cap \in Nat /\ Cost \in Nat
        /\ (kept[f] + p - carried) * Cost <= Cap
    BY Counts, GuardrailAssumption DEF IInv, TypeOK, PassingFits
  <2> HIDE DEF p
  <2>2. (kept[f] - carried) * Cost <= (kept[f] + p - carried) * Cost
    BY <2>1, CostMonotonic
  <2>3. (kept[f] - carried) * Cost = kept[f] * Cost - carried * Cost
    BY <2>1
  <2> QED
    BY <2>1, <2>2, <2>3
<1> QED
  BY <1>1, Inductive, PTL

\* No call is refused because of reservations that are themselves refused.
THEOREM RefusalsAreDue == Spec => []RefusedOnlyAtCap
<1>1. IInv => RefusedOnlyAtCap
  <2> SUFFICES ASSUME IInv, NEW c \in Callers, carried = 0, pc[c] = "rollback"
               PROVE  (kept[feature[c]] + Cardinality(Passing(feature[c])) + faults + 1) * Cost > Cap
    BY DEF RefusedOnlyAtCap
  <2>1. feature[c] \in Features
    BY DEF IInv, TypeOK
  <2>2. c \in Holding(feature[c]) /\ c \notin Passing(feature[c])
    BY DEF Holding, Passing
  <2> QED
    BY <2>1, <2>2 DEF IInv, RefusalIsRight
<1> QED
  BY <1>1, Inductive, PTL
=============================================================================
