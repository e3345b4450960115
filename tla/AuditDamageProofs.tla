------------------------- MODULE AuditDamageProofs -------------------------
(***************************************************************************)
(* What Verify says of a damaged audit_log is right for tables of any      *)
(* length, any contents and any number of changes.                         *)
(*                                                                         *)
(* The argument is an induction over the rows of a table, made with        *)
(* LeastNatural.                                                           *)
(***************************************************************************)
EXTENDS AuditDamage, SequenceTheorems, WellFoundedInduction, TLAPS

\* A set of naturals that is not empty has a least element: Verify returns at
\* the least index that breaks.
LEMMA LeastNatural ==
    ASSUME NEW T, T \subseteq Nat, T # {}
    PROVE  \E x \in T : \A y \in T : x <= y
<1>1. PICK x \in T : \A y \in T : ~(<<y, x>> \in OpToRel(<, Nat))
  BY NatLessThanWellFounded, WFMin
<1>2. \A y \in T : ~(y < x)
  BY <1>1 DEF OpToRel
<1> QED
  BY <1>2

\* Verify returns -1 exactly for a table without a break, and otherwise the
\* zero-based index of its first break.
LEMMA VerifyFindsTheFirst ==
    ASSUME NEW s \in Seq(Row)
    PROVE  /\ Verify(s) \in Int
           /\ Breaks(s) = {} <=> Verify(s) = -1
           /\ Breaks(s) # {} => /\ Verify(s) + 1 \in Breaks(s)
                                /\ \A j \in Breaks(s) : Verify(s) + 1 <= j
<1>1. CASE Breaks(s) = {}
  BY <1>1 DEF Verify
<1>2. CASE Breaks(s) # {}
  <2> DEFINE first == CHOOSE i \in Breaks(s) : \A j \in Breaks(s) : i <= j
  <2>1. Breaks(s) \subseteq 1..Len(s)
    BY DEF Breaks
  <2>2. \E x \in Breaks(s) : \A y \in Breaks(s) : x <= y
    BY <1>2, <2>1, LeastNatural
  <2>3. first \in Breaks(s) /\ \A j \in Breaks(s) : first <= j
    BY <2>2
  <2>4. Verify(s) = first - 1
    BY <1>2 DEF Verify
  <2>5. first \in Nat \ {0}
    BY <2>1, <2>3
  <2> HIDE DEF first
  <2> QED
    BY <1>2, <2>3, <2>4, <2>5
<1> QED
  BY <1>1, <1>2

\* In a table that Verify accepts, a row is sealed over its body and over the
\* hash of the row before it.
LEMMA IntactRow ==
    ASSUME NEW s \in Seq(Row), Breaks(s) = {}, NEW n \in 1..Len(s)
    PROVE  /\ s[n].previousHash = HeadHash(s, n - 1)
           /\ HeadHash(s, n) = Append(HeadHash(s, n - 1), s[n].body)
BY DEF Breaks, HeadHash, Seal

\* The hash of every prefix of a table is a hash.
LEMMA HeadHashType ==
    ASSUME NEW s \in Seq(Row), NEW n \in 0..Len(s)
    PROVE  HeadHash(s, n) \in Seq(Bodies)
<1>1. CASE n = 0
  BY <1>1 DEF HeadHash, EmptyHash
<1>2. CASE n # 0
  <2>1. s[n] \in Row
    BY <1>2
  <2> QED
    BY <1>2, <2>1 DEF HeadHash, Row, Hash
<1> QED
  BY <1>1, <1>2

\* In a table that Verify accepts, the hash of a row records the bodies of all
\* rows up to it, in their order.
LEMMA HashIsHistory ==
    ASSUME NEW s \in Seq(Row), Breaks(s) = {}
    PROVE  \A n \in 0..Len(s) : /\ Len(HeadHash(s, n)) = n
                                /\ \A i \in 1..n : HeadHash(s, n)[i] = s[i].body
<1> DEFINE Holds(n) == /\ Len(HeadHash(s, n)) = n
                       /\ \A i \in 1..n : HeadHash(s, n)[i] = s[i].body
           Bad == {n \in 0..Len(s) : ~Holds(n)}
<1> SUFFICES ASSUME Bad # {}
             PROVE  FALSE
  OBVIOUS
<1>0. Bad \subseteq Nat
  OBVIOUS
<1>1. PICK n \in Bad : \A m \in Bad : n <= m
  <2> HIDE DEF Bad
  <2> QED
    BY <1>0, LeastNatural
<1>2. n # 0
  BY <1>1 DEF HeadHash, EmptyHash
<1>3. n - 1 \in 0..Len(s) /\ Holds(n - 1)
  BY <1>1, <1>2
<1>4. HeadHash(s, n) = Append(HeadHash(s, n - 1), s[n].body)
  BY <1>1, <1>2, IntactRow
<1>5. HeadHash(s, n - 1) \in Seq(Bodies) /\ s[n].body \in Bodies
  <2>1. HeadHash(s, n - 1) \in Seq(Bodies)
    BY <1>3, HeadHashType
  <2>2. s[n] \in Row
    BY <1>1, <1>2
  <2> QED
    BY <2>1, <2>2 DEF Row
<1>6. Len(HeadHash(s, n)) = n
  BY <1>3, <1>4, <1>5
<1>7. ASSUME NEW i \in 1..n
      PROVE  HeadHash(s, n)[i] = s[i].body
  <2>1. CASE i = n
    BY <1>3, <1>4, <1>5, <2>1
  <2>2. CASE i # n
    <3>1. i \in 1..(n - 1)
      BY <1>1, <2>2
    <3>2. HeadHash(s, n)[i] = HeadHash(s, n - 1)[i]
      BY <1>3, <1>4, <1>5, <3>1
    <3> QED
      BY <1>3, <3>1, <3>2
  <2> QED
    BY <2>1, <2>2
<1> QED
  BY <1>1, <1>6, <1>7

\* Two tables that Verify accepts and whose last hashes agree up to some rows
\* are equal up to there: the bodies are in the hash, the links follow.
LEMMA HashDeterminesRows ==
    ASSUME NEW s \in Seq(Row), NEW t \in Seq(Row), Breaks(s) = {}, Breaks(t) = {},
           NEW n \in 0..Len(t), HeadHash(s, Len(s)) = HeadHash(t, n)
    PROVE  Len(s) = n /\ \A i \in 1..n : s[i] = t[i]
<1>1. Len(s) = n
  BY HashIsHistory
<1>2. \A i \in 1..n : s[i].body = t[i].body
  BY <1>1, HashIsHistory
<1>3. ASSUME NEW m \in 0..n
      PROVE  HeadHash(s, m) = HeadHash(t, m)
  <2>1. m \in 0..Len(s) /\ m \in 0..Len(t)
    BY <1>1
  <2>2. HeadHash(s, m) \in Seq(Bodies) /\ HeadHash(t, m) \in Seq(Bodies)
    BY <2>1, HeadHashType
  <2>3. Len(HeadHash(s, m)) = m /\ Len(HeadHash(t, m)) = m
    BY <2>1, HashIsHistory
  <2>4. \A i \in 1..m : HeadHash(s, m)[i] = HeadHash(t, m)[i]
    <3>1. \A i \in 1..m : HeadHash(s, m)[i] = s[i].body /\ HeadHash(t, m)[i] = t[i].body
      BY <2>1, HashIsHistory
    <3> QED
      BY <1>2, <3>1
  <2> QED
    BY <2>2, <2>3, <2>4, SeqEqual
<1>4. ASSUME NEW i \in 1..n
      PROVE  s[i] = t[i]
  <2>1. i \in 1..Len(s) /\ i \in 1..Len(t) /\ i - 1 \in 0..n
    BY <1>1
  <2>2. s[i].previousHash = t[i].previousHash
    BY <1>3, <2>1, IntactRow
  <2>3. s[i].rowHash = t[i].rowHash
    BY <1>3, <2>1 DEF HeadHash
  <2>4. s[i].body = t[i].body
    BY <1>2
  <2>5. s[i] \in Row /\ t[i] \in Row
    BY <2>1
  <2> QED
    BY <2>2, <2>3, <2>4, <2>5 DEF Row
<1> QED
  BY <1>1, <1>4

-----------------------------------------------------------------------------
(* The table as written stays a chain                                      *)

\* A row sealed by Seal is a row.
LEMMA SealedRowType ==
    ASSUME NEW prev \in Hash, NEW b \in Bodies
    PROVE  SealedRow(prev, b) \in Row
BY DEF SealedRow, Seal, Row, Hash

\* Every change of the table keeps the types.
LEMMA NextKeepsType == TypeOK /\ [Next]_vars => TypeOK'
<1> SUFFICES ASSUME TypeOK, [Next]_vars
             PROVE  TypeOK'
  OBVIOUS
<1>1. ASSUME NEW b \in Bodies, WriteEntry(b)
      PROVE  TypeOK'
  <2>1. HeadHash(written, Len(written)) \in Hash
    BY HeadHashType DEF TypeOK, Hash
  <2>2. SealedRow(HeadHash(written, Len(written)), b) \in Row
    BY <2>1, SealedRowType
  <2> QED
    BY <1>1, <2>2 DEF WriteEntry, TypeOK
<1>2. ASSUME NEW i \in 1..Len(stored), NEW row \in Row, Overwrite(i, row)
      PROVE  TypeOK'
  <2>1. stored' \in Seq(Row)
    BY <1>2, ExceptSeq DEF Overwrite, TypeOK
  <2> QED
    BY <1>2, <2>1, DamageAssumption DEF Overwrite, TypeOK
<1>3. ASSUME NEW i \in 1..Len(stored), NEW b \in Bodies, EditBody(i, b) \/ Reseal(i, b)
      PROVE  TypeOK'
  <2>1. stored[i] \in Row /\ i - 1 \in 0..Len(stored)
    BY DEF TypeOK
  <2>2. [stored[i] EXCEPT !.body = b] \in Row
    BY <2>1 DEF Row
  <2>3. HeadHash(stored, i - 1) \in Hash
    BY <2>1, HeadHashType DEF TypeOK, Hash
  <2>4. SealedRow(HeadHash(stored, i - 1), b) \in Row
    BY <2>3, SealedRowType
  <2> QED
    BY <1>2, <1>3, <2>2, <2>4 DEF EditBody, Reseal
<1>4. ASSUME NEW i \in 1..Len(stored), NEW h \in KnownHashes,
             EditPrevious(i, h) \/ EditHash(i, h)
      PROVE  TypeOK'
  <2>1. stored[i] \in Row
    BY DEF TypeOK
  <2>2. h \in Hash
    <3>1. \A j \in 1..Len(written) : written[j] \in Row
      BY DEF TypeOK
    <3>2. EmptyHash \in Hash
      BY DEF EmptyHash, Hash
    <3> QED
      BY <3>1, <3>2 DEF KnownHashes, Row
  <2>3. /\ [stored[i] EXCEPT !.previousHash = h] \in Row
        /\ [stored[i] EXCEPT !.rowHash = h] \in Row
    BY <2>1, <2>2 DEF Row
  <2> QED
    BY <1>2, <1>4, <2>3 DEF EditPrevious, EditHash
<1>5. ASSUME NEW i \in 1..Len(stored), RemoveRow(i)
      PROVE  TypeOK'
  <2>1. \A j \in 1..Len(stored) : stored[j] \in Row
    BY DEF TypeOK
  <2>2. Len(stored) \in Nat
    BY DEF TypeOK
  <2>3. SubSeq(stored, 1, i - 1) \in Seq(Row) /\ SubSeq(stored, i + 1, Len(stored)) \in Seq(Row)
    <3>1. \A j \in 1..(i - 1) : stored[j] \in Row
      BY <2>1, <2>2
    <3>2. \A j \in (i + 1)..Len(stored) : stored[j] \in Row
      BY <2>1, <2>2
    <3> QED
      BY <2>2, <3>1, <3>2, SubSeqProperties
  <2>4. stored' \in Seq(Row)
    BY <1>5, <2>3, ConcatProperties DEF RemoveRow
  <2> QED
    BY <1>5, <2>4, DamageAssumption DEF RemoveRow, TypeOK
<1>6. CASE UNCHANGED vars
  BY <1>6 DEF vars, TypeOK
<1> QED
  BY <1>1, <1>3, <1>4, <1>5, <1>6 DEF Next

\* A row that WriteAuditEntry seals against the head does not break the chain.
LEMMA SealKeepsIntact ==
    ASSUME NEW s \in Seq(Row), Breaks(s) = {}, NEW b \in Bodies
    PROVE  Breaks(Append(s, SealedRow(HeadHash(s, Len(s)), b))) = {}
<1> DEFINE row == SealedRow(HeadHash(s, Len(s)), b)
           t == Append(s, row)
<1>1. row.previousHash = HeadHash(s, Len(s)) /\ row.rowHash = Seal(row.previousHash, row.body)
  BY DEF SealedRow
<1>2. row \in Row
  BY HeadHashType, SealedRowType DEF Hash
<1> HIDE DEF row
<1>3. /\ Len(t) = Len(s) + 1 /\ t[Len(s) + 1] = row
      /\ \A i \in 1..Len(s) : t[i] = s[i]
  BY <1>2
<1> HIDE DEF t
<1>4. \A i \in 0..Len(s) : HeadHash(t, i) = HeadHash(s, i)
  BY <1>3 DEF HeadHash
<1>5. ASSUME NEW i \in 1..(Len(s) + 1)
      PROVE  /\ t[i].previousHash = HeadHash(t, i - 1)
             /\ t[i].rowHash = Seal(t[i].previousHash, t[i].body)
  <2>1. CASE i = Len(s) + 1
    BY <1>1, <1>3, <1>4, <2>1
  <2>2. CASE i # Len(s) + 1
    <3>1. i \in 1..Len(s) /\ i - 1 \in 0..Len(s)
      BY <2>2
    <3>2. /\ s[i].previousHash = HeadHash(s, i - 1)
          /\ s[i].rowHash = Seal(s[i].previousHash, s[i].body)
      BY <3>1 DEF Breaks
    <3> QED
      BY <1>3, <1>4, <3>1, <3>2
  <2> QED
    BY <2>1, <2>2
<1>6. Breaks(t) = {}
  BY <1>3, <1>5 DEF Breaks
<1> QED
  BY <1>6 DEF t, row

\* The rows as WriteAuditEntry committed them always form an intact chain.
THEOREM Inductive == Spec => []IInv
<1>1. Init => IInv
  BY DamageAssumption DEF Init, IInv, TypeOK, Breaks
<1>2. IInv /\ [Next]_vars => IInv'
  <2> SUFFICES ASSUME IInv, [Next]_vars
               PROVE  IInv'
    OBVIOUS
  <2>1. TypeOK'
    BY NextKeepsType DEF IInv
  <2>2. ASSUME NEW b \in Bodies, WriteEntry(b)
        PROVE  Breaks(written)' = {}
    BY <2>2, SealKeepsIntact DEF WriteEntry, IInv, TypeOK
  <2>3. ASSUME UNCHANGED written
        PROVE  Breaks(written)' = {}
    <3>1. Breaks(written)' = Breaks(written)
      BY <2>3 DEF Breaks, HeadHash
    <3> QED
      BY <3>1 DEF IInv
  <2>4. UNCHANGED written \/ \E b \in Bodies : WriteEntry(b)
    BY DEF Next, vars, EditBody, EditPrevious, EditHash, Reseal, Overwrite, RemoveRow
  <2> QED
    BY <2>1, <2>2, <2>3, <2>4 DEF IInv
<1> QED
  BY <1>1, <1>2, PTL DEF Spec

\* Type correctness of the table as written and as stored.
THEOREM TypeCorrect == Spec => []TypeOK
<1>1. IInv => TypeOK
  BY DEF IInv
<1> QED
  BY <1>1, Inductive, PTL

-----------------------------------------------------------------------------
(* What Verify says                                                        *)

\* A table that Verify accepts and that ends in a hash once written is the
\* table as it stood then, however many rows were changed, removed or resealed.
THEOREM HeadPins == Spec => []HeadPinsHistory
<1>1. IInv => HeadPinsHistory
  <2> SUFFICES ASSUME IInv, NEW n \in 0..Len(written), Verify(stored) = -1,
                      HeadHash(stored, Len(stored)) = HeadHash(written, n)
               PROVE  stored = SubSeq(written, 1, n)
    BY DEF HeadPinsHistory
  <2>1. stored \in Seq(Row) /\ written \in Seq(Row) /\ Breaks(written) = {}
    BY DEF IInv, TypeOK
  <2>2. Breaks(stored) = {}
    BY <2>1, VerifyFindsTheFirst
  <2>3. Len(stored) = n /\ \A i \in 1..n : stored[i] = written[i]
    BY <2>1, <2>2, HashDeterminesRows
  <2>4. n \in Nat /\ n <= Len(written) /\ Len(written) \in Nat
    BY <2>1
  <2>5. /\ SubSeq(written, 1, n) \in Seq(Row) /\ Len(SubSeq(written, 1, n)) = n
        /\ \A i \in 1..n : SubSeq(written, 1, n)[i] = written[i]
    BY <2>1, <2>4
  <2> QED
    BY <2>1, <2>3, <2>5, SeqEqual
<1> QED
  BY <1>1, Inductive, PTL

\* Verify never blames a row of an untouched prefix.
THEOREM BlameNotEarly == Spec => []BlameIsNotEarly
<1>1. IInv => BlameIsNotEarly
  <2> SUFFICES ASSUME IInv, NEW n \in 0..Len(stored), n <= Len(written),
                      SubSeq(stored, 1, n) = SubSeq(written, 1, n), Verify(stored) # -1
               PROVE  Verify(stored) >= n
    BY DEF BlameIsNotEarly
  <2>1. stored \in Seq(Row) /\ written \in Seq(Row) /\ Breaks(written) = {}
    BY DEF IInv, TypeOK
  <2>2. Len(stored) \in Nat /\ Len(written) \in Nat /\ n \in Nat
    BY <2>1
  <2>3. \A i \in 1..n : stored[i] = written[i]
    <3>1. \A i \in 1..n : SubSeq(stored, 1, n)[i] = stored[i]
      BY <2>1, <2>2
    <3>2. \A i \in 1..n : SubSeq(written, 1, n)[i] = written[i]
      BY <2>1, <2>2
    <3> QED
      BY <3>1, <3>2
  <2>4. \A i \in 0..n : HeadHash(stored, i) = HeadHash(written, i)
    BY <2>2, <2>3 DEF HeadHash
  <2>5. ASSUME NEW i \in 1..n
        PROVE  i \notin Breaks(stored)
    <3>1. i \in 1..Len(written) /\ i - 1 \in 0..n
      BY <2>2
    <3>2. /\ written[i].previousHash = HeadHash(written, i - 1)
          /\ written[i].rowHash = Seal(written[i].previousHash, written[i].body)
      BY <2>1, <3>1 DEF Breaks
    <3> QED
      BY <2>3, <2>4, <3>1, <3>2 DEF Breaks
  <2>6. Breaks(stored) # {} /\ Verify(stored) + 1 \in Breaks(stored)
    BY <2>1, VerifyFindsTheFirst
  <2>7. Breaks(stored) \subseteq 1..Len(stored)
    BY DEF Breaks
  <2>8. Verify(stored) \in Int
    BY <2>1, VerifyFindsTheFirst
  <2> QED
    BY <2>2, <2>5, <2>6, <2>7, <2>8
<1> QED
  BY <1>1, Inductive, PTL
=============================================================================
