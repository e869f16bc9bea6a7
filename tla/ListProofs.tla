----------------------------- MODULE ListProofs -----------------------------
(***************************************************************************)
(* Facts about the lists of the stack: what a list is after one of its     *)
(* elements is removed, and what is in it.  The proofs about the timers,   *)
(* the sessions and the observations rest on them.                         *)
(***************************************************************************)
EXTENDS Integers, FiniteSets, Functions, SequencesExt, Lists, SequenceTheorems,
        FunctionTheorems, FiniteSetTheorems, WellFoundedInduction, TLAPS

\* No element is listed twice: an element is a pointer, linked once.
Distinct(list) == \A i, j \in DOMAIN list : list[i] = list[j] => i = j

\* Such a list is as long as its elements are many.
LEMMA DistinctLength ==
  ASSUME NEW S, NEW list \in Seq(S), Distinct(list)
  PROVE  IsFiniteSet(ToSet(list)) /\ Cardinality(ToSet(list)) = Len(list)
<1>1. Len(list) \in Nat /\ DOMAIN list = 1..Len(list)
  BY LenProperties
<1>2. list \in [1..Len(list) -> ToSet(list)]
  BY LenProperties, ElementOfSeq DEF ToSet
<1>3. \A e \in ToSet(list) : \E i \in 1..Len(list) : list[i] = e
  BY <1>1 DEF ToSet
<1>4. list \in Bijection(1..Len(list), ToSet(list))
  BY <1>1, <1>2, <1>3, Fun_IsBij DEF Distinct
<1>5. ExistsBijection(1..Len(list), ToSet(list))
  BY <1>4, Fun_ExistsBij
<1> QED
  BY <1>1, <1>5, FS_NatBijection, FS_CountingElements

-----------------------------------------------------------------------------
(* Removing an element                                                     *)

\* Removing the i-th element leaves the others in their order.
LEMMA RemoveAtProperties ==
  ASSUME NEW S, NEW list \in Seq(S), NEW i \in 1..Len(list)
  PROVE  LET rest == RemoveAt(list, i) IN
         /\ rest \in Seq(S)
         /\ Len(rest) = Len(list) - 1
         /\ \A j \in 1..Len(list) - 1 : rest[j] = IF j < i THEN list[j] ELSE list[j + 1]
<1> DEFINE n == Len(list)
           a == SubSeq(list, 1, i - 1)
           b == SubSeq(list, i + 1, n)
<1>1. n \in Nat /\ \A j \in 1..n : list[j] \in S
  BY LenProperties, ElementOfSeq
<1>2. /\ a \in Seq(S) /\ Len(a) = i - 1
      /\ \A j \in 1..i - 1 : a[j] = list[j]
  <2>1. \A j \in 1..i - 1 : list[j] \in S
    BY <1>1
  <2>2. /\ SubSeq(list, 1, i - 1) \in Seq(S)
        /\ Len(SubSeq(list, 1, i - 1)) = IF 1 <= i - 1 THEN i - 1 - 1 + 1 ELSE 0
        /\ \A j \in 1..i - 1 - 1 + 1 : SubSeq(list, 1, i - 1)[j] = list[1 + j - 1]
    BY <1>1, <2>1, SubSeqProperties
  <2> QED
    BY <1>1, <2>2
<1>3. /\ b \in Seq(S) /\ Len(b) = n - i
      /\ \A j \in 1..n - i : b[j] = list[i + j]
  <2>1. \A j \in i + 1..n : list[j] \in S
    BY <1>1
  <2>2. /\ SubSeq(list, i + 1, n) \in Seq(S)
        /\ Len(SubSeq(list, i + 1, n)) = IF i + 1 <= n THEN n - (i + 1) + 1 ELSE 0
        /\ \A j \in 1..n - (i + 1) + 1 : SubSeq(list, i + 1, n)[j] = list[i + 1 + j - 1]
    BY <1>1, <2>1, SubSeqProperties
  <2> QED
    BY <1>1, <2>2
<1>4. RemoveAt(list, i) = a \o b
  BY DEF RemoveAt
<1> HIDE DEF a, b
<1>5. /\ a \o b \in Seq(S) /\ Len(a \o b) = n - 1
      /\ \A j \in 1..n - 1 : (a \o b)[j] = IF j <= i - 1 THEN a[j] ELSE b[j - (i - 1)]
  <2>1. /\ a \o b \in Seq(S) /\ Len(a \o b) = Len(a) + Len(b)
        /\ \A j \in 1..Len(a) + Len(b) : (a \o b)[j] = IF j <= Len(a) THEN a[j] ELSE b[j - Len(a)]
    BY <1>2, <1>3, ConcatProperties
  <2>2. Len(a) + Len(b) = n - 1
    BY <1>1, <1>2, <1>3
  <2> QED
    BY <1>2, <2>1, <2>2
<1>6. ASSUME NEW j \in 1..n - 1
      PROVE  (a \o b)[j] = IF j < i THEN list[j] ELSE list[j + 1]
  <2>1. CASE j < i
    <3>1. j \in 1..i - 1 /\ j <= i - 1
      BY <1>1, <2>1
    <3> QED
      BY <1>2, <1>5, <2>1, <3>1
  <2>2. CASE j >= i
    <3>1. b[j - (i - 1)] = list[i + (j - (i - 1))] /\ i + (j - (i - 1)) = j + 1
      BY <1>1, <1>3, <2>2
    <3> QED
      BY <1>1, <1>5, <2>2, <3>1
  <2>3. j < i \/ j >= i
    BY <1>1
  <2> QED
    BY <2>1, <2>2, <2>3
<1> QED
  BY <1>1, <1>4, <1>5, <1>6

\* iowa_utils_list_remove finds a listed element where it is.
LEMMA RemoveFirstAt ==
  ASSUME NEW S, NEW list \in Seq(S), Distinct(list), NEW i \in 1..Len(list)
  PROVE  RemoveFirst(list, list[i]) = RemoveAt(list, i)
<1>1. {j \in 1..Len(list) : list[j] = list[i]} = {i}
  BY LenProperties DEF Distinct
<1>2. Min({i}) = i
  BY DEF Min
<1>3. SelectInSeq(list, LAMBDA v : v = list[i]) = i
  BY <1>1, <1>2 DEF SelectInSeq
<1> QED
  BY <1>3 DEF RemoveFirst

\* It leaves a list the element is not in.
LEMMA RemoveFirstNone ==
  ASSUME NEW S, NEW list \in Seq(S), NEW e, e \notin ToSet(list)
  PROVE  RemoveFirst(list, e) = list
BY LenProperties DEF RemoveFirst, ToSet

\* The other elements stay, each once.
LEMMA RemoveFirstProperties ==
  ASSUME NEW S, NEW list \in Seq(S), Distinct(list), NEW e
  PROVE  LET rest == RemoveFirst(list, e) IN
         /\ rest \in Seq(S) /\ Distinct(rest)
         /\ ToSet(rest) = ToSet(list) \ {e}
<1>1. Len(list) \in Nat /\ DOMAIN list = 1..Len(list)
  BY LenProperties
<1>2. CASE e \notin ToSet(list)
  BY <1>2, RemoveFirstNone
<1>3. CASE e \in ToSet(list)
  <2>1. PICK i \in 1..Len(list) : list[i] = e
    BY <1>1, <1>3 DEF ToSet
  <2> DEFINE rest == RemoveAt(list, i)
  <2>2. /\ rest \in Seq(S) /\ Len(rest) = Len(list) - 1
        /\ \A j \in 1..Len(list) - 1 : rest[j] = IF j < i THEN list[j] ELSE list[j + 1]
    BY RemoveAtProperties
  <2>3. DOMAIN rest = 1..Len(list) - 1 /\ RemoveFirst(list, e) = rest
    BY <1>1, <2>1, <2>2, LenProperties, RemoveFirstAt
  <2> HIDE DEF rest
  <2>4. Distinct(rest)
    BY <1>1, <2>2, <2>3 DEF Distinct
  <2>5. \A j \in DOMAIN rest : rest[j] \in ToSet(list) \ {e}
    BY <1>1, <2>1, <2>2, <2>3 DEF Distinct, ToSet
  <2>6. ASSUME NEW j \in 1..Len(list), j # i PROVE list[j] \in ToSet(rest)
    <3>1. CASE j < i
      <4>1. j \in DOMAIN rest /\ rest[j] = list[j]
        BY <1>1, <2>2, <2>3, <3>1
      <4> QED
        BY <4>1 DEF ToSet
    <3>2. CASE j > i
      <4>1. j - 1 \in DOMAIN rest /\ rest[j - 1] = list[j]
        BY <1>1, <2>2, <2>3, <3>2
      <4> QED
        BY <4>1 DEF ToSet
    <3> QED
      BY <1>1, <2>6, <3>1, <3>2
  <2>7. ToSet(rest) = ToSet(list) \ {e}
    BY <1>1, <2>1, <2>5, <2>6 DEF ToSet
  <2> QED
    BY <2>2, <2>3, <2>4, <2>7
<1> QED
  BY <1>2, <1>3

-----------------------------------------------------------------------------
(* Adding an element                                                       *)

\* iowa_utils_list_add puts a new element before the others.
LEMMA AddHeadProperties ==
  ASSUME NEW S, NEW list \in Seq(S), NEW e \in S
  PROVE  LET longer == <<e>> \o list IN
         /\ longer \in Seq(S) /\ Len(longer) = Len(list) + 1
         /\ longer[1] = e
         /\ \A j \in 1..Len(list) : longer[j + 1] = list[j]
         /\ ToSet(longer) = ToSet(list) \cup {e}
         /\ Distinct(list) /\ e \notin ToSet(list) => Distinct(longer)
<1> DEFINE longer == <<e>> \o list
<1>1. Len(list) \in Nat /\ DOMAIN list = 1..Len(list)
  BY LenProperties
<1>2. <<e>> \in Seq(S) /\ Len(<<e>>) = 1 /\ <<e>>[1] = e
  OBVIOUS
<1>3. /\ longer \in Seq(S) /\ Len(longer) = 1 + Len(list)
      /\ \A j \in 1..1 + Len(list) : longer[j] = IF j <= 1 THEN <<e>>[j] ELSE list[j - 1]
  BY <1>2, ConcatProperties
<1> HIDE DEF longer
<1>4. DOMAIN longer = 1..Len(list) + 1 /\ longer[1] = e
  BY <1>1, <1>2, <1>3, LenProperties
<1>5. \A j \in 1..Len(list) : longer[j + 1] = list[j]
  BY <1>1, <1>3
<1>6. \A j \in DOMAIN longer : j = 1 \/ (j - 1 \in 1..Len(list) /\ longer[j] = list[j - 1])
  BY <1>1, <1>3, <1>4
<1>7. ToSet(longer) = ToSet(list) \cup {e}
  <2>1. ASSUME NEW j \in 1..Len(list) PROVE list[j] \in ToSet(longer)
    <3>1. j + 1 \in DOMAIN longer
      BY <1>1, <1>4
    <3> QED
      BY <1>5, <3>1 DEF ToSet
  <2>2. e \in ToSet(longer)
    BY <1>1, <1>4 DEF ToSet
  <2> QED
    BY <1>1, <1>4, <1>6, <2>1, <2>2 DEF ToSet
<1>8. ASSUME Distinct(list), e \notin ToSet(list) PROVE Distinct(longer)
  BY <1>1, <1>4, <1>6, <1>8 DEF Distinct, ToSet
<1> QED
  BY <1>1, <1>3, <1>4, <1>5, <1>7, <1>8 DEF longer

-----------------------------------------------------------------------------
(* Removing several elements                                               *)

\* A set of naturals has a least element.
LEMMA LeastNatural ==
  ASSUME NEW A \in SUBSET Nat, A # {}
  PROVE  \E m \in A : \A k \in A : m <= k
<1> DEFINE T == {0..k : k \in A}
           R == StrictSubsetOrdering(Nat)
<1>1. T \subseteq FiniteSubsetsOf(Nat)
  <2>1. \A k \in A : IsFiniteSet(0..k) /\ 0..k \subseteq Nat
    BY FS_Interval
  <2> QED
    BY <2>1 DEF FiniteSubsetsOf
<1>2. IsWellFoundedOn(R, FiniteSubsetsOf(Nat))
  BY FS_StrictSubsetOrderingWellFounded
<1> HIDE DEF R
<1>3. PICK x \in T : \A y \in T : ~(<<y, x>> \in R)
  <2>1. T # {}
    OBVIOUS
  <2> HIDE DEF T
  <2> QED
    BY <1>1, <1>2, <2>1, WFMin
<1>4. PICK m \in A : x = 0..m
  BY <1>3
<1>5. ASSUME NEW k \in A, ~(m <= k)
      PROVE  FALSE
  <2>1. k \in Nat /\ m \in Nat /\ k < m
    BY <1>5
  <2>2. 0..k \subseteq 0..m /\ 0..k # 0..m /\ 0..k \in SUBSET Nat /\ 0..m \in SUBSET Nat
    <3>1. m \in 0..m /\ m \notin 0..k
      BY <2>1
    <3> QED
      BY <2>1, <3>1
  <2>3. <<0..k, 0..m>> \in R
    BY <2>2 DEF R, StrictSubsetOrdering
  <2>4. 0..k \in T
    OBVIOUS
  <2> QED
    BY <1>3, <1>4, <2>3, <2>4
<1> QED
  BY <1>5

\* A set of integers with a lower bound has a minimum.
LEMMA MinProperties ==
  ASSUME NEW A \in SUBSET Int, A # {}, NEW b \in Int, \A x \in A : b <= x
  PROVE  Min(A) \in A /\ \A x \in A : Min(A) <= x
<1> DEFINE N == {x - b : x \in A}
<1>1. N \in SUBSET Nat /\ N # {}
  <2>1. \A x \in A : x - b \in Nat
    <3>1. \A x \in A : x \in Int
      OBVIOUS
    <3> QED
      BY <3>1
  <2> QED
    BY <2>1
<1>2. PICK m \in N : \A k \in N : m <= k
  BY <1>1, LeastNatural
<1>3. PICK x \in A : m = x - b
  BY <1>2
<1>4. ASSUME NEW y \in A PROVE x <= y
  <2>1. m <= y - b
    BY <1>2
  <2> QED
    BY <1>3, <2>1
<1> QED
  BY <1>3, <1>4 DEF Min

\* A finite set of naturals can be listed in ascending order.
LEMMA AscendingExists ==
  ASSUME NEW A \in SUBSET Nat, IsFiniteSet(A)
  PROVE  \E f \in [1..Cardinality(A) -> A] :
           \A j, k \in 1..Cardinality(A) : j < k => f[j] < f[k]
<1> DEFINE Listable(B) == \E f \in [1..Cardinality(B) -> B] :
                            \A j, k \in 1..Cardinality(B) : j < k => f[j] < f[k]
           T == {B \in FiniteSubsetsOf(A) : ~Listable(B)}
           R == StrictSubsetOrdering(A)
<1>1. IsWellFoundedOn(R, FiniteSubsetsOf(A))
  BY FS_StrictSubsetOrderingWellFounded
<1> SUFFICES ASSUME ~Listable(A) PROVE FALSE
  OBVIOUS
<1>2. A \in T
  BY DEF FiniteSubsetsOf
<1>3. PICK B \in T : \A y \in T : ~(<<y, B>> \in R)
  <2>1. T # {} /\ T \subseteq FiniteSubsetsOf(A)
    BY <1>2
  <2> HIDE DEF T, R
  <2> QED
    BY <1>1, <2>1, WFMin
<1>4. B \in SUBSET A /\ IsFiniteSet(B) /\ ~Listable(B)
  BY <1>3 DEF FiniteSubsetsOf
<1>5. B # {}
  <2> SUFFICES ASSUME B = {} PROVE FALSE
    OBVIOUS
  <2>1. Cardinality(B) = 0
    BY FS_EmptySet
  <2>2. [j \in 1..0 |-> 0] \in [1..Cardinality(B) -> B]
    BY <2>1
  <2> QED
    BY <1>4, <2>1, <2>2
<1>6. PICK m \in B : \A k \in B : m <= k
  BY <1>4, <1>5, LeastNatural
<1> DEFINE C == B \ {m}
           n == Cardinality(B)
<1>7. IsFiniteSet(C) /\ Cardinality(C) = n - 1 /\ n \in Nat /\ n # 0
  <2>1. IsFiniteSet(C) /\ Cardinality(C) = n - 1 /\ n \in Nat
    BY <1>4, FS_RemoveElement, FS_CardinalityType
  <2>2. n # 0
    BY <1>4, <1>5, FS_EmptySet
  <2> QED
    BY <2>1, <2>2
<1>8. Listable(C)
  <2>1. C \in FiniteSubsetsOf(A)
    BY <1>4, <1>7 DEF FiniteSubsetsOf
  <2>2. <<C, B>> \in R
    BY <1>4 DEF StrictSubsetOrdering
  <2> QED
    BY <1>3, <2>1, <2>2
<1>9. PICK f \in [1..Cardinality(C) -> C] :
        \A j, k \in 1..Cardinality(C) : j < k => f[j] < f[k]
  BY <1>8
<1> DEFINE g == [j \in 1..n |-> IF j = 1 THEN m ELSE f[j - 1]]
<1>10. \A j \in 1..n : j # 1 => j - 1 \in 1..Cardinality(C) /\ f[j - 1] \in C
  <2> HIDE DEF n, C
  <2> QED
    BY <1>7, <1>9
<1>11. g \in [1..n -> B]
  BY <1>10
<1>12. ASSUME NEW j \in 1..n, NEW k \in 1..n, j < k
       PROVE  g[j] < g[k]
  <2>1. k # 1 /\ f[k - 1] \in C /\ k - 1 \in 1..Cardinality(C) /\ g[k] = f[k - 1]
    BY <1>10, <1>12, <1>7
  <2>2. CASE j = 1
    <3>1. g[j] = m /\ m <= f[k - 1] /\ m # f[k - 1] /\ m \in Nat /\ f[k - 1] \in Nat
      BY <1>4, <1>6, <2>1, <2>2
    <3> QED
      BY <2>1, <3>1
  <2>3. CASE j # 1
    <3>1. g[j] = f[j - 1] /\ j - 1 \in 1..Cardinality(C)
      BY <1>10, <2>3
    <3>2. j - 1 < k - 1
      BY <1>7, <1>12
    <3> QED
      BY <1>9, <2>1, <3>1, <3>2
  <2> QED
    BY <2>2, <2>3
<1>13. Listable(B)
  BY <1>11, <1>12
<1> QED
  BY <1>4, <1>13

\* What is left of a list when only the elements at the positions A stay: those
\* elements, each of them, in their order.
LEMMA SublistProperties ==
  ASSUME NEW S, NEW list \in Seq(S), NEW A \in SUBSET DOMAIN list
  PROVE  /\ Sublist(list, A) \in Seq(S)
         /\ Len(Sublist(list, A)) = Cardinality(A) /\ Cardinality(A) \in Nat
         /\ \E at \in [1..Cardinality(A) -> A] :
              /\ \A j, k \in 1..Cardinality(A) : j < k => at[j] < at[k]
              /\ \A i \in A : \E j \in 1..Cardinality(A) : at[j] = i
              /\ \A j \in 1..Cardinality(A) : Sublist(list, A)[j] = list[at[j]]
<1> DEFINE n == Cardinality(A)
           at == Ascending(A)
<1>1. Len(list) \in Nat /\ DOMAIN list = 1..Len(list) /\ \A i \in DOMAIN list : list[i] \in S
  BY LenProperties, ElementOfSeq
<1>2. A \in SUBSET Nat /\ IsFiniteSet(A)
  <2>1. IsFiniteSet(1..Len(list))
    BY <1>1, FS_Interval
  <2> QED
    BY <1>1, <2>1, FS_Subset
<1>3. n \in Nat
  BY <1>2, FS_CardinalityType
<1>4. at \in [1..n -> A] /\ \A j, k \in 1..n : j < k => at[j] < at[k]
  BY <1>2, AscendingExists DEF Ascending
<1>5. Sublist(list, A) = [j \in 1..n |-> list[at[j]]]
  BY DEF Sublist
<1> HIDE DEF at, n
<1>6. \A j \in 1..n : list[at[j]] \in S
  BY <1>1, <1>4
<1>7. Sublist(list, A) \in Seq(S) /\ Len(Sublist(list, A)) = n
  <2>1. [j \in 1..n |-> list[at[j]]] \in [1..n -> S]
    BY <1>6
  <2>2. [j \in 1..n |-> list[at[j]]] \in Seq(S)
    BY <1>3, <2>1, SeqDef
  <2>3. DOMAIN Sublist(list, A) = 1..n
    BY <1>5
  <2> QED
    BY <1>3, <1>5, <2>2, <2>3, LenProperties
<1>8. \A i \in A : \E j \in 1..n : at[j] = i
  <2>1. at \in Injection(1..n, A)
    <3>1. ASSUME NEW j \in 1..n, NEW k \in 1..n, at[j] = at[k]
          PROVE  j = k
      <4>1. at[j] \in Nat /\ at[k] \in Nat /\ ~(at[j] < at[k]) /\ ~(at[k] < at[j])
        BY <1>2, <1>4, <3>1
      <4>2. ~(j < k) /\ ~(k < j)
        BY <1>4, <4>1
      <4> QED
        BY <1>3, <4>2
    <3> QED
      BY <1>4, <3>1, Fun_IsInj
  <2>2. IsFiniteSet(1..n) /\ Cardinality(1..n) = Cardinality(A)
    BY <1>3, FS_Interval DEF n
  <2>3. at \in Surjection(1..n, A)
    BY <1>2, <2>1, <2>2, FS_Injection
  <2> QED
    BY <2>3 DEF Surjection
<1> QED
  BY <1>3, <1>4, <1>5, <1>7, <1>8 DEF n

\* Its elements are those at the positions, one for each.
LEMMA SublistElements ==
  ASSUME NEW S, NEW list \in Seq(S), NEW A \in SUBSET DOMAIN list
  PROVE  /\ Sublist(list, A) \in Seq(S)
         /\ ToSet(Sublist(list, A)) = {list[i] : i \in A}
         /\ \E at \in [DOMAIN Sublist(list, A) -> A] :
              \A j, k \in DOMAIN Sublist(list, A) :
                Sublist(list, A)[j] = list[at[j]] /\ (at[j] = at[k] => j = k)
<1>1. PICK part : part = Sublist(list, A)
  OBVIOUS
<1>2. part \in Seq(S) /\ Len(part) = Cardinality(A) /\ Cardinality(A) \in Nat
  BY <1>1, SublistProperties
<1>3. DOMAIN part = 1..Cardinality(A)
  BY <1>2, LenProperties
<1>4. PICK at \in [1..Cardinality(A) -> A] :
        /\ \A j, k \in 1..Cardinality(A) : j < k => at[j] < at[k]
        /\ \A i \in A : \E j \in 1..Cardinality(A) : at[j] = i
        /\ \A j \in 1..Cardinality(A) : part[j] = list[at[j]]
  <2> HIDE <1>1
  <2>1. \E at \in [1..Cardinality(A) -> A] :
          /\ \A j, k \in 1..Cardinality(A) : j < k => at[j] < at[k]
          /\ \A i \in A : \E j \in 1..Cardinality(A) : at[j] = i
          /\ \A j \in 1..Cardinality(A) : Sublist(list, A)[j] = list[at[j]]
    BY SublistProperties
  <2> QED
    BY <1>1, <2>1
<1>5. ToSet(part) = {list[i] : i \in A}
  BY <1>3, <1>4 DEF ToSet
<1>6. \A j, k \in 1..Cardinality(A) : at[j] = at[k] => j = k
  <2> SUFFICES ASSUME NEW j \in 1..Cardinality(A), NEW k \in 1..Cardinality(A), j < k
               PROVE  at[j] # at[k]
    BY <1>2
  <2>1. at[j] \in Nat /\ at[k] \in Nat
    BY LenProperties
  <2> QED
    BY <1>4, <2>1
<1> QED
  BY <1>1, <1>2, <1>3, <1>4, <1>5, <1>6

=============================================================================
