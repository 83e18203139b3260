------------------------------ MODULE ListLemmas ------------------------------
(***************************************************************************)
(* Facts about the sequence operators that MemoryBlocks, ProcessHandler    *)
(* and the schedulers are built from.                                      *)
(***************************************************************************)
EXTENDS Integers, SequencesExt, SequenceTheorems, FiniteSetTheorems, TLAPS

\* The natural numbers are well-founded by a relation that is their order.
LEMMA NatOrder ==
  \E R : IsWellFoundedOn(R, Nat) /\ \A m, n \in Nat : <<m, n>> \in R <=> m < n
<1>1. \A m, n \in Nat : <<m, n>> \in OpToRel(<, Nat) <=> m < n
  BY Zenon DEF OpToRel
<1> QED
  BY <1>1, NatLessThanWellFounded, Zenon

\* A well-founded relation has minimal elements, as a fact about sets only.
LEMMA MinimalElement ==
  ASSUME NEW R, NEW T, IsWellFoundedOn(R, T), NEW S, S \subseteq T, S # {}
  PROVE  \E m \in S : \A n \in S : ~(<<n, m>> \in R)
BY WFMin, Zenon

\* Min of a set of natural numbers is its least element: what the loops that
\* look for the first match rely on.
LEMMA MinIsLeast ==
  ASSUME NEW S \in SUBSET Nat, S # {}
  PROVE  Min(S) \in S /\ \A n \in S : Min(S) <= n
<1>1. PICK R : IsWellFoundedOn(R, Nat) /\ \A m, n \in Nat : <<m, n>> \in R <=> m < n
  BY NatOrder
<1>2. S \subseteq Nat /\ S # {}
  OBVIOUS
<1>3. PICK m \in S : \A n \in S : ~(<<n, m>> \in R)
  <2>1. IsWellFoundedOn(R, Nat)
    BY <1>1, Zenon
  <2> HIDE <1>1
  <2>2. \E m \in S : \A n \in S : ~(<<n, m>> \in R)
    BY <1>2, <2>1, MinimalElement
  <2> QED  BY <2>2, Zenon
<1>4. \A n \in S : ~(n < m)
  BY <1>1, <1>2, <1>3, Zenon
<1>5. \A n \in S : m <= n
  BY <1>4
<1> QED
  BY <1>5 DEF Min

\* Induction on the natural numbers, as a fact about sets.
LEMMA NatSetInduction ==
  ASSUME NEW S, 0 \in S, \A n \in Nat : n \in S => n + 1 \in S
  PROVE  Nat \subseteq S
<1> DEFINE T == {n \in Nat : n \notin S}
<1>1. SUFFICES ASSUME T # {} PROVE FALSE
  OBVIOUS
<1>2. Min(T) \in T /\ \A n \in T : Min(T) <= n
  <2>1. T \in SUBSET Nat
    OBVIOUS
  <2> HIDE DEF T
  <2> QED
    BY <1>1, <2>1, MinIsLeast
<1>3. Min(T) - 1 \in T
  BY <1>2
<1> QED
  BY <1>2, <1>3

\* Induction on sequences, as a fact about sets.
LEMMA SeqSetInduction ==
  ASSUME NEW S, NEW T, << >> \in T,
         \A s \in Seq(S), e \in S : s \in T => Append(s, e) \in T
  PROVE  Seq(S) \subseteq T
<1> DEFINE K == {n \in Nat : \A s \in Seq(S) : Len(s) = n => s \in T}
<1>1. 0 \in K
  BY EmptySeq
<1>2. ASSUME NEW n \in Nat, n \in K PROVE n + 1 \in K
  <2> SUFFICES ASSUME NEW s \in Seq(S), Len(s) = n + 1 PROVE s \in T
    OBVIOUS
  <2>1. PICK t \in Seq(S), e \in S : s = Append(t, e)
    BY EmptySeq, SequenceEmptyOrAppend
  <2>2. Len(t) \in Nat /\ Len(s) = Len(t) + 1
    BY <2>1, AppendProperties, LenProperties
  <2> QED
    BY <1>2, <2>1, <2>2
<1>3. Nat \subseteq K
  <2> HIDE DEF K
  <2> QED
    BY <1>1, <1>2, NatSetInduction
<1> QED
  BY <1>3, LenProperties

\* Max of a non-empty part of 1..n is its greatest element.
LEMMA MaxIsGreatest ==
  ASSUME NEW n \in Nat, NEW S \in SUBSET (1..n), S # {}
  PROVE  Max(S) \in S /\ \A m \in S : m <= Max(S)
<1> DEFINE T == {k \in Nat : \A m \in S : m <= k}
<1>1. n \in T
  OBVIOUS
<1>2. T \in SUBSET Nat /\ T # {}
  BY <1>1
<1>3. Min(T) \in T /\ \A k \in T : Min(T) <= k
  <2> HIDE DEF T
  <2> QED BY <1>2, MinIsLeast
<1>4. Min(T) \in S
  <2>1. SUFFICES ASSUME Min(T) \notin S PROVE FALSE
    OBVIOUS
  <2> DEFINE t == Min(T)
  <2> HIDE DEF t
  <2>0. t \in T /\ t \notin S /\ \A k \in T : t <= k
    BY <1>3, <2>1 DEF t
  <2>2. t - 1 \in T
    <3>1. PICK s \in S : TRUE
      OBVIOUS
    <3>2. s \in Nat /\ s >= 1 /\ s <= t 
      BY <2>0
    <3> QED
      BY <2>0, <3>2
  <2> QED
    BY <2>0, <2>2
<1>5. \E x \in S : \A m \in S : m <= x
  BY <1>3, <1>4
<1> QED
  BY <1>5 DEF Max

-------------------------------------------------------------------------------
(* FoldLeft. Facts about every op are definitions with op as a parameter,  *)
(* which a prover can match as they stand and which are expanded after it. *)

\* What FoldLeft computes, element by element.
FoldStep(op(_, _), base, S) ==
  /\ FoldLeft(op, base, << >>) = base
  /\ \A s \in Seq(S), e \in S :
       FoldLeft(op, base, Append(s, e)) = op(FoldLeft(op, base, s), e)

\* The function on sets of indices by which FoldLeft is defined.
Iter(op(_, _), base, s) ==
  CHOOSE g : g = [I \in SUBSET (DOMAIN s) |-> IF I = {} THEN base ELSE op(g[I \ {Max(I)}], s[Max(I)])]

\* FoldLeft is its value for all the indices.
LEMMA FoldIsIter ==
  ASSUME NEW op(_, _), NEW base, NEW s
  PROVE  FoldLeft(op, base, s) = Iter(op, base, s)[DOMAIN s]
BY DEF FoldLeft, MapThenFoldSet, Iter

\* The function satisfies its equation, since a finite set has no infinite descending
\* chain of subsets.
IterSteps(op(_, _), base, s) ==
  \A I \in SUBSET (DOMAIN s) : Iter(op, base, s)[I] =
    IF I = {} THEN base ELSE op(Iter(op, base, s)[I \ {Max(I)}], s[Max(I)])

\* By well-founded induction on the sets of indices.
LEMMA IterStep ==
  ASSUME NEW op(_, _), NEW base, NEW S, NEW s \in Seq(S)
  PROVE  IterSteps(op, base, s)
<1> DEFINE D == DOMAIN s
           R == StrictSubsetOrdering(D)
           Def(g, I) == IF I = {} THEN base ELSE op(g[I \ {Max(I)}], s[Max(I)])
           f == Iter(op, base, s)
<1>1. D = 1..Len(s) /\ Len(s) \in Nat
  BY LenProperties
<1>2. IsFiniteSet(D)
  BY <1>1, FS_Interval
<1>3. IsWellFoundedOn(R, SUBSET D)
  BY <1>2, FS_FiniteSubsetsOfFinite, FS_StrictSubsetOrderingWellFounded
<1>4. WFDefOn(R, SUBSET D, Def)
  <2> SUFFICES ASSUME NEW g, NEW h, NEW I \in SUBSET D,
                      \A J \in SetLessThan(I, R, SUBSET D) : g[J] = h[J]
               PROVE  Def(g, I) = Def(h, I)
    BY DEF WFDefOn
  <2>1. CASE I = {}
    BY <2>1
  <2>2. CASE I # {}
    <3>1. Max(I) \in I
      BY <1>1, <2>2, MaxIsGreatest
    <3>2. I \ {Max(I)} \in SetLessThan(I, R, SUBSET D)
      BY <3>1 DEF SetLessThan, StrictSubsetOrdering
    <3> QED
      BY <2>2, <3>2
  <2> QED
    BY <2>1, <2>2
<1>5. OpDefinesFcn(f, SUBSET D, Def)
  BY DEF OpDefinesFcn, Iter
<1>6. WFInductiveDefines(f, SUBSET D, Def)
  <2> HIDE DEF Def, f, R, D
  <2> QED
    BY <1>3, <1>4, <1>5, WFInductiveDef
<1> QED
  <2> HIDE DEF f
  <2>1. f = [I \in SUBSET D |-> Def(f, I)]
    BY <1>6 DEF WFInductiveDefines
  <2>2. \A I \in SUBSET D : f[I] = Def(f, I)
    BY <2>1
  <2> QED
    BY <2>2 DEF f, IterSteps

\* So it can be followed along the sequence, index by index ...
IntervalSteps(op(_, _), base, s) ==
  \A k \in 0..Len(s) : Iter(op, base, s)[1..k] =
    IF k = 0 THEN base ELSE op(Iter(op, base, s)[1..(k - 1)], s[k])

\* An interval without its greatest element is the interval before it.
LEMMA IterOfInterval ==
  ASSUME NEW op(_, _), NEW base, NEW S, NEW s \in Seq(S)
  PROVE  IntervalSteps(op, base, s)
<1> SUFFICES ASSUME NEW k \in 0..Len(s)
             PROVE  Iter(op, base, s)[1..k] =
               IF k = 0 THEN base ELSE op(Iter(op, base, s)[1..(k - 1)], s[k])
  BY DEF IntervalSteps
<1>0. IterSteps(op, base, s)
  BY IterStep
<1>1. Len(s) \in Nat /\ DOMAIN s = 1..Len(s)
  BY LenProperties
<1>2. 1..k \in SUBSET (DOMAIN s) /\ (1..k = {} <=> k = 0)
  BY <1>1
<1>3. k # 0 => Max(1..k) = k /\ (1..k) \ {k} = 1..(k - 1)
  <2> SUFFICES ASSUME k # 0 PROVE Max(1..k) = k /\ (1..k) \ {k} = 1..(k - 1)
    OBVIOUS
  <2>1. k \in Nat /\ k \in 1..k
    BY <1>1
  <2>2. Max(1..k) \in 1..k /\ \A m \in 1..k : m <= Max(1..k)
    BY <2>1, MaxIsGreatest
  <2>3. Max(1..k) = k
    BY <2>1, <2>2
  <2> QED
    BY <2>1, <2>3
<1> QED
  BY <1>0, <1>1, <1>2, <1>3 DEF IterSteps

\* ... and the last element is folded last.
LEMMA FoldLeftStep ==
  ASSUME NEW op(_, _), NEW base, NEW S
  PROVE  FoldStep(op, base, S)
<1>1. FoldLeft(op, base, << >>) = base
  <2>1. << >> \in Seq(S) /\ Len(<< >>) = 0 /\ DOMAIN << >> = 1..0
    BY EmptySeq, LenProperties
  <2>2. IntervalSteps(op, base, << >>)
    BY <2>1, IterOfInterval
  <2> QED
    BY <2>1, <2>2, FoldIsIter DEF IntervalSteps
<1>2. ASSUME NEW s \in Seq(S), NEW e \in S
      PROVE  FoldLeft(op, base, Append(s, e)) = op(FoldLeft(op, base, s), e)
  <2> DEFINE t == Append(s, e)
             A == Iter(op, base, s)
             B == Iter(op, base, t)
             n == Len(s)
             K == {k \in Nat : k <= n => A[1..k] = B[1..k]}
  <2>1. /\ t \in Seq(S)
        /\ Len(t) = n + 1
        /\ t[n + 1] = e
        /\ \A k \in 1..n : t[k] = s[k]
        /\ n \in Nat
        /\ DOMAIN s = 1..n
        /\ DOMAIN t = 1..(n + 1)
    BY AppendProperties, LenProperties
  <2>2. \A k \in 0..n : A[1..k] = IF k = 0 THEN base ELSE op(A[1..(k - 1)], s[k])
    <3>1. IntervalSteps(op, base, s)
      BY IterOfInterval
    <3> QED
      BY <3>1 DEF IntervalSteps
  <2>3. \A k \in 0..(n + 1) : B[1..k] = IF k = 0 THEN base ELSE op(B[1..(k - 1)], t[k])
    <3> HIDE DEF t
    <3>1. IntervalSteps(op, base, t)
      BY <2>1, IterOfInterval
    <3> QED
      BY <2>1, <3>1 DEF IntervalSteps
  <2>4. FoldLeft(op, base, s) = A[1..n] /\ FoldLeft(op, base, t) = B[1..(n + 1)]
    BY <2>1, FoldIsIter
  <2> HIDE DEF A, B, t, n
  <2>5. 0 \in K
    BY <2>1, <2>2, <2>3
  <2>6. ASSUME NEW k \in Nat, k \in K PROVE k + 1 \in K
    <3>1. CASE ~(k + 1 <= n)
      BY <3>1
    <3>2. CASE k + 1 <= n
      <4>1. A[1..k] = B[1..k] /\ t[k + 1] = s[k + 1]
        BY <2>1, <2>6, <3>2
      <4>2. k + 1 \in 0..n /\ k + 1 \in 0..(n + 1) /\ k + 1 # 0 /\ (k + 1) - 1 = k
        BY <2>1, <3>2
      <4>3. A[1..(k + 1)] = op(A[1..k], s[k + 1])
        BY <2>2, <4>2
      <4>4. B[1..(k + 1)] = op(B[1..k], t[k + 1])
        BY <2>3, <4>2
      <4> QED
        BY <4>1, <4>3, <4>4
    <3> QED
      BY <3>1, <3>2
  <2>7. n \in K
    <3>1. \A k \in Nat : k \in K => k + 1 \in K
      BY <2>6
    <3> HIDE DEF K
    <3> QED
      BY <2>1, <2>5, <3>1, NatSetInduction
  <2>8. A[1..n] = B[1..n]
    BY <2>1, <2>7
  <2>9. B[1..(n + 1)] = op(B[1..n], e)
    <3>1. n + 1 \in 0..(n + 1) /\ n + 1 # 0 /\ (n + 1) - 1 = n
      BY <2>1
    <3> QED
      BY <2>1, <2>3, <3>1
  <2> QED
    BY <2>4, <2>8, <2>9 DEF t
<1> QED
  BY <1>1, <1>2 DEF FoldStep

-------------------------------------------------------------------------------
\* vector::insert: the elements from position i on move up by one.
LEMMA InsertAtProperties ==
  ASSUME NEW S, NEW s \in Seq(S), NEW i \in 1..(Len(s) + 1), NEW e \in S
  PROVE  /\ InsertAt(s, i, e) \in Seq(S)
         /\ Len(InsertAt(s, i, e)) = Len(s) + 1
         /\ \A j \in 1..(Len(s) + 1) :
              InsertAt(s, i, e)[j] =
                IF j < i THEN s[j] ELSE IF j = i THEN e ELSE s[j - 1]
<1> DEFINE front == SubSeq(s, 1, i - 1)
           back == SubSeq(s, i, Len(s))
<1>1. /\ front \in Seq(S)
      /\ Len(front) = i - 1
      /\ \A j \in 1..(i - 1) : front[j] = s[j]
  <2>1. \A j \in 1..(i - 1) : s[j] \in S
    BY ElementOfSeq, LenProperties
  <2> HIDE DEF front
  <2> QED  BY <2>1, SubSeqProperties, LenProperties DEF front
<1>2. /\ back \in Seq(S)
      /\ Len(back) = Len(s) - i + 1
      /\ \A j \in 1..(Len(s) - i + 1) : back[j] = s[i + j - 1]
  <2>1. \A j \in i..Len(s) : s[j] \in S
    BY ElementOfSeq, LenProperties
  <2> HIDE DEF back
  <2> QED  BY <2>1, SubSeqProperties, LenProperties DEF back
<1>3. <<e>> \in Seq(S) /\ Len(<<e>>) = 1 /\ <<e>>[1] = e
  OBVIOUS
<1> HIDE DEF front, back
<1>4. /\ front \o <<e>> \in Seq(S)
      /\ Len(front \o <<e>>) = i
      /\ \A j \in 1..i : (front \o <<e>>)[j] = IF j < i THEN s[j] ELSE e
  BY <1>1, <1>3, ConcatProperties, LenProperties
<1>5. InsertAt(s, i, e) = front \o <<e>> \o back
  BY DEF InsertAt, front, back
<1>6. Len(s) \in Nat
  BY LenProperties
<1>7. /\ front \o <<e>> \o back \in Seq(S)
      /\ Len(front \o <<e>> \o back) = Len(s) + 1
      /\ \A j \in 1..(Len(s) + 1) : (front \o <<e>> \o back)[j] =
           IF j <= i THEN (front \o <<e>>)[j] ELSE back[j - i]
  <2>1. PICK head : head = front \o <<e>>
    OBVIOUS
  <2>2. head \in Seq(S) /\ Len(head) = i /\ i \in Nat
    BY <1>4, <1>6, <2>1
  <2>3. /\ head \o back \in Seq(S)
        /\ Len(head \o back) = Len(head) + Len(back)
        /\ \A j \in 1..(Len(head) + Len(back)) : (head \o back)[j] =
             IF j <= Len(head) THEN head[j] ELSE back[j - Len(head)]
    BY <1>2, <2>2, ConcatProperties
  <2>4. Len(head) + Len(back) = Len(s) + 1
    BY <1>2, <1>6, <2>2
  <2> QED
    BY <2>1, <2>2, <2>3, <2>4
<1>8. \A j \in (i + 1)..(Len(s) + 1) : back[j - i] = s[j - 1]
  BY <1>2, <1>6
<1>9. ASSUME NEW j \in 1..(Len(s) + 1)
      PROVE  (front \o <<e>> \o back)[j] =
               IF j < i THEN s[j] ELSE IF j = i THEN e ELSE s[j - 1]
  <2>1. CASE j <= i
    BY <1>4, <1>7, <2>1
  <2>2. CASE ~(j <= i)
    BY <1>6, <1>7, <1>8, <2>2
  <2> QED
    BY <2>1, <2>2
<1> QED
  BY <1>5, <1>7, <1>9

\* vector::erase: the elements after position i move down by one.
LEMMA RemoveAtProperties ==
  ASSUME NEW S, NEW s \in Seq(S), NEW i \in 1..Len(s)
  PROVE  /\ RemoveAt(s, i) \in Seq(S)
         /\ Len(RemoveAt(s, i)) = Len(s) - 1
         /\ \A j \in 1..(Len(s) - 1) :
              RemoveAt(s, i)[j] = IF j < i THEN s[j] ELSE s[j + 1]
<1> DEFINE front == SubSeq(s, 1, i - 1)
           back == SubSeq(s, i + 1, Len(s))
<1>1. /\ front \in Seq(S)
      /\ Len(front) = i - 1
      /\ \A j \in 1..(i - 1) : front[j] = s[j]
  <2>1. \A j \in 1..(i - 1) : s[j] \in S
    BY ElementOfSeq, LenProperties
  <2> HIDE DEF front
  <2> QED  BY <2>1, SubSeqProperties, LenProperties DEF front
<1>2. /\ back \in Seq(S)
      /\ Len(back) = Len(s) - i
      /\ \A j \in 1..(Len(s) - i) : back[j] = s[i + j]
  <2>1. \A j \in (i + 1)..Len(s) : s[j] \in S
    BY ElementOfSeq, LenProperties
  <2> HIDE DEF back
  <2> QED  BY <2>1, SubSeqProperties, LenProperties DEF back
<1>3. RemoveAt(s, i) = front \o back
  BY DEF RemoveAt, front, back
<1> HIDE DEF front, back
<1>4. Len(s) \in Nat
  BY LenProperties
<1>5. /\ front \o back \in Seq(S)
      /\ Len(front \o back) = Len(s) - 1
      /\ \A j \in 1..(Len(s) - 1) : (front \o back)[j] =
           IF j <= i - 1 THEN front[j] ELSE back[j - (i - 1)]
  <2>1. Len(front) + Len(back) = Len(s) - 1
    BY <1>1, <1>2, <1>4
  <2>2. front \in Seq(S) /\ back \in Seq(S) /\ Len(front) = i - 1
    BY <1>1, <1>2
  <2>3. /\ front \o back \in Seq(S)
        /\ Len(front \o back) = Len(front) + Len(back)
        /\ \A j \in 1..(Len(front) + Len(back)) : (front \o back)[j] =
             IF j <= Len(front) THEN front[j] ELSE back[j - Len(front)]
    BY <2>2, ConcatProperties
  <2> QED
    BY <2>1, <2>2, <2>3
<1>6. \A j \in i..(Len(s) - 1) : back[j - (i - 1)] = s[j + 1]
  <2> TAKE j \in i..(Len(s) - 1)
  <2>1. j - (i - 1) \in 1..(Len(s) - i) /\ i + (j - (i - 1)) = j + 1
    BY <1>4
  <2> QED
    BY <1>2, <2>1
<1>7. \A j \in 1..(Len(s) - 1) :
        (front \o back)[j] = IF j < i THEN s[j] ELSE s[j + 1]
  BY <1>1, <1>4, <1>5, <1>6
<1> QED
  BY <1>3, <1>5, <1>7

-------------------------------------------------------------------------------
\* What a sequence with one more element, or two in a row, hold.
LEMMA ConcatAppend ==
  ASSUME NEW S, NEW s \in Seq(S), NEW t \in Seq(S), NEW e \in S
  PROVE  s \o Append(t, e) = Append(s \o t, e)
<1>1. Append(t, e) = t \o <<e>> /\ <<e>> \in Seq(S)
  BY AppendIsConcat
<1>2. s \o t \in Seq(S)
  BY ConcatProperties
<1>3. Append(s \o t, e) = (s \o t) \o <<e>>
  BY <1>2, AppendIsConcat
<1> QED
  BY <1>1, <1>3, ConcatAssociative

\* An appended list repeats nothing if its parts do not.
LEMMA InjectiveAppend ==
  ASSUME NEW S, NEW s \in Seq(S), NEW e \in S
  PROVE  IsInjective(Append(s, e)) <=> IsInjective(s) /\ e \notin ToSet(s)
<1>1. /\ Append(s, e) \in Seq(S)
      /\ Len(Append(s, e)) = Len(s) + 1
      /\ \A i \in 1..Len(s) : Append(s, e)[i] = s[i]
      /\ Append(s, e)[Len(s) + 1] = e
      /\ Len(s) \in Nat
      /\ DOMAIN s = 1..Len(s)
      /\ DOMAIN Append(s, e) = 1..(Len(s) + 1)
  BY AppendProperties, LenProperties
<1> HIDE DEF IsInjective
<1> QED
  BY <1>1 DEF IsInjective, ToSet

\* The elements of a list made of two.
LEMMA ElementsOfConcat ==
  ASSUME NEW S, NEW s \in Seq(S), NEW t \in Seq(S)
  PROVE  ToSet(s \o t) = ToSet(s) \cup ToSet(t)
<1>1. Range(s \o t) = Range(s) \cup Range(t)
  BY RangeConcatenation
<1> QED
  BY <1>1 DEF Range, ToSet

\* The elements of a list with one more.
LEMMA ElementsOfAppend ==
  ASSUME NEW S, NEW s \in Seq(S), NEW e \in S
  PROVE  ToSet(Append(s, e)) = ToSet(s) \cup {e}
<1>1. Append(s, e) = s \o <<e>> /\ <<e>> \in Seq(S)
  BY AppendIsConcat
<1>2. ToSet(<<e>>) = {e}
  BY DEF ToSet
<1>3. ToSet(s \o <<e>>) = ToSet(s) \cup ToSet(<<e>>)
  BY <1>1, ElementsOfConcat, Zenon
<1> QED
  BY <1>1, <1>2, <1>3, Zenon

\* The front of a list that repeats nothing repeats nothing.
LEMMA InjectiveFront ==
  ASSUME NEW S, NEW s \in Seq(S), NEW t \in Seq(S), IsInjective(s \o t)
  PROVE  IsInjective(s)
<1>1. /\ s \o t \in Seq(S)
      /\ Len(s \o t) = Len(s) + Len(t)
      /\ \A i \in 1..(Len(s) + Len(t)) :
           (s \o t)[i] = IF i <= Len(s) THEN s[i] ELSE t[i - Len(s)]
      /\ Len(s) \in Nat /\ Len(t) \in Nat /\ DOMAIN s = 1..Len(s)
  BY ConcatProperties, LenProperties
<1>2. DOMAIN (s \o t) = 1..(Len(s) + Len(t))
  BY <1>1, LenProperties
<1>3. \A i \in 1..Len(s) : i \in 1..(Len(s) + Len(t)) /\ (s \o t)[i] = s[i]
  BY <1>1
<1> QED
  BY <1>1, <1>2, <1>3 DEF IsInjective

\* Nor has it an element in common with the rest.
LEMMA InjectiveParts ==
  ASSUME NEW S, NEW s \in Seq(S), NEW t \in Seq(S), IsInjective(s \o t)
  PROVE  ToSet(s) \cap ToSet(t) = {}
<1>1. /\ Len(s \o t) = Len(s) + Len(t)
      /\ \A i \in 1..(Len(s) + Len(t)) :
           (s \o t)[i] = IF i <= Len(s) THEN s[i] ELSE t[i - Len(s)]
      /\ Len(s) \in Nat /\ Len(t) \in Nat
      /\ DOMAIN s = 1..Len(s) /\ DOMAIN t = 1..Len(t)
      /\ s \o t \in Seq(S)
  BY ConcatProperties, LenProperties
<1>2. DOMAIN (s \o t) = 1..(Len(s) + Len(t))
  BY <1>1, LenProperties
<1> SUFFICES ASSUME NEW i \in 1..Len(s), NEW j \in 1..Len(t), s[i] = t[j]
             PROVE  FALSE
  BY <1>1 DEF ToSet
<1> DEFINE k == Len(s) + j
<1>3. /\ i \in 1..(Len(s) + Len(t)) /\ k \in 1..(Len(s) + Len(t)) /\ i # k
      /\ i <= Len(s) /\ ~(k <= Len(s)) /\ k - Len(s) = j
  BY <1>1
<1> HIDE DEF k
<1>4. (s \o t)[i] = (s \o t)[k]
  BY <1>1, <1>3
<1> QED
  BY <1>2, <1>3, <1>4 DEF IsInjective

\* Two sequences without repetition that share no element, in a row.
LEMMA InjectiveConcat ==
  ASSUME NEW S, NEW s \in Seq(S), NEW t \in Seq(S), IsInjective(s), IsInjective(t),
         ToSet(s) \cap ToSet(t) = {}
  PROVE  IsInjective(s \o t)
<1>1. /\ Len(s \o t) = Len(s) + Len(t)
      /\ \A i \in 1..(Len(s) + Len(t)) :
           (s \o t)[i] = IF i <= Len(s) THEN s[i] ELSE t[i - Len(s)]
      /\ Len(s) \in Nat /\ Len(t) \in Nat
      /\ DOMAIN s = 1..Len(s) /\ DOMAIN t = 1..Len(t)
      /\ s \o t \in Seq(S)
  BY ConcatProperties, LenProperties
<1>2. DOMAIN (s \o t) = 1..(Len(s) + Len(t))
  BY <1>1, LenProperties
<1>3. \A i \in 1..Len(s), j \in 1..Len(t) : s[i] # t[j]
  BY <1>1 DEF ToSet
<1> SUFFICES ASSUME NEW i \in 1..(Len(s) + Len(t)), NEW j \in 1..(Len(s) + Len(t)),
                    (s \o t)[i] = (s \o t)[j]
             PROVE  i = j
  BY <1>2 DEF IsInjective
<1>4. CASE i <= Len(s) /\ j <= Len(s)
  BY <1>1, <1>4 DEF IsInjective
<1>5. CASE ~(i <= Len(s)) /\ ~(j <= Len(s))
  <2>1. i - Len(s) \in 1..Len(t) /\ j - Len(s) \in 1..Len(t)
    BY <1>1, <1>5
  <2>2. t[i - Len(s)] = t[j - Len(s)]
    BY <1>1, <1>5
  <2>3. i - Len(s) = j - Len(s)
    BY <1>1, <2>1, <2>2 DEF IsInjective
  <2> QED
    BY <1>1, <2>3
<1>6. CASE i <= Len(s) /\ ~(j <= Len(s))
  <2>1. i \in 1..Len(s) /\ j - Len(s) \in 1..Len(t)
    BY <1>1, <1>6
  <2> QED
    BY <1>1, <1>3, <1>6, <2>1
<1>7. CASE ~(i <= Len(s)) /\ j <= Len(s)
  <2>1. j \in 1..Len(s) /\ i - Len(s) \in 1..Len(t)
    BY <1>1, <1>7
  <2> QED
    BY <1>1, <1>3, <1>7, <2>1
<1> QED
  BY <1>4, <1>5, <1>6, <1>7

\* The elements of the front and of the back of a sequence.
LEMMA SplitElements ==
  ASSUME NEW S, NEW s \in Seq(S), NEW n \in 0..Len(s)
  PROVE  /\ SubSeq(s, 1, n) \in Seq(S)
         /\ Len(SubSeq(s, 1, n)) = n
         /\ \A i \in 1..n : SubSeq(s, 1, n)[i] = s[i]
         /\ SubSeq(s, n + 1, Len(s)) \in Seq(S)
         /\ Len(SubSeq(s, n + 1, Len(s))) = Len(s) - n
         /\ \A i \in 1..(Len(s) - n) : SubSeq(s, n + 1, Len(s))[i] = s[n + i]
<1>1. Len(s) \in Nat /\ n \in Nat /\ n <= Len(s)
  BY LenProperties
<1>2. \A i \in 1..Len(s) : s[i] \in S
  BY ElementOfSeq
<1>3. /\ SubSeq(s, 1, n) \in Seq(S)
      /\ Len(SubSeq(s, 1, n)) = n
      /\ \A i \in 1..n : SubSeq(s, 1, n)[i] = s[i]
  <2>1. \A i \in 1..n : s[i] \in S
    BY <1>1, <1>2
  <2> QED
    BY <1>1, <2>1, SubSeqProperties
<1>4. PICK m : m = n + 1
  OBVIOUS
<1>5. \A i \in m..Len(s) : s[i] \in S
  BY <1>1, <1>2, <1>4
<1>6. /\ SubSeq(s, m, Len(s)) \in Seq(S)
      /\ Len(SubSeq(s, m, Len(s))) = IF m <= Len(s) THEN Len(s) - m + 1 ELSE 0
      /\ \A i \in 1..(Len(s) - m + 1) : SubSeq(s, m, Len(s))[i] = s[m + i - 1]
  <2>1. m \in Int /\ Len(s) \in Int
    BY <1>1, <1>4
  <2> QED
    BY <1>5, <2>1, SubSeqProperties
<1>7. Len(SubSeq(s, m, Len(s))) = Len(s) - n
  BY <1>1, <1>4, <1>6
<1>8. \A i \in 1..(Len(s) - n) : SubSeq(s, m, Len(s))[i] = s[n + i]
  BY <1>1, <1>4, <1>6
<1> QED
  BY <1>3, <1>4, <1>6, <1>7, <1>8

\* The front and the back of a sequence without repetition share no element.
LEMMA FrontAndBack ==
  ASSUME NEW S, NEW s \in Seq(S), NEW n \in 0..Len(s), IsInjective(s)
  PROVE  /\ SubSeq(s, 1, n) \in Seq(S)
         /\ SubSeq(s, n + 1, Len(s)) \in Seq(S)
         /\ SubSeq(s, 1, n) \o SubSeq(s, n + 1, Len(s)) = s
         /\ ToSet(SubSeq(s, 1, n)) = {s[i] : i \in 1..n}
         /\ ToSet(SubSeq(s, n + 1, Len(s))) = ToSet(s) \ {s[i] : i \in 1..n}
<1>1. Len(s) \in Nat /\ DOMAIN s = 1..Len(s) /\ \A i \in 1..Len(s) : s[i] \in S
  BY LenProperties, ElementOfSeq
<1> DEFINE front == SubSeq(s, 1, n)
           back == SubSeq(s, n + 1, Len(s))
<1>2. front \in Seq(S) /\ Len(front) = n /\ \A i \in 1..n : front[i] = s[i]
  BY SplitElements
<1>3. /\ back \in Seq(S)
      /\ Len(back) = Len(s) - n
      /\ \A i \in 1..(Len(s) - n) : back[i] = s[n + i]
  BY SplitElements
<1> HIDE DEF front, back
<1>4. DOMAIN front = 1..n /\ DOMAIN back = 1..(Len(s) - n)
  BY <1>2, <1>3, LenProperties
<1>5. front \o back = s
  <2>1. /\ front \o back \in Seq(S)
        /\ Len(front \o back) = Len(front) + Len(back)
        /\ \A i \in 1..(Len(front) + Len(back)) : (front \o back)[i] =
             IF i <= Len(front) THEN front[i] ELSE back[i - Len(front)]
    BY <1>2, <1>3, ConcatProperties
  <2>2. Len(front) + Len(back) = Len(s)
    BY <1>1, <1>2, <1>3
  <2>3. \A i \in 1..Len(s) : (front \o back)[i] = s[i]
    <3> TAKE i \in 1..Len(s)
    <3>1. CASE i <= n
      BY <1>1, <1>2, <2>1, <2>2, <3>1
    <3>2. CASE ~(i <= n)
      <4>1. i - n \in 1..(Len(s) - n) /\ n + (i - n) = i
        BY <1>1, <3>2
      <4> QED
        BY <1>2, <1>3, <2>1, <2>2, <3>2, <4>1
    <3> QED
      BY <3>1, <3>2
  <2> QED
    BY <2>1, <2>2, <2>3, SeqEqual
<1>6. ToSet(front) = {s[i] : i \in 1..n}
  BY <1>2, <1>4 DEF ToSet
<1>7. ToSet(back) = ToSet(s) \ {s[i] : i \in 1..n}
  <2>1. ASSUME NEW x \in ToSet(back) PROVE x \in ToSet(s) \ {s[i] : i \in 1..n}
    <3>1. PICK i \in 1..(Len(s) - n) : x = back[i]
      BY <1>4, <2>1 DEF ToSet
    <3>2. n + i \in 1..Len(s) /\ n + i \notin 1..n /\ x = s[n + i]
      BY <1>1, <1>3, <3>1
    <3>3. \A j \in 1..n : j \in 1..Len(s) /\ s[j] # s[n + i]
      BY <1>1, <3>2 DEF IsInjective
    <3> QED
      BY <1>1, <3>2, <3>3 DEF ToSet
  <2>2. ASSUME NEW x \in ToSet(s) \ {s[i] : i \in 1..n} PROVE x \in ToSet(back)
    <3>1. PICK j \in 1..Len(s) : x = s[j]
      BY <1>1, <2>2 DEF ToSet
    <3>2. j - n \in 1..(Len(s) - n) /\ n + (j - n) = j
      BY <1>1, <2>2, <3>1
    <3>3. back[j - n] = x
      BY <1>3, <3>1, <3>2
    <3> QED
      BY <1>4, <3>2, <3>3 DEF ToSet
  <2> QED
    BY <2>1, <2>2
<1> QED
  BY <1>2, <1>3, <1>5, <1>6, <1>7 DEF front, back

\* A sequence is a prefix of itself, and of itself with one more element.
LEMMA PrefixOfItself ==
  ASSUME NEW S, NEW s \in Seq(S)
  PROVE  IsPrefix(s, s)
BY LenProperties DEF IsPrefix

\* A list is a prefix of what it becomes by appending.
LEMMA PrefixOfAppend ==
  ASSUME NEW S, NEW s \in Seq(S), NEW e \in S
  PROVE  IsPrefix(s, Append(s, e))
<1>1. /\ Append(s, e) \in Seq(S)
      /\ Len(Append(s, e)) = Len(s) + 1
      /\ \A i \in 1..Len(s) : Append(s, e)[i] = s[i]
      /\ Len(s) \in Nat /\ Len(s) \in 0..Len(s) /\ Len(s) \in 0..(Len(s) + 1)
  BY AppendProperties, LenProperties
<1> DEFINE t == Append(s, e)
           front == SubSeq(s, 1, Len(s))
           same == SubSeq(t, 1, Len(s))
<1>2. /\ front \in Seq(S) /\ Len(front) = Len(s) /\ \A i \in 1..Len(s) : front[i] = s[i]
      /\ same \in Seq(S) /\ Len(same) = Len(s) /\ \A i \in 1..Len(s) : same[i] = t[i]
  <2>1. t \in Seq(S) /\ Len(s) \in 0..Len(t)
    BY <1>1
  <2> HIDE DEF t
  <2> QED
    BY <1>1, <2>1, SplitElements
<1> HIDE DEF front, same
<1>3. same = front
  BY <1>1, <1>2, SeqEqual
<1> QED
  BY <1>1, <1>3 DEF IsPrefix, front, same

===============================================================================
