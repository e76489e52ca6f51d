----------------------------- MODULE ListLemmas -----------------------------
(***************************************************************************)
(* Facts about sets of positions and about sequences that are cut, put     *)
(* together and replaced in part, for the proofs about the passes over     *)
(* lists of tokens.                                                        *)
(***************************************************************************)
EXTENDS Integers, Sequences, FiniteSetsExt, SequenceTheorems,
        FiniteSetTheorems, WellFoundedInduction, TLAPS

-----------------------------------------------------------------------------
(***************************************************************************)
(* A set of natural numbers has a least element: the segments 0..n are     *)
(* well-founded by inclusion.                                              *)
(***************************************************************************)
LEMMA SegmentsWellFounded ==
  IsWellFoundedOn(StrictSubsetOrdering(Nat), {0..n : n \in Nat})
<1>1. IsWellFoundedOn(StrictSubsetOrdering(Nat), FiniteSubsetsOf(Nat))
  BY FS_StrictSubsetOrderingWellFounded
<1>2. {0..n : n \in Nat} \in SUBSET FiniteSubsetsOf(Nat)
  <2>1. \A n \in Nat : IsFiniteSet(0..n)
    BY FS_Interval
  <2>2. \A n \in Nat : 0..n \in SUBSET Nat
    OBVIOUS
  <2> QED
    BY <2>1, <2>2 DEF FiniteSubsetsOf
<1> QED
  BY <1>1, <1>2, IsWellFoundedOnSubset

LEMMA MinOfNaturals ==
  ASSUME NEW S \in SUBSET Nat, S # {}
  PROVE  Min(S) \in S /\ \A y \in S : Min(S) <= y
<1> DEFINE Segments == {0..n : n \in S}
<1>1. Segments \subseteq {0..n : n \in Nat} /\ Segments # {}
  OBVIOUS
<1>2. PICK s \in Segments :
        \A t \in Segments : ~(<<t, s>> \in StrictSubsetOrdering(Nat))
  <2> HIDE DEF Segments
  <2> QED
    BY <1>1, SegmentsWellFounded, WFMin
<1>3. PICK x \in S : s = 0..x
  OBVIOUS
<1>4. ASSUME NEW y \in S, ~(x <= y)
      PROVE  FALSE
  <2>1. 0..y \in Segments /\ 0..y \in SUBSET Nat /\ s \in SUBSET Nat
    BY <1>3
  <2>2. 0..y \subseteq s /\ x \in s /\ x \notin 0..y
    BY <1>3, <1>4
  <2>3. <<0..y, s>> \in StrictSubsetOrdering(Nat)
    BY <2>1, <2>2 DEF StrictSubsetOrdering
  <2> QED
    BY <1>2, <2>1, <2>3
<1>5. \E z \in S : \A y \in S : z <= y
  BY <1>4
<1> QED
  BY <1>5 DEF Min

LEMMA MinIn ==
  ASSUME NEW S \in SUBSET Nat, S # {}
  PROVE  Min(S) \in S
BY MinOfNaturals

LEMMA MaxOfSegment ==
  ASSUME NEW n \in Nat, NEW S \in SUBSET 0..n, S # {}
  PROVE  \E x \in S : \A y \in S : y <= x
<1> DEFINE T == {n - y : y \in S}
<1>1. T \in SUBSET Nat /\ T # {}
  <2>1. \A y \in S : y \in 0..n /\ n - y \in Nat
    OBVIOUS
  <2>2. T \in SUBSET Nat
    BY <2>1
  <2>3. PICK y \in S : TRUE
    OBVIOUS
  <2>4. n - y \in T
    OBVIOUS
  <2> QED
    BY <2>2, <2>4
<1>2. Min(T) \in T /\ \A z \in T : Min(T) <= z
  <2> HIDE DEF T
  <2> QED
    BY <1>1, MinOfNaturals
<1>3. PICK x \in S : n - x = Min(T)
  BY <1>2
<1>4. \A y \in S : n - x <= n - y
  BY <1>2, <1>3
<1> QED
  BY <1>4

-----------------------------------------------------------------------------
(***************************************************************************)
(* Sequences and positions.                                                *)
(***************************************************************************)
LEMMA Stretch ==
  ASSUME NEW S, NEW s \in Seq(S), NEW m \in Int, NEW n \in Int,
         1 <= m, n <= Len(s)
  PROVE  /\ SubSeq(s, m, n) \in Seq(S)
         /\ Len(SubSeq(s, m, n)) = IF m <= n THEN n - m + 1 ELSE 0
<1>1. \A i \in m..n : s[i] \in S
  BY LenProperties
<1> QED
  BY <1>1, SubSeqProperties

\* Erasing a..b-1.
LEMMA Cut ==
  ASSUME NEW S, NEW s \in Seq(S), NEW a \in Nat, NEW b \in Nat,
         1 <= a, a <= b, b <= Len(s) + 1
  PROVE  LET t == SubSeq(s, 1, a - 1) \o SubSeq(s, b, Len(s))
         IN  t \in Seq(S) /\ Len(t) = Len(s) - (b - a)
<1> DEFINE front == SubSeq(s, 1, a - 1)
           back  == SubSeq(s, b, Len(s))
           t     == front \o back
<1>1. Len(s) \in Nat
  BY LenProperties
<1>2. front \in Seq(S) /\ Len(front) = a - 1
  BY <1>1, Stretch
<1>3. back \in Seq(S) /\ Len(back) = Len(s) - b + 1
  BY <1>1, Stretch
<1> HIDE DEF front, back
<1>4. t \in Seq(S) /\ Len(t) = Len(front) + Len(back)
  BY <1>2, <1>3, ConcatProperties
<1>5. (a - 1) + (Len(s) - b + 1) = Len(s) - (b - a)
  BY <1>1
<1>6. t \in Seq(S) /\ Len(t) = Len(s) - (b - a)
  BY <1>2, <1>3, <1>4, <1>5
<1> QED
  BY <1>6 DEF front, back

\* Inserting t before a.
LEMMA Insertion ==
  ASSUME NEW S, NEW s \in Seq(S), NEW a \in Nat, 1 <= a, a <= Len(s) + 1,
         NEW t \in Seq(S)
  PROVE  LET u == SubSeq(s, 1, a - 1) \o t \o SubSeq(s, a, Len(s))
         IN  u \in Seq(S) /\ Len(u) = Len(s) + Len(t)
<1> DEFINE front == SubSeq(s, 1, a - 1)
           back  == SubSeq(s, a, Len(s))
           u     == front \o t \o back
<1>1. Len(s) \in Nat /\ Len(t) \in Nat
  BY LenProperties
<1>2. front \in Seq(S) /\ Len(front) = a - 1
  BY <1>1, Stretch
<1>3. back \in Seq(S) /\ Len(back) = Len(s) - a + 1
  BY <1>1, Stretch
<1> HIDE DEF front, back
<1>4. front \o t \in Seq(S) /\ Len(front \o t) = Len(front) + Len(t)
  BY <1>2, ConcatProperties
<1>5. /\ (front \o t) \o back \in Seq(S)
      /\ Len((front \o t) \o back) = Len(front \o t) + Len(back)
  BY <1>3, <1>4, ConcatProperties
<1>6. u \in Seq(S) /\ Len(u) = (Len(front) + Len(t)) + Len(back)
  BY <1>4, <1>5
<1>7. (a - 1 + Len(t)) + (Len(s) - a + 1) = Len(s) + Len(t)
  BY <1>1
<1>8. u \in Seq(S) /\ Len(u) = Len(s) + Len(t)
  BY <1>2, <1>3, <1>6, <1>7
<1> QED
  BY <1>8 DEF front, back

InsertedIn(s, a, t) == SubSeq(s, 1, a - 1) \o t \o SubSeq(s, a, Len(s))

ReplacedIn(s, a, b, e) ==
  SubSeq(s, 1, a - 1) \o <<e>> \o SubSeq(s, b + 1, Len(s))

\* What is where after t was inserted before a.
LEMMA InsertionElements ==
  ASSUME NEW S, NEW s \in Seq(S), NEW a \in Nat, 1 <= a, a <= Len(s) + 1,
         NEW t \in Seq(S)
  PROVE  /\ InsertedIn(s, a, t) \in Seq(S)
         /\ Len(InsertedIn(s, a, t)) = Len(s) + Len(t)
         /\ \A i \in 1..(Len(s) + Len(t)) :
              InsertedIn(s, a, t)[i] = IF i < a THEN s[i]
                                       ELSE IF i < a + Len(t) THEN t[i - a + 1]
                                       ELSE s[i - Len(t)]
<1> DEFINE front == SubSeq(s, 1, a - 1)
           back  == SubSeq(s, a, Len(s))
           left  == front \o t
           u     == left \o back
<1>1. Len(s) \in Nat /\ Len(t) \in Nat
  BY LenProperties
<1>2. \A i \in 1..Len(s) : s[i] \in S
  BY LenProperties
<1>3. /\ front \in Seq(S) /\ Len(front) = a - 1
      /\ \A i \in 1..(a - 1) : front[i] = s[i]
  BY <1>1, <1>2, SubSeqProperties
<1>4. /\ back \in Seq(S) /\ Len(back) = Len(s) - a + 1
      /\ \A i \in 1..(Len(s) - a + 1) : back[i] = s[a + i - 1]
  BY <1>1, <1>2, SubSeqProperties
<1> HIDE DEF front, back
<1>5. /\ left \in Seq(S) /\ Len(left) = a - 1 + Len(t)
      /\ \A i \in 1..(a - 1 + Len(t)) :
            left[i] = IF i <= a - 1 THEN front[i] ELSE t[i - (a - 1)]
  <2>1. /\ left \in Seq(S) /\ Len(left) = Len(front) + Len(t)
        /\ \A i \in 1..(Len(front) + Len(t)) :
              left[i] = IF i <= Len(front) THEN front[i]
                        ELSE t[i - Len(front)]
    BY <1>3, ConcatProperties
  <2>2. Len(front) = a - 1
    BY <1>3
  <2> HIDE DEF left
  <2> QED
    BY <2>1, <2>2
<1> HIDE DEF left
<1>6. /\ u \in Seq(S) /\ Len(u) = Len(left) + Len(back)
      /\ \A i \in 1..(Len(left) + Len(back)) :
            u[i] = IF i <= Len(left) THEN left[i] ELSE back[i - Len(left)]
  BY <1>4, <1>5, ConcatProperties
<1> HIDE DEF u
<1>7. Len(u) = Len(s) + Len(t)
  BY <1>1, <1>4, <1>5, <1>6
<1>8. ASSUME NEW i \in 1..Len(u)
      PROVE  u[i] = IF i < a THEN s[i]
                    ELSE IF i < a + Len(t) THEN t[i - a + 1]
                    ELSE s[i - Len(t)]
  <2>1. CASE i < a
    <3>1. /\ i \in 1..(a - 1) /\ i \in 1..(a - 1 + Len(t))
          /\ i \in 1..(Len(left) + Len(back)) /\ i <= Len(left)
      <4>1. Len(left) = a - 1 + Len(t) /\ Len(back) = Len(s) - a + 1
        BY <1>4, <1>5
      <4> QED
        BY <1>1, <1>7, <2>1, <4>1
    <3>2. u[i] = left[i]
      BY <1>6, <3>1
    <3>3. left[i] = front[i] /\ front[i] = s[i]
      BY <1>3, <1>5, <3>1
    <3> QED
      BY <3>2, <3>3, <2>1
  <2>2. CASE ~(i < a) /\ i < a + Len(t)
    <3>1. i <= Len(left) /\ ~(i <= a - 1) /\ i \in 1..(a - 1 + Len(t))
          /\ i - (a - 1) = i - a + 1
      BY <1>1, <1>5, <2>2
    <3>2. u[i] = left[i] /\ left[i] = t[i - (a - 1)]
      BY <1>5, <1>6, <1>7, <3>1
    <3> QED
      BY <3>1, <3>2, <2>2
  <2>3. CASE ~(i < a) /\ ~(i < a + Len(t))
    <3>1. ~(i <= Len(left)) /\ i - Len(left) \in 1..(Len(s) - a + 1)
          /\ a + (i - Len(left)) - 1 = i - Len(t)
      BY SMTT(30), <1>1, <1>5, <1>7, <2>3
    <3>2. u[i] = back[i - Len(left)]
      BY <1>6, <1>7, <3>1
    <3>3. back[i - Len(left)] = s[a + (i - Len(left)) - 1]
      BY <1>4, <3>1
    <3> QED
      BY <3>1, <3>2, <3>3, <2>3
  <2> QED
    BY <2>1, <2>2, <2>3
<1>9. /\ u \in Seq(S) /\ Len(u) = Len(s) + Len(t)
      /\ \A i \in 1..Len(u) :
            u[i] = IF i < a THEN s[i]
                   ELSE IF i < a + Len(t) THEN t[i - a + 1]
                   ELSE s[i - Len(t)]
  BY <1>6, <1>7, <1>8
<1>10. InsertedIn(s, a, t) = u
  BY DEF InsertedIn, u, left, front, back
<1> QED
  BY <1>7, <1>9, <1>10

\* What is where after a..b was replaced by e.
LEMMA Replacement ==
  ASSUME NEW S, NEW s \in Seq(S), NEW a \in Nat, NEW b \in Nat,
         1 <= a, a <= b, b <= Len(s), NEW e \in S
  PROVE  /\ ReplacedIn(s, a, b, e) \in Seq(S)
         /\ Len(ReplacedIn(s, a, b, e)) = Len(s) - (b - a)
         /\ \A i \in 1..(Len(s) - (b - a)) :
              ReplacedIn(s, a, b, e)[i] = IF i < a THEN s[i]
                                          ELSE IF i = a THEN e
                                          ELSE s[i + (b - a)]
<1> DEFINE front == SubSeq(s, 1, a - 1)
           back  == SubSeq(s, b + 1, Len(s))
           left  == front \o <<e>>
           u     == left \o back
<1>1. Len(s) \in Nat /\ \A i \in 1..Len(s) : s[i] \in S
  BY LenProperties
<1>2. /\ front \in Seq(S) /\ Len(front) = a - 1
      /\ \A i \in 1..(a - 1) : front[i] = s[i]
  BY <1>1, SubSeqProperties
<1>3. /\ back \in Seq(S) /\ Len(back) = Len(s) - b
      /\ \A i \in 1..(Len(s) - b) : back[i] = s[b + i]
  <2>1. \A i \in (b + 1)..Len(s) : s[i] \in S
    BY <1>1
  <2>2. /\ back \in Seq(S)
        /\ Len(back) = IF b + 1 <= Len(s) THEN Len(s) - (b + 1) + 1 ELSE 0
        /\ \A i \in 1..(Len(s) - (b + 1) + 1) : back[i] = s[(b + 1) + i - 1]
    BY <1>1, <2>1, SubSeqProperties
  <2> HIDE DEF back
  <2> QED
    BY <1>1, <2>2
<1>4. <<e>> \in Seq(S) /\ Len(<<e>>) = 1 /\ <<e>>[1] = e
  OBVIOUS
<1> HIDE DEF front, back
<1>5. /\ left \in Seq(S) /\ Len(left) = a
      /\ \A i \in 1..a : left[i] = IF i <= a - 1 THEN front[i] ELSE e
  <2>1. /\ left \in Seq(S) /\ Len(left) = Len(front) + Len(<<e>>)
        /\ \A i \in 1..(Len(front) + Len(<<e>>)) :
              left[i] = IF i <= Len(front) THEN front[i]
                        ELSE <<e>>[i - Len(front)]
    BY <1>2, <1>4, ConcatProperties
  <2> HIDE DEF left
  <2>2. Len(front) + Len(<<e>>) = a
    BY <1>2, <1>4
  <2>3. \A i \in 1..a : ~(i <= a - 1) => i - Len(front) = 1
    BY <1>2
  <2> QED
    BY <1>2, <1>4, <2>1, <2>2, <2>3
<1> HIDE DEF left
<1>6. /\ u \in Seq(S) /\ Len(u) = Len(left) + Len(back)
      /\ \A i \in 1..(Len(left) + Len(back)) :
            u[i] = IF i <= Len(left) THEN left[i] ELSE back[i - Len(left)]
  BY <1>3, <1>5, ConcatProperties
<1> HIDE DEF u
<1>7. Len(u) = Len(s) - (b - a)
  BY <1>1, <1>3, <1>5, <1>6
<1>8. ASSUME NEW i \in 1..Len(u)
      PROVE  u[i] = IF i < a THEN s[i]
                    ELSE IF i = a THEN e
                    ELSE s[i + (b - a)]
  <2>1. CASE i <= a
    BY <1>1, <1>2, <1>5, <1>6, <1>7, <2>1
  <2>2. CASE i > a
    <3>1. ~(i <= Len(left)) /\ i - Len(left) \in 1..(Len(s) - b)
          /\ b + (i - Len(left)) = i + (b - a)
      <4>1. Len(left) = a /\ Len(s) \in Nat /\ Len(u) = Len(s) - (b - a)
        BY <1>1, <1>5, <1>7
      <4> QED
        BY <2>2, <4>1
    <3>2. u[i] = back[i - Len(left)]
      BY <1>6, <1>7, <3>1
    <3>3. back[i - Len(left)] = s[b + (i - Len(left))]
      BY <1>3, <3>1
    <3> QED
      BY <3>1, <3>2, <3>3, <2>2
  <2> QED
    BY <2>1, <2>2
<1>9. /\ u \in Seq(S) /\ Len(u) = Len(s) - (b - a)
      /\ \A i \in 1..Len(u) :
            u[i] = IF i < a THEN s[i]
                   ELSE IF i = a THEN e
                   ELSE s[i + (b - a)]
  BY <1>6, <1>7, <1>8
<1>10. ReplacedIn(s, a, b, e) = u
  BY DEF ReplacedIn, u, left, front, back
<1> QED
  BY <1>7, <1>9, <1>10

-----------------------------------------------------------------------------
(***************************************************************************)
(* Induction and recursion along a list.  What a theorem of the library    *)
(* would take as an operator is a set or a function here, so that the      *)
(* facts can be cited: the induction is the one that MinOfNaturals gives.  *)
(***************************************************************************)
LEMMA UpTo ==
  ASSUME NEW n \in Nat, NEW P, 0 \in P,
         \A i \in 1..n : i - 1 \in P => i \in P
  PROVE  \A i \in 0..n : i \in P
<1> DEFINE bad == {m \in 0..n : m \notin P}
<1>1. bad = {}
  <2> SUFFICES ASSUME bad # {}
               PROVE  FALSE
    OBVIOUS
  <2>1. bad \in SUBSET Nat
    OBVIOUS
  <2>2. PICK m \in bad : \A k \in bad : m <= k
    <3> HIDE DEF bad
    <3> QED
      BY <2>1, MinOfNaturals
  <2>3. m \in 0..n /\ m \notin P /\ m # 0
    BY <2>2
  <2>4. m \in 1..n /\ m - 1 \in 0..n /\ ~(m <= m - 1)
    BY <2>3
  <2>5. m - 1 \in P
    BY <2>2, <2>4
  <2> QED
    BY <2>3, <2>4, <2>5
<1> QED
  BY <1>1

Recursion(f, a, n, h) ==
  f[0] = a /\ \A i \in 1..n : f[i] = h[<<i, f[i - 1]>>]

LEMMA FunctionByRecursion ==
  ASSUME NEW S, NEW a \in S, NEW n \in Nat, NEW h \in [(1..n) \X S -> S]
  PROVE  \E f \in [0..n -> S] : Recursion(f, a, n, h)
<1> DEFINE Made(m) == \E f \in [0..m -> S] :
                        /\ f[0] = a
                        /\ \A i \in 1..m : f[i] = h[<<i, f[i - 1]>>]
           P == {m \in 0..n : Made(m)}
<1>1. Made(0)
  <2> DEFINE z == [i \in 0..0 |-> a]
  <2>1. z \in [0..0 -> S] /\ z[0] = a
    OBVIOUS
  <2>2. \A i : i \notin 1..0
    OBVIOUS
  <2> HIDE DEF z
  <2> QED
    BY <2>1, <2>2
<1>2. ASSUME NEW m \in 1..n, Made(m - 1)
      PROVE  Made(m)
  <2>1. PICK f \in [0..(m - 1) -> S] :
          /\ f[0] = a
          /\ \A i \in 1..(m - 1) : f[i] = h[<<i, f[i - 1]>>]
    BY <1>2
  <2> DEFINE last == h[<<m, f[m - 1]>>]
             g == [i \in 0..m |-> IF i = m THEN last ELSE f[i]]
  <2>2. m \in Nat \ {0} /\ m - 1 \in 0..(m - 1)
    OBVIOUS
  <2>3. f[m - 1] \in S /\ <<m, f[m - 1]>> \in (1..n) \X S
    BY <2>1, <2>2
  <2>4. last \in S
    BY <2>3
  <2>5. \A i \in 0..m : i # m => i \in 0..(m - 1)
    BY <2>2
  <2> HIDE DEF last
  <2>6. g \in [0..m -> S]
    BY <2>1, <2>4, <2>5
  <2>7. g[0] = a /\ g[m] = last /\ \A i \in 0..(m - 1) : g[i] = f[i]
    BY <2>1, <2>2
  <2> HIDE DEF g
  <2>8. ASSUME NEW i \in 1..m
        PROVE  g[i] = h[<<i, g[i - 1]>>]
    <3>1. CASE i = m
      BY <2>2, <2>7, <3>1 DEF last
    <3>2. CASE i # m
      <4>1. i \in 1..(m - 1) /\ i \in 0..(m - 1) /\ i - 1 \in 0..(m - 1)
        BY <2>2, <3>2
      <4> QED
        BY <2>1, <2>7, <4>1
    <3> QED
      BY <3>1, <3>2
  <2> QED
    BY <2>6, <2>7, <2>8
<1>3. 0 \in P /\ \A i \in 1..n : i - 1 \in P => i \in P
  <2>1. 0 \in 0..n /\ \A i \in 1..n : i \in 0..n
    OBVIOUS
  <2> HIDE DEF Made
  <2> QED
    BY <1>1, <1>2, <2>1
<1>4. n \in P
  <2>1. n \in 0..n
    OBVIOUS
  <2> HIDE DEF P
  <2> QED
    BY <1>3, <2>1, UpTo
<1> QED
  BY <1>4 DEF Recursion
=============================================================================
