--------------------------- MODULE JournalProofs ---------------------------
(***************************************************************************)
(* What the record costs, what it keeps and hands out, and what Close      *)
(* leaves behind, for any number of events, faults, adders and closers and *)
(* any size of the ring, the queue and the files.                          *)
(*                                                                         *)
(* Collapsing a batch is a statement about sequences of any length, and    *)
(* the provers have no induction over those.  Two things replace it: how   *)
(* often an event is on record is the cardinality of a set, so that        *)
(* counting is a bijection, and whatever needs the next or the previous    *)
(* position takes the least element of a set of naturals.                  *)
(***************************************************************************)
EXTENDS Journal, FiniteSetTheorems, SequenceTheorems, TLAPS

-----------------------------------------------------------------------------
(***************************************************************************)
(* Positions and their ranks.  Induction over a sequence is the least      *)
(* element of a set of counterexamples.                                    *)
(***************************************************************************)
LEMMA LeastOfNaturals ==
  ASSUME NEW T, T \subseteq Nat, T # {}
  PROVE  \E m \in T : \A i \in T : m <= i
<1> DEFINE R == OpToRel(<, Nat)
<1>1. \A i, m \in Nat : i < m => <<i, m>> \in R
  BY DEF OpToRel
<1>2. IsWellFoundedOn(R, Nat)
  BY NatLessThanWellFounded
<1> HIDE DEF R
<1>3. \E m \in T : \A i \in T : <<i, m>> \notin R
  BY <1>2, WFMin
<1>4. \A i, m \in T : <<i, m>> \notin R => m <= i
  <2> TAKE i, m \in T
  <2>1. i \in Nat /\ m \in Nat
    OBVIOUS
  <2>2. i < m => <<i, m>> \in R
    BY <1>1, <2>1
  <2>3. QED
    BY <2>1, <2>2
<1>5. QED
  BY <1>3, <1>4

\* A set of positions of a sequence of length n.
Positions(A, n) == n \in Nat /\ A \subseteq 1 .. n

LEMMA PositionsAre ==
  ASSUME NEW A, NEW n, Positions(A, n)
  PROVE  n \in Nat /\ \A j \in A : j \in Nat /\ 1 <= j /\ j <= n
BY DEF Positions

LEMMA RankType ==
  ASSUME NEW A, NEW n, Positions(A, n)
  PROVE  /\ IsFiniteSet(A) /\ Cardinality(A) \in Nat
         /\ \A i \in Nat : /\ IsFiniteSet({j \in A : j <= i})
                           /\ Rank(A, i) \in Nat /\ Rank(A, i) <= Cardinality(A)
         /\ Rank(A, 0) = 0 /\ Rank(A, n) = Cardinality(A)
<1>1. IsFiniteSet(A) /\ Cardinality(A) \in Nat
  <2>1. A \in SUBSET (1 .. n) /\ IsFiniteSet(1 .. n)
    BY FS_Interval DEF Positions
  <2>2. IsFiniteSet(A)
    BY <2>1, FS_Subset
  <2>3. QED
    BY <2>2, FS_CardinalityType
<1>2. ASSUME NEW i \in Nat
      PROVE  /\ IsFiniteSet({j \in A : j <= i})
             /\ Rank(A, i) \in Nat /\ Rank(A, i) <= Cardinality(A)
  <2>1. {j \in A : j <= i} \in SUBSET A
    OBVIOUS
  <2>2. QED
    BY <1>1, <2>1, FS_Subset, FS_CardinalityType DEF Rank
<1>3. {j \in A : j <= 0} = {} /\ {j \in A : j <= n} = A
  <2>1. \A j \in A : ~(j <= 0) /\ j <= n
    BY PositionsAre
  <2>2. QED
    BY <2>1
<1>4. QED
  BY <1>1, <1>2, <1>3, FS_EmptySet, PositionsAre DEF Rank

LEMMA RankStep ==
  ASSUME NEW A, NEW n, Positions(A, n), NEW i \in Nat
  PROVE  Rank(A, i + 1) = IF i + 1 \in A THEN Rank(A, i) + 1 ELSE Rank(A, i)
<1> DEFINE B == {j \in A : j <= i}
           C == {j \in A : j <= i + 1}
<1>1. IsFiniteSet(B) /\ i + 1 \notin B
  BY RankType
<1>2. CASE i + 1 \in A
  <2>1. \A j \in A : j <= i + 1 <=> j <= i \/ j = i + 1
    BY PositionsAre
  <2>a. C = B \cup {i + 1}
    BY <1>2, <2>1
  <2> HIDE DEF B, C
  <2>2. Cardinality(C) = Cardinality(B) + 1
    BY <1>1, <2>a, FS_AddElement
  <2>3. QED
    BY <1>2, <2>2 DEF Rank, B, C
<1>3. CASE i + 1 \notin A
  <2>0. \A j \in A : j <= i + 1 <=> j <= i
    BY <1>3, PositionsAre
  <2>1. C = B
    BY <2>0
  <2>2. QED
    BY <1>3, <2>1 DEF Rank
<1>4. QED
  BY <1>2, <1>3

LEMMA RankGrows ==
  ASSUME NEW A, NEW n, Positions(A, n), NEW i \in Nat, NEW j \in Nat, i <= j
  PROVE  Rank(A, i) <= Rank(A, j) /\ (i < j /\ j \in A => Rank(A, i) < Rank(A, j))
<1> DEFINE B == {x \in A : x <= i}
           C == {x \in A : x <= j}
<1>0. \A x \in A : x <= i => x <= j
  BY PositionsAre
<1>1. IsFiniteSet(B) /\ IsFiniteSet(C) /\ B \in SUBSET C
  BY <1>0, RankType
<1>2. Rank(A, i) = Cardinality(B) /\ Rank(A, j) = Cardinality(C)
  BY DEF Rank
<1>3. i < j /\ j \in A => j \in C /\ j \notin B
  OBVIOUS
<1> HIDE DEF B, C
<1>4. Cardinality(B) <= Cardinality(C) /\ (Cardinality(B) = Cardinality(C) => B = C)
  BY <1>1, FS_Subset
<1>5. Cardinality(B) \in Nat /\ Cardinality(C) \in Nat
  BY <1>1, FS_CardinalityType
<1>6. QED
  BY <1>2, <1>3, <1>4, <1>5

LEMMA NthIs ==
  ASSUME NEW A, NEW n, Positions(A, n), NEW k \in 1 .. Cardinality(A)
  PROVE  Nth(A, k) \in A /\ Rank(A, Nth(A, k)) = k
<1> DEFINE T == {i \in Nat : Rank(A, i) >= k}
<1>1. n \in T
  <2>1. n \in Nat /\ Rank(A, n) = Cardinality(A) /\ Cardinality(A) \in Nat
    BY RankType, PositionsAre
  <2>2. QED
    BY <2>1
<1>2. PICK m \in T : \A i \in T : m <= i
  BY <1>1, LeastOfNaturals
<1>3. m # 0
  BY <1>2, RankType
<1>4. m - 1 \in Nat /\ m - 1 \notin T
  BY <1>2, <1>3
<1>5. Rank(A, m - 1) \in Nat /\ Rank(A, m - 1) < k /\ Rank(A, m) >= k
  <2>1. Rank(A, m - 1) \in Nat
    BY <1>4, RankType
  <2>2. QED
    BY <1>2, <1>4, <2>1
<1>6. Rank(A, m) = IF m \in A THEN Rank(A, m - 1) + 1 ELSE Rank(A, m - 1)
  <2>1. Rank(A, (m - 1) + 1) =
          IF (m - 1) + 1 \in A THEN Rank(A, m - 1) + 1 ELSE Rank(A, m - 1)
    BY <1>4, RankStep
  <2>2. (m - 1) + 1 = m
    BY <1>2
  <2>3. QED
    BY <2>1, <2>2
<1>7. m \in A /\ Rank(A, m) = k
  BY <1>5, <1>6
<1>8. QED
  BY <1>7 DEF Nth
-----------------------------------------------------------------------------
(***************************************************************************)
(* How often an event is on record.                                        *)
(***************************************************************************)
\* Lines with a count, whatever has become of them.
Lines == [event : Kept, times : Nat \ {0}, readable : BOOLEAN]

LEMMA LinesAre ==
  ASSUME NEW s \in Seq(Lines)
  PROVE  /\ Len(s) \in Nat /\ DOMAIN s = 1 .. Len(s)
         /\ \A i \in 1 .. Len(s) : /\ s[i] \in Lines /\ s[i].event \in Kept
                                   /\ s[i].times \in Nat \ {0}
<1>1. Len(s) \in Nat /\ DOMAIN s = 1 .. Len(s)
  BY LenProperties
<1>2. \A i \in 1 .. Len(s) : s[i] \in Lines
  BY ElementOfSeq
<1>3. QED
  BY <1>1, <1>2 DEF Lines

LEMMA AHappening ==
  ASSUME NEW s \in Seq(Lines), NEW e, NEW p \in Happenings(s, e)
  PROVE  \E i \in DOMAIN s, k \in Nat \ {0} :
           s[i].event = e /\ k <= s[i].times /\ p = <<i, k>>
<1>1. PICK i \in DOMAIN s : s[i].event = e /\ p \in {i} \X (1 .. s[i].times)
  BY DEF Happenings
<1>2. PICK k \in 1 .. s[i].times : p = <<i, k>>
  BY <1>1
<1>3. s[i].times \in Nat
  BY LinesAre
<1>4. k \in Nat \ {0} /\ k <= s[i].times
  BY <1>3
<1>5. QED
  BY <1>1, <1>2, <1>4

LEMMA Happens ==
  ASSUME NEW s \in Seq(Lines), NEW i \in DOMAIN s, NEW k \in Nat \ {0}, k <= s[i].times
  PROVE  <<i, k>> \in Happenings(s, s[i].event)
<1>1. s[i].times \in Nat
  BY LinesAre
<1>2. <<i, k>> \in {i} \X (1 .. s[i].times)
  BY <1>1
<1>3. QED
  BY <1>2 DEF Happenings

LEMMA TimesType ==
  ASSUME NEW s \in Seq(Lines), NEW e
  PROVE  IsFiniteSet(Happenings(s, e)) /\ Times(s, e) \in Nat
<1> DEFINE at == {j \in DOMAIN s : s[j].event = e}
           row(i) == {i} \X (1 .. s[i].times)
           rows == {row(i) : i \in at}
<1>1. IsFiniteSet(at)
  <2>1. IsFiniteSet(DOMAIN s)
    BY LinesAre, FS_Interval
  <2>2. at \in SUBSET DOMAIN s
    OBVIOUS
  <2>3. QED
    BY <2>1, <2>2, FS_Subset
<1>2. IsFiniteSet(rows)
  <2> DEFINE f == [i \in at |-> row(i)]
  <2>1. f \in Surjection(at, rows)
    BY DEF Surjection
  <2> HIDE DEF f, rows, at
  <2>2. QED
    BY <1>1, <2>1, FS_Surjection
<1>3. \A T \in rows : IsFiniteSet(T)
  <2>1. ASSUME NEW i \in at PROVE IsFiniteSet(row(i))
    <3>1. s[i].times \in Nat
      BY LinesAre
    <3>2. IsFiniteSet(1 .. s[i].times)
      BY <3>1, FS_Interval
    <3>3. IsFiniteSet({i})
      BY FS_Singleton
    <3>4. QED
      BY <3>2, <3>3, FS_Product
  <2>2. QED
    BY <2>1
<1>4. Happenings(s, e) = UNION rows
  BY DEF Happenings
<1> HIDE DEF rows
<1>5. IsFiniteSet(Happenings(s, e))
  BY <1>2, <1>3, <1>4, FS_UNION
<1>6. QED
  BY <1>5, FS_CardinalityType DEF Times

LEMMA TimesOfNothing == ASSUME NEW e PROVE Times(<<>>, e) = 0
<1>1. Happenings(<<>>, e) = {}
  BY DEF Happenings
<1>2. QED
  BY <1>1, FS_EmptySet DEF Times

LEMMA TimesOfOne ==
  ASSUME NEW x \in Kept, NEW e
  PROVE  Times(<<Once(x)>>, e) = IF x = e THEN 1 ELSE 0
<1>1. \A p : p \in Happenings(<<Once(x)>>, e) <=> x = e /\ p = <<1, 1>>
  <2> TAKE p
  <2>1. DOMAIN <<Once(x)>> = {1} /\ <<Once(x)>>[1].event = x /\ <<Once(x)>>[1].times = 1
    BY DEF Once
  <2>2. \A k : k \in 1 .. 1 <=> k = 1
    OBVIOUS
  <2>3. QED
    BY <2>1, <2>2 DEF Happenings
<1>2. CASE x = e
  <2>1. Happenings(<<Once(x)>>, e) = {<<1, 1>>}
    BY <1>1, <1>2
  <2>2. QED
    BY <1>2, <2>1, FS_Singleton DEF Times
<1>3. CASE x # e
  <2>1. Happenings(<<Once(x)>>, e) = {}
    BY <1>1, <1>3
  <2>2. QED
    BY <1>3, <2>1, FS_EmptySet DEF Times
<1>4. QED
  BY <1>2, <1>3

\* Only the event and the count of a line matter.
LEMMA TimesOfTheSame ==
  ASSUME NEW s, NEW t, NEW e, DOMAIN s = DOMAIN t,
         \A i \in DOMAIN s : s[i].event = t[i].event /\ s[i].times = t[i].times
  PROVE  Times(s, e) = Times(t, e)
<1>1. {j \in DOMAIN s : s[j].event = e} = {j \in DOMAIN t : t[j].event = e}
  OBVIOUS
<1>2. Happenings(s, e) = Happenings(t, e)
  BY <1>1 DEF Happenings
<1>3. QED
  BY <1>2 DEF Times

LEMMA TimesTogether ==
  ASSUME NEW s \in Seq(Lines), NEW t \in Seq(Lines), NEW e
  PROVE  s \o t \in Seq(Lines) /\ Times(s \o t, e) = Times(s, e) + Times(t, e)
<1> DEFINE m == Len(s)
           u == s \o t
           S == Happenings(s, e)
           T == Happenings(t, e)
           U == Happenings(u, e)
           W == {p \in U : p[1] > m}
<1>1. /\ u \in Seq(Lines) /\ Len(u) = m + Len(t)
      /\ \A i \in 1 .. m : u[i] = s[i]
      /\ \A i \in 1 .. Len(t) : u[m + i] = t[i]
  BY ConcatProperties, LinesAre
<1>2. /\ m \in Nat /\ Len(t) \in Nat /\ DOMAIN s = 1 .. m /\ DOMAIN t = 1 .. Len(t)
      /\ DOMAIN u = 1 .. m + Len(t)
  BY <1>1, LinesAre
<1>3. IsFiniteSet(S) /\ IsFiniteSet(T) /\ IsFiniteSet(U)
  BY <1>1, TimesType
<1> HIDE DEF u, m
<1>a. /\ \A p \in U : \E i \in 1 .. m + Len(t), k \in Nat \ {0} :
                        u[i].event = e /\ k <= u[i].times /\ p = <<i, k>>
      /\ \A i \in 1 .. m + Len(t), k \in Nat \ {0} :
           u[i].event = e /\ k <= u[i].times => <<i, k>> \in U
  <2>0. u \in Seq(Lines)
    BY <1>1
  <2>1. DOMAIN u = 1 .. m + Len(t)
    BY <1>2
  <2>2. ASSUME NEW p \in U
        PROVE  \E i \in DOMAIN u, k \in Nat \ {0} :
                 u[i].event = e /\ k <= u[i].times /\ p = <<i, k>>
    <3>1. p \in Happenings(u, e)
      OBVIOUS
    <3> HIDE DEF U
    <3>2. QED
      BY <2>0, <3>1, AHappening
  <2>3. \A i \in DOMAIN u, k \in Nat \ {0} :
           k <= u[i].times => <<i, k>> \in Happenings(u, u[i].event)
    BY <2>0, Happens
  <2>4. \A i \in DOMAIN u, k \in Nat \ {0} :
           u[i].event = e /\ k <= u[i].times => <<i, k>> \in U
    BY <2>3
  <2>5. QED
    BY <2>1, <2>2, <2>4
<1>4. \A p : p \in S <=> p \in U /\ p[1] <= m
  <2> TAKE p
  <2>1. ASSUME p \in S PROVE p \in U /\ p[1] <= m
    <3>1. PICK i \in 1 .. m, k \in Nat \ {0} :
            s[i].event = e /\ k <= s[i].times /\ p = <<i, k>>
      BY <1>2, <2>1, AHappening, Happens
    <3>2. i \in DOMAIN u /\ u[i] = s[i]
      BY <1>1, <1>2
    <3>3. p \in U
      BY <1>2, <3>1, <3>2, <1>a
    <3>4. QED
      BY <3>1, <3>3
  <2>2. ASSUME p \in U, p[1] <= m PROVE p \in S
    <3>1. PICK i \in 1 .. m + Len(t), k \in Nat \ {0} :
            u[i].event = e /\ k <= u[i].times /\ p = <<i, k>>
      BY <2>2, <1>a
    <3>2. i \in 1 .. m
      BY <1>2, <2>2, <3>1
    <3>3. u[i] = s[i] /\ i \in DOMAIN s
      BY <1>1, <1>2, <3>2
    <3>4. QED
      BY <3>1, <3>3, AHappening, Happens
  <2>3. QED
    BY <2>1, <2>2
<1>5. S \cup W = U /\ S \cap W = {}
  <2>1. \A p \in U : p[1] \in Nat
    <3> TAKE p \in U
    <3>1. PICK i \in 1 .. m + Len(t), k \in Nat \ {0} : p = <<i, k>>
      BY <1>a
    <3>2. QED
      BY <1>2, <3>1
  <2>2. \A p \in U : ~(p[1] <= m) <=> p[1] > m
    BY <1>2, <2>1
  <2> HIDE DEF S, U
  <2>3. QED
    BY <1>4, <2>2
<1>6. Cardinality(W) = Cardinality(T) /\ IsFiniteSet(W)
  <2> DEFINE f == [p \in T |-> <<m + p[1], p[2]>>]
  <2>1. \A p \in T : /\ p[1] \in 1 .. Len(t) /\ t[p[1]].event = e
                     /\ p[2] \in Nat \ {0} /\ p[2] <= t[p[1]].times /\ p = <<p[1], p[2]>>
    <3> TAKE p \in T
    <3>1. PICK i \in 1 .. Len(t), k \in Nat \ {0} :
            t[i].event = e /\ k <= t[i].times /\ p = <<i, k>>
      BY <1>2, AHappening, Happens
    <3>2. QED
      BY <3>1
  <2>2. \A p \in T : f[p] \in W
    <3> TAKE p \in T
    <3>1. /\ m + p[1] \in DOMAIN u /\ u[m + p[1]] = t[p[1]]
          /\ m + p[1] > m
      BY <1>1, <1>2, <2>1
    <3>2. <<m + p[1], p[2]>> \in U
      BY <1>2, <2>1, <3>1, <1>a
    <3>3. QED
      BY <3>1, <3>2
  <2>3. \A p, q \in T : f[p] = f[q] => p = q
    <3> TAKE p, q \in T
    <3>1. p[1] \in Nat /\ q[1] \in Nat /\ p = <<p[1], p[2]>> /\ q = <<q[1], q[2]>>
      BY <1>2, <2>1
    <3>2. HAVE f[p] = f[q]
    <3>3. m + p[1] = m + q[1] /\ p[2] = q[2]
      BY <3>2
    <3>4. p[1] = q[1]
      BY <1>2, <3>1, <3>3
    <3>5. QED
      BY <3>1, <3>3, <3>4
  <2>4. \A w \in W : \E p \in T : f[p] = w
    <3> TAKE w \in W
    <3>1. PICK i \in 1 .. m + Len(t), k \in Nat \ {0} :
            u[i].event = e /\ k <= u[i].times /\ w = <<i, k>>
      BY <1>a
    <3>2. i > m
      BY <3>1
    <3>3. /\ i - m \in 1 .. Len(t) /\ m + (i - m) = i
      BY <1>2, <3>2
    <3>4. u[i] = t[i - m]
      BY <1>1, <3>3
    <3>5. <<i - m, k>> \in T
      BY <1>2, <3>1, <3>3, <3>4, AHappening, Happens
    <3>6. f[<<i - m, k>>] = w
      BY <3>1, <3>3, <3>5
    <3>7. QED
      BY <3>5, <3>6
  <2>5. f \in Bijection(T, W)
    <3>1. f \in [T -> W]
      BY <2>2
    <3> HIDE DEF f, T, W
    <3>2. QED
      BY <2>3, <2>4, <3>1 DEF Bijection, Injection, Surjection, IsInjective
  <2> HIDE DEF f, T, W
  <2>6. QED
    BY <1>3, <2>5, FS_Bijection DEF ExistsBijection
<1>7. Cardinality(U) = Cardinality(S) + Cardinality(W)
  <2>0. IsFiniteSet(S) /\ IsFiniteSet(W) /\ U = S \cup W /\ S \cap W = {}
    BY <1>3, <1>5, <1>6
  <2> HIDE DEF S, W, U
  <2>1. Cardinality(S \cap W) = 0
    BY <2>0, FS_EmptySet
  <2>2. Cardinality(S) \in Nat /\ Cardinality(W) \in Nat
    BY <2>0, FS_CardinalityType
  <2>3. Cardinality(S \cup W) = Cardinality(S) + Cardinality(W) - Cardinality(S \cap W)
    BY <2>0, FS_Union
  <2>4. QED
    BY <2>0, <2>1, <2>2, <2>3
<1>8. QED
  BY <1>1, <1>6, <1>7 DEF Times, u
\* A line counts no more than there is.
LEMMA TimesCover ==
  ASSUME NEW s \in Seq(Lines), NEW i \in DOMAIN s
  PROVE  s[i].times <= Times(s, s[i].event)
<1> DEFINE n == s[i].times
           H == Happenings(s, s[i].event)
           f == [k \in 1 .. n |-> <<i, k>>]
<1>1. n \in Nat
  BY LinesAre
<1>2. IsFiniteSet(H) /\ Cardinality(H) \in Nat
  BY TimesType DEF Times
<1>3. ASSUME NEW k \in 1 .. n PROVE f[k] \in H
  BY <1>1, Happens
<1>4. f \in [1 .. n -> H]
  BY <1>3
<1>5. \A j, k \in 1 .. n : f[j] = f[k] => j = k
  OBVIOUS
<1> HIDE DEF f, H, n
<1>6. f \in Injection(1 .. n, H)
  BY <1>4, <1>5 DEF Injection, IsInjective
<1>7. Cardinality(1 .. n) <= Cardinality(H)
  BY <1>2, <1>6, FS_Injection
<1>8. Cardinality(1 .. n) = n
  BY <1>1, FS_Interval
<1>9. QED
  BY <1>7, <1>8 DEF n, H, Times

LEMMA TimesOfParts ==
  ASSUME NEW s \in Seq(Lines), NEW e, NEW m \in Nat, m <= Len(s)
  PROVE  /\ SubSeq(s, 1, m) \in Seq(Lines) /\ SubSeq(s, m + 1, Len(s)) \in Seq(Lines)
         /\ Times(s, e) = Times(SubSeq(s, 1, m), e) + Times(SubSeq(s, m + 1, Len(s)), e)
<1>1. Len(s) \in Nat
  BY LinesAre
<1>2. SubSeq(s, 1, m) \in Seq(Lines) /\ SubSeq(s, m + 1, Len(s)) \in Seq(Lines)
  BY <1>1
<1>3. SubSeq(s, 1, m) \o SubSeq(s, m + 1, Len(s)) = SubSeq(s, 1, Len(s))
  <2>1. 1 \in 1 .. Len(s) + 1 /\ m \in 1 - 1 .. Len(s) /\ Len(s) \in m .. Len(s)
    BY <1>1
  <2>2. QED
    BY <2>1, ConcatAdjacentSubSeq
<1>4. SubSeq(s, 1, Len(s)) = s
  BY SubSeqFull
<1>5. QED
  <2> DEFINE a == SubSeq(s, 1, m)
             b == SubSeq(s, m + 1, Len(s))
  <2>0. a \in Seq(Lines) /\ b \in Seq(Lines)
    BY <1>2
  <2>1. a \o b = s
    BY <1>3, <1>4
  <2> HIDE DEF a, b
  <2>2. Times(a \o b, e) = Times(a, e) + Times(b, e)
    BY <2>0, TimesTogether
  <2>3. Times(s, e) = Times(a, e) + Times(b, e)
    BY <2>1, <2>2
  <2>4. QED
    BY <1>2, <2>3 DEF a, b

\* Two positions with the same rank among the starts of the runs are in the same
\* run: no event between them differs from the one before.
LEMMA SameRunSameEvent ==
  ASSUME NEW s \in Seq(Lines), NEW starts,
         starts = {x \in DOMAIN s : x = 1 \/ s[x].event # s[x - 1].event},
         NEW i \in DOMAIN s, NEW j \in DOMAIN s, i <= j, Rank(starts, i) = Rank(starts, j)
  PROVE  s[i].event = s[j].event
<1>1. Len(s) \in Nat /\ DOMAIN s = 1 .. Len(s)
  BY LinesAre
<1>2. Positions(starts, Len(s))
  BY <1>1 DEF Positions
<1> DEFINE T == {x \in DOMAIN s : i <= x /\ x <= j /\ s[x].event # s[i].event}
<1>3. SUFFICES ASSUME T # {} PROVE FALSE
  <2>1. j \in T \/ s[i].event = s[j].event
    BY <1>1
  <2>2. QED
    BY <1>3, <2>1
<1>4. PICK m \in T : \A x \in T : m <= x
  <2>1. T \subseteq Nat /\ T # {}
    BY <1>1, <1>3
  <2> HIDE DEF T
  <2>2. QED
    BY <2>1, LeastOfNaturals
<1>5. m \in Nat /\ m # i /\ i < m /\ m - 1 \in DOMAIN s /\ i <= m - 1 /\ m - 1 <= j
  BY <1>1, <1>4
<1>6. m - 1 \notin T
  BY <1>4, <1>5
<1>7. s[m - 1].event = s[i].event
  BY <1>5, <1>6
<1>8. m \in starts
  BY <1>4, <1>5, <1>7
<1>9. Rank(starts, i) < Rank(starts, m) /\ Rank(starts, m) <= Rank(starts, j)
  BY <1>1, <1>2, <1>4, <1>5, <1>8, RankGrows
<1>10. Rank(starts, i) \in Nat /\ Rank(starts, m) \in Nat /\ Rank(starts, j) \in Nat
  <2>1. \A x \in Nat : Rank(starts, x) \in Nat
    BY <1>2, RankType
  <2>2. i \in Nat /\ m \in Nat /\ j \in Nat
    BY <1>1, <1>5
  <2>3. QED
    BY <2>1, <2>2
<1>11. QED
  BY <1>9, <1>10

\* collapse, "once with a count", for a batch of any length: every event is in
\* the lines that go out as often as in those that came in.
THEOREM CollapseKeeps ==
  ASSUME NEW s \in Seq(Lines), \A i \in DOMAIN s : s[i].times = 1
  PROVE  /\ Collapse(s) \in Seq(Lines)
         /\ \A e : Times(Collapse(s), e) = Times(s, e)
<1> DEFINE n == Len(s)
           starts == {i \in DOMAIN s : i = 1 \/ s[i].event # s[i - 1].event}
           K == Cardinality(starts)
           Run(k) == {i \in DOMAIN s : Rank(starts, i) = k}
           c == Collapse(s)
<1>1. n \in Nat /\ DOMAIN s = 1 .. n /\ \A i \in 1 .. n : s[i].event \in Kept
  BY LinesAre
<1>2. Positions(starts, n)
  BY <1>1 DEF Positions
<1>3. K \in Nat
  BY <1>2, RankType
<1>4. c = [k \in 1 .. K |-> [event |-> s[Nth(starts, k)].event,
                             times |-> Cardinality(Run(k)), readable |-> TRUE]]
  BY DEF Collapse
<1> HIDE DEF c
<1>5. \A i \in 1 .. n : Rank(starts, i) \in 1 .. K
  <2> TAKE i \in 1 .. n
  <2>1. 1 \in starts
    BY <1>1
  <2> HIDE DEF starts, K
  <2>2. Rank(starts, 0) < Rank(starts, 1) /\ Rank(starts, 1) <= Rank(starts, i)
    BY <1>2, <2>1, RankGrows
  <2>3. /\ Rank(starts, 0) \in Nat /\ Rank(starts, 1) \in Nat /\ Rank(starts, i) \in Nat
        /\ Rank(starts, i) <= K
    <3>1. \A x \in Nat : Rank(starts, x) \in Nat /\ Rank(starts, x) <= K
      BY <1>2, RankType DEF K
    <3>2. i \in Nat
      OBVIOUS
    <3>3. QED
      BY <3>1, <3>2
  <2>4. QED
    BY <1>3, <2>2, <2>3
<1>6. \A k \in 1 .. K : /\ Nth(starts, k) \in Run(k)
                        /\ \A i \in Run(k) : s[i].event = s[Nth(starts, k)].event
  <2> TAKE k \in 1 .. K
  <2>1. Nth(starts, k) \in starts /\ Rank(starts, Nth(starts, k)) = k
    <3> HIDE DEF starts
    <3>1. QED
      BY <1>2, NthIs
  <2>2. Nth(starts, k) \in Run(k)
    BY <2>1
  <2>3. ASSUME NEW i \in Run(k) PROVE s[i].event = s[Nth(starts, k)].event
    <3> DEFINE a == Nth(starts, k)
    <3>1. i \in DOMAIN s /\ a \in DOMAIN s /\ Rank(starts, i) = Rank(starts, a)
      BY <2>1
    <3> HIDE DEF a
    <3>2. i <= a \/ a <= i
      BY <1>1, <3>1
    <3>3. s[i].event = s[a].event
      BY <3>1, <3>2, SameRunSameEvent
    <3>4. QED
      BY <3>3 DEF a
  <2>4. QED
    BY <2>2, <2>3
<1>7. \A k \in Nat : Positions(Run(k), n)
  BY <1>1 DEF Positions
<1>8. \A k \in 1 .. K : Cardinality(Run(k)) \in Nat \ {0}
  <2> TAKE k \in 1 .. K
  <2>1. IsFiniteSet(Run(k)) /\ Cardinality(Run(k)) \in Nat
    <3>0. k \in Nat
      OBVIOUS
    <3> HIDE DEF Run
    <3>1. Positions(Run(k), n)
      BY <1>7, <3>0
    <3>2. QED
      BY <3>1, RankType
  <2>2. Run(k) # {}
    BY <1>6
  <2> HIDE DEF Run
  <2>3. QED
    BY <2>1, <2>2, FS_EmptySet
<1>9. c \in Seq(Lines) /\ DOMAIN c = 1 .. K
  <2>1. \A k \in 1 .. K : s[Nth(starts, k)].event \in Kept
    BY <1>1, <1>6
  <2>2. \A k \in 1 .. K : c[k] \in Lines
    <3> HIDE DEF starts, K, Run
    <3>1. QED
      BY <1>4, <1>8, <2>1 DEF Lines
  <2> HIDE DEF starts, K, Run
  <2>3. c \in [1 .. K -> Lines]
    BY <1>4, <2>2
  <2>4. QED
    BY <1>3, <2>3, IsASeq
<1>10. ASSUME NEW e PROVE Times(c, e) = Times(s, e)
  <2> DEFINE A == {i \in 1 .. n : s[i].event = e}
             place(i) == <<Rank(starts, i), Rank(Run(Rank(starts, i)), i)>>
             f == [i \in A |-> place(i)]
             C == Happenings(c, e)
             g == [i \in A |-> <<i, 1>>]
             S == Happenings(s, e)
  <2>1. \A i \in A : /\ i \in 1 .. n /\ Rank(starts, i) \in 1 .. K
                     /\ i \in Run(Rank(starts, i))
                     /\ c[Rank(starts, i)].event = e
                     /\ c[Rank(starts, i)].times = Cardinality(Run(Rank(starts, i)))
    <3> TAKE i \in A
    <3>1. Rank(starts, i) \in 1 .. K /\ i \in Run(Rank(starts, i))
      BY <1>1, <1>5
    <3>2. s[i].event = s[Nth(starts, Rank(starts, i))].event
      BY <1>6, <3>1
    <3>3. /\ c[Rank(starts, i)].event = s[Nth(starts, Rank(starts, i))].event
          /\ c[Rank(starts, i)].times = Cardinality(Run(Rank(starts, i)))
      <4> HIDE DEF starts, K, Run
      <4>1. QED
        BY <1>4, <3>1
    <3>4. QED
      BY <3>1, <3>2, <3>3
  <2>2. ASSUME NEW k \in 1 .. K, NEW i \in Run(k)
        PROVE  Rank(Run(k), i) \in Nat \ {0} /\ Rank(Run(k), i) <= Cardinality(Run(k))
    <3>0. Positions(Run(k), n)
      BY <1>7
    <3>1. Positions(Run(k), n) /\ i \in Nat /\ 0 < i
      BY <3>0, PositionsAre
    <3> HIDE DEF Run
    <3>2. Rank(Run(k), 0) < Rank(Run(k), i)
      BY <3>1, RankGrows
    <3>3. /\ Rank(Run(k), 0) \in Nat /\ Rank(Run(k), i) \in Nat
          /\ Rank(Run(k), i) <= Cardinality(Run(k))
      BY <3>1, RankType
    <3>4. QED
      BY <3>2, <3>3
  <2>3. \A i \in A : f[i] \in C
    <3> TAKE i \in A
    <3> DEFINE k == Rank(starts, i)
               p == Rank(Run(k), i)
    <3>1. k \in DOMAIN c /\ c[k].event = e /\ p \in Nat \ {0} /\ p <= c[k].times
      <4>1. k \in 1 .. K /\ i \in Run(k) /\ c[k].event = e /\ c[k].times = Cardinality(Run(k))
        BY <2>1
      <4> HIDE DEF k, Run, K
      <4>2. QED
        BY <1>9, <2>2, <4>1
    <3>2. f[i] = <<k, p>>
      OBVIOUS
    <3> HIDE DEF k, p, f
    <3>3. <<k, p>> \in Happenings(c, c[k].event)
      BY <1>9, <3>1, Happens
    <3>4. QED
      BY <3>1, <3>2, <3>3
  <2>4. \A i, j \in A : f[i] = f[j] => i = j
    <3> TAKE i, j \in A
    <3> DEFINE k == Rank(starts, i)
    <3>1. HAVE f[i] = f[j]
    <3>2. Rank(starts, j) = k /\ Rank(Run(k), i) = Rank(Run(k), j)
      BY <3>1
    <3>a. k \in 1 .. K /\ i \in Run(k)
      BY <2>1
    <3>c. i \in Nat /\ j \in Nat
      OBVIOUS
    <3>b. j \in Run(Rank(starts, j))
      BY <2>1
    <3>3. k \in 1 .. K /\ i \in Run(k) /\ j \in Run(k) /\ i \in Nat /\ j \in Nat
      BY <3>a, <3>b, <3>c, <3>2
    <3> HIDE DEF k
    <3>4. Positions(Run(k), n)
      BY <1>7, <3>3
    <3> HIDE DEF k, Run, f, A
    <3>5. ASSUME NEW x \in Run(k), NEW y \in Run(k), x \in Nat, y \in Nat, x < y
          PROVE  Rank(Run(k), x) # Rank(Run(k), y)
      <4>1. Rank(Run(k), x) < Rank(Run(k), y)
        BY <3>4, <3>5, RankGrows
      <4>2. Rank(Run(k), x) \in Nat /\ Rank(Run(k), y) \in Nat
        BY <3>4, <3>5, RankType
      <4>3. QED
        BY <4>1, <4>2
    <3>6. ~(i < j) /\ ~(j < i)
      BY <3>2, <3>3, <3>5
    <3>7. QED
      BY <3>3, <3>6
  <2>5. \A w \in C : \E i \in A : f[i] = w
    <3> TAKE w \in C
    <3>1. PICK k \in DOMAIN c, p \in Nat \ {0} :
            c[k].event = e /\ p <= c[k].times /\ w = <<k, p>>
      <4>1. c \in Seq(Lines)
        BY <1>9
      <4>2. w \in Happenings(c, e)
        OBVIOUS
      <4> HIDE DEF C
      <4>3. QED
        BY <4>1, <4>2, AHappening
    <3>2. k \in 1 .. K
      BY <1>9, <3>1
    <3>3. c[k].event = s[Nth(starts, k)].event /\ c[k].times = Cardinality(Run(k))
      <4> HIDE DEF starts, K, Run
      <4>1. QED
        BY <1>4, <3>2
    <3>4. p \in 1 .. Cardinality(Run(k))
      <4>1. Cardinality(Run(k)) \in Nat
        BY <1>8, <3>2
      <4> HIDE DEF Run
      <4>2. QED
        BY <3>1, <3>3, <4>1
    <3> DEFINE i == Nth(Run(k), p)
    <3>5. i \in Run(k) /\ Rank(Run(k), i) = p
      <4>1. Positions(Run(k), n)
        BY <1>7, <3>2
      <4> HIDE DEF Run
      <4>2. QED
        BY <3>4, <4>1, NthIs
    <3> HIDE DEF i
    <3>6. s[i].event = e
      BY <1>6, <3>1, <3>2, <3>3, <3>5
    <3>7. i \in A /\ Rank(starts, i) = k
      BY <1>1, <3>5, <3>6
    <3>8. f[i] = w
      BY <3>1, <3>5, <3>7
    <3>9. QED
      BY <3>7, <3>8
  <2>6. IsFiniteSet(A)
    <3>1. IsFiniteSet(1 .. n) /\ A \in SUBSET (1 .. n)
      BY <1>1, FS_Interval
    <3>2. QED
      BY <3>1, FS_Subset
  <2>7. Cardinality(C) = Cardinality(A)
    <3>1. f \in [A -> C]
      BY <2>3
    <3> HIDE DEF f, A, C
    <3>2. f \in Bijection(A, C)
      BY <2>4, <2>5, <3>1 DEF Bijection, Injection, Surjection, IsInjective
    <3>3. QED
      BY <2>6, <3>2, FS_Bijection DEF ExistsBijection
  <2>8. Cardinality(S) = Cardinality(A)
    <3>1. \A i \in A : <<i, 1>> \in S
      <4> TAKE i \in A
      <4>1. i \in DOMAIN s /\ s[i].event = e /\ s[i].times = 1
        BY <1>1
      <4>2. <<i, 1>> \in Happenings(s, s[i].event)
        BY <4>1, Happens
      <4>3. QED
        BY <4>1, <4>2
    <3>2. \A w \in S : \E i \in A : g[i] = w
      <4> TAKE w \in S
      <4>1. PICK i \in DOMAIN s, k \in Nat \ {0} :
              s[i].event = e /\ k <= s[i].times /\ w = <<i, k>>
        BY AHappening
      <4>2. k = 1 /\ i \in A
        BY <1>1, <4>1
      <4>3. QED
        BY <4>1, <4>2
    <3>3. \A i, j \in A : g[i] = g[j] => i = j
      OBVIOUS
    <3>4. g \in [A -> S]
      BY <3>1
    <3> HIDE DEF g, A, S
    <3>5. g \in Bijection(A, S)
      BY <3>2, <3>3, <3>4 DEF Bijection, Injection, Surjection, IsInjective
    <3>6. QED
      BY <2>6, <3>5, FS_Bijection DEF ExistsBijection
  <2>9. QED
    BY <2>7, <2>8 DEF Times
<1>11. QED
  BY <1>9, <1>10 DEF c

-----------------------------------------------------------------------------
LEMMA PositionsAreFinite ==
  ASSUME NEW n \in Nat
  PROVE  IsFiniteSet(1 .. n) /\ Cardinality(1 .. n) = n
BY FS_Interval

LEMMA LenOfOne == \A x : Len(<<x>>) = 1
OBVIOUS

USE AddersAssumption, EventsAssumption, SizeAssumption, BoundAssumption
USE DEF AddersAssumption, EventsAssumption, SizeAssumption, BoundAssumption

-----------------------------------------------------------------------------
(***************************************************************************)
(* Sequences of whatever.                                                  *)
(***************************************************************************)
IsSequence(s) == \E S : s \in Seq(S)

LEMMA FunctionsAreSequences ==
  ASSUME NEW n \in Nat, NEW f, f = [i \in 1 .. n |-> f[i]]
  PROVE  IsSequence(f) /\ Len(f) = n
<1> DEFINE S == {f[i] : i \in 1 .. n}
<1>1. f \in [1 .. n -> S]
  OBVIOUS
<1> HIDE DEF S
<1>2. f \in Seq(S)
  BY <1>1, SMT
<1>3. DOMAIN f = 1 .. Len(f) /\ Len(f) \in Nat
  BY <1>2, LenProperties
<1>4. DOMAIN f = 1 .. n
  BY <1>1
<1>5. \A i \in Nat : i \in 1 .. n <=> i \in 1 .. Len(f)
  BY <1>3, <1>4, Zenon
<1>6. n + 1 \in Nat /\ Len(f) + 1 \in Nat
  BY <1>3
<1>7. Len(f) = n
  BY <1>3, <1>5, <1>6
<1>8. QED
  BY <1>2, <1>7 DEF IsSequence

LEMMA LenIsNat == ASSUME NEW s, IsSequence(s) PROVE Len(s) \in Nat /\ DOMAIN s = 1 .. Len(s)
BY LenProperties DEF IsSequence

LEMMA OneIsSequence == ASSUME NEW x PROVE IsSequence(<<x>>) /\ IsSequence(<<>>) /\ Len(<<>>) = 0
<1>1. <<x>> \in Seq({x}) /\ <<>> \in Seq({x})
  OBVIOUS
<1>2. QED
  BY <1>1 DEF IsSequence

LEMMA EmptyIs == IsSequence(<<>>) /\ Len(<<>>) = 0
BY OneIsSequence

LEMMA TogetherTheyAre ==
  ASSUME NEW s, NEW t, IsSequence(s), IsSequence(t)
  PROVE  IsSequence(s \o t) /\ Len(s \o t) = Len(s) + Len(t)
<1>1. PICK S : s \in Seq(S)
  BY DEF IsSequence
<1>2. PICK T : t \in Seq(T)
  BY DEF IsSequence
<1> DEFINE U == S \cup T
<1>3. S \subseteq U /\ T \subseteq U
  OBVIOUS
<1> HIDE DEF U
<1>4. s \in Seq(U) /\ t \in Seq(U)
  BY <1>1, <1>2, <1>3, SeqMonotonic
<1>5. s \o t \in Seq(U) /\ Len(s \o t) = Len(s) + Len(t)
  BY <1>4, ConcatProperties
<1>6. QED
  BY <1>5 DEF IsSequence

LEMMA OneMoreIs == ASSUME NEW s, NEW x, IsSequence(s) PROVE IsSequence(Append(s, x))
<1>1. PICK S : s \in Seq(S)
  BY DEF IsSequence
<1> DEFINE U == S \cup {x}
<1>2. S \subseteq U /\ x \in U
  OBVIOUS
<1> HIDE DEF U
<1>3. s \in Seq(U)
  BY <1>1, <1>2, SeqMonotonic
<1>4. Append(s, x) \in Seq(U)
  BY <1>2, <1>3, AppendProperties
<1>5. QED
  BY <1>4 DEF IsSequence

LEMMA PartIs ==
  ASSUME NEW s, IsSequence(s), NEW m \in Nat, m <= Len(s)
  PROVE  /\ IsSequence(SubSeq(s, 1, m)) /\ Len(SubSeq(s, 1, m)) = m
         /\ IsSequence(SubSeq(s, m + 1, Len(s))) /\ Len(SubSeq(s, m + 1, Len(s))) = Len(s) - m
<1>1. PICK S : s \in Seq(S)
  BY DEF IsSequence
<1>2. Len(s) \in Nat /\ \A i \in 1 .. Len(s) : s[i] \in S
  BY <1>1, ElementOfSeq, LenProperties
<1>3. SubSeq(s, 1, m) \in Seq(S) /\ Len(SubSeq(s, 1, m)) = m
  BY <1>1, <1>2
<1>4. SubSeq(s, m + 1, Len(s)) \in Seq(S) /\ Len(SubSeq(s, m + 1, Len(s))) = Len(s) - m
  BY <1>1, <1>2
<1>5. QED
  BY <1>3, <1>4 DEF IsSequence

LEMMA CollapseIs == ASSUME NEW s, IsSequence(s) PROVE IsSequence(Collapse(s))
<1> DEFINE starts == {i \in DOMAIN s : i = 1 \/ s[i].event # s[i - 1].event}
           n == Cardinality(starts)
<1>1. n \in Nat
  <2>1. DOMAIN s = 1 .. Len(s) /\ Len(s) \in Nat
    BY LenIsNat
  <2>2. IsFiniteSet(DOMAIN s)
    BY <2>1, FS_Interval
  <2>3. starts \in SUBSET DOMAIN s
    OBVIOUS
  <2> HIDE DEF starts
  <2>4. IsFiniteSet(starts)
    BY <2>2, <2>3, FS_Subset
  <2>5. QED
    BY <2>4, FS_CardinalityType
<1> DEFINE f == Collapse(s)
<1>2. f = [i \in 1 .. n |-> f[i]]
  BY Zenon DEF Collapse
<1> HIDE DEF f, n
<1>3. IsSequence(f)
  BY <1>1, <1>2, FunctionsAreSequences
<1>4. QED
  BY <1>3 DEF f

-----------------------------------------------------------------------------
(***************************************************************************)
(* The files.                                                              *)
(***************************************************************************)
\* What the writer has in hand and on disk are sequences, and while it is at
\* the file it knows how long that is; otherwise it knows or will look.
Shaped ==
  /\ IsSequence(batch) /\ IsSequence(current) /\ IsSequence(rotated)
  /\ size \in Nat /\ (size # 0 \/ writer \in {"append", "rotate"} => size = Len(current))
  /\ Bounded

LEMMA FitsFits ==
  ASSUME Shaped
  PROVE  /\ Fits \in Nat /\ Fits <= Len(batch) /\ Fits <= Room
         /\ Room \in Nat /\ (size < FileMax => size + Room = FileMax) /\ (size >= FileMax => Room = 0)
<1>1. Len(batch) \in Nat /\ size \in Nat /\ FileMax \in Nat
  BY LenIsNat DEF Shaped
<1>2. Room \in Nat /\ (size < FileMax => size + Room = FileMax) /\ (size >= FileMax => Room = 0)
  BY <1>1 DEF Room
<1>3. ASSUME NEW a \in Nat, NEW b \in Nat
      PROVE  Min({a, b}) \in {a, b} /\ Min({a, b}) <= a /\ Min({a, b}) <= b
  <2>1. \E x \in {a, b} : \A y \in {a, b} : x <= y
    OBVIOUS
  <2>2. QED
    BY <2>1 DEF Min
<1>4. QED
  BY <1>1, <1>2, <1>3 DEF Fits

LEMMA ShapedInit == Init => Shaped
BY EmptyIs DEF Init, Shaped, Bounded

LEMMA ShapedFrame ==
  ASSUME Shaped, UNCHANGED disk, IsSequence(batch'),
         writer' \in {"append", "rotate"} => writer \in {"append", "rotate"}
  PROVE  Shaped'
BY DEF Shaped, Bounded, disk

LEMMA ShapedWriter == ASSUME Shaped, WriteLoop PROVE Shaped'
<1>0. /\ IsSequence(batch) /\ IsSequence(current) /\ IsSequence(rotated)
      /\ size \in Nat /\ Len(current) \in Nat /\ Len(current) <= FileMax
      /\ Len(rotated) <= FileMax
  BY LenIsNat DEF Shaped, Bounded
<1>1. CASE Receive
  <2>1. IsSequence(batch')
    BY <1>0, <1>1, OneIsSequence DEF Receive
  <2>2. QED
    BY <1>1, <2>1, ShapedFrame DEF Receive
<1>2. CASE Drain
  <2>1. IsSequence(batch')
    BY <1>0, <1>2, OneMoreIs DEF Drain
  <2>2. QED
    BY <1>2, <2>1, ShapedFrame DEF Drain
<1>3. CASE Collected
  <2>1. IsSequence(batch')
    BY <1>0, <1>3, CollapseIs, OneIsSequence DEF Collected
  <2>2. size' \in Nat /\ (size' # 0 \/ writer' \in {"append", "rotate"} => size' = Len(current))
    BY <1>0, <1>3 DEF Collected, Shaped
  <2>3. QED
    BY <1>0, <1>3, <2>1, <2>2 DEF Collected, Shaped, Bounded
<1>4. CASE Flush
  <2> DEFINE lines == SubSeq(batch, 1, Fits)
  <2>1. /\ Fits \in Nat /\ Fits <= Len(batch) /\ Len(batch) \in Nat
        /\ size = Len(current) /\ size + Fits <= FileMax
    BY <1>0, <1>4, FitsFits, LenIsNat DEF Flush, Shaped
  <2>2. /\ IsSequence(lines) /\ Len(lines) = Fits /\ IsSequence(batch')
    BY <1>0, <1>4, <2>1, PartIs DEF Flush
  <2>3. CASE current' = Appended(lines) /\ size' = size + Fits
    <3> DEFINE new == [i \in DOMAIN lines |->
                         [lines[i] EXCEPT !.readable = ~(ragged /\ i = 1)]]
    <3>1. DOMAIN lines = 1 .. Fits
      BY <2>2, LenIsNat
    <3> HIDE DEF lines
    <3>2. new = [i \in 1 .. Fits |-> new[i]]
      BY <3>1, Zenon
    <3>3. current' = current \o new
      BY <2>3 DEF Appended
    <3> HIDE DEF new
    <3>4. IsSequence(new) /\ Len(new) = Fits
      BY <2>1, <3>2, FunctionsAreSequences
    <3>5. IsSequence(current') /\ Len(current') = Len(current) + Fits
      BY <1>0, <3>3, <3>4, TogetherTheyAre
    <3>6. QED
      BY <1>0, <1>4, <2>1, <2>2, <2>3, <3>5 DEF Flush, Shaped, Bounded
  <2>4. CASE UNCHANGED <<current, size>>
    BY <1>0, <1>4, <2>1, <2>2, <2>4 DEF Flush, Shaped, Bounded
  <2>5. QED
    BY <1>4, <2>3, <2>4 DEF Flush
<1>5. CASE Rotate
  <2>1. CASE rotated' = current /\ current' = <<>> /\ size' = 0 /\ UNCHANGED batch
    BY <1>0, <1>5, <2>1, EmptyIs DEF Rotate, Shaped, Bounded
  <2>2. CASE UNCHANGED <<rotated, current, size>> /\ batch' = <<>>
    BY <1>0, <1>5, <2>2, OneIsSequence DEF Rotate, Shaped, Bounded
  <2>3. CASE UNCHANGED <<rotated, current, batch>> /\ size' = 0 /\ current = <<>>
    BY <1>0, <1>5, <2>3, EmptyIs DEF Rotate, Shaped, Bounded
  <2>4. QED
    BY <1>5, <2>1, <2>2, <2>3 DEF Rotate
<1>6. QED
  BY <1>1, <1>2, <1>3, <1>4, <1>5 DEF WriteLoop

LEMMA ShapedCut == ASSUME Shaped, PowerCut PROVE Shaped'
<1>0. /\ IsSequence(current) /\ IsSequence(rotated) /\ size \in Nat
      /\ Len(current) \in Nat /\ Len(current) <= FileMax /\ Len(rotated) <= FileMax
  BY LenIsNat DEF Shaped, Bounded
<1>1. /\ rotated' = rotated /\ size' = 0 /\ writer' = "idle" /\ batch' = <<>>
  BY DEF PowerCut, NewJournal
<1>2. PICK n \in 0 .. (IF writer = "append" THEN Fits ELSE 0) :
        current' = current \o
          [i \in 1 .. n |-> [batch[i] EXCEPT !.readable = i < n /\ ~(ragged /\ i = 1)]]
  BY DEF PowerCut
<1>3. n \in Nat /\ Len(current) + n <= FileMax
  BY <1>0, FitsFits DEF Shaped
<1> DEFINE new == [i \in 1 .. n |-> [batch[i] EXCEPT !.readable = i < n /\ ~(ragged /\ i = 1)]]
<1>4. new = [i \in 1 .. n |-> new[i]] /\ current' = current \o new
  BY <1>2, Zenon
<1> HIDE DEF new
<1>5. IsSequence(new) /\ Len(new) = n
  BY <1>3, <1>4, FunctionsAreSequences
<1>6. IsSequence(current') /\ Len(current') = Len(current) + n
  BY <1>0, <1>4, <1>5, TogetherTheyAre
<1>7. QED
  BY <1>0, <1>1, <1>3, <1>6, OneIsSequence DEF Shaped, Bounded

LEMMA ShapedStep == ASSUME Shaped, [Next]_vars PROVE Shaped'
<1>1. CASE \E a \in Adders : Record(a)
  BY <1>1, ShapedFrame DEF Record, Add, Offer, End, loop, Shaped
<1>2. CASE \E k \in Closers : Close(k) \/ CloseReturns(k)
  BY <1>2, ShapedFrame DEF Close, CloseReturns, loop, Shaped
<1>3. CASE Restart
  BY <1>3, OneIsSequence DEF Restart, NewJournal, Shaped, Bounded
<1>4. CASE UNCHANGED vars
  BY <1>4, ShapedFrame DEF vars, loop, Shaped
<1>5. QED
  BY <1>1, <1>2, <1>3, <1>4, ShapedWriter, ShapedCut DEF Next

\* journalMaxBytes: "Two of these exist at most", and neither of them is ever
\* longer than that, over rotations, restarts, torn lines and renames that
\* fail, whatever is recorded and however long the batches are.
THEOREM FilesAreBounded == Spec => []Bounded
<1>1. Init => Shaped
  BY ShapedInit
<1>2. Shaped /\ [Next]_vars => Shaped'
  BY ShapedStep
<1>3. Shaped => Bounded
  BY DEF Shaped
<1>4. QED
  BY <1>1, <1>2, <1>3, PTL DEF Spec

-----------------------------------------------------------------------------
(***************************************************************************)
(* Close.                                                                  *)
(***************************************************************************)
\* A writer at rest has nothing in hand, one that has seen the queue closed
\* finds nothing more in it, and only one that has stopped lets Close return.
Emptied ==
  /\ closer \in [Closers -> {"away", "waiting", "returned"}] /\ {closed, last} \subseteq BOOLEAN
  /\ writer = "idle" => batch = <<>>
  /\ writer \in {"append", "rotate"} /\ last => closed /\ writes = <<>>
  /\ writer = "stopped" => closed /\ writes = <<>> /\ batch = <<>>
  /\ \A k \in Closers : closer[k] = "returned" => writer = "stopped"

LEMMA EmptiedInit == Init => Emptied
BY DEF Init, Emptied

LEMMA EmptiedStep == ASSUME Emptied, [Next]_vars PROVE Emptied'
<1>1. CASE \E a \in Adders : Record(a)
  <2>1. PICK a \in Adders : (\E e \in Events : Add(a, e)) \/ Offer(a) \/ End(a)
    BY <1>1 DEF Record
  <2>2. UNCHANGED <<closed, closer, loop>> /\ (writes' = writes \/ ~closed)
    BY <2>1 DEF Add, Offer, End, queue
  <2>3. QED
    BY <2>2 DEF Emptied, loop
<1>2. CASE \E k \in Closers : Close(k) \/ CloseReturns(k)
  <2>1. PICK k \in Closers : Close(k) \/ CloseReturns(k)
    BY <1>2
  <2>2. CASE Close(k)
    BY <2>2 DEF Close, Emptied, loop
  <2>3. CASE CloseReturns(k)
    BY <2>3 DEF CloseReturns, Emptied, loop
  <2>4. QED
    BY <2>1, <2>2, <2>3
<1>3. CASE Receive
  BY <1>3 DEF Receive, Emptied
<1>4. CASE Drain
  BY <1>4 DEF Drain, Emptied
<1>5. CASE Collected
  BY <1>5 DEF Collected, Emptied, queue
<1>6. CASE Flush
  <2>1. /\ writer = "append" /\ UNCHANGED <<queue, last>>
        /\ writer' = IF batch' # <<>> THEN "rotate" ELSE Done
    BY <1>6 DEF Flush
  <2>2. QED
    BY <2>1 DEF Emptied, queue, Done
<1>7. CASE Rotate
  <2>1. /\ writer = "rotate" /\ UNCHANGED <<queue, last>>
        /\ writer' = "append" \/ (batch' = <<>> /\ writer' = Done)
    BY <1>7 DEF Rotate
  <2>2. QED
    BY <2>1 DEF Emptied, queue, Done
<1>8. CASE Restart \/ PowerCut
  BY <1>8 DEF Restart, PowerCut, NewJournal, Emptied
<1>9. CASE UNCHANGED vars
  BY <1>9 DEF vars, Emptied, queue, loop
<1>10. QED
  BY <1>1, <1>2, <1>3, <1>4, <1>5, <1>6, <1>7, <1>8, <1>9 DEF Next, WriteLoop

\* Close: when a call of it has returned, nothing is queued and nothing is in
\* the writer's hands, however many call it and whatever has failed.
THEOREM CloseLeavesNothing == Spec => []NothingLeftBehind
<1>1. Init => Emptied
  BY EmptiedInit
<1>2. Emptied /\ [Next]_vars => Emptied'
  BY EmptiedStep
<1>3. Emptied => NothingLeftBehind
  BY DEF Emptied, NothingLeftBehind
<1>4. QED
  BY <1>1, <1>2, <1>3, PTL DEF Spec

LEMMA OnceIs == ASSUME NEW x \in Kept PROVE Once(x) \in Lines /\ Once(x).times = 1
BY DEF Once, Lines

LEMMA OneLineIs == ASSUME NEW x \in Kept PROVE <<Once(x)>> \in Seq(Lines) /\ <<>> \in Seq(Lines)
BY OnceIs

LEMMA AsLinesAre ==
  ASSUME NEW w \in Seq(Kept)
  PROVE  AsLines(w) \in Seq(Lines) /\ Len(AsLines(w)) = Len(w)
<1>1. Len(w) \in Nat /\ DOMAIN w = 1 .. Len(w) /\ \A i \in 1 .. Len(w) : w[i] \in Kept
  BY LenProperties, ElementOfSeq
<1>2. AsLines(w) = [i \in 1 .. Len(w) |-> Once(w[i])]
  BY <1>1 DEF AsLines
<1>3. AsLines(w) \in [1 .. Len(w) -> Lines]
  BY <1>1, <1>2, OnceIs
<1>4. QED
  BY <1>1, <1>3, IsASeq

LEMMA FirstOfAsLines ==
  ASSUME NEW w \in Seq(Kept), w # <<>>, NEW e
  PROVE  /\ Head(w) \in Kept /\ Tail(w) \in Seq(Kept)
         /\ Times(AsLines(w), e) = Times(<<Once(Head(w))>>, e) + Times(AsLines(Tail(w)), e)
<1> DEFINE h == <<Once(Head(w))>>
           t == AsLines(Tail(w))
<1>1. /\ Head(w) \in Kept /\ Tail(w) \in Seq(Kept) /\ Len(Tail(w)) = Len(w) - 1
      /\ \A i \in 1 .. Len(Tail(w)) : Tail(w)[i] = w[i + 1]
  BY HeadTailProperties
<1>2. /\ Len(w) \in Nat \ {0} /\ DOMAIN w = 1 .. Len(w)
      /\ DOMAIN Tail(w) = 1 .. Len(w) - 1 /\ Head(w) = w[1]
  BY <1>1, LenProperties
<1>3. h \in Seq(Lines) /\ Len(h) = 1 /\ h[1] = Once(w[1])
  BY <1>1, <1>2, OneLineIs
<1>4. t \in Seq(Lines) /\ Len(t) = Len(w) - 1
  BY <1>1, AsLinesAre
<1>5. \A i \in 1 .. Len(w) - 1 : t[i] = Once(w[i + 1])
  BY <1>1, <1>2 DEF AsLines
<1>6. AsLines(w) \in Seq(Lines) /\ Len(AsLines(w)) = Len(w)
  BY AsLinesAre
<1>7. \A i \in 1 .. Len(w) : AsLines(w)[i] = Once(w[i])
  BY <1>2 DEF AsLines
<1> HIDE DEF h, t
<1>8. /\ h \o t \in Seq(Lines) /\ Len(h \o t) = Len(w) /\ (h \o t)[1] = h[1]
      /\ \A i \in 1 .. Len(w) - 1 : (h \o t)[1 + i] = t[i]
  <2>0. h \in Seq(Lines) /\ t \in Seq(Lines)
    BY <1>3, <1>4
  <2>1. /\ h \o t \in Seq(Lines) /\ Len(h \o t) = Len(h) + Len(t)
        /\ \A i \in 1 .. Len(h) + Len(t) :
             (h \o t)[i] = IF i <= Len(h) THEN h[i] ELSE t[i - Len(h)]
    BY <2>0, ConcatProperties
  <2>2. QED
    BY <1>2, <1>3, <1>4, <2>1
<1>9. \A i \in 1 .. Len(w) : (h \o t)[i] = AsLines(w)[i]
  <2> TAKE i \in 1 .. Len(w)
  <2>1. CASE i = 1
    BY <1>3, <1>7, <1>8, <2>1
  <2>2. CASE i # 1
    <3>1. i - 1 \in 1 .. Len(w) - 1 /\ 1 + (i - 1) = i /\ (i - 1) + 1 = i
      BY <1>2, <2>2
    <3>2. (h \o t)[i] = t[i - 1] /\ t[i - 1] = Once(w[i])
      BY <1>5, <1>8, <3>1
    <3>3. QED
      BY <1>7, <3>2
  <2>3. QED
    BY <2>1, <2>2
<1>10. h \o t = AsLines(w)
  BY <1>6, <1>8, <1>9, SeqEqual
<1>11. Times(h \o t, e) = Times(h, e) + Times(t, e)
  BY <1>3, <1>4, TimesTogether
<1>12. QED
  BY <1>1, <1>10, <1>11 DEF h, t

LEMMA OneMoreAsLine ==
  ASSUME NEW w \in Seq(Kept), NEW x \in Kept, NEW e
  PROVE  /\ Append(w, x) \in Seq(Kept)
         /\ Times(AsLines(Append(w, x)), e) = Times(AsLines(w), e) + Times(<<Once(x)>>, e)
<1> DEFINE a == Append(w, x)
           s == AsLines(w)
           h == <<Once(x)>>
<1>1. /\ a \in Seq(Kept) /\ Len(a) = Len(w) + 1 /\ Len(w) \in Nat
      /\ \A i \in 1 .. Len(w) : a[i] = w[i]
      /\ a[Len(w) + 1] = x
  BY AppendProperties, LenProperties
<1>2. DOMAIN a = 1 .. Len(w) + 1 /\ DOMAIN w = 1 .. Len(w)
  BY <1>1, LenProperties
<1> HIDE DEF a
<1>3. h \in Seq(Lines) /\ Len(h) = 1 /\ h[1] = Once(x)
  BY OneLineIs
<1>4. s \in Seq(Lines) /\ Len(s) = Len(w)
  BY AsLinesAre
<1>5. \A i \in 1 .. Len(w) : s[i] = Once(w[i])
  BY <1>2 DEF AsLines
<1>6. AsLines(a) \in Seq(Lines) /\ Len(AsLines(a)) = Len(w) + 1
  BY <1>1, AsLinesAre
<1>7. \A i \in 1 .. Len(w) + 1 : AsLines(a)[i] = Once(a[i])
  BY <1>2 DEF AsLines
<1> HIDE DEF h, s
<1>8. /\ s \o h \in Seq(Lines) /\ Len(s \o h) = Len(w) + 1 /\ (s \o h)[Len(w) + 1] = h[1]
      /\ \A i \in 1 .. Len(w) : (s \o h)[i] = s[i]
  <2>0. s \in Seq(Lines) /\ h \in Seq(Lines)
    BY <1>3, <1>4
  <2>1. /\ s \o h \in Seq(Lines) /\ Len(s \o h) = Len(s) + Len(h)
        /\ \A i \in 1 .. Len(s) + Len(h) :
             (s \o h)[i] = IF i <= Len(s) THEN s[i] ELSE h[i - Len(s)]
    BY <2>0, ConcatProperties
  <2>2. QED
    BY <1>1, <1>3, <1>4, <2>1
<1>9. \A i \in 1 .. Len(w) + 1 : (s \o h)[i] = AsLines(a)[i]
  <2> TAKE i \in 1 .. Len(w) + 1
  <2>1. CASE i = Len(w) + 1
    BY <1>1, <1>3, <1>7, <1>8, <2>1
  <2>2. CASE i # Len(w) + 1
    <3>1. i \in 1 .. Len(w)
      BY <1>1, <2>2
    <3>2. QED
      BY <1>1, <1>5, <1>7, <1>8, <3>1
  <2>3. QED
    BY <2>1, <2>2
<1>10. s \o h = AsLines(a)
  BY <1>1, <1>6, <1>8, <1>9, SeqEqual
<1>11. Times(s \o h, e) = Times(s, e) + Times(h, e)
  BY <1>3, <1>4, TimesTogether
<1>12. QED
  BY <1>1, <1>10, <1>11 DEF a, h, s

LEMMA OneMoreLine ==
  ASSUME NEW b \in Seq(Lines), NEW x \in Kept, NEW e
  PROVE  /\ Append(b, Once(x)) \in Seq(Lines)
         /\ Times(Append(b, Once(x)), e) = Times(b, e) + Times(<<Once(x)>>, e)
<1>1. Once(x) \in Lines /\ <<Once(x)>> \in Seq(Lines)
  BY OnceIs, OneLineIs
<1>2. Append(b, Once(x)) = b \o <<Once(x)>> /\ Append(b, Once(x)) \in Seq(Lines)
  BY <1>1, AppendIsConcat, AppendProperties
<1>3. Times(b \o <<Once(x)>>, e) = Times(b, e) + Times(<<Once(x)>>, e)
  BY <1>1, TimesTogether
<1>4. QED
  BY <1>2, <1>3

\* Whether a line can be read makes no difference to what it counts.
LEMMA LabelsDoNotCount ==
  ASSUME NEW s \in Seq(Lines), NEW t, t = [i \in DOMAIN s |-> t[i]],
         \A i \in DOMAIN s : t[i] \in Lines /\ t[i].event = s[i].event /\ t[i].times = s[i].times
  PROVE  t \in Seq(Lines) /\ Len(t) = Len(s) /\ \A e : Times(t, e) = Times(s, e)
<1>1. Len(s) \in Nat /\ DOMAIN s = 1 .. Len(s) /\ DOMAIN t = DOMAIN s
  BY LinesAre
<1>2. t \in [1 .. Len(s) -> Lines]
  BY <1>1
<1>3. t \in Seq(Lines)
  BY <1>1, <1>2, IsASeq
<1>4. Len(t) = Len(s)
  BY <1>1, <1>2
<1>5. \A e : Times(t, e) = Times(s, e)
  BY <1>1, TimesOfTheSame
<1>6. QED
  BY <1>3, <1>4, <1>5
-----------------------------------------------------------------------------
(***************************************************************************)
(* The books.                                                              *)
(***************************************************************************)
\* What there is of an event: in hand, waiting, on disk, lost.
OnRecord(e) ==
  Times(batch, e) + Times(AsLines(writes), e) + Times(rotated, e) + Times(current, e)

\* Everything is made of lines that count; those of a batch that is still being
\* collected count once; and the books balance.
Books ==
  /\ batch \in Seq(Lines) /\ current \in Seq(Lines) /\ rotated \in Seq(Lines)
  /\ writes \in Seq(Kept) /\ taken \in [Kept -> Nat] /\ missing \in [Kept -> Nat]
  /\ adding \in [Adders -> Kept \cup {NoEvent}] /\ ended \subseteq Adders
  /\ writer = "draining" => \A i \in DOMAIN batch : batch[i].times = 1
  /\ \A e \in Kept : taken[e] = OnRecord(e) + missing[e]

LEMMA BooksAreNumbers ==
  ASSUME NEW b \in Seq(Lines), NEW r \in Seq(Lines), NEW c \in Seq(Lines),
         NEW w \in Seq(Kept), NEW e
  PROVE  /\ Times(b, e) \in Nat /\ Times(AsLines(w), e) \in Nat
         /\ Times(r, e) \in Nat /\ Times(c, e) \in Nat
         /\ Times(b \o AsLines(w), e) = Times(b, e) + Times(AsLines(w), e)
         /\ Times(r \o c, e) = Times(r, e) + Times(c, e)
<1>1. AsLines(w) \in Seq(Lines)
  BY AsLinesAre
<1>2. /\ Times(b, e) \in Nat /\ Times(AsLines(w), e) \in Nat
      /\ Times(r, e) \in Nat /\ Times(c, e) \in Nat
  BY <1>1, TimesType
<1>3. Times(b \o AsLines(w), e) = Times(b, e) + Times(AsLines(w), e)
  BY <1>1, TimesTogether
<1>4. Times(r \o c, e) = Times(r, e) + Times(c, e)
  BY TimesTogether
<1>5. QED
  BY <1>2, <1>3, <1>4

LEMMA BooksNow ==
  ASSUME Books, NEW e \in Kept
  PROVE  /\ Times(batch, e) \in Nat /\ Times(AsLines(writes), e) \in Nat
         /\ Times(rotated, e) \in Nat /\ Times(current, e) \in Nat
         /\ missing[e] \in Nat /\ taken[e] \in Nat
         /\ taken[e] = Times(batch, e) + Times(AsLines(writes), e) + Times(rotated, e)
                         + Times(current, e) + missing[e]
         /\ InHand(e) = Times(batch, e) + Times(AsLines(writes), e)
<1>1. /\ Times(batch, e) \in Nat /\ Times(AsLines(writes), e) \in Nat
      /\ Times(rotated, e) \in Nat /\ Times(current, e) \in Nat
      /\ Times(batch \o AsLines(writes), e) = Times(batch, e) + Times(AsLines(writes), e)
  BY BooksAreNumbers DEF Books
<1>2. missing[e] \in Nat /\ taken[e] \in Nat /\ taken[e] = OnRecord(e) + missing[e]
  BY DEF Books
<1>3. QED
  BY <1>1, <1>2 DEF OnRecord, InHand

LEMMA BooksInit == Init => Books
<1> SUFFICES ASSUME Init PROVE Books
  OBVIOUS
<1>1. /\ batch = <<>> /\ current = <<>> /\ rotated = <<>> /\ writes = <<>> /\ writer = "idle"
      /\ taken = [e \in Kept |-> 0] /\ missing = [e \in Kept |-> 0]
      /\ adding = [a \in Adders |-> NoEvent] /\ ended = {}
  BY DEF Init
<1>2. <<>> \in Seq(Lines) /\ <<>> \in Seq(Kept) /\ AsLines(<<>>) = <<>>
  BY DEF AsLines
<1>3. \A e \in Kept : OnRecord(e) = 0
  BY <1>1, <1>2, TimesOfNothing DEF OnRecord
<1>4. QED
  BY <1>1, <1>2, <1>3 DEF Books

LEMMA BooksFrame ==
  ASSUME Books, UNCHANGED <<batch, current, rotated, writes, taken, missing>>,
         adding' \in [Adders -> Kept \cup {NoEvent}], ended' \subseteq Adders,
         writer' = "draining" => writer = "draining"
  PROVE  Books'
<1>1. \A e \in Kept : OnRecord(e)' = OnRecord(e)
  BY DEF OnRecord
<1>2. QED
  BY <1>1 DEF Books

LEMMA BooksAdders ==
  ASSUME Books, NEW a \in Adders, Record(a)
  PROVE  Books'
<1>1. CASE \E e \in Events : Add(a, e)
  <2>1. PICK e \in Events : Add(a, e)
    BY <1>1
  <2>2. adding' \in [Adders -> Kept \cup {NoEvent}]
    BY <2>1 DEF Add, Books
  <2>3. QED
    BY <2>1, <2>2, BooksFrame DEF Add, Books, loop, disk, queue
<1>2. CASE Offer(a)
  <2> DEFINE x == adding[a]
  <2>1. /\ adding' = [adding EXCEPT ![a] = NoEvent] /\ x # NoEvent
        /\ UNCHANGED <<batch, current, rotated, missing, writer, ended>>
    BY <1>2 DEF Offer, loop, disk
  <2>2. x \in Kept /\ adding' \in [Adders -> Kept \cup {NoEvent}]
    BY <2>1 DEF Books
  <2>3. CASE UNCHANGED <<writes, taken>>
    BY <2>1, <2>2, <2>3, BooksFrame DEF Books
  <2>4. CASE writes' = Append(writes, x) /\ taken' = [taken EXCEPT ![x] = @ + 1]
    <3> HIDE DEF x
    <3>1. writes' \in Seq(Kept) /\ taken' \in [Kept -> Nat]
      BY <2>2, <2>4, OneMoreAsLine DEF Books
    <3>2. ASSUME NEW e \in Kept
          PROVE  taken[e]' = OnRecord(e)' + missing[e]'
      <4>1. /\ Times(AsLines(writes'), e) = Times(AsLines(writes), e) + Times(<<Once(x)>>, e)
            /\ Times(<<Once(x)>>, e) = IF x = e THEN 1 ELSE 0
        BY <2>2, <2>4, OneMoreAsLine, TimesOfOne DEF Books
      <4>2. taken'[e] = taken[e] + (IF x = e THEN 1 ELSE 0)
        BY <2>2, <2>4 DEF Books
      <4>3. OnRecord(e)' = Times(batch, e) + Times(AsLines(writes'), e)
                             + Times(rotated, e) + Times(current, e)
        BY <2>1 DEF OnRecord
      <4>4. QED
        BY <2>1, <4>1, <4>2, <4>3, BooksNow
    <3>3. QED
      BY <2>1, <2>2, <3>1, <3>2 DEF Books
  <2>5. QED
    BY <1>2, <2>3, <2>4 DEF Offer
<1>3. CASE End(a)
  BY <1>3, BooksFrame DEF End, Books, loop, disk, queue
<1>4. QED
  BY <1>1, <1>2, <1>3 DEF Record

LEMMA BooksReceive == ASSUME Books, Emptied, Receive PROVE Books'
<1>1. UNCHANGED <<current, rotated, taken, missing, adding, ended>> /\ writer = "idle"
  BY DEF Receive, disk, adders
<1>2. batch = <<>>
  BY <1>1 DEF Emptied
<1>3. CASE UNCHANGED <<batch, writes>> /\ writer' = "stopped"
  BY <1>1, <1>3, BooksFrame DEF Books
<1>4. CASE /\ writes # <<>> /\ batch' = <<Once(Head(writes))>> /\ writes' = Tail(writes)
           /\ writer' = "draining"
  <2> DEFINE h == Head(writes)
  <2>1. h \in Kept /\ writes' \in Seq(Kept)
    BY <1>4, FirstOfAsLines DEF Books
  <2>2. batch' \in Seq(Lines) /\ \A i \in DOMAIN batch' : batch'[i].times = 1
    BY <1>4, <2>1, OnceIs, OneLineIs
  <2>3. ASSUME NEW e \in Kept
        PROVE  taken[e]' = OnRecord(e)' + missing[e]'
    <3>1. Times(AsLines(writes), e) = Times(<<Once(h)>>, e) + Times(AsLines(writes'), e)
      BY <1>4, FirstOfAsLines DEF Books
    <3>2. Times(<<Once(h)>>, e) \in Nat /\ Times(AsLines(writes'), e) \in Nat
      BY <2>1, OneLineIs, AsLinesAre, TimesType
    <3>3. Times(batch, e) = 0
      BY <1>2, TimesOfNothing
    <3>4. OnRecord(e)' = Times(<<Once(h)>>, e) + Times(AsLines(writes'), e)
                           + Times(rotated, e) + Times(current, e)
      BY <1>1, <1>4 DEF OnRecord
    <3>5. QED
      BY <1>1, <3>1, <3>2, <3>3, <3>4, BooksNow
  <2>4. QED
    BY <1>1, <2>1, <2>2, <2>3 DEF Books
<1>5. QED
  BY <1>3, <1>4 DEF Receive

LEMMA BooksDrain == ASSUME Books, Drain PROVE Books'
<1> DEFINE h == Head(writes)
<1>1. /\ UNCHANGED <<current, rotated, taken, missing, writer, adding, ended>>
      /\ writer = "draining" /\ writes # <<>>
      /\ batch' = Append(batch, Once(h)) /\ writes' = Tail(writes)
  BY DEF Drain, disk, adders
<1>2. h \in Kept /\ writes' \in Seq(Kept)
  BY <1>1, FirstOfAsLines DEF Books
<1>3. batch' \in Seq(Lines) /\ \A i \in DOMAIN batch' : batch'[i].times = 1
  <2>1. Once(h) \in Lines /\ Once(h).times = 1
    BY <1>2, OnceIs
  <2>2. batch \in Seq(Lines) /\ \A i \in DOMAIN batch : batch[i].times = 1
    BY <1>1 DEF Books
  <2>3. Len(batch) \in Nat /\ DOMAIN batch = 1 .. Len(batch)
    BY <2>2, LinesAre
  <2>4. /\ batch' \in Seq(Lines) /\ Len(batch') = Len(batch) + 1
        /\ \A i \in 1 .. Len(batch) : batch'[i] = batch[i]
        /\ batch'[Len(batch) + 1] = Once(h)
    BY <1>1, <2>1, <2>2, AppendProperties
  <2>5. DOMAIN batch' = 1 .. Len(batch) + 1
    BY <2>4, LinesAre
  <2> HIDE DEF h
  <2>6. QED
    BY <2>1, <2>2, <2>3, <2>4, <2>5
<1> HIDE DEF h
<1>4. ASSUME NEW e \in Kept
      PROVE  taken[e]' = OnRecord(e)' + missing[e]'
  <2>1. Times(AsLines(writes), e) = Times(<<Once(h)>>, e) + Times(AsLines(writes'), e)
    BY <1>1, FirstOfAsLines DEF Books, h
  <2>2. Times(batch', e) = Times(batch, e) + Times(<<Once(h)>>, e)
    BY <1>1, <1>2, OneMoreLine DEF Books
  <2>3. Times(<<Once(h)>>, e) \in Nat /\ Times(AsLines(writes'), e) \in Nat
    BY <1>2, OneLineIs, AsLinesAre, TimesType
  <2>4. OnRecord(e)' = Times(batch', e) + Times(AsLines(writes'), e)
                         + Times(rotated, e) + Times(current, e)
    BY <1>1 DEF OnRecord
  <2>5. QED
    BY <1>1, <2>1, <2>2, <2>3, <2>4, BooksNow
<1>5. QED
  BY <1>1, <1>2, <1>3, <1>4 DEF Books

\* A batch that is lost goes from the one side of the books to the other.
LEMMA LoseIsBooked ==
  ASSUME Books, NEW s \in Seq(Lines), Lose(s)
  PROVE  missing' \in [Kept -> Nat] /\ \A e \in Kept : missing'[e] = missing[e] + Times(s, e)
<1>1. missing' = [e \in Kept |-> missing[e] + Times(s, e)]
  BY DEF Lose
<1>2. \A e \in Kept : missing[e] + Times(s, e) \in Nat
  BY TimesType DEF Books
<1>3. QED
  BY <1>1, <1>2

LEMMA NoLines == <<>> \in Seq(Lines) /\ \A e : Times(<<>>, e) = 0
BY TimesOfNothing

LEMMA BooksCollected == ASSUME Books, Collected PROVE Books'
<1>1. /\ UNCHANGED <<current, rotated, writes, taken, adding, ended>>
      /\ writer = "draining" /\ writer' # "draining"
  BY DEF Collected, queue, adders
<1>2. batch \in Seq(Lines) /\ \A i \in DOMAIN batch : batch[i].times = 1
  BY <1>1 DEF Books
<1>3. CASE batch' = Collapse(batch) /\ UNCHANGED missing
  <2>1. batch' \in Seq(Lines) /\ \A e : Times(batch', e) = Times(batch, e)
    BY <1>2, <1>3, CollapseKeeps
  <2>2. \A e \in Kept : OnRecord(e)' = OnRecord(e)
    BY <1>1, <2>1 DEF OnRecord
  <2>3. QED
    BY <1>1, <1>3, <2>1, <2>2 DEF Books
<1>4. CASE Lose(batch) /\ batch' = <<>>
  <2>1. missing' \in [Kept -> Nat] /\ \A e \in Kept : missing'[e] = missing[e] + Times(batch, e)
    BY <1>2, <1>4, LoseIsBooked
  <2>2. ASSUME NEW e \in Kept
        PROVE  taken[e]' = OnRecord(e)' + missing[e]'
    <3>1. OnRecord(e)' = Times(batch', e) + Times(AsLines(writes), e)
                           + Times(rotated, e) + Times(current, e)
      BY <1>1 DEF OnRecord
    <3>2. Times(batch', e) = 0
      BY <1>4, NoLines
    <3>3. QED
      BY <1>1, <2>1, <3>1, <3>2, BooksNow
  <2>3. QED
    BY <1>1, <1>4, <2>1, <2>2, NoLines DEF Books
<1>5. QED
  BY <1>3, <1>4 DEF Collected

LEMMA AppendedCounts ==
  ASSUME NEW s \in Seq(Lines), current \in Seq(Lines), ragged \in BOOLEAN
  PROVE  /\ Appended(s) \in Seq(Lines)
         /\ \A e : Times(Appended(s), e) = Times(current, e) + Times(s, e)
<1> DEFINE t == [i \in DOMAIN s |-> [s[i] EXCEPT !.readable = ~(ragged /\ i = 1)]]
<1>1. t = [i \in DOMAIN s |-> t[i]]
  OBVIOUS
<1>2. \A i \in DOMAIN s : t[i] \in Lines /\ t[i].event = s[i].event /\ t[i].times = s[i].times
  <2> TAKE i \in DOMAIN s
  <2>1. s[i] \in Lines
    BY LinesAre
  <2>2. ASSUME NEW r \in BOOLEAN, NEW l \in Lines
        PROVE  /\ [l EXCEPT !.readable = r] \in Lines
               /\ [l EXCEPT !.readable = r].event = l.event
               /\ [l EXCEPT !.readable = r].times = l.times
    BY DEF Lines
  <2>3. QED
    BY <2>1, <2>2
<1>3. Appended(s) = current \o t
  BY DEF Appended
<1> HIDE DEF t
<1>4. t \in Seq(Lines) /\ \A e : Times(t, e) = Times(s, e)
  BY <1>1, <1>2, LabelsDoNotCount
<1>5. QED
  BY <1>3, <1>4, TimesTogether

LEMMA BooksFlush == ASSUME Books, Shaped, Flush, ragged \in BOOLEAN PROVE Books'
<1> DEFINE lines == SubSeq(batch, 1, Fits)
<1>1. /\ UNCHANGED <<rotated, writes, taken, adding, ended>> /\ writer' # "draining"
      /\ batch' = SubSeq(batch, Fits + 1, Len(batch))
  BY DEF Flush, queue, adders, Done
<1>2. Fits \in Nat /\ Fits <= Len(batch) /\ batch \in Seq(Lines) /\ current \in Seq(Lines)
  BY FitsFits DEF Books
<1>3. /\ lines \in Seq(Lines) /\ batch' \in Seq(Lines)
      /\ \A e : Times(batch, e) = Times(lines, e) + Times(batch', e)
  BY <1>1, <1>2, TimesOfParts
<1>4. \A e : Times(lines, e) \in Nat /\ Times(batch', e) \in Nat
  BY <1>3, TimesType
<1>5. CASE current' = Appended(lines) /\ UNCHANGED missing
  <2> HIDE DEF lines
  <2>1. /\ current' \in Seq(Lines)
        /\ \A e : Times(current', e) = Times(current, e) + Times(lines, e)
    BY <1>2, <1>3, <1>5, AppendedCounts
  <2>2. ASSUME NEW e \in Kept
        PROVE  taken[e]' = OnRecord(e)' + missing[e]'
    <3>1. OnRecord(e)' = Times(batch', e) + Times(AsLines(writes), e)
                           + Times(rotated, e) + Times(current', e)
      BY <1>1 DEF OnRecord
    <3>2. /\ Times(batch, e) = Times(lines, e) + Times(batch', e)
          /\ Times(current', e) = Times(current, e) + Times(lines, e)
          /\ Times(lines, e) \in Nat /\ Times(batch', e) \in Nat
      BY <1>3, <1>4, <2>1
    <3>3. /\ Times(AsLines(writes), e) \in Nat /\ Times(rotated, e) \in Nat
          /\ Times(current, e) \in Nat /\ missing[e] \in Nat
          /\ taken[e] = Times(batch, e) + Times(AsLines(writes), e) + Times(rotated, e)
                          + Times(current, e) + missing[e]
      BY BooksNow
    <3>4. taken'[e] = taken[e] /\ missing'[e] = missing[e]
      BY <1>1, <1>5
    <3>5. QED
      BY <3>1, <3>2, <3>3, <3>4
  <2>3. QED
    BY <1>1, <1>3, <1>5, <2>1, <2>2 DEF Books
<1>6. CASE Lose(lines) /\ UNCHANGED current
  <2> HIDE DEF lines
  <2>1. missing' \in [Kept -> Nat] /\ \A e \in Kept : missing'[e] = missing[e] + Times(lines, e)
    BY <1>3, <1>6, LoseIsBooked
  <2>2. ASSUME NEW e \in Kept
        PROVE  taken[e]' = OnRecord(e)' + missing[e]'
    <3>1. OnRecord(e)' = Times(batch', e) + Times(AsLines(writes), e)
                           + Times(rotated, e) + Times(current, e)
      BY <1>1, <1>6 DEF OnRecord
    <3>2. /\ Times(batch, e) = Times(lines, e) + Times(batch', e)
          /\ Times(lines, e) \in Nat /\ Times(batch', e) \in Nat
      BY <1>3, <1>4
    <3>3. missing'[e] = missing[e] + Times(lines, e) /\ taken' = taken
      BY <1>1, <2>1
    <3>4. QED
      BY <3>1, <3>2, <3>3, BooksNow
  <2>3. QED
    BY <1>1, <1>3, <1>6, <2>1, <2>2 DEF Books
<1>7. QED
  BY <1>5, <1>6 DEF Flush

LEMMA BooksRotate == ASSUME Books, Rotate PROVE Books'
<1>1. UNCHANGED <<writes, taken, adding, ended>> /\ writer = "rotate" /\ writer' # "draining"
  BY DEF Rotate, queue, adders, Done
<1>2. CASE rotated' = current /\ current' = <<>> /\ Lose(rotated) /\ UNCHANGED batch
  <2>1. missing' \in [Kept -> Nat] /\ \A e \in Kept : missing'[e] = missing[e] + Times(rotated, e)
    BY <1>2, LoseIsBooked DEF Books
  <2>2. ASSUME NEW e \in Kept
        PROVE  taken[e]' = OnRecord(e)' + missing[e]'
    <3>1. OnRecord(e)' = Times(batch, e) + Times(AsLines(writes), e)
                           + Times(current, e) + Times(current', e)
      BY <1>1, <1>2 DEF OnRecord
    <3>2. Times(current', e) = 0
      BY <1>2, NoLines
    <3>3. QED
      BY <1>1, <2>1, <3>1, <3>2, BooksNow
  <2>3. QED
    BY <1>1, <1>2, <2>1, <2>2, NoLines DEF Books
<1>3. CASE Lose(batch) /\ batch' = <<>> /\ UNCHANGED <<rotated, current>>
  <2>1. missing' \in [Kept -> Nat] /\ \A e \in Kept : missing'[e] = missing[e] + Times(batch, e)
    BY <1>3, LoseIsBooked DEF Books
  <2>2. ASSUME NEW e \in Kept
        PROVE  taken[e]' = OnRecord(e)' + missing[e]'
    <3>1. OnRecord(e)' = Times(batch', e) + Times(AsLines(writes), e)
                           + Times(rotated, e) + Times(current, e)
      BY <1>1, <1>3 DEF OnRecord
    <3>2. Times(batch', e) = 0
      BY <1>3, NoLines
    <3>3. QED
      BY <1>1, <2>1, <3>1, <3>2, BooksNow
  <2>3. QED
    BY <1>1, <1>3, <2>1, <2>2, NoLines DEF Books
<1>4. CASE UNCHANGED <<batch, rotated, current, missing>>
  <2>1. ASSUME NEW e \in Kept
        PROVE  OnRecord(e)' = OnRecord(e)
    BY <1>1, <1>4 DEF OnRecord
  <2>2. QED
    BY <1>1, <1>4, <2>1 DEF Books
<1>5. QED
  BY <1>2, <1>3, <1>4 DEF Rotate

LEMMA EmptyQueue == <<>> \in Seq(Kept) /\ AsLines(<<>>) = <<>>
BY DEF AsLines

LEMMA BooksRestart == ASSUME Books, Restart PROVE Books'
<1>1. /\ UNCHANGED <<rotated, current, taken>> /\ batch' = <<>> /\ writes' = <<>>
      /\ writer' = "idle" /\ adding' = [a \in Adders |-> NoEvent] /\ ended' = {}
      /\ missing' = [e \in Kept |-> missing[e] + InHand(e)]
  BY DEF Restart, NewJournal
<1>2. ASSUME NEW e \in Kept
      PROVE  /\ missing'[e] = missing[e] + InHand(e) /\ missing'[e] \in Nat
             /\ taken[e]' = OnRecord(e)' + missing[e]'
  <2>1. missing'[e] = missing[e] + InHand(e)
    BY <1>1
  <2>2. OnRecord(e)' = Times(batch', e) + Times(AsLines(writes'), e)
                         + Times(rotated, e) + Times(current, e)
    BY <1>1 DEF OnRecord
  <2>3. Times(batch', e) = 0 /\ Times(AsLines(writes'), e) = 0
    BY <1>1, NoLines, EmptyQueue
  <2>4. QED
    BY <1>1, <2>1, <2>2, <2>3, BooksNow
<1>3. missing' \in [Kept -> Nat]
  BY <1>1, <1>2
<1>4. QED
  BY <1>1, <1>2, <1>3, NoLines, EmptyQueue DEF Books

LEMMA BooksCut == ASSUME Books, Shaped, PowerCut PROVE Books'
<1>1. PICK n \in 0 .. (IF writer = "append" THEN Fits ELSE 0) :
        /\ current' = current \o
             [i \in 1 .. n |-> [batch[i] EXCEPT !.readable = i < n /\ ~(ragged /\ i = 1)]]
        /\ missing' = [e \in Kept |->
             missing[e] + InHand(e) - Times(SubSeq(batch, 1, n), e)]
  BY DEF PowerCut
<1>2. /\ UNCHANGED <<rotated, taken>> /\ batch' = <<>> /\ writes' = <<>>
      /\ writer' = "idle" /\ adding' = [a \in Adders |-> NoEvent] /\ ended' = {}
  BY DEF PowerCut, NewJournal
<1>3. n \in Nat /\ n <= Len(batch) /\ batch \in Seq(Lines) /\ current \in Seq(Lines)
  <2>1. Fits \in Nat /\ Fits <= Len(batch) /\ batch \in Seq(Lines) /\ current \in Seq(Lines)
    BY FitsFits DEF Books
  <2>2. Len(batch) \in Nat
    BY <2>1, LinesAre
  <2>3. QED
    BY <2>1, <2>2
<1> DEFINE out == SubSeq(batch, 1, n)
           rest == SubSeq(batch, n + 1, Len(batch))
           torn == [i \in 1 .. n |-> [batch[i] EXCEPT !.readable = i < n /\ ~(ragged /\ i = 1)]]
<1>4. /\ out \in Seq(Lines) /\ rest \in Seq(Lines)
      /\ \A e : Times(batch, e) = Times(out, e) + Times(rest, e)
  BY <1>3, TimesOfParts
<1>5. DOMAIN out = 1 .. n /\ \A i \in 1 .. n : out[i] = batch[i]
  <2>1. Len(batch) \in Nat
    BY <1>3, LinesAre
  <2>2. Len(out) = n /\ \A i \in 1 .. n : out[i] = batch[i]
    BY <1>3, <2>1
  <2> HIDE DEF out
  <2>3. QED
    BY <1>4, <2>2, LinesAre
<1>6. torn \in Seq(Lines) /\ \A e : Times(torn, e) = Times(out, e)
  <2>1. ASSUME NEW r \in BOOLEAN, NEW l \in Lines
        PROVE  /\ [l EXCEPT !.readable = r] \in Lines
               /\ [l EXCEPT !.readable = r].event = l.event
               /\ [l EXCEPT !.readable = r].times = l.times
    BY DEF Lines
  <2>2. \A i \in 1 .. n : out[i] \in Lines
    BY <1>4, <1>5, LinesAre
  <2>3. ASSUME NEW i \in 1 .. n
        PROVE  /\ torn[i] \in Lines /\ torn[i].event = out[i].event
               /\ torn[i].times = out[i].times
    <3>1. torn[i] = [out[i] EXCEPT !.readable = i < n /\ ~(ragged /\ i = 1)]
      BY <1>5
    <3> DEFINE r == i < n /\ ~(ragged /\ i = 1)
               l == out[i]
    <3>2. r \in BOOLEAN
      OBVIOUS
    <3>3. l \in Lines
      BY <2>2
    <3>4. torn[i] = [l EXCEPT !.readable = r]
      BY <3>1
    <3> HIDE DEF torn, out, r, l
    <3>5. torn[i] \in Lines /\ torn[i].event = l.event /\ torn[i].times = l.times
      BY <2>1, <3>2, <3>3, <3>4
    <3>6. QED
      BY <3>5 DEF l
  <2>4. torn = [i \in 1 .. n |-> torn[i]]
    OBVIOUS
  <2> HIDE DEF torn, out
  <2>5. QED
    <3>1. torn = [i \in DOMAIN out |-> torn[i]]
      BY <1>5, <2>4
    <3>2. \A i \in DOMAIN out : /\ torn[i] \in Lines /\ torn[i].event = out[i].event
                               /\ torn[i].times = out[i].times
      BY <1>5, <2>3
    <3>3. out \in Seq(Lines)
      BY <1>4
    <3>4. QED
      BY <3>1, <3>2, <3>3, LabelsDoNotCount
<1>7. current' = current \o torn
  BY <1>1
<1>8. \A e \in Kept : missing'[e] = missing[e] + InHand(e) - Times(out, e)
  BY <1>1
<1> HIDE DEF torn, out, rest
<1>9. current' \in Seq(Lines) /\ \A e : Times(current', e) = Times(current, e) + Times(out, e)
  BY <1>3, <1>6, <1>7, TimesTogether
<1>10. ASSUME NEW e \in Kept
       PROVE  missing'[e] \in Nat /\ taken[e]' = OnRecord(e)' + missing[e]'
  <2>1. missing'[e] = missing[e] + InHand(e) - Times(out, e)
    BY <1>8
  <2>2. OnRecord(e)' = Times(batch', e) + Times(AsLines(writes'), e)
                         + Times(rotated, e) + Times(current', e)
    BY <1>2 DEF OnRecord
  <2>3. Times(batch', e) = 0 /\ Times(AsLines(writes'), e) = 0
    BY <1>2, NoLines, EmptyQueue
  <2>4. Times(out, e) \in Nat /\ Times(rest, e) \in Nat
    BY <1>4, TimesType
  <2>5. Times(batch, e) = Times(out, e) + Times(rest, e)
    BY <1>4
  <2>6. Times(current', e) = Times(current, e) + Times(out, e)
    BY <1>9
  <2>7. /\ Times(AsLines(writes), e) \in Nat /\ Times(rotated, e) \in Nat
        /\ Times(current, e) \in Nat /\ missing[e] \in Nat
        /\ taken[e] = Times(batch, e) + Times(AsLines(writes), e) + Times(rotated, e)
                        + Times(current, e) + missing[e]
        /\ InHand(e) = Times(batch, e) + Times(AsLines(writes), e)
    BY BooksNow
  <2>8. missing'[e] = missing[e] + Times(rest, e) + Times(AsLines(writes), e)
    BY <2>1, <2>4, <2>5, <2>7
  <2>9. taken'[e] = OnRecord(e)' + missing'[e]
    BY <1>2, <2>2, <2>3, <2>4, <2>5, <2>6, <2>7, <2>8
  <2>10. QED
    BY <2>4, <2>7, <2>8, <2>9
<1>11. missing' \in [Kept -> Nat]
  <2>1. missing' = [e \in Kept |-> missing'[e]]
    BY <1>1
  <2>2. QED
    BY <1>10, <2>1
<1>12. QED
  BY <1>2, <1>9, <1>10, <1>11, NoLines, EmptyQueue DEF Books

LEMMA BooksStep ==
  ASSUME Books, Shaped, Emptied, ragged \in BOOLEAN, [Next]_vars
  PROVE  Books'
<1>1. CASE \E a \in Adders : Record(a)
  BY <1>1, BooksAdders
<1>2. CASE \E k \in Closers : Close(k) \/ CloseReturns(k)
  BY <1>2, BooksFrame DEF Close, CloseReturns, Books, adders, loop, disk
<1>3. CASE WriteLoop
  BY <1>3, BooksReceive, BooksDrain, BooksCollected, BooksFlush, BooksRotate DEF WriteLoop
<1>4. CASE UNCHANGED vars
  BY <1>4, BooksFrame DEF vars, Books, adders, loop, disk, queue
<1>5. QED
  BY <1>1, <1>2, <1>3, <1>4, BooksRestart, BooksCut DEF Next
-----------------------------------------------------------------------------
(***************************************************************************)
(* The ring.                                                               *)
(***************************************************************************)
\* The slot an index stands for.
Slot(x) == x % Depth

LEMMA RoundTheRing ==
  ASSUME NEW x \in Nat, x < 2 * Depth
  PROVE  /\ Slot(x) = IF x < Depth THEN x ELSE x - Depth
         /\ Slot(x) \in 0 .. Depth - 1
<1>1. CASE x < Depth
  BY <1>1 DEF Slot
<1>2. CASE Depth <= x
  BY <1>2 DEF Slot
<1>3. QED
  BY <1>1, <1>2

\* The slots from the oldest on hold the newest events there have been.
Holds(r, s) ==
  /\ s \in Seq(Events) /\ Len(s) <= Depth
  /\ r.slots \in [0 .. Depth - 1 -> Events \cup {NoEvent}]
  /\ r.first \in 0 .. Depth - 1 /\ r.count = Len(s)
  /\ \A i \in 1 .. Len(s) : r.slots[Slot(r.first + i - 1)] = s[i]

LEMMA NewestOf ==
  ASSUME NEW s \in Seq(Events)
  PROVE  /\ Newest(s) \in Seq(Events) /\ Len(Newest(s)) <= Depth
         /\ Len(s) <= Depth => Newest(s) = s
         /\ Len(s) = Depth + 1 => /\ Len(Newest(s)) = Depth
                                  /\ \A i \in 1 .. Depth : Newest(s)[i] = s[i + 1]
<1> DEFINE n == Len(s)
           m == Min({n, Depth})
<1>1. n \in Nat /\ Depth \in Nat \ {0} /\ \A i \in 1 .. n : s[i] \in Events
  BY LenProperties, ElementOfSeq
<1>2. m = IF n <= Depth THEN n ELSE Depth
  <2>1. \E x \in {n, Depth} : \A y \in {n, Depth} : x <= y
    BY <1>1
  <2>2. m \in {n, Depth} /\ m <= n /\ m <= Depth
    BY <1>1, <2>1 DEF Min
  <2> HIDE DEF m
  <2>3. QED
    BY <1>1, <2>2
<1>3. Newest(s) = SubSeq(s, n - m + 1, n)
  BY DEF Newest
<1> HIDE DEF m
<1> HIDE DEF n
<1>4. n - m + 1 \in Nat \ {0} /\ n - m + 1 <= n + 1 /\ \A i \in n - m + 1 .. n : s[i] \in Events
  BY <1>1, <1>2
<1>5. /\ SubSeq(s, n - m + 1, n) \in Seq(Events)
      /\ Len(SubSeq(s, n - m + 1, n)) = m
      /\ \A i \in 1 .. m : SubSeq(s, n - m + 1, n)[i] = s[n - m + i]
  <2> DEFINE a == n - m + 1
  <2>1. a \in Int /\ n \in Int /\ m \in Nat /\ n - a + 1 = m
        /\ \A i \in 1 .. m : a + i - 1 = n - m + i
    BY <1>1, <1>2
  <2>2. \A i \in a .. n : s[i] \in Events
    BY <1>4
  <2> HIDE DEF a
  <2>3. /\ SubSeq(s, a, n) \in Seq(Events)
        /\ Len(SubSeq(s, a, n)) = IF a <= n THEN n - a + 1 ELSE 0
        /\ \A i \in 1 .. n - a + 1 : SubSeq(s, a, n)[i] = s[a + i - 1]
    BY <2>1, <2>2, SubSeqProperties
  <2>4. Len(SubSeq(s, a, n)) = m
    BY <1>1, <2>1, <2>3
  <2>5. \A i \in 1 .. m : SubSeq(s, a, n)[i] = s[n - m + i]
    BY <2>1, <2>3
  <2>6. QED
    BY <2>3, <2>4, <2>5 DEF a
<1>6. CASE n <= Depth
  <2>1. m = n /\ n - m + 1 = 1
    BY <1>1, <1>2, <1>6
  <2>2. Newest(s) = s
    BY <1>3, <2>1, SubSeqFull DEF n
  <2>3. QED
    BY <1>1, <1>6, <2>2 DEF n
<1>7. CASE n > Depth
  <2>1. m = Depth
    BY <1>1, <1>2, <1>7
  <2>2. /\ Newest(s) \in Seq(Events) /\ Len(Newest(s)) = Depth
        /\ \A i \in 1 .. Depth : Newest(s)[i] = s[n - Depth + i]
    BY <1>3, <1>5, <2>1
  <2>3. n = Depth + 1 => \A i \in 1 .. Depth : n - Depth + i = i + 1
    BY <1>1
  <2>4. n = Depth + 1 => \A i \in 1 .. Depth : Newest(s)[i] = s[i + 1]
    BY <2>2, <2>3
  <2>5. QED
    BY <1>1, <1>7, <2>2, <2>4 DEF n
<1>8. QED
  BY <1>1, <1>6, <1>7 DEF n

LEMMA PushHolds ==
  ASSUME NEW r, NEW s, Holds(r, s), NEW e \in Events
  PROVE  Holds(Push(r, e), Newest(Append(s, e)))
<1> DEFINE n == Len(s)
           f == r.first
           a == Append(s, e)
           p == Push(r, e)
           at == Slot(f + n)
<1>1. /\ n \in Nat /\ n <= Depth /\ Depth \in Nat \ {0} /\ f \in 0 .. Depth - 1
      /\ r.count = n /\ s \in Seq(Events)
      /\ r.slots \in [0 .. Depth - 1 -> Events \cup {NoEvent}]
      /\ \A i \in 1 .. n : r.slots[Slot(f + i - 1)] = s[i]
  <2>1. s \in Seq(Events) /\ n <= Depth /\ r.count = n
    BY DEF Holds
  <2>2. n \in Nat /\ Depth \in Nat \ {0}
    BY <2>1, LenProperties
  <2> HIDE DEF n
  <2>3. QED
    BY <2>1, <2>2 DEF Holds, n
<1>2. /\ a \in Seq(Events) /\ Len(a) = n + 1 /\ a[n + 1] = e
      /\ \A i \in 1 .. n : a[i] = s[i]
  BY <1>1, AppendProperties
<1>3. /\ p.slots = [r.slots EXCEPT ![at] = e]
      /\ p.first = IF n < Depth THEN f ELSE Slot(f + 1)
      /\ p.count = IF n < Depth THEN n + 1 ELSE n
  BY <1>1 DEF Push, Slot
<1> HIDE DEF a, p, at, n, f
<1>4. \A x \in Nat : x < 2 * Depth =>
        /\ Slot(x) = IF x < Depth THEN x ELSE x - Depth
        /\ Slot(x) \in 0 .. Depth - 1
  BY RoundTheRing
<1>5. at = (IF f + n < Depth THEN f + n ELSE f + n - Depth) /\ at \in 0 .. Depth - 1
  <2> DEFINE x == f + n
  <2>1. x \in Nat /\ x < 2 * Depth
    BY <1>1
  <2> HIDE DEF x
  <2>2. /\ Slot(x) = IF x < Depth THEN x ELSE x - Depth
        /\ Slot(x) \in 0 .. Depth - 1
    BY <2>1, RoundTheRing
  <2>3. at = Slot(x)
    BY DEF at, x
  <2>4. at = (IF x < Depth THEN x ELSE x - Depth) /\ at \in 0 .. Depth - 1
    BY <2>2, <2>3
  <2>5. x = f + n
    BY DEF x
  <2>6. QED
    BY <1>1, <2>4, <2>5
<1>6. p.slots \in [0 .. Depth - 1 -> Events \cup {NoEvent}] /\ p.slots[at] = e
      /\ \A x \in 0 .. Depth - 1 : x # at => p.slots[x] = r.slots[x]
  BY <1>1, <1>3, <1>5
<1>7. \A i \in 1 .. n : /\ Slot(f + i - 1) \in 0 .. Depth - 1
                        /\ r.slots[Slot(f + i - 1)] = a[i]
                        /\ (i > 1 \/ n < Depth) => Slot(f + i - 1) # at
  <2> TAKE i \in 1 .. n
  <2> DEFINE x == f + i - 1
  <2>1. x \in Nat /\ x < 2 * Depth
    BY <1>1
  <2>2. r.slots[Slot(x)] = a[i]
    BY <1>1, <1>2
  <2> HIDE DEF x
  <2>3. Slot(x) \in 0 .. Depth - 1 /\ Slot(x) = IF x < Depth THEN x ELSE x - Depth
    BY <1>4, <2>1
  <2>4. i > 1 \/ n < Depth => (IF x < Depth THEN x ELSE x - Depth) # at
    BY <1>1, <1>5 DEF x
  <2>5. QED
    BY <2>2, <2>3, <2>4 DEF x
<1>8. CASE n < Depth
  <2>1. Newest(a) = a
    BY <1>1, <1>2, <1>8, NewestOf
  <2>2. p.first = f /\ p.count = n + 1 /\ n + 1 <= Depth
    BY <1>1, <1>3, <1>8
  <2>3. \A i \in 1 .. n + 1 : p.slots[Slot(p.first + i - 1)] = a[i]
    <3> TAKE i \in 1 .. n + 1
    <3>1. CASE i = n + 1
      <4>1. f + i - 1 = f + n
        BY <1>1, <3>1
      <4>2. QED
        BY <1>2, <1>6, <2>2, <3>1, <4>1 DEF at
    <3>2. CASE i # n + 1
      <4>1. i \in 1 .. n
        BY <1>1, <3>2
      <4>2. QED
        BY <1>6, <1>7, <1>8, <2>2, <4>1
    <3>3. QED
      BY <3>1, <3>2
  <2>4. QED
    BY <1>1, <1>2, <1>6, <2>1, <2>2, <2>3 DEF Holds, p, a
<1>9. CASE n = Depth
  <2> DEFINE b == Newest(a)
  <2>1. /\ b \in Seq(Events) /\ Len(b) = Depth
        /\ \A i \in 1 .. Depth : b[i] = a[i + 1]
    BY <1>1, <1>2, <1>9, NewestOf
  <2> HIDE DEF b
  <2>2. at = f /\ p.first = Slot(f + 1) /\ p.count = Depth
    BY <1>1, <1>3, <1>5, <1>9
  <2>3. /\ p.first = IF f + 1 < Depth THEN f + 1 ELSE 0
        /\ p.first \in 0 .. Depth - 1
    <3> DEFINE x == f + 1
    <3>1. x \in Nat /\ x < 2 * Depth /\ (x < Depth \/ x - Depth = 0)
      BY <1>1
    <3> HIDE DEF x
    <3>2. /\ Slot(x) = IF x < Depth THEN x ELSE x - Depth
          /\ Slot(x) \in 0 .. Depth - 1
      BY <3>1, RoundTheRing
    <3>3. QED
      BY <2>2, <3>1, <3>2 DEF x
  <2>4. \A i \in 1 .. Depth : Slot(p.first + i - 1) = Slot(f + i)
    <3> TAKE i \in 1 .. Depth
    <3> DEFINE x == p.first + i - 1
               y == f + i
    <3>1. /\ x \in Nat /\ x < 2 * Depth /\ y \in Nat /\ y < 2 * Depth
          /\ (IF x < Depth THEN x ELSE x - Depth) = IF y < Depth THEN y ELSE y - Depth
      BY <1>1, <2>3
    <3> HIDE DEF x, y
    <3>2. Slot(x) = Slot(y)
      BY <1>4, <3>1
    <3>3. QED
      BY <3>2 DEF x, y
  <2>5. \A i \in 1 .. Depth : p.slots[Slot(p.first + i - 1)] = b[i]
    <3> TAKE i \in 1 .. Depth
    <3>1. CASE i = Depth
      <4>1. Slot(f + i) = at
        BY <1>9, <3>1 DEF at
      <4>2. b[i] = e
        BY <1>1, <1>2, <1>9, <2>1, <3>1
      <4>3. QED
        BY <1>6, <2>4, <4>1, <4>2
    <3>2. CASE i # Depth
      <4>1. i + 1 \in 1 .. n /\ i + 1 > 1 /\ f + (i + 1) - 1 = f + i
        BY <1>1, <1>9, <3>2
      <4>2. /\ Slot(f + i) \in 0 .. Depth - 1 /\ Slot(f + i) # at
            /\ r.slots[Slot(f + i)] = a[i + 1]
        BY <1>7, <4>1
      <4>3. QED
        BY <1>6, <2>1, <2>4, <4>2
    <3>3. QED
      BY <3>1, <3>2
  <2>6. QED
    BY <1>1, <1>6, <2>1, <2>2, <2>3, <2>5 DEF Holds, p, a, b
<1>10. QED
  BY <1>1, <1>8, <1>9

\* load: what it leaves in the ring is what pushing one event after the other
\* into an empty one comes to.
THEOREM FilledGrows ==
  ASSUME NEW s \in Seq(Events), Len(s) < Depth, NEW e \in Events
  PROVE  EmptyRing = Filled(<<>>) /\ Push(Filled(s), e) = Filled(Append(s, e))
<1> DEFINE n == Len(s)
           a == Append(s, e)
<1>1. n \in Nat /\ n < Depth /\ Depth \in Nat \ {0}
  BY LenProperties
<1>2. /\ Len(a) = n + 1 /\ a[n + 1] = e
      /\ \A i \in 1 .. n : a[i] = s[i]
  BY AppendProperties
<1>3. EmptyRing = Filled(<<>>)
  BY DEF EmptyRing, Filled
<1>4. (0 + n) % Depth = n
  BY <1>1
<1>5. /\ Push(Filled(s), e).slots = [Filled(s).slots EXCEPT ![n] = e]
      /\ Push(Filled(s), e) = [slots |-> [Filled(s).slots EXCEPT ![n] = e],
                               first |-> 0, count |-> n + 1]
  BY <1>1, <1>4 DEF Push, Filled
<1> HIDE DEF a
<1>6. [Filled(s).slots EXCEPT ![n] = e]
        = [i \in 0 .. Depth - 1 |-> IF i < Len(a) THEN a[i + 1] ELSE NoEvent]
  <2> DEFINE f == [Filled(s).slots EXCEPT ![n] = e]
             g == [i \in 0 .. Depth - 1 |-> IF i < Len(a) THEN a[i + 1] ELSE NoEvent]
  <2>1. /\ DOMAIN f = 0 .. Depth - 1
        /\ \A i \in 0 .. Depth - 1 :
             f[i] = IF i = n THEN e ELSE IF i < n THEN s[i + 1] ELSE NoEvent
    BY <1>1 DEF Filled
  <2>2. \A i \in 0 .. Depth - 1 : f[i] = g[i]
    <3> TAKE i \in 0 .. Depth - 1
    <3>1. CASE i = n
      BY <1>1, <1>2, <2>1, <3>1
    <3>2. CASE i < n
      <4>1. i + 1 \in 1 .. n
        BY <1>1, <3>2
      <4>2. QED
        BY <1>1, <1>2, <2>1, <3>2, <4>1
    <3>3. CASE i > n
      BY <1>1, <1>2, <2>1, <3>3
    <3>4. QED
      BY <1>1, <3>1, <3>2, <3>3
  <2>3. f = [i \in 0 .. Depth - 1 |-> f[i]]
    BY <2>1
  <2> HIDE DEF f
  <2>4. f = g
    BY <2>2, <2>3
  <2>5. QED
    BY <2>4 DEF f
<1>7. Filled(a) = [slots |-> [i \in 0 .. Depth - 1 |-> IF i < Len(a) THEN a[i + 1] ELSE NoEvent],
                   first |-> 0, count |-> n + 1]
  BY <1>2 DEF Filled
<1>8. Push(Filled(s), e) = Filled(a)
  BY <1>5, <1>6, <1>7
<1>9. QED
  BY <1>3, <1>8 DEF a

LEMMA FilledHolds ==
  ASSUME NEW s \in Seq(Events), Len(s) <= Depth
  PROVE  Holds(Filled(s), s)
<1> DEFINE n == Len(s)
<1>1. n \in Nat /\ n <= Depth /\ Depth \in Nat \ {0} /\ \A i \in 1 .. n : s[i] \in Events
  BY LenProperties, ElementOfSeq
<1>2. /\ Filled(s).slots = [i \in 0 .. Depth - 1 |-> IF i < n THEN s[i + 1] ELSE NoEvent]
      /\ Filled(s).first = 0 /\ Filled(s).count = n
  BY DEF Filled
<1> HIDE DEF n
<1>3. \A i \in 0 .. Depth - 1 : i < n => i + 1 \in 1 .. n
  BY <1>1
<1>4. Filled(s).slots \in [0 .. Depth - 1 -> Events \cup {NoEvent}]
  BY <1>1, <1>2, <1>3
<1>5. \A i \in 1 .. n : Filled(s).slots[Slot(0 + i - 1)] = s[i]
  <2> TAKE i \in 1 .. n
  <2> DEFINE x == 0 + i - 1
  <2>1. x \in Nat /\ x < Depth /\ x < 2 * Depth /\ x < n /\ x + 1 = i /\ x \in 0 .. Depth - 1
    BY <1>1
  <2> HIDE DEF x
  <2>2. Slot(x) = x
    BY <2>1, RoundTheRing
  <2>3. QED
    BY <1>2, <2>1, <2>2 DEF x
<1>6. 0 \in 0 .. Depth - 1
  BY <1>1
<1>7. QED
  BY <1>1, <1>2, <1>4, <1>5, <1>6 DEF Holds, n

LEMMA LoadedIs ==
  ASSUME NEW old \in Seq(Lines), NEW new \in Seq(Lines)
  PROVE  Loaded(old, new) \in Seq(Events) /\ Len(Loaded(old, new)) <= Depth
<1> DEFINE lines == old \o new
           readable == {i \in DOMAIN lines : lines[i].readable}
           s == [k \in 1 .. Cardinality(readable) |-> lines[Nth(readable, k)].event]
<1>1. lines \in Seq(Lines)
  OBVIOUS
<1>2. /\ Len(lines) \in Nat /\ DOMAIN lines = 1 .. Len(lines)
      /\ \A i \in 1 .. Len(lines) : lines[i].event \in Events
  <2> HIDE DEF lines
  <2>1. QED
    BY <1>1, LinesAre
<1> HIDE DEF lines
<1>3. Positions(readable, Len(lines))
  BY <1>2 DEF Positions
<1>4. readable \subseteq 1 .. Len(lines)
  BY <1>2
<1> HIDE DEF readable
<1>5. Cardinality(readable) \in Nat
  BY <1>3, RankType
<1>6. \A k \in 1 .. Cardinality(readable) : lines[Nth(readable, k)].event \in Events
  BY <1>2, <1>3, <1>4, NthIs
<1>7. s \in Seq(Events)
  BY <1>5, <1>6
<1>8. Loaded(old, new) = Newest(s)
  BY DEF Loaded, lines, readable
<1> HIDE DEF s
<1>9. QED
  BY <1>7, <1>8, NewestOf

\* The ring and the history of it.
Remembers == Holds(ring, told)

LEMMA RemembersInit == Init => Remembers
<1>1. Filled(<<>>) = EmptyRing
  BY DEF EmptyRing, Filled
<1>2. <<>> \in Seq(Events) /\ Len(<<>>) = 0 /\ 0 <= Depth
  OBVIOUS
<1>3. Holds(Filled(<<>>), <<>>)
  BY <1>2, FilledHolds
<1>4. QED
  BY <1>1, <1>3 DEF Init, Remembers

LEMMA RemembersStep ==
  ASSUME Remembers, Books', [Next]_vars
  PROVE  Remembers'
<1>1. CASE UNCHANGED memory
  BY <1>1 DEF Remembers, memory, Holds
<1>2. ASSUME NEW a \in Adders, NEW e \in Events, Add(a, e)
      PROVE  Remembers'
  BY <1>2, PushHolds DEF Add, Remembers
<1>3. CASE NewJournal
  <2>1. rotated' \in Seq(Lines) /\ current' \in Seq(Lines)
    BY DEF Books
  <2> DEFINE s == Loaded(rotated', current')
  <2>2. ring' = Filled(s) /\ told' = s
    BY <1>3 DEF NewJournal
  <2>3. s \in Seq(Events) /\ Len(s) <= Depth
    BY <2>1, LoadedIs
  <2> HIDE DEF s
  <2>4. QED
    BY <2>2, <2>3, FilledHolds DEF Remembers
<1>4. CASE \E a \in Adders : Offer(a) \/ End(a)
  BY <1>1, <1>4 DEF Offer, End
<1>5. CASE \E k \in Closers : Close(k) \/ CloseReturns(k)
  BY <1>1, <1>5 DEF Close, CloseReturns
<1>6. CASE WriteLoop
  BY <1>1, <1>6 DEF WriteLoop, Receive, Drain, Collected, Flush, Rotate
<1>7. CASE UNCHANGED vars
  BY <1>1, <1>7 DEF vars
<1>8. QED
  BY <1>2, <1>3, <1>4, <1>5, <1>6, <1>7 DEF Next, Record, Restart, PowerCut

LEMMA RememberedIsRecent == Remembers => RingIsRecent
<1> SUFFICES ASSUME Remembers, NEW limit \in 0 .. Depth + 1
             PROVE  Recent(ring, limit) =
                      IF limit = 0 \/ limit > Len(told) THEN told
                      ELSE SubSeq(told, Len(told) - limit + 1, Len(told))
  BY DEF RingIsRecent
<1> DEFINE l == Len(told)
           f == ring.first
           n == IF limit = 0 \/ limit > l THEN l ELSE limit
<1>1. /\ l \in Nat /\ l <= Depth /\ Depth \in Nat \ {0} /\ f \in 0 .. Depth - 1
      /\ ring.count = l /\ told \in Seq(Events)
      /\ \A i \in 1 .. l : ring.slots[Slot(f + i - 1)] = told[i]
  <2>1. told \in Seq(Events) /\ l <= Depth /\ ring.count = l
    BY DEF Remembers, Holds
  <2>2. l \in Nat /\ Depth \in Nat \ {0}
    BY <2>1, LenProperties
  <2> HIDE DEF l
  <2>3. QED
    BY <2>1, <2>2 DEF Remembers, Holds, l
<1>2. Recent(ring, limit) = [i \in 1 .. n |-> ring.slots[Slot(f + l - n + i - 1)]]
  BY <1>1 DEF Recent, Slot
<1> HIDE DEF l, f
<1>3. n \in Nat /\ n <= l
  BY <1>1
<1> DEFINE m == l - n
<1>4. m \in Nat /\ m + n = l
  BY <1>1, <1>3
<1> HIDE DEF n, m
<1>5. \A i \in 1 .. n : /\ m + i \in 1 .. l
                        /\ f + l - n + i - 1 = f + (m + i) - 1
  BY <1>1, <1>3, <1>4
<1>6. \A i \in 1 .. n : ring.slots[Slot(f + l - n + i - 1)] = told[m + i]
  BY <1>1, <1>5
<1>7. Recent(ring, limit) = [i \in 1 .. n |-> told[m + i]]
  BY <1>2, <1>6
<1>8. told = [i \in 1 .. l |-> told[i]]
  BY <1>1, LenProperties DEF l
<1>9. CASE limit = 0 \/ limit > l
  <2>1. n = l /\ m = 0
    BY <1>1, <1>4, <1>9 DEF n
  <2>2. \A i \in 1 .. l : m + i = i
    BY <1>1, <2>1
  <2>3. QED
    BY <1>7, <1>8, <1>9, <2>1, <2>2 DEF l
<1>10. CASE ~(limit = 0 \/ limit > l)
  <2>1. n = limit /\ l - limit + 1 = m + 1
    BY <1>1, <1>4, <1>10 DEF n
  <2>2. \A i \in m + 1 .. l : told[i] \in Events
    BY <1>1, <1>4, ElementOfSeq DEF l
  <2>3. m + 1 \in Int /\ l \in Int /\ m + 1 <= l + 1 /\ l - (m + 1) + 1 = n
        /\ (m + 1 <= l \/ n = 0)
    BY <1>1, <1>3, <1>4
  <2> DEFINE b == m + 1
             t == SubSeq(told, b, l)
  <2> HIDE DEF b
  <2>4. /\ t \in Seq(Events)
        /\ Len(t) = IF b <= l THEN l - b + 1 ELSE 0
        /\ \A i \in 1 .. l - b + 1 : t[i] = told[b + i - 1]
    BY <2>2, <2>3, SubSeqProperties DEF b
  <2> HIDE DEF t
  <2>5. Len(t) = n /\ \A i \in 1 .. n : t[i] = told[b + i - 1]
    BY <2>3, <2>4 DEF b
  <2>6. \A i \in 1 .. n : b + i - 1 = m + i
    BY <1>3, <1>4 DEF b
  <2>7. t = [i \in 1 .. n |-> t[i]]
    BY <2>4, <2>5, LenProperties
  <2>8. t = [i \in 1 .. n |-> told[m + i]]
    BY <2>5, <2>6, <2>7
  <2>9. t = SubSeq(told, l - limit + 1, l)
    BY <2>1 DEF t, b
  <2>10. QED
    BY <1>7, <1>10, <2>8, <2>9 DEF l
<1>11. QED
  BY <1>9, <1>10
-----------------------------------------------------------------------------
(***************************************************************************)
(* The bounds.                                                             *)
(***************************************************************************)
Settings ==
  /\ events \in 0 .. MaxEvents /\ faults \in 0 .. MaxFaults /\ Len(writes) <= QueueMax
  /\ writer \in {"idle", "draining", "append", "rotate", "stopped"}
  /\ closed \in BOOLEAN /\ last \in BOOLEAN /\ ragged \in BOOLEAN /\ panicked \in BOOLEAN

LEMMA NothingFits == writes = <<>> => Len(writes) <= QueueMax
<1>1. Len(<<>>) = 0 /\ QueueMax \in Nat
  OBVIOUS
<1>2. QED
  BY <1>1

LEMMA SettingsInit == Init => Settings
<1> SUFFICES ASSUME Init PROVE Settings
  OBVIOUS
<1>1. events \in 0 .. MaxEvents /\ faults \in 0 .. MaxFaults
  BY DEF Init
<1>2. Len(writes) <= QueueMax
  BY NothingFits DEF Init
<1>3. writer = "idle" /\ closed = FALSE /\ last = FALSE /\ ragged = FALSE /\ panicked = FALSE
  BY DEF Init
<1>4. QED
  BY <1>1, <1>2, <1>3 DEF Settings

LEMMA NothingThen == writes' = <<>> => Len(writes') <= QueueMax
<1>1. Len(<<>>) = 0 /\ QueueMax \in Nat
  OBVIOUS
<1>2. QED
  BY <1>1

LEMMA SettingsStep == ASSUME Settings, Books, [Next]_vars PROVE Settings'
<1>1. writes \in Seq(Kept) /\ Len(writes) \in Nat
  BY LenProperties DEF Books
<1>2. CASE \E a \in Adders : Record(a)
  <2>1. PICK a \in Adders : (\E e \in Events : Add(a, e)) \/ Offer(a) \/ End(a)
    BY <1>2 DEF Record
  <2>2. CASE \E e \in Events : Add(a, e)
    BY <2>2 DEF Add, Settings, queue, loop, disk
  <2>3. CASE Offer(a)
    <3>1. /\ UNCHANGED <<events, faults, writer, closed, last, ragged>>
          /\ panicked' = TRUE \/ panicked' = panicked
          /\ writes' = writes \/ (Len(writes) < QueueMax /\ writes' = Append(writes, adding[a]))
      BY <2>3 DEF Offer, loop, disk
    <3>2. adding[a] # NoEvent /\ adding[a] \in Kept
      BY <2>3 DEF Offer, Books
    <3>3. Len(Append(writes, adding[a])) = Len(writes) + 1
      BY <1>1, <3>2, AppendProperties
    <3>4. Len(writes') <= QueueMax
      BY <1>1, <3>1, <3>3 DEF Settings
    <3>5. QED
      BY <3>1, <3>4 DEF Settings
  <2>4. CASE End(a)
    BY <2>4 DEF End, Settings, queue, loop, disk
  <2>5. QED
    BY <2>1, <2>2, <2>3, <2>4
<1>3. CASE \E k \in Closers : Close(k) \/ CloseReturns(k)
  BY <1>3 DEF Close, CloseReturns, Settings, adders, loop, disk
<1>4. CASE Receive \/ Drain
  <2>1. /\ UNCHANGED <<events, faults, closed, last, ragged, panicked>>
        /\ writer' \in {"draining", "stopped", writer}
        /\ writes' = writes \/ (writes # <<>> /\ writes' = Tail(writes))
    BY <1>4 DEF Receive, Drain, adders, disk
  <2>2. writes # <<>> => Len(Tail(writes)) = Len(writes) - 1
    BY <1>1, HeadTailProperties
  <2>3. Len(writes') <= QueueMax
    BY <1>1, <2>1, <2>2 DEF Settings
  <2>4. QED
    BY <2>1, <2>3 DEF Settings
<1>5. CASE Collected
  BY <1>5 DEF Collected, Strikes, Settings, adders, queue
<1>6. CASE Flush
  <2>1. /\ UNCHANGED <<events, writes, closed, last, panicked>>
        /\ writer' \in {"rotate", Done}
        /\ ragged' = ragged \/ ragged' = (ragged /\ Fits = 0)
        /\ faults' = faults \/ (faults < MaxFaults /\ faults' = faults + 1)
    BY <1>6 DEF Flush, Strikes, adders, queue
  <2>2. Done \in {"idle", "stopped"}
    BY DEF Done
  <2>3. faults' \in 0 .. MaxFaults
    BY <2>1 DEF Settings
  <2>4. ragged' \in BOOLEAN
    BY <2>1 DEF Settings
  <2>5. QED
    BY <2>1, <2>2, <2>3, <2>4 DEF Settings
<1>7. CASE Rotate
  <2>1. /\ UNCHANGED <<events, writes, closed, last, panicked>>
        /\ writer' \in {"append", Done}
        /\ ragged' = ragged \/ ragged' = FALSE
        /\ faults' = faults \/ (faults < MaxFaults /\ faults' = faults + 1)
    BY <1>7 DEF Rotate, Strikes, adders, queue
  <2>2. Done \in {"idle", "stopped"}
    BY DEF Done
  <2>3. faults' \in 0 .. MaxFaults
    BY <2>1 DEF Settings
  <2>4. ragged' \in BOOLEAN
    BY <2>1 DEF Settings
  <2>5. QED
    BY <2>1, <2>2, <2>3, <2>4 DEF Settings
<1>8. CASE Restart
  BY <1>8, NothingThen DEF Restart, NewJournal, Settings
<1>9. CASE PowerCut
  <2>1. PICK n \in 0 .. (IF writer = "append" THEN Fits ELSE 0) :
          ragged' = (ragged \/ n > 0) /\ NewJournal
    BY <1>9 DEF PowerCut
  <2>2. faults < MaxFaults /\ faults' = faults + 1
    BY <1>9 DEF PowerCut, Strikes
  <2>3. faults' \in 0 .. MaxFaults
    BY <2>2 DEF Settings
  <2>4. ragged' \in BOOLEAN
    BY <2>1 DEF Settings
  <2>5. Len(writes') <= QueueMax
    BY <2>1, NothingThen DEF NewJournal
  <2>6. QED
    BY <2>1, <2>3, <2>4, <2>5 DEF NewJournal, Settings
<1>10. CASE UNCHANGED vars
  BY <1>10 DEF vars, Settings, adders, queue, loop, disk
<1>11. QED
  BY <1>2, <1>3, <1>4, <1>5, <1>6, <1>7, <1>8, <1>9, <1>10 DEF Next, WriteLoop

\* Who is about to offer an event, and what that leaves of the bound.
Offering(e) == {a \in Adders : adding[a] = e}

Counted ==
  \A e \in Kept : IsFiniteSet(Offering(e)) /\ taken[e] + Cardinality(Offering(e)) <= events

LEMMA CountedInit == Init => Counted
<1> SUFFICES ASSUME Init, NEW e \in Kept
             PROVE  IsFiniteSet(Offering(e)) /\ taken[e] + Cardinality(Offering(e)) <= events
  BY DEF Counted
<1>1. Offering(e) = {} /\ taken[e] = 0 /\ events = 0
  BY DEF Init, Offering
<1>2. QED
  BY <1>1, FS_EmptySet

LEMMA CountedFrame ==
  ASSUME Counted, UNCHANGED <<adding, taken, events>>
  PROVE  Counted'
<1>1. \A e : Offering(e)' = Offering(e)
  BY DEF Offering
<1>2. QED
  BY <1>1 DEF Counted

LEMMA CountedNow ==
  ASSUME Counted, Books, Settings, NEW e \in Kept
  PROVE  /\ taken[e] \in Nat /\ events \in Nat /\ IsFiniteSet(Offering(e))
         /\ Cardinality(Offering(e)) \in Nat
         /\ taken[e] + Cardinality(Offering(e)) <= events
BY FS_CardinalityType DEF Counted, Books, Settings

LEMMA CountedStep ==
  ASSUME Counted, Books, Settings, [Next]_vars
  PROVE  Counted'
<1>1. ASSUME NEW a \in Adders, NEW x \in Events, Add(a, x)
      PROVE  Counted'
  <2> SUFFICES ASSUME NEW e \in Kept
               PROVE  IsFiniteSet(Offering(e)') /\ taken'[e] + Cardinality(Offering(e)') <= events'
    BY DEF Counted
  <2>1. /\ adding' = [adding EXCEPT ![a] = IF x \in Kept THEN x ELSE NoEvent]
        /\ adding[a] = NoEvent /\ taken' = taken /\ events' = events + 1
        /\ adding \in [Adders -> Kept \cup {NoEvent}]
    BY <1>1 DEF Add, Books
  <2>2. a \notin Offering(e)
    BY <2>1 DEF Offering
  <2>3. Offering(e)' = IF x = e THEN Offering(e) \cup {a} ELSE Offering(e)
    BY <2>1 DEF Offering
  <2>4. /\ IsFiniteSet(Offering(e) \cup {a})
        /\ Cardinality(Offering(e) \cup {a}) = Cardinality(Offering(e)) + 1
    BY <2>2, CountedNow, FS_AddElement
  <2>5. QED
    BY <2>1, <2>3, <2>4, CountedNow
<1>2. ASSUME NEW a \in Adders, Offer(a)
      PROVE  Counted'
  <2> SUFFICES ASSUME NEW e \in Kept
               PROVE  IsFiniteSet(Offering(e)') /\ taken'[e] + Cardinality(Offering(e)') <= events'
    BY DEF Counted
  <2> DEFINE x == adding[a]
  <2>1. /\ adding' = [adding EXCEPT ![a] = NoEvent] /\ x # NoEvent /\ events' = events
        /\ taken' = taken \/ taken' = [taken EXCEPT ![x] = @ + 1]
        /\ adding \in [Adders -> Kept \cup {NoEvent}] /\ taken \in [Kept -> Nat]
    BY <1>2 DEF Offer, Books
  <2>2. x \in Kept
    BY <2>1
  <2>3. Offering(e)' = IF x = e THEN Offering(e) \ {a} ELSE Offering(e)
    BY <2>1 DEF Offering
  <2>4. taken'[e] \in Nat /\ taken'[e] <= IF x = e THEN taken[e] + 1 ELSE taken[e]
    BY <2>1, <2>2
  <2>5. CASE x = e
    <3>1. a \in Offering(e)
      BY <2>5 DEF Offering
    <3>2. /\ IsFiniteSet(Offering(e) \ {a})
          /\ Cardinality(Offering(e) \ {a}) = Cardinality(Offering(e)) - 1
      BY <3>1, CountedNow, FS_RemoveElement
    <3>3. QED
      BY <2>1, <2>3, <2>4, <2>5, <3>2, CountedNow
  <2>6. CASE x # e
    BY <2>1, <2>3, <2>4, <2>6, CountedNow
  <2>7. QED
    BY <2>5, <2>6
<1>3. CASE NewJournal
  <2> SUFFICES ASSUME NEW e \in Kept
               PROVE  IsFiniteSet(Offering(e)') /\ taken'[e] + Cardinality(Offering(e)') <= events'
    BY DEF Counted
  <2>1. Offering(e)' = {} /\ taken' = taken /\ events' = events
    BY <1>3 DEF NewJournal, Offering
  <2>2. QED
    BY <2>1, CountedNow, FS_EmptySet
<1>4. CASE \E a \in Adders : End(a)
  BY <1>4, CountedFrame DEF End
<1>5. CASE \E k \in Closers : Close(k) \/ CloseReturns(k)
  BY <1>5, CountedFrame DEF Close, CloseReturns, adders
<1>6. CASE WriteLoop
  BY <1>6, CountedFrame DEF WriteLoop, Receive, Drain, Collected, Flush, Rotate, adders
<1>7. CASE UNCHANGED vars
  BY <1>7, CountedFrame DEF vars, adders
<1>8. QED
  BY <1>1, <1>2, <1>3, <1>4, <1>5, <1>6, <1>7 DEF Next, Record, Restart, PowerCut
-----------------------------------------------------------------------------
(***************************************************************************)
(* All of it together.                                                     *)
(***************************************************************************)
Inductive ==
  Shaped /\ Emptied /\ Settings /\ Books /\ Counted /\ Remembers

LEMMA InductiveInit == Init => Inductive
BY ShapedInit, EmptiedInit, SettingsInit, BooksInit, CountedInit, RemembersInit DEF Inductive

LEMMA InductiveStep == ASSUME Inductive, [Next]_vars PROVE Inductive'
<1>1. Shaped /\ Emptied /\ Settings /\ Books /\ Counted /\ Remembers
  BY DEF Inductive
<1>2. Shaped' /\ Emptied'
  BY <1>1, ShapedStep, EmptiedStep
<1>3. Books'
  BY <1>1, BooksStep DEF Settings
<1>4. Settings' /\ Counted'
  BY <1>1, SettingsStep, CountedStep
<1>5. Remembers'
  BY <1>1, <1>3, RemembersStep
<1>6. QED
  BY <1>2, <1>3, <1>4, <1>5 DEF Inductive

\* The inductive invariant: the shapes of the files, where the writer is, the
\* bounds, the books of the record and the ring.
THEOREM Invariance == Spec => []Inductive
<1>1. Init => Inductive
  BY InductiveInit
<1>2. Inductive /\ [Next]_vars => Inductive'
  BY InductiveStep
<1>3. QED
  BY <1>1, <1>2, PTL DEF Spec

\* collapse and appendBatch: every event the writer has taken is in its hands
\* or on disk as often as it happened, or booked as lost, however events are
\* batched and collapsed, wherever the files are rotated and whatever power
\* cuts, failed opens, failed renames and restarts leave torn or behind.
THEOREM NothingIsLostUnseen == Spec => []Accounted
<1>1. ASSUME Books PROVE Accounted
  <2> SUFFICES ASSUME NEW e \in Kept
               PROVE  taken[e] = InHand(e) + Times(rotated \o current, e) + missing[e]
    BY DEF Accounted
  <2>1. rotated \in Seq(Lines) /\ current \in Seq(Lines)
    BY <1>1 DEF Books
  <2>2. Times(rotated \o current, e) = Times(rotated, e) + Times(current, e)
    BY <2>1, TimesTogether
  <2>3. /\ Times(batch, e) \in Nat /\ Times(AsLines(writes), e) \in Nat
        /\ Times(rotated, e) \in Nat /\ Times(current, e) \in Nat
        /\ missing[e] \in Nat
        /\ taken[e] = Times(batch, e) + Times(AsLines(writes), e) + Times(rotated, e)
                        + Times(current, e) + missing[e]
        /\ InHand(e) = Times(batch, e) + Times(AsLines(writes), e)
    BY <1>1, BooksNow
  <2>4. QED
    BY <2>2, <2>3
<1>2. Inductive => Accounted
  BY <1>1 DEF Inductive
<1>3. QED
  BY <1>2, Invariance, PTL

\* push, load and Recent: however often the ring has gone round and however
\* many starts it has seen, Recent hands out the newest events there have been,
\* oldest first, as many as were asked for.
THEOREM RecentIsRecent == Spec => []RingIsRecent
<1>1. Inductive => RingIsRecent
  BY RememberedIsRecent DEF Inductive
<1>2. QED
  BY <1>1, Invariance, PTL

LEMMA OfEventsThatHappened ==
  ASSUME Inductive, NEW s \in {batch, current, rotated}
  PROVE  s \in Seq(Line)
<1>1. Books /\ Counted /\ Settings
  BY DEF Inductive
<1>2. s \in Seq(Lines)
  BY <1>1 DEF Books
<1>3. /\ Len(s) \in Nat /\ DOMAIN s = 1 .. Len(s)
      /\ \A i \in 1 .. Len(s) : /\ s[i] \in Lines /\ s[i].event \in Kept
                                /\ s[i].times \in Nat \ {0}
  BY <1>2, LinesAre
<1>4. ASSUME NEW e \in Kept PROVE Times(s, e) <= MaxEvents
  <2>1. /\ Times(batch, e) \in Nat /\ Times(AsLines(writes), e) \in Nat
        /\ Times(rotated, e) \in Nat /\ Times(current, e) \in Nat
        /\ missing[e] \in Nat /\ taken[e] \in Nat
        /\ taken[e] = Times(batch, e) + Times(AsLines(writes), e) + Times(rotated, e)
                        + Times(current, e) + missing[e]
    BY <1>1, BooksNow
  <2>2. taken[e] + Cardinality(Offering(e)) <= events /\ Cardinality(Offering(e)) \in Nat
    BY <1>1, CountedNow
  <2>3. events \in Nat /\ events <= MaxEvents
    BY <1>1 DEF Settings
  <2>4. /\ Times(batch, e) <= MaxEvents /\ Times(rotated, e) <= MaxEvents
        /\ Times(current, e) <= MaxEvents
    BY <2>1, <2>2, <2>3
  <2>5. QED
    BY <2>4
<1>5. ASSUME NEW i \in 1 .. Len(s) PROVE s[i] \in Line
  <2>1. s[i] \in Lines /\ s[i].event \in Kept /\ s[i].times \in Nat \ {0}
    BY <1>3
  <2>2. i \in DOMAIN s
    BY <1>3
  <2>3. s[i].times <= Times(s, s[i].event)
    BY <1>2, <2>2, TimesCover
  <2>4. Times(s, s[i].event) <= MaxEvents /\ Times(s, s[i].event) \in Nat
    BY <1>2, <1>4, <2>1, TimesType
  <2>5. s[i].times \in 1 .. MaxEvents
    BY <2>1, <2>3, <2>4
  <2>6. QED
    BY <2>1, <2>5 DEF Lines, Line
<1>6. s = [i \in 1 .. Len(s) |-> s[i]]
  BY <1>2, <1>3
<1>7. s \in [1 .. Len(s) -> Line]
  BY <1>5, <1>6
<1>8. QED
  BY <1>3, <1>7, SeqDef

LEMMA InductiveType == Inductive => TypeOK
<1> SUFFICES ASSUME Inductive PROVE TypeOK
  OBVIOUS
<1>1. Shaped /\ Emptied /\ Settings /\ Books /\ Counted /\ Remembers
  BY DEF Inductive
<1>2. /\ DOMAIN ring.slots = 0 .. Depth - 1 /\ ring.first \in 0 .. Depth - 1
      /\ ring.count \in 0 .. Depth /\ told \in Seq(Events)
  <2>1. /\ told \in Seq(Events) /\ Len(told) <= Depth /\ ring.count = Len(told)
        /\ ring.slots \in [0 .. Depth - 1 -> Events \cup {NoEvent}]
        /\ ring.first \in 0 .. Depth - 1
    BY <1>1 DEF Remembers, Holds
  <2>2. Len(told) \in Nat
    BY <2>1, LenProperties
  <2>3. QED
    BY <2>1, <2>2
<1>3. /\ adding \in [Adders -> Kept \cup {NoEvent}] /\ ended \subseteq Adders
      /\ writes \in Seq(Kept) /\ taken \in [Kept -> Nat] /\ missing \in [Kept -> Nat]
  BY <1>1 DEF Books
<1>4. /\ events \in 0 .. MaxEvents /\ faults \in 0 .. MaxFaults /\ Len(writes) <= QueueMax
      /\ writer \in {"idle", "draining", "append", "rotate", "stopped"}
      /\ {closed, last, ragged, panicked} \subseteq BOOLEAN
  BY <1>1 DEF Settings
<1>5. closer \in [Closers -> {"away", "waiting", "returned"}]
  BY <1>1 DEF Emptied
<1>6. {batch, current, rotated} \subseteq Seq(Line)
  BY OfEventsThatHappened
<1>7. size \in 0 .. Len(current)
  <2>1. size \in Nat /\ (size # 0 => size = Len(current)) /\ Len(current) \in Nat
    BY <1>1, LenIsNat DEF Shaped
  <2>2. QED
    BY <2>1
<1>8. ASSUME NEW e \in Kept
      PROVE  taken[e] \in 0 .. MaxEvents /\ missing[e] \in 0 .. MaxEvents
  <2>1. /\ taken[e] \in Nat /\ events \in Nat /\ Cardinality(Offering(e)) \in Nat
        /\ taken[e] + Cardinality(Offering(e)) <= events
    BY <1>1, CountedNow
  <2>2. /\ Times(batch, e) \in Nat /\ Times(AsLines(writes), e) \in Nat
        /\ Times(rotated, e) \in Nat /\ Times(current, e) \in Nat
        /\ missing[e] \in Nat
        /\ taken[e] = Times(batch, e) + Times(AsLines(writes), e) + Times(rotated, e)
                        + Times(current, e) + missing[e]
    BY <1>1, BooksNow
  <2>3. events <= MaxEvents /\ MaxEvents \in Nat
    BY <1>4
  <2>4. taken[e] <= MaxEvents
    BY <2>1, <2>3
  <2>5. missing[e] <= taken[e]
    BY <2>2
  <2>6. QED
    BY <2>1, <2>2, <2>3, <2>4, <2>5
<1>9. taken \in [Kept -> 0 .. MaxEvents] /\ missing \in [Kept -> 0 .. MaxEvents]
  BY <1>3, <1>8
<1>10. QED
  BY <1>2, <1>3, <1>4, <1>5, <1>6, <1>7, <1>9 DEF TypeOK

\* The journal's state has its types: the ring's indices stay inside it, the
\* queue inside its limit, and no line on disk claims more repeats than events
\* there have been.
THEOREM JournalTypes == Spec => []TypeOK
<1>1. QED
  BY InductiveType, Invariance, PTL

-----------------------------------------------------------------------------
(***************************************************************************)
(* Who may find the queue closed.                                          *)
(***************************************************************************)
\* Whoever has finished has nothing to offer, and the queue is closed only
\* after those that Run waits for have finished.
Waited ==
  /\ adding \in [Adders -> Kept \cup {NoEvent}]
  /\ \A a \in ended : a \in Adders /\ adding[a] = NoEvent
  /\ closed => Joined \subseteq ended

LEMMA WaitedStep == ASSUME Waited, [Next]_vars PROVE Waited'
<1>1. ASSUME NEW a \in Adders, NEW e \in Events, Add(a, e)
      PROVE  Waited'
  <2>1. /\ a \notin ended /\ UNCHANGED <<ended, closed, panicked>>
        /\ adding' = [adding EXCEPT ![a] = IF e \in Kept THEN e ELSE NoEvent]
    BY <1>1 DEF Add, queue
  <2>2. QED
    BY <2>1 DEF Waited
<1>2. ASSUME NEW a \in Adders, Offer(a)
      PROVE  Waited'
  BY <1>2 DEF Offer, Waited
<1>3. ASSUME NEW a \in Adders, End(a)
      PROVE  Waited'
  BY <1>3 DEF End, Waited, queue
<1>4. ASSUME NEW k \in Closers, Close(k) \/ CloseReturns(k)
      PROVE  Waited'
  BY <1>4 DEF Close, CloseReturns, Waited, adders
<1>5. CASE WriteLoop
  BY <1>5 DEF WriteLoop, Receive, Drain, Collected, Flush, Rotate, Waited, adders, queue
<1>6. CASE NewJournal
  BY <1>6 DEF NewJournal, Waited
<1>7. CASE UNCHANGED vars
  BY <1>7 DEF vars, Waited, adders, queue
<1>8. QED
  BY <1>1, <1>2, <1>3, <1>4, <1>5, <1>6, <1>7 DEF Next, Record, Restart, PowerCut

\* Run closes the journal after deviceFinished: from then on nobody it has waited
\* for has anything to offer, so the device loop is never the one that sends on
\* the closed queue.  Whoever does is a ladder, a stop or the opening questions.
TheJoinedAreDone ==
  closed => \A a \in Joined : a \in ended /\ adding[a] = NoEvent

THEOREM OnlyStragglersPanic == Spec => []TheJoinedAreDone
<1>1. Init => Waited
  BY DEF Init, Waited
<1>2. Waited /\ [Next]_vars => Waited'
  BY WaitedStep
<1>3. Waited => TheJoinedAreDone
  BY DEF Waited, TheJoinedAreDone
<1>4. QED
  BY <1>1, <1>2, <1>3, PTL DEF Spec

-----------------------------------------------------------------------------
(***************************************************************************)
(* How far the writer is from its end.  CloseEnds needs fairness; what it  *)
(* needs besides is that a queue that is closed is worked off: nothing is  *)
(* added to it, and no step of the writer, neither a rotation nor a fault, *)
(* leads back to where it was.                                             *)
(***************************************************************************)

\* A file without room is rotated before anything is written.
Stage ==
  CASE writer = "draining" -> 5
    [] writer = "append"   -> IF Room = 0 THEN 4 ELSE 2
    [] writer = "rotate"   -> 3
    [] writer = "idle"     -> 1
    [] OTHER               -> 0

\* What waits has more steps before it than what is in hand.
WorkLeft == 7 * Len(writes) + 2 * Len(batch) + Stage

\* Close, "drains what is left": once the queue is closed every step of the
\* writer leaves less to do, and nobody else's leaves more.
WriterRunsDown ==
  [][closed /\ closed' => IF WriteLoop THEN WorkLeft' < WorkLeft ELSE WorkLeft' = WorkLeft]_vars

LEMMA CollapseShortens ==
  ASSUME NEW s, IsSequence(s)
  PROVE  IsSequence(Collapse(s)) /\ Len(Collapse(s)) \in Nat /\ Len(Collapse(s)) <= Len(s)
<1> DEFINE starts == {i \in DOMAIN s : i = 1 \/ s[i].event # s[i - 1].event}
           n == Cardinality(starts)
<1>1. n \in Nat /\ n <= Len(s)
  <2>1. DOMAIN s = 1 .. Len(s) /\ Len(s) \in Nat
    BY LenIsNat
  <2>2. IsFiniteSet(1 .. Len(s)) /\ Cardinality(1 .. Len(s)) = Len(s)
    BY <2>1, PositionsAreFinite
  <2>3. starts \in SUBSET (1 .. Len(s))
    BY <2>1
  <2> HIDE DEF starts
  <2>4. IsFiniteSet(starts) /\ Cardinality(starts) <= Cardinality(1 .. Len(s))
    BY <2>2, <2>3, FS_Subset
  <2>5. QED
    BY <2>2, <2>4, FS_CardinalityType
<1> DEFINE f == Collapse(s)
<1>2. f = [i \in 1 .. n |-> f[i]]
  BY Zenon DEF Collapse
<1> HIDE DEF f, n
<1>3. IsSequence(f) /\ Len(f) = n
  BY <1>1, <1>2, FunctionsAreSequences
<1>4. QED
  BY <1>1, <1>3 DEF f

LEMMA OnlyTheWriterWorks ==
  ASSUME [Next]_vars, ~WriteLoop, closed, closed'
  PROVE  UNCHANGED <<writes, batch, writer, size>>
<1>1. ASSUME NEW a \in Adders, Record(a)
      PROVE  UNCHANGED <<writes, batch, writer, size>>
  BY <1>1 DEF Record, Add, Offer, End, queue, loop, disk
<1>2. ASSUME NEW k \in Closers, Close(k) \/ CloseReturns(k)
      PROVE  UNCHANGED <<writes, batch, writer, size>>
  BY <1>2 DEF Close, CloseReturns, loop, disk
<1>3. ~Restart /\ ~PowerCut
  BY DEF Restart, PowerCut, NewJournal
<1>4. CASE UNCHANGED vars
  BY <1>4 DEF vars, queue, loop, disk
<1>5. QED
  BY <1>1, <1>2, <1>3, <1>4 DEF Next

LEMMA TheRoomIsUsed ==
  ASSUME Shaped, Room # 0, Fits = 0
  PROVE  Len(batch) = 0
<1>1. Len(batch) \in Nat /\ Room \in Nat
  BY FitsFits, LenIsNat DEF Shaped
<1>2. ASSUME NEW a \in Nat, NEW b \in Nat PROVE Min({a, b}) \in {a, b}
  <2>1. \E x \in {a, b} : \A y \in {a, b} : x <= y
    OBVIOUS
  <2>2. QED
    BY <2>1 DEF Min
<1>3. QED
  BY <1>1, <1>2 DEF Fits

\* What the numbers of WorkLeft are.
LEMMA TheWork ==
  ASSUME Shaped, Books
  PROVE  Len(writes) \in Nat /\ Len(batch) \in Nat /\ Stage \in 0 .. 5
BY LenIsNat DEF Shaped, Books, Stage

LEMMA TakingIsWork ==
  ASSUME Shaped, Books, Receive \/ Drain
  PROVE  WorkLeft' < WorkLeft
<1> DEFINE w == Len(writes)
           b == Len(batch)
<1>1. w \in Nat /\ b \in Nat /\ writes \in Seq(Kept)
  BY TheWork DEF Books
<1>2. CASE writes # <<>>
  <2>1. writes' = Tail(writes) /\ writer' = "draining"
    BY <1>2 DEF Receive, Drain
  <2>2. Len(writes') = w - 1
    BY <1>1, <1>2, <2>1
  <2>3. \/ writer = "idle" /\ Len(batch') = 1
        \/ writer = "draining" /\ Len(batch') = b + 1
    <3>1. CASE Receive
      <4>1. writer = "idle" /\ batch' = <<Once(Head(writes))>>
        BY <1>2, <3>1 DEF Receive
      <4>2. Len(batch') = 1
        BY <4>1, LenOfOne, Zenon
      <4>3. QED
        BY <4>1, <4>2
    <3>2. CASE Drain
      <4>1. writer = "draining" /\ batch' = Append(batch, Once(Head(writes)))
        BY <3>2 DEF Drain
      <4>2. Len(Append(batch, Once(Head(writes)))) = b + 1
        BY LenIsNat DEF Shaped, IsSequence
      <4>3. QED
        BY <4>1, <4>2
    <3>3. QED
      BY <3>1, <3>2
  <2>4. Stage' = 5 /\ (writer = "idle" => Stage = 1) /\ (writer = "draining" => Stage = 5)
    BY <2>1 DEF Stage
  <2>5. CASE writer = "idle" /\ Len(batch') = 1
    <3>1. Stage' = 5 /\ Stage = 1
      BY <2>4, <2>5
    <3>2. QED
      BY <1>1, <2>2, <2>5, <3>1 DEF WorkLeft
  <2>6. CASE writer = "draining" /\ Len(batch') = b + 1
    <3>1. Stage' = 5 /\ Stage = 5
      BY <2>4, <2>6
    <3>2. QED
      BY <1>1, <2>2, <2>6, <3>1 DEF WorkLeft
  <2>7. QED
    BY <2>3, <2>5, <2>6
<1>3. CASE writes = <<>>
  <2>1. writer = "idle" /\ writer' = "stopped" /\ UNCHANGED <<writes, batch>>
    BY <1>3 DEF Receive, Drain
  <2>2. Stage' = 0 /\ Stage = 1
    BY <2>1 DEF Stage
  <2>3. QED
    BY <1>1, <2>1, <2>2 DEF WorkLeft
<1>4. QED
  BY <1>2, <1>3

LEMMA WritingIsWork ==
  ASSUME Shaped, Books, Collected \/ Flush \/ Rotate
  PROVE  WorkLeft' < WorkLeft
<1>1. /\ Len(writes) \in Nat /\ Len(batch) \in Nat /\ UNCHANGED writes
      /\ IsSequence(batch) /\ Fits \in Nat /\ Fits <= Len(batch) /\ Fits <= Room /\ Room \in Nat
  BY TheWork, FitsFits DEF Shaped, Collected, Flush, Rotate, queue
<1>2. Len(<<>>) = 0 /\ Done \in {"idle", "stopped"}
  BY DEF Done
<1>3. CASE Collected
  <2>1. Len(batch') \in Nat /\ Len(batch') <= Len(batch)
    <3>1. batch' = Collapse(batch) \/ batch' = <<>>
      BY <1>3 DEF Collected
    <3>2. QED
      BY <1>1, <1>2, <3>1, CollapseShortens
  <2>2. writer = "draining" /\ writer' \in {"append", "idle", "stopped"}
    BY <1>3 DEF Collected
  <2>3. Stage = 5 /\ Stage' \in 0 .. 4
    BY <2>2 DEF Stage
  <2>4. QED
    BY <1>1, <2>1, <2>3 DEF WorkLeft
<1>4. CASE Flush
  <2>1. writer = "append" /\ batch' = SubSeq(batch, Fits + 1, Len(batch))
    BY <1>4 DEF Flush
  <2>2. Len(batch') = Len(batch) - Fits
    BY <1>1, <2>1, PartIs
  <2>3. writer' = IF batch' # <<>> THEN "rotate" ELSE Done
    BY <1>4 DEF Flush
  <2>4. Stage = IF Room = 0 THEN 4 ELSE 2
    BY <2>1 DEF Stage
  <2>5. Stage' \in {0, 1, 3} /\ (batch' = <<>> => Stage' \in {0, 1})
    BY <1>2, <2>3 DEF Stage
  <2>6. CASE Room = 0
    BY <1>1, <2>2, <2>4, <2>5, <2>6 DEF WorkLeft
  <2>7. CASE Room # 0 /\ Fits # 0
    BY <1>1, <2>2, <2>4, <2>5, <2>7 DEF WorkLeft
  <2>8. CASE Room # 0 /\ Fits = 0
    <3>1. Len(batch') = 0 /\ Len(batch) = 0
      BY <1>1, <2>2, <2>8, TheRoomIsUsed
    <3>2. batch' = <<>>
      BY <1>1, <2>1, <3>1, PartIs, EmptyIs
    <3>3. QED
      BY <1>1, <2>4, <2>5, <2>8, <3>1, <3>2 DEF WorkLeft
  <2>9. QED
    BY <2>6, <2>7, <2>8
<1>5. CASE Rotate
  <2>1. writer = "rotate"
    BY <1>5 DEF Rotate
  <2>2. \/ writer' = "append" /\ size' = 0 /\ batch' = batch
        \/ writer' \in {"idle", "stopped"} /\ batch' = <<>>
    BY <1>2, <1>5 DEF Rotate
  <2>3. Stage = 3
    BY <2>1 DEF Stage
  <2>4. CASE writer' = "append" /\ size' = 0 /\ batch' = batch
    <3>1. Room' = FileMax /\ FileMax \in Nat \ {0}
      BY <2>4 DEF Room
    <3>2. Stage' = 2
      BY <2>4, <3>1 DEF Stage
    <3>3. QED
      BY <1>1, <2>3, <2>4, <3>2 DEF WorkLeft
  <2>5. CASE writer' \in {"idle", "stopped"} /\ batch' = <<>>
    <3>1. Stage' \in {0, 1}
      BY <2>5 DEF Stage
    <3>2. QED
      BY <1>1, <1>2, <2>3, <2>5, <3>1 DEF WorkLeft
  <2>6. QED
    BY <2>2, <2>4, <2>5
<1>6. QED
  BY <1>3, <1>4, <1>5

\* Close waits for a writer that comes to its end: a queue that is closed is
\* worked off whatever is in it, and no rotation, failed open, failed rename or
\* straggler with something to record makes more of it.
THEOREM AClosedQueueIsWorkedOff == Spec => WriterRunsDown
<1>1. ASSUME Inductive, [Next]_vars
      PROVE  [closed /\ closed' => IF WriteLoop THEN WorkLeft' < WorkLeft
                                   ELSE WorkLeft' = WorkLeft]_vars
  <2>1. Shaped /\ Books
    BY <1>1 DEF Inductive
  <2>2. WriteLoop => WorkLeft' < WorkLeft
    BY <2>1, TakingIsWork, WritingIsWork DEF WriteLoop
  <2>3. ASSUME ~WriteLoop, closed, closed' PROVE WorkLeft' = WorkLeft
    <3>1. UNCHANGED <<writes, batch, writer, size>>
      BY <1>1, <2>3, OnlyTheWriterWorks
    <3>2. QED
      BY <3>1 DEF WorkLeft, Stage, Room
  <2>4. QED
    BY <2>2, <2>3
<1>2. QED
  BY <1>1, Invariance, PTL DEF Spec, WriterRunsDown

=============================================================================
