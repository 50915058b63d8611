----------------------------- MODULE SharedLemmas -----------------------------
(***************************************************************************)
(* Lemmas that several components' proofs rest on: induction over the      *)
(* natural numbers, said of a set; what Filter returns for every list, by  *)
(* that induction; and what ContextState renders to.                       *)
(***************************************************************************)
EXTENDS ContextState, Lists, Integers, WellFoundedInduction, SequenceTheorems, TLAPS

\* A set of natural numbers has a least element.
LEMMA NatLeast ==
    ASSUME NEW T, T \subseteq Nat, T # {}
    PROVE  \E m \in T : \A n \in T : m <= n
<1> DEFINE R == OpToRel(<, Nat)
<1>1. R = {ss \in Nat \X Nat : ss[1] < ss[2]}
  BY DEF OpToRel
<1>2. IsWellFoundedOn(R, Nat)
  BY NatLessThanWellFounded
<1> HIDE DEF R
<1>3. PICK x \in T : \A y \in T : ~ (<<y, x>> \in R)
  BY <1>2, WFMin
<1>4. ASSUME NEW y \in T PROVE x <= y
  <2>1. ~(<<y, x>> \in R) /\ x \in Nat /\ y \in Nat
    BY <1>3
  <2>2. ~(y < x)
    BY <2>1, <1>1
  <2> QED
    BY <2>1, <2>2
<1> QED
  BY <1>4

\* A set of natural numbers with an upper bound has a greatest element.
LEMMA NatGreatest ==
    ASSUME NEW b \in Nat, NEW T, T \subseteq 0..b, T # {}
    PROVE  \E m \in T : \A n \in T : n <= m
<1> DEFINE U == { b - n : n \in T }
<1>1. U \subseteq Nat /\ U # {}
  <2>1. \A n \in T : b - n \in Nat
    OBVIOUS
  <2> QED
    BY <2>1, Zenon
<1>2. PICK u \in U : \A v \in U : u <= v
  BY <1>1, NatLeast
<1>3. PICK m \in T : u = b - m
  BY <1>2
<1>4. ASSUME NEW n \in T PROVE n <= m
  <2>1. u <= b - n
    BY <1>2
  <2>2. n \in 0..b /\ m \in 0..b
    OBVIOUS
  <2> QED
    BY <2>1, <2>2, <1>3
<1> QED
  BY <1>4

\* Induction: a property is a set, that of the numbers that have it.
LEMMA Induction ==
    ASSUME NEW T, 0 \in T, \A n \in Nat : n \in T => n + 1 \in T
    PROVE  Nat \subseteq T
<1> SUFFICES ASSUME Nat \ T # {} PROVE FALSE
  OBVIOUS
<1>1. PICK m \in Nat \ T : \A n \in Nat \ T : m <= n
  BY NatLeast
<1>2. m # 0 /\ m - 1 \in Nat
  BY <1>1
<1>3. m - 1 \in T
  BY <1>1, <1>2
<1> QED
  BY <1>1, <1>2, <1>3

\* Induction over the sequences of S, said of a set of them.
LEMMA SeqInduction ==
    ASSUME NEW S, NEW D, <<>> \in D,
           \A s \in Seq(S), t \in S : s \in D => Append(s, t) \in D
    PROVE  Seq(S) \subseteq D
<1> DEFINE N == { n \in Nat : \A s \in Seq(S) : Len(s) = n => s \in D }
<1>1. 0 \in N
  <2>1. \A s \in Seq(S) : Len(s) = 0 => s = <<>>
    BY EmptySeq
  <2> QED
    BY <2>1
<1>2. ASSUME NEW n \in Nat, n \in N PROVE n + 1 \in N
  <2>1. ASSUME NEW s \in Seq(S), Len(s) = n + 1 PROVE s \in D
    <3>1. s # <<>>
      BY <2>1, EmptySeq
    <3>2. PICK front \in Seq(S), last \in S : s = Append(front, last)
      BY <3>1, SequenceEmptyOrAppend
    <3>3. Len(front) = n
      <4>1. Len(s) = Len(front) + 1 /\ Len(front) \in Nat
        BY <3>2, AppendProperties, LenProperties
      <4> QED
        BY <2>1, <4>1
    <3>4. front \in D
      BY <1>2, <3>3
    <3> QED
      BY <3>2, <3>4
  <2> QED
    BY <2>1
<1>3. Nat \subseteq N
  <2> HIDE DEF N
  <2> QED
    BY <1>1, <1>2, Induction
<1>4. ASSUME NEW s \in Seq(S) PROVE s \in D
  <2>1. Len(s) \in N
    BY <1>3, LenProperties
  <2> QED
    BY <2>1
<1> QED
  BY <1>4

-----------------------------------------------------------------------------
\* Where the n-th of S rounds of P turns is: in which round, and at which turn.
LEMMA RoundAndTurn ==
    ASSUME NEW S \in Nat, NEW P \in Nat \ {0}, NEW n \in 1..(S * P)
    PROVE  /\ (n - 1) \div P + 1 \in 1..S
           /\ ((n - 1) % P) + 1 \in 1..P
           /\ n = ((n - 1) \div P) * P + ((n - 1) % P) + 1
<1> DEFINE q == (n - 1) \div P
           r == (n - 1) % P
<1>1. S * P \in Nat /\ n - 1 \in Nat /\ n - 1 < S * P
  OBVIOUS
<1>2. q \in Nat /\ r \in 0..(P - 1) /\ n - 1 = q * P + r
  BY <1>1
<1> HIDE DEF q, r
<1>3. q < S
  <2> SUFFICES ASSUME S <= q PROVE FALSE
    BY <1>2
  <2>1. S * P <= q * P
    BY <1>2
  <2>2. q * P \in Nat
    BY <1>2
  <2> QED
    BY <1>1, <1>2, <2>1, <2>2
<1>4. q + 1 \in 1..S /\ r + 1 \in 1..P /\ n = (q * P + r) + 1
  BY <1>1, <1>2, <1>3
<1> QED
  BY <1>4 DEF q, r

\* The turn j of the round behind k others.
LEMMA TurnOfRound ==
    ASSUME NEW P \in Nat \ {0}, NEW k \in Nat, NEW j \in 1..P
    PROVE  /\ (((k * P) + j) - 1) \div P = k
           /\ (((k * P) + j) - 1) % P = j - 1
<1> DEFINE n == (k * P) + j
           q == (n - 1) \div P
           r == (n - 1) % P
<1>1. k * P \in Nat /\ (k + 1) * P = k * P + P /\ k + 1 \in Nat
  OBVIOUS
<1>2. n \in 1..((k + 1) * P)
  BY <1>1
<1>3. q + 1 \in 1..(k + 1) /\ r + 1 \in 1..P /\ n = (q * P + r) + 1
  <2> HIDE DEF n
  <2> QED
    BY <1>1, <1>2, RoundAndTurn
<1>4. q \in Int /\ r \in Int
  BY <1>1
<1> HIDE DEF q, r
<1>5. q \in 0..k /\ r \in 0..(P - 1) /\ (k * P) + j = (q * P + r) + 1
  BY <1>3, <1>4
<1>6. q = k
  <2> SUFFICES ASSUME q < k PROVE FALSE
    BY <1>5
  <2>1. (q + 1) * P <= k * P /\ (q + 1) * P = q * P + P /\ q * P \in Nat
    BY <1>5
  <2> QED
    BY <1>1, <1>5, <2>1
<1>7. r = j - 1
  BY <1>1, <1>5, <1>6
<1> QED
  BY <1>6, <1>7 DEF q, r, n

-----------------------------------------------------------------------------
\* The first m elements of s, filtered: f[0] .. f[m].
Upto(f, s, T, m) ==
    f = [n \in 0..m |->
            IF n = 0 THEN <<>>
            ELSE IF s[n] \in T THEN Append(f[n - 1], s[n]) ELSE f[n - 1]]

\* The recursion of Filter has a solution that is one element longer.
LEMMA UptoExtends ==
    ASSUME NEW s, NEW T, NEW m \in Nat, NEW f, Upto(f, s, T, m)
    PROVE  \E g : Upto(g, s, T, m + 1)
<1> DEFINE g == [n \in 0..(m + 1) |-> IF n <= m THEN f[n]
                   ELSE IF s[n] \in T THEN Append(f[n - 1], s[n]) ELSE f[n - 1]]
<1>1. \A n \in 0..m : g[n] = f[n]
  OBVIOUS
<1>2. \A n \in 0..m : f[n] = IF n = 0 THEN <<>>
          ELSE IF s[n] \in T THEN Append(f[n - 1], s[n]) ELSE f[n - 1]
  BY Zenon DEF Upto
<1>3. g[m + 1] = IF s[m + 1] \in T THEN Append(f[m], s[m + 1]) ELSE f[m]
  <2>1. m + 1 \in 0..(m + 1) /\ ~(m + 1 <= m) /\ (m + 1) - 1 = m
    OBVIOUS
  <2>2. g[m + 1] = IF s[m + 1] \in T THEN Append(f[(m + 1) - 1], s[m + 1])
                   ELSE f[(m + 1) - 1]
    BY <2>1, Zenon
  <2> QED
    BY <2>1, <2>2, Zenon
<1>4. g = [n \in 0..(m + 1) |-> g[n]]
  OBVIOUS
<1> HIDE DEF g
<1>5. \A n \in 0..(m + 1) : g[n] = IF n = 0 THEN <<>>
          ELSE IF s[n] \in T THEN Append(g[n - 1], s[n]) ELSE g[n - 1]
  <2> TAKE n \in 0..(m + 1)
  <2>1. CASE n = m + 1
    <3>1. n # 0 /\ n - 1 = m /\ m \in 0..m
      BY <2>1
    <3>2. g[n - 1] = f[m]
      BY <3>1, <1>1, Zenon
    <3> QED
      BY <3>1, <3>2, <2>1, <1>3, Zenon
  <2>2. CASE n \in 1..m
    <3>1. n # 0 /\ n - 1 \in 0..m /\ n \in 0..m
      BY <2>2
    <3>2. g[n - 1] = f[n - 1] /\ g[n] = f[n]
      BY <3>1, <1>1, Zenon
    <3> QED
      BY <3>1, <3>2, <1>2, Zenon
  <2>3. CASE n = 0
    <3>1. 0 \in 0..m
      OBVIOUS
    <3> QED
      BY <3>1, <2>3, <1>1, <1>2, Zenon
  <2> QED
    BY <2>1, <2>2, <2>3
<1>6. [n \in 0..(m + 1) |-> g[n]] = [n \in 0..(m + 1) |->
          IF n = 0 THEN <<>>
          ELSE IF s[n] \in T THEN Append(g[n - 1], s[n]) ELSE g[n - 1]]
  BY <1>5, Zenon
<1>7. Upto(g, s, T, m + 1)
  BY <1>4, <1>6, Zenon DEF Upto
<1> QED
  BY <1>7, Zenon

\* Filter is the last value of its recursion, which is defined.
LEMMA FilterDefined ==
    ASSUME NEW S, NEW s \in Seq(S), NEW T
    PROVE  \E f : Upto(f, s, T, Len(s)) /\ Filter(s, T) = f[Len(s)]
<1> DEFINE D == { m \in Nat : \E f : Upto(f, s, T, m) }
<1>1. 0 \in D
  <2> DEFINE f0 == [n \in 0..0 |-> <<>>]
  <2>1. Upto(f0, s, T, 0)
    BY DEF Upto
  <2> QED
    BY <2>1
<1>2. ASSUME NEW m \in Nat, m \in D PROVE m + 1 \in D
  <2>1. PICK f : Upto(f, s, T, m)
    BY <1>2
  <2>2. \E g : Upto(g, s, T, m + 1)
    BY <2>1, UptoExtends
  <2>3. m + 1 \in Nat
    OBVIOUS
  <2> QED
    BY <2>2, <2>3, Zenon
<1>3. Nat \subseteq D
  <2> HIDE DEF D
  <2> QED
    BY <1>1, <1>2, Induction
<1>4. \E f : Upto(f, s, T, Len(s))
  <2>1. Len(s) \in D
    BY <1>3, LenProperties
  <2> QED
    BY <2>1, Zenon
<1> DEFINE h == CHOOSE f : Upto(f, s, T, Len(s))
<1>5. Upto(h, s, T, Len(s))
  BY <1>4, Zenon
<1>6. Filter(s, T) = h[Len(s)]
  BY Zenon DEF Filter, Upto
<1> QED
  BY <1>5, <1>6, Zenon

\* t is what a filter keeps of the first m elements of s: e says where each
\* one of them was.
Keeps(t, e, s, T, m) ==
    /\ e \in [1..Len(t) -> 1..m]
    /\ \A k \in 1..Len(t) : t[k] = s[e[k]] /\ t[k] \in T
    /\ \A k, l \in 1..Len(t) : k < l => e[k] < e[l]
    /\ \A j \in 1..m : s[j] \in T => \E k \in 1..Len(t) : e[k] = j
    /\ Len(t) <= m
    /\ Len(t) = m => \A j \in 1..m : t[j] = s[j]

\* One more element that is in T.
LEMMA KeepsOneMore ==
    ASSUME NEW S, NEW s \in Seq(S), NEW T, NEW m \in Nat, m + 1 <= Len(s),
           NEW t \in Seq(S), NEW e, Keeps(t, e, s, T, m), s[m + 1] \in T
    PROVE  \E d : Keeps(Append(t, s[m + 1]), d, s, T, m + 1)
<1> DEFINE u == Append(t, s[m + 1])
           d == [k \in 1..Len(u) |-> IF k <= Len(t) THEN e[k] ELSE m + 1]
<1>1. s[m + 1] \in S /\ Len(t) \in Nat
  BY LenProperties, ElementOfSeq
<1>2. /\ Len(u) = Len(t) + 1 /\ u[Len(t) + 1] = s[m + 1]
      /\ \A k \in 1..Len(t) : u[k] = t[k]
  BY <1>1, AppendProperties
<1> HIDE DEF u
<1>3. d \in [1..Len(u) -> 1..(m + 1)]
  BY <1>1, <1>2 DEF Keeps
<1>4. /\ \A k \in 1..Len(t) : d[k] = e[k] /\ e[k] \in 1..m
      /\ d[Len(t) + 1] = m + 1
  BY <1>1, <1>2 DEF Keeps
<1> HIDE DEF d
<1>5. \A k \in 1..Len(u) : u[k] = s[d[k]] /\ u[k] \in T
  <2> TAKE k \in 1..Len(u)
  <2>1. CASE k \in 1..Len(t)
    BY <2>1, <1>2, <1>4 DEF Keeps
  <2>2. CASE k = Len(t) + 1
    BY <2>2, <1>2, <1>4
  <2> QED
    BY <2>1, <2>2, <1>1, <1>2
<1>6. \A k, l \in 1..Len(u) : k < l => d[k] < d[l]
  <2> TAKE k, l \in 1..Len(u)
  <2> HAVE k < l
  <2>1. k \in 1..Len(t)
    BY <1>1, <1>2
  <2>2. CASE l \in 1..Len(t)
    <3>1. e[k] < e[l]
      BY <2>1, <2>2 DEF Keeps
    <3> QED
      BY <2>1, <2>2, <3>1, <1>4
  <2>3. CASE l = Len(t) + 1
    BY <2>1, <2>3, <1>4
  <2> QED
    BY <2>2, <2>3, <1>1, <1>2
<1>7. \A j \in 1..(m + 1) : s[j] \in T => \E k \in 1..Len(u) : d[k] = j
  <2> TAKE j \in 1..(m + 1)
  <2> HAVE s[j] \in T
  <2>1. CASE j \in 1..m
    <3>1. PICK k \in 1..Len(t) : e[k] = j
      BY <2>1 DEF Keeps
    <3>2. k \in 1..Len(u) /\ d[k] = j
      BY <3>1, <1>1, <1>2, <1>4
    <3> QED
      BY <3>2
  <2>2. CASE j = m + 1
    <3>1. Len(t) + 1 \in 1..Len(u) /\ d[Len(t) + 1] = j
      BY <2>2, <1>1, <1>2, <1>4
    <3> QED
      BY <3>1
  <2> QED
    BY <2>1, <2>2
<1>8. Len(u) <= m + 1
  BY <1>1, <1>2 DEF Keeps
<1>9. Len(u) = m + 1 => \A j \in 1..(m + 1) : u[j] = s[j]
  <2> HAVE Len(u) = m + 1
  <2>1. Len(t) = m
    BY <1>1, <1>2
  <2> TAKE j \in 1..(m + 1)
  <2>2. CASE j \in 1..m
    <3>1. t[j] = s[j]
      BY <2>1, <2>2 DEF Keeps
    <3> QED
      BY <3>1, <2>1, <2>2, <1>2
  <2>3. CASE j = m + 1
    BY <2>3, <2>1, <1>2
  <2> QED
    BY <2>2, <2>3
<1>10. Keeps(u, d, s, T, m + 1)
  BY <1>3, <1>5, <1>6, <1>7, <1>8, <1>9 DEF Keeps
<1> QED
  BY <1>10 DEF u

\* One more element that is not in T.
LEMMA KeepsNoMore ==
    ASSUME NEW S, NEW s \in Seq(S), NEW T, NEW m \in Nat, m + 1 <= Len(s),
           NEW t \in Seq(S), NEW e, Keeps(t, e, s, T, m), s[m + 1] \notin T
    PROVE  Keeps(t, e, s, T, m + 1)
<1>1. Len(t) \in Nat /\ Len(t) <= m
  BY LenProperties DEF Keeps
<1>2. e \in [1..Len(t) -> 1..(m + 1)]
  BY DEF Keeps
<1>3. \A j \in 1..(m + 1) : s[j] \in T => j \in 1..m
  OBVIOUS
<1>4. Len(t) # m + 1 /\ Len(t) <= m + 1
  BY <1>1
<1> QED
  BY <1>2, <1>3, <1>4 DEF Keeps

\* What Filter returns, for every list and every condition.
LEMMA FilterKeeps ==
    ASSUME NEW S, NEW s \in Seq(S), NEW T
    PROVE  /\ Filter(s, T) \in Seq(S)
           /\ \E e : Keeps(Filter(s, T), e, s, T, Len(s))
<1>1. PICK f : Upto(f, s, T, Len(s)) /\ Filter(s, T) = f[Len(s)]
  BY FilterDefined
<1>2. Len(s) \in Nat
  BY LenProperties
<1>3. \A n \in 0..Len(s) : f[n] = IF n = 0 THEN <<>>
          ELSE IF s[n] \in T THEN Append(f[n - 1], s[n]) ELSE f[n - 1]
  BY <1>1, Zenon DEF Upto
<1> DEFINE D == { m \in Nat : m <= Len(s) =>
                    f[m] \in Seq(S) /\ \E e : Keeps(f[m], e, s, T, m) }
<1>4. 0 \in D
  <2>1. 0 \in 0..Len(s)
    BY <1>2
  <2>2. f[0] = <<>>
    BY <2>1, <1>3, Zenon
  <2>3. Keeps(<<>>, <<>>, s, T, 0)
    BY DEF Keeps
  <2>4. f[0] \in Seq(S) /\ Keeps(f[0], <<>>, s, T, 0)
    BY <2>2, <2>3
  <2>5. f[0] \in Seq(S) /\ \E e : Keeps(f[0], e, s, T, 0)
    BY <2>4, Zenon
  <2>6. 0 \in Nat
    OBVIOUS
  <2> QED
    BY <2>5, <2>6, Zenon
<1>5. ASSUME NEW m \in Nat, m \in D PROVE m + 1 \in D
  <2> SUFFICES ASSUME m + 1 <= Len(s)
               PROVE  f[m + 1] \in Seq(S) /\ \E e : Keeps(f[m + 1], e, s, T, m + 1)
    OBVIOUS
  <2>1. PICK e : f[m] \in Seq(S) /\ Keeps(f[m], e, s, T, m)
    BY <1>2, <1>5
  <2>2. m + 1 \in 0..Len(s) /\ m + 1 # 0 /\ (m + 1) - 1 = m /\ m + 1 \in 1..Len(s)
    BY <1>2
  <2>3. f[m + 1] = IF s[m + 1] \in T THEN Append(f[(m + 1) - 1], s[m + 1])
                   ELSE f[(m + 1) - 1]
    BY <2>2, <1>3, Zenon
  <2>4. CASE s[m + 1] \in T
    <3>1. f[m + 1] = Append(f[m], s[m + 1])
      BY <2>2, <2>3, <2>4, Zenon
    <3>2. s[m + 1] \in S
      BY <2>2, ElementOfSeq
    <3>3. Append(f[m], s[m + 1]) \in Seq(S)
      BY <2>1, <3>2, AppendProperties
    <3>4. \E d : Keeps(Append(f[m], s[m + 1]), d, s, T, m + 1)
      BY <2>1, <2>4, KeepsOneMore
    <3> QED
      BY <3>1, <3>3, <3>4, Zenon
  <2>5. CASE s[m + 1] \notin T
    <3>1. f[m + 1] = f[m]
      BY <2>2, <2>3, <2>5, Zenon
    <3>2. Keeps(f[m], e, s, T, m + 1)
      BY <2>1, <2>5, KeepsNoMore
    <3> QED
      BY <3>1, <3>2, <2>1, Zenon
  <2> QED
    BY <2>4, <2>5
<1>6. Len(s) \in D
  <2>1. Nat \subseteq D
    <3> HIDE DEF D
    <3> QED
      BY <1>4, <1>5, Induction
  <2> QED
    BY <2>1, <1>2
<1> QED
  BY <1>1, <1>2, <1>6

\* A filter that drops something returns a shorter list.
LEMMA FilterDropsOne ==
    ASSUME NEW S, NEW s \in Seq(S), NEW T, Filter(s, T) # s
    PROVE  Len(Filter(s, T)) < Len(s)
<1>1. Filter(s, T) \in Seq(S)
  BY FilterKeeps
<1>2. PICK e : Keeps(Filter(s, T), e, s, T, Len(s))
  BY FilterKeeps
<1>3. Len(Filter(s, T)) = Len(s) => \A j \in 1..Len(s) : Filter(s, T)[j] = s[j]
  BY <1>2 DEF Keeps
<1>4. Len(Filter(s, T)) # Len(s)
  BY <1>1, <1>3, SeqEqual
<1> QED
  BY <1>1, <1>2, <1>4, LenProperties DEF Keeps

\* The recursion has one solution, which looks at no element behind m.
LEMMA UptoAgree ==
    ASSUME NEW s, NEW t, NEW T, NEW m \in Nat, NEW n \in Nat, m <= n,
           \A i \in 1..m : s[i] = t[i],
           NEW f, Upto(f, s, T, m), NEW g, Upto(g, t, T, n)
    PROVE  f[m] = g[m]
<1>1. /\ \A k \in 0..m : f[k] = IF k = 0 THEN <<>>
            ELSE IF s[k] \in T THEN Append(f[k - 1], s[k]) ELSE f[k - 1]
      /\ \A k \in 0..n : g[k] = IF k = 0 THEN <<>>
            ELSE IF t[k] \in T THEN Append(g[k - 1], t[k]) ELSE g[k - 1]
  BY Zenon DEF Upto
<1> DEFINE D == { k \in Nat : k <= m => f[k] = g[k] }
<1>2. 0 \in D
  <2>1. 0 \in 0..m /\ 0 \in 0..n
    OBVIOUS
  <2> QED
    BY <1>1, <2>1, Zenon
<1>3. ASSUME NEW k \in Nat, k \in D PROVE k + 1 \in D
  <2> SUFFICES ASSUME k + 1 <= m PROVE f[k + 1] = g[k + 1]
    OBVIOUS
  <2>1. f[k] = g[k] /\ s[k + 1] = t[k + 1]
    BY <1>3
  <2>2. k + 1 \in 0..m /\ k + 1 \in 0..n /\ k + 1 # 0 /\ (k + 1) - 1 = k
    OBVIOUS
  <2>3. /\ f[k + 1] = IF s[k + 1] \in T THEN Append(f[(k + 1) - 1], s[k + 1])
                      ELSE f[(k + 1) - 1]
        /\ g[k + 1] = IF t[k + 1] \in T THEN Append(g[(k + 1) - 1], t[k + 1])
                      ELSE g[(k + 1) - 1]
    BY <1>1, <2>2, Zenon
  <2>4. CASE s[k + 1] \in T
    <3>1. f[k + 1] = Append(f[k], s[k + 1]) /\ g[k + 1] = Append(g[k], t[k + 1])
      BY <2>1, <2>2, <2>3, <2>4, Zenon
    <3> QED
      BY <2>1, <3>1, Zenon
  <2>5. CASE s[k + 1] \notin T
    <3>1. f[k + 1] = f[k] /\ g[k + 1] = g[k]
      BY <2>1, <2>2, <2>3, <2>5, Zenon
    <3> QED
      BY <2>1, <3>1, Zenon
  <2> QED
    BY <2>4, <2>5
<1>4. Nat \subseteq D
  <2> HIDE DEF D
  <2> QED
    BY <1>2, <1>3, Induction
<1> QED
  BY <1>4

\* A filter looks at each element by itself.
LEMMA FilterAppend ==
    ASSUME NEW S, NEW s \in Seq(S), NEW x \in S, NEW T
    PROVE  Filter(Append(s, x), T) = IF x \in T THEN Append(Filter(s, T), x) ELSE Filter(s, T)
<1> DEFINE u == Append(s, x)
<1>1. /\ u \in Seq(S) /\ Len(u) = Len(s) + 1 /\ Len(s) \in Nat /\ u[Len(s) + 1] = x
      /\ \A i \in 1..Len(s) : s[i] = u[i]
  BY AppendProperties, LenProperties
<1> HIDE DEF u
<1>2. PICK f : Upto(f, s, T, Len(s)) /\ Filter(s, T) = f[Len(s)]
  BY FilterDefined
<1>3. PICK g : Upto(g, u, T, Len(s) + 1) /\ Filter(u, T) = g[Len(s) + 1]
  BY <1>1, FilterDefined
<1>4. f[Len(s)] = g[Len(s)]
  BY <1>1, <1>2, <1>3, UptoAgree
<1>5. \A k \in 0..(Len(s) + 1) : g[k] = IF k = 0 THEN <<>>
        ELSE IF u[k] \in T THEN Append(g[k - 1], u[k]) ELSE g[k - 1]
  BY <1>3, Zenon DEF Upto
<1>6. Len(s) + 1 \in 0..(Len(s) + 1) /\ Len(s) + 1 # 0 /\ (Len(s) + 1) - 1 = Len(s)
  BY <1>1
<1>7. g[Len(s) + 1] = IF x \in T THEN Append(g[Len(s)], x) ELSE g[Len(s)]
  BY <1>1, <1>5, <1>6, Zenon
<1> QED
  BY <1>2, <1>3, <1>4, <1>7, Zenon DEF u

\* Nothing of nothing.
LEMMA FilterEmpty == \A T : Filter(<<>>, T) = <<>>
<1> TAKE T
<1>1. <<>> \in Seq({}) /\ Len(<<>>) = 0
  BY EmptySeq
<1>2. PICK f : Upto(f, <<>>, T, 0) /\ Filter(<<>>, T) = f[0]
  BY <1>1, FilterDefined
<1>3. f[0] = <<>>
  <2>1. 0 \in 0..0
    OBVIOUS
  <2> QED
    BY <1>2, <2>1, Zenon DEF Upto
<1> QED
  BY <1>2, <1>3

\* Concatenation, element by element.
LEMMA ConcatAppend ==
    ASSUME NEW S, NEW s \in Seq(S), NEW t \in Seq(S), NEW x \in S
    PROVE  s \o Append(t, x) = Append(s \o t, x)
<1>1. /\ Append(t, x) \in Seq(S) /\ Len(Append(t, x)) = Len(t) + 1 /\ Len(t) \in Nat
      /\ \A i \in 1..Len(t) : Append(t, x)[i] = t[i]
      /\ Append(t, x)[Len(t) + 1] = x
      /\ Len(s) \in Nat
  BY AppendProperties, LenProperties
<1>2. /\ s \o t \in Seq(S) /\ Len(s \o t) = Len(s) + Len(t)
      /\ \A i \in 1..(Len(s) + Len(t)) : (s \o t)[i] = IF i <= Len(s) THEN s[i] ELSE t[i - Len(s)]
  BY ConcatProperties
<1> DEFINE u == Append(t, x)
           v == s \o t
<1>3. /\ s \o u \in Seq(S) /\ Len(s \o u) = Len(s) + Len(u)
      /\ \A i \in 1..(Len(s) + Len(u)) : (s \o u)[i] = IF i <= Len(s) THEN s[i] ELSE u[i - Len(s)]
  BY <1>1, ConcatProperties
<1>4. /\ Append(v, x) \in Seq(S) /\ Len(Append(v, x)) = Len(v) + 1
      /\ \A i \in 1..Len(v) : Append(v, x)[i] = v[i]
      /\ Append(v, x)[Len(v) + 1] = x
  BY <1>2, AppendProperties
<1> HIDE DEF u, v
<1>5. Len(s \o u) = Len(Append(v, x))
  BY <1>1, <1>2, <1>3, <1>4 DEF u, v
<1>6. ASSUME NEW i \in 1..Len(s \o u) PROVE (s \o u)[i] = Append(v, x)[i]
  <2>0. Len(u) = Len(t) + 1 /\ Len(v) = Len(s) + Len(t)
    BY <1>1, <1>2 DEF u, v
  <2>1. CASE i <= Len(s)
    <3>1. i \in 1..Len(v)
      BY <1>1, <1>3, <2>0, <2>1
    <3> QED
      BY <1>2, <1>3, <1>4, <2>0, <2>1, <3>1 DEF v
  <2>2. CASE i > Len(s) /\ i # Len(s) + Len(t) + 1
    <3>1. i \in 1..Len(v) /\ i - Len(s) \in 1..Len(t)
      BY <1>1, <1>3, <2>0, <2>2
    <3>2. (s \o u)[i] = t[i - Len(s)]
      BY <1>1, <1>3, <2>2, <3>1 DEF u
    <3>3. v[i] = t[i - Len(s)]
      BY <1>1, <1>2, <2>0, <2>2, <3>1 DEF v
    <3> QED
      BY <1>4, <3>1, <3>2, <3>3
  <2>3. CASE i = Len(s) + Len(t) + 1
    <3>1. i - Len(s) = Len(t) + 1 /\ ~(i <= Len(s)) /\ i \in 1..(Len(s) + Len(u)) /\ i = Len(v) + 1
      BY <1>1, <2>0, <2>3
    <3> QED
      BY <1>1, <1>3, <1>4, <3>1 DEF u
  <2> QED
    BY <1>1, <1>3, <2>0, <2>1, <2>2, <2>3
<1>7. s \o u = Append(v, x)
  BY <1>3, <1>4, <1>5, <1>6, SeqEqual
<1> QED
  BY <1>7 DEF u, v

\* A filter looks at the parts of a list one after the other.
LEMMA FilterConcat ==
    ASSUME NEW S, NEW s \in Seq(S), NEW t \in Seq(S), NEW T
    PROVE  Filter(s \o t, T) = Filter(s, T) \o Filter(t, T)
<1> DEFINE D == { r \in Seq(S) : Filter(s \o r, T) = Filter(s, T) \o Filter(r, T) }
<1>0. \A r \in Seq(S) : Filter(r, T) \in Seq(S)
  BY FilterKeeps
<1>1. <<>> \in D
  <2>1. s \o <<>> = s /\ Filter(s, T) \o <<>> = Filter(s, T)
    BY <1>0, ConcatEmptySeq
  <2> QED
    BY <2>1, FilterEmpty, EmptySeq
<1>2. ASSUME NEW r \in Seq(S), NEW x \in S, r \in D PROVE Append(r, x) \in D
  <2>1. Append(r, x) \in Seq(S) /\ s \o r \in Seq(S)
    BY AppendProperties, ConcatProperties
  <2>2. s \o Append(r, x) = Append(s \o r, x)
    BY ConcatAppend
  <2>3. Filter(s \o r, T) = Filter(s, T) \o Filter(r, T)
    BY <1>2
  <2>4. /\ Filter(Append(r, x), T) = IF x \in T THEN Append(Filter(r, T), x) ELSE Filter(r, T)
        /\ Filter(Append(s \o r, x), T)
             = IF x \in T THEN Append(Filter(s \o r, T), x) ELSE Filter(s \o r, T)
    BY <2>1, FilterAppend
  <2>5. Filter(s, T) \o Append(Filter(r, T), x) = Append(Filter(s, T) \o Filter(r, T), x)
    BY <1>0, ConcatAppend
  <2>6. Filter(s \o Append(r, x), T) = Filter(s, T) \o Filter(Append(r, x), T)
    BY <2>2, <2>3, <2>4, <2>5, Zenon
  <2> QED
    BY <2>1, <2>6
<1>3. Seq(S) \subseteq D
  <2> HIDE DEF D
  <2> QED
    BY <1>1, <1>2, SeqInduction
<1> QED
  BY <1>3

\* Only what the list holds matters of the condition.
LEMMA FilterSame ==
    ASSUME NEW S, NEW s \in Seq(S), NEW T, NEW U,
           \A i \in 1..Len(s) : s[i] \in T <=> s[i] \in U
    PROVE  Filter(s, T) = Filter(s, U)
<1> DEFINE D == { r \in Seq(S) : (\A i \in 1..Len(r) : r[i] \in T <=> r[i] \in U)
                                    => Filter(r, T) = Filter(r, U) }
<1>1. <<>> \in D
  BY FilterEmpty, EmptySeq
<1>2. ASSUME NEW r \in Seq(S), NEW x \in S, r \in D PROVE Append(r, x) \in D
  <2>1. /\ Append(r, x) \in Seq(S) /\ Len(Append(r, x)) = Len(r) + 1 /\ Len(r) \in Nat
        /\ \A i \in 1..Len(r) : Append(r, x)[i] = r[i]
        /\ Append(r, x)[Len(r) + 1] = x
    BY AppendProperties, LenProperties
  <2> SUFFICES ASSUME \A i \in 1..Len(Append(r, x)) : Append(r, x)[i] \in T
            <=> Append(r, x)[i] \in U
               PROVE  Filter(Append(r, x), T) = Filter(Append(r, x), U)
    BY <2>1
  <2>2. x \in T <=> x \in U
    BY <2>1
  <2>3. \A i \in 1..Len(r) : r[i] \in T <=> r[i] \in U
    BY <2>1
  <2>4. Filter(r, T) = Filter(r, U)
    BY <1>2, <2>3
  <2>5. /\ Filter(Append(r, x), T) = IF x \in T THEN Append(Filter(r, T), x) ELSE Filter(r, T)
        /\ Filter(Append(r, x), U) = IF x \in U THEN Append(Filter(r, U), x) ELSE Filter(r, U)
    BY FilterAppend
  <2> QED
    BY <2>2, <2>4, <2>5, Zenon
<1>3. Seq(S) \subseteq D
  <2> HIDE DEF D
  <2> QED
    BY <1>1, <1>2, SeqInduction
<1> QED
  BY <1>3

\* Where every element is asked for, the list stays.
LEMMA FilterAll ==
    ASSUME NEW S, NEW s \in Seq(S), NEW T, \A i \in 1..Len(s) : s[i] \in T
    PROVE  Filter(s, T) = s
<1> DEFINE D == { r \in Seq(S) : (\A i \in 1..Len(r) : r[i] \in T) => Filter(r, T) = r }
<1>3. <<>> \in D
  BY FilterEmpty, EmptySeq
<1>4. ASSUME NEW r \in Seq(S), NEW x \in S, r \in D PROVE Append(r, x) \in D
  <2>1. /\ Append(r, x) \in Seq(S) /\ Len(Append(r, x)) = Len(r) + 1 /\ Len(r) \in Nat
        /\ \A i \in 1..Len(r) : Append(r, x)[i] = r[i]
        /\ Append(r, x)[Len(r) + 1] = x
    BY AppendProperties, LenProperties
  <2> SUFFICES ASSUME \A i \in 1..Len(Append(r, x)) : Append(r, x)[i] \in T
               PROVE  Filter(Append(r, x), T) = Append(r, x)
    BY <2>1
  <2>2. x \in T /\ \A i \in 1..Len(r) : r[i] \in T
    BY <2>1
  <2> QED
    BY <1>4, <2>2, FilterAppend
<1>5. Seq(S) \subseteq D
  <2> HIDE DEF D
  <2> QED
    BY <1>3, <1>4, SeqInduction
<1> QED
  BY <1>5

\* Where none is, nothing does.
LEMMA FilterNone ==
    ASSUME NEW S, NEW s \in Seq(S), NEW T, \A i \in 1..Len(s) : s[i] \notin T
    PROVE  Filter(s, T) = <<>>
<1>1. PICK e : Keeps(Filter(s, T), e, s, T, Len(s))
  BY FilterKeeps
<1>2. Filter(s, T) \in Seq(S) /\ Len(s) \in Nat /\ Len(Filter(s, T)) \in Nat
  BY FilterKeeps, LenProperties
<1>3. ASSUME Len(Filter(s, T)) # 0 PROVE FALSE
  <2>1. 1 \in 1..Len(Filter(s, T))
    BY <1>2, <1>3
  <2> QED
    BY <1>1, <2>1 DEF Keeps
<1> QED
  BY <1>2, <1>3, EmptySeq

\* Two filters in either order.
LEMMA FilterFilter ==
    ASSUME NEW S, NEW s \in Seq(S), NEW T, NEW U
    PROVE  Filter(Filter(s, T), U) = Filter(s, T \cap U)
<1> DEFINE D == { r \in Seq(S) : Filter(Filter(r, T), U) = Filter(r, T \cap U) }
<1>1. <<>> \in D
  BY FilterEmpty, EmptySeq
<1>2. ASSUME NEW r \in Seq(S), NEW x \in S, r \in D PROVE Append(r, x) \in D
  <2>1. Append(r, x) \in Seq(S) /\ Filter(r, T) \in Seq(S)
    BY AppendProperties, FilterKeeps
  <2>2. /\ Filter(Append(r, x), T) = IF x \in T THEN Append(Filter(r, T), x) ELSE Filter(r, T)
        /\ Filter(Append(r, x), T \cap U)
             = IF x \in T \cap U THEN Append(Filter(r, T \cap U), x) ELSE Filter(r, T \cap U)
        /\ Filter(Append(Filter(r, T), x), U)
             = IF x \in U THEN Append(Filter(Filter(r, T), U), x) ELSE Filter(Filter(r, T), U)
    BY <2>1, FilterAppend
  <2>3. Filter(Filter(r, T), U) = Filter(r, T \cap U)
    BY <1>2
  <2> DEFINE goal == Filter(Filter(Append(r, x), T), U) = Filter(Append(r, x), T \cap U)
  <2>4. CASE x \in T
    <3>1. Filter(Append(r, x), T) = Append(Filter(r, T), x)
      BY <2>2, <2>4, Zenon
    <3>2. x \in T \cap U <=> x \in U
      BY <2>4
    <3>3. Filter(Append(r, x), T \cap U)
            = IF x \in U THEN Append(Filter(r, T \cap U), x) ELSE Filter(r, T \cap U)
      BY <2>2, <3>2, Zenon
    <3>4. goal
      BY <2>2, <2>3, <3>1, <3>3, Zenon
    <3> QED
      BY <2>1, <3>4
  <2>5. CASE x \notin T
    <3>1. Filter(Append(r, x), T) = Filter(r, T)
      BY <2>2, <2>5, Zenon
    <3>2. x \notin T \cap U
      BY <2>5
    <3>3. Filter(Append(r, x), T \cap U) = Filter(r, T \cap U)
      BY <2>2, <3>2, Zenon
    <3>4. goal
      BY <2>3, <3>1, <3>3, Zenon
    <3> QED
      BY <2>1, <3>4
  <2> QED
    BY <2>4, <2>5, Zenon
<1>3. Seq(S) \subseteq D
  <2> HIDE DEF D
  <2> QED
    BY <1>1, <1>2, SeqInduction
<1> QED
  BY <1>3

\* Where one element alone is asked for, it is what comes back.
LEMMA FilterOne ==
    ASSUME NEW S, NEW s \in Seq(S), NEW T, NEW k \in 1..Len(s), s[k] \in T,
           \A j \in 1..Len(s) : s[j] \in T => j = k
    PROVE  Filter(s, T) = <<s[k]>>
<1> DEFINE t == Filter(s, T)
<1>1. PICK e : Keeps(t, e, s, T, Len(s))
  BY FilterKeeps
<1>2. t \in Seq(S) /\ Len(t) \in Nat /\ Len(s) \in Nat /\ s[k] \in S
  BY FilterKeeps, LenProperties, ElementOfSeq
<1> HIDE DEF t
<1>3. \A m \in 1..Len(t) : e[m] = k /\ t[m] = s[k]
  BY <1>1 DEF Keeps
<1>4. Len(t) >= 1
  BY <1>1, <1>2 DEF Keeps
<1>5. Len(t) <= 1
  <2> SUFFICES ASSUME Len(t) >= 2 PROVE FALSE
    BY <1>2
  <2>1. 1 \in 1..Len(t) /\ 2 \in 1..Len(t)
    BY <1>2
  <2>2. e[1] < e[2] /\ e[1] = k /\ e[2] = k
    BY <1>1, <1>3, <2>1 DEF Keeps
  <2> QED
    BY <2>2
<1>6. Len(t) = 1 /\ t[1] = s[k]
  <2>1. \A l \in Nat : l >= 1 /\ l <= 1 => l = 1 /\ 1 \in 1..l
    OBVIOUS
  <2>2. Len(t) = 1 /\ 1 \in 1..Len(t)
    BY <1>2, <1>4, <1>5, <2>1, Zenon
  <2> QED
    BY <1>3, <2>2, Zenon
<1>7. t = <<s[k]>>
  <2>1. <<s[k]>> \in Seq(S) /\ Len(<<s[k]>>) = 1 /\ <<s[k]>>[1] = s[k]
    BY <1>2
  <2>2. \A n \in 1..1 : t[n] = <<s[k]>>[n]
    BY <1>6, <2>1
  <2> QED
    BY <1>2, <1>6, <2>1, <2>2, SeqEqual, Zenon
<1> QED
  BY <1>7 DEF t

-----------------------------------------------------------------------------
\* What f makes of each element.
Mapped(s, f) == [n \in 1..Len(s) |-> f[s[n]]]

\* It is a list as long as the other.
LEMMA MappedIs ==
    ASSUME NEW S, NEW s \in Seq(S), NEW f
    PROVE  /\ Mapped(s, f) \in Seq({ f[x] : x \in S }) /\ Len(Mapped(s, f)) = Len(s)
           /\ \A n \in 1..Len(s) : Mapped(s, f)[n] = f[s[n]]
<1>1. Len(s) \in Nat /\ \A n \in 1..Len(s) : s[n] \in S
  BY LenProperties, ElementOfSeq
<1> DEFINE t == Mapped(s, f)
           R == { f[x] : x \in S }
<1>2. t \in [1..Len(s) -> R] /\ \A n \in 1..Len(s) : t[n] = f[s[n]]
  BY <1>1 DEF Mapped
<1> HIDE DEF t, R
<1>3. t \in Seq(R)
  BY <1>1, <1>2, SeqDef
<1>4. Len(t) = Len(s)
  BY <1>1, <1>2, <1>3, LenProperties
<1> QED
  BY <1>2, <1>3, <1>4 DEF t, R

\* t is the list of what f makes of the elements of s.
ListOfImages(t, s, f, S) ==
    /\ t \in Seq({ f[x] : x \in S }) /\ Len(t) = Len(s)
    /\ \A n \in 1..Len(s) : t[n] = f[s[n]]

\* The same, as one fact.
LEMMA ImagesAre ==
    ASSUME NEW S, NEW s \in Seq(S), NEW f
    PROVE  ListOfImages(Mapped(s, f), s, f, S)
  BY MappedIs, ZenonT(60) DEF ListOfImages

\* Element by element.
LEMMA MappedAppend ==
    ASSUME NEW S, NEW s \in Seq(S), NEW f, NEW x \in S
    PROVE  Mapped(Append(s, x), f) = Append(Mapped(s, f), f[x])
<1> DEFINE R == { f[y] : y \in S }
           u == Append(s, x)
           t == Mapped(s, f)
           v == Mapped(u, f)
           w == Append(t, f[x])
<1>1. /\ u \in Seq(S) /\ Len(u) = Len(s) + 1 /\ Len(s) \in Nat /\ u[Len(s) + 1] = x
      /\ \A n \in 1..Len(s) : u[n] = s[n]
  BY AppendProperties, LenProperties
<1> HIDE DEF u
<1>2. /\ t \in Seq(R) /\ Len(t) = Len(s) /\ \A n \in 1..Len(s) : t[n] = f[s[n]]
      /\ v \in Seq(R) /\ Len(v) = Len(u) /\ \A n \in 1..Len(u) : v[n] = f[u[n]]
  <2> HIDE DEF t, v, R
  <2>1. \A r \in Seq(S) :
            /\ Mapped(r, f) \in Seq(R) /\ Len(Mapped(r, f)) = Len(r)
            /\ \A n \in 1..Len(r) : Mapped(r, f)[n] = f[r[n]]
    BY MappedIs, ZenonT(60) DEF R
  <2> QED
    BY <1>1, <2>1, Zenon DEF t, v
<1>0. f[x] \in R
  OBVIOUS
<1> HIDE DEF t, v, R
<1>3. /\ w \in Seq(R) /\ Len(w) = Len(t) + 1 /\ w[Len(t) + 1] = f[x]
      /\ \A n \in 1..Len(t) : w[n] = t[n]
  BY <1>0, <1>2, AppendProperties
<1> HIDE DEF w
<1>4. \A n \in 1..Len(v) : v[n] = w[n]
  BY <1>1, <1>2, <1>3
<1>5. v = w
  BY <1>1, <1>2, <1>3, <1>4, SeqEqual
<1> QED
  BY <1>5 DEF u, t, v, w

\* Which images are in U is which elements are in T.
Carries(f, S, T, U) == \A x \in S : x \in T <=> f[x] \in U

\* A condition on the images is one on the elements.
LEMMA FilterMapped ==
    ASSUME NEW S, NEW s \in Seq(S), NEW f, NEW T, NEW U, Carries(f, S, T, U)
    PROVE  Filter(Mapped(s, f), U) = Mapped(Filter(s, T), f)
<1> DEFINE R == { f[x] : x \in S }
           D == { r \in Seq(S) : Filter(Mapped(r, f), U) = Mapped(Filter(r, T), f) }
<1>1. <<>> \in D
  <2>1. Mapped(<<>>, f) = <<>>
    <3>1. <<>> \in Seq(S) /\ Len(<<>>) = 0
      BY EmptySeq
    <3>2. Mapped(<<>>, f) \in Seq(R) /\ Len(Mapped(<<>>, f)) = 0
      <4> HIDE DEF D, R
      <4>1. \A r \in Seq(S) :
                /\ Mapped(r, f) \in Seq(R) /\ Len(Mapped(r, f)) = Len(r)
                /\ \A n \in 1..Len(r) : Mapped(r, f)[n] = f[r[n]]
        BY MappedIs, ZenonT(60) DEF R
      <4> QED
        BY <3>1, <4>1, Zenon
    <3> QED
      BY <3>2, EmptySeq
  <2> QED
    BY <2>1, FilterEmpty, EmptySeq, Zenon
<1>2. ASSUME NEW r \in Seq(S), NEW x \in S, r \in D PROVE Append(r, x) \in D
  <2>1. /\ Append(r, x) \in Seq(S) /\ Filter(r, T) \in Seq(S) /\ Mapped(r, f) \in Seq(R)
        /\ f[x] \in R
    BY AppendProperties, FilterKeeps, MappedIs
  <2>2. Filter(Mapped(r, f), U) = Mapped(Filter(r, T), f)
    BY <1>2
  <2>3. Mapped(Append(r, x), f) = Append(Mapped(r, f), f[x])
    <3> HIDE DEF D, R
    <3> QED
      BY MappedAppend, ZenonT(60)
  <2>4. /\ Filter(Append(Mapped(r, f), f[x]), U)
             = IF f[x] \in U THEN Append(Filter(Mapped(r, f), U), f[x]) ELSE Filter(Mapped(r, f), U)
        /\ Filter(Append(r, x), T) = IF x \in T THEN Append(Filter(r, T), x) ELSE Filter(r, T)
    <3> HIDE DEF D, R
    <3>1. \A q \in Seq(R), y \in R :
            Filter(Append(q, y), U) = IF y \in U THEN Append(Filter(q, U), y) ELSE Filter(q, U)
      BY FilterAppend
    <3>2. \A q \in Seq(S), y \in S :
            Filter(Append(q, y), T) = IF y \in T THEN Append(Filter(q, T), y) ELSE Filter(q, T)
      BY FilterAppend
    <3> QED
      BY <2>1, <3>1, <3>2, Zenon
  <2>5. Mapped(Append(Filter(r, T), x), f) = Append(Mapped(Filter(r, T), f), f[x])
    <3> HIDE DEF D, R
    <3>1. \A q \in Seq(S) : Mapped(Append(q, x), f) = Append(Mapped(q, f), f[x])
      BY MappedAppend, ZenonT(60)
    <3> QED
      BY <2>1, <3>1, Zenon
  <2>6. x \in T <=> f[x] \in U
    BY DEF Carries
  <2> HIDE DEF D
  <2>7. Filter(Mapped(Append(r, x), f), U) = Mapped(Filter(Append(r, x), T), f)
    <3>1. CASE x \in T
      <4>1. Filter(Append(Mapped(r, f), f[x]), U) = Append(Filter(Mapped(r, f), U), f[x])
        BY <2>4, <2>6, <3>1, Zenon
      <4>2. Filter(Append(r, x), T) = Append(Filter(r, T), x)
        BY <2>4, <3>1, Zenon
      <4> QED
        BY <2>2, <2>3, <2>5, <4>1, <4>2, Zenon
    <3>2. CASE x \notin T
      <4>1. Filter(Append(Mapped(r, f), f[x]), U) = Filter(Mapped(r, f), U)
        BY <2>4, <2>6, <3>2, Zenon
      <4>2. Filter(Append(r, x), T) = Filter(r, T)
        BY <2>4, <3>2, Zenon
      <4> QED
        BY <2>2, <2>3, <4>1, <4>2, Zenon
    <3> QED
      BY <3>1, <3>2
  <2> QED
    BY <2>1, <2>7 DEF D
<1>3. Seq(S) \subseteq D
  <2> HIDE DEF D
  <2> QED
    BY <1>1, <1>2, SeqInduction
<1> QED
  BY <1>3

-----------------------------------------------------------------------------
\* The sums of the first elements of s: f[0] .. f[m].
SumsUpto(f, s, m) == f = [n \in 0..m |-> IF n = 0 THEN 0 ELSE f[n - 1] + s[n]]

\* What the recursion says of each.
LEMMA SumsAre ==
    ASSUME NEW s, NEW m \in Nat, NEW f, SumsUpto(f, s, m)
    PROVE  f[0] = 0 /\ \A n \in 1..m : f[n] = f[n - 1] + s[n]
<1>1. \A n \in 0..m : f[n] = IF n = 0 THEN 0 ELSE f[n - 1] + s[n]
  BY Zenon DEF SumsUpto
<1>2. 0 \in 0..m /\ \A n \in 1..m : n \in 0..m /\ n # 0
  OBVIOUS
<1> QED
  BY <1>1, <1>2, Zenon

\* The sums can be carried on by one element.
LEMMA SumsExtend ==
    ASSUME NEW s, NEW m \in Nat, NEW f, SumsUpto(f, s, m)
    PROVE  \E g : SumsUpto(g, s, m + 1)
<1> DEFINE g == [n \in 0..(m + 1) |-> IF n <= m THEN f[n] ELSE f[n - 1] + s[n]]
<1>1. \A n \in 0..m : g[n] = f[n]
  OBVIOUS
<1>2. g[m + 1] = f[m] + s[m + 1]
  <2>1. m + 1 \in 0..(m + 1) /\ ~(m + 1 <= m) /\ (m + 1) - 1 = m
    OBVIOUS
  <2>2. g[m + 1] = f[(m + 1) - 1] + s[m + 1]
    BY <2>1, Zenon
  <2> QED
    BY <2>1, <2>2, Zenon
<1>3. g = [n \in 0..(m + 1) |-> g[n]]
  OBVIOUS
<1> HIDE DEF g
<1>4. \A n \in 0..(m + 1) : g[n] = IF n = 0 THEN 0 ELSE g[n - 1] + s[n]
  <2> TAKE n \in 0..(m + 1)
  <2>1. CASE n = m + 1
    <3>1. n # 0 /\ n - 1 = m /\ m \in 0..m
      BY <2>1
    <3> QED
      BY <3>1, <2>1, <1>1, <1>2, Zenon
  <2>2. CASE n \in 1..m
    <3>1. n # 0 /\ n - 1 \in 0..m /\ n \in 0..m
      BY <2>2
    <3>2. f[n] = f[n - 1] + s[n]
      BY <2>2, SumsAre
    <3>3. g[n] = f[n] /\ g[n - 1] = f[n - 1]
      BY <1>1, <3>1, Zenon
    <3>4. g[n] = g[n - 1] + s[n]
      BY <3>2, <3>3, Zenon
    <3> QED
      BY <3>1, <3>4, Zenon
  <2>3. CASE n = 0
    <3>1. 0 \in 0..m
      OBVIOUS
    <3> QED
      BY <2>3, <3>1, <1>1, SumsAre, Zenon
  <2> QED
    BY <2>1, <2>2, <2>3
<1>5. [n \in 0..(m + 1) |-> g[n]] = [n \in 0..(m + 1) |-> IF n = 0 THEN 0 ELSE g[n - 1] + s[n]]
  BY <1>4, Zenon
<1>6. SumsUpto(g, s, m + 1)
  BY <1>3, <1>5, Zenon DEF SumsUpto
<1> QED
  BY <1>6, Zenon

\* A list has its sums, and the total is the last of them.
LEMMA TotalDefined ==
    ASSUME NEW s, Len(s) \in Nat
    PROVE  \E f : SumsUpto(f, s, Len(s)) /\ TotalOf(s) = f[Len(s)]
<1> DEFINE D == { m \in Nat : \E f : SumsUpto(f, s, m) }
<1>1. 0 \in D
  <2> DEFINE f0 == [n \in 0..0 |-> 0]
  <2>1. SumsUpto(f0, s, 0)
    BY DEF SumsUpto
  <2> QED
    BY <2>1
<1>2. ASSUME NEW m \in Nat, m \in D PROVE m + 1 \in D
  <2>1. \E g : SumsUpto(g, s, m + 1)
    BY <1>2, SumsExtend
  <2>2. m + 1 \in Nat
    OBVIOUS
  <2> QED
    BY <2>1, <2>2, Zenon
<1>3. Nat \subseteq D
  <2> HIDE DEF D
  <2> QED
    BY <1>1, <1>2, Induction
<1>4. \E f : SumsUpto(f, s, Len(s))
  BY <1>3
<1> DEFINE h == CHOOSE f : SumsUpto(f, s, Len(s))
<1>5. SumsUpto(h, s, Len(s))
  <2> HIDE DEF D
  <2> QED
    BY <1>4, Zenon
<1>6. TotalOf(s) = h[Len(s)]
  BY Zenon DEF TotalOf, SumsUpto
<1> HIDE DEF h, D
<1> QED
  BY <1>5, <1>6, Zenon

\* A sum with one element more.
LEMMA TotalAppend ==
    ASSUME NEW s \in Seq(Nat), NEW x \in Nat
    PROVE  TotalOf(Append(s, x)) = TotalOf(s) + x /\ TotalOf(s) \in Nat
<1> DEFINE u == Append(s, x)
<1>1. /\ Len(u) = Len(s) + 1 /\ Len(s) \in Nat /\ u[Len(s) + 1] = x
      /\ \A i \in 1..Len(s) : u[i] = s[i] /\ s[i] \in Nat
  BY AppendProperties, LenProperties, ElementOfSeq
<1> HIDE DEF u
<1>2. PICK f : SumsUpto(f, s, Len(s)) /\ TotalOf(s) = f[Len(s)]
  BY <1>1, TotalDefined
<1>3. PICK g : SumsUpto(g, u, Len(s) + 1) /\ TotalOf(u) = g[Len(s) + 1]
  BY <1>1, TotalDefined
<1>4. f[0] = 0 /\ \A n \in 1..Len(s) : f[n] = f[n - 1] + s[n]
  BY <1>1, <1>2, SumsAre
<1>5. g[0] = 0 /\ \A n \in 1..(Len(s) + 1) : g[n] = g[n - 1] + u[n]
  <2>1. Len(s) + 1 \in Nat
    BY <1>1
  <2> QED
    BY <1>3, <2>1, SumsAre, Zenon
<1> DEFINE D == { k \in Nat : k <= Len(s) => f[k] = g[k] /\ f[k] \in Nat }
<1>6. 0 \in D
  BY <1>4, <1>5
<1>7. ASSUME NEW k \in Nat, k \in D PROVE k + 1 \in D
  <2> SUFFICES ASSUME k + 1 <= Len(s) PROVE f[k + 1] = g[k + 1] /\ f[k + 1] \in Nat
    OBVIOUS
  <2>1. f[k] = g[k] /\ f[k] \in Nat
    BY <1>1, <1>7
  <2>2. k + 1 \in 1..Len(s) /\ k + 1 \in 1..(Len(s) + 1) /\ (k + 1) - 1 = k
    BY <1>1
  <2>3. f[k + 1] = f[k] + s[k + 1] /\ g[k + 1] = g[k] + s[k + 1] /\ s[k + 1] \in Nat
    BY <1>1, <1>4, <1>5, <2>2
  <2> QED
    BY <2>1, <2>3
<1>8. Nat \subseteq D
  <2> HIDE DEF D
  <2> QED
    BY <1>6, <1>7, Induction
<1>9. f[Len(s)] = g[Len(s)] /\ f[Len(s)] \in Nat
  BY <1>1, <1>8
<1>10. Len(s) + 1 \in 1..(Len(s) + 1) /\ (Len(s) + 1) - 1 = Len(s)
  BY <1>1
<1>11. g[Len(s) + 1] = g[Len(s)] + x
  BY <1>1, <1>5, <1>10
<1> QED
  BY <1>2, <1>3, <1>9, <1>11 DEF u

\* The sum of nothing.
LEMMA TotalEmpty == TotalOf(<<>>) = 0
<1>1. Len(<<>>) = 0
  OBVIOUS
<1>2. PICK f : SumsUpto(f, <<>>, 0) /\ TotalOf(<<>>) = f[0]
  BY <1>1, TotalDefined
<1> QED
  BY <1>2, SumsAre

-----------------------------------------------------------------------------
\* The first lists of ss, joined: f[0] .. f[m].
JoinsUpto(f, ss, m) == f = [n \in 0..m |-> IF n = 0 THEN <<>> ELSE f[n - 1] \o ss[n]]

\* What the recursion says of each.
LEMMA JoinsAre ==
    ASSUME NEW ss, NEW m \in Nat, NEW f, JoinsUpto(f, ss, m)
    PROVE  f[0] = <<>> /\ \A n \in 1..m : f[n] = f[n - 1] \o ss[n]
<1>1. \A n \in 0..m : f[n] = IF n = 0 THEN <<>> ELSE f[n - 1] \o ss[n]
  BY Zenon DEF JoinsUpto
<1>2. 0 \in 0..m /\ \A n \in 1..m : n \in 0..m /\ n # 0
  OBVIOUS
<1> QED
  BY <1>1, <1>2, Zenon

\* The lists can be joined by one more.
LEMMA JoinsExtend ==
    ASSUME NEW ss, NEW m \in Nat, NEW f, JoinsUpto(f, ss, m)
    PROVE  \E g : JoinsUpto(g, ss, m + 1)
<1> DEFINE g == [n \in 0..(m + 1) |-> IF n <= m THEN f[n] ELSE f[n - 1] \o ss[n]]
<1>1. \A n \in 0..m : g[n] = f[n]
  OBVIOUS
<1>2. g[m + 1] = f[m] \o ss[m + 1]
  <2>1. m + 1 \in 0..(m + 1) /\ ~(m + 1 <= m) /\ (m + 1) - 1 = m
    OBVIOUS
  <2>2. g[m + 1] = f[(m + 1) - 1] \o ss[m + 1]
    BY <2>1, Zenon
  <2> QED
    BY <2>1, <2>2, Zenon
<1>3. g = [n \in 0..(m + 1) |-> g[n]]
  BY Zenon
<1> HIDE DEF g
<1>4. \A n \in 0..(m + 1) : g[n] = IF n = 0 THEN <<>> ELSE g[n - 1] \o ss[n]
  <2> TAKE n \in 0..(m + 1)
  <2>1. CASE n = m + 1
    <3>1. n # 0 /\ n - 1 = m /\ m \in 0..m
      BY <2>1
    <3> QED
      BY <3>1, <2>1, <1>1, <1>2, Zenon
  <2>2. CASE n \in 1..m
    <3>1. n # 0 /\ n - 1 \in 0..m /\ n \in 0..m
      BY <2>2
    <3>2. f[n] = f[n - 1] \o ss[n]
      BY <2>2, JoinsAre
    <3>3. g[n] = f[n] /\ g[n - 1] = f[n - 1]
      BY <1>1, <3>1, Zenon
    <3>4. g[n] = g[n - 1] \o ss[n]
      BY <3>2, <3>3, Zenon
    <3> QED
      BY <3>1, <3>4, Zenon
  <2>3. CASE n = 0
    <3>1. 0 \in 0..m
      OBVIOUS
    <3> QED
      BY <2>3, <3>1, <1>1, JoinsAre, Zenon
  <2> QED
    BY <2>1, <2>2, <2>3
<1>5. [n \in 0..(m + 1) |-> g[n]] = [n \in 0..(m + 1) |-> IF n = 0 THEN <<>> ELSE g[n - 1] \o ss[n]]
  BY <1>4, Zenon
<1>6. JoinsUpto(g, ss, m + 1)
  BY <1>3, <1>5, Zenon DEF JoinsUpto
<1> QED
  BY <1>6, Zenon

\* A list of lists has its joins, and Joined is the last of them.
LEMMA JoinedDefined ==
    ASSUME NEW ss, Len(ss) \in Nat
    PROVE  \E f : JoinsUpto(f, ss, Len(ss)) /\ Joined(ss) = f[Len(ss)]
<1> DEFINE D == { m \in Nat : \E f : JoinsUpto(f, ss, m) }
<1>1. 0 \in D
  <2> DEFINE f0 == [n \in 0..0 |-> <<>>]
  <2>1. f0 = [n \in 0..0 |-> IF n = 0 THEN <<>> ELSE f0[n - 1] \o ss[n]]
    <3>1. \A n \in 0..0 : n = 0
      OBVIOUS
    <3> QED
      BY <3>1, Zenon
  <2>2. JoinsUpto(f0, ss, 0)
    BY <2>1, Zenon DEF JoinsUpto
  <2> QED
    BY <2>2
<1>2. ASSUME NEW m \in Nat, m \in D PROVE m + 1 \in D
  <2>1. \E g : JoinsUpto(g, ss, m + 1)
    BY <1>2, JoinsExtend
  <2>2. m + 1 \in Nat
    OBVIOUS
  <2> QED
    BY <2>1, <2>2, Zenon
<1>3. Nat \subseteq D
  <2> HIDE DEF D
  <2> QED
    BY <1>1, <1>2, Induction
<1>4. \E f : JoinsUpto(f, ss, Len(ss))
  BY <1>3
<1> DEFINE h == CHOOSE f : JoinsUpto(f, ss, Len(ss))
<1>5. JoinsUpto(h, ss, Len(ss))
  <2> HIDE DEF D
  <2> QED
    BY <1>4, Zenon
<1>6. Joined(ss) = h[Len(ss)]
  BY Zenon DEF Joined, JoinsUpto
<1> HIDE DEF h, D
<1> QED
  BY <1>5, <1>6, Zenon

\* What is joined of one list more.
LEMMA JoinedAppend ==
    ASSUME NEW S, NEW ss \in Seq(Seq(S)), NEW x \in Seq(S)
    PROVE  Joined(Append(ss, x)) = Joined(ss) \o x /\ Joined(ss) \in Seq(S)
<1> DEFINE u == Append(ss, x)
<1>1. /\ Len(u) = Len(ss) + 1 /\ Len(ss) \in Nat /\ u[Len(ss) + 1] = x
      /\ \A i \in 1..Len(ss) : u[i] = ss[i] /\ ss[i] \in Seq(S)
  BY AppendProperties, LenProperties, ElementOfSeq
<1> HIDE DEF u
<1>2. PICK f : JoinsUpto(f, ss, Len(ss)) /\ Joined(ss) = f[Len(ss)]
  BY <1>1, JoinedDefined
<1>3. PICK g : JoinsUpto(g, u, Len(ss) + 1) /\ Joined(u) = g[Len(ss) + 1]
  <2>1. Len(u) \in Nat
    BY <1>1
  <2>2. \E g : JoinsUpto(g, u, Len(u)) /\ Joined(u) = g[Len(u)]
    BY <2>1, JoinedDefined
  <2> QED
    BY <1>1, <2>2, Zenon
<1>4. f[0] = <<>> /\ \A n \in 1..Len(ss) : f[n] = f[n - 1] \o ss[n]
  BY <1>1, <1>2, JoinsAre
<1>5. g[0] = <<>> /\ \A n \in 1..(Len(ss) + 1) : g[n] = g[n - 1] \o u[n]
  <2>1. Len(ss) + 1 \in Nat
    BY <1>1
  <2> QED
    BY <1>3, <2>1, JoinsAre, Zenon
<1> DEFINE D == { k \in Nat : k <= Len(ss) => f[k] = g[k] /\ f[k] \in Seq(S) }
<1>6. 0 \in D
  <2>1. <<>> \in Seq(S)
    OBVIOUS
  <2> QED
    BY <1>4, <1>5, <2>1
<1>7. ASSUME NEW k \in Nat, k \in D PROVE k + 1 \in D
  <2> SUFFICES ASSUME k + 1 <= Len(ss) PROVE f[k + 1] = g[k + 1] /\ f[k + 1] \in Seq(S)
    OBVIOUS
  <2>1. f[k] = g[k] /\ f[k] \in Seq(S)
    BY <1>1, <1>7
  <2>2. k + 1 \in 1..Len(ss) /\ k + 1 \in 1..(Len(ss) + 1) /\ (k + 1) - 1 = k
    BY <1>1
  <2>3. f[k + 1] = f[k] \o ss[k + 1] /\ g[k + 1] = g[k] \o u[k + 1] /\ ss[k + 1] \in Seq(S)
        /\ u[k + 1] = ss[k + 1]
    BY <1>1, <1>4, <1>5, <2>2
  <2>4. \A v, w \in Seq(S) : v \o w \in Seq(S)
    BY ONLY ConcatProperties
  <2>5. f[k + 1] = g[k + 1]
    BY <2>1, <2>3, Zenon
  <2>6. f[k + 1] \in Seq(S)
    BY <2>1, <2>3, <2>4, Zenon
  <2> QED
    BY <2>5, <2>6
<1>8. Nat \subseteq D
  <2> HIDE DEF D
  <2> QED
    BY <1>6, <1>7, Induction
<1>9. f[Len(ss)] = g[Len(ss)] /\ f[Len(ss)] \in Seq(S)
  BY <1>1, <1>8
<1>10. Len(ss) + 1 \in 1..(Len(ss) + 1) /\ (Len(ss) + 1) - 1 = Len(ss)
  BY <1>1
<1>11. g[Len(ss) + 1] = g[Len(ss)] \o x
  BY <1>1, <1>5, <1>10, Zenon
<1> QED
  BY <1>2, <1>3, <1>9, <1>11, Zenon DEF u

\* Nothing joined.
LEMMA JoinedEmpty == Joined(<<>>) = <<>>
<1>1. Len(<<>>) = 0
  OBVIOUS
<1>2. PICK f : JoinsUpto(f, <<>>, 0) /\ Joined(<<>>) = f[0]
  BY <1>1, JoinedDefined
<1> QED
  BY <1>2, JoinsAre

-----------------------------------------------------------------------------
\* An increasing list of positions gains one at least with every element.
LEMMA IncreasingGains ==
    ASSUME NEW n \in Nat, NEW m \in Nat, NEW e \in [1..n -> 1..m],
           \A k, l \in 1..n : k < l => e[k] < e[l],
           NEW p \in 1..n
    PROVE  n - p <= m - e[p]
<1> DEFINE D == { j \in Nat : p + j <= n => e[p] + j <= e[p + j] }
<1>1. 0 \in D
  OBVIOUS
<1>2. ASSUME NEW j \in Nat, j \in D PROVE j + 1 \in D
  <2> SUFFICES ASSUME p + (j + 1) <= n PROVE e[p] + (j + 1) <= e[p + (j + 1)]
    OBVIOUS
  <2>1. p + j \in 1..n /\ p + (j + 1) \in 1..n /\ p + j < p + (j + 1) /\ p + j <= n
    OBVIOUS
  <2>2. e[p] + j <= e[p + j]
    BY <1>2, <2>1
  <2>3. e[p + j] < e[p + (j + 1)]
    BY <2>1
  <2>4. e[p] \in Nat /\ e[p + j] \in Nat /\ e[p + (j + 1)] \in Nat
    BY <2>1
  <2> QED
    BY <2>2, <2>3, <2>4
<1>3. Nat \subseteq D
  <2> HIDE DEF D
  <2> QED
    BY <1>1, <1>2, Induction
<1>4. n - p \in Nat /\ p + (n - p) = n
  OBVIOUS
<1>5. e[p] + (n - p) <= e[n]
  BY <1>3, <1>4
<1>6. n \in 1..n /\ e[n] \in 1..m /\ e[p] \in 1..m
  OBVIOUS
<1> QED
  BY <1>4, <1>5, <1>6

-----------------------------------------------------------------------------
\* t, position by position, is the anchor a, the segments f, the live turns l.
Rendering(t, a, f, l) ==
    /\ Len(t) = 1 + Len(f) + Len(l)
    /\ t[1] = a
    /\ \A i \in 1..Len(f) : t[1 + i] = FrozenTurns(f)[i]
    /\ \A k \in 1..Len(l) : t[1 + Len(f) + k] = l[k]

\* What to_turns returns (segments.py:60-66).
LEMMA ToTurnsIs ==
    ASSUME NEW a, NEW S, NEW f \in Seq(S), NEW R, NEW l \in Seq(R)
    PROVE  Rendering(ToTurns(a, f, l), a, f, l)
<1> DEFINE g == FrozenTurns(f)
           U == {a} \cup { g[i] : i \in 1..Len(f) } \cup R
           h == <<a>> \o g
           t == ToTurns(a, f, l)
<1>1. g \in Seq(U) /\ Len(g) = Len(f)
  <2>1. Len(f) \in Nat
    BY LenProperties
  <2>2. g \in [1..Len(f) -> U]
    BY DEF FrozenTurns
  <2> QED
    BY <2>1, <2>2
<1>2. <<a>> \in Seq(U) /\ Len(<<a>>) = 1 /\ <<a>>[1] = a
  OBVIOUS
<1>3. l \in Seq(U) /\ Len(l) \in Nat /\ Len(f) \in Nat
  BY SeqMonotonic, LenProperties
<1>4. t = h \o l
  BY DEF ToTurns
<1> HIDE DEF g, U
<1>5. /\ h \in Seq(U) /\ Len(h) = 1 + Len(f) /\ h[1] = a
      /\ \A i \in 1..Len(f) : h[1 + i] = g[i]
  BY <1>1, <1>2, <1>3, ConcatProperties
<1> HIDE DEF h, t
<1>6. /\ Len(h \o l) = Len(h) + Len(l)
      /\ \A i \in 1..(Len(h) + Len(l)) :
            (h \o l)[i] = IF i <= Len(h) THEN h[i] ELSE l[i - Len(h)]
  BY <1>3, <1>5, ConcatProperties
<1>7. /\ Len(t) = 1 + Len(f) + Len(l)
      /\ \A i \in 1..(1 + Len(f) + Len(l)) :
            t[i] = IF i <= 1 + Len(f) THEN h[i] ELSE l[i - (1 + Len(f))]
  BY <1>4, <1>5, <1>6, Zenon
<1>8. t[1] = a
  BY <1>3, <1>5, <1>7
<1>9. ASSUME NEW i \in 1..Len(f) PROVE t[1 + i] = g[i]
  BY <1>3, <1>5, <1>7
<1>10. ASSUME NEW k \in 1..Len(l) PROVE t[1 + Len(f) + k] = l[k]
  BY <1>3, <1>7
<1> QED
  BY <1>7, <1>8, <1>9, <1>10 DEF t, g, Rendering

\* A rendering is a list.
LEMMA ToTurnsIsSeq ==
    ASSUME NEW a, NEW S, NEW f \in Seq(S), NEW R, NEW l \in Seq(R)
    PROVE  \E U : ToTurns(a, f, l) \in Seq(U)
<1> DEFINE g == FrozenTurns(f)
           U == {a} \cup { g[i] : i \in 1..Len(f) } \cup R
<1>1. Len(f) \in Nat /\ g \in [1..Len(f) -> U]
  BY LenProperties DEF FrozenTurns
<1>2. g \in Seq(U) /\ <<a>> \in Seq(U) /\ l \in Seq(U)
  BY <1>1, SeqMonotonic
<1> HIDE DEF g, U
<1>3. (<<a>> \o g) \o l \in Seq(U)
  BY <1>2, ConcatProperties
<1> QED
  BY <1>3, Zenon DEF ToTurns, g

\* Each frozen segment renders to a summary turn that depends only on the
\* segment and on its position (segments.py:33-47).
LEMMA FrozenTurnIs ==
    ASSUME NEW f, NEW i \in 1..Len(f)
    PROVE  /\ FrozenTurns(f)[i].kind = "summary"
           /\ \A g : (i \in 1..Len(g) /\ g[i] = f[i]) => FrozenTurns(g)[i] = FrozenTurns(f)[i]
<1> QED
  BY DEF FrozenTurns, ToTurn

\* A plain step only appends: nothing the previous step sent changes.
LEMMA AppendedIsKept ==
    ASSUME NEW a, NEW S, NEW f \in Seq(S), NEW R, NEW l \in Seq(R),
           NEW turn \in R
    PROVE  DivergesAt(ToTurns(a, f, l), ToTurns(a, f, Append(l, turn)),
                      Len(ToTurns(a, f, l)))
<1> DEFINE s == ToTurns(a, f, l)
           t == ToTurns(a, f, Append(l, turn))
<1>1. Append(l, turn) \in Seq(R) /\ Len(Append(l, turn)) = Len(l) + 1
      /\ \A k \in 1..Len(l) : Append(l, turn)[k] = l[k]
  BY AppendProperties
<1>2. Len(f) \in Nat /\ Len(l) \in Nat
  BY LenProperties
<1>2a. Rendering(s, a, f, l)
  BY ToTurnsIs
<1>2b. Rendering(t, a, f, Append(l, turn))
  BY <1>1, ToTurnsIs
<1> HIDE DEF s, t
<1>3. /\ Len(s) = 1 + Len(f) + Len(l) /\ s[1] = a
      /\ \A i \in 1..Len(f) : s[1 + i] = FrozenTurns(f)[i]
      /\ \A k \in 1..Len(l) : s[1 + Len(f) + k] = l[k]
  BY <1>2a DEF Rendering
<1>4. /\ Len(t) = 1 + Len(f) + (Len(l) + 1) /\ t[1] = a
      /\ \A i \in 1..Len(f) : t[1 + i] = FrozenTurns(f)[i]
      /\ \A k \in 1..(Len(l) + 1) : t[1 + Len(f) + k] = Append(l, turn)[k]
  BY <1>1, <1>2b DEF Rendering
<1>5. ASSUME NEW i \in 1..Len(s) PROVE s[i] = t[i]
  <2>1. CASE i = 1
    BY <1>3, <1>4, <2>1
  <2>2. CASE i \in 2..(1 + Len(f))
    <3>1. i - 1 \in 1..Len(f) /\ i = 1 + (i - 1)
      BY <1>2, <2>2
    <3> QED
      BY <1>3, <1>4, <3>1
  <2>3. CASE i > 1 + Len(f)
    <3> DEFINE k == i - (1 + Len(f))
    <3>1. k \in 1..Len(l) /\ k \in 1..(Len(l) + 1) /\ i = 1 + Len(f) + k
      BY <1>2, <1>3, <2>3
    <3> HIDE DEF k
    <3>2. s[i] = l[k] /\ t[i] = Append(l, turn)[k] /\ Append(l, turn)[k] = l[k]
      BY <1>1, <1>3, <1>4, <3>1
    <3> QED
      BY <3>2
  <2> QED
    BY <1>2, <1>3, <2>1, <2>2, <2>3
<1> QED
  BY <1>2, <1>3, <1>4, <1>5 DEF DivergesAt, s, t

\* A compaction event keeps the anchor and every older segment, and the next
\* position held a raw turn and now holds a summary.
LEMMA FrozenDiverges ==
    ASSUME NEW a, NEW S, NEW f \in Seq(S), NEW R, NEW l \in Seq(R), l # <<>>,
           \A k \in 1..Len(l) : l[k].kind = "raw",
           NEW sg \in S, NEW kept \in Seq(R)
    PROVE  DivergesAt(ToTurns(a, f, l), ToTurns(a, Append(f, sg), kept), 1 + Len(f))
<1> DEFINE s == ToTurns(a, f, l)
           g == Append(f, sg)
           t == ToTurns(a, g, kept)
<1>1. g \in Seq(S) /\ Len(g) = Len(f) + 1
      /\ (\A i \in 1..Len(f) : g[i] = f[i]) /\ g[Len(f) + 1] = sg
  BY AppendProperties
<1>2. Len(f) \in Nat /\ Len(l) \in Nat /\ Len(kept) \in Nat /\ Len(l) >= 1
  BY LenProperties, EmptySeq
<1>2a. Rendering(s, a, f, l)
  BY ToTurnsIs
<1> HIDE DEF g
<1>2b. Rendering(t, a, g, kept)
  BY <1>1, ToTurnsIs
<1> HIDE DEF s, t
<1>3. /\ Len(s) = 1 + Len(f) + Len(l) /\ s[1] = a
      /\ \A i \in 1..Len(f) : s[1 + i] = FrozenTurns(f)[i]
      /\ \A k \in 1..Len(l) : s[1 + Len(f) + k] = l[k]
  BY <1>2a DEF Rendering
<1>4. /\ Len(t) = 1 + Len(g) + Len(kept) /\ t[1] = a
      /\ \A i \in 1..Len(g) : t[1 + i] = FrozenTurns(g)[i]
  BY <1>2b DEF Rendering
<1>5. ASSUME NEW i \in 1..(1 + Len(f)) PROVE s[i] = t[i]
  <2>1. CASE i = 1
    BY <1>3, <1>4, <2>1
  <2>2. CASE i # 1
    <3>1. i - 1 \in 1..Len(f) /\ i - 1 \in 1..(Len(f) + 1) /\ i = 1 + (i - 1)
      BY <1>2, <2>2
    <3>2. g[i - 1] = f[i - 1] /\ i - 1 \in 1..Len(g)
      BY <1>1, <3>1
    <3>3. FrozenTurns(g)[i - 1] = FrozenTurns(f)[i - 1]
      BY <3>1, <3>2, FrozenTurnIs
    <3> QED
      BY <1>3, <1>4, <3>1, <3>2, <3>3
  <2> QED
    BY <2>1, <2>2
<1>6. s[1 + Len(f) + 1] # t[1 + Len(f) + 1]
  <2>1. s[1 + Len(f) + 1] = l[1] /\ l[1].kind = "raw"
    <3>1. 1 \in 1..Len(l) /\ 1 + Len(f) + 1 = 1 + Len(f) + 1
      BY <1>2
    <3> QED
      BY <1>3, <3>1
  <2>2. Len(f) + 1 \in 1..Len(g) /\ 1 + Len(f) + 1 = 1 + (Len(f) + 1)
    BY <1>1, <1>2
  <2>3. t[1 + Len(f) + 1] = FrozenTurns(g)[Len(f) + 1]
    BY <1>4, <2>2
  <2> QED
    BY <2>1, <2>2, <2>3, FrozenTurnIs
<1> QED
  BY <1>1, <1>2, <1>3, <1>4, <1>5, <1>6 DEF DivergesAt, s, t, g

\* Whether a position of a rendering shows a raw turn (segments.py:63-66).
LEMMA KindsOfRendering ==
    ASSUME NEW a, a.kind = "anchor", NEW f, NEW l, Len(f) \in Nat, Len(l) \in Nat,
           NEW t, Rendering(t, a, f, l)
    PROVE  /\ Len(t) = 1 + Len(f) + Len(l)
           /\ \A i \in 1..(1 + Len(f)) : t[i].kind # "raw"
           /\ \A k \in 1..Len(l) : t[1 + Len(f) + k] = l[k]
<1>1. /\ Len(t) = 1 + Len(f) + Len(l) /\ t[1] = a
      /\ \A i \in 1..Len(f) : t[1 + i] = FrozenTurns(f)[i]
      /\ \A k \in 1..Len(l) : t[1 + Len(f) + k] = l[k]
  BY DEF Rendering
<1>2. ASSUME NEW i \in 1..(1 + Len(f)) PROVE t[i].kind # "raw"
  <2>1. CASE i = 1
    BY <1>1, <2>1
  <2>2. CASE i # 1
    <3>1. i - 1 \in 1..Len(f) /\ i = 1 + (i - 1)
      BY <2>2
    <3>2. t[i] = FrozenTurns(f)[i - 1]
      BY <1>1, <3>1
    <3>3. FrozenTurns(f)[i - 1].kind = "summary"
      BY <3>1, FrozenTurnIs
    <3> QED
      BY <3>2, <3>3
  <2> QED
    BY <2>1, <2>2
<1> QED
  BY <1>1, <1>2

\* ids of the raw turns a context shows verbatim.
ShownIds(t) == { t[i].id : i \in { j \in 1..Len(t) : t[j].kind = "raw" } }

\* The raw turns a rendering shows are the live ones.
LEMMA LiveIsShown ==
    ASSUME NEW a, a.kind = "anchor", NEW f, NEW l, Len(f) \in Nat, Len(l) \in Nat,
           \A k \in 1..Len(l) : l[k].kind = "raw",
           NEW t, Rendering(t, a, f, l)
    PROVE  ShownIds(t) = { l[k].id : k \in 1..Len(l) }
<1> DEFINE F == 1 + Len(f)
<1>1. /\ Len(f) \in Nat /\ Len(l) \in Nat /\ Len(t) = F + Len(l)
      /\ \A i \in 1..F : t[i].kind # "raw"
      /\ \A k \in 1..Len(l) : t[F + k] = l[k]
  BY KindsOfRendering
<1>2. F \in Nat
  BY <1>1
<1> HIDE DEF F
<1>3. ASSUME NEW i \in 1..Len(t), t[i].kind = "raw"
      PROVE  \E k \in 1..Len(l) : t[i].id = l[k].id
  <2>1. i - F \in 1..Len(l) /\ i = F + (i - F)
    BY <1>1, <1>2, <1>3
  <2> QED
    BY <1>1, <2>1
<1>4. ASSUME NEW k \in 1..Len(l)
      PROVE  \E i \in 1..Len(t) : t[i].kind = "raw" /\ t[i].id = l[k].id
  <2>1. F + k \in 1..Len(t)
    BY <1>1, <1>2
  <2>2. t[F + k] = l[k] /\ l[k].kind = "raw"
    BY <1>1
  <2> QED
    BY <2>1, <2>2
<1>5. ASSUME NEW x \in ShownIds(t)
      PROVE  x \in { l[k].id : k \in 1..Len(l) }
  <2>1. PICK i \in 1..Len(t) : t[i].kind = "raw" /\ x = t[i].id
    BY <1>5 DEF ShownIds
  <2>2. PICK k \in 1..Len(l) : t[i].id = l[k].id
    BY <1>3, <2>1
  <2> QED
    BY <2>1, <2>2
<1>6. ASSUME NEW x \in { l[k].id : k \in 1..Len(l) }
      PROVE  x \in ShownIds(t)
  <2>1. PICK k \in 1..Len(l) : x = l[k].id
    BY <1>6
  <2>2. PICK i \in 1..Len(t) : t[i].kind = "raw" /\ t[i].id = l[k].id
    BY <1>4
  <2> QED
    BY <2>1, <2>2 DEF ShownIds
<1> QED
  BY <1>5, <1>6

\* A rendering shows live turns in their order.
LEMMA LiveIsShownInOrder ==
    ASSUME NEW a, a.kind = "anchor", NEW f, NEW l, Len(f) \in Nat, Len(l) \in Nat,
           \A k \in 1..Len(l) : l[k].kind = "raw",
           NEW t, Rendering(t, a, f, l),
           \A k, m \in 1..Len(l) : k < m => l[k].id < l[m].id
    PROVE  \A i, j \in 1..Len(t) :
             i < j /\ t[i].kind = "raw" /\ t[j].kind = "raw" => t[i].id < t[j].id
<1> DEFINE F == 1 + Len(f)
<1>1. /\ Len(f) \in Nat /\ Len(l) \in Nat /\ Len(t) = F + Len(l)
      /\ \A i \in 1..F : t[i].kind # "raw"
      /\ \A k \in 1..Len(l) : t[F + k] = l[k]
  BY KindsOfRendering
<1>2. F \in Nat
  BY <1>1
<1> HIDE DEF F
<1>3. ASSUME NEW i \in 1..Len(t), t[i].kind = "raw"
      PROVE  i - F \in 1..Len(l) /\ t[i] = l[i - F]
  <2>1. i - F \in 1..Len(l) /\ i = F + (i - F)
    BY <1>1, <1>2, <1>3
  <2> QED
    BY <1>1, <2>1
<1>4. ASSUME NEW i \in 1..Len(t), NEW j \in 1..Len(t), i < j,
             t[i].kind = "raw", t[j].kind = "raw"
      PROVE  t[i].id < t[j].id
  <2>1. /\ i - F \in 1..Len(l) /\ t[i] = l[i - F]
        /\ j - F \in 1..Len(l) /\ t[j] = l[j - F]
    BY <1>3, <1>4
  <2>2. i - F < j - F
    BY <1>1, <1>2, <1>4
  <2> QED
    BY <2>1, <2>2
<1> QED
  BY <1>4
=============================================================================
