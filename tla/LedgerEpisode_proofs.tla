------------------------ MODULE LedgerEpisode_proofs ------------------------
(***************************************************************************)
(* Proofs about the ledger benchmark, for every set of accounts, queue,    *)
(* budget and order of seeds and policies, and whatever the model calls.   *)
(***************************************************************************)
EXTENDS LedgerEpisode, SharedLemmas, FiniteSetTheorems
LOCAL INSTANCE SequencesExt

\* Every episode's queue and balances are typed as LedgerAssumption says.
IsTransaction(t) ==
    /\ t.account \in Accounts /\ t.to \in Accounts
    /\ t.kind \in {"deposit", "withdraw", "transfer"} /\ t.amount \in Nat \ {0}
    /\ t.kind = "transfer" => t.to # t.account

\* What a command line is, while it is the one the script was started with.
LEMMA LineType ==
    ASSUME args \in CommandLines
    PROVE  /\ Seeds \in Seq(ToSet(Seeds)) /\ Seeds # <<>>
           /\ Policies \in Seq(ToSet(Policies)) /\ Policies # <<>>
           /\ args.transactions \in Nat /\ args.maxToolCalls \in Nat
           /\ NoRepeats =>
                /\ \A i, j \in DOMAIN Seeds : Seeds[i] = Seeds[j] => i = j
                /\ \A i, j \in DOMAIN Policies : Policies[i] = Policies[j] => i = j
<1> QED
  BY LedgerAssumption DEF Seeds, Policies, NoRepeats

LEMMA SeedType ==
    ASSUME args \in CommandLines, NEW seed \in ToSet(Seeds)
    PROVE  /\ Initial[seed] \in [Accounts -> Int]
           /\ Len(QueueOf(seed)) \in Nat
           /\ \A k \in 1..Len(QueueOf(seed)) : IsTransaction(QueueOf(seed)[k])
<1> DEFINE q == Transactions[seed]
           n == args.transactions
<1>1. /\ Initial[seed] \in [Accounts -> Nat] /\ q \in Seq(ToSet(q))
      /\ n \in Nat /\ n <= Len(q)
      /\ \A t \in ToSet(q) : IsTransaction(t)
  BY LedgerAssumption DEF IsTransaction, Seeds
<1> HIDE DEF q, n
<1>2. Len(q) \in Nat /\ \A k \in 1..Len(q) : q[k] \in ToSet(q)
  BY <1>1, LenProperties, ElementOfSeq
<1>3. /\ Len(SubSeq(q, 1, n)) = n
      /\ \A k \in 1..n : SubSeq(q, 1, n)[k] = q[k]
  <2>1. \A k \in 1..n : q[k] \in ToSet(q)
    BY <1>1, <1>2
  <2>2. (n - 1) + 1 = n /\ n \in Int /\ 1 <= n + 1
    BY <1>1
  <2>3. /\ Len(SubSeq(q, 1, n)) = (n - 1) + 1
        /\ \A k \in 1..((n - 1) + 1) : SubSeq(q, 1, n)[k] = q[(1 + k) - 1]
    BY <2>1, <2>2, SubSeqProperties
  <2>4. \A k \in 1..n : (1 + k) - 1 = k
    BY <1>1
  <2> QED
    BY <2>2, <2>3, <2>4
<1>4. QueueOf(seed) = SubSeq(q, 1, n)
  BY Zenon DEF QueueOf, q, n
<1>5. \A k \in 1..n : IsTransaction(q[k])
  BY <1>1, <1>2
<1> QED
  BY <1>1, <1>3, <1>4, <1>5

-----------------------------------------------------------------------------
\* The reference simulation over the first m transactions: f[0] .. f[m].
Simulated(f, seed, m) ==
    f = [k \in 0..m |->
            IF k = 0 THEN Initial[seed] ELSE Apply(f[k - 1], QueueOf(seed)[k])]

\* It can always go one transaction further.
LEMMA SimulatedExtends ==
    ASSUME NEW seed, NEW m \in Nat, NEW f, Simulated(f, seed, m)
    PROVE  \E g : Simulated(g, seed, m + 1)
<1> DEFINE Step(h, k) == IF k = 0 THEN Initial[seed] ELSE Apply(h[k - 1], QueueOf(seed)[k])
           g == [k \in 0..(m + 1) |-> IF k <= m THEN f[k]
                                      ELSE Apply(f[k - 1], QueueOf(seed)[k])]
<1>1. \A k \in 0..m : g[k] = f[k]
  OBVIOUS
<1>2. \A k \in 0..m : f[k] = Step(f, k)
  BY Zenon DEF Simulated
<1>3. g[m + 1] = Apply(f[m], QueueOf(seed)[m + 1])
  <2>1. m + 1 \in 0..(m + 1) /\ ~(m + 1 <= m) /\ (m + 1) - 1 = m
    OBVIOUS
  <2>2. g[m + 1] = Apply(f[(m + 1) - 1], QueueOf(seed)[m + 1])
    BY <2>1, Zenon
  <2> QED
    BY <2>1, <2>2, Zenon
<1>4. g = [k \in 0..(m + 1) |-> g[k]]
  OBVIOUS
<1> HIDE DEF g
<1>5. \A k \in 0..(m + 1) : g[k] = Step(g, k)
  <2> TAKE k \in 0..(m + 1)
  <2>1. CASE k = m + 1
    <3>1. k # 0 /\ k - 1 = m /\ m \in 0..m
      BY <2>1
    <3>2. g[k - 1] = f[m]
      BY <3>1, <1>1, Zenon
    <3> QED
      BY <3>1, <3>2, <2>1, <1>3, Zenon
  <2>2. CASE k \in 1..m
    <3>1. k # 0 /\ k - 1 \in 0..m /\ k \in 0..m
      BY <2>2
    <3>2. g[k - 1] = f[k - 1] /\ g[k] = f[k]
      BY <3>1, <1>1, Zenon
    <3> QED
      BY <3>1, <3>2, <1>2, Zenon
  <2>3. CASE k = 0
    <3>1. 0 \in 0..m
      OBVIOUS
    <3> QED
      BY <3>1, <2>3, <1>1, <1>2, Zenon
  <2> QED
    BY <2>1, <2>2, <2>3
<1>6. [k \in 0..(m + 1) |-> g[k]] = [k \in 0..(m + 1) |-> Step(g, k)]
  BY <1>5, Zenon
<1>7. Simulated(g, seed, m + 1)
  BY <1>4, <1>6, Zenon DEF Simulated
<1> QED
  BY <1>7, Zenon

\* What _reference_balances is before the first and after each transaction.
LEMMA ReferenceIs ==
    ASSUME args \in CommandLines, NEW seed \in ToSet(Seeds)
    PROVE  /\ Reference(seed, 0) = Initial[seed]
           /\ \A k \in 1..Len(QueueOf(seed)) :
                Reference(seed, k) = Apply(Reference(seed, k - 1), QueueOf(seed)[k])
<1> DEFINE m == Len(QueueOf(seed))
           D == { n \in Nat : \E f : Simulated(f, seed, n) }
           h == CHOOSE f : Simulated(f, seed, m)
<1>1. 0 \in D
  <2> DEFINE f0 == [k \in 0..0 |-> Initial[seed]]
  <2>1. Simulated(f0, seed, 0)
    BY DEF Simulated
  <2> QED
    BY <2>1
<1>2. ASSUME NEW n \in Nat, n \in D PROVE n + 1 \in D
  <2>1. PICK f : Simulated(f, seed, n)
    BY <1>2
  <2>2. \E g : Simulated(g, seed, n + 1)
    BY <2>1, SimulatedExtends
  <2>3. n + 1 \in Nat
    OBVIOUS
  <2> QED
    BY <2>2, <2>3, Zenon
<1>3. Nat \subseteq D
  <2> HIDE DEF D
  <2> QED
    BY <1>1, <1>2, Induction
<1>4. m \in Nat
  BY SeedType
<1>5. \E f : Simulated(f, seed, m)
  <2>1. m \in D
    BY <1>3, <1>4
  <2> QED
    BY <2>1, Zenon
<1>6. Simulated(h, seed, m)
  BY <1>5, Zenon
<1>7. \A k : Reference(seed, k) = h[k]
  BY Zenon DEF Reference, Simulated
<1> HIDE DEF h
<1>8. \A k \in 0..m : h[k] = IF k = 0 THEN Initial[seed]
                             ELSE Apply(h[k - 1], QueueOf(seed)[k])
  BY <1>6, Zenon DEF Simulated
<1>9. 0 \in 0..m /\ \A k \in 1..m : k \in 0..m /\ k # 0
  BY <1>4
<1> QED
  BY <1>7, <1>8, <1>9, Zenon

-----------------------------------------------------------------------------
\* A rotation of the policies is a permutation of them.
LEMMA RotatedIs ==
    ASSUME args \in CommandLines, NEW i \in Nat
    PROVE  /\ Len(Policies) \in Nat \ {0} /\ Len(Rotated(i)) = Len(Policies)
           /\ \E at \in [1..Len(Policies) -> 1..Len(Policies)] :
                /\ \A k \in 1..Len(Policies) : Rotated(i)[k] = Policies[at[k]]
                /\ \A k, m \in 1..Len(Policies) : at[k] = at[m] => k = m
                /\ \A m \in 1..Len(Policies) : \E k \in 1..Len(Policies) : at[k] = m
<1> DEFINE P == Len(Policies)
           r == i % P
           s == SubSeq(Policies, 1 + r, P)
           u == SubSeq(Policies, 1, r)
           at == [k \in 1..P |-> IF k <= P - r THEN r + k ELSE k - (P - r)]
<1>1. Policies \in Seq(ToSet(Policies)) /\ P \in Nat \ {0}
  BY LineType, LenProperties, EmptySeq
<1>2. r \in 0..(P - 1)
  BY <1>1
<1>3. \A k \in 1..P : Policies[k] \in ToSet(Policies)
  BY <1>1, ElementOfSeq
<1> HIDE DEF P, r
<1>4. /\ s \in Seq(ToSet(Policies)) /\ Len(s) = P - r
      /\ \A k \in 1..(P - r) : s[k] = Policies[r + k]
  <2>1. \A k \in (1 + r)..P : Policies[k] \in ToSet(Policies)
    BY <1>1, <1>2, <1>3
  <2>2. (P - (1 + r)) + 1 = P - r /\ 1 + r \in Int /\ P \in Int /\ 1 + r <= P + 1
    BY <1>1, <1>2
  <2>3. /\ s \in Seq(ToSet(Policies))
        /\ Len(s) = (P - (1 + r)) + 1
        /\ \A k \in 1..((P - (1 + r)) + 1) : s[k] = Policies[((1 + r) + k) - 1]
    BY <2>1, <2>2, SubSeqProperties
  <2>4. \A k \in 1..(P - r) : ((1 + r) + k) - 1 = r + k
    BY <1>1, <1>2
  <2> QED
    BY <2>2, <2>3, <2>4
<1>5. /\ u \in Seq(ToSet(Policies)) /\ Len(u) = r
      /\ \A k \in 1..r : u[k] = Policies[k]
  <2>1. \A k \in 1..r : Policies[k] \in ToSet(Policies)
    BY <1>1, <1>2, <1>3
  <2>2. (r - 1) + 1 = r /\ r \in Int /\ 1 <= r + 1
    BY <1>1, <1>2
  <2>3. /\ u \in Seq(ToSet(Policies))
        /\ Len(u) = (r - 1) + 1
        /\ \A k \in 1..((r - 1) + 1) : u[k] = Policies[(1 + k) - 1]
    BY <2>1, <2>2, SubSeqProperties
  <2>4. \A k \in 1..r : (1 + k) - 1 = k
    BY <1>1, <1>2
  <2> QED
    BY <2>2, <2>3, <2>4
<1>6. Rotated(i) = s \o u
  BY Zenon DEF Rotated, P, r
<1> HIDE DEF s, u
<1>7. /\ Len(s \o u) = (P - r) + r
      /\ \A k \in 1..(P - r) : (s \o u)[k] = s[k]
      /\ \A k \in 1..r : (s \o u)[(P - r) + k] = u[k]
  <2>1. /\ Len(s \o u) = Len(s) + Len(u)
        /\ \A k \in 1..(Len(s) + Len(u)) :
              (s \o u)[k] = IF k <= Len(s) THEN s[k] ELSE u[k - Len(s)]
    BY <1>4, <1>5, ConcatProperties
  <2>2. \A k \in 1..((P - r) + r) :
              (s \o u)[k] = IF k <= P - r THEN s[k] ELSE u[k - (P - r)]
    BY <1>4, <1>5, <2>1, Zenon
  <2>3. ASSUME NEW k \in 1..r PROVE (s \o u)[(P - r) + k] = u[k]
    <3>1. /\ (P - r) + k \in 1..((P - r) + r) /\ ~((P - r) + k <= P - r)
          /\ ((P - r) + k) - (P - r) = k
      BY <1>1, <1>2
    <3> QED
      BY <2>2, <3>1, Zenon
  <2>4. ASSUME NEW k \in 1..(P - r) PROVE (s \o u)[k] = s[k]
    <3>1. k \in 1..((P - r) + r) /\ k <= P - r
      BY <1>1, <1>2
    <3> QED
      BY <2>2, <3>1, Zenon
  <2> QED
    BY <1>4, <1>5, <2>1, <2>3, <2>4, Zenon
<1>8. at \in [1..P -> 1..P]
  BY <1>1, <1>2
<1>9. \A k, m \in 1..P : at[k] = at[m] => k = m
  BY <1>1, <1>2
<1>10. \A k \in 1..P : (s \o u)[k] = Policies[at[k]]
  <2> TAKE k \in 1..P
  <2>1. CASE k <= P - r
    <3>1. k \in 1..(P - r) /\ at[k] = r + k
      BY <2>1, <1>1, <1>2
    <3> QED
      BY <3>1, <1>4, <1>7
  <2>2. CASE ~(k <= P - r)
    <3>1. k - (P - r) \in 1..r /\ at[k] = k - (P - r) /\ (P - r) + (k - (P - r)) = k
      BY <2>2, <1>1, <1>2
    <3> HIDE DEF at
    <3>2. (s \o u)[(P - r) + (k - (P - r))] = u[k - (P - r)]
      BY <3>1, <1>7, Zenon
    <3>3. u[k - (P - r)] = Policies[k - (P - r)]
      BY <3>1, <1>5, Zenon
    <3> QED
      BY <3>1, <3>2, <3>3, Zenon
  <2> QED
    BY <2>1, <2>2
<1>11. (P - r) + r = P
  BY <1>1, <1>2
<1>14. ASSUME NEW m \in 1..P PROVE \E k \in 1..P : at[k] = m
  <2>1. CASE m > r
    <3>1. m - r \in 1..P /\ m - r <= P - r /\ r + (m - r) = m
      BY <2>1, <1>1, <1>2
    <3>2. at[m - r] = m
      BY <3>1
    <3> QED
      BY <3>1, <3>2
  <2>2. CASE ~(m > r)
    <3>1. (P - r) + m \in 1..P /\ ~((P - r) + m <= P - r) /\ ((P - r) + m) - (P - r) = m
      BY <2>2, <1>1, <1>2
    <3>2. at[(P - r) + m] = m
      BY <3>1
    <3> QED
      BY <3>1, <3>2
  <2> QED
    BY <2>1, <2>2
<1> HIDE DEF at
<1>12. Len(Rotated(i)) = P
  BY <1>6, <1>7, <1>11, Zenon
<1>13. \E e \in [1..P -> 1..P] : /\ \A k \in 1..P : Rotated(i)[k] = Policies[e[k]]
                                 /\ \A k, m \in 1..P : e[k] = e[m] => k = m
                                 /\ \A m \in 1..P : \E k \in 1..P : e[k] = m
  <2>1. \A k \in 1..P : Rotated(i)[k] = Policies[at[k]]
    BY <1>6, <1>10, Zenon
  <2> WITNESS at \in [1..P -> 1..P]
  <2> QED
    BY <2>1, <1>9, <1>14, Zenon
<1> QED
  BY <1>1, <1>12, <1>13, Zenon DEF P

\* The order of the episodes: each has a seed and a policy of the command line,
\* each of them with each other, and if the command line repeats none, no two
\* episodes have both in common.
LEMMA OrderIs ==
    ASSUME args \in CommandLines
    PROVE  /\ Len(Order) \in Nat \ {0} /\ Order \in [1..Len(Order) -> ToSet(Order)]
           /\ \A n \in 1..Len(Order) :
                Order[n][1] \in ToSet(Seeds) /\ Order[n][2] \in ToSet(Policies)
           /\ \A seed \in ToSet(Seeds) : \A policy \in ToSet(Policies) :
                \E n \in 1..Len(Order) : Order[n][1] = seed /\ Order[n][2] = policy
           /\ NoRepeats => \A n, m \in 1..Len(Order) :
                Order[n][1] = Order[m][1] /\ Order[n][2] = Order[m][2] => n = m
<1> DEFINE S == Len(Seeds)
           P == Len(Policies)
           I(n) == (n - 1) \div P + 1
           K(n) == ((n - 1) % P) + 1
           OfSeed(i) == IF driver = "phase3_ledger" THEN Policies ELSE Rotated(i - 1)
<1>1. S \in Nat \ {0} /\ P \in Nat \ {0} /\ Seeds \in Seq(ToSet(Seeds))
      /\ Policies \in Seq(ToSet(Policies))
  BY LineType, LenProperties, EmptySeq
<1>2. S * P \in Nat \ {0}
  BY <1>1
<1>3. Order = [n \in 1..(S * P) |-> <<Seeds[I(n)], OfSeed(I(n))[K(n)]>>]
  BY Zenon DEF Order
<1>4. \A n \in 1..(S * P) : /\ I(n) \in 1..S /\ K(n) \in 1..P
                             /\ n = (I(n) - 1) * P + K(n)
  <2> TAKE n \in 1..(S * P)
  <2>1. I(n) \in 1..S /\ K(n) \in 1..P /\ n = ((n - 1) \div P) * P + ((n - 1) % P) + 1
    BY <1>1, RoundAndTurn
  <2>2. (n - 1) \div P \in Int /\ (n - 1) % P \in Int
    BY <1>1, <1>2
  <2>3. I(n) - 1 = (n - 1) \div P
    BY <2>2
  <2>4. ((n - 1) \div P) * P \in Int
    BY <2>2, <1>1
  <2>5. ((n - 1) \div P) * P + ((n - 1) % P) + 1 = ((n - 1) \div P) * P + K(n)
    BY <2>2, <2>4
  <2> QED
    BY <2>1, <2>3, <2>5
<1>5. ASSUME NEW i \in 1..S, NoRepeats
      PROVE  \A k, m \in 1..P : OfSeed(i)[k] = OfSeed(i)[m] => k = m
  <2>1. \A k, m \in 1..P : Policies[k] = Policies[m] => k = m
    BY <1>1, <1>5, LenProperties, LineType
  <2>2. i - 1 \in Nat
    BY <1>1
  <2>3. PICK at \in [1..P -> 1..P] :
            /\ \A k \in 1..P : Rotated(i - 1)[k] = Policies[at[k]]
            /\ \A k, m \in 1..P : at[k] = at[m] => k = m
    BY <2>2, RotatedIs, ZenonT(60)
  <2>4. \A k, m \in 1..P : Rotated(i - 1)[k] = Rotated(i - 1)[m] => k = m
    BY <2>1, <2>3
  <2> QED
    BY <2>1, <2>4
<1>11. ASSUME NEW i \in 1..S, NEW k \in 1..P
       PROVE  \E m \in 1..P : OfSeed(i)[m] = Policies[k]
  <2>1. i - 1 \in Nat
    BY <1>1
  <2>2. PICK at \in [1..P -> 1..P] :
            /\ \A m \in 1..P : Rotated(i - 1)[m] = Policies[at[m]]
            /\ \A m \in 1..P : \E j \in 1..P : at[j] = m
    BY <2>1, RotatedIs
  <2> QED
    BY <2>2
<1>12. ASSUME NEW i \in 1..S, NEW k \in 1..P
       PROVE  OfSeed(i)[k] \in ToSet(Policies)
  <2>1. i - 1 \in Nat
    BY <1>1
  <2>2. PICK at \in [1..P -> 1..P] : \A m \in 1..P : Rotated(i - 1)[m] = Policies[at[m]]
    BY <2>1, RotatedIs
  <2>3. \A m \in 1..P : Policies[m] \in ToSet(Policies)
    BY <1>1, ElementOfSeq
  <2> QED
    BY <2>2, <2>3
<1>13. ASSUME NEW i \in 1..S, NEW k \in 1..P
       PROVE  \E n \in 1..(S * P) : I(n) = i /\ K(n) = k
  <2> DEFINE n == ((i - 1) * P) + k
  <2>1. /\ (n - 1) \div P = i - 1
        /\ (n - 1) % P = k - 1
    <3>1. i - 1 \in Nat
      BY <1>1
    <3> QED
      BY <1>1, <3>1, TurnOfRound
  <2>3. n \in 1..(S * P)
    <3>1. (i - 1) * P <= (S - 1) * P /\ (S - 1) * P = S * P - P /\ (i - 1) * P \in Nat
      BY <1>1
    <3> QED
      BY <1>1, <1>2, <3>1
  <2> HIDE DEF n
  <2>2. (i - 1) + 1 = i /\ (k - 1) + 1 = k
    BY <1>1
  <2>4. I(n) = i /\ K(n) = k
    BY <2>1, <2>2
  <2> QED
    BY <2>3, <2>4
<1> HIDE DEF I, K, OfSeed, S, P
<1>6. Order \in [1..(S * P) -> ToSet(Order)] /\ Len(Order) = S * P
  <2>1. DOMAIN Order = 1..(S * P) /\ Order = [n \in 1..(S * P) |-> Order[n]]
    BY <1>3, Zenon
  <2>2. \A n \in 1..(S * P) : Order[n] \in ToSet(Order)
    BY <2>1, Zenon DEF ToSet
  <2>3. Order \in [1..(S * P) -> ToSet(Order)]
    BY <2>1, <2>2, Zenon
  <2>4. Order \in Seq(ToSet(Order))
    BY <1>2, <2>3, SeqDef
  <2> QED
    BY <1>2, <2>1, <2>3, <2>4, LenProperties
<1>7. \A n \in 1..(S * P) : Order[n] = <<Seeds[I(n)], OfSeed(I(n))[K(n)]>>
  BY <1>3, Zenon
<1>8. \A n \in 1..(S * P) : Order[n][1] \in ToSet(Seeds) /\ Order[n][2] \in ToSet(Policies)
  <2> TAKE n \in 1..(S * P)
  <2>1. Seeds[I(n)] \in ToSet(Seeds)
    BY <1>1, <1>4, ElementOfSeq DEF S
  <2>2. OfSeed(I(n))[K(n)] \in ToSet(Policies)
    BY <1>4, <1>12
  <2> QED
    BY <1>7, <2>1, <2>2
<1>9. ASSUME NoRepeats, NEW n \in 1..(S * P), NEW m \in 1..(S * P),
             Order[n][1] = Order[m][1], Order[n][2] = Order[m][2]
      PROVE  n = m
  <2>1. /\ Seeds[I(n)] = Seeds[I(m)]
        /\ OfSeed(I(n))[K(n)] = OfSeed(I(m))[K(m)]
    BY <1>7, <1>9
  <2>2. I(n) = I(m)
    <3>1. DOMAIN Seeds = 1..S
      BY <1>1, LenProperties DEF S
    <3>2. \A i, j \in 1..S : Seeds[i] = Seeds[j] => i = j
      BY <1>9, <3>1, LineType, Zenon
    <3> QED
      BY <1>4, <2>1, <3>2, Zenon
  <2>3. K(n) = K(m)
    BY <1>4, <1>5, <1>9, <2>1, <2>2
  <2> QED
    BY <1>4, <2>2, <2>3
<1>10. Order \in [1..Len(Order) -> ToSet(Order)]
  BY <1>6, Zenon
<1>14. ASSUME NEW seed \in ToSet(Seeds), NEW policy \in ToSet(Policies)
       PROVE  \E n \in 1..(S * P) : Order[n][1] = seed /\ Order[n][2] = policy
  <2>1. PICK i \in 1..S : Seeds[i] = seed
    BY <1>1, LenProperties DEF ToSet, S
  <2>2. PICK k \in 1..P : Policies[k] = policy
    BY <1>1, LenProperties DEF ToSet, P
  <2>3. PICK m \in 1..P : OfSeed(i)[m] = policy
    BY <1>11, <2>2
  <2>4. PICK n \in 1..(S * P) : I(n) = i /\ K(n) = m
    BY <1>13
  <2> QED
    BY <1>7, <2>1, <2>3, <2>4
<1> QED
  BY <1>2, <1>6, <1>8, <1>9, <1>10, <1>14

-----------------------------------------------------------------------------
\* A tool call leaves every account with some balance.
LEMMA EffectType ==
    ASSUME actual \in [Accounts -> Int],
           NEW c, c.kind \in {"deposit", "withdraw", "transfer"}, c.amount \in Int
    PROVE  Effect(c) \in [Accounts -> Int]
<1>1. CASE c.kind = "deposit"
  BY <1>1 DEF Effect, Deposit, Known
<1>2. CASE c.kind = "withdraw"
  BY <1>2 DEF Effect, Withdraw, Known
<1>3. CASE c.kind = "transfer"
  BY <1>3 DEF Effect, Transfer, Known
<1> QED
  BY <1>1, <1>2, <1>3

\* _apply's docstring (ledger.py:52-55): on a transaction of the queue the live
\* tools do what the reference does.
LEMMA ToolsFollowTheRule ==
    ASSUME actual \in [Accounts -> Int], NEW t, IsTransaction(t)
    PROVE  Effect(t) = Apply(actual, t)
<1> USE DEF IsTransaction
<1>1. CASE t.kind = "deposit"
  BY <1>1 DEF Effect, Deposit, Known, Apply
<1>2. CASE t.kind = "withdraw"
  BY <1>2 DEF Effect, Withdraw, Known, Apply
<1>3. CASE t.kind = "transfer"
  <2>1. CASE actual[t.account] < t.amount
    BY <1>3, <2>1 DEF Effect, Transfer, Known, Apply
  <2>2. CASE actual[t.account] >= t.amount
    BY <1>3, <2>2 DEF Effect, Transfer, Known, Apply
  <2> QED
    BY <2>1, <2>2
<1> QED
  BY <1>1, <1>2, <1>3

\* What the types need to be inductive: the counters count, an episode that
\* runs is one of the order, and a sweep holds a row of each episode it ran, a
\* sweep that is over, or died, none.
Counting ==
    /\ driver \in {"phase3_ledger", "phase4_pareto_success"}
    /\ cursor \in Nat /\ done \in Nat /\ nToolCalls \in Nat
    /\ phase # "boot" => job <= Len(Order)
    /\ IF phase # "dead" /\ job <= Len(Order) THEN Len(rows) = job - 1 ELSE rows = <<>>

TInv == TypeOK /\ Counting

\* A script keeps its order while it runs, and an episode its queue.
LEMMA OrderStays ==
    /\ UNCHANGED <<driver, args>> => Order' = Order /\ RecordsOf(args)' = RecordsOf(args)
    /\ UNCHANGED Sweeping =>
            /\ job' = job /\ rows' = rows /\ file' = file /\ Order' = Order
            /\ sweep' = sweep /\ driver' = driver /\ args' = args
            /\ Queue' = Queue /\ Seed' = Seed
            /\ RecordsOf(args)' = RecordsOf(args)
<1>1. ASSUME UNCHANGED <<driver, args>>
      PROVE  Order' = Order /\ RecordsOf(args)' = RecordsOf(args)
  BY <1>1, Zenon DEF Order, Rotated, Seeds, Policies, RecordsOf
<1>2. UNCHANGED Sweeping =>
        /\ job' = job /\ rows' = rows /\ file' = file /\ sweep' = sweep /\ driver' = driver
        /\ args' = args
  BY DEF Sweeping
<1>3. ASSUME UNCHANGED Sweeping PROVE Seed' = Seed
  BY <1>1, <1>2, <1>3, Zenon DEF Seed
<1>4. ASSUME UNCHANGED Sweeping PROVE Queue' = Queue
  BY <1>2, <1>3, <1>4, Zenon DEF Queue, QueueOf
<1> QED
  BY <1>1, <1>2, <1>3, <1>4, Zenon

\* There is something to run, under the next command line too.
LEMMA OrderLength == args \in CommandLines => Len(Order) \in Nat \ {0}
<1> QED
  BY OrderIs

LEMMA OrderIsNext == (args \in CommandLines => Len(Order) \in Nat \ {0})'
<1> QED
  BY OrderLength, PTL

\* What the reference is after any number of the queue's transactions stays, too.
LEMMA ReferenceStays ==
    ASSUME args' = args, Seed' = Seed
    PROVE  \A n : Reference(Seed, n)' = Reference(Seed, n)
<1> QED
  BY ZenonT(60) DEF Reference, QueueOf

\* The queue of an episode that runs.
LEMMA QueueType ==
    ASSUME TypeOK, job <= Len(Order)
    PROVE  /\ Seed \in ToSet(Seeds) /\ Order[job] \in ToSet(Order)
           /\ Record(Order[job]) \in RecordsOf(args)
           /\ Initial[Seed] \in [Accounts -> Int] /\ Len(Queue) \in Nat
           /\ \A k \in 1..Len(Queue) : IsTransaction(Queue[k])
<1>0. args \in CommandLines
  BY DEF TypeOK
<1>1. job \in 1..Len(Order)
  BY <1>0, OrderIs DEF TypeOK
<1>2. /\ Seed \in ToSet(Seeds) /\ Order[job] \in ToSet(Order)
      /\ Order[job][1] \in ToSet(Seeds) /\ Order[job][2] \in ToSet(Policies)
  BY <1>0, <1>1, OrderIs DEF Seed
<1>3. Record(Order[job]) \in RecordsOf(args)
  BY <1>2 DEF Record, RecordsOf, Seeds, Policies
<1> QED
  BY <1>0, <1>2, <1>3, SeedType DEF Queue

\* The script starts with the types right.
LEMMA TInvInit == Init => TInv
<1> SUFFICES ASSUME Init PROVE TInv
  OBVIOUS
<1>0. args \in CommandLines
  BY DEF Init
<1>1. Len(Order) \in Nat \ {0} /\ Len(Seeds) \in Nat \ {0} /\ Seeds \in Seq(ToSet(Seeds))
  BY <1>0, OrderIs, LineType, EmptySeq
<1>2. actual \in [Accounts -> Int]
  <2>1. Seeds[1] \in ToSet(Seeds)
    BY <1>1, ElementOfSeq
  <2> QED
    BY <1>0, <2>1, SeedType DEF Init
<1>3. rows \in Seq(RecordsOf(args)) /\ file \in [Records -> Nat]
  BY EmptySeq DEF Init
<1>5. rows = <<>> /\ Len(rows) = 0 /\ job = 1 /\ phase = "boot"
  BY EmptySeq DEF Init
<1>4. /\ job \in 1..(Len(Order) + 1) /\ sweep \in 1..MaxSweeps
      /\ cursor \in Nat /\ done \in Nat /\ nToolCalls \in Nat
  BY <1>1, LedgerAssumption DEF Init
<1> QED
  BY <1>0, <1>1, <1>2, <1>3, <1>4, <1>5 DEF TInv, TypeOK, Counting, Init

\* Where the sweep is while an episode runs.
LEMMA SweepTypes ==
    ASSUME TInv, UNCHANGED Sweeping
    PROVE  /\ job' \in 1..(Len(Order') + 1) /\ sweep' \in 1..MaxSweeps
           /\ driver' \in {"phase3_ledger", "phase4_pareto_success"}
           /\ rows' \in Seq(RecordsOf(args)') /\ file' \in [Records -> Nat]
           /\ args' \in CommandLines
           /\ job <= Len(Order) => job' <= Len(Order')
           /\ phase # "dead" /\ job <= Len(Order) => Len(rows') = job' - 1
<1> QED
  BY OrderStays DEF TInv, TypeOK, Counting

\* Every step keeps the types, whatever the model calls.
LEMMA TInvNext == TInv /\ [Next]_vars => TInv'
<1> SUFFICES ASSUME TInv, [Next]_vars PROVE TInv'
  OBVIOUS
<1> USE DEF TInv, TypeOK, Counting
<1>1. CASE StartEpisode
  <2>1. UNCHANGED Sweeping /\ phase = "boot" /\ job <= Len(Order)
    BY <1>1 DEF StartEpisode
  <2>2. Initial[Seed] \in [Accounts -> Int] /\ Len(Queue) \in Nat
    BY <2>1, QueueType
  <2>3. Queue' = Queue
    BY <2>1, OrderStays
  <2> QED
    BY <1>1, <2>1, <2>2, <2>3, SweepTypes DEF StartEpisode
<1>2. CASE BootstrapCycle
  <2>1. UNCHANGED Sweeping /\ phase = "bootstrap" /\ phase' = phase /\ job <= Len(Order)
    BY <1>2 DEF BootstrapCycle
  <2>2. /\ Len(Queue) \in Nat /\ Queue' = Queue
        /\ \A k \in 1..Len(Queue) : IsTransaction(Queue[k])
    BY <2>1, QueueType, OrderStays
  <2>3. cursor < Len(Queue) /\ cursor' = cursor + 1
    BY <1>2 DEF BootstrapCycle, Fetch
  <2>4. actual' \in [Accounts -> Int]
    <3>1. IsTransaction(Bootstrapped)
      BY <2>2, <2>3 DEF Bootstrapped
    <3> QED
      BY <1>2, <3>1, EffectType DEF BootstrapCycle, IsTransaction
  <2>5. stepIdx' = stepIdx + 2 * 2 /\ nToolCalls' = nToolCalls + 2 /\ done' = done + 1
    BY <1>2 DEF BootstrapCycle, OneCall
  <2>6. stopped' = stopped
    BY <1>2 DEF BootstrapCycle
  <2> QED
    BY <2>1, <2>2, <2>3, <2>4, <2>5, <2>6, SweepTypes
<1>3. CASE HandOver \/ BudgetExhausted \/ ContextExceeded
  <2>1. /\ UNCHANGED Sweeping /\ phase \in {"bootstrap", "model"} /\ phase' \in {"model", "ended"}
        /\ UNCHANGED <<actual, cursor, stepIdx, nToolCalls, done>>
        /\ stopped' \in {stopped, "context_exceeded"}
    BY <1>3 DEF HandOver, BudgetExhausted, ContextExceeded, MayCall
  <2>2. Queue' = Queue
    BY <2>1, OrderStays
  <2> QED
    BY <2>1, <2>2, SweepTypes
<1>4. CASE ModelFetches \/ (\E c \in Calls : ModelMovesMoney(c)) \/ ModelChangesNothing
              \/ ModelReports
  <2>1. /\ UNCHANGED Sweeping /\ phase = "model" /\ phase' \in {"model", "ended"}
        /\ stepIdx' = stepIdx + 2 * 1 /\ nToolCalls' = nToolCalls + 1
        /\ stopped' \in {stopped, "submitted"}
    BY <1>4 DEF ModelFetches, ModelMovesMoney, ModelChangesNothing, ModelReports, MayCall,
       OneCall, Submitted
  <2>2. Len(Queue) \in Nat /\ Queue' = Queue
    BY <2>1, QueueType, OrderStays
  <2>3. cursor' \in Nat /\ cursor' <= Len(Queue)
    <3>1. CASE ModelFetches
      BY <2>1, <2>2, <3>1 DEF ModelFetches, Fetch
    <3>2. CASE ~ModelFetches
      <4>1. cursor' = cursor
        BY <1>4, <3>2 DEF ModelMovesMoney, ModelChangesNothing, ModelReports
      <4> QED
        BY <2>1, <4>1
    <3> QED
      BY <3>1, <3>2
  <2>4. actual' \in [Accounts -> Int]
    <3>1. ASSUME NEW c \in Calls, ModelMovesMoney(c) PROVE actual' \in [Accounts -> Int]
      <4>1. c.kind \in {"deposit", "withdraw", "transfer"} /\ c.amount \in Int
        BY LedgerAssumption DEF Calls
      <4> QED
        BY <3>1, <4>1, EffectType DEF ModelMovesMoney
    <3>2. actual' = actual \/ \E c \in Calls : ModelMovesMoney(c)
      BY <1>4 DEF ModelFetches, ModelChangesNothing, ModelReports
    <3> QED
      BY <3>1, <3>2
  <2>5. done' \in Nat
    BY <1>4 DEF ModelFetches, ModelMovesMoney, ModelChangesNothing, ModelReports
  <2>6. job' <= Len(Order') /\ Len(rows') = job' - 1 /\ phase' # "dead" /\ phase' # "boot"
    BY <2>1, SweepTypes
  <2>7. stepIdx' = 1 + 2 * nToolCalls' /\ nToolCalls' \in Nat
    BY <2>1
  <2> QED
    BY <2>1, <2>2, <2>3, <2>4, <2>5, <2>6, <2>7, SweepTypes
<1>5. CASE EpisodeEnds
  <2>1. /\ phase = "ended" /\ phase' = "boot" /\ job' = job + 1 /\ driver' = driver /\ args' = args
        /\ UNCHANGED <<sweep, actual, cursor, stepIdx, nToolCalls, stopped, done>>
    BY <1>5 DEF EpisodeEnds
  <2>2. /\ Order' = Order /\ Len(Order) \in Nat /\ RecordsOf(args)' = RecordsOf(args)
        /\ Record(Order[job]) \in RecordsOf(args)
    BY <2>1, OrderStays, OrderIs, QueueType
  <2>3. Append(rows, Record(Order[job])) \in Seq(RecordsOf(args))
    BY <2>2, AppendProperties
  <2>4. rows' \in Seq(RecordsOf(args)) /\ file' \in [Records -> Nat]
    <3> DEFINE written == Append(rows, Record(Order[job]))
    <3>1. Flush(written)
      BY <1>5 DEF EpisodeEnds
    <3>2. ASSUME NEW p PROVE Cardinality({ n \in DOMAIN written : written[n] = p }) \in Nat
      <4>1. DOMAIN written = 1..Len(written) /\ Len(written) \in Nat
        BY <2>3, LenProperties
      <4> HIDE DEF written
      <4>2. IsFiniteSet(1..Len(written))
        BY <4>1, FS_Interval
      <4>3. { n \in DOMAIN written : written[n] = p } \in SUBSET (1..Len(written))
        BY <4>1
      <4> QED
        BY <4>2, <4>3, FS_Subset, FS_CardinalityType, Zenon
    <3> HIDE DEF written
    <3>3. CASE Len(written) < Len(Order)
      BY <2>3, <3>1, <3>3 DEF Flush, written
    <3>4. CASE ~(Len(written) < Len(Order))
      <4>1. /\ rows' = <<>>
            /\ file' = [p \in DOMAIN file |-> file[p]
                          + Cardinality({ n \in DOMAIN written : written[n] = p })]
        BY <3>1, <3>4, Zenon DEF Flush, Appended
      <4>2. \A p \in Records :
                file[p] + Cardinality({ n \in DOMAIN written : written[n] = p }) \in Nat
        <5> TAKE p \in Records
        <5> DEFINE c == Cardinality({ n \in DOMAIN written : written[n] = p })
        <5>1. file[p] \in Nat /\ c \in Nat
          BY <3>2
        <5> HIDE DEF c
        <5>2. file[p] + c \in Nat
          BY <5>1
        <5> QED
          BY <5>2 DEF c
      <4> QED
        BY <4>1, <4>2, EmptySeq
    <3> QED
      BY <3>3, <3>4
  <2>5. IF job' <= Len(Order') THEN Len(rows') = job' - 1 ELSE rows' = <<>>
    <3> DEFINE written == Append(rows, Record(Order[job]))
    <3>1. Flush(written)
      BY <1>5 DEF EpisodeEnds
    <3>2. job <= Len(Order) /\ job \in Nat /\ Len(rows) = job - 1
      BY <2>1, <2>2
    <3>3. Len(written) = job
      <4>1. Len(written) = Len(rows) + 1
        BY <2>2, AppendProperties
      <4> HIDE DEF written
      <4> QED
        BY <3>2, <4>1
    <3> HIDE DEF written
    <3>4. IF job < Len(Order) THEN rows' = written ELSE rows' = <<>>
      BY <3>1, <3>3 DEF Flush
    <3> QED
      BY <2>1, <2>2, <3>2, <3>3, <3>4
  <2> QED
    BY <2>1, <2>2, <2>4, <2>5
<1>6. CASE SweepDies
  <2>1. /\ phase \in {"bootstrap", "model"} /\ phase' = "dead" /\ rows' = <<>>
        /\ UNCHANGED <<driver, args, sweep, job, actual, cursor, stepIdx, nToolCalls, stopped,
                       file, done>>
    BY <1>6 DEF SweepDies
  <2>2. Order' = Order
    BY <2>1, OrderStays
  <2>3. Queue' = Queue
    BY <2>1, <2>2, Zenon DEF Queue, Seed, QueueOf
  <2> QED
    BY <2>1, <2>2, <2>3, EmptySeq
<1>7. CASE RunAgain
  <2>1. /\ job' = 1 /\ phase' = "boot" /\ sweep' = sweep + 1 /\ sweep < MaxSweeps
        /\ UNCHANGED <<driver, rows, file, actual, cursor, stepIdx, nToolCalls, stopped, done>>
    BY <1>7 DEF RunAgain
  <2>2. args' \in CommandLines /\ rows = <<>>
    BY <1>7, OrderIs DEF RunAgain
  <2>3. Len(Order') \in Nat \ {0}
    BY <2>2, OrderIsNext
  <2>4. rows' \in Seq(RecordsOf(args)')
    BY <2>1, <2>2, EmptySeq
  <2> QED
    BY <2>1, <2>2, <2>3, <2>4, LedgerAssumption
<1>8. CASE UNCHANGED vars
  <2>1. UNCHANGED Sweeping
    BY <1>8 DEF vars, Sweeping
  <2> QED
    BY <1>8, <2>1, OrderStays DEF vars
<1> QED
  BY <1>1, <1>2, <1>3, <1>4, <1>5, <1>6, <1>7, <1>8 DEF Next

\* The driver hands the policy one turn per index, the anchor and two for each
\* call, whatever the model sends (phase3_ledger.py's step_idx), and cursor,
\* balances, rows and file keep their types.
THEOREM TypeCorrect == Spec => []TypeOK
<1>1. TInv => TypeOK
  BY DEF TInv
<1> QED
  BY <1>1, TInvInit, TInvNext, PTL DEF Spec

-----------------------------------------------------------------------------
\* A call that carries out the instruction does what the instruction's
\* transaction does: a deposit or withdrawal has no other side.
LEMMA InstructedEffect ==
    ASSUME NEW c, Instructed(c), IsTransaction(Queue[cursor])
    PROVE  Effect(c) = Effect(Queue[cursor])
<1> DEFINE t == Queue[cursor]
<1>1. /\ c.kind = t.kind /\ c.account = t.account /\ c.amount = t.amount
      /\ c.kind = "transfer" => c.to = t.to
  BY DEF Instructed
<1>2. t.kind \in {"deposit", "withdraw", "transfer"}
  BY DEF IsTransaction
<1> HIDE DEF t
<1>3. Effect(c) = Effect(t)
  BY <1>1, <1>2 DEF Effect
<1> QED
  BY <1>3 DEF t

\* In a faithful run the balances are the reference's, and at most the
\* instruction fetched last is still to be done.
InStep == actual = Reference(Seed, done) /\ done <= cursor /\ cursor <= done + 1

FInv ==
    /\ phase = "bootstrap" => done = cursor
    /\ phase # "boot" /\ faithful => InStep

\* In step after a step that leaves the sweep where it is.
LEMMA InStepNext ==
    ASSUME UNCHANGED <<driver, args, job>>, NEW n, done' = n, actual' = Reference(Seed, n),
           n <= cursor', cursor' <= n + 1
    PROVE  InStep'
<1>1. args' = args /\ Seed' = Seed
  BY OrderStays DEF Seed
<1>2. Reference(Seed, n)' = Reference(Seed, n)
  BY <1>1, ReferenceStays
<1>3. actual' = Reference(Seed, n)'
  BY <1>2
<1>4. actual' = Reference(Seed, done)'
  BY <1>3, Zenon
<1> QED
  BY <1>4 DEF InStep

\* One more transaction of the queue, done by the live tools.
LEMMA OneMoreInStep ==
    ASSUME TInv, phase # "boot", InStep, done + 1 \in 1..Len(Queue)
    PROVE  Effect(Queue[done + 1]) = Reference(Seed, done + 1)
<1>1. /\ Seed \in ToSet(Seeds) /\ Len(Queue) \in Nat /\ IsTransaction(Queue[done + 1])
  BY QueueType DEF TInv, Counting
<1>2. Reference(Seed, done + 1) = Apply(Reference(Seed, (done + 1) - 1), Queue[done + 1])
  BY <1>1, ReferenceIs DEF Queue, TInv, TypeOK
<1>3. (done + 1) - 1 = done
  BY DEF TInv, Counting
<1>4. Effect(Queue[done + 1]) = Apply(actual, Queue[done + 1])
  BY <1>1, ToolsFollowTheRule DEF TInv, TypeOK
<1> QED
  BY <1>2, <1>3, <1>4, Zenon DEF InStep

\* Every step keeps a faithful run in step with the reference.
LEMMA FInvNext == TInv /\ FInv /\ [Next]_vars => FInv'
<1> SUFFICES ASSUME TInv, FInv, [Next]_vars PROVE FInv'
  OBVIOUS
<1>1. CASE StartEpisode
  <2>1. UNCHANGED Sweeping /\ phase = "boot" /\ job <= Len(Order)
    BY <1>1 DEF StartEpisode
  <2>2. Seed' = Seed /\ args' = args /\ Reference(Seed, 0) = Initial[Seed]
    BY <2>1, OrderStays, QueueType, ReferenceIs DEF TInv, TypeOK
  <2>4. Reference(Seed, 0)' = Reference(Seed, 0)
    BY <2>2, ReferenceStays
  <2>3. actual' = Initial[Seed] /\ cursor' = 0 /\ done' = 0
    BY <1>1 DEF StartEpisode
  <2> QED
    BY <2>2, <2>3, <2>4 DEF FInv, InStep
<1>2. CASE BootstrapCycle
  <2>1. UNCHANGED Sweeping /\ phase = "bootstrap" /\ phase' = phase /\ done = cursor
    BY <1>2 DEF BootstrapCycle, FInv
  <2>2. cursor < Len(Queue) /\ cursor' = cursor + 1 /\ done' = done + 1
    BY <1>2 DEF BootstrapCycle, Fetch
  <2>3. actual' = Effect(Queue[done + 1]) /\ faithful' = faithful
    BY <1>2, <2>1 DEF BootstrapCycle, Bootstrapped
  <2>4. done \in Nat /\ cursor \in Nat /\ Len(Queue) \in Nat
    BY <2>1, QueueType DEF TInv, Counting
  <2>5. faithful' => InStep
    BY <2>1, <2>3 DEF FInv
  <2>6. ASSUME faithful' PROVE InStep'
    <3>1. done + 1 \in 1..Len(Queue) /\ InStep
      BY <2>1, <2>2, <2>4, <2>5, <2>6
    <3>2. actual' = Reference(Seed, done + 1)
      BY <2>1, <2>3, <3>1, OneMoreInStep
    <3>3. done + 1 <= cursor' /\ cursor' <= (done + 1) + 1
      BY <2>1, <2>2, <2>4
    <3> QED
      BY <2>1, <2>2, <3>2, <3>3, InStepNext DEF Sweeping
  <2> QED
    BY <2>1, <2>2, <2>6 DEF FInv
<1>3. CASE ModelFetches
  <2>1. /\ UNCHANGED Sweeping /\ phase = "model" /\ phase' = phase
        /\ UNCHANGED <<actual, done>> /\ faithful' = (faithful /\ done = cursor)
    BY <1>3 DEF ModelFetches, MayCall
  <2>2. cursor' = cursor \/ cursor' = cursor + 1
    BY <1>3 DEF ModelFetches, Fetch
  <2>3. cursor \in Nat /\ done \in Nat
    BY DEF TInv, Counting
  <2>4. ASSUME faithful' PROVE InStep'
    <3>1. faithful /\ done = cursor
      BY <2>1, <2>4, Zenon
    <3>2. InStep
      BY <2>1, <3>1 DEF FInv
    <3>3. done <= cursor' /\ cursor' <= done + 1
      BY <2>2, <2>3, <3>1
    <3>4. done' = done /\ actual' = Reference(Seed, done)
      BY <2>1, <3>2 DEF InStep
    <3> QED
      BY <2>1, <3>3, <3>4, InStepNext DEF Sweeping
  <2> QED
    BY <2>1, <2>4 DEF FInv
<1>4. ASSUME NEW c \in Calls, ModelMovesMoney(c) PROVE FInv'
  <2>1. /\ UNCHANGED Sweeping /\ phase = "model" /\ phase' = phase /\ cursor' = cursor
        /\ actual' = Effect(c) /\ faithful' = (faithful /\ Instructed(c))
        /\ done' = IF faithful /\ Instructed(c) THEN done + 1 ELSE done
    BY <1>4 DEF ModelMovesMoney, MayCall
  <2>2. ASSUME faithful' PROVE InStep'
    <3>1. faithful /\ Instructed(c)
      BY <2>1, <2>2, Zenon
    <3>2. done' = done + 1 /\ cursor = done + 1 /\ InStep
      BY <2>1, <3>1 DEF Instructed, FInv
    <3>3. /\ done \in Nat /\ cursor <= Len(Queue) /\ Len(Queue) \in Nat
          /\ \A k \in 1..Len(Queue) : IsTransaction(Queue[k])
      BY <2>1, QueueType DEF TInv, TypeOK, Counting
    <3>4. cursor \in 1..Len(Queue) /\ done + 1 \in 1..Len(Queue)
      BY <3>2, <3>3
    <3>5. Effect(c) = Effect(Queue[done + 1])
      BY <3>1, <3>2, <3>3, <3>4, InstructedEffect
    <3>6. Effect(Queue[done + 1]) = Reference(Seed, done + 1)
      BY <2>1, <3>2, <3>4, OneMoreInStep
    <3>7. done + 1 <= cursor' /\ cursor' <= (done + 1) + 1
      BY <2>1, <3>2, <3>3
    <3>8. actual' = Reference(Seed, done + 1)
      BY <2>1, <3>5, <3>6
    <3> QED
      BY <2>1, <3>2, <3>7, <3>8, InStepNext DEF Sweeping
  <2> QED
    BY <2>1, <2>2 DEF FInv
<1>5. CASE \/ HandOver \/ ModelChangesNothing \/ ModelReports \/ ContextExceeded
           \/ BudgetExhausted \/ SweepDies
  <2>1. /\ phase \in {"bootstrap", "model"} /\ phase' \in {"model", "ended", "dead"}
        /\ UNCHANGED <<driver, args, job, actual, cursor, done, faithful>>
    BY <1>5 DEF HandOver, ModelChangesNothing, ModelReports, ContextExceeded, BudgetExhausted,
       SweepDies, MayCall, Submitted, Sweeping
  <2>2. phase # "boot" /\ phase' # "bootstrap"
    BY <2>1
  <2>3. ASSUME faithful' PROVE InStep'
    <3>1. InStep
      BY <2>1, <2>2, <2>3 DEF FInv
    <3> QED
      BY <2>1, <3>1, InStepNext DEF InStep
  <2> QED
    BY <2>2, <2>3 DEF FInv
<1>6. CASE EpisodeEnds \/ RunAgain
  <2>1. phase' = "boot"
    BY <1>6 DEF EpisodeEnds, RunAgain
  <2> QED
    BY <2>1 DEF FInv
<1>7. CASE UNCHANGED vars
  <2>1. UNCHANGED <<driver, args, job, phase, actual, cursor, done, faithful>>
    BY <1>7 DEF vars
  <2>2. ASSUME InStep PROVE InStep'
    BY <2>1, <2>2, InStepNext DEF InStep
  <2> QED
    BY <2>1, <2>2 DEF FInv
<1> QED
  BY <1>1, <1>2, <1>3, <1>4, <1>5, <1>6, <1>7 DEF Next

\* _apply's docstring (ledger.py:52-55), for every queue and every set of
\* accounts: live tools and reference follow one rule, so a run that does as it
\* is told has the reference's balances all along, and reporting them at the
\* end of the queue is a success.
THEOREM LiveFollowsReference == Spec => []FaithfulRunVerifies
<1>1. Init => FInv
  BY DEF Init, FInv
<1>2. TInv /\ FInv => FaithfulRunVerifies
  <2> SUFFICES ASSUME FInv, phase # "boot", faithful
               PROVE  /\ actual = Reference(Seed, done)
                      /\ done = Len(Queue) /\ report = {actual} => Success
    BY DEF FaithfulRunVerifies
  <2>1. actual = Reference(Seed, done)
    BY DEF FInv, InStep
  <2> QED
    BY <2>1, Zenon DEF Success
<1> QED
  BY <1>1, <1>2, TInvInit, TInvNext, FInvNext, PTL DEF Spec

-----------------------------------------------------------------------------
\* The rows the sweep holds are those of the episodes it has run, in order.
RowsAreOrder ==
    phase # "dead" /\ job <= Len(Order) => \A n \in 1..(job - 1) : rows[n] = Record(Order[n])

EInv == RowsAreOrder /\ SameEpisodesPerScale

\* How many of the rows w are r.
Count(w, r) == Cardinality({ n \in DOMAIN w : w[n] = r })

\* A finished sweep has one row of each seed and policy of its command line,
\* and no other.
LEMMA EachOnce ==
    ASSUME NoRepeats, args \in CommandLines,
           NEW w, DOMAIN w = 1..Len(Order), \A n \in 1..Len(Order) : w[n] = Record(Order[n]),
           NEW r \in Records
    PROVE  Count(w, r) = IF r \in RecordsOf(args) THEN 1 ELSE 0
<1>1. ASSUME NEW n \in 1..Len(Order) PROVE w[n] \in RecordsOf(args)
  <2>1. Order[n][1] \in ToSet(Seeds) /\ Order[n][2] \in ToSet(Policies)
    BY OrderIs
  <2>2. Record(Order[n]) \in RecordsOf(args)
    BY <2>1 DEF Record, RecordsOf, Seeds, Policies
  <2> QED
    BY <2>2, Zenon
<1>2. CASE r \in RecordsOf(args)
  <2>1. /\ r.seed \in ToSet(Seeds) /\ r.policy \in ToSet(Policies)
        /\ r = [n_transactions |-> args.transactions, seed |-> r.seed, policy |-> r.policy]
    BY <1>2 DEF RecordsOf, Seeds, Policies
  <2>2. PICK m \in 1..Len(Order) : Order[m][1] = r.seed /\ Order[m][2] = r.policy
    BY <2>1, OrderIs
  <2>3. w[m] = r
    BY <2>1, <2>2, Zenon DEF Record
  <2>4. ASSUME NEW n \in 1..Len(Order), w[n] = r PROVE n = m
    <3>1. Record(Order[n]) = r
      BY <2>4, Zenon
    <3>2. Order[n][1] = r.seed /\ Order[n][2] = r.policy
      BY <3>1 DEF Record
    <3> QED
      BY <2>2, <3>2, OrderIs
  <2>5. { n \in DOMAIN w : w[n] = r } = {m}
    BY <2>2, <2>3, <2>4
  <2> QED
    BY <1>2, <2>5, FS_Singleton DEF Count
<1>3. CASE r \notin RecordsOf(args)
  <2>1. { n \in DOMAIN w : w[n] = r } = {}
    BY <1>1, <1>3
  <2> QED
    BY <1>3, <2>1, FS_EmptySet DEF Count
<1> QED
  BY <1>2, <1>3

\* Two rows of one scale are of one command line: it has both or none.
LEMMA OneLinePerScale ==
    ASSUME NoRepeats, args \in CommandLines, NEW r \in Records, NEW q \in Records,
           r.n_transactions = q.n_transactions
    PROVE  r \in RecordsOf(args) <=> q \in RecordsOf(args)
<1>1. PICK one \in CommandLines : r \in RecordsOf(one)
  BY DEF Records
<1>2. PICK two \in CommandLines : q \in RecordsOf(two)
  BY DEF Records
<1>3. one.transactions = two.transactions
  BY <1>1, <1>2 DEF RecordsOf
<1>4. one = two
  BY <1>3 DEF NoRepeats
<1>5. ASSUME r \in RecordsOf(args) PROVE args = one
  <2>1. args.transactions = one.transactions
    BY <1>1, <1>5 DEF RecordsOf
  <2> QED
    BY <2>1 DEF NoRepeats
<1>6. ASSUME q \in RecordsOf(args) PROVE args = two
  <2>1. args.transactions = two.transactions
    BY <1>2, <1>6 DEF RecordsOf
  <2> QED
    BY <2>1 DEF NoRepeats
<1> QED
  BY <1>1, <1>2, <1>4, <1>5, <1>6

\* The file behind a finished sweep holds a row more of each seed and policy of
\* the command line.
LEMMA FlushAddsOne ==
    ASSUME NoRepeats, TInv, SameEpisodesPerScale,
           NEW w, DOMAIN w = 1..Len(Order), \A n \in 1..Len(Order) : w[n] = Record(Order[n]),
           file' = Appended(w)
    PROVE  SameEpisodesPerScale'
<1>1. file \in [Records -> Nat] /\ args \in CommandLines
  BY DEF TInv, TypeOK
<1>2. file' = [r \in Records |-> file[r] + Count(w, r)]
  BY <1>1, Zenon DEF Appended, Count
<1>3. \A r \in Records : Count(w, r) = IF r \in RecordsOf(args) THEN 1 ELSE 0
  BY <1>1, EachOnce
<1>4. ASSUME NEW r \in Records, NEW q \in Records, r.n_transactions = q.n_transactions
      PROVE  file'[r] = file'[q]
  <2>1. file[r] = file[q]
    BY <1>1, <1>4 DEF SameEpisodesPerScale
  <2>2. r \in RecordsOf(args) <=> q \in RecordsOf(args)
    BY <1>1, <1>4, OneLinePerScale
  <2>3. Count(w, r) = Count(w, q)
    BY <1>3, <2>2
  <2> QED
    BY <1>2, <2>1, <2>3
<1> QED
  BY <1>2, <1>4 DEF SameEpisodesPerScale

\* Every step keeps the file balanced, killed sweeps and second ones included.
LEMMA EInvNext ==
    ASSUME NoRepeats, TInv, EInv, [Next]_vars
    PROVE  EInv'
<1> USE DEF EInv
<1>1. CASE \/ StartEpisode \/ BootstrapCycle \/ HandOver \/ ModelFetches
           \/ (\E c \in Calls : ModelMovesMoney(c)) \/ ModelChangesNothing
           \/ ModelReports \/ ContextExceeded \/ BudgetExhausted \/ UNCHANGED vars
  <2>1. UNCHANGED Sweeping /\ (phase' # "dead" => phase # "dead")
    BY <1>1 DEF StartEpisode, BootstrapCycle, HandOver, ModelFetches, ModelMovesMoney,
       ModelChangesNothing, ModelReports, ContextExceeded, BudgetExhausted, MayCall, Submitted,
       vars, Sweeping
  <2>2. \A e : Record(e)' = Record(e)
    BY <2>1, OrderStays, Zenon DEF Record
  <2>3. RowsAreOrder'
    BY <2>1, <2>2, OrderStays DEF RowsAreOrder
  <2>4. SameEpisodesPerScale'
    BY <2>1, OrderStays DEF SameEpisodesPerScale
  <2> QED
    BY <2>3, <2>4
<1>2. CASE EpisodeEnds
  <2> DEFINE w == Append(rows, Record(Order[job]))
  <2>1. /\ phase = "ended" /\ phase' = "boot" /\ job' = job + 1 /\ Flush(w)
        /\ driver' = driver /\ args' = args
    BY <1>2 DEF EpisodeEnds
  <2>2. /\ Order' = Order /\ Len(Order) \in Nat /\ args \in CommandLines
        /\ \A e : Record(e)' = Record(e)
    BY <2>1, OrderStays, OrderIs DEF TInv, TypeOK, Record
  <2>3. /\ job \in 1..Len(Order) /\ rows \in Seq(RecordsOf(args))
        /\ Record(Order[job]) \in RecordsOf(args) /\ Len(rows) = job - 1
    BY <2>1, <2>2, QueueType DEF TInv, TypeOK, Counting
  <2>4. \A n \in 1..(job - 1) : rows[n] = Record(Order[n])
    BY <2>1, <2>2, <2>3 DEF RowsAreOrder
  <2>5. Len(w) = job /\ DOMAIN w = 1..job /\ \A n \in 1..job : w[n] = Record(Order[n])
    <3>1. /\ w \in Seq(RecordsOf(args)) /\ Len(w) = Len(rows) + 1
          /\ \A n \in 1..Len(rows) : w[n] = rows[n]
          /\ w[Len(rows) + 1] = Record(Order[job])
      BY <2>3, AppendProperties
    <3>2. DOMAIN w = 1..Len(w)
      BY <3>1, LenProperties
    <3> HIDE DEF w
    <3>3. Len(rows) + 1 = job
      BY <2>3
    <3>4. \A n \in 1..job : n \in 1..(job - 1) \/ n = job
      BY <2>3
    <3> QED
      BY <2>3, <2>4, <3>1, <3>2, <3>3, <3>4, Zenon
  <2> HIDE DEF w
  <2>6. CASE job < Len(Order)
    <3>1. rows' = w /\ file' = file
      BY <2>1, <2>5, <2>6 DEF Flush
    <3>2. (job + 1) - 1 = job
      BY <2>3
    <3>3. \A n \in 1..(job' - 1) : rows'[n] = Record(Order[n])'
      BY <2>1, <2>2, <2>5, <3>1, <3>2, Zenon
    <3>4. RowsAreOrder'
      BY <3>3 DEF RowsAreOrder
    <3>5. SameEpisodesPerScale'
      BY <3>1 DEF SameEpisodesPerScale
    <3> QED
      BY <3>4, <3>5
  <2>7. CASE job = Len(Order)
    <3>1. file' = Appended(w)
      BY <2>1, <2>5, <2>7 DEF Flush
    <3>2. DOMAIN w = 1..Len(Order) /\ \A n \in 1..Len(Order) : w[n] = Record(Order[n])
      BY <2>5, <2>7, Zenon
    <3>3. SameEpisodesPerScale'
      BY <3>1, <3>2, FlushAddsOne, NoRepeats
    <3>4. ~(job' <= Len(Order'))
      BY <2>1, <2>2, <2>3, <2>7
    <3> QED
      BY <3>3, <3>4 DEF RowsAreOrder
  <2> QED
    BY <2>2, <2>3, <2>6, <2>7
<1>3. CASE SweepDies
  BY <1>3 DEF SweepDies, RowsAreOrder, SameEpisodesPerScale
<1>4. CASE RunAgain
  <2>1. job' = 1 /\ file' = file
    BY <1>4 DEF RunAgain
  <2> QED
    BY <2>1 DEF RowsAreOrder, SameEpisodesPerScale
<1> QED
  BY <1>1, <1>2, <1>3, <1>4 DEF Next

\* What a scale's success rates compare: whichever sweeps died, came to an end
\* and were started again, of this scale and of others, the file holds every
\* seed under every policy of the scale equally often, as long as a command
\* line repeats none and no two have queues of one length.
THEOREM FileIsBalanced ==
    ASSUME NoRepeats
    PROVE  Spec => []SameEpisodesPerScale
<1>1. Init => EInv
  <2> SUFFICES ASSUME Init PROVE EInv
    OBVIOUS
  <2>1. job = 1 /\ file = [r \in Records |-> 0]
    BY DEF Init
  <2> QED
    BY <2>1 DEF EInv, RowsAreOrder, SameEpisodesPerScale
<1>2. TInv /\ EInv /\ [Next]_vars => EInv'
  BY NoRepeats, EInvNext
<1>3. EInv => SameEpisodesPerScale
  BY DEF EInv
<1> QED
  BY <1>1, <1>2, <1>3, TInvInit, TInvNext, PTL DEF Spec

-----------------------------------------------------------------------------
\* Before an episode ends nothing is reported, and the reason the loop starts
\* from stands; from then on the row is honest.
LInv ==
    /\ phase \in {"bootstrap", "model"} => report = {} /\ stopped = "step_budget_exhausted"
    /\ RowIsHonest

\* Every step keeps it, whichever tool the model calls.
LEMMA LInvNext ==
    ASSUME LInv, [Next]_vars
    PROVE  LInv'
<1>1. CASE StartEpisode
  <2>1. phase' = "bootstrap" /\ report' = {} /\ stopped' = "step_budget_exhausted"
    BY <1>1, Zenon DEF StartEpisode
  <2> QED
    BY <2>1 DEF LInv, RowIsHonest
<1>2. CASE BootstrapCycle \/ HandOver
  <2>1. /\ phase = "bootstrap" /\ phase' \in {"bootstrap", "model"}
        /\ report' = report /\ stopped' = stopped
    BY <1>2 DEF BootstrapCycle, HandOver
  <2> QED
    BY <2>1 DEF LInv, RowIsHonest
<1>3. CASE ModelFetches \/ (\E c \in Calls : ModelMovesMoney(c)) \/ ModelChangesNothing
  <2>1. phase = "model" /\ phase' = phase /\ report' = report /\ stopped' = stopped
    BY <1>3, Zenon DEF ModelFetches, ModelMovesMoney, ModelChangesNothing, MayCall
  <2> QED
    BY <2>1 DEF LInv, RowIsHonest
<1>4. CASE ModelReports
  <2>1. phase' = "ended" /\ stopped' = "submitted"
    BY <1>4, Zenon DEF ModelReports, Submitted
  <2>2. report' # {}
    BY <1>4 DEF ModelReports
  <2> QED
    BY <2>1, <2>2 DEF LInv, RowIsHonest
<1>5. CASE ContextExceeded
  <2>1. /\ phase = "model" /\ phase' = "ended" /\ stopped' = "context_exceeded"
        /\ report' = report /\ nToolCalls' = nToolCalls /\ nToolCalls < args.maxToolCalls
        /\ args' = args
    BY <1>5, OrderStays, Zenon DEF ContextExceeded, MayCall
  <2>2. report' = {} /\ ~Success'
    BY <2>1 DEF LInv, Success
  <2> QED
    BY <2>1, <2>2 DEF LInv, RowIsHonest
<1>6. CASE BudgetExhausted
  <2>1. /\ phase = "model" /\ phase' = "ended" /\ stopped' = stopped
        /\ report' = report /\ nToolCalls' = nToolCalls /\ nToolCalls >= args.maxToolCalls
        /\ args' = args
    BY <1>6, OrderStays, Zenon DEF BudgetExhausted
  <2>2. report' = {} /\ stopped' = "step_budget_exhausted" /\ ~Success'
    BY <2>1 DEF LInv, Success
  <2> QED
    BY <2>1, <2>2 DEF LInv, RowIsHonest
<1>7. CASE EpisodeEnds \/ SweepDies \/ RunAgain
  <2>1. phase' = "boot" \/ phase' = "dead"
    BY <1>7, Zenon DEF EpisodeEnds, SweepDies, RunAgain
  <2> QED
    BY <2>1 DEF LInv, RowIsHonest
<1>8. CASE UNCHANGED vars
  BY <1>8, Zenon DEF vars, LInv, RowIsHonest, Success, Queue, QueueOf, Reference,
     Seed, Order, Rotated, Seeds, Policies
<1> QED
  BY <1>1, <1>2, <1>3, <1>4, <1>5, <1>6, <1>7, <1>8, Zenon DEF Next

\* phase3_ledger.py's stopped_reason and success: only a reported episode can
\* succeed, "submitted" stands for a report, and an episode out of budget has
\* made its calls.
THEOREM RowsAreHonest == Spec => []RowIsHonest
<1>1. Init => LInv
  BY DEF Init, LInv, RowIsHonest
<1>2. LInv => RowIsHonest
  BY DEF LInv
<1> QED
  BY <1>1, <1>2, LInvNext, PTL DEF Spec
=============================================================================
