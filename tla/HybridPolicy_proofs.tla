------------------------- MODULE HybridPolicy_proofs -------------------------
(***************************************************************************)
(* Proofs about HybridPolicy, for every trajectory length, threshold,      *)
(* protected window, pair of routing limits and set of sizes.  What they   *)
(* rest on is an account of the three lists: the trajectory, the frozen    *)
(* segments, and live, which every round thins out.                        *)
(***************************************************************************)
EXTENDS HybridPolicy, SharedLemmas
LOCAL INSTANCE SequencesExt

\* _route gives one of three answers.
LEMMA RouteIs == \A turn : Route(turn) \in {"evict", "keep", "summarize"}
<1> QED
  BY DEF Route

\* Live turns are raw turns.
LEMMA RawTurnsAreRaw == \A l \in Seq(RawTurn) : \A k \in 1..Len(l) : l[k].kind = "raw"
<1> SUFFICES ASSUME NEW l \in Seq(RawTurn), NEW k \in 1..Len(l) PROVE l[k].kind = "raw"
  OBVIOUS
<1>1. l[k] \in RawTurn
  BY ElementOfSeq
<1> QED
  BY <1>1 DEF RawTurn

\* live[:protect_from] and live[protect_from:] (hybrid.py:103-104).
LEMMA SplitLive ==
    ASSUME NEW l \in Seq(RawTurn)
    PROVE  /\ Len(l) \in Nat /\ ProtectFrom(l) \in 0..Len(l)
           /\ Candidates(l) \in Seq(RawTurn) /\ Len(Candidates(l)) = ProtectFrom(l)
           /\ \A k \in 1..ProtectFrom(l) : Candidates(l)[k] = l[k]
           /\ Protected(l) \in Seq(RawTurn) /\ Len(Protected(l)) = Len(l) - ProtectFrom(l)
           /\ \A k \in 1..(Len(l) - ProtectFrom(l)) : Protected(l)[k] = l[ProtectFrom(l) + k]
<1> DEFINE c == ProtectFrom(l)
<1>1. Len(l) \in Nat /\ c \in 0..Len(l)
  BY LenProperties, HybridAssumption DEF ProtectFrom
<1> HIDE DEF c
<1>2. \A i \in 1..Len(l) : l[i] \in RawTurn
  BY ElementOfSeq
<1>3. /\ SubSeq(l, 1, c) \in Seq(RawTurn) /\ Len(SubSeq(l, 1, c)) = c
      /\ \A k \in 1..c : SubSeq(l, 1, c)[k] = l[k]
  <2>1. c \in Int /\ 1 \in Int /\ \A i \in 1..c : l[i] \in RawTurn
    BY <1>1, <1>2
  <2> QED
    BY <1>1, <2>1, SubSeqProperties
<1>4. /\ SubSeq(l, c + 1, Len(l)) \in Seq(RawTurn)
      /\ Len(SubSeq(l, c + 1, Len(l))) = Len(l) - c
      /\ \A k \in 1..(Len(l) - c) : SubSeq(l, c + 1, Len(l))[k] = l[c + k]
  <2>1. c + 1 \in Int /\ Len(l) \in Int /\ \A i \in (c + 1)..Len(l) : l[i] \in RawTurn
    BY <1>1, <1>2
  <2> QED
    BY <1>1, <2>1, SubSeqProperties
<1> QED
  BY <1>1, <1>3, <1>4 DEF c, Candidates, Protected

\* The turns of one route, by their positions e in the list they came from.
RoutedFrom(t, e, l, n, route) ==
    /\ e \in [1..Len(t) -> 1..n]
    /\ \A k \in 1..Len(t) : t[k] = l[e[k]] /\ Route(t[k]) = route
    /\ \A a, b \in 1..Len(t) : a < b => e[a] < e[b]
    /\ \A j \in 1..n : Route(l[j]) = route => \E k \in 1..Len(t) : e[k] = j

\* The loop over candidates sorts them into routes, in their order
\* (hybrid.py:108-116).
LEMMA RoutedIs ==
    ASSUME NEW l \in Seq(RawTurn), NEW route
    PROVE  LET t == Routed(Candidates(l), route)
           IN  /\ t \in Seq(RawTurn)
               /\ \E e : RoutedFrom(t, e, l, ProtectFrom(l), route)
<1> DEFINE cand == Candidates(l)
           T == { turn \in ToSet(cand) : Route(turn) = route }
           t == Filter(cand, T)
           n == ProtectFrom(l)
<1>1. /\ cand \in Seq(RawTurn) /\ Len(cand) = n /\ n \in Nat
      /\ \A k \in 1..n : cand[k] = l[k]
  BY SplitLive
<1>2. \A k \in 1..n : cand[k] \in T <=> Route(l[k]) = route
  BY <1>1, ElementOfSeq DEF ToSet
<1>3. \A x \in T : Route(x) = route
  OBVIOUS
<1>4. Routed(cand, route) = t
  BY DEF Routed
<1> HIDE DEF cand, T, n
<1>5. t \in Seq(RawTurn)
  BY <1>1, FilterKeeps
<1>6. PICK e : Keeps(t, e, cand, T, Len(cand))
  BY <1>1, FilterKeeps
<1> HIDE DEF t
<1>7. e \in [1..Len(t) -> 1..n]
  BY <1>1, <1>6 DEF Keeps
<1>8. \A k \in 1..Len(t) : t[k] = l[e[k]] /\ Route(t[k]) = route
  BY <1>1, <1>3, <1>6, <1>7 DEF Keeps
<1>9. \A a, b \in 1..Len(t) : a < b => e[a] < e[b]
  BY <1>6 DEF Keeps
<1>10. \A j \in 1..n : Route(l[j]) = route => \E k \in 1..Len(t) : e[k] = j
  BY <1>1, <1>2, <1>6 DEF Keeps
<1>11. RoutedFrom(t, e, l, n, route)
  BY <1>7, <1>8, <1>9, <1>10 DEF RoutedFrom
<1> QED
  BY <1>4, <1>5, <1>11 DEF cand, n

\* m is what live becomes, by the positions h its turns had in l.
Thinned(m, h, l) ==
    /\ Len(m) \in Nat
    /\ h \in [1..Len(m) -> 1..Len(l)]
    /\ \A k \in 1..Len(m) : m[k] = l[h[k]]
    /\ \A k \in 1..Len(m) : h[k] > ProtectFrom(l) \/ Route(m[k]) = "keep"
    /\ \A a, b \in 1..Len(m) : a < b => h[a] < h[b]
    /\ \A j \in 1..Len(l) : j > ProtectFrom(l) \/ Route(l[j]) = "keep"
                                => \E k \in 1..Len(m) : h[k] = j
    /\ Len(m) >= Len(l) - ProtectFrom(l)
    /\ \A i \in 0..((Len(l) - ProtectFrom(l)) - 1) : m[Len(m) - i] = l[Len(l) - i]

\* live = kept + protected (hybrid.py:131).
LEMMA RejoinIs ==
    ASSUME NEW l \in Seq(RawTurn)
    PROVE  LET m == Rejoin(Routed(Candidates(l), "keep"), Protected(l))
           IN  m \in Seq(RawTurn) /\ \E h : Thinned(m, h, l)
<1> DEFINE kept == Routed(Candidates(l), "keep")
           prot == Protected(l)
           c == ProtectFrom(l)
           n == Len(kept)
           q == Len(prot)
           m == kept \o prot
<1>1. /\ Len(l) \in Nat /\ c \in 0..Len(l)
      /\ prot \in Seq(RawTurn) /\ q = Len(l) - c
      /\ \A k \in 1..(Len(l) - c) : prot[k] = l[c + k]
  BY SplitLive
<1>2. kept \in Seq(RawTurn) /\ \E e : RoutedFrom(kept, e, l, c, "keep")
  BY RoutedIs
<1>3. PICK e : RoutedFrom(kept, e, l, c, "keep")
  BY <1>2
<1>4. n \in Nat
  BY <1>2, LenProperties
<1> HIDE DEF kept, prot, c
<1>5. /\ m \in Seq(RawTurn) /\ Len(m) = n + q
      /\ \A k \in 1..(n + q) : m[k] = IF k <= n THEN kept[k] ELSE prot[k - n]
  BY <1>1, <1>2, ConcatProperties
<1>6. /\ e \in [1..n -> 1..c]
      /\ \A k \in 1..n : kept[k] = l[e[k]] /\ Route(kept[k]) = "keep"
      /\ \A a, b \in 1..n : a < b => e[a] < e[b]
      /\ \A j \in 1..c : Route(l[j]) = "keep" => \E k \in 1..n : e[k] = j
  BY <1>3 DEF RoutedFrom
<1> HIDE DEF m, n, q
<1>7. Len(l) = c + q /\ q \in Nat /\ c \in Nat /\ \A k \in 1..q : prot[k] = l[c + k]
  BY <1>1
<1> DEFINE h == [k \in 1..(n + q) |-> IF k <= n THEN e[k] ELSE c + (k - n)]
<1>8. ASSUME NEW k \in 1..n
      PROVE  k \in 1..(n + q) /\ h[k] = e[k] /\ e[k] \in 1..c /\ m[k] = kept[k]
  <2>1. k \in 1..(n + q) /\ k <= n
    BY <1>4, <1>7
  <2>2. h[k] = e[k] /\ m[k] = kept[k]
    BY <2>1, <1>5, Zenon
  <2>3. e[k] \in 1..c
    BY <1>6
  <2> QED
    BY <2>1, <2>2, <2>3
<1>9. ASSUME NEW k \in 1..q
      PROVE  n + k \in 1..(n + q) /\ h[n + k] = c + k /\ m[n + k] = l[c + k]
  <2>1. n + k \in 1..(n + q) /\ ~(n + k <= n) /\ (n + k) - n = k
    BY <1>4, <1>7
  <2>2. h[n + k] = c + ((n + k) - n) /\ m[n + k] = prot[(n + k) - n]
    BY <2>1, <1>5, Zenon
  <2> QED
    BY <2>1, <2>2, <1>7
<1>10. ASSUME NEW k \in 1..(n + q) PROVE k \in 1..n \/ \E i \in 1..q : k = n + i
  <2>1. k \in 1..n \/ (k - n \in 1..q /\ k = n + (k - n))
    BY <1>4, <1>7
  <2> QED
    BY <2>1
<1>11. h \in [1..(n + q) -> 1..Len(l)]
  <2>1. ASSUME NEW k \in 1..(n + q) PROVE h[k] \in 1..Len(l)
    <3> HIDE DEF h
    <3>1. CASE k \in 1..n
      <4>1. h[k] \in 1..c
        BY <3>1, <1>8
      <4> QED
        BY <4>1, <1>7
    <3>2. CASE \E i \in 1..q : k = n + i
      <4>1. PICK i \in 1..q : k = n + i
        BY <3>2
      <4>2. h[k] = c + i
        BY <4>1, <1>9
      <4> QED
        BY <4>2, <1>7
    <3> QED
      BY <3>1, <3>2, <1>10
  <2>2. \A k \in 1..(n + q) : (IF k <= n THEN e[k] ELSE c + (k - n)) \in 1..Len(l)
    <3> TAKE k \in 1..(n + q)
    <3>1. h[k] = IF k <= n THEN e[k] ELSE c + (k - n)
      BY Zenon
    <3>2. h[k] \in 1..Len(l)
      BY <2>1
    <3> QED
      BY <3>1, <3>2, Zenon
  <2> QED
    BY <2>2, Zenon
<1> HIDE DEF h
<1>12. ASSUME NEW k \in 1..(n + q)
       PROVE  m[k] = l[h[k]] /\ (h[k] > c \/ Route(m[k]) = "keep")
  <2>1. CASE k \in 1..n
    BY <2>1, <1>6, <1>8
  <2>2. CASE \E i \in 1..q : k = n + i
    <3>1. PICK i \in 1..q : k = n + i
      BY <2>2
    <3>2. h[k] = c + i /\ m[k] = l[c + i]
      BY <3>1, <1>9
    <3>3. c + i > c
      BY <1>7
    <3> QED
      BY <3>2, <3>3
  <2> QED
    BY <2>1, <2>2, <1>10
<1>13. ASSUME NEW a \in 1..(n + q), NEW b \in 1..(n + q), a < b PROVE h[a] < h[b]
  <2>1. CASE b \in 1..n
    <3>1. a \in 1..n
      BY <2>1, <1>4, <1>13
    <3>2. e[a] < e[b]
      BY <2>1, <3>1, <1>6, <1>13
    <3> QED
      BY <2>1, <3>1, <3>2, <1>8
  <2>2. CASE \E i \in 1..q : b = n + i
    <3>1. PICK i \in 1..q : b = n + i
      BY <2>2
    <3>2. h[b] = c + i
      BY <3>1, <1>9
    <3>3. CASE a \in 1..n
      <4>1. h[a] = e[a] /\ e[a] \in 1..c
        BY <3>3, <1>8
      <4> QED
        BY <4>1, <3>2, <1>7
    <3>4. CASE \E j \in 1..q : a = n + j
      <4>1. PICK j \in 1..q : a = n + j
        BY <3>4
      <4>2. h[a] = c + j
        BY <4>1, <1>9
      <4>3. j < i
        BY <3>1, <4>1, <1>4, <1>13
      <4> QED
        BY <3>2, <4>2, <4>3, <1>7
    <3> QED
      BY <3>3, <3>4, <1>10
  <2> QED
    BY <2>1, <2>2, <1>10
<1>14. ASSUME NEW j \in 1..Len(l), j > c \/ Route(l[j]) = "keep"
       PROVE  \E k \in 1..(n + q) : h[k] = j
  <2>1. CASE j > c
    <3>1. j - c \in 1..q /\ c + (j - c) = j
      BY <2>1, <1>7
    <3>2. n + (j - c) \in 1..(n + q) /\ h[n + (j - c)] = c + (j - c)
      BY <3>1, <1>9
    <3> QED
      BY <3>1, <3>2
  <2>2. CASE ~(j > c)
    <3>1. j \in 1..c
      BY <2>2, <1>7
    <3>2. PICK k \in 1..n : e[k] = j
      BY <2>2, <3>1, <1>6, <1>14
    <3> QED
      BY <3>2, <1>8
  <2> QED
    BY <2>1, <2>2
<1>15. ASSUME NEW i \in 0..(q - 1) PROVE m[(n + q) - i] = l[Len(l) - i]
  <2>1. /\ q - i \in 1..q
        /\ n + (q - i) = (n + q) - i /\ c + (q - i) = Len(l) - i
    BY <1>4, <1>7
  <2>2. m[n + (q - i)] = l[c + (q - i)]
    BY <2>1, <1>9
  <2> QED
    BY <2>1, <2>2
<1>16. n + q \in Nat /\ n + q >= q /\ q = Len(l) - c
  BY <1>1, <1>4, <1>7
<1>17. Thinned(m, h, l)
  BY <1>5, <1>11, <1>12, <1>13, <1>14, <1>15, <1>16 DEF Thinned, c
<1>18. m = Rejoin(Routed(Candidates(l), "keep"), Protected(l))
  BY DEF m, Rejoin, kept, prot
<1> QED
  BY <1>5, <1>17, <1>18
-----------------------------------------------------------------------------
\* The account of the three lists.  x is a turn of the trajectory:
Is(tr, x) == x.id - 1 \in 1..Len(tr) /\ tr[x.id - 1] = x

InOrder(l) == \A a, b \in 1..Len(l) : a < b => l[a].id < l[b].id

\* The trajectory numbers its turns, the anchor being turn 1.
Numbered(tr) == \A i \in 1..Len(tr) : tr[i].id = i + 1

\* live holds turns of the trajectory in order, and ends as the trajectory does.
LiveAccount(tr, l) ==
    /\ InOrder(l)
    /\ \A k \in 1..Len(l) : Is(tr, l[k])
    /\ \A i \in 0..(ProtectRecent - 1) :
          i < Len(tr) => i < Len(l) /\ l[Len(l) - i] = tr[Len(tr) - i]

\* So does each segment, of turns to summarize, after all that the earlier
\* segments hold.
FrozenAccount(tr, f) ==
    /\ \A i \in 1..Len(f) : InOrder(f[i].of)
    /\ \A i \in 1..Len(f) : \A a \in 1..Len(f[i].of) :
          Is(tr, f[i].of[a]) /\ Route(f[i].of[a]) = "summarize"
    /\ \A i, j \in 1..Len(f) : i < j =>
          \A a \in 1..Len(f[i].of), b \in 1..Len(f[j].of) : f[i].of[a].id < f[j].of[b].id

\* What is still to be summarized is newer than what has been.
SummariesBehind(f, l) ==
    \A i \in 1..Len(f) : \A a \in 1..Len(f[i].of) : \A k \in 1..Len(l) :
        Route(l[k]) = "summarize" => f[i].of[a].id < l[k].id

NothingElseLost(tr, f, l) ==
    \A i \in 1..Len(tr) :
        \/ Route(tr[i]) = "evict"
        \/ \E k \in 1..Len(l) : l[k] = tr[i]
        \/ \E j \in 1..Len(f) : \E a \in 1..Len(f[j].of) : f[j].of[a] = tr[i]

Account(tr, f, l) ==
    /\ Numbered(tr) /\ LiveAccount(tr, l) /\ FrozenAccount(tr, f)
    /\ SummariesBehind(f, l) /\ NothingElseLost(tr, f, l)

\* A turn of the trajectory stays one when it grows, and is older than the new
\* turn.
LEMMA StillIs ==
    ASSUME NEW tr \in Seq(RawTurn), NEW turn \in RawTurn,
           NEW x \in RawTurn, Is(tr, x)
    PROVE  Is(Append(tr, turn), x) /\ x.id <= Len(tr) + 1
<1> DEFINE u == Append(tr, turn)
<1>1. /\ Len(tr) \in Nat /\ Len(u) = Len(tr) + 1
      /\ \A i \in 1..Len(tr) : u[i] = tr[i]
  BY LenProperties, AppendProperties
<1> HIDE DEF u
<1>2. x.id \in Nat
  BY DEF RawTurn
<1>3. x.id - 1 \in 1..Len(tr) /\ tr[x.id - 1] = x
  BY DEF Is
<1>4. x.id - 1 \in 1..Len(u) /\ u[x.id - 1] = x
  BY <1>1, <1>3
<1> QED
  BY <1>1, <1>2, <1>3, <1>4 DEF Is, u

\* The new turn is one of the grown trajectory.
LEMMA NewIs ==
    ASSUME NEW tr \in Seq(RawTurn), NEW turn \in RawTurn, turn.id = Len(tr) + 2
    PROVE  Is(Append(tr, turn), turn)
<1>1. /\ Len(tr) \in Nat /\ Len(Append(tr, turn)) = Len(tr) + 1
      /\ Append(tr, turn)[Len(tr) + 1] = turn
  BY LenProperties, AppendProperties
<1>2. turn.id - 1 = Len(tr) + 1 /\ turn.id - 1 \in 1..Len(Append(tr, turn))
  BY <1>1
<1> QED
  BY <1>1, <1>2 DEF Is

\* live.append(turn) keeps the account of live (hybrid.py:95).
LEMMA AppendKeepsLive ==
    ASSUME NEW tr \in Seq(RawTurn), NEW l \in Seq(RawTurn), LiveAccount(tr, l),
           NEW turn \in RawTurn, turn.id = Len(tr) + 2
    PROVE  LiveAccount(Append(tr, turn), Append(l, turn))
<1> DEFINE u == Append(tr, turn)
           m == Append(l, turn)
<1>1. /\ Len(tr) \in Nat /\ Len(u) = Len(tr) + 1 /\ u[Len(tr) + 1] = turn
      /\ \A i \in 1..Len(tr) : u[i] = tr[i]
  BY LenProperties, AppendProperties
<1>2. /\ Len(l) \in Nat /\ Len(m) = Len(l) + 1 /\ m[Len(l) + 1] = turn
      /\ \A i \in 1..Len(l) : m[i] = l[i]
  BY LenProperties, AppendProperties
<1>3. Is(u, turn)
  BY NewIs
<1>4. \A k \in 1..Len(l) : Is(u, l[k]) /\ l[k].id <= Len(tr) + 1 /\ l[k].id \in Nat
  <2> TAKE k \in 1..Len(l)
  <2>1. l[k] \in RawTurn /\ Is(tr, l[k])
    BY ElementOfSeq DEF LiveAccount
  <2> QED
    BY <2>1, StillIs DEF RawTurn
<1> HIDE DEF u, m
<1>5. \A k \in 1..Len(m) : k \in 1..Len(l) \/ k = Len(l) + 1
  BY <1>2
<1>6. \A k \in 1..Len(m) : Is(u, m[k])
  BY <1>2, <1>3, <1>4, <1>5
<1>7. ASSUME NEW a \in 1..Len(m), NEW b \in 1..Len(m), a < b PROVE m[a].id < m[b].id
  <2>1. a \in 1..Len(l) /\ m[a] = l[a]
    BY <1>2, <1>7
  <2>2. CASE b \in 1..Len(l)
    <3>1. l[a].id < l[b].id
      BY <2>1, <2>2, <1>7 DEF LiveAccount, InOrder
    <3> QED
      BY <2>1, <2>2, <3>1, <1>2
  <2>3. CASE b = Len(l) + 1
    <3>1. m[b] = turn /\ l[a].id <= Len(tr) + 1 /\ l[a].id \in Nat
      BY <2>1, <2>3, <1>2, <1>4
    <3> QED
      BY <2>1, <3>1, <1>1
  <2> QED
    BY <2>2, <2>3, <1>5
<1>8. ASSUME NEW i \in 0..(ProtectRecent - 1), i < Len(u)
      PROVE  i < Len(m) /\ m[Len(m) - i] = u[Len(u) - i]
  <2>1. CASE i = 0
    <3>1. m[Len(m) - i] = turn /\ u[Len(u) - i] = turn
      BY <2>1, <1>1, <1>2
    <3> QED
      BY <2>1, <3>1, <1>2
  <2>2. CASE i # 0
    <3>1. i - 1 \in 0..(ProtectRecent - 1) /\ i - 1 < Len(tr)
      BY <2>2, <1>1, <1>8, HybridAssumption
    <3>2. i - 1 < Len(l) /\ l[Len(l) - (i - 1)] = tr[Len(tr) - (i - 1)]
      BY <3>1 DEF LiveAccount
    <3>3. /\ Len(l) - (i - 1) = Len(m) - i /\ Len(tr) - (i - 1) = Len(u) - i
          /\ Len(l) - (i - 1) \in 1..Len(l) /\ Len(tr) - (i - 1) \in 1..Len(tr)
          /\ i < Len(m)
      BY <3>1, <3>2, <2>2, <1>1, <1>2, HybridAssumption
    <3>4. m[Len(m) - i] = l[Len(l) - (i - 1)] /\ u[Len(u) - i] = tr[Len(tr) - (i - 1)]
      BY <3>3, <1>1, <1>2
    <3> QED
      BY <3>2, <3>3, <3>4
  <2> QED
    BY <2>1, <2>2
<1> QED
  BY <1>6, <1>7, <1>8 DEF LiveAccount, InOrder, u, m

\* So does it that of the segments, which it leaves alone.
LEMMA AppendKeepsFrozen ==
    ASSUME NEW tr \in Seq(RawTurn), NEW f \in Seq(SegmentSet), FrozenAccount(tr, f),
           NEW turn \in RawTurn, turn.id = Len(tr) + 2
    PROVE  /\ FrozenAccount(Append(tr, turn), f)
           /\ \A i \in 1..Len(f) : \A a \in 1..Len(f[i].of) :
                 f[i].of[a].id \in Nat /\ f[i].of[a].id < turn.id
<1>1. ASSUME NEW i \in 1..Len(f), NEW a \in 1..Len(f[i].of)
      PROVE  /\ Is(Append(tr, turn), f[i].of[a]) /\ Route(f[i].of[a]) = "summarize"
             /\ f[i].of[a].id \in Nat /\ f[i].of[a].id < turn.id
  <2>1. f[i].of \in Seq(RawTurn)
    <3>1. f[i] \in SegmentSet
      BY ElementOfSeq
    <3> QED
      BY <3>1 DEF SegmentSet
  <2>2. f[i].of[a] \in RawTurn /\ Is(tr, f[i].of[a]) /\ Route(f[i].of[a]) = "summarize"
    BY <2>1, ElementOfSeq DEF FrozenAccount
  <2>3. Is(Append(tr, turn), f[i].of[a]) /\ f[i].of[a].id <= Len(tr) + 1
    BY <2>2, StillIs
  <2>4. f[i].of[a].id \in Nat /\ Len(tr) \in Nat
    BY <2>2, LenProperties DEF RawTurn
  <2> QED
    BY <2>2, <2>3, <2>4
<1> QED
  BY <1>1 DEF FrozenAccount

\* A new turn is accounted for in live.
LEMMA AppendKeepsAccount ==
    ASSUME NEW tr \in Seq(RawTurn), NEW f \in Seq(SegmentSet), NEW l \in Seq(RawTurn),
           Account(tr, f, l), NEW turn \in RawTurn, turn.id = Len(tr) + 2
    PROVE  Account(Append(tr, turn), f, Append(l, turn))
<1> DEFINE u == Append(tr, turn)
           m == Append(l, turn)
<1>1. /\ Len(tr) \in Nat /\ Len(u) = Len(tr) + 1 /\ u[Len(tr) + 1] = turn
      /\ \A i \in 1..Len(tr) : u[i] = tr[i]
  BY LenProperties, AppendProperties
<1>2. /\ Len(l) \in Nat /\ Len(m) = Len(l) + 1 /\ m[Len(l) + 1] = turn
      /\ \A i \in 1..Len(l) : m[i] = l[i]
  BY LenProperties, AppendProperties
<1>3. LiveAccount(u, m) /\ FrozenAccount(u, f)
  BY AppendKeepsLive, AppendKeepsFrozen DEF Account
<1>4. \A i \in 1..Len(f) : \A a \in 1..Len(f[i].of) : f[i].of[a].id < turn.id
  BY AppendKeepsFrozen DEF Account
<1> HIDE DEF u, m
<1>5. \A k \in 1..Len(m) : k \in 1..Len(l) \/ k = Len(l) + 1
  BY <1>2
<1>6. \A i \in 1..Len(u) : i \in 1..Len(tr) \/ i = Len(tr) + 1
  BY <1>1
<1>7. Numbered(u)
  <2> SUFFICES ASSUME NEW i \in 1..Len(u) PROVE u[i].id = i + 1
    BY DEF Numbered
  <2>1. CASE i \in 1..Len(tr)
    BY <2>1, <1>1 DEF Account, Numbered
  <2>2. CASE i = Len(tr) + 1
    BY <2>2, <1>1
  <2> QED
    BY <2>1, <2>2, <1>6
<1>8. SummariesBehind(f, m)
  <2> SUFFICES ASSUME NEW i \in 1..Len(f), NEW a \in 1..Len(f[i].of), NEW k \in 1..Len(m),
                      Route(m[k]) = "summarize"
               PROVE  f[i].of[a].id < m[k].id
    BY DEF SummariesBehind
  <2>1. CASE k \in 1..Len(l)
    BY <2>1, <1>2 DEF Account, SummariesBehind
  <2>2. CASE k = Len(l) + 1
    BY <2>2, <1>2, <1>4
  <2> QED
    BY <2>1, <2>2, <1>5
<1>9. NothingElseLost(u, f, m)
  <2> SUFFICES ASSUME NEW i \in 1..Len(u)
               PROVE  \/ Route(u[i]) = "evict"
                      \/ \E k \in 1..Len(m) : m[k] = u[i]
                      \/ \E j \in 1..Len(f) : \E a \in 1..Len(f[j].of) : f[j].of[a] = u[i]
    BY DEF NothingElseLost
  <2>1. CASE i \in 1..Len(tr)
    <3>1. u[i] = tr[i]
      BY <2>1, <1>1
    <3>2. \A k \in 1..Len(l) : k \in 1..Len(m) /\ m[k] = l[k]
      BY <1>2
    <3> QED
      BY <2>1, <3>1, <3>2 DEF Account, NothingElseLost
  <2>2. CASE i = Len(tr) + 1
    <3>1. Len(l) + 1 \in 1..Len(m) /\ m[Len(l) + 1] = u[i]
      BY <2>2, <1>1, <1>2
    <3> QED
      BY <3>1
  <2> QED
    BY <2>1, <2>2, <1>6
<1> QED
  BY <1>3, <1>7, <1>8, <1>9 DEF Account, u, m
-----------------------------------------------------------------------------
\* Thinning keeps the account of live: the protected turns are its last ones.
LEMMA ThinningKeepsLive ==
    ASSUME NEW tr \in Seq(RawTurn), NEW l \in Seq(RawTurn), LiveAccount(tr, l),
           NEW m, NEW h, Thinned(m, h, l)
    PROVE  LiveAccount(tr, m)
<1>1. /\ Len(m) \in Nat /\ h \in [1..Len(m) -> 1..Len(l)]
      /\ \A k \in 1..Len(m) : m[k] = l[h[k]]
      /\ \A a, b \in 1..Len(m) : a < b => h[a] < h[b]
      /\ Len(m) >= Len(l) - ProtectFrom(l)
      /\ \A i \in 0..((Len(l) - ProtectFrom(l)) - 1) : m[Len(m) - i] = l[Len(l) - i]
  BY DEF Thinned
<1>2. \A k \in 1..Len(m) : h[k] \in 1..Len(l)
  BY <1>1
<1>3. InOrder(m)
  BY <1>1, <1>2 DEF InOrder, LiveAccount
<1>4. \A k \in 1..Len(m) : Is(tr, m[k])
  BY <1>1, <1>2 DEF LiveAccount
<1>5. ASSUME NEW i \in 0..(ProtectRecent - 1), i < Len(tr)
      PROVE  i < Len(m) /\ m[Len(m) - i] = tr[Len(tr) - i]
  <2>1. i < Len(l) /\ l[Len(l) - i] = tr[Len(tr) - i]
    BY <1>5 DEF LiveAccount
  <2>2. Len(l) \in Nat /\ i < Len(l) - ProtectFrom(l)
    BY <2>1, HybridAssumption, LenProperties DEF ProtectFrom
  <2>3. ProtectFrom(l) \in 0..Len(l)
    BY SplitLive
  <2>4. i \in 0..((Len(l) - ProtectFrom(l)) - 1) /\ i < Len(m)
    BY <2>2, <2>3, <1>1, HybridAssumption
  <2> QED
    BY <2>1, <2>4, <1>1
<1> QED
  BY <1>3, <1>4, <1>5 DEF LiveAccount

\* What thinning removes is what was routed elsewhere.
LEMMA ThinningLoses ==
    ASSUME NEW l \in Seq(RawTurn), NEW m, NEW h, Thinned(m, h, l), NEW j \in 1..Len(l)
    PROVE  \/ Route(l[j]) = "evict"
           \/ \E k \in 1..Len(m) : m[k] = l[j]
           \/ j \in 1..ProtectFrom(l) /\ Route(l[j]) = "summarize"
<1>1. ProtectFrom(l) \in 0..Len(l) /\ Len(l) \in Nat
  BY SplitLive
<1>2. Route(l[j]) \in {"evict", "keep", "summarize"}
  BY RouteIs
<1>3. CASE j > ProtectFrom(l) \/ Route(l[j]) = "keep"
  <2>1. PICK k \in 1..Len(m) : h[k] = j
    BY <1>3 DEF Thinned
  <2>2. m[k] = l[j]
    BY <2>1 DEF Thinned
  <2> QED
    BY <2>2
<1>4. CASE ~(j > ProtectFrom(l)) /\ Route(l[j]) # "keep"
  BY <1>1, <1>2, <1>4
<1> QED
  BY <1>3, <1>4

\* A round that evicts and keeps but summarizes nothing.
LEMMA ThinningKeepsAccount ==
    ASSUME NEW tr \in Seq(RawTurn), NEW f \in Seq(SegmentSet), NEW l \in Seq(RawTurn),
           Account(tr, f, l), NEW m, NEW h, Thinned(m, h, l),
           \A j \in 1..ProtectFrom(l) : Route(l[j]) # "summarize"
    PROVE  Account(tr, f, m)
<1>1. LiveAccount(tr, m)
  BY ThinningKeepsLive DEF Account
<1>2. SummariesBehind(f, m)
  <2>1. \A k \in 1..Len(m) : h[k] \in 1..Len(l) /\ m[k] = l[h[k]]
    BY DEF Thinned
  <2> QED
    BY <2>1 DEF Account, SummariesBehind
<1>3. NothingElseLost(tr, f, m)
  <2> SUFFICES ASSUME NEW i \in 1..Len(tr), Route(tr[i]) # "evict",
                      NEW j \in 1..Len(l), l[j] = tr[i]
               PROVE  \E k \in 1..Len(m) : m[k] = tr[i]
    BY DEF Account, NothingElseLost
  <2> QED
    BY ThinningLoses
<1> QED
  BY <1>1, <1>2, <1>3 DEF Account

\* A round that freezes a segment of what it was told to summarize.
LEMMA SummaryKeepsAccount ==
    ASSUME NEW tr \in Seq(RawTurn), NEW f \in Seq(SegmentSet), NEW l \in Seq(RawTurn),
           Account(tr, f, l), NEW m, NEW h, Thinned(m, h, l),
           NEW t \in Seq(RawTurn), NEW e, RoutedFrom(t, e, l, ProtectFrom(l), "summarize"),
           NEW sg \in SegmentSet, sg.of = t
    PROVE  Account(tr, Append(f, sg), m)
<1> DEFINE g == Append(f, sg)
           c == ProtectFrom(l)
<1>1. LiveAccount(tr, m)
  BY ThinningKeepsLive DEF Account
<1>2. /\ Len(f) \in Nat /\ Len(g) = Len(f) + 1 /\ g[Len(f) + 1] = sg
      /\ \A i \in 1..Len(f) : g[i] = f[i]
  BY LenProperties, AppendProperties
<1>3. c \in 0..Len(l) /\ Len(l) \in Nat /\ Len(t) \in Nat
  BY SplitLive, LenProperties
<1> HIDE DEF g, c
<1>4. /\ e \in [1..Len(t) -> 1..c]
      /\ \A k \in 1..Len(t) : t[k] = l[e[k]] /\ Route(t[k]) = "summarize"
      /\ \A a, b \in 1..Len(t) : a < b => e[a] < e[b]
      /\ \A j \in 1..c : Route(l[j]) = "summarize" => \E k \in 1..Len(t) : e[k] = j
  BY DEF RoutedFrom, c
<1>5. \A k \in 1..Len(t) : e[k] \in 1..c /\ e[k] \in 1..Len(l)
  BY <1>3, <1>4
<1>6. \A i \in 1..Len(g) : (i \in 1..Len(f) /\ g[i] = f[i]) \/ (i = Len(f) + 1 /\ g[i].of = t)
  BY <1>2
<1>7. InOrder(t) /\ \A a \in 1..Len(t) : Is(tr, t[a]) /\ Route(t[a]) = "summarize"
  <2>1. ASSUME NEW a \in 1..Len(t), NEW b \in 1..Len(t), a < b PROVE t[a].id < t[b].id
    <3>1. e[a] < e[b] /\ e[a] \in 1..Len(l) /\ e[b] \in 1..Len(l)
      BY <1>4, <1>5, <2>1
    <3>2. l[e[a]].id < l[e[b]].id
      BY <3>1 DEF Account, LiveAccount, InOrder
    <3> QED
      BY <3>2, <1>4
  <2>2. ASSUME NEW a \in 1..Len(t) PROVE Is(tr, t[a])
    <3>1. Is(tr, l[e[a]]) /\ t[a] = l[e[a]]
      BY <1>4, <1>5 DEF Account, LiveAccount
    <3> QED
      BY <3>1
  <2> QED
    BY <2>1, <2>2, <1>4 DEF InOrder
<1>8. ASSUME NEW i \in 1..Len(f), NEW a \in 1..Len(f[i].of), NEW b \in 1..Len(t)
      PROVE  f[i].of[a].id < t[b].id
  <2>1. e[b] \in 1..Len(l) /\ t[b] = l[e[b]] /\ Route(t[b]) = "summarize"
    BY <1>4, <1>5
  <2>2. Route(l[e[b]]) = "summarize" => f[i].of[a].id < l[e[b]].id
    BY <2>1 DEF Account, SummariesBehind
  <2> QED
    BY <2>1, <2>2
<1>9. FrozenAccount(tr, g)
  <2>1. ASSUME NEW i \in 1..Len(g)
        PROVE  /\ InOrder(g[i].of)
               /\ \A a \in 1..Len(g[i].of) :
                     Is(tr, g[i].of[a]) /\ Route(g[i].of[a]) = "summarize"
    BY <1>6, <1>7 DEF Account, FrozenAccount
  <2>2. ASSUME NEW i \in 1..Len(g), NEW j \in 1..Len(g), i < j,
               NEW a \in 1..Len(g[i].of), NEW b \in 1..Len(g[j].of)
        PROVE  g[i].of[a].id < g[j].of[b].id
    <3>1. i \in 1..Len(f) /\ g[i] = f[i]
      BY <1>2, <2>2
    <3>2. CASE j \in 1..Len(f) /\ g[j] = f[j]
      <4>1. f[i].of[a].id < f[j].of[b].id
        BY <3>1, <3>2, <2>2 DEF Account, FrozenAccount
      <4> QED
        BY <4>1, <3>1, <3>2
    <3>3. CASE j = Len(f) + 1 /\ g[j].of = t
      BY <3>1, <3>3, <1>8
    <3> QED
      BY <3>2, <3>3, <1>6
  <2> QED
    BY <2>1, <2>2 DEF FrozenAccount
<1>10. SummariesBehind(g, m)
  <2> SUFFICES ASSUME NEW i \in 1..Len(g), NEW a \in 1..Len(g[i].of), NEW k \in 1..Len(m),
                      Route(m[k]) = "summarize"
               PROVE  g[i].of[a].id < m[k].id
    BY DEF SummariesBehind
  <2>1. /\ h[k] \in 1..Len(l) /\ m[k] = l[h[k]]
        /\ h[k] > c \/ Route(m[k]) = "keep"
    BY DEF Thinned, c
  <2>2. h[k] > c
    BY <2>1
  <2>3. CASE i \in 1..Len(f) /\ g[i] = f[i]
    BY <2>1, <2>3 DEF Account, SummariesBehind
  <2>4. CASE i = Len(f) + 1 /\ g[i].of = t
    <3>1. e[a] < h[k] /\ e[a] \in 1..Len(l) /\ g[i].of[a] = l[e[a]]
      <4>1. a \in 1..Len(t)
        BY <2>4
      <4>2. e[a] \in 1..c /\ e[a] \in 1..Len(l) /\ t[a] = l[e[a]]
        BY <4>1, <1>4, <1>5
      <4> QED
        BY <4>2, <2>1, <2>2, <2>4, <1>3, SMTT(30)
    <3>2. l[e[a]].id < l[h[k]].id
      BY <3>1, <2>1 DEF Account, LiveAccount, InOrder
    <3> QED
      BY <3>1, <3>2, <2>1
  <2> QED
    BY <2>3, <2>4, <1>6
<1>11. NothingElseLost(tr, g, m)
  <2> SUFFICES ASSUME NEW i \in 1..Len(tr), Route(tr[i]) # "evict"
               PROVE  \/ \E k \in 1..Len(m) : m[k] = tr[i]
                      \/ \E j \in 1..Len(g) : \E a \in 1..Len(g[j].of) : g[j].of[a] = tr[i]
    BY DEF NothingElseLost
  <2>1. CASE \E j \in 1..Len(f) : \E a \in 1..Len(f[j].of) : f[j].of[a] = tr[i]
    <3>1. PICK j \in 1..Len(f) : \E a \in 1..Len(f[j].of) : f[j].of[a] = tr[i]
      BY <2>1
    <3>2. j \in 1..Len(g) /\ g[j] = f[j]
      BY <3>1, <1>2
    <3> QED
      BY <3>1, <3>2
  <2>2. CASE \E j \in 1..Len(l) : l[j] = tr[i]
    <3>1. PICK j \in 1..Len(l) : l[j] = tr[i]
      BY <2>2
    <3>2. CASE \E k \in 1..Len(m) : m[k] = l[j]
      BY <3>1, <3>2
    <3>3. CASE j \in 1..c /\ Route(l[j]) = "summarize"
      <4>1. PICK k \in 1..Len(t) : e[k] = j
        BY <3>3, <1>4
      <4>2. Len(f) + 1 \in 1..Len(g) /\ g[Len(f) + 1].of = t /\ t[k] = tr[i]
        BY <4>1, <3>1, <1>2, <1>4
      <4> QED
        BY <4>1, <4>2
    <3> QED
      BY <3>1, <3>2, <3>3, ThinningLoses DEF c
  <2> QED
    BY <2>1, <2>2 DEF Account, NothingElseLost
<1> QED
  BY <1>1, <1>9, <1>10, <1>11 DEF Account, g
-----------------------------------------------------------------------------
\* Nothing is recorded before the first call.
StartsAtFirstCall ==
    anchor = None =>
        /\ trajectory = <<>> /\ frozen = <<>> /\ live = <<>> /\ context = <<>>
        /\ outcome = "running"

TInv == TypeOK /\ StartsAtFirstCall

\* _state is None can be told from a state with any anchor.
LEMMA AnchorIsNotNone ==
    /\ None \notin AnchorTurn
    /\ \A text \in AnchorTexts : Anchor(text, AnchorSize) \in AnchorTurn
<1> QED
  BY HybridAssumption DEF None, Anchor, AnchorTurn

\* A turn of the trajectory: typed, and numbered after those already seen.
LEMMA NewTurnType ==
    ASSUME TypeOK, NEW turn \in NewTurns
    PROVE  turn \in RawTurn /\ turn.id = Len(trajectory) + 2
<1>1. Len(trajectory) \in Nat
  BY LenProperties DEF TypeOK
<1> QED
  BY <1>1 DEF NewTurns, Raw, RawTurn

\* The flag is a Boolean, kept apart from the other fields' types.
LEMMA FiredType ==
    /\ Init => fired \in BOOLEAN
    /\ TypeOK /\ [Next]_vars => fired' \in BOOLEAN
<1>1. Init => fired \in BOOLEAN
  BY DEF Init
<1>2. ASSUME TypeOK, Next PROVE fired' \in BOOLEAN
  <2>1. fired' = fired \/ fired' = TRUE \/ fired' = FALSE
    BY <1>2, Zenon DEF Next, FirstCall, AnchorDrift, PlainStep, SummarizerFails,
                       EvictOnlyStep, CompactStep, Rewrite
  <2>2. fired \in BOOLEAN
    BY <1>2 DEF TypeOK
  <2> QED
    BY <2>1, <2>2, Zenon
<1>3. ASSUME TypeOK, UNCHANGED vars PROVE fired' \in BOOLEAN
  BY <1>3, Zenon DEF TypeOK, vars
<1> QED
  BY <1>1, <1>2, <1>3

\* Before the first call there is nothing.
LEMMA TInvInit == Init => TInv
<1> SUFFICES ASSUME Init PROVE TInv
  OBVIOUS
<1>1. fired \in BOOLEAN
  BY FiredType
<1>2. /\ trajectory = <<>> /\ context = <<>> /\ anchor = None /\ frozen = <<>>
      /\ live = <<>> /\ firstHash = None /\ outcome = "running"
  BY DEF Init
<1>3. Len(<<>>) = 0
  BY EmptySeq
<1> QED
  BY <1>1, <1>2, <1>3, HybridAssumption, EmptySeq DEF TInv, TypeOK, StartsAtFirstCall

\* A later call: one more turn in the trajectory and in the list the policy
\* works on.
LEMMA ReceiveTypes ==
    ASSUME TInv, NEW turn \in NewTurns, Receive(turn)
    PROVE  /\ turn \in RawTurn /\ turn.id = Len(trajectory) + 2
           /\ trajectory \in Seq(RawTurn) /\ live \in Seq(RawTurn)
           /\ frozen \in Seq(SegmentSet)
           /\ trajectory' = Append(trajectory, turn)
           /\ trajectory' \in Seq(RawTurn) /\ Len(trajectory') <= MaxTurns
           /\ Len(trajectory) \in Nat /\ Len(trajectory') = Len(trajectory) + 1
           /\ anchor # None /\ anchor' = anchor /\ anchor \in AnchorTurn
           /\ firstHash' = anchor' /\ outcome = "running"
           /\ Append(live, turn) \in Seq(RawTurn)
<1>1. /\ trajectory \in Seq(RawTurn) /\ live \in Seq(RawTurn) /\ frozen \in Seq(SegmentSet)
      /\ anchor \in AnchorTurn \cup {None} /\ firstHash = anchor
      /\ turn \in RawTurn /\ turn.id = Len(trajectory) + 2
  BY NewTurnType DEF TInv, TypeOK
<1>2. /\ trajectory' = Append(trajectory, turn) /\ Len(trajectory) + 1 < MaxTurns
      /\ anchor # None /\ anchor' = anchor /\ firstHash' = firstHash /\ outcome = "running"
  BY DEF Receive
<1>3. /\ Len(trajectory) \in Nat /\ Append(trajectory, turn) \in Seq(RawTurn)
      /\ Len(Append(trajectory, turn)) = Len(trajectory) + 1
      /\ Append(live, turn) \in Seq(RawTurn)
  BY <1>1, AppendProperties, LenProperties
<1> QED
  BY <1>1, <1>2, <1>3, HybridAssumption

\* What a round makes of live and of the segments.
Round(l, f) ==
    /\ live' \in Seq(RawTurn)
    /\ \E h : Thinned(live', h, l)
    /\ \/ /\ frozen' = f
          /\ \A j \in 1..ProtectFrom(l) : Route(l[j]) # "summarize"
       \/ \E sg \in SegmentSet : \E e :
             /\ frozen' = Append(f, sg)
             /\ RoutedFrom(sg.of, e, l, ProtectFrom(l), "summarize")

\* EvictOnlyStep is a round (hybrid.py:108-132, to_summarize empty).
LEMMA EvictOnlyIsRound ==
    ASSUME TInv, NEW turn \in NewTurns, EvictOnlyStep(turn)
    PROVE  Round(Append(live, turn), frozen)
<1> DEFINE l == Append(live, turn)
           t == Routed(Candidates(l), "summarize")
<1>1. /\ t = <<>> /\ frozen' = frozen /\ Receive(turn)
      /\ live' = Rejoin(Routed(Candidates(l), "keep"), Protected(l))
  BY DEF EvictOnlyStep, Rewrite
<1>2. l \in Seq(RawTurn)
  BY <1>1, ReceiveTypes
<1> HIDE DEF l
<1>3. live' \in Seq(RawTurn) /\ \E h : Thinned(live', h, l)
  BY <1>1, <1>2, RejoinIs
<1>4. PICK e : RoutedFrom(t, e, l, ProtectFrom(l), "summarize")
  BY <1>2, RoutedIs
<1>5. \A j \in 1..ProtectFrom(l) : Route(l[j]) # "summarize"
  <2>1. Len(t) = 0
    BY <1>1, EmptySeq
  <2>2. \A j \in 1..ProtectFrom(l) : Route(l[j]) = "summarize" => \E k \in 1..Len(t) : e[k] = j
    BY <1>4 DEF RoutedFrom
  <2> QED
    BY <2>1, <2>2
<1>6. Round(l, frozen)
  BY <1>1, <1>3, <1>5, Zenon DEF Round
<1> QED
  BY <1>6 DEF l

\* CompactStep is a round that freezes a segment (hybrid.py:108-132).
LEMMA CompactIsRound ==
    ASSUME TInv, NEW turn \in NewTurns, NEW size \in SummarySizes, CompactStep(turn, size)
    PROVE  Round(Append(live, turn), frozen)
<1> DEFINE l == Append(live, turn)
           t == Routed(Candidates(l), "summarize")
           sg == Segment(Len(trajectory) + 1, t, size)
<1>1. /\ frozen' = Append(frozen, sg) /\ Receive(turn)
      /\ live' = Rejoin(Routed(Candidates(l), "keep"), Protected(l))
  BY DEF CompactStep, Rewrite, Freeze
<1>2. l \in Seq(RawTurn) /\ Len(trajectory) \in Nat
  BY <1>1, ReceiveTypes
<1> HIDE DEF l
<1>3. live' \in Seq(RawTurn) /\ \E h : Thinned(live', h, l)
  BY <1>1, <1>2, RejoinIs
<1>4. t \in Seq(RawTurn) /\ \E e : RoutedFrom(t, e, l, ProtectFrom(l), "summarize")
  BY <1>2, RoutedIs
<1>5. PICK e : RoutedFrom(t, e, l, ProtectFrom(l), "summarize")
  BY <1>4
<1> HIDE DEF t
<1>6. sg \in SegmentSet /\ sg.of = t
  <2>1. Len(t) \in Nat
    BY <1>4, LenProperties
  <2> QED
    BY <2>1, <1>2, <1>4 DEF Segment, SegmentSet
<1> HIDE DEF sg
<1>7. Round(l, frozen)
  BY <1>1, <1>3, <1>5, <1>6, Zenon DEF Round
<1> QED
  BY <1>7 DEF l

\* What each path does to the lists: it leaves them, appends, or thins.
Appends(turn) == live' = Append(live, turn) /\ frozen' = frozen

\* The paths of a later call.
LEMMA LaterCalls ==
    ASSUME TInv, NEW turn \in NewTurns,
           \/ \E text \in AnchorTexts : AnchorDrift(turn, text)
           \/ PlainStep(turn)
           \/ SummarizerFails(turn)
           \/ EvictOnlyStep(turn)
           \/ \E size \in SummarySizes : CompactStep(turn, size)
    PROVE  /\ Receive(turn)
           /\ (Appends(turn) \/ Round(Append(live, turn), frozen))
           /\ outcome' \in {"running", "anchor_drift", "summarizer_failed"}
<1>1. CASE \/ \E text \in AnchorTexts : AnchorDrift(turn, text)
           \/ PlainStep(turn)
           \/ SummarizerFails(turn)
  BY <1>1 DEF AnchorDrift, PlainStep, SummarizerFails, Appends, Receive
<1>2. CASE EvictOnlyStep(turn)
  BY <1>2, EvictOnlyIsRound DEF EvictOnlyStep, Rewrite, Receive
<1>3. CASE \E size \in SummarySizes : CompactStep(turn, size)
  <2>1. PICK size \in SummarySizes : CompactStep(turn, size)
    BY <1>3
  <2>2. Receive(turn) /\ outcome' = outcome /\ outcome = "running"
    BY <2>1 DEF CompactStep, Rewrite, Receive
  <2> QED
    BY <2>1, <2>2, CompactIsRound
<1> QED
  BY <1>1, <1>2, <1>3

\* A round keeps the types of the segments.
LEMMA RoundTypes ==
    ASSUME NEW f \in Seq(SegmentSet), NEW l, Round(l, f)
    PROVE  live' \in Seq(RawTurn) /\ frozen' \in Seq(SegmentSet)
<1> QED
  BY AppendProperties DEF Round

\* Every path of maybe_compact keeps the types.
LEMMA TInvNext == TInv /\ [Next]_vars => TInv'
<1> SUFFICES ASSUME TInv, [Next]_vars PROVE TInv'
  OBVIOUS
<1>0. fired' \in BOOLEAN
  BY FiredType DEF TInv
<1>1. ASSUME NEW text \in AnchorTexts, FirstCall(text) PROVE TInv'
  BY <1>0, <1>1, AnchorIsNotNone, HybridAssumption
     DEF FirstCall, TInv, TypeOK, StartsAtFirstCall
<1>2. ASSUME NEW turn \in NewTurns,
             \/ \E text \in AnchorTexts : AnchorDrift(turn, text)
             \/ PlainStep(turn)
             \/ SummarizerFails(turn)
             \/ EvictOnlyStep(turn)
             \/ \E size \in SummarySizes : CompactStep(turn, size)
      PROVE  TInv'
  <2>1. /\ Receive(turn) /\ (Appends(turn) \/ Round(Append(live, turn), frozen))
        /\ outcome' \in {"running", "anchor_drift", "summarizer_failed"}
    BY <1>2, LaterCalls
  <2>2. /\ trajectory' \in Seq(RawTurn) /\ Len(trajectory') <= MaxTurns
        /\ anchor # None /\ anchor' = anchor /\ anchor \in AnchorTurn
        /\ firstHash' = anchor' /\ frozen \in Seq(SegmentSet)
        /\ Append(live, turn) \in Seq(RawTurn)
    BY <2>1, ReceiveTypes
  <2>3. live' \in Seq(RawTurn) /\ frozen' \in Seq(SegmentSet)
    BY <2>1, <2>2, RoundTypes DEF Appends
  <2> QED
    BY <1>0, <2>1, <2>2, <2>3 DEF TInv, TypeOK, StartsAtFirstCall
<1>3. CASE UNCHANGED vars
  BY <1>0, <1>3 DEF vars, TInv, TypeOK, StartsAtFirstCall
<1> QED
  BY <1>1, <1>2, <1>3 DEF Next

\* Type correctness: the fields keep their types in every reachable state,
\* a compaction round and an interrupted call included.
THEOREM TypeCorrect == Spec => []TypeOK
<1>1. TInv => TypeOK
  BY DEF TInv
<1> QED
  BY TInvInit, TInvNext, <1>1, PTL DEF Spec
-----------------------------------------------------------------------------
Accounted == Account(trajectory, frozen, live)

\* Three empty lists are accounted for.
LEMMA AccountInit == Init => Accounted
<1> SUFFICES ASSUME Init PROVE Accounted
  OBVIOUS
<1>1. trajectory = <<>> /\ frozen = <<>> /\ live = <<>> /\ Len(<<>>) = 0
  BY EmptySeq DEF Init
<1> QED
  BY <1>1, HybridAssumption DEF Accounted, Account, Numbered, LiveAccount, FrozenAccount,
     SummariesBehind, NothingElseLost, InOrder

\* Every path of maybe_compact keeps the account.
LEMMA AccountNext == TInv /\ Accounted /\ [Next]_vars => Accounted'
<1> SUFFICES ASSUME TInv, Accounted, [Next]_vars PROVE Accounted'
  OBVIOUS
<1>1. CASE UNCHANGED <<trajectory, frozen, live>>
  BY <1>1 DEF Accounted
<1>2. ASSUME NEW turn \in NewTurns,
             \/ \E text \in AnchorTexts : AnchorDrift(turn, text)
             \/ PlainStep(turn)
             \/ SummarizerFails(turn)
             \/ EvictOnlyStep(turn)
             \/ \E size \in SummarySizes : CompactStep(turn, size)
      PROVE  Accounted'
  <2> DEFINE l == Append(live, turn)
             u == Append(trajectory, turn)
  <2>1. Receive(turn) /\ (Appends(turn) \/ Round(l, frozen))
    BY <1>2, LaterCalls
  <2>2. /\ trajectory \in Seq(RawTurn) /\ live \in Seq(RawTurn) /\ frozen \in Seq(SegmentSet)
        /\ turn \in RawTurn /\ turn.id = Len(trajectory) + 2 /\ l \in Seq(RawTurn)
        /\ trajectory' = u /\ u \in Seq(RawTurn)
    BY <2>1, ReceiveTypes
  <2>3. Account(u, frozen, l)
    BY <2>2, AppendKeepsAccount DEF Accounted
  <2>4. CASE Appends(turn)
    BY <2>2, <2>3, <2>4 DEF Accounted, Appends
  <2> HIDE DEF l, u
  <2>5. CASE Round(l, frozen)
    <3>1. PICK h : Thinned(live', h, l)
      BY <2>5 DEF Round
    <3>2. CASE /\ frozen' = frozen
               /\ \A j \in 1..ProtectFrom(l) : Route(l[j]) # "summarize"
      <4>1. Account(u, frozen, live')
        BY <2>2, <2>3, <3>1, <3>2, ThinningKeepsAccount
      <4> QED
        BY <4>1, <2>2, <3>2 DEF Accounted
    <3>3. CASE \E sg \in SegmentSet : \E e :
                  /\ frozen' = Append(frozen, sg)
                  /\ RoutedFrom(sg.of, e, l, ProtectFrom(l), "summarize")
      <4>1. PICK sg \in SegmentSet :
                  /\ frozen' = Append(frozen, sg)
                  /\ \E e : RoutedFrom(sg.of, e, l, ProtectFrom(l), "summarize")
        BY <3>3
      <4>2. PICK e : RoutedFrom(sg.of, e, l, ProtectFrom(l), "summarize")
        BY <4>1
      <4>3. sg.of \in Seq(RawTurn)
        BY DEF SegmentSet
      <4>4. Account(u, Append(frozen, sg), live')
        BY <2>2, <2>3, <3>1, <4>2, <4>3, SummaryKeepsAccount
      <4> QED
        BY <4>1, <4>4, <2>2 DEF Accounted
    <3> QED
      BY <2>5, <3>2, <3>3 DEF Round
  <2> QED
    BY <2>1, <2>4, <2>5
<1>3. CASE UNCHANGED vars
  BY <1>1, <1>3 DEF vars
<1> QED
  BY <1>1, <1>2, <1>3 DEF Next, FirstCall

\* The account holds in every reachable state.
LEMMA Accounting == Spec => [](TInv /\ Accounted)
<1> QED
  BY TInvInit, TInvNext, AccountInit, AccountNext, PTL DEF Spec
-----------------------------------------------------------------------------
\* One list is a prefix of another when it is no longer and every position
\* agrees.
LEMMA PrefixIs ==
    ASSUME NEW S, NEW s \in Seq(S), NEW T, NEW t \in Seq(T)
    PROVE  IsPrefix(s, t) <=> Len(s) <= Len(t) /\ \A i \in 1..Len(s) : s[i] = t[i]
<1>1. Len(s) \in Nat /\ Len(t) \in Nat
  BY LenProperties
<1>2. /\ SubSeq(s, 1, Len(s)) \in Seq(S) /\ Len(SubSeq(s, 1, Len(s))) = Len(s)
      /\ \A i \in 1..Len(s) : SubSeq(s, 1, Len(s))[i] = s[i]
  <2>1. \A i \in 1..Len(s) : s[i] \in S
    BY ElementOfSeq
  <2> QED
    BY <1>1, <2>1, SubSeqProperties
<1>3. ASSUME Len(s) <= Len(t)
      PROVE  /\ SubSeq(t, 1, Len(s)) \in Seq(T) /\ Len(SubSeq(t, 1, Len(s))) = Len(s)
             /\ \A i \in 1..Len(s) : SubSeq(t, 1, Len(s))[i] = t[i]
  <2>1. \A i \in 1..Len(s) : t[i] \in T
    BY <1>1, <1>3, ElementOfSeq
  <2> QED
    BY <1>1, <1>3, <2>1, SubSeqProperties
<1>4. ASSUME Len(s) <= Len(t), \A i \in 1..Len(s) : s[i] = t[i]
      PROVE  SubSeq(s, 1, Len(s)) = SubSeq(t, 1, Len(s))
  <2>1. \A i \in 1..Len(s) : SubSeq(s, 1, Len(s))[i] = SubSeq(t, 1, Len(s))[i]
    BY <1>2, <1>3, <1>4
  <2> DEFINE x == SubSeq(s, 1, Len(s))
             y == SubSeq(t, 1, Len(s))
  <2>2. /\ x \in Seq(S \cup T) /\ y \in Seq(S \cup T) /\ Len(x) = Len(y)
        /\ \A i \in 1..Len(x) : x[i] = y[i]
    BY <1>2, <1>3, <1>4, <2>1, SeqMonotonic
  <2> HIDE DEF x, y
  <2>3. x = y
    BY <2>2, SeqEqual
  <2> QED
    BY <2>3 DEF x, y
<1>5. ASSUME Len(s) <= Len(t), SubSeq(s, 1, Len(s)) = SubSeq(t, 1, Len(s)),
             NEW i \in 1..Len(s)
      PROVE  s[i] = t[i]
  BY <1>2, <1>3, <1>5
<1> QED
  BY <1>4, <1>5 DEF IsPrefix
-----------------------------------------------------------------------------
\* The elements of segments are typed.
LEMMA SegmentsHoldTurns ==
    ASSUME TInv, NEW i \in 1..Len(frozen)
    PROVE  /\ frozen[i].of \in Seq(RawTurn)
           /\ \A a \in 1..Len(frozen[i].of) : frozen[i].of[a] \in RawTurn
<1>1. frozen[i] \in SegmentSet
  BY ElementOfSeq DEF TInv, TypeOK
<1>2. frozen[i].of \in Seq(RawTurn)
  BY <1>1 DEF SegmentSet
<1> QED
  BY <1>2, ElementOfSeq

\* What a list holds, by its positions.
LEMMA ListHolds ==
    ASSUME NEW S, NEW s \in Seq(S), NEW x
    PROVE  x \in ToSet(s) <=> \E i \in 1..Len(s) : x = s[i]
<1> QED
  BY DEF ToSet

\* No turn is held twice, and only large tool outputs are gone, after any
\* number of rounds and interrupted calls (hybrid.py:23-31).
THEOREM NothingElseVanishes == Spec => []OnlyLargeToolTurnsVanish
<1>1. TInv /\ Accounted => OnlyLargeToolTurnsVanish
  <2> SUFFICES ASSUME TInv, Accounted PROVE OnlyLargeToolTurnsVanish
    OBVIOUS
  <2>1. trajectory \in Seq(RawTurn) /\ live \in Seq(RawTurn)
    BY DEF TInv, TypeOK
  <2>2. \A x : x \in Summarized <=>
                  \E i \in 1..Len(frozen) : \E a \in 1..Len(frozen[i].of) : x = frozen[i].of[a]
    <3> TAKE x
    <3>1. x \in Summarized <=> \E i \in 1..Len(frozen) : x \in ToSet(frozen[i].of)
      BY Zenon DEF Summarized
    <3>2. \A i \in 1..Len(frozen) :
             x \in ToSet(frozen[i].of) <=> \E a \in 1..Len(frozen[i].of) : x = frozen[i].of[a]
      BY SegmentsHoldTurns, ListHolds
    <3> QED
      BY <3>1, <3>2, Zenon
  <2>3. ASSUME NEW x \in ToSet(live), x \in Summarized PROVE FALSE
    <3>1. PICK k \in 1..Len(live) : x = live[k]
      BY <2>1, ListHolds
    <3>2. PICK i \in 1..Len(frozen) : \E a \in 1..Len(frozen[i].of) : x = frozen[i].of[a]
      BY <2>2, <2>3
    <3>3. PICK a \in 1..Len(frozen[i].of) : x = frozen[i].of[a]
      BY <3>2
    <3>4. Route(frozen[i].of[a]) = "summarize"
      BY DEF Accounted, Account, FrozenAccount
    <3>5. frozen[i].of[a].id < live[k].id
      BY <3>1, <3>3, <3>4 DEF Accounted, Account, SummariesBehind
    <3>6. x.id < x.id /\ x.id \in Nat
      <4>1. frozen[i].of[a] \in RawTurn
        BY SegmentsHoldTurns
      <4> QED
        BY <4>1, <3>1, <3>3, <3>5 DEF RawTurn
    <3> QED
      BY <3>6
  <2>4. ASSUME NEW x \in ToSet(trajectory) \ (ToSet(live) \cup Summarized)
        PROVE  Route(x) = "evict"
    <3>1. PICK i \in 1..Len(trajectory) : x = trajectory[i]
      BY <2>1, ListHolds
    <3>2. ~ \E k \in 1..Len(live) : live[k] = x
      BY <2>1, <2>4, ListHolds
    <3>3. ~ \E j \in 1..Len(frozen) : \E a \in 1..Len(frozen[j].of) : frozen[j].of[a] = x
      BY <2>2, <2>4
    <3>4. \/ Route(trajectory[i]) = "evict"
          \/ \E k \in 1..Len(live) : live[k] = trajectory[i]
          \/ \E j \in 1..Len(frozen) : \E a \in 1..Len(frozen[j].of) :
                frozen[j].of[a] = trajectory[i]
      BY DEF Accounted, Account, NothingElseLost
    <3> QED
      BY <3>1, <3>2, <3>3, <3>4
  <2>5. ToSet(live) \cap Summarized = {}
    BY <2>3
  <2> QED
    BY <2>4, <2>5, Zenon DEF OnlyLargeToolTurnsVanish
<1> QED
  BY <1>1, Accounting, PTL

\* Summaries and live read in trajectory order (hybrid.py:108-131).
THEOREM SummariesReadInOrder == Spec => []SummariesInOrder
<1>1. TInv /\ Accounted => SummariesInOrder
  <2> SUFFICES ASSUME TInv, Accounted PROVE SummariesInOrder
    OBVIOUS
  <2>1. ASSUME NEW i \in 1..Len(frozen), NEW j \in 1..Len(frozen), i < j,
               NEW x \in ToSet(frozen[i].of), NEW y \in ToSet(frozen[j].of)
        PROVE  x.id < y.id
    <3>1. PICK a \in 1..Len(frozen[i].of) : x = frozen[i].of[a]
      BY SegmentsHoldTurns, ListHolds
    <3>2. PICK b \in 1..Len(frozen[j].of) : y = frozen[j].of[b]
      BY SegmentsHoldTurns, ListHolds
    <3> QED
      BY <2>1, <3>1, <3>2 DEF Accounted, Account, FrozenAccount
  <2>2. /\ \A i \in 1..Len(frozen) : InOrder(frozen[i].of)
        /\ InOrder(live)
    BY DEF Accounted, Account, FrozenAccount, LiveAccount
  <2> QED
    BY <2>1, <2>2 DEF SummariesInOrder, InOrder
<1> QED
  BY <1>1, Accounting, PTL

\* One list ends as another does when it is no longer and every position
\* counted from the end agrees.
LEMMA EndsAlike ==
    ASSUME NEW S, NEW s \in Seq(S), NEW t \in Seq(S), Len(s) <= Len(t),
           \A i \in 0..(Len(s) - 1) : s[Len(s) - i] = t[Len(t) - i]
    PROVE  IsSuffix(s, t)
<1>1. Len(s) \in Nat /\ Len(t) \in Nat
  BY LenProperties
<1>2. /\ Reverse(s) \in Seq(S) /\ Len(Reverse(s)) = Len(s)
      /\ \A i \in 1..Len(s) : Reverse(s)[i] = s[(Len(s) - i) + 1]
  <2>1. \A i \in 1..Len(s) : s[(Len(s) - i) + 1] \in S
    <3> TAKE i \in 1..Len(s)
    <3>1. (Len(s) - i) + 1 \in 1..Len(s)
      BY <1>1
    <3> QED
      BY <3>1, ElementOfSeq
  <2> QED
    BY <1>1, <2>1 DEF Reverse
<1>3. /\ Reverse(t) \in Seq(S) /\ Len(Reverse(t)) = Len(t)
      /\ \A i \in 1..Len(t) : Reverse(t)[i] = t[(Len(t) - i) + 1]
  <2>1. \A i \in 1..Len(t) : t[(Len(t) - i) + 1] \in S
    <3> TAKE i \in 1..Len(t)
    <3>1. (Len(t) - i) + 1 \in 1..Len(t)
      BY <1>1
    <3> QED
      BY <3>1, ElementOfSeq
  <2> QED
    BY <1>1, <2>1 DEF Reverse
<1>4. ASSUME NEW i \in 1..Len(s) PROVE Reverse(s)[i] = Reverse(t)[i]
  <2>1. /\ i - 1 \in 0..(Len(s) - 1) /\ i \in 1..Len(t)
        /\ Len(s) - (i - 1) = (Len(s) - i) + 1 /\ Len(t) - (i - 1) = (Len(t) - i) + 1
    BY <1>1
  <2>2. s[Len(s) - (i - 1)] = t[Len(t) - (i - 1)]
    BY <2>1
  <2> QED
    BY <2>1, <2>2, <1>2, <1>3
<1>5. IsPrefix(Reverse(s), Reverse(t))
  BY <1>2, <1>3, <1>4, PrefixIs
<1> QED
  BY <1>5 DEF IsSuffix

\* The newest turns of the trajectory are those of live (hybrid.py:103-104).
THEOREM RecentTurnsStay == Spec => []RecentTurnsProtected
<1>1. TInv /\ Accounted => RecentTurnsProtected
  <2> SUFFICES ASSUME TInv, Accounted PROVE RecentTurnsProtected
    OBVIOUS
  <2> DEFINE n == IF Len(trajectory) < ProtectRecent THEN Len(trajectory) ELSE ProtectRecent
             s == SubSeq(trajectory, (Len(trajectory) - n) + 1, Len(trajectory))
  <2>1. /\ trajectory \in Seq(RawTurn) /\ live \in Seq(RawTurn)
        /\ Len(trajectory) \in Nat /\ Len(live) \in Nat
    BY LenProperties DEF TInv, TypeOK
  <2>2. n \in 0..Len(trajectory) /\ n <= ProtectRecent /\ ProtectRecent \in Nat
    BY <2>1, HybridAssumption
  <2>3. RecentTurnsProtected = IsSuffix(s, live)
    BY DEF RecentTurnsProtected
  <2> HIDE DEF n
  <2>4. ASSUME NEW i \in 0..(n - 1)
        PROVE  i < Len(live) /\ live[Len(live) - i] = trajectory[Len(trajectory) - i]
    <3>1. i \in 0..(ProtectRecent - 1) /\ i < Len(trajectory)
      BY <2>1, <2>2
    <3> QED
      BY <3>1 DEF Accounted, Account, LiveAccount
  <2>5. /\ s \in Seq(RawTurn) /\ Len(s) = n
        /\ \A k \in 1..n : s[k] = trajectory[(Len(trajectory) - n) + k]
    <3>1. \A i \in ((Len(trajectory) - n) + 1)..Len(trajectory) : trajectory[i] \in RawTurn
      BY <2>1, <2>2, ElementOfSeq
    <3>2. (Len(trajectory) - n) + 1 \in Int /\ Len(trajectory) \in Int
      BY <2>1, <2>2
    <3> QED
      BY <2>1, <2>2, <3>1, <3>2, SubSeqProperties
  <2> HIDE DEF s
  <2>6. Len(s) <= Len(live)
    <3>1. CASE n = 0
      BY <3>1, <2>1, <2>5
    <3>2. CASE n # 0
      <4>1. n - 1 \in 0..(n - 1) /\ n \in Nat
        BY <3>2, <2>2
      <4>2. n - 1 < Len(live)
        BY <4>1, <2>4
      <4> QED
        BY <4>1, <4>2, <2>1, <2>5
    <3> QED
      BY <3>1, <3>2
  <2>7. ASSUME NEW i \in 0..(Len(s) - 1) PROVE s[Len(s) - i] = live[Len(live) - i]
    <3>1. /\ i \in 0..(n - 1) /\ n - i \in 1..n
          /\ (Len(trajectory) - n) + (n - i) = Len(trajectory) - i
      BY <2>1, <2>2, <2>5
    <3>2. s[n - i] = trajectory[(Len(trajectory) - n) + (n - i)]
      BY <3>1, <2>5
    <3> QED
      BY <3>1, <3>2, <2>4, <2>5
  <2>8. IsSuffix(s, live)
    BY <2>1, <2>5, <2>6, <2>7, EndsAlike
  <2> QED
    BY <2>3, <2>8
<1> QED
  BY <1>1, Accounting, PTL
-----------------------------------------------------------------------------
\* While the replay runs, the caller's context is what the state renders to.
HarnessContract ==
    outcome = "running" /\ anchor # None => context = ToTurns(anchor, frozen, live)

\* Every path of maybe_compact returns what its state renders to, or raises.
LEMMA ContractNext == HarnessContract /\ [Next]_vars => HarnessContract'
<1> SUFFICES ASSUME HarnessContract, [Next]_vars PROVE HarnessContract'
  OBVIOUS
<1>1. ASSUME NEW text \in AnchorTexts, FirstCall(text) PROVE HarnessContract'
  BY <1>1 DEF FirstCall, HarnessContract
<1>2. ASSUME NEW turn \in NewTurns,
             \/ \E text \in AnchorTexts : AnchorDrift(turn, text)
             \/ SummarizerFails(turn)
      PROVE  HarnessContract'
  BY <1>2 DEF AnchorDrift, SummarizerFails, HarnessContract
<1>3. ASSUME NEW turn \in NewTurns, PlainStep(turn) PROVE HarnessContract'
  BY <1>3 DEF PlainStep, Receive, HarnessContract
<1>4. ASSUME NEW turn \in NewTurns, Rewrite(turn) PROVE HarnessContract'
  BY <1>4 DEF Rewrite, Receive, HarnessContract
<1>5. CASE UNCHANGED vars
  BY <1>5 DEF vars, HarnessContract
<1> QED
  BY <1>1, <1>2, <1>3, <1>4, <1>5 DEF Next, EvictOnlyStep, CompactStep

\* The contract holds in every reachable state.
LEMMA Contract == Spec => []HarnessContract
<1>1. Init => HarnessContract
  BY DEF Init, HarnessContract
<1> QED
  BY <1>1, ContractNext, PTL DEF Spec

\* What a rendering of the policy's state is.
LEMMA ContextRenders ==
    ASSUME NEW a \in AnchorTurn, NEW f \in Seq(SegmentSet), NEW l \in Seq(RawTurn)
    PROVE  /\ Rendering(ToTurns(a, f, l), a, f, l)
           /\ \E U : ToTurns(a, f, l) \in Seq(U)
           /\ a.kind = "anchor" /\ Len(f) \in Nat /\ Len(l) \in Nat
<1>1. Rendering(ToTurns(a, f, l), a, f, l)
  BY ToTurnsIs
<1>2. \E U : ToTurns(a, f, l) \in Seq(U)
  BY ToTurnsIsSeq
<1> QED
  BY <1>1, <1>2, LenProperties DEF AnchorTurn

\* What is sent renders the state before and after a step that returns.
LEMMA BothRender ==
    ASSUME TInv, TInv', HarnessContract, HarnessContract',
           outcome = "running", outcome' = "running", anchor # None, anchor' = anchor
    PROVE  /\ Rendering(context, anchor, frozen, live)
           /\ Rendering(context', anchor, frozen', live')
           /\ \E U : context \in Seq(U)
           /\ \E U : context' \in Seq(U)
           /\ anchor.kind = "anchor" /\ Len(frozen) \in Nat /\ Len(live) \in Nat
           /\ Len(frozen') \in Nat /\ Len(live') \in Nat
<1>1. /\ frozen \in Seq(SegmentSet) /\ live \in Seq(RawTurn) /\ anchor \in AnchorTurn
      /\ frozen' \in Seq(SegmentSet) /\ live' \in Seq(RawTurn)
  BY DEF TInv, TypeOK
<1>2. context = ToTurns(anchor, frozen, live) /\ context' = ToTurns(anchor, frozen', live')
  BY DEF HarnessContract
<1>3. /\ Rendering(context, anchor, frozen, live)
      /\ \E U : context \in Seq(U)
      /\ anchor.kind = "anchor" /\ Len(frozen) \in Nat /\ Len(live) \in Nat
  BY <1>1, <1>2, ContextRenders
<1>4. /\ Rendering(context', anchor, frozen', live')
      /\ \E U : context' \in Seq(U)
      /\ Len(frozen') \in Nat /\ Len(live') \in Nat
  BY <1>1, <1>2, ContextRenders
<1> QED
  BY <1>3, <1>4

\* Keeping fewer than all of the candidates shortens the list.
LEMMA RejoinShorter ==
    ASSUME NEW l \in Seq(RawTurn), Routed(Candidates(l), "keep") # Candidates(l)
    PROVE  Len(Rejoin(Routed(Candidates(l), "keep"), Protected(l))) < Len(l)
<1> DEFINE kept == Routed(Candidates(l), "keep")
<1>1. /\ Len(l) \in Nat /\ ProtectFrom(l) \in 0..Len(l)
      /\ Candidates(l) \in Seq(RawTurn) /\ Len(Candidates(l)) = ProtectFrom(l)
      /\ Protected(l) \in Seq(RawTurn) /\ Len(Protected(l)) = Len(l) - ProtectFrom(l)
  BY SplitLive
<1>2. kept \in Seq(RawTurn)
  BY RoutedIs
<1>3. Len(kept) < ProtectFrom(l)
  BY <1>1, FilterDropsOne DEF Routed
<1> HIDE DEF kept
<1>4. Len(kept) \in Nat /\ Len(kept \o Protected(l)) = Len(kept) + Len(Protected(l))
  BY <1>1, <1>2, ConcatProperties, LenProperties
<1> QED
  BY <1>1, <1>3, <1>4 DEF Rejoin, kept

\* A step that does not fire extends what was sent.
LEMMA PlainStepExtends ==
    ASSUME TInv, TInv', HarnessContract, HarnessContract',
           NEW turn \in NewTurns, PlainStep(turn)
    PROVE  IsPrefix(context, context')
<1>1. /\ Receive(turn) /\ outcome = "running" /\ outcome' = "running"
      /\ anchor # None /\ anchor' = anchor
      /\ context = ToTurns(anchor, frozen, live)
      /\ context' = ToTurns(anchor, frozen, Append(live, turn))
  BY DEF PlainStep, Receive, HarnessContract
<1>2. turn \in RawTurn /\ frozen \in Seq(SegmentSet) /\ live \in Seq(RawTurn)
  BY <1>1, ReceiveTypes
<1>3. DivergesAt(context, context', Len(context))
  BY <1>1, <1>2, AppendedIsKept
<1>4. PICK U : context \in Seq(U)
  BY <1>1, BothRender
<1>5. PICK V : context' \in Seq(V)
  BY <1>1, BothRender
<1> QED
  BY <1>3, <1>4, <1>5, PrefixIs DEF DivergesAt

\* A segment stands where a raw turn stood.
LEMMA CompactStepDiverges ==
    ASSUME TInv, TInv', HarnessContract, HarnessContract',
           NEW turn \in NewTurns, NEW size \in SummarySizes, CompactStep(turn, size)
    PROVE  ~IsPrefix(context, context')
<1> DEFINE t == Routed(Candidates(Append(live, turn)), "summarize")
           sg == Segment(Len(trajectory) + 1, t, size)
<1>1. /\ Receive(turn) /\ outcome = "running" /\ outcome' = "running"
      /\ anchor # None /\ anchor' = anchor /\ frozen' = Append(frozen, sg)
      /\ context = ToTurns(anchor, frozen, live)
      /\ context' = ToTurns(anchor, frozen', live')
      /\ Len(Append(live, turn)) >= 2
  BY DEF CompactStep, Rewrite, Receive, Freeze, HarnessContract, MustCompact
<1>2. /\ turn \in RawTurn /\ frozen \in Seq(SegmentSet) /\ live \in Seq(RawTurn)
      /\ Append(live, turn) \in Seq(RawTurn) /\ Len(trajectory) \in Nat
  BY <1>1, ReceiveTypes
<1>3. Len(live) \in Nat /\ Len(live) >= 1 /\ Len(frozen) \in Nat
  BY <1>1, <1>2, AppendProperties, LenProperties
<1>4. live # <<>>
  BY <1>3, EmptySeq
<1>5. t \in Seq(RawTurn)
  BY <1>2, RoutedIs
<1> HIDE DEF t
<1>6. sg \in SegmentSet
  BY <1>2, <1>5, LenProperties DEF Segment, SegmentSet
<1> HIDE DEF sg
<1>7. live' \in Seq(RawTurn) /\ \A k \in 1..Len(live) : live[k].kind = "raw"
  BY <1>2, RawTurnsAreRaw DEF TInv, TypeOK
<1>8. DivergesAt(context, context', 1 + Len(frozen))
  BY <1>1, <1>2, <1>4, <1>6, <1>7, FrozenDiverges
<1>9. PICK U : context \in Seq(U)
  BY <1>1, BothRender
<1>10. PICK V : context' \in Seq(V)
  BY <1>1, BothRender
<1>11. Len(context) = 1 + Len(frozen) + Len(live)
  BY <1>1, BothRender DEF Rendering
<1>12. Len(context) \in Nat /\ Len(context') \in Nat
  BY <1>9, <1>10, LenProperties
<1>13. ASSUME IsPrefix(context, context') PROVE FALSE
  <2>1. Len(context) <= Len(context') /\ \A i \in 1..Len(context) : context[i] = context'[i]
    BY <1>9, <1>10, <1>13, PrefixIs
  <2>2. 1 + Len(frozen) < Len(context) /\ 1 + Len(frozen) < Len(context')
    BY <2>1, <1>3, <1>11, <1>12
  <2>3. (1 + Len(frozen)) + 1 \in 1..Len(context)
    BY <2>2, <1>3, <1>12
  <2>4. context[(1 + Len(frozen)) + 1] # context'[(1 + Len(frozen)) + 1]
    BY <2>2, <1>8 DEF DivergesAt
  <2> QED
    BY <2>1, <2>3, <2>4
<1> QED
  BY <1>13

\* With the new turn protected, evicting shortens what was sent or puts the
\* new turn where an older one stood.
LEMMA EvictOnlyDiverges ==
    ASSUME TInv, TInv', HarnessContract, HarnessContract', Accounted, Accounted',
           ProtectRecent > 0, NEW turn \in NewTurns, EvictOnlyStep(turn)
    PROVE  ~IsPrefix(context, context')
<1> DEFINE l == Append(live, turn)
<1>1. /\ Receive(turn) /\ outcome = "running" /\ outcome' = "running"
      /\ anchor # None /\ anchor' = anchor /\ frozen' = frozen
      /\ live' = Rejoin(Routed(Candidates(l), "keep"), Protected(l))
      /\ Routed(Candidates(l), "keep") # Candidates(l)
  BY DEF EvictOnlyStep, Rewrite, Receive, MustCompact
<1>2. /\ turn \in RawTurn /\ turn.id = Len(trajectory) + 2
      /\ frozen \in Seq(SegmentSet) /\ live \in Seq(RawTurn) /\ trajectory \in Seq(RawTurn)
      /\ l \in Seq(RawTurn) /\ Len(trajectory) \in Nat /\ Len(trajectory') = Len(trajectory) + 1
      /\ trajectory' = Append(trajectory, turn)
  BY <1>1, ReceiveTypes
<1>3. Len(l) = Len(live) + 1 /\ Len(live) \in Nat /\ trajectory'[Len(trajectory')] = turn
  BY <1>2, AppendProperties, LenProperties
<1>4. Len(live') < Len(l)
  BY <1>1, <1>2, RejoinShorter
<1> HIDE DEF l
<1>5. Len(live') \in Nat /\ Len(live') > 0 /\ live'[Len(live')] = turn
  <2>1. 0 \in 0..(ProtectRecent - 1) /\ 0 < Len(trajectory')
    BY <1>2, HybridAssumption
  <2>2. /\ 0 < Len(live')
        /\ live'[Len(live') - 0] = trajectory'[Len(trajectory') - 0]
    BY <2>1 DEF Accounted, Account, LiveAccount
  <2>3. Len(live') \in Nat /\ Len(trajectory') \in Nat
    BY <1>2, LenProperties DEF TInv, TypeOK
  <2> QED
    BY <2>2, <2>3, <1>3
<1>6. Rendering(context, anchor, frozen, live) /\ Len(frozen) \in Nat
  BY <1>1, BothRender
<1>7. Rendering(context', anchor, frozen, live')
  BY <1>1, BothRender
<1>8. PICK U : context \in Seq(U)
  BY <1>1, BothRender
<1>9. PICK V : context' \in Seq(V)
  BY <1>1, BothRender
<1>10. ASSUME IsPrefix(context, context') PROVE FALSE
  <2>1. Len(context) <= Len(context') /\ \A i \in 1..Len(context) : context[i] = context'[i]
    BY <1>8, <1>9, <1>10, PrefixIs
  <2>2. /\ Len(context) = 1 + Len(frozen) + Len(live)
        /\ Len(context') = 1 + Len(frozen) + Len(live')
    BY <1>6, <1>7 DEF Rendering
  <2>3. Len(live') = Len(live)
    BY <2>1, <2>2, <1>3, <1>4, <1>5, <1>6
  <2>4. Len(live) \in 1..Len(live) /\ Len(live) \in 1..Len(live')
    BY <2>3, <1>5
  <2>5. /\ context[1 + Len(frozen) + Len(live)] = live[Len(live)]
        /\ context'[1 + Len(frozen) + Len(live)] = live'[Len(live)]
    BY <2>4, <1>6, <1>7 DEF Rendering
  <2>6. Len(context) \in 1..Len(context)
    BY <2>2, <2>4, <1>3, <1>6
  <2>7. live[Len(live)] = turn
    BY <2>1, <2>2, <2>3, <2>5, <2>6, <1>5
  <2>8. Is(trajectory, turn)
    BY <2>4, <2>7 DEF Accounted, Account, LiveAccount
  <2> QED
    BY <2>8, <1>2 DEF Is
<1> QED
  BY <1>10

\* The flag is set exactly when what is sent does not extend what was sent
\* (phase2_layout.py:203), whatever the sizes and the protected window.
THEOREM FiredTellsDivergence == Spec => FiredIsDivergence
<1> DEFINE A == ProtectRecent > 0 /\ outcome' = "running" /\ context # <<>> =>
                    (fired' <=> ~IsPrefix(context, context'))
           Inv == TInv /\ Accounted /\ HarnessContract
<1>1. Inv /\ Inv' /\ [Next]_vars => [A]_vars
  <2> SUFFICES ASSUME TInv, TInv', HarnessContract, HarnessContract', Accounted, Accounted',
                      Next, ProtectRecent > 0, outcome' = "running", context # <<>>
               PROVE  fired' <=> ~IsPrefix(context, context')
    OBVIOUS
  <2>1. ASSUME NEW text \in AnchorTexts, FirstCall(text) PROVE FALSE
    BY <2>1 DEF FirstCall, TInv, StartsAtFirstCall
  <2>2. ASSUME NEW turn \in NewTurns,
               \/ \E text \in AnchorTexts : AnchorDrift(turn, text)
               \/ SummarizerFails(turn)
        PROVE  FALSE
    BY <2>2 DEF AnchorDrift, SummarizerFails
  <2>3. ASSUME NEW turn \in NewTurns, PlainStep(turn)
        PROVE  fired' <=> ~IsPrefix(context, context')
    <3>1. fired' = FALSE
      BY <2>3 DEF PlainStep
    <3>2. IsPrefix(context, context')
      BY <2>3, PlainStepExtends
    <3> QED
      BY <3>1, <3>2, Zenon
  <2>4. ASSUME NEW turn \in NewTurns, EvictOnlyStep(turn)
        PROVE  fired' <=> ~IsPrefix(context, context')
    <3>1. fired' = TRUE
      BY <2>4 DEF EvictOnlyStep, Rewrite
    <3>2. ~IsPrefix(context, context')
      BY <2>4, EvictOnlyDiverges
    <3> QED
      BY <3>1, <3>2, Zenon
  <2>5. ASSUME NEW turn \in NewTurns, NEW size \in SummarySizes, CompactStep(turn, size)
        PROVE  fired' <=> ~IsPrefix(context, context')
    <3>1. fired' = TRUE
      BY <2>5 DEF CompactStep, Rewrite
    <3>2. ~IsPrefix(context, context')
      BY <2>5, CompactStepDiverges
    <3> QED
      BY <3>1, <3>2, Zenon
  <2> QED
    BY <2>1, <2>2, <2>3, <2>4, <2>5, Zenon DEF Next
<1>2. Spec => []Inv
  BY Accounting, Contract, PTL
<1> QED
  BY <1>1, <1>2, PTL DEF Spec, FiredIsDivergence
-----------------------------------------------------------------------------
\* Turns handed over, as CompactionPolicy counts them: with the anchor.
Received == Len(trajectory) + (IF anchor = None THEN 0 ELSE 1)

\* The first call is a Start: the anchor alone is sent.
LEMMA FirstCallStarts ==
    ASSUME TInv, NEW text \in AnchorTexts, FirstCall(text)
    PROVE  Policy!Start
<1>1. /\ outcome = "running" /\ outcome' = outcome /\ anchor = None
      /\ frozen = <<>> /\ live = <<>> /\ trajectory = <<>> /\ trajectory' = <<>>
      /\ anchor' = Anchor(text, AnchorSize) /\ context' = ToTurns(anchor', <<>>, <<>>)
      /\ fired' = FALSE
  BY DEF FirstCall, TInv, StartsAtFirstCall
<1>2. <<>> \in Seq(SegmentSet) /\ <<>> \in Seq(RawTurn) /\ Len(<<>>) = 0
  BY EmptySeq
<1>3. Rendering(context', anchor', <<>>, <<>>)
  BY <1>1, <1>2, ToTurnsIs
<1>4. Len(context') = 1 /\ context'[1] = anchor' /\ anchor'.kind = "anchor"
  BY <1>1, <1>2, <1>3 DEF Rendering, Anchor
<1>5. Received = 0 /\ Received' = 1
  <2>1. anchor' # None
    BY <1>1, AnchorIsNotNone
  <2> QED
    BY <2>1, <1>1, <1>2 DEF Received
<1> QED
  BY <1>1, <1>4, <1>5 DEF Policy!Start, Received

\* A later call hands the policy one more turn.
LEMMA ReceiveReceives ==
    ASSUME TInv, NEW turn \in NewTurns, Receive(turn)
    PROVE  Policy!Receive /\ Received' = turn.id /\ Received + 1 = turn.id
<1>1. /\ Len(trajectory) \in Nat /\ Len(trajectory') = Len(trajectory) + 1
      /\ anchor # None /\ anchor' = anchor /\ outcome = "running"
      /\ turn.id = Len(trajectory) + 2
  BY ReceiveTypes
<1>2. Received = Len(trajectory) + 1 /\ Received' = (Len(trajectory) + 1) + 1
  BY <1>1 DEF Received
<1> QED
  BY <1>1, <1>2 DEF Policy!Receive, Received

\* A step that does not fire is a PassThrough.
LEMMA PlainStepPassesThrough ==
    ASSUME TInv, TInv', HarnessContract, HarnessContract',
           NEW turn \in NewTurns, PlainStep(turn)
    PROVE  Policy!PassThrough
<1> DEFINE l == Append(live, turn)
<1>1. /\ Receive(turn) /\ outcome = "running" /\ outcome' = outcome
      /\ anchor # None /\ anchor' = anchor /\ frozen' = frozen /\ live' = l /\ fired' = FALSE
      /\ context = ToTurns(anchor, frozen, live)
      /\ context' = ToTurns(anchor, frozen, l)
  BY DEF PlainStep, Receive, HarnessContract
<1>2. Policy!Receive /\ Received' = turn.id
  BY <1>1, ReceiveReceives
<1>3. turn \in RawTurn /\ frozen \in Seq(SegmentSet) /\ live \in Seq(RawTurn)
  BY <1>1, ReceiveTypes
<1>4. Len(live) \in Nat /\ Len(l) = Len(live) + 1 /\ l[Len(live) + 1] = turn
  BY <1>3, AppendProperties, LenProperties
<1>5. DivergesAt(context, context', Len(context))
  BY <1>1, <1>3, AppendedIsKept
<1> HIDE DEF l
<1>6. /\ Rendering(context, anchor, frozen, live)
      /\ Rendering(context', anchor, frozen, l) /\ Len(frozen) \in Nat
  BY <1>1, BothRender
<1>7. Len(context') = Len(context) + 1 /\ context'[Len(context')] = turn
  <2>1. Len(context) = 1 + Len(frozen) + Len(live)
    BY <1>6 DEF Rendering
  <2>2. Len(context') = 1 + Len(frozen) + (Len(live) + 1)
    BY <1>4, <1>6 DEF Rendering
  <2>3. Len(live) + 1 \in 1..Len(l)
    BY <1>4
  <2>4. context'[1 + Len(frozen) + (Len(live) + 1)] = l[Len(live) + 1]
    BY <1>6, <2>3 DEF Rendering
  <2>5. 1 + Len(frozen) + (Len(live) + 1) = (1 + Len(frozen) + Len(live)) + 1
    BY <1>4, <1>6
  <2> QED
    BY <1>4, <2>1, <2>2, <2>4, <2>5
<1>8. \A i \in 1..Len(context) : context'[i] = context[i]
  BY <1>5 DEF DivergesAt
<1>9. turn.kind = "raw"
  BY <1>3 DEF RawTurn
<1> QED
  BY <1>1, <1>2, <1>7, <1>8, <1>9 DEF Policy!PassThrough, Received

\* Live after a later call holds turns it held before and the new one.
LEMMA LiveComesFrom ==
    ASSUME NEW l \in Seq(RawTurn), NEW turn \in RawTurn, NEW m, NEW h,
           Thinned(m, h, Append(l, turn)), NEW k \in 1..Len(m)
    PROVE  m[k] = turn \/ \E j \in 1..Len(l) : m[k] = l[j]
<1>1. /\ Len(l) \in Nat /\ Len(Append(l, turn)) = Len(l) + 1
      /\ Append(l, turn)[Len(l) + 1] = turn
      /\ \A j \in 1..Len(l) : Append(l, turn)[j] = l[j]
  BY AppendProperties, LenProperties
<1>2. h[k] \in 1..Len(Append(l, turn)) /\ m[k] = Append(l, turn)[h[k]]
  BY DEF Thinned
<1>3. h[k] = Len(l) + 1 \/ h[k] \in 1..Len(l)
  BY <1>1, <1>2
<1> QED
  BY <1>1, <1>2, <1>3

\* A round is a Compact.
LEMMA RewriteCompacts ==
    ASSUME TInv, TInv', HarnessContract, HarnessContract', Accounted',
           NEW turn \in NewTurns, Rewrite(turn), Round(Append(live, turn), frozen)
    PROVE  Policy!Compact
<1>1. /\ Receive(turn) /\ outcome = "running" /\ outcome' = outcome
      /\ anchor # None /\ anchor' = anchor /\ fired' = TRUE
  BY DEF Rewrite, Receive
<1>2. Policy!Receive /\ Received' = turn.id
  BY <1>1, ReceiveReceives
<1>3. turn \in RawTurn /\ live \in Seq(RawTurn) /\ live' \in Seq(RawTurn)
  BY <1>1, ReceiveTypes DEF TInv, TypeOK
<1>4. PICK h : Thinned(live', h, Append(live, turn))
  BY DEF Round
<1>5. /\ Rendering(context, anchor, frozen, live)
      /\ Rendering(context', anchor, frozen', live')
      /\ anchor.kind = "anchor" /\ Len(frozen) \in Nat /\ Len(live) \in Nat
      /\ Len(frozen') \in Nat /\ Len(live') \in Nat
  BY <1>1, BothRender
<1>6. context'[1] = context[1] /\ Len(context') > 0
  BY <1>5 DEF Rendering
<1>7. /\ \A k \in 1..Len(live) : live[k].kind = "raw"
      /\ \A k \in 1..Len(live') : live'[k].kind = "raw"
  BY <1>3, RawTurnsAreRaw
<1>8. Policy!RawIds(context') \subseteq Policy!RawIds(context) \cup {Received'}
  <2>1. /\ Policy!RawIds(context) = { live[k].id : k \in 1..Len(live) }
        /\ Policy!RawIds(context') = { live'[k].id : k \in 1..Len(live') }
    <3>1. ShownIds(context) = { live[k].id : k \in 1..Len(live) }
      BY <1>5, <1>7, LiveIsShown
    <3>2. ShownIds(context') = { live'[k].id : k \in 1..Len(live') }
      BY <1>5, <1>7, LiveIsShown
    <3>3. \A t : Policy!RawIds(t) = ShownIds(t)
      BY DEF Policy!RawIds, ShownIds
    <3> QED
      BY <3>1, <3>2, <3>3
  <2>2. ASSUME NEW k \in 1..Len(live')
        PROVE  live'[k].id = Received' \/ \E j \in 1..Len(live) : live'[k].id = live[j].id
    <3>1. live'[k] = turn \/ \E j \in 1..Len(live) : live'[k] = live[j]
      BY <1>3, <1>4, LiveComesFrom
    <3> QED
      BY <3>1, <1>2
  <2> HIDE DEF Received
  <2> QED
    BY <2>1, <2>2
<1>9. Policy!RawIdsInOrder(context')
  <2>1. \A k, m \in 1..Len(live') : k < m => live'[k].id < live'[m].id
    BY DEF Accounted, Account, LiveAccount, InOrder
  <2> QED
    BY <2>1, <1>5, <1>7, LiveIsShownInOrder DEF Policy!RawIdsInOrder
<1> QED
  BY <1>1, <1>2, <1>6, <1>8, <1>9 DEF Policy!Compact, Received

\* HybridPolicy implements CompactionPolicy (policies/base.py:13-22): each call
\* of maybe_compact is a step the replay loop is prepared for.
THEOREM Implementation == Spec => ImplementsPolicy
<1> DEFINE Inv == TInv /\ Accounted /\ HarnessContract
<1>1. Init => Policy!Init
  <2>1. Len(<<>>) = 0
    BY EmptySeq
  <2> QED
    BY <2>1 DEF Init, Policy!Init
<1>2. Inv /\ Inv' /\ [Next]_vars => [Policy!Next]_(Policy!vars)
  <2> SUFFICES ASSUME TInv, TInv', HarnessContract, HarnessContract', Accounted, Accounted',
                      [Next]_vars
               PROVE  [Policy!Next]_(Policy!vars)
    OBVIOUS
  <2>1. ASSUME NEW text \in AnchorTexts, FirstCall(text) PROVE Policy!Next
    BY <2>1, FirstCallStarts DEF Policy!Next
  <2>2. ASSUME NEW turn \in NewTurns,
               \/ \E text \in AnchorTexts : AnchorDrift(turn, text)
               \/ SummarizerFails(turn)
        PROVE  Policy!Next
    <3>1. /\ Receive(turn) /\ context' = context /\ fired' = fired
          /\ outcome' \in {"anchor_drift", "summarizer_failed"}
      BY <2>2, Zenon DEF AnchorDrift, SummarizerFails
    <3>2. (outcome' # "running") = TRUE
      BY <3>1
    <3>3. Policy!Receive
      BY <3>1, ReceiveReceives
    <3> QED
      BY <3>1, <3>2, <3>3 DEF Policy!Next, Policy!Raise
  <2>3. ASSUME NEW turn \in NewTurns, PlainStep(turn) PROVE Policy!Next
    BY <2>3, PlainStepPassesThrough DEF Policy!Next
  <2>4. ASSUME NEW turn \in NewTurns, EvictOnlyStep(turn) PROVE Policy!Next
    <3>1. Rewrite(turn) /\ Round(Append(live, turn), frozen)
      BY <2>4, EvictOnlyIsRound DEF EvictOnlyStep
    <3> QED
      BY <3>1, RewriteCompacts DEF Policy!Next
  <2>5. ASSUME NEW turn \in NewTurns, NEW size \in SummarySizes, CompactStep(turn, size)
        PROVE  Policy!Next
    <3>1. Rewrite(turn) /\ Round(Append(live, turn), frozen)
      BY <2>5, CompactIsRound DEF CompactStep
    <3> QED
      BY <3>1, RewriteCompacts DEF Policy!Next
  <2>6. CASE UNCHANGED vars
    BY <2>6 DEF vars, Policy!vars
  <2> QED
    BY <2>1, <2>2, <2>3, <2>4, <2>5, <2>6 DEF Next
<1>3. Spec => []Inv
  BY Accounting, Contract, PTL
<1> QED
  BY <1>1, <1>2, <1>3, PTL DEF Spec, ImplementsPolicy, Policy!Spec
=============================================================================
