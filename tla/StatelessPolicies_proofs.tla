----------------------- MODULE StatelessPolicies_proofs -----------------------
(***************************************************************************)
(* Proofs about StatelessPolicies, for every trajectory length, threshold, *)
(* retire fraction, window and set of sizes.  One invariant carries them:  *)
(* position i of a context of length n, after s turns, holds turn          *)
(* s - n + i of the trajectory, and only position 2 may hold more.  With   *)
(* the room a summary takes and leaves it bounds what a compaction keeps.  *)
(***************************************************************************)
EXTENDS MCStateless, SharedLemmas

TheAnchor == Anchor("a", AnchorSize)
RawTurns == [kind : {"raw"}, id : 2..MaxTurns, role : {"user"}, size : TurnSizes]
SummaryTurns ==
    [kind : {"summary"}, n : 1..MaxTurns, size : SummarySizes, of : SUBSET (2..MaxTurns)]

\* The turns of a context: the anchor, the trajectory's own, and summaries.
LEMMA TurnsAre == Turns = {TheAnchor} \cup RawTurns \cup SummaryTurns
<1> DEFINE A == [kind : {"anchor"}, text : {"a"}, size : {AnchorSize}]
<1>1. A = {TheAnchor}
  <2>1. TheAnchor \in A
    BY DEF TheAnchor, Anchor
  <2>2. ASSUME NEW x \in A PROVE x = TheAnchor
    BY <2>2 DEF TheAnchor, Anchor
  <2> QED
    BY <2>1, <2>2, Zenon
<1> QED
  BY <1>1, Zenon DEF Turns, RawTurns, SummaryTurns

\* x shows turn k verbatim.
Shows(x, k) == x \in RawTurns /\ x.id = k

\* x is turn 2, or a summary: it stands for all turns from the second to the kth.
StandsFor(x, k) ==
    /\ x \in RawTurns \cup SummaryTurns
    /\ Covers(x) = 2..k

\* Turns t, after s turns of the trajectory, under policy p.
Shape(t, s, p) ==
    /\ t \in Seq(Turns) /\ Len(t) \in 1..s
    /\ t[1] = TheAnchor
    /\ \A i \in 3..Len(t) : Shows(t[i], s - Len(t) + i)
    /\ Len(t) = 1 => s = 1
    /\ Len(t) > 1 =>
          IF p = "naive" THEN StandsFor(t[2], s - Len(t) + 2) ELSE Shows(t[2], s - Len(t) + 2)
    /\ p = "none" => Len(t) = s
    /\ p = "kv_evict" => Len(t) - 1 >= WindowTurns \/ Len(t) = s

\* u is what a compaction makes of t.
Compacted(u, t, s, p) ==
    /\ Shape(u, s, p)
    /\ Len(u) <= Len(t)
    /\ p = "naive" => u[2] \in SummaryTurns

SInv ==
    /\ TypeOK
    /\ context \in Seq(Turns)
    /\ seen = 0 => context = <<>> /\ outcome = "running"
    /\ Running => Shape(context, seen, policy)

\* The new turn stands behind the others.
LEMMA AppendShape ==
    ASSUME NEW t, NEW s \in 1..(MaxTurns - 1), NEW p, Shape(t, s, p),
           NEW size \in TurnSizes
    PROVE  Shape(Append(t, Raw(s + 1, "user", size)), s + 1, p)
<1> DEFINE x == Raw(s + 1, "user", size)
           u == Append(t, x)
<1>1. MaxTurns \in Nat /\ s \in Nat /\ s + 1 \in 2..MaxTurns
  BY StatelessAssumption
<1>2. Shows(x, s + 1)
  BY <1>1 DEF Shows, Raw, RawTurns
<1>3. x \in Turns
  BY <1>2, TurnsAre DEF Shows
<1>4. x.kind = "raw"
  BY DEF Raw
<1> HIDE DEF x
<1>5. t \in Seq(Turns) /\ Len(t) \in 1..s
  BY DEF Shape
<1>6. /\ u \in Seq(Turns) /\ Len(u) = Len(t) + 1
      /\ \A i \in 1..Len(t) : u[i] = t[i]
      /\ u[Len(t) + 1] = x
  BY <1>3, <1>5, AppendProperties
<1> HIDE DEF u
<1>7. Len(u) \in 1..(s + 1) /\ Len(u) > 1 /\ s + 1 - Len(u) = s - Len(t)
  BY <1>1, <1>5, <1>6
<1>8. u[1] = TheAnchor
  BY <1>5, <1>6 DEF Shape
<1>9. ASSUME NEW i \in 3..Len(u) PROVE Shows(u[i], s + 1 - Len(u) + i)
  <2>1. CASE i = Len(t) + 1
    <3>1. s + 1 - Len(u) + i = s + 1
      BY <1>1, <1>5, <1>6, <2>1
    <3> QED
      BY <1>2, <1>6, <2>1, <3>1
  <2>2. CASE i # Len(t) + 1
    <3>1. i \in 3..Len(t) /\ s + 1 - Len(u) + i = s - Len(t) + i
      BY <1>1, <1>5, <1>6, <2>2
    <3>2. u[i] = t[i]
      BY <1>5, <1>6, <3>1
    <3>3. Shows(t[i], s - Len(t) + i)
      BY <3>1 DEF Shape
    <3> QED
      BY <3>1, <3>2, <3>3
  <2> QED
    BY <2>1, <2>2
<1>10. IF p = "naive" THEN StandsFor(u[2], s + 1 - Len(u) + 2) ELSE Shows(u[2], s + 1 - Len(u) + 2)
  <2>1. CASE Len(t) = 1
    <3>1. s = 1 /\ u[2] = x /\ s + 1 - Len(u) + 2 = 2 /\ s + 1 = 2
      BY <1>6, <2>1 DEF Shape
    <3>2. Shows(u[2], 2)
      BY <1>2, <3>1
    <3>3. StandsFor(u[2], 2)
      <4>1. Covers(u[2]) = {2}
        BY <1>4, <3>1, <3>2 DEF Covers, Shows
      <4>2. {2} = 2..2
        OBVIOUS
      <4> QED
        BY <3>2, <4>1, <4>2, Zenon DEF StandsFor, Shows
    <3> QED
      BY <3>1, <3>2, <3>3
  <2>2. CASE Len(t) > 1
    <3>1. 2 \in 1..Len(t)
      BY <1>5, <2>2
    <3>2. s + 1 - Len(u) + 2 = s - Len(t) + 2
      BY <1>1, <1>5, <1>6
    <3>3. u[2] = t[2]
      BY <1>6, <3>1
    <3>4. IF p = "naive" THEN StandsFor(t[2], s - Len(t) + 2) ELSE Shows(t[2], s - Len(t) + 2)
      BY <2>2 DEF Shape
    <3> QED
      BY <3>2, <3>3, <3>4
  <2>3. \A n \in 1..s : n = 1 \/ n > 1
    BY <1>1
  <2>4. Len(t) = 1 \/ Len(t) > 1
    BY <1>5, <2>3, Zenon
  <2> QED
    BY <2>1, <2>2, <2>4
<1>11. /\ p = "none" => Len(u) = s + 1
       /\ p = "kv_evict" => Len(u) - 1 >= WindowTurns \/ Len(u) = s + 1
  BY <1>1, <1>5, <1>6, StatelessAssumption DEF Shape
<1>12. Shape(u, s + 1, p)
  BY <1>6, <1>7, <1>8, <1>9, <1>10, <1>11 DEF Shape
<1> QED
  BY <1>12 DEF u, x
-----------------------------------------------------------------------------
\* A context is put together from new turns h in front and what is left of t,
\* the anchor and d more turns taken away.
Splice(u, S, h, t, d) ==
    /\ u \in Seq(S)
    /\ Len(u) = Len(h) + (Len(t) - 1 - d)
    /\ \A i \in 1..Len(h) : u[i] = h[i]
    /\ \A k \in 1..(Len(t) - 1 - d) : u[Len(h) + k] = t[1 + d + k]

\* turns[1:]
LEMMA RestIs ==
    ASSUME NEW S, NEW t \in Seq(S), Len(t) >= 1
    PROVE  /\ Rest(t) \in Seq(S)
           /\ Len(Rest(t)) = Len(t) - 1
           /\ \A k \in 1..(Len(t) - 1) : Rest(t)[k] = t[1 + k]
<1> DEFINE v == SubSeq(t, 2, Len(t))
<1>1. Len(t) \in Nat
  BY LenProperties
<1>2. 2 \in Int /\ Len(t) \in Int /\ \A i \in 2..Len(t) : t[i] \in S
  BY <1>1, ElementOfSeq
<1>3. /\ v \in Seq(S)
      /\ Len(v) = IF 2 <= Len(t) THEN Len(t) - 2 + 1 ELSE 0
      /\ \A k \in 1..(Len(t) - 2 + 1) : v[k] = t[2 + k - 1]
  BY <1>2, SubSeqProperties
<1> HIDE DEF v
<1>4. Len(t) - 2 + 1 = Len(t) - 1
  BY <1>1
<1>5. Len(v) = Len(t) - 1
  <2>1. CASE 2 <= Len(t)
    BY <1>3, <1>4, <2>1
  <2>2. CASE ~(2 <= Len(t))
    <3>1. \A n \in Nat : n >= 1 /\ ~(2 <= n) => 0 = n - 1
      OBVIOUS
    <3>2. 0 = Len(t) - 1
      BY <1>1, <2>2, <3>1, Zenon
    <3>3. Len(v) = 0
      BY <1>3, <2>2, Zenon
    <3> QED
      BY <3>2, <3>3, Zenon
  <2> QED
    BY <2>1, <2>2
<1>6. ASSUME NEW k \in 1..(Len(t) - 1) PROVE v[k] = t[1 + k]
  <2>1. 2 + k - 1 = 1 + k
    BY <1>1
  <2> QED
    BY <1>3, <1>4, <2>1
<1> QED
  BY <1>3, <1>5, <1>6 DEF Rest, v

\* h + rest[d:]
LEMMA SpliceIs ==
    ASSUME NEW S, NEW h \in Seq(S), NEW t \in Seq(S), Len(t) >= 1, NEW d \in 0..(Len(t) - 1)
    PROVE  Splice(h \o SubSeq(Rest(t), d + 1, Len(Rest(t))), S, h, t, d)
<1> DEFINE r == Rest(t)
           v == SubSeq(r, d + 1, Len(r))
<1>1. Len(t) \in Nat /\ Len(h) \in Nat /\ d \in Nat /\ d <= Len(t) - 1
  BY LenProperties
<1>2. r \in Seq(S) /\ Len(r) = Len(t) - 1 /\ \A k \in 1..(Len(t) - 1) : r[k] = t[1 + k]
  BY RestIs
<1> HIDE DEF r
<1>3. d + 1 \in Int /\ Len(r) \in Int /\ \A i \in (d + 1)..Len(r) : r[i] \in S
  BY <1>1, <1>2, ElementOfSeq
<1>4. /\ v \in Seq(S)
      /\ Len(v) = IF d + 1 <= Len(r) THEN Len(r) - (d + 1) + 1 ELSE 0
      /\ \A k \in 1..(Len(r) - (d + 1) + 1) : v[k] = r[(d + 1) + k - 1]
  BY <1>3, SubSeqProperties
<1> HIDE DEF v
<1>5. Len(v) = Len(t) - 1 - d
  BY <1>1, <1>2, <1>4
<1>6. ASSUME NEW k \in 1..(Len(t) - 1 - d) PROVE v[k] = t[1 + d + k]
  <2>1. k \in 1..(Len(r) - (d + 1) + 1) /\ (d + 1) + k - 1 = d + k /\ d + k \in 1..(Len(t) - 1)
    BY <1>1, <1>2
  <2>2. v[k] = r[d + k]
    BY <1>4, <2>1
  <2>3. r[d + k] = t[1 + (d + k)]
    BY <1>2, <2>1
  <2> QED
    BY <1>1, <2>2, <2>3
<1>7. /\ h \o v \in Seq(S)
      /\ Len(h \o v) = Len(h) + Len(v)
      /\ \A i \in 1..(Len(h) + Len(v)) :
            (h \o v)[i] = IF i <= Len(h) THEN h[i] ELSE v[i - Len(h)]
  BY <1>4, ConcatProperties
<1>8. ASSUME NEW i \in 1..Len(h) PROVE (h \o v)[i] = h[i]
  BY <1>1, <1>5, <1>7
<1>9. ASSUME NEW k \in 1..(Len(t) - 1 - d) PROVE (h \o v)[Len(h) + k] = t[1 + d + k]
  <2>1. /\ Len(h) + k \in 1..(Len(h) + Len(v))
        /\ ~(Len(h) + k <= Len(h)) /\ Len(h) + k - Len(h) = k
    BY <1>1, <1>5
  <2>2. (h \o v)[Len(h) + k] = v[k]
    BY <1>7, <2>1
  <2> QED
    BY <1>6, <2>2
<1> QED
  BY <1>5, <1>7, <1>8, <1>9 DEF Splice, v, r

\* kv_evict.py: the anchor and the last window_turns turns.
LEMMA SlideShape ==
    ASSUME NEW t, NEW s \in 1..MaxTurns, Shape(t, s, "kv_evict"), Len(Rest(t)) > WindowTurns
    PROVE  Compacted(<<t[1]>> \o Window(Rest(t)), t, s, "kv_evict")
<1> DEFINE n == Len(t)
           d == n - 1 - WindowTurns
           u == <<t[1]>> \o Window(Rest(t))
<1>1. MaxTurns \in Nat /\ s \in Nat /\ WindowTurns \in Nat \ {0}
  BY StatelessAssumption
<1>2. t \in Seq(Turns) /\ n \in 1..s /\ t[1] = TheAnchor /\ TheAnchor \in Turns
  BY TurnsAre DEF Shape
<1>3. Len(Rest(t)) = n - 1
  BY <1>2, RestIs
<1>4. n \in Nat /\ d \in 1..(n - 1) /\ n - d = WindowTurns + 1 /\ n >= 1 /\ n <= s
  BY <1>1, <1>2, <1>3
<1>5. Window(Rest(t)) = SubSeq(Rest(t), d + 1, Len(Rest(t)))
  <2>1. Len(Rest(t)) - WindowTurns + 1 = d + 1
    BY <1>1, <1>3, <1>4
  <2> QED
    BY <2>1 DEF Window
<1>6. <<t[1]>> \in Seq(Turns) /\ Len(<<t[1]>>) = 1 /\ <<t[1]>>[1] = t[1]
  BY <1>2
<1> HIDE DEF n, d
<1>7. Splice(u, Turns, <<t[1]>>, t, d)
  <2>1. d \in 0..(Len(t) - 1) /\ Len(t) >= 1
    BY <1>4 DEF n
  <2> QED
    BY <1>2, <1>5, <1>6, <2>1, SpliceIs
<1> HIDE DEF u
<1>8. /\ u \in Seq(Turns) /\ u[1] = t[1]
      /\ Len(u) = 1 + (n - 1 - d)
      /\ \A k \in 1..(n - 1 - d) : u[1 + k] = t[1 + d + k]
  BY <1>6, <1>7 DEF Splice, n
<1>9. Len(u) = WindowTurns + 1 /\ Len(u) \in 2..s
  BY <1>1, <1>4, <1>8
<1>10. ASSUME NEW i \in 2..Len(u) PROVE Shows(u[i], s - Len(u) + i)
  <2>1. i - 1 \in 1..(n - 1 - d) /\ 1 + (i - 1) = i /\ 1 + d + (i - 1) = d + i
    BY <1>1, <1>4, <1>9
  <2>2. u[i] = t[d + i]
    BY <1>8, <2>1
  <2>3. d + i \in 3..n /\ s - n + (d + i) = s - Len(u) + i
    BY <1>1, <1>4, <1>9
  <2>4. Shows(t[d + i], s - n + (d + i))
    BY <2>3 DEF Shape, n
  <2> QED
    BY <2>2, <2>3, <2>4
<1>11. \A i \in 3..Len(u) : Shows(u[i], s - Len(u) + i)
  BY <1>9, <1>10
<1>12. Shows(u[2], s - Len(u) + 2)
  BY <1>9, <1>10
<1>13. Len(u) \in 1..s /\ Len(u) # 1 /\ Len(u) - 1 >= WindowTurns
  BY <1>1, <1>9
<1>14. u[1] = TheAnchor
  BY <1>2, <1>8
<1>15. Shape(u, s, "kv_evict")
  BY <1>8, <1>11, <1>12, <1>13, <1>14 DEF Shape
<1>16. Len(u) <= Len(t) /\ "kv_evict" # "naive"
  BY <1>3, <1>4, <1>9 DEF n
<1>17. Compacted(u, t, s, "kv_evict")
  BY <1>15, <1>16, Zenon DEF Compacted
<1> QED
  BY <1>17 DEF u
-----------------------------------------------------------------------------
\* At least one turn is retired, and never more than there are (naive.py:79).
LEMMA CutoffBounds ==
    ASSUME NEW n \in Nat \ {0}
    PROVE  Cutoff(n) \in 1..n
<1>1. RetirePercent \in 1..99
  BY StatelessAssumption
<1>2. n * RetirePercent \in Nat /\ n * RetirePercent < n * 100
  BY <1>1
<1>3. (n * RetirePercent) \div 100 \in Nat /\ (n * RetirePercent) \div 100 < n
  BY <1>2
<1> QED
  BY <1>3 DEF Cutoff

\* What the turns from the second to the (1 + c)th of t cover.
LEMMA RetiredCover ==
    ASSUME NEW t, NEW s \in 1..MaxTurns, Shape(t, s, "naive"), NEW c \in 1..(Len(t) - 1)
    PROVE  UNION { Covers(t[1 + i]) : i \in 1..c } = 2..(s - Len(t) + 1 + c)
<1> DEFINE n == Len(t)
           b == s - n + 1
<1>1. MaxTurns \in Nat /\ s \in Nat /\ n \in 1..s
  BY StatelessAssumption DEF Shape
<1>2. n \in Nat /\ n <= s /\ c \in Nat /\ c >= 1 /\ n > 1 /\ b \in Nat /\ b >= 1
  BY <1>1
<1>3. Covers(t[2]) = 2..(b + 1)
  <2>1. s - Len(t) + 2 = b + 1
    BY <1>2
  <2>2. StandsFor(t[2], s - Len(t) + 2)
    BY <1>2 DEF Shape
  <2>3. Covers(t[2]) = 2..(s - Len(t) + 2)
    BY <2>2 DEF StandsFor
  <2> QED
    BY <2>1, <2>3, Zenon
<1>4. ASSUME NEW i \in 2..c PROVE Covers(t[1 + i]) = {b + i}
  <2>1. 1 + i \in 3..Len(t) /\ s - Len(t) + (1 + i) = b + i
    BY <1>2
  <2>2. Shows(t[1 + i], s - Len(t) + (1 + i))
    BY <2>1 DEF Shape
  <2>3. t[1 + i].kind = "raw" /\ t[1 + i].id = s - Len(t) + (1 + i)
    BY <2>2 DEF Shows, RawTurns
  <2>4. Covers(t[1 + i]) = {s - Len(t) + (1 + i)}
    BY <2>3, Zenon DEF Covers
  <2> QED
    BY <2>1, <2>4, Zenon
<1> HIDE DEF b, n
<1>5. ASSUME NEW k \in UNION { Covers(t[1 + i]) : i \in 1..c } PROVE k \in 2..(b + c)
  <2>1. PICK i \in 1..c : k \in Covers(t[1 + i])
    BY <1>5
  <2>2. CASE i = 1
    <3>1. 1 + i = 2
      BY <2>2
    <3>2. k \in 2..(b + 1)
      BY <1>3, <2>1, <3>1, Zenon
    <3> QED
      BY <1>2, <3>2
  <2>3. CASE i # 1
    <3>1. i \in 2..c
      BY <1>2, <2>3
    <3>2. k = b + i
      BY <1>4, <2>1, <3>1, Zenon
    <3> QED
      BY <1>2, <3>1, <3>2
  <2> QED
    BY <2>2, <2>3
<1>6. ASSUME NEW k \in 2..(b + c) PROVE k \in UNION { Covers(t[1 + i]) : i \in 1..c }
  <2>1. CASE k <= b + 1
    <3>1. k \in 2..(b + 1) /\ 1 \in 1..c /\ 1 + 1 = 2
      BY <1>2, <2>1
    <3>2. k \in Covers(t[1 + 1])
      BY <1>3, <3>1
    <3> QED
      BY <3>1, <3>2, Zenon
  <2>2. CASE ~(k <= b + 1)
    <3>1. k - b \in 2..c /\ k - b \in 1..c /\ b + (k - b) = k
      BY <1>2, <2>2
    <3>2. Covers(t[1 + (k - b)]) = {k}
      BY <1>4, <3>1, Zenon
    <3> QED
      BY <3>1, <3>2, Zenon
  <2> QED
    BY <2>1, <2>2
<1>7. UNION { Covers(t[1 + i]) : i \in 1..c } = 2..(b + c)
  BY <1>5, <1>6, Zenon
<1>8. s - Len(t) + 1 + c = b + c
  BY <1>2 DEF b, n
<1> QED
  BY <1>7, <1>8, Zenon

\* The summary stands for everything up to the last turn it retired, the
\* earlier summary included.
LEMMA SummaryStandsFor ==
    ASSUME NEW t, NEW s \in 1..MaxTurns, Shape(t, s, "naive"), NEW c \in 1..(Len(t) - 1),
           NEW size \in SummarySizes
    PROVE  /\ SummaryTurn(SubSeq(Rest(t), 1, c), size) \in SummaryTurns
           /\ Covers(SummaryTurn(SubSeq(Rest(t), 1, c), size)) = 2..(s - Len(t) + 1 + c)
<1> DEFINE r == Rest(t)
           q == SubSeq(r, 1, c)
           x == SummaryTurn(q, size)
           k == s - Len(t) + 1 + c
<1>1. MaxTurns \in Nat /\ s \in Nat /\ s <= MaxTurns /\ t \in Seq(Turns) /\ Len(t) \in 1..s
  BY StatelessAssumption DEF Shape
<1>2. Len(t) \in Nat /\ Len(t) >= 1 /\ Len(t) <= s /\ c \in Nat /\ c >= 1 /\ c <= Len(t) - 1
  BY <1>1
<1>3. r \in Seq(Turns) /\ Len(r) = Len(t) - 1 /\ \A i \in 1..(Len(t) - 1) : r[i] = t[1 + i]
  BY <1>1, <1>2, RestIs
<1> HIDE DEF r
<1>4. 1 \in Int /\ c \in Int /\ \A i \in 1..c : r[i] \in Turns
  BY <1>2, <1>3, ElementOfSeq
<1>5. /\ Len(q) = IF 1 <= c THEN c - 1 + 1 ELSE 0
      /\ \A i \in 1..(c - 1 + 1) : q[i] = r[1 + i - 1]
  BY <1>4, SubSeqProperties
<1> HIDE DEF q
<1>6. Len(q) = c
  <2>1. c - 1 + 1 = c
    BY <1>2
  <2> QED
    BY <1>2, <1>5, <2>1, Zenon
<1>7. ASSUME NEW i \in 1..c PROVE q[i] = t[1 + i]
  <2>1. i \in 1..(c - 1 + 1) /\ 1 + i - 1 = i /\ i \in 1..(Len(t) - 1)
    BY <1>2
  <2> QED
    BY <1>3, <1>5, <2>1, Zenon
<1>8. UNION { Covers(q[i]) : i \in 1..Len(q) } = 2..k
  <2>1. { Covers(q[i]) : i \in 1..Len(q) } = { Covers(t[1 + i]) : i \in 1..c }
    BY <1>6, <1>7, Zenon
  <2>2. UNION { Covers(t[1 + i]) : i \in 1..c } = 2..k
    BY RetiredCover
  <2> QED
    BY <2>1, <2>2, Zenon
<1>9. k \in Nat /\ k <= MaxTurns /\ c \in 1..MaxTurns
  BY <1>1, <1>2
<1> HIDE DEF k
<1>10. x = [kind |-> "summary", n |-> c, size |-> size, of |-> 2..k]
  BY <1>6, <1>8, Zenon DEF SummaryTurn
<1> HIDE DEF x
<1>11. 2..k \in SUBSET (2..MaxTurns)
  BY <1>1, <1>9
<1>12. x \in SummaryTurns
  BY <1>9, <1>10, <1>11 DEF SummaryTurns
<1>13. x.kind = "summary" /\ x.of = 2..k
  BY <1>10
<1>14. Covers(x) = 2..k
  BY <1>13 DEF Covers
<1> QED
  BY <1>12, <1>14 DEF x, q, r, k

\* naive.py: the anchor, one summary, what is left verbatim.
LEMMA NaiveShape ==
    ASSUME NEW t, NEW s \in 1..MaxTurns, Shape(t, s, "naive"), Len(t) >= 2,
           NEW size \in SummarySizes
    PROVE  LET rest == Rest(t)
               c == Cutoff(Len(rest))
           IN  Compacted(<<t[1], SummaryTurn(SubSeq(rest, 1, c), size)>>
                            \o SubSeq(rest, c + 1, Len(rest)), t, s, "naive")
<1> DEFINE n == Len(t)
           c == Cutoff(Len(Rest(t)))
           x == SummaryTurn(SubSeq(Rest(t), 1, c), size)
           h == <<t[1], x>>
           u == h \o SubSeq(Rest(t), c + 1, Len(Rest(t)))
<1>1. MaxTurns \in Nat /\ s \in Nat /\ t \in Seq(Turns) /\ n \in 1..s /\ t[1] = TheAnchor
  BY StatelessAssumption DEF Shape
<1>2. n \in Nat /\ n >= 2 /\ n >= 1 /\ n <= s
  BY <1>1
<1>3. Len(Rest(t)) = n - 1 /\ n - 1 \in Nat \ {0}
  <2>1. Len(Rest(t)) = n - 1
    BY <1>1, <1>2, RestIs, Zenon
  <2>2. \A m \in Nat : m >= 2 => m - 1 \in Nat \ {0}
    OBVIOUS
  <2> QED
    BY <1>2, <2>1, <2>2, Zenon
<1>4. c \in 1..(n - 1)
  BY <1>3, CutoffBounds, Zenon
<1> HIDE DEF c
<1>5. x \in SummaryTurns /\ Covers(x) = 2..(s - Len(t) + 1 + c)
  BY <1>4, SummaryStandsFor
<1> HIDE DEF x
<1>6. h \in Seq(Turns) /\ Len(h) = 2 /\ h[1] = TheAnchor /\ h[2] = x
  <2>1. TheAnchor \in Turns /\ x \in Turns
    BY <1>5, TurnsAre
  <2> QED
    BY <1>1, <2>1
<1> HIDE DEF h
<1>7. c \in Nat /\ c >= 1 /\ c <= n - 1
  BY <1>2, <1>4
<1>8. Splice(u, Turns, h, t, c)
  <2>1. c \in 0..(Len(t) - 1) /\ Len(t) >= 1
    BY <1>2, <1>7
  <2> QED
    BY <1>1, <1>6, <2>1, SpliceIs
<1> HIDE DEF u
<1>9. /\ u \in Seq(Turns) /\ u[1] = TheAnchor /\ u[2] = x
      /\ Len(u) = 2 + (Len(t) - 1 - c)
      /\ \A k \in 1..(Len(t) - 1 - c) : u[2 + k] = t[1 + c + k]
  <2>1. 1 \in 1..2 /\ 2 \in 1..2
    OBVIOUS
  <2> QED
    BY <1>6, <1>8, <2>1, Zenon DEF Splice
<1>10. Len(u) \in 2..s /\ Len(u) \in 1..s /\ Len(u) > 1 /\ Len(u) # 1
  BY <1>1, <1>2, <1>7, <1>9
<1>11. ASSUME NEW i \in 3..Len(u) PROVE Shows(u[i], s - Len(u) + i)
  <2>1. i - 2 \in 1..(Len(t) - 1 - c) /\ 2 + (i - 2) = i /\ 1 + c + (i - 2) = c + i - 1
    BY <1>2, <1>7, <1>9
  <2>2. u[i] = t[c + i - 1]
    BY <1>9, <2>1
  <2>3. c + i - 1 \in 3..Len(t) /\ s - Len(t) + (c + i - 1) = s - Len(u) + i
    BY <1>1, <1>2, <1>7, <1>9
  <2>4. Shows(t[c + i - 1], s - Len(t) + (c + i - 1))
    BY <2>3 DEF Shape
  <2> QED
    BY <2>2, <2>3, <2>4
<1>12. StandsFor(u[2], s - Len(u) + 2)
  <2>1. s - Len(u) + 2 = s - Len(t) + 1 + c
    BY <1>1, <1>2, <1>7, <1>9
  <2>2. StandsFor(x, s - Len(t) + 1 + c)
    BY <1>5 DEF StandsFor
  <2> QED
    BY <1>9, <2>1, <2>2, Zenon
<1>13. "naive" # "none" /\ "naive" # "kv_evict"
  OBVIOUS
<1>14. Shape(u, s, "naive")
  BY <1>9, <1>10, <1>11, <1>12, <1>13, Zenon DEF Shape
<1>15. Len(u) <= Len(t)
  BY <1>2, <1>7, <1>9
<1>16. Compacted(u, t, s, "naive")
  BY <1>5, <1>9, <1>14, <1>15, Zenon DEF Compacted
<1> QED
  BY <1>16 DEF u, h, x, c
-----------------------------------------------------------------------------
\* The context of the first turn is the anchor alone.
LEMMA FirstShape == ASSUME NEW p, MaxTurns >= 1 PROVE Shape(Append(<<>>, TheAnchor), 1, p)
<1> DEFINE u == Append(<<>>, TheAnchor)
<1>1. TheAnchor \in Turns /\ <<>> \in Seq(Turns) /\ Len(<<>>) = 0
  BY TurnsAre
<1>2. u \in Seq(Turns) /\ Len(u) = Len(<<>>) + 1 /\ u[Len(<<>>) + 1] = TheAnchor
  BY <1>1, AppendProperties
<1> HIDE DEF u
<1>3. 0 + 1 = 1
  OBVIOUS
<1>4. Len(u) = 1 /\ u[1] = TheAnchor
  BY <1>1, <1>2, <1>3, Zenon
<1>5. 1 \in 1..1 /\ ~(1 > 1) /\ 3..1 = {}
  OBVIOUS
<1>6. Shape(u, 1, p)
  BY <1>2, <1>4, <1>5, Zenon DEF Shape
<1> QED
  BY <1>6 DEF u

\* What the replay loop hands down: the context it was given, and one turn.
LEMMA HandedShape ==
    ASSUME SInv, outcome = "running", seen < MaxTurns, NEW size \in TurnSizes
    PROVE  Shape(Handed(size), seen + 1, policy) /\ seen + 1 \in 1..MaxTurns
<1>1. MaxTurns \in Nat /\ seen \in Nat /\ seen + 1 \in 1..MaxTurns
  BY StatelessAssumption DEF SInv, TypeOK
<1>2. CASE seen = 0
  <2>1. Handed(size) = Append(<<>>, TheAnchor)
    BY <1>2, Zenon DEF Handed, TheAnchor, SInv
  <2>2. MaxTurns >= 1 /\ seen + 1 = 1
    BY <1>1, <1>2
  <2>3. Shape(Append(<<>>, TheAnchor), 1, policy)
    BY <2>2, FirstShape
  <2> QED
    BY <1>1, <2>1, <2>2, <2>3
<1>3. CASE seen # 0
  <2>1. seen \in 1..(MaxTurns - 1) /\ seen > 0
    BY <1>1, <1>3
  <2>2. Handed(size) = Append(context, Raw(seen + 1, "user", size))
    BY <1>3, Zenon DEF Handed
  <2>3. Shape(context, seen, policy)
    BY <2>1 DEF SInv, Running
  <2>4. Shape(Append(context, Raw(seen + 1, "user", size)), seen + 1, policy)
    BY <2>1, <2>3, AppendShape
  <2> QED
    BY <1>1, <2>2, <2>4, Zenon
<1> QED
  BY <1>2, <1>3

\* What a compaction sends.
LEMMA CompactionShape ==
    ASSUME SInv, NEW size \in TurnSizes,
           \/ \E sum \in SummarySizes : NaiveCompact(Handed(size), sum)
           \/ SlideWindow(Handed(size))
    PROVE  Compacted(context', Handed(size), seen + 1, policy) /\ Len(Handed(size)) >= 2
<1> DEFINE t == Handed(size)
<1>1. outcome = "running" /\ seen < MaxTurns /\ Len(t) >= 2
  BY DEF NaiveCompact, SlideWindow, Receive, OverThreshold
<1>2. Shape(t, seen + 1, policy) /\ seen + 1 \in 1..MaxTurns
  BY <1>1, HandedShape
<1> HIDE DEF t
<1>3. CASE \E sum \in SummarySizes : NaiveCompact(t, sum)
  <2> PICK sum \in SummarySizes : NaiveCompact(t, sum)
    BY <1>3
  <2> DEFINE rest == Rest(t)
             c == Cutoff(Len(rest))
             u == <<t[1], SummaryTurn(SubSeq(rest, 1, c), sum)>> \o SubSeq(rest, c + 1, Len(rest))
  <2>1. policy = "naive" /\ context' = u
    BY DEF NaiveCompact
  <2>2. Compacted(u, t, seen + 1, "naive")
    BY <1>1, <1>2, <2>1, NaiveShape
  <2> QED
    BY <1>1, <2>1, <2>2, Zenon DEF t
<1>4. CASE SlideWindow(t)
  <2>1. /\ policy = "kv_evict" /\ Len(Rest(t)) > WindowTurns
        /\ context' = <<t[1]>> \o Window(Rest(t))
    BY <1>4 DEF SlideWindow
  <2>2. Compacted(<<t[1]>> \o Window(Rest(t)), t, seen + 1, "kv_evict")
    BY <1>2, <2>1, SlideShape
  <2> QED
    BY <1>1, <2>1, <2>2, Zenon DEF t
<1> QED
  BY <1>3, <1>4 DEF t

\* What each policy sends when it does not fail.
LEMMA StepShape ==
    ASSUME SInv, NEW size \in TurnSizes,
           \/ PassThrough(Handed(size))
           \/ \E sum \in SummarySizes : NaiveCompact(Handed(size), sum)
           \/ SlideWindow(Handed(size))
    PROVE  Shape(context', seen', policy') /\ seen' \in 1..MaxTurns /\ outcome' = "running"
<1>1. outcome = "running" /\ seen < MaxTurns /\ seen' = seen + 1 /\ policy' = policy
  BY DEF PassThrough, NaiveCompact, SlideWindow, Receive
<1>2. Shape(Handed(size), seen + 1, policy) /\ seen + 1 \in 1..MaxTurns
  BY <1>1, HandedShape
<1>3. outcome' = "running"
  BY <1>1 DEF PassThrough, NaiveCompact, SlideWindow
<1>4. CASE PassThrough(Handed(size))
  <2>1. context' = Handed(size)
    BY <1>4 DEF PassThrough
  <2> QED
    BY <1>1, <1>2, <1>3, <2>1, Zenon
<1>5. CASE ~PassThrough(Handed(size))
  <2>1. Compacted(context', Handed(size), seen + 1, policy)
    BY <1>5, CompactionShape
  <2> QED
    BY <1>1, <1>2, <1>3, <2>1, Zenon DEF Compacted
<1> QED
  BY <1>4, <1>5

\* fired is a boolean, by itself: SMT does not see that of a Boolean variable.
LEMMA FiredType ==
    /\ Init => fired \in BOOLEAN
    /\ TypeOK /\ Next => fired' \in BOOLEAN
<1>1. Init => fired \in BOOLEAN
  BY Zenon DEF Init
<1>2. ASSUME TypeOK, Next PROVE fired' \in BOOLEAN
  <2>1. fired' = fired \/ fired' = TRUE \/ fired' = FALSE
    BY <1>2, Zenon DEF Next, PassThrough, NaiveCompact, NaiveSummarizerFails, SlideWindow
  <2>2. fired \in BOOLEAN
    BY <1>2 DEF TypeOK
  <2> QED
    BY <2>1, <2>2, Zenon
<1> QED
  BY <1>1, <1>2, Zenon

\* The empty context before the first turn satisfies the invariant.
LEMMA SInvInit == Init => SInv
<1> SUFFICES ASSUME Init PROVE SInv
  OBVIOUS
<1>1. 0 \in 0..MaxTurns /\ ~(0 > 0) /\ 1..0 = {}
  BY StatelessAssumption
<1>2. seen = 0 /\ context = <<>> /\ outcome = "running" /\ policy \in {"none", "naive", "kv_evict"}
  BY DEF Init
<1>3. context \in Seq(Turns) /\ Len(<<>>) = 0
  BY <1>2
<1>4. fired \in BOOLEAN
  BY FiredType
<1>5. TypeOK
  BY <1>1, <1>2, <1>3, <1>4, Zenon DEF TypeOK
<1> QED
  BY <1>1, <1>2, <1>3, <1>5, Zenon DEF SInv, Running

\* Every call of a policy keeps it.
LEMMA SInvNext ==
    ASSUME SInv, Next
    PROVE  SInv'
<1>0. fired' \in BOOLEAN
  BY FiredType DEF SInv
<1> PICK size \in TurnSizes :
        \/ PassThrough(Handed(size))
        \/ \E sum \in SummarySizes : NaiveCompact(Handed(size), sum)
        \/ NaiveSummarizerFails(Handed(size))
        \/ SlideWindow(Handed(size))
  BY Zenon DEF Next
<1>1. policy' \in {"none", "naive", "kv_evict"}
  BY DEF SInv, TypeOK, PassThrough, NaiveCompact, NaiveSummarizerFails, SlideWindow, Receive
<1>2. CASE NaiveSummarizerFails(Handed(size))
  <2>1. /\ seen < MaxTurns /\ seen' = seen + 1 /\ context' = context
        /\ outcome' = "summarizer_failed"
    BY <1>2 DEF NaiveSummarizerFails, Receive
  <2>2. seen' \in 0..MaxTurns /\ seen' # 0
    BY <2>1, StatelessAssumption DEF SInv, TypeOK
  <2>3. /\ context' \in Seq(Turns)
        /\ \A i \in 1..Len(context') : context'[i] \in Turns
    BY <2>1, Zenon DEF SInv, TypeOK
  <2>4. Turns' = Turns
    BY Zenon DEF Turns
  <2>5. TypeOK'
    BY <1>0, <1>1, <2>1, <2>2, <2>3, <2>4 DEF TypeOK
  <2>6. ~(Running')
    BY <2>1 DEF Running
  <2> QED
    BY <2>2, <2>3, <2>4, <2>5, <2>6, Zenon DEF SInv
<1>3. CASE ~NaiveSummarizerFails(Handed(size))
  <2>1. Shape(context', seen', policy') /\ seen' \in 1..MaxTurns /\ outcome' = "running"
    BY <1>3, StepShape
  <2>2. seen' \in 0..MaxTurns /\ seen' # 0
    BY <2>1, StatelessAssumption
  <2>3. context' \in Seq(Turns)
    BY <2>1, Zenon DEF Shape
  <2>4. \A i \in 1..Len(context') : context'[i] \in Turns
    BY <2>3, ElementOfSeq
  <2>5. TypeOK'
    BY <1>0, <1>1, <2>1, <2>2, <2>4 DEF TypeOK
  <2> QED
    BY <2>1, <2>2, <2>3, <2>5, Zenon DEF SInv
<1> QED
  BY <1>2, <1>3

\* Hence it holds in every reachable state.
LEMMA SInvAlways == Spec => []SInv
<1>1. SInv /\ [Next]_vars => SInv'
  <2>1. ASSUME SInv, UNCHANGED vars PROVE SInv'
    BY <2>1, Zenon DEF vars, SInv, TypeOK, Running
  <2> QED
    BY <2>1, SInvNext
<1> QED
  BY <1>1, SInvInit, PTL DEF Spec
-----------------------------------------------------------------------------
\* The types hold, whatever the sizes, the threshold and the window.
THEOREM TypeCorrect == Spec => []TypeOK
<1>1. SInv => TypeOK
  BY DEF SInv
<1> QED
  BY <1>1, SInvAlways, PTL

\* kv_evict.py:30-33: the newest turns, contiguous and up to the last one, and
\* never fewer than the window, for every window and every trajectory.
THEOREM WindowIsKept == Spec => []KeepsTheWindow
<1>1. ASSUME SInv PROVE KeepsTheWindow
  <2> SUFFICES ASSUME Running, policy = "kv_evict"
               PROVE  LET n == Len(context) - 1
                      IN  /\ \A i \in 1..n : context[i + 1].id = seen - n + i
                          /\ n >= WindowTurns \/ n = seen - 1
    BY Zenon DEF KeepsTheWindow
  <2>1. Shape(context, seen, "kv_evict")
    BY <1>1 DEF SInv
  <2>2. "kv_evict" # "naive" /\ seen \in Nat /\ Len(context) \in Nat /\ Len(context) >= 1
    BY <1>1, <2>1, StatelessAssumption DEF Shape, SInv, TypeOK
  <2>3. ASSUME NEW i \in 1..(Len(context) - 1)
        PROVE  context[i + 1].id = seen - (Len(context) - 1) + i
    <3>1. i + 1 = 2 \/ i + 1 \in 3..Len(context)
      BY <2>2
    <3>2. i + 1 = 2 => Len(context) > 1
      BY <2>2
    <3>3. Shows(context[i + 1], seen - Len(context) + (i + 1))
      BY <2>1, <2>2, <3>1, <3>2, Zenon DEF Shape
    <3>4. seen - Len(context) + (i + 1) = seen - (Len(context) - 1) + i
      BY <2>2
    <3> QED
      BY <3>3, <3>4, Zenon DEF Shows
  <2>4. Len(context) - 1 >= WindowTurns \/ Len(context) = seen
    BY <2>1 DEF Shape
  <2>5. Len(context) - 1 >= WindowTurns \/ Len(context) - 1 = seen - 1
    BY <2>4, Zenon
  <2> QED
    BY <2>3, <2>5
<1> QED
  BY <1>1, SInvAlways, PTL

\* naive.py:7-11: one summary, right behind the anchor, for everything older
\* than the turns kept verbatim; nothing is lost and nothing is told twice,
\* however many summaries were folded into the next one.
THEOREM PastIsToldOnce == Spec => []OneSummaryOfThePast
<1>1. ASSUME SInv PROVE OneSummaryOfThePast
  <2> SUFFICES ASSUME Running, policy = "naive"
               PROVE  /\ \A i \in 3..Len(context) : context[i].kind = "raw"
                      /\ \A i, j \in 2..Len(context) : i < j =>
                            \A a \in Covers(context[i]), b \in Covers(context[j]) : a < b
                      /\ UNION { Covers(context[i]) : i \in 2..Len(context) } = 2..seen
    BY Zenon DEF OneSummaryOfThePast
  <2> DEFINE n == Len(context)
             Last(i) == seen - Len(context) + i
  <2>1. Shape(context, seen, "naive")
    BY <1>1 DEF SInv
  <2>2. seen \in Nat /\ n \in Nat /\ n >= 1 /\ n <= seen /\ seen \in 1..MaxTurns
    BY <1>1, <2>1, StatelessAssumption DEF Shape, SInv, TypeOK
  <2>3. ASSUME NEW i \in 3..n
        PROVE  context[i].kind = "raw" /\ Covers(context[i]) = {Last(i)}
    <3>1. Shows(context[i], Last(i))
      BY <2>1, Zenon DEF Shape
    <3>2. context[i].kind = "raw"
      BY <3>1 DEF Shows, RawTurns
    <3> QED
      BY <3>1, <3>2, Zenon DEF Covers, Shows
  <2>4. n > 1 => Covers(context[2]) = 2..Last(2)
    BY <2>1, Zenon DEF Shape, StandsFor
  <2>5. ASSUME NEW i \in 2..n, NEW a \in Covers(context[i])
        PROVE  a \in Int /\ a <= Last(i)
    <3>1. CASE i = 2
      <4>1. n > 1
        BY <2>2, <3>1
      <4>2. a \in 2..Last(2)
        BY <2>4, <3>1, <4>1, Zenon
      <4> QED
        BY <2>2, <3>1, <4>2
    <3>2. CASE i # 2
      <4>1. i \in 3..n
        BY <2>2, <3>2
      <4>2. a = Last(i)
        BY <2>3, <4>1, Zenon
      <4> QED
        BY <2>2, <4>2
    <3> QED
      BY <3>1, <3>2
  <2>6. ASSUME NEW i \in 2..n, NEW j \in 2..n, i < j,
               NEW a \in Covers(context[i]), NEW b \in Covers(context[j])
        PROVE  a < b
    <3>1. a \in Int /\ a <= Last(i)
      BY <2>5
    <3>2. j \in 3..n
      BY <2>2, <2>6
    <3>3. b = Last(j)
      BY <2>3, <3>2, Zenon
    <3> QED
      BY <2>2, <2>6, <3>1, <3>3
  <2>7. UNION { Covers(context[i]) : i \in 2..n } = 2..seen
    <3>1. CASE n > 1
      <4>1. n - 1 \in 1..(n - 1) /\ seen - Len(context) + 1 + (n - 1) = seen
        BY <2>2, <3>1
      <4>2. UNION { Covers(context[1 + i]) : i \in 1..(n - 1) }
              = 2..(seen - Len(context) + 1 + (n - 1))
        BY <2>1, <2>2, <4>1, RetiredCover
      <4>3. ASSUME NEW i \in 2..n PROVE \E k \in 1..(n - 1) : i = 1 + k
        <5>1. i - 1 \in 1..(n - 1) /\ i = 1 + (i - 1)
          BY <2>2
        <5> QED
          BY <5>1, Zenon
      <4>4. ASSUME NEW k \in 1..(n - 1) PROVE 1 + k \in 2..n
        BY <2>2
      <4>5. UNION { Covers(context[i]) : i \in 2..n }
              = UNION { Covers(context[1 + i]) : i \in 1..(n - 1) }
        BY <4>3, <4>4, Zenon
      <4> QED
        BY <4>1, <4>2, <4>5, Zenon
    <3>2. CASE ~(n > 1)
      <4>1. \A m \in Nat : m >= 1 /\ ~(m > 1) => m = 1
        OBVIOUS
      <4>2. n = 1
        BY <2>2, <3>2, <4>1, Zenon
      <4>3. seen = 1
        BY <2>1, <4>2, Zenon DEF Shape
      <4>4. 2..1 = {}
        OBVIOUS
      <4> QED
        BY <4>2, <4>3, <4>4, Zenon
    <3> QED
      BY <3>1, <3>2
  <2> HIDE DEF Last
  <2>8. \A i \in 3..Len(context) : context[i].kind = "raw"
    BY <2>3, Zenon
  <2>9. \A i, j \in 2..Len(context) : i < j =>
            \A a \in Covers(context[i]), b \in Covers(context[j]) : a < b
    BY <2>6, Zenon
  <2> QED
    BY <2>7, <2>8, <2>9, Zenon
<1> QED
  BY <1>1, SInvAlways, PTL
-----------------------------------------------------------------------------
\* A turn shown verbatim is where its number says, whatever the policy.
LEMMA RawInPlace ==
    ASSUME NEW t, NEW s \in Nat, NEW p, Shape(t, s, p), NEW i \in 1..Len(t), t[i].kind = "raw"
    PROVE  i \in 2..Len(t) /\ t[i].id = s - Len(t) + i
<1>1. t \in Seq(Turns) /\ Len(t) \in Nat /\ t[1] = TheAnchor
  BY DEF Shape
<1>2. TheAnchor.kind = "anchor"
  BY DEF TheAnchor, Anchor
<1>3. i # 1
  BY <1>1, <1>2
<1>4. i \in 2..Len(t) /\ i \in Nat
  BY <1>1, <1>3
<1>5. CASE i = 2
  <2>1. Len(t) > 1
    BY <1>1, <1>4, <1>5
  <2>2. CASE p = "naive"
    <3>1. StandsFor(t[2], s - Len(t) + 2)
      BY <2>1, <2>2 DEF Shape
    <3>2. Covers(t[2]) = {t[2].id} /\ Covers(t[2]) = 2..(s - Len(t) + 2)
      BY <1>5, <3>1, Zenon DEF Covers, StandsFor
    <3>3. t[2].id \in Nat
      <4>1. t[2] \in RawTurns \cup SummaryTurns /\ t[2].kind = "raw"
        BY <1>5, <3>1, Zenon DEF StandsFor
      <4> QED
        BY <4>1, StatelessAssumption DEF RawTurns, SummaryTurns
    <3>4. \A k \in Int, m \in Nat : {m} = 2..k => m = k
      <4> TAKE k \in Int, m \in Nat
      <4> HAVE {m} = 2..k
      <4>1. m \in 2..k
        BY Zenon
      <4>2. k \in 2..k
        BY <4>1
      <4> QED
        BY <4>2, Zenon
    <3>5. s - Len(t) + 2 \in Int
      BY <1>1
    <3>6. t[2].id = s - Len(t) + 2
      BY <3>2, <3>3, <3>4, <3>5, Zenon
    <3> QED
      BY <1>4, <1>5, <3>6
  <2>3. CASE p # "naive"
    <3>1. Shows(t[2], s - Len(t) + 2)
      BY <2>1, <2>3 DEF Shape
    <3> QED
      BY <1>4, <1>5, <3>1 DEF Shows
  <2> QED
    BY <2>2, <2>3
<1>6. CASE i # 2
  <2>1. i \in 3..Len(t)
    BY <1>1, <1>4, <1>6
  <2>2. Shows(t[i], s - Len(t) + i)
    BY <2>1 DEF Shape
  <2> QED
    BY <1>4, <2>2, Zenon DEF Shows
<1> QED
  BY <1>5, <1>6

\* A context shows its raw turns in the order of the trajectory.
LEMMA ShapeInOrder ==
    ASSUME NEW t, NEW s \in Nat, NEW p, Shape(t, s, p)
    PROVE  Policy!RawIdsInOrder(t)
<1> SUFFICES ASSUME NEW i \in 1..Len(t), NEW j \in 1..Len(t), i < j,
                    t[i].kind = "raw", t[j].kind = "raw"
             PROVE  t[i].id < t[j].id
  BY Zenon DEF Policy!RawIdsInOrder
<1>1. t[i].id = s - Len(t) + i /\ t[j].id = s - Len(t) + j
  BY RawInPlace
<1>2. Len(t) \in Nat /\ i \in Nat /\ j \in Nat
  BY DEF Shape
<1> QED
  BY <1>1, <1>2

\* What a compaction shows verbatim was shown before, or has just come in.
LEMMA NothingComesBack ==
    ASSUME NEW t, NEW s \in 1..MaxTurns, NEW p, Shape(t, s, p),
           NEW size, NEW u, Compacted(u, Append(t, Raw(s + 1, "user", size)), s + 1, p)
    PROVE  Policy!RawIds(u) \subseteq Policy!RawIds(t) \cup {s + 1}
<1>1. MaxTurns \in Nat /\ s \in Nat /\ s + 1 \in Nat
  BY StatelessAssumption
<1>2. t \in Seq(Turns) /\ Len(t) \in Nat /\ Len(t) >= 1 /\ Len(t) <= s
  BY <1>1 DEF Shape
<1>3. Len(Append(t, Raw(s + 1, "user", size))) = Len(t) + 1
  BY <1>2
<1>4. Len(u) <= Len(t) + 1 /\ Shape(u, s + 1, p) /\ Len(u) \in Nat
  BY <1>3 DEF Compacted, Shape
<1> SUFFICES ASSUME NEW i \in 1..Len(u), u[i].kind = "raw"
             PROVE  u[i].id \in Policy!RawIds(t) \cup {s + 1}
  BY Zenon DEF Policy!RawIds
<1>5. i \in 2..Len(u) /\ u[i].id = s + 1 - Len(u) + i
  BY <1>1, <1>4, RawInPlace
<1>6. CASE i = Len(u)
  <2>1. u[i].id = s + 1
    BY <1>1, <1>4, <1>5, <1>6
  <2> QED
    BY <2>1
<1>7. CASE i # Len(u)
  <2> DEFINE k == Len(t) + 1 - Len(u) + i
  <2>1. k \in 2..Len(t) /\ k \in 1..Len(t) /\ u[i].id = s - Len(t) + k
    BY <1>1, <1>2, <1>4, <1>5, <1>7
  <2>2. p = "naive" => k \in 3..Len(t)
    <3>1. ASSUME p = "naive" PROVE i # 2
      <4>1. u[2] \in SummaryTurns
        BY <3>1 DEF Compacted
      <4>2. u[2].kind = "summary"
        BY <4>1 DEF SummaryTurns
      <4> QED
        BY <4>2
    <3> QED
      BY <1>2, <1>4, <1>5, <1>7, <3>1
  <2> HIDE DEF k
  <2>3. Shows(t[k], s - Len(t) + k)
    <3>1. CASE k \in 3..Len(t)
      BY <3>1 DEF Shape
    <3>2. CASE ~(k \in 3..Len(t))
      <4>1. k = 2 /\ Len(t) > 1 /\ p # "naive"
        BY <1>2, <2>1, <2>2, <3>2
      <4> QED
        BY <4>1 DEF Shape
    <3> QED
      BY <3>1, <3>2
  <2>4. t[k].kind = "raw" /\ t[k].id = u[i].id
    BY <2>1, <2>3 DEF Shows, RawTurns
  <2> QED
    BY <2>1, <2>4, Zenon DEF Policy!RawIds
<1> QED
  BY <1>6, <1>7

\* The loop hands down one more turn; below the threshold it is sent as it is.
LEMMA PassThroughPasses ==
    ASSUME SInv, NEW size \in TurnSizes, PassThrough(Handed(size))
    PROVE  IF seen = 0 THEN Policy!Start ELSE Policy!PassThrough
<1>1. /\ outcome = "running" /\ seen < MaxTurns /\ seen' = seen + 1 /\ outcome' = outcome
      /\ context' = Handed(size) /\ fired' = FALSE
  BY DEF PassThrough, Receive
<1>2. (outcome # "running") = FALSE /\ (outcome' # "running") = (outcome # "running")
  BY <1>1, Zenon
<1>3. seen \in Nat
  BY StatelessAssumption DEF SInv, TypeOK
<1>4. CASE seen = 0
  <2>1. context' = Append(<<>>, TheAnchor)
    BY <1>1, <1>4, Zenon DEF Handed, TheAnchor, SInv
  <2>2. Len(context') = 1 /\ context'[1] = TheAnchor
    BY <2>1
  <2>3. context'[1].kind = "anchor"
    BY <2>2 DEF TheAnchor, Anchor
  <2>4. seen' = 1
    BY <1>1, <1>4
  <2>5. Policy!Start
    BY <1>1, <1>2, <1>4, <2>2, <2>3, <2>4, Zenon DEF Policy!Start
  <2> QED
    BY <1>4, <2>5
<1>5. CASE seen # 0
  <2> DEFINE x == Raw(seen + 1, "user", size)
  <2>1. context' = Append(context, x)
    BY <1>1, <1>5, Zenon DEF Handed
  <2>2. x.kind = "raw" /\ x.id = seen + 1
    BY DEF Raw
  <2> HIDE DEF x
  <2>3. context \in Seq(Turns \cup {x}) /\ x \in Turns \cup {x} /\ Len(context) \in Nat
    BY SeqMonotonic, LenProperties DEF SInv
  <2>4. /\ Len(context') = Len(context) + 1
        /\ \A i \in 1..Len(context) : context'[i] = context[i]
        /\ context'[Len(context) + 1] = x
    BY <2>1, <2>3, AppendProperties
  <2>5. seen > 0
    BY <1>3, <1>5
  <2>6. /\ context'[Len(context')].kind = "raw"
        /\ context'[Len(context')].id = seen'
    BY <1>1, <2>2, <2>4, Zenon
  <2>7. Policy!PassThrough
    BY <1>1, <1>2, <2>4, <2>5, <2>6, Zenon DEF Policy!PassThrough, Policy!Receive
  <2> QED
    BY <1>5, <2>7
<1> QED
  BY <1>4, <1>5

\* A call of naive or kv_evict that compacts is the contract's Compact.
LEMMA CompactionCompacts ==
    ASSUME SInv, NEW size \in TurnSizes,
           \/ \E sum \in SummarySizes : NaiveCompact(Handed(size), sum)
           \/ SlideWindow(Handed(size))
    PROVE  Policy!Compact
<1>1. /\ outcome = "running" /\ seen < MaxTurns /\ seen' = seen + 1 /\ outcome' = outcome
      /\ fired' = TRUE
  BY DEF NaiveCompact, SlideWindow, Receive
<1>2. (outcome # "running") = FALSE /\ (outcome' # "running") = (outcome # "running")
  BY <1>1, Zenon
<1>3. seen \in Nat /\ MaxTurns \in Nat
  BY StatelessAssumption DEF SInv, TypeOK
<1>4. Compacted(context', Handed(size), seen + 1, policy) /\ Len(Handed(size)) >= 2
  BY CompactionShape
<1>5. seen # 0
  <2>1. ASSUME seen = 0 PROVE FALSE
    <3>1. Handed(size) = Append(<<>>, TheAnchor)
      BY <2>1, Zenon DEF Handed, TheAnchor, SInv
    <3>2. Len(Handed(size)) = 1
      BY <3>1
    <3> QED
      BY <1>4, <3>2
  <2> QED
    BY <2>1
<1>6. seen > 0 /\ seen \in 1..MaxTurns /\ seen + 1 \in Nat
  BY <1>1, <1>3, <1>5
<1>7. Handed(size) = Append(context, Raw(seen + 1, "user", size))
  BY <1>5, Zenon DEF Handed
<1>8. Shape(context, seen, policy) /\ Shape(context', seen + 1, policy)
  BY <1>1, <1>4, <1>6, Zenon DEF SInv, Running, Compacted
<1>9. Len(context') > 0 /\ context'[1] = context[1]
  BY <1>6, <1>8 DEF Shape
<1>10. Policy!RawIds(context') \subseteq Policy!RawIds(context) \cup {seen + 1}
  BY <1>4, <1>6, <1>7, <1>8, NothingComesBack
<1>11. Policy!RawIdsInOrder(context')
  BY <1>6, <1>8, ShapeInOrder
<1> QED
  BY <1>1, <1>2, <1>6, <1>9, <1>10, <1>11, Zenon DEF Policy!Compact, Policy!Receive

\* policies/base.py: none, naive and kv_evict keep what a CompactionPolicy
\* promises the replay loop: the anchor stays in front, a step that says it did
\* not fire only appended, and a turn that is gone never comes back.
THEOREM Implementation == Spec => ImplementsPolicy
<1>1. Init => Policy!Init
  BY DEF Init, Policy!Init
<1>2. SInv /\ [Next]_vars => [Policy!Next]_(Policy!vars)
  <2> SUFFICES ASSUME SInv, [Next]_vars PROVE [Policy!Next]_(Policy!vars)
    OBVIOUS
  <2>1. ASSUME NEW size \in TurnSizes, PassThrough(Handed(size)) PROVE Policy!Next
    BY <2>1, PassThroughPasses DEF Policy!Next
  <2>2. ASSUME NEW size \in TurnSizes,
               \/ \E sum \in SummarySizes : NaiveCompact(Handed(size), sum)
               \/ SlideWindow(Handed(size))
        PROVE  Policy!Next
    BY <2>2, CompactionCompacts DEF Policy!Next
  <2>3. ASSUME NEW size \in TurnSizes, NaiveSummarizerFails(Handed(size)) PROVE Policy!Next
    <3>1. /\ outcome = "running" /\ seen < MaxTurns /\ seen' = seen + 1
          /\ context' = context /\ fired' = fired /\ outcome' = "summarizer_failed"
          /\ Len(Handed(size)) >= 2
      BY <2>3, Zenon DEF NaiveSummarizerFails, Receive, OverThreshold
    <3>2. seen \in Nat
      BY StatelessAssumption DEF SInv, TypeOK
    <3>3. seen # 0
      <4>1. ASSUME seen = 0 PROVE FALSE
        <5>1. Handed(size) = Append(<<>>, TheAnchor)
          BY <4>1, Zenon DEF Handed, TheAnchor, SInv
        <5>2. Len(Handed(size)) = 1
          BY <5>1
        <5> QED
          BY <3>1, <5>2
      <4> QED
        BY <4>1
    <3>4. seen > 0
      BY <3>2, <3>3
    <3>5. (outcome' # "running") = TRUE /\ (outcome # "running") = FALSE
      BY <3>1
    <3> QED
      BY <3>1, <3>4, <3>5, Zenon DEF Policy!Next, Policy!Raise, Policy!Receive
  <2>4. CASE UNCHANGED vars
    BY <2>4 DEF vars, Policy!vars
  <2> QED
    BY <2>1, <2>2, <2>3, <2>4 DEF Next
<1> QED
  BY <1>1, <1>2, SInvAlways, PTL DEF Spec, ImplementsPolicy, Policy!Spec
-----------------------------------------------------------------------------
\* The tokens of each turn of a context.
Sizes(t) == [i \in 1..Len(t) |-> t[i].size]

\* They are natural numbers, one per turn.
LEMMA SizesAre ==
    ASSUME NEW t \in Seq(Turns)
    PROVE  Sizes(t) \in Seq(Nat) /\ Len(Sizes(t)) = Len(t) /\ PromptLen(t) = TotalOf(Sizes(t))
<1>1. Len(t) \in Nat /\ \A i \in 1..Len(t) : t[i] \in Turns
  BY LenProperties, ElementOfSeq
<1>2. \A x \in Turns : x.size \in Nat
  BY StatelessAssumption DEF Turns
<1>3. Sizes(t) \in [1..Len(t) -> Nat]
  BY <1>1, <1>2 DEF Sizes
<1>4. Sizes(t) \in Seq(Nat) /\ Len(Sizes(t)) = Len(t)
  BY <1>1, <1>3
<1> QED
  BY <1>4, Zenon DEF PromptLen, Sizes

\* The prompt of one turn more.
LEMMA PromptLenAppend ==
    ASSUME NEW t \in Seq(Turns), NEW x \in Turns
    PROVE  /\ PromptLen(Append(t, x)) = PromptLen(t) + x.size
           /\ PromptLen(t) \in Nat /\ x.size \in Nat
<1> DEFINE u == Append(t, x)
<1>1. /\ u \in Seq(Turns) /\ Len(u) = Len(t) + 1 /\ Len(t) \in Nat
      /\ (\A i \in 1..Len(t) : u[i] = t[i]) /\ u[Len(t) + 1] = x
  BY AppendProperties, LenProperties
<1>2. x.size \in Nat
  BY StatelessAssumption DEF Turns
<1> HIDE DEF u
<1>3. Sizes(t) \in Seq(Nat) /\ Len(Sizes(t)) = Len(t) /\ Sizes(u) \in Seq(Nat)
          /\ Len(Sizes(u)) = Len(u)
  BY <1>1, SizesAre
<1>4. /\ Append(Sizes(t), x.size) \in Seq(Nat) /\ Len(Append(Sizes(t), x.size)) = Len(t) + 1
      /\ \A i \in 1..Len(t) : Append(Sizes(t), x.size)[i] = Sizes(t)[i]
      /\ Append(Sizes(t), x.size)[Len(t) + 1] = x.size
  BY <1>2, <1>3, AppendProperties
<1>5. ASSUME NEW i \in 1..(Len(t) + 1) PROVE Sizes(u)[i] = Append(Sizes(t), x.size)[i]
  <2>1. Sizes(u)[i] = u[i].size
    BY <1>1 DEF Sizes
  <2>2. CASE i = Len(t) + 1
    BY <1>1, <1>4, <2>1, <2>2
  <2>3. CASE i # Len(t) + 1
    <3>1. i \in 1..Len(t)
      BY <1>1, <2>3
    <3>2. Sizes(t)[i] = t[i].size
      BY <3>1 DEF Sizes
    <3> QED
      BY <1>1, <1>4, <2>1, <3>1, <3>2, Zenon
  <2> QED
    BY <2>2, <2>3
<1>6. Sizes(u) = Append(Sizes(t), x.size)
  <2>1. \A p, q \in Seq(Nat) : Len(p) = Len(q) /\ (\A i \in 1..Len(p) : p[i] = q[i]) => p = q
    BY ONLY SeqEqual
  <2>2. Len(Sizes(u)) = Len(t) + 1
    BY <1>1, <1>3, Zenon
  <2> QED
    BY <1>3, <1>4, <1>5, <2>1, <2>2, Zenon
<1>7. TotalOf(Append(Sizes(t), x.size)) = TotalOf(Sizes(t)) + x.size /\ TotalOf(Sizes(t)) \in Nat
  BY <1>2, <1>3, TotalAppend
<1>8. PromptLen(u) = TotalOf(Sizes(u)) /\ PromptLen(t) = TotalOf(Sizes(t))
  BY <1>1, SizesAre
<1> QED
  BY <1>2, <1>6, <1>7, <1>8, Zenon DEF u

\* The prompt of no turn.
LEMMA PromptLenEmpty == PromptLen(<<>>) = 0
<1>1. Len(<<>>) = 0 /\ 1..0 = {}
  OBVIOUS
<1>2. <<>> \in Seq(Turns)
  OBVIOUS
<1>3. Sizes(<<>>) \in Seq(Nat) /\ Len(Sizes(<<>>)) = 0 /\ PromptLen(<<>>) = TotalOf(Sizes(<<>>))
  BY <1>1, <1>2, SizesAre
<1>4. Sizes(<<>>) = <<>>
  BY <1>3, EmptySeq
<1> QED
  BY <1>3, <1>4, TotalEmpty

\* The prompt of two parts, one behind the other.
LEMMA PromptLenConcat ==
    ASSUME NEW s \in Seq(Turns), NEW t \in Seq(Turns)
    PROVE  PromptLen(s \o t) = PromptLen(s) + PromptLen(t)
<1> DEFINE D == { v \in Seq(Turns) : PromptLen(s \o v) = PromptLen(s) + PromptLen(v) }
<1>0. TheAnchor \in Turns
  BY TurnsAre
<1>1. PromptLen(s) \in Nat
  BY <1>0, PromptLenAppend
<1>2. <<>> \in D
  <2>1. s \o <<>> = s
    BY ConcatEmptySeq
  <2>2. <<>> \in Seq(Turns)
    OBVIOUS
  <2> QED
    BY <1>1, <2>1, <2>2, PromptLenEmpty
<1>3. ASSUME NEW v \in Seq(Turns), v \in D, NEW x \in Turns PROVE Append(v, x) \in D
  <2>1. s \o Append(v, x) = Append(s \o v, x)
    BY ConcatAppend
  <2>2. s \o v \in Seq(Turns) /\ Append(v, x) \in Seq(Turns)
    BY ConcatProperties, AppendProperties
  <2>3. PromptLen(Append(s \o v, x)) = PromptLen(s \o v) + x.size /\ x.size \in Nat
    BY <2>2, PromptLenAppend
  <2>4. PromptLen(Append(v, x)) = PromptLen(v) + x.size /\ PromptLen(v) \in Nat
    BY PromptLenAppend
  <2>5. PromptLen(s \o v) = PromptLen(s) + PromptLen(v)
    BY <1>3
  <2>6. PromptLen(s \o Append(v, x)) = PromptLen(s) + PromptLen(Append(v, x))
    BY <1>1, <2>1, <2>3, <2>4, <2>5
  <2> QED
    BY <2>2, <2>6
<1>4. Seq(Turns) \subseteq D
  <2>1. \A v \in Seq(Turns), x \in Turns : v \in D => Append(v, x) \in D
    BY <1>3
  <2> HIDE DEF D
  <2> QED
    BY <1>2, <2>1, SeqInduction
<1> QED
  BY <1>4

\* n turns of at least a and at most b tokens.
LEMMA PromptLenBounds ==
    ASSUME NEW S, S \subseteq Turns, NEW a \in Nat, NEW b \in Nat,
           \A x \in S : a <= x.size /\ x.size <= b,
           NEW t \in Seq(S)
    PROVE  Len(t) * a <= PromptLen(t) /\ PromptLen(t) <= Len(t) * b /\ PromptLen(t) \in Nat
<1> DEFINE D == { v \in Seq(S) : Len(v) * a <= PromptLen(v) /\ PromptLen(v) <= Len(v) * b
                                 /\ PromptLen(v) \in Nat }
<1>1. <<>> \in D
  <2>1. Len(<<>>) = 0 /\ 0 * a = 0 /\ 0 * b = 0 /\ <<>> \in Seq(S)
    OBVIOUS
  <2> QED
    BY <2>1, PromptLenEmpty
<1>2. ASSUME NEW v \in Seq(S), v \in D, NEW x \in S PROVE Append(v, x) \in D
  <2>1. Append(v, x) \in Seq(S) /\ Len(Append(v, x)) = Len(v) + 1 /\ Len(v) \in Nat
    BY AppendProperties, LenProperties
  <2>2. v \in Seq(Turns) /\ x \in Turns
    BY SeqMonotonic
  <2>3. PromptLen(Append(v, x)) = PromptLen(v) + x.size /\ x.size \in Nat
    BY <2>2, PromptLenAppend
  <2>4. a <= x.size /\ x.size <= b
    OBVIOUS
  <2>5. Len(v) * a <= PromptLen(v) /\ PromptLen(v) <= Len(v) * b /\ PromptLen(v) \in Nat
    BY <1>2
  <2>6. \A n \in Nat : (n + 1) * a = n * a + a /\ (n + 1) * b = n * b + b /\ n * a \in Nat
            /\ n * b \in Nat
    OBVIOUS
  <2>7. Len(Append(v, x)) * a = Len(v) * a + a /\ Len(Append(v, x)) * b = Len(v) * b + b
        /\ Len(v) * a \in Nat /\ Len(v) * b \in Nat
    BY <2>1, <2>6, Zenon
  <2> HIDE DEF D
  <2>8. /\ Len(Append(v, x)) * a <= PromptLen(Append(v, x))
        /\ PromptLen(Append(v, x)) <= Len(Append(v, x)) * b
        /\ PromptLen(Append(v, x)) \in Nat
    <3>1. \A p, q, m, l, h \in Nat : p <= m /\ m <= q /\ a <= l /\ l <= b
              => p + a <= m + l /\ m + l <= q + b /\ m + l \in Nat
      OBVIOUS
    <3>2. /\ Len(v) * a + a <= PromptLen(v) + x.size
          /\ PromptLen(v) + x.size <= Len(v) * b + b
          /\ PromptLen(v) + x.size \in Nat
      BY <2>3, <2>4, <2>5, <2>7, <3>1
    <3> QED
      BY <2>3, <2>7, <3>2, Zenon
  <2> QED
    BY <2>1, <2>8, Zenon DEF D
<1>3. Seq(S) \subseteq D
  <2>1. \A v \in Seq(S), x \in S : v \in D => Append(v, x) \in D
    BY <1>2
  <2> HIDE DEF D
  <2> QED
    BY <1>1, <2>1, SeqInduction
<1> QED
  BY <1>3
-----------------------------------------------------------------------------
\* turns[d:]
Suffix(t, d) == SubSeq(t, d + 1, Len(t))

\* What it consists of.
LEMMA SuffixIs ==
    ASSUME NEW S, NEW t \in Seq(S), NEW d \in 0..Len(t)
    PROVE  /\ Suffix(t, d) \in Seq(S) /\ Len(Suffix(t, d)) = Len(t) - d
           /\ \A k \in 1..(Len(t) - d) : Suffix(t, d)[k] = t[d + k]
<1>1. Len(t) \in Nat /\ d \in Nat /\ d <= Len(t)
  BY LenProperties
<1>2. d + 1 \in Int /\ Len(t) \in Int /\ \A i \in (d + 1)..Len(t) : t[i] \in S
  BY <1>1, ElementOfSeq
<1> DEFINE v == SubSeq(t, d + 1, Len(t))
<1>3. /\ v \in Seq(S)
      /\ Len(v) = IF d + 1 <= Len(t) THEN Len(t) - (d + 1) + 1 ELSE 0
      /\ \A k \in 1..(Len(t) - (d + 1) + 1) : v[k] = t[(d + 1) + k - 1]
  BY <1>2, SubSeqProperties
<1> HIDE DEF v
<1>4. Len(v) = Len(t) - d
  BY <1>1, <1>3
<1>5. ASSUME NEW k \in 1..(Len(t) - d) PROVE v[k] = t[d + k]
  <2>1. k \in 1..(Len(t) - (d + 1) + 1) /\ (d + 1) + k - 1 = d + k
    BY <1>1
  <2> QED
    BY <1>3, <2>1
<1> QED
  BY <1>3, <1>4, <1>5 DEF v, Suffix

\* What stands behind the dth element of t stands behind the eth of u.
EndAlike(t, d, u, e) ==
    Len(t) - d = Len(u) - e /\ \A k \in 1..(Len(t) - d) : t[d + k] = u[e + k]

\* Two lists that end alike.
LEMMA SuffixesEqual ==
    ASSUME NEW S, NEW t \in Seq(S), NEW u \in Seq(S), NEW d \in 0..Len(t), NEW e \in 0..Len(u),
           EndAlike(t, d, u, e)
    PROVE  Suffix(t, d) = Suffix(u, e)
<1>1. /\ Suffix(t, d) \in Seq(S) /\ Len(Suffix(t, d)) = Len(t) - d
      /\ \A k \in 1..(Len(t) - d) : Suffix(t, d)[k] = t[d + k]
  BY SuffixIs
<1>2. /\ Suffix(u, e) \in Seq(S) /\ Len(Suffix(u, e)) = Len(u) - e
      /\ \A k \in 1..(Len(u) - e) : Suffix(u, e)[k] = u[e + k]
  BY SuffixIs
<1>3. \A p, q \in Seq(S) : Len(p) = Len(q) /\ (\A i \in 1..Len(p) : p[i] = q[i]) => p = q
  BY ONLY SeqEqual
<1>4. \A k \in 1..(Len(t) - d) : Suffix(t, d)[k] = Suffix(u, e)[k]
  BY <1>1, <1>2, Zenon DEF EndAlike
<1>5. Len(Suffix(t, d)) = Len(Suffix(u, e))
  BY <1>1, <1>2, Zenon DEF EndAlike
<1> QED
  BY <1>1, <1>2, <1>3, <1>4, <1>5, Zenon

\* One turn more at the end.
LEMMA SuffixAppend ==
    ASSUME NEW S, NEW t \in Seq(S), NEW x \in S, NEW d \in 0..Len(t)
    PROVE  Suffix(Append(t, x), d) = Append(Suffix(t, d), x)
<1> DEFINE u == Append(t, x)
           p == Suffix(u, d)
           q == Append(Suffix(t, d), x)
           n == Len(t) - d
<1>1. /\ u \in Seq(S) /\ Len(u) = Len(t) + 1 /\ Len(t) \in Nat
      /\ (\A i \in 1..Len(t) : u[i] = t[i]) /\ u[Len(t) + 1] = x
  BY AppendProperties, LenProperties
<1>2. d \in 0..Len(u) /\ n \in Nat /\ Len(u) - d = n + 1 /\ d \in Nat /\ d <= Len(t)
  BY <1>1
<1> HIDE DEF u
<1>3. p \in Seq(S) /\ Len(p) = n + 1 /\ \A k \in 1..(n + 1) : p[k] = u[d + k]
  BY <1>1, <1>2, SuffixIs, ZenonT(60)
<1>4. /\ Suffix(t, d) \in Seq(S) /\ Len(Suffix(t, d)) = n
      /\ \A k \in 1..n : Suffix(t, d)[k] = t[d + k]
  BY SuffixIs
<1>5. /\ q \in Seq(S) /\ Len(q) = n + 1 /\ q[n + 1] = x
      /\ \A k \in 1..n : q[k] = Suffix(t, d)[k]
  BY <1>4, AppendProperties
<1> HIDE DEF p, q
<1>6. ASSUME NEW k \in 1..(n + 1) PROVE p[k] = q[k]
  <2>1. CASE k = n + 1
    <3>1. d + k = Len(t) + 1
      BY <1>1, <1>2, <2>1
    <3>2. p[k] = x
      BY <1>1, <1>3, <3>1, Zenon
    <3> QED
      BY <1>5, <2>1, <3>2, Zenon
  <2>2. CASE k # n + 1
    <3>1. k \in 1..n /\ d + k \in 1..Len(t)
      BY <1>1, <1>2, <2>2
    <3>2. p[k] = t[d + k]
      BY <1>1, <1>3, <3>1, Zenon
    <3> QED
      BY <1>4, <1>5, <3>1, <3>2, Zenon
  <2> QED
    BY <2>1, <2>2
<1>7. \A v, w \in Seq(S) : Len(v) = Len(w) /\ (\A i \in 1..Len(v) : v[i] = w[i]) => v = w
  BY ONLY SeqEqual
<1> HIDE DEF n
<1>8. p = q
  BY <1>3, <1>5, <1>6, <1>7, Zenon
<1> QED
  BY <1>8 DEF p, q, u

\* One turn less in front.
LEMMA SuffixStep ==
    ASSUME NEW S, NEW t \in Seq(S), NEW d \in 0..(Len(t) - 1)
    PROVE  Suffix(t, d) = <<t[d + 1]>> \o Suffix(t, d + 1) /\ t[d + 1] \in S
<1> DEFINE x == t[d + 1]
           p == Suffix(t, d)
           r == Suffix(t, d + 1)
           h == <<x>>
           q == h \o r
           n == Len(t) - d
<1>1. /\ Len(t) \in Nat /\ d \in 0..Len(t) /\ d + 1 \in 0..Len(t) /\ d + 1 \in 1..Len(t)
      /\ n \in Nat /\ n >= 1 /\ Len(t) - (d + 1) = n - 1 /\ d \in Nat
  BY LenProperties
<1>2. x \in S
  BY <1>1, ElementOfSeq
<1>3. p \in Seq(S) /\ Len(p) = n /\ \A k \in 1..n : p[k] = t[d + k]
  BY <1>1, SuffixIs, ZenonT(60)
<1>4. r \in Seq(S) /\ Len(r) = n - 1 /\ \A k \in 1..(n - 1) : r[k] = t[(d + 1) + k]
  <2>1. /\ r \in Seq(S) /\ Len(r) = Len(t) - (d + 1)
        /\ \A k \in 1..(Len(t) - (d + 1)) : r[k] = t[(d + 1) + k]
    BY <1>1, SuffixIs
  <2> QED
    BY <1>1, <2>1, Zenon
<1>5. h \in Seq(S) /\ Len(h) = 1 /\ h[1] = x
  BY <1>2
<1> HIDE DEF h, r, p, x
<1>6. /\ q \in Seq(S) /\ Len(q) = Len(h) + Len(r)
      /\ \A i \in 1..(Len(h) + Len(r)) : q[i] = IF i <= Len(h) THEN h[i] ELSE r[i - Len(h)]
  <2>1. \A v, w \in Seq(S) :
            /\ v \o w \in Seq(S) /\ Len(v \o w) = Len(v) + Len(w)
            /\ \A i \in 1..(Len(v) + Len(w)) : (v \o w)[i]
                      = IF i <= Len(v) THEN v[i] ELSE w[i - Len(v)]
    BY ONLY ConcatProperties
  <2> QED
    BY <1>4, <1>5, <2>1, Zenon
<1> HIDE DEF q
<1>7. Len(h) + Len(r) = n
  BY <1>1, <1>4, <1>5
<1> HIDE DEF n
<1>8. ASSUME NEW i \in 1..n PROVE p[i] = q[i]
  <2>1. p[i] = t[d + i]
    BY <1>3
  <2>2. q[i] = IF i <= 1 THEN h[i] ELSE r[i - 1]
    BY <1>5, <1>6, <1>7, Zenon
  <2>3. CASE i = 1
    <3>1. q[i] = x /\ d + i = d + 1
      BY <1>5, <2>2, <2>3
    <3> QED
      BY <2>1, <3>1 DEF x
  <2>4. CASE i # 1
    <3>1. i - 1 \in 1..(n - 1) /\ ~(i <= 1) /\ (d + 1) + (i - 1) = d + i
      BY <1>1, <2>4
    <3>2. q[i] = r[i - 1]
      BY <2>2, <3>1, Zenon
    <3> QED
      BY <1>4, <2>1, <3>1, <3>2, Zenon
  <2> QED
    BY <2>3, <2>4
<1>9. \A v, w \in Seq(S) : Len(v) = Len(w) /\ (\A i \in 1..Len(v) : v[i] = w[i]) => v = w
  BY ONLY SeqEqual
<1>10. p = q
  BY <1>3, <1>6, <1>7, <1>8, <1>9, Zenon
<1> QED
  BY <1>2, <1>10 DEF p, q, h, r, x

\* The tokens of what stands behind the dth turn.
Later(t, d) == PromptLen(Suffix(t, d))

\* Every turn adds its own, and the last has none behind it.
LEMMA LaterStep ==
    ASSUME NEW t \in Seq(Turns), NEW d \in 0..Len(t)
    PROVE  /\ Later(t, d) \in Nat
           /\ d = Len(t) => Later(t, d) = 0
           /\ d < Len(t) => /\ Later(t, d) = t[d + 1].size + Later(t, d + 1)
                            /\ Later(t, d + 1) \in Nat /\ t[d + 1].size \in Nat
<1>0. TheAnchor \in Turns /\ Len(t) \in Nat /\ d \in Nat /\ d <= Len(t)
  BY TurnsAre, LenProperties
<1>1. \A e \in 0..Len(t) : Later(t, e) \in Nat
  <2> TAKE e \in 0..Len(t)
  <2>1. Suffix(t, e) \in Seq(Turns)
    BY SuffixIs
  <2> QED
    BY <1>0, <2>1, PromptLenAppend DEF Later
<1>2. ASSUME d = Len(t) PROVE Later(t, d) = 0
  <2>1. Suffix(t, d) \in Seq(Turns) /\ Len(Suffix(t, d)) = Len(t) - d
    BY SuffixIs
  <2>2. Len(Suffix(t, d)) = 0
    BY <1>0, <1>2, <2>1
  <2>3. Suffix(t, d) = <<>>
    BY <2>1, <2>2, EmptySeq
  <2> QED
    BY <2>3, PromptLenEmpty DEF Later
<1>3. ASSUME d < Len(t)
      PROVE  /\ Later(t, d) = t[d + 1].size + Later(t, d + 1)
             /\ Later(t, d + 1) \in Nat /\ t[d + 1].size \in Nat
  <2> DEFINE x == t[d + 1]
  <2>1. d \in 0..(Len(t) - 1) /\ d + 1 \in 0..Len(t)
    BY <1>0, <1>3
  <2>2. Suffix(t, d) = <<x>> \o Suffix(t, d + 1) /\ x \in Turns
    BY <2>1, SuffixStep
  <2> HIDE DEF x
  <2>3. Suffix(t, d + 1) \in Seq(Turns) /\ <<x>> \in Seq(Turns)
    BY <2>1, <2>2, SuffixIs
  <2>4. PromptLen(<<x>>) = x.size /\ x.size \in Nat
    <3>1. Append(<<>>, x) = <<x>> /\ <<>> \in Seq(Turns)
      OBVIOUS
    <3>2. PromptLen(Append(<<>>, x)) = PromptLen(<<>>) + x.size /\ x.size \in Nat
      BY <2>2, <3>1, PromptLenAppend
    <3> QED
      BY <3>1, <3>2, PromptLenEmpty
  <2>5. PromptLen(<<x>> \o Suffix(t, d + 1)) = PromptLen(<<x>>) + PromptLen(Suffix(t, d + 1))
    BY <2>3, PromptLenConcat
  <2>6. Later(t, d + 1) \in Nat
    BY <1>1, <2>1
  <2> QED
    BY <2>2, <2>4, <2>5, <2>6, Zenon DEF Later, x
<1> QED
  BY <1>0, <1>1, <1>2, <1>3

\* There is less behind a later turn.
LEMMA LaterFalls ==
    ASSUME NEW t \in Seq(Turns), NEW d \in 0..Len(t), NEW e \in d..Len(t)
    PROVE  Later(t, e) <= Later(t, d)
<1> DEFINE D == { n \in Nat : d + n <= Len(t) => Later(t, d + n) <= Later(t, d) }
<1>0. Len(t) \in Nat /\ d \in Nat /\ d <= Len(t) /\ Later(t, d) \in Nat
  BY LenProperties, LaterStep
<1>1. 0 \in D
  BY <1>0
<1>2. ASSUME NEW n \in Nat, n \in D PROVE n + 1 \in D
  <2> SUFFICES ASSUME d + (n + 1) <= Len(t) PROVE Later(t, d + (n + 1)) <= Later(t, d)
    OBVIOUS
  <2>1. d + n \in 0..Len(t) /\ d + n < Len(t) /\ (d + n) + 1 = d + (n + 1) /\ d + n <= Len(t)
    BY <1>0
  <2>2. /\ Later(t, d + n) = t[(d + n) + 1].size + Later(t, (d + n) + 1)
        /\ Later(t, (d + n) + 1) \in Nat /\ t[(d + n) + 1].size \in Nat
    BY <2>1, LaterStep
  <2>3. Later(t, d + n) <= Later(t, d)
    BY <1>2, <2>1
  <2>4. Later(t, (d + n) + 1) <= Later(t, d)
    BY <1>0, <2>2, <2>3
  <2> QED
    BY <2>1, <2>4
<1>3. Nat \subseteq D
  <2> HIDE DEF D
  <2> QED
    BY <1>1, <1>2, Induction
<1>4. e - d \in Nat /\ d + (e - d) = e /\ e <= Len(t)
  BY <1>0
<1>5. d + (e - d) <= Len(t) => Later(t, d + (e - d)) <= Later(t, d)
  BY <1>3, <1>4
<1> QED
  BY <1>4, <1>5

\* A prompt: the anchor, the turn behind it, and the rest.
LEMMA PromptIs ==
    ASSUME NEW t \in Seq(Turns), Len(t) >= 1, t[1] = TheAnchor
    PROVE  /\ PromptLen(t) = AnchorSize + Later(t, 1) /\ Later(t, 1) \in Nat
           /\ Len(t) = 1 => PromptLen(t) = AnchorSize
           /\ Len(t) >= 2 => /\ PromptLen(t) = AnchorSize + t[2].size + Later(t, 2)
                             /\ Later(t, 2) \in Nat /\ t[2].size \in Nat
<1>0. Len(t) \in Nat /\ AnchorSize \in Nat /\ TheAnchor.size = AnchorSize
  BY LenProperties, StatelessAssumption DEF TheAnchor, Anchor
<1>1. 0 \in 0..Len(t) /\ 1 \in 0..Len(t) /\ 0 < Len(t) /\ 0 + 1 = 1 /\ 1 + 1 = 2
  BY <1>0
<1>2. Suffix(t, 0) = t
  <2>1. /\ Suffix(t, 0) \in Seq(Turns) /\ Len(Suffix(t, 0)) = Len(t) - 0
        /\ \A k \in 1..(Len(t) - 0) : Suffix(t, 0)[k] = t[0 + k]
    BY <1>1, SuffixIs
  <2>2. Len(t) - 0 = Len(t) /\ \A k \in 1..Len(t) : 0 + k = k
    BY <1>0
  <2>3. Len(Suffix(t, 0)) = Len(t) /\ \A k \in 1..Len(t) : Suffix(t, 0)[k] = t[k]
    BY <2>1, <2>2
  <2>4. \A v, w \in Seq(Turns) : Len(v) = Len(w) /\ (\A i \in 1..Len(v) : v[i] = w[i]) => v = w
    BY ONLY SeqEqual
  <2> QED
    BY <2>1, <2>3, <2>4, Zenon
<1>3. Later(t, 0) = t[0 + 1].size + Later(t, 0 + 1) /\ Later(t, 0 + 1) \in Nat
  BY <1>1, LaterStep
<1>4. PromptLen(t) = AnchorSize + Later(t, 1) /\ Later(t, 1) \in Nat
  BY <1>0, <1>1, <1>2, <1>3 DEF Later
<1>5. Len(t) = 1 => Later(t, 1) = 0
  BY <1>1, LaterStep
<1>6. ASSUME Len(t) >= 2
      PROVE  Later(t, 1) = t[2].size + Later(t, 2) /\ Later(t, 2) \in Nat /\ t[2].size \in Nat
  <2>1. 1 < Len(t)
    BY <1>0, <1>6
  <2>2. Later(t, 1) = t[1 + 1].size + Later(t, 1 + 1) /\ Later(t, 1 + 1) \in Nat
            /\ t[1 + 1].size \in Nat
    BY <1>1, <2>1, LaterStep
  <2> QED
    BY <1>1, <2>2
<1> QED
  BY <1>0, <1>4, <1>5, <1>6
-----------------------------------------------------------------------------
\* What a chain of folds needs, the numbers given names.
Room(least, most, summary, left, room) ==
    /\ least \in Nat /\ most \in Nat /\ summary \in Nat /\ room \in Nat
    /\ left \in Seq(Nat) /\ Len(left) >= 1
    /\ \A size \in TurnSizes : least <= size /\ size <= most
    /\ \A size \in SummarySizes : least <= size /\ size <= summary
    /\ Top <= room
    /\ AnchorSize + WindowTurns * most <= room
    /\ Top <= AnchorSize + (left[1] + 1) * least
    /\ \A k \in 1..Len(left) : \A n \in 0..left[k] :
          n + 2 <= left[IF k = Len(left) THEN Len(left) ELSE k + 1] + Cutoff(n + 1)
    /\ Len(left) > 1 => Top + summary + (Len(left) - 2) * most <= room
    /\ left[Len(left)] >= 1 /\ AnchorSize + summary + (left[Len(left)] - 1) * most <= room

\* Top is above the threshold's last token and above the anchor.
LEMMA TopIs ==
    /\ Top \in Nat /\ Threshold <= Top /\ AnchorSize < Top
    /\ \A n \in Nat : n < Threshold \/ n = AnchorSize => n < Top
BY StatelessAssumption DEF Top, Larger

\* More turns of the same size are more tokens.
LEMMA TimesGrows ==
    ASSUME NEW m \in Nat, NEW n \in Nat, m <= n, NEW b \in Nat
    PROVE  m * b <= n * b /\ m * b \in Nat /\ n * b \in Nat
<1>1. n - m \in Nat /\ n = m + (n - m)
  OBVIOUS
<1>2. \A d \in Nat : (m + d) * b = m * b + d * b /\ d * b \in Nat /\ m * b \in Nat
  OBVIOUS
<1> QED
  BY <1>1, <1>2

\* The sizes the parameters allow.
LEMMA SizesAllowed ==
    ASSUME NEW least, NEW most, NEW summary, NEW left, NEW room,
           Room(least, most, summary, left, room)
    PROVE  /\ \A x \in RawTurns : least <= x.size /\ x.size <= most
           /\ \A x \in SummaryTurns : least <= x.size /\ x.size <= summary
<1>1. /\ \A size \in TurnSizes : least <= size /\ size <= most
      /\ \A size \in SummarySizes : least <= size /\ size <= summary
  BY Zenon DEF Room
<1>2. \A x \in RawTurns : x.size \in TurnSizes
  BY DEF RawTurns
<1>3. \A x \in SummaryTurns : x.size \in SummarySizes
  BY DEF SummaryTurns
<1> QED
  BY <1>1, <1>2, <1>3, Zenon

\* What stands behind naive's first turn is the trajectory's own.
LEMMA TailIsRaw ==
    ASSUME NEW t, NEW s \in 1..MaxTurns, Shape(t, s, "naive"), Len(t) >= 2
    PROVE  Suffix(t, 2) \in Seq(RawTurns) /\ Len(Suffix(t, 2)) = Len(t) - 2
<1>1. t \in Seq(Turns) /\ Len(t) \in Nat /\ \A i \in 3..Len(t) : t[i] \in RawTurns
  <2>1. t \in Seq(Turns) /\ \A i \in 3..Len(t) : Shows(t[i], s - Len(t) + i)
    BY DEF Shape
  <2> QED
    BY <2>1, LenProperties DEF Shows
<1>2. 2 \in 0..Len(t)
  BY <1>1
<1>3. /\ Suffix(t, 2) \in Seq(Turns) /\ Len(Suffix(t, 2)) = Len(t) - 2
      /\ \A k \in 1..(Len(t) - 2) : Suffix(t, 2)[k] = t[2 + k]
  BY <1>1, <1>2, SuffixIs
<1>4. ASSUME NEW k \in 1..Len(Suffix(t, 2)) PROVE Suffix(t, 2)[k] \in RawTurns
  <2>1. k \in 1..(Len(t) - 2) /\ 2 + k \in 3..Len(t)
    BY <1>1, <1>3
  <2> QED
    BY <1>1, <1>3, <2>1, Zenon
<1> DEFINE v == Suffix(t, 2)
<1>5. \A w \in Seq(Turns) : (\A k \in 1..Len(w) : w[k] \in RawTurns) => w \in Seq(RawTurns)
  OBVIOUS
<1>6. v \in Seq(RawTurns)
  BY <1>3, <1>4, <1>5, Zenon
<1> QED
  BY <1>3, <1>6, Zenon

\* What stands behind the anchor is a turn or a summary.
LEMMA BehindTheAnchor ==
    ASSUME NEW t, NEW s \in 1..MaxTurns, Shape(t, s, "naive")
    PROVE  Suffix(t, 1) \in Seq(RawTurns \cup SummaryTurns) /\ Len(Suffix(t, 1)) = Len(t) - 1
<1>1. /\ t \in Seq(Turns) /\ Len(t) \in Nat /\ Len(t) >= 1
      /\ \A i \in 2..Len(t) : t[i] \in RawTurns \cup SummaryTurns
  <2>1. t \in Seq(Turns) /\ Len(t) \in 1..s
    BY DEF Shape
  <2>2. Len(t) \in Nat /\ Len(t) >= 1
    BY <2>1, LenProperties
  <2>3. ASSUME NEW i \in 2..Len(t) PROVE t[i] \in RawTurns \cup SummaryTurns
    <3>1. CASE i = 2
      <4>1. Len(t) > 1
        BY <2>2, <3>1
      <4>2. StandsFor(t[2], s - Len(t) + 2)
        BY <4>1 DEF Shape
      <4> QED
        BY <3>1, <4>2 DEF StandsFor
    <3>2. CASE i # 2
      <4>1. i \in 3..Len(t)
        BY <2>2, <3>2
      <4>2. Shows(t[i], s - Len(t) + i)
        BY <4>1 DEF Shape
      <4> QED
        BY <4>2 DEF Shows
    <3> QED
      BY <3>1, <3>2
  <2> QED
    BY <2>1, <2>2, <2>3
<1>2. 1 \in 0..Len(t)
  BY <1>1
<1>3. /\ Suffix(t, 1) \in Seq(Turns) /\ Len(Suffix(t, 1)) = Len(t) - 1
      /\ \A k \in 1..(Len(t) - 1) : Suffix(t, 1)[k] = t[1 + k]
  BY <1>1, <1>2, SuffixIs
<1> DEFINE S == RawTurns \cup SummaryTurns
<1>4. ASSUME NEW k \in 1..Len(Suffix(t, 1)) PROVE Suffix(t, 1)[k] \in S
  <2>1. k \in 1..(Len(t) - 1) /\ 1 + k \in 2..Len(t)
    BY <1>1, <1>3
  <2> QED
    BY <1>1, <1>3, <2>1, Zenon
<1>5. \A w \in Seq(Turns) : (\A k \in 1..Len(w) : w[k] \in S) => w \in Seq(S)
  <2> HIDE DEF S
  <2> QED
    OBVIOUS
<1>6. Suffix(t, 1) \in Seq(S)
  BY <1>3, <1>4, <1>5, Zenon
<1> QED
  BY <1>3, <1>6, Zenon

\* A context that came out of k - 1 folds in a row, or did not need any: it
\* holds left[k] turns at most, and what is kept verbatim has grown by a turn
\* at every fold.
Held(t, most, left, k) ==
    /\ Len(t) - 1 <= left[k]
    /\ k < Len(left) /\ Len(t) >= 2 =>
          AnchorSize + Later(t, 2) + 1 <= Top + (k - 1) * most

\* What naive sends: under the threshold, or a summary in front and few folds.
NaiveRoom(t, most, left) ==
    \/ PromptLen(t) < Top
    \/ /\ Len(t) >= 2 /\ t[2] \in SummaryTurns
       /\ \E k \in 1..Len(left) : Held(t, most, left, k)

\* Few turns fit under the threshold.
LEMMA UnderThreshold ==
    ASSUME NEW least, NEW most, NEW summary, NEW left, NEW room,
           Room(least, most, summary, left, room),
           NEW t, NEW s \in 1..MaxTurns, Shape(t, s, "naive"), PromptLen(t) < Top
    PROVE  Held(t, most, left, 1)
<1> DEFINE n == Len(t) - 1
           m == left[1]
<1>1. /\ least \in Nat /\ most \in Nat /\ summary \in Nat /\ Len(left) \in Nat /\ m \in Nat
      /\ Top <= AnchorSize + (m + 1) * least
      /\ Top \in Nat /\ AnchorSize \in Nat
  <2>1. left \in Seq(Nat) /\ Len(left) >= 1 /\ Len(left) \in Nat
    BY LenProperties DEF Room
  <2>2. 1 \in 1..Len(left)
    BY <2>1
  <2>3. m \in Nat
    BY <2>1, <2>2, ElementOfSeq
  <2> QED
    BY <2>1, <2>3, StatelessAssumption, TopIs DEF Room
<1>2. t \in Seq(Turns) /\ Len(t) \in Nat /\ Len(t) >= 1 /\ t[1] = TheAnchor
  BY LenProperties DEF Shape
<1>3. /\ PromptLen(t) = AnchorSize + Later(t, 1) /\ Later(t, 1) \in Nat
      /\ Len(t) >= 2 => /\ PromptLen(t) = AnchorSize + t[2].size + Later(t, 2)
                        /\ Later(t, 2) \in Nat /\ t[2].size \in Nat
  BY <1>2, PromptIs
<1>4. n * least <= Later(t, 1)
  <2> DEFINE S == RawTurns \cup SummaryTurns
             b == most + summary
  <2>1. S \subseteq Turns
    BY TurnsAre
  <2>2. b \in Nat /\ \A x \in S : least <= x.size /\ x.size <= b
    <3>1. \A x \in RawTurns : x.size \in Nat
      BY StatelessAssumption DEF RawTurns
    <3>2. \A x \in SummaryTurns : x.size \in Nat
      BY StatelessAssumption DEF SummaryTurns
    <3>3. \A k \in Nat : (k <= most => k <= b) /\ (k <= summary => k <= b)
      BY <1>1
    <3>4. /\ \A x \in RawTurns : least <= x.size /\ x.size <= most
          /\ \A x \in SummaryTurns : least <= x.size /\ x.size <= summary
      BY SizesAllowed
    <3>5. b \in Nat
      BY <1>1
    <3> HIDE DEF b
    <3> QED
      BY <3>1, <3>2, <3>3, <3>4, <3>5
  <2>3. Suffix(t, 1) \in Seq(S) /\ Len(Suffix(t, 1)) = n
    BY BehindTheAnchor
  <2> HIDE DEF S, b
  <2>4. Len(Suffix(t, 1)) * least <= PromptLen(Suffix(t, 1))
    BY <1>1, <2>1, <2>2, <2>3, PromptLenBounds
  <2> QED
    BY <2>3, <2>4 DEF Later
<1>5. n \in Nat
  BY <1>2
<1> HIDE DEF n, m
<1>6. n <= m
  <2> SUFFICES ASSUME ~(n <= m) PROVE FALSE
    OBVIOUS
  <2>1. m + 1 <= n /\ m + 1 \in Nat
    BY <1>1, <1>5
  <2>2. (m + 1) * least <= n * least /\ (m + 1) * least \in Nat /\ n * least \in Nat
    BY <1>1, <1>5, <2>1, TimesGrows
  <2> QED
    BY <1>1, <1>3, <1>4, <2>2
<1>7. (1 - 1) * most = 0
  BY <1>1
<1>8. Len(t) >= 2 => AnchorSize + Later(t, 2) + 1 <= Top + 0
  <2>1. \A a, b, c, d \in Nat : a + b + c < d => a + c + 1 <= d + 0
    OBVIOUS
  <2> QED
    BY <1>1, <1>3, <2>1, Zenon
<1> QED
  BY <1>6, <1>7, <1>8 DEF Held, n, m

\* Such a context fits.
LEMMA NaiveRoomFits ==
    ASSUME NEW least, NEW most, NEW summary, NEW left, NEW room,
           Room(least, most, summary, left, room),
           NEW t, NEW s \in 1..MaxTurns, Shape(t, s, "naive"), NaiveRoom(t, most, left)
    PROVE  PromptLen(t) <= room
<1>1. /\ room \in Nat /\ most \in Nat /\ summary \in Nat /\ left \in Seq(Nat)
      /\ Len(left) \in Nat /\ Len(left) >= 1 /\ Top <= room
      /\ Top \in Nat /\ AnchorSize \in Nat
  BY LenProperties, StatelessAssumption, TopIs DEF Room
<1>2. t \in Seq(Turns) /\ Len(t) \in Nat /\ Len(t) >= 1 /\ t[1] = TheAnchor
  BY LenProperties DEF Shape
<1>3. TheAnchor \in Turns
  BY TurnsAre
<1>4. PromptLen(t) \in Nat
  BY <1>2, <1>3, PromptLenAppend
<1>5. CASE PromptLen(t) < Top
  BY <1>1, <1>4, <1>5
<1>6. CASE ~(PromptLen(t) < Top)
  <2>1. Len(t) >= 2 /\ t[2] \in SummaryTurns
    BY <1>6, Zenon DEF NaiveRoom
  <2>2. PICK k \in 1..Len(left) : Held(t, most, left, k)
    BY <1>6, Zenon DEF NaiveRoom
  <2>3. /\ PromptLen(t) = AnchorSize + t[2].size + Later(t, 2)
        /\ Later(t, 2) \in Nat /\ t[2].size \in Nat
    BY <1>2, <2>1, PromptIs
  <2>4. t[2].size <= summary
    BY <2>1, SizesAllowed
  <2>5. CASE k = Len(left)
    <3> DEFINE m == left[Len(left)]
    <3>1. m \in Nat /\ m >= 1 /\ AnchorSize + summary + (m - 1) * most <= room
      <4>1. Len(left) \in 1..Len(left)
        BY <1>1
      <4>2. m \in Nat
        BY <1>1, <4>1, ElementOfSeq
      <4> QED
        BY <4>2 DEF Room
    <3>2. Len(t) - 1 <= m
      BY <2>2, <2>5 DEF Held
    <3> HIDE DEF m
    <3>3. Len(t) - 2 \in Nat /\ m - 1 \in Nat /\ Len(t) - 2 <= m - 1
      BY <1>2, <2>1, <3>1, <3>2
    <3>4. Suffix(t, 2) \in Seq(RawTurns) /\ Len(Suffix(t, 2)) = Len(t) - 2
      BY <2>1, TailIsRaw
    <3>5. RawTurns \subseteq Turns /\ \A x \in RawTurns : 0 <= x.size /\ x.size <= most
      <4>1. \A x \in RawTurns : x.size <= most
        BY SizesAllowed
      <4>2. \A x \in RawTurns : x.size \in Nat
        BY StatelessAssumption DEF RawTurns
      <4> QED
        BY <4>1, <4>2, TurnsAre
    <3>6. PromptLen(Suffix(t, 2)) <= Len(Suffix(t, 2)) * most
      BY <1>1, <3>4, <3>5, PromptLenBounds
    <3>7. (Len(t) - 2) * most <= (m - 1) * most /\ (m - 1) * most \in Nat
              /\ (Len(t) - 2) * most \in Nat
      BY <1>1, <3>3, TimesGrows
    <3>8. Later(t, 2) <= (m - 1) * most
      BY <2>3, <3>4, <3>6, <3>7 DEF Later
    <3> DEFINE q == (m - 1) * most
    <3>9. q \in Nat /\ Later(t, 2) <= q /\ AnchorSize + summary + q <= room
      BY <3>1, <3>7, <3>8, Zenon
    <3> HIDE DEF q
    <3>10. \A a, b, c \in Nat : a + summary + q <= room /\ b <= summary /\ c <= q
              => a + b + c <= room
      BY <1>1, <3>9
    <3> QED
      BY <1>1, <2>3, <2>4, <3>9, <3>10, Zenon
  <2>6. CASE k # Len(left)
    <3> DEFINE r == Len(left)
    <3>1. k < r /\ r > 1 /\ k - 1 \in Nat /\ r - 2 \in Nat /\ k - 1 <= r - 2
      BY <1>1, <2>6
    <3>2. AnchorSize + Later(t, 2) + 1 <= Top + (k - 1) * most
      BY <2>1, <2>2, <3>1 DEF Held
    <3>3. (k - 1) * most <= (r - 2) * most /\ (k - 1) * most \in Nat /\ (r - 2) * most \in Nat
      BY <1>1, <3>1, TimesGrows
    <3>4. Top + summary + (r - 2) * most <= room
      BY <3>1, Zenon DEF Room
    <3> HIDE DEF r
    <3> DEFINE p == (k - 1) * most
               q == (r - 2) * most
    <3>5. /\ p \in Nat /\ q \in Nat /\ p <= q /\ AnchorSize + Later(t, 2) + 1 <= Top + p
          /\ Top + summary + q <= room
      BY <3>2, <3>3, <3>4, Zenon
    <3> HIDE DEF p, q
    <3>6. AnchorSize + Later(t, 2) <= Top + q
      <4>1. \A a, b \in Nat : a + b + 1 <= Top + p => a + b <= Top + q
        BY <1>1, <3>5
      <4> QED
        BY <1>1, <2>3, <3>5, <4>1, Zenon
    <3>7. \A a, b, c \in Nat : a + c <= Top + q /\ b <= summary => a + b + c <= room
      BY <1>1, <3>5
    <3> QED
      BY <1>1, <2>3, <2>4, <3>6, <3>7, Zenon
  <2> QED
    BY <2>5, <2>6
<1> QED
  BY <1>5, <1>6

\* What naive makes of t: what is kept verbatim stands behind the (1 + c)th
\* turn of t.
Folded(t, size) ==
    <<t[1], SummaryTurn(SubSeq(Rest(t), 1, Cutoff(Len(Rest(t)))), size)>>
        \o SubSeq(Rest(t), Cutoff(Len(Rest(t))) + 1, Len(Rest(t)))

\* A fold puts a summary in the place of Cutoff turns.
LEMMA FoldKeepsTheRest ==
    ASSUME NEW t, NEW s \in 1..MaxTurns, Shape(t, s, "naive"), Len(t) >= 2,
           NEW size \in SummarySizes
    PROVE  /\ Compacted(Folded(t, size), t, s, "naive")
           /\ Cutoff(Len(t) - 1) \in 1..(Len(t) - 1)
           /\ Len(Folded(t, size)) = Len(t) + 1 - Cutoff(Len(t) - 1)
           /\ Suffix(Folded(t, size), 2) = Suffix(t, 1 + Cutoff(Len(t) - 1))
<1> DEFINE u == Folded(t, size)
           c == Cutoff(Len(t) - 1)
           x == SummaryTurn(SubSeq(Rest(t), 1, c), size)
           h == <<t[1], x>>
<1>1. t \in Seq(Turns) /\ Len(t) \in Nat /\ t[1] = TheAnchor
  BY LenProperties DEF Shape
<1>2. Len(Rest(t)) = Len(t) - 1 /\ Len(t) - 1 \in Nat \ {0} /\ Len(t) >= 1
  <2>1. \A m \in Nat : m >= 2 => m >= 1 /\ m - 1 \in Nat \ {0}
    OBVIOUS
  <2>2. Len(t) >= 1 /\ Len(t) - 1 \in Nat \ {0}
    BY <1>1, <2>1, Zenon
  <2> QED
    BY <1>1, <2>2, RestIs, Zenon
<1>3. c \in 1..(Len(t) - 1)
  BY <1>2, CutoffBounds, Zenon
<1>4. u = h \o SubSeq(Rest(t), c + 1, Len(Rest(t)))
  BY <1>2, Zenon DEF Folded
<1>5. Compacted(u, t, s, "naive")
  BY NaiveShape DEF Folded
<1> HIDE DEF c, u
<1>6. x \in Turns
  <2>1. x \in SummaryTurns
    BY <1>3, SummaryStandsFor
  <2> QED
    BY <2>1, TurnsAre
<1> HIDE DEF x
<1>7. h \in Seq(Turns) /\ Len(h) = 2
  BY <1>1, <1>6, TurnsAre
<1> HIDE DEF h
<1>8. Splice(u, Turns, h, t, c)
  <2>1. c \in 0..(Len(t) - 1)
    BY <1>3
  <2> QED
    BY <1>1, <1>2, <1>4, <1>7, <2>1, SpliceIs
<1>9. /\ u \in Seq(Turns) /\ Len(u) = 2 + (Len(t) - 1 - c)
      /\ \A k \in 1..(Len(t) - 1 - c) : u[2 + k] = t[1 + c + k]
  BY <1>7, <1>8, Zenon DEF Splice
<1>10. c \in Nat /\ c >= 1 /\ c <= Len(t) - 1
  BY <1>2, <1>3
<1>11. Len(u) = Len(t) + 1 - c
  BY <1>1, <1>9, <1>10
<1>12. Suffix(u, 2) = Suffix(t, 1 + c)
  <2>1. /\ 2 \in 0..Len(u) /\ 1 + c \in 0..Len(t)
        /\ Len(u) - 2 = Len(t) - (1 + c) /\ Len(t) - 1 - c = Len(u) - 2
    BY <1>1, <1>10, <1>11
  <2>2. \A k \in 1..(Len(u) - 2) : u[2 + k] = t[(1 + c) + k]
    BY <1>9, <2>1
  <2> DEFINE e == 1 + c
  <2>3. /\ e \in 0..Len(t) /\ Len(u) - 2 = Len(t) - e
        /\ \A k \in 1..(Len(u) - 2) : u[2 + k] = t[e + k]
    BY <2>1, <2>2, Zenon
  <2> HIDE DEF e
  <2>4. EndAlike(u, 2, t, e)
    BY <2>1, <2>3, Zenon DEF EndAlike
  <2>5. Suffix(u, 2) = Suffix(t, e)
    BY <1>1, <1>9, <2>1, <2>3, <2>4, SuffixesEqual
  <2> QED
    BY <2>5 DEF e
<1> QED
  BY <1>3, <1>5, <1>11, <1>12 DEF u, c

\* A fold keeps the context within its bounds: one more fold on the way down,
\* or at rest already.
LEMMA FoldHolds ==
    ASSUME NEW least, NEW most, NEW summary, NEW left, NEW room,
           Room(least, most, summary, left, room),
           NEW t, NEW s \in 1..(MaxTurns - 1), Shape(t, s, "naive"), NaiveRoom(t, most, left),
           NEW x \in RawTurns, Shape(Append(t, x), s + 1, "naive"),
           NEW size \in SummarySizes
    PROVE  NaiveRoom(Folded(Append(t, x), size), most, left)
<1> DEFINE w == Append(t, x)
           u == Folded(w, size)
           n == Len(t) - 1
           r == Len(left)
<1>1. /\ most \in Nat /\ left \in Seq(Nat) /\ r \in Nat /\ r >= 1
      /\ AnchorSize \in Nat /\ Top \in Nat /\ AnchorSize < Top
      /\ MaxTurns \in Nat /\ s \in 1..MaxTurns /\ s + 1 \in 1..MaxTurns
  BY LenProperties, StatelessAssumption, TopIs DEF Room
<1>2. /\ t \in Seq(Turns) /\ Len(t) \in Nat /\ Len(t) >= 1 /\ x \in Turns /\ x.size \in Nat
      /\ x.size <= most
  <2>1. t \in Seq(Turns) /\ Len(t) \in 1..s
    BY DEF Shape
  <2>2. x \in Turns /\ x.size \in Nat
    BY TurnsAre, StatelessAssumption DEF RawTurns
  <2>3. x.size <= most
    BY SizesAllowed
  <2>4. Len(t) \in Nat /\ Len(t) >= 1
    BY <1>1, <2>1
  <2> QED
    BY <2>1, <2>2, <2>3, <2>4, Zenon
<1>3. w \in Seq(Turns) /\ Len(w) = Len(t) + 1 /\ n \in Nat /\ Len(w) - 1 = n + 1 /\ Len(w) >= 2
  BY <1>2, AppendProperties
<1> DEFINE c == Cutoff(n + 1)
<1>4. /\ Compacted(u, w, s + 1, "naive") /\ c \in 1..(n + 1)
      /\ Len(u) = Len(w) + 1 - c
      /\ Suffix(u, 2) = Suffix(w, 1 + c)
  <2> HIDE DEF w, n
  <2>1. Shape(w, s + 1, "naive")
    BY DEF w
  <2>2. /\ Compacted(u, w, s + 1, "naive") /\ Cutoff(Len(w) - 1) \in 1..(Len(w) - 1)
        /\ Len(u) = Len(w) + 1 - Cutoff(Len(w) - 1)
        /\ Suffix(u, 2) = Suffix(w, 1 + Cutoff(Len(w) - 1))
    BY <1>1, <1>3, <2>1, FoldKeepsTheRest
  <2> QED
    BY <1>3, <2>2, Zenon
<1> HIDE DEF c, u
<1>5. \E k \in 1..r : Held(t, most, left, k)
  <2>1. CASE PromptLen(t) < Top
    <3>1. Held(t, most, left, 1) /\ 1 \in 1..r
      BY <1>1, <2>1, UnderThreshold
    <3> QED
      BY <3>1, Zenon
  <2>2. CASE ~(PromptLen(t) < Top)
    BY <2>2, Zenon DEF NaiveRoom
  <2> QED
    BY <2>1, <2>2
<1>6. PICK k \in 1..r : Held(t, most, left, k)
  BY <1>5
<1> DEFINE j == IF k = r THEN r ELSE k + 1
<1>7. j \in 1..r /\ (j < r => j = k + 1 /\ k < r) /\ k \in Nat /\ k >= 1
  BY <1>1
<1>8. c \in Nat /\ c >= 1 /\ c <= n + 1
  BY <1>3, <1>4
<1>9. Len(u) - 1 <= left[j]
  <2>1. left[k] \in Nat /\ left[j] \in Nat
    BY <1>1, <1>7, ElementOfSeq
  <2>2. n \in 0..left[k]
    BY <1>3, <1>6, <2>1 DEF Held
  <2>3. \A i \in 1..Len(left) : \A m \in 0..left[i] :
            m + 2 <= left[IF i = Len(left) THEN Len(left) ELSE i + 1] + Cutoff(m + 1)
    BY Zenon DEF Room
  <2>4. n + 2 <= left[j] + c
    BY <2>2, <2>3, Zenon DEF c
  <2> HIDE DEF j
  <2>5. Len(w) = n + 2
    BY <1>2, <1>3
  <2> HIDE DEF n, w
  <2> QED
    BY <1>3, <1>4, <1>8, <2>1, <2>4, <2>5
<1> HIDE DEF j
<1>10. ASSUME j < r PROVE AnchorSize + Later(u, 2) + 1 <= Top + (j - 1) * most
  <2>1. j = k + 1 /\ k < r /\ j - 1 = k
    BY <1>7, <1>10
  <2>2. Later(u, 2) = Later(w, 1 + c)
    BY <1>4, Zenon DEF Later
  <2>3. k * most = (k - 1) * most + most /\ k * most \in Nat /\ (k - 1) * most \in Nat
    BY <1>1, <1>7
  <2>4. CASE Len(t) = 1
    <3>1. 1 + c = Len(w) /\ 1 + c \in 0..Len(w)
      BY <1>3, <1>8, <2>4
    <3>2. Later(w, 1 + c) = 0
      BY <1>3, <3>1, LaterStep
    <3>3. \A q \in Nat : AnchorSize + 0 + 1 <= Top + q
      BY <1>1
    <3> QED
      BY <2>1, <2>2, <2>3, <3>2, <3>3, Zenon
  <2>5. CASE Len(t) >= 2
    <3>1. 2 \in 0..Len(w) /\ 1 + c \in 2..Len(w) /\ 2 \in 0..Len(t)
      BY <1>2, <1>3, <1>8, <2>5
    <3>2. Later(w, 1 + c) <= Later(w, 2)
      BY <1>3, <3>1, LaterFalls
    <3>3. Later(w, 2) = Later(t, 2) + x.size /\ Later(t, 2) \in Nat
      <4>1. Suffix(w, 2) = Append(Suffix(t, 2), x)
        BY <1>2, <3>1, SuffixAppend
      <4>2. Suffix(t, 2) \in Seq(Turns)
        BY <1>2, <3>1, SuffixIs
      <4>3. /\ PromptLen(Append(Suffix(t, 2), x)) = PromptLen(Suffix(t, 2)) + x.size
            /\ PromptLen(Suffix(t, 2)) \in Nat
        BY <1>2, <4>2, PromptLenAppend
      <4> QED
        BY <4>1, <4>3, Zenon DEF Later
    <3>4. AnchorSize + Later(t, 2) + 1 <= Top + (k - 1) * most
      BY <1>6, <2>1, <2>5 DEF Held
    <3>5. Later(w, 1 + c) \in Nat
      <4>1. 1 + c \in 0..Len(w)
        BY <1>3, <1>8
      <4> QED
        BY <1>3, <4>1, LaterStep
    <3> DEFINE p == (k - 1) * most
               q == k * most
    <3>6. p \in Nat /\ q = p + most /\ AnchorSize + Later(t, 2) + 1 <= Top + p
      BY <2>3, <3>4, Zenon
    <3> HIDE DEF p, q
    <3>7. \A a, b, d \in Nat : a <= b + d /\ d <= most /\ AnchorSize + b + 1 <= Top + p
              => AnchorSize + a + 1 <= Top + q
      BY <1>1, <3>6
    <3>8. Later(w, 1 + c) <= Later(t, 2) + x.size
      BY <3>2, <3>3, Zenon
    <3>9. AnchorSize + Later(w, 1 + c) + 1 <= Top + q
      BY <1>2, <3>3, <3>5, <3>6, <3>7, <3>8, Zenon
    <3> QED
      BY <2>1, <2>2, <3>9, Zenon DEF q
  <2>6. Len(t) = 1 \/ Len(t) >= 2
    <3>1. \A m \in Nat : m >= 1 => m = 1 \/ m >= 2
      OBVIOUS
    <3> QED
      BY <1>2, <3>1, Zenon
  <2> QED
    BY <2>4, <2>5, <2>6
<1>11. Held(u, most, left, j)
  BY <1>9, <1>10, Zenon DEF Held
<1>12. Len(u) >= 2 /\ u[2] \in SummaryTurns
  <2>1. u[2] \in SummaryTurns
    BY <1>4 DEF Compacted
  <2>2. Len(u) >= 2
    BY <1>3, <1>4, <1>8
  <2> QED
    BY <2>1, <2>2
<1>13. NaiveRoom(u, most, left)
  BY <1>7, <1>11, <1>12, Zenon DEF NaiveRoom
<1> QED
  BY <1>13 DEF u, w

\* kv_evict fires only when more than its window is there, and leaves that.
WindowRoom(t) == PromptLen(t) < Top \/ Len(t) - 1 <= WindowTurns

\* The anchor and a window of turns fit.
LEMMA WindowRoomFits ==
    ASSUME NEW least, NEW most, NEW summary, NEW left, NEW room,
           Room(least, most, summary, left, room),
           NEW t, NEW s \in 1..MaxTurns, Shape(t, s, "kv_evict"), WindowRoom(t)
    PROVE  PromptLen(t) <= room
<1>1. /\ room \in Nat /\ most \in Nat /\ Top <= room
      /\ Top \in Nat /\ AnchorSize \in Nat /\ WindowTurns \in Nat
      /\ AnchorSize + WindowTurns * most <= room
  BY StatelessAssumption, TopIs DEF Room
<1>2. t \in Seq(Turns) /\ Len(t) \in Nat /\ Len(t) >= 1 /\ t[1] = TheAnchor
  BY LenProperties DEF Shape
<1>3. TheAnchor \in Turns
  BY TurnsAre
<1>4. PromptLen(t) \in Nat
  BY <1>2, <1>3, PromptLenAppend
<1>5. CASE PromptLen(t) < Top
  BY <1>1, <1>4, <1>5
<1>6. CASE ~(PromptLen(t) < Top)
  <2> DEFINE n == Len(t) - 1
             v == Suffix(t, 1)
  <2>1. n \in Nat /\ n <= WindowTurns
    BY <1>2, <1>6 DEF WindowRoom
  <2>2. PromptLen(t) = AnchorSize + Later(t, 1) /\ Later(t, 1) \in Nat
    BY <1>2, PromptIs
  <2>3. v \in Seq(RawTurns) /\ Len(v) = n
    <3>1. 1 \in 0..Len(t)
      BY <1>2
    <3>2. v \in Seq(Turns) /\ Len(v) = n /\ \A k \in 1..n : v[k] = t[1 + k]
      BY <1>2, <3>1, SuffixIs
    <3>3. ASSUME NEW k \in 1..Len(v) PROVE v[k] \in RawTurns
      <4>1. k \in 1..n /\ 1 + k \in 2..Len(t)
        BY <1>2, <3>2
      <4>2. Shows(t[1 + k], s - Len(t) + (1 + k))
        <5>1. CASE k = 1
          <6>1. Len(t) > 1 /\ 1 + k = 2
            BY <1>2, <4>1, <5>1
          <6>2. Shows(t[2], s - Len(t) + 2)
            BY <6>1 DEF Shape
          <6> QED
            BY <6>1, <6>2, Zenon
        <5>2. CASE k # 1
          <6>1. 1 + k \in 3..Len(t)
            BY <4>1, <5>2
          <6> QED
            BY <6>1 DEF Shape
        <5> QED
          BY <5>1, <5>2
      <4> QED
        BY <3>2, <4>1, <4>2, Zenon DEF Shows
    <3>4. \A w \in Seq(Turns) : (\A k \in 1..Len(w) : w[k] \in RawTurns) => w \in Seq(RawTurns)
      OBVIOUS
    <3> QED
      BY <3>2, <3>3, <3>4, Zenon
  <2>4. RawTurns \subseteq Turns /\ \A x \in RawTurns : 0 <= x.size /\ x.size <= most
    <3>1. \A x \in RawTurns : x.size <= most
      BY SizesAllowed
    <3>2. \A x \in RawTurns : x.size \in Nat
      BY StatelessAssumption DEF RawTurns
    <3> QED
      BY <3>1, <3>2, TurnsAre
  <2>5. PromptLen(v) <= Len(v) * most
    BY <1>1, <2>3, <2>4, PromptLenBounds
  <2> HIDE DEF n
  <2>6. n * most <= WindowTurns * most /\ n * most \in Nat /\ WindowTurns * most \in Nat
    BY <1>1, <2>1, TimesGrows
  <2> DEFINE q == WindowTurns * most
             p == n * most
  <2>7. p \in Nat /\ q \in Nat /\ p <= q /\ AnchorSize + q <= room /\ Later(t, 1) <= p
    BY <1>1, <2>3, <2>5, <2>6, Zenon DEF Later
  <2> HIDE DEF p, q
  <2>8. \A a \in Nat : a <= p => AnchorSize + a <= room
    BY <1>1, <2>7
  <2> QED
    BY <2>2, <2>7, <2>8, Zenon
<1> QED
  BY <1>5, <1>6

\* A context t of policy p is within its bounds.
Within(p, t, most, left) ==
    /\ p = "naive" => NaiveRoom(t, most, left)
    /\ p = "kv_evict" => WindowRoom(t)

\* The context fits, and as long as the run goes on it is within its bounds.
RInv(most, left, room) ==
    /\ policy # "none" => PromptLen(context) <= room
    /\ Running => Within(policy, context, most, left)

\* What is within the bounds fits.
LEMMA RoomFits ==
    ASSUME NEW least, NEW most, NEW summary, NEW left, NEW room,
           Room(least, most, summary, left, room),
           NEW t, NEW s \in 1..MaxTurns, NEW p \in {"none", "naive", "kv_evict"}, Shape(t, s, p),
           Within(p, t, most, left)
    PROVE  p # "none" => PromptLen(t) <= room
<1>1. CASE p = "naive"
  BY <1>1, NaiveRoomFits DEF Within
<1>2. CASE p = "kv_evict"
  BY <1>2, WindowRoomFits DEF Within
<1> QED
  BY <1>1, <1>2

\* Every call of a policy keeps it so.
LEMMA RInvNext ==
    ASSUME NEW least, NEW most, NEW summary, NEW left, NEW room,
           Room(least, most, summary, left, room),
           SInv, RInv(most, left, room), Next
    PROVE  RInv(most, left, room)'
<1> PICK size \in TurnSizes :
        \/ PassThrough(Handed(size))
        \/ \E sum \in SummarySizes : NaiveCompact(Handed(size), sum)
        \/ NaiveSummarizerFails(Handed(size))
        \/ SlideWindow(Handed(size))
  BY Zenon DEF Next
<1>0. /\ MaxTurns \in Nat /\ seen \in Nat /\ Top \in Nat /\ AnchorSize \in Nat
      /\ AnchorSize < Top
  BY StatelessAssumption, TopIs DEF SInv, TypeOK, Room
<1>1. policy' = policy
  BY DEF PassThrough, NaiveCompact, NaiveSummarizerFails, SlideWindow, Receive
<1>2. CASE NaiveSummarizerFails(Handed(size))
  <2>1. ~(Running') /\ context' = context
    BY <1>2 DEF NaiveSummarizerFails, Running
  <2> QED
    BY <1>1, <2>1, Zenon DEF RInv
<1> SUFFICES ASSUME ~NaiveSummarizerFails(Handed(size)) PROVE RInv(most, left, room)'
  BY <1>2
<1>a. Shape(context', seen', policy') /\ seen' \in 1..MaxTurns
  BY StepShape
<1>3. ASSUME PassThrough(Handed(size)) PROVE Within(policy', context', most, left)
  <2>1. /\ outcome = "running" /\ seen < MaxTurns /\ context' = Handed(size)
        /\ \/ policy = "none"
           \/ ~OverThreshold(Handed(size))
           \/ policy = "kv_evict" /\ Len(Rest(Handed(size))) <= WindowTurns
    BY <1>3 DEF PassThrough, Receive
  <2>2. Shape(Handed(size), seen + 1, policy) /\ seen + 1 \in 1..MaxTurns
    BY <2>1, HandedShape
  <2> DEFINE t == Handed(size)
  <2> HIDE DEF t
  <2>3. t \in Seq(Turns) /\ Len(t) \in Nat /\ Len(t) >= 1 /\ t[1] = TheAnchor
    BY <2>2, LenProperties DEF t, Shape
  <2>4. ASSUME ~OverThreshold(t) PROVE PromptLen(t) < Top
    <3>1. TheAnchor \in Turns
      BY TurnsAre
    <3>2. PromptLen(t) \in Nat
      BY <2>3, <3>1, PromptLenAppend
    <3>3. CASE Len(t) = 1
      <4>1. PromptLen(t) = AnchorSize
        BY <2>3, <3>3, PromptIs
      <4> QED
        BY <1>0, <4>1
    <3>4. CASE Len(t) # 1
      <4>1. Len(t) >= 2
        <5>1. \A m \in Nat : m >= 1 /\ m # 1 => m >= 2
          OBVIOUS
        <5> QED
          BY <2>3, <3>4, <5>1, Zenon
      <4>2. ~(PromptLen(t) >= Threshold)
        BY <2>4, <4>1, Zenon DEF OverThreshold
      <4> QED
        BY <3>2, <4>2, TopIs, StatelessAssumption
    <3> QED
      BY <3>3, <3>4
  <2>5. ASSUME policy = "naive" PROVE NaiveRoom(t, most, left)
    <3>1. "naive" # "none" /\ "naive" # "kv_evict"
      OBVIOUS
    <3>2. ~OverThreshold(t)
      BY <2>1, <2>5, <3>1, Zenon DEF t
    <3> QED
      BY <2>4, <3>2, Zenon DEF NaiveRoom
  <2>6. ASSUME policy = "kv_evict" PROVE WindowRoom(t)
    <3>1. "kv_evict" # "none"
      OBVIOUS
    <3>2. CASE ~OverThreshold(t)
      BY <2>4, <3>2, Zenon DEF WindowRoom
    <3>3. CASE OverThreshold(t)
      <4>1. Len(Rest(t)) <= WindowTurns
        BY <2>1, <2>6, <3>1, <3>3, Zenon DEF t
      <4>2. Len(Rest(t)) = Len(t) - 1
        BY <2>3, RestIs, Zenon
      <4> QED
        BY <4>1, <4>2, Zenon DEF WindowRoom
    <3> QED
      BY <3>2, <3>3
  <2>7. context' = t
    BY <2>1 DEF t
  <2> QED
    BY <1>1, <2>5, <2>6, <2>7, Zenon DEF Within
<1>4. ASSUME \E sum \in SummarySizes : NaiveCompact(Handed(size), sum)
      PROVE  Within(policy', context', most, left)
  <2> PICK sum \in SummarySizes : NaiveCompact(Handed(size), sum)
    BY <1>4
  <2>1. /\ outcome = "running" /\ seen < MaxTurns /\ policy = "naive"
        /\ OverThreshold(Handed(size))
        /\ context' = Folded(Handed(size), sum)
    BY Zenon DEF NaiveCompact, Receive, Folded
  <2>2. Shape(Handed(size), seen + 1, "naive") /\ seen + 1 \in 1..MaxTurns
    BY <2>1, HandedShape
  <2>3. seen # 0
    <3> SUFFICES ASSUME seen = 0 PROVE FALSE
      OBVIOUS
    <3>1. Handed(size) = Append(<<>>, TheAnchor)
      BY Zenon DEF Handed, TheAnchor, SInv
    <3>2. Len(Handed(size)) = 1
      BY <3>1
    <3>3. Len(Handed(size)) >= 2
      BY <2>1, Zenon DEF OverThreshold
    <3> QED
      BY <3>2, <3>3
  <2>4. Running /\ seen \in 1..(MaxTurns - 1)
    BY <1>0, <2>1, <2>3 DEF Running
  <2> DEFINE x == Raw(seen + 1, "user", size)
  <2>5. Handed(size) = Append(context, x)
    BY <2>3, Zenon DEF Handed
  <2>6. x \in RawTurns
    <3>1. seen + 1 \in 2..MaxTurns
      BY <1>0, <2>4
    <3> QED
      BY <3>1 DEF Raw, RawTurns
  <2> HIDE DEF x
  <2>7. Shape(context, seen, "naive") /\ NaiveRoom(context, most, left)
    BY <2>1, <2>4, Zenon DEF SInv, RInv, Within
  <2>8. NaiveRoom(Folded(Append(context, x), sum), most, left)
    <3>1. Shape(Append(context, x), seen + 1, "naive")
      BY <2>2, <2>5, Zenon
    <3> QED
      BY <2>4, <2>6, <2>7, <3>1, FoldHolds
  <2> DEFINE u == Folded(Append(context, x), sum)
  <2>9. context' = u /\ policy' # "kv_evict"
    BY <1>1, <2>1, <2>5
  <2>10. NaiveRoom(u, most, left)
    BY <2>8
  <2> HIDE DEF u
  <2> QED
    BY <2>9, <2>10, Zenon DEF Within
<1>5. ASSUME SlideWindow(Handed(size)) PROVE Within(policy', context', most, left)
  <2>1. /\ outcome = "running" /\ seen < MaxTurns /\ policy = "kv_evict"
        /\ Len(Rest(Handed(size))) > WindowTurns
        /\ context' = <<Handed(size)[1]>> \o Window(Rest(Handed(size)))
    BY <1>5, Zenon DEF SlideWindow, Receive
  <2>2. Shape(Handed(size), seen + 1, "kv_evict") /\ seen + 1 \in 1..MaxTurns
    BY <2>1, HandedShape
  <2> DEFINE t == Handed(size)
             d == Len(t) - 1 - WindowTurns
             h == <<t[1]>>
             u == h \o Window(Rest(t))
  <2>3. t \in Seq(Turns) /\ Len(t) \in Nat /\ Len(t) >= 1 /\ WindowTurns \in Nat
    BY <2>2, LenProperties, StatelessAssumption DEF Shape
  <2> HIDE DEF t
  <2>4. Len(Rest(t)) = Len(t) - 1
    BY <2>3, RestIs, Zenon
  <2>5. Len(Rest(t)) > WindowTurns
    BY <2>1 DEF t
  <2>6. d \in 0..(Len(t) - 1) /\ Len(Rest(t)) - WindowTurns + 1 = d + 1
            /\ Len(t) - 1 - d = WindowTurns
    BY <2>3, <2>4, <2>5
  <2>7. Window(Rest(t)) = SubSeq(Rest(t), d + 1, Len(Rest(t)))
    BY <2>5, <2>6 DEF Window
  <2>8. h \in Seq(Turns) /\ Len(h) = 1
    <3>1. t[1] \in Turns
      BY <2>3, ElementOfSeq
    <3> QED
      BY <3>1
  <2> HIDE DEF h, d
  <2>9. Splice(u, Turns, h, t, d)
    BY <2>3, <2>6, <2>7, <2>8, SpliceIs
  <2>10. Len(u) - 1 <= WindowTurns
    <3>1. Len(u) = Len(h) + (Len(t) - 1 - d)
      BY <2>9, Zenon DEF Splice
    <3>2. Len(u) = 1 + WindowTurns
      BY <2>6, <2>8, <3>1, Zenon
    <3> QED
      BY <2>3, <3>2
  <2>11. context' = u
    BY <2>1 DEF t, h
  <2>12. policy' # "naive"
    BY <1>1, <2>1
  <2> HIDE DEF u
  <2> QED
    BY <2>10, <2>11, <2>12, Zenon DEF Within, WindowRoom
<1>6. Within(policy', context', most, left)
  BY <1>3, <1>4, <1>5
<1>7. policy' \in {"none", "naive", "kv_evict"}
  BY <1>1 DEF SInv, TypeOK
<1>8. policy' # "none" => PromptLen(context') <= room
  BY <1>6, <1>7, <1>a, RoomFits
<1> QED
  BY <1>6, <1>8, Zenon DEF RInv, Within, NaiveRoom, WindowRoom, Held

\* A chain's room is one its contexts need.
LEMMA ChainNeeds ==
    ASSUME NEW left \in Chains
    PROVE  Room(LeastTokens, MostTokens, MostSummary, left, RoomNeeded(left))
<1>1. /\ LeastTokens \in Nat /\ MostTokens \in Nat /\ MostSummary \in Nat /\ MaxFolds \in Nat
      /\ \A size \in TurnSizes : LeastTokens <= size /\ size <= MostTokens
      /\ \A size \in SummarySizes : LeastTokens <= size /\ size <= MostSummary
  BY SizesAssumption
<1>2. PICK folds \in 1..MaxFolds : left \in [1..folds -> 0..MaxLeft]
  BY DEF Chains
<1>3. left \in Seq(Nat) /\ Len(left) = folds /\ folds \in Nat /\ folds >= 1
  <2>1. left \in [1..folds -> Nat] /\ folds \in Nat
    BY <1>1, <1>2, SizesAssumption
  <2> QED
    BY <2>1, <1>2
<1>4. /\ Top <= AnchorSize + (left[1] + 1) * LeastTokens
      /\ \A k \in 1..Len(left) : \A n \in 0..left[k] :
            n + 2 <= left[IF k = Len(left) THEN Len(left) ELSE k + 1] + Cutoff(n + 1)
      /\ left[Len(left)] >= 1
  BY Zenon DEF Chains
<1> DEFINE m == left[Len(left)]
           window == AnchorSize + WindowTurns * MostTokens
           folding == IF Len(left) > 1 THEN Top + MostSummary + (Len(left) - 2) * MostTokens ELSE 0
           atRest == AnchorSize + MostSummary + (m - 1) * MostTokens
<1>5. m \in Nat
  <2>1. Len(left) \in 1..Len(left)
    BY <1>3
  <2> QED
    BY <1>3, <2>1, ElementOfSeq
<1>6. window \in Nat /\ folding \in Nat /\ atRest \in Nat
  <2>1. AnchorSize \in Nat /\ WindowTurns \in Nat /\ Top \in Nat
    BY StatelessAssumption, TopIs
  <2>2. WindowTurns * MostTokens \in Nat
    BY <1>1, <2>1
  <2>3. (m - 1) * MostTokens \in Nat
    <3>1. m - 1 \in Nat
      BY <1>4, <1>5
    <3> HIDE DEF m
    <3> QED
      BY <1>1, <3>1
  <2>4. Len(left) > 1 => (Len(left) - 2) * MostTokens \in Nat
    <3> SUFFICES ASSUME Len(left) > 1 PROVE (Len(left) - 2) * MostTokens \in Nat
      OBVIOUS
    <3>1. Len(left) - 2 \in Nat
      BY <1>3
    <3> QED
      BY <1>1, <3>1
  <2> DEFINE a == WindowTurns * MostTokens
             b == (m - 1) * MostTokens
             c == (Len(left) - 2) * MostTokens
  <2>5. a \in Nat /\ b \in Nat /\ (Len(left) > 1 => c \in Nat)
    BY <2>2, <2>3, <2>4
  <2> HIDE DEF a, b, c, m
  <2>6. AnchorSize + a \in Nat /\ AnchorSize + MostSummary + b \in Nat
    BY <1>1, <2>1, <2>5
  <2>7. (IF Len(left) > 1 THEN Top + MostSummary + c ELSE 0) \in Nat
    BY <1>1, <2>1, <2>5
  <2> QED
    BY <2>6, <2>7, Zenon DEF a, b, c
<1>7. RoomNeeded(left) = Larger(Larger(Top, window), Larger(folding, atRest))
  BY Zenon DEF RoomNeeded
<1> HIDE DEF window, folding, atRest
<1>8. /\ RoomNeeded(left) \in Nat
      /\ Top <= RoomNeeded(left) /\ window <= RoomNeeded(left)
      /\ folding <= RoomNeeded(left) /\ atRest <= RoomNeeded(left)
  BY <1>6, <1>7, TopIs DEF Larger
<1>9. Len(left) > 1 => Top + MostSummary + (Len(left) - 2) * MostTokens <= RoomNeeded(left)
  BY <1>8, Zenon DEF folding
<1>10. /\ AnchorSize + WindowTurns * MostTokens <= RoomNeeded(left)
       /\ AnchorSize + MostSummary + (left[Len(left)] - 1) * MostTokens <= RoomNeeded(left)
  BY <1>8, Zenon DEF window, atRest, m
<1>11. Len(left) >= 1
  BY <1>3
<1> QED
  BY <1>1, <1>3, <1>4, <1>8, <1>9, <1>10, <1>11, Zenon DEF Room

\* The invariant, for every chain.
BoundedInv == \A left \in Chains : RInv(MostTokens, left, RoomNeeded(left))

\* bench/tasks/probes.py:9-10: what naive and kv_evict send is bounded by
\* construction, for every threshold, retire fraction, window and trajectory,
\* whatever its turns hold; the bound grows with the largest turn and has
\* nothing to do with the model's window.
THEOREM StaysBounded == Spec => []CompactedContextBounded
<1>1. Init => BoundedInv
  <2> SUFFICES ASSUME Init, NEW left \in Chains
               PROVE  RInv(MostTokens, left, RoomNeeded(left))
    BY DEF BoundedInv
  <2>1. ~(0 > 0) /\ seen = 0 /\ context = <<>>
    BY DEF Init
  <2>2. 0 <= RoomNeeded(left)
    BY ChainNeeds DEF Room
  <2> QED
    BY <2>1, <2>2, PromptLenEmpty, Zenon DEF RInv, Running
<1>2. SInv /\ BoundedInv /\ [Next]_vars => BoundedInv'
  <2>1. ASSUME SInv, BoundedInv, Next PROVE BoundedInv'
    <3>1. ASSUME NEW left \in Chains PROVE RInv(MostTokens, left, RoomNeeded(left))'
      <4>1. RInv(MostTokens, left, RoomNeeded(left))
        BY <2>1 DEF BoundedInv
      <4> QED
        BY <2>1, <4>1, ChainNeeds, RInvNext
    <3> QED
      BY <3>1 DEF BoundedInv
  <2>2. ASSUME BoundedInv, UNCHANGED vars PROVE BoundedInv'
    BY <2>2, Zenon DEF vars, BoundedInv, RInv, Running, Within, NaiveRoom, Held, WindowRoom
  <2> QED
    BY <2>1, <2>2
<1>3. BoundedInv => CompactedContextBounded
  BY Zenon DEF BoundedInv, RInv, CompactedContextBounded, Rooms
<1> QED
  BY <1>1, <1>2, <1>3, SInvAlways, PTL DEF Spec
=============================================================================
