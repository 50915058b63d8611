-------------------------- MODULE ReplayLoop_proofs --------------------------
(***************************************************************************)
(* Proofs about AppendOnlyPolicy, for every trajectory length, threshold,  *)
(* retire fraction and set of turn and summary sizes, and about the        *)
(* measured replay that drives it, for every block size, pool capacity,    *)
(* padding and number of trajectories on one engine.                       *)
(***************************************************************************)
EXTENDS ReplayLoop, SharedLemmas
LOCAL INSTANCE SequencesExt

\* cutoff retires at least one live turn and keeps at least one
\* (append_only.py:85, reached only with two or more live turns).
LEMMA CutoffBounds ==
    ASSUME NEW n \in Nat, n >= 2
    PROVE  Cutoff(n) \in 1..(n - 1)
<1>1. RetirePercent \in 1..99
  BY AppendOnlyAssumption
<1>2. n * RetirePercent \in Nat /\ n * RetirePercent < n * 100
  BY <1>1
<1>3. (n * RetirePercent) \div 100 \in Nat /\ (n * RetirePercent) \div 100 < n
  BY <1>2
<1> QED
  BY <1>3 DEF Cutoff

\* Live turns are raw turns.
LEMMA RawTurnsAreRaw == \A l \in Seq(RawTurn) : \A k \in 1..Len(l) : l[k].kind = "raw"
<1> SUFFICES ASSUME NEW l \in Seq(RawTurn), NEW k \in 1..Len(l) PROVE l[k].kind = "raw"
  OBVIOUS
<1>1. l[k] \in RawTurn
  BY ElementOfSeq
<1> QED
  BY <1>1 DEF RawTurn

\* live[:cutoff] and live[cutoff:] (append_only.py:86) split the list.
LEMMA RetireSplit ==
    ASSUME NEW S, NEW l \in Seq(S), NEW c \in 1..(Len(l) - 1)
    PROVE  /\ SubSeq(l, 1, c) \in Seq(S)
           /\ Len(SubSeq(l, 1, c)) = c
           /\ \A k \in 1..c : SubSeq(l, 1, c)[k] = l[k]
           /\ SubSeq(l, c + 1, Len(l)) \in Seq(S)
           /\ Len(SubSeq(l, c + 1, Len(l))) = Len(l) - c
           /\ \A k \in 1..(Len(l) - c) : SubSeq(l, c + 1, Len(l))[k] = l[c + k]
<1>1. Len(l) \in Nat
  BY LenProperties
<1>2. c \in 1..(Len(l) - 1)
  OBVIOUS
<1>3. \A i \in 1..Len(l) : l[i] \in S
  BY ElementOfSeq
<1>4. /\ SubSeq(l, 1, c) \in Seq(S)
      /\ Len(SubSeq(l, 1, c)) = c
      /\ \A k \in 1..c : SubSeq(l, 1, c)[k] = l[k]
  <2>1. c \in Int /\ 1 \in Int /\ 1 <= c /\ \A i \in 1..c : l[i] \in S
    BY <1>1, <1>2, <1>3
  <2> QED
    BY <2>1, SubSeqProperties
<1>5. /\ SubSeq(l, c + 1, Len(l)) \in Seq(S)
      /\ Len(SubSeq(l, c + 1, Len(l))) = Len(l) - c
      /\ \A k \in 1..(Len(l) - c) : SubSeq(l, c + 1, Len(l))[k] = l[c + k]
  <2>1. /\ c + 1 \in Int /\ Len(l) \in Int /\ c + 1 <= Len(l)
        /\ \A i \in (c + 1)..Len(l) : l[i] \in S
    BY <1>1, <1>2, <1>3
  <2> QED
    BY <2>1, <1>1, <1>2, SubSeqProperties
<1> QED
  BY <1>4, <1>5
-----------------------------------------------------------------------------
\* Nothing is recorded before the first call, and the first call sets anchor.
StartsAtFirstCall ==
    /\ anchor = None <=> seen = 0
    /\ anchor = None => frozen = <<>> /\ live = <<>> /\ context = <<>>

TInv == TypeOK /\ StartsAtFirstCall

\* _state is None can be told from a state with any anchor.
LEMMA AnchorIsNotNone ==
    /\ None \notin AnchorTurn
    /\ \A text \in AnchorTexts : Anchor(text, AnchorSize) \in AnchorTurn
<1> QED
  BY AppendOnlyAssumption DEF None, Anchor, AnchorTurn

\* The flag is a Boolean, kept apart from the other fields' types.
LEMMA FiredType ==
    /\ Init => fired \in BOOLEAN
    /\ TypeOK /\ [Next]_vars => fired' \in BOOLEAN
<1>1. Init => fired \in BOOLEAN
  BY DEF Init
<1>2. ASSUME TypeOK, Next PROVE fired' \in BOOLEAN
  <2>1. fired' = fired \/ fired' = TRUE \/ fired' = FALSE
    BY <1>2, Zenon DEF Next, FirstCall, AnchorDrift, PlainStep, SummarizerFails, CompactStep, Freeze
  <2>2. fired \in BOOLEAN
    BY <1>2 DEF TypeOK
  <2> QED
    BY <2>1, <2>2, Zenon
<1>3. ASSUME TypeOK, UNCHANGED vars PROVE fired' \in BOOLEAN
  BY <1>3, Zenon DEF TypeOK, vars
<1> QED
  BY <1>1, <1>2, <1>3

\* __init__ leaves the fields well typed.
LEMMA TInvInit == Init => TInv
<1> SUFFICES ASSUME Init PROVE TInv
  OBVIOUS
<1>1. fired \in BOOLEAN
  BY FiredType
<1>2. /\ seen = 0 /\ context = <<>> /\ anchor = None /\ frozen = <<>> /\ live = <<>>
      /\ firstHash = None /\ outcome = "running"
  BY DEF Init
<1> QED
  BY <1>1, <1>2, AppendOnlyAssumption, EmptySeq DEF TInv, TypeOK, StartsAtFirstCall

\* A turn of the trajectory: typed, and numbered after those already seen.
LEMMA NewTurnType ==
    ASSUME TypeOK, NEW turn \in NewTurns
    PROVE  turn \in RawTurn /\ turn.id = seen + 1 /\ turn.kind = "raw"
<1> QED
  BY DEF TypeOK, NewTurns, Raw, RawTurn

\* The list the policy works on in any later call: live.append(turns[-1]).
LEMMA AppendLive ==
    ASSUME TypeOK, NEW turn \in NewTurns
    PROVE  /\ Append(live, turn) \in Seq(RawTurn)
           /\ Len(live) \in Nat /\ Len(Append(live, turn)) = Len(live) + 1
           /\ \A k \in 1..Len(live) : Append(live, turn)[k] = live[k]
           /\ Append(live, turn)[Len(live) + 1] = turn
<1>1. live \in Seq(RawTurn) /\ turn \in RawTurn
  BY NewTurnType DEF TypeOK
<1> QED
  BY <1>1, AppendProperties, LenProperties

\* The segment a compaction event appends.
LEMMA NewSegment ==
    ASSUME TypeOK, NEW of \in Seq(RawTurn), NEW size \in SummarySizes
    PROVE  /\ Segment(seen, of, size) \in SegmentSet
           /\ Segment(seen, of, size).n = Len(of)
           /\ Segment(seen, of, size).of = of
           /\ Append(frozen, Segment(seen, of, size)) \in Seq(SegmentSet)
           /\ Len(frozen) \in Nat
           /\ Len(Append(frozen, Segment(seen, of, size))) = Len(frozen) + 1
           /\ \A i \in 1..Len(frozen) :
                 Append(frozen, Segment(seen, of, size))[i] = frozen[i]
           /\ Append(frozen, Segment(seen, of, size))[Len(frozen) + 1]
                 = Segment(seen, of, size)
<1> DEFINE sg == Segment(seen, of, size)
<1>1. seen \in Nat /\ Len(of) \in Nat
  BY LenProperties, AppendOnlyAssumption DEF TypeOK
<1>2. sg \in SegmentSet /\ sg.of = of /\ sg.n = Len(of)
  BY <1>1 DEF Segment, SegmentSet
<1>3. frozen \in Seq(SegmentSet) /\ Len(frozen) \in Nat
  BY LenProperties DEF TypeOK
<1> HIDE DEF sg
<1>4. /\ Append(frozen, sg) \in Seq(SegmentSet)
      /\ Len(Append(frozen, sg)) = Len(frozen) + 1
      /\ \A i \in 1..Len(frozen) : Append(frozen, sg)[i] = frozen[i]
      /\ Append(frozen, sg)[Len(frozen) + 1] = sg
  BY <1>2, <1>3, AppendProperties
<1> QED
  BY <1>2, <1>3, <1>4 DEF sg

\* Every path of maybe_compact keeps the types.
LEMMA TInvNext == TInv /\ [Next]_vars => TInv'
<1> SUFFICES ASSUME TInv, [Next]_vars PROVE TInv'
  OBVIOUS
<1> USE DEF TInv
<1>0. fired' \in BOOLEAN
  BY FiredType
<1>1. ASSUME NEW text \in AnchorTexts, FirstCall(text) PROVE TInv'
  BY <1>0, <1>1, AnchorIsNotNone, AppendOnlyAssumption
     DEF FirstCall, TypeOK, StartsAtFirstCall
<1>2. ASSUME NEW turn \in NewTurns, NEW text \in AnchorTexts, AnchorDrift(turn, text)
      PROVE  TInv'
  BY <1>0, <1>2, AppendLive, AppendOnlyAssumption
     DEF AnchorDrift, Receive, TypeOK, StartsAtFirstCall
<1>3. ASSUME NEW turn \in NewTurns, PlainStep(turn) PROVE TInv'
  BY <1>0, <1>3, AppendLive, AppendOnlyAssumption
     DEF PlainStep, Receive, TypeOK, StartsAtFirstCall
<1>4. ASSUME NEW turn \in NewTurns, SummarizerFails(turn) PROVE TInv'
  BY <1>0, <1>4, AppendLive, AppendOnlyAssumption
     DEF SummarizerFails, Receive, TypeOK, StartsAtFirstCall
<1>5. ASSUME NEW turn \in NewTurns, NEW size \in SummarySizes, CompactStep(turn, size)
      PROVE  TInv'
  <2> DEFINE l == Append(live, turn)
             c == Cutoff(Len(l))
             sg == Segment(seen, SubSeq(l, 1, c), size)
  <2>1. /\ Receive(turn) /\ Len(l) >= 2 /\ UNCHANGED outcome
        /\ frozen' = Append(frozen, sg) /\ live' = SubSeq(l, c + 1, Len(l))
    BY <1>5 DEF CompactStep, Freeze, MustCompact
  <2>2. l \in Seq(RawTurn)
    BY AppendLive
  <2> HIDE DEF l
  <2>3. c \in 1..(Len(l) - 1)
    BY <2>1, <2>2, CutoffBounds, LenProperties
  <2> HIDE DEF c
  <2>4. SubSeq(l, 1, c) \in Seq(RawTurn) /\ live' \in Seq(RawTurn)
    BY <2>1, <2>2, <2>3, RetireSplit
  <2>5. frozen' \in Seq(SegmentSet)
    BY <2>1, <2>4, NewSegment
  <2> QED
    BY <1>0, <2>1, <2>4, <2>5, AppendOnlyAssumption
       DEF Receive, TypeOK, StartsAtFirstCall
<1>6. CASE UNCHANGED vars
  BY <1>0, <1>6 DEF vars, TypeOK, StartsAtFirstCall
<1> QED
  BY <1>1, <1>2, <1>3, <1>4, <1>5, <1>6 DEF Next

\* Type correctness: the fields keep their types in every reachable state,
\* a compaction and an interrupted call included.
THEOREM TypeCorrect == Spec => []TypeOK
<1>1. TInv => TypeOK
  BY DEF TInv
<1> QED
  BY TInvInit, TInvNext, <1>1, PTL DEF Spec
-----------------------------------------------------------------------------
\* Where a segment ends is a position in the trajectory.
LEMMA CoveredIsNat ==
    ASSUME NEW f \in Seq(SegmentSet), NEW l, NEW n, Accounted(f, l, n)
    PROVE  Len(f) \in Nat /\ \A i \in 0..Len(f) : CoveredBy(f, i) \in Nat
<1>1. Len(f) \in Nat
  BY LenProperties
<1>2. ASSUME NEW i \in 1..Len(f) PROVE CoveredBy(f, i) \in Nat
  <2>1. f[i] \in SegmentSet
    BY ElementOfSeq
  <2>2. f[i].of \in Seq(RawTurn) /\ f[i].n = Len(f[i].of) /\ f[i].n > 0
    BY <2>1 DEF SegmentSet, Accounted
  <2>3. Len(f[i].of) \in 1..Len(f[i].of)
    BY <2>2, LenProperties
  <2>4. f[i].of[Len(f[i].of)] \in RawTurn
    BY <2>2, <2>3, ElementOfSeq
  <2> QED
    BY <1>1, <2>4 DEF CoveredBy, RawTurn
<1> QED
  BY <1>1, <1>2 DEF CoveredBy

\* live.append(turns[-1]) (append_only.py:73) extends the account by one turn.
LEMMA AccountAppend ==
    ASSUME NEW f \in Seq(SegmentSet), NEW l \in Seq(RawTurn), NEW n,
           NEW turn \in RawTurn, turn.id = n + 1, Accounted(f, l, n)
    PROVE  Accounted(f, Append(l, turn), n + 1)
<1> DEFINE C == CoveredBy(f, Len(f))
<1>1. C \in Nat /\ Len(l) \in Nat /\ C + Len(l) = n
  BY CoveredIsNat, LenProperties DEF Accounted
<1>2. /\ Len(Append(l, turn)) = Len(l) + 1
      /\ \A k \in 1..Len(l) : Append(l, turn)[k] = l[k]
      /\ Append(l, turn)[Len(l) + 1] = turn
  BY AppendProperties
<1>3. \A k \in 1..Len(l) : l[k].id = C + k
  BY DEF Accounted
<1> HIDE DEF C
<1>4. \A k \in 1..(Len(l) + 1) : Append(l, turn)[k].id = C + k
  BY <1>1, <1>2, <1>3
<1> QED
  BY <1>1, <1>2, <1>4 DEF Accounted, C

\* Retiring the oldest c turns into one segment (append_only.py:86-96) keeps
\* the account: what leaves live enters the segment.
LEMMA AccountRetire ==
    ASSUME NEW f \in Seq(SegmentSet), NEW l \in Seq(RawTurn), NEW n,
           NEW c \in 1..(Len(l) - 1), NEW sg \in SegmentSet,
           sg.of = SubSeq(l, 1, c), sg.n = c, Accounted(f, l, n)
    PROVE  Accounted(Append(f, sg), SubSeq(l, c + 1, Len(l)), n)
<1> DEFINE C == CoveredBy(f, Len(f))
           F == Len(f)
           g == Append(f, sg)
           kept == SubSeq(l, c + 1, Len(l))
<1>1. C \in Nat /\ F \in Nat /\ Len(l) \in Nat /\ C + Len(l) = n
  BY CoveredIsNat, LenProperties DEF Accounted
<1>2. /\ \A k \in 1..Len(l) : l[k].id = C + k
      /\ \A i \in 1..F :
            /\ f[i].n = Len(f[i].of) /\ f[i].n > 0
            /\ \A k \in 1..Len(f[i].of) : f[i].of[k].id = CoveredBy(f, i - 1) + k
  BY DEF Accounted
<1>3. Len(g) = F + 1 /\ g[F + 1] = sg /\ \A i \in 1..F : g[i] = f[i]
  BY AppendProperties
<1>4. /\ Len(sg.of) = c /\ \A k \in 1..c : sg.of[k] = l[k]
      /\ Len(kept) = Len(l) - c
      /\ \A k \in 1..(Len(l) - c) : kept[k] = l[c + k]
  BY RetireSplit
<1>5. C = CoveredBy(f, F)
  OBVIOUS
<1> HIDE DEF C, F, g, kept
<1>6. \A i \in 0..F : CoveredBy(g, i) = CoveredBy(f, i)
  BY <1>1, <1>3 DEF CoveredBy
<1>7. \A k \in 1..c : sg.of[k].id = C + k
  BY <1>1, <1>2, <1>4
<1>8. CoveredBy(g, F + 1) = C + c
  BY <1>1, <1>3, <1>4, <1>7 DEF CoveredBy
<1>9. ASSUME NEW i \in 1..(F + 1)
      PROVE  /\ g[i].n = Len(g[i].of) /\ g[i].n > 0
             /\ \A k \in 1..Len(g[i].of) : g[i].of[k].id = CoveredBy(g, i - 1) + k
  <2>1. CASE i \in 1..F
    <3>1. g[i] = f[i] /\ CoveredBy(g, i - 1) = CoveredBy(f, i - 1)
      BY <1>1, <1>3, <1>6, <2>1
    <3> QED
      BY <1>2, <2>1, <3>1
  <2>2. CASE i = F + 1
    <3>1. g[i] = sg /\ CoveredBy(g, i - 1) = C
      BY <1>1, <1>3, <1>5, <1>6, <2>2
    <3> QED
      BY <1>4, <1>7, <3>1
  <2> QED
    BY <1>1, <2>1, <2>2
<1>10. ASSUME NEW k \in 1..Len(kept) PROVE kept[k].id = C + c + k
  <2>1. k \in 1..(Len(l) - c) /\ c + k \in 1..Len(l) /\ c \in Nat /\ k \in Nat
    BY <1>1, <1>4
  <2>2. kept[k] = l[c + k] /\ l[c + k].id = C + (c + k)
    BY <1>2, <1>4, <2>1
  <2> QED
    BY <1>1, <2>1, <2>2
<1>11. C + c + Len(kept) = n
  BY <1>1, <1>4
<1> QED
  BY <1>3, <1>8, <1>9, <1>10, <1>11 DEF Accounted, g, kept

\* A compaction event (append_only.py:85-97) keeps the account.
LEMMA CompactKeepsAccount ==
    ASSUME TInv, EveryTurnAccountedFor, NEW turn \in NewTurns,
           NEW size \in SummarySizes, CompactStep(turn, size)
    PROVE  EveryTurnAccountedFor'
<1> DEFINE l == Append(live, turn)
           c == Cutoff(Len(l))
           sg == Segment(seen, SubSeq(l, 1, c), size)
<1>1. /\ anchor # None /\ anchor' = anchor /\ seen' = seen + 1 /\ Len(l) >= 2
      /\ frozen' = Append(frozen, sg) /\ live' = SubSeq(l, c + 1, Len(l))
  BY DEF CompactStep, Freeze, MustCompact, Receive
<1>2. /\ frozen \in Seq(SegmentSet) /\ live \in Seq(RawTurn) /\ l \in Seq(RawTurn)
      /\ turn \in RawTurn /\ turn.id = seen + 1
  BY AppendLive, NewTurnType DEF TInv, TypeOK
<1>3. Accounted(frozen, l, seen + 1)
  BY <1>1, <1>2, AccountAppend DEF EveryTurnAccountedFor
<1> HIDE DEF l
<1>4. c \in 1..(Len(l) - 1)
  BY <1>1, <1>2, CutoffBounds, LenProperties
<1> HIDE DEF c
<1>5. SubSeq(l, 1, c) \in Seq(RawTurn) /\ Len(SubSeq(l, 1, c)) = c
  BY <1>2, <1>4, RetireSplit
<1>6. sg \in SegmentSet /\ sg.of = SubSeq(l, 1, c) /\ sg.n = c
  BY <1>5, NewSegment DEF TInv
<1> HIDE DEF sg
<1>7. Accounted(frozen', live', seen')
  BY <1>1, <1>2, <1>3, <1>4, <1>6, AccountRetire
<1> QED
  BY <1>7 DEF EveryTurnAccountedFor

\* Every path of maybe_compact keeps the account.
LEMMA AccountNext ==
    TInv /\ EveryTurnAccountedFor /\ [Next]_vars => EveryTurnAccountedFor'
<1> SUFFICES ASSUME TInv, EveryTurnAccountedFor, [Next]_vars
             PROVE  EveryTurnAccountedFor'
  OBVIOUS
<1>1. ASSUME NEW text \in AnchorTexts, FirstCall(text) PROVE EveryTurnAccountedFor'
  <2>1. frozen' = <<>> /\ live' = <<>> /\ seen' = 1
    BY <1>1 DEF FirstCall, TInv, StartsAtFirstCall
  <2> QED
    BY <2>1 DEF EveryTurnAccountedFor, Accounted, CoveredBy
<1>2. ASSUME NEW turn \in NewTurns,
             \/ \E text \in AnchorTexts : AnchorDrift(turn, text)
             \/ PlainStep(turn)
             \/ SummarizerFails(turn)
      PROVE  EveryTurnAccountedFor'
  <2>1. Receive(turn) /\ live' = Append(live, turn) /\ frozen' = frozen
    BY <1>2 DEF AnchorDrift, PlainStep, SummarizerFails
  <2>2. anchor # None /\ anchor' = anchor /\ seen' = seen + 1
    BY <2>1 DEF Receive
  <2>3. /\ frozen \in Seq(SegmentSet) /\ live \in Seq(RawTurn)
        /\ turn \in RawTurn /\ turn.id = seen + 1
    BY NewTurnType DEF TInv, TypeOK
  <2> QED
    BY <2>1, <2>2, <2>3, AccountAppend DEF EveryTurnAccountedFor
<1>3. ASSUME NEW turn \in NewTurns, NEW size \in SummarySizes, CompactStep(turn, size)
      PROVE  EveryTurnAccountedFor'
  BY <1>3, CompactKeepsAccount
<1>4. CASE UNCHANGED vars
  BY <1>4 DEF vars, EveryTurnAccountedFor
<1> QED
  BY <1>1, <1>2, <1>3, <1>4 DEF Next

\* Conservation: segments and live partition the turns received, in order,
\* for every trajectory, failures of the summarizer and of the guard included.
THEOREM Accounting == Spec => []EveryTurnAccountedFor
<1>1. Init => EveryTurnAccountedFor
  BY DEF Init, EveryTurnAccountedFor
<1> QED
  BY TInvInit, TInvNext, AccountNext, <1>1, PTL DEF Spec
-----------------------------------------------------------------------------
\* Every path of maybe_compact returns what its state renders to, or raises.
LEMMA ContractNext == HarnessContract /\ [Next]_vars => HarnessContract'
<1> SUFFICES ASSUME HarnessContract, [Next]_vars PROVE HarnessContract'
  OBVIOUS
<1>1. ASSUME NEW text \in AnchorTexts, FirstCall(text) PROVE HarnessContract'
  BY <1>1 DEF FirstCall, HarnessContract
<1>2. ASSUME NEW turn \in NewTurns,
             \/ \E text \in AnchorTexts : AnchorDrift(turn, text)
             \/ SummarizerFails(turn)
      PROVE  HarnessContract'
  BY <1>2 DEF AnchorDrift, SummarizerFails, HarnessContract
<1>3. ASSUME NEW turn \in NewTurns, PlainStep(turn) PROVE HarnessContract'
  BY <1>3 DEF PlainStep, Receive, HarnessContract
<1>4. ASSUME NEW turn \in NewTurns, NEW size \in SummarySizes, CompactStep(turn, size)
      PROVE  HarnessContract'
  BY <1>4 DEF CompactStep, Freeze, Receive, HarnessContract
<1>5. CASE UNCHANGED vars
  BY <1>5 DEF vars, HarnessContract
<1> QED
  BY <1>1, <1>2, <1>3, <1>4, <1>5 DEF Next

\* The contract append_only.py:20-25 relies on: while the replay runs, the
\* caller's context and the policy's own state describe the same prompt.
THEOREM Contract == Spec => []HarnessContract
<1>1. Init => HarnessContract
  BY DEF Init, HarnessContract
<1> QED
  BY <1>1, ContractNext, PTL DEF Spec

\* In a running replay live is never empty after the first call's context.
LiveKept == seen > 1 => live # <<>>

\* No path of maybe_compact empties live.
LEMMA LiveKeptNext == TInv /\ LiveKept /\ [Next]_vars => LiveKept'
<1> SUFFICES ASSUME TInv, LiveKept, [Next]_vars PROVE LiveKept'
  OBVIOUS
<1>1. ASSUME NEW text \in AnchorTexts, FirstCall(text) PROVE LiveKept'
  BY <1>1 DEF FirstCall, LiveKept
<1>2. ASSUME NEW turn \in NewTurns, live' = Append(live, turn) PROVE LiveKept'
  BY <1>2, AppendLive, EmptySeq DEF LiveKept, TInv
<1>3. ASSUME NEW turn \in NewTurns, NEW size \in SummarySizes, CompactStep(turn, size)
      PROVE  LiveKept'
  <2> DEFINE l == Append(live, turn)
             c == Cutoff(Len(l))
  <2>1. Len(l) >= 2 /\ live' = SubSeq(l, c + 1, Len(l)) /\ l \in Seq(RawTurn)
    BY <1>3, AppendLive DEF CompactStep, Freeze, MustCompact, TInv
  <2> HIDE DEF l
  <2>2. c \in 1..(Len(l) - 1)
    BY <2>1, CutoffBounds, LenProperties
  <2> HIDE DEF c
  <2>3. Len(live') = Len(l) - c
    BY <2>1, <2>2, RetireSplit
  <2>4. Len(l) - c # 0
    <3>1. Len(l) \in Nat
      BY <2>1, LenProperties
    <3> QED
      BY <2>2, <3>1
  <2>5. live' # <<>>
    BY <2>3, <2>4, Len(<<>>) = 0
  <2> QED
    BY <2>5 DEF LiveKept
<1>4. CASE UNCHANGED vars
  BY <1>4 DEF vars, LiveKept
<1> QED
  BY <1>1, <1>2, <1>3, <1>4 DEF Next, AnchorDrift, PlainStep, SummarizerFails

\* The turn just received is still there, verbatim and last, in whatever the
\* policy returns (append_only.py:82-86: two live turns or more, cutoff < len).
THEOREM NewestTurnSurvives == Spec => []NewestTurnKept
<1>1. Init => LiveKept
  BY DEF Init, LiveKept
<1>2. TInv /\ EveryTurnAccountedFor /\ HarnessContract /\ LiveKept => NewestTurnKept
  <2> SUFFICES ASSUME TInv, EveryTurnAccountedFor, HarnessContract, LiveKept,
                      outcome = "running", seen > 1
               PROVE  /\ live # <<>>
                      /\ context[Len(context)].kind = "raw"
                      /\ context[Len(context)].id = seen
    BY DEF NewestTurnKept
  <2>1. /\ anchor # None /\ live # <<>> /\ frozen \in Seq(SegmentSet)
        /\ live \in Seq(RawTurn) /\ seen \in Nat
    BY AppendOnlyAssumption DEF TInv, TypeOK, StartsAtFirstCall, LiveKept
  <2>2. Len(live) \in Nat /\ Len(live) >= 1 /\ Len(frozen) \in Nat
    BY <2>1, LenProperties, EmptySeq
  <2>3. Rendering(context, anchor, frozen, live)
    BY <2>1, ToTurnsIs DEF HarnessContract
  <2>4. context[Len(context)] = live[Len(live)]
    <3>1. Len(live) \in 1..Len(live)
      BY <2>2
    <3> QED
      BY <2>3, <3>1 DEF Rendering
  <2>5. live[Len(live)] \in RawTurn /\ live[Len(live)].id = seen
    BY <2>1, <2>2, ElementOfSeq DEF EveryTurnAccountedFor, Accounted
  <2> QED
    BY <2>1, <2>4, <2>5 DEF RawTurn
<1> QED
  BY <1>1, <1>2, LiveKeptNext, TInvInit, TInvNext, Accounting, Contract, PTL DEF Spec

\* append_only.py:11-13, for every compaction event and for every plain step.
THEOREM Divergence == Spec => DivergesAtNewestSummary
<1> DEFINE A == context # <<>> /\ context' # context =>
                  DivergesAt(context, context',
                             IF fired' THEN 1 + Len(frozen) ELSE Len(context))
<1>1. TInv /\ LiveKept /\ HarnessContract /\ [Next]_vars => A
  <2> SUFFICES ASSUME TInv, LiveKept, HarnessContract, [Next]_vars,
                      context # <<>>, context' # context
               PROVE  DivergesAt(context, context',
                                 IF fired' THEN 1 + Len(frozen) ELSE Len(context))
    OBVIOUS
  <2>1. /\ frozen \in Seq(SegmentSet) /\ live \in Seq(RawTurn) /\ anchor # None
        /\ frozen' \in Seq(SegmentSet) /\ live' \in Seq(RawTurn)
    BY TInvNext DEF TInv, TypeOK, StartsAtFirstCall
  <2>2. ASSUME NEW turn \in NewTurns, PlainStep(turn)
        PROVE  DivergesAt(context, context',
                          IF fired' THEN 1 + Len(frozen) ELSE Len(context))
    <3>1. /\ context = ToTurns(anchor, frozen, live) /\ ~fired'
          /\ context' = ToTurns(anchor, frozen, Append(live, turn))
      BY <2>2 DEF PlainStep, Receive, HarnessContract
    <3>2. DivergesAt(context, context', Len(context))
      BY <2>1, <3>1, AppendedIsKept, NewTurnType DEF TInv
    <3> QED
      BY <3>1, <3>2
  <2>3. ASSUME NEW turn \in NewTurns, NEW size \in SummarySizes, CompactStep(turn, size)
        PROVE  DivergesAt(context, context',
                          IF fired' THEN 1 + Len(frozen) ELSE Len(context))
    <3> DEFINE l == Append(live, turn)
               c == Cutoff(Len(l))
               sg == Segment(seen, SubSeq(l, 1, c), size)
    <3>1. /\ context = ToTurns(anchor, frozen, live) /\ Len(l) >= 2
          /\ frozen' = Append(frozen, sg)
          /\ context' = ToTurns(anchor, Append(frozen, sg), live')
      BY <2>3 DEF CompactStep, Freeze, MustCompact, Receive, HarnessContract
    <3>2. l \in Seq(RawTurn) /\ live # <<>>
      BY <3>1, AppendLive, EmptySeq DEF TInv
    <3> HIDE DEF l
    <3>3. c \in 1..(Len(l) - 1)
      BY <3>1, <3>2, CutoffBounds, LenProperties
    <3> HIDE DEF c
    <3>4. SubSeq(l, 1, c) \in Seq(RawTurn)
      BY <3>2, <3>3, RetireSplit
    <3>5. sg \in SegmentSet /\ Len(frozen') = Len(frozen) + 1 /\ Len(frozen) \in Nat
      BY <3>1, <3>4, NewSegment DEF TInv
    <3> HIDE DEF sg
    <3>5a. \A k \in 1..Len(live) : live[k].kind = "raw"
      BY RawTurnsAreRaw DEF TInv, TypeOK
    <3>6. DivergesAt(context, context', 1 + Len(frozen))
      BY <2>1, <3>1, <3>2, <3>5, <3>5a, FrozenDiverges
    <3>7. fired'
      BY <2>3 DEF CompactStep, Freeze
    <3> QED
      BY <3>6, <3>7
  <2>4. ASSUME NEW text \in AnchorTexts, FirstCall(text) PROVE FALSE
    BY <2>1, <2>4 DEF FirstCall
  <2> QED
    BY <2>2, <2>3, <2>4 DEF Next, vars, AnchorDrift, SummarizerFails
<1>2. TInv /\ LiveKept /\ HarnessContract /\ [Next]_vars => [A]_vars
  BY <1>1
<1>3. Init => LiveKept /\ HarnessContract
  BY DEF Init, LiveKept, HarnessContract
<1> QED
  BY <1>2, <1>3, TInvInit, TInvNext, LiveKeptNext, ContractNext, PTL
     DEF Spec, DivergesAtNewestSummary
-----------------------------------------------------------------------------
\* The first call is a Start: the anchor alone is sent.
LEMMA FirstCallStarts ==
    ASSUME TInv, NEW text \in AnchorTexts, FirstCall(text)
    PROVE  Policy!Start
<1>1. /\ outcome = "running" /\ outcome' = outcome /\ seen = 0 /\ seen' = 1
      /\ anchor' = Anchor(text, AnchorSize) /\ context' = ToTurns(anchor', <<>>, <<>>)
  BY DEF FirstCall, TInv, StartsAtFirstCall
<1>2. <<>> \in Seq(SegmentSet) /\ <<>> \in Seq(RawTurn) /\ Len(<<>>) = 0
  BY EmptySeq
<1>3. Rendering(context', anchor', <<>>, <<>>)
  BY <1>1, <1>2, ToTurnsIs
<1>4. Len(context') = 1 /\ context'[1] = anchor' /\ anchor'.kind = "anchor"
  BY <1>1, <1>2, <1>3 DEF Rendering, Anchor
<1>5. fired' = FALSE
  BY DEF FirstCall
<1> QED
  BY <1>1, <1>4, <1>5 DEF Policy!Start

\* A later call hands the policy one more turn.
LEMMA ReceiveReceives ==
    ASSUME TInv, NEW turn \in NewTurns, Receive(turn)
    PROVE  Policy!Receive /\ anchor.kind = "anchor"
<1>1. outcome = "running" /\ anchor # None /\ seen' = seen + 1
  BY DEF Receive
<1>2. seen \in Nat /\ seen # 0 /\ anchor \in AnchorTurn
  BY <1>1, AppendOnlyAssumption DEF TInv, TypeOK, StartsAtFirstCall
<1> QED
  BY <1>1, <1>2 DEF Policy!Receive, AnchorTurn

\* A step that does not fire is a PassThrough.
LEMMA PlainStepPassesThrough ==
    ASSUME TInv, HarnessContract, NEW turn \in NewTurns, PlainStep(turn)
    PROVE  Policy!PassThrough
<1> DEFINE l == Append(live, turn)
<1>1. /\ Receive(turn) /\ outcome = "running" /\ outcome' = outcome
      /\ context = ToTurns(anchor, frozen, live)
      /\ context' = ToTurns(anchor, frozen, l)
  BY DEF PlainStep, Receive, HarnessContract
<1>2. Policy!Receive
  BY <1>1, ReceiveReceives
<1>3. /\ frozen \in Seq(SegmentSet) /\ live \in Seq(RawTurn) /\ l \in Seq(RawTurn)
      /\ Len(live) \in Nat /\ Len(l) = Len(live) + 1 /\ l[Len(live) + 1] = turn
      /\ turn \in RawTurn /\ turn.id = seen + 1 /\ turn.kind = "raw"
  BY AppendLive, NewTurnType DEF TInv, TypeOK
<1> HIDE DEF l
<1>4. Rendering(context, anchor, frozen, live) /\ Rendering(context', anchor, frozen, l)
  BY <1>1, <1>3, ToTurnsIs
<1>5. DivergesAt(context, context', Len(context))
  BY <1>1, <1>3, AppendedIsKept DEF l
<1>6. Len(frozen) \in Nat
  BY <1>3, LenProperties
<1>7. Len(context') = Len(context) + 1 /\ context'[Len(context')] = turn
  <2>1. Len(context) = 1 + Len(frozen) + Len(live)
    BY <1>4 DEF Rendering
  <2>2. Len(context') = 1 + Len(frozen) + (Len(live) + 1)
    BY <1>3, <1>4 DEF Rendering
  <2>3. Len(live) + 1 \in 1..Len(l)
    BY <1>3
  <2>4. context'[1 + Len(frozen) + (Len(live) + 1)] = l[Len(live) + 1]
    BY <1>4, <2>3 DEF Rendering
  <2>5. 1 + Len(frozen) + (Len(live) + 1) = (1 + Len(frozen) + Len(live)) + 1
    BY <1>3, <1>6
  <2> QED
    BY <1>3, <2>1, <2>2, <2>4, <2>5
<1>8. \A i \in 1..Len(context) : context'[i] = context[i]
  BY <1>5 DEF DivergesAt
<1>9. fired' = FALSE
  BY DEF PlainStep
<1>10. seen' = seen + 1
  BY <1>1 DEF Receive
<1> QED
  BY <1>1, <1>2, <1>3, <1>7, <1>8, <1>9, <1>10 DEF Policy!PassThrough

\* A compaction event is a Compact.
LEMMA CompactStepCompacts ==
    ASSUME TInv, TInv', HarnessContract, EveryTurnAccountedFor, EveryTurnAccountedFor',
           NEW turn \in NewTurns, NEW size \in SummarySizes, CompactStep(turn, size)
    PROVE  Policy!Compact
<1> DEFINE l == Append(live, turn)
           c == Cutoff(Len(l))
<1>1. /\ Receive(turn) /\ outcome = "running" /\ outcome' = outcome
      /\ anchor # None /\ anchor' = anchor /\ seen' = seen + 1
      /\ context = ToTurns(anchor, frozen, live)
      /\ context' = ToTurns(anchor, frozen', live')
      /\ live' = SubSeq(l, c + 1, Len(l)) /\ Len(l) >= 2
  BY DEF CompactStep, Receive, MustCompact, HarnessContract
<1>2. Policy!Receive /\ anchor.kind = "anchor"
  BY <1>1, ReceiveReceives
<1>3. /\ frozen \in Seq(SegmentSet) /\ live \in Seq(RawTurn)
      /\ frozen' \in Seq(SegmentSet) /\ live' \in Seq(RawTurn)
  BY DEF TInv, TypeOK
<1>4. /\ l \in Seq(RawTurn) /\ Len(live) \in Nat /\ Len(l) = Len(live) + 1
      /\ (\A k \in 1..Len(live) : l[k] = live[k]) /\ l[Len(live) + 1] = turn
      /\ turn.id = seen + 1
  BY AppendLive, NewTurnType DEF TInv
<1> HIDE DEF l
<1>5. c \in 1..(Len(l) - 1)
  BY <1>1, <1>4, CutoffBounds
<1> HIDE DEF c
<1>6. Len(live') = Len(l) - c /\ \A k \in 1..(Len(l) - c) : live'[k] = l[c + k]
  BY <1>1, <1>4, <1>5, RetireSplit
<1>7. Rendering(context, anchor, frozen, live) /\ Rendering(context', anchor, frozen', live')
  BY <1>1, <1>3, ToTurnsIs
<1>8. context'[1] = context[1] /\ Len(context') > 0
  <2>1. Len(frozen') \in Nat /\ Len(live') \in Nat
    BY <1>3, LenProperties
  <2> QED
    BY <1>7, <2>1 DEF Rendering
<1>9. Policy!RawIds(context') \subseteq Policy!RawIds(context) \cup {seen'}
  <2>1. /\ Policy!RawIds(context) = { live[k].id : k \in 1..Len(live) }
        /\ Policy!RawIds(context') = { live'[k].id : k \in 1..Len(live') }
    <3>1. /\ \A k \in 1..Len(live) : live[k].kind = "raw"
          /\ \A k \in 1..Len(live') : live'[k].kind = "raw"
      BY <1>3, RawTurnsAreRaw
    <3>2. /\ Len(frozen) \in Nat /\ Len(live) \in Nat
          /\ Len(frozen') \in Nat /\ Len(live') \in Nat
      BY <1>3, LenProperties
    <3>3. ShownIds(context) = { live[k].id : k \in 1..Len(live) }
      BY <1>2, <1>7, <3>1, <3>2, LiveIsShown
    <3>4. ShownIds(context') = { live'[k].id : k \in 1..Len(live') }
      BY <1>2, <1>7, <3>1, <3>2, LiveIsShown
    <3>5. \A t : Policy!RawIds(t) = ShownIds(t)
      BY DEF Policy!RawIds, ShownIds
    <3> QED
      BY <3>3, <3>4, <3>5
  <2>2. ASSUME NEW k \in 1..Len(live')
        PROVE  live'[k].id = seen' \/ \E j \in 1..Len(live) : live'[k].id = live[j].id
    <3>1. live'[k] = l[c + k] /\ c + k \in 1..(Len(live) + 1)
      BY <1>4, <1>5, <1>6
    <3>2. CASE c + k = Len(live) + 1
      BY <1>1, <1>4, <3>1, <3>2
    <3>3. CASE c + k \in 1..Len(live)
      BY <1>4, <3>1, <3>3
    <3> QED
      BY <1>4, <3>1, <3>2, <3>3
  <2> QED
    BY <2>1, <2>2
<1>10. Policy!RawIdsInOrder(context')
  <2> DEFINE C == CoveredBy(frozen', Len(frozen'))
  <2>1. Accounted(frozen', live', seen')
    BY <1>1 DEF EveryTurnAccountedFor
  <2>2. C \in Nat
    BY <1>3, <2>1, CoveredIsNat
  <2>3. \A k \in 1..Len(live') : live'[k].id = C + k
    BY <2>1 DEF Accounted
  <2> HIDE DEF C
  <2>4. \A k, m \in 1..Len(live') : k < m => live'[k].id < live'[m].id
    BY <2>2, <2>3
  <2>5. \A k \in 1..Len(live') : live'[k].kind = "raw"
    BY <1>3, RawTurnsAreRaw
  <2> QED
    BY <1>2, <1>3, <1>7, <2>4, <2>5, LenProperties, LiveIsShownInOrder DEF Policy!RawIdsInOrder
<1>11. fired' = TRUE
  BY DEF CompactStep
<1> QED
  BY <1>1, <1>2, <1>8, <1>9, <1>10, <1>11 DEF Policy!Compact

\* AppendOnlyPolicy implements CompactionPolicy (policies/base.py:13-22): each
\* call of maybe_compact is a step the replay loop is prepared for.
THEOREM Implementation == Spec => ImplementsPolicy
<1> DEFINE Inv == TInv /\ HarnessContract /\ EveryTurnAccountedFor
<1>1. Init => Policy!Init
  BY DEF Init, Policy!Init
<1>2. Inv /\ Inv' /\ [Next]_vars => [Policy!Next]_(Policy!vars)
  <2> SUFFICES ASSUME TInv, TInv', HarnessContract, EveryTurnAccountedFor,
                      EveryTurnAccountedFor', [Next]_vars
               PROVE  [Policy!Next]_(Policy!vars)
    OBVIOUS
  <2>1. ASSUME NEW text \in AnchorTexts, FirstCall(text) PROVE Policy!Next
    BY <2>1, FirstCallStarts DEF Policy!Next
  <2>2. ASSUME NEW turn \in NewTurns,
               \/ \E text \in AnchorTexts : AnchorDrift(turn, text)
               \/ SummarizerFails(turn)
        PROVE  Policy!Next
    <3>1. /\ Receive(turn) /\ context' = context /\ fired' = fired
          /\ outcome' \in {"anchor_drift", "summarizer_failed"}
      BY <2>2, Zenon DEF AnchorDrift, SummarizerFails
    <3>2. (outcome' # "running") = TRUE
      BY <3>1
    <3>3. Policy!Receive
      BY <3>1, ReceiveReceives
    <3> QED
      BY <3>1, <3>2, <3>3 DEF Policy!Next, Policy!Raise
  <2>3. ASSUME NEW turn \in NewTurns, PlainStep(turn) PROVE Policy!Next
    BY <2>3, PlainStepPassesThrough DEF Policy!Next
  <2>4. ASSUME NEW turn \in NewTurns, NEW size \in SummarySizes, CompactStep(turn, size)
        PROVE  Policy!Next
    BY <2>4, CompactStepCompacts DEF Policy!Next
  <2>5. CASE UNCHANGED vars
    BY <2>5 DEF vars, Policy!vars
  <2> QED
    BY <2>1, <2>2, <2>3, <2>4, <2>5 DEF Next
<1>3. Spec => []Inv
  BY TInvInit, TInvNext, Accounting, Contract, PTL DEF Spec
<1> QED
  BY <1>1, <1>2, <1>3, PTL DEF Spec, ImplementsPolicy, Policy!Spec
-----------------------------------------------------------------------------
\* What a rendering adds for turn i to the tokens of those in front of it.
Step(ids, s, P, i) ==
    IF i \in P THEN Padded(ids \o Tokens(s[i])) ELSE ids \o Tokens(s[i])

\* The tokens of the first m turns: g[0] .. g[m].
LaidUpto(g, s, P, m) ==
    g = [i \in 0..m |-> IF i = 0 THEN <<>> ELSE Step(g[i - 1], s, P, i)]

\* The recursion of Laid has a solution that is one turn longer.
LEMMA LaidExtends ==
    ASSUME NEW s, NEW P, NEW m \in Nat, NEW f, LaidUpto(f, s, P, m)
    PROVE  \E g : LaidUpto(g, s, P, m + 1)
<1> DEFINE g == [i \in 0..(m + 1) |-> IF i <= m THEN f[i] ELSE Step(f[i - 1], s, P, i)]
<1>1. \A i \in 0..m : g[i] = f[i]
  OBVIOUS
<1>2. \A i \in 0..m : f[i] = IF i = 0 THEN <<>> ELSE Step(f[i - 1], s, P, i)
  BY Zenon DEF LaidUpto
<1>3. g[m + 1] = Step(f[m], s, P, m + 1)
  <2>1. m + 1 \in 0..(m + 1) /\ ~(m + 1 <= m) /\ (m + 1) - 1 = m
    OBVIOUS
  <2>2. g[m + 1] = Step(f[(m + 1) - 1], s, P, m + 1)
    BY <2>1, Zenon
  <2> QED
    BY <2>1, <2>2, Zenon
<1>4. g = [i \in 0..(m + 1) |-> g[i]]
  OBVIOUS
<1> HIDE DEF g
<1>5. \A i \in 0..(m + 1) : g[i] = IF i = 0 THEN <<>> ELSE Step(g[i - 1], s, P, i)
  <2> TAKE i \in 0..(m + 1)
  <2>1. CASE i = m + 1
    <3>1. i # 0 /\ i - 1 = m /\ m \in 0..m
      BY <2>1
    <3>2. g[i - 1] = f[m]
      BY <3>1, <1>1, Zenon
    <3> QED
      BY <3>1, <3>2, <2>1, <1>3, Zenon
  <2>2. CASE i \in 1..m
    <3>1. i # 0 /\ i - 1 \in 0..m /\ i \in 0..m
      BY <2>2
    <3>2. g[i - 1] = f[i - 1] /\ g[i] = f[i]
      BY <3>1, <1>1, Zenon
    <3> QED
      BY <3>1, <3>2, <1>2, Zenon
  <2>3. CASE i = 0
    <3>1. 0 \in 0..m
      OBVIOUS
    <3> QED
      BY <3>1, <2>3, <1>1, <1>2, Zenon
  <2> QED
    BY <2>1, <2>2, <2>3
<1>6. [i \in 0..(m + 1) |-> g[i]]
        = [i \in 0..(m + 1) |-> IF i = 0 THEN <<>> ELSE Step(g[i - 1], s, P, i)]
  BY <1>5, Zenon
<1>7. LaidUpto(g, s, P, m + 1)
  BY <1>4, <1>6, Zenon DEF LaidUpto
<1> QED
  BY <1>7, Zenon

\* Laid is the last value of its recursion, which is defined.
LEMMA LaidDefined ==
    ASSUME NEW s, Len(s) \in Nat, NEW P
    PROVE  \E g : LaidUpto(g, s, P, Len(s)) /\ Laid(s, P) = g[Len(s)]
<1> DEFINE D == { m \in Nat : \E f : LaidUpto(f, s, P, m) }
<1>1. 0 \in D
  <2> DEFINE f0 == [i \in 0..0 |-> <<>>]
  <2>1. LaidUpto(f0, s, P, 0)
    BY DEF LaidUpto
  <2> QED
    BY <2>1
<1>2. ASSUME NEW m \in Nat, m \in D PROVE m + 1 \in D
  <2>1. PICK f : LaidUpto(f, s, P, m)
    BY <1>2
  <2>2. \E g : LaidUpto(g, s, P, m + 1)
    BY <2>1, LaidExtends
  <2>3. m + 1 \in Nat
    OBVIOUS
  <2> QED
    BY <2>2, <2>3, Zenon
<1>3. Nat \subseteq D
  <2> HIDE DEF D
  <2> QED
    BY <1>1, <1>2, Induction
<1>4. \E f : LaidUpto(f, s, P, Len(s))
  <2>1. Len(s) \in D
    BY <1>3
  <2> QED
    BY <2>1, Zenon
<1> DEFINE h == CHOOSE f : LaidUpto(f, s, P, Len(s))
<1>5. LaidUpto(h, s, P, Len(s))
  BY <1>4, Zenon
<1>6. Laid(s, P) = h[Len(s)]
  BY Zenon DEF Laid, LaidUpto, Step
<1> QED
  BY <1>5, <1>6, Zenon

\* Two renderings agree as far as their turns and their padding do.
LEMMA LaidAgree ==
    ASSUME NEW s, NEW t, NEW P, NEW Q, NEW n \in Nat,
           Len(s) \in Nat, Len(t) \in Nat, n <= Len(s), n <= Len(t),
           NEW g, LaidUpto(g, s, P, Len(s)), NEW h, LaidUpto(h, t, Q, Len(t)),
           \A i \in 1..n : s[i] = t[i] /\ (i \in P <=> i \in Q)
    PROVE  g[n] = h[n]
<1>1. \A i \in 0..Len(s) : g[i] = IF i = 0 THEN <<>> ELSE Step(g[i - 1], s, P, i)
  BY Zenon DEF LaidUpto
<1>2. \A i \in 0..Len(t) : h[i] = IF i = 0 THEN <<>> ELSE Step(h[i - 1], t, Q, i)
  BY Zenon DEF LaidUpto
<1> DEFINE D == { i \in Nat : i <= n => g[i] = h[i] }
<1>3. 0 \in D
  <2>1. 0 \in 0..Len(s) /\ 0 \in 0..Len(t)
    OBVIOUS
  <2>2. g[0] = h[0]
    BY <1>1, <1>2, <2>1, Zenon
  <2> QED
    BY <2>2
<1>4. ASSUME NEW i \in Nat, i \in D PROVE i + 1 \in D
  <2> SUFFICES ASSUME i + 1 <= n PROVE g[i + 1] = h[i + 1]
    OBVIOUS
  <2>1. /\ i + 1 \in 0..Len(s) /\ i + 1 \in 0..Len(t) /\ i + 1 \in 1..n
        /\ i + 1 # 0 /\ (i + 1) - 1 = i
    OBVIOUS
  <2>2. g[i] = h[i]
    BY <1>4
  <2>3. g[i + 1] = Step(g[i], s, P, i + 1) /\ h[i + 1] = Step(h[i], t, Q, i + 1)
    BY <1>1, <1>2, <2>1, Zenon
  <2>4. s[i + 1] = t[i + 1] /\ (i + 1 \in P <=> i + 1 \in Q)
    BY <2>1, Zenon
  <2>5. Step(g[i], s, P, i + 1) = Step(h[i], t, Q, i + 1)
    BY <2>2, <2>4, Zenon DEF Step
  <2> QED
    BY <2>3, <2>5, Zenon
<1>5. Nat \subseteq D
  <2> HIDE DEF D
  <2> QED
    BY <1>3, <1>4, Induction
<1> QED
  BY <1>5

\* No turns, no tokens.
LEMMA LaidEmpty == \A P : Laid(<<>>, P) = <<>>
<1> TAKE P
<1>1. Len(<<>>) = 0
  BY EmptySeq
<1>2. PICK g : LaidUpto(g, <<>>, P, 0) /\ Laid(<<>>, P) = g[0]
  BY <1>1, LaidDefined
<1>3. \A i \in 0..0 : g[i] = IF i = 0 THEN <<>> ELSE Step(g[i - 1], <<>>, P, i)
  BY <1>2, Zenon DEF LaidUpto
<1>4. 0 \in 0..0
  OBVIOUS
<1> QED
  BY <1>2, <1>3, <1>4, Zenon

\* Only the padding behind turns there are matters.
LEMMA LaidSame ==
    ASSUME NEW s, Len(s) \in Nat, NEW P, NEW Q, \A i \in 1..Len(s) : i \in P <=> i \in Q
    PROVE  Laid(s, P) = Laid(s, Q)
<1>1. PICK g : LaidUpto(g, s, P, Len(s)) /\ Laid(s, P) = g[Len(s)]
  BY LaidDefined
<1>2. PICK h : LaidUpto(h, s, Q, Len(s)) /\ Laid(s, Q) = h[Len(s)]
  BY LaidDefined
<1>3. g[Len(s)] = h[Len(s)]
  <2> DEFINE m == Len(s)
  <2>1. \A i \in 1..m : s[i] = s[i] /\ (i \in P <=> i \in Q)
    BY Zenon
  <2>2. m \in Nat /\ m <= Len(s) /\ Len(s) \in Nat
    OBVIOUS
  <2> HIDE DEF m
  <2>3. g[m] = h[m]
    BY <1>1, <1>2, <2>1, <2>2, LaidAgree
  <2> QED
    BY <2>3 DEF m
<1> QED
  BY <1>1, <1>2, <1>3, Zenon

\* One more turn.
LEMMA LaidAppend ==
    ASSUME NEW S, NEW s \in Seq(S), NEW t \in S, NEW P
    PROVE  Laid(Append(s, t), P) =
             IF Len(s) + 1 \in P THEN Padded(Laid(s, P) \o Tokens(t))
             ELSE Laid(s, P) \o Tokens(t)
<1> DEFINE u == Append(s, t)
<1>1. /\ Len(s) \in Nat /\ Len(u) = Len(s) + 1 /\ u[Len(s) + 1] = t
      /\ \A i \in 1..Len(s) : u[i] = s[i]
  BY AppendProperties, LenProperties
<1> HIDE DEF u
<1>2. PICK g : LaidUpto(g, s, P, Len(s)) /\ Laid(s, P) = g[Len(s)]
  BY <1>1, LaidDefined
<1>3. PICK h : LaidUpto(h, u, P, Len(u)) /\ Laid(u, P) = h[Len(u)]
  <2>1. Len(u) \in Nat
    BY <1>1
  <2> QED
    BY <2>1, LaidDefined
<1>4. g[Len(s)] = h[Len(s)]
  <2>1. Len(u) \in Nat /\ Len(s) <= Len(u)
    BY <1>1
  <2> QED
    BY <1>1, <1>2, <1>3, <2>1, LaidAgree
<1>5. h[Len(s) + 1] = Step(h[Len(s)], u, P, Len(s) + 1)
  <2>1. \A i \in 0..Len(u) : h[i] = IF i = 0 THEN <<>> ELSE Step(h[i - 1], u, P, i)
    BY <1>3, Zenon DEF LaidUpto
  <2>2. Len(s) + 1 \in 0..Len(u) /\ Len(s) + 1 # 0 /\ (Len(s) + 1) - 1 = Len(s)
    BY <1>1
  <2> QED
    BY <2>1, <2>2, Zenon
<1>6. Laid(u, P) = Step(Laid(s, P), u, P, Len(s) + 1)
  BY <1>1, <1>2, <1>3, <1>4, <1>5, Zenon
<1> QED
  BY <1>1, <1>6, Zenon DEF Step, u
-----------------------------------------------------------------------------
\* What the tokens of turns in S, padding included, are taken from.
TokenSet(S) == (S \cup {Filler}) \X Nat

\* Turns that render to one token at least.
Sized(S) == \A t \in S : t.size \in Nat \ {0}

\* A turn has as many tokens as its size, one after the other.
LEMMA TokensAre ==
    ASSUME NEW S, Sized(S), NEW t \in S
    PROVE  /\ Tokens(t) \in Seq(TokenSet(S)) /\ Len(Tokens(t)) \in Nat \ {0}
           /\ \A i \in 1..Len(Tokens(t)) : Tokens(t)[i] = <<t, i>>
<1>1. t.size \in Nat \ {0}
  BY DEF Sized
<1>2. Tokens(t) \in [1..t.size -> TokenSet(S)]
  BY <1>1 DEF Tokens, TokenSet
<1>3. Tokens(t) \in Seq(TokenSet(S))
  BY <1>1, <1>2, SeqDef
<1>4. Len(Tokens(t)) = t.size
  BY <1>1, <1>2, <1>3, LenProperties
<1>5. \A i \in 1..t.size : Tokens(t)[i] = <<t, i>>
  BY Zenon DEF Tokens
<1> QED
  BY <1>1, <1>3, <1>4, <1>5

\* pad_to_block_boundary adds fillers only, up to a multiple of the block.
LEMMA PaddedIs ==
    ASSUME NEW S, NEW ids \in Seq(TokenSet(S))
    PROVE  /\ \E pad \in Seq({<<Filler, 1>>}) : Padded(ids) = ids \o pad
           /\ Padded(ids) \in Seq(TokenSet(S))
           /\ Len(Padded(ids)) % BlockSize = 0
           /\ Len(Padded(ids)) >= Len(ids)
<1> DEFINE n == Len(ids)
           more == TokensToPad(n)
           pad == [k \in 1..more |-> <<Filler, 1>>]
<1>1. n \in Nat /\ BlockSize \in Nat \ {0}
  BY LenProperties, PrefixCacheAssumption
<1>2. more \in Nat /\ (n + more) % BlockSize = 0
  <2> HIDE DEF n
  <2>1. n % BlockSize \in 0..(BlockSize - 1)
    BY <1>1
  <2>2. n = BlockSize * (n \div BlockSize) + (n % BlockSize)
    BY <1>1
  <2>3. CASE n % BlockSize = 0
    BY <1>1, <2>3 DEF TokensToPad
  <2>4. CASE n % BlockSize # 0
    <3>1. more = BlockSize - (n % BlockSize) /\ more \in Nat
      BY <1>1, <2>1, <2>4 DEF TokensToPad
    <3> DEFINE q == n \div BlockSize
    <3>2. q \in Nat
      BY <1>1
    <3>3. n + more = BlockSize * q + BlockSize
      BY <1>1, <2>1, <2>2, <3>1, <3>2
    <3> HIDE DEF q, more
    <3>4. BlockSize * q + BlockSize = BlockSize * (q + 1)
      BY <1>1, <3>2
    <3>5. (BlockSize * (q + 1)) % BlockSize = 0
      BY <1>1, <3>2
    <3> QED
      BY <3>1, <3>3, <3>4, <3>5
  <2> QED
    BY <2>3, <2>4
<1> HIDE DEF more
<1>3. /\ pad \in Seq({<<Filler, 1>>}) /\ Len(pad) = more
  <2>1. pad \in [1..more -> {<<Filler, 1>>}]
    OBVIOUS
  <2> HIDE DEF pad
  <2>2. pad \in Seq({<<Filler, 1>>})
    BY <1>2, <2>1, SeqDef
  <2> QED
    BY <1>2, <2>1, <2>2, LenProperties
<1>4. Padded(ids) = ids \o pad
  BY Zenon DEF Padded, n, more, pad
<1> HIDE DEF pad
<1>5. pad \in Seq(TokenSet(S))
  <2>1. {<<Filler, 1>>} \subseteq TokenSet(S)
    BY DEF TokenSet
  <2> QED
    BY <1>3, <2>1, SeqMonotonic
<1>6. ids \o pad \in Seq(TokenSet(S)) /\ Len(ids \o pad) = n + more
  BY <1>3, <1>5, ConcatProperties
<1>7. n + more >= n
  BY <1>1, <1>2
<1> QED
  BY <1>2, <1>3, <1>4, <1>6, <1>7

\* A rendering is a list of tokens, and empty only if there are no turns.
LEMMA LaidType ==
    ASSUME NEW S, Sized(S), NEW s \in Seq(S), NEW P
    PROVE  /\ Laid(s, P) \in Seq(TokenSet(S))
           /\ s # <<>> => Len(Laid(s, P)) \in Nat \ {0}
<1> DEFINE D == { u \in Seq(S) : /\ Laid(u, P) \in Seq(TokenSet(S))
                                 /\ u # <<>> => Len(Laid(u, P)) \in Nat \ {0} }
<1>1. <<>> \in D
  BY LaidEmpty, EmptySeq
<1>2. ASSUME NEW u \in Seq(S), NEW t \in S, u \in D PROVE Append(u, t) \in D
  <2> DEFINE ids == Laid(u, P) \o Tokens(t)
             v == Append(u, t)
  <2>1. ids \in Seq(TokenSet(S)) /\ Len(ids) \in Nat \ {0}
    <3>1. Laid(u, P) \in Seq(TokenSet(S)) /\ Len(Laid(u, P)) \in Nat
      BY <1>2, LenProperties
    <3>2. Tokens(t) \in Seq(TokenSet(S)) /\ Len(Tokens(t)) \in Nat \ {0}
      BY TokensAre
    <3>3. ids \in Seq(TokenSet(S)) /\ Len(ids) = Len(Laid(u, P)) + Len(Tokens(t))
      BY <3>1, <3>2, ConcatProperties
    <3> QED
      BY <3>1, <3>2, <3>3
  <2>2. Laid(v, P) = IF Len(u) + 1 \in P THEN Padded(ids) ELSE ids
    BY LaidAppend
  <2> HIDE DEF ids
  <2>3. Padded(ids) \in Seq(TokenSet(S)) /\ Len(Padded(ids)) \in Nat \ {0}
    <3>1. Padded(ids) \in Seq(TokenSet(S)) /\ Len(Padded(ids)) >= Len(ids)
      BY <2>1, PaddedIs
    <3>2. Len(Padded(ids)) \in Nat
      BY <3>1, LenProperties
    <3> QED
      BY <2>1, <3>1, <3>2
  <2>4. v \in Seq(S)
    BY AppendProperties
  <2>5. Laid(v, P) \in Seq(TokenSet(S)) /\ Len(Laid(v, P)) \in Nat \ {0}
    BY <2>1, <2>2, <2>3
  <2> QED
    BY <2>4, <2>5
<1>3. Seq(S) \subseteq D
  <2> HIDE DEF D
  <2> QED
    BY <1>1, <1>2, SeqInduction
<1> QED
  BY <1>3

\* Turns behind the last padding are laid out on their own.
LEMMA LaidConcat ==
    ASSUME NEW S, Sized(S), NEW s \in Seq(S), NEW t \in Seq(S), NEW P, P \subseteq 1..Len(s)
    PROVE  Laid(s \o t, P) = Laid(s, P) \o TokenIds(t)
<1> DEFINE D == { u \in Seq(S) : Laid(s \o u, P) = Laid(s, P) \o TokenIds(u) }
<1>1. Laid(s, P) \in Seq(TokenSet(S)) /\ \A u \in Seq(S) : TokenIds(u) \in Seq(TokenSet(S))
  BY LaidType DEF TokenIds
<1>2. <<>> \in D
  <2>1. s \o <<>> = s /\ TokenIds(<<>>) = <<>>
    BY ConcatEmptySeq, LaidEmpty DEF TokenIds
  <2>2. Laid(s, P) \o <<>> = Laid(s, P)
    BY <1>1, ConcatEmptySeq
  <2>3. <<>> \in Seq(S)
    BY EmptySeq
  <2> QED
    BY <2>1, <2>2, <2>3
<1>3. ASSUME NEW u \in Seq(S), NEW x \in S, u \in D PROVE Append(u, x) \in D
  <2>1. Tokens(x) \in Seq(TokenSet(S))
    BY TokensAre
  <2>2. s \o Append(u, x) = Append(s \o u, x)
    <3>1. Append(u, x) = u \o <<x>> /\ <<x>> \in Seq(S)
      BY AppendIsConcat
    <3>2. s \o u \in Seq(S)
      BY ConcatProperties
    <3>3. Append(s \o u, x) = (s \o u) \o <<x>>
      BY <3>2, AppendIsConcat
    <3>4. (s \o u) \o <<x>> = s \o (u \o <<x>>)
      BY <3>1, ConcatAssociative
    <3> QED
      BY <3>1, <3>3, <3>4
  <2>3. Laid(Append(s \o u, x), P) = Laid(s \o u, P) \o Tokens(x)
    <3>1. s \o u \in Seq(S) /\ Len(s \o u) = Len(s) + Len(u) /\ Len(s) \in Nat /\ Len(u) \in Nat
      BY ConcatProperties, LenProperties
    <3>2. Len(s \o u) + 1 \notin P
      BY <3>1
    <3> QED
      BY <3>1, <3>2, LaidAppend
  <2>4. TokenIds(Append(u, x)) = TokenIds(u) \o Tokens(x)
    BY LaidAppend DEF TokenIds
  <2>5. (Laid(s, P) \o TokenIds(u)) \o Tokens(x) = Laid(s, P) \o (TokenIds(u) \o Tokens(x))
    <3>1. TokenIds(u) \in Seq(TokenSet(S)) /\ Laid(s, P) \in Seq(TokenSet(S))
      BY <1>1
    <3> QED
      BY <2>1, <3>1, ConcatAssociative, SMTT(30)
  <2>6. Laid(s \o u, P) = Laid(s, P) \o TokenIds(u)
    BY <1>3
  <2>7. Append(u, x) \in Seq(S)
    BY AppendProperties
  <2>8. Laid(s \o Append(u, x), P) = Laid(s, P) \o TokenIds(Append(u, x))
    BY <2>2, <2>3, <2>4, <2>5, <2>6, Zenon
  <2> QED
    BY <2>7, <2>8
<1>4. Seq(S) \subseteq D
  <2> HIDE DEF D
  <2> QED
    BY <1>2, <1>3, SeqInduction
<1> QED
  BY <1>4

\* Without padding every token is one of a turn that is there.
LEMMA TokensOfTurns ==
    ASSUME NEW S, Sized(S), NEW s \in Seq(S)
    PROVE  \A i \in 1..Len(TokenIds(s)) : \E k \in 1..Len(s) : TokenIds(s)[i][1] = s[k]
<1> DEFINE Own(u) == \A i \in 1..Len(TokenIds(u)) :
                        \E k \in 1..Len(u) : TokenIds(u)[i][1] = u[k]
           D == { u \in Seq(S) : Own(u) }
<1>1. <<>> \in D
  <2>1. TokenIds(<<>>) = <<>> /\ <<>> \in Seq(S) /\ Len(<<>>) = 0
    BY LaidEmpty, EmptySeq DEF TokenIds
  <2> QED
    BY <2>1
<1>2. ASSUME NEW u \in Seq(S), NEW x \in S, u \in D PROVE Append(u, x) \in D
  <2> DEFINE v == Append(u, x)
  <2>1. /\ v \in Seq(S) /\ Len(v) = Len(u) + 1 /\ Len(u) \in Nat /\ v[Len(u) + 1] = x
        /\ \A k \in 1..Len(u) : v[k] = u[k]
    BY AppendProperties, LenProperties
  <2>2. TokenIds(v) = TokenIds(u) \o Tokens(x)
    BY LaidAppend DEF TokenIds
  <2> HIDE DEF v
  <2> DEFINE old == TokenIds(u)
             new == Tokens(x)
  <2>3. old \in Seq(TokenSet(S)) /\ Len(old) \in Nat
    BY LaidType, LenProperties DEF TokenIds
  <2>4. /\ new \in Seq(TokenSet(S)) /\ Len(new) \in Nat
        /\ \A i \in 1..Len(new) : new[i] = <<x, i>>
    BY TokensAre
  <2>5. \A i \in 1..Len(old) : \E k \in 1..Len(u) : old[i][1] = u[k]
    BY <1>2
  <2> HIDE DEF old, new
  <2>6. /\ Len(TokenIds(v)) = Len(old) + Len(new)
        /\ \A i \in 1..(Len(old) + Len(new)) :
             TokenIds(v)[i] = IF i <= Len(old) THEN old[i] ELSE new[i - Len(old)]
    <3>1. TokenIds(v) = old \o new
      BY <2>2 DEF old, new
    <3> QED
      BY <2>3, <2>4, <3>1, ConcatProperties
  <2>7. ASSUME NEW i \in 1..Len(TokenIds(v))
        PROVE  \E k \in 1..Len(v) : TokenIds(v)[i][1] = v[k]
    <3>1. CASE i <= Len(old)
      <4>1. i \in 1..Len(old) /\ TokenIds(v)[i] = old[i]
        BY <2>3, <2>4, <2>6, <3>1
      <4>2. PICK k \in 1..Len(u) : old[i][1] = u[k]
        BY <2>5, <4>1
      <4>3. k \in 1..Len(v) /\ v[k] = u[k]
        BY <2>1
      <4> QED
        BY <4>1, <4>2, <4>3
    <3>2. CASE ~(i <= Len(old))
      <4>1. i - Len(old) \in 1..Len(new) /\ TokenIds(v)[i] = new[i - Len(old)]
        BY <2>3, <2>4, <2>6, <3>2
      <4>2. TokenIds(v)[i][1] = x
        BY <2>4, <4>1
      <4>3. Len(u) + 1 \in 1..Len(v)
        BY <2>1
      <4> QED
        BY <2>1, <4>2, <4>3
    <3> QED
      BY <3>1, <3>2
  <2>8. v \in Seq(S) /\ Own(v)
    BY <2>1, <2>7
  <2> QED
    BY <2>8 DEF v
<1>3. Seq(S) \subseteq D
  <2> HIDE DEF D
  <2> QED
    BY <1>1, <1>2, SeqInduction
<1> QED
  BY <1>3
-----------------------------------------------------------------------------
\* Reversing, read from the end.
LEMMA ReverseIs ==
    ASSUME NEW S, NEW s \in Seq(S)
    PROVE  /\ Reverse(s) \in Seq(S) /\ Len(Reverse(s)) = Len(s)
           /\ \A k \in 1..Len(s) : Reverse(s)[Len(s) - k + 1] = s[k]
<1>1. Len(s) \in Nat /\ \A k \in 1..Len(s) : s[k] \in S
  BY LenProperties, ElementOfSeq
<1>2. Reverse(s) = [i \in 1..Len(s) |-> s[(Len(s) - i) + 1]]
  BY Zenon DEF Reverse
<1>3. \A i \in 1..Len(s) : (Len(s) - i) + 1 \in 1..Len(s)
  BY <1>1
<1>4. Reverse(s) \in [1..Len(s) -> S]
  BY <1>1, <1>2, <1>3
<1>5. Reverse(s) \in Seq(S)
  BY <1>1, <1>4, SeqDef
<1>6. Len(Reverse(s)) = Len(s)
  BY <1>1, <1>4, <1>5, LenProperties
<1>7. ASSUME NEW k \in 1..Len(s) PROVE Reverse(s)[Len(s) - k + 1] = s[k]
  <2> DEFINE j == Len(s) - k + 1
  <2>1. j \in 1..Len(s) /\ (Len(s) - j) + 1 = k
    BY <1>1
  <2> HIDE DEF j
  <2>2. Reverse(s)[j] = s[(Len(s) - j) + 1]
    BY <1>2, <2>1, Zenon
  <2>3. Reverse(s)[j] = s[k]
    BY <2>1, <2>2
  <2> QED
    BY <2>3 DEF j
<1> QED
  BY <1>5, <1>6, <1>7

\* Any number of tokens fills a whole number of blocks.
LEMMA BlockCount == \A n \in Nat : n \div BlockSize \in Nat
<1> QED
  BY PrefixCacheAssumption

\* The first n blocks of a prompt are found, so the hit is n blocks at least.
LEMMA HitIs ==
    ASSUME NEW S, NEW ids \in Seq(S), Len(ids) # 0, NEW cache
    PROVE  /\ HitBlocks(cache, ids) \in Nat
           /\ CachedTokens(cache, ids) \in 0..Len(ids)
           /\ \A n \in Nat : n * BlockSize < Len(ids)
                               /\ (\A k \in 1..n : Contains(cache, Block(ids, k)))
                             => n <= HitBlocks(cache, ids)
<1> DEFINE b == (Len(ids) - 1) \div BlockSize
           reusable == { n \in 0..b : \A k \in 1..n : Contains(cache, Block(ids, k)) }
<1>1. Len(ids) \in Nat /\ Len(ids) - 1 \in Nat /\ BlockSize \in Nat \ {0}
  BY LenProperties, PrefixCacheAssumption
<1>2. b \in Nat /\ b * BlockSize <= Len(ids) - 1
  BY <1>1
<1>3. \A n \in Nat : n * BlockSize < Len(ids) => n <= b
  <2> TAKE n \in Nat
  <2> HAVE n * BlockSize < Len(ids)
  <2>1. Len(ids) - 1 < (b + 1) * BlockSize
    BY <1>1
  <2> HIDE DEF b
  <2>2. ASSUME b + 1 <= n PROVE FALSE
    <3>1. (b + 1) * BlockSize <= n * BlockSize
      BY <1>1, <1>2, <2>2
    <3>2. (b + 1) * BlockSize \in Nat /\ n * BlockSize \in Nat
      BY <1>1, <1>2
    <3> QED
      BY <1>1, <2>1, <3>1, <3>2
  <2> QED
    BY <1>2, <2>2
<1> HIDE DEF b
<1>4. reusable \subseteq 0..b /\ reusable # {}
  <2>1. 0 \in reusable
    BY <1>2
  <2> QED
    BY <2>1
<1>5. \E n \in reusable : \A k \in reusable : k <= n
  BY <1>2, <1>4, NatGreatest
<1>6. HitBlocks(cache, ids) = CHOOSE n \in reusable : \A k \in reusable : k <= n
  BY Zenon DEF HitBlocks, reusable, b
<1>7. HitBlocks(cache, ids) \in reusable /\ \A k \in reusable : k <= HitBlocks(cache, ids)
  BY <1>5, <1>6, Zenon
<1> DEFINE h == HitBlocks(cache, ids)
<1>8. h \in 0..b
  BY <1>4, <1>7
<1> HIDE DEF h
<1>9. h * BlockSize <= b * BlockSize /\ h * BlockSize \in Nat /\ b * BlockSize \in Nat
  BY <1>1, <1>2, <1>8
<1>10. CachedTokens(cache, ids) \in 0..Len(ids)
  BY <1>1, <1>2, <1>9 DEF CachedTokens, h
<1>11. ASSUME NEW n \in Nat, n * BlockSize < Len(ids),
              \A k \in 1..n : Contains(cache, Block(ids, k))
       PROVE  n <= h
  <2>1. n \in 0..b
    BY <1>2, <1>3, <1>11
  <2>2. n \in reusable
    BY <1>11, <2>1
  <2> QED
    BY <1>7, <2>2 DEF h
<1> QED
  BY <1>8, <1>10, <1>11 DEF h

\* Blocks of a prompt are prefixes that differ in length.
LEMMA BlocksAre ==
    ASSUME NEW S, NEW ids \in Seq(S)
    PROVE  /\ FullBlocks(ids) \in Seq(Seq(S))
           /\ Len(FullBlocks(ids)) = Len(ids) \div BlockSize /\ Len(ids) \div BlockSize \in Nat
           /\ \A k \in 1..(Len(ids) \div BlockSize) :
                /\ FullBlocks(ids)[k] = Block(ids, k)
                /\ Len(Block(ids, k)) = k * BlockSize
                /\ k * BlockSize \in 1..Len(ids)
<1> DEFINE m == Len(ids) \div BlockSize
<1>1. /\ Len(ids) \in Nat /\ BlockSize \in Nat \ {0} /\ m \in Nat /\ m * BlockSize <= Len(ids)
      /\ \A i \in 1..Len(ids) : ids[i] \in S
  BY PrefixCacheAssumption, LenProperties, ElementOfSeq
<1>2. FullBlocks(ids) = [k \in 1..m |-> Block(ids, k)]
  BY Zenon DEF FullBlocks, m
<1> HIDE DEF m
<1>3. ASSUME NEW k \in 1..m
      PROVE  /\ k * BlockSize \in 1..Len(ids)
             /\ Block(ids, k) \in Seq(S) /\ Len(Block(ids, k)) = k * BlockSize
  <2> DEFINE n == k * BlockSize
  <2>1. n <= m * BlockSize /\ n \in Nat /\ n >= 1 /\ m * BlockSize \in Nat
    BY <1>1
  <2>2. Block(ids, k) = SubSeq(ids, 1, n)
    BY Zenon DEF Block, n
  <2> HIDE DEF n
  <2>3. n \in 1..Len(ids) /\ n \in Int /\ 1 \in Int /\ n - 1 + 1 = n
    BY <1>1, <2>1
  <2>4. \A i \in 1..n : ids[i] \in S
    BY <1>1, <2>3
  <2>5. SubSeq(ids, 1, n) \in Seq(S) /\ Len(SubSeq(ids, 1, n)) = n
    BY <2>3, <2>4, SubSeqProperties
  <2> QED
    BY <2>2, <2>3, <2>5 DEF n
<1>4. FullBlocks(ids) \in [1..m -> Seq(S)]
  BY <1>2, <1>3
<1>5. FullBlocks(ids) \in Seq(Seq(S))
  BY <1>1, <1>4, SeqDef
<1>6. Len(FullBlocks(ids)) = m
  BY <1>1, <1>4, <1>5, LenProperties
<1>7. \A k \in 1..m : FullBlocks(ids)[k] = Block(ids, k)
  BY <1>2, Zenon
<1> QED
  BY <1>1, <1>3, <1>5, <1>6, <1>7 DEF m
-----------------------------------------------------------------------------
\* Block b is among the n entries that are evicted last.
Young(cache, b, n) == \E p \in 1..Len(cache) : cache[p] = b /\ Len(cache) - p < n

NoTwice(cache) == \A i, j \in 1..Len(cache) : cache[i] = cache[j] => i = j

\* What is evicted when the pool is too full.
Room(all) ==
    IF Len(all) <= Capacity THEN all ELSE SubSeq(all, Len(all) - Capacity + 1, Len(all))

\* Making room drops the oldest entries only.
LEMMA RoomKeeps ==
    ASSUME NEW S, NEW all \in Seq(S)
    PROVE  /\ Room(all) \in Seq(S) /\ Len(Room(all)) <= Capacity
           /\ NoTwice(all) => NoTwice(Room(all))
           /\ \A b : \A n \in Nat : n <= Capacity /\ Young(all, b, n) => Young(Room(all), b, n)
<1>1. Len(all) \in Nat /\ Capacity \in Nat /\ \A i \in 1..Len(all) : all[i] \in S
  BY PrefixCacheAssumption, LenProperties, ElementOfSeq
<1>2. CASE Len(all) <= Capacity
  <2>1. Room(all) = all
    BY <1>2 DEF Room
  <2> QED
    BY <1>2, <2>1
<1>3. CASE ~(Len(all) <= Capacity)
  <2> DEFINE x == Len(all) - Capacity
             r == Room(all)
  <2>1. r = SubSeq(all, x + 1, Len(all)) /\ x \in Nat /\ x + Capacity = Len(all)
    BY <1>1, <1>3 DEF Room
  <2> HIDE DEF r, x
  <2>2. /\ SubSeq(all, x + 1, Len(all)) \in Seq(S)
        /\ Len(SubSeq(all, x + 1, Len(all))) = Capacity
        /\ \A i \in 1..Capacity : SubSeq(all, x + 1, Len(all))[i] = all[x + i]
    <3>1. /\ x + 1 \in Int /\ Len(all) \in Int /\ Len(all) - (x + 1) + 1 = Capacity
          /\ \A i \in (x + 1)..Len(all) : all[i] \in S
      BY <1>1, <2>1
    <3>2. /\ SubSeq(all, x + 1, Len(all)) \in Seq(S)
          /\ Len(SubSeq(all, x + 1, Len(all)))
                = IF x + 1 <= Len(all) THEN Len(all) - (x + 1) + 1 ELSE 0
          /\ \A i \in 1..(Len(all) - (x + 1) + 1) :
                SubSeq(all, x + 1, Len(all))[i] = all[(x + 1) + i - 1]
      BY <3>1, SubSeqProperties
    <3>3. \A i \in 1..Capacity : (x + 1) + i - 1 = x + i
      BY <1>1, <2>1
    <3> QED
      BY <1>1, <2>1, <3>1, <3>2, <3>3
  <2>3. r \in Seq(S) /\ Len(r) = Capacity /\ \A i \in 1..Capacity : r[i] = all[x + i]
    BY <2>1, <2>2
  <2>4. NoTwice(all) => NoTwice(r)
    <3> HAVE NoTwice(all)
    <3>1. ASSUME NEW i \in 1..Len(r), NEW j \in 1..Len(r), r[i] = r[j] PROVE i = j
      <4>1. /\ x + i \in 1..Len(all) /\ x + j \in 1..Len(all)
            /\ all[x + i] = all[x + j]
        BY <1>1, <2>1, <2>3, <3>1
      <4>2. x + i = x + j
        BY <4>1 DEF NoTwice
      <4> QED
        BY <1>1, <2>1, <2>3, <4>2
    <3> QED
      BY <3>1 DEF NoTwice
  <2>5. ASSUME NEW b, NEW n \in Nat, n <= Capacity, Young(all, b, n)
        PROVE  Young(r, b, n)
    <3>1. PICK p \in 1..Len(all) : all[p] = b /\ Len(all) - p < n
      BY <2>5 DEF Young
    <3>2. /\ p - x \in 1..Len(r) /\ x + (p - x) = p /\ Len(r) - (p - x) < n
      BY <1>1, <2>1, <2>3, <2>5, <3>1
    <3>3. r[p - x] = b
      BY <2>3, <3>1, <3>2
    <3> QED
      BY <3>2, <3>3 DEF Young
  <2> QED
    BY <1>1, <2>3, <2>4, <2>5 DEF r
<1> QED
  BY <1>2, <1>3

\* A filter does not push back what it keeps, nor does it repeat anything.
LEMMA FilteredPool ==
    ASSUME NEW S, NEW s \in Seq(S), NEW T
    PROVE  LET t == Filter(s, T)
           IN  /\ t \in Seq(S) /\ \A k \in 1..Len(t) : t[k] \in T
               /\ NoTwice(s) => NoTwice(t)
               /\ \A b \in T : \A n \in Nat : Young(s, b, n) => Young(t, b, n)
<1> DEFINE t == Filter(s, T)
<1>1. PICK e : t \in Seq(S) /\ Keeps(t, e, s, T, Len(s))
  BY FilterKeeps
<1> HIDE DEF t
<1>2. Len(t) \in Nat /\ Len(s) \in Nat
  BY <1>1, LenProperties
<1>3. /\ e \in [1..Len(t) -> 1..Len(s)]
      /\ \A k \in 1..Len(t) : t[k] = s[e[k]] /\ t[k] \in T
      /\ \A k, l \in 1..Len(t) : k < l => e[k] < e[l]
      /\ \A j \in 1..Len(s) : s[j] \in T => \E k \in 1..Len(t) : e[k] = j
  BY <1>1 DEF Keeps
<1>4. NoTwice(s) => NoTwice(t)
  <2> HAVE NoTwice(s)
  <2>1. ASSUME NEW i \in 1..Len(t), NEW j \in 1..Len(t), t[i] = t[j] PROVE i = j
    <3>1. e[i] \in 1..Len(s) /\ e[j] \in 1..Len(s) /\ s[e[i]] = s[e[j]]
      BY <1>3, <2>1
    <3>2. e[i] = e[j]
      BY <3>1 DEF NoTwice
    <3>3. ~(e[i] < e[j]) /\ ~(e[j] < e[i])
      BY <3>1, <3>2
    <3>4. ~(i < j) /\ ~(j < i)
      BY <1>3, <3>3
    <3> QED
      BY <1>2, <3>4
  <2> QED
    BY <2>1 DEF NoTwice
<1>5. ASSUME NEW b \in T, NEW n \in Nat, Young(s, b, n) PROVE Young(t, b, n)
  <2>1. PICK j \in 1..Len(s) : s[j] = b /\ Len(s) - j < n
    BY <1>5 DEF Young
  <2>2. PICK k \in 1..Len(t) : e[k] = j
    BY <1>3, <2>1
  <2>3. t[k] = b
    BY <1>3, <2>1, <2>2
  <2>4. Len(t) - k <= Len(s) - e[k]
    BY <1>2, <1>3, IncreasingGains
  <2>5. Len(t) - k < n
    BY <1>2, <2>1, <2>2, <2>4
  <2> QED
    BY <2>3, <2>5 DEF Young
<1> QED
  BY <1>1, <1>3, <1>4, <1>5 DEF t

\* Serving a prompt: its own blocks are the youngest, its first one of them the
\* very youngest, and the others age by as many as it has.
LEMMA ServedIs ==
    ASSUME NEW S, NEW cache \in Seq(Seq(S)), NEW ids \in Seq(S)
    PROVE  LET new == Served(cache, ids)
               m == Len(ids) \div BlockSize
           IN  /\ new \in Seq(Seq(S)) /\ Len(new) <= Capacity
               /\ NoTwice(cache) => NoTwice(new)
               /\ \A k \in 1..m : k <= Capacity => Young(new, Block(ids, k), k)
               /\ \A b : \A n \in Nat :
                    /\ Young(cache, b, n) /\ n + m <= Capacity
                    /\ \A k \in 1..m : Block(ids, k) # b
                    => Young(new, b, n + m)
<1> DEFINE own == FullBlocks(ids)
           m == Len(ids) \div BlockSize
           others == Filter(cache, ToSet(cache) \ ToSet(own))
           back == Reverse(own)
           all == others \o back
<1>1. /\ own \in Seq(Seq(S)) /\ Len(own) = m /\ m \in Nat /\ Capacity \in Nat
      /\ \A k \in 1..m : own[k] = Block(ids, k) /\ Len(own[k]) = k * BlockSize
  BY BlocksAre, PrefixCacheAssumption
<1>2. Served(cache, ids) = Room(all)
  BY Zenon DEF Served, Room, own, others, back, all
<1> HIDE DEF own, m
<1>3. /\ back \in Seq(Seq(S)) /\ Len(back) = m
      /\ \A k \in 1..m : back[m - k + 1] = own[k]
  BY <1>1, ReverseIs
<1>4. /\ others \in Seq(Seq(S))
      /\ \A k \in 1..Len(others) : others[k] \notin ToSet(own)
      /\ NoTwice(cache) => NoTwice(others)
      /\ \A b \in ToSet(cache) \ ToSet(own) : \A n \in Nat :
            Young(cache, b, n) => Young(others, b, n)
  <2> DEFINE T == ToSet(cache) \ ToSet(own)
  <2>1. others = Filter(cache, T)
    BY Zenon
  <2>2. \A x \in T : x \notin ToSet(own)
    OBVIOUS
  <2> HIDE DEF T, others
  <2>3. /\ others \in Seq(Seq(S)) /\ \A k \in 1..Len(others) : others[k] \in T
        /\ NoTwice(cache) => NoTwice(others)
        /\ \A b \in T : \A n \in Nat : Young(cache, b, n) => Young(others, b, n)
    BY <2>1, FilteredPool
  <2>4. \A k \in 1..Len(others) : others[k] \notin ToSet(own)
    BY <2>2, <2>3
  <2> QED
    BY <2>3, <2>4 DEF T
<1> HIDE DEF back, others
<1> DEFINE o == Len(others)
<1>5. /\ all \in Seq(Seq(S)) /\ Len(all) = o + m /\ o \in Nat
      /\ \A i \in 1..o : all[i] = others[i]
      /\ \A k \in 1..m : all[o + m - k + 1] = own[k]
  <2>1. o \in Nat
    BY <1>4, LenProperties
  <2>2. /\ all \in Seq(Seq(S)) /\ Len(all) = o + Len(back)
        /\ \A i \in 1..(o + Len(back)) : all[i] = IF i <= o THEN others[i] ELSE back[i - o]
    BY <1>3, <1>4, ConcatProperties
  <2> HIDE DEF all
  <2>3. ASSUME NEW k \in 1..m PROVE all[o + m - k + 1] = own[k]
    <3> DEFINE i == o + m - k + 1
    <3>1. i \in 1..(o + m) /\ ~(i <= o) /\ i - o = m - k + 1
      BY <1>1, <2>1
    <3> HIDE DEF i
    <3>2. all[i] = back[m - k + 1]
      BY <1>3, <2>2, <3>1
    <3>3. all[i] = own[k]
      BY <1>3, <3>2
    <3> QED
      BY <3>3 DEF i
  <2>4. \A i \in 1..o : all[i] = others[i]
    BY <1>1, <1>3, <2>1, <2>2
  <2> QED
    BY <1>3, <2>1, <2>2, <2>3, <2>4
<1> HIDE DEF all, o
<1>6. \A k \in 1..m : Young(all, Block(ids, k), k)
  <2> TAKE k \in 1..m
  <2>1. o + m - k + 1 \in 1..Len(all) /\ Len(all) - (o + m - k + 1) < k
    BY <1>1, <1>5
  <2>2. all[o + m - k + 1] = Block(ids, k)
    BY <1>1, <1>5
  <2> QED
    BY <2>1, <2>2 DEF Young
<1>7. ASSUME NEW b, NEW n \in Nat, Young(cache, b, n), \A k \in 1..m : Block(ids, k) # b
      PROVE  Young(all, b, n + m)
  <2>1. b \notin ToSet(own)
    BY <1>1, <1>7 DEF ToSet
  <2>2. b \in ToSet(cache)
    BY <1>7 DEF ToSet, Young
  <2>3. Young(others, b, n)
    BY <1>4, <1>7, <2>1, <2>2
  <2>4. PICK p \in 1..o : others[p] = b /\ o - p < n
    BY <2>3 DEF Young, o
  <2>5. p \in 1..Len(all) /\ all[p] = b /\ Len(all) - p < n + m
    BY <1>1, <1>5, <2>4, SMTT(30)
  <2> QED
    BY <2>5 DEF Young
<1>8. NoTwice(cache) => NoTwice(all)
  <2> HAVE NoTwice(cache)
  <2>1. NoTwice(others)
    BY <1>4
  <2>2. ASSUME NEW i \in 1..Len(all), ~(i <= o)
        PROVE  \E k \in 1..m : i = o + m - k + 1 /\ all[i] = own[k]
    <3>1. o + m - i + 1 \in 1..m /\ i = o + m - (o + m - i + 1) + 1
      BY <1>1, <1>5, <2>2
    <3> QED
      BY <1>5, <3>1
  <2>3. ASSUME NEW i \in 1..Len(all), NEW j \in 1..Len(all), all[i] = all[j], i < j
        PROVE  FALSE
    <3>1. CASE j <= o
      <4>1. i \in 1..o /\ j \in 1..o
        BY <1>5, <2>3, <3>1
      <4>2. others[i] = others[j]
        BY <1>5, <2>3, <4>1
      <4>3. i = j
        BY <2>1, <4>1, <4>2 DEF NoTwice, o
      <4> QED
        BY <1>5, <2>3, <4>3
    <3>2. CASE ~(j <= o) /\ i <= o
      <4>1. PICK k \in 1..m : all[j] = own[k]
        BY <2>2, <3>2
      <4>2. i \in 1..o /\ all[i] = others[i]
        BY <1>5, <3>2
      <4>3. own[k] \in ToSet(own)
        <5>1. DOMAIN own = 1..m
          BY <1>1, LenProperties
        <5> QED
          BY <4>1, <5>1, Zenon DEF ToSet
      <4> QED
        BY <1>4, <2>3, <4>1, <4>2, <4>3 DEF o
    <3>3. CASE ~(j <= o) /\ ~(i <= o)
      <4>1. PICK k \in 1..m : i = o + m - k + 1 /\ all[i] = own[k]
        BY <2>2, <3>3
      <4>2. PICK l \in 1..m : j = o + m - l + 1 /\ all[j] = own[l]
        BY <2>2, <3>3
      <4>3. k * BlockSize = l * BlockSize
        BY <1>1, <2>3, <4>1, <4>2
      <4>4. k = l
        BY <4>3, PrefixCacheAssumption
      <4> QED
        BY <1>1, <1>5, <2>3, <4>1, <4>2, <4>4
    <3> QED
      BY <3>1, <3>2, <3>3
  <2>4. ASSUME NEW i \in 1..Len(all), NEW j \in 1..Len(all), all[i] = all[j] PROVE i = j
    <3>1. ~(i < j) /\ ~(j < i)
      BY <2>3, <2>4
    <3> QED
      BY <1>1, <1>5, <3>1
  <2> QED
    BY <2>4 DEF NoTwice
<1>9. /\ Room(all) \in Seq(Seq(S)) /\ Len(Room(all)) <= Capacity
      /\ NoTwice(all) => NoTwice(Room(all))
      /\ \A b : \A n \in Nat : n <= Capacity /\ Young(all, b, n) => Young(Room(all), b, n)
  BY <1>5, RoomKeeps
<1>10. \A k \in 1..m : k <= Capacity => Young(Room(all), Block(ids, k), k)
  BY <1>1, <1>6, <1>9
<1>11. \A b : \A n \in Nat :
         /\ Young(cache, b, n) /\ n + m <= Capacity
         /\ \A k \in 1..m : Block(ids, k) # b
         => Young(Room(all), b, n + m)
  <2> TAKE b
  <2> TAKE n \in Nat
  <2> HAVE /\ Young(cache, b, n) /\ n + m <= Capacity
           /\ \A k \in 1..m : Block(ids, k) # b
  <2>1. n + m \in Nat /\ Young(all, b, n + m)
    BY <1>1, <1>7
  <2> QED
    BY <1>9, <2>1
<1> QED
  BY <1>2, <1>8, <1>9, <1>10, <1>11, Zenon DEF m

\* What is among the youngest is there.
LEMMA YoungIsThere ==
    ASSUME NEW cache, NEW b, NEW n, Young(cache, b, n)
    PROVE  Contains(cache, b)
<1> QED
  BY DEF Young, Contains
-----------------------------------------------------------------------------
\* first_divergence_index: where two prompts part, or the shorter one ends.
LEMMA DivergenceIs ==
    ASSUME NEW S, NEW s \in Seq(S), NEW t \in Seq(S)
    PROVE  LET d == FirstDivergence(s, t)
           IN  /\ d \in 0..Len(s) /\ d \in 0..Len(t)
               /\ \A i \in 1..d : s[i] = t[i]
               /\ d < Len(s) /\ d < Len(t) => s[d + 1] # t[d + 1]
<1> DEFINE m == IF Len(s) < Len(t) THEN Len(s) ELSE Len(t)
           Is(n) == /\ \A i \in 1..n : s[i] = t[i]
                    /\ n < m => s[n + 1] # t[n + 1]
           apart == { i \in 1..m : s[i] # t[i] }
<1>1. /\ Len(s) \in Nat /\ Len(t) \in Nat /\ m \in Nat /\ m <= Len(s) /\ m <= Len(t)
      /\ m = Len(s) \/ m = Len(t)
  BY LenProperties
<1> HIDE DEF m
<1>2. \E n \in 0..m : Is(n)
  <2>1. CASE apart = {}
    <3>1. \A i \in 1..m : s[i] = t[i]
      BY <2>1
    <3>2. m \in 0..m /\ Is(m)
      BY <1>1, <3>1
    <3> QED
      BY <3>2
  <2>2. CASE apart # {}
    <3>1. PICK k \in apart : \A i \in apart : k <= i
      <4>1. apart \subseteq Nat
        OBVIOUS
      <4> QED
        BY <2>2, <4>1, NatLeast
    <3>2. k \in 1..m /\ s[k] # t[k] /\ k - 1 \in 0..m /\ (k - 1) + 1 = k
      BY <1>1, <3>1
    <3>3. ASSUME NEW i \in 1..(k - 1) PROVE s[i] = t[i]
      <4>1. i \in 1..m /\ ~(k <= i)
        BY <1>1, <3>2
      <4> QED
        BY <3>1, <4>1
    <3>4. Is(k - 1)
      BY <3>2, <3>3
    <3> QED
      BY <3>2, <3>4
  <2> QED
    BY <2>1, <2>2
<1>3. FirstDivergence(s, t) = CHOOSE n \in 0..m : Is(n)
  BY Zenon DEF FirstDivergence, m
<1>4. FirstDivergence(s, t) \in 0..m /\ Is(FirstDivergence(s, t))
  BY <1>2, <1>3, Zenon
<1> QED
  BY <1>1, <1>4

\* Prompts that agree on g tokens and not on the next one part there.
LEMMA DivergenceAt ==
    ASSUME NEW S, NEW s \in Seq(S), NEW t \in Seq(S), NEW g \in Nat, g < Len(s), g < Len(t),
           \A i \in 1..g : s[i] = t[i], s[g + 1] # t[g + 1]
    PROVE  FirstDivergence(s, t) = g
<1> DEFINE d == FirstDivergence(s, t)
<1>1. /\ d \in 0..Len(s) /\ \A i \in 1..d : s[i] = t[i]
      /\ d < Len(s) /\ d < Len(t) => s[d + 1] # t[d + 1]
  BY DivergenceIs
<1>2. Len(s) \in Nat /\ Len(t) \in Nat
  BY LenProperties
<1> HIDE DEF d
<1>3. ~(d < g)
  <2> SUFFICES ASSUME d < g PROVE FALSE
    OBVIOUS
  <2>1. d + 1 \in 1..g /\ d < Len(s) /\ d < Len(t)
    BY <1>1, <1>2
  <2> QED
    BY <1>1, <2>1
<1>4. ~(g < d)
  <2> SUFFICES ASSUME g < d PROVE FALSE
    OBVIOUS
  <2>1. g + 1 \in 1..d
    BY <1>1, <1>2
  <2> QED
    BY <1>1, <2>1
<1>5. d = g
  BY <1>1, <1>2, <1>3, <1>4
<1> QED
  BY <1>5 DEF d

\* Whole blocks in front of the divergence are the same.
LEMMA SameBlocks ==
    ASSUME NEW S, NEW s \in Seq(S), NEW t \in Seq(S), NEW k \in Nat,
           k * BlockSize <= FirstDivergence(s, t)
    PROVE  Block(s, k) = Block(t, k)
<1> DEFINE d == FirstDivergence(s, t)
           n == k * BlockSize
<1>1. d \in 0..Len(s) /\ d \in 0..Len(t) /\ \A i \in 1..d : s[i] = t[i]
  BY DivergenceIs
<1>2. /\ Len(s) \in Nat /\ Len(t) \in Nat /\ n \in Nat
      /\ \A i \in 1..Len(s) : s[i] \in S
  BY LenProperties, ElementOfSeq, PrefixCacheAssumption
<1>3. n <= d /\ Block(s, k) = SubSeq(s, 1, n) /\ Block(t, k) = SubSeq(t, 1, n)
  BY DEF Block
<1> HIDE DEF d, n
<1>4. \A i \in 1..n : s[i] \in S /\ t[i] = s[i]
  BY <1>1, <1>2, <1>3
<1>5. n \in Int /\ 1 \in Int /\ n - 1 + 1 = n /\ \A i \in 1..n : 1 + i - 1 = i
  BY <1>2
<1>6. /\ SubSeq(s, 1, n) \in Seq(S) /\ Len(SubSeq(s, 1, n)) = n
      /\ \A i \in 1..n : SubSeq(s, 1, n)[i] = s[i]
  <2>1. \A i \in 1..n : s[i] \in S
    BY <1>4
  <2>2. /\ SubSeq(s, 1, n) \in Seq(S) /\ Len(SubSeq(s, 1, n)) = IF 1 <= n THEN n - 1 + 1 ELSE 0
        /\ \A i \in 1..(n - 1 + 1) : SubSeq(s, 1, n)[i] = s[1 + i - 1]
    BY <1>5, <2>1, SubSeqProperties
  <2> QED
    BY <1>2, <1>5, <2>2
<1>7. /\ SubSeq(t, 1, n) \in Seq(S) /\ Len(SubSeq(t, 1, n)) = n
      /\ \A i \in 1..n : SubSeq(t, 1, n)[i] = t[i]
  <2>1. \A i \in 1..n : t[i] \in S
    BY <1>4
  <2>2. /\ SubSeq(t, 1, n) \in Seq(S) /\ Len(SubSeq(t, 1, n)) = IF 1 <= n THEN n - 1 + 1 ELSE 0
        /\ \A i \in 1..(n - 1 + 1) : SubSeq(t, 1, n)[i] = t[1 + i - 1]
    BY <1>5, <2>1, SubSeqProperties
  <2> QED
    BY <1>2, <1>5, <2>2
<1>8. \A i \in 1..n : SubSeq(s, 1, n)[i] = SubSeq(t, 1, n)[i]
  BY <1>4, <1>6, <1>7
<1>9. SubSeq(s, 1, n) = SubSeq(t, 1, n)
  BY <1>6, <1>7, <1>8, SeqEqual
<1> QED
  BY <1>3, <1>9

\* As many blocks are reused as are in front of the divergence and in the pool.
LEMMA ReuseReaches ==
    ASSUME NEW S, NEW prev \in Seq(S), NEW new \in Seq(S), NEW cache, NEW q \in Nat,
           q * BlockSize <= FirstDivergence(prev, new), q * BlockSize < Len(new),
           \A k \in 1..q : Contains(cache, Block(prev, k))
    PROVE  q <= HitBlocks(cache, new)
<1>1. BlockSize \in Nat /\ Len(new) \in Nat /\ FirstDivergence(prev, new) \in Nat
  BY PrefixCacheAssumption, LenProperties, DivergenceIs
<1>2. ASSUME NEW k \in 1..q PROVE Contains(cache, Block(new, k))
  <2>1. k * BlockSize <= q * BlockSize /\ k \in Nat
    BY <1>1
  <2>2. k * BlockSize <= FirstDivergence(prev, new)
    BY <1>1, <2>1
  <2>3. Block(prev, k) = Block(new, k)
    BY <2>1, <2>2, SameBlocks
  <2> QED
    BY <2>3
<1>3. Len(new) # 0
  BY <1>1
<1> QED
  BY <1>2, <1>3, HitIs

\* One block less than the divergence reaches is no mismatch.
LEMMA WithinTolerance ==
    ASSUME NEW S, NEW prev \in Seq(S), NEW new \in Seq(S), NEW cache, Len(new) # 0,
           FirstDivergence(prev, new) \div BlockSize <= HitBlocks(cache, new) + 1
    PROVE  ~Mismatch(DivergenceCheck(prev, new, CachedTokens(cache, new)))
<1> DEFINE h == HitBlocks(cache, new)
           q == FirstDivergence(prev, new) \div BlockSize
           c == Len(prev) \div BlockSize
           check0 == DivergenceCheck(prev, new, CachedTokens(cache, new))
<1>1. BlockSize \in Nat \ {0} /\ h \in Nat /\ q \in Nat /\ c \in Nat
  <2>1. BlockSize \in Nat \ {0} /\ Len(prev) \in Nat
    BY PrefixCacheAssumption, LenProperties
  <2>2. h \in Nat
    BY HitIs
  <2>3. FirstDivergence(prev, new) \in Nat
    BY <2>1, DivergenceIs
  <2>4. q \in Nat /\ c \in Nat
    BY <2>1, <2>3, BlockCount
  <2> QED
    BY <2>1, <2>2, <2>4
<1>2. check0.measured = c - (h * BlockSize) \div BlockSize /\ check0.predicted = c - q
  BY DEF DivergenceCheck, CachedTokens
<1>3. q <= h + 1
  OBVIOUS
<1> HIDE DEF h, q, c, check0
<1>4. (h * BlockSize) \div BlockSize = h
  BY <1>1
<1>5. ~(check0.measured > check0.predicted + 1)
  BY <1>1, <1>2, <1>3, <1>4
<1> QED
  BY <1>5 DEF Mismatch, check0
-----------------------------------------------------------------------------
\* The turns a prompt is rendered from, their tokens, and those of any request.
SummaryTurn == [kind : {"summary"}, index : Nat, seg : SegmentSet, size : SummarySizes]
Turns == AnchorTurn \cup RawTurn \cup SummaryTurn
Tok == TokenSet(Turns)
AnyTok == Tok \cup {<<Header, 1>>}

\* The groups that are padded, and the prompt up to the live turns.
Ends(al, f) == IF al THEN 1..(1 + Len(f)) ELSE {}
HeadTurns(a, f) == <<a>> \o FrozenTurns(f)
FrontIds(al, a, f) == Laid(HeadTurns(a, f), Ends(al, f))
Prompt(al, a, f, l) == Laid(ToTurns(a, f, l), Ends(al, f))

\* Whatever is rendered, each turn of it has a token.
LEMMA TurnsSized == Sized(Turns) /\ Sized(RawTurn)
<1>1. 0 \notin {AnchorSize} \cup TurnSizes \cup SummarySizes
  BY ReplayAssumption
<1>2. AnchorSize \in Nat /\ TurnSizes \subseteq Nat /\ SummarySizes \subseteq Nat
  BY AppendOnlyAssumption
<1>3. \A t \in AnchorTurn : t.size \in Nat \ {0}
  BY <1>1, <1>2 DEF AnchorTurn
<1>4. \A t \in RawTurn : t.size \in Nat \ {0}
  BY <1>1, <1>2 DEF RawTurn
<1>5. \A t \in SummaryTurn : t.size \in Nat \ {0}
  BY <1>1, <1>2 DEF SummaryTurn
<1> QED
  BY <1>3, <1>4, <1>5 DEF Sized, Turns

\* No request of the loop holds a header, and no two kinds are one.
LEMMA KindsDiffer ==
    /\ \A t \in Turns \cup {Filler} : t # Header
    /\ \A t \in RawTurn, u \in SummaryTurn : t # u
<1>1. \A t \in AnchorTurn : t.kind = "anchor"
  BY DEF AnchorTurn
<1>2. \A t \in RawTurn : t.kind = "raw"
  BY DEF RawTurn
<1>3. \A t \in SummaryTurn : t.kind = "summary"
  BY DEF SummaryTurn
<1>4. Header.kind = "header" /\ Filler.kind = "filler"
  BY DEF Header, Filler
<1> QED
  BY <1>1, <1>2, <1>3, <1>4 DEF Turns

\* A segment as the turn it renders to.
LEMMA ToTurnType == \A sg \in SegmentSet, i \in Nat : ToTurn(sg, i) \in SummaryTurn
<1> QED
  BY DEF SegmentSet, SummaryTurn, ToTurn

\* The anchor and the summaries, in front of the live turns.
LEMMA HeadIs ==
    ASSUME NEW a \in AnchorTurn, NEW f \in Seq(SegmentSet)
    PROVE  /\ HeadTurns(a, f) \in Seq(Turns) /\ Len(f) \in Nat /\ Len(HeadTurns(a, f)) = 1 + Len(f)
           /\ \A sg \in SegmentSet :
                HeadTurns(a, Append(f, sg)) = Append(HeadTurns(a, f), ToTurn(sg, Len(f)))
<1>1. Len(f) \in Nat /\ \A i \in 1..Len(f) : f[i] \in SegmentSet
  BY LenProperties, ElementOfSeq
<1>2. \A g \in Seq(SegmentSet) :
        /\ FrozenTurns(g) \in Seq(SummaryTurn) /\ Len(FrozenTurns(g)) = Len(g)
        /\ \A i \in 1..Len(g) : FrozenTurns(g)[i] = ToTurn(g[i], i - 1)
  <2> TAKE g \in Seq(SegmentSet)
  <2>1. Len(g) \in Nat /\ \A i \in 1..Len(g) : g[i] \in SegmentSet
    BY LenProperties, ElementOfSeq
  <2>2. FrozenTurns(g) = [i \in 1..Len(g) |-> ToTurn(g[i], i - 1)]
    BY DEF FrozenTurns
  <2>3. \A i \in 1..Len(g) : ToTurn(g[i], i - 1) \in SummaryTurn
    <3> TAKE i \in 1..Len(g)
    <3>1. i - 1 \in Nat /\ g[i] \in SegmentSet
      BY <2>1
    <3> QED
      BY <3>1, ToTurnType
  <2>4. FrozenTurns(g) \in [1..Len(g) -> SummaryTurn]
    BY <2>2, <2>3
  <2>5. FrozenTurns(g) \in Seq(SummaryTurn)
    BY <2>1, <2>4, SeqDef
  <2>6. Len(FrozenTurns(g)) = Len(g)
    BY <2>1, <2>4, <2>5, LenProperties
  <2>7. \A i \in 1..Len(g) : FrozenTurns(g)[i] = ToTurn(g[i], i - 1)
    BY <2>2, Zenon
  <2> QED
    BY <2>5, <2>6, <2>7
<1>3. <<a>> \in Seq(Turns) /\ Len(<<a>>) = 1
  <2>1. a \in Turns
    BY DEF Turns
  <2>2. <<a>> \in Seq(Turns)
    BY <2>1
  <2>3. Len(<<a>>) = 1
    BY Zenon
  <2> QED
    BY <2>2, <2>3
<1>4. Seq(SummaryTurn) \subseteq Seq(Turns)
  <2>1. SummaryTurn \subseteq Turns
    BY DEF Turns
  <2> QED
    BY <2>1, SeqMonotonic
<1>5. HeadTurns(a, f) \in Seq(Turns) /\ Len(HeadTurns(a, f)) = 1 + Len(f)
  <2>1. FrozenTurns(f) \in Seq(Turns) /\ Len(FrozenTurns(f)) = Len(f)
    BY <1>2, <1>4
  <2> QED
    BY <1>3, <2>1, ConcatProperties DEF HeadTurns
<1>6. ASSUME NEW sg \in SegmentSet
      PROVE  HeadTurns(a, Append(f, sg)) = Append(HeadTurns(a, f), ToTurn(sg, Len(f)))
  <2> DEFINE g == Append(f, sg)
             x == ToTurn(sg, Len(f))
  <2>1. /\ g \in Seq(SegmentSet) /\ Len(g) = Len(f) + 1 /\ g[Len(f) + 1] = sg
        /\ \A i \in 1..Len(f) : g[i] = f[i]
    BY AppendProperties
  <2> HIDE DEF g
  <2>2. x \in SummaryTurn /\ x \in Turns
    BY <1>1, ToTurnType DEF Turns
  <2>3. /\ FrozenTurns(f) \in Seq(SummaryTurn) /\ Len(FrozenTurns(f)) = Len(f)
        /\ \A i \in 1..Len(f) : FrozenTurns(f)[i] = ToTurn(f[i], i - 1)
    BY <1>2
  <2>4. /\ FrozenTurns(g) \in Seq(SummaryTurn) /\ Len(FrozenTurns(g)) = Len(f) + 1
        /\ \A i \in 1..(Len(f) + 1) : FrozenTurns(g)[i] = ToTurn(g[i], i - 1)
    BY <1>2, <2>1
  <2>5. x = ToTurn(sg, Len(f))
    OBVIOUS
  <2> HIDE DEF x
  <2>6. /\ Append(FrozenTurns(f), x) \in Seq(SummaryTurn)
        /\ Len(Append(FrozenTurns(f), x)) = Len(f) + 1
        /\ Append(FrozenTurns(f), x)[Len(f) + 1] = x
        /\ \A i \in 1..Len(f) : Append(FrozenTurns(f), x)[i] = FrozenTurns(f)[i]
    BY <2>2, <2>3, AppendProperties
  <2>7. \A i \in 1..(Len(f) + 1) : FrozenTurns(g)[i] = Append(FrozenTurns(f), x)[i]
    <3> TAKE i \in 1..(Len(f) + 1)
    <3>1. CASE i = Len(f) + 1
      <4>1. (Len(f) + 1) - 1 = Len(f)
        BY <1>1
      <4>2. FrozenTurns(g)[i] = ToTurn(g[Len(f) + 1], (Len(f) + 1) - 1)
        BY <2>4, <3>1
      <4> QED
        BY <2>1, <2>5, <2>6, <3>1, <4>1, <4>2
    <3>2. CASE i # Len(f) + 1
      <4>1. i \in 1..Len(f)
        BY <1>1, <3>2
      <4> QED
        BY <2>1, <2>3, <2>4, <2>6, <4>1
    <3> QED
      BY <3>1, <3>2
  <2>8. FrozenTurns(g) = Append(FrozenTurns(f), x)
    BY <2>4, <2>6, <2>7, SeqEqual
  <2>9. <<a>> \o Append(FrozenTurns(f), x) = Append(<<a>> \o FrozenTurns(f), x)
    <3>1. FrozenTurns(f) \in Seq(Turns) /\ <<x>> \in Seq(Turns)
      BY <1>4, <2>2, <2>3
    <3>2. Append(FrozenTurns(f), x) = FrozenTurns(f) \o <<x>>
      BY <2>2, <3>1, AppendIsConcat
    <3>3. Append(<<a>> \o FrozenTurns(f), x) = (<<a>> \o FrozenTurns(f)) \o <<x>>
      <4>1. <<a>> \o FrozenTurns(f) \in Seq(Turns)
        BY <1>5 DEF HeadTurns
      <4> QED
        BY <2>2, <4>1, AppendIsConcat
    <3>4. (<<a>> \o FrozenTurns(f)) \o <<x>> = <<a>> \o (FrozenTurns(f) \o <<x>>)
      BY <1>3, <3>1, ConcatAssociative
    <3> QED
      BY <3>2, <3>3, <3>4
  <2> QED
    BY <2>8, <2>9, Zenon DEF HeadTurns, g, x
<1> QED
  BY <1>1, <1>5, <1>6
\* A prompt is its front, then the tokens of its live turns.
LEMMA PromptIs ==
    ASSUME NEW al, NEW a \in AnchorTurn, NEW f \in Seq(SegmentSet), NEW l \in Seq(RawTurn)
    PROVE  /\ Prompt(al, a, f, l) = FrontIds(al, a, f) \o TokenIds(l)
           /\ FrontIds(al, a, f) \in Seq(Tok) /\ Len(FrontIds(al, a, f)) \in Nat \ {0}
           /\ TokenIds(l) \in Seq(Tok)
           /\ Prompt(al, a, f, l) \in Seq(Tok)
           /\ Len(Prompt(al, a, f, l)) = Len(FrontIds(al, a, f)) + Len(TokenIds(l))
<1> DEFINE h == HeadTurns(a, f)
           P == Ends(al, f)
<1>1. h \in Seq(Turns) /\ Len(h) = 1 + Len(f) /\ Len(f) \in Nat /\ l \in Seq(Turns)
  <2>1. RawTurn \subseteq Turns
    BY DEF Turns
  <2>2. l \in Seq(Turns)
    BY <2>1, SeqMonotonic
  <2> QED
    BY <2>2, HeadIs
<1>2. P \subseteq 1..Len(h)
  BY <1>1 DEF Ends
<1>3. ToTurns(a, f, l) = h \o l
  BY Zenon DEF ToTurns, HeadTurns, h
<1> HIDE DEF h, P
<1>4. h # <<>>
  BY <1>1, EmptySeq
<1>5. Laid(h, P) \in Seq(TokenSet(Turns)) /\ Len(Laid(h, P)) \in Nat \ {0}
  BY <1>1, <1>4, TurnsSized, LaidType
<1>6. TokenIds(l) \in Seq(TokenSet(Turns))
  BY <1>1, TurnsSized, LaidType DEF TokenIds
<1>7. Laid(h \o l, P) = Laid(h, P) \o TokenIds(l)
  BY <1>1, <1>2, TurnsSized, LaidConcat
<1>8. /\ Laid(h, P) \o TokenIds(l) \in Seq(TokenSet(Turns))
      /\ Len(Laid(h, P) \o TokenIds(l)) = Len(Laid(h, P)) + Len(TokenIds(l))
  BY <1>5, <1>6, ConcatProperties
<1>9. FrontIds(al, a, f) = Laid(h, P) /\ Prompt(al, a, f, l) = Laid(h \o l, P)
  BY <1>3, Zenon DEF FrontIds, Prompt, h, P
<1> QED
  BY <1>5, <1>6, <1>7, <1>8, <1>9 DEF Tok

\* With aligned segments the front ends at a block boundary.
LEMMA FrontAligned ==
    ASSUME NEW a \in AnchorTurn, NEW f \in Seq(SegmentSet)
    PROVE  Len(FrontIds(TRUE, a, f)) % BlockSize = 0
<1> DEFINE h == HeadTurns(a, f)
           P == Ends(TRUE, f)
<1>1. h \in Seq(Turns) /\ Len(h) = 1 + Len(f) /\ Len(f) \in Nat
  BY HeadIs
<1>2. P = 1..(1 + Len(f))
  BY DEF Ends
<1> HIDE DEF h, P
<1>3. h # <<>>
  BY <1>1, EmptySeq
<1>4. PICK u \in Seq(Turns), t \in Turns : h = Append(u, t)
  BY <1>1, <1>3, SequenceEmptyOrAppend
<1>5. Len(h) = Len(u) + 1 /\ Len(u) \in Nat
  BY <1>4, AppendProperties, LenProperties
<1>6. Len(u) + 1 \in P
  BY <1>1, <1>2, <1>5
<1>7. Laid(h, P) = Padded(Laid(u, P) \o Tokens(t))
  BY <1>4, <1>6, LaidAppend
<1>8. Laid(u, P) \o Tokens(t) \in Seq(TokenSet(Turns))
  <2>1. Laid(u, P) \in Seq(TokenSet(Turns)) /\ Tokens(t) \in Seq(TokenSet(Turns))
    BY TurnsSized, LaidType, TokensAre
  <2> QED
    BY <2>1, ConcatProperties
<1>9. Len(Padded(Laid(u, P) \o Tokens(t))) % BlockSize = 0
  BY <1>8, PaddedIs
<1>10. FrontIds(TRUE, a, f) = Laid(h, P)
  BY Zenon DEF FrontIds, h, P
<1> QED
  BY <1>7, <1>9, <1>10, Zenon

\* The front after a new segment: what it was, then the summary's tokens.
Extends(al, a, f, sg) ==
    \E x \in Seq(Tok) :
        /\ FrontIds(al, a, Append(f, sg)) = FrontIds(al, a, f) \o x
        /\ Len(x) \in Nat \ {0} /\ x[1] = <<ToTurn(sg, Len(f)), 1>>

\* A new segment leaves the front as it was and adds its summary's tokens.
LEMMA FrontGrows ==
    ASSUME NEW al, NEW a \in AnchorTurn, NEW f \in Seq(SegmentSet), NEW sg \in SegmentSet
    PROVE  Extends(al, a, f, sg)
<1> DEFINE h == HeadTurns(a, f)
           t == ToTurn(sg, Len(f))
           g == Append(f, sg)
           P == Ends(al, f)
           Q == Ends(al, g)
<1>1. h \in Seq(Turns) /\ Len(h) = 1 + Len(f) /\ Len(f) \in Nat /\ t \in Turns
  BY HeadIs, ToTurnType DEF Turns
<1>2. HeadTurns(a, g) = Append(h, t)
  BY HeadIs
<1>3. Len(g) = Len(f) + 1
  BY AppendProperties
<1>4. \A i \in 1..Len(h) : i \in P <=> i \in Q
  BY <1>1, <1>3 DEF Ends
<1>5. FrontIds(al, a, f) = Laid(h, P) /\ FrontIds(al, a, g) = Laid(Append(h, t), Q)
  BY <1>2, Zenon DEF FrontIds, h, P, Q
<1> HIDE DEF h, t, P, Q
<1>6. Laid(h, P) = Laid(h, Q)
  BY <1>1, <1>4, LaidSame
<1> DEFINE front == Laid(h, Q)
           tokens == Tokens(t)
<1>7. Laid(Append(h, t), Q) = IF Len(h) + 1 \in Q THEN Padded(front \o tokens)
                              ELSE front \o tokens
  BY <1>1, LaidAppend
<1>8. /\ front \in Seq(Tok) /\ tokens \in Seq(Tok) /\ Len(tokens) \in Nat \ {0}
      /\ tokens[1] = <<t, 1>>
  <2>1. front \in Seq(TokenSet(Turns)) /\ tokens \in Seq(TokenSet(Turns))
    BY <1>1, TurnsSized, LaidType, TokensAre
  <2>2. Len(tokens) \in Nat \ {0} /\ \A i \in 1..Len(tokens) : tokens[i] = <<t, i>>
    BY <1>1, TurnsSized, TokensAre
  <2>3. 1 \in 1..Len(tokens)
    BY <2>2
  <2> QED
    BY <2>1, <2>2, <2>3 DEF Tok
<1> HIDE DEF front, tokens
<1>9. CASE Len(h) + 1 \notin Q
  BY <1>5, <1>6, <1>7, <1>8, <1>9 DEF front, t, g, Extends
<1>10. CASE Len(h) + 1 \in Q
  <2>1. front \o tokens \in Seq(Tok)
    BY <1>8, ConcatProperties
  <2>2. PICK pad \in Seq({<<Filler, 1>>}) :
          Padded(front \o tokens) = (front \o tokens) \o pad
    BY <2>1, PaddedIs DEF Tok
  <2>3. pad \in Seq(Tok)
    <3>1. {<<Filler, 1>>} \subseteq Tok
      BY DEF Tok, TokenSet
    <3> QED
      BY <3>1, SeqMonotonic
  <2>4. (front \o tokens) \o pad = front \o (tokens \o pad)
    BY <1>8, <2>3, ConcatAssociative
  <2>5. /\ tokens \o pad \in Seq(Tok)
        /\ Len(tokens \o pad) = Len(tokens) + Len(pad) /\ Len(pad) \in Nat
        /\ \A i \in 1..(Len(tokens) + Len(pad)) :
             (tokens \o pad)[i] = IF i <= Len(tokens) THEN tokens[i] ELSE pad[i - Len(tokens)]
    BY <1>8, <2>3, ConcatProperties, LenProperties
  <2>6. Len(tokens \o pad) \in Nat \ {0} /\ (tokens \o pad)[1] = tokens[1]
    BY <1>8, <2>5
  <2>7. FrontIds(al, a, g) = front \o (tokens \o pad) /\ FrontIds(al, a, f) = front
    BY <1>5, <1>6, <1>7, <1>10, <2>2, <2>4, Zenon DEF front
  <2> QED
    BY <1>8, <2>5, <2>6, <2>7 DEF t, g, Extends
<1> QED
  BY <1>9, <1>10

\* A compaction event diverges exactly where the new summary starts.
LEMMA EventDiverges ==
    ASSUME NEW al, NEW a \in AnchorTurn, NEW f \in Seq(SegmentSet), NEW l \in Seq(RawTurn),
           l # <<>>, NEW sg \in SegmentSet, NEW kept \in Seq(RawTurn)
    PROVE  LET prev == Prompt(al, a, f, l)
               new == Prompt(al, a, Append(f, sg), kept)
               g == Len(FrontIds(al, a, f))
           IN  FirstDivergence(prev, new) = g /\ g < Len(new)
<1> DEFINE prev == Prompt(al, a, f, l)
           h == Append(f, sg)
           new == Prompt(al, a, h, kept)
           front == FrontIds(al, a, f)
           g == Len(front)
           own == TokenIds(l)
           rest == TokenIds(kept)
<1>1. /\ prev = front \o own /\ front \in Seq(Tok) /\ g \in Nat /\ own \in Seq(Tok)
      /\ prev \in Seq(Tok) /\ Len(prev) = g + Len(own)
  BY PromptIs
<1>2. Len(own) \in Nat \ {0}
  BY TurnsSized, LaidType DEF TokenIds
<1>3. PICK k \in 1..Len(l) : own[1][1] = l[k]
  <2>1. 1 \in 1..Len(own)
    BY <1>2
  <2> QED
    BY <2>1, TurnsSized, TokensOfTurns
<1>4. own[1][1] \in RawTurn
  BY <1>3, ElementOfSeq
<1>5. PICK x \in Seq(Tok) : /\ FrontIds(al, a, h) = front \o x
                            /\ Len(x) \in Nat \ {0} /\ x[1] = <<ToTurn(sg, Len(f)), 1>>
  <2>1. Extends(al, a, f, sg)
    BY FrontGrows
  <2> QED
    BY <2>1 DEF Extends
<1>6. x[1][1] \in SummaryTurn
  <2>1. Len(f) \in Nat
    BY LenProperties
  <2> QED
    BY <1>5, <2>1, ToTurnType
<1>7. /\ new = FrontIds(al, a, h) \o rest /\ FrontIds(al, a, h) \in Seq(Tok)
      /\ rest \in Seq(Tok) /\ new \in Seq(Tok)
  <2>1. h \in Seq(SegmentSet)
    BY AppendProperties
  <2> HIDE DEF h
  <2> QED
    BY <2>1, PromptIs, ZenonT(60)
<1> HIDE DEF prev, new, own, rest, h
<1>8. new = front \o (x \o rest)
  <2>1. front \in Seq(Tok) /\ rest \in Seq(Tok)
    BY <1>1, <1>7
  <2> HIDE DEF front
  <2>2. (front \o x) \o rest = front \o (x \o rest)
    BY <2>1, ConcatAssociative, SMTT(30)
  <2> QED
    BY <1>5, <1>7, <2>2
<1> HIDE DEF front
<1>9. /\ x \o rest \in Seq(Tok) /\ Len(x \o rest) \in Nat \ {0} /\ (x \o rest)[1] = x[1]
  <2>1. /\ x \o rest \in Seq(Tok) /\ Len(x \o rest) = Len(x) + Len(rest) /\ Len(rest) \in Nat
        /\ \A i \in 1..(Len(x) + Len(rest)) :
             (x \o rest)[i] = IF i <= Len(x) THEN x[i] ELSE rest[i - Len(x)]
    BY <1>5, <1>7, ConcatProperties, LenProperties
  <2> QED
    BY <1>5, <2>1
<1> DEFINE y == x \o rest
<1>10. y \in Seq(Tok) /\ Len(y) \in Nat \ {0} /\ y[1] = x[1] /\ new = front \o y
  BY <1>8, <1>9
<1> HIDE DEF y
<1>11. /\ Len(new) = g + Len(y)
       /\ \A i \in 1..(g + Len(y)) : new[i] = IF i <= g THEN front[i] ELSE y[i - g]
  BY <1>1, <1>10, ConcatProperties
<1>12. \A i \in 1..(g + Len(own)) : prev[i] = IF i <= g THEN front[i] ELSE own[i - g]
  BY <1>1, ConcatProperties
<1> HIDE DEF g
<1>13. \A i \in 1..g : prev[i] = new[i]
  BY <1>1, <1>2, <1>10, <1>11, <1>12
<1>14. prev[g + 1] = own[1] /\ new[g + 1] = x[1]
  <2>1. /\ g + 1 \in 1..(g + Len(own)) /\ g + 1 \in 1..(g + Len(y)) /\ ~(g + 1 <= g)
        /\ (g + 1) - g = 1
    BY <1>1, <1>2, <1>10
  <2> QED
    BY <1>10, <1>11, <1>12, <2>1
<1>15. prev[g + 1] # new[g + 1]
  BY <1>4, <1>6, <1>14, KindsDiffer
<1>16. g < Len(prev) /\ g < Len(new)
  BY <1>1, <1>2, <1>10, <1>11
<1>17. FirstDivergence(prev, new) = g
  BY <1>1, <1>7, <1>13, <1>15, <1>16, DivergenceAt
<1> QED
  BY <1>16, <1>17 DEF prev, new, g, front, h
-----------------------------------------------------------------------------
\* The requests of the loop hold the same kinds of tokens.
LEMMA AnyTokIs == Seq(Tok) \subseteq Seq(AnyTok)
<1>1. Tok \subseteq AnyTok
  BY DEF AnyTok
<1> QED
  BY <1>1, SeqMonotonic

\* The summarizer's request: a header no other request starts with.
LEMMA SummarizerIs ==
    ASSUME NEW r \in Seq(RawTurn)
    PROVE  /\ SummarizerIds(r) \in Seq(AnyTok)
           /\ Len(TokenIds(r)) \in Nat /\ Len(SummarizerIds(r)) = 1 + Len(TokenIds(r))
           /\ SummarizerIds(r)[1] = <<Header, 1>>
<1> DEFINE own == TokenIds(r)
           head == <<<<Header, 1>>>>
<1>1. own \in Seq(AnyTok) /\ Len(own) \in Nat
  <2>1. RawTurn \subseteq Turns
    BY DEF Turns
  <2>2. r \in Seq(Turns)
    BY <2>1, SeqMonotonic
  <2>3. own \in Seq(Tok)
    BY <2>2, TurnsSized, LaidType DEF TokenIds, Tok
  <2> QED
    BY <2>3, AnyTokIs, LenProperties
<1>2. /\ head \in Seq(AnyTok) /\ head[1] = <<Header, 1>>
  <2>1. <<Header, 1>> \in AnyTok
    BY DEF AnyTok
  <2> QED
    BY <2>1
<1>3. Len(head) = 1
  BY Zenon
<1>4. SummarizerIds(r) = head \o own
  BY Zenon DEF SummarizerIds
<1> HIDE DEF own, head
<1>5. /\ head \o own \in Seq(AnyTok) /\ Len(head \o own) = Len(head) + Len(own)
      /\ \A i \in 1..(Len(head) + Len(own)) :
           (head \o own)[i] = IF i <= Len(head) THEN head[i] ELSE own[i - Len(head)]
  BY <1>1, <1>2, ConcatProperties
<1>6. (head \o own)[1] = <<Header, 1>>
  BY <1>1, <1>2, <1>3, <1>5
<1> QED
  BY <1>1, <1>3, <1>4, <1>5, <1>6 DEF own

\* The first turns of a list have no more tokens than all of them.
LEMMA PartIsSmaller ==
    ASSUME NEW l \in Seq(RawTurn), NEW r \in Seq(RawTurn), Len(r) <= Len(l),
           \A i \in 1..Len(r) : r[i] = l[i]
    PROVE  Len(TokenIds(r)) <= Len(TokenIds(l))
<1> DEFINE m == Len(r)
           n == Len(l)
           rest == SubSeq(l, m + 1, n)
<1>1. m \in Nat /\ n \in Nat /\ m <= n /\ \A i \in 1..n : l[i] \in RawTurn
  BY LenProperties, ElementOfSeq
<1>2. /\ \A s \in Seq(RawTurn) : TokenIds(s) \in Seq(Tok) /\ Len(TokenIds(s)) \in Nat
  <2>1. Seq(RawTurn) \subseteq Seq(Turns)
    BY SeqMonotonic DEF Turns
  <2>2. \A s \in Seq(RawTurn) : TokenIds(s) \in Seq(Tok)
    BY <2>1, TurnsSized, LaidType DEF TokenIds, Tok
  <2> QED
    BY <2>2, LenProperties
<1>3. CASE m = n
  <2>1. \A i \in 1..Len(l) : r[i] = l[i]
    BY <1>3
  <2>2. r = l
    BY <1>3, <2>1, SeqEqual
  <2> QED
    BY <1>2, <2>2
<1>4. CASE m # n
  <2>1. m + 1 \in Int /\ n \in Int /\ m + 1 <= n /\ n - (m + 1) + 1 = n - m
    BY <1>1, <1>4
  <2>2. \A i \in (m + 1)..n : l[i] \in RawTurn
    BY <1>1
  <2> HIDE DEF m, n
  <2>3. /\ rest \in Seq(RawTurn) /\ Len(rest) = n - m
        /\ \A i \in 1..(n - m) : rest[i] = l[m + 1 + i - 1]
    BY <1>1, <2>1, <2>2, SubSeqProperties
  <2>4. \A i \in 1..(n - m) : m + 1 + i - 1 = m + i
    BY <1>1
  <2>5. \A i \in 1..(n - m) : rest[i] = l[m + i]
    BY <2>3, <2>4
  <2> HIDE DEF rest
  <2>6. /\ r \o rest \in Seq(RawTurn) /\ Len(r \o rest) = m + (n - m)
        /\ \A i \in 1..(m + (n - m)) : (r \o rest)[i] = IF i <= m THEN r[i] ELSE rest[i - m]
    <3>1. m = Len(r)
      BY DEF m
    <3>2. /\ r \o rest \in Seq(RawTurn) /\ Len(r \o rest) = Len(r) + Len(rest)
          /\ \A i \in 1..(Len(r) + Len(rest)) :
               (r \o rest)[i] = IF i <= Len(r) THEN r[i] ELSE rest[i - Len(r)]
      BY <2>3, ConcatProperties
    <3> QED
      BY <2>3, <3>1, <3>2
  <2>7. m + (n - m) = n
    BY <1>1
  <2>8. \A i \in 1..n : l[i] = (r \o rest)[i]
    <3> TAKE i \in 1..n
    <3>1. CASE i <= m
      <4>1. i \in 1..m
        BY <1>1, <3>1
      <4>2. r[i] = l[i]
        BY <4>1 DEF m
      <4> QED
        BY <2>6, <2>7, <3>1, <4>2
    <3>2. CASE ~(i <= m)
      <4>1. i - m \in 1..(n - m) /\ m + (i - m) = i
        BY <1>1, <3>2
      <4>2. rest[i - m] = l[i]
        BY <2>5, <4>1
      <4> QED
        BY <2>6, <2>7, <3>2, <4>2
    <3> QED
      BY <3>1, <3>2
  <2>9. l = r \o rest
    BY <2>6, <2>7, <2>8, SeqEqual DEF n
  <2>10. TokenIds(r \o rest) = TokenIds(r) \o TokenIds(rest)
    <3>1. {} \subseteq 1..Len(r)
      OBVIOUS
    <3> QED
      BY <2>3, <3>1, TurnsSized, LaidConcat DEF TokenIds
  <2>11. Len(TokenIds(l)) = Len(TokenIds(r)) + Len(TokenIds(rest))
    BY <1>2, <2>3, <2>9, <2>10, ConcatProperties
  <2> QED
    BY <1>2, <2>3, <2>11
<1> QED
  BY <1>3, <1>4

\* A block starts as its prompt does.
LEMMA BlockStarts ==
    ASSUME NEW S, NEW ids \in Seq(S), NEW k \in 1..(Len(ids) \div BlockSize)
    PROVE  Block(ids, k)[1] = ids[1]
<1> DEFINE n == k * BlockSize
<1>1. n \in 1..Len(ids) /\ Len(ids) \in Nat /\ \A i \in 1..Len(ids) : ids[i] \in S
  BY BlocksAre, LenProperties, ElementOfSeq
<1>2. Block(ids, k) = SubSeq(ids, 1, n)
  BY DEF Block
<1> HIDE DEF n
<1>3. n \in Int /\ 1 \in Int /\ n - 1 + 1 = n /\ 1 \in 1..n /\ \A i \in 1..n : ids[i] \in S
  BY <1>1
<1>4. \A i \in 1..(n - 1 + 1) : SubSeq(ids, 1, n)[i] = ids[1 + i - 1]
  BY <1>3, SubSeqProperties
<1>5. SubSeq(ids, 1, n)[1] = ids[1 + 1 - 1]
  BY <1>3, <1>4
<1>6. 1 + 1 - 1 = 1
  OBVIOUS
<1> QED
  BY <1>2, <1>5, <1>6

\* What a summarizer's request leaves of a prompt that was served before it.
LEMMA SummarizerLeaves ==
    ASSUME NEW cache \in Seq(Seq(AnyTok)), NEW prev \in Seq(Tok), NEW r \in Seq(RawTurn),
           NEW q \in Nat, q <= Len(prev) \div BlockSize,
           q + (1 + Len(TokenIds(r))) \div BlockSize <= Capacity,
           \A k \in 1..(Len(prev) \div BlockSize) : Young(cache, Block(prev, k), k)
    PROVE  \A k \in 1..q : Contains(Served(cache, SummarizerIds(r)), Block(prev, k))
<1> DEFINE sum == SummarizerIds(r)
           m == Len(sum) \div BlockSize
           new == Served(cache, sum)
           p == Len(prev) \div BlockSize
<1>1. /\ sum \in Seq(AnyTok) /\ Len(sum) = 1 + Len(TokenIds(r))
      /\ sum[1] = <<Header, 1>> /\ Len(TokenIds(r)) \in Nat
  BY SummarizerIs
<1>2. m \in Nat /\ p \in Nat /\ Capacity \in Nat /\ q + m <= Capacity /\ q <= p
  <2>1. BlockSize \in Nat \ {0} /\ Capacity \in Nat /\ Len(prev) \in Nat
    BY LenProperties, PrefixCacheAssumption
  <2>2. m = (1 + Len(TokenIds(r))) \div BlockSize
    BY <1>1
  <2>3. p \in Nat /\ q <= p
    BY <2>1
  <2>4. Len(sum) \in Nat
    BY <1>1
  <2>5. m \in Nat
    BY <2>4, BlockCount
  <2> QED
    BY <2>1, <2>2, <2>3, <2>5
<1>3. \A k \in 1..m : Block(sum, k)[1] = <<Header, 1>>
  BY <1>1, BlockStarts
<1>4. ASSUME NEW k \in 1..p PROVE Block(prev, k)[1] # <<Header, 1>>
  <2>1. Block(prev, k)[1] = prev[1]
    BY BlockStarts
  <2>2. 1 \in 1..Len(prev)
    <3>1. k * BlockSize \in 1..Len(prev) /\ Len(prev) \in Nat
      BY BlocksAre, LenProperties
    <3> QED
      BY <3>1
  <2>3. prev[1] \in Tok
    BY <2>2, ElementOfSeq
  <2>4. prev[1][1] \in Turns \cup {Filler}
    BY <2>3 DEF Tok, TokenSet
  <2>5. prev[1] # <<Header, 1>>
    BY <2>4, KindsDiffer
  <2> QED
    BY <2>1, <2>5
<1>5. \A b : \A n \in Nat :
        /\ Young(cache, b, n) /\ n + m <= Capacity
        /\ \A k \in 1..m : Block(sum, k) # b
        => Young(new, b, n + m)
  BY <1>1, ServedIs
<1>6. \A k \in 1..p : Young(cache, Block(prev, k), k)
  OBVIOUS
<1> HIDE DEF m, new, p, sum
<1>7. ASSUME NEW k \in 1..q PROVE Contains(new, Block(prev, k))
  <2>1. k \in Nat /\ k + m <= Capacity /\ k \in 1..p
    BY <1>2
  <2>2. \A j \in 1..m : Block(sum, j) # Block(prev, k)
    BY <1>3, <1>4, <2>1
  <2>3. Young(new, Block(prev, k), k + m)
    BY <1>5, <1>6, <2>1, <2>2
  <2> QED
    BY <2>3, YoungIsThere
<1> QED
  BY <1>7 DEF new, sum

\* The blocks of the front and those of the summarizer's request, which holds
\* no more of the prompt than is behind the front, and a header of one token.
LEMMA BlocksFit ==
    ASSUME NEW g \in Nat, NEW r \in Nat, g + r <= Capacity * BlockSize
    PROVE  LET q == g \div BlockSize
               s == (1 + r) \div BlockSize
           IN  q + s <= Capacity + 1 /\ (BlockSize > 1 => q + s <= Capacity)
<1> DEFINE q == g \div BlockSize
           s == (1 + r) \div BlockSize
<1>1. BlockSize \in Nat \ {0} /\ Capacity \in Nat
  BY PrefixCacheAssumption
<1>2. q \in Nat /\ s \in Nat /\ q * BlockSize <= g /\ s * BlockSize <= 1 + r
  BY <1>1
<1> HIDE DEF q, s
<1>3. (q + s) * BlockSize = q * BlockSize + s * BlockSize
  BY <1>1, <1>2
<1>4. q * BlockSize \in Nat /\ s * BlockSize \in Nat /\ Capacity * BlockSize \in Nat
  BY <1>1, <1>2
<1>5. (q + s) * BlockSize <= Capacity * BlockSize + 1
  BY <1>2, <1>3, <1>4
<1>6. ASSUME Capacity + 2 <= q + s PROVE FALSE
  <2>1. (Capacity + 2) * BlockSize <= (q + s) * BlockSize
    BY <1>1, <1>2, <1>6
  <2>2. (Capacity + 2) * BlockSize = Capacity * BlockSize + 2 * BlockSize
    BY <1>1
  <2>3. (q + s) * BlockSize \in Nat
    BY <1>3, <1>4
  <2> QED
    BY <1>1, <1>4, <1>5, <2>1, <2>2, <2>3
<1>7. ASSUME BlockSize > 1, Capacity + 1 <= q + s PROVE FALSE
  <2>1. (Capacity + 1) * BlockSize <= (q + s) * BlockSize
    BY <1>1, <1>2, <1>7
  <2>2. (Capacity + 1) * BlockSize = Capacity * BlockSize + BlockSize
    BY <1>1
  <2>3. (q + s) * BlockSize \in Nat
    BY <1>3, <1>4
  <2> QED
    BY <1>1, <1>4, <1>5, <1>7, <2>1, <2>2, <2>3
<1> QED
  BY <1>1, <1>2, <1>6, <1>7 DEF q, s

\* One block of the front missing is within the tolerance.
LEMMA NoMismatch ==
    ASSUME NEW S, NEW prev \in Seq(S), NEW new \in Seq(S), Len(new) # 0, NEW cache,
           NEW r \in Nat, FirstDivergence(prev, new) \div BlockSize <= r + 1,
           \A k \in 1..r : Contains(cache, Block(prev, k))
    PROVE  ~Mismatch(DivergenceCheck(prev, new, CachedTokens(cache, new)))
<1> DEFINE d == FirstDivergence(prev, new)
           q == d \div BlockSize
           h == HitBlocks(cache, new)
<1>1. BlockSize \in Nat \ {0} /\ Len(prev) \in Nat /\ Len(new) \in Nat
  BY PrefixCacheAssumption, LenProperties
<1>2. d \in Nat /\ d <= Len(new)
  BY <1>1, DivergenceIs
<1>3. h \in Nat
  BY HitIs
<1>4. q \in Nat /\ q * BlockSize <= d
  BY <1>1, <1>2
<1>5. q <= r + 1
  OBVIOUS
<1> HIDE DEF q, h
<1>6. q <= h + 1
  <2>1. CASE q = 0
    BY <1>3, <2>1
  <2>2. CASE q # 0
    <3> DEFINE n == q - 1
    <3>1. n \in Nat /\ n <= r /\ n + 1 = q
      BY <1>4, <1>5, <2>2
    <3> HIDE DEF n
    <3>2. n * BlockSize + BlockSize = q * BlockSize /\ n * BlockSize \in Nat
      BY <1>1, <3>1
    <3>3. n * BlockSize <= d /\ n * BlockSize < Len(new)
      BY <1>1, <1>2, <1>4, <3>2
    <3>4. \A k \in 1..n : Contains(cache, Block(prev, k))
      BY <3>1
    <3>5. n <= h
      BY <3>1, <3>3, <3>4, ReuseReaches DEF h
    <3> QED
      BY <1>3, <3>1, <3>5
  <2> QED
    BY <2>1, <2>2
<1>7. FirstDivergence(prev, new) \div BlockSize <= HitBlocks(cache, new) + 1
  BY <1>6 DEF q, h
<1> QED
  BY <1>7, WithinTolerance

\* All blocks of an aligned front there, the reuse reaches the divergence.
LEMMA NothingLost ==
    ASSUME NEW S, NEW prev \in Seq(S), NEW new \in Seq(S), NEW cache, NEW g \in Nat,
           FirstDivergence(prev, new) = g, g % BlockSize = 0, g < Len(new),
           \A k \in 1..(g \div BlockSize) : Contains(cache, Block(prev, k))
    PROVE  CachedTokens(cache, new) >= g
<1> DEFINE q == g \div BlockSize
           h == HitBlocks(cache, new)
<1>1. BlockSize \in Nat \ {0} /\ Len(new) \in Nat
  BY PrefixCacheAssumption, LenProperties
<1>2. q \in Nat /\ q * BlockSize = g
  BY <1>1
<1>3. \A k \in 1..q : Contains(cache, Block(prev, k))
  OBVIOUS
<1>4. h \in Nat
  <2>1. Len(new) # 0
    BY <1>1
  <2> QED
    BY <2>1, HitIs
<1> HIDE DEF q
<1>5. q * BlockSize <= FirstDivergence(prev, new) /\ q * BlockSize < Len(new)
  BY <1>1, <1>2
<1>6. q <= h
  BY <1>2, <1>3, <1>5, ReuseReaches
<1>7. CachedTokens(cache, new) = h * BlockSize
  BY DEF CachedTokens
<1> HIDE DEF h
<1>8. q * BlockSize <= h * BlockSize /\ h * BlockSize \in Nat
  BY <1>1, <1>2, <1>4, <1>6
<1> QED
  BY <1>2, <1>7, <1>8
-----------------------------------------------------------------------------
\* The loop's variables keep their types.
LoopTypes ==
    /\ align \in BOOLEAN /\ run \in 1..MaxRuns /\ verdict \in {"ok", "rejected"}
    /\ prevIds \in Seq(Tok) /\ Len(prevIds) <= MaxModelLen
    /\ pool \in Seq(Seq(AnyTok)) /\ Len(pool) <= Capacity /\ NoTwice(pool)
    /\ check.divergence \in 0..Len(prevIds) /\ check.cached \in 0..Len(prevIds)

\* Block k of the prompt that was served last is among the k youngest.
PrevIsCached ==
    verdict = "ok" =>
        \A k \in 1..(Len(prevIds) \div BlockSize) : Young(pool, Block(prevIds, k), k)

\* Within a trajectory that prompt is what the policy's state renders to.
PrevIsPrompt ==
    verdict = "ok" /\ outcome = "running" /\ anchor # None =>
        prevIds = Prompt(align, anchor, frozen, live)

\* The events of a trajectory rise, and lie within the front there is now.
EventsInFront ==
    /\ events \in Seq(Nat)
    /\ MonotonePrefixGrowth
    /\ anchor = None => events = <<>>
    /\ \A i \in 1..Len(events) : events[i] <= Len(FrontIds(align, anchor, frozen))

\* A block of one token is the exception: a summarizer's request of a one-token
\* header and all live turns can then push out the last block of the front.
NothingLostYet == BlockSize > 1 => AlignedEventsLoseNothing

LInv ==
    /\ TInv
    /\ LoopTypes
    /\ PrevIsCached
    /\ PrevIsPrompt
    /\ EventsInFront
    /\ NothingLostYet

\* What a step that returns a prompt leaves of the policy, and the prompt.
LEMMA NextPromptIs ==
    ASSUME LInv, PolicyReturns
    PROVE  /\ TInv' /\ anchor' \in AnchorTurn
           /\ frozen' \in Seq(SegmentSet) /\ live' \in Seq(RawTurn)
           /\ NextIds = Prompt(align, anchor', frozen', live')
           /\ NextIds \in Seq(Tok) /\ Len(NextIds) \in Nat \ {0}
<1>1. TInv /\ Next /\ outcome' = "running"
  BY DEF LInv, PolicyReturns
<1>2. TInv'
  BY <1>1, TInvNext
<1>3. frozen' \in Seq(SegmentSet) /\ live' \in Seq(RawTurn)
  BY <1>2 DEF TInv, TypeOK
<1>4. anchor' \in AnchorTurn
  <2>1. ASSUME NEW text \in AnchorTexts, FirstCall(text) PROVE anchor' \in AnchorTurn
    BY <2>1, AnchorIsNotNone DEF FirstCall
  <2>2. ASSUME NEW turn \in NewTurns, Receive(turn) PROVE anchor' \in AnchorTurn
    BY <1>1, <2>2 DEF Receive, TInv, TypeOK
  <2> QED
    BY <1>1, <2>1, <2>2 DEF Next, AnchorDrift, PlainStep, SummarizerFails, CompactStep
<1>5. NextIds = Prompt(align, anchor', frozen', live')
  BY Zenon DEF NextIds, PromptIds, AlignedIds, TokenIds, Prompt, Ends
<1>6. /\ Prompt(align, anchor', frozen', live') \in Seq(Tok)
      /\ Len(FrontIds(align, anchor', frozen')) \in Nat \ {0}
      /\ Len(Prompt(align, anchor', frozen', live'))
           = Len(FrontIds(align, anchor', frozen')) + Len(TokenIds(live'))
      /\ TokenIds(live') \in Seq(Tok)
  BY <1>3, <1>4, PromptIs
<1>7. Len(TokenIds(live')) \in Nat
  BY <1>6, LenProperties
<1>8. NextIds \in Seq(Tok) /\ Len(NextIds) \in Nat \ {0}
  BY <1>5, <1>6, <1>7
<1> QED
  BY <1>2, <1>3, <1>4, <1>5, <1>8

\* More tokens do not fill fewer blocks.
LEMMA DivMono == \A m, n \in Nat : m <= n => m \div BlockSize <= n \div BlockSize
<1> SUFFICES ASSUME NEW m \in Nat, NEW n \in Nat, m <= n
             PROVE  m \div BlockSize <= n \div BlockSize
  OBVIOUS
<1> DEFINE p == m \div BlockSize
           q == n \div BlockSize
<1>1. BlockSize \in Nat \ {0}
  BY PrefixCacheAssumption
<1>2. p \in Nat /\ q \in Nat /\ p * BlockSize <= m /\ n < (q + 1) * BlockSize
  BY <1>1
<1> HIDE DEF p, q
<1>3. ASSUME q + 1 <= p PROVE FALSE
  <2>1. (q + 1) * BlockSize <= p * BlockSize
    BY <1>1, <1>2, <1>3
  <2>2. (q + 1) * BlockSize \in Nat /\ p * BlockSize \in Nat
    BY <1>1, <1>2
  <2> QED
    BY <1>2, <2>1, <2>2
<1> QED
  BY <1>2, <1>3 DEF p, q

\* A prompt the engine takes fits into its pool.
LEMMA PromptFits == \A n \in Nat : n <= MaxModelLen =>
                       n <= Capacity * BlockSize /\ n \div BlockSize <= Capacity
<1> SUFFICES ASSUME NEW n \in Nat, n <= MaxModelLen
             PROVE  n <= Capacity * BlockSize /\ n \div BlockSize <= Capacity
  OBVIOUS
<1>1. BlockSize \in Nat \ {0} /\ Capacity \in Nat /\ MaxModelLen \in Nat
      /\ MaxModelLen <= Capacity * BlockSize
  BY PrefixCacheAssumption, ReplayAssumption
<1> DEFINE full == Capacity * BlockSize
<1>2. full \in Nat /\ full \div BlockSize = Capacity /\ MaxModelLen <= full
  BY <1>1
<1> HIDE DEF full
<1>3. n <= full
  BY <1>1, <1>2
<1>4. n \div BlockSize <= full \div BlockSize
  BY <1>2, <1>3, DivMono
<1> QED
  BY <1>2, <1>3, <1>4 DEF full

\* A step that compacts nothing: the pool is as the last prompt left it.
LEMMA PlainPool ==
    ASSUME LInv, PolicyReturns, ~fired'
    PROVE  /\ PoolAfterPolicy = pool /\ frozen' = frozen
           /\ \E r \in Nat :
                /\ FirstDivergence(prevIds, NextIds) \div BlockSize <= r + 1
                /\ \A k \in 1..r : Contains(PoolAfterPolicy, Block(prevIds, k))
<1>1. PoolAfterPolicy = pool
  BY DEF PoolAfterPolicy
<1>2. prevIds \in Seq(Tok) /\ Len(prevIds) \in Nat /\ NextIds \in Seq(Tok)
  BY NextPromptIs, LenProperties DEF LInv, LoopTypes
<1> DEFINE r == Len(prevIds) \div BlockSize
           d == FirstDivergence(prevIds, NextIds)
<1>3. \A k \in 1..r : Contains(pool, Block(prevIds, k))
  BY YoungIsThere DEF LInv, PrevIsCached, PolicyReturns
<1>4. d \in 0..Len(prevIds)
  BY <1>2, DivergenceIs
<1>5. d \in Nat /\ d <= Len(prevIds)
  BY <1>2, <1>4
<1> HIDE DEF d
<1>6. r \in Nat /\ d \div BlockSize \in Nat
  BY <1>2, <1>5, BlockCount
<1>7. d \div BlockSize <= r
  BY <1>2, <1>5, DivMono
<1> HIDE DEF r
<1>8. d \div BlockSize <= r + 1
  BY <1>6, <1>7
<1>9. frozen' = frozen
  <2>1. Next /\ outcome' = "running"
    BY DEF PolicyReturns
  <2>2. ASSUME NEW text \in AnchorTexts, FirstCall(text) PROVE frozen' = frozen
    BY <2>2 DEF FirstCall
  <2>3. ASSUME NEW turn \in NewTurns, PlainStep(turn) PROVE frozen' = frozen
    BY <2>3 DEF PlainStep
  <2>4. ASSUME NEW turn \in NewTurns, NEW size \in SummarySizes, CompactStep(turn, size)
        PROVE  FALSE
    BY <2>4 DEF CompactStep
  <2> QED
    BY <2>1, <2>2, <2>3, <2>4 DEF Next, AnchorDrift, SummarizerFails
<1> QED
  BY <1>1, <1>3, <1>6, <1>8, <1>9 DEF d

\* A step that compacts: where it diverges, and what the summarizer's request
\* left in the pool of the front.
LEMMA EventPool ==
    ASSUME LInv, PolicyReturns, fired'
    PROVE  LET g == Len(FrontIds(align, anchor, frozen))
           IN  /\ anchor \in AnchorTurn /\ anchor' = anchor
               /\ g \in Nat /\ FirstDivergence(prevIds, NextIds) = g /\ g < Len(NextIds)
               /\ g <= Len(FrontIds(align, anchor', frozen'))
               /\ \E of \in Seq(RawTurn) :
                    PoolAfterPolicy = Served(pool, SummarizerIds(of))
               /\ \E r \in Nat :
                    /\ g \div BlockSize <= r + 1
                    /\ BlockSize > 1 => g \div BlockSize <= r
                    /\ \A k \in 1..r : Contains(PoolAfterPolicy, Block(prevIds, k))
<1> DEFINE g == Len(FrontIds(align, anchor, frozen))
<1>1. PICK turn \in NewTurns, size \in SummarySizes : CompactStep(turn, size)
  <2>1. Next /\ outcome' = "running"
    BY DEF PolicyReturns
  <2>2. ASSUME NEW text \in AnchorTexts, FirstCall(text) PROVE FALSE
    BY <2>2 DEF FirstCall
  <2>3. ASSUME NEW t \in NewTurns, PlainStep(t) PROVE FALSE
    BY <2>3 DEF PlainStep
  <2> QED
    BY <2>1, <2>2, <2>3 DEF Next, AnchorDrift, SummarizerFails
<1> DEFINE l == Append(live, turn)
           c == Cutoff(Len(l))
           of == SubSeq(l, 1, c)
           sg == Segment(seen, of, size)
           kept == SubSeq(l, c + 1, Len(l))
<1>2. TInv /\ LoopTypes /\ PrevIsCached /\ PrevIsPrompt /\ TypeOK /\ verdict = "ok"
  BY DEF LInv, TInv, PolicyReturns
<1>3. /\ anchor' = anchor /\ anchor # None /\ outcome = "running" /\ Len(l) >= 2
      /\ frozen' = Append(frozen, sg) /\ live' = kept
  BY <1>1 DEF CompactStep, Receive, Freeze, MustCompact
<1>4. /\ anchor \in AnchorTurn /\ frozen \in Seq(SegmentSet) /\ live \in Seq(RawTurn)
      /\ l \in Seq(RawTurn) /\ Len(live) \in Nat /\ Len(l) = Len(live) + 1
      /\ \A k \in 1..Len(live) : l[k] = live[k]
  BY <1>2, <1>3, AppendLive DEF TypeOK
<1> HIDE DEF l
<1>5. c \in 1..(Len(l) - 1)
  BY <1>3, <1>4, CutoffBounds
<1> HIDE DEF c
<1>6. /\ of \in Seq(RawTurn) /\ Len(of) = c /\ \A k \in 1..c : of[k] = l[k]
      /\ kept \in Seq(RawTurn)
  BY <1>4, <1>5, RetireSplit
<1> HIDE DEF of, kept
<1>7. /\ sg \in SegmentSet /\ sg.of = of /\ Len(frozen) \in Nat
      /\ Len(Append(frozen, sg)) = Len(frozen) + 1
      /\ Append(frozen, sg)[Len(frozen) + 1] = sg
  BY <1>2, <1>6, NewSegment
<1> HIDE DEF sg
<1>8. PoolAfterPolicy = Served(pool, SummarizerIds(of))
  <2>1. frozen'[Len(frozen')] = sg
    BY <1>3, <1>7
  <2> QED
    BY <1>7, <2>1, Zenon DEF PoolAfterPolicy
<1>9. prevIds = Prompt(align, anchor, frozen, live) /\ prevIds \in Seq(Tok)
  BY <1>2, <1>3 DEF PrevIsPrompt, LoopTypes
<1>10. NextIds = Prompt(align, anchor, Append(frozen, sg), kept)
  BY <1>3, NextPromptIs, Zenon
<1>11. live # <<>>
  <2>1. Len(live) # 0
    BY <1>3, <1>4
  <2> QED
    BY <2>1, EmptySeq
<1>12. FirstDivergence(prevIds, NextIds) = g /\ g < Len(NextIds)
  BY <1>4, <1>6, <1>7, <1>9, <1>10, <1>11, EventDiverges
<1>13. /\ Len(prevIds) = g + Len(TokenIds(live)) /\ g \in Nat
       /\ TokenIds(live) \in Seq(Tok) /\ FrontIds(align, anchor, frozen) \in Seq(Tok)
  BY <1>4, <1>9, PromptIs
<1>14. Len(TokenIds(of)) <= Len(TokenIds(live)) /\ Len(TokenIds(live)) \in Nat
  <2>1. Len(of) <= Len(live) /\ \A k \in 1..Len(of) : of[k] = live[k]
    <3>1. c \in Nat /\ c <= Len(live)
      BY <1>4, <1>5
    <3>2. \A k \in 1..c : k \in 1..Len(live)
      BY <1>4, <3>1
    <3>3. \A k \in 1..c : of[k] = live[k]
      BY <1>4, <1>6, <3>2
    <3> QED
      BY <1>6, <3>1, <3>3
  <2> QED
    BY <1>4, <1>6, <1>13, <2>1, PartIsSmaller, LenProperties
<1>15. g <= Len(FrontIds(align, anchor', frozen'))
  <2> DEFINE front == FrontIds(align, anchor, frozen)
             longer == FrontIds(align, anchor, Append(frozen, sg))
  <2>1. Extends(align, anchor, frozen, sg)
    BY <1>4, <1>7, FrontGrows
  <2>2. PICK x \in Seq(Tok) : longer = front \o x
    BY <2>1 DEF Extends
  <2>3. front \in Seq(Tok) /\ g = Len(front)
    BY <1>13
  <2>4. longer = FrontIds(align, anchor', frozen')
    BY <1>3
  <2> HIDE DEF front, longer
  <2>5. Len(longer) = Len(front) + Len(x) /\ Len(x) \in Nat
    BY <2>2, <2>3, ConcatProperties, LenProperties
  <2> QED
    BY <1>13, <2>3, <2>4, <2>5
<1> DEFINE R == Len(TokenIds(of))
           q == g \div BlockSize
           s == (1 + R) \div BlockSize
<1> HIDE DEF g
<1>16. R \in Nat
  BY <1>6, SummarizerIs
<1>17. g + R <= Capacity * BlockSize
  <2>1. Len(prevIds) \in Nat /\ Len(prevIds) <= MaxModelLen
    BY <1>2, <1>9, LenProperties DEF LoopTypes
  <2>2. Len(prevIds) <= Capacity * BlockSize
    BY <2>1, PromptFits
  <2> HIDE DEF R
  <2>3. g + R <= Len(prevIds)
    BY <1>13, <1>14, <1>16 DEF R
  <2>4. Capacity * BlockSize \in Nat
    BY PrefixCacheAssumption
  <2> QED
    BY <1>13, <1>16, <2>1, <2>2, <2>3, <2>4
<1>18. q + s <= Capacity + 1 /\ (BlockSize > 1 => q + s <= Capacity)
  <2> HIDE DEF R
  <2> QED
    BY <1>13, <1>16, <1>17, BlocksFit
<1>19. q \in Nat /\ s \in Nat /\ Capacity \in Nat /\ BlockSize \in Nat
  <2>1. 1 + R \in Nat
    BY <1>16
  <2> QED
    BY <1>13, <2>1, BlockCount, PrefixCacheAssumption
<1>20. q <= Len(prevIds) \div BlockSize /\ Len(prevIds) \div BlockSize \in Nat
  <2>1. Len(prevIds) \in Nat /\ g <= Len(prevIds)
    BY <1>9, <1>13, <1>14, LenProperties
  <2> QED
    BY <1>13, <2>1, DivMono, BlockCount
<1>21. ASSUME NEW r \in Nat, r <= q, r + s <= Capacity
       PROVE  \A k \in 1..r : Contains(PoolAfterPolicy, Block(prevIds, k))
  <2>1. pool \in Seq(Seq(AnyTok))
    BY <1>2 DEF LoopTypes
  <2>2. \A k \in 1..(Len(prevIds) \div BlockSize) : Young(pool, Block(prevIds, k), k)
    BY <1>2 DEF PrevIsCached
  <2>3. r <= Len(prevIds) \div BlockSize
    <3> HIDE DEF q
    <3> QED
      BY <1>19, <1>20, <1>21
  <2>4. r + (1 + Len(TokenIds(of))) \div BlockSize <= Capacity
    BY <1>21 DEF s, R
  <2>5. \A k \in 1..r : Contains(Served(pool, SummarizerIds(of)), Block(prevIds, k))
    BY <1>6, <1>9, <2>1, <2>2, <2>3, <2>4, SummarizerLeaves
  <2> QED
    BY <1>8, <2>5, Zenon
<1> HIDE DEF s
<1>22. \E r \in Nat : /\ q <= r + 1 /\ (BlockSize > 1 => q <= r)
                      /\ \A k \in 1..r : Contains(PoolAfterPolicy, Block(prevIds, k))
  <2> HIDE DEF q
  <2>1. CASE q + s <= Capacity
    BY <1>19, <1>21, <2>1
  <2>2. CASE ~(q + s <= Capacity) /\ q = 0
    <3>1. 0 \in Nat /\ q <= 0 + 1 /\ q <= 0
      BY <2>2
    <3>2. \A k \in 1..0 : Contains(PoolAfterPolicy, Block(prevIds, k))
      OBVIOUS
    <3> QED
      BY <3>1, <3>2
  <2>3. CASE ~(q + s <= Capacity) /\ q # 0
    <3>1. q - 1 \in Nat /\ q - 1 <= q /\ (q - 1) + s <= Capacity /\ q <= (q - 1) + 1
      BY <1>18, <1>19, <2>3
    <3>2. \A k \in 1..(q - 1) : Contains(PoolAfterPolicy, Block(prevIds, k))
      BY <1>21, <3>1
    <3>3. ~(BlockSize > 1)
      BY <1>18, <2>3
    <3> QED
      BY <3>1, <3>2, <3>3
  <2> QED
    BY <2>1, <2>2, <2>3
<1>23. \E o \in Seq(RawTurn) : PoolAfterPolicy = Served(pool, SummarizerIds(o))
  BY <1>6, <1>8
<1> QED
  BY <1>3, <1>4, <1>12, <1>13, <1>15, <1>22, <1>23 DEF g, q
-----------------------------------------------------------------------------
\* What a step finds: the pool the prompt arrives at, and no mismatch.
LEMMA StepFinds ==
    ASSUME LInv, PolicyReturns
    PROVE  /\ PoolAfterPolicy \in Seq(Seq(AnyTok)) /\ Len(PoolAfterPolicy) <= Capacity
           /\ NoTwice(PoolAfterPolicy)
           /\ ~Mismatch(DivergenceCheck(prevIds, NextIds,
                                        CachedTokens(PoolAfterPolicy, NextIds)))
<1>1. /\ pool \in Seq(Seq(AnyTok)) /\ Len(pool) <= Capacity /\ NoTwice(pool)
      /\ prevIds \in Seq(Tok)
  BY DEF LInv, LoopTypes
<1>2. NextIds \in Seq(Tok) /\ Len(NextIds) # 0
  BY NextPromptIs
<1>3. \E r \in Nat :
        /\ FirstDivergence(prevIds, NextIds) \div BlockSize <= r + 1
        /\ \A k \in 1..r : Contains(PoolAfterPolicy, Block(prevIds, k))
  <2>1. CASE ~fired'
    BY <2>1, PlainPool
  <2>2. CASE fired'
    BY <2>2, EventPool
  <2> QED
    BY <2>1, <2>2
<1>4. ~Mismatch(DivergenceCheck(prevIds, NextIds, CachedTokens(PoolAfterPolicy, NextIds)))
  BY <1>1, <1>2, <1>3, NoMismatch
<1>5. /\ PoolAfterPolicy \in Seq(Seq(AnyTok)) /\ Len(PoolAfterPolicy) <= Capacity
      /\ NoTwice(PoolAfterPolicy)
  <2>1. CASE ~fired'
    BY <1>1, <2>1, PlainPool
  <2>2. CASE fired'
    <3>1. PICK of \in Seq(RawTurn) : PoolAfterPolicy = Served(pool, SummarizerIds(of))
      BY <2>2, EventPool
    <3>2. SummarizerIds(of) \in Seq(AnyTok)
      BY SummarizerIs
    <3> QED
      BY <1>1, <3>1, <3>2, ServedIs
  <2> QED
    BY <2>1, <2>2
<1> QED
  BY <1>4, <1>5

\* A step is measured, finds no mismatch and is logged if it compacted.
LEMMA StepDoes ==
    ASSUME LInv, LoopStep
    PROVE  /\ PolicyReturns /\ Len(NextIds) <= MaxModelLen
           /\ check'.divergence = FirstDivergence(prevIds, NextIds)
           /\ check'.cached = CachedTokens(PoolAfterPolicy, NextIds)
           /\ pool' = Served(PoolAfterPolicy, NextIds)
           /\ prevIds' = NextIds /\ verdict' = "ok" /\ align' = align /\ run' = run
           /\ events' = IF fired' THEN Append(events, FirstDivergence(prevIds, NextIds))
                        ELSE events
<1>1. /\ PolicyReturns /\ Len(NextIds) <= MaxModelLen
      /\ check' = DivergenceCheck(prevIds, NextIds, CachedTokens(PoolAfterPolicy, NextIds))
      /\ pool' = Served(PoolAfterPolicy, NextIds) /\ align' = align /\ run' = run
  BY DEF LoopStep
<1>2. ~Mismatch(check')
  BY <1>1, StepFinds
<1>3. /\ events' = IF fired' THEN Append(events, check'.divergence) ELSE events
      /\ prevIds' = NextIds /\ verdict' = verdict
  BY <1>2 DEF LoopStep
<1>4. verdict = "ok"
  BY <1>1 DEF PolicyReturns
<1>5. /\ check'.divergence = FirstDivergence(prevIds, NextIds)
      /\ check'.cached = CachedTokens(PoolAfterPolicy, NextIds)
  BY <1>1 DEF DivergenceCheck
<1> QED
  BY <1>1, <1>3, <1>4, <1>5

\* A new element that is no less than the others keeps a list in order.
LEMMA OrderedAppend ==
    ASSUME NEW s \in Seq(Nat), NEW g \in Nat, \A i \in 1..Len(s) : s[i] <= g,
           \A i \in 1..(Len(s) - 1) : s[i] <= s[i + 1]
    PROVE  /\ Append(s, g) \in Seq(Nat)
           /\ \A i \in 1..(Len(Append(s, g)) - 1) : Append(s, g)[i] <= Append(s, g)[i + 1]
           /\ \A i \in 1..Len(Append(s, g)) : Append(s, g)[i] <= g
<1> DEFINE t == Append(s, g)
<1>1. /\ t \in Seq(Nat) /\ Len(t) = Len(s) + 1 /\ Len(s) \in Nat
      /\ t[Len(s) + 1] = g /\ \A i \in 1..Len(s) : t[i] = s[i]
  BY AppendProperties, LenProperties
<1> HIDE DEF t
<1>2. ASSUME NEW i \in 1..(Len(t) - 1) PROVE t[i] <= t[i + 1]
  <2>1. i \in 1..Len(s) /\ t[i] = s[i]
    BY <1>1
  <2>2. CASE i = Len(s)
    BY <1>1, <2>1, <2>2
  <2>3. CASE i # Len(s)
    <3>1. i + 1 \in 1..Len(s) /\ i \in 1..(Len(s) - 1)
      BY <1>1, <2>1, <2>3
    <3> QED
      BY <1>1, <2>1, <3>1
  <2> QED
    BY <2>2, <2>3
<1>3. ASSUME NEW i \in 1..Len(t) PROVE t[i] <= g
  <2>1. CASE i = Len(s) + 1
    BY <1>1, <2>1
  <2>2. CASE i # Len(s) + 1
    <3>1. i \in 1..Len(s)
      BY <1>1, <2>2
    <3> QED
      BY <1>1, <3>1
  <2> QED
    BY <2>1, <2>2
<1> QED
  BY <1>1, <1>2, <1>3 DEF t

\* A step that is logged lengthens the list of events, in order.
LEMMA StepLogs == LInv /\ LoopStep => EventsInFront'
<1> SUFFICES ASSUME LInv, LoopStep PROVE EventsInFront'
  OBVIOUS
<1> DEFINE g == Len(FrontIds(align, anchor, frozen))
           n == Len(FrontIds(align, anchor', frozen'))
<1>1. /\ PolicyReturns /\ align' = align
      /\ events' = IF fired' THEN Append(events, FirstDivergence(prevIds, NextIds))
                   ELSE events
  BY StepDoes
<1>2. /\ anchor' \in AnchorTurn /\ frozen' \in Seq(SegmentSet) /\ n \in Nat
  BY <1>1, NextPromptIs, PromptIs, EmptySeq
<1>3. anchor' # None
  BY <1>2, AnchorIsNotNone
<1>4. /\ events \in Seq(Nat) /\ Len(events) \in Nat
      /\ \A i \in 1..(Len(events) - 1) : events[i] <= events[i + 1]
      /\ anchor = None => events = <<>>
      /\ \A i \in 1..Len(events) : events[i] <= g
  BY LenProperties DEF LInv, EventsInFront, MonotonePrefixGrowth
<1>5. n = Len(FrontIds(align, anchor, frozen))'
  BY <1>1
<1>6. CASE fired'
  <2>1. /\ FirstDivergence(prevIds, NextIds) = g /\ g \in Nat /\ g <= n
    BY <1>1, <1>6, EventPool
  <2> DEFINE e == Append(events, g)
  <2>2. events' = e
    BY <1>1, <1>6, <2>1
  <2> HIDE DEF g, n
  <2>3. /\ e \in Seq(Nat) /\ \A i \in 1..(Len(e) - 1) : e[i] <= e[i + 1]
        /\ \A i \in 1..Len(e) : e[i] <= g
    BY <1>4, <2>1, OrderedAppend
  <2> HIDE DEF e
  <2>4. \A i \in 1..Len(e) : e[i] <= n
    <3>1. \A i \in 1..Len(e) : e[i] \in Nat
      BY <2>3, ElementOfSeq
    <3> QED
      BY <1>2, <2>1, <2>3, <3>1
  <2> QED
    BY <1>3, <1>5, <2>2, <2>3, <2>4 DEF EventsInFront, MonotonePrefixGrowth
<1>7. CASE ~fired'
  <2>1. events' = events /\ frozen' = frozen
    BY <1>1, <1>7, PlainPool
  <2>2. CASE anchor = None
    <3>1. events' = <<>> /\ Len(<<>>) = 0
      BY <1>4, <2>1, <2>2, EmptySeq
    <3> HIDE DEF n
    <3> QED
      BY <1>3, <1>4, <2>1, <3>1 DEF EventsInFront, MonotonePrefixGrowth
  <2>3. CASE anchor # None
    <3>1. anchor' = anchor
      BY <1>1, <2>3 DEF PolicyReturns, Next, FirstCall, AnchorDrift, PlainStep,
                        SummarizerFails, CompactStep, Receive
    <3>2. n = g
      BY <2>1, <3>1
    <3> HIDE DEF n, g
    <3> QED
      BY <1>3, <1>4, <1>5, <2>1, <3>2 DEF EventsInFront, MonotonePrefixGrowth
  <2> QED
    BY <2>2, <2>3
<1> QED
  BY <1>6, <1>7

\* A measured step keeps the invariant.
LEMMA StepKeeps == LInv /\ LoopStep => LInv'
<1> SUFFICES ASSUME LInv, LoopStep PROVE LInv'
  OBVIOUS
<1> DEFINE m == Len(NextIds) \div BlockSize
           d == FirstDivergence(prevIds, NextIds)
           c == CachedTokens(PoolAfterPolicy, NextIds)
<1>1. /\ PolicyReturns /\ Len(NextIds) <= MaxModelLen
      /\ check'.divergence = d /\ check'.cached = c
      /\ pool' = Served(PoolAfterPolicy, NextIds)
      /\ prevIds' = NextIds /\ verdict' = "ok" /\ align' = align /\ run' = run
  BY StepDoes
<1>2. /\ TInv' /\ NextIds = Prompt(align, anchor', frozen', live')
      /\ NextIds \in Seq(Tok) /\ Len(NextIds) \in Nat \ {0}
  BY <1>1, NextPromptIs
<1>3. /\ PoolAfterPolicy \in Seq(Seq(AnyTok)) /\ NoTwice(PoolAfterPolicy)
      /\ NextIds \in Seq(AnyTok)
  BY <1>1, <1>2, StepFinds, AnyTokIs
<1>4. /\ pool' \in Seq(Seq(AnyTok)) /\ Len(pool') <= Capacity /\ NoTwice(pool')
      /\ \A k \in 1..m : k <= Capacity => Young(pool', Block(NextIds, k), k)
  BY <1>1, <1>3, ServedIs
<1>5. m \in Nat /\ m <= Capacity /\ Capacity \in Nat
  BY <1>1, <1>2, PromptFits, BlockCount, PrefixCacheAssumption
<1>6. d \in 0..Len(NextIds) /\ c \in 0..Len(NextIds)
  <2>1. prevIds \in Seq(Tok)
    BY DEF LInv, LoopTypes
  <2>2. d \in 0..Len(NextIds)
    BY <1>2, <2>1, DivergenceIs
  <2>3. c \in 0..Len(NextIds)
    BY <1>2, HitIs
  <2> QED
    BY <2>2, <2>3
<1> HIDE DEF d, c
<1>7. LoopTypes'
  <2>1. align' \in BOOLEAN /\ run' \in 1..MaxRuns
    BY <1>1, Zenon DEF LInv, LoopTypes
  <2> QED
    BY <1>1, <1>2, <1>4, <1>6, <2>1 DEF LoopTypes
<1>8. PrevIsCached'
  <2> HIDE DEF m
  <2>1. \A k \in 1..m : Young(pool', Block(NextIds, k), k)
    BY <1>4, <1>5
  <2> QED
    BY <1>1, <2>1 DEF PrevIsCached, m
<1>9. PrevIsPrompt'
  BY <1>1, <1>2 DEF PrevIsPrompt
<1>10. NothingLostYet'
  <2> SUFFICES ASSUME BlockSize > 1, align, fired' PROVE c >= d
    BY <1>1 DEF NothingLostYet, AlignedEventsLoseNothing
  <2> DEFINE g == Len(FrontIds(align, anchor, frozen))
  <2>1. anchor \in AnchorTurn /\ g \in Nat /\ d = g /\ g < Len(NextIds)
    BY <1>1, EventPool DEF d
  <2>2. PICK r \in Nat : /\ g \div BlockSize <= r
                         /\ \A k \in 1..r : Contains(PoolAfterPolicy, Block(prevIds, k))
    BY <1>1, EventPool
  <2>3. g % BlockSize = 0
    <3>1. align = TRUE
      <4>1. align \in BOOLEAN
        BY DEF LInv, LoopTypes
      <4> QED
        BY <4>1, Zenon
    <3>2. frozen \in Seq(SegmentSet)
      BY DEF LInv, TInv, TypeOK
    <3> QED
      BY <2>1, <3>1, <3>2, FrontAligned
  <2> HIDE DEF g
  <2>4. \A k \in 1..(g \div BlockSize) : Contains(PoolAfterPolicy, Block(prevIds, k))
    <3>1. g \div BlockSize \in Nat
      BY <2>1, BlockCount
    <3> DEFINE q == g \div BlockSize
    <3>2. q \in Nat /\ q <= r
      BY <2>2, <3>1
    <3> HIDE DEF q
    <3>3. \A k \in 1..q : k \in 1..r
      BY <3>2
    <3>4. \A k \in 1..q : Contains(PoolAfterPolicy, Block(prevIds, k))
      BY <2>2, <3>3
    <3> QED
      BY <3>4 DEF q
  <2>5. prevIds \in Seq(Tok)
    BY DEF LInv, LoopTypes
  <2>6. c >= g
    BY <1>2, <2>1, <2>3, <2>4, <2>5, NothingLost DEF c, d
  <2> QED
    BY <2>1, <2>6
<1>11. EventsInFront'
  BY StepLogs
<1> QED
  BY <1>2, <1>7, <1>8, <1>9, <1>10, <1>11 DEF LInv

\* A rejected prompt ends the replay.
LEMMA RejectedKeeps == LInv /\ PromptRejected => LInv'
<1> SUFFICES ASSUME LInv, PromptRejected PROVE LInv'
  OBVIOUS
<1>1. /\ PolicyReturns /\ verdict' = "rejected" /\ pool' = PoolAfterPolicy
      /\ align' = align /\ run' = run /\ prevIds' = prevIds /\ check' = check
      /\ events' = events
  BY DEF PromptRejected
<1>2. TInv' /\ anchor' \in AnchorTurn
  BY <1>1, NextPromptIs
<1>3. LoopTypes'
  <2>1. align' \in BOOLEAN /\ run' \in 1..MaxRuns
    BY <1>1, Zenon DEF LInv, LoopTypes
  <2>2. /\ PoolAfterPolicy \in Seq(Seq(AnyTok)) /\ Len(PoolAfterPolicy) <= Capacity
        /\ NoTwice(PoolAfterPolicy)
    BY <1>1, StepFinds
  <2> QED
    BY <1>1, <2>1, <2>2 DEF LInv, LoopTypes
<1>4. PrevIsCached' /\ PrevIsPrompt' /\ NothingLostYet'
  BY <1>1 DEF PrevIsCached, PrevIsPrompt, NothingLostYet, AlignedEventsLoseNothing
<1>5. EventsInFront'
  <2> DEFINE g == Len(FrontIds(align, anchor, frozen))
             n == Len(FrontIds(align, anchor', frozen'))
  <2>1. n = g' /\ anchor' # None
    BY <1>1, <1>2, AnchorIsNotNone
  <2>2. /\ events \in Seq(Nat) /\ MonotonePrefixGrowth
        /\ anchor = None => events = <<>>
        /\ \A i \in 1..Len(events) : events[i] <= g
    BY DEF LInv, EventsInFront
  <2>3. \A i \in 1..Len(events) : events[i] \in Nat
    BY <2>2, ElementOfSeq
  <2>4. CASE anchor = None
    <3>1. events = <<>> /\ Len(<<>>) = 0
      BY <2>2, <2>4, EmptySeq
    <3> HIDE DEF g, n
    <3> QED
      BY <1>1, <2>1, <2>2, <3>1 DEF EventsInFront, MonotonePrefixGrowth
  <2>5. CASE anchor # None
    <3>1. anchor' = anchor
      BY <1>1, <2>5 DEF PolicyReturns, Next, FirstCall, AnchorDrift, PlainStep,
                        SummarizerFails, CompactStep, Receive
    <3>2. g \in Nat /\ n \in Nat /\ g <= n
      <4>1. anchor \in AnchorTurn /\ frozen \in Seq(SegmentSet) /\ frozen' \in Seq(SegmentSet)
        BY <1>2, <2>5 DEF LInv, TInv, TypeOK
      <4>2. g \in Nat /\ n \in Nat
        BY <1>2, <4>1, PromptIs, EmptySeq
      <4>3. CASE fired'
        BY <1>1, <4>2, <4>3, EventPool
      <4>4. CASE ~fired'
        <5>1. n = g
          BY <1>1, <3>1, <4>4, PlainPool
        <5> HIDE DEF n, g
        <5> QED
          BY <4>2, <5>1
      <4> QED
        BY <4>3, <4>4
    <3> HIDE DEF g, n
    <3>3. \A i \in 1..Len(events) : events[i] <= n
      BY <2>2, <2>3, <3>2
    <3> QED
      BY <1>1, <2>1, <2>2, <3>3 DEF EventsInFront, MonotonePrefixGrowth, g
  <2> QED
    BY <2>4, <2>5
<1> QED
  BY <1>2, <1>3, <1>4, <1>5 DEF LInv

\* The policy raises: nothing was sent.
LEMMA RaisesKeeps == LInv /\ PolicyRaises => LInv'
<1> SUFFICES ASSUME LInv, PolicyRaises PROVE LInv'
  OBVIOUS
<1>1. /\ Next /\ outcome' # "running" /\ UNCHANGED loopVars
  BY DEF PolicyRaises
<1>2. TInv'
  BY <1>1, TInvNext DEF LInv
<1>3. PICK turn \in NewTurns :
        (\E text \in AnchorTexts : AnchorDrift(turn, text)) \/ SummarizerFails(turn)
  <2>1. ASSUME NEW text \in AnchorTexts, FirstCall(text) PROVE FALSE
    BY <1>1, <2>1 DEF FirstCall
  <2>2. ASSUME NEW turn \in NewTurns, PlainStep(turn) PROVE FALSE
    BY <1>1, <2>2 DEF PlainStep, Receive
  <2>3. ASSUME NEW turn \in NewTurns, NEW size \in SummarySizes, CompactStep(turn, size)
        PROVE  FALSE
    BY <1>1, <2>3 DEF CompactStep, Receive
  <2> QED
    BY <1>1, <2>1, <2>2, <2>3 DEF Next
<1>4. anchor' = anchor /\ frozen' = frozen /\ fired' = fired
  BY <1>3 DEF AnchorDrift, SummarizerFails, Receive
<1>5. LoopTypes' /\ PrevIsCached' /\ PrevIsPrompt' /\ NothingLostYet' /\ EventsInFront'
  <2>1. LoopTypes'
    BY <1>1, Zenon DEF LInv, LoopTypes, loopVars
  <2>2. PrevIsCached' /\ PrevIsPrompt'
    BY <1>1 DEF LInv, PrevIsCached, PrevIsPrompt, loopVars
  <2>3. NothingLostYet'
    BY <1>1, <1>4 DEF LInv, NothingLostYet, AlignedEventsLoseNothing, loopVars
  <2>4. EventsInFront'
    BY <1>1, <1>4 DEF LInv, EventsInFront, MonotonePrefixGrowth, loopVars
  <2> QED
    BY <2>1, <2>2, <2>3, <2>4
<1> QED
  BY <1>2, <1>5 DEF LInv

\* A new policy, on the engine and behind the prompt of the last trajectory.
LEMMA TrajectoryKeeps == LInv /\ NextTrajectory => LInv'
<1> SUFFICES ASSUME LInv, NextTrajectory PROVE LInv'
  OBVIOUS
<1>1. /\ seen' = 0 /\ context' = <<>> /\ anchor' = None /\ frozen' = <<>> /\ live' = <<>>
      /\ firstHash' = None /\ fired' = FALSE /\ outcome' = outcome /\ run' = run + 1
      /\ run < MaxRuns /\ outcome = "running" /\ events' = <<>>
      /\ align' = align /\ prevIds' = prevIds /\ pool' = pool /\ check' = check
      /\ verdict' = verdict
  BY DEF NextTrajectory, FreshPolicy
<1>2. TInv'
  <2>1. fired' \in BOOLEAN
    BY <1>1, Zenon
  <2> QED
    BY <1>1, <2>1, AppendOnlyAssumption, EmptySeq DEF TInv, TypeOK, StartsAtFirstCall
<1>3. LoopTypes'
  <2>1. align' \in BOOLEAN
    BY <1>1, Zenon DEF LInv, LoopTypes
  <2>2. run' \in 1..MaxRuns
    BY <1>1, ReplayAssumption DEF LInv, LoopTypes
  <2> QED
    BY <1>1, <2>1, <2>2 DEF LInv, LoopTypes
<1>4. PrevIsCached' /\ PrevIsPrompt' /\ NothingLostYet'
  BY <1>1 DEF LInv, PrevIsCached, PrevIsPrompt, NothingLostYet, AlignedEventsLoseNothing
<1>5. EventsInFront'
  <2>1. <<>> \in Seq(Nat) /\ Len(<<>>) = 0
    BY EmptySeq
  <2> QED
    BY <1>1, <2>1 DEF EventsInFront, MonotonePrefixGrowth
<1> QED
  BY <1>2, <1>3, <1>4, <1>5 DEF LInv

\* The first trajectory starts on an empty pool.
LEMMA LInvInit == LoopInit => LInv
<1> SUFFICES ASSUME LoopInit PROVE LInv
  OBVIOUS
<1>1. /\ Init /\ align \in BOOLEAN /\ run = 1 /\ prevIds = <<>> /\ pool = <<>>
      /\ check = DivergenceCheck(<<>>, <<>>, 0) /\ events = <<>> /\ verdict = "ok"
  BY DEF LoopInit
<1>2. TInv
  BY <1>1, TInvInit
<1>3. Len(<<>>) = 0 /\ \A S : <<>> \in Seq(S)
  BY EmptySeq
<1>4. FirstDivergence(<<>>, <<>>) = 0
  <2>1. <<>> \in Seq(Nat)
    BY <1>3
  <2>2. FirstDivergence(<<>>, <<>>) \in 0..Len(<<>>)
    BY <2>1, DivergenceIs
  <2> QED
    BY <1>3, <2>2
<1>5. check.divergence = 0 /\ check.cached = 0
  BY <1>1, <1>4 DEF DivergenceCheck
<1>6. LoopTypes
  <2>1. run \in 1..MaxRuns /\ 0 <= MaxModelLen /\ 0 <= Capacity
    BY <1>1, ReplayAssumption, PrefixCacheAssumption
  <2>2. NoTwice(pool)
    BY <1>1, <1>3 DEF NoTwice
  <2> QED
    BY <1>1, <1>3, <1>5, <2>1, <2>2 DEF LoopTypes
<1>7. PrevIsCached
  <2>1. 0 \div BlockSize = 0
    BY PrefixCacheAssumption
  <2> QED
    BY <1>1, <1>3, <2>1 DEF PrevIsCached
<1>8. PrevIsPrompt /\ NothingLostYet /\ EventsInFront
  BY <1>1, <1>3, <1>5 DEF Init, PrevIsPrompt, NothingLostYet, AlignedEventsLoseNothing,
                          EventsInFront, MonotonePrefixGrowth
<1> QED
  BY <1>2, <1>6, <1>7, <1>8 DEF LInv

\* Every step of the loop keeps the invariant.
LEMMA LInvNext == LInv /\ [LoopNext]_<<vars, loopVars>> => LInv'
<1> SUFFICES ASSUME LInv, [LoopNext]_<<vars, loopVars>> PROVE LInv'
  OBVIOUS
<1>1. CASE LoopStep
  BY <1>1, StepKeeps
<1>2. CASE PromptRejected
  BY <1>2, RejectedKeeps
<1>3. CASE PolicyRaises
  BY <1>3, RaisesKeeps
<1>4. CASE NextTrajectory
  BY <1>4, TrajectoryKeeps
<1>5. CASE UNCHANGED <<vars, loopVars>>
  <2>1. UNCHANGED vars /\ UNCHANGED loopVars
    BY <1>5
  <2>2. TInv'
    BY <2>1, TInvNext DEF LInv
  <2>3. LoopTypes' /\ PrevIsCached'
    <3>1. LoopTypes'
      BY <2>1, Zenon DEF LInv, LoopTypes, loopVars
    <3>2. PrevIsCached'
      BY <2>1 DEF LInv, PrevIsCached, loopVars
    <3> QED
      BY <3>1, <3>2
  <2>4. PrevIsPrompt' /\ EventsInFront' /\ NothingLostYet'
    BY <2>1 DEF LInv, PrevIsPrompt, EventsInFront, MonotonePrefixGrowth, NothingLostYet,
                AlignedEventsLoseNothing, vars, loopVars
  <2> QED
    BY <2>2, <2>3, <2>4 DEF LInv
<1> QED
  BY <1>1, <1>2, <1>3, <1>4, <1>5 DEF LoopNext

\* assert_theory_matches (divergence.py:108-112) never fires on its own: the
\* tolerance of one block covers what the summarizer's requests push out, for
\* every block size, pool, padding, sequence of trajectories and turn sizes.
THEOREM NoAlarm == LoopSpec => []NoFalseAlarm
<1>1. LInv => NoFalseAlarm
  BY DEF LInv, LoopTypes, NoFalseAlarm
<1> QED
  BY LInvInit, LInvNext, <1>1, PTL DEF LoopSpec

\* The events of a trajectory diverge further and further back.
THEOREM EventsGrow == LoopSpec => []MonotonePrefixGrowth
<1>1. LInv => MonotonePrefixGrowth
  BY DEF LInv, EventsInFront
<1> QED
  BY LInvInit, LInvNext, <1>1, PTL DEF LoopSpec

\* With aligned segments an event re-prefills nothing in front of its
\* divergence, unless a block is a single token.
THEOREM AlignmentWorks ==
    ASSUME BlockSize > 1
    PROVE  LoopSpec => []AlignedEventsLoseNothing
<1>1. LInv => AlignedEventsLoseNothing
  BY DEF LInv, NothingLostYet
<1> QED
  BY LInvInit, LInvNext, <1>1, PTL DEF LoopSpec
=============================================================================
