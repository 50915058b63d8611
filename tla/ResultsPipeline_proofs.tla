----------------------- MODULE ResultsPipeline_proofs -----------------------
(***************************************************************************)
(* Proofs about the recorder and about the campaign.  The recorder's       *)
(* window over its history only moves forward: for every window, every     *)
(* size of the units and every rounding of the floats.  Whatever           *)
(* run_all.py does behind it, the recorder of the campaign is the          *)
(* recorder: what is proved of it alone holds of the campaign.  And what   *)
(* the campaign leaves behind is of one kind: the n-th runs of the         *)
(* policies agree, and a figure shows what it says it compares.            *)
(***************************************************************************)
EXTENDS ResultsPipeline, SharedLemmas, FiniteSetTheorems
LOCAL INSTANCE SequencesExt

\* A refusal is of more than the window, so the quotient is at most k.
LEMMA QuotientBound ==
    ASSUME NEW k \in Nat, NEW w \in Nat, NEW r \in Nat, r > w
    PROVE  (k * w) \div r \in Nat /\ (k * w) \div r <= k
<1> DEFINE x == k * w
           q == x \div r
<1>1. x \in Nat /\ k * r \in Nat /\ r \in Nat \ {0}
  OBVIOUS
<1>2. x <= k * r
  OBVIOUS
<1>3. q \in Nat /\ q * r <= x
  BY <1>1
<1>4. q <= k
  BY <1>1, <1>2, <1>3
<1> QED
  BY <1>3, <1>4

\* While a file is recorded: units are running totals, and the window has not
\* moved back.
RInv ==
    recorder = "recording" =>
        /\ units \in Seq(Nat)
        /\ keepN \in Nat
        /\ lastOldest \in Int /\ Oldest >= lastOldest

\* How many units are sent, and how many tokens that is.
LEMMA RequestTypes ==
    ASSUME units \in Seq(Nat), keepN \in Nat
    PROVE  /\ Len(units) \in Nat /\ Kept \in Nat /\ Kept <= keepN /\ Kept <= Len(units)
           /\ Oldest = Len(units) - Kept + 1
           /\ UpTo(Len(units)) \in Nat
           /\ Requested \in Int
<1> DEFINE n == Len(units)
<1>1. n \in Nat
  BY LenProperties
<1>2. Kept \in Nat /\ Kept <= keepN /\ Kept <= n
  BY <1>1 DEF Kept, Least
<1>3. Oldest = n - Kept + 1
  BY DEF Oldest
<1>4. ASSUME NEW k \in 0..n PROVE UpTo(k) \in Nat
  <2>1. CASE k = 0
    BY <2>1 DEF UpTo
  <2>2. CASE k # 0
    <3>1. k \in 1..n
      BY <1>1, <2>2
    <3>2. units[k] \in Nat
      BY <3>1, ElementOfSeq
    <3> QED
      BY <2>2, <3>2 DEF UpTo
  <2> QED
    BY <2>1, <2>2
<1>5. n \in 0..n /\ n - Kept \in 0..n /\ Oldest - 1 = n - Kept
  BY <1>1, <1>2, <1>3
<1>6. UpTo(n) \in Nat /\ UpTo(Oldest - 1) \in Nat
  BY <1>4, <1>5, Zenon
<1>7. Requested \in Int
  BY <1>6, RecorderAssumption DEF Requested
<1> QED
  BY <1>1, <1>2, <1>3, <1>6, <1>7

\* A refused request is followed by one that starts no earlier: whatever the
\* rounding, keep_n shrinks and stays at least one.
LEMMA ShrinkShrinks ==
    ASSUME units \in Seq(Nat), keepN \in Nat, Requested > Window, Kept > 1, NEW m \in Shrunk
    PROVE  m \in Nat /\ m <= Kept
<1>1. Kept \in Nat /\ Requested \in Int /\ Window \in Nat
  BY RequestTypes, RecorderAssumption
<1>2. Requested \in Nat
  BY <1>1
<1> DEFINE exact == (Kept * Window) \div Requested
<1>3. exact \in Nat /\ exact <= Kept
  BY <1>1, <1>2, QuotientBound
<1>4. \E q \in {exact, exact - 1} : m = Greatest(1, q - 1)
  BY Zenon DEF Shrunk
<1> HIDE DEF exact
<1>5. PICK q \in {exact, exact - 1} : m = Greatest(1, q - 1)
  BY <1>4
<1>6. q \in Int /\ q <= Kept
  BY <1>1, <1>3
<1> QED
  BY <1>1, <1>5, <1>6 DEF Greatest

\* The answered request's window and the next one's begin at the same unit.
LEMMA AnsweredKeeps ==
    ASSUME RInv, NEW size \in Nat, NEW lines, Answered(size, lines)
    PROVE  RInv'
<1>1. /\ recorder = "recording" /\ units' = Append(units, UpTo(Len(units)) + size)
      /\ keepN' = Kept + 1 /\ lastOldest' = Oldest
  BY DEF Answered, Remembered
<1>2. units \in Seq(Nat) /\ keepN \in Nat
  BY <1>1 DEF RInv
<1>3. /\ Len(units) \in Nat /\ Kept \in Nat /\ Kept <= Len(units)
      /\ Oldest = Len(units) - Kept + 1 /\ UpTo(Len(units)) \in Nat
  BY <1>2, RequestTypes
<1> DEFINE x == UpTo(Len(units)) + size
           k == Kept
<1>4. x \in Nat
  BY <1>3
<1> HIDE DEF x, k
<1>5. units' \in Seq(Nat) /\ Len(units') = Len(units) + 1
  BY <1>1, <1>2, <1>4, AppendProperties DEF x
<1>6. k \in Nat /\ k <= Len(units) /\ keepN' = k + 1 /\ lastOldest' = Len(units) - k + 1
  BY <1>1, <1>3, Zenon DEF k
<1>7. Kept' = k + 1
  <2>1. Kept' = IF keepN' < Len(units') THEN keepN' ELSE Len(units')
    BY Zenon DEF Kept, Least
  <2> QED
    BY <1>3, <1>5, <1>6, <2>1
<1>8. Oldest' = Len(units') - Kept' + 1
  BY Zenon DEF Oldest
<1>9. Oldest' = Len(units) - k + 1
  BY <1>3, <1>5, <1>6, <1>7, <1>8
<1> QED
  BY <1>3, <1>5, <1>6, <1>9 DEF RInv

\* Every step of the recorder keeps the invariant.
LEMMA RInvNext ==
    ASSUME RInv, [RecorderNext]_recorderVars
    PROVE  RInv'
<1>1. CASE StartBatch \/ SkipRecorded \/ BatchDone
  BY <1>1 DEF StartBatch, SkipRecorded, BatchDone, RInv
<1>2. CASE OpenFile
  <2>1. units' = <<>> /\ keepN' = 10000 /\ lastOldest' = 1
    BY <1>2 DEF OpenFile, EffectivelyAll
  <2>2. units' \in Seq(Nat) /\ Len(units') = 0
    BY <2>1
  <2>3. Kept' = 0
    BY <2>1, <2>2 DEF Kept, Least
  <2>4. Oldest' = 1
    <3>1. Oldest' = Len(units') - Kept' + 1
      BY Zenon DEF Oldest
    <3> QED
      BY <2>2, <2>3, <3>1
  <2> QED
    BY <2>1, <2>2, <2>4 DEF RInv
<1>3. CASE TooLong
  <2>1. /\ recorder = "recording" /\ Requested > Window /\ Kept > 1 /\ keepN' \in Shrunk
        /\ units' = units /\ lastOldest' = lastOldest
    BY <1>3 DEF TooLong
  <2>2. units \in Seq(Nat) /\ keepN \in Nat /\ lastOldest \in Int /\ Oldest >= lastOldest
    BY <2>1 DEF RInv
  <2>3. keepN' \in Nat /\ keepN' <= Kept
    BY <2>1, <2>2, ShrinkShrinks
  <2>4. Len(units) \in Nat /\ Kept \in Nat /\ Kept <= Len(units) /\ Oldest = Len(units) - Kept + 1
    BY <2>2, RequestTypes
  <2>5. Kept' = keepN'
    BY <2>1, <2>3, <2>4 DEF Kept, Least
  <2>6. Oldest' = Len(units) - keepN' + 1
    BY <2>1, <2>5, Zenon DEF Oldest
  <2>7. Oldest' >= lastOldest
    BY <2>2, <2>3, <2>4, <2>6
  <2> QED
    BY <2>1, <2>2, <2>3, <2>7 DEF RInv
<1>4. CASE StepGoesOn
  <2>1. PICK size \in UnitSizes : Answered(size, 2) \/ Answered(size, 3)
    BY <1>4, Zenon DEF StepGoesOn
  <2>2. size \in Nat
    BY RecorderAssumption
  <2> QED
    BY <2>1, <2>2, AnsweredKeeps
<1>5. CASE LastStep \/ SingleUnitTooLong \/ Raises \/ Killed
  <2>1. recorder' = "off" \/ recorder' = "batch"
    BY <1>5, Zenon DEF LastStep, SingleUnitTooLong, Raises, Killed, Close
  <2> QED
    BY <2>1 DEF RInv
<1>6. CASE UNCHANGED recorderVars
  BY <1>6, Zenon DEF recorderVars, RInv, Oldest, Kept, Least
<1> QED
  BY <1>1, <1>2, <1>3, <1>4, <1>5, <1>6, Zenon DEF RecorderNext

\* record_trajectories.py:261-263: a unit that was once left out of a request is
\* never sent again, however the sizes of the units and the refusals fall.
THEOREM WindowMovesForward == RecorderSpec => []WindowOnlyMovesForward
<1>1. RecorderInit => RInv
  BY DEF RecorderInit, RInv
<1>2. RInv => WindowOnlyMovesForward
  BY DEF RInv, WindowOnlyMovesForward
<1> QED
  BY <1>1, <1>2, RInvNext, PTL DEF RecorderSpec
-----------------------------------------------------------------------------

\* run_all.py and the sweeps read trajectories/ and never write it: every step
\* of the campaign is the recorder's or leaves all that the recorder keeps alone.
THEOREM CampaignRecords == CampaignSpec => RecorderSpec
<1>1. CampaignInit => RecorderInit
  BY DEF CampaignInit
<1>2. [CampaignNext]_<<recorderVars, pipelineVars>> => [RecorderNext]_recorderVars
  BY Zenon DEF CampaignNext
<1> QED
  BY <1>1, <1>2, PTL DEF CampaignSpec, RecorderSpec

\* record_trajectories.py:261-263, for the whole campaign: a unit that was once
\* left out of a request is never sent again.
THEOREM CampaignWindowMovesForward == CampaignSpec => []WindowOnlyMovesForward
  BY CampaignRecords, WindowMovesForward, PTL
-----------------------------------------------------------------------------
\* Where run_all.py's list has the steps that read what others wrote, and those.
LEMMA StepsAre ==
    /\ DOMAIN STEPS = 1..15 /\ Len(STEPS) = 15
    /\ \A k \in 1..15 :
        /\ STEPS[k] = "phase3_probes" <=> k = 5
        /\ STEPS[k] = "phase4_pareto_cost" <=> k = 10
        /\ STEPS[k] = "phase4_pareto_success" <=> k = 11
        /\ STEPS[k] = "phase4_pareto_plot" <=> k = 12
        /\ STEPS[k] = "demo_deck" <=> k = 14
        /\ STEPS[k] = "cost_model_report" <=> k = 15
        /\ STEPS[k] \in Sweeps => k \in {2, 3, 7, 9, 10}
<1>1. DOMAIN STEPS = 1..15 /\ Len(STEPS) = 15
  BY DEF STEPS
<1>2. ASSUME NEW k \in 1..15
      PROVE  /\ STEPS[k] = "phase3_probes" <=> k = 5
             /\ STEPS[k] = "phase4_pareto_cost" <=> k = 10
             /\ STEPS[k] = "phase4_pareto_success" <=> k = 11
             /\ STEPS[k] = "phase4_pareto_plot" <=> k = 12
             /\ STEPS[k] = "demo_deck" <=> k = 14
             /\ STEPS[k] = "cost_model_report" <=> k = 15
             /\ STEPS[k] \in Sweeps => k \in {2, 3, 7, 9, 10}
  BY DEF STEPS, Sweeps
<1> QED
  BY <1>1, <1>2

\* What the steps from k on rely on: the scripts without a server read the rows
\* of the cost sweep, the plot some episodes, the deck the plot.
Reached(k) ==
    /\ k > 10 => paretoFile # <<>>
    /\ k > 11 => "success" \in derived
    /\ k > 12 => "phase4_pareto.png" \in derived

\* The step that runs, or would if the invocation were resumed.
Position == IF at = 0 THEN resumeAt ELSE at

\* The cost sweep has something to replay, and rows of what it has replayed.
SweepHolds ==
    /\ plan \in Seq(ToSet(plan)) /\ plan # <<>>
    /\ results \in Seq(ToSet(results)) /\ rows \in Seq(ToSet(rows))
    /\ results # <<>> => rows # <<>>

\* As long as nobody picked a step: it is where it is because the steps before
\* it are done, at scale never behind the one that fails then, and has missed
\* nothing.
OnItsWay ==
    /\ ~lacking /\ at \in 0..15 /\ resumeAt \in 1..15
    /\ Reached(Position)
    /\ scaled => Position <= 5
    /\ at # 0 => upTo = 15
    /\ at = 12 => stage = "start"
    /\ at = 10 /\ stage = "replay" => SweepHolds
    /\ at = 10 /\ stage = "draw" => paretoFile # <<>>

PInv == picked \in BOOLEAN /\ (~picked => OnItsWay)

\* A sequence is one of its own elements.
LEMMA SeqOfItself ==
    ASSUME NEW S, NEW s \in Seq(S)
    PROVE  s \in Seq(ToSet(s))
<1>1. Len(s) \in Nat /\ s \in [1..Len(s) -> S] /\ DOMAIN s = 1..Len(s)
  BY LenProperties
<1>2. \A k \in 1..Len(s) : s[k] \in ToSet(s)
  BY <1>1, Zenon DEF ToSet
<1>3. s \in [1..Len(s) -> ToSet(s)]
  BY <1>1, <1>2
<1> QED
  BY <1>1, <1>3, SeqDef

\* The order of a sweep that has trajectories and policies is not empty.
LEMMA RotatingIs ==
    ASSUME NEW policies, NEW ts, Len(policies) \in Nat \ {0}, Len(ts) \in Nat \ {0}
    PROVE  LET order == Rotating(policies, ts) IN order \in Seq(ToSet(order)) /\ order # <<>>
<1> DEFINE order == Rotating(policies, ts)
           m == Len(ts) * Len(policies)
<1>1. m \in Nat \ {0}
  OBVIOUS
<1> HIDE DEF m
<1>2. order = [n \in 1..m |-> order[n]] /\ DOMAIN order = 1..m
  BY Zenon DEF Rotating, m
<1> HIDE DEF order
<1>3. \A n \in 1..m : order[n] \in ToSet(order)
  BY <1>2, Zenon DEF ToSet
<1>4. order \in [1..m -> ToSet(order)]
  BY <1>2, <1>3, Zenon
<1>5. order \in Seq(ToSet(order))
  BY <1>1, <1>4, SeqDef
<1>6. order # <<>>
  <2>1. 1 \in DOMAIN order
    BY <1>1, <1>2
  <2> QED
    BY <2>1
<1> QED
  BY <1>5, <1>6 DEF order

\* What a sweep selects is a list of trajectories.
LEMMA SelectedIs ==
    ASSUME NEW name
    PROVE  /\ Len(Selected(name)) \in Nat
           /\ Selected(name) # <<>> => Len(Selected(name)) \in Nat \ {0}
<1> DEFINE F == ToSet(Trajectories) \cup {SmokeTest}
           all == <<SmokeTest>> \o Trajectories
<1>1. all \in Seq(F)
  <2>1. Trajectories \in Seq(F)
    BY RecorderAssumption, SeqMonotonic
  <2>2. <<SmokeTest>> \in Seq(F)
    OBVIOUS
  <2> QED
    BY <2>1, <2>2, ConcatProperties
<1> HIDE DEF all, F
<1>2. Listed \in Seq(F)
  BY <1>1, FilterKeeps DEF Listed, all
<1>3. Selected(name) \in Seq(F)
  <2>1. \A T : Filter(Listed, T) \in Seq(F)
    BY <1>2, FilterKeeps
  <2>2. \E T : Selected(name) = Filter(Listed, T)
    BY Zenon DEF Selected
  <2> QED
    BY <2>1, <2>2
<1> QED
  BY <1>3, LenProperties, EmptySeq

\* The cost sweep starts with something to replay.
LEMMA ParetoStartHolds ==
    ASSUME StartPareto
    PROVE  SweepHolds'
<1>1. /\ plan' = Rotating(ParetoPolicies, Selected("phase4_pareto_cost"))
      /\ Selected("phase4_pareto_cost") # <<>> /\ results' = <<>> /\ rows' = <<>>
  BY DEF StartPareto, Start, CanLoad
<1>2. Len(Selected("phase4_pareto_cost")) \in Nat \ {0}
  BY <1>1, SelectedIs
<1>3. Len(ParetoPolicies) \in Nat \ {0}
  BY DEF ParetoPolicies
<1>4. plan' \in Seq(ToSet(plan')) /\ plan' # <<>>
  BY <1>1, <1>2, <1>3, RotatingIs
<1>5. results' \in Seq(ToSet(results')) /\ rows' \in Seq(ToSet(rows'))
  BY <1>1, EmptySeq
<1> QED
  BY <1>1, <1>4, <1>5 DEF SweepHolds

\* A replay adds rows and a result.
LEMMA ReplayHolds ==
    ASSUME SweepHolds, ReplayPareto
    PROVE  SweepHolds'
<1>1. PICK n \in 1..Limit : Record(n, {}, NSteps(n))
  BY DEF ReplayPareto
<1> DEFINE run == plan[Len(results) + 1]
           more == [k \in 1..n |-> [trajectory |-> run[1], policy |-> run[2], step |-> k - 1,
                                    fired |-> k - 1 \in {}]]
           U == ToSet(rows) \cup { more[k] : k \in 1..n }
           one == [trajectory |-> run[1], policy |-> run[2], steps |-> NSteps(n),
                   events |-> Cardinality({})]
<1>2. rows' = rows \o more /\ results' = Append(results, one) /\ plan' = plan
  BY <1>1, Zenon DEF Record
<1>3. n \in Nat \ {0}
  BY <1>1
<1>4. more \in Seq(U) /\ Len(more) = n
  <2>1. more \in [1..n -> U]
    OBVIOUS
  <2> HIDE DEF more, U
  <2>2. more \in Seq(U)
    BY <1>3, <2>1, SeqDef
  <2> QED
    BY <1>3, <2>1, <2>2, LenProperties
<1>5. rows \in Seq(U)
  BY SeqMonotonic DEF SweepHolds
<1> HIDE DEF more, U, one
<1>6. rows' \in Seq(U) /\ Len(rows') = Len(rows) + n /\ Len(rows) \in Nat
  BY <1>2, <1>4, <1>5, ConcatProperties, LenProperties
<1>7. rows' \in Seq(ToSet(rows')) /\ rows' # <<>>
  <2>1. Len(rows') # 0
    BY <1>3, <1>6
  <2>2. rows' # <<>>
    BY <2>1, EmptySeq
  <2> QED
    BY <1>6, <2>2, SeqOfItself
<1>8. results' \in Seq(ToSet(results'))
  <2>1. results' \in Seq(ToSet(results) \cup {one})
    <3> DEFINE V == ToSet(results) \cup {one}
    <3>1. results \in Seq(ToSet(results)) /\ ToSet(results) \subseteq V /\ one \in V
      BY DEF SweepHolds
    <3> HIDE DEF V
    <3>2. results \in Seq(V)
      BY <3>1, SeqMonotonic
    <3>3. Append(results, one) \in Seq(V)
      BY <3>1, <3>2, AppendProperties
    <3> QED
      BY <1>2, <3>3 DEF V
  <2> QED
    BY <2>1, SeqOfItself
<1> QED
  BY <1>2, <1>7, <1>8 DEF SweepHolds

\* A step that ends well takes run_all.py to the next one, which finds what it
\* relies on if this one has added it.
LEMMA AdvanceReaches ==
    ASSUME OnItsWay, at # 0, Advance, lacking' = lacking,
           paretoFile' = paretoFile, derived \subseteq derived',
           at = 10 => paretoFile # <<>>,
           at = 11 => "success" \in derived',
           at = 12 => "phase4_pareto.png" \in derived',
           scaled => at # 5
    PROVE  OnItsWay'
<1>1. /\ at \in 1..15 /\ Position = at /\ upTo = 15 /\ Reached(at)
      /\ scaled => at <= 5
      /\ ~lacking /\ resumeAt \in 1..15
  <2>1. Position = at
    BY DEF Position
  <2> QED
    BY <2>1 DEF OnItsWay
<1>2. /\ at' = IF at = 15 THEN 0 ELSE at + 1
      /\ resumeAt' = IF at = 15 THEN 1 ELSE resumeAt
      /\ stage' = "start" /\ upTo' = 15
  BY <1>1 DEF Advance
<1>3. scaled' = scaled /\ ~lacking'
  BY <1>1, Zenon DEF Advance
<1>4. CASE at = 15
  <2>1. at' = 0 /\ resumeAt' = 1 /\ stage' = "start"
    BY <1>2, <1>4
  <2>2. Position' = 1
    BY <2>1 DEF Position
  <2> QED
    BY <1>3, <2>1, <2>2 DEF OnItsWay, Reached
<1>5. CASE at # 15
  <2>1. at' = at + 1 /\ at' \in 1..15 /\ at' # 0 /\ resumeAt' \in 1..15 /\ Position' = at'
    BY <1>1, <1>2, <1>5 DEF Position
  <2>2. /\ at + 1 > 10 => paretoFile' # <<>>
        /\ at + 1 > 11 => "success" \in derived'
        /\ at + 1 > 12 => "phase4_pareto.png" \in derived'
    <3>1. /\ at > 10 => paretoFile # <<>>
          /\ at > 11 => "success" \in derived
          /\ at > 12 => "phase4_pareto.png" \in derived
      BY <1>1 DEF Reached
    <3> QED
      BY <1>1, <3>1
  <2>3. Reached(Position)'
    BY <2>1, <2>2 DEF Reached
  <2>4. scaled' => Position' <= 5
    BY <1>1, <1>3, <2>1
  <2> QED
    BY <1>2, <1>3, <2>1, <2>3, <2>4 DEF OnItsWay
<1> QED
  BY <1>4, <1>5

\* A step that fails is the one to resume from: nothing that was there is lost.
LEMMA ExitStays ==
    ASSUME OnItsWay, Exit, lacking' = lacking
    PROVE  OnItsWay'
<1>1. /\ at # 0 /\ at' = 0 /\ resumeAt' = at /\ scaled' = scaled
      /\ paretoFile' = paretoFile /\ derived' = derived
  BY DEF Exit, Lost
<1>2. Position' = Position
  BY <1>1 DEF Position
<1> QED
  BY <1>1, <1>2 DEF OnItsWay, Reached

\* An invocation that skips nothing begins at the first step, or where the last
\* one failed, at the same scale.
LEMMA InvokeStays ==
    ASSUME OnItsWay, Invoke, ~picked'
    PROVE  OnItsWay'
<1>1. PICK k \in DOMAIN STEPS, only \in BOOLEAN, small \in BOOLEAN :
        /\ at' = k /\ scaled' = small
        /\ upTo' = IF only THEN k ELSE Len(STEPS)
        /\ picked' = (picked \/ only \/ (k # 1 /\ ~(k = resumeAt /\ small = scaled)))
  BY DEF Invoke
<1>2. ~only /\ (k = 1 \/ (k = resumeAt /\ small = scaled))
  BY <1>1, Zenon
<1>3. k \in 1..15 /\ upTo' = 15
  BY <1>1, <1>2, StepsAre
<1>4. /\ at = 0 /\ stage' = "start" /\ lacking' = lacking /\ resumeAt' = resumeAt
      /\ paretoFile' = paretoFile /\ derived' = derived
  BY DEF Invoke
<1>5. Position = resumeAt /\ Position' = k
  BY <1>1, <1>3, <1>4 DEF Position
<1>6. Reached(Position)'
  BY <1>2, <1>4, <1>5 DEF OnItsWay, Reached
<1>7. scaled' => Position' <= 5
  <2>1. CASE k = 1
    BY <1>5, <2>1
  <2>2. CASE k = resumeAt /\ small = scaled
    <3>1. scaled' = scaled
      BY <1>1, <2>2, Zenon
    <3>2. scaled => k <= 5
      BY <1>5, <2>2 DEF OnItsWay
    <3> QED
      BY <1>5, <3>1, <3>2
  <2> QED
    BY <1>2, <2>1, <2>2
<1> QED
  BY <1>1, <1>3, <1>4, <1>6, <1>7 DEF OnItsWay

\* Steps that stay where they are and leave what was written alone.
LEMMA WorkStays ==
    ASSUME OnItsWay, at # 0, at # 12, UNCHANGED <<at, upTo, scaled, derived, resumeAt, lacking>>,
           paretoFile # <<>> => paretoFile' # <<>>,
           at = 10 /\ stage' = "replay" => SweepHolds',
           at = 10 /\ stage' = "draw" => paretoFile' # <<>>
    PROVE  OnItsWay'
<1>1. Position' = Position
  BY DEF Position
<1> QED
  BY <1>1 DEF OnItsWay, Reached

\* Every step of run_all.py and of the scripts it runs.
LEMMA PipelineStays ==
    ASSUME OnItsWay, PipelineNext, ~picked'
    PROVE  OnItsWay'
<1>1. at # 0 => at \in 1..15
  BY DEF OnItsWay
<1>2. CASE Invoke
  BY <1>2, InvokeStays
<1>3. CASE CannotStart \/ StepFails
  BY <1>3, ExitStays DEF CannotStart, StepFails
<1>4. CASE StartCliff \/ StartLayout \/ StartKvEvict \/ StartHybrid
  <2>1. PICK name \in {"phase1_cliff", "phase2_layout", "phase4_kv_evict", "phase4_hybrid"} :
            \E order : Start(name, order)
    BY <1>4, Zenon DEF StartCliff, StartLayout, StartKvEvict, StartHybrid
  <2>2. /\ at # 0 /\ STEPS[at] = name /\ stage' = "replay"
        /\ UNCHANGED <<at, upTo, scaled, paretoFile, derived, resumeAt, lacking>>
    BY <2>1 DEF Start, Running
  <2>3. at # 10 /\ at # 12
    BY <1>1, <2>1, <2>2, StepsAre
  <2> QED
    BY <2>2, <2>3, WorkStays
<1>5. CASE StartPareto
  <2>1. /\ at # 0 /\ stage' = "replay"
        /\ UNCHANGED <<at, upTo, scaled, paretoFile, derived, resumeAt, lacking>>
    BY <1>5 DEF StartPareto, Start, Running
  <2>2. at # 12
    BY <1>1, <1>5, <2>1, StepsAre DEF StartPareto, Start, Running
  <2> QED
    BY <1>5, <2>1, <2>2, ParetoStartHolds, WorkStays
<1>6. CASE ReplayCliff \/ ReplayLayout \/ ReplayKvEvict \/ ReplayHybrid
  <2>1. PICK name \in {"phase1_cliff", "phase2_layout", "phase4_kv_evict", "phase4_hybrid"} :
            Replaying(name) /\ \E n, fired, nSteps : Record(n, fired, nSteps)
    BY <1>6, Zenon DEF ReplayCliff, ReplayLayout, ReplayKvEvict, ReplayHybrid
  <2>2. /\ at # 0 /\ STEPS[at] = name /\ stage' = "replay"
        /\ UNCHANGED <<at, upTo, scaled, paretoFile, derived, resumeAt, lacking>>
    BY <2>1 DEF Record, Replaying, Running
  <2>3. at # 10 /\ at # 12
    BY <1>1, <2>1, <2>2, StepsAre
  <2> QED
    BY <2>2, <2>3, WorkStays
<1>7. CASE ReplayPareto
  <2>1. /\ at # 0 /\ STEPS[at] = "phase4_pareto_cost" /\ stage = "replay" /\ stage' = stage
        /\ UNCHANGED <<at, upTo, scaled, paretoFile, derived, resumeAt, lacking>>
    BY <1>7 DEF ReplayPareto, Record, Replaying, Running
  <2>2. at = 10
    BY <1>1, <2>1, StepsAre
  <2>3. SweepHolds
    BY <2>1, <2>2 DEF OnItsWay
  <2>4. SweepHolds' /\ stage' # "draw" /\ (paretoFile # <<>> => paretoFile' # <<>>)
    BY <1>7, <2>1, <2>3, ReplayHolds
  <2> QED
    BY <2>1, <2>2, <2>4, WorkStays
<1>8. CASE Flush
  <2>1. /\ stage = "replay" /\ stage' = "draw" /\ Len(results) = Len(plan)
        /\ UNCHANGED <<at, upTo, scaled, derived, resumeAt, lacking>>
    BY <1>8 DEF Flush
  <2>2. at # 12
    BY <2>1 DEF OnItsWay
  <2>3. CASE at = 10
    <3>1. SweepHolds
      BY <2>1, <2>3 DEF OnItsWay
    <3>2. rows # <<>>
      BY <2>1, <3>1, EmptySeq DEF SweepHolds
    <3>3. paretoFile' = paretoFile \o rows
      BY <1>8, <2>3, StepsAre DEF Flush, Running
    <3>4. paretoFile' # <<>>
      BY <3>1, <3>2, <3>3 DEF SweepHolds
    <3> QED
      BY <2>1, <2>3, <3>4, WorkStays
  <2>4. CASE at # 10
    <3>1. paretoFile' = paretoFile
      BY <1>1, <1>8, <2>4, StepsAre DEF Flush, Running
    <3>2. CASE at = 0
      BY <2>1, <3>1, <3>2 DEF OnItsWay, Position, Reached
    <3> QED
      BY <2>1, <2>2, <2>4, <3>1, <3>2, WorkStays
  <2> QED
    BY <2>3, <2>4
<1>9. CASE DrawCliff \/ DrawComparison
  <2>1. /\ at # 0 /\ STEPS[at] \in Sweeps /\ stage = "draw" /\ Advance
        /\ UNCHANGED <<paretoFile, derived, lacking>>
    BY <1>9 DEF DrawCliff, DrawComparison, Draw, Sweeps
  <2>2. at \in {2, 3, 7, 9, 10}
    BY <1>1, <2>1, StepsAre
  <2>3. at = 10 => paretoFile # <<>>
    BY <2>1 DEF OnItsWay
  <2> QED
    BY <2>1, <2>2, <2>3, AdvanceReaches
<1>10. CASE Measure
  <2>1. /\ at # 0 /\ stage' = "replay"
        /\ UNCHANGED <<at, upTo, scaled, paretoFile, derived, resumeAt, lacking>>
        /\ STEPS[at] \notin {"phase4_pareto_cost", "phase4_pareto_plot"}
    BY <1>10 DEF Measure, Running, Probing
  <2>2. at # 10 /\ at # 12
    BY <1>1, <2>1, StepsAre
  <2> QED
    BY <2>1, <2>2, WorkStays
<1>11. CASE Measured
  <2>1. /\ at # 0 /\ STEPS[at] \notin Sweeps /\ stage = "replay" /\ Advance
        /\ ~(STEPS[at] = "phase3_probes" /\ scaled)
        /\ UNCHANGED <<paretoFile, lacking>>
        /\ derived' = IF STEPS[at] = "phase4_pareto_success" /\ ~scaled
                      THEN derived \cup {"success"} ELSE derived
    BY <1>11 DEF Measured, Running
  <2>2. at # 10 /\ (scaled => at # 5) /\ (STEPS[at] = "phase4_pareto_success" <=> at = 11)
    <3>1. STEPS[at] # "phase4_pareto_cost"
      BY <2>1 DEF Sweeps
    <3> QED
      BY <1>1, <2>1, <3>1, StepsAre
  <2>3. at = 11 => ~scaled
    BY DEF OnItsWay, Position
  <2>4. derived \subseteq derived' /\ (at = 11 => "success" \in derived')
    BY <2>1, <2>2, <2>3
  <2>5. at # 12
    BY <2>1 DEF OnItsWay
  <2> QED
    BY <2>1, <2>2, <2>4, <2>5, AdvanceReaches
<1>12. CASE PlotPareto \/ BuildDeck \/ ReportCosts
  <2>1. PICK name \in {"phase4_pareto_plot", "demo_deck", "cost_model_report"} :
            /\ PostProcess(name) /\ derived \subseteq derived'
            /\ name = "phase4_pareto_plot" => "phase4_pareto.png" \in derived'
    BY <1>12, Zenon DEF PlotPareto, BuildDeck, ReportCosts
  <2>2. at # 0 /\ STEPS[at] = name /\ Advance /\ UNCHANGED <<paretoFile, lacking>>
    BY <2>1 DEF PostProcess, Running
  <2>3. at \in {12, 14, 15} /\ (at = 12 <=> name = "phase4_pareto_plot")
    BY <1>1, <2>1, <2>2, StepsAre
  <2> QED
    BY <2>1, <2>2, <2>3, AdvanceReaches
<1>13. CASE InputMissing
  <2>1. /\ at # 0 /\ STEPS[at] \in {"phase4_pareto_plot", "demo_deck", "cost_model_report"}
        /\ ~Has(STEPS[at])
    BY <1>13 DEF InputMissing
  <2>2. at \in {12, 14, 15} /\ Reached(at)
    BY <1>1, <2>1, StepsAre DEF OnItsWay, Position
  <2>3. /\ STEPS[at] = "phase4_pareto_plot" <=> at = 12
        /\ STEPS[at] = "demo_deck" <=> at = 14
    BY <1>1, <2>1, StepsAre
  <2>4. Has(STEPS[at])
    BY <2>2, <2>3 DEF Has, Reached
  <2> QED
    BY <2>1, <2>4
<1> QED
  BY <1>2, <1>3, <1>4, <1>5, <1>6, <1>7, <1>8, <1>9, <1>10, <1>11, <1>12, <1>13 DEF PipelineNext

\* run_all.py:225, :241 and :247, the notes on what its post-processing steps
\* depend on: for any trajectories, policies that outgrow the window and number
\* of failures and resumptions, only a step that was picked by hand lacks its
\* inputs.
THEOREM StepsFindTheirInputs == CampaignSpec => []InputsExist
<1>1. CampaignInit => PInv
  <2> SUFFICES ASSUME CampaignInit PROVE PInv
    OBVIOUS
  <2>1. at = 0 /\ resumeAt = 1 /\ ~lacking /\ ~scaled /\ picked = FALSE
    BY Zenon DEF CampaignInit, PipelineInit
  <2>2. Position = 1
    BY <2>1 DEF Position
  <2>3. OnItsWay
    BY <2>1, <2>2 DEF OnItsWay, Reached
  <2> QED
    BY <2>1, <2>3, Zenon DEF PInv
<1>2. PInv /\ [CampaignNext]_<<recorderVars, pipelineVars>> => PInv'
  <2> SUFFICES ASSUME PInv, [CampaignNext]_<<recorderVars, pipelineVars>> PROVE PInv'
    OBVIOUS
  <2>1. CASE PipelineNext
    <3>1. picked' \in BOOLEAN /\ (~picked' => ~picked)
      <4>1. CASE Invoke
        <5>1. PICK k \in DOMAIN STEPS, only \in BOOLEAN, small \in BOOLEAN :
                picked' = (picked \/ only \/ (k # 1 /\ ~(k = resumeAt /\ small = scaled)))
          BY <4>1 DEF Invoke
        <5> QED
          BY <5>1, Zenon
      <4>2. CASE ~Invoke
        <5>1. picked' = picked
          BY <2>1, <4>2, Zenon DEF PipelineNext, CannotStart, StepFails, Exit, StartCliff,
             StartLayout, StartKvEvict, StartHybrid, StartPareto, Start, ReplayCliff, ReplayLayout,
             ReplayKvEvict, ReplayHybrid, ReplayPareto, Record, Flush, DrawCliff, DrawComparison,
             Draw, Advance, Measure, Measured, PlotPareto, BuildDeck, ReportCosts, PostProcess,
             InputMissing
        <5> QED
          BY <5>1 DEF PInv
      <4> QED
        BY <4>1, <4>2
    <3> QED
      BY <2>1, <3>1, PipelineStays DEF PInv
  <2>2. CASE UNCHANGED pipelineVars
    BY <2>2 DEF pipelineVars, PInv, OnItsWay, Position, Reached, SweepHolds
  <2> QED
    BY <2>1, <2>2, Zenon DEF CampaignNext
<1>3. PInv => InputsExist
  BY DEF PInv, OnItsWay, InputsExist
<1> QED
  BY <1>1, <1>2, <1>3, PTL DEF CampaignSpec
-----------------------------------------------------------------------------
\* What the rows and the results of a campaign are made of.
Files == ToSet(Trajectories) \cup {SmokeTest}
Policies == {"naive", "append_only", "kv_evict", "hybrid", "none"}
Row == [trajectory : Files, policy : Policies, step : Nat, fired : BOOLEAN]
Result == [trajectory : Files, policy : Policies, steps : Nat, events : Nat]

\* Those of a policy, of a trajectory, and the steps that fired.
WithPolicy(S, p) == { r \in S : r.policy = p }
WithTrajectory(S, t) == { r \in S : r.trajectory = t }
WithEvent(S) == { r \in S : r.fired }

\* The conditions of the three ways to look at a frame, for all that could be in it.
LEMMA FramesAre ==
    ASSUME NEW S, NEW s \in Seq(S)
    PROVE  /\ \A p : OfPolicy(s, p) = Filter(s, WithPolicy(S, p))
           /\ \A t : OfTrajectory(s, t) = Filter(s, WithTrajectory(S, t))
           /\ Fired(s) = Filter(s, WithEvent(S))
<1>1. \A n \in 1..Len(s) : s[n] \in S /\ s[n] \in ToSet(s)
  BY ElementOfSeq, SeqOfItself
<1>2. \A p : OfPolicy(s, p) = Filter(s, WithPolicy(S, p))
  <2> TAKE p
  <2>1. \A n \in 1..Len(s) :
            s[n] \in { r \in ToSet(s) : r.policy = p } <=> s[n] \in WithPolicy(S, p)
    BY <1>1 DEF WithPolicy
  <2> QED
    BY <2>1, FilterSame, Zenon DEF OfPolicy
<1>3. \A t : OfTrajectory(s, t) = Filter(s, WithTrajectory(S, t))
  <2> TAKE t
  <2>1. \A n \in 1..Len(s) : s[n] \in { r \in ToSet(s) : r.trajectory = t }
                                <=> s[n] \in WithTrajectory(S, t)
    BY <1>1 DEF WithTrajectory
  <2> QED
    BY <2>1, FilterSame, Zenon DEF OfTrajectory
<1>4. Fired(s) = Filter(s, WithEvent(S))
  <2>1. \A n \in 1..Len(s) :
            s[n] \in { r \in ToSet(s) : r.fired } <=> s[n] \in WithEvent(S)
    BY <1>1 DEF WithEvent
  <2> QED
    BY <2>1, FilterSame, Zenon DEF Fired
<1> QED
  BY <1>2, <1>3, <1>4

\* Rows of one policy, and of one trajectory.
AllUnder(r, p) == \A n \in 1..Len(r) : r[n].policy = p
AllOf(r, t) == \A n \in 1..Len(r) : r[n].trajectory = t

\* Which frames of s grow with r, all of it under the policy q.
FramesGrow(s, r, q, S) ==
    \A p : /\ OfPolicy(s, p) \in Seq(S)
           /\ p = q => OfPolicy(s \o r, p) = OfPolicy(s, p) \o r
           /\ p # q => OfPolicy(s \o r, p) = OfPolicy(s, p)

\* A frame of the rows of one policy grows with the runs of that policy only.
LEMMA PolicyGrows ==
    ASSUME NEW S, NEW s \in Seq(S), NEW r \in Seq(S), NEW q, AllUnder(r, q)
    PROVE  FramesGrow(s, r, q, S)
<1> SUFFICES ASSUME NEW p
             PROVE  /\ OfPolicy(s, p) \in Seq(S)
                    /\ p = q => OfPolicy(s \o r, p) = OfPolicy(s, p) \o r
                    /\ p # q => OfPolicy(s \o r, p) = OfPolicy(s, p)
  BY DEF FramesGrow
<1> DEFINE T == WithPolicy(S, p)
<1>1. s \o r \in Seq(S) /\ \A n \in 1..Len(r) : r[n] \in S
  BY ConcatProperties, ElementOfSeq
<1>2. OfPolicy(s, p) = Filter(s, T) /\ OfPolicy(s \o r, p) = Filter(s \o r, T)
  <2>1. \A u \in Seq(S) : OfPolicy(u, p) = Filter(u, T)
    BY FramesAre, Zenon
  <2> QED
    BY <1>1, <2>1, Zenon
<1>3. Filter(s \o r, T) = Filter(s, T) \o Filter(r, T) /\ Filter(s, T) \in Seq(S)
  <2> HIDE DEF T
  <2>1. Filter(s, T) \in Seq(S)
    BY FilterKeeps, Zenon
  <2>2. Filter(s \o r, T) = Filter(s, T) \o Filter(r, T)
    BY FilterConcat
  <2> QED
    BY <2>1, <2>2
<1>4. ASSUME p = q PROVE Filter(r, T) = r
  <2>1. \A n \in 1..Len(r) : r[n] \in T
    BY <1>1, <1>4 DEF WithPolicy, AllUnder
  <2> HIDE DEF T
  <2> QED
    BY <2>1, FilterAll
<1>5. ASSUME p # q PROVE Filter(r, T) = <<>>
  <2>1. \A n \in 1..Len(r) : r[n] \notin T
    BY <1>1, <1>5 DEF WithPolicy, AllUnder
  <2> HIDE DEF T
  <2> QED
    BY <2>1, FilterNone
<1>6. Filter(s, T) \o <<>> = Filter(s, T)
  BY <1>3, ConcatEmptySeq
<1> HIDE DEF T
<1> QED
  BY <1>2, <1>3, <1>4, <1>5, <1>6, Zenon

\* The same of the rows of one trajectory.
LEMMA TrajectoryGrows ==
    ASSUME NEW S, NEW s \in Seq(S), NEW r \in Seq(S), NEW q, AllOf(r, q)
    PROVE  \A t : /\ OfTrajectory(s, t) \in Seq(S)
                  /\ t = q => OfTrajectory(s \o r, t) = OfTrajectory(s, t) \o r
                  /\ t # q => OfTrajectory(s \o r, t) = OfTrajectory(s, t)
<1> TAKE t
<1> DEFINE T == WithTrajectory(S, t)
<1>1. s \o r \in Seq(S) /\ \A n \in 1..Len(r) : r[n] \in S
  BY ConcatProperties, ElementOfSeq
<1>2. OfTrajectory(s, t) = Filter(s, T) /\ OfTrajectory(s \o r, t) = Filter(s \o r, T)
  <2>1. \A u \in Seq(S) : OfTrajectory(u, t) = Filter(u, T)
    BY FramesAre, Zenon
  <2> QED
    BY <1>1, <2>1, Zenon
<1>3. Filter(s \o r, T) = Filter(s, T) \o Filter(r, T) /\ Filter(s, T) \in Seq(S)
  <2> HIDE DEF T
  <2>1. Filter(s, T) \in Seq(S)
    BY FilterKeeps, Zenon
  <2>2. Filter(s \o r, T) = Filter(s, T) \o Filter(r, T)
    BY FilterConcat
  <2> QED
    BY <2>1, <2>2
<1>4. ASSUME t = q PROVE Filter(r, T) = r
  <2>1. \A n \in 1..Len(r) : r[n] \in T
    BY <1>1, <1>4 DEF WithTrajectory, AllOf
  <2> HIDE DEF T
  <2> QED
    BY <2>1, FilterAll
<1>5. ASSUME t # q PROVE Filter(r, T) = <<>>
  <2>1. \A n \in 1..Len(r) : r[n] \notin T
    BY <1>1, <1>5 DEF WithTrajectory, AllOf
  <2> HIDE DEF T
  <2> QED
    BY <2>1, FilterNone
<1>6. Filter(s, T) \o <<>> = Filter(s, T)
  BY <1>3, ConcatEmptySeq
<1> HIDE DEF T
<1> QED
  BY <1>2, <1>3, <1>4, <1>5, <1>6, Zenon

\* What the results add up to, with one more.
LEMMA TotalGrows ==
    ASSUME NEW rs \in Seq(Result), NEW x \in Result, NEW field \in {"steps", "events"}
    PROVE  /\ Total(rs, field) \in Nat
           /\ Total(Append(rs, x), field) = Total(rs, field) + x[field]
<1> DEFINE f == [r \in Result |-> r[field]]
           R == { f[r] : r \in Result }
<1>1. \A r \in Result : f[r] = r[field] /\ r[field] \in Nat
  BY DEF Result
<1>2. ASSUME NEW u \in Seq(Result)
      PROVE  Total(u, field) = TotalOf(Mapped(u, f))
  <2>1. \A n \in 1..Len(u) : u[n] \in Result
    BY ElementOfSeq
  <2>2. [n \in 1..Len(u) |-> u[n][field]] = Mapped(u, f)
    BY <1>1, <2>1 DEF Mapped
  <2> QED
    BY <2>2, Zenon DEF Total
<1>3. Append(rs, x) \in Seq(Result)
  BY AppendProperties
<1> HIDE DEF f
<1>4. Mapped(Append(rs, x), f) = Append(Mapped(rs, f), x[field])
  <2>1. Mapped(Append(rs, x), f) = Append(Mapped(rs, f), f[x])
    BY MappedAppend
  <2> QED
    BY <1>1, <2>1
<1>5. Mapped(rs, f) \in Seq(Nat)
  <2>1. Mapped(rs, f) \in Seq(R)
    BY MappedIs
  <2>2. R \subseteq Nat
    BY <1>1
  <2> HIDE DEF R
  <2> QED
    BY <2>1, <2>2, SeqMonotonic
<1>6. /\ TotalOf(Append(Mapped(rs, f), x[field])) = TotalOf(Mapped(rs, f)) + x[field]
      /\ TotalOf(Mapped(rs, f)) \in Nat
  BY <1>1, <1>5, TotalAppend
<1> QED
  BY <1>2, <1>3, <1>4, <1>6, Zenon
-----------------------------------------------------------------------------
\* The rows of a frame lie in it one run behind the other, as the results count
\* them, and those of a run are all there are of its trajectory.
Aligned(a, rs, field) ==
    /\ Len(a) = Total(rs, field)
    /\ \A i \in 1..Len(a) : \E n \in 1..Len(rs) : a[i].trajectory = rs[n].trajectory
    /\ \A n \in 1..Len(rs) :
        LET start == Total(SubSeq(rs, 1, n - 1), field)
        IN  /\ start + rs[n][field] <= Len(a)
            /\ OfTrajectory(a, rs[n].trajectory) = SubSeq(a, start + 1, start + rs[n][field])
            /\ Len(OfTrajectory(a, rs[n].trajectory)) = rs[n][field]

\* A part of a list does not change when the list grows.
LEMMA PartStays ==
    ASSUME NEW S, NEW a \in Seq(S), NEW r \in Seq(S), NEW b \in Nat, NEW c \in Nat, c <= Len(a)
    PROVE  SubSeq(a \o r, b + 1, c) = SubSeq(a, b + 1, c)
<1>1. Len(a) \in Nat
  BY LenProperties
<1>2. CASE c < b + 1
  BY <1>1, <1>2, SubSeqEmpty
<1>3. CASE b + 1 <= c
  <2>1. b + 1 \in 1..Len(a) /\ c \in 1..Len(a)
    BY <1>1, <1>3
  <2> QED
    BY <2>1, SubSeqOfConcat1
<1> QED
  BY <1>2, <1>3

\* What was added is the rest of it.
LEMMA RestIs ==
    ASSUME NEW S, NEW a \in Seq(S), NEW r \in Seq(S)
    PROVE  SubSeq(a \o r, Len(a) + 1, Len(a) + Len(r)) = r
<1> DEFINE m == Len(a)
           k == Len(r)
           u == a \o r
           v == SubSeq(u, m + 1, m + k)
<1>1. m \in Nat /\ k \in Nat
  BY LenProperties
<1>2. /\ u \in Seq(S) /\ Len(u) = m + k
      /\ \A i \in 1..(m + k) : u[i] = IF i <= m THEN a[i] ELSE r[i - m]
  BY ConcatProperties
<1> HIDE DEF m, k, u
<1>3. \A i \in (m + 1)..(m + k) : u[i] \in S
  <2>1. \A i \in (m + 1)..(m + k) : i \in 1..Len(u)
    BY <1>1, <1>2
  <2> QED
    BY <1>2, <2>1, ElementOfSeq
<1>4. m + 1 \in Int /\ m + k \in Int /\ ((m + k) - (m + 1)) + 1 = k
  BY <1>1
<1>5. /\ v \in Seq(S)
      /\ Len(v) = IF m + 1 <= m + k THEN ((m + k) - (m + 1)) + 1 ELSE 0
      /\ \A i \in 1..(((m + k) - (m + 1)) + 1) : v[i] = u[((m + 1) + i) - 1]
  BY <1>3, <1>4, SubSeqProperties
<1> HIDE DEF v
<1>6. Len(v) = k
  BY <1>1, <1>5
<1>7. ASSUME NEW i \in 1..k PROVE v[i] = r[i]
  <2>1. ((m + 1) + i) - 1 = m + i /\ m + i \in 1..(m + k) /\ ~(m + i <= m) /\ (m + i) - m = i
    BY <1>1
  <2>2. v[i] = u[m + i]
    BY <1>4, <1>5, <2>1, Zenon
  <2>3. u[m + i] = r[(m + i) - m]
    BY <1>2, <2>1, Zenon
  <2> QED
    BY <2>1, <2>2, <2>3, Zenon
<1>8. v = r
  BY <1>5, <1>6, <1>7, SeqEqual DEF k
<1> QED
  BY <1>8 DEF v, u, m, k

\* The results in front of the n-th are the same before and after one more.
LEMMA FrontsStay ==
    ASSUME NEW S, NEW rs \in Seq(S), NEW x \in S
    PROVE  /\ \A n \in 1..Len(rs) :
                /\ SubSeq(Append(rs, x), 1, n - 1) = SubSeq(rs, 1, n - 1)
                /\ SubSeq(rs, 1, n - 1) \in Seq(S)
           /\ SubSeq(Append(rs, x), 1, Len(rs)) = rs
<1>1. Len(rs) \in Nat /\ <<x>> \in Seq(S) /\ Append(rs, x) = rs \o <<x>>
  BY LenProperties, AppendIsConcat
<1>2. \A n \in 0..Len(rs) : SubSeq(Append(rs, x), 1, n) = SubSeq(rs, 1, n)
  <2> TAKE n \in 0..Len(rs)
  <2>1. n \in Nat /\ n <= Len(rs) /\ 0 \in Nat /\ 0 + 1 = 1
    BY <1>1
  <2>2. SubSeq(rs \o <<x>>, 0 + 1, n) = SubSeq(rs, 0 + 1, n)
    BY <1>1, <2>1, PartStays
  <2> QED
    BY <1>1, <2>1, <2>2, Zenon
<1>3. SubSeq(rs, 1, Len(rs)) = rs
  BY SubSeqFull
<1>4. \A n \in 1..Len(rs) : SubSeq(rs, 1, n - 1) \in Seq(S)
  <2> TAKE n \in 1..Len(rs)
  <2>1. \A i \in 1..(n - 1) : rs[i] \in S
    BY <1>1, ElementOfSeq
  <2>2. 1 \in Int /\ n - 1 \in Int
    BY <1>1
  <2> QED
    BY <2>1, <2>2, SubSeqProperties
<1>5. \A n \in 1..Len(rs) : n - 1 \in 0..Len(rs)
  BY <1>1
<1>6. Len(rs) \in 0..Len(rs)
  BY <1>1
<1> QED
  BY <1>2, <1>3, <1>4, <1>5, <1>6, Zenon

\* The next run of a trajectory that was not replayed yet.
LEMMA AlignedGrows ==
    ASSUME NEW a \in Seq(Row), NEW rs \in Seq(Result), NEW field \in {"steps", "events"},
           Aligned(a, rs, field),
           NEW r \in Seq(Row), NEW x \in Result, Len(r) = x[field],
           AllOf(r, x.trajectory),
           \A n \in 1..Len(rs) : rs[n].trajectory # x.trajectory
    PROVE  Aligned(a \o r, Append(rs, x), field)
<1> DEFINE b == a \o r
           us == Append(rs, x)
           m == Len(rs)
<1>1. /\ b \in Seq(Row) /\ Len(b) = Len(a) + Len(r) /\ Len(a) \in Nat /\ Len(r) \in Nat
      /\ \A i \in 1..(Len(a) + Len(r)) : b[i] = IF i <= Len(a) THEN a[i] ELSE r[i - Len(a)]
  BY ConcatProperties, LenProperties
<1>2. /\ us \in Seq(Result) /\ Len(us) = m + 1 /\ m \in Nat /\ us[m + 1] = x
      /\ \A n \in 1..m : us[n] = rs[n]
  BY AppendProperties, LenProperties
<1>3. Total(rs, field) \in Nat /\ Total(us, field) = Total(rs, field) + x[field]
  BY TotalGrows
<1>4. /\ Len(a) = Total(rs, field)
      /\ \A i \in 1..Len(a) : \E n \in 1..m : a[i].trajectory = rs[n].trajectory
      /\ \A n \in 1..m : /\ Total(SubSeq(rs, 1, n - 1), field) + rs[n][field] <= Len(a)
                         /\ OfTrajectory(a, rs[n].trajectory)
                              = SubSeq(a, Total(SubSeq(rs, 1, n - 1), field) + 1,
                                       Total(SubSeq(rs, 1, n - 1), field) + rs[n][field])
                         /\ Len(OfTrajectory(a, rs[n].trajectory)) = rs[n][field]
  BY Zenon DEF Aligned
<1>5. /\ \A n \in 1..m : SubSeq(us, 1, n - 1) = SubSeq(rs, 1, n - 1)
      /\ \A n \in 1..m : SubSeq(rs, 1, n - 1) \in Seq(Result)
      /\ SubSeq(us, 1, m) = rs
  BY FrontsStay
<1>6. \A t : /\ t = x.trajectory => OfTrajectory(b, t) = OfTrajectory(a, t) \o r
             /\ t # x.trajectory => OfTrajectory(b, t) = OfTrajectory(a, t)
  <2>1. \A t : /\ OfTrajectory(a, t) \in Seq(Row)
               /\ t = x.trajectory => OfTrajectory(a \o r, t) = OfTrajectory(a, t) \o r
               /\ t # x.trajectory => OfTrajectory(a \o r, t) = OfTrajectory(a, t)
    <3> HIDE DEF b, us, m
    <3> QED
      BY TrajectoryGrows
  <2> QED
    BY <2>1
<1>7. OfTrajectory(a, x.trajectory) = <<>>
  <2>1. \A i \in 1..Len(a) : a[i] \notin WithTrajectory(Row, x.trajectory)
    <3> TAKE i \in 1..Len(a)
    <3>1. PICK n \in 1..m : a[i].trajectory = rs[n].trajectory
      BY <1>4
    <3> QED
      BY <3>1 DEF WithTrajectory
  <2>2. OfTrajectory(a, x.trajectory) = Filter(a, WithTrajectory(Row, x.trajectory))
    BY FramesAre, Zenon
  <2> QED
    BY <2>1, <2>2, FilterNone
<1>8. <<>> \o r = r /\ SubSeq(b, Len(a) + 1, Len(a) + Len(r)) = r
  BY ConcatEmptySeq, RestIs
<1>9. \A n \in 1..m : /\ Total(SubSeq(rs, 1, n - 1), field) \in Nat
                      /\ rs[n][field] \in Nat
  <2> TAKE n \in 1..m
  <2>1. SubSeq(rs, 1, n - 1) \in Seq(Result) /\ rs[n] \in Result
    BY <1>5, ElementOfSeq
  <2> QED
    BY <2>1, TotalGrows DEF Result
<1> HIDE DEF b, us, m
<1>10. Len(b) = Total(us, field)
  BY <1>1, <1>3, <1>4
<1>11. ASSUME NEW i \in 1..Len(b)
       PROVE  \E n \in 1..Len(us) : b[i].trajectory = us[n].trajectory
  <2>1. CASE i <= Len(a)
    <3>1. i \in 1..Len(a) /\ b[i] = a[i]
      <4>1. i \in 1..Len(a) /\ i \in 1..(Len(a) + Len(r))
        BY <1>1, <2>1
      <4> QED
        BY <1>1, <2>1, <4>1, Zenon
    <3>2. PICK n \in 1..m : a[i].trajectory = rs[n].trajectory
      BY <1>4, <3>1
    <3>3. n \in 1..Len(us) /\ us[n] = rs[n]
      BY <1>2, <3>2
    <3> QED
      BY <3>1, <3>2, <3>3
  <2>2. CASE ~(i <= Len(a))
    <3>1. b[i] = r[i - Len(a)] /\ i - Len(a) \in 1..Len(r)
      BY <1>1, <2>2
    <3>2. b[i].trajectory = x.trajectory /\ m + 1 \in 1..Len(us)
      BY <1>2, <3>1 DEF AllOf
    <3> QED
      BY <1>2, <3>2
  <2> QED
    BY <2>1, <2>2
<1>12. ASSUME NEW n \in 1..Len(us)
       PROVE  /\ Total(SubSeq(us, 1, n - 1), field) + us[n][field] <= Len(b)
              /\ OfTrajectory(b, us[n].trajectory)
                   = SubSeq(b, Total(SubSeq(us, 1, n - 1), field) + 1,
                            Total(SubSeq(us, 1, n - 1), field) + us[n][field])
              /\ Len(OfTrajectory(b, us[n].trajectory)) = us[n][field]
  <2>1. CASE n \in 1..m
    <3> DEFINE start == Total(SubSeq(rs, 1, n - 1), field)
               size == rs[n][field]
               t == rs[n].trajectory
    <3>1. /\ us[n] = rs[n] /\ SubSeq(us, 1, n - 1) = SubSeq(rs, 1, n - 1)
          /\ start \in Nat /\ size \in Nat /\ t # x.trajectory
      BY <1>2, <1>5, <1>9, <2>1 DEF m
    <3>2. /\ start + size <= Len(a)
          /\ OfTrajectory(a, t) = SubSeq(a, start + 1, start + size)
          /\ Len(OfTrajectory(a, t)) = size
      BY <1>4, <2>1, Zenon
    <3> HIDE DEF start, size, t
    <3>3. SubSeq(b, start + 1, start + size) = SubSeq(a, start + 1, start + size)
      BY <3>1, <3>2, PartStays DEF b
    <3>4. OfTrajectory(b, t) = SubSeq(b, start + 1, start + size)
      BY <1>6, <3>1, <3>2, <3>3, Zenon
    <3>5. start + size <= Len(b)
      BY <1>1, <3>1, <3>2
    <3>6. Len(OfTrajectory(b, t)) = size
      BY <1>6, <3>1, <3>2, Zenon
    <3> QED
      BY <3>1, <3>4, <3>5, <3>6, Zenon DEF start, size, t
  <2>2. CASE n = m + 1
    <3>1. us[n] = x /\ n - 1 = m
      BY <1>2, <2>2
    <3>2. SubSeq(us, 1, n - 1) = rs
      BY <1>5, <3>1, Zenon
    <3>3. Total(SubSeq(us, 1, n - 1), field) = Len(a)
      BY <1>4, <3>2, Zenon
    <3>4. OfTrajectory(b, x.trajectory) = r
      BY <1>6, <1>7, <1>8, Zenon
    <3>5. Len(a) + us[n][field] <= Len(b) /\ us[n][field] = Len(r)
      BY <1>1, <3>1
    <3> QED
      BY <1>8, <3>1, <3>3, <3>4, <3>5, Zenon
  <2> QED
    BY <1>2, <2>1, <2>2
<1> QED
  BY <1>10, <1>11, <1>12, Zenon DEF Aligned, b, us

\* Nothing is aligned with nothing.
LEMMA AlignedEmpty ==
    ASSUME NEW field
    PROVE  Aligned(<<>>, <<>>, field)
<1>1. Len(<<>>) = 0
  OBVIOUS
<1>2. [n \in 1..Len(<<>>) |-> <<>>[n][field]] = <<>>
  BY <1>1
<1>3. Total(<<>>, field) = 0
  BY <1>2, TotalEmpty, Zenon DEF Total
<1> QED
  BY <1>1, <1>3 DEF Aligned

\* What the drivers cut out is what they want to show.
LEMMA SliceIs ==
    ASSUME NEW a \in Seq(Row), NEW rs \in Seq(Result), rs # <<>>,
           NEW field \in {"steps", "events"}, Aligned(a, rs, field)
    PROVE  LET mine == OfTrajectory(a, rs[Comparison(rs)].trajectory)
           IN  /\ Comparison(rs) \in 1..Len(rs)
               /\ Slice(a, rs, field) = mine /\ Len(mine) = rs[Comparison(rs)][field]
               /\ Len(rs) = 1 => mine = a
<1> DEFINE c == Comparison(rs)
           first == Trajectories[1]
           Of(n) == rs[n].trajectory = first
           start == Total(SubSeq(rs, 1, c - 1), field)
           size == rs[c][field]
           mine == OfTrajectory(a, rs[c].trajectory)
<1>1. Len(rs) \in Nat \ {0} /\ DOMAIN rs = 1..Len(rs) /\ Len(a) \in Nat
  BY EmptySeq, LenProperties
<1>2. c \in 1..Len(rs)
  <2> HIDE DEF c
  <2>1. CASE \E n \in DOMAIN rs : Of(n)
    <3> DEFINE N == { n \in 1..Len(rs) : Of(n) }
    <3>1. N \subseteq Nat /\ N # {}
      BY <1>1, <2>1
    <3>2. PICK n \in N : \A m \in N : n <= m
      <4> HIDE DEF N
      <4> QED
        BY <3>1, NatLeast
    <3>3. n \in DOMAIN rs /\ Of(n) /\ \A m \in 1..(n - 1) : ~Of(m)
      BY <1>1, <3>2
    <3> DEFINE P(k) == Of(k) /\ \A m \in 1..(k - 1) : ~Of(m)
    <3>4. c = CHOOSE k \in DOMAIN rs : P(k)
      BY <2>1, Zenon DEF c, Comparison
    <3>5. P(n)
      BY <3>3
    <3> HIDE DEF P
    <3> QED
      BY <1>1, <3>3, <3>4, <3>5
  <2>2. CASE ~\E n \in DOMAIN rs : Of(n)
    <3>1. c = 1
      BY <2>2, Zenon DEF c, Comparison
    <3> QED
      BY <1>1, <3>1
  <2> QED
    BY <2>1, <2>2
<1>3. /\ start + size <= Len(a) /\ mine = SubSeq(a, start + 1, start + size)
      /\ Len(mine) = size
  <2> HIDE DEF c
  <2> QED
    BY <1>2, Zenon DEF Aligned
<1>4. start \in Nat /\ size \in Nat
  <2> HIDE DEF c
  <2>1. rs[c] \in Result /\ SubSeq(rs, 1, c - 1) \in Seq(Result)
    BY <1>2, ElementOfSeq, FrontsStay
  <2> QED
    BY <2>1, TotalGrows DEF Result
<1>5. Slice(a, rs, field) = SubSeq(a, start + 1, Least(start + size, Len(a)))
  BY Zenon DEF Slice
<1> HIDE DEF c, start, size, mine
<1>6. Least(start + size, Len(a)) = start + size
  BY <1>1, <1>3, <1>4 DEF Least
<1>7. ASSUME Len(rs) = 1 PROVE mine = a
  <2>1. c = 1
    BY <1>2, <1>7
  <2>2. \A i \in 1..Len(a) : a[i] \in WithTrajectory(Row, rs[c].trajectory)
    <3> TAKE i \in 1..Len(a)
    <3>1. PICK n \in 1..Len(rs) : a[i].trajectory = rs[n].trajectory
      BY DEF Aligned
    <3>2. n = 1 /\ a[i] \in Row
      BY <1>7, <3>1, ElementOfSeq
    <3> QED
      BY <2>1, <3>1, <3>2 DEF WithTrajectory
  <2>3. mine = Filter(a, WithTrajectory(Row, rs[c].trajectory))
    BY FramesAre, Zenon DEF mine
  <2> QED
    BY <2>2, <2>3, FilterAll
<1> QED
  BY <1>2, <1>3, <1>5, <1>6, <1>7, Zenon DEF c, start, size, mine
-----------------------------------------------------------------------------
\* A policy that is played once in a round is played once in a rotated one.
LEMMA RotatedPlaysOnce ==
    ASSUME NEW Q, NEW P \in Seq(Q), P # <<>>, NEW i \in Nat
    PROVE  /\ RotatedFrom(P, i) \in Seq(Q) /\ Len(RotatedFrom(P, i)) = Len(P)
           /\ \A p : Filter(P, {p}) = <<p>> => Filter(RotatedFrom(P, i), {p}) = <<p>>
<1> DEFINE L == Len(P)
           r == i % L
           u == SubSeq(P, 1, r)
           s == SubSeq(P, 1 + r, L)
<1>1. L \in Nat \ {0}
  BY EmptySeq
<1>2. r \in 0..(L - 1)
  BY <1>1
<1>3. RotatedFrom(P, i) = s \o u
  BY Zenon DEF RotatedFrom
<1> HIDE DEF r
<1>4. u \in Seq(Q) /\ s \in Seq(Q) /\ u \o s = P
  <2>1. \A k \in 1..L : P[k] \in Q
    BY ElementOfSeq
  <2>2. /\ 1 + r \in Int /\ r \in Int /\ L \in Int /\ 1 + r = r + 1
        /\ (1 + r)..L \subseteq 1..L /\ 1..r \subseteq 1..L
        /\ 1 \in 1..(L + 1) /\ r \in (1 - 1)..L /\ L \in r..L
    BY <1>1, <1>2
  <2>3. u \in Seq(Q) /\ s \in Seq(Q)
    BY <2>1, <2>2, SubSeqProperties
  <2>4. SubSeq(P, 1, r) \o SubSeq(P, r + 1, L) = SubSeq(P, 1, L)
    BY <2>2, ConcatAdjacentSubSeq
  <2>5. SubSeq(P, 1, L) = P
    BY SubSeqFull
  <2> QED
    BY <2>2, <2>3, <2>4, <2>5, Zenon
<1> HIDE DEF u, s
<1>0. s \o u \in Seq(Q) /\ Len(s \o u) = L
  <2>1. /\ Len(s \o u) = Len(s) + Len(u) /\ Len(u \o s) = Len(u) + Len(s)
        /\ s \o u \in Seq(Q)
    BY <1>4, ConcatProperties
  <2>2. Len(s) \in Nat /\ Len(u) \in Nat
    BY <1>4, LenProperties
  <2> QED
    BY <1>4, <2>1, <2>2
<1>5. \A T : /\ Filter(u \o s, T) = Filter(u, T) \o Filter(s, T)
             /\ Filter(s \o u, T) = Filter(s, T) \o Filter(u, T)
  <2> TAKE T
  <2>0. u \in Seq(Q) /\ s \in Seq(Q)
    BY <1>4
  <2>1. Filter(u \o s, T) = Filter(u, T) \o Filter(s, T)
    BY <2>0, FilterConcat
  <2>2. Filter(s \o u, T) = Filter(s, T) \o Filter(u, T)
    BY <2>0, FilterConcat
  <2> QED
    BY <2>1, <2>2
<1>6. ASSUME NEW p, Filter(P, {p}) = <<p>>
      PROVE  Filter(s \o u, {p}) = <<p>>
  <2> DEFINE A == Filter(u, {p})
             B == Filter(s, {p})
  <2>1. A \in Seq(Q) /\ B \in Seq(Q)
    BY <1>4, FilterKeeps
  <2>2. A \o B = <<p>> /\ Filter(s \o u, {p}) = B \o A
    <3>1. /\ Filter(u \o s, {p}) = Filter(u, {p}) \o Filter(s, {p})
          /\ Filter(s \o u, {p}) = Filter(s, {p}) \o Filter(u, {p})
      BY <1>5, Zenon
    <3> QED
      BY <1>4, <1>6, <3>1, Zenon
  <2> HIDE DEF A, B
  <2>3. Len(A) \in Nat /\ Len(B) \in Nat /\ Len(A \o B) = Len(A) + Len(B) /\ Len(A \o B) = 1
    BY <2>1, <2>2, LenProperties, ConcatProperties
  <2>4. A = <<>> \/ B = <<>>
    BY <2>1, <2>3, EmptySeq
  <2>5. <<>> \o B = B /\ B \o <<>> = B /\ <<>> \o A = A /\ A \o <<>> = A
    BY <2>1, ConcatEmptySeq
  <2> QED
    BY <2>2, <2>4, <2>5
<1> QED
  BY <1>0, <1>3, <1>6

\* The order of a sweep over one trajectory more.
LEMMA RotatingGrows ==
    ASSUME NEW Q, NEW P \in Seq(Q), P # <<>>, NEW ts \in Seq(Files), NEW t \in Files
    PROVE  /\ Rotating(P, ts) \in Seq(Files \X Q)
           /\ Rotating(P, Append(ts, t))
                = Rotating(P, ts) \o Mapped(RotatedFrom(P, Len(ts)), [p \in Q |-> <<t, p>>])
<1> DEFINE L == Len(P)
           k == Len(ts)
           us == Append(ts, t)
           f == [p \in Q |-> <<t, p>>]
           last == RotatedFrom(P, k)
           block == Mapped(last, f)
           I(n) == (n - 1) \div L + 1
           J(n) == ((n - 1) % L) + 1
<1>1. L \in Nat \ {0} /\ k \in Nat /\ Len(us) = k + 1 /\ us[k + 1] = t
      /\ us \in Seq(Files) /\ \A n \in 1..k : us[n] = ts[n]
  BY EmptySeq, LenProperties, AppendProperties
<1>2. \A xs : /\ DOMAIN Rotating(P, xs) = 1..(Len(xs) * L)
              /\ \A n \in 1..(Len(xs) * L) :
                    Rotating(P, xs)[n] = <<xs[I(n)], RotatedFrom(P, I(n) - 1)[J(n)]>>
  BY Zenon DEF Rotating
<1>3. \A n \in 1..(k * L) : I(n) \in 1..k /\ J(n) \in 1..L
  BY <1>1, RoundAndTurn
<1>4. \A j \in 1..L : I((k * L) + j) = k + 1 /\ J((k * L) + j) = j
  <2> TAKE j \in 1..L
  <2>1. (((k * L) + j) - 1) \div L = k /\ (((k * L) + j) - 1) % L = j - 1
    BY <1>1, TurnOfRound
  <2>2. (j - 1) + 1 = j
    BY <1>1
  <2> QED
    BY <2>1, <2>2, Zenon
<1>5. \A i \in Nat : RotatedFrom(P, i) \in Seq(Q) /\ Len(RotatedFrom(P, i)) = L
  BY RotatedPlaysOnce
<1>6. /\ block \in Seq(Files \X Q) /\ Len(block) = L
      /\ \A j \in 1..L : block[j] = <<t, last[j]>>
  <2>1. last \in Seq(Q) /\ Len(last) = L
    BY <1>1, <1>5
  <2>2. \A j \in 1..L : last[j] \in Q
    BY <2>1, ElementOfSeq
  <2> HIDE DEF last, f, block
  <2>3. /\ block \in Seq({ f[p] : p \in Q }) /\ Len(block) = L
        /\ \A j \in 1..L : block[j] = f[last[j]]
    <3>1. ListOfImages(block, last, f, Q)
      BY <2>1, ImagesAre, Zenon DEF block
    <3> QED
      BY <2>1, <3>1, Zenon DEF ListOfImages
  <2>4. \A p \in Q : f[p] = <<t, p>>
    BY Zenon DEF f
  <2>5. { f[p] : p \in Q } \subseteq Files \X Q
    <3>1. \A p \in Q : f[p] \in Files \X Q
      <4> TAKE p \in Q
      <4>1. <<t, p>> \in Files \X Q
        OBVIOUS
      <4> QED
        BY <2>4, <4>1, Zenon
    <3> QED
      BY <3>1, Zenon
  <2>6. block \in Seq(Files \X Q)
    BY <2>3, <2>5, SeqMonotonic
  <2> QED
    BY <2>2, <2>3, <2>4, <2>6
<1> HIDE DEF L, k, us, f, last, block
<1>7. k * L \in Nat /\ (k + 1) * L = (k * L) + L
  BY <1>1
<1>8. ASSUME NEW n \in 1..(k * L)
      PROVE  /\ Rotating(P, ts)[n] \in Files \X Q
             /\ Rotating(P, us)[n] = Rotating(P, ts)[n]
  <2> DEFINE i == I(n)
             j == J(n)
  <2>1. i \in 1..k /\ j \in 1..L
    BY <1>3
  <2>2. n \in 1..((k + 1) * L)
    BY <1>1, <1>7
  <2>3. /\ Rotating(P, ts)[n] = <<ts[i], RotatedFrom(P, i - 1)[j]>>
        /\ Rotating(P, us)[n] = <<us[i], RotatedFrom(P, i - 1)[j]>>
    BY <1>1, <1>2, <2>2, Zenon DEF k
  <2> HIDE DEF i, j
  <2>4. ts[i] \in Files /\ us[i] = ts[i]
    BY <1>1, <2>1, ElementOfSeq DEF k
  <2>5. RotatedFrom(P, i - 1)[j] \in Q
    <3>1. i - 1 \in Nat
      BY <1>1, <2>1
    <3>2. RotatedFrom(P, i - 1) \in Seq(Q) /\ j \in 1..Len(RotatedFrom(P, i - 1))
      BY <1>5, <2>1, <3>1
    <3> QED
      BY <3>2, ElementOfSeq
  <2> QED
    BY <2>3, <2>4, <2>5
<1>9. Rotating(P, ts) \in Seq(Files \X Q) /\ Len(Rotating(P, ts)) = k * L
  <2> DEFINE order == Rotating(P, ts)
  <2>1. order = [n \in 1..(k * L) |-> order[n]] /\ DOMAIN order = 1..(k * L)
    BY Zenon DEF Rotating, k, L
  <2> HIDE DEF order
  <2>2. order \in [1..(k * L) -> Files \X Q]
    BY <1>8, <2>1, Zenon DEF order
  <2>3. order \in Seq(Files \X Q)
    BY <1>7, <2>2, SeqDef
  <2>4. Len(order) = k * L
    BY <1>7, <2>1, <2>3, LenProperties
  <2> QED
    BY <2>3, <2>4 DEF order
<1>10. ASSUME NEW j \in 1..L
       PROVE  Rotating(P, us)[(k * L) + j] = block[j]
  <2>1. (k * L) + j \in 1..((k + 1) * L)
    BY <1>1, <1>7
  <2> DEFINE n == (k * L) + j
  <2>2. Rotating(P, us)[n] = <<us[I(n)], RotatedFrom(P, I(n) - 1)[J(n)]>>
    BY <1>1, <1>2, <2>1, Zenon
  <2>3. I(n) = k + 1 /\ J(n) = j /\ (k + 1) - 1 = k
    <3>1. (k + 1) - 1 = k
      BY <1>1
    <3> QED
      BY <1>4, <3>1, Zenon
  <2>4. I(n) - 1 = k
    BY <2>3
  <2> HIDE DEF n
  <2>5. Rotating(P, us)[n] = <<us[k + 1], RotatedFrom(P, k)[j]>>
    BY <2>2, <2>3, <2>4, Zenon
  <2> QED
    BY <1>1, <1>6, <2>5, Zenon DEF n, last
<1> DEFINE old == Rotating(P, ts)
           new == Rotating(P, us)
<1>11. /\ old \o block \in Seq(Files \X Q) /\ Len(old \o block) = (k * L) + L
       /\ \A n \in 1..((k * L) + L) :
            (old \o block)[n] = IF n <= k * L THEN old[n] ELSE block[n - (k * L)]
  <2>1. old \in Seq(Files \X Q) /\ Len(old) = k * L
    BY <1>9
  <2> HIDE DEF old
  <2>2. /\ old \o block \in Seq(Files \X Q) /\ Len(old \o block) = Len(old) + Len(block)
        /\ \A n \in 1..(Len(old) + Len(block)) :
            (old \o block)[n] = IF n <= Len(old) THEN old[n] ELSE block[n - Len(old)]
    BY <1>6, <2>1, ConcatProperties
  <2> QED
    BY <1>6, <2>1, <2>2, Zenon
<1>12. DOMAIN new = 1..((k * L) + L) /\ new = [n \in 1..((k * L) + L) |-> new[n]]
  <2>1. DOMAIN new = 1..((k + 1) * L) /\ new = [n \in 1..((k + 1) * L) |-> new[n]]
    BY <1>1, Zenon DEF Rotating, L
  <2> QED
    BY <1>7, <2>1, Zenon
<1>13. old \in Seq(Files \X Q)
  BY <1>9
<1> HIDE DEF old, new
<1>14. ASSUME NEW n \in 1..((k * L) + L) PROVE new[n] = (old \o block)[n]
  <2>1. CASE n <= k * L
    <3>1. n \in 1..(k * L)
      BY <1>7, <2>1
    <3>2. new[n] = old[n]
      BY <1>8, <3>1, Zenon DEF old, new
    <3>3. (old \o block)[n] = old[n]
      BY <1>11, <2>1, Zenon
    <3> QED
      BY <3>2, <3>3
  <2>2. CASE ~(n <= k * L)
    <3>1. n - (k * L) \in 1..L /\ (k * L) + (n - (k * L)) = n
      BY <1>1, <1>7, <2>2
    <3>2. new[n] = block[n - (k * L)]
      BY <1>10, <3>1, Zenon DEF new
    <3>3. (old \o block)[n] = block[n - (k * L)]
      BY <1>11, <2>2, Zenon
    <3> QED
      BY <3>2, <3>3
  <2> QED
    BY <2>1, <2>2
<1>15. old \o block = [n \in 1..((k * L) + L) |-> (old \o block)[n]]
  <2>2. old \o block \in [1..Len(old \o block) -> Files \X Q]
    BY <1>11, LenProperties
  <2> QED
    BY <1>11, <2>2
<1>16. new = old \o block
  BY <1>12, <1>14, <1>15, Zenon
<1> QED
  BY <1>13, <1>16, Zenon DEF new, old, us, block, last, f, k
\* What is replayed under a policy, and the replays of some trajectories under it.
Replays(p) == { x \in Files \X Policies : x[2] = p }
Under(p) == [t \in Files |-> <<t, p>>]

\* What is made of a single element, and of none.
LEMMA MappedOne ==
    ASSUME NEW x, NEW f
    PROVE  Mapped(<<x>>, f) = <<f[x]>> /\ Mapped(<<>>, f) = <<>>
<1>1. Len(<<x>>) = 1 /\ Len(<<>>) = 0 /\ \A n \in 1..1 : <<x>>[n] = x
  OBVIOUS
<1>2. Mapped(<<x>>, f) = [n \in 1..1 |-> f[x]]
  BY <1>1 DEF Mapped
<1>3. Mapped(<<>>, f) = [n \in 1..0 |-> f[<<>>[n]]]
  BY <1>1 DEF Mapped
<1> QED
  BY <1>2, <1>3

\* In the order of a sweep, each of its policies has its trajectories in the
\* order in which they were selected.
LEMMA OrderOfPolicy ==
    ASSUME NEW Q \in SUBSET Policies, NEW P \in Seq(Q), P # <<>>, NEW ts \in Seq(Files),
           NEW p \in Q, Filter(P, {p}) = <<p>>
    PROVE  Filter(Rotating(P, ts), Replays(p)) = Mapped(ts, Under(p))
<1> DEFINE D == { xs \in Seq(Files) : Filter(Rotating(P, xs), Replays(p)) = Mapped(xs, Under(p)) }
<1>0. \A xs \in Seq(Files) : Rotating(P, xs) \in Seq(Files \X Q)
  <2>1. SmokeTest \in Files
    BY DEF Files
  <2> QED
    BY <2>1, RotatingGrows
<1>1. <<>> \in D
  <2>1. Rotating(P, <<>>) = <<>>
    <3>1. DOMAIN Rotating(P, <<>>) = 1..(Len(<<>>) * Len(P))
      BY Zenon DEF Rotating
    <3>2. Len(<<>>) * Len(P) = 0
      <4>1. Len(P) \in Nat
        BY LenProperties
      <4> QED
        BY <4>1
    <3>3. Rotating(P, <<>>) \in Seq(Files \X Q)
      BY <1>0, EmptySeq
    <3>4. ~(1 \in DOMAIN Rotating(P, <<>>))
      BY <3>1, <3>2
    <3>5. Len(Rotating(P, <<>>)) \in Nat /\ DOMAIN Rotating(P, <<>>) = 1..Len(Rotating(P, <<>>))
      BY <3>3, LenProperties
    <3>6. Rotating(P, <<>>) # <<>> => Len(Rotating(P, <<>>)) \in Nat \ {0}
      BY <3>3, EmptySeq
    <3> QED
      BY <3>4, <3>5, <3>6
  <2>2. Filter(Rotating(P, <<>>), Replays(p)) = <<>>
    BY <2>1, FilterEmpty, Zenon
  <2> QED
    BY <2>2, MappedOne, EmptySeq
<1>2. ASSUME NEW xs \in Seq(Files), NEW t \in Files, xs \in D PROVE Append(xs, t) \in D
  <2> DEFINE f == [q \in Q |-> <<t, q>>]
             last == RotatedFrom(P, Len(xs))
             block == Mapped(last, f)
             more == Append(xs, t)
  <2>1. /\ Rotating(P, xs) \in Seq(Files \X Q)
        /\ Rotating(P, more) = Rotating(P, xs) \o block
    BY RotatingGrows
  <2>2. last \in Seq(Q) /\ Filter(last, {p}) = <<p>>
    BY LenProperties, RotatedPlaysOnce
  <2>3. \A q \in Q : f[q] = <<t, q>>
    OBVIOUS
  <2>4. more \in Seq(Files)
    BY AppendProperties
  <2>5. Filter(Rotating(P, xs), Replays(p)) = Mapped(xs, Under(p))
    BY <1>2
  <2> HIDE DEF f, last, D
  <2>6. block \in Seq(Files \X Q)
    <3>0. ListOfImages(block, last, f, Q)
      BY <2>2, ImagesAre
    <3>1. block \in Seq({ f[q] : q \in Q })
      BY <3>0, Zenon DEF ListOfImages
    <3>2. { f[q] : q \in Q } \subseteq Files \X Q
      <4>1. \A q \in Q : f[q] \in Files \X Q
        <5> TAKE q \in Q
        <5>1. <<t, q>> \in Files \X Q
          OBVIOUS
        <5> QED
          BY <2>3, <5>1, Zenon
      <4> QED
        BY <4>1, Zenon
    <3> HIDE DEF block
    <3> QED
      BY <3>1, <3>2, SeqMonotonic
  <2>7. Filter(block, Replays(p)) = << <<t, p>> >>
    <3>1. Carries(f, Q, {p}, Replays(p))
      <4>1. \A q \in Q : q \in {p} <=> <<t, q>> \in Replays(p)
        BY DEF Replays
      <4> QED
        BY <2>3, <4>1, Zenon DEF Carries
    <3>2. Filter(block, Replays(p)) = Mapped(Filter(last, {p}), f)
      BY <2>2, <3>1, FilterMapped
    <3>3. Filter(block, Replays(p)) = <<f[p]>>
      BY <2>2, <3>2, MappedOne, Zenon
    <3> QED
      BY <2>3, <3>3, Zenon
  <2> HIDE DEF block
  <2>8. Filter(Rotating(P, xs) \o block, Replays(p))
          = Filter(Rotating(P, xs), Replays(p)) \o Filter(block, Replays(p))
    BY <2>1, <2>6, FilterConcat
  <2>9. Mapped(more, Under(p)) = Append(Mapped(xs, Under(p)), Under(p)[t])
    BY MappedAppend
  <2>10. Under(p)[t] = <<t, p>>
    BY DEF Under
  <2>11. Append(Mapped(xs, Under(p)), <<t, p>>) = Mapped(xs, Under(p)) \o << <<t, p>> >>
    <3>1. Mapped(xs, Under(p)) \in Seq({ Under(p)[u] : u \in Files })
      BY MappedIs
    <3>2. <<t, p>> \in { Under(p)[u] : u \in Files }
      BY <2>10
    <3> QED
      BY <3>1, <3>2, AppendIsConcat
  <2> HIDE DEF more
  <2>12. Filter(Rotating(P, more), Replays(p)) = Mapped(more, Under(p))
    BY <2>1, <2>5, <2>7, <2>8, <2>9, <2>10, <2>11, Zenon
  <2> QED
    BY <2>4, <2>12 DEF D, more
<1>3. Seq(Files) \subseteq D
  <2> HIDE DEF D
  <2> QED
    BY <1>1, <1>2, SeqInduction
<1> QED
  BY <1>3

\* No element comes twice.
NoRepeats(s) == \A i, j \in 1..Len(s) : s[i] = s[j] => i = j

\* Each policy of Q is given the trajectories ts, in their order.
EachPlays(order, Q, ts) ==
    \A p \in Q : Filter(order, Replays(p)) = Mapped(ts, Under(p))

\* No replay occurs twice where no trajectory is selected twice.
LEMMA PlanHasNoRepeats ==
    ASSUME NEW Q, NEW order \in Seq(Files \X Q), Q \subseteq Policies, NEW ts \in Seq(Files),
           NoRepeats(ts), EachPlays(order, Q, ts),
           NEW a \in 1..Len(order), NEW b \in 1..Len(order), order[a] = order[b]
    PROVE  a = b
<1>1. PICK t \in Files, p \in Q : order[a] = <<t, p>> /\ order[b] = <<t, p>>
  <2>1. order[a] \in Files \X Q
    BY ElementOfSeq
  <2> QED
    BY <2>1
<1> DEFINE kept == Filter(order, Replays(p))
<1>2. order[a] \in Replays(p) /\ order[b] \in Replays(p)
  BY <1>1 DEF Replays
<1>3. PICK e : Keeps(kept, e, order, Replays(p), Len(order))
  BY FilterKeeps
<1>4. Len(kept) = Len(ts) /\ \A k \in 1..Len(ts) : kept[k] = <<ts[k], p>>
  <2>1. kept = Mapped(ts, Under(p))
    BY <1>1, Zenon DEF EachPlays
  <2>2. /\ Len(Mapped(ts, Under(p))) = Len(ts)
        /\ \A k \in 1..Len(ts) : Mapped(ts, Under(p))[k] = Under(p)[ts[k]]
    <3>1. ListOfImages(Mapped(ts, Under(p)), ts, Under(p), Files)
      BY ImagesAre
    <3> QED
      BY <3>1, Zenon DEF ListOfImages
  <2>3. \A k \in 1..Len(ts) : Under(p)[ts[k]] = <<ts[k], p>>
    <3>1. \A k \in 1..Len(ts) : ts[k] \in Files
      BY ElementOfSeq
    <3> QED
      BY <3>1 DEF Under
  <2> HIDE DEF kept
  <2> QED
    BY <2>1, <2>2, <2>3, Zenon
<1> HIDE DEF kept
<1>5. PICK k \in 1..Len(kept) : e[k] = a
  BY <1>2, <1>3, Zenon DEF Keeps
<1>6. PICK l \in 1..Len(kept) : e[l] = b
  BY <1>2, <1>3, Zenon DEF Keeps
<1>7. kept[k] = order[a] /\ kept[l] = order[b]
  BY <1>3, <1>5, <1>6, Zenon DEF Keeps
<1>8. ts[k] = ts[l] /\ k \in 1..Len(ts) /\ l \in 1..Len(ts)
  BY <1>1, <1>4, <1>5, <1>6, <1>7
<1>9. k = l
  BY <1>8, Zenon DEF NoRepeats
<1> QED
  BY <1>5, <1>6, <1>9
-----------------------------------------------------------------------------
\* What a result says was replayed.
RunOf(r) == <<r.trajectory, r.policy>>

\* The rows of one replay of n steps.
Block(t, p, n, fired) ==
    [k \in 1..n |-> [trajectory |-> t, policy |-> p, step |-> k - 1, fired |-> k - 1 \in fired]]

\* They are of one trajectory and one policy, counted from 0.
LEMMA BlockIs ==
    ASSUME NEW t \in Files, NEW p \in Policies, NEW n \in Nat, NEW fired
    PROVE  LET r == Block(t, p, n, fired)
           IN  /\ r \in Seq(Row) /\ Len(r) = n /\ AllOf(r, t) /\ AllUnder(r, p)
               /\ \A k \in 1..n : r[k].step = k - 1 /\ (r[k].fired <=> k - 1 \in fired)
<1> DEFINE r == Block(t, p, n, fired)
           row(k) == [trajectory |-> t, policy |-> p, step |-> k - 1, fired |-> k - 1 \in fired]
<1>1. r = [k \in 1..n |-> row(k)]
  BY Zenon DEF Block
<1>2. ASSUME NEW k \in 1..n
      PROVE  /\ row(k) \in Row /\ row(k).trajectory = t /\ row(k).policy = p
             /\ row(k).step = k - 1 /\ (row(k).fired <=> k - 1 \in fired)
  <2>1. k - 1 \in Nat /\ (k - 1 \in fired) \in BOOLEAN
    OBVIOUS
  <2> QED
    BY <2>1 DEF Row
<1> HIDE DEF row, r
<1>3. /\ r \in [1..n -> Row]
      /\ \A k \in 1..n : /\ r[k].trajectory = t /\ r[k].policy = p
                         /\ r[k].step = k - 1 /\ (r[k].fired <=> k - 1 \in fired)
  <2>1. \A k \in 1..n : r[k] = row(k)
    BY <1>1, Zenon
  <2> QED
    BY <1>1, <1>2, <2>1, Zenon
<1>4. r \in Seq(Row) /\ Len(r) = n
  <2>1. r \in Seq(Row)
    BY <1>3, SeqDef
  <2> QED
    BY <1>3, <2>1, LenProperties
<1>5. AllOf(r, t) /\ AllUnder(r, p)
  BY <1>3, <1>4, Zenon DEF AllOf, AllUnder
<1> QED
  BY <1>3, <1>4, <1>5, Zenon DEF r

\* A sweep that has come so far: its rows a and its results rs follow its order,
\* no replay comes twice, and policy by policy the results count the rows.
SweepOf(a, rs, order) ==
    /\ a \in Seq(Row) /\ rs \in Seq(Result) /\ order \in Seq(Files \X Policies)
    /\ Len(rs) <= Len(order)
    /\ \A n, m \in 1..Len(order) : order[n] = order[m] => n = m
    /\ \A n \in 1..Len(rs) : RunOf(rs[n]) = order[n]
    /\ \A p \in Policies : Aligned(OfPolicy(a, p), OfPolicy(rs, p), "steps")

\* The next replay was not in the results of its policy before.
LEMMA NextIsNew ==
    ASSUME NEW a, NEW rs, NEW order, SweepOf(a, rs, order),
           Len(rs) < Len(order), NEW t, NEW p, order[Len(rs) + 1] = <<t, p>>,
           NEW m \in 1..Len(OfPolicy(rs, p))
    PROVE  OfPolicy(rs, p)[m].trajectory # t
<1> DEFINE kept == OfPolicy(rs, p)
           T == WithPolicy(Result, p)
<1>1. rs \in Seq(Result) /\ Len(rs) \in Nat /\ Len(order) \in Nat
  BY LenProperties DEF SweepOf
<1>2. kept = Filter(rs, T)
  BY <1>1, FramesAre, Zenon
<1>3. PICK e : Keeps(kept, e, rs, T, Len(rs))
  <2>1. \E e : Keeps(Filter(rs, T), e, rs, T, Len(rs))
    BY <1>1, FilterKeeps
  <2> QED
    BY <1>2, <2>1, Zenon
<1>4. m \in 1..Len(kept)
  OBVIOUS
<1> HIDE DEF kept
<1>5. e[m] \in 1..Len(rs) /\ kept[m] = rs[e[m]] /\ kept[m] \in T
  BY <1>3, <1>4, Zenon DEF Keeps
<1>6. kept[m].policy = p
  BY <1>5 DEF WithPolicy
<1>7. <<kept[m].trajectory, p>> = order[e[m]]
  <2>1. RunOf(rs[e[m]]) = order[e[m]]
    BY <1>5, Zenon DEF SweepOf
  <2> QED
    BY <1>5, <1>6, <2>1, Zenon DEF RunOf
<1>8. ASSUME kept[m].trajectory = t PROVE FALSE
  <2>1. order[e[m]] = order[Len(rs) + 1]
    BY <1>7, <1>8, Zenon
  <2>2. e[m] \in 1..Len(order) /\ Len(rs) + 1 \in 1..Len(order)
    BY <1>1, <1>5
  <2>3. e[m] = Len(rs) + 1
    BY <2>1, <2>2, Zenon DEF SweepOf
  <2> QED
    BY <1>1, <1>5, <2>3
<1> QED
  BY <1>8 DEF kept

\* The next replay, with its rows and its result.
LEMMA SweepGrows ==
    ASSUME NEW a, NEW rs, NEW order, SweepOf(a, rs, order), Len(rs) < Len(order),
           NEW t \in Files, NEW p \in Policies, order[Len(rs) + 1] = <<t, p>>,
           NEW r \in Seq(Row), AllOf(r, t), AllUnder(r, p),
           NEW x \in Result, RunOf(x) = <<t, p>>, x.steps = Len(r)
    PROVE  SweepOf(a \o r, Append(rs, x), order)
<1> DEFINE us == Append(rs, x)
<1>1. /\ a \in Seq(Row) /\ rs \in Seq(Result) /\ order \in Seq(Files \X Policies)
      /\ Len(rs) \in Nat /\ Len(order) \in Nat
  BY LenProperties DEF SweepOf
<1>2. x.trajectory = t /\ x.policy = p
  BY DEF RunOf
<1>3. /\ us \in Seq(Result) /\ Len(us) = Len(rs) + 1 /\ us[Len(rs) + 1] = x
      /\ \A n \in 1..Len(rs) : us[n] = rs[n]
      /\ a \o r \in Seq(Row)
  BY <1>1, AppendProperties, ConcatProperties
<1>4. \A n \in 1..Len(us) : RunOf(us[n]) = order[n]
  <2> TAKE n \in 1..Len(us)
  <2>1. CASE n \in 1..Len(rs)
    BY <1>3, <2>1, Zenon DEF SweepOf
  <2>2. CASE n = Len(rs) + 1
    BY <1>3, <2>2, Zenon
  <2> QED
    BY <1>1, <1>3, <2>1, <2>2
<1>5. us = rs \o <<x>> /\ <<x>> \in Seq(Result) /\ AllUnder(<<x>>, p)
  <2>1. Len(<<x>>) = 1 /\ \A n \in 1..1 : <<x>>[n] = x
    OBVIOUS
  <2> QED
    BY <1>1, <1>2, <2>1, AppendIsConcat DEF AllUnder
<1> HIDE DEF us
<1>6. ASSUME NEW q \in Policies
      PROVE  Aligned(OfPolicy(a \o r, q), OfPolicy(us, q), "steps")
  <2>0. Aligned(OfPolicy(a, q), OfPolicy(rs, q), "steps")
    BY DEF SweepOf
  <2>1. /\ OfPolicy(a, q) \in Seq(Row)
        /\ q = p => OfPolicy(a \o r, q) = OfPolicy(a, q) \o r
        /\ q # p => OfPolicy(a \o r, q) = OfPolicy(a, q)
    <3>1. FramesGrow(a, r, p, Row)
      BY <1>1, PolicyGrows, Zenon
    <3> QED
      BY <3>1 DEF FramesGrow
  <2>2. /\ OfPolicy(rs, q) \in Seq(Result)
        /\ q = p => OfPolicy(rs \o <<x>>, q) = OfPolicy(rs, q) \o <<x>>
        /\ q # p => OfPolicy(rs \o <<x>>, q) = OfPolicy(rs, q)
    <3>1. FramesGrow(rs, <<x>>, p, Result)
      BY <1>1, <1>5, PolicyGrows, Zenon
    <3> QED
      BY <3>1 DEF FramesGrow
  <2>3. CASE q # p
    BY <1>5, <2>0, <2>1, <2>2, <2>3, Zenon
  <2>4. CASE q = p
    <3>1. OfPolicy(us, q) = Append(OfPolicy(rs, q), x)
      <4>1. Append(OfPolicy(rs, q), x) = OfPolicy(rs, q) \o <<x>>
        BY <2>2, AppendIsConcat
      <4> QED
        BY <1>5, <2>2, <2>4, <4>1, Zenon
    <3>2. \A n \in 1..Len(OfPolicy(rs, q)) : OfPolicy(rs, q)[n].trajectory # x.trajectory
      <4>1. \A n \in 1..Len(OfPolicy(rs, p)) : OfPolicy(rs, p)[n].trajectory # t
        BY NextIsNew
      <4> QED
        BY <1>2, <2>4, <4>1, Zenon
    <3> DEFINE b == OfPolicy(a, q)
               vs == OfPolicy(rs, q)
    <3>3. b \in Seq(Row) /\ vs \in Seq(Result) /\ Aligned(b, vs, "steps") /\ AllOf(r, x.trajectory)
      BY <1>2, <2>0, <2>1, <2>2, Zenon
    <3>4. \A n \in 1..Len(vs) : vs[n].trajectory # x.trajectory
      BY <3>2
    <3>5. "steps" \in {"steps", "events"} /\ Len(r) = x["steps"]
      OBVIOUS
    <3> HIDE DEF b, vs
    <3>6. Aligned(b \o r, Append(vs, x), "steps")
      BY <3>3, <3>4, <3>5, AlignedGrows
    <3> QED
      BY <2>1, <2>4, <3>1, <3>6, Zenon DEF b, vs
  <2> QED
    BY <2>3, <2>4
<1>7. Len(us) <= Len(order)
  BY <1>1, <1>3
<1> QED
  BY <1>1, <1>3, <1>4, <1>6, <1>7, Zenon DEF SweepOf, us

\* A sweep that has not replayed anything yet.
LEMMA SweepStarts ==
    ASSUME NEW order \in Seq(Files \X Policies),
           \A n, m \in 1..Len(order) : order[n] = order[m] => n = m
    PROVE  SweepOf(<<>>, <<>>, order)
<1>1. <<>> \in Seq(Row) /\ <<>> \in Seq(Result) /\ Len(<<>>) = 0 /\ Len(order) \in Nat
  BY EmptySeq, LenProperties
<1>2. \A p : OfPolicy(<<>>, p) = <<>>
  BY FilterEmpty, Zenon DEF OfPolicy
<1>3. \A p : Aligned(OfPolicy(<<>>, p), OfPolicy(<<>>, p), "steps")
  BY <1>2, AlignedEmpty, Zenon
<1>4. Len(<<>>) <= Len(order) /\ \A n \in 1..Len(<<>>) : RunOf(<<>>[n]) = order[n]
  BY <1>1
<1> QED
  BY <1>1, <1>3, <1>4, Zenon DEF SweepOf
-----------------------------------------------------------------------------
\* Which trajectories the runs of a frame are of, as split_into_runs cuts it.
RunSets(frame) ==
    LET from == RunStarts(frame)
    IN  [n \in 1..Len(from) |-> TrajectoriesOf(
            SubSeq(frame, from[n], IF n = Len(from) THEN Len(frame) ELSE from[n + 1] - 1))]

\* Those of the results.
Single == [r \in Result |-> {r.trajectory}]
SetsOf(rs) == Mapped(rs, Single)

\* The positions of a list, and those at which a run starts.
Positions(m) == [i \in 1..m |-> i]
IsStart(frame) == { i \in 1..Len(frame) : i = 1 \/ frame[i].step = 0 }

\* Positions are a list of numbers.
LEMMA PositionsAre ==
    ASSUME NEW m \in Nat
    PROVE  /\ Positions(m) \in Seq(1..m) /\ Len(Positions(m)) = m
           /\ \A i \in 1..m : Positions(m)[i] = i
<1>1. Positions(m) \in [1..m -> 1..m] /\ \A i \in 1..m : Positions(m)[i] = i
  BY DEF Positions
<1>2. Positions(m) \in Seq(1..m)
  BY <1>1, SeqDef
<1> QED
  BY <1>1, <1>2, LenProperties

\* A run starts in the frame, and before the one behind it.
LEMMA StartsAre ==
    ASSUME NEW S, NEW a \in Seq(S)
    PROVE  /\ RunStarts(a) \in Seq(Nat) /\ Len(RunStarts(a)) \in Nat
           /\ \A n \in 1..Len(RunStarts(a)) : RunStarts(a)[n] \in 1..Len(a)
<1> DEFINE m == Len(a)
           T == IsStart(a)
           ps == Positions(m)
<1>1. m \in Nat /\ RunStarts(a) = Filter(ps, T)
  BY LenProperties DEF RunStarts, Positions, IsStart
<1> HIDE DEF m, T
<1>2. ps \in Seq(1..m) /\ Len(ps) = m /\ \A i \in 1..m : ps[i] = i
  BY <1>1, PositionsAre
<1> HIDE DEF ps
<1>3. Filter(ps, T) \in Seq(1..m)
  BY <1>2, FilterKeeps
<1>4. \A n \in 1..Len(RunStarts(a)) : RunStarts(a)[n] \in 1..m
  <2>1. RunStarts(a) \in Seq(1..m)
    BY <1>1, <1>3
  <2> QED
    BY <2>1, ElementOfSeq, Zenon
<1>5. RunStarts(a) \in Seq(Nat)
  <2>1. 1..m \subseteq Nat
    OBVIOUS
  <2> QED
    BY <1>1, <1>3, <2>1, SeqMonotonic
<1> QED
  BY <1>4, <1>5, LenProperties DEF m

\* The rows of one replay behind others are one run more.
LEMMA StartsGrow ==
    ASSUME NEW a \in Seq(Row), NEW r \in Seq(Row), Len(r) # 0,
           \A k \in 1..Len(r) : r[k].step = k - 1
    PROVE  RunStarts(a \o r) = Append(RunStarts(a), Len(a) + 1)
<1> DEFINE m == Len(a)
           n == Len(r)
           b == a \o r
           T == IsStart(b)
           more == [j \in 1..n |-> m + j]
<1>1. /\ m \in Nat /\ n \in Nat \ {0} /\ b \in Seq(Row) /\ Len(b) = m + n
      /\ \A i \in 1..(m + n) : b[i] = IF i <= m THEN a[i] ELSE r[i - m]
  BY LenProperties, ConcatProperties
<1>2. /\ RunStarts(b) = Filter(Positions(m + n), T)
      /\ RunStarts(a) = Filter(Positions(m), IsStart(a))
  BY <1>1 DEF RunStarts, Positions, IsStart
<1>3. \A i \in 1..m : i \in T <=> i \in IsStart(a)
  <2> TAKE i \in 1..m
  <2>1. b[i] = a[i] /\ i \in 1..Len(b)
    BY <1>1
  <2> HIDE DEF b
  <2> QED
    BY <1>1, <2>1 DEF IsStart
<1>4. \A j \in 1..n : m + j \in T <=> j = 1
  <2> TAKE j \in 1..n
  <2>1. b[m + j] = r[j] /\ m + j \in 1..Len(b)
    <3>1. m + j \in 1..(m + n) /\ ~(m + j <= m) /\ (m + j) - m = j
      BY <1>1
    <3> QED
      BY <1>1, <3>1, Zenon
  <2>2. r[j].step = j - 1
    OBVIOUS
  <2> HIDE DEF b
  <2>3. m + j \in T <=> m + j = 1 \/ r[j].step = 0
    BY <2>1, Zenon DEF IsStart
  <2> QED
    BY <1>1, <2>2, <2>3
<1> HIDE DEF m, n, b, T
<1>5. more \in Seq(Nat) /\ Len(more) = n /\ \A j \in 1..n : more[j] = m + j
  <2>1. more \in [1..n -> Nat] /\ \A j \in 1..n : more[j] = m + j
    BY <1>1
  <2> HIDE DEF more
  <2>2. more \in Seq(Nat)
    BY <1>1, <2>1, SeqDef
  <2> QED
    BY <1>1, <2>1, <2>2, LenProperties
<1>6. Positions(m) \in Seq(Nat) /\ Len(Positions(m)) = m /\ \A i \in 1..m : Positions(m)[i] = i
  <2>1. 1..m \subseteq Nat
    OBVIOUS
  <2> QED
    BY <1>1, <2>1, PositionsAre, SeqMonotonic
<1> HIDE DEF more
<1>7. Positions(m + n) = Positions(m) \o more
  <2> DEFINE ps == Positions(m)
             u == ps \o more
             w == Positions(m + n)
  <2>0. ps \in Seq(Nat) /\ Len(ps) = m
    BY <1>6
  <2> HIDE DEF ps
  <2>1. /\ u \in Seq(Nat) /\ Len(u) = m + n
        /\ \A i \in 1..(m + n) : u[i] = IF i <= m THEN ps[i] ELSE more[i - m]
    BY <1>5, <2>0, ConcatProperties
  <2>2. w \in Seq(1..(m + n)) /\ Len(w) = m + n /\ \A i \in 1..(m + n) : w[i] = i
    BY <1>1, PositionsAre
  <2>3. w \in Seq(Nat)
    <3>1. 1..(m + n) \subseteq Nat
      OBVIOUS
    <3> QED
      BY <2>2, <3>1, SeqMonotonic
  <2> HIDE DEF u, w
  <2>4. \A i \in 1..(m + n) : w[i] = u[i]
    <3> TAKE i \in 1..(m + n)
    <3>1. CASE i <= m
      <4>1. i \in 1..m
        BY <1>1, <3>1
      <4>2. ps[i] = i
        BY <1>6, <4>1, Zenon DEF ps
      <4> QED
        BY <2>1, <2>2, <3>1, <4>2, Zenon
    <3>2. CASE ~(i <= m)
      <4>1. i - m \in 1..n /\ m + (i - m) = i
        BY <1>1, <3>2
      <4>2. more[i - m] = i
        BY <1>5, <4>1, Zenon
      <4> QED
        BY <2>1, <2>2, <3>2, <4>2, Zenon
    <3> QED
      BY <3>1, <3>2
  <2>5. w = u
    BY <2>1, <2>2, <2>3, <2>4, SeqEqual
  <2> QED
    BY <2>5 DEF w, u, ps
<1>8. Filter(Positions(m) \o more, T) = Filter(Positions(m), T) \o Filter(more, T)
  BY <1>5, <1>6, FilterConcat
<1>9. Filter(Positions(m), T) = RunStarts(a)
  <2>1. \A i \in 1..Len(Positions(m)) : Positions(m)[i] \in T <=> Positions(m)[i] \in IsStart(a)
    BY <1>3, <1>6
  <2>2. Filter(Positions(m), T) = Filter(Positions(m), IsStart(a))
    BY <1>6, <2>1, FilterSame
  <2> QED
    BY <1>2, <2>2, Zenon
<1>10. Filter(more, T) = <<m + 1>>
  <2>1. 1 \in 1..Len(more) /\ more[1] = m + 1 /\ more[1] \in T
    BY <1>1, <1>4, <1>5
  <2>2. \A j \in 1..Len(more) : more[j] \in T => j = 1
    BY <1>4, <1>5, Zenon
  <2>3. Filter(more, T) = <<more[1]>>
    BY <1>5, <2>1, <2>2, FilterOne
  <2> QED
    BY <2>1, <2>3, Zenon
<1>11. RunStarts(b) = RunStarts(a) \o <<m + 1>>
  BY <1>2, <1>7, <1>8, <1>9, <1>10, Zenon
<1>12. RunStarts(a) \o <<m + 1>> = Append(RunStarts(a), m + 1)
  <2>1. RunStarts(a) \in Seq(Nat) /\ m + 1 \in Nat
    BY <1>1, StartsAre
  <2> QED
    BY <2>1, AppendIsConcat
<1> QED
  BY <1>11, <1>12, Zenon DEF b, m

\* Runs of known trajectories: the list of them is a list.
LEMMA RunSetsAre ==
    ASSUME NEW a \in Seq(Row)
    PROVE  /\ RunSets(a) \in Seq(SUBSET Files) /\ Len(RunSets(a)) = Len(RunStarts(a))
<1> DEFINE from == RunStarts(a)
           end(n) == IF n = Len(from) THEN Len(a) ELSE from[n + 1] - 1
<1>1. /\ from \in Seq(Nat) /\ Len(from) \in Nat /\ Len(a) \in Nat
      /\ \A n \in 1..Len(from) : from[n] \in 1..Len(a)
  BY StartsAre, LenProperties
<1>2. RunSets(a) = [n \in 1..Len(from) |-> TrajectoriesOf(SubSeq(a, from[n], end(n)))]
  BY Zenon DEF RunSets
<1> HIDE DEF from
<1>3. ASSUME NEW n \in 1..Len(from)
      PROVE  TrajectoriesOf(SubSeq(a, from[n], end(n))) \in SUBSET Files
  <2>1. from[n] \in Int /\ end(n) \in Int /\ from[n] >= 1 /\ end(n) <= Len(a)
    <3>1. CASE n = Len(from)
      BY <1>1, <3>1
    <3>2. CASE n # Len(from)
      <4>1. n + 1 \in 1..Len(from)
        BY <1>1, <3>2
      <4>2. from[n + 1] \in 1..Len(a) /\ from[n] \in 1..Len(a)
        BY <1>1, <4>1
      <4> QED
        BY <1>1, <3>2, <4>2
    <3> QED
      BY <3>1, <3>2
  <2> DEFINE u == SubSeq(a, from[n], end(n))
             lo == from[n]
             hi == end(n)
  <2>2. u \in Seq(Row)
    <3> HIDE DEF lo, hi
    <3>1. \A i \in lo..hi : a[i] \in Row
      <4> TAKE i \in lo..hi
      <4>1. i \in 1..Len(a)
        BY <1>1, <2>1 DEF lo, hi
      <4> QED
        BY <4>1, ElementOfSeq
    <3>2. lo \in Int /\ hi \in Int
      BY <2>1 DEF lo, hi
    <3>3. SubSeq(a, lo, hi) \in Seq(Row)
      BY <3>1, <3>2, SubSeqProperties
    <3> QED
      BY <3>3 DEF lo, hi
  <2> HIDE DEF u
  <2>3. ToSet(u) \subseteq Row
    <3>1. \A i \in DOMAIN u : u[i] \in Row
      BY <2>2, ElementOfSeq, LenProperties
    <3> QED
      BY <3>1, Zenon DEF ToSet
  <2>4. TrajectoriesOf(u) \subseteq Files
    BY <2>3 DEF TrajectoriesOf, Row
  <2> QED
    BY <2>4 DEF u
<1>4. RunSets(a) \in [1..Len(from) -> SUBSET Files]
  <2> HIDE DEF end
  <2> QED
    BY <1>2, <1>3, Zenon
<1>5. RunSets(a) \in Seq(SUBSET Files)
  <2>1. \A L \in Nat : [1..L -> SUBSET Files] \subseteq Seq(SUBSET Files)
    BY SeqDef
  <2> QED
    BY <1>1, <1>4, <2>1, Zenon
<1> QED
  BY <1>1, <1>4, <1>5, LenProperties DEF from

\* A list of rows all of one trajectory has that one alone.
LEMMA OneTrajectory ==
    ASSUME NEW r \in Seq(Row), Len(r) # 0, NEW t, AllOf(r, t)
    PROVE  TrajectoriesOf(r) = {t}
<1>1. Len(r) \in Nat /\ DOMAIN r = 1..Len(r)
  BY LenProperties
<1>2. \A x : x \in ToSet(r) <=> \E i \in 1..Len(r) : x = r[i]
  BY <1>1, Zenon DEF ToSet
<1>3. 1 \in 1..Len(r) /\ r[1].trajectory = t
  BY <1>1 DEF AllOf
<1>4. \A x \in ToSet(r) : x.trajectory = t
  BY <1>2 DEF AllOf
<1>5. \E x \in ToSet(r) : x.trajectory = t
  BY <1>2, <1>3
<1> QED
  BY <1>4, <1>5 DEF TrajectoriesOf

\* One replay more is one run more, of its trajectory, and changes no other.
LEMMA RunSetsGrow ==
    ASSUME NEW a \in Seq(Row), NEW r \in Seq(Row), Len(r) # 0,
           \A k \in 1..Len(r) : r[k].step = k - 1,
           NEW t \in Files, AllOf(r, t)
    PROVE  RunSets(a \o r) = Append(RunSets(a), {t})
<1> DEFINE b == a \o r
           m == Len(a)
           from == RunStarts(a)
           next == RunStarts(b)
           L == Len(from)
           u == RunSets(a)
           w == RunSets(b)
           v == Append(u, {t})
           end(n) == IF n = L THEN m ELSE from[n + 1] - 1
           end2(n) == IF n = Len(next) THEN Len(b) ELSE next[n + 1] - 1
<1>1. /\ b \in Seq(Row) /\ Len(b) = m + Len(r) /\ m \in Nat /\ Len(r) \in Nat
  BY ConcatProperties, LenProperties
<1>2. /\ from \in Seq(Nat) /\ L \in Nat
      /\ \A n \in 1..L : from[n] \in 1..m
  BY StartsAre
<1>3. /\ Len(next) = L + 1 /\ next[L + 1] = m + 1
      /\ \A n \in 1..L : next[n] = from[n]
  <2>1. next = Append(from, m + 1)
    BY StartsGrow
  <2>2. m + 1 \in Nat
    BY <1>1
  <2> HIDE DEF next, from, m
  <2> QED
    BY <1>2, <2>1, <2>2, AppendProperties
<1>4. /\ u \in Seq(SUBSET Files) /\ Len(u) = L
      /\ w \in Seq(SUBSET Files) /\ Len(w) = L + 1
  BY <1>1, <1>3, RunSetsAre
<1>5. /\ v \in Seq(SUBSET Files) /\ Len(v) = L + 1 /\ v[L + 1] = {t}
      /\ \A n \in 1..L : v[n] = u[n]
  <2>1. {t} \in SUBSET Files
    OBVIOUS
  <2> HIDE DEF u, L
  <2> QED
    BY <1>4, <2>1, AppendProperties
<1>6. /\ u = [n \in 1..L |-> TrajectoriesOf(SubSeq(a, from[n], end(n)))]
      /\ w = [n \in 1..Len(next) |-> TrajectoriesOf(SubSeq(b, next[n], end2(n)))]
  BY Zenon DEF RunSets
<1> HIDE DEF from, next, u, w, v
<1>7. ASSUME NEW n \in 1..L PROVE w[n] = u[n]
  <2>1. next[n] = from[n] /\ end2(n) = end(n) /\ end(n) \in 0..m
    <3>1. CASE n = L
      <4>1. n # Len(next) /\ next[n + 1] = m + 1
        BY <1>2, <1>3, <3>1
      <4> QED
        BY <1>1, <1>3, <3>1, <4>1
    <3>2. CASE n # L
      <4>1. n # Len(next) /\ n + 1 \in 1..L
        BY <1>2, <1>3, <3>2
      <4>2. next[n + 1] = from[n + 1] /\ from[n + 1] \in 1..m
        BY <1>2, <1>3, <4>1
      <4>3. end2(n) = end(n) /\ end(n) = from[n + 1] - 1
        BY <3>2, <4>1, <4>2
      <4> QED
        BY <1>1, <1>3, <4>2, <4>3
    <3> QED
      BY <3>1, <3>2
  <2> DEFINE lo == from[n] - 1
             hi == end(n)
  <2>2. lo \in Nat /\ hi \in Nat /\ hi <= m /\ from[n] = lo + 1
    <3>1. from[n] \in 1..m
      BY <1>2
    <3> QED
      BY <1>1, <2>1, <3>1
  <2> HIDE DEF lo, hi
  <2>3. SubSeq(b, lo + 1, hi) = SubSeq(a, lo + 1, hi)
    BY <2>2, PartStays
  <2>4. SubSeq(b, next[n], end2(n)) = SubSeq(a, from[n], end(n))
    BY <2>1, <2>2, <2>3, Zenon DEF hi
  <2>5. n \in 1..Len(next)
    BY <1>2, <1>3
  <2>6. w[n] = TrajectoriesOf(SubSeq(b, next[n], end2(n)))
    <3> HIDE DEF end2
    <3> QED
      BY <1>6, <2>5, Zenon
  <2>7. u[n] = TrajectoriesOf(SubSeq(a, from[n], end(n)))
    <3> HIDE DEF end
    <3> QED
      BY <1>6, Zenon
  <2> QED
    BY <2>4, <2>6, <2>7, Zenon
<1>8. w[L + 1] = {t}
  <2>1. L + 1 \in 1..Len(next) /\ end2(L + 1) = m + Len(r) /\ next[L + 1] = m + 1
    BY <1>1, <1>2, <1>3
  <2>2. SubSeq(b, m + 1, m + Len(r)) = r
    BY RestIs
  <2>3. w[L + 1] = TrajectoriesOf(SubSeq(b, next[L + 1], end2(L + 1)))
    <3> HIDE DEF end2
    <3> QED
      BY <1>6, <2>1, Zenon
  <2> QED
    BY <2>1, <2>2, <2>3, OneTrajectory, Zenon
<1>9. \A n \in 1..(L + 1) : w[n] = v[n]
  <2> TAKE n \in 1..(L + 1)
  <2>1. CASE n \in 1..L
    BY <1>5, <1>7, <2>1, Zenon
  <2>2. CASE n = L + 1
    BY <1>5, <1>8, <2>2, Zenon
  <2> QED
    BY <1>2, <2>1, <2>2
<1>10. w = v
  BY <1>4, <1>5, <1>9, SeqEqual
<1> QED
  BY <1>10 DEF w, v, u, b
-----------------------------------------------------------------------------
\* A filter repeats nothing, and returns what it asks for.
LEMMA FilterRepeatsNothing ==
    ASSUME NEW S, NEW s \in Seq(S), NoRepeats(s), NEW T
    PROVE  /\ NoRepeats(Filter(s, T))
           /\ \A k \in 1..Len(Filter(s, T)) :
                /\ Filter(s, T)[k] \in T
                /\ \E j \in 1..Len(s) : Filter(s, T)[k] = s[j]
<1> DEFINE t == Filter(s, T)
<1>1. PICK e : Keeps(t, e, s, T, Len(s))
  BY FilterKeeps
<1>2. t \in Seq(S) /\ Len(t) \in Nat
  BY FilterKeeps, LenProperties
<1> HIDE DEF t
<1>3. \A k \in 1..Len(t) : e[k] \in 1..Len(s) /\ t[k] = s[e[k]] /\ t[k] \in T
  BY <1>1 DEF Keeps
<1>4. ASSUME NEW i \in 1..Len(t), NEW j \in 1..Len(t), t[i] = t[j] PROVE i = j
  <2>1. e[i] = e[j]
    <3>1. s[e[i]] = s[e[j]] /\ e[i] \in 1..Len(s) /\ e[j] \in 1..Len(s)
      BY <1>3, <1>4, Zenon
    <3> QED
      BY <3>1, Zenon DEF NoRepeats
  <2>2. i < j => e[i] < e[j]
    BY <1>1, Zenon DEF Keeps
  <2>3. j < i => e[j] < e[i]
    BY <1>1, Zenon DEF Keeps
  <2>4. e[i] \in Nat /\ e[j] \in Nat /\ i \in Nat /\ j \in Nat
    BY <1>3
  <2> QED
    BY <2>1, <2>2, <2>3, <2>4
<1> QED
  BY <1>3, <1>4, Zenon DEF NoRepeats, t

\* A trajectory is listed once.
LEMMA ListedAre ==
    /\ Listed \in Seq(Files) /\ NoRepeats(Listed)
    /\ \A n \in 1..Len(Listed) : Listed[n] \in DOMAIN dir
<1> DEFINE all == <<SmokeTest>> \o Trajectories
           T == { f \in DOMAIN dir : dir[f].exists }
<1>1. /\ Trajectories \in Seq(Files) /\ <<SmokeTest>> \in Seq(Files)
      /\ Len(<<SmokeTest>>) = 1 /\ <<SmokeTest>>[1] = SmokeTest
      /\ Len(Trajectories) \in Nat /\ DOMAIN Trajectories = 1..Len(Trajectories)
  <2>1. ToSet(Trajectories) \subseteq Files /\ SmokeTest \in Files
    BY DEF Files
  <2>2. Trajectories \in Seq(Files)
    BY <2>1, RecorderAssumption, SeqMonotonic
  <2> QED
    BY <2>1, <2>2, LenProperties
<1>2. /\ all \in Seq(Files) /\ Len(all) = 1 + Len(Trajectories)
      /\ \A i \in 1..(1 + Len(Trajectories)) :
            all[i] = IF i <= 1 THEN SmokeTest ELSE Trajectories[i - 1]
  <2> DEFINE one == <<SmokeTest>>
  <2>1. one \in Seq(Files) /\ Len(one) = 1 /\ one[1] = SmokeTest
    BY <1>1
  <2> HIDE DEF one
  <2>2. /\ one \o Trajectories \in Seq(Files)
        /\ Len(one \o Trajectories) = 1 + Len(Trajectories)
        /\ \A i \in 1..(1 + Len(Trajectories)) :
              (one \o Trajectories)[i] = IF i <= 1 THEN one[i] ELSE Trajectories[i - 1]
    <3>1. /\ one \o Trajectories \in Seq(Files)
          /\ Len(one \o Trajectories) = Len(one) + Len(Trajectories)
          /\ \A i \in 1..(Len(one) + Len(Trajectories)) :
                (one \o Trajectories)[i]
                    = IF i <= Len(one) THEN one[i] ELSE Trajectories[i - Len(one)]
      <4>1. Trajectories \in Seq(Files) /\ one \in Seq(Files)
        BY <1>1, <2>1
      <4> QED
        BY ONLY <4>1, ConcatProperties, Zenon
    <3> QED
      BY <2>1, <3>1
  <2>3. \A i \in 1..(1 + Len(Trajectories)) : i <= 1 => i = 1
    BY <1>1
  <2>4. \A i \in 1..(1 + Len(Trajectories)) :
            (one \o Trajectories)[i] = IF i <= 1 THEN SmokeTest ELSE Trajectories[i - 1]
    BY <2>1, <2>2, <2>3
  <2> QED
    BY <2>2, <2>4 DEF one
<1> HIDE DEF all
<1>3. \A k \in 1..Len(Trajectories) : Trajectories[k] # SmokeTest
  <2>1. \A k \in DOMAIN Trajectories : Trajectories[k] \in ToSet(Trajectories)
    BY Zenon DEF ToSet
  <2> QED
    BY <1>1, <2>1, RecorderAssumption, Zenon
<1>4. NoRepeats(all)
  <2> SUFFICES ASSUME NEW i \in 1..Len(all), NEW j \in 1..Len(all), all[i] = all[j] PROVE i = j
    BY DEF NoRepeats
  <2>1. \A n \in 1..Len(all) : n # 1 => /\ n - 1 \in 1..Len(Trajectories)
                                        /\ all[n] = Trajectories[n - 1]
    BY <1>1, <1>2
  <2>2. \A n \in 1..Len(all) : n = 1 => all[n] = SmokeTest
    BY <1>1, <1>2
  <2>3. CASE i = 1 \/ j = 1
    BY <1>3, <2>1, <2>2, <2>3, Zenon
  <2>4. CASE i # 1 /\ j # 1
    <3>1. i - 1 = j - 1
      BY <1>1, <2>1, <2>4, RecorderAssumption, Zenon
    <3> QED
      BY <1>1, <1>2, <3>1
  <2> QED
    BY <2>3, <2>4
<1> HIDE DEF T
<1>5. Listed = Filter(all, T)
  BY DEF Listed, all, T
<1>6. /\ NoRepeats(Filter(all, T))
      /\ \A k \in 1..Len(Filter(all, T)) : Filter(all, T)[k] \in T
  BY <1>2, <1>4, FilterRepeatsNothing
<1>7. Filter(all, T) \in Seq(Files)
  BY <1>2, FilterKeeps
<1>8. T \subseteq DOMAIN dir
  BY DEF T
<1> QED
  BY <1>5, <1>6, <1>7, <1>8, Zenon

\* Once a sweep can load what it selects, there is something to replay of each.
LEMMA SelectedPlays ==
    ASSUME NEW name, CanLoad(Selected(name)), \A f \in DOMAIN dir : dir[f].lines \in Nat
    PROVE  LET ts == Selected(name)
           IN  /\ ts \in Seq(Files) /\ ts # <<>> /\ NoRepeats(ts)
               /\ \A k \in 1..Len(ts) : Turns(ts[k]) \in Nat \ {0}
<1> DEFINE ts == Selected(name)
<1>1. /\ Listed \in Seq(Files) /\ NoRepeats(Listed) /\ DOMAIN Listed = 1..Len(Listed)
      /\ \A n \in 1..Len(Listed) : Listed[n] \in DOMAIN dir
  BY ListedAre, LenProperties
<1>2. PICK T : ts = Filter(Listed, T)
  BY Zenon DEF Selected
<1>3. ts # <<>> /\ \A n \in 1..Len(Listed) : Loads(Listed[n])
  BY <1>1 DEF CanLoad
<1> HIDE DEF ts
<1>4. /\ NoRepeats(Filter(Listed, T))
      /\ \A k \in 1..Len(Filter(Listed, T)) :
            \E j \in 1..Len(Listed) : Filter(Listed, T)[k] = Listed[j]
  BY <1>1, FilterRepeatsNothing
<1>5. Filter(Listed, T) \in Seq(Files)
  BY <1>1, FilterKeeps
<1>6. ASSUME NEW k \in 1..Len(ts) PROVE Turns(ts[k]) \in Nat \ {0}
  <2>1. PICK j \in 1..Len(Listed) : ts[k] = Listed[j]
    BY <1>2, <1>4, Zenon
  <2>2. dir[ts[k]].lines \in Nat /\ dir[ts[k]].lines > 0
    BY <1>1, <1>3, <2>1 DEF Loads
  <2> QED
    BY <2>2, PipelineAssumption DEF Turns, Least
<1> QED
  BY <1>2, <1>3, <1>4, <1>5, <1>6, Zenon DEF ts

\* Where no policy comes twice, each is played once.
LEMMA PlayedOnce ==
    ASSUME NEW Q, NEW P \in Seq(Q), NoRepeats(P), NEW k \in 1..Len(P)
    PROVE  Filter(P, {P[k]}) = <<P[k]>>
<1>1. P[k] \in {P[k]} /\ \A j \in 1..Len(P) : P[j] \in {P[k]} => j = k
  BY DEF NoRepeats
<1> QED
  BY <1>1, FilterOne

\* An order that replays the trajectories ts and nothing twice.
OrderOf(order, ts) ==
    /\ order \in Seq(Files \X Policies) /\ order # <<>> /\ NoRepeats(order)
    /\ \A n \in 1..Len(order) : \E k \in 1..Len(ts) : order[n][1] = ts[k]

\* The rotating order is one.
LEMMA RotatingIsAnOrder ==
    ASSUME NEW Q \in SUBSET Policies, NEW P \in Seq(Q), P # <<>>, NoRepeats(P),
           \A p \in Q : \E k \in 1..Len(P) : P[k] = p,
           NEW ts \in Seq(Files), ts # <<>>, NoRepeats(ts)
    PROVE  /\ OrderOf(Rotating(P, ts), ts)
           /\ EachPlays(Rotating(P, ts), Q, ts)
<1> DEFINE order == Rotating(P, ts)
           L == Len(P)
<1>1. Len(ts) \in Nat \ {0} /\ L \in Nat \ {0} /\ \A k \in 1..Len(ts) : ts[k] \in Files
  BY EmptySeq, ElementOfSeq, LenProperties
<1>2. order \in Seq(Files \X Q)
  <2>1. SmokeTest \in Files
    BY DEF Files
  <2> QED
    BY <2>1, RotatingGrows
<1>3. order # <<>>
  BY <1>1, RotatingIs
<1>4. EachPlays(order, Q, ts)
  <2> SUFFICES ASSUME NEW p \in Q PROVE Filter(order, Replays(p)) = Mapped(ts, Under(p))
    BY DEF EachPlays
  <2>1. PICK k \in 1..Len(P) : P[k] = p
    OBVIOUS
  <2>2. Filter(P, {p}) = <<p>>
    BY <2>1, PlayedOnce, Zenon
  <2> QED
    BY <2>2, OrderOfPolicy
<1>5. ASSUME NEW n \in 1..Len(order) PROVE \E k \in 1..Len(ts) : order[n][1] = ts[k]
  <2>1. /\ DOMAIN order = 1..(Len(ts) * L)
        /\ \A i \in 1..(Len(ts) * L) :
              order[i] = << ts[(i - 1) \div L + 1],
                            RotatedFrom(P, ((i - 1) \div L + 1) - 1)[((i - 1) % L) + 1] >>
    BY Zenon DEF Rotating
  <2>2. DOMAIN order = 1..Len(order)
    BY <1>2, LenProperties
  <2> HIDE DEF order
  <2>3. n \in 1..(Len(ts) * L)
    BY <2>1, <2>2, Zenon
  <2> DEFINE k == (n - 1) \div L + 1
             p == RotatedFrom(P, k - 1)[((n - 1) % L) + 1]
  <2> HIDE DEF L
  <2>4. k \in 1..Len(ts)
    BY <1>1, <2>3, RoundAndTurn
  <2>5. order[n] = <<ts[k], p>>
    BY <2>1, <2>3, Zenon
  <2> HIDE DEF k, p
  <2>6. order[n][1] = ts[k]
    BY <2>5
  <2> QED
    BY <2>4, <2>6
<1> HIDE DEF order
<1>6. NoRepeats(order)
  <2>2. Q \subseteq Policies
    OBVIOUS
  <2>3. \A a, b \in 1..Len(order) : order[a] = order[b] => a = b
    BY <1>2, <1>4, <2>2, PlanHasNoRepeats, Zenon
  <2> QED
    BY <2>3, Zenon DEF NoRepeats
<1>7. order \in Seq(Files \X Policies)
  <2>1. Files \X Q \subseteq Files \X Policies
    OBVIOUS
  <2> QED
    BY <1>2, <2>1, SeqMonotonic
<1> QED
  BY <1>3, <1>4, <1>5, <1>6, <1>7, Zenon DEF OrderOf, order

\* So is one trajectory after the other under a single policy.
LEMMA CliffIsAnOrder ==
    ASSUME NEW ts \in Seq(Files), ts # <<>>, NoRepeats(ts)
    PROVE  LET order == [n \in DOMAIN ts |-> <<ts[n], "naive">>]
           IN  OrderOf(order, ts) /\ \A n \in 1..Len(order) : order[n][2] = "naive"
<1> DEFINE order == [n \in DOMAIN ts |-> <<ts[n], "naive">>]
<1>1. Len(ts) \in Nat \ {0} /\ DOMAIN ts = 1..Len(ts) /\ \A n \in 1..Len(ts) : ts[n] \in Files
  BY EmptySeq, LenProperties, ElementOfSeq
<1>2. /\ order \in [1..Len(ts) -> Files \X Policies]
      /\ \A n \in 1..Len(ts) : order[n] = <<ts[n], "naive">>
  BY <1>1 DEF Policies
<1> HIDE DEF order
<1>3. order \in Seq(Files \X Policies) /\ Len(order) = Len(ts)
  <2>1. order \in Seq(Files \X Policies)
    BY <1>1, <1>2, SeqDef
  <2> QED
    BY <1>1, <1>2, <2>1, LenProperties
<1>4. order # <<>>
  BY <1>1, <1>3, EmptySeq
<1>5. \A n \in 1..Len(order) : order[n][1] = ts[n] /\ order[n][2] = "naive"
  BY <1>2, <1>3
<1>6. NoRepeats(order)
  <2> SUFFICES ASSUME NEW i \in 1..Len(order), NEW j \in 1..Len(order), order[i] = order[j]
               PROVE  i = j
    BY DEF NoRepeats
  <2>1. ts[i] = ts[j]
    BY <1>5, Zenon
  <2> QED
    BY <1>3, <2>1, Zenon DEF NoRepeats
<1> QED
  BY <1>3, <1>4, <1>5, <1>6, Zenon DEF OrderOf, order

\* The policies of the sweeps.
LEMMA PolicyLists ==
    ASSUME NEW P \in { <<"naive", "append_only">>, <<"naive", "append_only", "kv_evict">>,
                       <<"naive", "append_only", "kv_evict", "hybrid">>, ParetoPolicies }
    PROVE  /\ P # <<>> /\ NoRepeats(P)
           /\ \E Q \in SUBSET Policies : P \in Seq(Q) /\ \A p \in Q : \E k \in 1..Len(P) : P[k] = p
           /\ P = ParetoPolicies =>
                P \in Seq(Policies) /\ \A p \in Policies : \E k \in 1..Len(P) : P[k] = p
<1>1. P # <<>> /\ NoRepeats(P) /\ P \in Seq(Policies)
  <2>1. CASE P = <<"naive", "append_only">>
    BY <2>1 DEF Policies, NoRepeats
  <2>2. CASE P = <<"naive", "append_only", "kv_evict">>
    BY <2>2 DEF Policies, NoRepeats
  <2>3. CASE P = <<"naive", "append_only", "kv_evict", "hybrid">>
    BY <2>3 DEF Policies, NoRepeats
  <2>4. CASE P = ParetoPolicies
    BY <2>4 DEF ParetoPolicies, Policies, NoRepeats
  <2> QED
    BY <2>1, <2>2, <2>3, <2>4
<1>2. \E Q \in SUBSET Policies : P \in Seq(Q) /\ \A p \in Q : \E k \in 1..Len(P) : P[k] = p
  <2> DEFINE Q == { P[k] : k \in 1..Len(P) }
  <2>1. Len(P) \in Nat /\ P \in [1..Len(P) -> Policies]
    BY <1>1, LenProperties
  <2>2. P \in [1..Len(P) -> Q] /\ Q \in SUBSET Policies
    BY <2>1
  <2>3. P \in Seq(Q)
    BY <2>1, <2>2, SeqDef
  <2>4. \A p \in Q : \E k \in 1..Len(P) : P[k] = p
    OBVIOUS
  <2> QED
    BY <2>2, <2>3, <2>4
<1>3. P = ParetoPolicies => \A p \in Policies : \E k \in 1..Len(P) : P[k] = p
  BY DEF ParetoPolicies, Policies
<1> QED
  BY <1>1, <1>2, <1>3, Zenon
-----------------------------------------------------------------------------
\* There is a step to replay of each.
Playable(order) == \A n \in 1..Len(order) : Turns(order[n][1]) \in Nat \ {0}

\* The sweep that runs: there is something to replay of each trajectory, and the
\* figure waits for all of the results.
Sweeping ==
    /\ SweepOf(rows, results, plan) /\ plan # <<>> /\ Playable(plan)
    /\ stage = "draw" => Len(results) = Len(plan)

\* The sweep of the cliff counts its events as well.
CliffSweeping ==
    /\ \A n \in 1..Len(plan) : plan[n][2] = "naive"
    /\ AllUnder(rows, "naive")
    /\ Aligned(Fired(rows), results, "events")

\* In the file, the cost sweep will be a run for each of its results.
ParetoSweeping ==
    /\ \E ts \in Seq(Files) : EachPlays(plan, Policies, ts)
    /\ \A p \in Policies :
        RunSets(OfPolicy(paretoFile \o rows, p))
            = RunSets(OfPolicy(paretoFile, p)) \o SetsOf(OfPolicy(results, p))

\* The same trajectories, one in each run, whatever the policy.
Agree(file) ==
    \A p \in Policies :
        /\ RunSets(OfPolicy(file, p)) = RunSets(OfPolicy(file, "naive"))
        /\ \A n \in 1..Len(RunSets(OfPolicy(file, p))) :
              \E t \in Files : RunSets(OfPolicy(file, p))[n] = {t}

CInv ==
    /\ at # 0 => \A f \in DOMAIN dir : dir[f].lines \in Nat
    /\ paretoFile \in Seq(Row) /\ Agree(paretoFile)
    /\ at # 0 /\ STEPS[at] \in Sweeps /\ stage # "start" => Sweeping
    /\ Running("phase1_cliff") /\ stage # "start" => CliffSweeping
    /\ Running("phase4_pareto_cost") /\ stage = "replay" => ParetoSweeping
    /\ stage = "replay" => drawn = <<>>
    /\ SliceIsComparison

\* A step at whose end no sweep runs.
LEMMA BetweenSteps ==
    ASSUME CInv, dir' = dir, paretoFile' = paretoFile, stage' = "start",
           at' # 0 => \A f \in DOMAIN dir : dir[f].lines \in Nat,
           SliceIsComparison'
    PROVE  CInv'
<1>1. Agree(paretoFile)' /\ paretoFile' \in Seq(Row)
  BY DEF CInv, Agree
<1>2. at' # 0 => \A f \in DOMAIN dir' : dir'[f].lines \in Nat
  OBVIOUS
<1> QED
  BY <1>1, <1>2 DEF CInv

\* Nothing is drawn.
LEMMA NothingDrawn ==
    ASSUME drawn' = <<>>
    PROVE  SliceIsComparison'
<1>1. DOMAIN drawn' = {}
  OBVIOUS
<1> QED
  BY <1>1, Zenon DEF SliceIsComparison

\* A sweep begins.
LEMMA StartSweeps ==
    ASSUME CInv, dir' = dir, NEW name \in Sweeps, NEW order, Start(name, order),
           OrderOf(order, Selected(name))
    PROVE  /\ Sweeping' /\ SliceIsComparison' /\ drawn' = <<>> /\ stage' = "replay" /\ at' = at
           /\ paretoFile' = paretoFile /\ rows' = <<>> /\ results' = <<>> /\ plan' = order
           /\ at # 0 /\ STEPS[at] = name
<1>1. /\ drawn' = <<>> /\ stage' = "replay" /\ at' = at /\ at # 0 /\ STEPS[at] = name
      /\ paretoFile' = paretoFile /\ rows' = <<>> /\ results' = <<>> /\ plan' = order
      /\ CanLoad(Selected(name))
  BY DEF Start, Running
<1>2. /\ order \in Seq(Files \X Policies) /\ order # <<>> /\ NoRepeats(order)
      /\ \A n \in 1..Len(order) : \E k \in 1..Len(Selected(name)) : order[n][1] = Selected(name)[k]
  BY DEF OrderOf
<1>3. SweepOf(<<>>, <<>>, order)
  <2>1. \A n, m \in 1..Len(order) : order[n] = order[m] => n = m
    BY <1>2, Zenon DEF NoRepeats
  <2> QED
    BY <1>2, <2>1, SweepStarts
<1>4. \A k \in 1..Len(Selected(name)) : Turns(Selected(name)[k]) \in Nat \ {0}
  BY <1>1, SelectedPlays DEF CInv
<1>5. \A n \in 1..Len(order) : Turns(order[n][1]) \in Nat \ {0}
  BY <1>2, <1>4, Zenon
<1>6. Playable(plan)'
  BY <1>1, <1>5 DEF Turns, Playable
<1>7. SweepOf(rows', results', plan')
  BY <1>1, <1>3
<1>8. Sweeping'
  BY <1>1, <1>2, <1>6, <1>7 DEF Sweeping
<1> QED
  BY <1>1, <1>8, NothingDrawn, Zenon

\* What one replay leaves, of a trajectory under a policy.
ResultOf(t, p, n, fired) ==
    [trajectory |-> t, policy |-> p, steps |-> n, events |-> Cardinality(fired)]

Recorded(t, p, n, fired) ==
    /\ t \in Files /\ p \in Policies /\ plan[Len(results) + 1] = <<t, p>>
    /\ rows' = rows \o Block(t, p, n, fired)
    /\ results' = Append(results, ResultOf(t, p, n, fired))

\* A replay keeps the sweep going.
LEMMA RecordSweeps ==
    ASSUME CInv, Sweeping, dir' = dir, stage = "replay", Len(results) < Len(plan),
           NEW n \in Nat \ {0}, NEW fired, Cardinality(fired) \in Nat,
           Record(n, fired, n)
    PROVE  /\ Sweeping' /\ drawn' = <<>> /\ SliceIsComparison'
           /\ stage' = "replay" /\ at' = at /\ paretoFile' = paretoFile /\ plan' = plan
           /\ \E t \in Files, p \in Policies : Recorded(t, p, n, fired)
<1>1. /\ rows \in Seq(Row) /\ results \in Seq(Result) /\ plan \in Seq(Files \X Policies)
      /\ Len(results) \in Nat /\ Len(plan) \in Nat
  BY LenProperties DEF Sweeping, SweepOf
<1>2. PICK t \in Files, p \in Policies : plan[Len(results) + 1] = <<t, p>>
  <2>1. Len(results) + 1 \in 1..Len(plan)
    BY <1>1
  <2>2. plan[Len(results) + 1] \in Files \X Policies
    BY <1>1, <2>1, ElementOfSeq, Zenon
  <2> QED
    BY <2>2
<1> DEFINE r == Block(t, p, n, fired)
           x == ResultOf(t, p, n, fired)
<1>3. rows' = rows \o r /\ results' = Append(results, x)
  <2>1. plan[Len(results) + 1][1] = t /\ plan[Len(results) + 1][2] = p
    BY <1>2
  <2> QED
    BY <2>1, Zenon DEF Record, Block, ResultOf
<1>4. /\ stage' = stage /\ at' = at /\ paretoFile' = paretoFile /\ plan' = plan /\ drawn' = drawn
  BY DEF Record
<1>5. /\ r \in Seq(Row) /\ Len(r) = n /\ AllOf(r, t) /\ AllUnder(r, p)
  BY BlockIs
<1>6. x \in Result /\ RunOf(x) = <<t, p>> /\ x.steps = n
  BY DEF ResultOf, Result, RunOf
<1> HIDE DEF r, x
<1>7. SweepOf(rows \o r, Append(results, x), plan)
  BY <1>2, <1>5, <1>6, SweepGrows DEF Sweeping
<1>8. SweepOf(rows', results', plan')
  BY <1>3, <1>4, <1>7
<1>9. Playable(plan)'
  <2>1. Playable(plan)
    BY DEF Sweeping
  <2> QED
    BY <1>4, <2>1 DEF Turns, Playable
<1>10. drawn' = <<>>
  BY <1>4 DEF CInv
<1>11. Sweeping'
  <2>1. stage' # "draw" /\ plan' # <<>>
    BY <1>4 DEF Sweeping
  <2> QED
    BY <1>8, <1>9, <2>1 DEF Sweeping
<1>12. Recorded(t, p, n, fired)
  BY <1>2, <1>3, Zenon DEF Recorded, r, x
<1> QED
  BY <1>4, <1>10, <1>11, <1>12, NothingDrawn, Zenon

\* The number of steps of the next replay.
LEMMA LimitIs ==
    ASSUME Sweeping, Len(results) < Len(plan)
    PROVE  Limit \in Nat \ {0}
<1>1. Len(results) \in Nat /\ Len(plan) \in Nat
  BY LenProperties DEF Sweeping, SweepOf
<1>2. Len(results) + 1 \in 1..Len(plan)
  BY <1>1
<1> QED
  BY <1>2, Zenon DEF Limit, Sweeping, Playable
-----------------------------------------------------------------------------
\* A frame all of one policy is that policy's.
LEMMA AllOfPolicy ==
    ASSUME NEW S, NEW s \in Seq(S), NEW p, AllUnder(s, p)
    PROVE  OfPolicy(s, p) = s
<1> DEFINE T == WithPolicy(S, p)
<1>1. OfPolicy(s, p) = Filter(s, T)
  BY FramesAre, Zenon
<1>2. \A n \in 1..Len(s) : s[n] \in T
  BY ElementOfSeq DEF AllUnder, WithPolicy
<1> HIDE DEF T
<1>3. Filter(s, T) = s
  BY <1>2, FilterAll
<1> QED
  BY <1>1, <1>3, Zenon

\* The events of a frame, part by part, and trajectory by trajectory.
LEMMA EventsOf ==
    ASSUME NEW a \in Seq(Row), NEW r \in Seq(Row)
    PROVE  /\ Fired(a) \in Seq(Row) /\ Fired(a \o r) = Fired(a) \o Fired(r)
           /\ \A t : OfTrajectory(Fired(a), t) = Fired(OfTrajectory(a, t))
<1> DEFINE E == WithEvent(Row)
<1>0. a \o r \in Seq(Row)
  BY ConcatProperties
<1>1. Fired(a) = Filter(a, E) /\ Fired(r) = Filter(r, E) /\ Fired(a \o r) = Filter(a \o r, E)
  <2>1. \A u \in Seq(Row) : Fired(u) = Filter(u, E)
    BY FramesAre, Zenon
  <2> QED
    BY <1>0, <2>1, Zenon
<1> HIDE DEF E
<1>2. Filter(a, E) \in Seq(Row)
  BY FilterKeeps
<1>3. Filter(a \o r, E) = Filter(a, E) \o Filter(r, E)
  BY FilterConcat
<1>4. ASSUME NEW t PROVE OfTrajectory(Fired(a), t) = Fired(OfTrajectory(a, t))
  <2> DEFINE T == WithTrajectory(Row, t)
  <2>1. /\ \A u \in Seq(Row) : OfTrajectory(u, t) = Filter(u, T)
        /\ \A u \in Seq(Row) : Fired(u) = Filter(u, E)
    BY FramesAre, Zenon DEF E
  <2> HIDE DEF T
  <2>2. Filter(a, T) \in Seq(Row)
    BY FilterKeeps
  <2>3. /\ Filter(Filter(a, T), E) = Filter(a, T \cap E)
        /\ Filter(Filter(a, E), T) = Filter(a, E \cap T)
    BY FilterFilter
  <2>4. T \cap E = E \cap T
    OBVIOUS
  <2> QED
    BY <1>1, <1>2, <2>1, <2>2, <2>3, <2>4, Zenon
<1> QED
  BY <1>1, <1>2, <1>3, <1>4, Zenon

\* A replay counts the events that its rows show.
LEMMA FiredBlock ==
    ASSUME NEW t \in Files, NEW p \in Policies, NEW n \in Nat \ {0},
           NEW fired \in { {n - 1}, 0..(n - 1) }
    PROVE  LET e == Fired(Block(t, p, n, fired))
           IN  /\ e \in Seq(Row) /\ Len(e) = Cardinality(fired) /\ AllOf(e, t)
               /\ Cardinality(fired) \in Nat
<1> DEFINE r == Block(t, p, n, fired)
           E == WithEvent(Row)
<1>1. /\ r \in Seq(Row) /\ Len(r) = n /\ AllOf(r, t)
      /\ \A k \in 1..n : r[k].step = k - 1 /\ (r[k].fired <=> k - 1 \in fired)
  BY BlockIs
<1> HIDE DEF r
<1>2. Fired(r) = Filter(r, E) /\ Filter(r, E) \in Seq(Row)
  BY <1>1, FramesAre, FilterKeeps, Zenon
<1>3. \A k \in 1..n : r[k] \in E <=> k - 1 \in fired
  BY <1>1, ElementOfSeq DEF WithEvent
<1> HIDE DEF E
<1>4. CASE fired = {n - 1}
  <2>1. n \in 1..Len(r) /\ r[n] \in E /\ \A k \in 1..Len(r) : r[k] \in E => k = n
    BY <1>1, <1>3, <1>4
  <2>2. Filter(r, E) = <<r[n]>>
    BY <1>1, <2>1, FilterOne
  <2>3. r[n].trajectory = t
    BY <1>1, <2>1, Zenon DEF AllOf
  <2> DEFINE y == r[n]
  <2>4. Len(<<y>>) = 1 /\ \A k \in 1..Len(<<y>>) : <<y>>[k] = y
    OBVIOUS
  <2>5. AllOf(<<y>>, t)
    BY <2>3, <2>4, Zenon DEF AllOf
  <2>6. Cardinality(fired) = 1
    <3>1. \A z : Cardinality({z}) = 1
      BY FS_Singleton, Zenon
    <3> QED
      BY <1>4, <3>1, Zenon
  <2>7. Fired(r) = <<y>>
    BY <1>2, <2>2, Zenon
  <2>8. 1 \in Nat
    OBVIOUS
  <2> QED
    BY <1>2, <2>4, <2>5, <2>6, <2>7, <2>8, Zenon DEF r
<1>5. CASE fired = 0..(n - 1)
  <2>1. \A k \in 1..Len(r) : r[k] \in E
    BY <1>1, <1>3, <1>5
  <2>2. Filter(r, E) = r
    BY <1>1, <2>1, FilterAll
  <2>3. Cardinality(0..(n - 1)) = n
    <3> DEFINE hi == n - 1
    <3>1. 0 \in Int /\ hi \in Int /\ ~(0 > hi) /\ hi - 0 + 1 = n
      OBVIOUS
    <3> HIDE DEF hi
    <3>2. Cardinality(0..hi) = IF 0 > hi THEN 0 ELSE hi - 0 + 1
      BY <3>1, FS_Interval, Zenon
    <3> QED
      BY <3>1, <3>2 DEF hi
  <2>4. n \in Nat
    OBVIOUS
  <2> QED
    BY <1>1, <1>2, <1>5, <2>2, <2>3, <2>4, Zenon DEF r
<1> QED
  BY <1>4, <1>5

\* The results of the cliff are of the one policy.
LEMMA CliffResults ==
    ASSUME Sweeping, CliffSweeping
    PROVE  AllUnder(results, "naive")
<1>1. /\ Len(results) \in Nat /\ Len(plan) \in Nat /\ Len(results) <= Len(plan)
      /\ \A n \in 1..Len(results) : RunOf(results[n]) = plan[n]
  BY LenProperties DEF Sweeping, SweepOf
<1>2. ASSUME NEW n \in 1..Len(results) PROVE results[n].policy = "naive"
  <2>1. n \in 1..Len(plan)
    BY <1>1
  <2>2. plan[n][2] = "naive"
    BY <2>1 DEF CliffSweeping
  <2>3. plan[n] = <<results[n].trajectory, results[n].policy>>
    BY <1>1, Zenon DEF RunOf
  <2> QED
    BY <2>2, <2>3
<1> QED
  BY <1>2, Zenon DEF AllUnder

\* A replay of the cliff keeps its events aligned.
LEMMA CliffKeeps ==
    ASSUME Sweeping, CliffSweeping, plan' = plan, Len(results) < Len(plan),
           NEW n \in Nat \ {0}, NEW fired \in { {n - 1}, 0..(n - 1) },
           NEW t, NEW p, Recorded(t, p, n, fired)
    PROVE  CliffSweeping'
<1> DEFINE r == Block(t, p, n, fired)
           x == ResultOf(t, p, n, fired)
           a == Fired(rows)
           e == Fired(r)
<1>1. /\ rows \in Seq(Row) /\ results \in Seq(Result)
      /\ Len(results) \in Nat /\ Len(plan) \in Nat /\ SweepOf(rows, results, plan)
  BY LenProperties DEF Sweeping, SweepOf
<1>2. /\ t \in Files /\ p \in Policies /\ plan[Len(results) + 1] = <<t, p>>
      /\ rows' = rows \o r /\ results' = Append(results, x)
  BY DEF Recorded
<1>3. p = "naive"
  <2>1. Len(results) + 1 \in 1..Len(plan)
    BY <1>1
  <2>2. plan[Len(results) + 1][2] = "naive"
    BY <2>1, Zenon DEF CliffSweeping
  <2> QED
    BY <1>2, <2>2
<1>4. /\ e \in Seq(Row) /\ Len(e) = Cardinality(fired) /\ AllOf(e, t) /\ Cardinality(fired) \in Nat
  BY <1>2, FiredBlock, ZenonT(60)
<1>5. r \in Seq(Row) /\ AllUnder(r, "naive")
  BY <1>2, <1>3, BlockIs
<1>6. x \in Result /\ x.trajectory = t /\ x.events = Cardinality(fired)
  BY <1>2, <1>4 DEF ResultOf, Result
<1>7. OfPolicy(results, p) = results
  BY <1>1, <1>3, CliffResults, AllOfPolicy
<1>8. \A m \in 1..Len(results) : results[m].trajectory # x.trajectory
  <2>1. \A m \in 1..Len(OfPolicy(results, p)) : OfPolicy(results, p)[m].trajectory # t
    BY <1>1, <1>2, NextIsNew
  <2> QED
    BY <1>6, <1>7, <2>1, Zenon
<1> HIDE DEF r, x
<1>9. a \in Seq(Row) /\ Fired(rows \o r) = a \o e
  BY <1>1, <1>5, EventsOf
<1>10. Aligned(a, results, "events")
  BY DEF CliffSweeping
<1> HIDE DEF a, e
<1>11. AllOf(e, x.trajectory) /\ Len(e) = x["events"]
  BY <1>4, <1>6
<1>12. Aligned(a \o e, Append(results, x), "events")
  BY <1>1, <1>4, <1>6, <1>8, <1>9, <1>10, <1>11, AlignedGrows
<1>13. Aligned(Fired(rows'), results', "events")
  BY <1>2, <1>9, <1>12
<1>14. AllUnder(rows', "naive")
  <2>1. AllUnder(rows, "naive")
    BY DEF CliffSweeping
  <2>2. /\ Len(rows) \in Nat /\ Len(r) \in Nat /\ Len(rows') = Len(rows) + Len(r)
        /\ \A i \in 1..(Len(rows) + Len(r)) :
              rows'[i] = IF i <= Len(rows) THEN rows[i] ELSE r[i - Len(rows)]
    BY <1>1, <1>2, <1>5, ConcatProperties, LenProperties
  <2>3. ASSUME NEW i \in 1..Len(rows') PROVE rows'[i].policy = "naive"
    <3>1. CASE i <= Len(rows)
      BY <2>1, <2>2, <3>1 DEF AllUnder
    <3>2. CASE ~(i <= Len(rows))
      <4>1. i - Len(rows) \in 1..Len(r) /\ rows'[i] = r[i - Len(rows)]
        BY <2>2, <3>2
      <4> QED
        BY <1>5, <4>1, Zenon DEF AllUnder
    <3> QED
      BY <3>1, <3>2
  <2> QED
    BY <2>3, Zenon DEF AllUnder
<1>15. \A m \in 1..Len(plan') : plan'[m][2] = "naive"
  BY Zenon DEF CliffSweeping
<1> QED
  BY <1>13, <1>14, <1>15 DEF CliffSweeping

\* The results that a figure is drawn from are there.
LEMMA ResultsAreThere ==
    ASSUME Sweeping, stage = "draw"
    PROVE  results # <<>>
<1>1. Len(results) = Len(plan) /\ plan # <<>>
  BY DEF Sweeping
<1> QED
  BY <1>1, EmptySeq DEF Sweeping, SweepOf

\* The cliff draws what it wants to compare.
LEMMA CliffDraws ==
    ASSUME CInv, DrawCliff
    PROVE  SliceIsComparison'
<1>1. /\ at # 0 /\ STEPS[at] = "phase1_cliff" /\ stage = "draw"
      /\ rows' = rows /\ results' = results
      /\ drawn' = [p \in {"naive"} |->
            IF Len(results) = 1 THEN [steps |-> rows, events |-> Fired(rows)]
            ELSE [steps |-> Slice(rows, results, "steps"),
                  events |-> Slice(Fired(rows), results, "events")]]
  BY DEF DrawCliff, Draw
<1>2. Sweeping /\ CliffSweeping
  BY <1>1 DEF CInv, Running, Sweeps
<1>3. results # <<>>
  BY <1>1, <1>2, ResultsAreThere
<1>4. rows \in Seq(Row) /\ results \in Seq(Result)
  BY <1>2 DEF Sweeping, SweepOf
<1>5. OfPolicy(rows, "naive") = rows /\ OfPolicy(results, "naive") = results
  BY <1>2, <1>4, CliffResults, AllOfPolicy DEF CliffSweeping
<1>6. Aligned(rows, results, "steps") /\ Aligned(Fired(rows), results, "events")
  <2>1. Aligned(OfPolicy(rows, "naive"), OfPolicy(results, "naive"), "steps")
    BY <1>2 DEF Sweeping, SweepOf, Policies
  <2> QED
    BY <1>2, <1>5, <2>1, Zenon DEF CliffSweeping
<1> DEFINE c == Comparison(results)
           t == results[c].trajectory
           mine == OfTrajectory(rows, t)
           ev == Fired(rows)
<1>7. /\ Slice(rows, results, "steps") = mine /\ Len(mine) = results[c]["steps"]
      /\ Len(results) = 1 => mine = rows
  BY <1>3, <1>4, <1>6, SliceIs
<1>8. ev \in Seq(Row) /\ OfTrajectory(ev, t) = Fired(mine)
  <2>1. <<>> \in Seq(Row)
    BY EmptySeq
  <2> QED
    BY <1>4, <2>1, EventsOf, Zenon
<1>9. Slice(ev, results, "events") = OfTrajectory(ev, t)
  <2>1. Aligned(ev, results, "events")
    BY <1>6
  <2> HIDE DEF ev
  <2> QED
    BY <1>3, <1>4, <1>8, <2>1, SliceIs
<1> HIDE DEF c, mine, ev
<1>10. /\ drawn'["naive"].steps = mine /\ drawn'["naive"].events = Fired(mine)
       /\ DOMAIN drawn' = {"naive"}
  <2>1. CASE Len(results) = 1
    <3>1. drawn' = [p \in {"naive"} |-> [steps |-> rows, events |-> ev]]
      BY <1>1, <2>1, Zenon DEF ev
    <3> QED
      BY <1>7, <2>1, <3>1 DEF ev
  <2>2. CASE Len(results) # 1
    <3>1. drawn' = [p \in {"naive"} |-> [steps |-> Slice(rows, results, "steps"),
                                         events |-> Slice(ev, results, "events")]]
      BY <1>1, <2>2, Zenon DEF ev
    <3> QED
      BY <1>7, <1>8, <1>9, <3>1
  <2> QED
    BY <2>1, <2>2
<1>11. mine = OfTrajectory(OfPolicy(rows, "naive"), OfPolicy(results, "naive")[c].trajectory)
  BY <1>5, Zenon DEF mine
<1>12. c = Comparison(OfPolicy(results, "naive"))
  BY <1>5, Zenon DEF c
<1>13. Len(mine) = OfPolicy(results, "naive")[c].steps
  BY <1>5, <1>7
<1> QED
  BY <1>1, <1>10, <1>11, <1>12, <1>13 DEF SliceIsComparison

\* So do the comparisons, for each of their policies.
LEMMA ComparisonDraws ==
    ASSUME CInv, DrawComparison
    PROVE  SliceIsComparison'
<1> DEFINE P == { r.policy : r \in ToSet(results) }
<1>1. /\ at # 0 /\ STEPS[at] \in Sweeps /\ stage = "draw"
      /\ rows' = rows /\ results' = results
      /\ drawn' = [p \in P |->
            [steps |-> Slice(OfPolicy(rows, p), OfPolicy(results, p), "steps"), events |-> <<>>]]
  BY DEF DrawComparison, Draw
<1>2. Sweeping
  BY <1>1 DEF CInv
<1>3. rows \in Seq(Row) /\ results \in Seq(Result) /\ SweepOf(rows, results, plan)
  BY <1>2 DEF Sweeping, SweepOf
<1>4. ASSUME NEW p \in P
      PROVE  LET rs == OfPolicy(results, p)
                 mine == OfTrajectory(OfPolicy(rows, p), rs[Comparison(rs)].trajectory)
             IN  drawn'[p].steps = mine /\ Len(mine) = rs[Comparison(rs)].steps
                 /\ drawn'[p].events = <<>>
  <2> DEFINE a == OfPolicy(rows, p)
             rs == OfPolicy(results, p)
  <2>1. PICK r \in ToSet(results) : p = r.policy
    OBVIOUS
  <2>2. PICK i \in 1..Len(results) : r = results[i]
    <3>1. DOMAIN results = 1..Len(results)
      BY <1>3, LenProperties
    <3> QED
      BY <3>1, Zenon DEF ToSet
  <2>3. p \in Policies
    <3>1. results[i] \in Result
      BY <1>3, ElementOfSeq, Zenon
    <3> QED
      BY <2>1, <2>2, <3>1 DEF Result
  <2>4. /\ a \in Seq(Row) /\ rs \in Seq(Result)
        /\ a = Filter(rows, WithPolicy(Row, p)) /\ rs = Filter(results, WithPolicy(Result, p))
    <3>1. a = Filter(rows, WithPolicy(Row, p)) /\ rs = Filter(results, WithPolicy(Result, p))
      BY <1>3, FramesAre, Zenon
    <3>2. /\ Filter(rows, WithPolicy(Row, p)) \in Seq(Row)
          /\ Filter(results, WithPolicy(Result, p)) \in Seq(Result)
      BY <1>3, FilterKeeps, Zenon
    <3> QED
      BY <3>1, <3>2, Zenon
  <2>5. rs # <<>>
    <3>1. results[i] \in WithPolicy(Result, p)
      BY <1>3, <2>1, <2>2, ElementOfSeq DEF WithPolicy
    <3>2. PICK e : Keeps(rs, e, results, WithPolicy(Result, p), Len(results))
      BY <1>3, <2>4, FilterKeeps, Zenon
    <3> HIDE DEF rs
    <3>3. \E k \in 1..Len(rs) : e[k] = i
      BY <3>1, <3>2, Zenon DEF Keeps
    <3>4. Len(rs) # 0
      BY <3>3
    <3> QED
      BY <3>4
  <2>6. Aligned(a, rs, "steps")
    BY <1>3, <2>3 DEF SweepOf
  <2>7. drawn'[p] = [steps |-> Slice(a, rs, "steps"), events |-> <<>>]
    BY <1>1, Zenon
  <2> DEFINE mine == OfTrajectory(a, rs[Comparison(rs)].trajectory)
  <2> HIDE DEF a, rs
  <2>8. Slice(a, rs, "steps") = mine /\ Len(mine) = rs[Comparison(rs)]["steps"]
    BY <2>4, <2>5, <2>6, SliceIs
  <2>9. drawn'[p].steps = mine /\ Len(mine) = rs[Comparison(rs)].steps /\ drawn'[p].events = <<>>
    BY <2>7, <2>8
  <2> QED
    BY <2>9 DEF a, rs
<1>5. DOMAIN drawn' = P
  BY <1>1
<1> HIDE DEF P
<1> QED
  BY <1>1, <1>4, <1>5 DEF SliceIsComparison
-----------------------------------------------------------------------------
\* The sets of the results, as a list of sets.
LEMMA SetsAre ==
    ASSUME NEW rs \in Seq(Result)
    PROVE  /\ SetsOf(rs) \in Seq(SUBSET Files) /\ Len(SetsOf(rs)) = Len(rs)
           /\ \A k \in 1..Len(rs) : SetsOf(rs)[k] = {rs[k].trajectory}
           /\ \A x \in Result : SetsOf(Append(rs, x)) = Append(SetsOf(rs), {x.trajectory})
<1>1. \A x \in Result : Single[x] = {x.trajectory} /\ {x.trajectory} \in SUBSET Files
  BY DEF Single, Result
<1>2. ListOfImages(SetsOf(rs), rs, Single, Result)
  BY ImagesAre DEF SetsOf
<1>3. /\ SetsOf(rs) \in Seq({ Single[x] : x \in Result }) /\ Len(SetsOf(rs)) = Len(rs)
      /\ \A k \in 1..Len(rs) : SetsOf(rs)[k] = Single[rs[k]]
  BY <1>2, Zenon DEF ListOfImages
<1>4. SetsOf(rs) \in Seq(SUBSET Files)
  <2>1. { Single[x] : x \in Result } \subseteq SUBSET Files
    BY <1>1
  <2> QED
    BY <1>3, <2>1, SeqMonotonic
<1>5. \A k \in 1..Len(rs) : SetsOf(rs)[k] = {rs[k].trajectory}
  <2>1. \A k \in 1..Len(rs) : rs[k] \in Result
    BY ElementOfSeq
  <2> QED
    BY <1>1, <1>3, <2>1, Zenon
<1>6. \A x \in Result : SetsOf(Append(rs, x)) = Append(SetsOf(rs), {x.trajectory})
  <2> TAKE x \in Result
  <2>1. Mapped(Append(rs, x), Single) = Append(Mapped(rs, Single), Single[x])
    BY MappedAppend
  <2> QED
    BY <1>1, <2>1, Zenon DEF SetsOf
<1> QED
  BY <1>3, <1>4, <1>5, <1>6, Zenon

\* A replay of the cost sweep will be a run of its policy, behind the others.
LEMMA ParetoKeeps ==
    ASSUME Sweeping, ParetoSweeping, paretoFile \in Seq(Row),
           plan' = plan, paretoFile' = paretoFile,
           NEW n \in Nat \ {0}, NEW fired, Cardinality(fired) \in Nat,
           NEW t, NEW p, Recorded(t, p, n, fired)
    PROVE  ParetoSweeping'
<1> DEFINE r == Block(t, p, n, fired)
           x == ResultOf(t, p, n, fired)
           b == paretoFile \o rows
<1>1. /\ rows \in Seq(Row) /\ results \in Seq(Result) /\ b \in Seq(Row)
  <2>1. rows \in Seq(Row) /\ results \in Seq(Result)
    BY DEF Sweeping, SweepOf
  <2> QED
    BY <2>1, ConcatProperties
<1>2. /\ t \in Files /\ p \in Policies
      /\ rows' = rows \o r /\ results' = Append(results, x)
  BY DEF Recorded
<1>3. /\ r \in Seq(Row) /\ Len(r) = n /\ AllOf(r, t) /\ AllUnder(r, p)
      /\ \A k \in 1..Len(r) : r[k].step = k - 1
  BY <1>2, BlockIs
<1>4. x \in Result /\ x.trajectory = t /\ x.policy = p
  BY <1>2 DEF ResultOf, Result
<1> HIDE DEF r, x
<1>5. Len(r) # 0
  BY <1>3
<1>6. paretoFile' \o rows' = b \o r
  <2>1. (paretoFile \o rows) \o r = paretoFile \o (rows \o r)
    <3>1. \A u, v, w \in Seq(Row) : (u \o v) \o w = u \o (v \o w)
      BY ONLY ConcatAssociative
    <3>2. paretoFile \in Seq(Row) /\ rows \in Seq(Row) /\ r \in Seq(Row)
      BY <1>1, <1>3
    <3> QED
      BY ONLY <3>1, <3>2
  <2> QED
    BY <1>2, <2>1, Zenon
<1>7. results' = results \o <<x>> /\ <<x>> \in Seq(Result) /\ AllUnder(<<x>>, p)
  <2>1. Len(<<x>>) = 1 /\ \A k \in 1..1 : <<x>>[k] = x
    OBVIOUS
  <2> QED
    BY <1>1, <1>2, <1>4, <2>1, AppendIsConcat DEF AllUnder
<1> HIDE DEF b
<1>8. FramesGrow(b, r, p, Row) /\ FramesGrow(results, <<x>>, p, Result)
  BY <1>1, <1>3, <1>7, PolicyGrows, Zenon
<1>9. ASSUME NEW q \in Policies
      PROVE  RunSets(OfPolicy(b \o r, q))
                = RunSets(OfPolicy(paretoFile, q)) \o SetsOf(OfPolicy(results', q))
  <2> DEFINE a == OfPolicy(b, q)
             rs == OfPolicy(results, q)
             u == RunSets(OfPolicy(paretoFile, q))
  <2>1. RunSets(a) = u \o SetsOf(rs)
    BY DEF ParetoSweeping, b
  <2>2. /\ a \in Seq(Row) /\ rs \in Seq(Result)
        /\ q = p => OfPolicy(b \o r, q) = a \o r /\ OfPolicy(results \o <<x>>, q) = rs \o <<x>>
        /\ q # p => OfPolicy(b \o r, q) = a /\ OfPolicy(results \o <<x>>, q) = rs
    BY <1>8 DEF FramesGrow
  <2>3. u \in Seq(SUBSET Files)
    <3>1. OfPolicy(paretoFile, q) \in Seq(Row)
      <4>1. OfPolicy(paretoFile, q) = Filter(paretoFile, WithPolicy(Row, q))
        BY FramesAre, Zenon
      <4>2. Filter(paretoFile, WithPolicy(Row, q)) \in Seq(Row)
        BY FilterKeeps, Zenon
      <4> QED
        BY <4>1, <4>2, Zenon
    <3> QED
      BY <3>1, RunSetsAre
  <2> HIDE DEF a, rs, u
  <2>4. CASE q # p
    BY <1>7, <2>1, <2>2, <2>4, Zenon DEF a, rs, u
  <2>5. CASE q = p
    <3>1. RunSets(a \o r) = Append(RunSets(a), {t})
      BY <1>2, <1>3, <1>5, <2>2, RunSetsGrow
    <3>2. /\ SetsOf(rs) \in Seq(SUBSET Files)
          /\ SetsOf(Append(rs, x)) = Append(SetsOf(rs), {t})
      BY <1>4, <2>2, SetsAre
    <3>3. rs \o <<x>> = Append(rs, x)
      BY <1>4, <2>2, AppendIsConcat
    <3>4. u \o Append(SetsOf(rs), {t}) = Append(u \o SetsOf(rs), {t})
      <4>1. {t} \in SUBSET Files
        BY <1>2
      <4> QED
        BY <2>3, <3>2, <4>1, ConcatAppend
    <3> QED
      BY <1>7, <2>1, <2>2, <2>5, <3>1, <3>2, <3>3, <3>4, Zenon DEF u
  <2> QED
    BY <2>4, <2>5
<1>10. \E ts \in Seq(Files) : EachPlays(plan', Policies, ts)
  BY Zenon DEF ParetoSweeping
<1> QED
  BY <1>6, <1>9, <1>10 DEF ParetoSweeping

\* Once it is through, each policy has replayed the same, in the same order.
LEMMA AllReplayedTheSame ==
    ASSUME Sweeping, Len(results) = Len(plan),
           NEW ts \in Seq(Files), EachPlays(plan, Policies, ts), NEW p \in Policies
    PROVE  SetsOf(OfPolicy(results, p)) = [k \in 1..Len(ts) |-> {ts[k]}]
<1> DEFINE f == [r \in Result |-> RunOf(r)]
           kept == OfPolicy(results, p)
<1>1. /\ results \in Seq(Result) /\ plan \in Seq(Files \X Policies)
      /\ \A n \in 1..Len(results) : RunOf(results[n]) = plan[n]
      /\ Len(results) \in Nat /\ Len(ts) \in Nat
  BY LenProperties DEF Sweeping, SweepOf
<1>2. \A r \in Result : f[r] = <<r.trajectory, r.policy>>
  BY DEF RunOf
<1>3. kept = Filter(results, WithPolicy(Result, p)) /\ kept \in Seq(Result)
  <2>1. kept = Filter(results, WithPolicy(Result, p))
    BY <1>1, FramesAre, Zenon
  <2>2. Filter(results, WithPolicy(Result, p)) \in Seq(Result)
    BY <1>1, FilterKeeps, Zenon
  <2> QED
    BY <2>1, <2>2, Zenon
<1>4. Mapped(results, f) = plan
  <2>1. ListOfImages(Mapped(results, f), results, f, Result)
    BY <1>1, ImagesAre
  <2> DEFINE R == { f[r] : r \in Result }
             u == Mapped(results, f)
  <2>2. u \in Seq(R) /\ Len(u) = Len(results) /\ \A n \in 1..Len(results) : u[n] = f[results[n]]
    BY <2>1, Zenon DEF ListOfImages
  <2>3. \A n \in 1..Len(results) : f[results[n]] = plan[n]
    <3>1. \A n \in 1..Len(results) : results[n] \in Result
      BY <1>1, ElementOfSeq
    <3> QED
      BY <1>1, <1>2, <3>1, Zenon DEF RunOf
  <2>4. R \subseteq Files \X Policies
    <3>1. \A r \in Result : f[r] \in Files \X Policies
      <4> TAKE r \in Result
      <4>1. <<r.trajectory, r.policy>> \in Files \X Policies
        BY DEF Result
      <4> QED
        BY <1>2, <4>1, Zenon
    <3> HIDE DEF f
    <3> QED
      BY <3>1, Zenon
  <2> HIDE DEF R, u, f
  <2>5. u \in Seq(Files \X Policies)
    BY <2>2, <2>4, SeqMonotonic
  <2>6. \A n \in 1..Len(results) : u[n] = plan[n]
    BY <2>2, <2>3, Zenon
  <2>7. u = plan
    BY <1>1, <2>2, <2>5, <2>6, SeqEqual
  <2> QED
    BY <2>7 DEF u
<1>5. Carries(f, Result, WithPolicy(Result, p), Replays(p))
  <2>1. \A r \in Result : r \in WithPolicy(Result, p) <=> <<r.trajectory, r.policy>> \in Replays(p)
    BY DEF WithPolicy, Replays, Result
  <2> QED
    BY <1>2, <2>1, Zenon DEF Carries
<1> HIDE DEF f
<1>6. Filter(Mapped(results, f), Replays(p)) = Mapped(Filter(results, WithPolicy(Result, p)), f)
  BY <1>1, <1>5, FilterMapped
<1>7. Mapped(kept, f) = Mapped(ts, Under(p))
  BY <1>3, <1>4, <1>6, Zenon DEF EachPlays
<1> HIDE DEF kept
<1>8. /\ Len(Mapped(kept, f)) = Len(kept)
      /\ \A k \in 1..Len(kept) : Mapped(kept, f)[k] = f[kept[k]]
  <2>1. ListOfImages(Mapped(kept, f), kept, f, Result)
    BY <1>3, ImagesAre
  <2> QED
    BY <2>1, Zenon DEF ListOfImages
<1>9. /\ Len(Mapped(ts, Under(p))) = Len(ts)
      /\ \A k \in 1..Len(ts) : Mapped(ts, Under(p))[k] = Under(p)[ts[k]]
  <2>1. ListOfImages(Mapped(ts, Under(p)), ts, Under(p), Files)
    BY ImagesAre
  <2> QED
    BY <2>1, Zenon DEF ListOfImages
<1>10. Len(kept) = Len(ts)
  BY <1>7, <1>8, <1>9, Zenon
<1>11. ASSUME NEW k \in 1..Len(ts) PROVE kept[k].trajectory = ts[k]
  <2>1. f[kept[k]] = Under(p)[ts[k]]
    BY <1>7, <1>8, <1>9, <1>10, Zenon
  <2>2. kept[k] \in Result /\ ts[k] \in Files
    BY <1>3, <1>10, ElementOfSeq
  <2>3. Under(p)[ts[k]] = <<ts[k], p>>
    BY <2>2 DEF Under
  <2>4. <<kept[k].trajectory, kept[k].policy>> = <<ts[k], p>>
    BY <1>2, <2>1, <2>2, <2>3, Zenon
  <2> QED
    BY <2>4
<1>12. /\ SetsOf(kept) \in Seq(SUBSET Files) /\ Len(SetsOf(kept)) = Len(kept)
       /\ \A k \in 1..Len(kept) : SetsOf(kept)[k] = {kept[k].trajectory}
  BY <1>3, SetsAre
<1> DEFINE u == SetsOf(kept)
<1>13. u = [k \in 1..Len(u) |-> u[k]]
  BY <1>12, LenProperties
<1>14. \A k \in 1..Len(ts) : u[k] = {ts[k]}
  BY <1>10, <1>11, <1>12, Zenon
<1>15. Len(u) = Len(ts)
  BY <1>10, <1>12
<1> HIDE DEF u
<1>16. u = [k \in 1..Len(ts) |-> {ts[k]}]
  BY <1>13, <1>14, <1>15
<1> QED
  BY <1>16 DEF u, kept

\* So the policies agree on the file behind it, if they did before.
LEMMA ParetoEnds ==
    ASSUME Sweeping, ParetoSweeping, Len(results) = Len(plan),
           paretoFile \in Seq(Row), Agree(paretoFile)
    PROVE  paretoFile \o rows \in Seq(Row) /\ Agree(paretoFile \o rows)
<1> DEFINE b == paretoFile \o rows
           Old(p) == RunSets(OfPolicy(paretoFile, p))
           New(p) == RunSets(OfPolicy(b, p))
<1>1. b \in Seq(Row)
  BY ConcatProperties DEF Sweeping, SweepOf
<1>2. PICK ts \in Seq(Files) : EachPlays(plan, Policies, ts)
  BY DEF ParetoSweeping
<1> DEFINE sets == [k \in 1..Len(ts) |-> {ts[k]}]
<1>3. ASSUME NEW p \in Policies PROVE New(p) = Old(p) \o sets
  <2>1. New(p) = Old(p) \o SetsOf(OfPolicy(results, p))
    BY DEF ParetoSweeping
  <2>2. SetsOf(OfPolicy(results, p)) = sets
    BY <1>2, AllReplayedTheSame
  <2> QED
    BY <2>1, <2>2, Zenon
<1>4. ASSUME NEW p \in Policies PROVE Old(p) \in Seq(SUBSET Files)
  <2>1. OfPolicy(paretoFile, p) = Filter(paretoFile, WithPolicy(Row, p))
    BY FramesAre, Zenon
  <2>2. Filter(paretoFile, WithPolicy(Row, p)) \in Seq(Row)
    BY FilterKeeps, Zenon
  <2>3. OfPolicy(paretoFile, p) \in Seq(Row)
    BY <2>1, <2>2, Zenon
  <2> QED
    BY <2>3, RunSetsAre
<1>5. /\ sets \in Seq(SUBSET Files) /\ Len(sets) = Len(ts) /\ Len(ts) \in Nat
      /\ \A k \in 1..Len(ts) : sets[k] = {ts[k]} /\ ts[k] \in Files
  <2>1. Len(ts) \in Nat /\ \A k \in 1..Len(ts) : ts[k] \in Files
    BY LenProperties, ElementOfSeq
  <2>2. sets \in [1..Len(ts) -> SUBSET Files] /\ \A k \in 1..Len(ts) : sets[k] = {ts[k]}
    BY <2>1
  <2> HIDE DEF sets
  <2>3. sets \in Seq(SUBSET Files)
    BY <2>1, <2>2, SeqDef
  <2> QED
    BY <2>1, <2>2, <2>3, LenProperties
<1>6. ASSUME NEW p \in Policies
      PROVE  /\ Old(p) = Old("naive")
             /\ \A n \in 1..Len(Old(p)) : \E t \in Files : Old(p)[n] = {t}
  BY Zenon DEF Agree
<1>7. "naive" \in Policies
  BY DEF Policies
<1> HIDE DEF Old, New, sets
<1>8. ASSUME NEW p \in Policies
      PROVE  New(p) = New("naive") /\ \A n \in 1..Len(New(p)) : \E t \in Files : New(p)[n] = {t}
  <2>1. New(p) = New("naive")
    BY <1>3, <1>6, <1>7, Zenon
  <2> DEFINE o == Old(p)
             w == o \o sets
  <2>2. /\ Len(o) \in Nat /\ Len(w) = Len(o) + Len(ts)
        /\ \A i \in 1..(Len(o) + Len(ts)) : w[i] = IF i <= Len(o) THEN o[i] ELSE sets[i - Len(o)]
    <3>1. o \in Seq(SUBSET Files)
      BY <1>4
    <3> HIDE DEF o
    <3>2. /\ Len(w) = Len(o) + Len(sets)
          /\ \A i \in 1..(Len(o) + Len(sets)) :
                w[i] = IF i <= Len(o) THEN o[i] ELSE sets[i - Len(o)]
      <4>1. \A u, v \in Seq(SUBSET Files) :
                /\ Len(u \o v) = Len(u) + Len(v)
                /\ \A i \in 1..(Len(u) + Len(v)) :
                        (u \o v)[i] = IF i <= Len(u) THEN u[i] ELSE v[i - Len(u)]
        BY ONLY ConcatProperties
      <4>2. o \in Seq(SUBSET Files) /\ sets \in Seq(SUBSET Files)
        BY <1>5, <3>1
      <4> QED
        BY ONLY <4>1, <4>2
    <3>3. Len(o) \in Nat
      BY <3>1, LenProperties, Zenon
    <3> HIDE DEF w
    <3> QED
      BY <1>5, <3>2, <3>3
  <2>3. ASSUME NEW n \in 1..Len(w) PROVE \E t \in Files : w[n] = {t}
    <3> HIDE DEF o, w
    <3>1. CASE n <= Len(o)
      <4>1. n \in 1..Len(o) /\ w[n] = o[n]
        BY <1>5, <2>2, <3>1
      <4> QED
        BY <1>6, <4>1, Zenon DEF o
    <3>2. CASE ~(n <= Len(o))
      <4>1. n - Len(o) \in 1..Len(ts) /\ w[n] = sets[n - Len(o)]
        BY <1>5, <2>2, <3>2
      <4> QED
        BY <1>5, <4>1, Zenon
    <3> QED
      BY <3>1, <3>2
  <2>4. New(p) = w
    BY <1>3
  <2> HIDE DEF w
  <2> QED
    BY <2>1, <2>3, <2>4, Zenon
<1> QED
  BY <1>1, <1>8, Zenon DEF Agree, New, b
-----------------------------------------------------------------------------
\* Only the cost sweep and the sweep of the cliff need more than the others.
LEMMA SweepGoesOn ==
    ASSUME CInv, dir' = dir, at # 0, at' = at, paretoFile' = paretoFile, stage' = "replay",
           Sweeping', drawn' = <<>>, SliceIsComparison',
           STEPS[at] = "phase1_cliff" => CliffSweeping',
           STEPS[at] = "phase4_pareto_cost" => ParetoSweeping'
    PROVE  CInv'
<1>1. Agree(paretoFile)' /\ paretoFile' \in Seq(Row)
  BY DEF CInv, Agree
<1>2. at' # 0 => \A f \in DOMAIN dir' : dir'[f].lines \in Nat
  BY DEF CInv
<1> QED
  BY <1>1, <1>2 DEF CInv, Running

\* The order of each sweep.
LEMMA OrdersAre ==
    ASSUME CInv, at # 0, NEW name, CanLoad(Selected(name))
    PROVE  LET ts == Selected(name)
           IN  /\ ts \in Seq(Files) /\ ts # <<>> /\ NoRepeats(ts)
               /\ \A P \in { <<"naive", "append_only">>, <<"naive", "append_only", "kv_evict">>,
                             <<"naive", "append_only", "kv_evict", "hybrid">>, ParetoPolicies } :
                    OrderOf(Rotating(P, ts), ts)
               /\ EachPlays(Rotating(ParetoPolicies, ts), Policies, ts)
<1> DEFINE ts == Selected(name)
<1>1. ts \in Seq(Files) /\ ts # <<>> /\ NoRepeats(ts)
  BY SelectedPlays DEF CInv
<1> HIDE DEF ts
<1>2. ASSUME NEW P \in { <<"naive", "append_only">>, <<"naive", "append_only", "kv_evict">>,
                         <<"naive", "append_only", "kv_evict", "hybrid">>, ParetoPolicies }
      PROVE  OrderOf(Rotating(P, ts), ts)
  <2>1. P # <<>> /\ NoRepeats(P)
    BY PolicyLists, Zenon
  <2>2. \E Q \in SUBSET Policies : P \in Seq(Q) /\ \A p \in Q : \E k \in 1..Len(P) : P[k] = p
    BY PolicyLists, Zenon
  <2>3. PICK Q \in SUBSET Policies : P \in Seq(Q) /\ \A p \in Q : \E k \in 1..Len(P) : P[k] = p
    BY <2>2
  <2> QED
    BY <1>1, <2>1, <2>3, RotatingIsAnOrder
<1>3. EachPlays(Rotating(ParetoPolicies, ts), Policies, ts)
  <2> DEFINE P == ParetoPolicies
  <2>1. /\ P # <<>> /\ NoRepeats(P) /\ P \in Seq(Policies)
        /\ \A p \in Policies : \E k \in 1..Len(P) : P[k] = p
    BY PolicyLists, Zenon
  <2>2. Policies \in SUBSET Policies
    OBVIOUS
  <2> HIDE DEF P
  <2>3. EachPlays(Rotating(P, ts), Policies, ts)
    BY <1>1, <2>1, <2>2, RotatingIsAnOrder
  <2> QED
    BY <2>3 DEF P
<1> QED
  BY <1>1, <1>2, <1>3, Zenon DEF ts

\* A sweep of several policies begins.
LEMMA ComparisonStarts ==
    ASSUME CInv, dir' = dir, StartLayout \/ StartKvEvict \/ StartHybrid
    PROVE  CInv'
<1>1. PICK name \in {"phase2_layout", "phase4_kv_evict", "phase4_hybrid"},
           P \in { <<"naive", "append_only">>, <<"naive", "append_only", "kv_evict">>,
                   <<"naive", "append_only", "kv_evict", "hybrid">> } :
        Start(name, Rotating(P, Selected(name)))
  BY Zenon DEF StartLayout, StartKvEvict, StartHybrid
<1> DEFINE order == Rotating(P, Selected(name))
<1>2. at # 0 /\ STEPS[at] = name /\ CanLoad(Selected(name)) /\ name \in Sweeps
  BY <1>1 DEF Start, Running, Sweeps
<1>3. OrderOf(order, Selected(name))
  BY <1>2, OrdersAre
<1>4. Start(name, order)
  BY <1>1
<1> HIDE DEF order
<1>5. /\ Sweeping' /\ SliceIsComparison' /\ drawn' = <<>> /\ stage' = "replay" /\ at' = at
      /\ paretoFile' = paretoFile
  BY <1>2, <1>3, <1>4, StartSweeps
<1>6. STEPS[at] # "phase1_cliff" /\ STEPS[at] # "phase4_pareto_cost"
  BY <1>1, <1>2
<1> QED
  BY <1>2, <1>5, <1>6, SweepGoesOn

\* The sweep of the cliff begins.
LEMMA CliffStarts ==
    ASSUME CInv, dir' = dir, StartCliff
    PROVE  CInv'
<1> DEFINE ts == Selected("phase1_cliff")
           order == [n \in DOMAIN ts |-> <<ts[n], "naive">>]
<1>1. /\ at # 0 /\ STEPS[at] = "phase1_cliff" /\ CanLoad(Selected("phase1_cliff"))
      /\ "phase1_cliff" \in Sweeps
  BY DEF StartCliff, Start, Running, Sweeps
<1>2. ts \in Seq(Files) /\ ts # <<>> /\ NoRepeats(ts)
  BY <1>1, OrdersAre
<1>3. Start("phase1_cliff", order)
  BY Zenon DEF StartCliff
<1>4. OrderOf(order, ts) /\ \A n \in 1..Len(order) : order[n][2] = "naive"
  <2> HIDE DEF ts
  <2> QED
    BY <1>2, CliffIsAnOrder
<1> HIDE DEF order
<1>5. OrderOf(order, Selected("phase1_cliff"))
  BY <1>4
<1>6. /\ Sweeping' /\ SliceIsComparison' /\ drawn' = <<>> /\ stage' = "replay" /\ at' = at
      /\ paretoFile' = paretoFile /\ rows' = <<>> /\ results' = <<>> /\ plan' = order
  BY <1>1, <1>3, <1>5, StartSweeps
<1>7. Aligned(Fired(<<>>), <<>>, "events") /\ AllUnder(<<>>, "naive")
  <2>1. Fired(<<>>) = <<>>
    BY FilterEmpty, Zenon DEF Fired
  <2>2. Len(<<>>) = 0
    OBVIOUS
  <2>3. AllUnder(<<>>, "naive")
    BY <2>2 DEF AllUnder
  <2> QED
    BY <2>1, <2>3, AlignedEmpty, Zenon
<1>8. CliffSweeping'
  BY <1>4, <1>6, <1>7 DEF CliffSweeping
<1>9. STEPS[at] # "phase4_pareto_cost"
  BY <1>1
<1> QED
  BY <1>1, <1>6, <1>8, <1>9, SweepGoesOn

\* The cost sweep begins, behind what the file holds.
LEMMA ParetoStarts ==
    ASSUME CInv, dir' = dir, StartPareto
    PROVE  CInv'
<1> DEFINE ts == Selected("phase4_pareto_cost")
           order == Rotating(ParetoPolicies, ts)
<1>1. /\ at # 0 /\ STEPS[at] = "phase4_pareto_cost" /\ CanLoad(Selected("phase4_pareto_cost"))
      /\ "phase4_pareto_cost" \in Sweeps
  BY DEF StartPareto, Start, Running, Sweeps
<1>2. ts \in Seq(Files) /\ OrderOf(order, ts) /\ EachPlays(order, Policies, ts)
  BY <1>1, OrdersAre
<1>3. Start("phase4_pareto_cost", order)
  BY Zenon DEF StartPareto
<1> HIDE DEF order
<1>4. OrderOf(order, Selected("phase4_pareto_cost"))
  BY <1>2
<1>5. /\ Sweeping' /\ SliceIsComparison' /\ drawn' = <<>> /\ stage' = "replay" /\ at' = at
      /\ paretoFile' = paretoFile /\ rows' = <<>> /\ results' = <<>> /\ plan' = order
  BY <1>1, <1>3, <1>4, StartSweeps
<1>6. ASSUME NEW p \in Policies
      PROVE  RunSets(OfPolicy(paretoFile \o <<>>, p))
                = RunSets(OfPolicy(paretoFile, p)) \o SetsOf(OfPolicy(<<>>, p))
  <2>1. paretoFile \in Seq(Row) /\ paretoFile \o <<>> = paretoFile
    BY ConcatEmptySeq DEF CInv
  <2>2. SetsOf(OfPolicy(<<>>, p)) = <<>>
    <3>1. OfPolicy(<<>>, p) = <<>>
      BY FilterEmpty, Zenon DEF OfPolicy
    <3>2. Mapped(<<>>, Single) = <<>>
      BY MappedOne, Zenon
    <3> QED
      BY <3>1, <3>2, Zenon DEF SetsOf
  <2> DEFINE u == RunSets(OfPolicy(paretoFile, p))
  <2>3. u \in Seq(SUBSET Files)
    <3>1. OfPolicy(paretoFile, p) = Filter(paretoFile, WithPolicy(Row, p))
      BY <2>1, FramesAre, Zenon
    <3>2. Filter(paretoFile, WithPolicy(Row, p)) \in Seq(Row)
      BY <2>1, FilterKeeps, Zenon
    <3>3. OfPolicy(paretoFile, p) \in Seq(Row)
      BY <3>1, <3>2, Zenon
    <3> QED
      BY <3>3, RunSetsAre
  <2>4. u \o <<>> = u
    <3> HIDE DEF u
    <3> QED
      BY <2>3, ConcatEmptySeq
  <2> QED
    BY <2>1, <2>2, <2>4, Zenon
<1>7. ParetoSweeping'
  <2>1. \E us \in Seq(Files) : EachPlays(plan', Policies, us)
    BY <1>2, <1>5, Zenon
  <2> QED
    BY <1>5, <1>6, <2>1 DEF ParetoSweeping
<1>8. STEPS[at] # "phase1_cliff"
  BY <1>1
<1> QED
  BY <1>1, <1>5, <1>7, <1>8, SweepGoesOn

\* One replay, of whichever sweep.
LEMMA ReplayGoesOn ==
    ASSUME CInv, dir' = dir,
           ReplayCliff \/ ReplayLayout \/ ReplayKvEvict \/ ReplayHybrid \/ ReplayPareto
    PROVE  CInv'
<1>1. PICK name \in Sweeps : Replaying(name)
  BY DEF ReplayCliff, ReplayLayout, ReplayKvEvict, ReplayHybrid, ReplayPareto, Sweeps
<1>2. at # 0 /\ STEPS[at] = name /\ stage = "replay" /\ Len(results) < Len(plan)
  BY <1>1 DEF Replaying, Running
<1>3. Sweeping
  BY <1>1, <1>2 DEF CInv
<1>4. Limit \in Nat \ {0}
  BY <1>2, <1>3, LimitIs
<1>5. Cardinality({}) = 0 /\ Cardinality({}) \in Nat
  BY FS_EmptySet
<1>6. PICK n, fired :
        /\ n \in Nat \ {0} /\ Record(n, fired, n) /\ Cardinality(fired) \in Nat
        /\ STEPS[at] = "phase1_cliff" => fired \in { {n - 1}, 0..(n - 1) }
  <2>1. CASE ReplayCliff
    <3>1. PICK fired \in { {Limit - 1}, 0..(Limit - 1) } : Record(Limit, fired, Limit)
      BY <2>1, Zenon DEF ReplayCliff
    <3>2. Cardinality(fired) \in Nat
      <4>1. SmokeTest \in Files /\ "naive" \in Policies
        BY DEF Files, Policies
      <4> DEFINE m == Limit
      <4>2. m \in Nat \ {0} /\ fired \in { {m - 1}, 0..(m - 1) }
        BY <1>4
      <4> HIDE DEF m
      <4> QED
        BY <4>1, <4>2, FiredBlock
    <3> QED
      BY <1>4, <3>1, <3>2
  <2>2. CASE ReplayLayout \/ ReplayKvEvict \/ ReplayHybrid
    <3>1. Record(Limit, {}, Limit)
      BY <2>2, Zenon DEF ReplayLayout, ReplayKvEvict, ReplayHybrid
    <3>2. STEPS[at] # "phase1_cliff"
      BY <2>2 DEF ReplayLayout, ReplayKvEvict, ReplayHybrid, Replaying, Running
    <3> QED
      BY <1>4, <1>5, <3>1, <3>2, Zenon
  <2>3. CASE ReplayPareto
    <3>1. PICK n \in 1..Limit : Record(n, {}, n)
      BY <2>3, Zenon DEF ReplayPareto, NSteps
    <3>2. STEPS[at] # "phase1_cliff"
      BY <2>3 DEF ReplayPareto, Replaying, Running
    <3>3. n \in Nat \ {0}
      BY <1>4
    <3> QED
      BY <1>5, <3>1, <3>2, <3>3, Zenon
  <2> QED
    BY <2>1, <2>2, <2>3
<1>7. /\ Sweeping' /\ drawn' = <<>> /\ SliceIsComparison'
      /\ stage' = "replay" /\ at' = at /\ paretoFile' = paretoFile /\ plan' = plan
      /\ \E t \in Files, p \in Policies : Recorded(t, p, n, fired)
  BY <1>2, <1>3, <1>6, RecordSweeps
<1>8. PICK t, p : Recorded(t, p, n, fired)
  BY <1>7, Zenon
<1>9. STEPS[at] = "phase1_cliff" => CliffSweeping'
  <2> HAVE STEPS[at] = "phase1_cliff"
  <2>1. CliffSweeping
    BY <1>2 DEF CInv, Running
  <2> QED
    BY <1>2, <1>3, <1>6, <1>7, <1>8, <2>1, CliffKeeps
<1>10. STEPS[at] = "phase4_pareto_cost" => ParetoSweeping'
  <2> HAVE STEPS[at] = "phase4_pareto_cost"
  <2>1. ParetoSweeping /\ paretoFile \in Seq(Row)
    BY <1>2 DEF CInv, Running
  <2> QED
    BY <1>3, <1>6, <1>7, <1>8, <2>1, ParetoKeeps
<1> QED
  BY <1>2, <1>7, <1>9, <1>10, SweepGoesOn

\* The rows of a sweep that is through go to the file.
LEMMA FlushKeeps ==
    ASSUME CInv, dir' = dir, Flush
    PROVE  CInv'
<1>1. /\ at # 0 /\ STEPS[at] \in Sweeps /\ stage = "replay" /\ Len(results) = Len(plan)
      /\ stage' = "draw"
      /\ UNCHANGED <<at, plan, results, rows, drawn>>
      /\ paretoFile' = IF Running("phase4_pareto_cost") THEN paretoFile \o rows ELSE paretoFile
  BY DEF Flush
<1>2. Sweeping
  BY <1>1 DEF CInv
<1>3. Sweeping'
  <2>1. Playable(plan)'
    BY <1>1, <1>2 DEF Sweeping, Playable, Turns
  <2> QED
    BY <1>1, <1>2, <2>1 DEF Sweeping
<1>4. paretoFile' \in Seq(Row) /\ Agree(paretoFile')
  <2>1. CASE Running("phase4_pareto_cost")
    <3>1. ParetoSweeping /\ paretoFile \in Seq(Row) /\ Agree(paretoFile)
      BY <1>1, <2>1 DEF CInv
    <3>2. paretoFile \o rows \in Seq(Row) /\ Agree(paretoFile \o rows)
      BY <1>1, <1>2, <3>1, ParetoEnds
    <3> QED
      BY <1>1, <2>1, <3>2
  <2>2. CASE ~Running("phase4_pareto_cost")
    BY <1>1, <2>2 DEF CInv
  <2> QED
    BY <2>1, <2>2
<1>5. Running("phase1_cliff") => CliffSweeping'
  BY <1>1 DEF CInv, CliffSweeping
<1>6. SliceIsComparison'
  <2>1. drawn' = <<>>
    BY <1>1 DEF CInv
  <2> QED
    BY <2>1, NothingDrawn
<1>7. at' # 0 => \A f \in DOMAIN dir' : dir'[f].lines \in Nat
  BY <1>1 DEF CInv
<1> QED
  BY <1>1, <1>3, <1>4, <1>5, <1>6, <1>7 DEF CInv, Running

\* Every step of run_all.py and of the scripts it runs.
LEMMA CampaignKeeps ==
    ASSUME CInv, PipelineNext, dir' = dir
    PROVE  CInv'
<1>1. CASE Invoke
  <2>1. /\ stage' = "start" /\ paretoFile' = paretoFile /\ drawn' = <<>>
        /\ \A f \in DOMAIN dir : dir[f].lines \in CommitLines
    BY <1>1 DEF Invoke, Gone
  <2>2. \A f \in DOMAIN dir : dir[f].lines \in Nat
    BY <2>1, PipelineAssumption
  <2> QED
    BY <2>1, <2>2, NothingDrawn, BetweenSteps
<1>2. CASE CannotStart \/ StepFails \/ InputMissing
  <2>1. Exit
    BY <1>2 DEF CannotStart, StepFails, InputMissing
  <2>2. stage' = "start" /\ paretoFile' = paretoFile /\ drawn' = <<>> /\ at' = 0
    BY <2>1 DEF Exit, Lost
  <2> QED
    BY <2>2, NothingDrawn, BetweenSteps
<1>3. CASE StartCliff \/ StartLayout \/ StartKvEvict \/ StartHybrid \/ StartPareto
  BY <1>3, CliffStarts, ComparisonStarts, ParetoStarts
<1>4. CASE ReplayCliff \/ ReplayLayout \/ ReplayKvEvict \/ ReplayHybrid \/ ReplayPareto
  BY <1>4, ReplayGoesOn
<1>5. CASE Flush
  BY <1>5, FlushKeeps
<1>6. CASE DrawCliff \/ DrawComparison
  <2>1. at # 0 /\ stage' = "start" /\ paretoFile' = paretoFile
    BY <1>6 DEF DrawCliff, DrawComparison, Draw, Advance
  <2>2. SliceIsComparison'
    BY <1>6, CliffDraws, ComparisonDraws
  <2>3. \A f \in DOMAIN dir : dir[f].lines \in Nat
    BY <2>1 DEF CInv
  <2> QED
    BY <2>1, <2>2, <2>3, BetweenSteps
<1>7. CASE Measure
  <2>1. /\ at # 0 /\ at' = at /\ stage' = "replay" /\ paretoFile' = paretoFile /\ drawn' = <<>>
        /\ STEPS[at] \notin Sweeps
    BY <1>7 DEF Measure, Gone, Running, Sweeps, Probing
  <2>2. STEPS[at] # "phase1_cliff" /\ STEPS[at] # "phase4_pareto_cost"
    BY <2>1 DEF Sweeps
  <2>3. Agree(paretoFile)' /\ SliceIsComparison'
    BY <2>1, NothingDrawn DEF CInv, Agree
  <2> QED
    BY <2>1, <2>2, <2>3 DEF CInv, Running
<1>8. CASE Measured
  <2>1. at # 0 /\ stage = "replay" /\ stage' = "start" /\ paretoFile' = paretoFile /\ drawn' = drawn
    BY <1>8 DEF Measured, Advance
  <2>2. drawn' = <<>> /\ \A f \in DOMAIN dir : dir[f].lines \in Nat
    BY <2>1 DEF CInv
  <2> QED
    BY <2>1, <2>2, NothingDrawn, BetweenSteps
<1>9. CASE PlotPareto \/ BuildDeck \/ ReportCosts
  <2>1. at # 0 /\ stage' = "start" /\ paretoFile' = paretoFile /\ drawn' = <<>>
    <3>1. PICK name : PostProcess(name)
      BY <1>9, Zenon DEF PlotPareto, BuildDeck, ReportCosts
    <3> QED
      BY <3>1 DEF PostProcess, Running, Advance, Gone
  <2>2. \A f \in DOMAIN dir : dir[f].lines \in Nat
    BY <2>1 DEF CInv
  <2> QED
    BY <2>1, <2>2, NothingDrawn, BetweenSteps
<1> QED
  BY <1>1, <1>2, <1>3, <1>4, <1>5, <1>6, <1>7, <1>8, <1>9 DEF PipelineNext

\* Of every state of a campaign.
LEMMA CampaignInvariant == CampaignSpec => []CInv
<1>1. CampaignInit => CInv
  <2> SUFFICES ASSUME CampaignInit PROVE CInv
    OBVIOUS
  <2>1. at = 0 /\ stage = "start" /\ drawn = <<>> /\ paretoFile = <<>>
    BY DEF CampaignInit, PipelineInit
  <2>2. Agree(<<>>)
    <3>1. \A p : OfPolicy(<<>>, p) = <<>>
      BY FilterEmpty, Zenon DEF OfPolicy
    <3>2. RunSets(<<>>) = <<>>
      <4>1. <<>> \in Seq(Row) /\ Len(<<>>) = 0
        BY EmptySeq
      <4>2. RunStarts(<<>>) \in Seq(Nat)
            /\ \A n \in 1..Len(RunStarts(<<>>)) : RunStarts(<<>>)[n] \in 1..Len(<<>>)
        BY <4>1, StartsAre
      <4>3. Len(RunStarts(<<>>)) = 0
        <5>1. Len(RunStarts(<<>>)) \in Nat
          BY <4>2, LenProperties
        <5>2. ~(1 \in 1..Len(RunStarts(<<>>)))
          BY <4>1, <4>2
        <5> QED
          BY <5>1, <5>2
      <4>4. RunSets(<<>>) \in Seq(SUBSET Files) /\ Len(RunSets(<<>>)) = 0
        BY <4>1, <4>3, RunSetsAre
      <4> QED
        BY <4>4, EmptySeq
    <3>3. Len(<<>>) = 0
      OBVIOUS
    <3> QED
      BY <3>1, <3>2, <3>3 DEF Agree
  <2>3. SliceIsComparison
    <3>1. DOMAIN drawn = {}
      BY <2>1
    <3> QED
      BY <3>1, Zenon DEF SliceIsComparison
  <2> QED
    BY <2>1, <2>2, <2>3, EmptySeq DEF CInv, Running
<1>2. CInv /\ [CampaignNext]_<<recorderVars, pipelineVars>> => CInv'
  <2> SUFFICES ASSUME CInv, [CampaignNext]_<<recorderVars, pipelineVars>> PROVE CInv'
    OBVIOUS
  <2>1. CASE PipelineNext /\ UNCHANGED recorderVars
    BY <2>1, CampaignKeeps DEF recorderVars
  <2>2. CASE UNCHANGED pipelineVars /\ (at = 0 \/ dir' = dir)
    <3>1. /\ UNCHANGED <<at, stage, plan, results, rows, drawn, paretoFile>>
      BY <2>2 DEF pipelineVars
    <3>2. Agree(paretoFile)' /\ SliceIsComparison'
      BY <3>1 DEF CInv, Agree, SliceIsComparison
    <3>3. CASE at = 0
      <4>1. stage' = "replay" => drawn' = <<>>
        BY <3>1 DEF CInv
      <4> QED
        BY <3>1, <3>2, <3>3, <4>1 DEF CInv, Running
    <3>4. CASE dir' = dir
      <4>1. Sweeping => Sweeping'
        <5>1. Playable(plan) => Playable(plan)'
          BY <3>1, <3>4 DEF Playable, Turns
        <5> QED
          BY <3>1, <5>1 DEF Sweeping
      <4>2. (CliffSweeping => CliffSweeping') /\ (ParetoSweeping => ParetoSweeping')
        BY <3>1 DEF CliffSweeping, ParetoSweeping
      <4> QED
        BY <3>1, <3>2, <3>4, <4>1, <4>2 DEF CInv, Running
    <3> QED
      BY <2>2, <3>3, <3>4
  <2> QED
    BY <2>1, <2>2 DEF CampaignNext, recorderVars
<1> QED
  BY <1>1, <1>2, PTL DEF CampaignSpec

\* phase1_cliff.py:417-420 and the drivers behind it: for any trajectories and
\* lengths, wherever runs are cut short and wherever sweeps fail and are resumed,
\* the rows that a figure cuts out are those of the trajectory it compares.
THEOREM FiguresShowWhatTheyCompare == CampaignSpec => []SliceIsComparison
<1>1. CInv => SliceIsComparison
  BY DEF CInv
<1> QED
  BY <1>1, CampaignInvariant, PTL

\* dashboard.py:22-29, of a file that any number of sweeps, full and smoke,
\* failed and resumed, were flushed to: the Nth runs of two policies are of the
\* same trajectory, and of one.
THEOREM NthRunsAreAlike == CampaignSpec => []NthRunsAgree
<1>1. CInv => NthRunsAgree
  <2> SUFFICES ASSUME CInv PROVE NthRunsAgree
    OBVIOUS
  <2> DEFINE runsOf(p) == RunsOf(paretoFile, p)
             setsOf(p) == [n \in DOMAIN runsOf(p) |-> TrajectoriesOf(runsOf(p)[n])]
             replayed == [p \in ToSet(ParetoPolicies) |-> setsOf(p)]
  <2>1. ASSUME NEW p PROVE setsOf(p) = RunSets(OfPolicy(paretoFile, p))
    <3> DEFINE frame == OfPolicy(paretoFile, p)
               from == RunStarts(frame)
               run(n) == SubSeq(frame, from[n],
                                IF n = Len(from) THEN Len(frame) ELSE from[n + 1] - 1)
    <3>1. runsOf(p) = [n \in 1..Len(from) |-> run(n)]
      BY Zenon DEF RunsOf
    <3>2. RunSets(frame) = [n \in 1..Len(from) |-> TrajectoriesOf(run(n))]
      BY Zenon DEF RunSets
    <3> HIDE DEF run, from
    <3>3. DOMAIN runsOf(p) = 1..Len(from) /\ \A n \in 1..Len(from) : runsOf(p)[n] = run(n)
      BY <3>1
    <3> QED
      BY <3>2, <3>3
  <2>2. ToSet(ParetoPolicies) = Policies /\ "naive" \in Policies
    BY DEF ParetoPolicies, Policies, ToSet
  <2>3. ASSUME NEW p \in Policies
        PROVE  /\ setsOf(p) = setsOf("naive")
               /\ \A n \in DOMAIN setsOf(p) : Cardinality(setsOf(p)[n]) = 1
    <3> DEFINE u == RunSets(OfPolicy(paretoFile, p))
    <3>1. /\ u = RunSets(OfPolicy(paretoFile, "naive"))
          /\ \A n \in 1..Len(u) : \E t \in Files : u[n] = {t}
      BY DEF CInv, Agree
    <3>2. DOMAIN u = 1..Len(u)
      <4>1. paretoFile \in Seq(Row)
        BY DEF CInv
      <4>2. OfPolicy(paretoFile, p) = Filter(paretoFile, WithPolicy(Row, p))
        BY <4>1, FramesAre, Zenon
      <4>3. Filter(paretoFile, WithPolicy(Row, p)) \in Seq(Row)
        BY <4>1, FilterKeeps, Zenon
      <4>4. OfPolicy(paretoFile, p) \in Seq(Row)
        BY <4>2, <4>3, Zenon
      <4>5. u \in Seq(SUBSET Files)
        BY <4>4, RunSetsAre
      <4> QED
        BY <4>5, LenProperties
    <3>3. \A x : Cardinality({x}) = 1
      BY FS_Singleton, Zenon
    <3>4. \A n \in DOMAIN u : Cardinality(u[n]) = 1
      BY <3>1, <3>2, <3>3, Zenon
    <3> QED
      BY <2>1, <3>1, <3>4, Zenon
  <2> HIDE DEF setsOf
  <2>4. \A p \in DOMAIN replayed :
            /\ replayed[p] = replayed["naive"]
            /\ \A n \in DOMAIN replayed[p] : Cardinality(replayed[p][n]) = 1
    BY <2>2, <2>3
  <2> QED
    BY <2>4, Zenon DEF NthRunsAgree, setsOf
<1> QED
  BY <1>1, CampaignInvariant, PTL
=============================================================================
