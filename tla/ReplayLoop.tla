----------------------------- MODULE ReplayLoop -----------------------------
(***************************************************************************)
(* The measured replay (experiments/phase2_layout.py, run_trajectory):     *)
(* each raw turn goes through an AppendOnlyPolicy, what it returns is sent *)
(* to the engine, and the reuse the engine measured is held against the    *)
(* block arithmetic of bench/divergence.py.  One engine serves every       *)
(* trajectory, the summarizer's requests included, and `prev_prompt_ids`   *)
(* threads across trajectories while each gets a fresh policy.             *)
(***************************************************************************)
EXTENDS AppendOnlyPolicy, PrefixCache

CONSTANTS
    MaxModelLen,    \* max_model_len: tokens one request may hold
    MaxRuns         \* bound: trajectories replayed on one engine

\* vLLM starts only with room for one request of max_model_len tokens; every
\* turn renders its role at least (layout.py:26).
ASSUME ReplayAssumption ==
    /\ MaxModelLen \in Nat /\ MaxModelLen <= Capacity * BlockSize
    /\ 0 \notin {AnchorSize} \cup TurnSizes \cup SummarySizes
    /\ MaxRuns \in Nat \ {0}

VARIABLES
    align,      \* the --align flag
    run,        \* which trajectory is being replayed
    prevIds,    \* prev_prompt_ids
    pool,       \* the engine's prefix cache
    check,      \* the last step's DivergenceCheck and its cached tokens
    events,     \* event_divergence_token_indices of this trajectory
    verdict     \* "ok", or what the loop raised

loopVars == <<align, run, prevIds, pool, check, events, verdict>>

Filler == [kind |-> "filler"]
Header == [kind |-> "header"]

\* Faulty: pads up to the token in front of the boundary.
TokensToPad_OneShort(n) ==
    IF n % BlockSize = 0 THEN 0 ELSE BlockSize - (n % BlockSize) - 1

TokensToPad(n) == IF n % BlockSize = 0 THEN 0 ELSE BlockSize - (n % BlockSize)

Padded(ids) == ids \o [k \in 1..TokensToPad(Len(ids)) |-> <<Filler, 1>>]

\* Token k of a turn is the turn and k.
Tokens(turn) == [k \in 1..turn.size |-> <<turn, k>>]

\* The turns one behind the other, padded behind each turn that is in `ends`.
Laid(turns, ends) ==
    LET upTo[i \in 0..Len(turns)] ==
            IF i = 0 THEN <<>>
            ELSE LET ids == upTo[i - 1] \o Tokens(turns[i])
                 IN  IF i \in ends THEN Padded(ids) ELSE ids
    IN  upTo[Len(turns)]

\* render_turns_to_token_ids
TokenIds(turns) == Laid(turns, {})

\* render_context_state_aligned: every group but the live one is padded.
AlignedIds(a, f, l) == Laid(ToTurns(a, f, l), 1..(1 + Len(f)))

\* The prompt of a step, the policy having returned.
PromptIds(a, f, l) == IF align THEN AlignedIds(a, f, l) ELSE TokenIds(ToTurns(a, f, l))

\* LLMSummarizer.summarize: the retired turns under a header.
SummarizerIds(retired) == <<<<Header, 1>>>> \o TokenIds(retired)

FirstDivergence(s, t) ==
    LET shorter == IF Len(s) < Len(t) THEN Len(s) ELSE Len(t)
    IN  CHOOSE n \in 0..shorter :
            /\ \A i \in 1..n : s[i] = t[i]
            /\ n < shorter => s[n + 1] # t[n + 1]

\* compute_divergence_check, with the reuse that was measured.
DivergenceCheck(prev, new, cached) ==
    LET cacheable == Len(prev) \div BlockSize
        divergence == FirstDivergence(prev, new)
    IN  [divergence |-> divergence, cached |-> cached,
         predicted |-> cacheable - divergence \div BlockSize,
         measured |-> cacheable - cached \div BlockSize]

\* Faulty: tolerance_blocks = 0.
Mismatch_NoTolerance(c) == c.measured > c.predicted

\* assert_theory_matches, tolerance_blocks = 1
Mismatch(c) == c.measured > c.predicted + 1

LoopInit ==
    /\ Init
    /\ align \in BOOLEAN
    /\ run = 1
    /\ prevIds = <<>>
    /\ pool = <<>>
    /\ check = DivergenceCheck(<<>>, <<>>, 0)
    /\ events = <<>>
    /\ verdict = "ok"

\* What the policy of this step returned, as a prompt.
NextIds == PromptIds(anchor', frozen', live')

\* The policy returned what to send.
PolicyReturns == verdict = "ok" /\ Next /\ outcome' = "running"

\* The pool when the prompt arrives: the summarizer's request came first.
PoolAfterPolicy ==
    IF fired' THEN Served(pool, SummarizerIds(frozen'[Len(frozen')].of)) ELSE pool

\* Send it, check it, log it if it fired.
LoopStep ==
    /\ PolicyReturns
    /\ Len(NextIds) <= MaxModelLen
    /\ check' = DivergenceCheck(prevIds, NextIds, CachedTokens(PoolAfterPolicy, NextIds))
    /\ pool' = Served(PoolAfterPolicy, NextIds)
    /\ IF Mismatch(check')
       THEN verdict' = "theory_mismatch" /\ UNCHANGED <<events, prevIds>>
       ELSE /\ events' = IF fired' THEN Append(events, check'.divergence) ELSE events
            /\ prevIds' = NextIds
            /\ UNCHANGED verdict
    /\ UNCHANGED <<align, run>>

\* generate_step raises: the engine rejects a prompt beyond max_model_len.
PromptRejected ==
    /\ PolicyReturns
    /\ Len(NextIds) > MaxModelLen
    /\ verdict' = "rejected"
    /\ pool' = PoolAfterPolicy
    /\ UNCHANGED <<align, run, prevIds, check, events>>

\* The policy raised: the sweep ends.
PolicyRaises ==
    /\ verdict = "ok"
    /\ Next /\ outcome' # "running"
    /\ UNCHANGED loopVars

\* A new policy for the next trajectory.
FreshPolicy ==
    /\ outcome = "running" /\ verdict = "ok"
    /\ seen > 0 /\ run < MaxRuns
    /\ run' = run + 1
    /\ seen' = 0 /\ context' = <<>> /\ anchor' = None /\ frozen' = <<>> /\ live' = <<>>
    /\ firstHash' = None /\ fired' = FALSE
    /\ UNCHANGED <<outcome, align, prevIds, pool, check, verdict>>

\* Faulty: the events of earlier trajectories are not cleared.
NextTrajectory_KeepsEvents == FreshPolicy /\ UNCHANGED events

\* The trajectory is exhausted, or cut short by --max-steps; the next one
\* starts on the same engine.
NextTrajectory == FreshPolicy /\ events' = <<>>

LoopNext == LoopStep \/ PromptRejected \/ PolicyRaises \/ NextTrajectory

LoopSpec == LoopInit /\ [][LoopNext]_<<vars, loopVars>>
-----------------------------------------------------------------------------
\* divergence.py:108-112: an alarm "can only mean the model or measurement is
\* broken".  So with both right there is none, although the pool is bounded,
\* the summarizer's own requests push blocks out of it between two steps, and
\* prev_prompt_ids threads across trajectories and policies.
NoFalseAlarm == verdict # "theory_mismatch"

\* phase2_layout.py:267-275 and :295: the divergence indices of a trajectory's
\* successive events never decrease.
MonotonePrefixGrowth ==
    \A i \in 1..(Len(events) - 1) : events[i] <= events[i + 1]

\* alignment.py:3-10: with aligned segments an event re-prefills no token in
\* front of the divergence: the reuse reaches it at least, whatever the sizes
\* of the turns and summaries (and further where an earlier trajectory left
\* the same blocks behind).  A rejected prompt was not measured; with blocks of
\* one token a summarizer's request may push out the last one of the front.
AlignedEventsLoseNothing ==
    align /\ fired /\ verdict = "ok" => check.cached >= check.divergence
=============================================================================
