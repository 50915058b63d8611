--------------------------- MODULE ResultsPipeline ---------------------------
(***************************************************************************)
(* experiments/run_all.py over the scripts it runs: the sweeps that replay *)
(* the recorded trajectories under several policies and flush their rows   *)
(* to a parquet file, the figures each draws from the rows it holds, and   *)
(* the scripts that read the files again.  A row has no trajectory column: *)
(* here it carries its trajectory as a history, and no script looks at it. *)
(*                                                                         *)
(* One replay of a trajectory under a policy is one step; what happens     *)
(* within it is ReplayLoop's.  Its token counts matter to no property here.*)
(***************************************************************************)
EXTENDS FiniteSets, Lists, TrajectoryRecorder
LOCAL INSTANCE SequencesExt

CONSTANTS
    ReplaySteps,    \* bound on --max-steps, which a full run leaves open
    Outgrowing,     \* bound: the policies whose context outgrows the window
    CommitLines,    \* bound: lines of the trajectories that are ever replayed
    MaxInvocations  \* bound: how often run_all.py is started

ASSUME PipelineAssumption ==
    /\ ReplaySteps \in Nat \ {0} /\ CommitLines \subseteq Nat /\ MaxInvocations \in Nat
    /\ Len(Trajectories) >= 2

VARIABLES
    at,         \* the step that is running, an index of STEPS, or 0
    upTo,       \* the last step of this invocation
    scaled,     \* --smoke
    stage,      \* of the running step: "start" | "replay" | "draw"
    plan,       \* the replays of the sweep, in order: <<trajectory, policy>>
    results,    \* TrajectoryRunResults, in order
    rows,       \* the step collector
    drawn,      \* policy -> the rows of its curve in the figure
    paretoFile, \* phase4_pareto_cost_steps.parquet
    derived,    \* the other results that are read again
    resumeAt,   \* the step run_all.py says to resume from
    invocations,
    picked,     \* history: some invocation was told to skip a step not yet done
    lacking     \* history: a step did not find what it reads

pipelineVars == <<at, upTo, scaled, stage, plan, results, rows, drawn, paretoFile,
                  derived, resumeAt, invocations, picked, lacking>>
-----------------------------------------------------------------------------
\* Faulty: the deck is built before the figure it copies.
STEPS_DeckFirst ==
    <<"gate0_check", "phase1_cliff", "phase2_layout", "phase3_agreement", "phase3_probes",
      "phase3_ledger", "phase4_kv_evict", "phase4_offload_compare", "phase4_hybrid",
      "phase4_pareto_cost", "phase4_pareto_success", "demo_deck", "phase4_pareto_plot",
      "phase4_dashboard_agreement", "cost_model_report">>

STEPS ==
    <<"gate0_check", "phase1_cliff", "phase2_layout", "phase3_agreement", "phase3_probes",
      "phase3_ledger", "phase4_kv_evict", "phase4_offload_compare", "phase4_hybrid",
      "phase4_pareto_cost", "phase4_pareto_success", "phase4_pareto_plot",
      "phase4_dashboard_agreement", "demo_deck", "cost_model_report">>

\* The steps that replay the trajectories and draw a figure from their rows.
Sweeps == {"phase1_cliff", "phase2_layout", "phase4_kv_evict", "phase4_hybrid",
           "phase4_pareto_cost"}

\* The steps that load all trajectories, but whose results nobody reads again.
Probing == {"phase3_agreement", "phase3_probes", "phase4_offload_compare",
            "phase4_dashboard_agreement"}

Running(name) == at # 0 /\ STEPS[at] = name

\* load_trajectory: one turn per line; a torn line does not parse.
Loads(f) == dir[f].lines > 0 /\ ~dir[f].torn
Turns(f) == Least(dir[f].lines, ReplaySteps)

\* iter_trajectories: every file there is, by name; '_' sorts in front.
Listed == Filter(<<SmokeTest>> \o Trajectories, { f \in DOMAIN dir : dir[f].exists })

\* What --trajectories names, two files or one; without the option it is all
\* but the recording that was interrupted.
DEFAULT_EXCLUDE == {"traj-007"}

FewNamed(name) ==
    \/ name \in {"phase1_cliff", "phase4_pareto_cost"}
    \/ name = "phase4_offload_compare" /\ ~scaled

Selected(name) ==
    LET named == IF FewNamed(name) THEN ToSet(SubSeq(Trajectories, 1, 2)) ELSE {Trajectories[1]}
    IN  IF scaled \/ name \in {"phase4_offload_compare", "phase4_dashboard_agreement"}
        THEN Filter(Listed, named)
        ELSE Filter(Listed, ToSet(Listed) \ DEFAULT_EXCLUDE)

\* policies[i % n :] + policies[: i % n]
RotatedFrom(policies, i) ==
    SubSeq(policies, 1 + (i % Len(policies)), Len(policies))
        \o SubSeq(policies, 1, i % Len(policies))

\* Every trajectory under every policy, the first policy rotating.
Rotating(policies, ts) ==
    [n \in 1..(Len(ts) * Len(policies)) |->
        LET i == (n - 1) \div Len(policies) + 1
        IN  <<ts[i], RotatedFrom(policies, i - 1)[((n - 1) % Len(policies)) + 1]>>]
-----------------------------------------------------------------------------
PipelineInit ==
    /\ at = 0 /\ upTo = 0 /\ scaled = FALSE /\ stage = "start"
    /\ plan = <<>> /\ results = <<>> /\ rows = <<>> /\ drawn = <<>>
    /\ paretoFile = <<>> /\ derived = {}
    /\ resumeAt = 1 /\ invocations = 0 /\ picked = FALSE /\ lacking = FALSE

\* What a process held in memory.
Gone == plan' = <<>> /\ results' = <<>> /\ rows' = <<>> /\ drawn' = <<>>

\* run_all.py, --only k, or --from k: by default from the first step on.  What
\* it prints after a failure is --from the failed step, at the same scale.
Invoke ==
    /\ at = 0 /\ invocations < MaxInvocations
    /\ recorder = "off" /\ starts = MaxStarts
    /\ \A f \in DOMAIN dir : dir[f].lines \in CommitLines
    /\ \E k \in DOMAIN STEPS, only, small \in BOOLEAN :
        /\ at' = k /\ scaled' = small
        /\ upTo' = IF only THEN k ELSE Len(STEPS)
        /\ picked' = (picked \/ only \/ (k # 1 /\ ~(k = resumeAt /\ small = scaled)))
    /\ stage' = "start" /\ invocations' = invocations + 1 /\ Gone
    /\ UNCHANGED <<paretoFile, derived, resumeAt, lacking>>

\* The step's process exits with 0: the next step, if any is left.
Advance ==
    /\ at' = IF at = upTo THEN 0 ELSE at + 1
    /\ resumeAt' = IF at = upTo THEN 1 ELSE resumeAt
    /\ stage' = "start"
    /\ UNCHANGED <<upTo, scaled, invocations, picked>>

\* Faulty: the collectors are flushed on the way out of a failed sweep, too.
Lost_Flushed ==
    /\ rows' = <<>>
    /\ paretoFile' = IF Running("phase4_pareto_cost") /\ stage = "replay"
                     THEN paretoFile \o rows ELSE paretoFile

\* The rows of a sweep that fails are lost with its process.
Lost == rows' = <<>> /\ UNCHANGED paretoFile

Exit ==
    /\ at # 0
    /\ at' = 0 /\ resumeAt' = at /\ stage' = "start"
    /\ Lost
    /\ plan' = <<>> /\ results' = <<>> /\ drawn' = <<>>
    /\ UNCHANGED <<upTo, scaled, derived, invocations, picked>>

\* Any exception of a step that got as far as its work: run_all.py stops.
StepFails == stage # "start" /\ Exit /\ UNCHANGED lacking

\* A trajectory that does not parse, or none selected, fails before the work.
CanLoad(ts) == (\A n \in DOMAIN Listed : Loads(Listed[n])) /\ ts # <<>>
-----------------------------------------------------------------------------
\* A sweep replays what it selected in the order of the driver.
Start(name, order) ==
    /\ Running(name) /\ stage = "start"
    /\ CanLoad(Selected(name))
    /\ stage' = "replay" /\ plan' = order
    /\ results' = <<>> /\ rows' = <<>> /\ drawn' = <<>>
    /\ UNCHANGED <<at, upTo, scaled, paretoFile, derived, resumeAt, invocations, picked, lacking>>

CannotStart ==
    /\ at # 0 /\ stage = "start"
    /\ \/ STEPS[at] \in Sweeps \cup Probing /\ ~CanLoad(Selected(STEPS[at]))
       \/ Running("gate0_check") /\ ~Loads(Trajectories[1])
    /\ Exit
    /\ UNCHANGED lacking

\* The next replay records a row for each of its n steps and its result.
Record(n, fired, nSteps) ==
    LET run == plan[Len(results) + 1]
    IN  /\ rows' = rows \o [k \in 1..n |->
                [trajectory |-> run[1], policy |-> run[2], step |-> k - 1,
                 fired |-> k - 1 \in fired]]
        /\ results' = Append(results,
                [trajectory |-> run[1], policy |-> run[2], steps |-> nSteps,
                 events |-> Cardinality(fired)])
        /\ UNCHANGED <<at, upTo, scaled, stage, plan, drawn, paretoFile, derived, resumeAt,
                       invocations, picked, lacking>>

Replaying(name) == Running(name) /\ stage = "replay" /\ Len(results) < Len(plan)
Limit == Turns(plan[Len(results) + 1][1])
-----------------------------------------------------------------------------
\* phase1_cliff: one policy; the figure slices its events, too, so here it
\* matters at which step one fired.
StartCliff == Start("phase1_cliff",
    [n \in DOMAIN Selected("phase1_cliff") |-> <<Selected("phase1_cliff")[n], "naive">>])

ReplayCliff ==
    /\ Replaying("phase1_cliff")
    /\ \E fired \in { {Limit - 1}, 0..(Limit - 1) } : Record(Limit, fired, Limit)

\* phase2_layout alternates two policies, phase4_kv_evict and phase4_hybrid
\* rotate three and four, phase4_pareto_cost five.
StartLayout == Start("phase2_layout",
    Rotating(<<"naive", "append_only">>, Selected("phase2_layout")))

ReplayLayout == Replaying("phase2_layout") /\ Record(Limit, {}, Limit)

StartKvEvict == Start("phase4_kv_evict",
    Rotating(<<"naive", "append_only", "kv_evict">>, Selected("phase4_kv_evict")))

ReplayKvEvict == Replaying("phase4_kv_evict") /\ Record(Limit, {}, Limit)

StartHybrid == Start("phase4_hybrid",
    Rotating(<<"naive", "append_only", "kv_evict", "hybrid">>, Selected("phase4_hybrid")))

ReplayHybrid == Replaying("phase4_hybrid") /\ Record(Limit, {}, Limit)

ParetoPolicies == <<"naive", "append_only", "kv_evict", "hybrid", "none">>

StartPareto == Start("phase4_pareto_cost", Rotating(ParetoPolicies, Selected("phase4_pareto_cost")))

\* Faulty: the result of a run that was cut short counts all of its steps.
NSteps_Whole(n) == Limit

\* step_idx if context_exceeded else limit
NSteps(n) == n

\* A prompt that outgrows the window ends the run in front of its step; an
\* anchor alone never does.
ReplayPareto ==
    /\ Replaying("phase4_pareto_cost")
    /\ \E n \in 1..Limit :
        /\ n < Limit => plan[Len(results) + 1][2] \in Outgrowing
        /\ Record(n, {}, NSteps(n))
-----------------------------------------------------------------------------
\* The rows go to the file, behind those of earlier sweeps.
Flush ==
    /\ at # 0 /\ STEPS[at] \in Sweeps /\ stage = "replay" /\ Len(results) = Len(plan)
    /\ stage' = "draw"
    /\ paretoFile' = IF Running("phase4_pareto_cost") THEN paretoFile \o rows ELSE paretoFile
    /\ UNCHANGED <<at, upTo, scaled, plan, results, rows, drawn, derived, resumeAt,
                   invocations, picked, lacking>>

Total(rs, field) == TotalOf([n \in 1..Len(rs) |-> rs[n][field]])

\* The result of the trajectory to be compared, or the first one.
Comparison(rs) ==
    IF \E n \in DOMAIN rs : rs[n].trajectory = Trajectories[1]
    THEN CHOOSE n \in DOMAIN rs : /\ rs[n].trajectory = Trajectories[1]
                                  /\ \A m \in 1..(n - 1) : rs[m].trajectory # Trajectories[1]
    ELSE 1

\* iloc[start:end]: behind what the earlier results account for.
Slice(frame, rs, field) ==
    LET start == Total(SubSeq(rs, 1, Comparison(rs) - 1), field)
    IN  SubSeq(frame, start + 1, Least(start + rs[Comparison(rs)][field], Len(frame)))

OfPolicy(s, p) == Filter(s, { r \in ToSet(s) : r.policy = p })
OfTrajectory(s, t) == Filter(s, { r \in ToSet(s) : r.trajectory = t })
Fired(s) == Filter(s, { r \in ToSet(s) : r.fired })

Draw(names, figure) ==
    /\ at # 0 /\ STEPS[at] \in names /\ stage = "draw"
    /\ drawn' = figure
    /\ Advance
    /\ UNCHANGED <<plan, results, rows, paretoFile, derived, lacking>>

DrawCliff ==
    Draw({"phase1_cliff"}, [p \in {"naive"} |->
        IF Len(results) = 1 THEN [steps |-> rows, events |-> Fired(rows)]
        ELSE [steps |-> Slice(rows, results, "steps"),
              events |-> Slice(Fired(rows), results, "events")]])

\* One curve for each policy, cut from the rows of that policy.
DrawComparison ==
    Draw(Sweeps \ {"phase1_cliff"}, [p \in { r.policy : r \in ToSet(results) } |->
        [steps |-> Slice(OfPolicy(rows, p), OfPolicy(results, p), "steps"), events |-> <<>>]])
-----------------------------------------------------------------------------
\* A step that measures something else.  phase3_probes cannot run at scale:
\* one fact does not match the five insertion steps.
Measure ==
    /\ at # 0 /\ stage = "start"
    /\ \/ Running("gate0_check") /\ Loads(Trajectories[1])
       \/ STEPS[at] \in Probing /\ CanLoad(Selected(STEPS[at]))
       \/ STEPS[at] \in {"phase3_ledger", "phase4_pareto_success"}
    /\ stage' = "replay" /\ Gone
    /\ UNCHANGED <<at, upTo, scaled, paretoFile, derived, resumeAt, invocations, picked, lacking>>

\* phase4_pareto_success at scale plays two of the five policies only.
Measured ==
    /\ at # 0 /\ STEPS[at] \notin Sweeps /\ stage = "replay"
    /\ ~(Running("phase3_probes") /\ scaled)
    /\ derived' = IF Running("phase4_pareto_success") /\ ~scaled
                  THEN derived \cup {"success"} ELSE derived
    /\ Advance
    /\ UNCHANGED <<plan, results, rows, drawn, paretoFile, lacking>>

\* What the scripts without a server read: the rows of the cost sweep, some
\* episode of every policy, and the Pareto figure.
Has(name) ==
    /\ paretoFile # <<>>
    /\ name = "phase4_pareto_plot" => "success" \in derived
    /\ name = "demo_deck" => "phase4_pareto.png" \in derived

PostProcess(name) ==
    /\ Running(name) /\ stage = "start"
    /\ Has(name)
    /\ Advance /\ Gone
    /\ UNCHANGED <<paretoFile, lacking>>

PlotPareto == PostProcess("phase4_pareto_plot") /\ derived' = derived \cup {"phase4_pareto.png"}
BuildDeck == PostProcess("demo_deck") /\ UNCHANGED derived
ReportCosts == PostProcess("cost_model_report") /\ UNCHANGED derived

InputMissing ==
    /\ at # 0 /\ stage = "start"
    /\ STEPS[at] \in {"phase4_pareto_plot", "demo_deck", "cost_model_report"} /\ ~Has(STEPS[at])
    /\ Exit
    /\ lacking' = TRUE

PipelineNext ==
    \/ Invoke \/ CannotStart \/ StepFails
    \/ StartCliff \/ StartLayout \/ StartKvEvict \/ StartHybrid \/ StartPareto
    \/ ReplayCliff \/ ReplayLayout \/ ReplayKvEvict \/ ReplayHybrid \/ ReplayPareto
    \/ Flush \/ DrawCliff \/ DrawComparison
    \/ Measure \/ Measured \/ PlotPareto \/ BuildDeck \/ ReportCosts \/ InputMissing

CampaignInit == RecorderInit /\ PipelineInit

CampaignNext ==
    \/ at = 0 /\ invocations = 0 /\ RecorderNext /\ UNCHANGED pipelineVars
    \/ PipelineNext /\ UNCHANGED recorderVars

CampaignSpec == CampaignInit /\ [][CampaignNext]_<<recorderVars, pipelineVars>>
-----------------------------------------------------------------------------
\* split_into_runs: a run starts at the first row and at every step 0.
RunStarts(frame) ==
    Filter([i \in 1..Len(frame) |-> i],
           { i \in 1..Len(frame) : i = 1 \/ frame[i].step = 0 })

RunsOf(file, p) ==
    LET frame == OfPolicy(file, p)
        from == RunStarts(frame)
    IN  [n \in 1..Len(from) |->
            SubSeq(frame, from[n], IF n = Len(from) THEN Len(frame) ELSE from[n + 1] - 1)]

TrajectoriesOf(run) == { r.trajectory : r \in ToSet(run) }

\* The drivers find the rows of one trajectory by adding up the n_steps of the
\* results in front of it, since a row does not say (phase1_cliff.py:417-420):
\* each curve is that trajectory from its first step to its last recorded one,
\* with just its events, wherever in the rotation it ran and wherever other
\* runs were cut short; .assign(step_idx=range(n)) therefore never raises.
SliceIsComparison ==
    \A p \in DOMAIN drawn :
        LET rs == OfPolicy(results, p)
            n == Comparison(rs)
            mine == OfTrajectory(OfPolicy(rows, p), rs[n].trajectory)
        IN  /\ drawn[p].steps = mine
            /\ Len(mine) = rs[n].steps
            /\ p = "naive" /\ drawn[p].events # <<>> =>
                    drawn[p].events = Fired(mine)

\* dashboard.py:22-29: the Nth runs of two policies "are therefore guaranteed to
\* be the same underlying trajectory".  Also in a file that several sweeps,
\* full and smoke, failed and resumed, were flushed to.
NthRunsAgree ==
    LET replayed == [p \in ToSet(ParetoPolicies) |->
                        LET runs == RunsOf(paretoFile, p)
                        IN  [n \in DOMAIN runs |-> TrajectoriesOf(runs[n])]]
    IN  \A p \in DOMAIN replayed :
            /\ replayed[p] = replayed["naive"]
            /\ \A n \in DOMAIN replayed[p] : Cardinality(replayed[p][n]) = 1

\* run_all.py: the notes on the post-processing steps say what they depend on
\* (run_all.py:225, :241, :247).  A run from the first step, resumed with the
\* command printed for a failed step, never comes to one whose inputs are not
\* there.
InputsExist == lacking => picked
=============================================================================
