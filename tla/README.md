# Formal verification of agentkv

`agentkv` (in `src/src/agentkv`, with the drivers in `src/experiments`) replays
recorded agent trajectories through *compaction policies* against a vLLM server
and measures how much of the prompt each step could reuse from the server's
prefix cache. This directory holds TLA+ models of it, the TLC configurations
that check them and TLAPS proofs of nearly all they check.

Paths below are relative to the repository root; `agentkv/` abbreviates
`src/agentkv/`. How to run a check, in this directory:

    tlc -config AppendOnly.cfg AppendOnlyPolicy
    tlc -config Campaign.cfg MCCampaign
    tlapm ReplayLoop_proofs.tla

## 1. Inventory

| part | state it keeps | operations | what must hold |
|---|---|---|---|
| context layout (`agentkv/context/`) | `ContextState`: anchor, frozen segments, live turns; the anchor's first hash | `to_turns`, `to_turn`, render, hash check, pad | a frozen segment's rendering never changes; an event diverges at the newest summary only; padding costs no reuse |
| policies (`agentkv/policies/`) | none / `ContextState` (append_only, hybrid) | `maybe_compact(turns, step)` | no turn lost or told twice, order kept, newest turn sent, `fired` says whether something was rewritten |
| engine client (`agentkv/serving/engine.py`) | server process, log thread, parsed capacity, HTTP client | boot, health wait, `generate_step`, `complete_text`, shutdown | a step is credited with its own reuse; no server survives its client; waits end |
| divergence check (`agentkv/bench/divergence.py`) | none (the caller threads the previous prompt) | `compute_divergence_check`, `assert_theory_matches` | no alarm when cache and measurement are right |
| sweeps (`experiments/phase*.py`) | context, previous prompt, event list, rows and results in memory | replay a trajectory under each policy, flush, draw | event indices monotone; a figure shows the rows of the trajectory it names |
| recorder (`experiments/record_trajectories.py`) | messages, `keep_n`, the open file | generate with shrink, tool calls, resume | a file is a complete trajectory; what was left out of a request stays out |
| offload connector (`agentkv/kv/`) | `_HOST_RAM`, requests that need a load | scheduler: match, build meta; worker: load, save | what is announced as loadable is what was stored; a block is judged by its turns |
| ledger (`agentkv/bench/tasks/ledger.py`, two drivers) | two balance dicts, cursor, report; the loop's counters; rows | tool calls, bootstrap, episode loop, flush | a run that does as it is told is scored a success; the policies are compared over the same episodes |
| probes, agreement (`agentkv/bench/`) | injected facts, rows | inject, query, parse, score | (scores are about text) |
| collector (`agentkv/metrics/collector.py`) | buffered rows, a parquet file | record, flush | what is in a file can be told apart again |
| `experiments/run_all.py` | the step that runs | run, stop, resume at a step | a resumed run finds what its steps read |
| rigor (`agentkv/metrics/rigor.py`) | clock lock and baseline | acquire, check, release | (prints a warning) |
| statistics, cost model, figures, dashboard | (nearly) none | pure functions, plotting | the dashboard's Nth runs are of one trajectory |

How they interact. A sweep owns everything: per step it hands the policy
`context_turns + [turn]` and replaces `context_turns` with what comes back; a
policy that summarizes calls the engine (`LLMSummarizer` -> `complete_text`)
before it returns; then the sweep sends the rendered context
(`generate_step`), holds the reuse against the block arithmetic and logs it.
Two pieces of state are shared without appearing in any signature: the server's
block pool, which the summarizer's requests and earlier trajectories use too, and
the server's hit counter, which is read before and after each request.

Where it is hard:

- *Protocol*: a stateful policy reads only `turns[-1]` and trusts that the rest
  is what it returned last time; a stateless one knows the past only from its
  own last answer.
- *Partial failure*: the new turn is in `live` before the anchor check and the
  summarizer run; an exception may leave any of them half done.
- *Lag*: the hit counter trails the responses it accounts for.
- *Concurrency*: server process, log thread, clock and client during boot.
- *Bounds and rounding*: block boundaries, cut-offs, windows, the context window.
- *Crashes*: files that exist before they are complete; rows kept in memory; files
  that several sweeps, failed, resumed and at another scale, were appended to.
- *Two lookups for one thing*: the offload connector looks a prompt up under one
  prefix and loads and stores it under another; the figures find a trajectory's rows by
  arithmetic, because a row does not name it.

`PROJECT.json` lists each hazard at its line with the properties that cover it,
and the ones no property covers yet with the reason.

## 2. Modules

    ContextState            turns, segments, rendering order, divergence
      CompactionPolicy      abstract: what every policy promises its caller
      AppendOnlyPolicy      -- implements CompactionPolicy
        MCAppendOnlyBound   the policy against a context window
        ReplayLoop          + PrefixCache: the measured replay
          ReplayLoop_proofs       about both; + SharedLemmas
      HybridPolicy          -- implements CompactionPolicy; + Lists
        HybridPolicy_proofs       + SharedLemmas
      StatelessPolicies     -- implement CompactionPolicy (none, naive, kv_evict)
        MCStateless         how much their contexts may grow
          StatelessPolicies_proofs  about both; + SharedLemmas
    PrefixCache             external: vLLM's block pool as the code relies on it;
                            + Lists
    EngineMetering          the lagging hit counter and the settling reads
    ServerLifecycle         boot, health wait, log thread, failure, shutdown
      Engine_proofs         about both halves of the engine client
    OffloadConnector        + PrefixCache: paging prompts to host RAM
      OffloadConnector_proofs     + SharedLemmas
      MCOffload
    LedgerEpisode           environment, episode loop, both drivers, the file
      LedgerEpisode_proofs        + SharedLemmas
      MCLedger
    TrajectoryRecorder      batch, recording loop, shrinking request, crashes
      MCRecorder
      ResultsPipeline       + run_all.py, the sweeps, what reads their files; + Lists
        ResultsPipeline_proofs    about both; + SharedLemmas
        MCCampaign
    Lists                   comprehension with a condition, sum, concatenation
    SharedLemmas            induction; facts about those lists and about renderings

**Abstractions of data.** A turn is a record of its position, role and token
count; its text is its identity. A summary is the turns it was made from and a
token count chosen by the environment. An anchor is a model value, so that
drift is a different value. Prompt length is the sum of the turns' sizes: a BPE
merge across the newline between two turns is not modelled. A token is
`<<turn, position>>`. `retire_fraction` is a percentage. In the stateless
policies, roles and texts are not read by the code and are left out.

### ContextState, CompactionPolicy

`ToTurn`, `FrozenTurns`, `ToTurns`, `PromptLen` are the functions of
`segments.py` and `layout.py`; `Freeze` is the one place where a segment is
added. `CompactionPolicy` says what the replay loop relies on: `Start` (the
anchor alone), `PassThrough` (`fired` false: exactly what was sent before, plus
the new raw turn), `Compact` (`fired` true: the anchor stays in front; raw turns
shown are among those handed in and in order), `Raise` (nothing is sent any
more). Each policy is checked to implement it through
`Policy == INSTANCE CompactionPolicy WITH ...`.

### AppendOnlyPolicy, HybridPolicy

One step is one call of `maybe_compact` together with the caller's assignment
of its result to `context_turns`. The actions are the ways through the function:
`FirstCall` (`_state is None`), `AnchorDrift` (the guard raises, with the new
turn already in `live`), `PlainStep` (below the threshold, fewer than two live
turns, nothing outside the protected window, or everything kept),
`SummarizerFails`, `CompactStep` and, in the hybrid policy, `EvictOnlyStep` (all
that goes is large tool output, so no summary is made). A raised exception ends
the replay, as in every driver.

### StatelessPolicies

One variable, `policy`, says which of the three runs. `OneSummaryOfThePast` is
the reason naive works at all: the summary it is handed back is always among the
turns it retires next, so exactly one summary stands for the whole past. `MCStateless`
adds what a context is bounded by: `RoomNeeded`, computed from the sizes of turns and
summaries alone. `SizesAssumption` only names the largest and the smallest of them.

### PrefixCache, ReplayLoop

`PrefixCache` is external: a pool of full blocks, each known by the whole prefix
it ends, evicted least recently used first, a request's own tail before its head,
with at least one token left to compute. Blocks that decoding adds are not modelled
(`max_tokens` is 8 in a sweep, half a block). `ReplayLoop` extends
`AppendOnlyPolicy` with the loop of `phase2_layout.py`: `LoopStep` is policy call,
summarizer request (it fills the pool first), rendering, with or without block
alignment, request, divergence check and event log; `PromptRejected` is a prompt
beyond `max_model_len`; `NextTrajectory` makes a new policy on the same engine with the
same `prev_prompt_ids`. `Laid` renders turns to tokens one behind the other and pads
behind those it is told to: none, or the anchor and each frozen segment (`--align`).

### EngineMetering

One client and a server that credits reused blocks late. `Poll` steps are the reads
of `_stable_prefix_cache_hit_blocks`; a call is `GenerateStep` or `CompleteText`,
`Responds`, the settling reads, `SettledAfter`. Time is the order of the steps:
`SettlePolls` is how many reads fit into `settle_timeout_s`. `steady` is the kind of
server. The code assumes, without saying so, one that credits at least one block in
every poll interval while anything is owed; the other kind credits whenever it likes, so
that two reads may be equal and the timeout may come while blocks are owed. `result`
remembers what its request really reused and what was owed at its two settled reads;
`carried` and `reported` are history.

### ServerLifecycle

Client, server, log thread and clock interleave freely. The server may log, become
healthy, crash or hang in any state; the log thread may lag arbitrarily; an interrupt
may hit anywhere in `_wait_until_ready`. `Kind` selects `VLLMEngine` (which shuts down
in an exception handler and waits for the capacity) or the recorder's
`LocalVLLMServer` (which does neither). The instruction between `Popen` and the `try`,
and an interrupt inside `shutdown`, are not modelled; `kill` is taken to end the process.

### OffloadConnector

One request passes through `GetNumNewMatchedTokens` and `UpdateStateAfterAlloc` (the
scheduler's half), `BuildConnectorMeta`, and `RunRequest` (the worker's half with the
forward pass between load and store), against the same `PrefixCache` as `ReplayLoop`.
`hostRam` maps a key to whether the KV under it is the key's own; `bad` are the blocks
of the GPU's cache whose KV is not. Nothing in the program knows either: they are what
the properties are about. A token is the sequence of its characters and a character is
the turn it belongs to, which is all the classification needs: `CharSpans`,
`TokenBoundary` (the binary search, as a recursive function of the interval that is
left), `TokenMask`, `BlocksWorth`.
`NextCondition` is the driver's change of server, with a new host tier. A prompt that is
`OneAbove` is one token longer than a whole number of blocks: `_align_to_block_size`, which
its callers hand one token less already, then drops a whole block.

Assumed: prompts of at least two tokens, scheduled whole and one after the other, as
the driver sends them (no chunked prefill, no preemption). vLLM's own behaviour -
trimming to full blocks, adding the connector's answer to what it holds, also when that
is negative - is external.

### LedgerEpisode

The state is the environment's (`actual`, `cursor`, `report`), the loop's (`stepIdx`,
`nToolCalls`, `stopped`) and the driver's (`job`, `rows`, `file`). `driver` says which of
the two scripts runs; they differ in the order of the policies. The model under test is
any caller: it fetches out of turn, moves any amount (negative ones too) between any
accounts, unknown and identical ones included, says something that is no call, reports
at any time. `done` and `faithful` record whether it did what it was told. What a policy
does with the turns is `CompactionPolicy`'s; here only their number counts. `SweepDies`
is any exception, `RunAgain` the script started again into the same file, with any of
`CommandLines`: `args` holds the seeds, the policies, the length of the queues and the
budget of calls of the running sweep, which is how `run_all.py --smoke` and the full pass
differ.

### TrajectoryRecorder

A file of the batch is the number of its lines and whether the last is torn; a history
unit (an assistant message with its answers) is known by the tokens of the history up
to its end, so that a request's size is a difference (`Requested`). `TooLong` is the
server's refusal, which reports the real size, and the shrink that follows, `int` of a
float quotient included (`Shrunk` allows both results where the quotient is whole).
`Raises` closes the file with all lines, `Killed` leaves any prefix of them, perhaps
torn. `finished` is history: the files whose recording came to its end.

### ResultsPipeline

Extends the recorder, so that the sweeps run over whatever files a batch left:
`CampaignNext` records first and then invokes `run_all.py`. `at` walks through `STEPS`;
each sweep goes through `Start...` (load everything, select, lay out the rotation),
one `Replay...` per trajectory and policy, `Flush` and `Draw...`. A row carries its
trajectory as history only: `Slice` and `RunsOf` find their rows the way the code does,
by adding up and by looking for step 0. Any step may fail wherever it does work
(`StepFails`), and `Invoke` may resume, skip, repeat or change scale. `picked` records
that somebody skipped a step that was not done yet, which the order of the list cannot
guard against.

Left out: the step files of the other sweeps and all events files, which nothing reads
again; what happens inside one replay (`ReplayLoop`); a kill within the write of a file.

## 3. Runs

| run | instance | what it shows |
|---|---|---|
| `append_only` | 9 turns of 1 or 3 tokens, an anchor of 4, threshold 7, 30 % retired, two anchor texts | conservation, contract, newest turn, place of divergence, refinement |
| `append_only_bound` | 40 turns of 2 tokens, window 20, threshold 12 | **violation**: frozen summaries outgrow the window |
| `hybrid` | 8 turns, two roles, two sizes, protected window 2 | only large tool output vanishes, recent turns protected, order, flag, refinement |
| `stateless` | 12 turns of 1 or 2 tokens, window of 3 turns, threshold 6, half retired | one summary of the past, contiguous window, compacted context bounded (by 10, which is reached), refinement |
| `replay` | 2 trajectories of 6 turns, blocks of 2, pool of 5 blocks, window 10 | no false alarm, monotone divergence, alignment |
| `metering` | 3 calls of up to 3 blocks, 3 polls, servers of both kinds | with a steady server each step gets its own reuse; with any, it is off by what is owed at its two reads, and nothing is counted twice |
| `lifecycle` | `VLLMEngine` | no orphan, boot and shutdown end |
| `lifecycle_recorder` | `LocalVLLMServer` | **violation**: an orphan after a failed startup |
| `offload` | 4 requests per condition out of 13 prompts, blocks of 2, pool of 4 blocks | wrong KV needs a prompt one token above a block multiple, any other that ran is found again, blocks are judged by their turns |
| `ledger` | 2 seeds with 3 transactions each, withdrawals and a transfer that overdraw among them, 2 policies, 8 calls; or 1 seed, 1 policy, 1 transaction, 4 calls; 1 bootstrap cycle, 3 starts at either scale | reference and live tools agree, rows are honest, each scale's rows are balanced |
| `campaign` | 2 trajectories and the smoke test's file, 2 starts of the recorder, window 4, 2 invocations of `run_all.py`, replays of at most 2 steps | requests' windows only move forward, figures show their trajectory, Nth runs agree, resumed runs find their inputs |
| `resumable` | the recorder alone, 2 trajectories of 2 to 5 steps | **violation**: an interrupted recording counts as recorded |

*Why these bounds.* Nine turns with 30 % retired give cut-offs of 1 and 2 and
several successive events, each over a list that earlier events left behind; sizes 1
and 3 make the threshold fall inside, before and after a turn. In `hybrid`,
`ProtectRecent` = 2 and three routes leave room for rounds that keep, evict and
summarize in every order. In `replay`, the pool holds exactly what one longest request
needs - the least vLLM starts with - so that every summarizer request evicts something
the trajectory had cached. In `metering`, three polls outlast what one request may be owed
(3 blocks), as the steady server needs, and not what the other kind may owe after several
calls, so that it runs into equal reads and into the timeout. In `offload`, the prompts are the
prefixes of two replays that share an anchor and part of a long tool output and of a
summarizer's request that shares nothing; their lengths cover every remainder modulo a
block, and the pool holds less than two of them, so that a prompt comes back after
its blocks were evicted. In `ledger`, 8 calls are enough to finish a queue with
its three fetches and the report, and one too few for any detour, so both ends occur; three
starts put a smoke sweep, a full one and one that died, in any order, into one file. In
`campaign`, two trajectories and five policies give two different rotations; replays of
two steps let the `none` policy stop early in one trajectory and not in the other; two
invocations are what a resumption takes, and what puts two sweeps into one file; only
recordings of no lines or of three are replayed (`CommitLines`), since a sweep
distinguishes no others. `CHECK_DEADLOCK FALSE` appears in each
configuration because a replay ends with its trajectory, a client with its shutdown, and
a script with its last step.

*Fairness.* Only `ServerLifecycle` states any. The client's own steps are weakly
fair, because each of its waits has a timeout in the code (2 s per health request, the
startup deadline, 1 s for the log thread, 10 s for the exit), and so is the passing of the
deadline. Nothing is assumed of the server, of the log thread, of the interrupt or of
the `with` body.

### What the violations say

- **Compaction bounds nothing by itself** (`append_only_bound`). `probes.py:9-11` and
  `phase3_agreement.py:61-66` argue that a compacted context stays below
  `max_model_len` by construction. `append_only` never prunes `frozen`, so its context
  grows by a summary per event. What naive and kv_evict send is bounded
  (`CompactedContextBounded` in `stateless`), but by the sizes of turns and not by the
  threshold: see *Against the window* below for when that fits `max_model_len`.
- **Orphaned server** (`lifecycle_recorder`). `LocalVLLMServer.__init__` waits for the
  server without the handler `VLLMEngine.__init__` has for exactly this reason.
- **Not resumable** (`resumable`). The recorder's docstring promises that it is safe to
  interrupt and restart. A file is opened before the first request and its existence is
  what the next run goes by, so a recording cut short is never made up for. The sweeps
  still exclude one such file by name (`DEFAULT_EXCLUDE`, `phase1_cliff.py:55`).

### What the passing runs say beyond their properties

`NoFalseAlarm` deserves a word: the comment above `assert_theory_matches` says that
measuring less reuse than predicted can only mean a broken model or measurement, yet the
pool is bounded and shared. The run shows the claim holds even when the pool has room
for no more than one longest request, and that the tolerance of one block is needed: the
engine never reuses the last token of a prompt, the prediction may.

`SettledOnReturn` and `ReportsItsOwnReuse` are conditional: on a steady server and on a
timeout that outlasts the blocks a prompt may be owed. Two equal reads 50 ms apart, or
two seconds, are taken for a settled counter (`engine.py:237`); with a server that pauses
longer than a poll interval, or with 512 blocks credited one in a poll interval against
40 polls, what `complete_text` still owes is credited to the next step. The comment at
`engine.py:355-356` claims more than that. What holds of every server is
`WrongByWhatIsOwed`: a step's `cached_tokens` is off by what was owed at `hits_before` less
what is owed when it returns, and nothing else gets into it; and `NothingCountedTwice`: over
any number of steps, the sum of the reports never exceeds what the server counted.

`OnlyOneAboveGoesWrong` says where the connector is right, and its proviso is needed:
`_align_to_block_size` takes off a token its callers already took off, so for a prompt of
16 k + 1 tokens the scheduler announces the prefix of k - 1 blocks and the worker loads
the key of k blocks. When only the shorter key is stored, nothing is injected, the
announced blocks hold whatever was there, they enter the GPU's prefix cache under a prefix
that is not theirs, and a later prompt that reuses them stores the result under its own
key. The longer key, stored when such a prompt ran, is never looked up for it again: sent
a second time, it misses, unless a shorter prompt left the key of k - 1 blocks.
`TECHNICAL_WRITEUP.md:161-165` reports the reload of a prompt whose length does not fall
on this case; `TierRemembers` is about all the others. It also settles what is selective
about the tier: prompts are stored whole or not at all, and the anchor's block is always
worth it, so none is ever skipped (`TECHNICAL_WRITEUP.md:151-152` calls the policy
selective).

`FaithfulRunVerifies` holds although the live tools accept more than the instructions ask
for: a transfer of -1 overdraws the other side, a report is recorded before the queue is
done (the system prompt, `ledger.py:118-122`, calls that an immediate failure; it is one
only because the numbers differ, and a queue whose remaining transactions overdraw can be
reported early with success). An amount that `int()` refuses raises through `call` and
ends the sweep with all rows so far, which is why `SameEpisodesPerScale` holds. It
speaks of the rows of one scale, told by `n_transactions`: `run_all.py:45-49` asks for a
full pass after a smoke test, and `flush` appends that pass to the rows of the smoke test
(`collector.py:61`), so over the whole file, which is what `phase4_pareto_plot.py:77-78`
averages, the policies the smoke test plays have episodes the others have not.

`NthRunsAgree` is what the dashboard and the deck build on, and it survives failures
because a sweep flushes once, behind its last replay. It says that the Nth runs are of
the *same* trajectory, not of *which*: run 0 of a file that a smoke pass was flushed to
first is the smoke pass's, and the totals of `phase4_pareto_plot.py` mix both scales. If
the recorder was interrupted in its own smoke test, the file this leaves sorts in front of
traj-000 (`bench/replay.py:48-51`), every full sweep replays it first, and the deck shows
that, although `demo_deck.py:20-24` says traj-000; the sweeps' own figures do show traj-000.
`InputsExist` holds for a run that starts at the first step; a fresh `--smoke` run
never gets to the steps without a server, because `phase3_probes` is given one fact
for five insertion steps and raises (`probes.py:112-113`).

## 4. Proofs

Each theorem holds for every value of the constants that satisfies the module's named
assumptions (listed at the end of this section), so for trajectories, sizes, thresholds
and bounds of any size. Where `property` is the name of something a run checks, the run
shows it on its small instance.

### Policies

| module | theorem | property | argument |
|---|---|---|---|
| `ReplayLoop_proofs` (append_only) | `TypeCorrect` | `TypeOK` | inductive with `StartsAtFirstCall` (nothing is recorded before the first call) |
| | `Accounting` | `EveryTurnAccountedFor` | inductive relative to the types; `AccountAppend` and `AccountRetire` say what `live.append` and the split at the cut-off do to the account |
| | `Contract` | `HarnessContract` | inductive by itself |
| | `NewestTurnSurvives` | `NewestTurnKept` | from account, contract and `LiveKept`: a cut-off never reaches the end of `live` (`CutoffBounds`) |
| | `Divergence` | `DivergesAtNewestSummary` | action property under the contract: `PlainStepAppends` and `CompactStepDiverges` compare the two renderings position by position |
| | `Implementation` | `ImplementsPolicy` | refinement of `CompactionPolicy`, one lemma per action |
| `HybridPolicy_proofs` | `TypeCorrect` | `TypeOK` | inductive with `StartsAtFirstCall` |
| | `NothingElseVanishes` | `OnlyLargeToolTurnsVanish` | `Accounted` (below) |
| | `SummariesReadInOrder` | `SummariesInOrder` | `Accounted` |
| | `RecentTurnsStay` | `RecentTurnsProtected` | `Accounted`: positions in `live` and in the trajectory end alike (`EndsAlike`) |
| | `FiredTellsDivergence` | `FiredIsDivergence` | action property under the contract; `RejoinShorter` is why a round that removes anything changes a turn that was sent |
| | `Implementation` | `ImplementsPolicy` | as above; `RewriteCompacts` serves both kinds of round |
| `StatelessPolicies_proofs` | `TypeCorrect`, `WindowIsKept`, `PastIsToldOnce` | `TypeOK`, `KeepsTheWindow`, `OneSummaryOfThePast` | one invariant, `SInv` (below) |
| | `Implementation` | `ImplementsPolicy` | `PassThroughPasses`, `CompactionCompacts` |
| | `StaysBounded` (of `MCStateless`) | `CompactedContextBounded` | `RInv` (below) |

*Append-only.* The strengthening is needed because none of these speaks about all it
depends on: `EveryTurnAccountedFor` says nothing of the type of `live`, `Divergence`
compares `context` with what the state renders to only because of `HarnessContract`, and
a compaction diverges *at* the newest summary only because the position held a raw turn,
which needs `live` to be non-empty before the call. In every refinement the first call is
a `Start`, a plain step a `PassThrough`, a compaction a `Compact`, drift and a failing
summarizer a `Raise`. `ToTurnsIs` is the lemma every argument about `context` goes
through: the length of a rendering and each of its entries.

*Hybrid.* A round routes each live turn outside the protected window to `evict`, `keep`
or `summarize` with list comprehensions, and puts what is left back together. `Account`
says where every turn of the trajectory is: `live` holds turns of it in order and ends
as it does (`LiveAccount`); a frozen segment holds turns to summarize, in order, all older
than those of a later segment (`FrozenAccount`) and than any turn in `live` that is still
to be summarized (`SummariesBehind`); and a turn in neither is one that `Route` evicts
(`NothingElseLost`). The third is what keeps a later summary behind the earlier ones
although kept and protected turns stay in `live` across rounds. A round
is a thinning of `live` and then perhaps a new summary: `ThinningKeepsAccount` and
`SummaryKeepsAccount`.

*Stateless.* The properties speak of contexts after a turn; what makes them
inductive is where each turn *is*. `Shape(t, s, p)` says that in a context of length n
after s turns the anchor stands first, position i holds turn s - n + i, and in naive
position 2 may be a summary instead, of all turns from the second up to that one.
`AppendShape`, `SpliceIs`, `NaiveShape` and `SlideShape` say that handing in a turn,
splicing a summary in and sliding the window keep it.

*How much a context may grow.* A compaction of naive need not bring the context below the
threshold: its summary may be longer than what it replaces, and with a cut-off of one turn
it folds nothing but its own last summary, so that the context grows with every
fold until the cut-off does. `CompactedContextBounded` is thus a claim about a run of
compactions, and `RInv` says how far such a run can go: after k of them in a row there are at most
`left[k]` turns behind the anchor, where `left` starts with what fits under the threshold
and each fold takes one turn in, `Cutoff` turns out and puts a summary in; and all of
the context but the summary and at most one turn per fold was there when it last
fit. `Chains` are the sequences `left` that come to rest, and `RoomNeeded` is what is sent at
most along one of them, or as a full window of kv_evict's. `StaysBounded` says so for
every trajectory length, threshold, retire fraction and sizes, and asks nothing of
the model's window.

*Against the window.* Whether `RoomNeeded` is below `max_model_len` is a question of the
sizes. With the configured values (8192 tokens, 60 %, half retired, 20 turns kept,
summaries of 300 tokens), an anchor of 500 and turns of at least 5 tokens it is for turns of
up to 330 tokens; 20 turns of 385 tokens on average overflow it. So the "by construction" of
`probes.py:9-12` is true of small turns only, and tool outputs may be longer
(`configs/policies/hybrid.yaml` takes 500 for the usual large ones).

### The measured replay

| module | theorem | property | argument |
|---|---|---|---|
| `ReplayLoop_proofs` | `NoAlarm` | `NoFalseAlarm` | `LInv` |
| | `EventsGrow` | `MonotonePrefixGrowth` | `LInv` |
| | `AlignmentWorks`, if `BlockSize > 1` | `AlignedEventsLoseNothing` | `LInv` |

These hold for every block size, pool capacity (no smaller than a longest request, as
vLLM demands), padding, and number of trajectories. `LInv` has these parts:

- `PrevIsCached`: block k of the previous prompt is among the k youngest blocks of the
  pool. This is stronger than "it is cached" and is what survives a request: blocks leave
  oldest first, and a request enters its tail before its head.
- `PrevIsPrompt`: within a trajectory the previous prompt is the rendering of the state
  the policy is in.
- `EventsInFront`: the logged indices rise and lie within the front, which is anchor and
  frozen summaries, as they are now.
- the types, and for events what `AlignmentWorks` states.

The argument of a step is arithmetic on top of that. A plain step extends the previous
prompt. A compaction keeps the front and continues with a new summary (`FrontGrows`), so
the two prompts part exactly at the end of the front (`EventDiverges`), which is never
less than at the event before. The summarizer's request, which comes in between, is
one header token and at most what lies behind the front (`SummarizerLeaves`). Together
with what the pool must hold anyway it can therefore push out one block of the front at
the most, and none if a block has more than one token (`BlocksFit`). The one block, or
the last token of a prompt, which the engine always computes, is what the tolerance of
`assert_theory_matches` is for (`NoMismatch`). The first step of a trajectory may share
anything with the last prompt of the one before; no summarizer runs in it, so all of
that is still in the pool.

Attempting the proof changed two things. `AlignedEventsLoseNothing` had been
stated of the last check whatever came after it, so for a compaction whose prompt is then
rejected it compared a check that was not this event's; it now asks for `verdict = "ok"`.
And it is false for blocks of one token: with a pool of ten such blocks TLC finds an event
whose summarizer request evicts the last block of the front. vLLM's blocks have sixteen.
`ReplayAssumption` has turns of at least one token, since a turn renders its role.

### Engine client, connector, ledger, recorder and pipeline

| theorem | property | holds for | argument |
|---|---|---|---|
| `Engine_proofs!TypeCorrect` | `TypeOK` | every server, block size, timeout | part of `MInv` (below) |
| `Engine_proofs!ErrorsAreOwed` | `WrongByWhatIsOwed` | the same | `MInv` |
| `Engine_proofs!NoHitCountedTwice` | `NothingCountedTwice` | the same | `MInv` |
| `Engine_proofs!NoServerOutlivesItsEngine` | `NoOrphanServer` | `Kind = "engine"`, every timeout | inductive with "nothing runs before the boot" |
| `OffloadConnector_proofs!TypeCorrect` | `TypeOK` | every set of prompts, block size, capacity | inductive with `InFlight` and `Ordered` (below) |
| `OffloadConnector_proofs!CachesHoldTheirOwn` | `OnlyOneAboveGoesWrong` | the same | inductive with the types |
| `OffloadConnector_proofs!TierNeverForgets` | `TierRemembers` | `SomeBlockIsWorthIt` | inductive with the types |
| `OffloadConnector_proofs!AnchorKeepsTheTier` | `TierRemembers` | every prompt is `Anchored` | `BlocksAreJudgedByTurns`'s lemmas give `SomeBlockIsWorthIt` |
| `OffloadConnector_proofs!BlocksAreJudgedByTurns` | `BlocksJudgedByTurns` | every prompt, tokenization, block size | unfolding (below) |
| `LedgerEpisode_proofs!TypeCorrect` | `TypeOK` | every queue, budget and caller | inductive with `Counting` |
| `LedgerEpisode_proofs!LiveFollowsReference` | `FaithfulRunVerifies` | the same | `FInv` (below) |
| `LedgerEpisode_proofs!FileIsBalanced` | `SameEpisodesPerScale` | `NoRepeats`, any command lines | `RowsAreOrder` (below) |
| `LedgerEpisode_proofs!RowsAreHonest` | `RowIsHonest` | every queue, budget and caller | inductive with "nothing is reported before the end" |
| `ResultsPipeline_proofs!WindowMovesForward` | `WindowOnlyMovesForward` | every window, all unit sizes, both roundings | `RInv` (below) |
| `ResultsPipeline_proofs!CampaignRecords`, `CampaignWindowMovesForward` | `WindowOnlyMovesForward` | the campaign | the campaign implements `RecorderSpec` |
| `ResultsPipeline_proofs!StepsFindTheirInputs` | `InputsExist` | the campaign | `OnItsWay` (below) |
| `ResultsPipeline_proofs!FiguresShowWhatTheyCompare` | `SliceIsComparison` | the campaign | `CInv` (below) |
| `ResultsPipeline_proofs!NthRunsAreAlike` | `NthRunsAgree` | the campaign | `CInv` (below) |

*Metering.* Nothing is assumed of the server or of the timeout. `Accounts` keeps the books:
from hits_before on, what the server counted or owes grows by just the request's own
reuse, so counter and debt together are hits_before, what it did not see, and that reuse.
`ReadsInOrder` puts what was reported so far below the read that the next report starts
from, and that read below the one it ends with, so that the differences add up to no
more than the counter. The two together with the types and `WrongByWhatIsOwed` are `MInv`.

*Connector.* Scheduler and worker see the same request at different moments. `InFlight`
says what was announced, from the pool and the tier as they were then; `Ordered` says that
what the worker is told to do follows from that, and that the tier is still the same.
`CachesHoldTheirOwn` then comes down to `EveryBlockGood`: unless a prompt is one token
above a block multiple, the key it loads is the key of the prefix that was announced.
`TierNeverForgets` and `AnchorKeepsTheTier` are about prompts that are not one token above
a block multiple; those are looked up under the key they were stored under.
`SomeBlockIsWorthIt` is needed for prompts that end on a block boundary only: in every
other one the partial last block counts as worth storing. `Anchored` - the first turn
fills half of the first block - is what gives it, and what the program's prompts have: the
anchor is a system prompt and a task, many blocks long, and a summarizer's request starts
with its instruction, which the first span takes in (`classify_token_ids` starts it at
token 0).

*Classification.* The code cuts the rendered text into spans, one per turn, looks for the
token at which each span ends by a binary search over decoded prefixes, marks the tokens
up to it, and counts marks per block. `BlocksJudgedByTurns` says what that amounts to
without any of it: a token counts by the turn of its first character. The proof goes
the same way. Decoding more tokens gives more characters, so the first token that ends
beyond an offset exists and is the only one (`BoundaryExists`, `BoundaryUnique`); it stays
in whichever half of the interval the search turns to, and a function that has this
boundary for every interval solves the search's recursion (`SearchExists`), hence is
it (`SearchFinds`, `TokenBoundaryFinds`). Since the text goes turn by turn (`InTurns`),
the spans part it (`SpanOfChar`), so exactly one span marks a token, that of its first
character (`TokenJudged`). A block of the mask is the tokens of that block shifted, so both
counts agree (`BlockIs`, `BlockMask`).

*Ledger.* `FInv` relates three records of the same episode: as long as the caller has done
what it was told, the live balances are the reference's after as many transactions as
were done, and the cursor is at most one ahead. `ReferenceIs` unfolds the reference, which
is a recursive function over the queue. `RowsAreOrder` says that the rows of a sweep so
far are the first episodes of the order of *its* command line, and that there are none once
the sweep is dead or its rows are written; with `NoRepeats` each policy then has each seed
once per finished sweep at that scale (`EachOnce`), whichever of the two drivers rotated the
policies. `NoRepeats` also says that scales differ in the length of the queues, as
`run_all.py:147-148` and `:213-214` make them do: that is what the rows tell them apart by.

*Recorder.* Between two requests `keep_n` either grows with the history by one or
shrinks. That it shrinks is `QuotientBound`: a refused request is larger than the window,
so `keep_n * window / requested` is at most `keep_n`, and the code takes one off
whatever the float was rounded to.

*Figures.* A row does not name its trajectory: the figures find a trajectory's rows by
adding up the step counts of the results before it, and the dashboard a policy's Nth run by
looking for step 0. `CInv` is what makes that right. The sweep that runs (`Sweeping`) has
replayed its plan in order and each pair once, every replay has a step, and policy by
policy the results count the rows (`SweepOf`); for the cliff the results count the
events too (`CliffSweeping`). In the file that the dashboard reads (`Agree`), each
policy's runs are of the same trajectories in the same order, and each run is of one. A
sweep of the cost phase plays whole rounds of the five policies over one list of
trajectories, rotated (`ParetoSweeping`), so that appending it when it is complete - and only
then - keeps `Agree`. `ParetoEnds` is the step where that matters, and the reason why
a sweep that flushed as it went would break the claim: the mutant `Lost_Flushed` does.

*Inputs.* While nobody picks a step that is not done yet, the invocation is where it is
because the steps before it are done (`Reached`), at the scale it was begun with, and a
sweep that is about to draw has rows. That is `OnItsWay`; `InputsExist` needs it at each of
the steps that read a file.

### Induction over data

What a recursive function computes for every input takes induction, and the library's
induction theorems take an operator for an argument, which the installed provers cannot
instantiate. `SharedLemmas` states the principle without one, about a set: `Induction`
(a set of numbers that has 0 and with each number the next has all of them, from the
least element of its complement) and `SeqInduction` (the same for the sequences over a
set). With it `FilterKeeps` says what a list comprehension with a condition returns,
`ReferenceIs` and `LaidUpto` unfold the ledger's reference and the rendering to tokens,
`IncreasingGains` compares positions in an increasing list, sums (`TotalOf`, and with it
`PromptLen`) and concatenations (`Joined`) are unfolded one element at a time, and
`SearchExists` unfolds the binary search, by the length of the interval.

### What the proofs rest on

The named assumptions on constants, each in the module that declares the constants and
evaluated by TLC in the runs: `AppendOnlyAssumption`, `HybridAssumption`,
`StatelessAssumption`, `PrefixCacheAssumption`, `ReplayAssumption`, `MeteringAssumption`,
`LifecycleAssumption`, `OffloadAssumption`, `LedgerAssumption`, `RecorderAssumption`,
`PipelineAssumption`, `SizesAssumption`; and the hypotheses in the tables. Of these
`SomeBlockIsWorthIt`, `EachIsAnchored` and `NoRepeats` are evaluated for their
instances in `MCOffload` and `MCLedger`. Two assumptions grew with the proofs that
needed them and say what the code's inputs are: a prompt's text goes turn by turn
(`InTurns` in `OffloadAssumption`; it is a rendering), and a batch does not list a file
twice (in `RecorderAssumption`; they are the file names of one directory).

Two parts of the model changed because a proof could not be found. The flush of a sweep
was enabled in the campaign for a step that is no sweep; it now asks for one. And the
binary search of `TokenBoundary` is a function of one pair, the interval.

### Only model-checked

- `BootEnds` and `ShutdownEnds`: liveness under fairness is out of the prover's reach.
- The three violations, which are counterexamples.
- `ReportsItsOwnReuse` and `SettledOnReturn`: they hold of steady servers and long timeouts
  only, which nothing in the code guarantees. What it does guarantee is proved.

Every other property of a passing run is stated by a theorem above. Of the policies'
proofs only `StaysBounded` needs the value of `PromptLen`; for the others it is enough that
the threshold test picked a branch.

## 5. Not modelled

- `rigor.py`: calls to nvidia-smi and NVML and medians of floats; a drifted clock is
  printed and changes nothing.
- `stats.py`, `cost_model.py`: normal distribution, least squares and dollars, real
  arithmetic that neither TLC nor the provers evaluate.
- The text side of probes and agreement: substring and similarity scores.
- Plots and the terminal layout. One thing met on the way: `compress_segments`
  (`dashboard.py:131-164`) promises never to hide a red block, but divides floats, and at
  some widths (61 blocks in 7 cells) the last block falls into no cell; at the default
  width of 48 it does not happen up to 600 blocks.
- A kill in the middle of `flush`, which rewrites the file in place.
- The vLLM server beyond what the client observes of it.

## 6. Plan

1. done: the policies and their contract, the measured replay, the engine client, the
   proofs about `AppendOnlyPolicy`.
2. done: `OffloadConnector`, `LedgerEpisode`, `TrajectoryRecorder`, `ResultsPipeline`.
3. done: proofs about all policies and their refinements, the measured replay, metering,
   `VLLMEngine`'s lifecycle, the connector, the ledger, the recorder's window and the
   campaign's inputs.
4. done: proofs about what compacted contexts may hold, the classification of blocks, the
   figures' slices and the dashboard's runs. Of the safety properties of passing runs, only the
   two that need a steady server are left without a theorem.
5. done: what holds of metering for every server, of the ledger's file over sweeps of different
   scales, and of contexts for every window.
6. open: the hazards `PROJECT.json` lists without a property. The capacity parsed late and
   the orphan that answers `/health` are interleavings inside the boot that
   `ServerLifecycle` has room for once it models a port; a kill within `flush` wants a
   file that can be torn; the unaligned threshold test wants a window for the padded
   prompt in `ReplayLoop`. The prompts that `TierRemembers` leaves out, what a smoke test's file
   does to the deck, and totals over several scales are described above and would each make a
   run that refutes a claim of the documents. The statistics stay out of reach.
