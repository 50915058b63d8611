---------------------------- MODULE LedgerEpisode ----------------------------
(***************************************************************************)
(* The ledger benchmark: LedgerEnv (bench/tasks/ledger.py) driven live by  *)
(* the episode loop of experiments/phase3_ledger.py and its copy in        *)
(* experiments/phase4_pareto_success.py, one episode per seed and policy.  *)
(*                                                                         *)
(* The model under test is an arbitrary caller of the tools.  The context  *)
(* its turns go into is the policy's affair (CompactionPolicy): here a     *)
(* turn is only counted, and whether the prompt still fits is left open.   *)
(* A report verify cannot read as integers is one that names no account;   *)
(* accounts are named exactly or not at all.                               *)
(*                                                                         *)
(* The script is started any number of times over one result file, each    *)
(* time at the scale its command line asks for: run_all.py starts the same *)
(* two scripts with all seeds and policies, and with --smoke on few.       *)
(***************************************************************************)
EXTENDS Integers, Sequences, FiniteSets
LOCAL INSTANCE SequencesExt

CONSTANTS
    Accounts,       \* _account_names
    CommandLines,   \* what main's parser reads: --seeds and --policies, two
                    \* sequences, --n-transactions and --max-tool-calls
    Transactions,   \* seed -> what random.Random(seed) draws for the queue
    Initial,        \* seed -> the balances it draws before
    Cycles,         \* --n-bootstrap-cycles
    Amounts,        \* bound: amounts the model names
    MaxSweeps       \* bound: how often the script is run

\* There is a seed and a policy to run (with none the script has no episode).
ASSUME LedgerAssumption ==
    /\ \A line \in CommandLines :
        /\ line.seeds \in Seq(ToSet(line.seeds)) /\ line.seeds # <<>>
        /\ line.policies \in Seq(ToSet(line.policies)) /\ line.policies # <<>>
        /\ line.transactions \in Nat /\ line.maxToolCalls \in Nat
        /\ \A seed \in ToSet(line.seeds) :
            /\ Initial[seed] \in [Accounts -> Nat]
            /\ Transactions[seed] \in Seq(ToSet(Transactions[seed]))
            /\ line.transactions <= Len(Transactions[seed])
            /\ \A t \in ToSet(Transactions[seed]) :
                    /\ t.account \in Accounts /\ t.to \in Accounts
                    /\ t.kind \in {"deposit", "withdraw", "transfer"} /\ t.amount \in Nat \ {0}
                    /\ t.kind = "transfer" => t.to # t.account
    /\ Cycles \in Nat /\ MaxSweeps \in Nat \ {0} /\ Amounts \subseteq Int

VARIABLES
    driver,     \* which of the two scripts runs
    args,       \* the command line it was started with
    sweep,      \* how often the script was started
    job,        \* the episode's place in the sweep's order
    phase,      \* "boot" | "bootstrap" | "model" | "ended" | "dead"
    actual,     \* _actual_balances
    cursor,     \* _instruction_cursor
    report,     \* _final_report: {}, or the balances it names
    stepIdx,    \* step_idx: turns handed to the policy
    nToolCalls, \* n_tool_calls
    stopped,    \* stopped_reason
    rows,       \* the collector's rows, in memory
    file,       \* the parquet file: how many rows of each kind it has
    done,       \* history: transactions carried out as instructed
    faithful    \* history: and no call of the episode did anything else

vars == <<driver, args, sweep, job, phase, actual, cursor, report, stepIdx,
          nToolCalls, stopped, rows, file, done, faithful>>

Unset == "none"
-----------------------------------------------------------------------------
\* Faulty: the reference is simulated without the overdraft rule.
Apply_Overdrawn(balances, t) ==
    CASE t.kind = "deposit" -> [balances EXCEPT ![t.account] = @ + t.amount]
      [] t.kind = "withdraw" -> [balances EXCEPT ![t.account] = @ - t.amount]
      [] t.kind = "transfer" ->
            [balances EXCEPT ![t.account] = @ - t.amount, ![t.to] = @ + t.amount]

\* _apply, for the reference: a transaction that overdraws changes nothing.
Apply(balances, t) ==
    CASE t.kind = "deposit" -> [balances EXCEPT ![t.account] = @ + t.amount]
      [] t.kind # "deposit" /\ balances[t.account] < t.amount -> balances
      [] t.kind = "withdraw" /\ balances[t.account] >= t.amount ->
            [balances EXCEPT ![t.account] = @ - t.amount]
      [] t.kind = "transfer" /\ balances[t.account] >= t.amount ->
            [balances EXCEPT ![t.account] = @ - t.amount, ![t.to] = @ + t.amount]

\* _generate_transactions draws one transaction after the other: a shorter
\* queue of the same seed is the beginning of a longer one.
QueueOf(seed) == SubSeq(Transactions[seed], 1, args.transactions)

\* _reference_balances, and what it is after the first n transactions
Reference(seed, n) ==
    LET after[k \in 0..Len(QueueOf(seed))] ==
            IF k = 0 THEN Initial[seed] ELSE Apply(after[k - 1], QueueOf(seed)[k])
    IN  after[n]

\* The live tools, deposit, withdraw and transfer.  The model may name an
\* account that is not there, one account twice, or any amount.
Known(a) == a \in Accounts

Deposit(a, amount) == IF Known(a) THEN [actual EXCEPT ![a] = @ + amount] ELSE actual

Withdraw(a, amount) ==
    IF Known(a) /\ actual[a] >= amount THEN [actual EXCEPT ![a] = @ - amount] ELSE actual

Transfer(a, b, amount) ==
    IF Known(a) /\ Known(b) /\ actual[a] >= amount
    THEN LET taken == [actual EXCEPT ![a] = @ - amount]
         IN  [taken EXCEPT ![b] = @ + amount]
    ELSE actual

\* The state-changing tool calls; LedgerEnv.call passes them on.
Effect(c) ==
    CASE c.kind = "deposit" -> Deposit(c.account, c.amount)
      [] c.kind = "withdraw" -> Withdraw(c.account, c.amount)
      [] c.kind = "transfer" -> Transfer(c.account, c.to, c.amount)

Calls ==
    [kind : {"deposit", "withdraw", "transfer"}, account : Accounts \cup {Unset},
     to : Accounts, amount : Amounts]
-----------------------------------------------------------------------------
Seeds == args.seeds
Policies == args.policies

\* policy_order[i % n_policies :] + policy_order[: i % n_policies]
Rotated(i) == SubSeq(Policies, 1 + (i % Len(Policies)), Len(Policies))
                \o SubSeq(Policies, 1, i % Len(Policies))

\* phase3_ledger runs the policies of each seed in the given order,
\* phase4_pareto_success rotates which one goes first.
Order ==
    LET OfSeed(i) == IF driver = "phase3_ledger" THEN Policies ELSE Rotated(i - 1)
    IN  [n \in 1..(Len(Seeds) * Len(Policies)) |->
            LET i == (n - 1) \div Len(Policies) + 1
            IN  <<Seeds[i], OfSeed(i)[((n - 1) % Len(Policies)) + 1]>>]

Seed == Order[job][1]
Queue == QueueOf(Seed)

\* LedgerRunRecord, as far as a reader of the file tells the rows apart by it.
Record(episode) == [n_transactions |-> args.transactions, seed |-> episode[1],
                    policy |-> episode[2]]

RecordsOf(line) == [n_transactions : {line.transactions}, seed : ToSet(line.seeds),
                    policy : ToSet(line.policies)]

Records == UNION { RecordsOf(line) : line \in CommandLines }

\* verify
Success == report = {Reference(Seed, Len(Queue))}

Init ==
    /\ driver \in {"phase3_ledger", "phase4_pareto_success"}
    /\ args \in CommandLines
    /\ sweep = 1 /\ job = 1 /\ phase = "boot"
    /\ actual = Initial[Seeds[1]] /\ cursor = 0 /\ report = {}
    /\ stepIdx = 0 /\ nToolCalls = 0 /\ stopped = Unset
    /\ rows = <<>> /\ file = [r \in Records |-> 0]
    /\ done = 0 /\ faithful = TRUE

Sweeping == <<driver, args, sweep, job, rows, file>>

\* A new LedgerEnv and a new policy; the anchor is handed to the policy.
StartEpisode ==
    /\ phase = "boot" /\ job <= Len(Order)
    /\ actual' = Initial[Seed] /\ cursor' = 0 /\ report' = {}
    /\ done' = 0 /\ faithful' = TRUE
    /\ stepIdx' = 1 /\ nToolCalls' = 0 /\ stopped' = "step_budget_exhausted"
    /\ phase' = "bootstrap"
    /\ UNCHANGED Sweeping

\* get_next_instruction
Fetch == cursor' = IF cursor < Len(Queue) THEN cursor + 1 ELSE cursor

\* Faulty: the call reaches the policy without its result.
OneCall_AnswerDropped(n) == stepIdx' = stepIdx + 2 * n - 1 /\ nToolCalls' = nToolCalls + n

\* n calls, each handed down as an assistant turn and its tool turn.
OneCall(n) == stepIdx' = stepIdx + 2 * n /\ nToolCalls' = nToolCalls + n

\* _bootstrap_apply reads back exactly the transaction that was fetched.
Bootstrapped == Queue[cursor + 1]

\* One scripted cycle: fetch, then apply.
BootstrapCycle ==
    /\ phase = "bootstrap" /\ cursor < Cycles /\ cursor < Len(Queue)
    /\ Fetch
    /\ actual' = Effect(Bootstrapped)
    /\ done' = done + 1
    /\ OneCall(2)
    /\ UNCHANGED <<Sweeping, phase, report, stopped, faithful>>

HandOver ==
    /\ phase = "bootstrap" /\ (cursor = Cycles \/ cursor = Len(Queue))
    /\ phase' = "model"
    /\ UNCHANGED <<Sweeping, actual, cursor, report, stepIdx, nToolCalls, stopped,
                   done, faithful>>

\* range(max_tool_calls - n_tool_calls): nothing when the bootstrap used it up.
MayCall == phase = "model" /\ nToolCalls < args.maxToolCalls

\* The model fetches; out of turn when the last instruction is not done yet.
ModelFetches ==
    /\ MayCall /\ Fetch /\ OneCall(1)
    /\ faithful' = (faithful /\ done = cursor)
    /\ UNCHANGED <<Sweeping, phase, actual, report, stopped, done>>

\* Does the call carry out the instruction fetched last, and for the first time?
Instructed(c) ==
    /\ cursor = done + 1
    /\ LET t == Queue[cursor]
       IN  /\ c.kind = t.kind /\ c.account = t.account /\ c.amount = t.amount
           /\ c.kind = "transfer" => c.to = t.to

ModelMovesMoney(c) ==
    /\ MayCall /\ OneCall(1)
    /\ actual' = Effect(c)
    /\ done' = IF faithful /\ Instructed(c) THEN done + 1 ELSE done
    /\ faithful' = (faithful /\ Instructed(c))
    /\ UNCHANGED <<Sweeping, phase, cursor, report, stopped>>

\* get_balance, an unknown tool, or output that parses to no call at all: the
\* turn and its answer still go down.
ModelChangesNothing ==
    /\ MayCall /\ OneCall(1)
    /\ UNCHANGED <<Sweeping, phase, actual, cursor, report, stopped, done, faithful>>

\* Faulty: the loop goes on after the report.
Submitted_GoesOn == UNCHANGED <<phase, stopped>>

Submitted == phase' = "ended" /\ stopped' = "submitted"

\* submit_final_report, accepted at any time: no queue is consulted.
ModelReports ==
    /\ MayCall /\ OneCall(1)
    /\ report' \in {{actual}, {Reference(Seed, Len(Queue))}, {<<>>}}
    /\ Submitted
    /\ UNCHANGED <<Sweeping, actual, cursor, done, faithful>>

\* The prompt, the cue and max_action_tokens no longer fit.
ContextExceeded ==
    /\ MayCall
    /\ phase' = "ended" /\ stopped' = "context_exceeded"
    /\ UNCHANGED <<Sweeping, actual, cursor, report, stepIdx, nToolCalls, done, faithful>>

BudgetExhausted ==
    /\ phase = "model" /\ nToolCalls >= args.maxToolCalls
    /\ phase' = "ended"
    /\ UNCHANGED <<Sweeping, actual, cursor, report, stepIdx, nToolCalls, stopped,
                   done, faithful>>

\* The file with the rows that were buffered behind its own.
Appended(written) ==
    [r \in DOMAIN file |-> file[r] + Cardinality({ n \in DOMAIN written : written[n] = r })]

\* Faulty: every episode is flushed as it ends.
Flush_EachEpisode(written) == file' = Appended(written) /\ rows' = <<>>

\* flush appends the buffered rows and clears them, at the end of the sweep.
Flush(written) ==
    IF Len(written) < Len(Order) THEN rows' = written /\ UNCHANGED file
    ELSE file' = Appended(written) /\ rows' = <<>>

\* The row goes into the collector; behind the last one the file is written.
EpisodeEnds ==
    /\ phase = "ended"
    /\ Flush(Append(rows, Record(Order[job])))
    /\ job' = job + 1
    /\ phase' = "boot"
    /\ UNCHANGED <<driver, args, sweep, actual, cursor, report, stepIdx, nToolCalls,
                   stopped, done, faithful>>

\* int() of an amount that is none, the engine, the summarizer or the user
\* raises: the script dies with the rows it holds.
SweepDies ==
    /\ phase \in {"bootstrap", "model"}
    /\ phase' = "dead" /\ rows' = <<>>
    /\ UNCHANGED <<driver, args, sweep, job, actual, cursor, report, stepIdx, nToolCalls,
                   stopped, file, done, faithful>>

\* The script is started again, at whatever scale, and into the same file.
RunAgain ==
    /\ phase = "dead" \/ job > Len(Order)
    /\ sweep < MaxSweeps
    /\ args' \in CommandLines
    /\ sweep' = sweep + 1 /\ job' = 1 /\ phase' = "boot"
    /\ UNCHANGED <<driver, rows, file, actual, cursor, report, stepIdx, nToolCalls, stopped,
                   done, faithful>>

Next ==
    \/ StartEpisode \/ BootstrapCycle \/ HandOver
    \/ ModelFetches \/ (\E c \in Calls : ModelMovesMoney(c)) \/ ModelChangesNothing
    \/ ModelReports \/ ContextExceeded \/ BudgetExhausted
    \/ EpisodeEnds \/ SweepDies \/ RunAgain

Spec == Init /\ [][Next]_vars
-----------------------------------------------------------------------------
\* Fields keep their types, and the policy has been handed one turn per index:
\* the anchor, and for each call the turn that made it and the one that
\* answers it, whatever the model sent.
TypeOK ==
    /\ args \in CommandLines
    /\ job \in 1..(Len(Order) + 1) /\ sweep \in 1..MaxSweeps
    /\ phase \in {"boot", "bootstrap", "model", "ended", "dead"}
    /\ actual \in [Accounts -> Int]
    /\ phase # "boot" => cursor <= Len(Queue) /\ stepIdx = 1 + 2 * nToolCalls
    /\ stopped \in {Unset, "step_budget_exhausted", "submitted", "context_exceeded"}
    /\ rows \in Seq(RecordsOf(args)) /\ file \in [Records -> Nat]

\* The live tools and the reference simulation follow one rule (_apply's
\* docstring, ledger.py:52-55): as long as every call carries out the
\* instruction it was given, bootstrap included, the balances are the
\* reference's for as much of the queue as was done, overdrafts too; and the
\* report of those balances at the end of the queue is a success.
FaithfulRunVerifies ==
    phase # "boot" /\ faithful =>
        /\ actual = Reference(Seed, done)
        /\ done = Len(Queue) /\ report = {actual} => Success

\* The row of an episode tells why it ended: a report is what "submitted"
\* stands for, so only a submitted episode can succeed, and an episode out of
\* budget has really made its calls.
RowIsHonest ==
    phase = "ended" =>
        /\ stopped = "submitted" <=> report # {}
        /\ Success => stopped = "submitted"
        /\ stopped = "step_budget_exhausted" => nToolCalls >= args.maxToolCalls
        /\ stopped = "context_exceeded" => nToolCalls < args.maxToolCalls

\* No command line names a seed or a policy twice, and two of them differ in
\* the length of the queues, as run_all.py's do (run_all.py:147-148, :213-214).
NoRepeats ==
    /\ \A line \in CommandLines :
        /\ \A i, j \in DOMAIN line.seeds : line.seeds[i] = line.seeds[j] => i = j
        /\ \A i, j \in DOMAIN line.policies : line.policies[i] = line.policies[j] => i = j
    /\ \A one, two \in CommandLines : one.transactions = two.transactions => one = two

\* phase4_pareto_plot.py:77-78 compares the policies by their rows in the file.
\* At one scale, the one n_transactions tells, the file holds every seed under
\* every policy equally often, whatever sweeps of this and of other scales
\* died, came to an end and were started again, in each driver's order.  It is
\* so where NoRepeats holds of the command lines.  Over all scales it is not:
\* the rows of a smoke test stay when the full pass is appended to them.
SameEpisodesPerScale ==
    \A r, q \in DOMAIN file : r.n_transactions = q.n_transactions => file[r] = file[q]
=============================================================================
