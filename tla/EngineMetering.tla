--------------------------- MODULE EngineMetering ---------------------------
(***************************************************************************)
(* VLLMEngine's cache accounting (serving/engine.py): reuse is not part of *)
(* a response, it is the difference of a server-wide counter read before   *)
(* and after the request.  The server keeps crediting a request's reused   *)
(* blocks for a while after its response has ended, so both reads poll     *)
(* until the counter looks settled.  One client; time is the order of the  *)
(* steps, and settle_timeout_s is the number of polls that fit into it.    *)
(***************************************************************************)
EXTENDS Integers

CONSTANTS
    BlockSize,     \* block_size
    PromptBlocks,  \* bound: full blocks a prompt may have
    SettlePolls,   \* settle_timeout_s / poll_interval_s
    MaxCalls       \* bound: requests made

ASSUME MeteringAssumption ==
    /\ BlockSize \in Nat \ {0}
    /\ PromptBlocks \in Nat /\ SettlePolls \in Nat /\ MaxCalls \in Nat

VARIABLES
    pc,        \* where the client is: "idle", or inside a call
    call,      \* "generate_step" or "complete_text"
    calls,     \* requests made so far
    value,     \* the counter as last read by the poll loop
    polls,     \* polls left before the settle timeout
    before,    \* hits_before
    reused,    \* blocks the current request really reused
    result,    \* the last StepResult, with what was really reused, and what
               \* answered requests were owed at its two settled reads
    carried,   \* history: blocks owed that hits_before did not see
    reported,  \* history: the cached tokens of all StepResults so far
    counter,   \* vllm:gpu_prefix_cache_hits_total, in blocks
    owed,      \* blocks of answered requests not yet in the counter
    credited,  \* something was credited since the last read
    steady     \* the server's kind: it credits at least one block of what it
               \* still owes in every poll interval, or whenever it likes

historyVars == <<carried, reported>>
clientVars == <<pc, call, calls, before, reused, result, historyVars>>
vars == <<clientVars, value, polls, counter, owed, credited, steady>>

Init ==
    /\ pc = "idle" /\ call = "none" /\ calls = 0
    /\ value = 0 /\ polls = 0 /\ before = 0 /\ reused = 0
    /\ result = [prompt |-> 0, cached |-> 0, prefill |-> 0, reused |-> 0, carried |-> 0, left |-> 0]
    /\ carried = 0 /\ reported = 0
    /\ counter = 0 /\ owed = 0 /\ credited = FALSE
    /\ steady \in BOOLEAN

\* The server catches up on what it owes.
Credit ==
    /\ owed > 0
    /\ counter' = counter + 1
    /\ owed' = owed - 1
    /\ credited' = TRUE
    /\ UNCHANGED <<clientVars, value, polls, steady>>

\* The first read of _stable_prefix_cache_hit_blocks.
FirstRead ==
    /\ value' = counter
    /\ polls' = SettlePolls
    /\ credited' = FALSE
    /\ UNCHANGED <<counter, owed, steady>>

\* generate_step begins by reading hits_before.
GenerateStep ==
    /\ pc = "idle" /\ calls < MaxCalls
    /\ pc' = "before" /\ call' = "generate_step" /\ calls' = calls + 1
    /\ FirstRead
    /\ UNCHANGED <<before, reused, result, historyVars>>

\* complete_text sends at once.
CompleteText ==
    /\ pc = "idle" /\ calls < MaxCalls
    /\ pc' = "sent" /\ call' = "complete_text" /\ calls' = calls + 1
    /\ UNCHANGED <<value, polls, before, reused, result, historyVars, counter, owed, credited,
                   steady>>

\* Another read, poll_interval_s later.
Poll ==
    /\ pc \in {"before", "after"}
    /\ steady /\ owed > 0 => credited
    /\ credited' = FALSE
    /\ UNCHANGED <<counter, owed, steady>>

PollAgain ==
    /\ Poll
    /\ polls > 0 /\ counter # value
    /\ value' = counter
    /\ polls' = polls - 1
    /\ UNCHANGED clientVars

\* Faulty: the counter is read once.
Settled_OneRead == TRUE

\* Two equal reads, or the timeout.
Settled == polls = 0 \/ counter = value

\* Faulty: hits_before in tokens.
SettledBefore_InTokens ==
    /\ Poll /\ Settled
    /\ pc = "before"
    /\ pc' = "sent"
    /\ before' = value * BlockSize
    /\ carried' = counter + owed - value
    /\ UNCHANGED <<call, calls, value, polls, reused, result, reported>>

\* Faulty: hits_before is read for the first request only.
SettledBefore_Once ==
    /\ Poll /\ Settled
    /\ pc = "before"
    /\ pc' = "sent"
    /\ before' = IF calls = 1 THEN value ELSE before
    /\ carried' = counter + owed - value
    /\ UNCHANGED <<call, calls, value, polls, reused, result, reported>>

SettledBefore ==
    /\ Poll /\ Settled
    /\ pc = "before"
    /\ pc' = "sent"
    /\ before' = value
    /\ carried' = counter + owed - value
    /\ UNCHANGED <<call, calls, value, polls, reused, result, reported>>

\* Faulty: complete_text hands the text back at once.
Responds_CompleteTextReturns(n, early) ==
    /\ pc = "sent"
    /\ n \in 0..PromptBlocks /\ early \in 0..n
    /\ reused' = n
    /\ pc' = IF call = "complete_text" THEN "idle" ELSE "after"
    /\ counter' = counter + early
    /\ owed' = owed + n - early
    /\ value' = counter'
    /\ polls' = SettlePolls
    /\ credited' = FALSE
    /\ UNCHANGED <<call, calls, before, result, historyVars, steady>>

\* The response ends.  `early` of the n reused blocks are in the counter by
\* then; the poll loop's first read follows at once.
Responds(n, early) ==
    /\ pc = "sent"
    /\ n \in 0..PromptBlocks /\ early \in 0..n
    /\ reused' = n
    /\ pc' = "after"
    /\ counter' = counter + early
    /\ owed' = owed + n - early
    /\ value' = counter'
    /\ polls' = SettlePolls
    /\ credited' = FALSE
    /\ UNCHANGED <<call, calls, before, result, historyVars, steady>>

\* HTTP status other than 200, a stream without usage, or /metrics without the
\* counter: an exception, which no caller in experiments/ goes on after.
Raises ==
    /\ pc \in {"before", "sent", "after"}
    /\ pc' = "raised"
    /\ UNCHANGED <<call, calls, before, reused, result, historyVars, value, polls, counter, owed,
                   credited, steady>>

\* Faulty: the counter is taken for the difference.
StepResult_NoDifference(prompt, hits) ==
    [prompt |-> prompt, cached |-> hits * BlockSize, prefill |-> prompt - hits * BlockSize,
     reused |-> reused, carried |-> carried, left |-> counter + owed - hits]

StepResult(prompt, hits) ==
    [prompt |-> prompt, cached |-> (hits - before) * BlockSize,
     prefill |-> prompt - (hits - before) * BlockSize,
     reused |-> reused, carried |-> carried, left |-> counter + owed - hits]

\* complete_text drops the settled value; generate_step makes a StepResult.
\* A prompt has a token more than the blocks it reuses at least.
SettledAfter ==
    /\ Poll /\ Settled
    /\ pc = "after"
    /\ pc' = "idle"
    /\ \/ call = "complete_text" /\ UNCHANGED <<result, reported>>
       \/ /\ call = "generate_step"
          /\ \E extra \in 1..BlockSize :
                result' = StepResult(reused * BlockSize + extra, value)
          /\ reported' = reported + result'.cached
    /\ UNCHANGED <<call, calls, value, polls, before, reused, carried>>

Next ==
    \/ Credit
    \/ GenerateStep
    \/ CompleteText
    \/ PollAgain
    \/ SettledBefore
    \/ \E n \in 0..PromptBlocks : \E early \in 0..n : Responds(n, early)
    \/ Raises
    \/ SettledAfter

Spec == Init /\ [][Next]_vars
-----------------------------------------------------------------------------
\* The types of the client's and the server's variables.
TypeOK ==
    /\ pc \in {"idle", "before", "sent", "after", "raised"}
    /\ call \in {"none", "generate_step", "complete_text"}
    /\ calls \in 0..MaxCalls
    /\ value \in 0..counter /\ before \in 0..counter
    /\ polls \in 0..SettlePolls
    /\ reused \in 0..PromptBlocks /\ owed \in Nat /\ counter \in Nat
    /\ credited \in BOOLEAN /\ steady \in BOOLEAN
    /\ carried \in Nat /\ reported \in Nat

\* engine.py:20-21, "per-request cached_tokens = block-counter delta x
\* block_size": what a step reports as cached is what that very request
\* reused, neither short of what is still owed to it nor inflated by what was
\* owed to the request before it; something is always left to prefill.  It
\* takes a server that credits steadily, and a timeout that outlasts what the
\* longest prompt may be owed.
ReportsItsOwnReuse ==
    steady /\ SettlePolls >= PromptBlocks =>
        /\ result.cached = result.reused * BlockSize
        /\ result.prompt > 0 => result.prefill > 0

\* engine.py:355-356, "force the global prefix-cache-hits counter to settle
\* before handing control back to the caller": a call leaves nothing behind
\* for the next one to be credited with; under the same two conditions only.
SettledOnReturn ==
    steady /\ SettlePolls >= PromptBlocks => (pc = "idle" => owed = 0)

\* The same whatever the server credits, and when, also where two reads were
\* equal too early or the timeout came first: a step is wrong by exactly what
\* earlier requests were still owed when hits_before was taken, less what is
\* still owed when the step returns.  Of what other requests do meanwhile,
\* and of what was owed and paid in between, nothing gets into it.
WrongByWhatIsOwed ==
    result.cached = (result.reused + result.carried - result.left) * BlockSize

\* And the sum of the steps (the cumulative prefill the policies are compared
\* by) counts no block twice: however late a block is credited, at most one
\* step reports it, and none before the server has counted it.
NothingCountedTwice == reported <= counter * BlockSize
=============================================================================
