------------------------- MODULE StatelessPolicies -------------------------
(***************************************************************************)
(* The policies that keep no state of their own between calls: NoOpPolicy  *)
(* (policies/none.py), NaivePolicy (policies/naive.py) and KVEvictPolicy   *)
(* (policies/kv_evict.py).  All they know of the trajectory is the context *)
(* they returned last, which the replay loop hands back with one new turn. *)
(*                                                                         *)
(* A naive summary's text stands for every turn it covers (`of`, a set of  *)
(* ids), those of the summaries it swept up included.                      *)
(***************************************************************************)
EXTENDS ContextState, FiniteSets

CONSTANTS
    AnchorSize,      \* tokens of the anchor
    TurnSizes,       \* tokens a raw turn may render to
    SummarySizes,    \* tokens a summary may render to
    Threshold,       \* threshold_tokens
    RetirePercent,   \* retire_fraction, in percent
    WindowTurns,     \* window_turns
    MaxTurns         \* bound: length of the trajectory

ASSUME StatelessAssumption ==
    /\ AnchorSize \in Nat
    /\ TurnSizes \subseteq Nat
    /\ SummarySizes \subseteq Nat
    /\ Threshold \in Nat
    /\ RetirePercent \in 1..99      \* else ValueError
    /\ WindowTurns \in Nat \ {0}    \* else ValueError
    /\ MaxTurns \in Nat

VARIABLES
    policy,     \* policy.name
    seen,       \* raw turns handed to the policy so far, the anchor included
    context,    \* context_turns: what the policy returned last
    fired,      \* the second half of the last call's return value
    outcome     \* "running", or the exception that ended the run

vars == <<policy, seen, context, fired, outcome>>

\* Faulty: int(len(rest) * retire_fraction) without the minimum of one turn.
Cutoff_NoMinimum(n) == (n * RetirePercent) \div 100

\* cutoff = max(1, int(len(rest) * retire_fraction))
Cutoff(n) == LET c == (n * RetirePercent) \div 100 IN IF c < 1 THEN 1 ELSE c

Rest(turns) == SubSeq(turns, 2, Len(turns))

\* Faulty: compares the number of turns.
OverThreshold_CountsTurns(turns) == Len(turns) >= Threshold /\ Len(turns) >= 2

\* prompt_len >= threshold_tokens and len(turns) >= 2
OverThreshold(turns) == PromptLen(turns) >= Threshold /\ Len(turns) >= 2

\* ids of the raw turns a turn tells of
Covers(turn) == IF turn.kind = "raw" THEN {turn.id} ELSE turn.of

\* Faulty: the summarizer is not shown the summaries among the retired turns.
SummaryTurn_SkipsSummaries(retired, size) ==
    [kind |-> "summary", n |-> Len(retired), size |-> size,
     of |-> { retired[i].id : i \in { j \in 1..Len(retired) : retired[j].kind = "raw" } }]

SummaryTurn(retired, size) ==
    [kind |-> "summary", n |-> Len(retired), size |-> size,
     of |-> UNION { Covers(retired[i]) : i \in 1..Len(retired) }]

\* Faulty: the window is one turn short.
Window_OneShort(rest) ==
    SubSeq(rest, IF Len(rest) > WindowTurns THEN Len(rest) - WindowTurns + 2 ELSE 1, Len(rest))

\* rest[-window_turns:]
Window(rest) ==
    SubSeq(rest, IF Len(rest) > WindowTurns THEN Len(rest) - WindowTurns + 1 ELSE 1, Len(rest))

\* turns_before_compaction = context_turns + [turns[step_idx]]
Handed(size) ==
    Append(context, IF seen = 0 THEN Anchor("a", AnchorSize) ELSE Raw(seen + 1, "user", size))

Init ==
    /\ policy \in {"none", "naive", "kv_evict"}
    /\ seen = 0
    /\ context = <<>>
    /\ fired = FALSE
    /\ outcome = "running"

Receive ==
    /\ outcome = "running"
    /\ seen < MaxTurns
    /\ seen' = seen + 1
    /\ UNCHANGED policy

\* return turns, False
PassThrough(turns) ==
    /\ Receive
    /\ \/ policy = "none"
       \/ ~OverThreshold(turns)
       \/ policy = "kv_evict" /\ Len(Rest(turns)) <= WindowTurns
    /\ context' = turns
    /\ fired' = FALSE
    /\ UNCHANGED outcome

NaiveCompact(turns, size) ==
    LET rest == Rest(turns)
        c == Cutoff(Len(rest))
    IN  /\ Receive
        /\ policy = "naive" /\ OverThreshold(turns)
        /\ context' = <<turns[1], SummaryTurn(SubSeq(rest, 1, c), size)>>
                        \o SubSeq(rest, c + 1, Len(rest))
        /\ fired' = TRUE
        /\ UNCHANGED outcome

\* summarize() raised: the loop never gets a context for this turn.
NaiveSummarizerFails(turns) ==
    /\ Receive
    /\ policy = "naive" /\ OverThreshold(turns)
    /\ outcome' = "summarizer_failed"
    /\ UNCHANGED <<context, fired>>

\* Faulty: the window without the anchor in front.
SlideWindow_WithoutSink(turns) ==
    /\ Receive
    /\ policy = "kv_evict" /\ OverThreshold(turns)
    /\ Len(Rest(turns)) > WindowTurns
    /\ context' = Window(Rest(turns))
    /\ fired' = TRUE
    /\ UNCHANGED outcome

SlideWindow(turns) ==
    /\ Receive
    /\ policy = "kv_evict" /\ OverThreshold(turns)
    /\ Len(Rest(turns)) > WindowTurns
    /\ context' = <<turns[1]>> \o Window(Rest(turns))
    /\ fired' = TRUE
    /\ UNCHANGED outcome

Next ==
    \E size \in TurnSizes :
        \/ PassThrough(Handed(size))
        \/ \E s \in SummarySizes : NaiveCompact(Handed(size), s)
        \/ NaiveSummarizerFails(Handed(size))
        \/ SlideWindow(Handed(size))

Spec == Init /\ [][Next]_vars
-----------------------------------------------------------------------------
Turns ==
    [kind : {"anchor"}, text : {"a"}, size : {AnchorSize}]
    \cup [kind : {"raw"}, id : 2..MaxTurns, role : {"user"}, size : TurnSizes]
    \cup [kind : {"summary"}, n : 1..MaxTurns, size : SummarySizes, of : SUBSET (2..MaxTurns)]

\* The types of what the replay loop holds.
TypeOK ==
    /\ policy \in {"none", "naive", "kv_evict"}
    /\ seen \in 0..MaxTurns
    /\ \A i \in 1..Len(context) : context[i] \in Turns
    /\ fired \in BOOLEAN
    /\ outcome \in {"running", "summarizer_failed"}

Running == outcome = "running" /\ seen > 0

\* naive.py:7-11: an earlier summary is always swept up by the next one, so
\* the context never shows two, and the one it shows stands right behind the
\* anchor for every turn older than the ones kept verbatim: nothing is lost
\* and nothing is told twice.
OneSummaryOfThePast ==
    Running /\ policy = "naive" =>
        /\ \A i \in 3..Len(context) : context[i].kind = "raw"
        /\ \A i, j \in 2..Len(context) : i < j =>
              \A a \in Covers(context[i]), b \in Covers(context[j]) : a < b
        /\ UNION { Covers(context[i]) : i \in 2..Len(context) } = 2..seen

\* kv_evict.py:30-33: what is kept is the newest turns, contiguous and up to
\* the last one, and never fewer than the window (or all there are), although
\* the policy only ever sees its own last answer.
KeepsTheWindow ==
    Running /\ policy = "kv_evict" =>
        LET n == Len(context) - 1
        IN  /\ \A i \in 1..n : context[i + 1].id = seen - n + i
            /\ n >= WindowTurns \/ n = seen - 1

Policy == INSTANCE CompactionPolicy
            WITH received <- seen, sent <- context, ended <- outcome # "running"

\* The policies keep what every CompactionPolicy promises the replay loop.
ImplementsPolicy == Policy!Spec
=============================================================================
