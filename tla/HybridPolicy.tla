---------------------------- MODULE HybridPolicy ----------------------------
(***************************************************************************)
(* HybridPolicy.maybe_compact (policies/hybrid.py): every live turn older  *)
(* than the protected recent window is evicted, kept or summarized, by its *)
(* role and its size.  Driven by the replay loop as AppendOnlyPolicy is.   *)
(***************************************************************************)
EXTENDS ContextState
LOCAL INSTANCE SequencesExt

CONSTANTS
    AnchorTexts,     \* what turns[0] may render to
    AnchorSize,      \* tokens of the anchor
    Roles,           \* roles of raw turns; "tool" is the one the code names
    TurnSizes,       \* tokens a raw turn may render to
    SummarySizes,    \* tokens a summary may render to
    Threshold,       \* threshold_tokens
    ProtectRecent,   \* protect_recent_turns
    LargeTool,       \* large_tool_output_tokens
    Small,           \* small_turn_tokens
    MaxTurns         \* bound: length of the trajectory

ASSUME HybridAssumption ==
    /\ AnchorSize \in Nat
    /\ TurnSizes \subseteq Nat
    /\ SummarySizes \subseteq Nat
    /\ Threshold \in Nat
    /\ ProtectRecent \in Nat                          \* else ValueError
    /\ LargeTool \in Nat /\ Small \in Nat /\ Small < LargeTool
    /\ MaxTurns \in Nat

VARIABLES
    trajectory, \* the raw turns handed to the policy so far, anchor excluded
    context,    \* context_turns: what the policy returned last
    anchor,     \* ContextState.anchor; None before the first call
    frozen,     \* ContextState.frozen
    live,       \* ContextState.live
    firstHash,  \* AnchorHygieneGuard._first_hash
    fired,      \* the second half of the last call's return value
    outcome     \* "running", or the exception that ended the run

vars == <<trajectory, context, anchor, frozen, live, firstHash, fired, outcome>>

Route(turn) ==
    CASE turn.role = "tool" /\ turn.size >= LargeTool -> "evict"
      [] ~(turn.role = "tool" /\ turn.size >= LargeTool) /\ turn.size < Small -> "keep"
      [] OTHER -> "summarize"

Routed(turns, route) == Filter(turns, { turn \in ToSet(turns) : Route(turn) = route })

\* Faulty: one turn too few is protected.
ProtectFrom_OffByOne(l) ==
    IF Len(l) >= ProtectRecent THEN Len(l) - ProtectRecent + 1 ELSE 0

ProtectFrom(l) == IF Len(l) > ProtectRecent THEN Len(l) - ProtectRecent ELSE 0
Candidates(l)  == SubSeq(l, 1, ProtectFrom(l))
Protected(l)   == SubSeq(l, ProtectFrom(l) + 1, Len(l))

\* Faulty: fires although every candidate is kept.
MustCompact_NoKeptCheck(l) ==
    /\ PromptLen(ToTurns(anchor, frozen, l)) >= Threshold
    /\ Len(l) >= 2

\* Faulty: live = protected.
Rejoin_DropsKept(kept, protected) == protected

\* Faulty: live = protected + kept.
Rejoin_KeptLast(kept, protected) == protected \o kept

\* live = kept + protected
Rejoin(kept, protected) == kept \o protected

\* Over the threshold, with a live turn outside the protected window that is
\* not kept verbatim.  `kept == candidates` exactly when all of them are kept.
MustCompact(l) ==
    /\ PromptLen(ToTurns(anchor, frozen, l)) >= Threshold
    /\ Len(l) >= 2
    /\ Routed(Candidates(l), "keep") # Candidates(l)

NewTurns == { Raw(Len(trajectory) + 2, r, s) : r \in Roles, s \in TurnSizes }

Init ==
    /\ trajectory = <<>>
    /\ context = <<>>
    /\ anchor = None
    /\ frozen = <<>>
    /\ live = <<>>
    /\ firstHash = None
    /\ fired = FALSE
    /\ outcome = "running"

\* Faulty: the guard compares with None and records nothing.
FirstCall_HashNotRecorded(text) ==
    /\ outcome = "running"
    /\ anchor = None
    /\ anchor' = Anchor(text, AnchorSize)
    /\ context' = ToTurns(anchor', frozen, live)
    /\ fired' = FALSE
    /\ UNCHANGED <<trajectory, frozen, live, firstHash, outcome>>

\* The first call: turns is [anchor], so live is empty and nothing fires.
FirstCall(text) ==
    /\ outcome = "running"
    /\ anchor = None
    /\ anchor' = Anchor(text, AnchorSize)
    /\ firstHash' = Anchor(text, AnchorSize)
    /\ context' = ToTurns(anchor', frozen, live)
    /\ fired' = FALSE
    /\ UNCHANGED <<trajectory, frozen, live, outcome>>

\* A later call: live.append(turns[-1]), whatever happens afterwards.
Receive(turn) ==
    /\ outcome = "running"
    /\ anchor # None
    /\ Len(trajectory) + 1 < MaxTurns
    /\ trajectory' = Append(trajectory, turn)
    /\ UNCHANGED <<anchor, firstHash>>

\* turns[0] renders differently from the first call's: AnchorDriftError,
\* raised after the new turn already went into live.
AnchorDrift(turn, text) ==
    /\ Receive(turn)
    /\ Anchor(text, AnchorSize) # firstHash
    /\ live' = Append(live, turn)
    /\ outcome' = "anchor_drift"
    /\ UNCHANGED <<context, frozen, fired>>

\* Faulty: the context is rendered before the new turn is appended.
PlainStep_RenderedEarly(turn) ==
    /\ Receive(turn)
    /\ ~MustCompact(Append(live, turn))
    /\ live' = Append(live, turn)
    /\ context' = ToTurns(anchor, frozen, live)
    /\ fired' = FALSE
    /\ UNCHANGED <<frozen, outcome>>

\* Nothing to do: a pure append.
PlainStep(turn) ==
    /\ Receive(turn)
    /\ ~MustCompact(Append(live, turn))
    /\ live' = Append(live, turn)
    /\ context' = ToTurns(anchor, frozen, live')
    /\ fired' = FALSE
    /\ UNCHANGED <<frozen, outcome>>

\* summarize(to_summarize) raised, before live was rewritten.
SummarizerFails(turn) ==
    LET l == Append(live, turn)
    IN  /\ Receive(turn)
        /\ MustCompact(l)
        /\ Routed(Candidates(l), "summarize") # <<>>
        /\ live' = l
        /\ outcome' = "summarizer_failed"
        /\ UNCHANGED <<context, frozen, fired>>

\* live = kept + protected, and a new segment is frozen (or none is).
Rewrite(turn) ==
    LET l == Append(live, turn)
    IN  /\ Receive(turn)
        /\ MustCompact(l)
        /\ live' = Rejoin(Routed(Candidates(l), "keep"), Protected(l))
        /\ context' = ToTurns(anchor, frozen', live')
        /\ fired' = TRUE
        /\ UNCHANGED outcome

\* Every candidate that is not kept is a large tool output: no summary.
EvictOnlyStep(turn) ==
    /\ Routed(Candidates(Append(live, turn)), "summarize") = <<>>
    /\ frozen' = frozen
    /\ Rewrite(turn)

CompactStep(turn, size) ==
    LET toSummarize == Routed(Candidates(Append(live, turn)), "summarize")
    IN  /\ toSummarize # <<>>
        /\ frozen' = Freeze(frozen, Segment(Len(trajectory) + 1, toSummarize, size))
        /\ Rewrite(turn)

Next ==
    \/ \E text \in AnchorTexts : FirstCall(text)
    \/ \E turn \in NewTurns :
        \/ \E text \in AnchorTexts : AnchorDrift(turn, text)
        \/ PlainStep(turn)
        \/ SummarizerFails(turn)
        \/ EvictOnlyStep(turn)
        \/ \E size \in SummarySizes : CompactStep(turn, size)

Spec == Init /\ [][Next]_vars
-----------------------------------------------------------------------------
RawTurn == [kind : {"raw"}, id : Nat, role : Roles, size : TurnSizes]
AnchorTurn == [kind : {"anchor"}, text : AnchorTexts, size : {AnchorSize}]
SegmentSet == [step_created : Nat, of : Seq(RawTurn), n : Nat, size : SummarySizes]

\* The types of the policy's fields and of the replay loop's variables.
TypeOK ==
    /\ trajectory \in Seq(RawTurn)
    /\ Len(trajectory) <= MaxTurns
    /\ anchor \in AnchorTurn \cup {None}
    /\ frozen \in Seq(SegmentSet)
    /\ live \in Seq(RawTurn)
    /\ firstHash = anchor
    /\ fired \in BOOLEAN
    /\ outcome \in {"running", "anchor_drift", "summarizer_failed"}

Summarized == UNION { ToSet(frozen[i].of) : i \in 1..Len(frozen) }

\* hybrid.py:23-31: each turn the policy was given is held verbatim or in a
\* summary, or it was a large tool output and is gone: no turn of another kind
\* is ever lost and none is held twice, across any number of rounds and after
\* an interrupted call.
OnlyLargeToolTurnsVanish ==
    /\ ToSet(live) \cap Summarized = {}
    /\ \A turn \in ToSet(trajectory) \ (ToSet(live) \cup Summarized) :
          Route(turn) = "evict"

\* The newest protect_recent_turns turns of the trajectory are the newest
\* turns of live, verbatim and in order, however many rounds went before
\* (hybrid.py:103-104 counts back from the end of a live list that earlier
\* rounds have thinned out).
RecentTurnsProtected ==
    LET n == IF Len(trajectory) < ProtectRecent THEN Len(trajectory) ELSE ProtectRecent
    IN  IsSuffix(SubSeq(trajectory, Len(trajectory) - n + 1, Len(trajectory)), live)

\* The summaries read in trajectory order: what one segment was made from is
\* older than what the next one was, each is itself in order, and so is live,
\* although every round leaves small turns behind in it (hybrid.py:108-131).
SummariesInOrder ==
    /\ \A i \in 1..Len(frozen) : \A a, b \in 1..Len(frozen[i].of) :
          a < b => frozen[i].of[a].id < frozen[i].of[b].id
    /\ \A i, j \in 1..Len(frozen) : i < j =>
          \A a \in ToSet(frozen[i].of), b \in ToSet(frozen[j].of) : a.id < b.id
    /\ \A a, b \in 1..Len(live) : a < b => live[a].id < live[b].id

\* The flag maybe_compact returns is what decides whether a step is logged as
\* a compaction event (phase2_layout.py:203): it is set exactly when what is
\* sent does not extend what was sent before.  With an empty protected window
\* the new turn itself may be evicted, and nothing changes.
FiredIsDivergence ==
    [][ ProtectRecent > 0 /\ outcome' = "running" /\ context # <<>> =>
            (fired' <=> ~IsPrefix(context, context')) ]_vars

Policy == INSTANCE CompactionPolicy
            WITH received <- Len(trajectory) + (IF anchor = None THEN 0 ELSE 1),
                 sent <- context, ended <- outcome # "running"

\* The policy keeps what every CompactionPolicy promises the replay loop.
ImplementsPolicy == Policy!Spec
=============================================================================
