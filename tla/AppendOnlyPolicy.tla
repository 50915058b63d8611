-------------------------- MODULE AppendOnlyPolicy --------------------------
(***************************************************************************)
(* AppendOnlyPolicy.maybe_compact (policies/append_only.py) driven by the  *)
(* replay loop every experiment shares: each call hands the policy the     *)
(* context it returned last time plus one new raw turn.                    *)
(***************************************************************************)
EXTENDS ContextState

CONSTANTS
    AnchorTexts,     \* what turns[0] may render to
    AnchorSize,      \* tokens of the anchor
    Roles,           \* roles of raw turns
    TurnSizes,       \* tokens a raw turn may render to
    SummarySizes,    \* tokens a summary may render to
    Threshold,       \* threshold_tokens
    RetirePercent,   \* retire_fraction, in percent
    MaxTurns         \* bound: length of the trajectory

ASSUME AppendOnlyAssumption ==
    /\ AnchorSize \in Nat
    /\ TurnSizes \subseteq Nat
    /\ SummarySizes \subseteq Nat
    /\ Threshold \in Nat
    /\ RetirePercent \in 1..99       \* __init__ raises ValueError otherwise
    /\ MaxTurns \in Nat

VARIABLES
    seen,       \* raw turns handed to the policy so far
    context,    \* context_turns: what the policy returned last
    anchor,     \* ContextState.anchor; None before the first call
    frozen,     \* ContextState.frozen
    live,       \* ContextState.live
    firstHash,  \* AnchorHygieneGuard._first_hash
    fired,      \* the second half of the last call's return value
    outcome     \* "running", or the exception that ended the run

vars == <<seen, context, anchor, frozen, live, firstHash, fired, outcome>>

\* Faulty: int(len(live) * retire_fraction) without the minimum of one turn.
Cutoff_NoMinimum(n) == (n * RetirePercent) \div 100

\* cutoff = max(1, int(len(live) * retire_fraction))
Cutoff(n) == LET c == (n * RetirePercent) \div 100 IN IF c < 1 THEN 1 ELSE c

NewTurns == { Raw(seen + 1, r, s) : r \in Roles, s \in TurnSizes }

\* Faulty: the length check is missing.
MustCompact_NoMinimum(l) == PromptLen(ToTurns(anchor, frozen, l)) >= Threshold

\* prompt_len >= threshold_tokens and len(live) >= 2, live being the list
\* after the new turn was appended
MustCompact(l) ==
    /\ PromptLen(ToTurns(anchor, frozen, l)) >= Threshold
    /\ Len(l) >= 2

Init ==
    /\ seen = 0
    /\ context = <<>>
    /\ anchor = None
    /\ frozen = <<>>
    /\ live = <<>>
    /\ firstHash = None
    /\ fired = FALSE
    /\ outcome = "running"

\* Faulty: the guard compares with None and records nothing.
FirstCall_HashNotRecorded(text) ==
    /\ outcome = "running"
    /\ anchor = None
    /\ seen < MaxTurns
    /\ anchor' = Anchor(text, AnchorSize)
    /\ seen' = 1
    /\ context' = ToTurns(anchor', frozen, live)
    /\ fired' = FALSE
    /\ UNCHANGED <<frozen, live, firstHash, outcome>>

\* The first call: turns is [anchor], so live is empty and nothing fires.
FirstCall(text) ==
    /\ outcome = "running"
    /\ anchor = None
    /\ seen < MaxTurns
    /\ anchor' = Anchor(text, AnchorSize)
    /\ firstHash' = Anchor(text, AnchorSize)
    /\ seen' = 1
    /\ context' = ToTurns(anchor', frozen, live)
    /\ fired' = FALSE
    /\ UNCHANGED <<frozen, live, outcome>>

\* A later call: live.append(turns[-1]), whatever happens afterwards.
Receive(turn) ==
    /\ outcome = "running"
    /\ anchor # None
    /\ seen < MaxTurns
    /\ seen' = seen + 1
    /\ UNCHANGED <<anchor, firstHash>>

\* The caller handed a turns[0] that renders differently: AnchorDriftError,
\* raised after the new turn already went into live.
AnchorDrift(turn, text) ==
    /\ Receive(turn)
    /\ Anchor(text, AnchorSize) # firstHash
    /\ live' = Append(live, turn)
    /\ outcome' = "anchor_drift"
    /\ UNCHANGED <<context, frozen, fired>>

\* Faulty: the context is rendered before the new turn is appended.
PlainStep_RenderedEarly(turn) ==
    /\ Receive(turn)
    /\ ~MustCompact(Append(live, turn))
    /\ live' = Append(live, turn)
    /\ context' = ToTurns(anchor, frozen, live)
    /\ fired' = FALSE
    /\ UNCHANGED <<frozen, outcome>>

\* Below the threshold, or fewer than two live turns: a pure append.
PlainStep(turn) ==
    /\ Receive(turn)
    /\ ~MustCompact(Append(live, turn))
    /\ live' = Append(live, turn)
    /\ context' = ToTurns(anchor, frozen, live')
    /\ fired' = FALSE
    /\ UNCHANGED <<frozen, outcome>>

\* summarize() raised: live has the new turn, frozen is untouched, and the
\* replay loop never receives a new context.
SummarizerFails(turn) ==
    /\ Receive(turn)
    /\ MustCompact(Append(live, turn))
    /\ live' = Append(live, turn)
    /\ outcome' = "summarizer_failed"
    /\ UNCHANGED <<context, frozen, fired>>

\* A compaction event: the oldest `cutoff` live turns become one segment.
CompactStep(turn, size) ==
    LET l == Append(live, turn)
        c == Cutoff(Len(l))
    IN  /\ Receive(turn)
        /\ MustCompact(l)
        /\ frozen' = Freeze(frozen, Segment(seen, SubSeq(l, 1, c), size))
        /\ live' = SubSeq(l, c + 1, Len(l))
        /\ context' = ToTurns(anchor, frozen', live')
        /\ fired' = TRUE
        /\ UNCHANGED outcome

Next ==
    \/ \E text \in AnchorTexts : FirstCall(text)
    \/ \E turn \in NewTurns :
        \/ \E text \in AnchorTexts : AnchorDrift(turn, text)
        \/ PlainStep(turn)
        \/ SummarizerFails(turn)
        \/ \E size \in SummarySizes : CompactStep(turn, size)

Spec == Init /\ [][Next]_vars
-----------------------------------------------------------------------------
\* id of the last raw turn the first i segments of f cover (1: the anchor)
CoveredBy(f, i) == IF i = 0 THEN 1 ELSE f[i].of[Len(f[i].of)].id

RawTurn == [kind : {"raw"}, id : Nat, role : Roles, size : TurnSizes]
AnchorTurn == [kind : {"anchor"}, text : AnchorTexts, size : {AnchorSize}]
SegmentSet == [step_created : Nat, of : Seq(RawTurn), n : Nat, size : SummarySizes]

\* The types of the policy's fields and of the replay loop's variables.
TypeOK ==
    /\ seen \in 0..MaxTurns
    /\ anchor \in AnchorTurn \cup {None}
    /\ frozen \in Seq(SegmentSet)
    /\ live \in Seq(RawTurn)
    /\ firstHash = anchor
    /\ fired \in BOOLEAN
    /\ outcome \in {"running", "anchor_drift", "summarizer_failed"}

\* The harness contract of append_only.py:20-25: turns[:-1] of the next call
\* is exactly what the policy's own ContextState renders to, so reading only
\* turns[-1] loses nothing.
HarnessContract ==
    outcome = "running" /\ anchor # None =>
        context = ToTurns(anchor, frozen, live)

\* Segments f and live list l account for turns 2..n, each once and in order.
Accounted(f, l, n) ==
    /\ \A i \in 1..Len(f) :
        /\ f[i].n = Len(f[i].of) /\ f[i].n > 0
        /\ \A k \in 1..Len(f[i].of) : f[i].of[k].id = CoveredBy(f, i - 1) + k
    /\ \A k \in 1..Len(l) : l[k].id = CoveredBy(f, Len(f)) + k
    /\ CoveredBy(f, Len(f)) + Len(l) = n

\* Every raw turn the policy was given is accounted for exactly once and in
\* trajectory order, an interrupted call included: each segment was made from
\* a non-empty contiguous run that starts where the previous one ended, and
\* live continues the last run up to the newest turn (append_only.py:85-96).
EveryTurnAccountedFor == anchor # None => Accounted(frozen, live, seen)

\* append_only.py:11-13: what a step sends diverges from what the previous
\* step sent at the end of frozen[:-1] when the step fired, and only at
\* the end of the previous context when it did not.
DivergesAtNewestSummary ==
    [][ context # <<>> /\ context' # context =>
        DivergesAt(context, context',
                   IF fired' THEN 1 + Len(frozen) ELSE Len(context)) ]_vars

\* The turn just received is never among those a compaction retires: the model
\* always answers the newest turn itself, not a summary of it
\* (append_only.py:82 and :85-86 together).
NewestTurnKept ==
    outcome = "running" /\ seen > 1 =>
        /\ live # <<>>
        /\ context[Len(context)].kind = "raw"
        /\ context[Len(context)].id = seen

Policy == INSTANCE CompactionPolicy
            WITH received <- seen, sent <- context, ended <- outcome # "running"

\* The policy keeps what every CompactionPolicy promises the replay loop.
ImplementsPolicy == Policy!Spec
=============================================================================
