---------------------------- MODULE MCStateless ----------------------------
(***************************************************************************)
(* How much the stateless policies let a context grow: by their own rules  *)
(* it is bounded by what turns and summaries may hold (append_only's is    *)
(* not, see MCAppendOnlyBound).                                            *)
(***************************************************************************)
EXTENDS StatelessPolicies

CONSTANTS
    LeastTokens,    \* every turn and summary renders to this many at least,
    MostTokens,     \* a turn to this many at most,
    MostSummary,    \* and a summary to this many
    MaxFolds,       \* bound: length of the chains of folds looked at
    MaxLeft         \* bound: turns one of them leaves

ASSUME SizesAssumption ==
    /\ MaxFolds \in Nat /\ MaxLeft \in Nat
    /\ LeastTokens \in Nat /\ MostTokens \in Nat /\ MostSummary \in Nat
    /\ TurnSizes \subseteq LeastTokens..MostTokens
    /\ SummarySizes \subseteq LeastTokens..MostSummary

Larger(a, b) == IF a < b THEN b ELSE a

\* What is not compacted is under the threshold, or the anchor alone.
Top == Larger(Threshold, AnchorSize + 1)

\* left[k] bounds the turns behind the anchor when naive has folded k - 1
\* times in a row: left[1] fit under the threshold; a fold takes one turn in,
\* Cutoff of them out and puts a summary in their place; the last entry is
\* where that comes to rest.
Chains ==
    { left \in UNION { [1..folds -> 0..MaxLeft] : folds \in 1..MaxFolds } :
        LET rest == Len(left)
        IN  /\ Top <= AnchorSize + (left[1] + 1) * LeastTokens
            /\ \A k \in 1..rest : \A n \in 0..left[k] :
                  n + 2 <= left[IF k = rest THEN rest ELSE k + 1] + Cutoff(n + 1)
            /\ left[rest] >= 1 }

\* kv_evict's full window; what naive keeps verbatim on the way down, a turn
\* more at every fold; and what it keeps at rest.
RoomNeeded(left) ==
    LET rest == Len(left)
        window == AnchorSize + WindowTurns * MostTokens
        folding == IF rest > 1 THEN Top + MostSummary + (rest - 2) * MostTokens ELSE 0
        atRest == AnchorSize + MostSummary + (left[rest] - 1) * MostTokens
    IN  Larger(Larger(Top, window), Larger(folding, atRest))

Rooms == { RoomNeeded(left) : left \in Chains }
-----------------------------------------------------------------------------
\* bench/tasks/probes.py:9-10, "a policy's compacted context stays bounded by
\* construction": naive folds its summary into the next one and kv_evict drops
\* what leaves its window, so what they send stays bounded however long the
\* trajectory, although naive's context may at first grow with every fold.
\* The bound is one by the sizes of turns; the threshold alone is none, and
\* whether max_model_len has this room is a question of the sizes, too.
CompactedContextBounded ==
    policy # "none" => \A room \in Rooms : PromptLen(context) <= room
=============================================================================
