---------------------------- MODULE ContextState ----------------------------
(***************************************************************************)
(* Turns, frozen segments and the rendering order of a compacted context   *)
(* (context/segments.py, context/layout.py).                               *)
(*                                                                         *)
(* A turn's text is abstracted to what identifies it and to the number of  *)
(* tokens it renders to (`size`).  A summary's text is abstracted to the   *)
(* turns it was made from (`of`): two summaries read alike exactly when    *)
(* they were made from the same turns.  PromptLen adds the turns' sizes,   *)
(* so a BPE merge across the newline between two turns is not modelled.    *)
(***************************************************************************)
EXTENDS Naturals, Sequences, Lists

\* A raw trajectory turn; `id` is its 1-based position in the trajectory.
Raw(id, role, size) == [kind |-> "raw", id |-> id, role |-> role, size |-> size]

\* The anchor (turns[0]); `text` stands for what it renders to.
Anchor(text, size) == [kind |-> "anchor", text |-> text, size |-> size]

\* _state is None, _first_hash is None
None == [kind |-> "none"]

\* One frozen summary: written once, when the turns `of` were retired.
Segment(step, of, size) ==
    [step_created |-> step, of |-> of, n |-> Len(of), size |-> size]

\* frozen.append(Segment(...))
Freeze(frozen, seg) == Append(frozen, seg)

\* Segment.to_turn: a pure function of the segment and of its position.
ToTurn(seg, index) ==
    [kind |-> "summary", index |-> index, seg |-> seg, size |-> seg.size]

\* Faulty: summaries are numbered from the newest one.
FrozenTurns_NewestIsZero(frozen) ==
    [i \in 1..Len(frozen) |-> ToTurn(frozen[i], Len(frozen) - i)]

FrozenTurns(frozen) == [i \in 1..Len(frozen) |-> ToTurn(frozen[i], i - 1)]

\* ContextState.to_turns: the anchor, the frozen segments, the live turns.
ToTurns(anchor, frozen, live) == <<anchor>> \o FrozenTurns(frozen) \o live

\* len(render_turns_to_token_ids(turns))
PromptLen(turns) == TotalOf([i \in 1..Len(turns) |-> turns[i].size])

\* first_divergence_index(s, t) = n, counted in turns.
DivergesAt(s, t, n) ==
    /\ n <= Len(s) /\ n <= Len(t)
    /\ \A i \in 1..n : s[i] = t[i]
    /\ n < Len(s) /\ n < Len(t) => s[n + 1] # t[n + 1]
=============================================================================
