------------------------------ MODULE MCOffload ------------------------------
(***************************************************************************)
(* Instance of OffloadConnector: the prefixes of two replays that share    *)
(* their anchor and part of a long tool output, then part, and of a        *)
(* summarizer's request, which shares nothing with them and pushes their   *)
(* blocks out of the GPU.  Tokens of uneven length straddle the turns.     *)
(***************************************************************************)
EXTENDS OffloadConnector

A == [no |-> 1, role |-> "system"]
T == [no |-> 2, role |-> "tool"]
X == [no |-> 3, role |-> "assistant"]
S == [no |-> 4, role |-> "tool"]
H == [no |-> 1, role |-> "user"]
Y == [no |-> 3, role |-> "user"]

Replays == { << <<A>>, <<A, A, T>>, <<T, T>>, <<X>>, <<X, S>>, <<S>>, <<S, S>> >>,
             << <<A>>, <<A, A, T>>, <<T, T>>, <<T>>, <<T, Y, Y>> >>,
             << <<H>>, <<H, T>>, <<T, T>>, <<T>>, <<T>>, <<X>> >> }

MCPrompts == UNION { { SubSeq(r, 1, n) : n \in 2..Len(r) } : r \in Replays }

\* What the proofs that the tier never forgets a prompt take for granted.
ASSUME EachHasABlockWorthStoring == SomeBlockIsWorthIt
ASSUME EachIsAnchored == \A p \in Prompts : Anchored(p)
=============================================================================
