-------------------------- MODULE CompactionPolicy --------------------------
(***************************************************************************)
(* What every CompactionPolicy promises the replay loop that calls it      *)
(* (policies/base.py and its use in experiments/phase2_layout.py): an      *)
(* abstract specification each policy is shown to implement.               *)
(*                                                                         *)
(* The loop sends `context + [new turn]` down and gets back what to send.  *)
(* A policy that says it did not fire returned exactly that; one that did  *)
(* may rewrite everything behind the anchor, but has only the raw turns it *)
(* was just handed to show verbatim, in their order.                       *)
(***************************************************************************)
EXTENDS ContextState

VARIABLES
    received,   \* raw turns handed to the policy so far, the anchor included
    sent,       \* the context it returned last
    fired,      \* whether it said a compaction event fired
    ended       \* an exception ended the run

vars == <<received, sent, fired, ended>>

\* ids of the raw turns a context shows verbatim
RawIds(turns) == { turns[i].id : i \in { j \in 1..Len(turns) : turns[j].kind = "raw" } }

RawIdsInOrder(turns) ==
    \A i, j \in 1..Len(turns) :
        i < j /\ turns[i].kind = "raw" /\ turns[j].kind = "raw"
            => turns[i].id < turns[j].id

Init ==
    /\ received = 0
    /\ sent = <<>>
    /\ fired = FALSE
    /\ ended = FALSE

\* step 0: the context is the anchor alone.
Start ==
    /\ ~ended /\ received = 0
    /\ received' = 1
    /\ Len(sent') = 1 /\ sent'[1].kind = "anchor"
    /\ fired' = FALSE
    /\ UNCHANGED ended

Receive ==
    /\ ~ended /\ received > 0
    /\ received' = received + 1

\* "turns, False"
PassThrough ==
    /\ Receive
    /\ Len(sent') = Len(sent) + 1
    /\ \A i \in 1..Len(sent) : sent'[i] = sent[i]
    /\ sent'[Len(sent')].kind = "raw"
    /\ sent'[Len(sent')].id = received'
    /\ fired' = FALSE
    /\ UNCHANGED ended

\* "rewritten turns, True": the anchor stays in front, and a raw turn that is
\* no longer shown never comes back.
Compact ==
    /\ Receive
    /\ Len(sent') > 0 /\ sent'[1] = sent[1]
    /\ RawIds(sent') \subseteq RawIds(sent) \cup {received'}
    /\ RawIdsInOrder(sent')
    /\ fired' = TRUE
    /\ UNCHANGED ended

\* The policy raised: nothing is sent for this step or any later one.
Raise ==
    /\ Receive
    /\ ended' = TRUE
    /\ UNCHANGED <<sent, fired>>

Next == Start \/ PassThrough \/ Compact \/ Raise

Spec == Init /\ [][Next]_vars
=============================================================================
