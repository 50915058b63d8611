------------------------------ MODULE MCLedger ------------------------------
(***************************************************************************)
(* Two seeds, queues that overdraw an account by a withdrawal and by a     *)
(* transfer, and the script at the two scales of run_all.py: the whole     *)
(* sweep, and a smoke test of the first seed, one policy and short queues. *)
(***************************************************************************)
EXTENDS LedgerEpisode, TLC

T(kind, account, to, amount) == [kind |-> kind, account |-> account, to |-> to, amount |-> amount]

MCAccounts == {"A", "B"}
MCTransactions ==
    0 :> <<T("withdraw", "A", "A", 1), T("deposit", "B", "B", 2), T("transfer", "B", "A", 1)>>
    @@ 1 :> <<T("transfer", "A", "B", 2), T("deposit", "A", "A", 1), T("transfer", "A", "B", 2)>>
MCInitial == 0 :> [a \in MCAccounts |-> 0] @@ 1 :> [a \in MCAccounts |-> 1]
MCAmounts == {-1, 1, 2}

Full == [seeds |-> <<0, 1>>, policies |-> <<"naive", "append_only">>,
         transactions |-> 3, maxToolCalls |-> 8]
Smoke == [seeds |-> <<0>>, policies |-> <<"naive">>, transactions |-> 1, maxToolCalls |-> 4]
MCCommandLines == {Full, Smoke}

\* What the proof that a scale compares the same episodes takes for granted.
ASSUME NothingIsNamedTwice == NoRepeats
=============================================================================
