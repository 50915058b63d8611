---------------------------- MODULE Engine_proofs ----------------------------
(***************************************************************************)
(* Proofs about VLLMEngine.  What its two reads of the counter are worth   *)
(* (EngineMetering) whatever the server credits, and when: nothing is      *)
(* assumed of the server's pace or of the settle timeout.  And that the    *)
(* server process does not outlive its caller (the safety part of          *)
(* ServerLifecycle); the recorder's server has no such theorem: its run    *)
(* shows the orphan.                                                       *)
(***************************************************************************)
EXTENDS EngineMetering, ServerLifecycle, TLAPS

\* What the steps reported lies below the read of the counter that the next
\* report starts from, and that read below the one it will end with.
ReadsInOrder ==
    /\ reported <= counter * BlockSize
    /\ pc = "before" => reported <= value * BlockSize
    /\ pc \in {"sent", "after"} /\ call = "generate_step" => reported <= before * BlockSize
    /\ pc = "after" => before <= value

\* What the server counted or owes since hits_before: what hits_before did not
\* see, and the request's own reuse once it was answered.
Accounts ==
    /\ pc = "sent" /\ call = "generate_step" => counter + owed = before + carried
    /\ pc = "after" /\ call = "generate_step" => counter + owed = before + carried + reused

MInv == TypeOK /\ ReadsInOrder /\ Accounts /\ WrongByWhatIsOwed

\* The flags are Booleans, kept apart from the other types; the kind of the
\* server stays.
LEMMA FlagTypes ==
    /\ Init => credited \in BOOLEAN /\ steady \in BOOLEAN
    /\ TypeOK /\ Next => credited' \in BOOLEAN /\ steady' \in BOOLEAN
<1>1. Init => credited \in BOOLEAN /\ steady \in BOOLEAN
  BY Zenon DEF Init
<1>2. ASSUME TypeOK, Next PROVE credited' \in BOOLEAN /\ steady' \in BOOLEAN
  <2>1. credited' = credited \/ credited' = TRUE \/ credited' = FALSE
    BY <1>2, Zenon DEF Next, Credit, GenerateStep, FirstRead, CompleteText, PollAgain, Poll,
                       SettledBefore, Responds, Raises, SettledAfter
  <2>2. steady' = steady
    BY <1>2, Zenon DEF Next, Credit, GenerateStep, FirstRead, CompleteText, PollAgain, Poll,
                       SettledBefore, Responds, Raises, SettledAfter
  <2>3. credited \in BOOLEAN /\ steady \in BOOLEAN
    BY <1>2 DEF TypeOK
  <2> QED
    BY <2>1, <2>2, <2>3, Zenon
<1> QED
  BY <1>1, <1>2, Zenon

\* Tokens grow with blocks.
LEMMA MoreBlocks ==
    ASSUME NEW a \in Nat, NEW b \in Nat, a <= b
    PROVE  a * BlockSize <= b * BlockSize
BY MeteringAssumption

\* A bound in blocks may grow.
LEMMA BoundGrows ==
    ASSUME NEW r \in Nat, NEW a \in Nat, NEW b \in Nat, a <= b, r <= a * BlockSize
    PROVE  r <= b * BlockSize
<1>1. a * BlockSize <= b * BlockSize
  BY MoreBlocks
<1>2. a * BlockSize \in Int /\ b * BlockSize \in Int
  BY MeteringAssumption
<1> QED
  BY <1>1, <1>2

\* A difference of blocks, in tokens.
LEMMA BlocksBetween ==
    ASSUME NEW a \in Nat, NEW b \in Nat, a <= b
    PROVE  /\ (b - a) * BlockSize \in Nat
           /\ a * BlockSize + (b - a) * BlockSize = b * BlockSize
BY MeteringAssumption

\* At the start nothing is counted, owed or reported.
LEMMA MInvInit == Init => MInv
<1> SUFFICES ASSUME Init PROVE MInv
  OBVIOUS
<1> USE MeteringAssumption DEF Init
<1>1. TypeOK
  BY FlagTypes DEF TypeOK
<1>2. ReadsInOrder /\ Accounts
  BY DEF ReadsInOrder, Accounts
<1>3. WrongByWhatIsOwed
  BY DEF WrongByWhatIsOwed
<1> QED
  BY <1>1, <1>2, <1>3 DEF MInv

\* Every step but the one that reports leaves the reports alone; what counts
\* then is the order of the reads.
LEMMA ReadsNext ==
    ASSUME MInv, Next, ~SettledAfter
    PROVE  TypeOK' /\ ReadsInOrder'
<1> USE MeteringAssumption DEF MInv
<1>0. credited' \in BOOLEAN /\ steady' \in BOOLEAN
  BY FlagTypes
<1>1. CASE Credit
  <2>1. TypeOK'
    BY <1>0, <1>1 DEF TypeOK, Credit, clientVars, historyVars
  <2>2. counter' \in Nat /\ counter <= counter' /\ reported' = reported
    BY <1>1 DEF TypeOK, Credit, clientVars, historyVars
  <2>3. reported <= counter' * BlockSize
    BY <2>2, BoundGrows DEF TypeOK, ReadsInOrder
  <2> QED
    BY <1>1, <2>1, <2>2, <2>3 DEF ReadsInOrder, Credit, clientVars, historyVars
<1>2. CASE GenerateStep
  <2>1. TypeOK'
    BY <1>0, <1>2 DEF TypeOK, GenerateStep, FirstRead, historyVars
  <2> QED
    BY <1>2, <2>1 DEF ReadsInOrder, GenerateStep, FirstRead, historyVars
<1>3. CASE CompleteText
  <2>1. TypeOK'
    BY <1>0, <1>3 DEF TypeOK, CompleteText, historyVars
  <2> QED
    BY <1>3, <2>1 DEF ReadsInOrder, CompleteText, historyVars
<1>4. CASE PollAgain
  <2>1. TypeOK'
    BY <1>0, <1>4 DEF TypeOK, PollAgain, Poll, clientVars, historyVars
  <2>2. value <= value' /\ value' \in Nat /\ before \in Nat
    BY <1>4 DEF TypeOK, PollAgain, Poll
  <2>3. ASSUME pc = "before" PROVE reported <= value' * BlockSize
    <3>1. value \in Nat /\ reported \in Nat /\ reported <= value * BlockSize
      BY <2>3 DEF TypeOK, ReadsInOrder
    <3> QED
      BY <2>2, <3>1, BoundGrows
  <2>4. pc = "after" => before <= value'
    BY <2>2 DEF ReadsInOrder, TypeOK
  <2> QED
    BY <1>4, <2>1, <2>3, <2>4 DEF ReadsInOrder, PollAgain, Poll, clientVars, historyVars
<1>5. CASE SettledBefore
  <2>1. TypeOK'
    BY <1>0, <1>5 DEF TypeOK, SettledBefore, Poll
  <2> QED
    BY <1>5, <2>1 DEF ReadsInOrder, SettledBefore, Poll
<1>6. CASE \E n \in 0..PromptBlocks : \E early \in 0..n : Responds(n, early)
  <2> PICK n \in 0..PromptBlocks : \E early \in 0..n : Responds(n, early)
    BY <1>6
  <2> PICK early \in 0..n : Responds(n, early)
    OBVIOUS
  <2>1. TypeOK'
    BY <1>0 DEF TypeOK, Responds, historyVars
  <2>2. counter' \in Nat /\ counter <= counter' /\ reported' = reported
    BY DEF TypeOK, Responds, historyVars
  <2>4. reported <= counter' * BlockSize
    BY <2>2, BoundGrows DEF TypeOK, ReadsInOrder
  <2>3. before' <= value'
    BY DEF TypeOK, Responds
  <2> QED
    BY <2>1, <2>2, <2>3, <2>4 DEF ReadsInOrder, Responds, historyVars
<1>7. CASE Raises
  <2>1. TypeOK'
    BY <1>0, <1>7 DEF TypeOK, Raises, historyVars
  <2> QED
    BY <1>7, <2>1 DEF ReadsInOrder, Raises, historyVars
<1> QED
  BY <1>1, <1>2, <1>3, <1>4, <1>5, <1>6, <1>7 DEF Next

\* A credited block moves from what is owed to the counter, and a response adds
\* its reuse to the two together.
LEMMA AccountsNext ==
    ASSUME MInv, Next
    PROVE  Accounts'
<1> USE DEF MInv, TypeOK, Accounts
<1>1. CASE Credit
  BY <1>1 DEF Credit, clientVars, historyVars
<1>2. CASE GenerateStep
  BY <1>2 DEF GenerateStep, FirstRead, historyVars
<1>3. CASE CompleteText
  BY <1>3 DEF CompleteText, historyVars
<1>4. CASE PollAgain
  BY <1>4 DEF PollAgain, Poll, clientVars, historyVars
<1>5. CASE SettledBefore
  BY <1>5 DEF SettledBefore, Poll
<1>6. CASE \E n \in 0..PromptBlocks : \E early \in 0..n : Responds(n, early)
  <2> PICK n \in 0..PromptBlocks : \E early \in 0..n : Responds(n, early)
    BY <1>6
  <2> PICK early \in 0..n : Responds(n, early)
    OBVIOUS
  <2> QED
    BY DEF Responds, historyVars
<1>7. CASE Raises
  BY <1>7 DEF Raises, historyVars
<1>8. CASE SettledAfter
  BY <1>8 DEF SettledAfter, Poll
<1> QED
  BY <1>1, <1>2, <1>3, <1>4, <1>5, <1>6, <1>7, <1>8 DEF Next

\* The step's report is the difference of its two reads: added to what was
\* reported up to the first it stays below the second, and with the accounts
\* it is what the request reused, and what was carried over, less what is left.
LEMMA ReportNext ==
    ASSUME MInv, SettledAfter
    PROVE  TypeOK' /\ ReadsInOrder' /\ WrongByWhatIsOwed'
<1> USE MeteringAssumption DEF MInv
<1>0. credited' \in BOOLEAN /\ steady' \in BOOLEAN
  BY FlagTypes DEF Next
<1>1. value \in Nat /\ before \in Nat /\ before <= value /\ value <= counter /\ counter \in Nat
  BY DEF SettledAfter, TypeOK, ReadsInOrder
<1>2. CASE UNCHANGED <<result, reported>>
  <2>1. TypeOK'
    BY <1>0, <1>2 DEF TypeOK, SettledAfter, Poll
  <2>2. ReadsInOrder'
    BY <1>2 DEF ReadsInOrder, SettledAfter, Poll
  <2>3. WrongByWhatIsOwed'
    BY <1>2 DEF WrongByWhatIsOwed
  <2> QED
    BY <2>1, <2>2, <2>3
<1>3. CASE /\ call = "generate_step"
           /\ \E extra \in 1..BlockSize :
                  result' = StepResult(reused * BlockSize + extra, value)
           /\ reported' = reported + result'.cached
  <2> PICK extra \in 1..BlockSize : result' = StepResult(reused * BlockSize + extra, value)
    BY <1>3
  <2>1. /\ result'.cached = (value - before) * BlockSize
        /\ result'.reused = reused /\ result'.carried = carried
        /\ result'.left = counter + owed - value
    BY Zenon DEF StepResult
  <2>2. /\ (value - before) * BlockSize \in Nat
        /\ before * BlockSize + (value - before) * BlockSize = value * BlockSize
    BY <1>1, BlocksBetween
  <2>3. reported' = reported + (value - before) * BlockSize
    BY <1>3, <2>1
  <2>4. reported \in Nat /\ reported <= before * BlockSize
    BY <1>3 DEF TypeOK, ReadsInOrder, SettledAfter
  <2>5. reported' \in Nat /\ reported' <= value * BlockSize
    <3>1. before * BlockSize \in Int
      BY <1>1
    <3> QED
      BY <2>2, <2>3, <2>4, <3>1
  <2>6. reported' <= counter * BlockSize
    <3>1. value * BlockSize <= counter * BlockSize
      BY <1>1, MoreBlocks
    <3>2. value * BlockSize \in Int /\ counter * BlockSize \in Int
      BY <1>1
    <3> QED
      BY <2>5, <3>1, <3>2
  <2>7. TypeOK'
    BY <1>0, <2>5 DEF TypeOK, SettledAfter, Poll
  <2>8. ReadsInOrder'
    BY <2>6 DEF ReadsInOrder, SettledAfter, Poll
  <2>9. reused + carried - (counter + owed - value) = value - before
    BY <1>1, <1>3 DEF TypeOK, Accounts, SettledAfter
  <2>10. WrongByWhatIsOwed'
    BY <2>1, <2>9, Zenon DEF WrongByWhatIsOwed
  <2> QED
    BY <2>7, <2>8, <2>10
<1> QED
  BY <1>2, <1>3 DEF SettledAfter

\* Every step keeps the invariant.
LEMMA MInvNext == MInv /\ [Next]_vars => MInv'
<1>1. ASSUME MInv, SettledAfter PROVE MInv'
  BY <1>1, ReportNext, AccountsNext DEF MInv, Next
<1>2. ASSUME MInv, Next, ~SettledAfter PROVE MInv'
  <2>1. UNCHANGED result
    BY <1>2 DEF Next, Credit, GenerateStep, CompleteText, PollAgain, SettledBefore, Responds,
                Raises, clientVars
  <2>2. WrongByWhatIsOwed'
    BY <1>2, <2>1 DEF MInv, WrongByWhatIsOwed
  <2> QED
    BY <1>2, <2>2, ReadsNext, AccountsNext DEF MInv
<1>3. ASSUME MInv, UNCHANGED vars PROVE MInv'
  <2> USE <1>3 DEF MInv, vars, clientVars, historyVars
  <2>1. credited' \in BOOLEAN /\ steady' \in BOOLEAN
    BY Zenon DEF TypeOK
  <2>2. TypeOK'
    BY <2>1 DEF TypeOK
  <2>3. ReadsInOrder' /\ Accounts' /\ WrongByWhatIsOwed'
    BY DEF ReadsInOrder, Accounts, WrongByWhatIsOwed
  <2> QED
    BY <2>2, <2>3
<1> QED
  BY <1>1, <1>2, <1>3

\* The client's reads stay behind the counter, its polls within the timeout and
\* its reports at or above zero, also with a server that credits late or not
\* at all.
THEOREM TypeCorrect == Spec => []TypeOK
<1>1. MInv => TypeOK
  BY DEF MInv
<1> QED
  BY <1>1, MInvInit, MInvNext, PTL DEF Spec

\* engine.py:20-21 and 237: whether the two reads of the poll loop were equal
\* too early, or the timeout came first, a step's cached_tokens is off by
\* exactly what earlier requests were owed at hits_before less what is still
\* owed when it returns, for every server and every settle timeout.
THEOREM ErrorsAreOwed == Spec => []WrongByWhatIsOwed
<1>1. MInv => WrongByWhatIsOwed
  BY DEF MInv
<1> QED
  BY <1>1, MInvInit, MInvNext, PTL DEF Spec

\* And over a whole replay no block is counted twice: the cached tokens of all
\* steps together never exceed what the server has counted.
THEOREM NoHitCountedTwice == Spec => []NothingCountedTwice
<1>1. MInv => NothingCountedTwice
  BY DEF MInv, ReadsInOrder, NothingCountedTwice
<1> QED
  BY <1>1, MInvInit, MInvNext, PTL DEF Spec
-----------------------------------------------------------------------------
\* An exception of the startup goes through shutdown before it leaves
\* __init__, so on every way out the client waits for the exit first.
Supervised ==
    /\ phase \in {"new", "waiting", "healthy", "ready", "shutting_down", "awaiting_exit",
               "closed", "raised"}
    /\ phase = "new" => proc = "none" /\ ~client
    /\ NoOrphanServer

\* Before the boot there is no server to supervise.
LEMMA SupervisedInit == LifecycleInit => Supervised
<1> QED
  BY DEF LifecycleInit, Supervised, NoOrphanServer, Done

\* The server, its log thread and the clock never bring a process back.
LEMMA SurroundingsSupervised ==
    ASSUME Supervised,
           ServerLogs \/ ServerHealthy \/ ServerExits \/ DrainLog \/ DeadlinePasses
    PROVE  Supervised'
<1> USE DEF Supervised, NoOrphanServer, Done, Alive
<1>1. CASE ServerLogs
  BY <1>1 DEF ServerLogs
<1>2. CASE ServerHealthy
  BY <1>2 DEF ServerHealthy
<1>3. CASE ServerExits
  BY <1>3 DEF ServerExits
<1>4. CASE DrainLog
  BY <1>4 DEF DrainLog
<1>5. CASE DeadlinePasses
  BY <1>5 DEF DeadlinePasses
<1> QED
  BY <1>1, <1>2, <1>3, <1>4, <1>5

\* The client leaves only where the process has exited or was killed.
LEMMA ClientSupervised ==
    ASSUME Kind = "engine", Supervised, ClientNext
    PROVE  Supervised'
<1> USE DEF Supervised, NoOrphanServer, Done, Alive
<1>1. CASE Launch
  BY <1>1 DEF Launch
<1>2. CASE ServerExitedDuringStartup
  BY <1>2, Kind = "engine" DEF ServerExitedDuringStartup, Fails
<1>3. CASE NotHealthyInTime
  BY <1>3, Kind = "engine" DEF NotHealthyInTime, Fails
<1>4. CASE HealthCheckSucceeds
  BY <1>4, Kind = "engine" DEF HealthCheckSucceeds
<1>5. CASE CapacityKnown
  BY <1>5 DEF CapacityKnown
<1>6. CASE CapacityNeverLogged
  BY <1>6, Kind = "engine" DEF CapacityNeverLogged, Fails
<1>7. CASE Interrupted
  BY <1>7, Kind = "engine" DEF Interrupted, Fails
<1>8. CASE BodyEnds
  BY <1>8 DEF BodyEnds
<1>9. CASE Terminate
  BY <1>9 DEF Terminate
<1>10. CASE ExitObserved
  BY <1>10 DEF ExitObserved, Closes
<1>11. CASE KillAfterTimeout
  BY <1>11 DEF KillAfterTimeout, Closes
<1> QED
  BY <1>1, <1>2, <1>3, <1>4, <1>5, <1>6, <1>7, <1>8, <1>9, <1>10, <1>11 DEF ClientNext

\* engine.py:155-163: once the caller has its exception or has left the with
\* statement, the server is gone and the client closed, in whatever order the
\* startup failed, the server died and the interrupt came.
THEOREM NoServerOutlivesItsEngine ==
    ASSUME Kind = "engine"
    PROVE  LifecycleSpec => []NoOrphanServer
<1>1. Supervised /\ [LifecycleNext]_lifecycleVars => Supervised'
  <2>1. ASSUME Supervised, LifecycleNext PROVE Supervised'
    BY <2>1, Kind = "engine", ClientSupervised, SurroundingsSupervised DEF LifecycleNext
  <2>2. ASSUME Supervised, UNCHANGED lifecycleVars PROVE Supervised'
    BY <2>2 DEF lifecycleVars, Supervised, NoOrphanServer, Done, Alive
  <2> QED
    BY <2>1, <2>2
<1>2. Supervised => NoOrphanServer
  BY DEF Supervised
<1> QED
  BY <1>1, <1>2, SupervisedInit, PTL DEF LifecycleSpec
=============================================================================
