------------------------- MODULE TrajectoryRecorder -------------------------
(***************************************************************************)
(* experiments/record_trajectories.py: the one-time recording of the       *)
(* trajectories, one JSONL file per seed, by a batch that may be killed    *)
(* and started again.  A history unit is an assistant message with         *)
(* everything that answers it, and is known by the tokens of the history   *)
(* up to its end; a file is the number of its lines.  The server is        *)
(* anybody: it knows the real size of a request, the client learns it from *)
(* the refusal.                                                            *)
(***************************************************************************)
EXTENDS Integers, Sequences
LOCAL INSTANCE SequencesExt

CONSTANTS
    Trajectories,   \* the files of the batch, in order of their seeds
    UnitSizes,      \* bound: sizes of a unit
    AnchorTokens,   \* the anchor, the tool schemas and max_tokens
    Window,         \* --max-model-len
    MinSteps,       \* --min-steps
    MaxSteps,       \* --max-steps
    MaxStarts       \* bound: how often the script is started

SmokeTest == "_smoke_test"

ASSUME RecorderAssumption ==
    /\ Trajectories \in Seq(ToSet(Trajectories)) /\ SmokeTest \notin ToSet(Trajectories)
    /\ \A i, j \in DOMAIN Trajectories : Trajectories[i] = Trajectories[j] => i = j
    /\ UnitSizes \subseteq Nat /\ AnchorTokens \in Nat /\ Window \in Nat
    /\ MinSteps \in Nat /\ MaxSteps \in Nat /\ MaxStarts \in Nat

VARIABLES
    dir,        \* trajectories/
    recorder,   \* "off" | "batch" (between two files) | "recording"
    smoke,      \* --smoke-test
    job,        \* index of the batch's next file
    units,      \* history in units, each by the history's tokens up to it
    keepN,      \* keep_n
    step,
    written,    \* lines written to the open file
    starts,
    lastOldest, \* history: first unit of the last request that was answered
    finished    \* history: files whose recording ran to its end

recorderVars == <<dir, recorder, smoke, job, units, keepN, step, written, starts,
                  lastOldest, finished>>

EffectivelyAll == 10000
NoFile == [exists |-> FALSE, lines |-> 0, torn |-> FALSE]
File(n, torn) == [exists |-> TRUE, lines |-> n, torn |-> torn]

Least(a, b) == IF a < b THEN a ELSE b
Greatest(a, b) == IF a > b THEN a ELSE b

Path == IF smoke THEN SmokeTest ELSE Trajectories[job]
StepBounds == IF smoke THEN <<3, 5>> ELSE <<MinSteps, MaxSteps>>
-----------------------------------------------------------------------------
RecorderInit ==
    /\ dir = [f \in ToSet(Trajectories) \cup {SmokeTest} |-> NoFile]
    /\ recorder = "off" /\ smoke = FALSE /\ job = 1
    /\ units = <<>> /\ keepN = EffectivelyAll /\ step = 0 /\ written = 0
    /\ starts = 0 /\ lastOldest = 1 /\ finished = {}

StartBatch ==
    /\ recorder = "off" /\ starts < MaxStarts
    /\ recorder' = "batch" /\ smoke' \in BOOLEAN /\ job' = 1 /\ starts' = starts + 1
    /\ UNCHANGED <<dir, units, keepN, step, written, lastOldest, finished>>

\* A file that is there counts as recorded.
SkipRecorded ==
    /\ recorder = "batch" /\ ~smoke /\ job <= Len(Trajectories)
    /\ dir[Path].exists
    /\ job' = job + 1
    /\ UNCHANGED <<dir, recorder, smoke, units, keepN, step, written, starts, lastOldest, finished>>

BatchDone ==
    /\ recorder = "batch" /\ ~smoke /\ job > Len(Trajectories)
    /\ recorder' = "off" /\ job' = 1
    /\ UNCHANGED <<dir, smoke, units, keepN, step, written, starts, lastOldest, finished>>

\* The file is truncated and the anchor's two lines are written before the
\* first request.  The smoke test looks at nothing that is there.
OpenFile ==
    /\ recorder = "batch" /\ (smoke \/ job <= Len(Trajectories))
    /\ ~smoke => ~dir[Path].exists
    /\ dir' = [dir EXCEPT ![Path] = File(0, FALSE)]
    /\ recorder' = "recording"
    /\ units' = <<>> /\ keepN' = EffectivelyAll /\ step' = 0 /\ written' = 2 /\ lastOldest' = 1
    /\ finished' = finished \ {Path}
    /\ UNCHANGED <<smoke, job, starts>>

\* The file is closed as it is then, and the batch goes on or the process ends.
Close(file, then) ==
    /\ dir' = [dir EXCEPT ![Path] = file]
    /\ recorder' = then
    /\ units' = <<>> /\ keepN' = EffectivelyAll /\ step' = 0 /\ written' = 0 /\ lastOldest' = 1
    /\ job' = IF then = "off" THEN 1 ELSE job
    /\ smoke' = (smoke /\ then # "off")
    /\ UNCHANGED starts
-----------------------------------------------------------------------------
\* _generate_with_shrink: what is asked for is the anchor and the newest units.
Kept == Least(keepN, Len(units))
Oldest == Len(units) - Kept + 1
UpTo(n) == IF n = 0 THEN 0 ELSE units[n]
Requested == AnchorTokens + (UpTo(Len(units)) - UpTo(Oldest - 1))

\* int(keep_n / (requested / limit)) - 1: where the quotient is whole, the
\* division of floats may come out below it.
Shrunk ==
    LET exact == (Kept * Window) \div Requested
    IN  { Greatest(1, q - 1) : q \in {exact} \cup
            { r \in {exact - 1} : (Kept * Window) % Requested = 0 } }

TooLong ==
    /\ recorder = "recording" /\ Requested > Window /\ Kept > 1
    /\ keepN' \in Shrunk
    /\ UNCHANGED <<dir, recorder, smoke, job, units, step, written, starts, lastOldest, finished>>

\* Faulty: the tool turn is counted as a unit of its own.
Remembered_PerTurn(k) == k + 2

\* The step added one unit.
Remembered(k) == k + 1

\* The request is answered; the answer, and what goes back to the model, is a
\* unit of the given size and some lines of the file.
Answered(size, lines) ==
    /\ recorder = "recording" /\ Requested <= Window
    /\ units' = Append(units, UpTo(Len(units)) + size) /\ keepN' = Remembered(Kept)
    /\ step' = step + 1 /\ written' = written + lines /\ lastOldest' = Oldest
    /\ UNCHANGED <<dir, recorder, smoke, job, starts, finished>>

MoreSteps == step + 1 < StepBounds[2]
Enough == step + 1 >= StepBounds[1]

\* The results of its calls; or none and a nudge; or a submission, its result
\* and the next incident.
StepGoesOn ==
    /\ MoreSteps
    /\ \E size \in UnitSizes : Answered(size, 2) \/ (~Enough /\ Answered(size, 3))

\* The last step: no call or a submission behind --min-steps, or any step at
\* --max-steps.  The smoke test removes its file.
LastStep ==
    /\ recorder = "recording" /\ Requested <= Window
    /\ \E lines \in {1, 2, 3} :
        /\ lines = 1 => Enough
        /\ lines = 2 => Enough \/ ~MoreSteps
        /\ lines = 3 => ~Enough /\ ~MoreSteps
        /\ IF smoke THEN Close(NoFile, "off") ELSE Close(File(written + lines, FALSE), "batch")
    /\ finished' = finished \cup {Path}

\* One unit is too long already: RuntimeError.
SingleUnitTooLong ==
    /\ recorder = "recording" /\ Requested > Window /\ Kept <= 1
    /\ Close(File(written, FALSE), "off")
    /\ UNCHANGED finished

\* The server's errors outlast the retries, the reply is malformed, or the user
\* interrupts: the open file is closed with every line written so far.
Raises ==
    /\ recorder = "recording"
    /\ Close(File(written, FALSE), "off")
    /\ UNCHANGED finished

\* The process dies: what was still buffered is lost, perhaps within a line.
Killed ==
    /\ recorder = "recording"
    /\ \E n \in 0..written, torn \in BOOLEAN :
        /\ torn => n < written
        /\ Close(File(n, torn), "off")
    /\ UNCHANGED finished

RecorderNext ==
    \/ StartBatch \/ SkipRecorded \/ BatchDone \/ OpenFile
    \/ TooLong \/ StepGoesOn \/ LastStep \/ SingleUnitTooLong \/ Raises \/ Killed

RecorderSpec == RecorderInit /\ [][RecorderNext]_recorderVars
-----------------------------------------------------------------------------
\* _generate_with_shrink's docstring calls the remembered keep_n "a safe upper
\* bound to retry from" (record_trajectories.py:261-263): keep_n may grow with
\* the history and shrink with every refusal, but a unit that was once left out
\* is never sent again.
WindowOnlyMovesForward == recorder = "recording" => Oldest >= lastOldest

\* record_trajectories.py:30-31: "Resumable: re-running skips any trajectory file
\* that already exists, so it's safe to interrupt (crash, laptop sleep) and
\* restart."  A batch that got through has recorded every file to its end.
ResumedIsComplete ==
    recorder = "batch" /\ ~smoke /\ job > Len(Trajectories)
              => ToSet(Trajectories) \subseteq finished
=============================================================================
