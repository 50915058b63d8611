-------------------------- MODULE ServerLifecycle --------------------------
(***************************************************************************)
(* Booting, using and shutting down a vLLM server subprocess:              *)
(* serving/engine.py's VLLMEngine, and the LocalVLLMServer that            *)
(* experiments/record_trajectories.py wrote after it.  The client, the     *)
(* thread that drains the server's log, the server and the clock run       *)
(* concurrently.                                                           *)
(***************************************************************************)
EXTENDS Naturals

CONSTANT Kind    \* "engine" (VLLMEngine) or "recorder" (LocalVLLMServer)

ASSUME LifecycleAssumption == Kind \in {"engine", "recorder"}

VARIABLES
    phase,     \* where the client is
    failure,   \* the exception on its way to the caller, or "none"
    proc,      \* the subprocess
    logged,    \* it has written the line with its KV cache size
    capacity,  \* _kv_cache_capacity_tokens is set
    expired,   \* the startup deadline has passed
    client     \* the httpx client is open

lifecycleVars == <<phase, failure, proc, logged, capacity, expired, client>>

Alive == proc \in {"starting", "healthy", "terminating"}

LifecycleInit ==
    /\ phase = "new" /\ failure = "none"
    /\ proc = "none" /\ logged = FALSE /\ capacity = FALSE
    /\ expired = FALSE
    /\ client = FALSE

\* __init__ up to the try: Popen, and the log thread started.  An interrupt
\* between the two statements is not modelled.
Launch ==
    /\ phase = "new"
    /\ phase' = "waiting" /\ proc' = "starting" /\ client' = TRUE
    /\ UNCHANGED <<failure, logged, capacity, expired>>
-----------------------------------------------------------------------------
(* The server, and the clock. *)

ServerLogs ==
    /\ Alive /\ ~logged
    /\ logged' = TRUE
    /\ UNCHANGED <<phase, failure, proc, capacity, expired, client>>

\* vLLM sizes its KV cache, and says so, before it serves.
ServerHealthy ==
    /\ proc = "starting" /\ logged
    /\ proc' = "healthy"
    /\ UNCHANGED <<phase, failure, logged, capacity, expired, client>>

\* At any time: a crash, or the end of a termination.
ServerExits ==
    /\ Alive
    /\ proc' = "exited"
    /\ UNCHANGED <<phase, failure, logged, capacity, expired, client>>

\* The thread reads on as long as the pipe holds lines, the server gone or not.
DrainLog ==
    /\ logged /\ ~capacity
    /\ capacity' = TRUE
    /\ UNCHANGED <<phase, failure, proc, logged, expired, client>>

DeadlinePasses ==
    /\ phase = "waiting" /\ ~expired
    /\ expired' = TRUE
    /\ UNCHANGED <<phase, failure, proc, logged, capacity, client>>
-----------------------------------------------------------------------------
(* The client: _wait_until_ready, then the body of the with statement. *)

\* Faulty: the exception leaves __init__ and the process stays.
Fails_Leaks(why) ==
    /\ failure' = why
    /\ phase' = "raised"
    /\ UNCHANGED <<proc, logged, capacity, expired, client>>

\* An exception during startup.  VLLMEngine.__init__ shuts down first; the
\* recorder's __init__ has no handler, so __exit__ never runs.
Fails(why) ==
    /\ failure' = why
    /\ phase' = IF Kind = "engine" THEN "shutting_down" ELSE "raised"
    /\ UNCHANGED <<proc, logged, capacity, expired, client>>

\* A round begun before the deadline may end after it.
ServerExitedDuringStartup ==
    /\ phase = "waiting"
    /\ proc = "exited"
    /\ Fails("server exited")

\* Faulty: the deadline is never looked at.
NotHealthyInTime_Never == FALSE

NotHealthyInTime ==
    /\ phase = "waiting" /\ expired
    /\ Fails("not healthy in time")

\* The process is alive, then the health request succeeds.
HealthCheckSucceeds ==
    /\ phase = "waiting"
    /\ proc = "healthy"
    /\ phase' = IF Kind = "engine" THEN "healthy" ELSE "ready"
    /\ UNCHANGED <<failure, proc, logged, capacity, expired, client>>

CapacityKnown ==
    /\ phase = "healthy" /\ capacity
    /\ phase' = "ready"
    /\ UNCHANGED <<failure, proc, logged, capacity, expired, client>>

\* Not known a second later either.
CapacityNeverLogged ==
    /\ phase = "healthy" /\ ~capacity
    /\ Fails("capacity never logged")

\* KeyboardInterrupt and the like, anywhere in startup (BaseException).
Interrupted ==
    /\ phase \in {"waiting", "healthy"}
    /\ Fails("interrupted")

\* The with body ends, by itself or with an exception (a dead server's
\* connection refused, for one): __exit__ calls shutdown.
BodyEnds ==
    /\ phase = "ready"
    /\ phase' = "shutting_down"
    /\ \/ failure' = failure
       \/ failure' = "body raised"
    /\ UNCHANGED <<proc, logged, capacity, expired, client>>

Terminate ==
    /\ phase = "shutting_down"
    /\ phase' = "awaiting_exit"
    /\ proc' = IF Alive THEN "terminating" ELSE proc
    /\ UNCHANGED <<failure, logged, capacity, expired, client>>

Closes ==
    /\ client' = FALSE
    /\ phase' = IF failure = "none" THEN "closed" ELSE "raised"
    /\ UNCHANGED <<failure, logged, capacity, expired>>

ExitObserved ==
    /\ phase = "awaiting_exit" /\ proc = "exited"
    /\ UNCHANGED proc
    /\ Closes

\* Faulty: the timeout is taken for an exit.
KillAfterTimeout_NoKill ==
    /\ phase = "awaiting_exit" /\ Alive
    /\ UNCHANGED proc
    /\ Closes

\* Faulty: waits for the exit without a timeout.
KillAfterTimeout_WaitsForever == FALSE

\* wait(timeout=...) expired: the server ignores SIGTERM.
KillAfterTimeout ==
    /\ phase = "awaiting_exit" /\ Alive
    /\ proc' = "exited"
    /\ Closes

ClientNext ==
    \/ Launch \/ ServerExitedDuringStartup \/ NotHealthyInTime \/ HealthCheckSucceeds
    \/ CapacityKnown \/ CapacityNeverLogged \/ Interrupted \/ BodyEnds
    \/ Terminate \/ ExitObserved \/ KillAfterTimeout

LifecycleNext ==
    \/ ClientNext \/ ServerLogs \/ ServerHealthy \/ ServerExits
    \/ DrainLog \/ DeadlinePasses

\* The client goes on whenever it can (its waits are bounded: 2 s health
\* requests, the with body aside), and the deadline comes.  Nothing is assumed
\* of the server: it may hang in any state.
Fairness ==
    /\ WF_lifecycleVars(DeadlinePasses)
    /\ WF_lifecycleVars(Launch) /\ WF_lifecycleVars(NotHealthyInTime)
    /\ WF_lifecycleVars(CapacityKnown \/ CapacityNeverLogged)
    /\ WF_lifecycleVars(Terminate) /\ WF_lifecycleVars(ExitObserved \/ KillAfterTimeout)

LifecycleSpec == LifecycleInit /\ [][LifecycleNext]_lifecycleVars /\ Fairness
-----------------------------------------------------------------------------
Done == phase \in {"closed", "raised"}

\* engine.py:155-163: once the caller has its exception, or has left the with
\* statement, no server process outlives it and no client stays open, however
\* startup failed and whatever the server did meanwhile.
NoOrphanServer == Done => ~Alive /\ ~client

\* _wait_until_ready (engine.py:176-199) returns or raises, although the server
\* may neither answer nor exit nor log: the caller gets a ready server or an
\* exception.
BootEnds == phase = "waiting" ~> (phase = "ready" \/ Done)

\* shutdown (engine.py:373-379) ends even if the server ignores SIGTERM.
ShutdownEnds == phase = "shutting_down" ~> Done
=============================================================================
