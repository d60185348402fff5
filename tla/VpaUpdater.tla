----------------------------- MODULE VpaUpdater -----------------------------
(***************************************************************************)
(* The VPA updater's main (updater/main.go): after the health check and    *)
(* the updater are created, a time.Tick channel drives a loop that calls   *)
(* updater.RunOnce and then healthCheck.UpdateLastActivity.  The health    *)
(* check fails when the last activity is older than five updater           *)
(* intervals; NewUpdater failing ends the process (glog.Fatalf).           *)
(*                                                                         *)
(* The health check is served from metrics.Initialize on, while main still *)
(* builds the clients and the updater (main.go:53-60); that startup takes  *)
(* at most MaxStartup units.  Then time.Tick starts its period.            *)
(* Time advances in units; the ticker fires every UpdaterInterval units    *)
(* into a channel that holds one tick and drops the ticks that find it     *)
(* full.  RunOnce (updater/logic, not in this repository) takes at most    *)
(* MaxRunOnce units.  The loop receives a ready tick within a unit.        *)
(***************************************************************************)
EXTENDS Naturals

CONSTANTS
    UpdaterInterval,  \* *updaterInterval, in time units
    MaxRunOnce,       \* the longest run of updater.RunOnce, in time units
    MaxStartup        \* the longest time from NewHealthCheck to time.Tick

ASSUME UpdaterConstantsAssumption ==
    /\ UpdaterInterval \in Nat \ {0}
    /\ MaxRunOnce \in Nat
    /\ MaxStartup \in Nat

VARIABLES
    state,          \* "start", "loop" or "exited"
    phase,          \* time since the ticker last fired
    tickReady,      \* the tick channel holds a tick
    running,        \* the loop is inside updater.RunOnce
    runAge,         \* how long the current run has taken
    sinceActivity   \* time since healthCheck's last activity, saturated

vars == <<state, phase, tickReady, running, runAge, sinceActivity>>

\* Mutant: a timeout of four intervals.
HealthTimeoutFour == UpdaterInterval * 4

\* metrics.NewHealthCheck(*updaterInterval*5, true)
HealthTimeout == UpdaterInterval * 5

\* The health check is created with its last activity at start.
Init ==
    /\ state = "start"
    /\ phase = 0
    /\ tickReady = FALSE
    /\ running = FALSE
    /\ runAge = 0
    /\ sinceActivity = 0

\* metrics.Initialize, createKubeClients and NewUpdater take one more unit,
\* with the health check already created and served.
Startup ==
    /\ state = "start"
    /\ sinceActivity < MaxStartup
    /\ sinceActivity' = sinceActivity + 1
    /\ UNCHANGED <<state, phase, tickReady, running, runAge>>

\* NewUpdater: on error glog.Fatalf ends the process; otherwise the ticker
\* starts its first period.
Start ==
    /\ state = "start"
    /\ state' \in {"loop", "exited"}
    /\ UNCHANGED <<phase, tickReady, running, runAge, sinceActivity>>

\* for range ticker: the loop takes the tick and calls updater.RunOnce.
Receive ==
    /\ state = "loop"
    /\ ~running
    /\ tickReady
    /\ tickReady' = FALSE
    /\ running' = TRUE
    /\ runAge' = 0
    /\ UNCHANGED <<state, phase, sinceActivity>>

\* Mutant: the loop does not call healthCheck.UpdateLastActivity.
FinishWithoutActivity ==
    /\ running
    /\ running' = FALSE
    /\ UNCHANGED <<state, phase, tickReady, runAge, sinceActivity>>

\* RunOnce returns and healthCheck.UpdateLastActivity runs.
Finish ==
    /\ running
    /\ running' = FALSE
    /\ sinceActivity' = 0
    /\ UNCHANGED <<state, phase, tickReady, runAge>>

\* Mutant: the ticker's period never restarts.
TickWithoutWrap ==
    /\ state = "loop"
    /\ ~(running /\ runAge = MaxRunOnce)
    /\ ~(~running /\ tickReady)
    /\ phase' = phase + 1
    /\ tickReady' = (tickReady \/ phase' = UpdaterInterval)
    /\ runAge' = IF running THEN runAge + 1 ELSE runAge
    /\ sinceActivity' = IF sinceActivity <= HealthTimeout
                        THEN sinceActivity + 1 ELSE sinceActivity
    /\ UNCHANGED <<state, running>>

\* One unit of time; the ticker fires when its period is over and drops the
\* tick if the channel is full.
Tick ==
    /\ state = "loop"
    /\ ~(running /\ runAge = MaxRunOnce)
    /\ ~(~running /\ tickReady)
    /\ phase' = IF phase + 1 = UpdaterInterval THEN 0 ELSE phase + 1
    /\ tickReady' = (tickReady \/ phase' = 0)
    /\ runAge' = IF running THEN runAge + 1 ELSE runAge
    /\ sinceActivity' = IF sinceActivity <= HealthTimeout
                        THEN sinceActivity + 1 ELSE sinceActivity
    /\ UNCHANGED <<state, running>>

\* The process has exited.
Exited == state = "exited" /\ UNCHANGED vars

Next == Startup \/ Start \/ Receive \/ Finish \/ Tick \/ Exited

Spec == Init /\ [][Next]_vars

-----------------------------------------------------------------------------

TypeOK ==
    /\ state \in {"start", "loop", "exited"}
    /\ phase \in 0..(UpdaterInterval - 1)
    /\ tickReady \in BOOLEAN
    /\ running \in BOOLEAN
    /\ runAge \in 0..MaxRunOnce
    /\ sinceActivity \in 0..(MaxStartup + HealthTimeout + 1)

\* From metrics.Initialize until the process exits, the health check
\* passes: the last activity is at most five updater intervals old, although
\* the startup and a run that overruns the interval delay it (main.go:52
\* against main.go:53-65).
HealthCheckPasses == state # "exited" => sinceActivity <= HealthTimeout
=============================================================================
