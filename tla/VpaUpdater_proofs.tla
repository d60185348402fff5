------------------------- MODULE VpaUpdater_proofs -------------------------
(***************************************************************************)
(* Proofs about the updater's main for every interval, every bound on the  *)
(* startup and every bound on a run of RunOnce: the type invariant, and    *)
(* the health check passing from startup on when the startup and a run    *)
(* together take at most four intervals.                                   *)
(***************************************************************************)
EXTENDS VpaUpdater, TLAPS

\* The startup and a run of RunOnce fit the health timeout with the
\* ticker's period.
RunsFitHealthTimeout == MaxStartup + MaxRunOnce <= 4 * UpdaterInterval

(***************************************************************************)
(* The inductive invariant.  During startup no tick exists and the last    *)
(* activity, the creation of the health check, is at most MaxStartup old.  *)
(* While a run is in progress the last activity is at most the startup and *)
(* one interval older than the run: the run started on a tick that came at *)
(* most an interval after the previous activity or the ticker's start.     *)
(* While the loop waits with an empty channel, the last activity is no     *)
(* older than the startup plus the ticker's phase; with a tick waiting, no *)
(* older than the startup plus an interval.  The startup counts only       *)
(* before the first activity, but the bound holds after it as well.        *)
(***************************************************************************)
UInv ==
    /\ TypeOK
    /\ state = "start" => /\ ~running /\ ~tickReady /\ phase = 0
                         /\ sinceActivity <= MaxStartup
    /\ running => /\ state = "loop"
                 /\ sinceActivity <= MaxStartup + UpdaterInterval + runAge
    /\ state = "loop" /\ ~running /\ ~tickReady
          => sinceActivity <= MaxStartup + phase
    /\ state = "loop" /\ ~running /\ tickReady
          => sinceActivity <= MaxStartup + UpdaterInterval

\* The interval is a positive number and the bound on a run a natural one.
LEMMA ConstantsNat ==
    /\ UpdaterInterval \in Nat /\ UpdaterInterval >= 1
    /\ MaxRunOnce \in Nat /\ MaxStartup \in Nat
BY UpdaterConstantsAssumption

LEMMA InitUInv == Init => UInv
<1> SUFFICES ASSUME Init PROVE UInv
  OBVIOUS
<1>1. /\ state = "start" /\ phase = 0 /\ runAge = 0 /\ sinceActivity = 0
      /\ tickReady = FALSE /\ running = FALSE
  BY Zenon DEF Init
<1>2. tickReady \in BOOLEAN /\ running \in BOOLEAN
  BY <1>1, Zenon
<1>3. QED
  BY <1>1, <1>2, ConstantsNat DEF UInv, TypeOK, HealthTimeout

\* Every step keeps UInv.
LEMMA NextUInv == UInv /\ [Next]_vars => UInv'
<1> SUFFICES ASSUME UInv, [Next]_vars PROVE UInv'
  OBVIOUS
<1>0. tickReady \in BOOLEAN /\ running \in BOOLEAN
  BY DEF UInv, TypeOK
<1>1. CASE Start
  <2>1. /\ state = "start" /\ state' \in {"loop", "exited"}
        /\ UNCHANGED <<phase, tickReady, running, runAge, sinceActivity>>
    BY <1>1, Zenon DEF Start
  <2>2. QED
    BY <1>0, <2>1, ConstantsNat DEF UInv, TypeOK, HealthTimeout
<1>2. CASE Receive
  <2>1. /\ state = "loop" /\ ~running /\ tickReady
        /\ tickReady' = FALSE /\ running' = TRUE /\ runAge' = 0
        /\ UNCHANGED <<state, phase, sinceActivity>>
    BY <1>2, Zenon DEF Receive
  <2>2. tickReady' \in BOOLEAN /\ running' \in BOOLEAN
    BY <2>1, Zenon
  <2>3. QED
    BY <1>0, <2>1, <2>2, ConstantsNat DEF UInv, TypeOK, HealthTimeout
<1>3. CASE Finish
  <2>1. /\ running /\ running' = FALSE /\ sinceActivity' = 0
        /\ UNCHANGED <<state, phase, tickReady, runAge>>
    BY <1>3, Zenon DEF Finish
  <2>2. running' \in BOOLEAN
    BY <2>1, Zenon
  <2>3. QED
    BY <1>0, <2>1, <2>2, ConstantsNat DEF UInv, TypeOK, HealthTimeout
<1>4. CASE Tick
  <2>1. /\ state = "loop" /\ state' = "loop" /\ running' = running
        /\ ~(running /\ runAge = MaxRunOnce)
        /\ ~(~running /\ tickReady)
        /\ phase' = IF phase + 1 = UpdaterInterval THEN 0 ELSE phase + 1
        /\ runAge' = IF running THEN runAge + 1 ELSE runAge
        /\ sinceActivity' = IF sinceActivity <= HealthTimeout
                            THEN sinceActivity + 1 ELSE sinceActivity
    BY <1>4, Zenon DEF Tick
  <2>2. tickReady' = (tickReady \/ phase' = 0)
    BY <1>4, Zenon DEF Tick
  <2>3. tickReady' \in BOOLEAN /\ running' \in BOOLEAN
    BY <1>0, <2>1, <2>2, Zenon
  <2>4. TypeOK'
    BY <1>0, <2>1, <2>2, <2>3, ConstantsNat DEF UInv, TypeOK, HealthTimeout
  <2>5. (running => /\ state = "loop"
                    /\ sinceActivity <= MaxStartup + UpdaterInterval + runAge)'
    BY <2>1, ConstantsNat DEF UInv, TypeOK, HealthTimeout
  <2>6. (state = "loop" /\ ~running /\ ~tickReady
            => sinceActivity <= MaxStartup + phase)'
    <3>1. CASE ~running' /\ ~tickReady'
      <4>1. ~tickReady /\ phase' # 0
        BY <2>2, <3>1
      <4>2. QED
        BY <4>1, <2>1, <1>0, ConstantsNat DEF UInv, TypeOK, HealthTimeout
    <3>2. QED
      BY <3>1
  <2>7. (state = "loop" /\ ~running /\ tickReady
            => sinceActivity <= MaxStartup + UpdaterInterval)'
    <3>1. CASE ~running' /\ tickReady'
      <4>1. ~tickReady
        BY <1>0, <2>1, <3>1
      <4>2. QED
        BY <4>1, <2>1, <1>0, <3>1, ConstantsNat
           DEF UInv, TypeOK, HealthTimeout
    <3>2. QED
      BY <3>1
  <2>8. (state = "start" => /\ ~running /\ ~tickReady /\ phase = 0
                            /\ sinceActivity <= MaxStartup)'
    BY <2>1
  <2>9. QED
    BY <2>4, <2>5, <2>6, <2>7, <2>8 DEF UInv
<1>5. CASE Exited
  BY <1>5 DEF Exited, vars, UInv, TypeOK, HealthTimeout
<1>6. CASE UNCHANGED vars
  BY <1>6 DEF vars, UInv, TypeOK, HealthTimeout
<1>7. CASE Startup
  <2>1. /\ state = "start" /\ sinceActivity < MaxStartup
        /\ sinceActivity' = sinceActivity + 1
        /\ UNCHANGED <<state, phase, tickReady, running, runAge>>
    BY <1>7, Zenon DEF Startup
  <2>2. QED
    BY <1>0, <2>1, ConstantsNat DEF UInv, TypeOK, HealthTimeout
<1>8. QED
  BY <1>1, <1>2, <1>3, <1>4, <1>5, <1>6, <1>7 DEF Next

\* The bound of UInv on the last activity is within the health timeout
\* when the startup and runs fit it, in every state of the process but the
\* exited one.
LEMMA HealthBound ==
    ASSUME RunsFitHealthTimeout,
           NEW s \in Nat, NEW ra \in 0..MaxRunOnce,
           NEW ph \in 0..(UpdaterInterval - 1), NEW rn \in BOOLEAN,
           NEW tr \in BOOLEAN, NEW st \in {"start", "loop"},
           st = "start" => s <= MaxStartup,
           rn => s <= MaxStartup + UpdaterInterval + ra,
           st = "loop" /\ ~rn /\ ~tr => s <= MaxStartup + ph,
           st = "loop" /\ ~rn /\ tr => s <= MaxStartup + UpdaterInterval
    PROVE  s <= HealthTimeout
BY ConstantsNat DEF RunsFitHealthTimeout, HealthTimeout

\* UInv gives the health check's bound when the startup and runs fit the
\* timeout.
LEMMA UInvHealthy ==
    ASSUME RunsFitHealthTimeout
    PROVE  UInv => HealthCheckPasses
<1> SUFFICES ASSUME UInv, state # "exited" PROVE sinceActivity <= HealthTimeout
  BY DEF HealthCheckPasses
<1>1. sinceActivity \in Nat /\ state \in {"start", "loop"}
  BY ConstantsNat DEF UInv, TypeOK, HealthTimeout
<1>2. QED
  BY <1>1, HealthBound DEF UInv, TypeOK

\* The ticker loop keeps its variables within their types.
THEOREM UpdaterTypeCorrect == Spec => []TypeOK
<1>1. UInv => TypeOK
  BY DEF UInv
<1>2. QED
  BY InitUInv, NextUInv, <1>1, PTL DEF Spec

\* When the startup (metrics.Initialize to time.Tick) and a run of RunOnce
\* together take at most four intervals, the health check never fails
\* before the process exits: the startup, the ticker's first period and a
\* maximal run, or a period and a run between two activities, fit the
\* five-interval timeout of main.go:52.
THEOREM HealthCheckAlwaysPasses ==
    ASSUME RunsFitHealthTimeout
    PROVE  Spec => []HealthCheckPasses
<1>1. UInv => HealthCheckPasses
  BY UInvHealthy
<1>2. QED
  BY InitUInv, NextUInv, <1>1, PTL DEF Spec

=============================================================================
