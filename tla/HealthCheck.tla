----------------------------- MODULE HealthCheck -----------------------------
(***************************************************************************)
(* HealthCheckActor (internal/strategy/health_check_strategy.go): asks the *)
(* node for its info on every tick and raises an alert when it does not    *)
(* answer maxFailures times in a row or its height has not grown for       *)
(* HeightStagnationTimeout; both kinds of alert share one cooldown.        *)
(*                                                                         *)
(* A tick is handled whenever the mailbox gets to it, so the time between  *)
(* two checks is arbitrary.  A check takes one instant.                    *)
(***************************************************************************)
EXTENDS Integers, Sequences

CONSTANTS
  MaxFailures,            \* cfg.HealthCheck.MaxFailures
  AlertCooldown,          \* cfg.HealthCheck.AlertCooldown
  HeightStagnationLimit,  \* HeightStagnationTimeout
  NodeHeights,            \* heights the node may report
  MaxActorRestarts,       \* actor.WithMaxRestarts, strategy_manager.go:279
  RestartDelay,           \* actor.WithRestartDelay
  MaxClock, MaxChecks     \* bounds: the time, the checks of one actor

ASSUME HealthAssumption ==
  /\ MaxFailures \in Nat \ {0}
  /\ AlertCooldown \in Nat /\ HeightStagnationLimit \in Nat \ {0}
  /\ NodeHeights \subseteq Nat
  /\ MaxActorRestarts \in Nat /\ RestartDelay \in Nat
  /\ MaxClock \in Nat /\ MaxChecks \in Nat

VARIABLES
  clock,                 \* the time of the last check
  alive,                 \* the engine still runs the actor
  actorRestarts,
  consecutiveFailures,
  isHealthy,             \* currentStatus.IsHealthy
  lastAlertTime,
  lastObservedHeight, lastHeightUpdateTime,
  checks,                \* history: the answers this actor has seen
  alerts                 \* history: the alerts this actor has raised

vars == <<clock, alive, actorRestarts, consecutiveFailures, isHealthy,
          lastAlertTime, lastObservedHeight, lastHeightUpdateTime, checks, alerts>>

(* time.Time{}: longer ago than any cooldown.                              *)
LongAgo == -(AlertCooldown + 1)

Answered(t, h) == [time |-> t, ok |-> TRUE, height |-> h]
Failed(t) == [time |-> t, ok |-> FALSE, height |-> 0]

-------------------------------------------------------------------------------
Init ==
  /\ clock = 0
  /\ alive = TRUE /\ actorRestarts = 0
  /\ consecutiveFailures = 0 /\ isHealthy = TRUE
  /\ lastAlertTime = LongAgo
  /\ lastObservedHeight = 0 /\ lastHeightUpdateTime = 0
  /\ checks = <<>> /\ alerts = <<>>

(* The cooldown is counted from the attempt: an alert the webhook refuses  *)
(* is logged and not repeated before the cooldown is over.                 *)
RaiseAlways(kind) ==  \* mutant: no cooldown
  /\ lastAlertTime' = clock'
  /\ alerts' = Append(alerts, [time |-> clock', kind |-> kind, check |-> Len(checks')])
Raise(kind) ==
  IF clock' - lastAlertTime > AlertCooldown
  THEN /\ lastAlertTime' = clock'
       /\ alerts' = Append(alerts, [time |-> clock', kind |-> kind, check |-> Len(checks')])
  ELSE UNCHANGED <<lastAlertTime, alerts>>
Quiet == UNCHANGED <<lastAlertTime, alerts>>

(* Time passes until the next tick is handled.                             *)
NextCheck(t) ==
  /\ alive
  /\ Len(checks) < MaxChecks
  /\ clock' = t
  /\ UNCHANGED <<alive, actorRestarts>>

(* GetNodeInfo fails or does not answer in time.                           *)
CheckFails ==
  /\ \E t \in clock..MaxClock : NextCheck(t)
  /\ checks' = Append(checks, Failed(clock'))
  /\ consecutiveFailures' = consecutiveFailures + 1
  /\ isHealthy' = FALSE
  /\ IF consecutiveFailures' >= MaxFailures THEN Raise("failure") ELSE Quiet
  /\ UNCHANGED <<lastObservedHeight, lastHeightUpdateTime>>

GrewOrEqual(h) == lastObservedHeight = 0 \/ h >= lastObservedHeight  \* mutant
Grew(h) == lastObservedHeight = 0 \/ h > lastObservedHeight

NoReset == UNCHANGED consecutiveFailures  \* mutant: failures are never forgotten
ResetFailures == consecutiveFailures' = 0

CheckSucceeds ==
  \E h \in NodeHeights :
    /\ \E t \in clock..MaxClock : NextCheck(t)
    /\ checks' = Append(checks, Answered(clock', h))
    /\ ResetFailures
    /\ \/ /\ Grew(h)
          /\ lastObservedHeight' = h /\ lastHeightUpdateTime' = clock'
          /\ isHealthy' = TRUE
          /\ Quiet
       \/ /\ ~Grew(h)
          /\ UNCHANGED <<lastObservedHeight, lastHeightUpdateTime>>
          /\ isHealthy' = (clock' - lastHeightUpdateTime < HeightStagnationLimit)
          /\ IF isHealthy' THEN Quiet ELSE Raise("stagnation")

MayRestartOnceMore == actorRestarts <= MaxActorRestarts  \* mutant
MayRestart == actorRestarts < MaxActorRestarts

(* The node answers without a height: the handler dereferences nil.  The   *)
(* engine replaces the actor by a new one, which knows nothing of the old  *)
(* one's timers, and gives up after MaxActorRestarts (the manager does not *)
(* restart a health check).                                                *)
CheckPanics ==
  /\ alive
  /\ IF MayRestart
     THEN /\ actorRestarts' = actorRestarts + 1
          /\ clock' \in (clock + RestartDelay)..MaxClock
          /\ UNCHANGED alive
          /\ consecutiveFailures' = 0 /\ isHealthy' = TRUE
          /\ lastAlertTime' = LongAgo
          /\ lastObservedHeight' = 0 /\ lastHeightUpdateTime' = clock'
          /\ checks' = <<>> /\ alerts' = <<>>
     ELSE /\ alive' = FALSE
          /\ consecutiveFailures' = 0
          /\ UNCHANGED <<clock, actorRestarts, isHealthy, lastAlertTime,
                         lastObservedHeight, lastHeightUpdateTime, checks, alerts>>

Next == CheckFails \/ CheckSucceeds \/ CheckPanics

Spec == Init /\ [][Next]_vars

-------------------------------------------------------------------------------
(* What the history of answers says, without the actor's timers.           *)

(* The i-th answer shows a height above all the earlier ones.  Height 0 is *)
(* the code's "none observed yet".                                         *)
Progress(i) ==
  /\ checks[i].ok
  /\ \A j \in 1..(i - 1) :
       checks[j].ok => checks[j].height = 0 \/ checks[j].height < checks[i].height

Stagnant(i) ==
  /\ checks[i].ok
  /\ \A j \in 1..i : Progress(j) =>
       checks[i].time - checks[j].time >= HeightStagnationLimit

FailureStreak(i) ==
  i >= MaxFailures /\ \A j \in (i - MaxFailures + 1)..i : ~checks[j].ok

(* Properties.                                                             *)

Check == [time : Int, ok : BOOLEAN, height : Nat]
Alert == [time : Int, kind : {"failure", "stagnation"}, check : Nat]

TypeOK ==
  /\ clock \in Nat /\ alive \in BOOLEAN
  /\ actorRestarts \in 0..MaxActorRestarts
  /\ consecutiveFailures \in Nat /\ isHealthy \in BOOLEAN
  /\ lastAlertTime \in Int
  /\ lastObservedHeight \in Nat /\ lastHeightUpdateTime \in Nat
  /\ checks \in Seq(Check) /\ alerts \in Seq(Alert)

(* No false alarm: an alert is raised only at a check at which the answers *)
(* seen so far are critical, and for that reason.                          *)
AlertsJustified ==
  \A n \in 1..Len(alerts) :
    LET i == alerts[n].check
    IN /\ i \in 1..Len(checks)
       /\ alerts[n].time = checks[i].time
       /\ IF alerts[n].kind = "failure" THEN FailureStreak(i) ELSE Stagnant(i)

(* No silence: at every critical answer an alert of one of the two kinds   *)
(* is raised or is at most a cooldown old; a lower height, a failed answer *)
(* or a first height in between does not restart the stagnation timer.     *)
CriticalAlerted ==
  \A i \in 1..Len(checks) :
    FailureStreak(i) \/ Stagnant(i) =>
      \E n \in 1..Len(alerts) :
        /\ alerts[n].check <= i
        /\ checks[i].time - alerts[n].time <= AlertCooldown

(* The two kinds together are raised at most once per cooldown.            *)
AlertsSpaced ==
  \A n, m \in 1..Len(alerts) :
    n < m => alerts[m].time - alerts[n].time > AlertCooldown
==============================================================================
