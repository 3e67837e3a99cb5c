---------------------------- MODULE HealthProofs ----------------------------
(***************************************************************************)
(* What the health check promises, for every cooldown, limit, number of    *)
(* failures and sequence of answers.                                       *)
(*                                                                         *)
(* The argument: the actor's counters are a summary of the answers it has  *)
(* seen.  consecutiveFailures is the length of the last run of failures,   *)
(* lastObservedHeight the greatest height, lastHeightUpdateTime the time   *)
(* of the last answer that showed progress, lastAlertTime the last alert's *)
(***************************************************************************)
EXTENDS HealthCheck, TLAPS

FailuresCounted ==
  alive =>
    /\ consecutiveFailures <= Len(checks)
    /\ \A j \in (Len(checks) - consecutiveFailures + 1)..Len(checks) : ~checks[j].ok
    /\ consecutiveFailures < Len(checks) => checks[Len(checks) - consecutiveFailures].ok

ChecksPast == \A i \in 1..Len(checks) : checks[i].time <= clock

HeightObserved ==
  /\ \A i \in 1..Len(checks) : checks[i].ok => checks[i].height <= lastObservedHeight
  /\ lastObservedHeight # 0 =>
       \E i \in 1..Len(checks) : checks[i].ok /\ checks[i].height = lastObservedHeight

UpdateTimed ==
  /\ \A i \in 1..Len(checks) : Progress(i) => checks[i].time <= lastHeightUpdateTime
  /\ (\E i \in 1..Len(checks) : checks[i].ok) =>
       \E i \in 1..Len(checks) : Progress(i) /\ checks[i].time = lastHeightUpdateTime

AlertTimed ==
  /\ Len(alerts) = 0 => lastAlertTime = LongAgo
  /\ Len(alerts) # 0 => alerts[Len(alerts)].time = lastAlertTime
  /\ \A n \in 1..Len(alerts) : alerts[n].time <= lastAlertTime
                               /\ alerts[n].check <= Len(checks)

Summary ==
  /\ TypeOK
  /\ FailuresCounted /\ ChecksPast /\ HeightObserved /\ UpdateTimed /\ AlertTimed
  /\ AlertsJustified /\ CriticalAlerted /\ AlertsSpaced

-------------------------------------------------------------------------------
(* One more answer, c, at the end of the history.                          *)

LEMMA OneMore ==
  ASSUME NEW S, NEW s \in Seq(S), NEW c \in S
  PROVE  /\ Append(s, c) \in Seq(S)
         /\ Len(Append(s, c)) = Len(s) + 1 /\ Len(s) \in Nat
         /\ Append(s, c)[Len(s) + 1] = c
         /\ \A i \in 1..Len(s) : Append(s, c)[i] = s[i]
         /\ 1..(Len(s) + 1) = 1..Len(s) \cup {Len(s) + 1}
OBVIOUS

LEMMA EntryFields ==
  ASSUME TypeOK
  PROVE  /\ \A i \in 1..Len(checks) :
              checks[i].time \in Int /\ checks[i].ok \in BOOLEAN /\ checks[i].height \in Nat
         /\ \A n \in 1..Len(alerts) :
              alerts[n].time \in Int /\ alerts[n].check \in Nat
              /\ alerts[n].kind \in {"failure", "stagnation"}
<1>1. \A i \in 1..Len(checks) : checks[i] \in Check
  BY DEF TypeOK
<1>2. \A n \in 1..Len(alerts) : alerts[n] \in Alert
  BY DEF TypeOK
<1> QED BY <1>1, <1>2 DEF Check, Alert

(* What was said of the earlier answers stays true.                        *)
LEMMA EarlierAnswers ==
  ASSUME TypeOK, NEW c \in Check, checks' = Append(checks, c),
         NEW i \in 1..Len(checks)
  PROVE  /\ checks'[i] = checks[i]
         /\ Progress(i)' <=> Progress(i)
         /\ Stagnant(i)' <=> Stagnant(i)
         /\ FailureStreak(i)' <=> FailureStreak(i)
<1>1. /\ Len(checks) \in Nat
      /\ \A j \in 1..Len(checks) : checks'[j] = checks[j]
  BY OneMore DEF TypeOK
<1>2. \A j \in 1..i : Progress(j)' <=> Progress(j)
  BY <1>1 DEF Progress
<1>3. Stagnant(i)' <=> Stagnant(i)
  BY <1>1, <1>2 DEF Stagnant
<1>4. ASSUME i >= MaxFailures
      PROVE  \A j \in (i - MaxFailures + 1)..i : j \in 1..Len(checks)
  BY <1>1, <1>4, HealthAssumption
<1>5. FailureStreak(i)' <=> FailureStreak(i)
  BY <1>1, <1>4 DEF FailureStreak
<1> QED BY <1>1, <1>2, <1>3, <1>5

(* A handler that finds the new answer critical alerts, one that does not  *)
(* stays quiet: the alerts remain right.                                   *)
LEMMA AlertsRight ==
  ASSUME Summary, NEW c \in Check, checks' = Append(checks, c),
         NEW N \in Nat, N = Len(checks), NEW t \in Nat, c.time = t,
         NEW kind \in {"failure", "stagnation"},
         \/ /\ UNCHANGED <<lastAlertTime, alerts>>
            /\ \/ ~(t - lastAlertTime > AlertCooldown)
               \/ ~FailureStreak(N + 1)' /\ ~Stagnant(N + 1)'
         \/ /\ t - lastAlertTime > AlertCooldown /\ lastAlertTime' = t
            /\ alerts' = Append(alerts, [time |-> t, kind |-> kind, check |-> N + 1])
            /\ \/ kind = "failure" /\ FailureStreak(N + 1)'
               \/ kind = "stagnation" /\ Stagnant(N + 1)'
  PROVE  /\ lastAlertTime' \in Int /\ alerts' \in Seq(Alert)
         /\ AlertTimed' /\ AlertsJustified' /\ CriticalAlerted' /\ AlertsSpaced'
<1> DEFINE a == [time |-> t, kind |-> kind, check |-> N + 1]
<1>1. /\ TypeOK /\ AlertTimed /\ AlertsJustified /\ CriticalAlerted /\ AlertsSpaced
      /\ checks \in Seq(Check) /\ alerts \in Seq(Alert)
      /\ lastAlertTime \in Int /\ N \in Nat /\ Len(alerts) \in Nat
      /\ AlertCooldown \in Nat /\ MaxFailures \in Nat
  BY HealthAssumption DEF Summary, TypeOK
<1>2. /\ Len(checks') = N + 1 /\ checks'[N + 1] = c
      /\ \A i \in 1..N : /\ checks'[i] = checks[i]
                         /\ Stagnant(i)' <=> Stagnant(i)
                         /\ FailureStreak(i)' <=> FailureStreak(i)
      /\ \A i \in 1..Len(checks') : i \in 1..N \/ i = N + 1
  BY <1>1, OneMore, EarlierAnswers
<1>3. a \in Alert /\ a.time = t /\ a.kind = kind /\ a.check = N + 1
  BY <1>1, <1>2 DEF Alert
<1> HIDE DEF a
<1>4. CASE alerts' = Append(alerts, a) /\ lastAlertTime' = t
           /\ t - lastAlertTime > AlertCooldown
           /\ \/ kind = "failure" /\ FailureStreak(N + 1)'
              \/ kind = "stagnation" /\ Stagnant(N + 1)'
  <2>1. /\ alerts' \in Seq(Alert) /\ Len(alerts') = Len(alerts) + 1
        /\ alerts'[Len(alerts) + 1] = a
        /\ \A n \in 1..Len(alerts) : alerts'[n] = alerts[n]
        /\ \A n \in 1..Len(alerts') : n \in 1..Len(alerts) \/ n = Len(alerts) + 1
    BY <1>1, <1>3, <1>4, OneMore
  <2>2. \A n \in 1..Len(alerts) : alerts[n].time \in Int /\ alerts[n].check \in Nat
    BY <1>1, EntryFields
  <2>3. AlertTimed'
    <3>1. lastAlertTime <= t
      BY <1>1, <1>4
    <3>2. \A n \in 1..Len(alerts) : alerts[n].time <= lastAlertTime /\ alerts[n].check <= N
      BY <1>1 DEF AlertTimed
    <3>3. \A n \in 1..Len(alerts') :
            alerts'[n].time <= t /\ alerts'[n].check <= N + 1
      <4> SUFFICES ASSUME NEW n \in 1..Len(alerts')
                   PROVE  alerts'[n].time <= t /\ alerts'[n].check <= N + 1
        OBVIOUS
      <4>1. CASE n \in 1..Len(alerts)
        BY <1>1, <2>1, <2>2, <3>1, <3>2, <4>1
      <4>2. CASE n = Len(alerts) + 1
        BY <1>3, <2>1, <4>2
      <4> QED BY <2>1, <4>1, <4>2
    <3>4. Len(alerts') # 0 /\ alerts'[Len(alerts')].time = t
      BY <1>1, <1>3, <2>1
    <3> QED BY <1>2, <1>4, <3>3, <3>4 DEF AlertTimed
  <2>4. AlertsJustified'
    <3> SUFFICES ASSUME NEW n \in 1..Len(alerts')
                 PROVE  /\ alerts'[n].check \in 1..Len(checks')
                        /\ alerts'[n].time = checks'[alerts'[n].check].time
                        /\ IF alerts'[n].kind = "failure"
                           THEN FailureStreak(alerts[n].check)'
                           ELSE Stagnant(alerts[n].check)'
      BY DEF AlertsJustified
    <3>1. CASE n \in 1..Len(alerts)
      <4>1. alerts'[n] = alerts[n] /\ alerts[n].check \in 1..N
        BY <1>1, <2>1, <3>1 DEF AlertsJustified
      <4> QED BY <1>1, <1>2, <3>1, <4>1 DEF AlertsJustified
    <3>2. CASE n = Len(alerts) + 1
      BY <1>1, <1>2, <1>3, <1>4, <2>1, <3>2
    <3> QED BY <2>1, <3>1, <3>2
  <2>5. CriticalAlerted'
    <3> SUFFICES ASSUME NEW i \in 1..Len(checks'), (FailureStreak(i) \/ Stagnant(i))'
                 PROVE  \E n \in 1..Len(alerts') :
                          /\ alerts'[n].check <= i
                          /\ checks'[i].time - alerts'[n].time <= AlertCooldown
      BY DEF CriticalAlerted
    <3>1. CASE i \in 1..N
      <4>1. PICK n \in 1..Len(alerts) :
              alerts[n].check <= i /\ checks[i].time - alerts[n].time <= AlertCooldown
        BY <1>1, <1>2, <3>1 DEF CriticalAlerted
      <4>2. n \in 1..Len(alerts')
        BY <1>1, <2>1
      <4> QED BY <1>2, <2>1, <3>1, <4>1, <4>2
    <3>2. CASE i = N + 1
      <4>1. Len(alerts) + 1 \in 1..Len(alerts')
        BY <1>1, <2>1
      <4>2. c.time - a.time <= AlertCooldown
        <5>1. t - t = 0 /\ AlertCooldown >= 0
          BY HealthAssumption
        <5> QED BY <1>3, <5>1
      <4>3. alerts'[Len(alerts) + 1] = a /\ a.check = N + 1 /\ checks'[N + 1] = c
        BY <1>1, <1>2, <1>3, <2>1
      <4>4. N + 1 <= N + 1
        BY <1>2
      <4> QED BY <3>2, <4>1, <4>2, <4>3, <4>4
    <3> QED BY <1>2, <3>1, <3>2
  <2>6. AlertsSpaced'
    <3> SUFFICES ASSUME NEW n \in 1..Len(alerts'), NEW m \in 1..Len(alerts'), n < m
                 PROVE  alerts'[m].time - alerts'[n].time > AlertCooldown
      BY DEF AlertsSpaced
    <3>1. n \in 1..Len(alerts)
      BY <1>1, <2>1
    <3>2. CASE m \in 1..Len(alerts)
      BY <1>1, <2>1, <3>1, <3>2 DEF AlertsSpaced
    <3>3. CASE m = Len(alerts) + 1
      <4>1. alerts[n].time <= lastAlertTime /\ alerts[n].time \in Int
        BY <1>1, <2>2, <3>1 DEF AlertTimed
      <4> QED BY <1>1, <1>3, <1>4, <2>1, <3>1, <3>3, <4>1
    <3> QED BY <2>1, <3>2, <3>3
  <2> QED BY <1>4, <2>1, <2>3, <2>4, <2>5, <2>6
<1>5. CASE alerts' = alerts /\ lastAlertTime' = lastAlertTime
           /\ \/ t - lastAlertTime <= AlertCooldown
              \/ ~FailureStreak(N + 1)' /\ ~Stagnant(N + 1)'
  <2>1. \A n \in 1..Len(alerts) : alerts[n].time \in Int /\ alerts[n].check \in Nat
    BY <1>1, EntryFields
  <2>2. AlertTimed'
    <3>1. \A n \in 1..Len(alerts) : alerts[n].time <= lastAlertTime /\ alerts[n].check <= N
      BY <1>1 DEF AlertTimed
    <3>2. \A n \in 1..Len(alerts) : alerts[n].check <= N + 1
      BY <1>1, <2>1, <3>1
    <3> QED BY <1>1, <1>2, <1>5, <3>1, <3>2 DEF AlertTimed
  <2>3. AlertsJustified'
    BY <1>1, <1>2, <1>5 DEF AlertsJustified
  <2>4. CriticalAlerted'
    <3> SUFFICES ASSUME NEW i \in 1..Len(checks'), (FailureStreak(i) \/ Stagnant(i))'
                 PROVE  \E n \in 1..Len(alerts') :
                          /\ alerts'[n].check <= i
                          /\ checks'[i].time - alerts'[n].time <= AlertCooldown
      BY DEF CriticalAlerted
    <3>1. CASE i \in 1..N
      BY <1>1, <1>2, <1>5, <3>1 DEF CriticalAlerted
    <3>2. CASE i = N + 1
      <4>1. t - lastAlertTime <= AlertCooldown
        BY <1>5, <3>2
      <4>2. Len(alerts) # 0
        BY <1>1, <4>1 DEF AlertTimed, LongAgo
      <4>3. /\ Len(alerts) \in 1..Len(alerts)
            /\ alerts[Len(alerts)].time = lastAlertTime
            /\ alerts[Len(alerts)].check <= N + 1
        BY <1>1, <2>1, <4>2 DEF AlertTimed
      <4> QED BY <1>2, <1>5, <3>2, <4>1, <4>3
    <3> QED BY <1>2, <3>1, <3>2
  <2>5. AlertsSpaced'
    BY <1>1, <1>5 DEF AlertsSpaced
  <2> QED BY <1>1, <1>5, <2>2, <2>3, <2>4, <2>5
<1>6. ~(t - lastAlertTime > AlertCooldown) => t - lastAlertTime <= AlertCooldown
  BY <1>1
<1> QED BY <1>4, <1>5, <1>6 DEF a

-------------------------------------------------------------------------------
LEMMA SummaryInit == Init => Summary
<1> SUFFICES ASSUME Init PROVE Summary
  OBVIOUS
<1>1. Len(checks) = 0 /\ Len(alerts) = 0 /\ 1..0 = {}
  BY DEF Init
<1>2. TypeOK
  BY HealthAssumption DEF Init, TypeOK, LongAgo
<1> QED
  BY <1>1, <1>2, HealthAssumption
  DEF Init, Summary, FailuresCounted, ChecksPast, HeightObserved, UpdateTimed,
      AlertTimed, AlertsJustified, CriticalAlerted, AlertsSpaced

LEMMA FailureStep == Summary /\ CheckFails => Summary'
<1> SUFFICES ASSUME Summary, CheckFails PROVE Summary'
  OBVIOUS
<1> PICK N \in Nat : N = Len(checks)
  BY DEF Summary, TypeOK
<1> DEFINE c == Failed(clock')
<1>1. /\ TypeOK /\ N \in Nat /\ clock' \in Nat /\ clock <= clock' /\ alive
      /\ clock \in Nat /\ MaxFailures \in Nat \ {0} /\ consecutiveFailures \in Nat
      /\ lastObservedHeight \in Nat /\ lastHeightUpdateTime \in Nat
      /\ checks \in Seq(Check)
  BY HealthAssumption DEF Summary, TypeOK, CheckFails, NextCheck
<1>2. c \in Check /\ ~c.ok /\ c.time = clock'
  BY <1>1 DEF Failed, Check
<1>3. checks' = Append(checks, c)
  BY DEF CheckFails
<1> HIDE DEF c
<1>4. /\ checks' \in Seq(Check) /\ Len(checks') = N + 1 /\ checks'[N + 1] = c
      /\ \A i \in 1..N : checks'[i] = checks[i] /\ (Progress(i)' <=> Progress(i))
      /\ \A i \in 1..Len(checks') : i \in 1..N \/ i = N + 1
  BY <1>1, <1>2, <1>3, OneMore, EarlierAnswers
<1>5. ~Stagnant(N + 1)' /\ ~Progress(N + 1)'
  BY <1>2, <1>4 DEF Stagnant, Progress
<1>6. FailuresCounted'
  <2>1. consecutiveFailures' = consecutiveFailures + 1 /\ FailuresCounted
    BY DEF CheckFails, Summary
  <2>2. \A j \in (N - consecutiveFailures + 1)..(N + 1) : ~checks'[j].ok
    <3> SUFFICES ASSUME NEW j \in (N - consecutiveFailures + 1)..(N + 1)
                 PROVE  ~checks'[j].ok
      OBVIOUS
    <3>1. CASE j = N + 1
      BY <1>2, <1>4, <3>1
    <3>2. CASE j # N + 1
      <4>1. j \in (N - consecutiveFailures + 1)..N /\ j \in 1..N
        BY <1>1, <2>1, <3>2 DEF FailuresCounted
      <4> QED BY <1>1, <1>4, <2>1, <4>1 DEF FailuresCounted
    <3> QED BY <3>1, <3>2
  <2>3. consecutiveFailures < N => checks'[N - consecutiveFailures].ok
    BY <1>1, <1>4, <2>1 DEF FailuresCounted
  <2>4. N + 1 - (consecutiveFailures + 1) = N - consecutiveFailures
    BY <1>1
  <2> QED BY <1>1, <1>4, <2>1, <2>2, <2>3, <2>4 DEF FailuresCounted
<1>7. FailureStreak(N + 1)' <=> consecutiveFailures' >= MaxFailures
  <2>1. alive' /\ consecutiveFailures' = consecutiveFailures + 1
    BY <1>1 DEF CheckFails, NextCheck
  <2>2. CASE consecutiveFailures' >= MaxFailures
    BY <1>1, <1>4, <1>6, <2>1, <2>2 DEF FailuresCounted, FailureStreak
  <2>3. CASE consecutiveFailures' < MaxFailures
    <3>1. CASE N + 1 < MaxFailures
      <4>1. ~(N + 1 >= MaxFailures)
        BY <1>1, <3>1
      <4>2. ~(consecutiveFailures' >= MaxFailures)
        BY <1>1, <2>1, <2>3
      <4> QED BY <4>1, <4>2 DEF FailureStreak
    <3>2. CASE N + 1 >= MaxFailures
      <4>1. consecutiveFailures' < Len(checks')
        BY <1>1, <1>4, <2>1, <2>3, <3>2
      <4>2. checks'[N + 1 - consecutiveFailures'].ok
        BY <1>4, <1>6, <2>1, <4>1 DEF FailuresCounted
      <4>3. N + 1 - consecutiveFailures' \in (N + 1 - MaxFailures + 1)..(N + 1)
        BY <1>1, <2>1, <2>3
      <4> QED BY <2>3, <4>2, <4>3, <1>1, <2>1 DEF FailureStreak
    <3> QED BY <1>1, <3>1, <3>2
  <2> QED BY <1>1, <2>1, <2>2, <2>3
<1>8. /\ lastAlertTime' \in Int /\ alerts' \in Seq(Alert)
      /\ AlertTimed' /\ AlertsJustified' /\ CriticalAlerted' /\ AlertsSpaced'
  <2>1. \/ Quiet /\ ~FailureStreak(N + 1)' /\ ~Stagnant(N + 1)'
        \/ Raise("failure") /\ FailureStreak(N + 1)'
    BY <1>5, <1>7 DEF CheckFails
  <2>2. Raise("failure") =>
          \/ /\ clock' - lastAlertTime > AlertCooldown /\ lastAlertTime' = clock'
             /\ alerts' = Append(alerts, [time |-> clock', kind |-> "failure",
                                          check |-> N + 1])
          \/ ~(clock' - lastAlertTime > AlertCooldown) /\ Quiet
    BY <1>4, <2>1 DEF Raise, Quiet
  <2>3. \/ /\ UNCHANGED <<lastAlertTime, alerts>>
            /\ \/ ~(clock' - lastAlertTime > AlertCooldown)
               \/ ~FailureStreak(N + 1)' /\ ~Stagnant(N + 1)'
         \/ /\ clock' - lastAlertTime > AlertCooldown /\ lastAlertTime' = clock'
            /\ alerts' = Append(alerts, [time |-> clock', kind |-> "failure", check |-> N + 1])
            /\ FailureStreak(N + 1)'
    BY <1>5, <2>1, <2>2 DEF Quiet
  <2>4. "failure" \in {"failure", "stagnation"}
    OBVIOUS
  <2> QED BY <1>1, <1>2, <1>3, <2>3, <2>4, AlertsRight
<1>9. ChecksPast'
  BY <1>1, <1>2, <1>4, EntryFields DEF Summary, ChecksPast
<1>10. HeightObserved' /\ UpdateTimed'
  <2>1. UNCHANGED <<lastObservedHeight, lastHeightUpdateTime>>
    BY DEF CheckFails
  <2>2. \A i \in 1..Len(checks') : checks'[i].ok => i \in 1..N
    BY <1>2, <1>4
  <2>3. 1..N \subseteq 1..Len(checks')
    BY <1>1, <1>4
  <2>4. HeightObserved'
    BY <1>4, <2>1, <2>2, <2>3 DEF Summary, HeightObserved
  <2>5. UpdateTimed'
    BY <1>4, <1>5, <2>1, <2>2, <2>3 DEF Summary, UpdateTimed
  <2> QED BY <2>4, <2>5
<1>11. TypeOK'
  <2>1. /\ UNCHANGED <<alive, actorRestarts, lastObservedHeight, lastHeightUpdateTime>>
        /\ consecutiveFailures' \in Nat /\ isHealthy' = FALSE
    BY <1>1 DEF CheckFails, NextCheck
  <2> QED BY <1>1, <1>4, <1>8, <2>1 DEF TypeOK
<1> QED BY <1>6, <1>8, <1>9, <1>10, <1>11 DEF Summary

LEMMA SuccessStep == Summary /\ CheckSucceeds => Summary'
<1> SUFFICES ASSUME Summary, CheckSucceeds PROVE Summary'
  OBVIOUS
<1>0. PICK h \in NodeHeights :
        /\ \E t \in clock..MaxClock : NextCheck(t)
        /\ checks' = Append(checks, Answered(clock', h))
        /\ ResetFailures
        /\ \/ /\ Grew(h)
              /\ lastObservedHeight' = h /\ lastHeightUpdateTime' = clock'
              /\ isHealthy' = TRUE
              /\ Quiet
           \/ /\ ~Grew(h)
              /\ UNCHANGED <<lastObservedHeight, lastHeightUpdateTime>>
              /\ isHealthy' = (clock' - lastHeightUpdateTime < HeightStagnationLimit)
              /\ IF isHealthy' THEN Quiet ELSE Raise("stagnation")
  BY DEF CheckSucceeds
<1> PICK N \in Nat : N = Len(checks)
  BY DEF Summary, TypeOK
<1> DEFINE c == Answered(clock', h)
<1>1. /\ TypeOK /\ N \in Nat /\ clock' \in Nat /\ clock <= clock' /\ alive
      /\ clock \in Nat /\ MaxFailures \in Nat \ {0} /\ h \in Nat
      /\ HeightStagnationLimit \in Nat \ {0}
      /\ lastObservedHeight \in Nat /\ lastHeightUpdateTime \in Nat
      /\ checks \in Seq(Check)
  BY <1>0, HealthAssumption DEF Summary, TypeOK, NextCheck
<1>2. c \in Check /\ c.ok /\ c.time = clock' /\ c.height = h
  BY <1>1 DEF Answered, Check
<1>3. checks' = Append(checks, c)
  BY <1>0
<1> HIDE DEF c
<1>4. /\ checks' \in Seq(Check) /\ Len(checks') = N + 1 /\ checks'[N + 1] = c
      /\ \A i \in 1..N : checks'[i] = checks[i] /\ (Progress(i)' <=> Progress(i))
      /\ \A i \in 1..Len(checks') : i \in 1..N \/ i = N + 1
      /\ 1..N \subseteq 1..Len(checks') /\ N + 1 \in 1..Len(checks')
  BY <1>1, <1>2, <1>3, OneMore, EarlierAnswers
<1>5. ~FailureStreak(N + 1)'
  <2>1. N + 1 \in (N + 1 - MaxFailures + 1)..(N + 1)
    BY <1>1
  <2>2. checks'[N + 1].ok
    BY <1>2, <1>4
  <2> SUFFICES ASSUME FailureStreak(N + 1)' PROVE FALSE
    OBVIOUS
  <2>3. \A j \in (N + 1 - MaxFailures + 1)..(N + 1) : ~checks'[j].ok
    BY <1>1 DEF FailureStreak
  <2> QED BY <2>1, <2>2, <2>3
<1>6. FailuresCounted'
  BY <1>0, <1>1, <1>2, <1>4 DEF FailuresCounted, ResetFailures
<1>7. \A i \in 1..N : checks[i].time \in Int /\ checks[i].height \in Nat
  BY <1>1, EntryFields
<1>8. Progress(N + 1)' <=> Grew(h)
  <2>1. Progress(N + 1)' <=>
          \A j \in 1..N : checks[j].ok => checks[j].height = 0 \/ checks[j].height < h
    <3>1. (N + 1) - 1 = N
      BY <1>1
    <3> QED BY <1>2, <1>4, <3>1 DEF Progress
  <2> QED BY <1>1, <1>7, <2>1 DEF Grew, Summary, HeightObserved
<1>9. ChecksPast'
  BY <1>1, <1>2, <1>4, <1>7 DEF Summary, ChecksPast
<1>10. CASE Grew(h) /\ lastObservedHeight' = h /\ lastHeightUpdateTime' = clock' /\ Quiet
  <2>1. HeightObserved'
    <3>1. lastObservedHeight <= h
      BY <1>1, <1>10 DEF Grew
    <3> QED BY <1>1, <1>2, <1>4, <1>7, <1>10, <3>1 DEF Summary, HeightObserved
  <2>2. UpdateTimed'
    <3>1. \A i \in 1..N : checks[i].time <= clock'
      BY <1>1, <1>7 DEF Summary, ChecksPast
    <3> QED BY <1>1, <1>2, <1>4, <1>8, <1>10, <3>1 DEF UpdateTimed
  <2>3. ~Stagnant(N + 1)'
    <3>1. Progress(N + 1)' /\ N + 1 \in 1..(N + 1)
      BY <1>1, <1>8, <1>10
    <3>2. checks'[N + 1].time - checks'[N + 1].time < HeightStagnationLimit
      BY <1>1, <1>2, <1>4
    <3>3. checks'[N + 1].time \in Int
      BY <1>1, <1>2, <1>4
    <3> QED BY <1>1, <3>1, <3>2, <3>3 DEF Stagnant
  <2>4. Quiet /\ ~FailureStreak(N + 1)' /\ ~Stagnant(N + 1)'
    BY <1>5, <1>10, <2>3
  <2>5. /\ lastAlertTime' \in Int /\ alerts' \in Seq(Alert)
        /\ AlertTimed' /\ AlertsJustified' /\ CriticalAlerted' /\ AlertsSpaced'
    BY <1>1, <1>2, <1>3, <2>4, AlertsRight DEF Quiet
  <2>6. TypeOK'
    BY <1>0, <1>1, <1>4, <1>10, <2>5 DEF TypeOK, NextCheck, ResetFailures
  <2> QED BY <1>6, <1>9, <2>1, <2>2, <2>5, <2>6 DEF Summary
<1>11. CASE /\ ~Grew(h)
            /\ UNCHANGED <<lastObservedHeight, lastHeightUpdateTime>>
            /\ isHealthy' = (clock' - lastHeightUpdateTime < HeightStagnationLimit)
            /\ IF isHealthy' THEN Quiet ELSE Raise("stagnation")
  <2> DEFINE critical == ~(clock' - lastHeightUpdateTime < HeightStagnationLimit)
  <2>1. lastObservedHeight # 0 /\ h <= lastObservedHeight
    BY <1>1, <1>11 DEF Grew
  <2>2. HeightObserved'
    BY <1>2, <1>4, <1>11, <2>1 DEF Summary, HeightObserved
  <2>3. PICK i \in 1..N : Progress(i) /\ checks[i].time = lastHeightUpdateTime
    BY <2>1 DEF Summary, HeightObserved, UpdateTimed
  <2>4. UpdateTimed'
    BY <1>4, <1>8, <1>11, <2>3 DEF Summary, UpdateTimed
  <2>5. \A j \in 1..(N + 1) : Progress(j)' => checks'[j].time <= lastHeightUpdateTime
    BY <1>1, <1>4, <1>11, <2>4 DEF UpdateTimed
  <2>6. Stagnant(N + 1)' <=> critical
    <3>1. CASE critical
      <4>1. \A j \in 1..(N + 1) : Progress(j)' =>
              checks'[N + 1].time - checks'[j].time >= HeightStagnationLimit
        <5> SUFFICES ASSUME NEW j \in 1..(N + 1), Progress(j)'
                     PROVE  checks'[N + 1].time - checks'[j].time >= HeightStagnationLimit
          OBVIOUS
        <5>1. j \in 1..N /\ checks'[j].time \in Int
          BY <1>4, <1>7, <1>8, <1>11
        <5>2. checks'[j].time <= lastHeightUpdateTime
          BY <2>5
        <5> QED BY <1>1, <1>2, <1>4, <3>1, <5>1, <5>2
      <4> QED BY <1>2, <1>4, <3>1, <4>1 DEF Stagnant
    <3>2. CASE ~critical
      <4>1. i \in 1..(N + 1) /\ Progress(i)'
        BY <1>1, <1>4, <2>3
      <4>2. checks'[N + 1].time - checks'[i].time < HeightStagnationLimit
        BY <1>1, <1>2, <1>4, <2>3, <3>2
      <4>3. checks'[i].time \in Int /\ checks'[N + 1].time \in Int
        BY <1>1, <1>2, <1>4, <1>7
      <4>4. ~(checks'[N + 1].time - checks'[i].time >= HeightStagnationLimit)
        BY <1>1, <4>2, <4>3
      <4> QED BY <3>2, <4>1, <4>4 DEF Stagnant
    <3> QED BY <3>1, <3>2
  <2>7. \/ Quiet /\ ~FailureStreak(N + 1)' /\ ~Stagnant(N + 1)'
        \/ Raise("stagnation") /\ Stagnant(N + 1)'
    BY <1>5, <1>11, <2>6
  <2>8. /\ lastAlertTime' \in Int /\ alerts' \in Seq(Alert)
         /\ AlertTimed' /\ AlertsJustified' /\ CriticalAlerted' /\ AlertsSpaced'
    <3>1. Raise("stagnation") =>
            \/ /\ clock' - lastAlertTime > AlertCooldown /\ lastAlertTime' = clock'
               /\ alerts' = Append(alerts, [time |-> clock', kind |-> "stagnation",
                                            check |-> N + 1])
            \/ ~(clock' - lastAlertTime > AlertCooldown) /\ Quiet
      BY <1>4, <2>7 DEF Raise, Quiet
    <3>2. \/ /\ UNCHANGED <<lastAlertTime, alerts>>
            /\ \/ ~(clock' - lastAlertTime > AlertCooldown)
               \/ ~FailureStreak(N + 1)' /\ ~Stagnant(N + 1)'
         \/ /\ clock' - lastAlertTime > AlertCooldown /\ lastAlertTime' = clock'
            /\ alerts' = Append(alerts, [time |-> clock', kind |-> "stagnation", check |-> N + 1])
            /\ Stagnant(N + 1)'
      BY <1>5, <2>7, <3>1 DEF Quiet
    <3>3. "stagnation" \in {"failure", "stagnation"}
      OBVIOUS
    <3> QED BY <1>1, <1>2, <1>3, <3>2, <3>3, AlertsRight
  <2>9. TypeOK'
    BY <1>0, <1>1, <1>4, <1>11, <2>8 DEF TypeOK, NextCheck, ResetFailures
  <2> QED BY <1>6, <1>9, <2>2, <2>4, <2>8, <2>9 DEF Summary
<1> QED BY <1>0, <1>10, <1>11

LEMMA PanicStep == Summary /\ CheckPanics => Summary'
<1> SUFFICES ASSUME Summary, CheckPanics PROVE Summary'
  OBVIOUS
<1>1. CASE MayRestart
  <2>1. /\ clock' \in Nat /\ checks' = <<>> /\ alerts' = <<>>
        /\ consecutiveFailures' = 0 /\ lastAlertTime' = LongAgo
        /\ lastObservedHeight' = 0 /\ lastHeightUpdateTime' = clock'
        /\ UNCHANGED alive /\ isHealthy' = TRUE /\ actorRestarts' = actorRestarts + 1
    BY <1>1, HealthAssumption DEF CheckPanics, Summary, TypeOK
  <2>2. Len(checks') = 0 /\ Len(alerts') = 0 /\ 1..0 = {}
    BY <2>1
  <2>3. TypeOK'
    BY <1>1, <2>1, HealthAssumption DEF Summary, TypeOK, LongAgo, MayRestart
  <2> QED
    BY <2>1, <2>2, <2>3, HealthAssumption
    DEF Summary, FailuresCounted, ChecksPast, HeightObserved, UpdateTimed,
        AlertTimed, AlertsJustified, CriticalAlerted, AlertsSpaced
<1>2. CASE ~MayRestart
  <2>1. /\ alive' = FALSE /\ consecutiveFailures' = 0
        /\ UNCHANGED <<clock, actorRestarts, isHealthy, lastAlertTime,
                       lastObservedHeight, lastHeightUpdateTime, checks, alerts>>
    BY <1>2 DEF CheckPanics
  <2>2. TypeOK' /\ FailuresCounted'
    BY <2>1 DEF Summary, TypeOK, FailuresCounted
  <2> QED
    BY <2>1, <2>2
    DEF Summary, ChecksPast, HeightObserved, UpdateTimed, AlertTimed,
        AlertsJustified, CriticalAlerted, AlertsSpaced, Progress, Stagnant,
        FailureStreak
<1> QED BY <1>1, <1>2

LEMMA SummaryStep == Summary /\ [Next]_vars => Summary'
<1> SUFFICES ASSUME Summary, [Next]_vars PROVE Summary'
  OBVIOUS
<1>1. CASE UNCHANGED vars
  BY <1>1
  DEF vars, Summary, TypeOK, FailuresCounted, ChecksPast, HeightObserved,
      UpdateTimed, AlertTimed, AlertsJustified, CriticalAlerted, AlertsSpaced,
      Progress, Stagnant, FailureStreak
<1> QED BY <1>1, FailureStep, SuccessStep, PanicStep DEF Next

(* Every alert has its reason in the answers, none is missing and none     *)
(* comes within the cooldown of another, whatever the node answers when.   *)
THEOREM HealthAlertsCorrect ==
  Spec => [](TypeOK /\ AlertsJustified /\ CriticalAlerted /\ AlertsSpaced)
<1>1. Summary => TypeOK /\ AlertsJustified /\ CriticalAlerted /\ AlertsSpaced
  BY DEF Summary
<1> QED BY <1>1, SummaryInit, SummaryStep, PTL DEF Spec

(* What the four parts say one by one: the fields keep their types (no     *)
(* failure, recovery or panic leaves a counter or a timer unset),          *)
THEOREM HealthTypeCorrect == Spec => []TypeOK
BY HealthAlertsCorrect, PTL

(* no alert is raised without its reason in the answers (performHealthCheck),*)
THEOREM NoFalseAlarm == Spec => []AlertsJustified
BY HealthAlertsCorrect, PTL

(* and no two alerts come within the cooldown that both kinds share.       *)
THEOREM AlertsKeepCooldown == Spec => []AlertsSpaced
BY HealthAlertsCorrect, PTL
==============================================================================
