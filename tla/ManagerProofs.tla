---------------------------- MODULE ManagerProofs ----------------------------
(***************************************************************************)
(* The StrategyManager's circuit breaker and its connections, for any      *)
(* number of failures, requests and commands and any threshold and window. *)
(*                                                                         *)
(* The argument for the breaker: restartHistory is exactly the set of      *)
(* earlier requests that may still count.  For the connections: what the   *)
(* manager does not track is gone, and while it waits, whatever it waits   *)
(* for is gone before anything is spawned under the same process id.       *)
(***************************************************************************)
EXTENDS StrategyManager, TLAPS

-------------------------------------------------------------------------------
(* The circuit breaker.                                                    *)

(* The records kept after request i, but for those that have left the      *)
(* window since.                                                           *)
Kept(i) == IF decisions[i].full THEN {} ELSE Counted(i)

HistoryKept ==
  restartHistory = IF Len(decisions) = 0 THEN {} ELSE Kept(Len(decisions))

TimesGrow ==
  /\ \A i \in 1..Len(decisions) : decisions[i].time <= clock
  /\ \A i, j \in 1..Len(decisions) : i <= j => decisions[i].time <= decisions[j].time

BreakerInv == TypeOK /\ HistoryKept /\ TimesGrow /\ BreakerTrips

-------------------------------------------------------------------------------
(* Connections.                                                            *)

(* The flag and the pid of the indexer say the same.                       *)
SpawnedIsTracked == indexerSpawned = indexerPID

UntrackedIsGone == \A p \in Processes : ~Tracked(p) => process[p] = "none"

WaitedForIsGone ==
  /\ handling = "indexer" => Critical \notin strategyInstances
  /\ handling # "idle" /\ stopped => process[Awaited] = "none"

(* p is being replaced by the restart request that is handled.             *)
Replaced(p) ==
  \/ handling # "idle" /\ p = Critical
  \/ handling = "indexer" /\ p = Indexer

ConnectedUnlessReplaced ==
  \A p \in Expected : p \in broken \/ Connected(p) \/ Replaced(p)

Connections ==
  /\ SpawnedIsTracked /\ UntrackedIsGone /\ WaitedForIsGone
  /\ ConnectedUnlessReplaced

ConnectionInv == TypeOK /\ Connections

-------------------------------------------------------------------------------
(* Types.                                                                  *)

LEMMA Ids ==
  /\ Indexer \in Processes /\ Critical \in Strategies /\ Indexer # Critical
  /\ Strategies \subseteq Processes /\ Indexer \notin Strategies
  /\ \A p \in Processes : p # Indexer => p \in Strategies
BY ManagerAssumption DEF Processes, Strategies

(* What spawning does to one process.                                      *)
LEMMA SpawnEffect ==
  ASSUME TypeOK, NEW ps \in SUBSET Processes, Spawn(ps)
  PROVE  /\ process' \in [Processes -> {"none", "up", "stopping"}]
         /\ told' \subseteq Processes /\ broken' \subseteq Processes
         /\ told \subseteq told'
         /\ \A p \in ps : process[p] = "none" =>
              process'[p] = "up" /\ p \in told' /\ p \notin broken'
         /\ \A p \in Processes :
              /\ process[p] # "none" \/ p \notin ps => process'[p] = process[p]
              /\ p \in broken => p \in broken' \/ (p \in ps /\ process[p] = "none")
BY DEF Spawn, TypeOK

LEMMA PoisonEffect ==
  ASSUME TypeOK, NEW p \in Processes, Poison(p)
  PROVE  /\ process' \in [Processes -> {"none", "up", "stopping"}]
         /\ UNCHANGED <<told, broken>>
         /\ \A q \in Processes : /\ process'[q] = "none" <=> process[q] = "none"
                                 /\ q # p => process'[q] = process[q]
BY DEF Poison, TypeOK

(* The processes that loadStrategy spawns.                                 *)
Loaded(id) == ({id} \ Unknown) \cup (IF indexerSpawned THEN {} ELSE {Indexer})

LEMMA LoadEffect ==
  ASSUME TypeOK, NEW id \in Strategies, LoadStrategy(id), id \notin strategyInstances
  PROVE  /\ Loaded(id) \in SUBSET Processes /\ Spawn(Loaded(id))
         /\ indexerPID' = (indexerPID \/ ~indexerSpawned) /\ indexerSpawned' = TRUE
         /\ strategyInstances' = strategyInstances \cup ({id} \ Unknown)
         /\ strategyConfigs' = strategyConfigs \cup ({id} \ Unknown)
BY Ids DEF LoadStrategy, Loaded

LEMMA LoadTypes ==
  ASSUME TypeOK, NEW id \in Strategies, LoadStrategy(id)
  PROVE  /\ process' \in [Processes -> {"none", "up", "stopping"}]
         /\ told' \subseteq Processes /\ broken' \subseteq Processes
         /\ strategyInstances' \subseteq Strategies
         /\ strategyConfigs' \subseteq Strategies
         /\ indexerPID' \in BOOLEAN /\ indexerSpawned' \in BOOLEAN
<1>1. CASE id \in strategyInstances
  BY <1>1 DEF LoadStrategy, TypeOK, engineVars, trackVars
<1>2. CASE id \notin strategyInstances
  <2>1. /\ Loaded(id) \in SUBSET Processes /\ Spawn(Loaded(id))
        /\ indexerPID' = (indexerPID \/ ~indexerSpawned) /\ indexerSpawned' = TRUE
        /\ strategyInstances' = strategyInstances \cup ({id} \ Unknown)
        /\ strategyConfigs' = strategyConfigs \cup ({id} \ Unknown)
    BY <1>2, LoadEffect
  <2>2. /\ process' \in [Processes -> {"none", "up", "stopping"}]
        /\ told' \subseteq Processes /\ broken' \subseteq Processes
    BY <2>1, SpawnEffect
  <2> QED BY <2>1, <2>2 DEF TypeOK
<1> QED BY <1>1, <1>2

LEMMA TypeInit == Init => TypeOK
<1> SUFFICES ASSUME Init PROVE TypeOK
  OBVIOUS
<1>1. decisions \in Seq(Decision) /\ boot \in Seq(Strategies)
  BY ManagerAssumption DEF Init
<1> QED BY <1>1 DEF Init, TypeOK

(* Every step keeps the types.                                             *)
LEMMA TypeStep == TypeOK /\ [Next]_vars => TypeOK'
<1> SUFFICES ASSUME TypeOK, [Next]_vars PROVE TypeOK'
  OBVIOUS
<1> USE Ids DEF TypeOK
<1>1. CASE LoadAtBoot
  <2>1. Head(boot) \in Strategies /\ boot' \in Seq(Strategies)
    BY <1>1 DEF LoadAtBoot
  <2>2. LoadStrategy(Head(boot))
    BY <1>1 DEF LoadAtBoot
  <2>3. /\ process' \in [Processes -> {"none", "up", "stopping"}]
        /\ told' \subseteq Processes /\ broken' \subseteq Processes
        /\ strategyInstances' \subseteq Strategies
        /\ strategyConfigs' \subseteq Strategies
        /\ indexerPID' \in BOOLEAN /\ indexerSpawned' \in BOOLEAN
    <3> HIDE DEF TypeOK
    <3> QED BY <2>1, <2>2, LoadTypes
  <2> QED BY <1>1, <2>1, <2>3 DEF LoadAtBoot, restartVars, boundVars
<1>2. ASSUME NEW id \in Strategies, LoadCommand(id) PROVE TypeOK'
  <2>1. LoadStrategy(id)
    BY <1>2 DEF LoadCommand
  <2>2. /\ process' \in [Processes -> {"none", "up", "stopping"}]
        /\ told' \subseteq Processes /\ broken' \subseteq Processes
        /\ strategyInstances' \subseteq Strategies
        /\ strategyConfigs' \subseteq Strategies
        /\ indexerPID' \in BOOLEAN /\ indexerSpawned' \in BOOLEAN
    <3> HIDE DEF TypeOK
    <3> QED BY <2>1, LoadTypes
  <2> QED BY <1>2, <2>2, SMTT(30) DEF LoadCommand, mailVars, restartVars
<1>3. ASSUME NEW id \in Strategies, UnloadCommand(id) PROVE TypeOK'
  BY <1>3, PoisonEffect DEF UnloadCommand, mailVars, restartVars
<1>4. ASSUME NEW p \in Processes, ProcessStops(p) PROVE TypeOK'
  BY <1>4, SMTT(30) DEF ProcessStops, mailVars, trackVars, boundVars
<1>5. ASSUME NEW p \in Processes, ChildDies(p) PROVE TypeOK'
  BY <1>5, SMTT(30) DEF ChildDies, mailVars, trackVars, restartVars
<1>6. ASSUME NEW p \in Processes, ChildPanics(p) PROVE TypeOK'
  BY <1>6 DEF ChildPanics, mailVars, trackVars, restartVars
<1>7. CASE RequestRestart
  BY <1>7 DEF RequestRestart, engineVars, trackVars, restartVars
<1>8. CASE DecideRequest
  <2> DEFINE n == Len(decisions) + 1
             e == [time |-> clock', full |-> FALSE]
             records == InWindow(Append(decisions, e), n)
             full == Cardinality(records) >= RestartThreshold
             d == [time |-> clock', full |-> full]
  <2>1. clock' \in Nat /\ requests' \in Nat
    BY <1>8, ManagerAssumption DEF DecideRequest, TakeRequest
  <2>2. decisions' = Append(decisions, d) /\ restartHistory' \subseteq records
    BY <1>8 DEF DecideRequest
  <2>3. records \subseteq restartHistory \cup {n}
    BY DEF InWindow
  <2>4. full \in BOOLEAN
    OBVIOUS
  <2> HIDE DEF records, full
  <2>5. d \in Decision
    BY <2>1, <2>4 DEF Decision
  <2> HIDE DEF d
  <2>6. decisions' \in Seq(Decision) /\ Len(decisions') = n /\ n \in Nat
    BY <2>2, <2>5
  <2>7. restartHistory' \subseteq 1..Len(decisions')
    BY <2>2, <2>3, <2>6
  <2>8. /\ process' \in [Processes -> {"none", "up", "stopping"}]
        /\ told' \subseteq Processes /\ broken' \subseteq Processes
        /\ handling' \in {"idle", "strategy", "indexer"} /\ stopped' \in BOOLEAN
    BY <1>8, PoisonEffect DEF DecideRequest, engineVars
  <2> QED BY <1>8, <2>1, <2>6, <2>7, <2>8
          DEF DecideRequest, trackVars, boundVars
<1>9. CASE StrategyStopped
  BY <1>9, PoisonEffect DEF StrategyStopped, mailVars, boundVars
<1>10. CASE IndexerStopped
  <2>1. /\ {Indexer} \cup Fresh \in SUBSET Processes /\ Spawn({Indexer} \cup Fresh)
        /\ strategyInstances' = strategyInstances \cup Fresh /\ Fresh \subseteq Strategies
    BY <1>10 DEF IndexerStopped, Fresh
  <2> QED BY <1>10, <2>1, SpawnEffect DEF IndexerStopped, mailVars, boundVars
<1>11. CASE UNCHANGED vars
  BY <1>11 DEF vars, engineVars, mailVars, trackVars, restartVars, boundVars
<1> QED
  BY <1>1, <1>2, <1>3, <1>4, <1>5, <1>6, <1>7, <1>8, <1>9, <1>10, <1>11
  DEF Next, Work, Environment, HandleRequest

-------------------------------------------------------------------------------
(* The breaker's invariant, over the log and the records as values.        *)

CountedIn(log, i) ==
  {j \in 1..i : /\ log[j].time > log[i].time - RestartTimeWindow
                /\ \A k \in j..(i - 1) : ~log[k].full}

CutToWindow(records, log, n) ==
  {i \in records \cup {n} : log[i].time > log[n].time - RestartTimeWindow}

(* A new entry changes nothing about the earlier ones.                     *)
LEMMA CountedAppend ==
  ASSUME NEW s \in Seq(Decision), NEW d \in Decision, NEW i \in 1..Len(s)
  PROVE  CountedIn(Append(s, d), i) = CountedIn(s, i)
<1> DEFINE t == Append(s, d)
<1>1. \A k \in 1..i : t[k] = s[k]
  OBVIOUS
<1>2. \A j \in 1..i : \A k \in j..(i - 1) : k \in 1..i
  OBVIOUS
<1> HIDE DEF t
<1>3. \A j \in 1..i : j \in CountedIn(t, i) <=> j \in CountedIn(s, i)
  BY <1>1, <1>2 DEF CountedIn
<1>4. CountedIn(t, i) \subseteq 1..i /\ CountedIn(s, i) \subseteq 1..i
  BY DEF CountedIn
<1> QED BY <1>3, <1>4 DEF t

(* The records kept after the last entry, cut to the window of the next    *)
(* one, are what counts for it.                                            *)
LEMMA CountedNext ==
  ASSUME NEW s \in Seq(Decision), NEW d \in Decision, NEW e \in Decision,
         NEW N \in Nat, N = Len(s) + 1, d.time = e.time,
         \A i \in 1..Len(s) : s[i].time <= d.time,
         NEW h, h = IF Len(s) = 0 THEN {}
                    ELSE IF s[Len(s)].full THEN {} ELSE CountedIn(s, Len(s))
  PROVE  CutToWindow(h, Append(s, e), N) = CountedIn(Append(s, d), N)
<1> DEFINE t == Append(s, d)
           u == Append(s, e)
           R == CutToWindow(h, u, N)
<1>1. /\ t[N] = d /\ u[N] = e
      /\ \A k \in 1..Len(s) : t[k] = s[k] /\ u[k] = s[k]
  OBVIOUS
<1>2. Len(s) \in Nat /\ RestartTimeWindow \in Nat /\ RestartTimeWindow > 0
  BY ManagerAssumption
<1>3. d.time \in Nat /\ \A k \in 1..Len(s) : s[k].time \in Nat
  <2>1. \A k \in 1..Len(s) : s[k] \in Decision
    OBVIOUS
  <2>2. \A x \in Decision : x.time \in Nat
    BY DEF Decision
  <2> QED BY <2>1, <2>2
<1> HIDE DEF t, u
<1>4. h \subseteq 1..Len(s)
  BY DEF CountedIn
<1>5. N \in R /\ N \in CountedIn(t, N)
  <2>1. d.time > d.time - RestartTimeWindow
    BY <1>2, <1>3
  <2>2. \A k \in N..(N - 1) : FALSE
    OBVIOUS
  <2>3. N \in 1..N
    BY <1>2
  <2> QED BY <1>1, <2>1, <2>2, <2>3 DEF CountedIn, CutToWindow
<1>6. ASSUME NEW j \in 1..Len(s), j \in R PROVE j \in CountedIn(t, N)
  <2>1. j \in h /\ ~s[Len(s)].full /\ h = CountedIn(s, Len(s))
    BY <1>2, <1>6 DEF CutToWindow
  <2>2. s[j].time > d.time - RestartTimeWindow
    BY <1>1, <1>6 DEF CutToWindow
  <2>3. \A k \in j..(N - 1) : k \in 1..Len(s) /\ ~s[k].full
    <3>1. \A k \in j..(N - 1) : k = Len(s) \/ k \in j..(Len(s) - 1)
      BY <1>2
    <3> QED BY <1>2, <2>1, <3>1 DEF CountedIn, CutToWindow
  <2>4. j \in 1..N
    BY <1>2
  <2> QED BY <1>1, <2>2, <2>3, <2>4 DEF CountedIn, CutToWindow
<1>7. ASSUME NEW j \in 1..Len(s), j \in CountedIn(t, N) PROVE j \in R
  <2>1. s[j].time > d.time - RestartTimeWindow
    BY <1>1, <1>7 DEF CountedIn, CutToWindow
  <2>2. \A k \in j..(N - 1) : ~s[k].full
    BY <1>1, <1>2, <1>7 DEF CountedIn, CutToWindow
  <2>3. ~s[Len(s)].full /\ Len(s) # 0
    BY <1>2, <2>2
  <2>4. s[Len(s)].time <= d.time /\ s[Len(s)].time \in Nat /\ s[j].time \in Nat
    BY <1>2, <1>3
  <2>5. s[j].time > s[Len(s)].time - RestartTimeWindow
    BY <1>2, <1>3, <2>1, <2>4
  <2>6. j \in CountedIn(s, Len(s))
    BY <1>2, <2>2, <2>5 DEF CountedIn, CutToWindow
  <2> QED BY <1>1, <2>1, <2>3, <2>6 DEF CutToWindow
<1>8. \A j \in R : j = N \/ j \in 1..Len(s)
  BY <1>4 DEF CutToWindow
<1>9. \A j \in CountedIn(t, N) : j = N \/ j \in 1..Len(s)
  BY <1>2 DEF CountedIn, CutToWindow
<1>10. R = CountedIn(t, N)
  <2>1. \A j \in R : j \in CountedIn(t, N)
    BY <1>5, <1>6, <1>8
  <2>2. \A j \in CountedIn(t, N) : j \in R
    BY <1>5, <1>7, <1>9
  <2> QED BY <2>1, <2>2 DEF CutToWindow, CountedIn
<1> QED BY <1>10 DEF t, u

(* Only a restart request touches the log, the records and the clock.      *)
LEMMA OnlyDecideRequest ==
  [Next]_vars => DecideRequest \/ UNCHANGED <<decisions, restartHistory, clock>>
BY DEF Next, Work, Environment, HandleRequest, vars, restartVars,
   LoadAtBoot, LoadCommand, UnloadCommand, ProcessStops, ChildDies, ChildPanics,
   RequestRestart, StrategyStopped, IndexerStopped

LEMMA BreakerStep == BreakerInv /\ [Next]_vars => BreakerInv'
<1> SUFFICES ASSUME BreakerInv, [Next]_vars PROVE BreakerInv'
  OBVIOUS
<1>1. TypeOK'
  BY TypeStep DEF BreakerInv
<1>2. CASE UNCHANGED <<decisions, restartHistory, clock>>
  BY <1>1, <1>2 DEF BreakerInv, HistoryKept, TimesGrow, BreakerTrips, Kept, Counted
<1>3. CASE DecideRequest
  <2> DEFINE s == decisions
             e == [time |-> clock', full |-> FALSE]
             records == InWindow(Append(s, e), Len(s) + 1)
             full == Cardinality(records) >= RestartThreshold
             d == [time |-> clock', full |-> full]
  <2>1. /\ decisions' = Append(s, d)
        /\ restartHistory' = IF full THEN {} ELSE records
        /\ clock' \in clock..MaxClock
    BY <1>3 DEF DecideRequest
  <2>2. clock' \in Nat /\ clock' >= clock /\ s \in Seq(Decision) /\ clock \in Nat
    BY <2>1, ManagerAssumption DEF BreakerInv, TypeOK
  <2>3. full \in BOOLEAN
    OBVIOUS
  <2>4. d \in Decision /\ e \in Decision /\ d.time = clock' /\ e.time = clock'
        /\ d.full = full
    BY <2>2, <2>3 DEF Decision
  <2>5. PICK N \in Nat : N = Len(s) + 1 /\ N \in 1..N
    BY <2>2
  <2>6. \A i \in 1..Len(s) : s[i].time <= clock'
    <3>1. \A i \in 1..Len(s) : s[i] \in Decision
      BY <2>2
    <3>2. \A x \in Decision : x.time \in Nat
      BY DEF Decision
    <3>3. \A i \in 1..Len(s) : s[i].time <= clock
      BY DEF BreakerInv, TimesGrow
    <3> QED BY <2>2, <3>1, <3>2, <3>3
  <2>7. restartHistory = IF Len(s) = 0 THEN {}
                         ELSE IF s[Len(s)].full THEN {} ELSE CountedIn(s, Len(s))
    BY DEF BreakerInv, HistoryKept, Kept, Counted, CountedIn
  <2>8. records = CutToWindow(restartHistory, Append(s, e), N)
    BY <2>5 DEF InWindow, CutToWindow
  <2> HIDE DEF records, full, d, e
  <2>9. records = CountedIn(Append(s, d), N)
    <3> DEFINE h == restartHistory
    <3>1. /\ d \in Decision /\ e \in Decision /\ N \in Nat /\ N = Len(s) + 1
          /\ d.time = e.time /\ \A i \in 1..Len(s) : s[i].time <= d.time
      BY <2>4, <2>5, <2>6
    <3>2. s \in Seq(Decision)
      BY <2>2
    <3>3. h = IF Len(s) = 0 THEN {}
              ELSE IF s[Len(s)].full THEN {} ELSE CountedIn(s, Len(s))
      BY <2>7
    <3> HIDE DEF h, s
    <3>4. CutToWindow(h, Append(s, e), N) = CountedIn(Append(s, d), N)
      BY <3>1, <3>2, <3>3, CountedNext
    <3> QED BY <2>8, <3>4 DEF h, s
  <2> DEFINE t == Append(s, d)
  <2>10. /\ Len(t) = N /\ t[N] = d /\ t \in Seq(Decision)
         /\ \A i \in 1..Len(s) : t[i] = s[i] /\ CountedIn(t, i) = CountedIn(s, i)
         /\ \A i \in 1..N : i = N \/ i \in 1..Len(s)
    BY <2>2, <2>4, <2>5, CountedAppend
  <2> HIDE DEF t
  <2>11. decisions' = t
    BY <2>1 DEF t
  <2>12. \A i : Counted(i)' = CountedIn(t, i) /\ Counted(i) = CountedIn(s, i)
    BY <2>11 DEF Counted, CountedIn
  <2>13. BreakerTrips'
    <3> SUFFICES ASSUME NEW i \in 1..N
                 PROVE  t[i].full <=> Cardinality(CountedIn(t, i)) >= RestartThreshold
      BY <2>10, <2>11 DEF BreakerTrips, Counted, CountedIn
    <3>1. CASE i = N
      BY <2>4, <2>9, <2>10, <3>1 DEF full, t
    <3>2. CASE i \in 1..Len(s)
      <4>1. s[i].full <=> Cardinality(CountedIn(s, i)) >= RestartThreshold
        BY <2>12, <3>2 DEF BreakerInv, BreakerTrips
      <4> QED BY <2>10, <3>2, <4>1
    <3> QED BY <2>10, <3>1, <3>2
  <2>14. HistoryKept'
    <3>1. restartHistory' = IF t[N].full THEN {} ELSE CountedIn(t, N)
      BY <2>1, <2>4, <2>9, <2>10 DEF t
    <3>2. Len(decisions') = N /\ N # 0
      BY <2>5, <2>10, <2>11
    <3> QED BY <2>11, <2>12, <3>1, <3>2 DEF HistoryKept, Kept
  <2>15. TimesGrow'
    <3>1. \A i \in 1..N : t[i].time <= clock'
      BY <2>2, <2>4, <2>6, <2>10
    <3>2. ASSUME NEW i \in 1..N, NEW j \in 1..N, i <= j
          PROVE  t[i].time <= t[j].time
      <4>1. CASE j = N
        BY <2>4, <2>10, <3>1, <4>1
      <4>2. CASE j \in 1..Len(s)
        <5>1. i \in 1..Len(s)
          BY <2>2, <2>5, <3>2, <4>2
        <5> QED BY <2>10, <3>2, <4>2, <5>1 DEF BreakerInv, TimesGrow
      <4> QED BY <2>10, <4>1, <4>2
    <3> QED BY <2>10, <2>11, <3>1, <3>2 DEF TimesGrow
  <2> QED BY <1>1, <2>13, <2>14, <2>15 DEF BreakerInv
<1> QED BY <1>2, <1>3, OnlyDecideRequest

(* BreakerTrips holds in every reachable state, whatever the threshold, the*)
(* window and the spacing of the requests.                                 *)
THEOREM ManagerBreakerTrips == Spec => [](TypeOK /\ BreakerTrips)
<1>1. Init => BreakerInv
  <2> SUFFICES ASSUME Init PROVE BreakerInv
    OBVIOUS
  <2>1. decisions = <<>> /\ Len(decisions) = 0 /\ restartHistory = {}
    BY DEF Init
  <2> QED BY <2>1, TypeInit
          DEF BreakerInv, HistoryKept, TimesGrow, BreakerTrips
<1>2. BreakerInv /\ [Next]_vars => BreakerInv'
  BY BreakerStep
<1>3. BreakerInv => TypeOK /\ BreakerTrips
  BY DEF BreakerInv
<1> QED BY <1>1, <1>2, <1>3, PTL DEF Spec

(* In particular the manager's maps and histories keep their types         *)
(* through every spawn, stop, crash and reset.                             *)
THEOREM ManagerTypeCorrect == Spec => []TypeOK
BY ManagerBreakerTrips, PTL

-------------------------------------------------------------------------------
(* The connections, action by action.                                      *)

(* Loading a strategy connects what it spawns.                             *)
LEMMA LoadConnects ==
  ASSUME ConnectionInv, NEW id \in Strategies, LoadStrategy(id), handling = "idle",
         UNCHANGED <<handling, stopped>>
  PROVE  Connections'
<1> USE Ids
<1>1. /\ TypeOK /\ SpawnedIsTracked /\ UntrackedIsGone
      /\ ConnectedUnlessReplaced /\ WaitedForIsGone
  BY DEF ConnectionInv, Connections
<1>2. CASE id \in strategyInstances
  BY <1>1, <1>2
  DEF LoadStrategy, engineVars, trackVars, Connections, SpawnedIsTracked,
      UntrackedIsGone, WaitedForIsGone, Awaited, ConnectedUnlessReplaced,
      Expected, Connected, Tracked, Replaced
<1>3. CASE id \notin strategyInstances
  <2> DEFINE made == {id} \ Unknown
             ps == Loaded(id)
  <2>1. /\ ps \in SUBSET Processes /\ Spawn(ps)
        /\ indexerPID' = (indexerPID \/ ~indexerSpawned) /\ indexerSpawned' = TRUE
        /\ strategyInstances' = strategyInstances \cup made
        /\ strategyConfigs' = strategyConfigs \cup made
    BY <1>1, <1>3, LoadEffect
  <2>2. /\ indexerPID \in BOOLEAN /\ indexerSpawned \in BOOLEAN
        /\ strategyInstances \subseteq Strategies /\ strategyConfigs \subseteq Strategies
    BY <1>1 DEF TypeOK
  <2>3. /\ indexerPID' = TRUE /\ made \subseteq ps /\ made \subseteq Strategies
        /\ \A p \in ps : p \in made \/ (p = Indexer /\ ~indexerSpawned)
        /\ ~indexerSpawned => Indexer \in ps
    BY <1>1, <2>1, <2>2 DEF SpawnedIsTracked, Loaded
  <2> HIDE DEF ps
  <2>4. /\ told \subseteq told'
        /\ \A p \in ps : process[p] = "none" =>
             process'[p] = "up" /\ p \in told' /\ p \notin broken'
        /\ \A p \in Processes :
             /\ process[p] # "none" \/ p \notin ps => process'[p] = process[p]
             /\ p \in broken => p \in broken' \/ (p \in ps /\ process[p] = "none")
    BY <1>1, <2>1, SpawnEffect
  <2>5. /\ \A p \in Processes : Tracked(p) => Tracked(p)'
        /\ \A p \in ps : Tracked(p)'
    BY <2>1, <2>3 DEF Tracked
  <2>6. SpawnedIsTracked'
    BY <2>1, <2>3 DEF SpawnedIsTracked
  <2>7. UntrackedIsGone'
    BY <1>1, <2>4, <2>5 DEF UntrackedIsGone
  <2>8. WaitedForIsGone'
    BY DEF WaitedForIsGone
  <2>9. ASSUME NEW p \in Expected', p \notin broken'
        PROVE  Connected(p)'
    <3>1. p \in Processes
      BY <2>1, <2>2, <2>3, <2>9 DEF Expected
    <3>2. CASE p \in Expected
      <4>1. p \in broken \/ Connected(p)
        BY <1>1, <3>2 DEF ConnectedUnlessReplaced, Replaced
      <4>2. CASE p \in broken
        BY <2>4, <2>5, <2>9, <3>1, <4>2 DEF Connected
      <4>3. CASE Connected(p)
        BY <2>4, <2>5, <3>1, <4>3 DEF Connected
      <4> QED BY <4>1, <4>2, <4>3
    <3>3. CASE p \notin Expected
      <4>1. p \in made \/ (p = Indexer /\ ~indexerSpawned)
        BY <2>1, <2>9, <3>3 DEF Expected
      <4>2. p \in ps /\ ~Tracked(p)
        BY <1>1, <1>3, <2>2, <2>3, <4>1 DEF Tracked, SpawnedIsTracked
      <4>3. process[p] = "none"
        BY <1>1, <3>1, <4>2 DEF UntrackedIsGone
      <4> QED BY <2>4, <2>5, <4>2, <4>3 DEF Connected
    <3> QED BY <3>2, <3>3
  <2>10. ConnectedUnlessReplaced'
    BY <2>9 DEF ConnectedUnlessReplaced
  <2> QED BY <2>6, <2>7, <2>8, <2>10 DEF Connections
<1> QED BY <1>2, <1>3

(* A process that goes or is replaced in place, without the manager.       *)
LEMMA FailureKeepsConnections ==
  ASSUME ConnectionInv, NEW p \in Processes,
         UNCHANGED <<strategyInstances, strategyConfigs, indexerPID, indexerSpawned,
                     handling>>,
         told' = told \ {p},
         \A q \in Processes : q # p => process'[q] = process[q],
         process'[p] = "none" \/ process'[p] = process[p],
         stopped' = stopped \/ (handling # "idle" => process'[Awaited] = "none"),
         broken \subseteq broken', p \in broken' \/ ~Connected(p)
  PROVE  Connections'
<1>1. /\ SpawnedIsTracked /\ UntrackedIsGone /\ ConnectedUnlessReplaced
      /\ WaitedForIsGone
  BY DEF ConnectionInv, Connections
<1>2. Expected' = Expected /\ \A q \in Processes : Tracked(q)' = Tracked(q)
  BY DEF Expected, Tracked
<1>3. Expected \subseteq Processes /\ Awaited \in Processes
  BY Ids DEF Expected, ConnectionInv, TypeOK, Awaited
<1>4. SpawnedIsTracked'
  BY <1>1 DEF SpawnedIsTracked
<1>5. UntrackedIsGone'
  BY <1>1, <1>2 DEF UntrackedIsGone
<1>6. WaitedForIsGone'
  <2>1. Awaited' = Awaited
    BY DEF Awaited
  <2>2. process[Awaited] = "none" => process'[Awaited] = "none"
    BY <1>3
  <2> QED BY <1>1, <2>1, <2>2 DEF WaitedForIsGone
<1>7. ConnectedUnlessReplaced'
  <2> SUFFICES ASSUME NEW q \in Expected, q \notin broken', ~Replaced(q)
               PROVE  Connected(q)'
    BY <1>2 DEF ConnectedUnlessReplaced, Replaced
  <2>1. Connected(q) /\ q # p
    BY <1>1 DEF ConnectedUnlessReplaced
  <2> QED BY <1>2, <1>3, <2>1 DEF Connected
<1> QED BY <1>4, <1>5, <1>6, <1>7 DEF Connections

LEMMA ConnectionStep == ConnectionInv /\ [Next]_vars => ConnectionInv'
<1> SUFFICES ASSUME ConnectionInv, [Next]_vars PROVE ConnectionInv'
  OBVIOUS
<1> USE Ids
<1>t. TypeOK /\ TypeOK'
  BY TypeStep DEF ConnectionInv
<1>f. /\ SpawnedIsTracked /\ UntrackedIsGone /\ WaitedForIsGone
      /\ ConnectedUnlessReplaced
  BY DEF ConnectionInv, Connections
<1>e. Expected \subseteq Processes /\ Critical \in Processes /\ Indexer \in Processes
  BY <1>t DEF TypeOK, Expected
<1>s. SUFFICES Connections'
  BY <1>t DEF ConnectionInv
<1>1. CASE LoadAtBoot
  <2>1. boot \in Seq(Strategies) /\ boot # <<>> /\ LoadStrategy(Head(boot))
    BY <1>1, <1>t DEF LoadAtBoot, TypeOK
  <2>2. Head(boot) \in Strategies
    BY <2>1
  <2> QED BY <1>1, <2>1, <2>2, LoadConnects DEF LoadAtBoot, restartVars
<1>2. ASSUME NEW id \in Strategies, LoadCommand(id) PROVE Connections'
  BY <1>2, LoadConnects DEF LoadCommand, restartVars
<1>3. ASSUME NEW id \in Strategies, UnloadCommand(id) PROVE Connections'
  <2>1. /\ Poison(id) /\ id \in Processes /\ handling = "idle"
        /\ strategyConfigs' = strategyConfigs \ {id}
        /\ UNCHANGED <<strategyInstances, indexerPID, indexerSpawned, handling, stopped>>
    BY <1>3 DEF UnloadCommand, restartVars
  <2>2. /\ UNCHANGED <<told, broken>>
        /\ \A q \in Processes : /\ process'[q] = "none" <=> process[q] = "none"
                                /\ q # id => process'[q] = process[q]
    BY <1>t, <2>1, PoisonEffect
  <2>3. Expected' \subseteq Expected \ {id} /\ \A q \in Processes : Tracked(q)' = Tracked(q)
    BY <2>1 DEF Expected, Tracked
  <2>4. UntrackedIsGone'
    BY <1>f, <2>2, <2>3 DEF UntrackedIsGone
  <2>5. SpawnedIsTracked' /\ WaitedForIsGone'
    BY <1>f, <2>1 DEF SpawnedIsTracked, WaitedForIsGone
  <2>6. ConnectedUnlessReplaced'
    <3> SUFFICES ASSUME NEW q \in Expected \ {id}, q \notin broken PROVE Connected(q)'
      BY <2>2, <2>3 DEF ConnectedUnlessReplaced
    <3>1. Connected(q) /\ q \in Processes
      BY <1>e, <1>f, <2>1 DEF ConnectedUnlessReplaced, Replaced
    <3> QED BY <2>2, <2>3, <3>1 DEF Connected
  <2> QED BY <2>4, <2>5, <2>6 DEF Connections
<1>4. ASSUME NEW p \in Processes, ProcessStops(p) PROVE Connections'
  <2>1. /\ process[p] = "stopping" /\ process' = [process EXCEPT ![p] = "none"]
        /\ told' = told \ {p} /\ UNCHANGED broken
        /\ stopped' = (stopped \/ (handling # "idle" /\ p = Awaited))
        /\ UNCHANGED <<strategyInstances, strategyConfigs, indexerPID, indexerSpawned,
                       handling>>
    BY <1>4 DEF ProcessStops, trackVars
  <2>2. process'[p] = "none" /\ \A q \in Processes : q # p => process'[q] = process[q]
    BY <1>t, <2>1 DEF TypeOK
  <2>3. stopped' = stopped \/ (handling # "idle" => process'[Awaited] = "none")
    <3>1. CASE handling # "idle" /\ p = Awaited
      BY <2>2, <3>1
    <3>2. CASE ~(handling # "idle" /\ p = Awaited)
      BY <1>t, <2>1, <3>2 DEF TypeOK
    <3> QED BY <3>1, <3>2
  <2>4. ~Connected(p)
    BY <2>1 DEF Connected
  <2> QED BY <2>1, <2>2, <2>3, <2>4, FailureKeepsConnections
<1>5. ASSUME NEW p \in Processes, ChildDies(p) PROVE Connections'
  <2>1. /\ process' = [process EXCEPT ![p] = "none"]
        /\ told' = told \ {p} /\ broken' = broken \cup {p}
        /\ UNCHANGED <<strategyInstances, strategyConfigs, indexerPID, indexerSpawned,
                       handling, stopped>>
    BY <1>5 DEF ChildDies, trackVars, restartVars
  <2>2. process'[p] = "none" /\ \A q \in Processes : q # p => process'[q] = process[q]
    BY <1>t, <2>1 DEF TypeOK
  <2> QED BY <2>1, <2>2, FailureKeepsConnections
<1>6. ASSUME NEW p \in Processes, ChildPanics(p) PROVE Connections'
  BY <1>6, FailureKeepsConnections DEF ChildPanics, trackVars, restartVars
<1>7. CASE RequestRestart
  BY <1>7, <1>f
  DEF RequestRestart, engineVars, trackVars, restartVars, Connections,
      SpawnedIsTracked, UntrackedIsGone, WaitedForIsGone, Awaited,
      ConnectedUnlessReplaced, Expected, Connected, Tracked, Replaced
<1>8. CASE DecideRequest
  <2>1. handling = "idle" /\ UNCHANGED <<strategyInstances, strategyConfigs, indexerPID,
                                         indexerSpawned>>
    BY <1>8 DEF DecideRequest, trackVars
  <2>2. Expected' = Expected /\ \A q \in Processes : Tracked(q)' = Tracked(q)
    BY <2>1 DEF Expected, Tracked
  <2>3. CASE Critical \in strategyInstances
    <3>1. /\ Poison(Critical) /\ handling' = "strategy"
          /\ stopped' = (process[Critical] = "none")
      BY <1>8, <2>3 DEF DecideRequest
    <3>2. /\ UNCHANGED <<told, broken>>
          /\ \A q \in Processes : /\ process'[q] = "none" <=> process[q] = "none"
                                  /\ q # Critical => process'[q] = process[q]
      BY <1>e, <1>t, <3>1, PoisonEffect
    <3>3. SpawnedIsTracked' /\ UntrackedIsGone'
      BY <1>f, <2>1, <2>2, <3>2 DEF SpawnedIsTracked, UntrackedIsGone
    <3>4. WaitedForIsGone'
      BY <1>e, <3>1, <3>2 DEF WaitedForIsGone, Awaited
    <3>5. ConnectedUnlessReplaced'
      <4> SUFFICES ASSUME NEW q \in Expected, q \notin broken, q # Critical
                   PROVE  Connected(q)'
        BY <2>2, <3>1, <3>2 DEF ConnectedUnlessReplaced, Replaced
      <4>1. Connected(q) /\ q \in Processes
        BY <1>e, <1>f, <2>1 DEF ConnectedUnlessReplaced, Replaced
      <4> QED BY <2>2, <3>2, <4>1 DEF Connected
    <3> QED BY <3>3, <3>4, <3>5 DEF Connections
  <2>4. CASE Critical \notin strategyInstances
    <3>1. UNCHANGED <<engineVars, handling, stopped>>
      BY <1>8, <2>4 DEF DecideRequest
    <3> QED BY <1>f, <2>1, <3>1
            DEF engineVars, Connections, SpawnedIsTracked, UntrackedIsGone,
                WaitedForIsGone, Awaited, ConnectedUnlessReplaced, Expected,
                Connected, Tracked, Replaced
  <2> QED BY <2>3, <2>4
<1>9. CASE StrategyStopped
  <2>1. /\ handling = "strategy" /\ stopped /\ Poison(Indexer) /\ handling' = "indexer"
        /\ stopped' = (process[Indexer] = "none")
        /\ strategyInstances' = strategyInstances \ {Critical}
        /\ UNCHANGED <<strategyConfigs, indexerPID, indexerSpawned>>
    BY <1>9 DEF StrategyStopped, HasStopped
  <2>2. /\ UNCHANGED <<told, broken>>
        /\ \A q \in Processes : /\ process'[q] = "none" <=> process[q] = "none"
                                /\ q # Indexer => process'[q] = process[q]
    BY <1>e, <1>t, <2>1, PoisonEffect
  <2>3. process[Critical] = "none"
    BY <1>f, <2>1 DEF WaitedForIsGone, Awaited
  <2>4. Expected' = Expected /\ \A q \in Processes : q # Critical => Tracked(q)' = Tracked(q)
    BY <2>1 DEF Expected, Tracked
  <2>5. SpawnedIsTracked' /\ UntrackedIsGone'
    BY <1>f, <2>1, <2>2, <2>3, <2>4 DEF SpawnedIsTracked, UntrackedIsGone
  <2>6. WaitedForIsGone'
    BY <1>e, <2>1, <2>2 DEF WaitedForIsGone, Awaited
  <2>7. ConnectedUnlessReplaced'
    <3> SUFFICES ASSUME NEW q \in Expected, q \notin broken, q # Critical, q # Indexer
                 PROVE  Connected(q)'
      BY <2>1, <2>2, <2>4 DEF ConnectedUnlessReplaced, Replaced
    <3>1. Connected(q) /\ q \in Processes
      BY <1>e, <1>f, <2>1 DEF ConnectedUnlessReplaced, Replaced
    <3> QED BY <2>2, <2>4, <3>1 DEF Connected
  <2> QED BY <2>5, <2>6, <2>7 DEF Connections
<1>10. CASE IndexerStopped
  <2> DEFINE ps == {Indexer} \cup Fresh
  <2>1. /\ handling = "indexer" /\ stopped /\ Spawn(ps) /\ handling' = "idle"
        /\ strategyInstances' = strategyInstances \cup Fresh
        /\ indexerPID' = TRUE /\ indexerSpawned' = TRUE /\ UNCHANGED strategyConfigs
    BY <1>10 DEF IndexerStopped, HasStopped
  <2>2. /\ ps \in SUBSET Processes /\ \A p \in ps : p = Indexer \/ p = Critical
        /\ Critical \in strategyConfigs => Critical \in ps
    BY <1>e DEF Fresh
  <2>3. process[Indexer] = "none" /\ process[Critical] = "none"
    BY <1>e, <1>f, <2>1 DEF WaitedForIsGone, Awaited, UntrackedIsGone, Tracked
  <2>4. Indexer \in ps /\ \A p \in ps : Tracked(p)'
    BY <2>1 DEF Tracked, Fresh
  <2>5. \A p \in Processes : Tracked(p) => Tracked(p)'
    BY <2>1 DEF Tracked
  <2> HIDE DEF ps
  <2>6. /\ told \subseteq told'
        /\ \A p \in ps : process[p] = "none" =>
             process'[p] = "up" /\ p \in told' /\ p \notin broken'
        /\ \A p \in Processes :
             /\ process[p] # "none" \/ p \notin ps => process'[p] = process[p]
             /\ p \in broken => p \in broken' \/ (p \in ps /\ process[p] = "none")
    BY <1>t, <2>1, <2>2, SpawnEffect
  <2>7. SpawnedIsTracked' /\ WaitedForIsGone'
    BY <2>1 DEF SpawnedIsTracked, WaitedForIsGone
  <2>8. UntrackedIsGone'
    BY <1>f, <2>4, <2>5, <2>6 DEF UntrackedIsGone
  <2>9. ASSUME NEW p \in Expected', p \notin broken' PROVE Connected(p)'
    <3>1. CASE p \in ps
      BY <2>2, <2>3, <2>4, <2>6, <3>1 DEF Connected
    <3>2. CASE p \notin ps
      <4>1. p \in Expected /\ p \in Processes /\ p # Indexer /\ p # Critical
        BY <1>e, <2>1, <2>2, <2>4, <2>9, <3>2 DEF Expected
      <4>2. Connected(p)
        BY <1>f, <2>6, <2>9, <3>2, <4>1 DEF ConnectedUnlessReplaced, Replaced
      <4> QED BY <2>5, <2>6, <3>2, <4>1, <4>2 DEF Connected
    <3> QED BY <3>1, <3>2
  <2>10. ConnectedUnlessReplaced'
    BY <2>9 DEF ConnectedUnlessReplaced
  <2> QED BY <2>7, <2>8, <2>10 DEF Connections
<1>11. CASE UNCHANGED vars
  BY <1>11, <1>f
  DEF vars, engineVars, trackVars, restartVars, Connections,
      SpawnedIsTracked, UntrackedIsGone, WaitedForIsGone, Awaited,
      ConnectedUnlessReplaced, Expected, Connected, Tracked, Replaced
<1> QED
  BY <1>1, <1>2, <1>3, <1>4, <1>5, <1>6, <1>7, <1>8, <1>9, <1>10, <1>11
  DEF Next, Work, Environment, HandleRequest

(* OnlyFailuresDisconnect holds in every reachable state, for any number   *)
(* of failures, restart requests, loads and unloads, in any order.         *)
THEOREM ManagerStaysConnected == Spec => []OnlyFailuresDisconnect
<1>1. Init => ConnectionInv
  <2> SUFFICES ASSUME Init PROVE ConnectionInv
    OBVIOUS
  <2> QED BY TypeInit, Ids
          DEF Init, ConnectionInv, Connections, SpawnedIsTracked, UntrackedIsGone,
              WaitedForIsGone, ConnectedUnlessReplaced, Expected
<1>2. ConnectionInv /\ [Next]_vars => ConnectionInv'
  BY ConnectionStep
<1>3. ConnectionInv => OnlyFailuresDisconnect
  BY DEF ConnectionInv, Connections, ConnectedUnlessReplaced, Replaced,
         OnlyFailuresDisconnect
<1> QED BY <1>1, <1>2, <1>3, PTL DEF Spec
==============================================================================
