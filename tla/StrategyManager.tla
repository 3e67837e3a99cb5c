--------------------------- MODULE StrategyManager ---------------------------
(***************************************************************************)
(* StrategyManagerActor (internal/actors/strategy_manager.go): spawns the  *)
(* indexer and the strategies, forwards the indexer's events to the        *)
(* strategies it tracks, and replaces indexer and strategy when the        *)
(* strategy asks for it.  Its handlers run one at a time, but the restart  *)
(* request waits in the middle for its children to stop.                   *)
(*                                                                         *)
(* The actor engine is external.  A process id names at most one process:  *)
(* spawning one that exists does nothing.  It publishes stops on its event *)
(* stream only, to which nothing in src/ subscribes the manager: the       *)
(* handler of ActorStoppedEvent and the automatic restarts behind it       *)
(* (strategy_manager.go:135-176, 343-401) never run and are not here.  A   *)
(* process the engine gives up stays tracked, and stays away, until a      *)
(* restart request replaces it.                                            *)
(***************************************************************************)
EXTENDS Integers, FiniteSets, Sequences

CONSTANTS
  Indexer,            \* the process id indexer/primary
  Critical,           \* the strategy "chain-event-processor"
  Others,             \* the other strategies
  BootOrder,          \* the strategies main loads, in its order
  Unknown,            \* strategies of a kind that is not in the registry
  RestartThreshold,   \* cfg.Indexer.RestartThreshold
  RestartTimeWindow,  \* cfg.Indexer.RestartTimeWindow
  MaxClock, MaxDeaths, MaxPanics, MaxRequests, MaxCommands  \* bounds

Strategies == {Critical} \cup Others
Processes == {Indexer} \cup Strategies

ASSUME ManagerAssumption ==
  /\ Indexer \notin Strategies /\ Critical \notin Others
  /\ BootOrder \in Seq(Strategies) /\ Unknown \subseteq Others
  /\ RestartThreshold \in Nat \ {0} /\ RestartTimeWindow \in Nat \ {0}
  /\ MaxClock \in Nat /\ MaxDeaths \in Nat /\ MaxPanics \in Nat
  /\ MaxRequests \in Nat /\ MaxCommands \in Nat

VARIABLES
  process,            \* the engine's processes: "none", "up" or "stopping"
  told,               \* processes that know the manager's process id
  broken,             \* history: processes that failed since they were spawned
  boot,               \* LoadStrategyCommands of main still in the mailbox
  requests,           \* IndexerRestartRequests in the mailbox
  strategyInstances, strategyConfigs,
  indexerPID,         \* whether it is set
  indexerSpawned,
  restartHistory,     \* as positions in decisions
  handling,           \* what handleIndexerRestartRequest waits for, or "idle"
  stopped,            \* the process waited for has stopped
  clock,              \* the time of the last restart request
  decisions,          \* history: restart requests and how they were decided
  deaths, panics, asked, commands  \* counters for the bounds

engineVars == <<process, told, broken>>
mailVars == <<boot, requests>>
trackVars == <<strategyInstances, strategyConfigs, indexerPID, indexerSpawned>>
restartVars == <<restartHistory, handling, stopped, clock, decisions>>
boundVars == <<deaths, panics, asked, commands>>
vars == <<engineVars, mailVars, trackVars, restartVars, boundVars>>

-------------------------------------------------------------------------------
(* The engine.                                                             *)

(* Spawn the processes of ps that do not exist and send each its message:  *)
(* SetDownstream to the indexer, SetParentPID to a strategy.               *)
Spawn(ps) ==
  LET new == {p \in ps : process[p] = "none"}
  IN /\ process' = [p \in Processes |-> IF p \in new THEN "up" ELSE process[p]]
     /\ told' = told \cup ps
     /\ broken' = broken \ new

Poison(p) ==
  /\ process' = [process EXCEPT ![p] = IF @ = "up" THEN "stopping" ELSE @]
  /\ UNCHANGED <<told, broken>>

Awaited == IF handling = "indexer" THEN Indexer ELSE Critical

(* A poisoned process has finished what was in its mailbox.                *)
ProcessStops(p) ==
  /\ process[p] = "stopping"
  /\ process' = [process EXCEPT ![p] = "none"]
  /\ told' = told \ {p}
  /\ stopped' = (stopped \/ (handling # "idle" /\ p = Awaited))
  /\ UNCHANGED <<broken, mailVars, trackVars, restartHistory, handling, clock,
                 decisions, boundVars>>

(* A child has failed more often than WithMaxRestarts allows.              *)
ChildDies(p) ==
  /\ process[p] = "up"
  /\ deaths < MaxDeaths /\ deaths' = deaths + 1
  /\ process' = [process EXCEPT ![p] = "none"]
  /\ told' = told \ {p}
  /\ broken' = broken \cup {p}
  /\ UNCHANGED <<mailVars, trackVars, restartVars, panics, asked, commands>>

(* A child has failed and the engine runs a new receiver under the same    *)
(* process id: what it was told by message is lost.                        *)
ChildPanics(p) ==
  /\ process[p] = "up" /\ p \in told
  /\ panics < MaxPanics /\ panics' = panics + 1
  /\ told' = told \ {p}
  /\ broken' = broken \cup {p}
  /\ UNCHANGED <<process, mailVars, trackVars, restartVars, deaths, asked, commands>>

(* triggerIndexerRestart, of a strategy that may be stopping already.      *)
RequestRestart ==
  /\ process[Critical] # "none" /\ Critical \in told
  /\ asked < MaxRequests /\ asked' = asked + 1
  /\ requests' = requests + 1
  /\ UNCHANGED <<engineVars, boot, trackVars, restartVars, deaths,
                 panics, commands>>

-------------------------------------------------------------------------------
Init ==
  /\ process = [p \in Processes |-> "none"]
  /\ told = {}
  /\ broken = {}
  /\ boot = BootOrder /\ requests = 0
  /\ strategyInstances = {} /\ strategyConfigs = {}
  /\ indexerPID = FALSE /\ indexerSpawned = FALSE
  /\ restartHistory = {} /\ handling = "idle" /\ stopped = FALSE
  /\ clock = 0 /\ decisions = <<>>
  /\ deaths = 0 /\ panics = 0 /\ asked = 0 /\ commands = 0

-------------------------------------------------------------------------------
(* Loading and unloading.                                                  *)

(* loadStrategy: the indexer comes first when it is not there, even when   *)
(* no strategy follows it.                                                 *)
LoadStrategy(id) ==
  LET made == {id} \ Unknown
  IN IF id \in strategyInstances
     THEN UNCHANGED <<engineVars, trackVars>>
     ELSE /\ Spawn(made \cup (IF indexerSpawned THEN {} ELSE {Indexer}))
          /\ indexerPID' = (indexerPID \/ ~indexerSpawned)
          /\ indexerSpawned' = TRUE
          /\ strategyInstances' = strategyInstances \cup made
          /\ strategyConfigs' = strategyConfigs \cup made

LoadAtBoot ==
  /\ handling = "idle"
  /\ boot # <<>>
  /\ LoadStrategy(Head(boot))
  /\ boot' = Tail(boot)
  /\ UNCHANGED <<requests, restartVars, boundVars>>

LoadCommand(id) ==
  /\ handling = "idle"
  /\ commands < MaxCommands /\ commands' = commands + 1
  /\ LoadStrategy(id)
  /\ UNCHANGED <<mailVars, restartVars, deaths, panics, asked>>

(* unloadStrategy: the instance stays tracked; only the report of its stop *)
(* would remove it.                                                        *)
UnloadCommand(id) ==
  /\ handling = "idle"
  /\ id \in strategyInstances
  /\ commands < MaxCommands /\ commands' = commands + 1
  /\ strategyConfigs' = strategyConfigs \ {id}
  /\ Poison(id)
  /\ UNCHANGED <<mailVars, strategyInstances, indexerPID, indexerSpawned,
                 restartVars, deaths, panics, asked>>

-------------------------------------------------------------------------------
(* handleIndexerRestartRequest.                                            *)

KeepAll(log, n) == restartHistory \cup {n}  \* mutant: no clean-up
InWindow(log, n) ==
  {i \in restartHistory \cup {n} : log[i].time > log[n].time - RestartTimeWindow}

RequestAlways == requests' = requests - 1  \* mutant: nobody asked
TakeRequest == requests > 0 /\ requests' = requests - 1

(* The request is recorded and decided before its sender is looked up, so  *)
(* one that fails there counts, and may use up the full reset.             *)
DecideRequest ==
  /\ handling = "idle"
  /\ TakeRequest
  /\ indexerPID
  /\ clock' \in clock..MaxClock
  /\ LET n == Len(decisions) + 1
         records == InWindow(Append(decisions, [time |-> clock', full |-> FALSE]), n)
         full == Cardinality(records) >= RestartThreshold
     IN /\ decisions' = Append(decisions, [time |-> clock', full |-> full])
        /\ restartHistory' = IF full THEN {} ELSE records
  /\ IF Critical \in strategyInstances
     THEN /\ Poison(Critical)
          /\ handling' = "strategy"
          /\ stopped' = (process[Critical] = "none")
     ELSE UNCHANGED <<engineVars, handling, stopped>>
  /\ UNCHANGED <<boot, trackVars, boundVars>>

NotAwaited == handling # "idle"  \* mutant: does not wait
HasStopped == stopped

StrategyStopped ==
  /\ handling = "strategy" /\ HasStopped
  /\ strategyInstances' = strategyInstances \ {Critical}
  /\ Poison(Indexer)
  /\ handling' = "indexer"
  /\ stopped' = (process[Indexer] = "none")
  /\ UNCHANGED <<mailVars, strategyConfigs, indexerPID, indexerSpawned,
                 restartHistory, clock, decisions, boundVars>>

(* spawnFreshStrategyActor: without a config the strategy is not replaced. *)
StillTracked == strategyInstances \cap {Critical}  \* mutant
Fresh == strategyConfigs \cap {Critical}

IndexerStopped ==
  /\ handling = "indexer" /\ HasStopped
  /\ Spawn({Indexer} \cup Fresh)
  /\ strategyInstances' = strategyInstances \cup Fresh
  /\ indexerPID' = TRUE /\ indexerSpawned' = TRUE
  /\ handling' = "idle" /\ stopped' = FALSE
  /\ UNCHANGED <<mailVars, strategyConfigs, restartHistory, clock, decisions,
                 boundVars>>

-------------------------------------------------------------------------------
HandleRequest == DecideRequest \/ StrategyStopped \/ IndexerStopped

(* What goes on without anyone asking: the manager's mailbox and poisoned  *)
(* processes.                                                              *)
Work ==
  \/ LoadAtBoot
  \/ HandleRequest
  \/ \E p \in Processes : ProcessStops(p)

Environment ==
  \/ RequestRestart
  \/ \E id \in Strategies : LoadCommand(id) \/ UnloadCommand(id)
  \/ \E p \in Processes : ChildDies(p) \/ ChildPanics(p)

Next == Work \/ Environment

Spec == Init /\ [][Next]_vars
FairSpec == Spec /\ WF_vars(Work)

-------------------------------------------------------------------------------
(* Properties.                                                             *)

Decision == [time : Nat, full : BOOLEAN]

TypeOK ==
  /\ process \in [Processes -> {"none", "up", "stopping"}]
  /\ told \subseteq Processes
  /\ broken \subseteq Processes
  /\ boot \in Seq(Strategies) /\ requests \in Nat
  /\ strategyInstances \subseteq Strategies /\ strategyConfigs \subseteq Strategies
  /\ indexerPID \in BOOLEAN /\ indexerSpawned \in BOOLEAN
  /\ handling \in {"idle", "strategy", "indexer"} /\ stopped \in BOOLEAN
  /\ clock \in Nat /\ decisions \in Seq(Decision)
  /\ restartHistory \subseteq 1..Len(decisions)
  /\ deaths \in Nat /\ panics \in Nat /\ asked \in Nat /\ commands \in Nat

(* The requests before i, and i, that count against it: inside the window  *)
(* that ends at i and after the last full reset.                           *)
Counted(i) ==
  {j \in 1..i : /\ decisions[j].time > decisions[i].time - RestartTimeWindow
                /\ \A k \in j..(i - 1) : ~decisions[k].full}

(* The circuit breaker: a request is decided as a full reset exactly when  *)
(* it is the RestartThreshold-th of those that count, for any spacing.     *)
BreakerTrips ==
  \A i \in 1..Len(decisions) :
    decisions[i].full <=> Cardinality(Counted(i)) >= RestartThreshold

Tracked(p) == IF p = Indexer THEN indexerPID ELSE p \in strategyInstances

(* p runs under the process id the manager sends to, and was told what it  *)
(* needs to send to the manager.                                           *)
Connected(p) == process[p] = "up" /\ p \in told /\ Tracked(p)

Expected == strategyConfigs \cup (IF indexerSpawned THEN {Indexer} ELSE {})

(* Whenever the manager is between two messages, the indexer and every     *)
(* configured strategy are connected, or have themselves failed since they *)
(* were spawned: no order of loads, unloads, restart requests and stops,   *)
(* and no failure while the manager waits for another process, disconnects *)
(* a process.  (Which failed, and is left so, is what the code does.)      *)
OnlyFailuresDisconnect ==
  handling = "idle" => \A p \in Expected : p \in broken \/ Connected(p)

(* A restart request puts everything right, whatever has failed before it  *)
(* or fails while it is handled: the manager gets out of both its waits,   *)
(* and there is a moment at which indexer and critical strategy are freshly*)
(* connected, unless the strategy was unloaded.                            *)
RequestHeals ==
  (requests > 0 /\ Critical \in strategyConfigs) ~>
    \/ Critical \notin strategyConfigs
    \/ \A p \in {Indexer, Critical} : Connected(p) /\ p \notin broken
==============================================================================
