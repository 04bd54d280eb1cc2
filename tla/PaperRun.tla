------------------------------ MODULE PaperRun ------------------------------
(***************************************************************************)
(* A paper run of a strategy is three things kept in step without a common *)
(* lock: a StrategyRun row in the database (paper_run_service.py), a       *)
(* LiveStrategyRunner in the registry (runner.py), and a polling thread    *)
(* with a stop flag in the scheduler (scheduler.py).                       *)
(*                                                                         *)
(* Request workers run the endpoints start, stop and delete; every run has *)
(* its polling thread; the process may be killed and started again at any  *)
(* moment.  A step is what happens between two points where another thread *)
(* can interfere: a database commit, a lock, a network call, a check of a  *)
(* field another thread writes.                                            *)
(*                                                                         *)
(* Prices, bars and conditions are choices; figures are the number of      *)
(* fills.  Only what the risk manager decides of an order matters here:    *)
(* accepted or refused (see RiskManager).                                  *)
(***************************************************************************)
EXTENDS Naturals, FiniteSets

CONSTANTS
  Run,          \* run identifiers
  Worker,       \* request threads of the API
  NoRun,        \* what an idle request works on
  Strategy,     \* strategies
  StrategyOf,   \* StrategyOf[r]: the strategy run r would belong to
  MaxFailures,  \* MAX_CONSECUTIVE_FAILURES
  MaxFills      \* bound of the model: orders one run may fill

ASSUME PaperRunAssumption ==
  /\ NoRun \notin Run
  /\ StrategyOf \in [Run -> Strategy]
  /\ MaxFailures \in Nat \ {0} /\ MaxFills \in Nat

VARIABLES
  row,         \* row[r]: status of the run's row
  saved,       \* saved[r]: fills counted by the metrics in the row
  strategies,  \* strategies that exist
  up,          \* the process runs
  runner,      \* runner[r]: state of the LiveStrategyRunner
  held,        \* held[r]: the runner holds a position
  fills,       \* fills[r]: orders the runner has filled
  registry,    \* run_registry: runs whose runner can be found
  threads,     \* paper_scheduler._threads and ._stop_flags: their keys
  flag,        \* flag[r]: the stop event of the thread is set
  loop,        \* loop[r]: where the polling thread stands
  failures,    \* failures[r]: consecutive failed polls
  pc,          \* pc[w]: where request w stands
  arg,         \* arg[w]: the run request w works on
  found,       \* found[w]: a stop request holds the runner
  late         \* history, late[r]: fills made after the runner had stopped

records == <<row, saved, strategies>>
runners == <<runner, held, fills, late>>
tables == <<registry, threads, flag>>
polling == <<loop, failures>>
requests == <<pc, arg, found>>
vars == <<row, saved, strategies, up, runner, held, fills, registry, threads,
          flag, loop, failures, pc, arg, found, late>>

Terminal == {"STOPPED", "FAILED"}   \* RunRegistry.TERMINAL
Alive(r) == loop[r] \notin {"none", "dead"}
Trading(r) == Alive(r) /\ runner[r] = "RUNNING"

TypeOK ==
  /\ row \in [Run -> {"none", "RUNNING", "STOPPED", "HALTED", "FAILED",
                      "INTERRUPTED", "deleted"}]
  /\ saved \in [Run -> 0 .. MaxFills] /\ fills \in [Run -> 0 .. MaxFills]
  /\ late \in [Run -> 0 .. MaxFills]
  /\ strategies \subseteq Strategy /\ up \in BOOLEAN
  /\ runner \in [Run -> {"none", "RUNNING", "STOPPED", "FAILED"}]
  /\ held \in [Run -> BOOLEAN] /\ flag \in [Run -> BOOLEAN]
  /\ registry \subseteq Run /\ threads \subseteq Run
  /\ loop \in [Run -> {"none", "top", "poll", "tick", "tickOrder", "bar",
                       "barEval", "halt", "halting", "haltStop", "end", "dead"}]
  /\ failures \in [Run -> 0 .. MaxFailures]
  /\ pc \in [Worker -> {"idle", "price", "commit", "create", "register",
                        "schedule", "unschedule", "stopRunner", "save"}]
  /\ arg \in [Worker -> Run \cup {NoRun}] /\ found \in [Worker -> BOOLEAN]

Init ==
  /\ row = [r \in Run |-> "none"] /\ saved = [r \in Run |-> 0]
  /\ strategies = Strategy /\ up = TRUE
  /\ runner = [r \in Run |-> "none"] /\ held = [r \in Run |-> FALSE]
  /\ fills = [r \in Run |-> 0] /\ late = [r \in Run |-> 0]
  /\ registry = {} /\ threads = {} /\ flag = [r \in Run |-> FALSE]
  /\ loop = [r \in Run |-> "none"] /\ failures = [r \in Run |-> 0]
  /\ pc = [w \in Worker |-> "idle"]
  /\ arg = [w \in Worker |-> NoRun]
  /\ found = [w \in Worker |-> FALSE]

Goto(w, label) == pc' = [pc EXCEPT ![w] = label]
Return(w) == Goto(w, "idle") /\ arg' = [arg EXCEPT ![w] = NoRun]
LoopTo(r, label) == loop' = [loop EXCEPT ![r] = label]
Stopped(r) == runner' = [runner EXCEPT ![r] = "STOPPED"]

-----------------------------------------------------------------------------
(* start_run                                                               *)

(* The rows `existing` may be: the query takes any RUNNING row, .first().  *)
RunningRows(s) == {r \in Run : StrategyOf[r] = s /\ row[r] = "RUNNING"}
IsRunning(r) == r \in threads /\ Alive(r)

(* A request whose row gets the fresh identifier r passes the check unless *)
(* the row the query happened to take has a live thread.                   *)
Start(w, r) ==
  /\ up /\ pc[w] = "idle"
  /\ row[r] = "none" /\ \A v \in Worker : arg[v] # r
  /\ StrategyOf[r] \in strategies
  /\ \/ RunningRows(StrategyOf[r]) = {}
     \/ \E existing \in RunningRows(StrategyOf[r]) : ~IsRunning(existing)
  /\ arg' = [arg EXCEPT ![w] = r]
  /\ Goto(w, "price")
  /\ UNCHANGED <<records, up, runners, tables, polling, found>>

(* The instrument is resolved and priced over the network, or refused.     *)
StartPrice(w) ==
  /\ pc[w] = "price"
  /\ (Goto(w, "commit") /\ UNCHANGED arg) \/ Return(w)
  /\ UNCHANGED <<records, up, runners, tables, polling, found>>

StartCommit(w) ==
  /\ pc[w] = "commit"
  /\ row' = [row EXCEPT ![arg[w]] = "RUNNING"]
  /\ Goto(w, "create")
  /\ UNCHANGED <<saved, strategies, up, runners, tables, polling, arg, found>>

(* The commit expired the strategy object: reading its definition for the  *)
(* runner fails, outside any handler, when the strategy is gone by now.    *)
StartCreate(w) ==
  /\ pc[w] = "create"
  /\ \/ /\ StrategyOf[arg[w]] \in strategies
        /\ runner' = [runner EXCEPT ![arg[w]] = "RUNNING"]
        /\ Goto(w, "register")
        /\ UNCHANGED arg
     \/ /\ StrategyOf[arg[w]] \notin strategies
        /\ Return(w)
        /\ UNCHANGED runner
  /\ UNCHANGED <<records, up, held, fills, late, tables, polling, found>>

(* Mutant of StartRegister: it also drops runners not scheduled yet.       *)
StartRegister_unscheduled(w) ==
  /\ pc[w] = "register"
  /\ registry' = (registry \cap threads) \cup {arg[w]}
  /\ Goto(w, "schedule")
  /\ UNCHANGED <<records, up, runners, threads, flag, polling, arg, found>>

(* RunRegistry.add drops the finished runners as the new one arrives.      *)
StartRegister(w) ==
  /\ pc[w] = "register"
  /\ registry' = {r \in registry : runner[r] \notin Terminal} \cup {arg[w]}
  /\ Goto(w, "schedule")
  /\ UNCHANGED <<records, up, runners, threads, flag, polling, arg, found>>

(* paper_scheduler.start enters the thread in the table and starts it.     *)
(* When that raises the row is closed; the runner is left as it is.        *)
StartSchedule(w) ==
  /\ pc[w] = "schedule"
  /\ threads' = threads \cup {arg[w]}
  /\ Return(w)
  /\ \/ LoopTo(arg[w], "top") /\ UNCHANGED row
     \/ /\ LoopTo(arg[w], "dead")
        /\ row' = IF row[arg[w]] = "deleted" THEN row
                  ELSE [row EXCEPT ![arg[w]] = "FAILED"]
  /\ UNCHANGED <<saved, strategies, up, runners, registry, flag, failures, found>>

-----------------------------------------------------------------------------
(* stop_run                                                                *)

Stop(w, r) ==
  /\ up /\ pc[w] = "idle"
  /\ row[r] \notin {"none", "deleted"} /\ StrategyOf[r] \in strategies
  /\ arg' = [arg EXCEPT ![w] = r]
  /\ Goto(w, "unschedule")
  /\ UNCHANGED <<records, up, runners, tables, polling, found>>

(* paper_scheduler.stop: the flag leaves the table and is set.             *)
StopSchedule(w) ==
  /\ pc[w] = "unschedule"
  /\ threads' = threads \ {arg[w]}
  /\ flag' = IF arg[w] \in threads THEN [flag EXCEPT ![arg[w]] = TRUE] ELSE flag
  /\ Goto(w, "stopRunner")
  /\ UNCHANGED <<records, up, runners, registry, polling, arg, found>>

StopRunner(w) ==
  /\ pc[w] = "stopRunner"
  /\ found' = [found EXCEPT ![w] = arg[w] \in registry]
  /\ IF arg[w] \in registry THEN Stopped(arg[w]) ELSE UNCHANGED runner
  /\ Goto(w, "save")
  /\ UNCHANGED <<records, up, held, fills, late, tables, polling, arg>>

(* The row is overwritten whatever it says by now; a deleted row makes the *)
(* commit fail.                                                            *)
StopSave(w) ==
  /\ pc[w] = "save"
  /\ IF row[arg[w]] = "deleted" THEN UNCHANGED <<row, saved>>
     ELSE /\ row' = [row EXCEPT ![arg[w]] = "STOPPED"]
          /\ saved' = [saved EXCEPT ![arg[w]] =
                         IF found[w] THEN fills[arg[w]] ELSE @]
  /\ Return(w)
  /\ found' = [found EXCEPT ![w] = FALSE]
  /\ UNCHANGED <<strategies, up, runners, tables, polling>>

(* delete_strategy: the rows of its runs go with it, nothing else does.    *)
DeleteStrategy(s) ==
  /\ up /\ s \in strategies
  /\ strategies' = strategies \ {s}
  /\ row' = [r \in Run |-> IF StrategyOf[r] = s /\ row[r] # "none"
                           THEN "deleted" ELSE row[r]]
  /\ UNCHANGED <<saved, up, runners, tables, polling, requests>>

-----------------------------------------------------------------------------
(* _submit, in paper mode                                                  *)

(* Mutant of Fill: a sell leaves the position standing.                    *)
Fill_keeps(r) ==
  /\ fills[r] < MaxFills
  /\ fills' = [fills EXCEPT ![r] = @ + 1]
  /\ held' = [held EXCEPT ![r] = TRUE]
  /\ late' = [late EXCEPT ![r] = IF runner[r] # "RUNNING" THEN @ + 1 ELSE @]

(* A fill flips the position: BUY when flat, SELL of the whole otherwise.  *)
Fill(r) ==
  /\ fills[r] < MaxFills
  /\ fills' = [fills EXCEPT ![r] = @ + 1]
  /\ held' = [held EXCEPT ![r] = ~@]
  /\ late' = [late EXCEPT ![r] = IF runner[r] # "RUNNING" THEN @ + 1 ELSE @]

(* The risk manager may refuse the order; only an error message is kept.   *)
Submit(r) == Fill(r) \/ UNCHANGED <<fills, held, late>>

(* Mutants of the loop: only the flag is looked at, a bar is acted on      *)
(* whatever the state, no row is closed, the row is closed without its     *)
(* figures.                                                                *)
LoopTop_flagOnly(r) ==
  /\ loop[r] = "top"
  /\ LoopTo(r, IF flag[r] THEN "end" ELSE "poll")
  /\ UNCHANGED <<records, up, runners, tables, failures, requests>>
LoopBar_unchecked(r) ==
  /\ loop[r] = "bar"
  /\ LoopTo(r, "barEval") \/ LoopTo(r, "top")
  /\ UNCHANGED <<records, up, runners, tables, failures, requests>>
LoopHalt_silent(r) ==
  /\ loop[r] = "halt"
  /\ LoopTo(r, "haltStop")
  /\ UNCHANGED <<records, up, runners, tables, failures, requests>>
LoopHalting_noFigures(r) ==
  /\ loop[r] = "halting"
  /\ row' = IF row[r] = "deleted" THEN row ELSE [row EXCEPT ![r] = "HALTED"]
  /\ LoopTo(r, "haltStop")
  /\ UNCHANGED <<saved, strategies, up, runners, tables, failures, requests>>

(* The loop of the polling thread                                          *)
LoopTop(r) ==
  /\ loop[r] = "top"
  /\ LoopTo(r, IF flag[r] \/ runner[r] # "RUNNING" THEN "end" ELSE "poll")
  /\ UNCHANGED <<records, up, runners, tables, failures, requests>>

(* A price, an expired credential, or another failure.                     *)
LoopPoll(r) ==
  /\ loop[r] = "poll"
  /\ \/ failures' = [failures EXCEPT ![r] = 0] /\ LoopTo(r, "tick")
     \/ UNCHANGED failures /\ LoopTo(r, "halt")
     \/ /\ failures' = [failures EXCEPT ![r] = @ + 1]
        /\ LoopTo(r, IF failures[r] + 1 >= MaxFailures THEN "halt" ELSE "top")
  /\ UNCHANGED <<records, up, runners, tables, requests>>

(* on_tick: state and position are read before the lock is taken.          *)
LoopTick(r) ==
  /\ loop[r] = "tick"
  /\ \/ /\ runner[r] = "RUNNING" /\ held[r]
        /\ LoopTo(r, "tickOrder")
     \/ LoopTo(r, "bar")
  /\ UNCHANGED <<records, up, runners, tables, failures, requests>>

LoopTickOrder(r) ==
  /\ loop[r] = "tickOrder"
  /\ Submit(r)
  /\ LoopTo(r, "bar")
  /\ UNCHANGED <<records, up, runner, tables, failures, requests>>

(* on_bar when the tick closed a bar: the state is read once, at the top.  *)
LoopBar(r) ==
  /\ loop[r] = "bar"
  /\ \/ runner[r] = "RUNNING" /\ LoopTo(r, "barEval")
     \/ LoopTo(r, "top")
  /\ UNCHANGED <<records, up, runners, tables, failures, requests>>

LoopBarEval(r) ==
  /\ loop[r] = "barEval"
  /\ LoopTo(r, "top")
  /\ \/ Submit(r) /\ UNCHANGED runner
     \/ /\ runner' = [runner EXCEPT ![r] = "FAILED"]
        /\ UNCHANGED <<held, fills, late>>
  /\ UNCHANGED <<records, up, tables, failures, requests>>

LoopEnd(r) ==
  /\ loop[r] = "end"
  /\ IF runner[r] = "RUNNING" THEN Stopped(r) ELSE UNCHANGED runner
  /\ LoopTo(r, "dead")
  /\ UNCHANGED <<records, up, held, fills, late, tables, failures, requests>>

(* halt: _close_run reads the row, then commits it, then the runner stops. *)
LoopHalt(r) ==
  /\ loop[r] = "halt"
  /\ LoopTo(r, IF row[r] = "RUNNING" THEN "halting" ELSE "haltStop")
  /\ UNCHANGED <<records, up, runners, tables, failures, requests>>

LoopHalting(r) ==
  /\ loop[r] = "halting"
  /\ IF row[r] = "deleted" THEN UNCHANGED <<row, saved>>
     ELSE /\ row' = [row EXCEPT ![r] = "HALTED"]
          /\ saved' = [saved EXCEPT ![r] = IF r \in registry THEN fills[r] ELSE @]
  /\ LoopTo(r, "haltStop")
  /\ UNCHANGED <<strategies, up, runners, tables, failures, requests>>

LoopHaltStop(r) ==
  /\ loop[r] = "haltStop"
  /\ Stopped(r)
  /\ LoopTo(r, "dead")
  /\ UNCHANGED <<records, up, held, fills, late, tables, failures, requests>>

-----------------------------------------------------------------------------
(* The process is killed: everything but the database is gone.             *)
Crash ==
  /\ up
  /\ up' = FALSE
  /\ runner' = [r \in Run |-> "none"] /\ held' = [r \in Run |-> FALSE]
  /\ registry' = {} /\ threads' = {} /\ flag' = [r \in Run |-> FALSE]
  /\ loop' = [r \in Run |-> IF Alive(r) THEN "dead" ELSE loop[r]]
  /\ failures' = [r \in Run |-> 0]
  /\ pc' = [w \in Worker |-> "idle"] /\ found' = [w \in Worker |-> FALSE]
  /\ arg' = [w \in Worker |-> NoRun]
  /\ UNCHANGED <<records, fills, late>>

(* Mutants of Boot: no recovery, and recovery of every row.                *)
Boot_noRecovery ==
  /\ ~up
  /\ up' = TRUE
  /\ UNCHANGED <<row, saved, strategies, runners, tables, polling, requests>>
Boot_allRows ==
  /\ ~up
  /\ up' = TRUE
  /\ row' = [r \in Run |-> IF row[r] \notin {"none", "deleted"}
                           THEN "INTERRUPTED" ELSE row[r]]
  /\ UNCHANGED <<saved, strategies, runners, tables, polling, requests>>

(* Startup, with recover_orphaned_runs before any request is served.       *)
Boot ==
  /\ ~up
  /\ up' = TRUE
  /\ row' = [r \in Run |-> IF row[r] = "RUNNING" THEN "INTERRUPTED" ELSE row[r]]
  /\ UNCHANGED <<saved, strategies, runners, tables, polling, requests>>

Request(w) ==
  \/ StartPrice(w) \/ StartCommit(w) \/ StartCreate(w) \/ StartRegister(w)
  \/ StartSchedule(w) \/ StopSchedule(w) \/ StopRunner(w) \/ StopSave(w)

Loop(r) ==
  \/ LoopTop(r) \/ LoopPoll(r) \/ LoopTick(r) \/ LoopTickOrder(r)
  \/ LoopBar(r) \/ LoopBarEval(r) \/ LoopEnd(r)
  \/ LoopHalt(r) \/ LoopHalting(r) \/ LoopHaltStop(r)

Next ==
  \/ \E w \in Worker : Request(w) \/ \E r \in Run : Start(w, r) \/ Stop(w, r)
  \/ \E r \in Run : Loop(r)
  \/ \E s \in Strategy : DeleteStrategy(s)
  \/ Crash
  \/ Boot

Spec == Init /\ [][Next]_vars

(* Threads and requests that can take a step take it: the server runs its  *)
(* threads and every network call ends by a timeout.  Nobody has to start, *)
(* stop or delete anything, and a killed application is started again.     *)
Fairness ==
  /\ \A w \in Worker : WF_vars(Request(w))
  /\ \A r \in Run : WF_vars(Loop(r))
  /\ WF_vars(Boot)

FairSpec == Spec /\ Fairness

-----------------------------------------------------------------------------
(* A run that trades and was not told to stop is one the stop request can  *)
(* reach: its runner is in the registry and its flag in the scheduler's    *)
(* table, although RunRegistry.add drops finished runners at any time.     *)
StoppableRun ==
  \A r \in Run : Trading(r) /\ ~flag[r] => r \in registry /\ r \in threads

(* A stopped or failed runner fills at most the one order its thread was   *)
(* already evaluating: _submit does not look at the state again.           *)
OneFillAfterStop == \A r \in Run : late[r] <= 1

(* Buys and sells alternate, across ticks and bars: the runner is flat     *)
(* after an even number of fills as long as it lives.                      *)
PositionAlternates ==
  \A r \in Run : runner[r] # "none" => (held[r] <=> fills[r] % 2 = 1)

(* No phantom: while the process serves requests, a row that claims to be  *)
(* running belongs to a runner of this process or to a start under way.    *)
NoPhantomRun ==
  up => \A r \in Run :
    row[r] = "RUNNING" /\ StrategyOf[r] \in strategies =>
      \/ runner[r] # "none"
      \/ \E w \in Worker : arg[w] = r /\ pc[w] = "create"

(* The figures of a halted run are final: unless a stop request is under   *)
(* way for it, which may have had its runner dropped from the registry,    *)
(* the halt writes all its fills, and no fill comes after.                 *)
HaltedKeepsFigures ==
  [][\A r \in Run :
       /\ row[r] = "HALTED" => fills'[r] = fills[r]
       /\ row'[r] = "HALTED" /\ row[r] # "HALTED"
          /\ (\A w \in Worker : arg[w] # r)
            => saved'[r] = fills[r]]_vars

(* The run as its record and its activity: see RunLifecycle.               *)
Activity(r) ==
  CASE loop[r] = "none" -> "none" [] loop[r] = "dead" -> "over"
    [] OTHER -> "active"

Lifecycle == INSTANCE RunLifecycle
  WITH status <- row, activity <- [r \in Run |-> Activity(r)]

RefinesLifecycle == Lifecycle!Spec

(* A thread told to stop, by its flag or by the state of its runner, ends. *)
StopEndsLoop ==
  \A r \in Run :
    (Alive(r) /\ (flag[r] \/ runner[r] # "RUNNING")) ~> ~Alive(r)

(* A run halted by a feed gap or an expired key does not stay RUNNING.     *)
HaltClosesRow == \A r \in Run : (loop[r] = "halt") ~> (row[r] # "RUNNING")

-----------------------------------------------------------------------------
(* Statements of the code's comments and docs that its behaviour refutes.  *)

(* "One live run per strategy": two runners would compete for a position.  *)
OneLiveRun ==
  \A s \in Strategy :
    Cardinality({r \in Run : StrategyOf[r] = s /\ Trading(r)}) <= 1

(* "A run in one of these states will not change again."                   *)
RunnerTerminalFinal ==
  [][\A r \in Run : runner[r] \in Terminal /\ up' => runner'[r] = runner[r]]_vars

(* A runner is dropped only once its final figures are persisted.          *)
PrunedIsPersisted ==
  [][\A r \in registry \ registry' :
       up' => row[r] # "RUNNING" /\ saved[r] = fills[r]]_vars

(* A run that stops producing orders does not keep displaying RUNNING.     *)
FailedRunClosed == \A r \in Run : (runner[r] = "FAILED") ~> (row[r] # "RUNNING")

(* A run the stop request answered STOPPED for does stop.                  *)
StopReachesRun == \A r \in Run : (row[r] = "STOPPED") ~> ~Alive(r)

(* The stop request reaches every run that trades.                         *)
StopFindsRun ==
  \A r \in Run : Trading(r) => row[r] # "deleted"
=============================================================================
