---------------------------- MODULE ServerModels ----------------------------
(***************************************************************************)
(* The router (server-models.cpp): one router process keeps a table of     *)
(* models; a loaded model is a child llama-server process.  HTTP threads   *)
(* (Clients) load, unload and use models.  For each child the router has a *)
(* managing thread with two helpers: one reads the child's output, where   *)
(* the child reports READY and SLEEP, the other waits to stop the child.   *)
(*                                                                         *)
(* All sections under server_models::mutex are single actions.  A wait on  *)
(* cv is a guard: every change of a status notifies cv, so a waiter may    *)
(* look after each change but may also come late and miss one.  Waits on   *)
(* cv_stop are explicit, for one half of their condition, the death of the *)
(* child, is not under the mutex and notifies nobody.                      *)
(*                                                                         *)
(* The kernel closes the files of a process that exits before the process  *)
(* can be waited for: between "closing" and "dead" the reader sees the end *)
(* of the output while subprocess_alive (waitpid with WNOHANG) still says  *)
(* alive.                                                                  *)
(*                                                                         *)
(* A definition Name_Variant is the mutated form of Name that the mutants  *)
(* of PROJECT.json put in its place.                                       *)
(***************************************************************************)
EXTENDS Naturals, Sequences, FiniteSets

CONSTANTS
  Models,      \* names of the table
  Clients,     \* threads of the HTTP server
  ModelsMax,   \* models_max; 0: no limit
  Sleepers,    \* models whose child sleeps when idle
  MaxCalls,    \* bound: requests the clients make
  MaxCrashes   \* bound: children that exit without being told

ASSUME ModelsAssumption == IsFiniteSet(Models) /\ Sleepers \subseteq Models /\ ModelsMax \in Nat
ASSUME RouterBounds == MaxCalls \in Nat /\ MaxCrashes \in Nat

VARIABLES
  status,     \* meta.status
  exitCode,   \* meta.exit_code, 0 or 1
  stopping,   \* stopping_models
  used,       \* models that were used, by last_used, the oldest first
  child,      \* the child process of each model
  code,       \* its exit code
  told,       \* models whose child was sent the exit command
  pipe,       \* the child's reports the reader has not read
  mgr,        \* the managing thread
  stopper,    \* its stopping thread
  at, op, target,   \* where each client is, what it does and for which model
  victim,     \* the model a client evicts
  router,     \* the main thread of the router
  calls, crashes

table == <<status, exitCode, stopping, used>>
process == <<child, code, told, pipe>>
clients == <<at, op, target, victim>>
counters == <<calls, crashes>>
vars == <<table, process, mgr, stopper, clients, router, counters>>

Statuses == {"unloaded", "loading", "loaded", "sleeping"}
ChildStates == {"none", "starting", "up", "asleep", "closing", "dead"}
Places == {"idle", "unload", "lru", "evict", "evicted", "spawn",
           "loading", "check", "proxy", "touch"}
Nobody == "nobody"

Alive(m) == child[m] \in {"starting", "up", "asleep", "closing"}   \* subprocess_alive
IsRunning(m) == status[m] # "unloaded"
IsFailed(m) == status[m] = "unloaded" /\ exitCode[m] # 0
Running == {m \in Models : IsRunning(m)}

Full == ModelsMax > 0 /\ Cardinality(Running) >= ModelsMax

Touched_Twice(m) == Append(used, m)
Touched(m) == Append(SelectSeq(used, LAMBDA x : x # m), m)

\* the running model used longest ago
Oldest ==
  CHOOSE m \in Running : \A k \in Running : k # m =>
    \E i, j \in DOMAIN used : i < j /\ used[i] = m /\ used[j] = k

Init ==
  /\ status = [m \in Models |-> "unloaded"]
  /\ exitCode = [m \in Models |-> 0]
  /\ stopping = {} /\ used = <<>>
  /\ child = [m \in Models |-> "none"]
  /\ code = [m \in Models |-> 0]
  /\ told = {} /\ pipe = [m \in Models |-> <<>>]
  /\ mgr = [m \in Models |-> "none"]
  /\ stopper = [m \in Models |-> "none"]
  /\ at = [c \in Clients |-> "idle"]
  /\ op = [c \in Clients |-> "none"]
  /\ target = [c \in Clients |-> Nobody]
  /\ victim = [c \in Clients |-> Nobody]
  /\ router = "serving" /\ calls = 0 /\ crashes = 0

-----------------------------------------------------------------------------
(* cv_stop.notify_all: every stopping thread looks again.                  *)

Notified == [m \in Models |-> IF stopper[m] = "waiting" THEN "look" ELSE stopper[m]]

(* unload, and the same lines of unload_all, for the models ms.            *)
RequestStop_Silent(ms) ==
  /\ stopping' = stopping \cup (ms \cap Running)
  /\ stopper' = stopper

RequestStop(ms) ==
  /\ stopping' = stopping \cup (ms \cap Running)
  /\ stopper' = IF ms \cap Running = {} THEN stopper ELSE Notified

-----------------------------------------------------------------------------
(* The HTTP threads.                                                       *)

Goto(c, p) == at' = [at EXCEPT ![c] = p]

Begin(c, m, o, p) ==
  /\ at[c] = "idle" /\ router = "serving" /\ calls < MaxCalls
  /\ Goto(c, p)
  /\ op' = [op EXCEPT ![c] = o]
  /\ target' = [target EXCEPT ![c] = m]
  /\ calls' = calls + 1
  /\ UNCHANGED <<table, process, mgr, stopper, victim, router, crashes>>

End(c) ==
  /\ at' = [at EXCEPT ![c] = "idle"]
  /\ op' = [op EXCEPT ![c] = "none"]
  /\ target' = [target EXCEPT ![c] = Nobody]
  /\ victim' = [victim EXCEPT ![c] = Nobody]

\* proxy_get and proxy_post up to the get_meta of ensure_model_ready
Request(c, m) ==
  Begin(c, m, "use", CASE status[m] = "unloaded" -> "lru"
                       [] status[m] = "loading" -> "loading"
                       [] OTHER -> "proxy")

\* a request that does not load models
RequestLoaded(c, m) == IsRunning(m) /\ Begin(c, m, "use", "proxy")

\* post_router_models_load and post_router_models_unload: other states are refused
AskLoad(c, m) == ~IsRunning(m) /\ Begin(c, m, "load", "lru")
AskUnload(c, m) == IsRunning(m) /\ Begin(c, m, "unload", "unload")

Unload(c) ==
  /\ at[c] = "unload"
  /\ RequestStop({target[c]})
  /\ End(c)
  /\ UNCHANGED <<status, exitCode, used, process, mgr, router, counters>>

(* unload_lru: chosen under the mutex, unloaded after it.  Models that     *)
(* were used in this very millisecond are not chosen.                      *)
ChooseVictim(c) ==
  /\ at[c] = "lru"
  /\ IF Full
       THEN \/ victim' = [victim EXCEPT ![c] = Oldest] /\ Goto(c, "evict")
            \/ Goto(c, "spawn") /\ UNCHANGED victim
       ELSE Goto(c, "spawn") /\ UNCHANGED victim
  /\ UNCHANGED <<table, process, mgr, stopper, op, target, router, counters>>

Evict(c) ==
  /\ at[c] = "evict"
  /\ RequestStop({victim[c]})
  /\ Goto(c, "evicted")
  /\ UNCHANGED <<status, exitCode, used, process, mgr, op, target, victim, router, counters>>

EvictDone(c) ==
  /\ at[c] = "evicted" /\ ~IsRunning(victim[c])
  /\ Goto(c, "spawn")
  /\ victim' = [victim EXCEPT ![c] = Nobody]
  /\ UNCHANGED <<table, process, mgr, stopper, op, target, router, counters>>

-----------------------------------------------------------------------------
(* load, under the mutex.  The old thread of the model has nothing left to *)
(* do but return when its model is unloaded, so the join does not wait.    *)

AfterLoad(c) ==
  IF op[c] = "use" THEN Goto(c, "loading") /\ UNCHANGED <<op, target, victim>> ELSE End(c)

MaySpawn_NoRecheck(m) == ~IsRunning(m)
MaySpawn(m) == ~IsRunning(m) /\ ~Full

AlreadyLoaded(c) ==
  /\ at[c] = "spawn" /\ IsRunning(target[c])
  /\ AfterLoad(c)
  /\ UNCHANGED <<table, process, mgr, stopper, router, counters>>

\* the limit is reached, or no port or no process can be had: load throws
LoadFails(c) ==
  /\ at[c] = "spawn" /\ ~IsRunning(target[c])
  /\ End(c)
  /\ UNCHANGED <<table, process, mgr, stopper, router, counters>>

Spawn(c) == LET m == target[c] IN
  /\ at[c] = "spawn" /\ MaySpawn(m)
  /\ status' = [status EXCEPT ![m] = "loading"]
  /\ used' = Touched(m)
  /\ child' = [child EXCEPT ![m] = "starting"]
  /\ mgr' = [mgr EXCEPT ![m] = "reading"]
  /\ stopper' = [stopper EXCEPT ![m] = "look"]
  /\ AfterLoad(c)
  /\ UNCHANGED <<exitCode, stopping, code, told, pipe, router, counters>>

(* wait_until_loading_finished, the check that follows, and proxy_request  *)

Finished_Loaded(m) == status[m] = "loaded"
Finished(m) == status[m] # "loading"

LoadingDone(c) ==
  /\ at[c] = "loading" /\ Finished(target[c])
  /\ Goto(c, "check")
  /\ UNCHANGED <<table, process, mgr, stopper, op, target, victim, router, counters>>

CheckLoaded(c) ==
  /\ at[c] = "check"
  /\ IF IsFailed(target[c]) THEN End(c)
       ELSE Goto(c, "proxy") /\ UNCHANGED <<op, target, victim>>
  /\ UNCHANGED <<table, process, mgr, stopper, router, counters>>

\* only a POST request goes on to write last_used
Proxy(c) ==
  /\ at[c] = "proxy"
  /\ \/ End(c)
     \/ IsRunning(target[c]) /\ Goto(c, "touch") /\ UNCHANGED <<op, target, victim>>
  /\ UNCHANGED <<table, process, mgr, stopper, router, counters>>

Touch(c) ==
  /\ at[c] = "touch"
  /\ used' = Touched(target[c])
  /\ End(c)
  /\ UNCHANGED <<status, exitCode, stopping, process, mgr, stopper, router, counters>>

ClientStep(c) ==
  \/ Unload(c) \/ ChooseVictim(c) \/ Evict(c) \/ EvictDone(c)
  \/ AlreadyLoaded(c) \/ LoadFails(c) \/ Spawn(c)
  \/ LoadingDone(c) \/ CheckLoaded(c) \/ Proxy(c) \/ Touch(c)

-----------------------------------------------------------------------------
(* The child process.  It reports READY when its model is loaded and when  *)
(* it wakes up, SLEEP when it falls asleep (setup_child_server and         *)
(* notify_router_sleeping_state).  A child may ignore the exit command.    *)

PipeBound == 1   \* bound: reports in the pipe

Report(m, from, to, what) ==
  /\ child[m] = from /\ Len(pipe[m]) < PipeBound
  /\ child' = [child EXCEPT ![m] = to]
  /\ pipe' = [pipe EXCEPT ![m] = Append(@, what)]
  /\ UNCHANGED <<table, code, told, mgr, stopper, clients, router, counters>>

Ready(m) == Report(m, "starting", "up", "READY")
FallAsleep(m) == m \in Sleepers /\ Report(m, "up", "asleep", "SLEEP")
Wake(m) == Report(m, "asleep", "up", "READY")

ObeyExit(m) ==
  /\ m \in told /\ child[m] \in {"up", "asleep"}
  /\ child' = [child EXCEPT ![m] = "closing"]
  /\ UNCHANGED <<table, code, told, pipe, mgr, stopper, clients, router, counters>>

\* the model cannot be loaded, the process crashes or is interrupted
Exit(m) == \E e \in {0, 1} :
  /\ child[m] \in {"starting", "up", "asleep"} /\ crashes < MaxCrashes
  /\ child' = [child EXCEPT ![m] = "closing"]
  /\ code' = [code EXCEPT ![m] = e]
  /\ crashes' = crashes + 1
  /\ UNCHANGED <<table, told, pipe, mgr, stopper, clients, router, calls>>

Die(m) ==
  /\ child[m] = "closing"
  /\ child' = [child EXCEPT ![m] = "dead"]
  /\ UNCHANGED <<table, code, told, pipe, mgr, stopper, clients, router, counters>>

-----------------------------------------------------------------------------
(* The managing thread: the reader, then the end of the child.             *)

Reported_Once(m) ==
  IF Head(pipe[m]) = "SLEEP" THEN "sleeping"
  ELSE IF status[m] = "loading" THEN "loaded" ELSE status[m]
Reported(m) == IF Head(pipe[m]) = "SLEEP" THEN "sleeping" ELSE "loaded"

ReadReport(m) ==
  /\ mgr[m] = "reading" /\ pipe[m] # <<>>
  /\ status' = [status EXCEPT ![m] = Reported(m)]
  /\ exitCode' = [exitCode EXCEPT ![m] = 0]
  /\ pipe' = [pipe EXCEPT ![m] = Tail(@)]
  /\ UNCHANGED <<stopping, used, child, code, told, mgr, stopper, clients, router, counters>>

AtEof(m) == pipe[m] = <<>> /\ child[m] \in {"closing", "dead"}

ReadEof(m) ==
  /\ mgr[m] = "reading" /\ AtEof(m)
  /\ stopping' = stopping \ {m}
  /\ stopper' = Notified
  /\ mgr' = [mgr EXCEPT ![m] = "joining"]
  /\ UNCHANGED <<status, exitCode, used, process, clients, router, counters>>

\* subprocess_join and the final update_status
Reaped_NoWait(m) == TRUE
Reaped(m) == child[m] = "dead"

Reap(m) ==
  /\ mgr[m] = "joining" /\ stopper[m] = "done" /\ Reaped(m)
  /\ status' = [status EXCEPT ![m] = "unloaded"]
  /\ exitCode' = [exitCode EXCEPT ![m] = code[m]]
  /\ mgr' = [mgr EXCEPT ![m] = "none"]
  /\ stopper' = [stopper EXCEPT ![m] = "none"]
  /\ child' = [child EXCEPT ![m] = IF @ = "dead" THEN "none" ELSE @]
  /\ code' = [code EXCEPT ![m] = 0]
  /\ told' = told \ {m}
  /\ UNCHANGED <<stopping, used, pipe, clients, router, counters>>

(* The stopping thread.                                                    *)

StopperTo(m, p) ==
  /\ stopper' = [stopper EXCEPT ![m] = p]
  /\ UNCHANGED <<table, mgr, clients, router, counters>>

StopperLook(m) ==
  /\ stopper[m] = "look"
  /\ StopperTo(m, IF m \in stopping \/ ~Alive(m) THEN "woken" ELSE "waiting")
  /\ UNCHANGED process

TellExit(m) ==
  /\ stopper[m] = "woken" /\ Alive(m)
  /\ told' = told \cup {m}
  /\ StopperTo(m, "grace")
  /\ UNCHANGED <<child, code, pipe>>

StopperDone(m) ==
  /\ \/ stopper[m] = "woken" /\ ~Alive(m)
     \/ stopper[m] = "grace" /\ m \notin stopping
  /\ StopperTo(m, "done")
  /\ UNCHANGED process

\* stop_timeout has passed
Kill(m) ==
  /\ stopper[m] = "grace" /\ m \in stopping
  /\ IF child[m] \in {"starting", "up", "asleep"}
       THEN /\ child' = [child EXCEPT ![m] = "closing"]
            /\ code' = [code EXCEPT ![m] = 1]
       ELSE UNCHANGED <<child, code>>
  /\ StopperTo(m, "done")
  /\ UNCHANGED <<told, pipe>>

ManagerStep(m) == ReadReport(m) \/ ReadEof(m) \/ Reap(m)
StopperStep(m) == StopperLook(m) \/ TellExit(m) \/ StopperDone(m) \/ Kill(m)

-----------------------------------------------------------------------------
(* The end of the router: the HTTP server has joined its threads, then     *)
(* unload_all stops the children and joins the managing threads.           *)

Unloadable_Loaded == {m \in Models : status[m] = "loaded"}
Unloadable == Models

UnloadAll ==
  /\ router = "serving" /\ \A c \in Clients : at[c] = "idle"
  /\ RequestStop(Unloadable)
  /\ router' = "joining"
  /\ UNCHANGED <<status, exitCode, used, process, mgr, clients, counters>>

Joined ==
  /\ router = "joining" /\ \A m \in Models : mgr[m] = "none"
  /\ router' = "stopped"
  /\ UNCHANGED <<table, process, mgr, stopper, clients, counters>>

Arrive(c) == \E m \in Models :
  Request(c, m) \/ RequestLoaded(c, m) \/ AskLoad(c, m) \/ AskUnload(c, m)

Run(m) == Ready(m) \/ FallAsleep(m) \/ Wake(m) \/ ObeyExit(m) \/ Exit(m) \/ Die(m)

Next ==
  \/ \E c \in Clients : Arrive(c) \/ ClientStep(c)
  \/ \E m \in Models : Run(m) \/ ManagerStep(m) \/ StopperStep(m)
  \/ UnloadAll \/ Joined

Spec == Init /\ [][Next]_vars

(* A thread that can go on does; a child becomes ready or exits; a process *)
(* whose files are closed dies; stop_timeout passes.                       *)
Fairness ==
  /\ \A c \in Clients : WF_vars(ClientStep(c))
  /\ \A m \in Models : WF_vars(ManagerStep(m)) /\ WF_vars(StopperStep(m))
  /\ \A m \in Models : WF_vars(Ready(m)) /\ WF_vars(Die(m))
  /\ WF_vars(Joined)

FairSpec == Spec /\ Fairness

-----------------------------------------------------------------------------
(* Properties *)

TypeOK ==
  /\ status \in [Models -> Statuses]
  /\ exitCode \in [Models -> {0, 1}]
  /\ stopping \subseteq Models
  /\ used \in Seq(Models) /\ \A i, j \in DOMAIN used : used[i] = used[j] => i = j
  /\ child \in [Models -> ChildStates]
  /\ code \in [Models -> {0, 1}]
  /\ told \subseteq Models
  /\ pipe \in [Models -> Seq({"READY", "SLEEP"})]
  /\ mgr \in [Models -> {"none", "reading", "joining"}]
  /\ stopper \in [Models -> {"none", "look", "waiting", "woken", "grace", "done"}]
  /\ at \in [Clients -> Places]
  /\ op \in [Clients -> {"none", "use", "load", "unload"}]
  /\ target \in [Clients -> Models \cup {Nobody}]
  /\ victim \in [Clients -> Models \cup {Nobody}]
  /\ router \in {"serving", "joining", "stopped"}
  /\ calls \in Nat /\ crashes \in Nat

(* Whatever the threads that load models at the same time, never more than *)
(* models_max child processes exist (unload_lru and load).                 *)
LimitIsKept ==
  ModelsMax > 0 => Cardinality({m \in Models : child[m] # "none"}) <= ModelsMax

(* A child process is always known to the table as running, has a          *)
(* managing thread, and is gone when its model is unloaded; a router that  *)
(* has stopped leaves no child behind (load, the managing thread).         *)
NoOrphan == \A m \in Models :
  /\ child[m] # "none" <=> IsRunning(m)
  /\ child[m] # "none" <=> mgr[m] # "none"
  /\ router = "stopped" => child[m] = "none"

(* When the child's reports have been read, the status of its model is     *)
(* what the child does; a report of an earlier child is never taken for    *)
(* one of this child (update_status, by name).                             *)
StatusIsTrue == \A m \in Models :
  pipe[m] = <<>> /\ child[m] \in {"starting", "up", "asleep"} =>
    status[m] = CASE child[m] = "starting" -> "loading"
                  [] child[m] = "up" -> "loaded"
                  [] OTHER -> "sleeping"

(* What the table says of the child processes is true.                     *)
TableIsTrue == NoOrphan /\ StatusIsTrue

(* The state diagram of server-models.h:17: a model is loaded from         *)
(* "loading" or "sleeping" only and sleeps from "loaded" only; and only a  *)
(* process that has exited makes it unloaded.                              *)
Diagram(m) == status'[m] # status[m] =>
  /\ status'[m] = "loading" => status[m] = "unloaded"
  /\ status'[m] = "loaded" => status[m] \in {"loading", "sleeping"}
  /\ status'[m] = "sleeping" => status[m] = "loaded"
  /\ status'[m] = "unloaded" => child[m] = "dead"

FollowsDiagram == [][\A m \in Models : Diagram(m)]_vars

(* The managing thread of m waits for its stopping thread, and that waits  *)
(* on cv_stop: it looked while the child had closed its output but could   *)
(* not be waited for yet, and nobody will notify it.                       *)
Wedged(m) == mgr[m] = "joining" /\ stopper[m] = "waiting"

(* A model that is asked to stop, or whose router ends, stops by itself or *)
(* by force, save in the wedged state (stopping thread, unload_all).       *)
StopIsObeyed == \A m \in Models :
  ((m \in stopping \/ router = "joining") /\ IsRunning(m)) ~> (~IsRunning(m) \/ Wedged(m))

(* A thread that waits for a model to be loaded goes on, when the child is *)
(* ready, fails to load or is stopped (wait_until_loading_finished).       *)
LoadersGoOn == \A c \in Clients :
  (at[c] = "loading") ~> (at[c] # "loading" \/ Wedged(target[c]))

(* Whoever waits for a child process goes on, save in the wedged state.    *)
WaitsEnd == StopIsObeyed /\ LoadersGoOn

(* "thread to monitor stopping signal OR child crash" (server-models.cpp): *)
(* a child that died is noticed and its model unloaded.                    *)
CrashIsNoticed == \A m \in Models : (child[m] = "dead") ~> (child[m] # "dead")

(* "wait for unload to complete" (unload_lru): the thread that evicts a    *)
(* model goes on when the model is unloaded.                               *)
EvictionEnds == \A c \in Clients :
  (at[c] = "evicted") ~> (at[c] # "evicted" \/ Wedged(victim[c]))

(* "status change will be handled by the managing thread" (unload): a      *)
(* request to stop has a managing thread to handle it.                     *)
StopHasItsThread == \A m \in stopping : mgr[m] # "none"
=============================================================================
