---------------------------- MODULE ServerQueue ----------------------------
(***************************************************************************)
(* The task queue of llama-server (tools/server/server-queue.{h,cpp}): one *)
(* main thread runs start_loop, HTTP worker threads post and cancel tasks, *)
(* wait for a sleeping server to wake up, and a signal handler terminates  *)
(* the loop.                                                               *)
(*                                                                         *)
(* An action is one critical section of mutex_tasks with the thread-local  *)
(* work around it.  The mutex itself shows only where a section is long:   *)
(* the main thread unloads and reloads the model with the lock held        *)
(* (LockFree).  condition_tasks is the set of threads blocked on it.       *)
(*                                                                         *)
(* The slots behind the callbacks are kept to what the queue can observe:  *)
(* which requests hold one of NSlots slots.                                *)
(*                                                                         *)
(* A definition Name_Variant is the mutated form of Name that the mutants  *)
(* of PROJECT.json put in its place; no action uses it.                    *)
(***************************************************************************)
EXTENDS Integers, Sequences, FiniteSets, SequencesExt

CONSTANTS
    Requests,       \* HTTP requests; each has a thread of its own and one task
    NoRequest,      \* the id of a task that belongs to no request
    Main,           \* the thread that runs start_loop
    NSlots,         \* number of slots
    Invalid,        \* requests whose task launch_slot_with_task refuses
    IdleSleep,      \* idle_sleep_ms >= 0
    CanCancel,      \* clients may disconnect before the answer
    CanTerminate,   \* terminate() may be called
    SignalOnMain    \* the signal handler may run on the main thread

ASSUME NoRequestAssumption  == NoRequest \notin Requests
ASSUME MainAssumption       == Main \notin Requests
ASSUME NSlotsAssumption     == NSlots \in Nat \ {0}
ASSUME InvalidAssumption    == Invalid \subseteq Requests
ASSUME FlagsAssumption      == /\ IdleSleep \in BOOLEAN
                               /\ CanCancel \in BOOLEAN
                               /\ CanTerminate \in BOOLEAN
                               /\ SignalOnMain \in BOOLEAN

VARIABLES
    running, sleeping, req_stop_sleeping,
    idle,                  \* now - time_last_task >= idle_sleep_ms
    queue_tasks, queue_tasks_deferred,
    waiters,               \* threads blocked on condition_tasks
    mainPc, current,       \* the main thread, and the task it popped
    work,                  \* requests whose task is in a slot
    result,                \* what server_response holds for a request
    pc,                    \* the HTTP threads
    terminated             \* terminate() was called

queueVars  == <<queue_tasks, queue_tasks_deferred>>
sleepVars  == <<running, sleeping, req_stop_sleeping>>
slotVars   == <<work, result>>
vars == <<running, sleeping, req_stop_sleeping, idle, queue_tasks,
          queue_tasks_deferred, waiters, mainPc, current, work, result, pc,
          terminated>>

Completion(r) == [type |-> "COMPLETION", id |-> r]
Cancel(r)     == [type |-> "CANCEL", id |-> r]          \* id is id_target
NextResponse  == [type |-> "NEXT_RESPONSE", id |-> NoRequest]
NoTask        == NextResponse                           \* nothing popped

Task == {Completion(r) : r \in Requests} \cup {Cancel(r) : r \in Requests}
            \cup {NextResponse}

MainPc    == {"init", "drain", "callback", "update", "decode", "touch",
              "wait", "idle", "unloading", "asleep", "loading", "deadlock",
              "done"}
RequestPc == {"arrive", "sleepwait", "parse", "posted", "end"}

\* mutex_tasks can be taken: nobody is inside one of the long sections.
LockFree == mainPc \notin {"unloading", "loading", "deadlock"}

(***************************************************************************)
(* condition_tasks.                                                        *)
(***************************************************************************)
NotifyOne_Dropped == UNCHANGED waiters

NotifyOne == IF waiters = {} THEN waiters' = {}
                             ELSE \E t \in waiters : waiters' = waiters \ {t}
NotifyAll_One == NotifyOne

NotifyAll == waiters' = {}

(***************************************************************************)
(* server_queue operations, as the callers' critical sections use them.    *)
(***************************************************************************)
CleanupPendingTask_Front(q, r) == IF q = <<>> THEN q ELSE Tail(q)

\* A task id is in the deques at most once (NoTaskLost below), so erasing
\* the first match erases all of them.
CleanupPendingTask(q, r) == RemoveFirst(q, Completion(r))

Post(task) ==
    /\ queue_tasks' = Append(queue_tasks, task)
    /\ idle' = FALSE
    /\ NotifyOne
    /\ UNCHANGED queue_tasks_deferred

PostCancel(r) ==
    /\ queue_tasks' = <<Cancel(r)>> \o CleanupPendingTask(queue_tasks, r)
    /\ queue_tasks_deferred' = CleanupPendingTask(queue_tasks_deferred, r)
    /\ idle' = FALSE
    /\ NotifyOne

Defer(task) ==
    /\ queue_tasks_deferred' = Append(queue_tasks_deferred, task)
    /\ idle' = FALSE
    /\ NotifyOne
    /\ UNCHANGED queue_tasks

PopDeferredTask_Missing == UNCHANGED queueVars /\ idle' = FALSE /\ NotifyOne

\* No task of this module names a slot, so the first deferred task is taken.
PopDeferredTask ==
    /\ IF queue_tasks_deferred = <<>>
       THEN UNCHANGED queueVars
       ELSE /\ queue_tasks' = <<Head(queue_tasks_deferred)>> \o queue_tasks
            /\ queue_tasks_deferred' = Tail(queue_tasks_deferred)
    /\ idle' = FALSE
    /\ NotifyOne

(***************************************************************************)
(* The main thread: start_loop.                                            *)
(***************************************************************************)
StartLoop ==
    /\ mainPc = "init"
    /\ running' = TRUE                       \* without the lock
    /\ idle' = FALSE
    /\ mainPc' = "drain"
    /\ UNCHANGED <<sleeping, req_stop_sleeping, queueVars, waiters, current,
                   slotVars, pc, terminated>>

Stop ==
    /\ mainPc = "drain"
    /\ ~running
    /\ mainPc' = "done"
    /\ UNCHANGED <<sleepVars, idle, queueVars, waiters, current, slotVars, pc,
                   terminated>>

PopTask ==
    /\ mainPc = "drain"
    /\ running
    /\ IF queue_tasks = <<>>
       THEN /\ mainPc' = "update"
            /\ UNCHANGED <<queue_tasks, current>>
       ELSE /\ mainPc' = "callback"
            /\ current' = Head(queue_tasks)
            /\ queue_tasks' = Tail(queue_tasks)
    /\ UNCHANGED <<sleepVars, idle, queue_tasks_deferred, waiters, slotVars,
                   pc, terminated>>

(***************************************************************************)
(* callback_new_task = process_single_task, one action per outcome.        *)
(***************************************************************************)
SlotFree_OffByOne == Cardinality(work) <= NSlots

SlotFree == Cardinality(work) < NSlots        \* get_available_slot

InCallback(type) ==
    /\ mainPc = "callback"
    /\ current.type = type
    /\ mainPc' = "drain"
    /\ current' = NoTask

Launch ==
    /\ InCallback("COMPLETION")
    /\ SlotFree
    /\ current.id \notin Invalid
    /\ work' = work \cup {current.id}
    /\ UNCHANGED <<sleepVars, idle, queueVars, waiters, result, pc, terminated>>

\* launch_slot_with_task fails: send_error, and the task is dropped.
Refuse ==
    /\ InCallback("COMPLETION")
    /\ SlotFree
    /\ current.id \in Invalid
    /\ result' = [result EXCEPT ![current.id] = "error"]
    /\ UNCHANGED <<sleepVars, idle, queueVars, waiters, work, pc, terminated>>

DeferTask ==
    /\ InCallback("COMPLETION")
    /\ ~SlotFree
    /\ Defer(current)
    /\ UNCHANGED <<sleepVars, slotVars, pc, terminated>>

CancelSlot ==
    /\ InCallback("CANCEL")
    /\ IF current.id \in work
       THEN /\ work' = work \ {current.id}
            /\ PopDeferredTask
       ELSE UNCHANGED <<work, queueVars, idle, waiters>>
    /\ UNCHANGED <<sleepVars, result, pc, terminated>>

IgnoreNextResponse ==
    /\ InCallback("NEXT_RESPONSE")
    /\ UNCHANGED <<sleepVars, idle, queueVars, waiters, slotVars, pc,
                   terminated>>

(***************************************************************************)
(* callback_update_slots = update_slots: unless all slots are idle it posts *)
(* NEXT_RESPONSE, and then any number of slots finish.                     *)
(***************************************************************************)
BeginUpdate ==
    /\ mainPc = "update"
    /\ IF work = {}
       THEN /\ mainPc' = "touch"
            /\ UNCHANGED <<queueVars, idle, waiters>>
       ELSE /\ mainPc' = "decode"
            /\ Post(NextResponse)
    /\ UNCHANGED <<sleepVars, current, slotVars, pc, terminated>>

\* send_final_response and server_slot::release
Finish(r) ==
    /\ mainPc = "decode"
    /\ r \in work
    /\ work' = work \ {r}
    /\ result' = [result EXCEPT ![r] = "ok"]
    /\ PopDeferredTask
    /\ UNCHANGED <<sleepVars, mainPc, current, pc, terminated>>

EndUpdate ==
    /\ mainPc = "decode"
    /\ mainPc' = "touch"
    /\ UNCHANGED <<sleepVars, idle, queueVars, waiters, current, slotVars, pc,
                   terminated>>

TouchTime ==
    /\ mainPc = "touch"
    /\ idle' = FALSE
    /\ mainPc' = "wait"
    /\ UNCHANGED <<sleepVars, queueVars, waiters, current, slotVars, pc,
                   terminated>>

(***************************************************************************)
(* The last inner loop: back to the tasks, to sleep, or to a timed wait.   *)
(***************************************************************************)
TasksOrStop_NoTasks == ~running
TasksOrStop_NoStop  == queue_tasks # <<>>

TasksOrStop == queue_tasks # <<>> \/ ~running

GoOn ==
    /\ mainPc = "wait"
    /\ TasksOrStop
    /\ mainPc' = "drain"
    /\ UNCHANGED <<sleepVars, idle, queueVars, waiters, current, slotVars, pc,
                   terminated>>

WaitForTasks ==
    /\ mainPc = "wait"
    /\ ~TasksOrStop
    /\ ~(IdleSleep /\ idle)
    /\ waiters' = waiters \cup {Main}
    /\ mainPc' = "idle"
    /\ UNCHANGED <<sleepVars, idle, queueVars, current, slotVars, pc,
                   terminated>>

\* wait_for re-evaluates its predicate after a notification ...
WakeForTasks ==
    /\ mainPc = "idle"
    /\ Main \notin waiters
    /\ IF TasksOrStop
       THEN mainPc' = "drain" /\ UNCHANGED waiters
       ELSE waiters' = waiters \cup {Main} /\ UNCHANGED mainPc
    /\ UNCHANGED <<sleepVars, idle, queueVars, current, slotVars, pc,
                   terminated>>

\* ... and after max_wait_time.
WaitTimeout ==
    /\ mainPc = "idle"
    /\ waiters' = waiters \ {Main}
    /\ mainPc' = IF TasksOrStop THEN "drain" ELSE "wait"
    /\ UNCHANGED <<sleepVars, idle, queueVars, current, slotVars, pc,
                   terminated>>

\* Unloading starts: the lock is held until the thread waits.
EnterSleep ==
    /\ mainPc = "wait"
    /\ ~TasksOrStop
    /\ IdleSleep /\ idle
    /\ sleeping' = TRUE
    /\ mainPc' = "unloading"
    /\ UNCHANGED <<running, req_stop_sleeping, idle, queueVars, waiters,
                   current, slotVars, pc, terminated>>

FallAsleep ==
    /\ mainPc = "unloading"
    /\ req_stop_sleeping' = FALSE
    /\ mainPc' = "asleep"
    /\ waiters' = waiters \cup {Main}
    /\ UNCHANGED <<running, sleeping, idle, queueVars, current, slotVars, pc,
                   terminated>>

WakeUp ==
    /\ mainPc = "asleep"
    /\ Main \notin waiters
    /\ \/ /\ ~running                        \* sleeping stays set
          /\ mainPc' = "drain"
          /\ UNCHANGED <<req_stop_sleeping, waiters>>
       \/ /\ running /\ req_stop_sleeping
          /\ req_stop_sleeping' = FALSE
          /\ mainPc' = "loading"             \* callback_sleeping_state(false)
          /\ UNCHANGED waiters
       \/ /\ running /\ ~req_stop_sleeping
          /\ waiters' = waiters \cup {Main}
          /\ UNCHANGED <<req_stop_sleeping, mainPc>>
    /\ UNCHANGED <<running, sleeping, idle, queueVars, current, slotVars, pc,
                   terminated>>

ExitSleep ==
    /\ mainPc = "loading"
    /\ sleeping' = FALSE
    /\ idle' = FALSE
    /\ NotifyAll
    /\ mainPc' = "drain"
    /\ UNCHANGED <<running, req_stop_sleeping, queueVars, current, slotVars,
                   pc, terminated>>

(***************************************************************************)
(* The HTTP threads: server_res_generator, then the handler.               *)
(***************************************************************************)
\* wait_until_no_sleep
Arrive(r) ==
    /\ pc[r] = "arrive"
    /\ LockFree
    /\ IF ~sleeping
       THEN /\ pc' = [pc EXCEPT ![r] = "parse"]
            /\ UNCHANGED <<req_stop_sleeping, waiters>>
       ELSE /\ pc' = [pc EXCEPT ![r] = "sleepwait"]
            /\ req_stop_sleeping' = TRUE
            /\ IF req_stop_sleeping
               THEN waiters' = waiters \cup {r}
               ELSE IF waiters = {}
                    THEN waiters' = {r}
                    ELSE \E t \in waiters : waiters' = (waiters \ {t}) \cup {r}
    /\ UNCHANGED <<running, sleeping, idle, queueVars, mainPc, current,
                   slotVars, terminated>>

WaiterWakes(r) ==
    /\ pc[r] = "sleepwait"
    /\ r \notin waiters
    /\ LockFree
    /\ IF sleeping
       THEN waiters' = waiters \cup {r} /\ UNCHANGED pc
       ELSE pc' = [pc EXCEPT ![r] = "parse"] /\ UNCHANGED waiters
    /\ UNCHANGED <<sleepVars, idle, queueVars, mainPc, current, slotVars,
                   terminated>>

\* The handler has tokenized the prompt with ctx_server.vocab; post_tasks.
PostTask(r) ==
    /\ pc[r] = "parse"
    /\ LockFree
    /\ pc' = [pc EXCEPT ![r] = "posted"]
    /\ Post(Completion(r))
    /\ UNCHANGED <<sleepVars, mainPc, current, slotVars, terminated>>

Receive(r) ==
    /\ pc[r] = "posted"
    /\ result[r] = "ok"
    /\ pc' = [pc EXCEPT ![r] = "end"]
    /\ UNCHANGED <<sleepVars, idle, queueVars, waiters, mainPc, current,
                   slotVars, terminated>>

\* An error makes the reader stop(), which cancels its tasks.
ReceiveError(r) ==
    /\ pc[r] = "posted"
    /\ result[r] = "error"
    /\ LockFree
    /\ pc' = [pc EXCEPT ![r] = "end"]
    /\ PostCancel(r)
    /\ UNCHANGED <<sleepVars, mainPc, current, slotVars, terminated>>

\* should_stop(): the connection is closed and the reader is destroyed.
Disconnect(r) ==
    /\ CanCancel
    /\ pc[r] = "posted"
    /\ LockFree
    /\ pc' = [pc EXCEPT ![r] = "end"]
    /\ PostCancel(r)
    /\ UNCHANGED <<sleepVars, mainPc, current, slotVars, terminated>>

(***************************************************************************)
(* The signal handler, spurious wake-ups and the clock.                    *)
(***************************************************************************)
Terminate ==
    /\ CanTerminate
    /\ ~terminated
    /\ LockFree
    /\ terminated' = TRUE
    /\ running' = FALSE
    /\ NotifyAll
    /\ UNCHANGED <<sleeping, req_stop_sleeping, idle, queueVars, mainPc,
                   current, slotVars, pc>>

\* The handler interrupts the thread that holds the lock and takes it again.
TerminateOnMain ==
    /\ CanTerminate /\ SignalOnMain
    /\ ~terminated
    /\ mainPc \in {"unloading", "loading"}
    /\ terminated' = TRUE
    /\ mainPc' = "deadlock"
    /\ UNCHANGED <<sleepVars, idle, queueVars, waiters, current, slotVars, pc>>

SpuriousWake(t) ==
    /\ t \in waiters
    /\ waiters' = waiters \ {t}
    /\ UNCHANGED <<sleepVars, idle, queueVars, mainPc, current, slotVars, pc,
                   terminated>>

Tick ==
    /\ IdleSleep
    /\ ~idle
    /\ idle' = TRUE
    /\ UNCHANGED <<sleepVars, queueVars, waiters, mainPc, current, slotVars,
                   pc, terminated>>

-----------------------------------------------------------------------------
Init ==
    /\ running = FALSE
    /\ sleeping = FALSE
    /\ req_stop_sleeping = FALSE
    /\ idle = FALSE
    /\ queue_tasks = <<>>
    /\ queue_tasks_deferred = <<>>
    /\ waiters = {}
    /\ mainPc = "init"
    /\ current = NoTask
    /\ work = {}
    /\ result = [r \in Requests |-> "none"]
    /\ pc = [r \in Requests |-> "arrive"]
    /\ terminated = FALSE

MainStep ==
    \/ StartLoop \/ Stop \/ PopTask
    \/ Launch \/ Refuse \/ DeferTask \/ CancelSlot \/ IgnoreNextResponse
    \/ BeginUpdate \/ EndUpdate \/ TouchTime
    \/ GoOn \/ WaitForTasks \/ WakeForTasks
    \/ EnterSleep \/ FallAsleep \/ WakeUp \/ ExitSleep

RequestStep(r) ==
    Arrive(r) \/ WaiterWakes(r) \/ PostTask(r) \/ Receive(r) \/ ReceiveError(r)

Next ==
    \/ MainStep
    \/ WaitTimeout
    \/ \E r \in Requests : Finish(r) \/ RequestStep(r) \/ Disconnect(r)
    \/ Terminate \/ TerminateOnMain
    \/ \E t \in Requests \cup {Main} : SpuriousWake(t)
    \/ Tick

\* The threads run, the timed wait ends, and a generation in progress does
\* not go on for ever (it is bounded by n_predict and the context size).
Fairness ==
    /\ WF_vars(MainStep)
    /\ WF_vars(WaitTimeout)
    /\ \A r \in Requests : WF_vars(RequestStep(r)) /\ SF_vars(Finish(r))

Spec     == Init /\ [][Next]_vars
FairSpec == Spec /\ Fairness

-----------------------------------------------------------------------------
(***************************************************************************)
(* Properties.                                                             *)
(***************************************************************************)
TypeOK ==
    /\ running \in BOOLEAN /\ sleeping \in BOOLEAN
    /\ req_stop_sleeping \in BOOLEAN /\ idle \in BOOLEAN
    /\ queue_tasks \in Seq(Task) /\ queue_tasks_deferred \in Seq(Task)
    /\ waiters \subseteq Requests \cup {Main}
    /\ mainPc \in MainPc /\ current \in Task
    /\ work \subseteq Requests
    /\ Cardinality(work) <= NSlots
    /\ result \in [Requests -> {"none", "ok", "error"}]
    /\ pc \in [Requests -> RequestPc]
    /\ terminated \in BOOLEAN

\* No notification of condition_tasks is lost: while the main loop is blocked
\* in its wait for tasks there is no task and nobody has terminated the loop.
\* post() and terminate() rely on a notify_one that reaches the main thread,
\* although HTTP threads wait on the same condition variable.
NoLostWakeup ==
    mainPc = "idle" /\ Main \in waiters => queue_tasks = <<>> /\ running

\* No HTTP thread stays blocked in wait_until_no_sleep once the server is
\* awake: start_loop notifies them all after the reload.
NoWaiterForgotten ==
    waiters \cap Requests # {} => sleeping

\* The model is unloaded only when no slot is processing: update_slots posts
\* NEXT_RESPONSE whenever a slot is busy, so the loop cannot run dry.
SleepsOnlyWhenIdle ==
    sleeping => work = {}

Copies(r) ==
    Cardinality({i \in DOMAIN queue_tasks : queue_tasks[i] = Completion(r)})
  + Cardinality({i \in DOMAIN queue_tasks_deferred :
                    queue_tasks_deferred[i] = Completion(r)})
  + (IF current = Completion(r) THEN 1 ELSE 0)
  + (IF r \in work THEN 1 ELSE 0)

\* A task is never duplicated, and until it is answered or its client goes
\* away it is in exactly one place: queue, deferred queue, callback or slot.
NoTaskLost ==
    \A r \in Requests :
        /\ Copies(r) <= 1
        /\ pc[r] = "posted" /\ result[r] = "none" => Copies(r) = 1
        /\ result[r] # "none" => Copies(r) = 0

\* The cancelled task is cleaned up: once the CANCEL has been processed the
\* task of a client that went away is neither queued nor in a slot.
CancelledTaskIsGone ==
    \A r \in Requests :
        /\ pc[r] = "end"
        /\ result[r] = "none"
        /\ Cancel(r) \notin Range(queue_tasks) \cup {current}
        => Copies(r) = 0

\* The pointers an HTTP handler uses are valid ("when not in sleeping state"):
\* the model is not unloaded while a handler tokenizes its prompt.
ModelLoadedWhileParsing ==
    \A r \in Requests : pc[r] = "parse" => ~sleeping

\* terminate() "will unblock start_loop()", whatever the loop is doing.
NoSelfDeadlock ==
    mainPc # "deadlock"

InQueue(r) == Completion(r) \in Range(queue_tasks)

\* A task that is queued while the server is awake is taken from the queue.
QueuedTaskIsTaken ==
    \A r \in Requests : (InQueue(r) /\ ~sleeping) ~> (~InQueue(r) \/ ~running)

\* "Any new incoming task will automatically trigger the model to reload."
NewTaskReloads ==
    \A r \in Requests : InQueue(r) ~> (~InQueue(r) \/ terminated)

\* wait_until_no_sleep: "request exiting sleep state and wait until it is done".
WaitEnds ==
    \A r \in Requests : pc[r] = "sleepwait" ~> pc[r] # "sleepwait"

\* terminate() stops a loop that has started, asleep or not.
StartedLoopStops ==
    (terminated /\ ~running /\ mainPc # "init") ~> mainPc = "done"

\* start_loop "blocks the main thread until queue_tasks.terminate() is called".
TerminateStops ==
    terminated ~> mainPc = "done"
=============================================================================
