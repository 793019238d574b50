--------------------------- MODULE CpuThreadpool ---------------------------
(***************************************************************************)
(* The CPU thread pool of ggml (ggml-cpu.c, built without OpenMP): the     *)
(* main thread, thread 0, gives graphs to a pool of workers and works on   *)
(* each graph itself; all threads pass a barrier between two nodes and     *)
(* inside a matrix multiplication.                                         *)
(*                                                                         *)
(* Workers poll for a new graph for a while and then sleep on a condition  *)
(* variable; they sleep on the same variable while the pool is paused.     *)
(* Every critical section of the code's mutex runs from its lock to its    *)
(* wait or unlock without another wait, so it is one action; accesses to   *)
(* the atomic variables outside it are actions of their own.  Relaxed      *)
(* accesses are taken to be sequentially consistent, for the code puts a   *)
(* seq_cst operation between those that must not be reordered.             *)
(*                                                                         *)
(* A graph has the nodes 0 .. Nodes - 1; a node of Nops is skipped, any    *)
(* other is a matrix multiplication: each thread converts its part of the  *)
(* input into the shared work buffer, and after a barrier the threads take *)
(* chunks from a shared counter.                                           *)
(*                                                                         *)
(* A definition Name_Variant is the mutated form of Name that the mutants  *)
(* of PROJECT.json put in its place.                                       *)
(***************************************************************************)
EXTENDS Naturals, FiniteSets

CONSTANTS
  PoolSize,    \* threads of the pool, the main thread included
  Nodes,       \* nodes of a graph
  Nops,        \* nodes that are skipped
  Chunks,      \* chunks of a matrix multiplication
  MaxGraphs,   \* bound: graphs computed; the code's counter has 15 bits
  MaxPauses    \* bound: calls of ggml_threadpool_pause

ASSUME PoolAssumption == PoolSize \in Nat \ {0}
ASSUME GraphAssumption == Nodes \in Nat \ {0} /\ Nops \subseteq 0 .. Nodes - 1 /\ Chunks \in Nat
ASSUME BoundAssumption == MaxGraphs \in Nat /\ MaxPauses \in Nat

Threads == 0 .. PoolSize - 1
Workers == Threads \ {0}

VARIABLES
  nGraph,     \* n_graph: count of graphs, and threads that work on this one
  nBarrier,   \* n_barrier: threads that have entered the barrier
  nPassed,    \* n_barrier_passed: barriers completed
  chunk,      \* current_chunk
  abort,      \* the node before which all threads stop; Nodes + 1 for none
  stop, pause,
  plan,       \* the graph whose cgraph and cplan are installed and alive, 0: none
  pc,         \* where each thread is
  pending,    \* state->pending
  lastGraph,  \* state->last_graph
  nth,        \* params.nth and the barrier's n_threads
  node,       \* node_n
  from,       \* the call of ggml_barrier the thread is in
  mine,       \* the chunk the thread works on, or n_passed seen at a barrier
  work,       \* work[t]: node for which t has filled its part of the work buffer
  computed,   \* computed[n][c]: times chunk c of node n was computed in this graph
  pauses      \* calls of ggml_threadpool_pause

shared == <<nGraph, nBarrier, nPassed, chunk, abort, stop, pause, plan>>
local == <<pending, lastGraph, nth, node, from, mine>>
vars == <<shared, pc, local, work, computed, pauses>>

NoAbort == Nodes + 1
Active == {t \in Threads : t < nGraph.threads}
Real == (0 .. Nodes - 1) \ Nops
Blank == [n \in Real |-> [c \in 0 .. Chunks - 1 |-> 0]]

Init ==
  /\ nGraph = [count |-> 0, threads |-> 0]
  /\ nBarrier = 0 /\ nPassed = 0 /\ chunk = 0
  /\ abort = NoAbort
  /\ stop = FALSE
  /\ pause \in BOOLEAN
  /\ plan = 0
  /\ pc = [t \in Threads |-> IF t = 0 THEN "idle" ELSE "top"]
  /\ pending = [t \in Threads |-> FALSE]
  /\ lastGraph = [t \in Threads |-> [count |-> 0, threads |-> 0]]
  /\ nth = [t \in Threads |-> 0]
  /\ node = [t \in Threads |-> 0]
  /\ from = [t \in Threads |-> "end"]
  /\ mine = [t \in Threads |-> 0]
  /\ work = [t \in Threads |-> Nodes]
  /\ computed = Blank
  /\ pauses = 0

Barriers == {"op",     \* in ggml_compute_forward_mul_mat
             "node",   \* between two nodes
             "end"}    \* after the last node

Goto(t, place) == pc' = [pc EXCEPT ![t] = place]

\* Call ggml_barrier.
ToBarrier(t, call) == Goto(t, "enter") /\ from' = [from EXCEPT ![t] = call]

\* ggml_cond_broadcast: who sleeps in cond_wait goes on behind it.
Woken ==
  [t \in Threads |-> CASE pc[t] = "pausewait" -> "top"
                       [] pc[t] = "sleepwait" -> "sleeplock"
                       [] OTHER -> pc[t]]

(***************************************************************************)
(* The main thread, between graphs.                                        *)
(***************************************************************************)
\* ggml_graph_compute: install the graph and the plan in the pool.
Install ==
  /\ pc[0] = "idle"
  /\ nGraph.count < MaxGraphs
  /\ plan' = nGraph.count + 1
  /\ chunk' = 0
  /\ abort' = NoAbort
  /\ computed' = Blank
  /\ work' = [t \in Threads |-> Nodes]
  /\ Goto(0, "kickoff")
  /\ UNCHANGED <<nGraph, nBarrier, nPassed, stop, pause, local, pauses>>

\* ggml_graph_compute_kickoff: publish the graph for n threads, resume a
\* paused pool, wake all sleepers; then compute like a worker.
Kickoff_Silent(n) ==
  /\ pc[0] = "kickoff"
  /\ nGraph' = [count |-> nGraph.count + 1, threads |-> n]
  /\ pause' = FALSE
  /\ pc' = [pc EXCEPT ![0] = "start"]
  /\ UNCHANGED <<nBarrier, nPassed, chunk, abort, stop, plan, local, work, computed, pauses>>

Kickoff(n) ==
  /\ pc[0] = "kickoff"
  /\ nGraph' = [count |-> nGraph.count + 1, threads |-> n]
  /\ pause' = FALSE
  /\ pc' = [Woken EXCEPT ![0] = "start"]
  /\ UNCHANGED <<nBarrier, nPassed, chunk, abort, stop, plan, local, work, computed, pauses>>

\* ggml_threadpool_pause and ggml_threadpool_resume between graphs.
Pause ==
  /\ pc[0] = "idle"
  /\ ~pause
  /\ pauses < MaxPauses
  /\ pauses' = pauses + 1
  /\ pause' = TRUE
  /\ pc' = Woken
  /\ UNCHANGED <<nGraph, nBarrier, nPassed, chunk, abort, stop, plan, local, work, computed>>

Resume ==
  /\ pc[0] = "idle"
  /\ pause
  /\ pause' = FALSE
  /\ pc' = Woken
  /\ UNCHANGED <<nGraph, nBarrier, nPassed, chunk, abort, stop, plan, local, work, computed, pauses>>

\* ggml_threadpool_free: ask the workers to stop, then join them.
Free_KeepsPause ==
  /\ pc[0] = "idle"
  /\ stop' = TRUE
  /\ pc' = [Woken EXCEPT ![0] = "join"]
  /\ UNCHANGED <<nGraph, nBarrier, nPassed, chunk, abort, pause, plan, local, work, computed, pauses>>

Free ==
  /\ pc[0] = "idle"
  /\ stop' = TRUE
  /\ pause' = FALSE
  /\ pc' = [Woken EXCEPT ![0] = "join"]
  /\ UNCHANGED <<nGraph, nBarrier, nPassed, chunk, abort, plan, local, work, computed, pauses>>

Joined ==
  /\ pc[0] = "join"
  /\ \A t \in Workers : pc[t] = "exited"
  /\ Goto(0, "exited")
  /\ UNCHANGED <<shared, local, work, computed, pauses>>

(***************************************************************************)
(* A worker, between graphs.                                               *)
(***************************************************************************)
\* The loop of ggml_graph_compute_secondary_thread: pause, stop or work.
Top(t) ==
  /\ pc[t] = "top"
  /\ Goto(t, IF pause THEN "pauselock" ELSE IF stop THEN "exited" ELSE "poll")
  /\ UNCHANGED <<shared, local, work, computed, pauses>>

\* Under the mutex: sleep if the pool is still paused.
PauseLock(t) ==
  /\ pc[t] = "pauselock"
  /\ Goto(t, IF pause THEN "pausewait" ELSE "top")
  /\ UNCHANGED <<shared, local, work, computed, pauses>>

\* ggml_graph_compute_thread_ready
Ready_NoPause(t) == pending[t] \/ stop \/ nGraph # lastGraph[t]
Ready(t) == pending[t] \/ stop \/ pause \/ nGraph # lastGraph[t]

\* What it leaves in the thread's state.
LookedAt(t) ==
  IF ~(pending[t] \/ stop \/ pause) /\ nGraph # lastGraph[t]
  THEN /\ pending' = [pending EXCEPT ![t] = t < nGraph.threads]
       /\ lastGraph' = [lastGraph EXCEPT ![t] = nGraph]
  ELSE UNCHANGED <<pending, lastGraph>>

\* Polling ends because the thread is ready; without work it still goes to
\* the mutex and looks again there.
PollReady(t) ==
  /\ pc[t] = "poll"
  /\ Ready(t)
  /\ LookedAt(t)
  /\ Goto(t, IF pending'[t] THEN "dispatch" ELSE "sleeplock")
  /\ UNCHANGED <<shared, nth, node, from, mine, work, computed, pauses>>

\* Polling ends because its rounds are used up.
PollEnds(t) ==
  /\ pc[t] = "poll"
  /\ ~Ready(t)
  /\ Goto(t, "sleeplock")
  /\ UNCHANGED <<shared, local, work, computed, pauses>>

\* Under the mutex: sleep until ready.
SleepLock_NoRecheck(t) ==
  /\ pc[t] = "sleeplock"
  /\ LookedAt(t)
  /\ Goto(t, IF pending[t] \/ stop \/ pause THEN "dispatch" ELSE "sleepwait")
  /\ UNCHANGED <<shared, nth, node, from, mine, work, computed, pauses>>

SleepLock(t) ==
  /\ pc[t] = "sleeplock"
  /\ LookedAt(t)
  /\ Goto(t, IF Ready(t) THEN "dispatch" ELSE "sleepwait")
  /\ UNCHANGED <<shared, nth, node, from, mine, work, computed, pauses>>

Dispatch(t) ==
  /\ pc[t] = "dispatch"
  /\ pending' = [pending EXCEPT ![t] = FALSE]
  /\ Goto(t, IF pending[t] THEN "start" ELSE "top")
  /\ UNCHANGED <<shared, lastGraph, nth, node, from, mine, work, computed, pauses>>

Between(t) ==
  Top(t) \/ PauseLock(t) \/ PollReady(t) \/ PollEnds(t) \/ SleepLock(t) \/ Dispatch(t)

(***************************************************************************)
(* ggml_graph_compute_thread, by the main thread and the active workers.   *)
(***************************************************************************)
Start(t) ==
  /\ pc[t] = "start"
  /\ nth' = [nth EXCEPT ![t] = nGraph.threads]
  /\ node' = [node EXCEPT ![t] = 0]
  /\ Goto(t, "loop")
  /\ UNCHANGED <<shared, pending, lastGraph, from, mine, work, computed, pauses>>

GoesOn(t) == node[t] < Nodes /\ abort # node[t]

\* The head of the loop over the nodes: skip, compute or leave.
SkipNode(t) ==
  /\ pc[t] = "loop"
  /\ GoesOn(t) /\ node[t] \in Nops
  /\ node' = [node EXCEPT ![t] = @ + 1]
  /\ UNCHANGED <<shared, pc, pending, lastGraph, nth, from, mine, work, computed, pauses>>

\* ggml_compute_forward_mul_mat: convert this thread's part of the input into
\* the work buffer; thread 0 gives out the chunks from nth on.
Convert_FromZero(t) ==
  /\ pc[t] = "loop"
  /\ GoesOn(t) /\ node[t] \notin Nops
  /\ work' = [work EXCEPT ![t] = node[t]]
  /\ chunk' = IF t = 0 THEN 0 ELSE chunk
  /\ ToBarrier(t, "op")
  /\ UNCHANGED <<nGraph, nBarrier, nPassed, abort, stop, pause, plan, pending, lastGraph, nth,
                 node, mine, computed, pauses>>

Convert_NoBarrier(t) ==
  /\ pc[t] = "loop"
  /\ GoesOn(t) /\ node[t] \notin Nops
  /\ work' = [work EXCEPT ![t] = node[t]]
  /\ chunk' = IF t = 0 THEN nth[0] ELSE chunk
  /\ Goto(t, "chunks") /\ mine' = [mine EXCEPT ![t] = t]
  /\ UNCHANGED <<nGraph, nBarrier, nPassed, abort, stop, pause, plan, pending, lastGraph, nth,
                 node, from, computed, pauses>>

Convert(t) ==
  /\ pc[t] = "loop"
  /\ GoesOn(t) /\ node[t] \notin Nops
  /\ work' = [work EXCEPT ![t] = node[t]]
  /\ chunk' = IF t = 0 THEN nth[0] ELSE chunk
  /\ ToBarrier(t, "op")
  /\ UNCHANGED <<nGraph, nBarrier, nPassed, abort, stop, pause, plan, pending, lastGraph, nth,
                 node, mine, computed, pauses>>

LeaveLoop_NoBarrier(t) ==
  /\ pc[t] = "loop"
  /\ ~GoesOn(t)
  /\ Goto(t, IF t = 0 THEN "return" ELSE "top")
  /\ UNCHANGED <<shared, pending, lastGraph, nth, node, from, mine, work, computed, pauses>>

LeaveLoop(t) ==
  /\ pc[t] = "loop"
  /\ ~GoesOn(t)
  /\ ToBarrier(t, "end")
  /\ UNCHANGED <<shared, pending, lastGraph, nth, node, mine, work, computed, pauses>>

\* The loop over the chunks: compute one, then take the next from the
\* counter; with a thread for every chunk there is no next.
Compute(t) ==
  /\ pc[t] = "chunks"
  /\ mine[t] < Chunks
  /\ computed' = [computed EXCEPT ![node[t]][mine[t]] = @ + 1]
  /\ IF nth[t] >= Chunks
     THEN mine' = [mine EXCEPT ![t] = Chunks] /\ UNCHANGED chunk
     ELSE mine' = [mine EXCEPT ![t] = chunk] /\ chunk' = chunk + 1
  /\ UNCHANGED <<nGraph, nBarrier, nPassed, abort, stop, pause, plan, pc, pending, lastGraph,
                 nth, node, from, work, pauses>>

\* After the node: the abort callback may ask thread 0 to stop all threads
\* before the next node; a barrier unless this was the last node.
EndNode_AbortHere(t) ==
  /\ pc[t] = "chunks"
  /\ mine[t] >= Chunks
  /\ \/ t = 0 /\ abort' = node[0]
     \/ UNCHANGED abort
  /\ IF node[t] + 1 < Nodes
     THEN ToBarrier(t, "node") /\ UNCHANGED node
     ELSE Goto(t, "loop") /\ node' = [node EXCEPT ![t] = @ + 1] /\ UNCHANGED from
  /\ UNCHANGED <<nGraph, nBarrier, nPassed, chunk, stop, pause, plan, pending, lastGraph,
                 nth, mine, work, computed, pauses>>

EndNode(t) ==
  /\ pc[t] = "chunks"
  /\ mine[t] >= Chunks
  /\ \/ t = 0 /\ abort' = node[0] + 1
     \/ UNCHANGED abort
  /\ IF node[t] + 1 < Nodes
     THEN ToBarrier(t, "node") /\ UNCHANGED node
     ELSE Goto(t, "loop") /\ node' = [node EXCEPT ![t] = @ + 1] /\ UNCHANGED from
  /\ UNCHANGED <<nGraph, nBarrier, nPassed, chunk, stop, pause, plan, pending, lastGraph,
                 nth, mine, work, computed, pauses>>

(***************************************************************************)
(* ggml_barrier.                                                           *)
(***************************************************************************)
\* Return from it, to what follows the call.
PassedBarrier(t) ==
  /\ Goto(t, CASE from[t] = "op" -> "chunks"
               [] from[t] = "node" -> "loop"
               [] OTHER -> IF t = 0 THEN "return" ELSE "top")
  /\ node' = IF from[t] = "node" THEN [node EXCEPT ![t] = @ + 1] ELSE node
  /\ mine' = [mine EXCEPT ![t] = IF from[t] = "op" THEN t ELSE 0]

\* Read n_threads; alone, pass; otherwise read n_barrier_passed.
EnterBarrier(t) ==
  /\ pc[t] = "enter"
  /\ nth' = [nth EXCEPT ![t] = nGraph.threads]
  /\ IF nGraph.threads = 1
     THEN PassedBarrier(t)
     ELSE /\ Goto(t, "arrive")
          /\ mine' = [mine EXCEPT ![t] = nPassed]
          /\ UNCHANGED node
  /\ UNCHANGED <<shared, pending, lastGraph, from, work, computed, pauses>>

\* fetch_add on n_barrier: the last thread goes to open the barrier.
Arrive(t) ==
  /\ pc[t] = "arrive"
  /\ nBarrier' = nBarrier + 1
  /\ Goto(t, IF nBarrier = nth[t] - 1 THEN "reset" ELSE "spin")
  /\ UNCHANGED <<nGraph, nPassed, chunk, abort, stop, pause, plan, local, work, computed, pauses>>

ResetBarrier_Not(t) ==
  /\ pc[t] = "reset"
  /\ nBarrier' = nBarrier
  /\ Goto(t, "open")
  /\ UNCHANGED <<nGraph, nPassed, chunk, abort, stop, pause, plan, local, work, computed, pauses>>

ResetBarrier(t) ==
  /\ pc[t] = "reset"
  /\ nBarrier' = 0
  /\ Goto(t, "open")
  /\ UNCHANGED <<nGraph, nPassed, chunk, abort, stop, pause, plan, local, work, computed, pauses>>

OpenBarrier(t) ==
  /\ pc[t] = "open"
  /\ nPassed' = nPassed + 1
  /\ PassedBarrier(t)
  /\ UNCHANGED <<nGraph, nBarrier, chunk, abort, stop, pause, plan, pending, lastGraph, nth,
                 from, work, computed, pauses>>

Spin(t) ==
  /\ pc[t] = "spin"
  /\ nPassed # mine[t]
  /\ PassedBarrier(t)
  /\ UNCHANGED <<shared, pending, lastGraph, nth, from, work, computed, pauses>>

Barrier(t) == EnterBarrier(t) \/ Arrive(t) \/ ResetBarrier(t) \/ OpenBarrier(t) \/ Spin(t)

\* ggml_graph_compute returns: the caller may free graph, plan and buffer.
Return ==
  /\ pc[0] = "return"
  /\ plan' = 0
  /\ Goto(0, "idle")
  /\ UNCHANGED <<nGraph, nBarrier, nPassed, chunk, abort, stop, pause, local, work, computed,
                 pauses>>

Working(t) == Start(t) \/ SkipNode(t) \/ Convert(t) \/ LeaveLoop(t) \/ Compute(t) \/ EndNode(t)

Main == Install \/ (\E n \in 1 .. PoolSize : Kickoff(n)) \/ Pause \/ Resume \/ Free \/ Joined \/ Return
Thread(t) == Working(t) \/ Barrier(t)
Next == Main \/ (\E t \in Workers : Between(t)) \/ (\E t \in Threads : Thread(t))

(***************************************************************************)
(* The operating system runs every thread that can run, and a graph that   *)
(* is installed is started; nothing obliges the program to compute, pause  *)
(* or free.                                                                *)
(***************************************************************************)
Fairness ==
  /\ \A t \in Threads : WF_vars(Thread(t))
  /\ \A t \in Workers : WF_vars(Between(t))
  /\ WF_vars((\E n \in 1 .. PoolSize : Kickoff(n)) \/ Joined \/ Return)

Spec == Init /\ [][Next]_vars
FairSpec == Spec /\ Fairness

(***************************************************************************)
(* Properties.                                                             *)
(***************************************************************************)
GraphValue == [count: 0 .. MaxGraphs, threads: 0 .. PoolSize]
Places ==
  {"idle", "kickoff", "start", "loop", "chunks", "return", "join", "exited", "top",
   "pauselock", "pausewait", "poll", "sleeplock", "sleepwait", "dispatch",
   "enter", "arrive", "reset", "open", "spin"}

TypeOK ==
  /\ nGraph \in GraphValue
  /\ nBarrier \in 0 .. PoolSize
  /\ nPassed \in Nat
  /\ chunk \in 0 .. Chunks + PoolSize
  /\ abort \in 0 .. NoAbort
  /\ stop \in BOOLEAN /\ pause \in BOOLEAN
  /\ plan \in 0 .. MaxGraphs
  /\ pc \in [Threads -> Places]
  /\ pending \in [Threads -> BOOLEAN]
  /\ lastGraph \in [Threads -> GraphValue]
  /\ nth \in [Threads -> 0 .. PoolSize]
  /\ node \in [Threads -> 0 .. Nodes]
  /\ from \in [Threads -> Barriers]
  /\ mine \in [Threads -> Nat]
  /\ work \in [Threads -> 0 .. Nodes]
  /\ computed \in [Real -> [0 .. Chunks - 1 -> Nat]]

\* Places from which a thread may still read the graph, the plan or abort.
InGraph(t) ==
  \/ pc[t] \in {"start", "loop", "chunks", "enter"}
  \/ pc[t] \in {"arrive", "reset", "open", "spin"} /\ from[t] # "end"

\* "No worker threads should be accessing the parameters below at this stage"
\* (ggml-cpu.c:3309): a thread is inside a graph only while its plan is alive
\* and published, and it was counted in.
PlanOutlivesWork ==
  \A t \in Threads : InGraph(t) => plan = nGraph.count /\ plan # 0 /\ t < nGraph.threads

\* A chunk is computed when every earlier node is complete and every thread's
\* part of the work buffer holds this node's input: the two barriers.
NodesInOrder ==
  \A t \in Threads : pc[t] = "chunks" /\ mine[t] < Chunks =>
    /\ \A n \in Real : n < node[t] => \A c \in 0 .. Chunks - 1 : computed[n][c] = 1
    /\ \A u \in Active : work[u] = node[t]

\* No chunk is computed twice.
ChunksOnce == \A n \in Real : \A c \in 0 .. Chunks - 1 : computed[n][c] <= 1

\* When the graph returns, the nodes before the abort are complete and the
\* nodes behind it untouched: all threads left at the same node.
ReturnsComplete ==
  pc[0] = "return" =>
    \A n \in Real : \A c \in 0 .. Chunks - 1 : computed[n][c] = IF n < abort THEN 1 ELSE 0

\* A graph is computed node by node, every chunk once, as far as the abort that
\* all threads agree on.
GraphIsComputed == TypeOK /\ NodesInOrder /\ ChunksOnce /\ ReturnsComplete

\* A worker that sleeps has seen the latest graph and is not needed for it.
SleeperIsNotNeeded ==
  \A t \in Workers : pc[t] = "sleepwait" =>
    ~stop /\ ~pause /\ ~pending[t] /\ (lastGraph[t] = nGraph)

\* A graph that is started is finished.
GraphsFinish == pc[0] = "kickoff" ~> pc[0] = "idle"

\* ggml_threadpool_free returns.
FreeReturns == pc[0] = "join" ~> pc[0] = "exited"

\* The workers of a paused pool all go to sleep, unless it is resumed.
PauseQuiets == pause ~> (~pause \/ \A t \in Workers : pc[t] = "pausewait")

\* No call of the pool's functions waits for ever for a thread that sleeps, and
\* none works on in a paused pool.
CallsReturn == GraphsFinish /\ FreeReturns /\ PauseQuiets
=============================================================================
