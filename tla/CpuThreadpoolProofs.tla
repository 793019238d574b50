------------------------- MODULE CpuThreadpoolProofs -------------------------
(***************************************************************************)
(* Proofs about CpuThreadpool: the barrier keeps the threads of a graph in *)
(* step, so a plan outlives those who read it, nodes are computed in their *)
(* order and every chunk of them once, and no worker sleeps through a      *)
(* graph.                                                                  *)
(*                                                                         *)
(* Between two barriers all threads of a graph are in one segment: on the  *)
(* way from node n to the next node that is computed (LoopSegment), in the *)
(* chunks of node m (ChunkSegment), or done with the graph (EndSegment). A *)
(* thread that still spins at a barrier that has opened counts behind it.  *)
(***************************************************************************)
EXTENDS CpuThreadpool, FiniteSetTheorems, TLAPS

Outside == {"top", "pauselock", "pausewait", "poll", "sleeplock", "sleepwait", "dispatch"}

\* In ggml_barrier: released by a barrier that opened, waiting, counted in
\* n_barrier, or on its way.
Released(t) == pc[t] = "spin" /\ mine[t] # nPassed
Waiting(t)  == pc[t] = "spin" /\ mine[t] = nPassed
Opening(t)  == pc[t] \in {"reset", "open"}
Held(t)     == pc[t] \in {"enter", "arrive", "reset", "open"} \/ Waiting(t)
Counted     == {t \in Threads : Waiting(t) \/ pc[t] = "reset"}

BarrierInv ==
  /\ \A t \in Threads : pc[t] = "spin" => mine[t] <= nPassed
  /\ \A t \in Threads : pc[t] = "arrive" => mine[t] = nPassed /\ nth[t] = nGraph.threads
  /\ \A t, u \in Threads : Opening(t) /\ u \in Active /\ u # t => Waiting(u)
  /\ nBarrier = IF \E t \in Threads : pc[t] = "open" THEN 0 ELSE Cardinality(Counted)

\* A worker outside every graph, and one that has not begun the current graph.
Resting(t) ==
  /\ t \in Workers /\ ~pending[t]
  /\ \/ pc[t] \in Outside \cup {"exited"}
     \/ Released(t) /\ from[t] = "end"
Late(t) ==
  /\ t \in Workers
  /\ \/ /\ ~pending[t] /\ lastGraph[t] # nGraph
        /\ \/ pc[t] \in Outside
           \/ Released(t) /\ from[t] = "end"
     \/ pending[t] /\ lastGraph[t] = nGraph /\ pc[t] = "dispatch"

Seen(t) == ~pending[t] /\ (t = 0 \/ lastGraph[t] = nGraph)

Skipped(n, k) == k \in n .. Nodes /\ \A i \in n .. k - 1 : i \in Nops /\ i # abort

InLoop(t, n) ==
  /\ Seen(t)
  /\ \/ pc[t] = "start" /\ n = 0
     \/ /\ nth[t] = nGraph.threads
        /\ \/ Released(t) /\ from[t] = "node" /\ node[t] + 1 = n
           \/ /\ Skipped(n, node[t])
              /\ \/ pc[t] = "loop"
                 \/ /\ Held(t) /\ from[t] = "op"
                    /\ node[t] \in Real /\ node[t] # abort /\ work[t] = node[t]
                    /\ t = 0 => chunk = nGraph.threads
                 \/ Held(t) /\ from[t] = "end" /\ node[t] \in {Nodes, abort}

InChunks(t, m) ==
  /\ Seen(t)
  /\ nth[t] = nGraph.threads
  /\ work[t] = m
  /\ \/ Released(t) /\ from[t] = "op" /\ node[t] = m
     \/ pc[t] = "chunks" /\ node[t] = m /\ (mine[t] >= Chunks => chunk >= Chunks)
     \/ /\ chunk >= Chunks
        /\ \/ Held(t) /\ from[t] = "node" /\ node[t] = m /\ m + 1 < Nodes
           \/ /\ m + 1 = Nodes /\ node[t] = Nodes
              /\ pc[t] = "loop" \/ (Held(t) /\ from[t] = "end")

\* The chunk t has taken and not computed yet; Chunks or more for none.
Hold(t) == IF pc[t] = "chunks" THEN mine[t] ELSE IF Released(t) THEN t ELSE Chunks
Finished == {t \in Active : Hold(t) >= Chunks}

ComputedUpTo(n) == \A k \in Real : \A c \in 0 .. Chunks - 1 : computed[k][c] = IF k < n THEN 1 ELSE 0

InGraphNow ==
  /\ plan = nGraph.count /\ plan # 0 /\ nGraph.threads >= 1
  /\ \A t \in Threads \ Active : Resting(t)

LoopSegment(n) ==
  /\ InGraphNow
  /\ abort \in {NoAbort, n}
  /\ \A t \in Active : (n = 0 /\ Late(t)) \/ InLoop(t, n)
  /\ ComputedUpTo(n)

ChunkSegment(m) ==
  /\ InGraphNow
  /\ abort \in {NoAbort, m + 1}
  /\ \A t \in Active : InChunks(t, m)
  /\ chunk >= nGraph.threads
  /\ chunk <= IF nGraph.threads >= Chunks THEN nGraph.threads ELSE Chunks + Cardinality(Finished)
  /\ \A t \in Active : Hold(t) < Chunks => Hold(t) < chunk
  /\ \A t, u \in Active : Hold(t) = Hold(u) /\ Hold(t) < Chunks => t = u
  /\ \A k \in Real \ {m} : \A c \in 0 .. Chunks - 1 : computed[k][c] = IF k < m THEN 1 ELSE 0
  /\ \A c \in 0 .. Chunks - 1 :
       computed[m][c] = IF c < chunk /\ \A t \in Active : Hold(t) # c THEN 1 ELSE 0

EndSegment ==
  /\ \A t \in Workers : Resting(t) /\ (t \in Active => lastGraph[t] = nGraph)
  /\ ~pending[0]
  /\ \/ pc[0] \in {"idle", "kickoff", "join", "exited", "return"}
     \/ Released(0) /\ from[0] = "end"
  /\ ChunksOnce
  /\ pc[0] \in {"return", "spin"} => ComputedUpTo(abort)
  /\ pc[0] = "kickoff" => plan = nGraph.count + 1 /\ abort = NoAbort /\ computed = Blank

Segment ==
  \/ EndSegment
  \/ \E n \in 0 .. Nodes - 1 : LoopSegment(n)
  \/ \E m \in Real : ChunkSegment(m)

\* Only ggml_threadpool_free stops the workers, and no thread knows of a graph
\* that is still to come.
StopInv ==
  /\ \A t \in Threads : lastGraph[t].count <= nGraph.count
  /\ stop => pc[0] \in {"join", "exited"}
  /\ \A t \in Workers : pc[t] = "exited" => stop

IInv == TypeOK /\ BarrierInv /\ StopInv /\ Segment

-----------------------------------------------------------------------------
(* What a step of one thread leaves alone.                                 *)

Unmoved(u) ==
  /\ pc'[u] = pc[u] /\ pending'[u] = pending[u] /\ lastGraph'[u] = lastGraph[u]
  /\ nth'[u] = nth[u] /\ node'[u] = node[u] /\ from'[u] = from[u]
  /\ mine'[u] = mine[u] /\ work'[u] = work[u]

\* A thread that does not move stays where it is in its segment.
LEMMA Frame ==
  ASSUME NEW u, Unmoved(u), UNCHANGED <<nGraph, nPassed>>
  PROVE  /\ Released(u)' = Released(u)
         /\ Waiting(u)' = Waiting(u)
         /\ Opening(u)' = Opening(u)
         /\ Held(u)' = Held(u)
         /\ Resting(u)' = Resting(u)
         /\ Late(u)' = Late(u)
         /\ Hold(u)' = Hold(u)
         /\ abort' = abort /\ chunk' = chunk => \A n : InLoop(u, n)' = InLoop(u, n)
         /\ abort' = abort /\ u # 0 => \A n : InLoop(u, n)' = InLoop(u, n)
         /\ chunk' = chunk => \A m : InChunks(u, m)' = InChunks(u, m)
         /\ (chunk >= Chunks => chunk' >= Chunks) => \A m : InChunks(u, m) => InChunks(u, m)'
<1>1. /\ Released(u)' = Released(u) /\ Waiting(u)' = Waiting(u) /\ Opening(u)' = Opening(u)
  BY DEF Unmoved, Released, Waiting, Opening
<1>2. Held(u)' = Held(u)
  BY <1>1 DEF Unmoved, Held
<1>3. Resting(u)' = Resting(u)
  BY <1>1 DEF Unmoved, Resting
<1>4. Late(u)' = Late(u)
  BY <1>1 DEF Unmoved, Late
<1>5. Hold(u)' = Hold(u)
  BY <1>1 DEF Unmoved, Hold
<1>6. ASSUME abort' = abort, chunk' = chunk \/ u # 0, NEW n
      PROVE  InLoop(u, n)' = InLoop(u, n)
  BY <1>1, <1>2, <1>6 DEF Unmoved, InLoop, Seen, Skipped
<1>7. ASSUME chunk' = chunk, NEW m
      PROVE  InChunks(u, m)' = InChunks(u, m)
  BY <1>1, <1>2, <1>7 DEF Unmoved, InChunks, Seen
<1>8. ASSUME chunk >= Chunks => chunk' >= Chunks, NEW m, InChunks(u, m)
      PROVE  InChunks(u, m)'
  BY <1>1, <1>2, <1>8 DEF Unmoved, InChunks, Seen
<1>9. QED
  BY <1>1, <1>2, <1>3, <1>4, <1>5, <1>6, <1>7, <1>8

LEMMA Sizes ==
  /\ PoolSize \in Nat /\ PoolSize >= 1 /\ 0 \in Threads /\ Threads \subseteq Nat
  /\ Nodes \in Nat /\ Nodes >= 1 /\ Chunks \in Nat /\ NoAbort \in Nat
  /\ MaxGraphs \in Nat /\ MaxPauses \in Nat
  /\ Nops \subseteq 0 .. Nodes - 1 /\ Real \subseteq 0 .. Nodes - 1
BY PoolAssumption, GraphAssumption, BoundAssumption DEF Threads, NoAbort, Real

\* The threads that work on a graph were counted in and are not done with it.
LEMMA InSegment ==
  ASSUME IInv, NEW t \in Threads,
         pc[t] \in {"start", "loop", "chunks", "enter", "arrive", "reset", "open"} \/ Waiting(t)
  PROVE  /\ t \in Active
         /\ ~EndSegment
         /\ 0 \in Active
         /\ ~pending[t]
         /\ pc[t] # "start" => nth[t] = nGraph.threads
<1> USE Sizes
<1>1. ~EndSegment
  <2>1. SUFFICES ASSUME EndSegment PROVE FALSE
    OBVIOUS
  <2>2. CASE t = 0
    BY <2>1, <2>2 DEF EndSegment, Waiting, Released
  <2>3. CASE t # 0
    BY <2>1, <2>3 DEF EndSegment, Waiting, Released, Resting, Workers, Outside
  <2>4. QED BY <2>2, <2>3
<1>2. InGraphNow
  BY <1>1 DEF IInv, Segment, LoopSegment, ChunkSegment
<1>3. t \in Active
  BY <1>2 DEF InGraphNow, Resting, Waiting, Released, Outside
<1>4. 0 \in Active
  BY <1>2 DEF InGraphNow, Active, IInv, TypeOK, GraphValue
<1>5. ~pending[t] /\ (pc[t] # "start" => nth[t] = nGraph.threads)
  <2>1. CASE \E n \in 0 .. Nodes - 1 : LoopSegment(n)
    <3>1. PICK n \in 0 .. Nodes - 1 : LoopSegment(n)
      BY <2>1
    <3>2. ~Late(t)
      BY DEF Late, Waiting, Released, Outside
    <3>3. InLoop(t, n)
      BY <3>1, <3>2, <1>3 DEF LoopSegment
    <3>4. QED BY <3>3 DEF InLoop, Seen
  <2>2. CASE \E m \in Real : ChunkSegment(m)
    BY <2>2, <1>3 DEF ChunkSegment, InChunks, Seen
  <2>3. QED BY <1>1, <2>1, <2>2 DEF IInv, Segment
<1>6. QED BY <1>1, <1>3, <1>4, <1>5

\* Between two calls of ggml_graph_compute no thread works.
LEMMA BetweenGraphs ==
  ASSUME IInv, pc[0] \in {"idle", "kickoff", "join", "return", "exited"}
  PROVE  EndSegment
<1> USE Sizes
<1>1. SUFFICES ASSUME ~EndSegment PROVE FALSE
  OBVIOUS
<1>2. InGraphNow
  BY <1>1 DEF IInv, Segment, LoopSegment, ChunkSegment
<1>3. 0 \in Active
  BY <1>2 DEF InGraphNow, Active, IInv, TypeOK, GraphValue
<1>4. CASE \E n \in 0 .. Nodes - 1 : LoopSegment(n)
  BY <1>3, <1>4 DEF LoopSegment, Late, InLoop, Workers, Released, Held, Waiting
<1>5. CASE \E m \in Real : ChunkSegment(m)
  BY <1>3, <1>5 DEF ChunkSegment, InChunks, Released, Held, Waiting
<1>6. QED BY <1>1, <1>4, <1>5 DEF IInv, Segment

\* A thread that neither holds a barrier nor comes to one leaves BarrierInv.
LEMMA LocalBarrier ==
  ASSUME IInv, NEW t \in Threads, TypeOK',
         \A u \in Threads \ {t} : Unmoved(u),
         UNCHANGED <<nGraph, nBarrier, nPassed>>,
         pc[t] \notin {"reset", "open"}, ~Waiting(t),
         pc'[t] \notin {"spin", "arrive", "reset", "open"}
  PROVE  BarrierInv'
<1> USE DEF BarrierInv
<1>1. BarrierInv
  BY DEF IInv
<1>2. \A u \in Threads \ {t} : Waiting(u)' = Waiting(u) /\ Opening(u)' = Opening(u)
  BY Frame
<1>3. ~Waiting(t)' /\ ~Opening(t)' /\ ~Opening(t) /\ Active' = Active
  BY DEF Waiting, Opening, Active
<1>4. \A u \in Threads : pc'[u] = "spin" => mine'[u] <= nPassed'
  BY <1>1 DEF Unmoved
<1>5. \A u \in Threads : pc'[u] = "arrive" => mine'[u] = nPassed' /\ nth'[u] = nGraph'.threads
  BY <1>1 DEF Unmoved
<1>6. \A v, u \in Threads : Opening(v)' /\ u \in Active' /\ u # v => Waiting(u)'
  BY <1>1, <1>2, <1>3
<1>7. Counted' = Counted
  BY <1>2, <1>3 DEF Counted, Unmoved
<1>8. (\E u \in Threads : pc'[u] = "open") <=> (\E u \in Threads : pc[u] = "open")
  BY DEF Unmoved
<1>9. QED BY <1>1, <1>4, <1>5, <1>6, <1>7, <1>8

\* A step of one thread within the segment before node n, and after its end.
LEMMA LoopStep ==
  ASSUME IInv, NEW n \in 0 .. Nodes - 1, LoopSegment(n), NEW t \in Threads,
         \A u \in Threads \ {t} : Unmoved(u),
         UNCHANGED <<nGraph, nPassed, abort, plan, computed>>,
         chunk' = chunk \/ t = 0,
         t \in Active => (n = 0 /\ Late(t)') \/ InLoop(t, n)',
         t \notin Active => Resting(t)'
  PROVE  LoopSegment(n)'
<1>1. Active' = Active
  BY DEF Active
<1>2. \A u \in Threads \ Active : Resting(u)'
  BY Frame DEF LoopSegment, InGraphNow
<1>3. InGraphNow'
  BY <1>1, <1>2 DEF LoopSegment, InGraphNow
<1>4. ASSUME NEW u \in Active, u # t
      PROVE  (n = 0 /\ Late(u)') \/ InLoop(u, n)'
  <2>1. /\ Late(u)' = Late(u)
        /\ InLoop(u, n)' = InLoop(u, n)
    BY <1>4, Frame DEF Active
  <2>2. (n = 0 /\ Late(u)) \/ InLoop(u, n)
    BY DEF LoopSegment
  <2>3. QED BY <1>4, <2>1, <2>2
<1>5. (\A u \in Active : (n = 0 /\ Late(u)) \/ InLoop(u, n))'
  BY <1>1, <1>4
<1>6. ComputedUpTo(n)'
  BY DEF LoopSegment, ComputedUpTo
<1>7. QED
  BY <1>3, <1>5, <1>6 DEF LoopSegment

LEMMA HoldIsNat ==
  ASSUME TypeOK, NEW t \in Threads
  PROVE  Hold(t) \in Nat
BY Sizes DEF Hold, TypeOK

\* A step of one thread in the chunks of node m that neither takes a chunk nor
\* computes one.
LEMMA ChunkStep ==
  ASSUME IInv, NEW m \in Real, ChunkSegment(m), NEW t \in Threads,
         \A u \in Threads \ {t} : Unmoved(u),
         TypeOK',
         UNCHANGED <<nGraph, nPassed, plan, computed, chunk>>,
         abort' \in {NoAbort, m + 1},
         t \in Active => InChunks(t, m)' /\ (Hold(t)' = Hold(t) \/ (Hold(t) >= Chunks /\ Hold(t)' >= Chunks)),
         t \notin Active => Resting(t)'
  PROVE  ChunkSegment(m)'
<1>1. Active' = Active
  BY DEF Active
<1>2. \A u \in Threads \ Active : Resting(u)'
  BY Frame DEF ChunkSegment, InGraphNow
<1>3. InGraphNow'
  BY <1>1, <1>2 DEF ChunkSegment, InGraphNow
<1>4. \A u \in Active : u # t => InChunks(u, m)'
  BY Frame DEF ChunkSegment, Active
<1>5. \A u \in Active : Hold(u)' = Hold(u) \/ (Hold(u) >= Chunks /\ Hold(u)' >= Chunks)
  BY Frame DEF Active
<1>6. Finished' = Finished
  BY <1>1, <1>5 DEF Finished
<1>7. \A u \in Active : Hold(u) \in Nat /\ Hold(u)' \in Nat
  BY Sizes DEF IInv, Active, Hold, TypeOK
<1>8. \A u \in Active : Hold(u)' < Chunks => Hold(u)' = Hold(u)
  BY <1>5, <1>7, Sizes
<1>9. \A u \in Active : Hold(u)' < Chunks => Hold(u)' < chunk
  BY <1>8 DEF ChunkSegment
<1>10. ASSUME NEW u \in Active, NEW v \in Active, Hold(u)' = Hold(v)', Hold(u)' < Chunks
       PROVE  u = v
  BY <1>8, <1>10 DEF ChunkSegment
<1>11. \A c \in 0 .. Chunks - 1 : \A u \in Active : Hold(u)' = c <=> Hold(u) = c
  BY <1>5, <1>7, Sizes
<1>12. ASSUME NEW c \in 0 .. Chunks - 1
       PROVE  computed[m][c] = IF c < chunk /\ \A u \in Active : Hold(u)' # c THEN 1 ELSE 0
  BY <1>11 DEF ChunkSegment
<1>13. \A c \in 0 .. Chunks - 1 :
         (computed[m][c] = IF c < chunk /\ \A u \in Active : Hold(u) # c THEN 1 ELSE 0)'
  BY <1>1, <1>12
<1>14. QED
  BY <1>1, <1>3, <1>4, <1>6, <1>9, <1>10, <1>13 DEF ChunkSegment

\* The same after the graph is done, for all threads but the main thread.
LEMMA EndStep ==
  ASSUME IInv, EndSegment, NEW t \in Workers,
         \A u \in Threads \ {t} : Unmoved(u),
         UNCHANGED <<nGraph, nPassed, plan, computed, abort>>,
         Resting(t)', t \in Active => lastGraph'[t] = nGraph
  PROVE  EndSegment'
<1>1. t # 0 /\ 0 \in Threads /\ Active' = Active
  BY Sizes DEF Workers, Active
<1>2. \A u \in Workers : Resting(u)' /\ (u \in Active => lastGraph'[u] = nGraph')
  BY Frame DEF EndSegment, Workers, Unmoved
<1>3. Unmoved(0) /\ Released(0)' = Released(0)
  BY <1>1, Frame
<1>4. QED
  BY <1>1, <1>2, <1>3 DEF EndSegment, Unmoved, ComputedUpTo, ChunksOnce

-----------------------------------------------------------------------------
(* The workers between graphs.                                             *)

LEMMA Update ==
  ASSUME NEW S, NEW T, NEW f \in [S -> T], NEW i, NEW x \in T
  PROVE  [f EXCEPT ![i] = x] \in [S -> T]
OBVIOUS

LEMMA BetweenStep ==
  ASSUME IInv, NEW t \in Workers, Between(t)
  PROVE  IInv'
<1> USE Sizes DEF Goto
<1>1. /\ t \in Threads /\ t # 0
      /\ UNCHANGED <<nGraph, nBarrier, nPassed, chunk, abort, stop, pause, plan, nth, node,
                     from, mine, work, computed, pauses>>
  BY DEF Between, Top, PauseLock, PollReady, PollEnds, SleepLock, Dispatch, Workers,
         shared, local
<1>2. /\ pc[t] \in Outside
      /\ pc'[t] \in Outside \cup {"exited", "start"}
      /\ pc'[t] = "exited" => stop
      /\ pc'[t] = "start" => pending[t] /\ pc[t] = "dispatch"
      /\ pc' = [pc EXCEPT ![t] = pc'[t]]
  BY <1>1 DEF Between, Top, PauseLock, PollReady, PollEnds, SleepLock, Dispatch, Outside,
              IInv, TypeOK
<1>3. /\ \/ lastGraph' = lastGraph
         \/ lastGraph' = [lastGraph EXCEPT ![t] = nGraph]
      /\ \/ pending' = pending
         \/ pending' = [pending EXCEPT ![t] = FALSE]
         \/ pending' = [pending EXCEPT ![t] = t < nGraph.threads]
  BY DEF Between, Top, PauseLock, PollReady, PollEnds, SleepLock, Dispatch, LookedAt, local
<1>4. TypeOK'
  <2>1. pc' \in [Threads -> Places]
    BY <1>1, <1>2 DEF IInv, TypeOK, Places, Outside
  <2>2. lastGraph' \in [Threads -> GraphValue]
    BY <1>3 DEF IInv, TypeOK
  <2>3. pending' \in [Threads -> BOOLEAN]
    <3>1. pending \in [Threads -> BOOLEAN]
      BY DEF IInv, TypeOK
    <3>2. FALSE \in BOOLEAN /\ (t < nGraph.threads) \in BOOLEAN
      BY <1>1 DEF IInv, TypeOK, GraphValue
    <3>3. QED BY <1>3, <3>1, <3>2, Update
  <2>4. QED BY <1>1, <2>1, <2>2, <2>3 DEF IInv, TypeOK
<1>5. \A u \in Threads \ {t} : Unmoved(u)
  BY <1>1, <1>2, <1>3 DEF Unmoved, IInv, TypeOK
<1>6. BarrierInv'
  BY <1>1, <1>2, <1>4, <1>5, LocalBarrier DEF Outside, Waiting
<1>7. StopInv'
  <2>1. \A u \in Threads : lastGraph'[u].count <= nGraph'.count
    <3>1. nGraph.count <= nGraph.count
      BY DEF IInv, TypeOK, GraphValue
    <3>2. \A u \in Threads : lastGraph'[u] = lastGraph[u] \/ lastGraph'[u] = nGraph
      BY <1>3, <1>1 DEF IInv, TypeOK
    <3>3. QED BY <1>1, <3>1, <3>2 DEF IInv, StopInv
  <2>2. pc'[0] = pc[0]
    BY <1>1, <1>2 DEF IInv, TypeOK
  <2>3. \A u \in Workers : pc'[u] = "exited" => stop'
    BY <1>1, <1>2, <1>5 DEF IInv, StopInv, Unmoved, Workers
  <2>4. QED BY <1>1, <2>1, <2>2, <2>3 DEF IInv, StopInv
<1>8. ASSUME Resting(t), t \notin Active \/ lastGraph[t] = nGraph
      PROVE  Resting(t)' /\ (t \in Active => lastGraph'[t] = nGraph)
  <2>1. pc'[t] # "start"
    BY <1>2, <1>8 DEF Resting
  <2>2. ~pending'[t]
    <3>1. CASE lastGraph[t] = nGraph
      BY <1>1, <1>8, <3>1 DEF Between, Top, PauseLock, PollReady, PollEnds, SleepLock, Dispatch,
               LookedAt, local, IInv, TypeOK, Resting
    <3>2. CASE t \notin Active
      <4>1. ~(t < nGraph.threads)
        BY <3>2, <1>1 DEF Active
      <4>2. QED BY <1>1, <1>3, <1>8, <4>1 DEF Resting, IInv, TypeOK
    <3>3. QED BY <1>8, <3>1, <3>2
  <2>3. t \in Active => lastGraph'[t] = nGraph
    BY <1>1, <1>3, <1>8 DEF IInv, TypeOK
  <2>4. QED BY <1>2, <2>1, <2>2, <2>3 DEF Resting
<1>9. ASSUME Late(t), ~stop, t \in Active
      PROVE  Late(t)' \/ InLoop(t, 0)'
  <2>1. pc'[t] \in Outside \cup {"start"}
    BY <1>2, <1>9
  <2>2. CASE pending[t]
    <3>1. pc[t] = "dispatch" /\ lastGraph[t] = nGraph
      BY <1>9, <2>2 DEF Late
    <3>2. pc'[t] = "start" /\ ~pending'[t] /\ lastGraph' = lastGraph
      BY <1>1, <2>2, <3>1 DEF Between, Top, PauseLock, PollReady, PollEnds, SleepLock, Dispatch,
               IInv, TypeOK
    <3>3. QED BY <1>1, <3>1, <3>2 DEF InLoop, Seen
  <2>3. CASE ~pending[t]
    <3>1. lastGraph[t] # nGraph /\ pc'[t] \in Outside
      BY <1>2, <1>9, <2>1, <2>3 DEF Late
    <3>2. CASE lastGraph' = lastGraph /\ ~pending'[t]
      BY <1>1, <3>1, <3>2 DEF Late
    <3>3. CASE ~(lastGraph' = lastGraph /\ ~pending'[t])
      <4>1. t < nGraph.threads
        BY <1>9 DEF Active
      <4>2. LookedAt(t) /\ (PollReady(t) \/ SleepLock(t))
        BY <1>1, <2>3, <3>3 DEF Between, Top, PauseLock, PollReady, PollEnds, SleepLock, Dispatch,
             local, IInv, TypeOK
      <4>3. lastGraph'[t] = nGraph /\ pending'[t]
        BY <1>1, <2>3, <3>3, <4>1, <4>2 DEF LookedAt, IInv, TypeOK
      <4>4. pc'[t] = "dispatch"
        BY <1>1, <4>2, <4>3, <3>1 DEF PollReady, SleepLock, Ready, IInv, TypeOK
      <4>5. QED BY <1>1, <4>3, <4>4 DEF Late
    <3>4. QED BY <3>2, <3>3
  <2>4. QED BY <2>2, <2>3
<1>10. Segment'
  <2>1. CASE EndSegment
    <3>1. Resting(t) /\ (t \notin Active \/ lastGraph[t] = nGraph)
      BY <2>1 DEF EndSegment
    <3>2. EndSegment'
      BY <1>1, <1>5, <1>8, <2>1, <3>1, EndStep
    <3>3. QED BY <3>2 DEF Segment
  <2>2. ASSUME NEW n \in 0 .. Nodes - 1, LoopSegment(n)
        PROVE  Segment'
    <3>1. t \notin Active => Resting(t)'
      BY <1>1, <1>8, <2>2 DEF LoopSegment, InGraphNow
    <3>2. ASSUME t \in Active PROVE (n = 0 /\ Late(t)') \/ InLoop(t, n)'
      <4>1. ~InLoop(t, n)
        BY <1>2 DEF InLoop, Outside, Held, Waiting, Released
      <4>2. n = 0 /\ Late(t)
        BY <2>2, <3>2, <4>1 DEF LoopSegment
      <4>3. ~stop
        <5>1. ~EndSegment
          BY <1>1, <3>2, <4>2 DEF EndSegment, Resting, Late
        <5>2. QED BY <5>1, BetweenGraphs DEF IInv, StopInv
      <4>4. QED BY <1>9, <3>2, <4>2, <4>3
    <3>3. LoopSegment(n)'
      BY <1>1, <1>5, <2>2, <3>1, <3>2, LoopStep
    <3>4. QED BY <3>3 DEF Segment
  <2>3. ASSUME NEW m \in Real, ChunkSegment(m)
        PROVE  Segment'
    <3>1. t \notin Active => Resting(t)'
      BY <1>1, <1>8, <2>3 DEF ChunkSegment, InGraphNow
    <3>2. t \notin Active
      BY <1>2, <2>3 DEF ChunkSegment, InChunks, Outside, Held, Waiting, Released
    <3>3. ChunkSegment(m)'
      BY <1>1, <1>4, <1>5, <2>3, <3>1, <3>2, ChunkStep DEF ChunkSegment
    <3>4. QED BY <3>3 DEF Segment
  <2>4. QED BY <2>1, <2>2, <2>3 DEF IInv, Segment
<1>11. QED BY <1>4, <1>6, <1>7, <1>10 DEF IInv

-----------------------------------------------------------------------------
(* The threads in a graph.                                                 *)

\* What every step of ggml_graph_compute_thread and ggml_barrier leaves alone.
LEMMA ThreadFrame ==
  ASSUME IInv, NEW t \in Threads, Thread(t)
  PROVE  /\ \A u \in Threads \ {t} : Unmoved(u)
         /\ UNCHANGED <<nGraph, stop, pause, plan, pending, lastGraph, pauses>>
         /\ StopInv'
<1> USE DEF Thread, Working, Barrier, Start, SkipNode, Convert, LeaveLoop, Compute, EndNode,
            EnterBarrier, Arrive, ResetBarrier, OpenBarrier, Spin, shared, local
<1>1. UNCHANGED <<nGraph, stop, pause, plan, pending, lastGraph, pauses>>
  OBVIOUS
<1>2. \A u \in Threads \ {t} :
        /\ pc'[u] = pc[u] /\ nth'[u] = nth[u] /\ node'[u] = node[u] /\ from'[u] = from[u]
        /\ mine'[u] = mine[u] /\ work'[u] = work[u]
  BY DEF PassedBarrier, ToBarrier, Goto, IInv, TypeOK
<1>3. pc[t] \notin {"join", "exited"} /\ (t # 0 => pc'[t] # "exited")
  BY DEF PassedBarrier, ToBarrier, Goto, IInv, TypeOK
<1>4. StopInv'
  BY <1>1, <1>2, <1>3, Sizes DEF IInv, StopInv, Workers
<1>5. QED BY <1>1, <1>2, <1>4 DEF Unmoved

\* Where a thread at the head of the loop can be.
LEMMA LoopCase ==
  ASSUME IInv, NEW t \in Threads, pc[t] \in {"start", "loop"}
  PROVE  \/ \E n \in 0 .. Nodes - 1 : LoopSegment(n) /\ InLoop(t, n)
         \/ /\ pc[t] = "loop" /\ node[t] = Nodes
            /\ \E m \in Real : ChunkSegment(m) /\ InChunks(t, m)
<1>1. \/ \E n \in 0 .. Nodes - 1 : LoopSegment(n) /\ InLoop(t, n)
      \/ \E m \in Real : ChunkSegment(m) /\ InChunks(t, m)
  BY InSegment DEF IInv, Segment, LoopSegment, ChunkSegment, Late, Outside, Released
<1>2. ASSUME NEW m, InChunks(t, m)
      PROVE  pc[t] = "loop" /\ node[t] = Nodes
  BY <1>2 DEF InChunks, Released, Held, Waiting
<1>3. QED BY <1>1, <1>2

LEMMA ChunkCase ==
  ASSUME IInv, NEW t \in Threads, pc[t] = "chunks"
  PROVE  \E m \in Real : ChunkSegment(m) /\ InChunks(t, m)
BY InSegment DEF IInv, Segment, LoopSegment, ChunkSegment, InLoop, Late, Outside, Released,
                 Held, Waiting

LEMMA StartStep ==
  ASSUME IInv, NEW t \in Threads, Start(t)
  PROVE  IInv'
<1> USE Sizes DEF Start, Goto, shared
<1>1. TypeOK'
  <2>1. TypeOK
    BY DEF IInv
  <2>2. nth' \in [Threads -> 0 .. PoolSize] /\ node' \in [Threads -> 0 .. Nodes]
    BY <2>1, Update DEF TypeOK, GraphValue
  <2>3. pc' \in [Threads -> Places]
    BY <2>1 DEF TypeOK, Places
  <2>4. QED BY <2>1, <2>2, <2>3 DEF TypeOK
<1>2. BarrierInv'
  BY <1>1, ThreadFrame, LocalBarrier DEF Thread, Working, Waiting, IInv, TypeOK
<1>3. Segment'
  <2>1. t \in Active /\ pc[t] = "start"
    BY InSegment
  <2>2. PICK n \in 0 .. Nodes - 1 : LoopSegment(n) /\ InLoop(t, n)
    BY LoopCase
  <2>3. InLoop(t, n)'
    BY <2>1, <2>2 DEF InLoop, Seen, Skipped, Released, Held, Waiting, IInv, TypeOK
  <2>4. LoopSegment(n)'
    BY <2>1, <2>2, <2>3, ThreadFrame, LoopStep DEF Thread, Working
  <2>5. QED BY <2>4 DEF Segment
<1>4. QED BY <1>1, <1>2, <1>3, ThreadFrame DEF IInv, Thread, Working

LEMMA SkipNodeStep ==
  ASSUME IInv, NEW t \in Threads, SkipNode(t)
  PROVE  IInv'
<1> USE Sizes DEF SkipNode, Goto, shared
<1>1. TypeOK'
  <2>1. TypeOK
    BY DEF IInv
  <2>2. node' \in [Threads -> 0 .. Nodes]
    BY <2>1 DEF TypeOK, GoesOn
  <2>3. QED BY <2>1, <2>2 DEF TypeOK
<1>2. BarrierInv'
  BY <1>1, ThreadFrame, LocalBarrier DEF Thread, Working, Waiting, IInv, TypeOK
<1>3. Segment'
  <2>1. t \in Active
    BY InSegment
  <2>2. PICK n \in 0 .. Nodes - 1 : LoopSegment(n) /\ InLoop(t, n)
    BY LoopCase DEF GoesOn
  <2>3. InLoop(t, n)'
    <3>1. Skipped(n, node[t]) /\ nth[t] = nGraph.threads /\ Seen(t)
      BY <2>2 DEF InLoop, Released, Held, Waiting
    <3>a. node[t] \in 0 .. Nodes - 1 /\ node[t] \in Nops /\ node[t] # abort
      BY DEF GoesOn, IInv, TypeOK
    <3>2. Skipped(n, node[t] + 1)
      <4> HIDE DEF SkipNode, Goto, shared
      <4>1. node[t] + 1 \in n .. Nodes
        BY <3>1, <3>a DEF Skipped
      <4>2. \A i \in n .. node[t] + 1 - 1 : i \in n .. node[t] - 1 \/ i = node[t]
        BY <3>1, <3>a DEF Skipped
      <4>3. QED BY <3>1, <3>a, <4>1, <4>2 DEF Skipped
    <3>3. node'[t] = node[t] + 1 /\ pc'[t] = "loop"
      BY DEF IInv, TypeOK
    <3>4. Skipped(n, node[t])'
      BY <3>2, <3>3 DEF Skipped
    <3>5. QED BY <3>1, <3>3, <3>4 DEF InLoop, Seen
  <2>4. LoopSegment(n)'
    BY <2>1, <2>2, <2>3, ThreadFrame, LoopStep DEF Thread, Working
  <2>5. QED BY <2>4 DEF Segment
<1>4. QED BY <1>1, <1>2, <1>3, ThreadFrame DEF IInv, Thread, Working

LEMMA ConvertStep ==
  ASSUME IInv, NEW t \in Threads, Convert(t)
  PROVE  IInv'
<1> USE Sizes DEF Convert, ToBarrier, Goto
<1>1. TypeOK'
  <2>1. TypeOK
    BY DEF IInv
  <2>2. node[t] \in 0 .. Nodes /\ "op" \in Barriers /\ "enter" \in Places
    BY <2>1 DEF TypeOK, Barriers, Places
  <2>3. /\ pc' \in [Threads -> Places] /\ from' \in [Threads -> Barriers]
        /\ work' \in [Threads -> 0 .. Nodes]
    BY <2>1, <2>2, Update DEF TypeOK
  <2>4. chunk' \in 0 .. Chunks + PoolSize
    BY <2>1 DEF TypeOK
  <2>5. QED BY <2>1, <2>3, <2>4 DEF TypeOK
<1>2. BarrierInv'
  BY <1>1, ThreadFrame, LocalBarrier DEF Thread, Working, Waiting, IInv, TypeOK
<1>3. Segment'
  <2>1. t \in Active /\ nth[t] = nGraph.threads /\ node[t] \in 0 .. Nodes - 1 /\ abort # node[t]
    <3>1. node[t] \in 0 .. Nodes
      BY DEF IInv, TypeOK
    <3>2. t \in Active /\ nth[t] = nGraph.threads
      BY InSegment
    <3>3. QED BY <3>1, <3>2 DEF GoesOn
  <2>2. PICK n \in 0 .. Nodes - 1 : LoopSegment(n) /\ InLoop(t, n)
    BY LoopCase DEF GoesOn
  <2>3. InLoop(t, n)'
    <3>1. Skipped(n, node[t]) /\ Seen(t)
      BY <2>2 DEF InLoop, Released, Held, Waiting
    <3>2. /\ pc'[t] = "enter" /\ from'[t] = "op" /\ work'[t] = node[t]
          /\ t = 0 => chunk' = nGraph.threads
      BY <2>1 DEF IInv, TypeOK
    <3>3. Skipped(n, node[t])' /\ Seen(t)' /\ node[t] \in Real
      BY <3>1, <2>1 DEF Skipped, Seen, Real
    <3>4. QED BY <2>1, <3>2, <3>3 DEF InLoop, Held
  <2>4. LoopSegment(n)'
    BY <2>1, <2>2, <2>3, ThreadFrame, LoopStep DEF Thread, Working
  <2>5. QED BY <2>4 DEF Segment
<1>4. QED BY <1>1, <1>2, <1>3, ThreadFrame DEF IInv, Thread, Working

LEMMA LeaveLoopStep ==
  ASSUME IInv, NEW t \in Threads, LeaveLoop(t)
  PROVE  IInv'
<1> USE Sizes DEF LeaveLoop, ToBarrier, Goto, shared
<1>1. TypeOK'
  <2>1. TypeOK
    BY DEF IInv
  <2>2. "end" \in Barriers /\ "enter" \in Places
    BY DEF Barriers, Places
  <2>3. pc' \in [Threads -> Places] /\ from' \in [Threads -> Barriers]
    BY <2>1, <2>2, Update DEF TypeOK
  <2>4. QED BY <2>1, <2>3 DEF TypeOK
<1>2. BarrierInv'
  BY <1>1, ThreadFrame, LocalBarrier DEF Thread, Working, Waiting, IInv, TypeOK
<1>3. t \in Active /\ nth[t] = nGraph.threads /\ node[t] \in {Nodes, abort}
  <2>1. node[t] \in 0 .. Nodes
    BY DEF IInv, TypeOK
  <2>2. t \in Active /\ nth[t] = nGraph.threads
    BY InSegment
  <2>3. QED BY <2>1, <2>2 DEF GoesOn
<1>4. pc'[t] = "enter" /\ from'[t] = "end"
  BY DEF IInv, TypeOK
<1>5. ASSUME NEW n \in 0 .. Nodes - 1, LoopSegment(n), InLoop(t, n)
      PROVE  Segment'
  <2>1. Skipped(n, node[t]) /\ Seen(t)
    BY <1>5 DEF InLoop, Released, Held, Waiting
  <2>2. InLoop(t, n)'
    BY <1>3, <1>4, <2>1 DEF InLoop, Skipped, Seen, Held
  <2>3. LoopSegment(n)'
    BY <1>3, <1>5, <2>2, ThreadFrame, LoopStep DEF Thread, Working
  <2>4. QED BY <2>3 DEF Segment
<1>6. ASSUME NEW m \in Real, ChunkSegment(m), InChunks(t, m)
      PROVE  Segment'
  <2>1. InChunks(t, m)'
    BY <1>3, <1>4, <1>6 DEF InChunks, Seen, Held, Released, Waiting
  <2>2. Hold(t)' = Hold(t)
    BY <1>4 DEF Hold, Released
  <2>3. ChunkSegment(m)'
    BY <1>1, <1>3, <1>6, <2>1, <2>2, ThreadFrame, ChunkStep DEF Thread, Working, ChunkSegment
  <2>4. QED BY <2>3 DEF Segment
<1>7. QED BY <1>1, <1>2, <1>5, <1>6, LoopCase, ThreadFrame DEF IInv, Thread, Working

LEMMA EndNodeStep ==
  ASSUME IInv, NEW t \in Threads, EndNode(t)
  PROVE  IInv'
<1> USE Sizes DEF EndNode, ToBarrier, Goto
<1>1. t \in Active /\ nth[t] = nGraph.threads
  BY InSegment
<1>2. PICK m \in Real : ChunkSegment(m) /\ InChunks(t, m)
  BY ChunkCase
<1>3. node[t] = m /\ m \in 0 .. Nodes - 1 /\ chunk >= Chunks /\ Seen(t) /\ work[t] = m
  BY <1>2 DEF InChunks, Held, Released, Waiting
<1>4. abort' \in {NoAbort, m + 1}
  BY <1>2, <1>3 DEF ChunkSegment
<1>5. TypeOK'
  <2>1. TypeOK
    BY DEF IInv
  <2>2. "node" \in Barriers /\ "enter" \in Places /\ "loop" \in Places
    BY DEF Barriers, Places
  <2>3. pc' \in [Threads -> Places] /\ from' \in [Threads -> Barriers]
    <3>1. pc \in [Threads -> Places] /\ from \in [Threads -> Barriers]
      BY <2>1 DEF TypeOK
    <3>2. CASE node[t] + 1 < Nodes
      BY <2>2, <3>1, <3>2, Update
    <3>3. CASE ~(node[t] + 1 < Nodes)
      BY <2>2, <3>1, <3>3, Update
    <3>4. QED BY <3>2, <3>3
  <2>4. node' \in [Threads -> 0 .. Nodes]
    BY <1>3, <2>1 DEF TypeOK
  <2>5. abort' \in 0 .. NoAbort
    BY <1>3, <1>4 DEF NoAbort
  <2>6. QED BY <2>1, <2>3, <2>4, <2>5 DEF TypeOK
<1>6. BarrierInv'
  BY <1>5, ThreadFrame, LocalBarrier DEF Thread, Working, Waiting, IInv, TypeOK
<1>7. InChunks(t, m)'
  <2>1. CASE m + 1 < Nodes
    <3>1. pc'[t] = "enter" /\ from'[t] = "node" /\ node' = node
      BY <1>3, <2>1 DEF IInv, TypeOK
    <3>2. QED BY <1>1, <1>3, <2>1, <3>1 DEF InChunks, Seen, Held
  <2>2. CASE ~(m + 1 < Nodes)
    <3>1. pc'[t] = "loop" /\ node'[t] = m + 1 /\ m + 1 = Nodes
      BY <1>3, <2>2 DEF IInv, TypeOK
    <3>2. QED BY <1>1, <1>3, <3>1 DEF InChunks, Seen
  <2>3. QED BY <2>1, <2>2
<1>8. Hold(t) >= Chunks /\ Hold(t)' = Chunks
  <2>1. pc'[t] \in {"enter", "loop"}
    BY DEF IInv, TypeOK
  <2>2. QED BY <2>1 DEF Hold, Released
<1>9. ChunkSegment(m)'
  BY <1>1, <1>2, <1>4, <1>5, <1>7, <1>8, ThreadFrame, ChunkStep DEF Thread, Working
<1>10. QED
  BY <1>5, <1>6, <1>9, ThreadFrame DEF IInv, Segment, Thread, Working

\* Cardinalities of the sets of threads that are counted.
LEMMA SubsetCard ==
  ASSUME NEW S, S \subseteq Threads
  PROVE  IsFiniteSet(S) /\ Cardinality(S) \in Nat /\ Cardinality(S) <= PoolSize
<1>1. Threads = 0 .. PoolSize - 1 /\ 0 \in Int /\ PoolSize - 1 \in Int /\ PoolSize - 1 >= 0
  BY Sizes DEF Threads
<1>2. IsFiniteSet(Threads) /\ Cardinality(Threads) = PoolSize
  BY <1>1, Sizes, FS_Interval
<1>3. QED BY <1>2, FS_Subset, FS_CardinalityType

LEMMA ComputeStep ==
  ASSUME IInv, NEW t \in Threads, Compute(t)
  PROVE  IInv'
<1> USE Sizes DEF Compute
<1>1. t \in Active /\ nth[t] = nGraph.threads
  BY InSegment
<1>2. PICK m \in Real : ChunkSegment(m) /\ InChunks(t, m)
  BY ChunkCase
<1> DEFINE c0 == mine[t]
<1>3. /\ node[t] = m /\ Seen(t) /\ work[t] = m
      /\ c0 \in 0 .. Chunks - 1 /\ Hold(t) = c0 /\ c0 < chunk
  BY <1>1, <1>2 DEF InChunks, Held, Released, Waiting, Hold, IInv, TypeOK, ChunkSegment
<1>4. /\ nGraph.threads \in 0 .. PoolSize /\ chunk \in 0 .. Chunks + PoolSize
      /\ mine \in [Threads -> Nat]
      /\ Active \subseteq Threads /\ Active' = Active
      /\ UNCHANGED <<nGraph, nPassed, abort, plan, pc, from, node, nth>>
  BY DEF IInv, TypeOK, GraphValue, Active
<1>5. /\ \/ nGraph.threads >= Chunks /\ Hold(t)' = Chunks /\ chunk' = chunk
         \/ nGraph.threads < Chunks /\ Hold(t)' = chunk /\ chunk' = chunk + 1
      /\ mine'[t] = Hold(t)'
  BY <1>1, <1>4 DEF Hold
<1>6. \A u \in Active \ {t} : Hold(u)' = Hold(u) /\ Hold(u) \in Nat /\ Hold(t)' \in Nat
  <2>1. \A u \in Active \ {t} : Hold(u)' = Hold(u)
    BY <1>4, ThreadFrame, Frame DEF Thread, Working
  <2>2. QED BY <1>4, <1>5, <2>1, HoldIsNat DEF IInv
<1>7. chunk >= nGraph.threads
  BY <1>2 DEF ChunkSegment
<1>8. chunk' <= IF nGraph.threads >= Chunks THEN nGraph.threads
                ELSE Chunks + Cardinality(Finished')
  <2>1. CASE nGraph.threads >= Chunks
    BY <1>2, <1>4, <1>5, <2>1 DEF ChunkSegment
  <2>2. CASE nGraph.threads < Chunks
    <3>1. /\ Finished \subseteq Threads /\ Finished' \subseteq Threads
          /\ t \notin Finished
      BY <1>3, <1>4 DEF Finished
    <3>2. /\ IsFiniteSet(Finished) /\ Cardinality(Finished) \in Nat
          /\ Cardinality(Finished') \in Nat
      BY <3>1, SubsetCard
    <3>3. CASE chunk < Chunks
      BY <1>4, <1>5, <2>2, <3>2, <3>3
    <3>4. CASE chunk >= Chunks
      <4>1. Finished' = Finished \cup {t}
        BY <1>1, <1>4, <1>5, <1>6, <2>2, <3>4 DEF Finished
      <4>2. Cardinality(Finished') = Cardinality(Finished) + 1
        BY <3>1, <3>2, <4>1, FS_AddElement
      <4>3. chunk <= Chunks + Cardinality(Finished)
        BY <1>2, <1>4, <2>2 DEF ChunkSegment
      <4>4. QED BY <1>4, <1>5, <2>2, <3>2, <4>2, <4>3
    <3>5. QED BY <1>4, <3>3, <3>4
  <2>3. QED BY <1>4, <2>1, <2>2
<1>9. TypeOK'
  <2>1. TypeOK
    BY DEF IInv
  <2>2. mine' \in [Threads -> Nat]
    BY <1>3, <1>4
  <2>3. chunk' \in 0 .. Chunks + PoolSize
    <3>1. Cardinality(Finished') \in Nat /\ Cardinality(Finished') <= PoolSize
      BY <1>4, SubsetCard DEF Finished
    <3>2. QED BY <1>4, <1>5, <1>8, <3>1
  <2>4. computed' \in [Real -> [0 .. Chunks - 1 -> Nat]]
    <3>1. /\ computed \in [Real -> [0 .. Chunks - 1 -> Nat]]
          /\ computed' = [computed EXCEPT ![m][c0] = @ + 1]
      BY <1>3, <2>1 DEF TypeOK
    <3>2. computed[m] \in [0 .. Chunks - 1 -> Nat] /\ computed[m][c0] + 1 \in Nat
      BY <1>3, <3>1
    <3>3. [computed[m] EXCEPT ![c0] = @ + 1] \in [0 .. Chunks - 1 -> Nat]
      BY <3>2
    <3>4. QED BY <3>1, <3>3
  <2>5. QED BY <2>1, <2>2, <2>3, <2>4 DEF TypeOK
<1>10. BarrierInv'
  BY <1>9, ThreadFrame, LocalBarrier DEF Thread, Working, Waiting, IInv
<1>11. /\ \A k \in Real \ {m} : computed'[k] = computed[k]
       /\ \A c \in 0 .. Chunks - 1 :
            computed'[m][c] = IF c = c0 THEN computed[m][c0] + 1 ELSE computed[m][c]
  <2>1. /\ computed \in [Real -> [0 .. Chunks - 1 -> Nat]]
        /\ computed' = [computed EXCEPT ![m][c0] = @ + 1]
    BY <1>3 DEF IInv, TypeOK
  <2>2. QED BY <2>1
<1>12. \A c \in 0 .. Chunks - 1 :
         computed'[m][c] = IF c < chunk' /\ \A u \in Active : Hold(u)' # c THEN 1 ELSE 0
  <2> SUFFICES ASSUME NEW c \in 0 .. Chunks - 1
               PROVE  computed'[m][c] = IF c < chunk' /\ \A u \in Active : Hold(u)' # c
                                        THEN 1 ELSE 0
    OBVIOUS
  <2>1. computed[m][c] = IF c < chunk /\ \A u \in Active : Hold(u) # c THEN 1 ELSE 0
    BY <1>2 DEF ChunkSegment
  <2>2. CASE c = c0
    <3>1. computed'[m][c] = 1
      BY <1>1, <1>3, <1>11, <2>1, <2>2
    <3>2. \A u \in Active \ {t} : Hold(u) # c0
      BY <1>1, <1>2, <1>3 DEF ChunkSegment
    <3>3. c < chunk' /\ Hold(t)' # c
      BY <1>3, <1>4, <1>5, <2>2
    <3>4. QED BY <1>6, <2>2, <3>1, <3>2, <3>3
  <2>3. CASE c # c0
    <3>1. computed'[m][c] = computed[m][c]
      BY <1>11, <2>3
    <3>2. CASE c < chunk
      <4>1. c < chunk' /\ Hold(t)' # c /\ Hold(t) # c
        BY <1>3, <1>4, <1>5, <2>3, <3>2
      <4>2. QED BY <1>6, <2>1, <3>1, <3>2, <4>1
    <3>3. CASE ~(c < chunk)
      <4>1. ~(c < chunk') \/ Hold(t)' = c
        BY <1>4, <1>5, <3>3
      <4>2. QED BY <1>1, <2>1, <3>1, <3>3, <4>1
    <3>4. QED BY <3>2, <3>3
  <2>4. QED BY <2>2, <2>3
<1>13. ChunkSegment(m)'
  <2>1. \A u \in Threads \ Active : Resting(u)'
    BY <1>1, <1>2, ThreadFrame, Frame DEF ChunkSegment, InGraphNow, Thread, Working
  <2>2. InGraphNow'
    BY <1>2, <1>4, <2>1 DEF ChunkSegment, InGraphNow
  <2>3. InChunks(t, m)'
    <3>1. mine'[t] >= Chunks => chunk' >= Chunks
      BY <1>4, <1>5, <1>7
    <3>2. QED BY <1>1, <1>3, <1>4, <3>1 DEF InChunks, Seen
  <2>4. \A u \in Active \ {t} : InChunks(u, m)'
    <3>1. chunk >= Chunks => chunk' >= Chunks
      BY <1>4, <1>5
    <3>2. QED BY <1>2, <1>4, <3>1, ThreadFrame, Frame DEF ChunkSegment, Thread, Working
  <2>5. abort' \in {NoAbort, m + 1} /\ chunk' >= nGraph.threads
    BY <1>2, <1>4, <1>5, <1>7 DEF ChunkSegment
  <2>6. \A u \in Active \ {t} : Hold(u) < Chunks => Hold(u) < chunk
    BY <1>2 DEF ChunkSegment
  <2>7. \A u \in Active : Hold(u)' < Chunks => Hold(u)' < chunk'
    BY <1>4, <1>5, <1>6, <2>6
  <2>8. \A u, v \in Active : Hold(u)' = Hold(v)' /\ Hold(u)' < Chunks => u = v
    <3>1. \A u, v \in Active : Hold(u) = Hold(v) /\ Hold(u) < Chunks => u = v
      BY <1>2 DEF ChunkSegment
    <3>2. \A u \in Active \ {t} : Hold(u)' < Chunks => Hold(u)' # Hold(t)'
      BY <1>4, <1>5, <1>6, <2>6
    <3>3. QED BY <1>6, <3>1, <3>2
  <2>9. \A k \in Real \ {m} : \A c \in 0 .. Chunks - 1 : computed'[k][c] = IF k < m THEN 1 ELSE 0
    BY <1>2, <1>11 DEF ChunkSegment
  <2> HIDE DEF Compute
  <2>10. QED
    BY <1>4, <1>8, <1>12, <2>2, <2>3, <2>4, <2>5, <2>7, <2>8, <2>9 DEF ChunkSegment
<1>14. QED
  BY <1>9, <1>10, <1>13, ThreadFrame DEF IInv, Segment, Thread, Working

-----------------------------------------------------------------------------
(* The barrier.                                                            *)

InBarrier(t) == pc[t] \in {"enter", "arrive", "reset", "open", "spin"}

\* No thread leaves the last node through the barrier between two nodes.
LEMMA NodeBarrier ==
  ASSUME IInv, NEW t \in Threads, InBarrier(t), from[t] = "node"
  PROVE  node[t] + 1 < Nodes /\ t \in Active
<1> USE Sizes DEF InBarrier
<1>1. /\ (~Resting(t) /\ ~Late(t) /\ t \in Workers) \/ t = 0
      /\ t = 0 => ~EndSegment
  BY DEF Resting, Late, EndSegment, Workers, Outside, Released
<1>2. ~EndSegment
  BY <1>1 DEF EndSegment
<1>3. t = 0 => t \in Active
  BY <1>2 DEF IInv, Segment, LoopSegment, ChunkSegment, InGraphNow, Active, TypeOK, GraphValue
<1>4. t \in Active /\ ~Late(t)
  BY <1>1, <1>2, <1>3 DEF IInv, Segment, LoopSegment, ChunkSegment, InGraphNow, Late, Workers
<1>5. ASSUME NEW n \in 0 .. Nodes - 1, LoopSegment(n)
      PROVE  node[t] + 1 < Nodes
  BY <1>4, <1>5 DEF LoopSegment, InLoop, IInv, TypeOK
<1>6. ASSUME NEW m \in Real, ChunkSegment(m)
      PROVE  node[t] + 1 < Nodes
  BY <1>4, <1>6 DEF ChunkSegment, InChunks, IInv, TypeOK
<1>7. QED BY <1>2, <1>4, <1>5, <1>6 DEF IInv, Segment

\* What returning from ggml_barrier does to the thread.
LEMMA PassType ==
  ASSUME IInv, NEW t \in Threads, InBarrier(t), PassedBarrier(t)
  PROVE  /\ pc' \in [Threads -> Places] /\ node' \in [Threads -> 0 .. Nodes]
         /\ mine' \in [Threads -> Nat]
         /\ pc'[t] = CASE from[t] = "op" -> "chunks"
                       [] from[t] = "node" -> "loop"
                       [] OTHER -> IF t = 0 THEN "return" ELSE "top"
         /\ node'[t] = IF from[t] = "node" THEN node[t] + 1 ELSE node[t]
         /\ from[t] = "op" => mine'[t] = t
         /\ from[t] \in {"op", "node", "end"}
<1> USE Sizes DEF PassedBarrier, Goto
<1>1. TypeOK
  BY DEF IInv
<1>2. from[t] \in {"op", "node", "end"} /\ t \in Nat
  BY <1>1 DEF TypeOK, Barriers
<1>3. pc' \in [Threads -> Places]
  BY <1>1 DEF TypeOK, Places
<1>4. node' \in [Threads -> 0 .. Nodes]
  <2>1. CASE from[t] = "node"
    <3>1. node[t] + 1 \in 0 .. Nodes
      <4>1. node[t] \in 0 .. Nodes
        BY <1>1 DEF TypeOK
      <4>2. QED BY <2>1, <4>1, NodeBarrier
    <3>2. QED BY <1>1, <2>1, <3>1 DEF TypeOK
  <2>2. CASE from[t] # "node"
    BY <1>1, <2>2 DEF TypeOK
  <2>3. QED BY <2>1, <2>2
<1>5. mine' \in [Threads -> Nat]
  BY <1>1, <1>2 DEF TypeOK
<1>6. QED
  BY <1>1, <1>2, <1>3, <1>4, <1>5 DEF TypeOK

LEMMA SpinStep ==
  ASSUME IInv, NEW t \in Threads, Spin(t)
  PROVE  IInv'
<1> USE Sizes DEF Spin, shared
<1>1. /\ InBarrier(t) /\ Released(t) /\ ~Waiting(t) /\ TypeOK
      /\ \A u \in Threads \ {t} : Unmoved(u)
      /\ UNCHANGED <<nGraph, nPassed, abort, plan, chunk, computed, from, pending, lastGraph, nth, work>>
  BY ThreadFrame DEF InBarrier, Released, Waiting, Thread, Barrier, IInv
<1>2. /\ pc'[t] = CASE from[t] = "op" -> "chunks"
                    [] from[t] = "node" -> "loop"
                    [] OTHER -> IF t = 0 THEN "return" ELSE "top"
      /\ node'[t] = IF from[t] = "node" THEN node[t] + 1 ELSE node[t]
      /\ from[t] = "op" => mine'[t] = t
  BY <1>1, PassType
<1>3. TypeOK'
  BY <1>1, PassType DEF TypeOK
<1>4. BarrierInv'
  BY <1>1, <1>2, <1>3, LocalBarrier
<1>5. ASSUME Resting(t) \/ Late(t)
      PROVE  (Resting(t) => Resting(t)') /\ (Late(t) => Late(t)')
  <2>1. from[t] = "end" /\ t # 0
    BY <1>1, <1>5 DEF Resting, Late, Outside, Workers, Released
  <2>2. pc'[t] = "top"
    BY <1>2, <2>1
  <2>3. QED BY <1>1, <2>2 DEF Resting, Late, Outside
<1>6. ASSUME EndSegment
      PROVE  Segment'
  <2>1. CASE t = 0
    <3>1. pc'[0] = "return" /\ from[0] = "end"
      BY <1>1, <1>2, <1>6, <2>1 DEF EndSegment, Released
    <3>2. \A u \in Workers : Resting(u)' /\ (u \in Active' => lastGraph'[u] = nGraph')
      BY <1>1, <1>6, <2>1, Frame DEF EndSegment, Workers, Active
    <3>3. ComputedUpTo(abort)'
      BY <1>1, <1>6, <2>1 DEF EndSegment, ComputedUpTo, Released
    <3>4. ~pending'[0]
      BY <1>1, <1>6 DEF EndSegment
    <3>5. ChunksOnce'
      BY <1>1, <1>6 DEF EndSegment, ChunksOnce
    <3>6. EndSegment'
      BY <3>1, <3>2, <3>3, <3>4, <3>5 DEF EndSegment
    <3>7. QED BY <3>6 DEF Segment
  <2>2. CASE t # 0
    <3>1. t \in Workers /\ Resting(t) /\ (t \in Active => lastGraph[t] = nGraph)
      BY <1>6, <2>2 DEF EndSegment, Workers
    <3>2. EndSegment'
      BY <1>1, <1>5, <1>6, <3>1, EndStep
    <3>3. QED BY <3>2 DEF Segment
  <2>3. QED BY <2>1, <2>2
<1>7. ASSUME NEW n \in 0 .. Nodes - 1, LoopSegment(n)
      PROVE  Segment'
  <2>1. t \notin Active => Resting(t)'
    BY <1>5, <1>7 DEF LoopSegment, InGraphNow
  <2>2. ASSUME t \in Active PROVE (n = 0 /\ Late(t)') \/ InLoop(t, n)'
    <3>1. CASE Late(t) /\ n = 0
      BY <1>5, <3>1
    <3>2. CASE InLoop(t, n)
      <4>1. from[t] = "node" /\ node[t] + 1 = n /\ nth[t] = nGraph.threads /\ Seen(t)
        BY <1>1, <3>2 DEF InLoop, Held, Released, Waiting
      <4>2. pc'[t] = "loop" /\ node'[t] = n
        BY <1>2, <4>1
      <4>3. Skipped(n, n)'
        BY DEF Skipped
      <4>4. QED BY <1>1, <4>1, <4>2, <4>3 DEF InLoop, Seen
    <3>3. QED BY <1>7, <2>2, <3>1, <3>2 DEF LoopSegment
  <2>3. LoopSegment(n)'
    BY <1>1, <1>7, <2>1, <2>2, LoopStep
  <2>4. QED BY <2>3 DEF Segment
<1>8. ASSUME NEW m \in Real, ChunkSegment(m)
      PROVE  Segment'
  <2>1. t \notin Active => Resting(t)'
    BY <1>5, <1>8 DEF ChunkSegment, InGraphNow
  <2>2. ASSUME t \in Active
        PROVE  InChunks(t, m)' /\ Hold(t)' = Hold(t)
    <3>1. from[t] = "op" /\ node[t] = m /\ nth[t] = nGraph.threads /\ Seen(t) /\ work[t] = m
      BY <1>1, <1>8, <2>2 DEF ChunkSegment, InChunks, Held, Released, Waiting
    <3>2. pc'[t] = "chunks" /\ node'[t] = m /\ mine'[t] = t
      BY <1>2, <3>1
    <3>3. t >= Chunks => chunk >= Chunks
      BY <1>1, <1>8, <2>2 DEF ChunkSegment, Active, TypeOK, GraphValue
    <3>4. QED
      BY <1>1, <3>1, <3>2, <3>3 DEF InChunks, Seen, Hold, Released
  <2>3. ChunkSegment(m)'
    BY <1>1, <1>3, <1>8, <2>1, <2>2, ChunkStep DEF ChunkSegment
  <2>4. QED BY <2>3 DEF Segment
<1>9. QED
  BY <1>3, <1>4, <1>6, <1>7, <1>8, ThreadFrame DEF IInv, Segment, Thread, Barrier

\* A thread held at the barrier that is held there still keeps its segment.
LEMMA HeldStep ==
  ASSUME IInv, NEW t \in Threads, TypeOK', Held(t), Held(t)',
         \A u \in Threads \ {t} : Unmoved(u),
         pending'[t] = pending[t], lastGraph'[t] = lastGraph[t], node'[t] = node[t],
         from'[t] = from[t], work'[t] = work[t], nth'[t] = nGraph.threads,
         UNCHANGED <<nGraph, nPassed, chunk, abort, plan, computed>>
  PROVE  Segment'
<1> USE Sizes
<1>1. t \in Active /\ ~EndSegment
  BY InSegment DEF Held
<1>2. ~Released(t) /\ pc[t] \notin {"start", "loop", "chunks"} /\ ~Late(t)
  BY DEF Held, Released, Waiting, Late, Outside
<1>3. ASSUME NEW n \in 0 .. Nodes - 1, LoopSegment(n)
      PROVE  LoopSegment(n)'
  <2>1. InLoop(t, n)
    BY <1>1, <1>2, <1>3 DEF LoopSegment
  <2>2. InLoop(t, n)'
    BY <1>2, <2>1 DEF InLoop, Seen, Skipped
  <2>3. QED BY <1>1, <1>3, <2>2, LoopStep
<1>4. ASSUME NEW m \in Real, ChunkSegment(m)
      PROVE  ChunkSegment(m)'
  <2>1. InChunks(t, m)
    BY <1>1, <1>4 DEF ChunkSegment
  <2>2. InChunks(t, m)'
    BY <1>2, <2>1 DEF InChunks, Seen
  <2>3. Hold(t)' = Hold(t)
    BY DEF Hold, Held, Released, Waiting
  <2>4. QED BY <1>1, <1>4, <2>2, <2>3, ChunkStep DEF ChunkSegment
<1>5. QED BY <1>1, <1>3, <1>4 DEF IInv, Segment

LEMMA EnterStep ==
  ASSUME IInv, NEW t \in Threads, EnterBarrier(t), nGraph.threads # 1
  PROVE  IInv'
<1> USE Sizes DEF EnterBarrier, Goto, shared
<1>1. TypeOK
  BY DEF IInv
<1>2. TypeOK'
  <2>1. nGraph.threads \in 0 .. PoolSize /\ nPassed \in Nat /\ "arrive" \in Places
    BY <1>1 DEF TypeOK, GraphValue, Places
  <2>2. /\ nth' = [nth EXCEPT ![t] = nGraph.threads] /\ mine' = [mine EXCEPT ![t] = nPassed]
        /\ pc' = [pc EXCEPT ![t] = "arrive"]
    OBVIOUS
  <2>3. /\ nth' \in [Threads -> 0 .. PoolSize] /\ mine' \in [Threads -> Nat]
        /\ pc' \in [Threads -> Places]
    BY <1>1, <2>1, <2>2, Update DEF TypeOK
  <2>4. QED BY <1>1, <2>2, <2>3 DEF TypeOK
<1>3. /\ \A u \in Threads \ {t} : Unmoved(u)
      /\ pc[t] = "enter" /\ pc'[t] = "arrive" /\ nth'[t] = nGraph.threads /\ mine'[t] = nPassed
      /\ UNCHANGED <<nGraph, nBarrier, nPassed>>
  BY <1>1, ThreadFrame DEF Thread, Barrier, TypeOK
<1>4. BarrierInv'
  <2>1. \A u \in Threads \ {t} : Waiting(u)' = Waiting(u) /\ Opening(u)' = Opening(u)
    BY <1>3, Frame
  <2>2. ~Waiting(t) /\ ~Waiting(t)' /\ ~Opening(t)' /\ ~Opening(t) /\ Active' = Active
    BY <1>3 DEF Waiting, Opening, Active
  <2>3. Counted' = Counted
    BY <1>3, <2>1, <2>2 DEF Counted, Unmoved
  <2>4. (\E u \in Threads : pc'[u] = "open") <=> (\E u \in Threads : pc[u] = "open")
    BY <1>3 DEF Unmoved
  <2>5. BarrierInv
    BY DEF IInv
  <2> HIDE DEF EnterBarrier
  <2>6. /\ \A u \in Threads : pc'[u] = "spin" => mine'[u] <= nPassed'
        /\ \A u \in Threads : pc'[u] = "arrive" => mine'[u] = nPassed' /\ nth'[u] = nGraph'.threads
    BY <1>3, <2>5 DEF BarrierInv, Unmoved
  <2>7. \A v, u \in Threads : Opening(v)' /\ u \in Active' /\ u # v => Waiting(u)'
    BY <2>1, <2>2, <2>5 DEF BarrierInv
  <2>8. QED BY <1>3, <2>3, <2>4, <2>5, <2>6, <2>7 DEF BarrierInv
<1>5. Segment'
  BY <1>1, <1>2, <1>3, HeldStep, ThreadFrame DEF Held, TypeOK, Thread, Barrier
<1>6. QED BY <1>2, <1>4, <1>5, ThreadFrame DEF IInv, Thread, Barrier

\* The threads that wait are counted, and the last one comes when all wait.
LEMMA ArriveStep ==
  ASSUME IInv, NEW t \in Threads, Arrive(t)
  PROVE  IInv'
<1> USE Sizes DEF Arrive, Goto, local
<1>1. TypeOK /\ BarrierInv
  BY DEF IInv
<1>2. /\ \A u \in Threads \ {t} : Unmoved(u)
      /\ pc[t] = "arrive" /\ pc'[t] \in {"reset", "spin"}
      /\ UNCHANGED <<nGraph, nPassed, mine, from, node, nth, work, chunk, abort, plan, computed,
                     pending, lastGraph>>
      /\ t \in Active /\ mine[t] = nPassed /\ nth[t] = nGraph.threads
      /\ nPassed \in Nat /\ nGraph.threads \in 0 .. PoolSize
  BY <1>1, ThreadFrame, InSegment DEF Thread, Barrier, TypeOK, BarrierInv, GraphValue
<1>3. \A u \in Threads : ~Opening(u)
  BY <1>1, <1>2 DEF BarrierInv, Opening, Waiting
<1>4. Counted \subseteq Active \ {t}
  BY <1>2, <1>3, InSegment DEF Counted, Opening, Waiting
<1>5. nBarrier = Cardinality(Counted)
  BY <1>1, <1>3 DEF BarrierInv, Opening
<1>6. /\ IsFiniteSet(Active) /\ Cardinality(Active) = nGraph.threads
      /\ IsFiniteSet(Active \ {t}) /\ Cardinality(Active \ {t}) = nGraph.threads - 1
  <2>1. Active = 0 .. nGraph.threads - 1
    BY <1>2 DEF Active, Threads
  <2>2. /\ nGraph.threads \in Nat /\ 0 \in Int /\ nGraph.threads - 1 \in Int
        /\ 0 <= nGraph.threads - 1
    BY <1>2 DEF Active
  <2>3. IsFiniteSet(Active) /\ Cardinality(Active) = nGraph.threads
    <3> HIDE DEF Arrive, Goto, local
    <3> DEFINE m == nGraph.threads - 1
    <3>1. 0 \in Int /\ m \in Int /\ ~(0 > m) /\ m - 0 + 1 = nGraph.threads
      BY <2>2
    <3> HIDE DEF m
    <3>2. IsFiniteSet(0 .. m) /\ Cardinality(0 .. m) = IF 0 > m THEN 0 ELSE m - 0 + 1
      BY <3>1, FS_Interval
    <3>3. QED BY <2>1, <3>1, <3>2 DEF m
  <2>4. QED BY <1>2, <2>3, FS_RemoveElement
<1>7. Counted' = Counted \cup {t}
  <2>1. \A u \in Threads \ {t} : Waiting(u)' = Waiting(u)
    BY <1>2, Frame
  <2>2. Waiting(t)' \/ pc'[t] = "reset"
    BY <1>2 DEF Waiting
  <2>3. QED BY <1>2, <2>1, <2>2 DEF Counted, Unmoved
<1>8. nBarrier' = Cardinality(Counted')
  <2>1. IsFiniteSet(Counted) /\ t \notin Counted
    BY <1>4, <1>6, FS_Subset
  <2>2. QED BY <1>5, <1>7, <2>1, FS_AddElement
<1>9. pc'[t] = "reset" => \A u \in Active \ {t} : Waiting(u)
  <2>1. SUFFICES ASSUME pc'[t] = "reset" PROVE \A u \in Active \ {t} : Waiting(u)
    OBVIOUS
  <2>2. nBarrier = nGraph.threads - 1
    BY <1>1, <1>2, <2>1 DEF TypeOK
  <2>3. Counted = Active \ {t}
    BY <1>4, <1>5, <1>6, <2>2, FS_Subset
  <2>4. QED BY <1>3, <2>3 DEF Counted, Opening
<1>10. TypeOK'
  <2>1. pc' \in [Threads -> Places]
    BY <1>1 DEF TypeOK, Places
  <2>2. nBarrier' \in 0 .. PoolSize
    <3>1. Counted' \subseteq Threads
      BY DEF Counted
    <3>2. Cardinality(Counted') \in Nat /\ Cardinality(Counted') <= PoolSize
      BY <3>1, SubsetCard
    <3>3. QED BY <1>8, <3>2
  <2>3. QED BY <1>1, <2>1, <2>2 DEF TypeOK
<1>11. BarrierInv'
  <2>1. \A u \in Threads : pc'[u] # "open"
    BY <1>2, <1>3 DEF Opening, Unmoved
  <2>2. \A v, u \in Threads : Opening(v)' /\ u \in Active' /\ u # v => Waiting(u)'
    <3> SUFFICES ASSUME NEW v \in Threads, NEW u \in Threads, Opening(v)', u \in Active', u # v
                 PROVE  Waiting(u)'
      OBVIOUS
    <3>1. v = t
      BY <1>2, <1>3, Frame
    <3>2. pc'[t] = "reset" /\ u \in Active \ {t}
      BY <1>2, <3>1 DEF Opening, Active
    <3>3. QED BY <1>2, <1>9, <3>2, Frame DEF Active
  <2>3. /\ \A u \in Threads : pc'[u] = "spin" => mine'[u] <= nPassed'
        /\ \A u \in Threads : pc'[u] = "arrive" => mine'[u] = nPassed' /\ nth'[u] = nGraph'.threads
    BY <1>1, <1>2 DEF BarrierInv, Unmoved
  <2>4. QED BY <1>8, <2>1, <2>2, <2>3 DEF BarrierInv
<1>12. Segment'
  BY <1>2, <1>10, HeldStep DEF Held, Waiting
<1>13. QED BY <1>10, <1>11, <1>12, ThreadFrame DEF IInv, Thread, Barrier

LEMMA ResetStep ==
  ASSUME IInv, NEW t \in Threads, ResetBarrier(t)
  PROVE  IInv'
<1> USE Sizes DEF ResetBarrier, Goto, local
<1>1. TypeOK /\ BarrierInv
  BY DEF IInv
<1>2. /\ \A u \in Threads \ {t} : Unmoved(u)
      /\ pc[t] = "reset" /\ pc'[t] = "open" /\ nBarrier' = 0
      /\ UNCHANGED <<nGraph, nPassed, mine, from, node, nth, work, chunk, abort, plan, computed,
                     pending, lastGraph>>
      /\ nth[t] = nGraph.threads
  BY <1>1, ThreadFrame, InSegment DEF Thread, Barrier, TypeOK
<1>3. TypeOK'
  <2>1. "open" \in Places
    BY DEF Places
  <2>2. pc' \in [Threads -> Places]
    BY <1>1, <2>1, Update DEF TypeOK
  <2>3. nBarrier' \in 0 .. PoolSize
    OBVIOUS
  <2>4. QED BY <1>1, <2>2, <2>3 DEF TypeOK
<1>4. BarrierInv'
  <2>1. \A u \in Threads \ {t} : Waiting(u)' = Waiting(u) /\ Opening(u)' = Opening(u)
    BY <1>2, Frame
  <2>2. ~Waiting(t) /\ ~Waiting(t)' /\ Opening(t)' /\ Opening(t) /\ Active' = Active
    BY <1>2 DEF Waiting, Opening, Active
  <2>3. \A v, u \in Threads : Opening(v)' /\ u \in Active' /\ u # v => Waiting(u)'
    BY <1>1, <2>1, <2>2 DEF BarrierInv
  <2>4. /\ \A u \in Threads : pc'[u] = "spin" => mine'[u] <= nPassed'
        /\ \A u \in Threads : pc'[u] = "arrive" => mine'[u] = nPassed' /\ nth'[u] = nGraph'.threads
    BY <1>1, <1>2 DEF BarrierInv, Unmoved
  <2>5. QED BY <1>2, <2>3, <2>4 DEF BarrierInv
<1>5. Segment'
  BY <1>2, <1>3, HeldStep DEF Held
<1>6. QED BY <1>3, <1>4, <1>5, ThreadFrame DEF IInv, Thread, Barrier

\* On the way from node n, all threads come to the barrier at the same place:
\* the nodes between are skipped by all, and abort is read the same by all.
LEMMA SamePlace ==
  ASSUME TypeOK, NEW n \in 0 .. Nodes - 1, abort \in {NoAbort, n},
         NEW u \in Threads, Held(u), InLoop(u, n), from[u] = "op",
         NEW v \in Threads, Held(v), InLoop(v, n)
  PROVE  from[v] = "op" /\ node[v] = node[u] /\ abort = NoAbort
<1> USE Sizes
<1>1. node[u] \in 0 .. Nodes /\ node[v] \in 0 .. Nodes
  BY DEF TypeOK
<1>2. /\ Skipped(n, node[u]) /\ node[u] \in Real /\ node[u] # abort
      /\ Skipped(n, node[v])
      /\ \/ from[v] = "op" /\ node[v] \in Real /\ node[v] # abort
         \/ from[v] = "end" /\ node[v] \in {Nodes, abort}
  BY DEF InLoop, Held, Released, Waiting
<1>3. ~(node[u] < node[v])
  BY <1>1, <1>2 DEF Skipped, Real
<1>4. ASSUME node[v] < node[u] PROVE FALSE
  <2>1. node[v] \in Nops /\ node[v] # abort /\ node[v] # Nodes
    BY <1>1, <1>2, <1>4 DEF Skipped
  <2>2. QED BY <1>2, <2>1 DEF Real
<1>5. node[v] = node[u]
  BY <1>1, <1>3, <1>4
<1>6. from[v] = "op"
  BY <1>1, <1>2, <1>5 DEF Real
<1>7. abort = NoAbort
  <2>1. SUFFICES ASSUME abort = n PROVE FALSE
    OBVIOUS
  <2>2. n < node[u]
    BY <1>1, <1>2, <2>1 DEF Skipped
  <2>3. QED BY <1>1, <1>2, <2>1, <2>2 DEF Skipped
<1>8. QED BY <1>5, <1>6, <1>7

\* The barrier opens, or there is nobody to wait for: all threads of the graph
\* were held, and all go on to the same segment.
LEMMA OpenSegment ==
  ASSUME IInv, TypeOK', NEW t \in Threads, Held(t), InBarrier(t), PassedBarrier(t),
         \A u \in Threads \ {t} : Unmoved(u),
         \A u \in Active \ {t} : Waiting(u),
         \/ nPassed' = nPassed + 1
         \/ nPassed' = nPassed /\ Active \subseteq {t},
         pending'[t] = pending[t], lastGraph'[t] = lastGraph[t],
         from'[t] = from[t], work'[t] = work[t], nth'[t] = nGraph.threads,
         UNCHANGED <<nGraph, chunk, abort, plan, computed>>
  PROVE  Segment'
<1> USE Sizes
<1>1. TypeOK /\ BarrierInv /\ t \in Active /\ ~EndSegment /\ 0 \in Active
  BY InSegment DEF IInv, Held
<1>2. /\ Active' = Active /\ Active \subseteq Threads
      /\ nPassed \in Nat /\ nGraph.threads \in Nat /\ chunk \in Nat
      /\ node[t] \in 0 .. Nodes
  BY <1>1 DEF Active, TypeOK, GraphValue
<1>3. \A u \in Active : Held(u) /\ ~Late(u) /\ ~Released(u) /\ pc[u] \notin {"start", "loop", "chunks"}
  BY DEF Held, Released, Waiting, Late, Outside
<1>4. \A u \in Active \ {t} : Released(u)' /\ pc'[u] = "spin"
  <2> SUFFICES ASSUME NEW u \in Active \ {t} PROVE Released(u)' /\ pc'[u] = "spin"
    OBVIOUS
  <2>1. Waiting(u) /\ Unmoved(u) /\ nPassed' = nPassed + 1
    BY <1>2
  <2>2. nPassed' # nPassed
    BY <1>2, <2>1
  <2>3. QED BY <2>1, <2>2 DEF Waiting, Released, Unmoved
<1>5. /\ pc'[t] = CASE from[t] = "op" -> "chunks"
                    [] from[t] = "node" -> "loop"
                    [] OTHER -> IF t = 0 THEN "return" ELSE "top"
      /\ node'[t] = IF from[t] = "node" THEN node[t] + 1 ELSE node[t]
      /\ from[t] = "op" => mine'[t] = t
  BY PassType
<1>6. InGraphNow
  BY <1>1 DEF IInv, Segment, LoopSegment, ChunkSegment
<1>7. \A u \in Threads \ Active : Resting(u)'
  <2> SUFFICES ASSUME NEW u \in Threads \ Active PROVE Resting(u)'
    OBVIOUS
  <2>1. Resting(u) /\ Unmoved(u) /\ u # t
    BY <1>1, <1>6 DEF InGraphNow
  <2>2. Released(u) => Released(u)'
    <3>1. pc[u] = "spin" => mine[u] <= nPassed /\ mine[u] \in Nat
      BY <1>1 DEF BarrierInv, TypeOK
    <3>2. QED BY <1>2, <2>1, <3>1 DEF Released, Unmoved
  <2>3. QED BY <2>1, <2>2 DEF Resting, Unmoved
<1>8. InGraphNow'
  BY <1>2, <1>6, <1>7 DEF InGraphNow
<1>9. ASSUME NEW m \in Real, abort = NoAbort, chunk = nGraph.threads,
             \A u \in Active : Seen(u) /\ nth[u] = nGraph.threads /\ work[u] = m
                               /\ from[u] = "op" /\ node[u] = m,
             ComputedUpTo(m)
      PROVE  ChunkSegment(m)'
  <2>1. \A u \in Active \ {t} : InChunks(u, m)'
    BY <1>2, <1>4, <1>9 DEF InChunks, Unmoved, Seen
  <2>2. pc'[t] = "chunks" /\ mine'[t] = t /\ node'[t] = m /\ t < nGraph.threads
    BY <1>1, <1>5, <1>9 DEF Active
  <2>3. InChunks(t, m)'
    BY <1>1, <1>2, <1>9, <2>2 DEF InChunks, Seen
  <2>4. \A u \in Active : Hold(u)' = u
    BY <1>4, <2>2 DEF Hold
  <2>5. \A u \in Active : u \in Nat /\ u < chunk
    BY <1>2, <1>9 DEF Active
  <2>6. Cardinality(Finished)' \in Nat
    BY <1>2, SubsetCard DEF Finished
  <2>7. chunk <= IF nGraph.threads >= Chunks THEN nGraph.threads
                 ELSE Chunks + Cardinality(Finished)'
    BY <1>2, <1>9, <2>6
  <2>8. \A c \in 0 .. Chunks - 1 :
          computed[m][c] = IF c < chunk /\ \A u \in Active : Hold(u)' # c THEN 1 ELSE 0
    <3> SUFFICES ASSUME NEW c \in 0 .. Chunks - 1
                 PROVE  computed[m][c] = IF c < chunk /\ \A u \in Active : Hold(u)' # c
                                         THEN 1 ELSE 0
      OBVIOUS
    <3>1. computed[m][c] = 0
      BY <1>9 DEF ComputedUpTo
    <3>2. c < chunk => c \in Active
      BY <1>2, <1>9, <1>1 DEF Active, Threads, TypeOK, GraphValue
    <3>3. QED BY <2>4, <3>1, <3>2
  <2>9. \A k \in Real \ {m} : \A c \in 0 .. Chunks - 1 : computed[k][c] = IF k < m THEN 1 ELSE 0
    BY <1>9 DEF ComputedUpTo
  <2>10. QED
    BY <1>2, <1>8, <1>9, <2>1, <2>3, <2>4, <2>5, <2>7, <2>8, <2>9 DEF ChunkSegment
<1>10. ASSUME NEW n \in 1 .. Nodes - 1, abort \in {NoAbort, n},
              \A u \in Active : Seen(u) /\ from[u] = "node" /\ node[u] + 1 = n
                                /\ nth[u] = nGraph.threads,
              ComputedUpTo(n)
       PROVE  LoopSegment(n)'
  <2>1. \A u \in Active \ {t} : InLoop(u, n)'
    BY <1>2, <1>4, <1>10 DEF InLoop, Unmoved, Seen
  <2>2. pc'[t] = "loop" /\ node'[t] = n
    BY <1>1, <1>5, <1>10
  <2>3. InLoop(t, n)'
    BY <1>1, <1>10, <2>2 DEF InLoop, Seen, Skipped
  <2>4. QED BY <1>2, <1>8, <1>10, <2>1, <2>3 DEF LoopSegment, ComputedUpTo
<1>11. ASSUME \A u \in Active : Seen(u) /\ from[u] = "end",
              ComputedUpTo(abort)
       PROVE  EndSegment'
  <2>1. \A u \in Active \ {t} : u \in Workers => Resting(u)' /\ lastGraph'[u] = nGraph
    BY <1>4, <1>11 DEF Resting, Seen, Unmoved, Workers
  <2>2. pc'[t] = IF t = 0 THEN "return" ELSE "top"
    BY <1>1, <1>5, <1>11
  <2>3. t # 0 => Resting(t)' /\ lastGraph'[t] = nGraph
    BY <1>1, <1>11, <2>2 DEF Resting, Outside, Workers, Seen
  <2>4. \A u \in Workers : Resting(u)' /\ (u \in Active' => lastGraph'[u] = nGraph')
    BY <1>2, <1>7, <2>1, <2>3 DEF Workers
  <2>5. ~pending'[0] /\ (pc'[0] = "return" \/ (Released(0)' /\ from'[0] = "end" /\ pc'[0] = "spin"))
    BY <1>1, <1>4, <1>11, <2>2 DEF Seen, Unmoved
  <2>6. ComputedUpTo(abort)'
    BY <1>11 DEF ComputedUpTo
  <2>7. ChunksOnce'
    BY <1>11 DEF ComputedUpTo, ChunksOnce
  <2>8. QED BY <2>4, <2>5, <2>6, <2>7 DEF EndSegment
<1>12. ASSUME NEW n \in 0 .. Nodes - 1, LoopSegment(n)
       PROVE  Segment'
  <2>1. /\ \A u \in Active : InLoop(u, n)
        /\ abort \in {NoAbort, n} /\ ComputedUpTo(n)
    BY <1>3, <1>12 DEF LoopSegment
  <2>2. \A u \in Active :
          /\ Seen(u) /\ nth[u] = nGraph.threads /\ Skipped(n, node[u])
          /\ \/ /\ from[u] = "op" /\ node[u] \in Real /\ work[u] = node[u]
                /\ u = 0 => chunk = nGraph.threads
             \/ from[u] = "end" /\ node[u] \in {Nodes, abort}
    BY <1>3, <2>1 DEF InLoop
  <2>3. CASE from[t] = "op"
    <3>1. PICK m \in Real : m = node[t] /\ Skipped(n, m)
      BY <1>1, <2>2, <2>3
    <3>2. abort = NoAbort /\ \A u \in Active : from[u] = "op" /\ node[u] = m
      BY <1>1, <1>2, <1>3, <2>1, <2>3, <3>1, SamePlace
    <3>3. \A u \in Active : work[u] = m
      BY <2>2, <3>2
    <3>4. chunk = nGraph.threads
      BY <1>1, <2>2, <3>2
    <3>5. ComputedUpTo(m)
      <4>1. \A k \in Real : (k < m) <=> (k < n)
        BY <3>1 DEF Skipped, Real
      <4>2. QED BY <2>1, <4>1 DEF ComputedUpTo
    <3>6. ChunkSegment(m)'
      BY <1>9, <2>2, <3>1, <3>2, <3>3, <3>4, <3>5
    <3>7. QED BY <3>1, <3>6 DEF Segment
  <2>4. CASE from[t] # "op"
    <3>1. \A u \in Active : from[u] = "end"
      BY <1>1, <1>2, <1>3, <2>1, <2>2, <2>4, SamePlace
    <3>2. ComputedUpTo(abort)
      <4>1. CASE abort = n
        BY <2>1, <4>1
      <4>2. CASE abort = NoAbort
        <5>1. node[t] = Nodes /\ Skipped(n, Nodes)
          BY <1>1, <1>2, <2>2, <3>1, <4>2 DEF NoAbort
        <5>2. \A k \in Real : k < n /\ k < abort
          BY <4>2, <5>1 DEF Skipped, Real, NoAbort
        <5>3. QED BY <2>1, <5>2 DEF ComputedUpTo
      <4>3. QED BY <2>1, <4>1, <4>2
    <3>3. EndSegment'
      BY <1>11, <2>2, <3>1, <3>2
    <3>4. QED BY <3>3 DEF Segment
  <2>5. QED BY <2>3, <2>4
<1>13. ASSUME NEW m \in Real, ChunkSegment(m)
       PROVE  Segment'
  <2>1. /\ \A u \in Active : InChunks(u, m)
        /\ abort \in {NoAbort, m + 1} /\ m \in 0 .. Nodes - 1
    BY <1>13 DEF ChunkSegment
  <2>2. /\ chunk >= Chunks
        /\ \A u \in Active :
             /\ Seen(u) /\ nth[u] = nGraph.threads
             /\ \/ from[u] = "node" /\ node[u] = m /\ m + 1 < Nodes
                \/ from[u] = "end" /\ m + 1 = Nodes
    BY <1>1, <1>3, <2>1 DEF InChunks
  <2>3. ComputedUpTo(m + 1)
    <3>1. \A u \in Active : Hold(u) = Chunks
      BY <1>3 DEF Hold
    <3>2. \A c \in 0 .. Chunks - 1 : computed[m][c] = 1
      <4>1. \A c \in 0 .. Chunks - 1 : c < chunk /\ \A u \in Active : Hold(u) # c
        BY <1>2, <2>2, <3>1
      <4>2. QED BY <1>13, <4>1 DEF ChunkSegment
    <3>3. \A k \in Real \ {m} : \A c \in 0 .. Chunks - 1 : computed[k][c] = IF k < m THEN 1 ELSE 0
      BY <1>13 DEF ChunkSegment
    <3>4. \A k \in Real \ {m} : (k < m) <=> (k < m + 1)
      BY <2>1
    <3>5. QED BY <2>1, <3>2, <3>3, <3>4 DEF ComputedUpTo
  <2>4. CASE m + 1 < Nodes
    <3>1. \A u \in Active : from[u] = "node" /\ node[u] + 1 = m + 1
      BY <2>1, <2>2, <2>4
    <3>2. m + 1 \in 1 .. Nodes - 1 /\ m + 1 \in 0 .. Nodes - 1
      BY <2>1, <2>4
    <3>3. LoopSegment(m + 1)'
      BY <1>10, <2>1, <2>2, <2>3, <3>1, <3>2
    <3>4. QED BY <3>2, <3>3 DEF Segment
  <2>5. CASE ~(m + 1 < Nodes)
    <3>1. m + 1 = Nodes /\ \A u \in Active : from[u] = "end"
      BY <1>1, <2>1, <2>2, <2>5
    <3>2. ComputedUpTo(abort)
      <4>1. \A k \in Real : k < m + 1 /\ k < abort
        BY <2>1, <3>1 DEF Real, NoAbort
      <4>2. QED BY <2>3, <4>1 DEF ComputedUpTo
    <3>3. EndSegment'
      BY <1>11, <2>2, <3>1, <3>2
    <3>4. QED BY <3>3 DEF Segment
  <2>6. QED BY <2>4, <2>5
<1>14. QED BY <1>1, <1>12, <1>13 DEF IInv, Segment

LEMMA OpenStep ==
  ASSUME IInv, NEW t \in Threads, OpenBarrier(t)
  PROVE  IInv'
<1> USE Sizes DEF OpenBarrier
<1>1. TypeOK /\ BarrierInv
  BY DEF IInv
<1>2. /\ \A u \in Threads \ {t} : Unmoved(u)
      /\ pc[t] = "open" /\ InBarrier(t) /\ Held(t)
      /\ UNCHANGED <<nGraph, nBarrier, from, nth, work, chunk, abort, plan, computed, pending, lastGraph>>
      /\ t \in Active /\ nth[t] = nGraph.threads
      /\ nPassed \in Nat /\ nPassed' = nPassed + 1
  BY <1>1, ThreadFrame, InSegment DEF Thread, Barrier, TypeOK, InBarrier, Held
<1>3. pc'[t] \in {"chunks", "loop", "return", "top"}
  BY <1>2, PassType
<1>4. TypeOK'
  <2>1. /\ pc' \in [Threads -> Places] /\ node' \in [Threads -> 0 .. Nodes]
        /\ mine' \in [Threads -> Nat]
    BY <1>2, PassType
  <2>2. nPassed' \in Nat
    BY <1>2
  <2>3. QED BY <1>1, <2>1, <2>2 DEF TypeOK
<1>5. /\ \A u \in Active \ {t} : Waiting(u)
      /\ \A u \in Threads \ {t} : ~Opening(u) /\ pc[u] # "arrive"
  <2>1. \A u \in Active \ {t} : Waiting(u)
    BY <1>1, <1>2 DEF BarrierInv, Opening, Active
  <2>2. \A u \in Threads \ {t} : Opening(u) => Waiting(t)
    BY <1>1, <1>2 DEF BarrierInv
  <2>3. \A u \in Threads \ {t} : pc[u] # "arrive"
    BY <2>1, InSegment DEF Waiting
  <2>4. QED BY <1>2, <2>1, <2>2, <2>3 DEF Waiting
<1>6. BarrierInv'
  <2>1. \A u \in Threads : ~Opening(u)' /\ pc'[u] # "arrive"
    BY <1>2, <1>3, <1>5 DEF Opening, Unmoved
  <2>2. \A u \in Threads : pc'[u] = "spin" => mine'[u] <= nPassed /\ mine'[u] \in Nat
    BY <1>1, <1>2, <1>3 DEF BarrierInv, Unmoved, TypeOK
  <2>3. Counted' = {}
    BY <1>2, <2>1, <2>2 DEF Counted, Waiting, Opening
  <2>4. nBarrier' = 0
    BY <1>1, <1>2 DEF BarrierInv
  <2>5. \A u \in Threads : pc'[u] = "spin" => mine'[u] <= nPassed'
    BY <1>2, <2>2
  <2>6. Cardinality(Counted') = 0
    BY <2>3, FS_EmptySet
  <2>7. QED BY <2>1, <2>4, <2>5, <2>6 DEF BarrierInv, Opening
<1>7. Segment'
  BY <1>2, <1>4, <1>5, OpenSegment
<1>8. QED BY <1>4, <1>6, <1>7, ThreadFrame DEF IInv, Thread, Barrier

\* A graph that the main thread computes alone has no barrier to wait at.
LEMMA EnterAloneStep ==
  ASSUME IInv, NEW t \in Threads, EnterBarrier(t), nGraph.threads = 1
  PROVE  IInv'
<1> USE Sizes DEF EnterBarrier, shared
<1>1. TypeOK /\ BarrierInv
  BY DEF IInv
<1>2. /\ \A u \in Threads \ {t} : Unmoved(u)
      /\ pc[t] = "enter" /\ InBarrier(t) /\ Held(t) /\ PassedBarrier(t)
      /\ UNCHANGED <<nGraph, nBarrier, nPassed, from, work, chunk, abort, plan, computed, pending, lastGraph>>
      /\ t \in Active /\ nth'[t] = nGraph.threads
  BY <1>1, ThreadFrame, InSegment DEF Thread, Barrier, TypeOK, InBarrier, Held
<1>3. pc'[t] \in {"chunks", "loop", "return", "top"}
  BY <1>2, PassType
<1>4. TypeOK'
  <2>1. nth' \in [Threads -> 0 .. PoolSize]
    <3>1. nGraph.threads \in 0 .. PoolSize /\ nth \in [Threads -> 0 .. PoolSize]
      BY <1>1 DEF TypeOK, GraphValue
    <3>2. QED BY <3>1, Update
  <2>2. QED BY <1>1, <1>2, <2>1, PassType DEF TypeOK
<1>5. Active \subseteq {t}
  BY <1>2 DEF Active, Threads
<1>6. BarrierInv'
  BY <1>2, <1>3, <1>4, LocalBarrier DEF Waiting
<1>7. Segment'
  BY <1>2, <1>4, <1>5, OpenSegment
<1>8. QED BY <1>4, <1>6, <1>7, ThreadFrame DEF IInv, Thread, Barrier

-----------------------------------------------------------------------------
(* The main thread between graphs.                                         *)

\* A broadcast takes the sleepers to where they look again.
LEMMA WokenType ==
  ASSUME TypeOK
  PROVE  /\ Woken \in [Threads -> Places]
         /\ \A u \in Threads : /\ Woken[u] = pc[u] \/ (pc[u] \in Outside /\ Woken[u] \in Outside)
                               /\ Woken[u] \notin {"sleepwait", "pausewait"}
BY DEF Woken, TypeOK, Places, Outside

\* Between graphs nobody is at the barrier but those whom it has released.
LEMMA QuietBarrier ==
  ASSUME IInv, EndSegment, UNCHANGED <<nBarrier, nPassed, mine, nth>>,
         \A u \in Threads : pc'[u] = pc[u] \/ pc'[u] \notin {"arrive", "reset", "open", "spin"}
  PROVE  BarrierInv'
<1>1. BarrierInv /\ TypeOK
  BY DEF IInv
<1>2. \A u \in Threads : pc[u] \notin {"arrive", "reset", "open"} /\ ~Waiting(u)
  BY InSegment
<1>3. Counted = {} /\ nBarrier = 0
  <2>1. Counted = {}
    BY <1>2 DEF Counted
  <2>2. QED BY <1>1, <1>2, <2>1, FS_EmptySet DEF BarrierInv
<1>4. Counted' = {}
  BY <1>2 DEF Counted, Waiting
<1>5. \A u \in Threads : ~Opening(u)' /\ pc'[u] \notin {"arrive", "open"}
  BY <1>2 DEF Opening
<1>6. \A u \in Threads : pc'[u] = "spin" => mine'[u] <= nPassed'
  BY <1>1 DEF BarrierInv
<1>7. Cardinality(Counted') = 0
  BY <1>4, FS_EmptySet
<1>8. QED BY <1>3, <1>5, <1>6, <1>7 DEF BarrierInv

\* Install, Pause, Resume, Free, Joined and Return leave the graph that was.
LEMMA MainStep ==
  ASSUME IInv, Install \/ Pause \/ Resume \/ Free \/ Joined \/ Return
  PROVE  IInv'
<1> USE Sizes DEF Install, Pause, Resume, Free, Joined, Return, Goto
<1>1. /\ TypeOK /\ StopInv /\ EndSegment
      /\ pc[0] \in {"idle", "join", "return"}
      /\ UNCHANGED <<nGraph, nBarrier, nPassed, local>>
  BY BetweenGraphs DEF IInv, shared
<1>2. /\ pc' \in [Threads -> Places]
      /\ pc'[0] \in {"idle", "kickoff", "join", "exited"}
      /\ \A u \in Workers : pc'[u] = pc[u] \/ (pc[u] \in Outside /\ pc'[u] \in Outside)
  <2>1. \E f \in {pc, Woken} : \E x \in {"idle", "kickoff", "join", "exited"} :
           pc' = [f EXCEPT ![0] = x] \/ (pc' = f /\ pc[0] = "idle")
    OBVIOUS
  <2>2. PICK f \in {pc, Woken}, x \in {"idle", "kickoff", "join", "exited"} :
           pc' = [f EXCEPT ![0] = x] \/ (pc' = f /\ pc[0] = "idle")
    BY <2>1
  <2>3. /\ f \in [Threads -> Places] /\ x \in Places
        /\ \A u \in Threads : f[u] = pc[u] \/ (pc[u] \in Outside /\ f[u] \in Outside)
    BY <1>1, WokenType DEF TypeOK, Places
  <2> HIDE DEF Install, Pause, Resume, Free, Joined, Return
  <2>4. f[0] = pc[0] \/ pc[0] \in Outside
    BY <2>3
  <2>5. QED BY <2>2, <2>3, <2>4 DEF Workers, Outside
<1>3. TypeOK'
  <2>1. plan' \in 0 .. MaxGraphs
    BY <1>1 DEF TypeOK, GraphValue, shared
  <2>2. /\ chunk' \in 0 .. Chunks + PoolSize /\ abort' \in 0 .. NoAbort
        /\ work' \in [Threads -> 0 .. Nodes]
    <3>1. CASE Install
      BY <1>1, <3>1 DEF TypeOK, NoAbort
    <3>2. CASE ~Install
      BY <1>1, <3>2 DEF TypeOK, shared
    <3>3. QED BY <3>1, <3>2
  <2>5. stop' \in BOOLEAN /\ pause' \in BOOLEAN
    BY <1>1 DEF TypeOK, shared
  <2>3. computed' \in [Real -> [0 .. Chunks - 1 -> Nat]]
    BY <1>1 DEF TypeOK, Blank
  <2> HIDE DEF Install, Pause, Resume, Free, Joined, Return
  <2>4. QED BY <1>1, <1>2, <2>1, <2>2, <2>3, <2>5 DEF TypeOK, local
<1>4. BarrierInv'
  <2>1. \A u \in Threads : pc'[u] = pc[u] \/ pc'[u] \notin {"arrive", "reset", "open", "spin"}
    BY <1>2 DEF Workers, Outside
  <2>2. QED BY <1>1, <2>1, QuietBarrier DEF local
<1>5. StopInv'
  <2>1. pc[0] = "join" => pc'[0] \in {"join", "exited"}
    BY <1>1 DEF TypeOK
  <2>2. stop' => stop \/ pc'[0] = "join"
    <3>1. CASE Free
      BY <1>1, <3>1, WokenType
    <3>2. CASE ~Free
      BY <3>2 DEF shared
    <3>3. QED BY <3>1, <3>2
  <2>3. stop => stop' /\ pc[0] = "join"
    BY <1>1 DEF StopInv, shared
  <2>4. \A u \in Workers : pc'[u] = "exited" => stop'
    BY <1>1, <1>2, <2>3 DEF StopInv, Outside
  <2> HIDE DEF Install, Pause, Resume, Free, Joined, Return
  <2>5. QED BY <1>1, <2>1, <2>2, <2>3, <2>4 DEF StopInv, local
<1>6. EndSegment'
  <2>1. \A u \in Workers : Resting(u)' /\ (u \in Active' => lastGraph'[u] = nGraph')
    BY <1>1, <1>2 DEF EndSegment, Resting, Released, Active, local, Outside
  <2>2. pc'[0] # "return" /\ pc'[0] # "spin" /\ ~pending'[0]
    BY <1>1, <1>2 DEF EndSegment, local
  <2>3. pc'[0] = "kickoff" => plan' = nGraph'.count + 1 /\ abort' = NoAbort /\ computed' = Blank
    <3>1. CASE Install
      BY <1>1, <3>1 DEF local
    <3>2. CASE ~Install
      <4>1. pc'[0] # "kickoff"
        BY <1>1, <3>2, WokenType DEF TypeOK, Outside
      <4>2. QED BY <4>1
    <3>3. QED BY <3>1, <3>2
  <2>4. ChunksOnce'
    <3>1. CASE Install
      BY <3>1 DEF Blank, ChunksOnce
    <3>2. CASE ~Install
      BY <1>1, <3>2 DEF EndSegment, ChunksOnce
    <3>3. QED BY <3>1, <3>2
  <2>5. QED BY <1>2, <2>1, <2>2, <2>3, <2>4 DEF EndSegment
<1>7. QED BY <1>3, <1>4, <1>5, <1>6 DEF IInv, Segment

\* A graph is begun: its threads have not seen it, and no other joins them.
LEMMA KickoffStep ==
  ASSUME IInv, NEW n \in 1 .. PoolSize, Kickoff(n)
  PROVE  IInv'
<1> USE Sizes DEF Kickoff
<1>1. TypeOK /\ StopInv /\ EndSegment /\ pc[0] = "kickoff"
  BY BetweenGraphs DEF IInv
<1>2. /\ plan = nGraph.count + 1 /\ abort = NoAbort /\ computed = Blank
      /\ nGraph.count \in Nat /\ plan \in 0 .. MaxGraphs
  BY <1>1 DEF EndSegment, TypeOK, GraphValue
<1>3. nGraph' = [count |-> plan, threads |-> n] /\ nGraph' \in GraphValue
  BY <1>2 DEF GraphValue
<1>4. /\ pc' \in [Threads -> Places] /\ pc'[0] = "start"
      /\ \A u \in Workers : pc'[u] = pc[u] \/ (pc[u] \in Outside /\ pc'[u] \in Outside)
  <2>1. "start" \in Places /\ pc' = [Woken EXCEPT ![0] = "start"]
    BY DEF Places
  <2>2. QED BY <1>1, <2>1, WokenType DEF Workers
<1>5. TypeOK'
  BY <1>1, <1>3, <1>4 DEF TypeOK, local
<1>6. BarrierInv'
  <2>1. \A u \in Threads : pc'[u] = pc[u] \/ pc'[u] \notin {"arrive", "reset", "open", "spin"}
    BY <1>4 DEF Workers, Outside
  <2>2. QED BY <1>1, <2>1, QuietBarrier DEF local
<1>7. StopInv'
  <2>1. \A u \in Threads : lastGraph'[u].count <= nGraph'.count
    <3>1. \A u \in Threads : lastGraph[u].count <= nGraph.count /\ lastGraph[u].count \in Nat
      BY <1>1 DEF StopInv, TypeOK, GraphValue
    <3>2. QED BY <1>2, <1>3, <3>1 DEF local
  <2>2. ~stop /\ ~stop'
    BY <1>1 DEF StopInv
  <2>3. QED BY <1>1, <1>4, <2>1, <2>2 DEF StopInv, Outside
<1>8. \A u \in Workers : Resting(u)' /\ (pc'[u] # "exited" => lastGraph'[u] # nGraph') /\ pc'[u] # "exited"
  <2> SUFFICES ASSUME NEW u \in Workers
               PROVE  Resting(u)' /\ lastGraph'[u] # nGraph' /\ pc'[u] # "exited"
    OBVIOUS
  <2>1. Resting(u)'
    BY <1>1, <1>4 DEF EndSegment, Resting, Released, local
  <2>2. lastGraph'[u] # nGraph'
    <3>1. lastGraph[u].count <= nGraph.count /\ lastGraph[u].count \in Nat
      BY <1>1 DEF StopInv, TypeOK, GraphValue, Workers
    <3>2. QED BY <1>2, <1>3, <3>1 DEF local
  <2>3. pc'[u] # "exited"
    BY <1>1, <1>4 DEF StopInv, Outside
  <2>4. QED BY <2>1, <2>2, <2>3
<1>9. LoopSegment(0)'
  <2>1. InGraphNow'
    BY <1>2, <1>3, <1>8 DEF InGraphNow, Active, Workers
  <2>2. InLoop(0, 0)'
    BY <1>1, <1>4 DEF InLoop, Seen, EndSegment, local
  <2>3. \A u \in Workers : Late(u)'
    BY <1>8 DEF Late, Resting
  <2>4. ComputedUpTo(0)'
    BY <1>2 DEF ComputedUpTo, Blank, Real
  <2>5. abort' = NoAbort
    BY <1>2
  <2>6. QED BY <2>1, <2>2, <2>3, <2>4, <2>5 DEF LoopSegment, Active, Workers
<1>10. QED BY <1>5, <1>6, <1>7, <1>9 DEF IInv, Segment

-----------------------------------------------------------------------------
(* The theorems.                                                           *)

LEMMA InitIInv == Init => IInv
<1> SUFFICES ASSUME Init PROVE IInv
  OBVIOUS
<1> USE Sizes DEF Init
<1>1. TypeOK
  <2>1. nGraph \in GraphValue /\ abort \in 0 .. NoAbort
    BY DEF GraphValue, NoAbort
  <2>2. pc \in [Threads -> Places] /\ from \in [Threads -> Barriers]
    BY DEF Places, Barriers
  <2>3. lastGraph \in [Threads -> GraphValue]
    BY DEF GraphValue
  <2>4. computed \in [Real -> [0 .. Chunks - 1 -> Nat]]
    BY DEF Blank
  <2>5. /\ nth \in [Threads -> 0 .. PoolSize] /\ node \in [Threads -> 0 .. Nodes]
        /\ work \in [Threads -> 0 .. Nodes] /\ mine \in [Threads -> Nat]
        /\ pending \in [Threads -> BOOLEAN]
    OBVIOUS
  <2>6. /\ nBarrier \in 0 .. PoolSize /\ nPassed \in Nat /\ chunk \in 0 .. Chunks + PoolSize
        /\ plan \in 0 .. MaxGraphs
    OBVIOUS
  <2>7. stop \in BOOLEAN /\ pause \in BOOLEAN
    OBVIOUS
  <2>8. QED BY <2>1, <2>2, <2>3, <2>4, <2>5, <2>6, <2>7 DEF TypeOK
<1>2. BarrierInv
  <2>1. \A t \in Threads : pc[t] \notin {"spin", "arrive", "reset", "open"}
    OBVIOUS
  <2>2. Counted = {}
    BY <2>1 DEF Counted, Waiting
  <2>3. QED BY <2>1, <2>2, FS_EmptySet DEF BarrierInv, Opening
<1>3. StopInv
  BY DEF StopInv, Workers
<1>4. EndSegment
  <2>1. ChunksOnce
    BY DEF ChunksOnce, Blank
  <2>2. QED BY <2>1 DEF EndSegment, Resting, Active, Workers, Outside
<1>5. QED BY <1>1, <1>2, <1>3, <1>4 DEF IInv, Segment

LEMMA NextIInv == IInv /\ [Next]_vars => IInv'
<1> SUFFICES ASSUME IInv, [Next]_vars PROVE IInv'
  OBVIOUS
<1>1. CASE Main
  BY <1>1, MainStep, KickoffStep DEF Main
<1>2. ASSUME NEW t \in Workers, Between(t) PROVE IInv'
  BY <1>2, BetweenStep
<1>3. ASSUME NEW t \in Threads, Working(t) PROVE IInv'
  BY <1>3, StartStep, SkipNodeStep, ConvertStep, LeaveLoopStep, ComputeStep, EndNodeStep
     DEF Working
<1>4. ASSUME NEW t \in Threads, Barrier(t) PROVE IInv'
  BY <1>4, EnterStep, EnterAloneStep, ArriveStep, ResetStep, OpenStep, SpinStep DEF Barrier
<1>5. CASE UNCHANGED vars
  <2>1. /\ TypeOK' = TypeOK /\ StopInv' = StopInv
    BY <1>5 DEF vars, shared, local, TypeOK, StopInv
  <2>2. BarrierInv' = BarrierInv
    BY <1>5 DEF vars, shared, local, BarrierInv, Opening, Waiting, Counted, Active
  <2>3. \A u : Released(u)' = Released(u) /\ Held(u)' = Held(u) /\ Hold(u)' = Hold(u)
    BY <1>5 DEF vars, shared, local, Released, Held, Waiting, Hold
  <2>4. /\ EndSegment' = EndSegment /\ InGraphNow' = InGraphNow /\ Finished' = Finished
    BY <1>5, <2>3 DEF vars, shared, local, EndSegment, InGraphNow, Resting, ComputedUpTo, ChunksOnce, Active,
                      Finished
  <2>5. \A n : LoopSegment(n)' = LoopSegment(n)
    BY <1>5, <2>3, <2>4 DEF vars, shared, local, LoopSegment, InLoop, Late, Seen, Skipped,
                            ComputedUpTo, Active
  <2>6. \A m : ChunkSegment(m)' = ChunkSegment(m)
    BY <1>5, <2>3, <2>4 DEF vars, shared, local, ChunkSegment, InChunks, Seen, Active
  <2>7. QED BY <2>1, <2>2, <2>4, <2>5, <2>6 DEF IInv, Segment
<1>6. QED BY <1>1, <1>2, <1>3, <1>4, <1>5 DEF Next, Thread

\* The threads of a graph are all in one segment of it, in every reachable state.
THEOREM ThreadsInStep == Spec => []IInv
BY InitIInv, NextIInv, PTL DEF Spec

\* A thread inside a graph finds its plan alive and published, and was counted
\* in: ggml_graph_compute does not return while a worker may read the plan.
THEOREM PlanIsOutlived == Spec => []PlanOutlivesWork
<1>1. IInv => PlanOutlivesWork
  <2> SUFFICES ASSUME IInv, NEW t \in Threads, InGraph(t)
               PROVE  plan = nGraph.count /\ plan # 0 /\ t < nGraph.threads
    BY DEF PlanOutlivesWork
  <2>1. ~EndSegment
    <3>1. SUFFICES ASSUME EndSegment PROVE FALSE
      OBVIOUS
    <3>2. CASE t = 0
      BY <3>1, <3>2 DEF InGraph, EndSegment, Released
    <3>3. CASE t # 0
      BY <3>1, <3>3 DEF InGraph, EndSegment, Resting, Released, Outside, Workers
    <3>4. QED BY <3>2, <3>3
  <2>2. InGraphNow
    BY <2>1 DEF IInv, Segment, LoopSegment, ChunkSegment
  <2>3. ~Resting(t)
    BY DEF InGraph, Resting, Released, Outside
  <2>4. QED BY <2>2, <2>3 DEF InGraphNow, Active
<1>2. QED BY <1>1, ThreadsInStep, PTL

\* Nodes are computed in their order and every chunk once, up to the abort that
\* all threads agree on.
THEOREM GraphsAreComputed == Spec => []GraphIsComputed
<1>1. IInv => GraphIsComputed
  <2> SUFFICES ASSUME IInv PROVE GraphIsComputed
    OBVIOUS
  <2> USE Sizes
  <2>1. TypeOK
    BY DEF IInv
  <2>2. NodesInOrder
    <3> SUFFICES ASSUME NEW t \in Threads, pc[t] = "chunks"
                 PROVE  /\ \A n \in Real : n < node[t] => \A c \in 0 .. Chunks - 1 : computed[n][c] = 1
                        /\ \A u \in Active : work[u] = node[t]
      BY DEF NodesInOrder
    <3>1. PICK m \in Real : ChunkSegment(m) /\ InChunks(t, m)
      BY ChunkCase
    <3>2. node[t] = m /\ m \in Nat
      BY <3>1 DEF InChunks, Released, Held, Waiting
    <3>3. \A n \in Real : n < m => \A c \in 0 .. Chunks - 1 : computed[n][c] = 1
      BY <3>1, <3>2 DEF ChunkSegment
    <3>4. QED BY <3>1, <3>2, <3>3 DEF ChunkSegment, InChunks
  <2>3. ChunksOnce
    <3> SUFFICES ASSUME NEW k \in Real, NEW c \in 0 .. Chunks - 1
                 PROVE  computed[k][c] <= 1
      BY DEF ChunksOnce
    <3>1. CASE EndSegment
      BY <3>1 DEF EndSegment, ChunksOnce
    <3>2. ASSUME NEW n \in 0 .. Nodes - 1, LoopSegment(n)
          PROVE  computed[k][c] <= 1
      BY <3>2 DEF LoopSegment, ComputedUpTo
    <3>3. ASSUME NEW m \in Real, ChunkSegment(m)
          PROVE  computed[k][c] <= 1
      BY <3>3 DEF ChunkSegment
    <3>4. QED BY <3>1, <3>2, <3>3 DEF IInv, Segment
  <2>4. ReturnsComplete
    BY BetweenGraphs DEF EndSegment, ComputedUpTo, ReturnsComplete
  <2>5. QED BY <2>1, <2>2, <2>3, <2>4 DEF GraphIsComputed
<1>2. QED BY <1>1, ThreadsInStep, PTL

\* A worker that sleeps has seen the latest graph and nothing asks for it: who
\* changes that wakes it, and it looks once more before it sleeps.
THEOREM SleepersAreNotNeeded == Spec => []SleeperIsNotNeeded
<1>1. Init => SleeperIsNotNeeded
  BY DEF Init, SleeperIsNotNeeded, Workers
<1>2. IInv /\ SleeperIsNotNeeded /\ [Next]_vars => SleeperIsNotNeeded'
  <2> SUFFICES ASSUME IInv, SleeperIsNotNeeded, [Next]_vars,
                      NEW t \in Workers, pc'[t] = "sleepwait"
               PROVE  ~stop' /\ ~pause' /\ ~pending'[t] /\ lastGraph'[t] = nGraph'
    BY DEF SleeperIsNotNeeded
  <2>1. TypeOK /\ t \in Threads /\ t # 0
    BY DEF IInv, Workers
  <2>2. pc[t] = "sleepwait" => ~stop /\ ~pause /\ ~pending[t] /\ lastGraph[t] = nGraph
    BY DEF SleeperIsNotNeeded
  <2>3. CASE Main
    <3>1. pc' # Woken /\ \A x : pc' # [Woken EXCEPT ![0] = x]
      BY <2>1, WokenType
    <3>2. Install \/ Joined \/ Return
      BY <2>3, <3>1 DEF Main, Kickoff, Pause, Resume, Free
    <3>3. /\ pc'[t] = pc[t]
          /\ UNCHANGED <<stop, pause, pending, lastGraph, nGraph>>
      BY <2>1, <3>2 DEF Install, Joined, Return, Goto, TypeOK, shared, local
    <3>4. QED BY <2>2, <3>3
  <2>4. ASSUME NEW u \in Workers, Between(u)
        PROVE  ~stop' /\ ~pause' /\ ~pending'[t] /\ lastGraph'[t] = nGraph'
    <3>1. UNCHANGED <<stop, pause, nGraph>>
      BY <2>4 DEF Between, Top, PauseLock, PollReady, PollEnds, SleepLock, Dispatch, shared
    <3>2. CASE u = t
      <4>1. SleepLock(t) /\ ~Ready(t)
        BY <2>1, <2>4, <3>2 DEF Between, Top, PauseLock, PollReady, PollEnds, SleepLock, Dispatch,
             Goto, TypeOK
      <4>2. UNCHANGED <<pending, lastGraph>>
        BY <4>1 DEF SleepLock, LookedAt, Ready
      <4>3. QED BY <3>1, <4>1, <4>2 DEF Ready
    <3>3. CASE u # t
      <4>1. pc'[t] = pc[t] /\ pending'[t] = pending[t] /\ lastGraph'[t] = lastGraph[t]
        BY <2>1, <2>4, <3>3 DEF Between, Top, PauseLock, PollReady, PollEnds, SleepLock, Dispatch,
             Goto, TypeOK, LookedAt, local
      <4>2. QED BY <2>2, <3>1, <4>1
    <3>4. QED BY <3>2, <3>3
  <2>5. ASSUME NEW u \in Threads, Thread(u)
        PROVE  ~stop' /\ ~pause' /\ ~pending'[t] /\ lastGraph'[t] = nGraph'
    <3>1. u # t
      BY <2>1, <2>5 DEF Thread, Working, Barrier, Start, SkipNode, Convert, LeaveLoop, Compute,
           EndNode, EnterBarrier, Arrive, ResetBarrier, OpenBarrier, Spin, PassedBarrier,
           ToBarrier, Goto, TypeOK
    <3>2. QED BY <2>1, <2>2, <2>5, <3>1, ThreadFrame DEF Unmoved
  <2>6. CASE UNCHANGED vars
    BY <2>2, <2>6 DEF vars, shared, local
  <2>7. QED BY <2>3, <2>4, <2>5, <2>6 DEF Next
<1>3. QED BY <1>1, <1>2, ThreadsInStep, PTL DEF Spec
=============================================================================
