------------------------- MODULE ServerModelsProofs -------------------------
(***************************************************************************)
(* Proofs about ServerModels, for any number of models, clients, requests  *)
(* and crashes.  Everything follows from one inductive invariant: Matched  *)
(* says what status, child, pipe and managing thread of a model may be     *)
(* together, and Counted that the running models stay within models_max.   *)
(***************************************************************************)
EXTENDS ServerModels, FiniteSetTheorems, TLAPS

Shapes ==
  /\ status \in [Models -> Statuses]
  /\ child \in [Models -> ChildStates]
  /\ mgr \in [Models -> {"none", "reading", "joining"}]
  /\ pipe \in [Models -> {<<>>, <<"READY">>, <<"SLEEP">>}]
  /\ at \in [Clients -> Places]
  /\ target \in [Clients -> Models \cup {Nobody}]
  /\ \A c \in Clients : at[c] # "idle" => target[c] \in Models

\* a report that is still to be read changes the status along the diagram
Pending(m) ==
  \/ pipe[m] = <<"READY">> /\ status[m] \in {"loading", "sleeping"}
  \/ pipe[m] = <<"SLEEP">> /\ status[m] = "loaded"

Matched(m) ==
  \/ child[m] = "none" /\ status[m] = "unloaded" /\ mgr[m] = "none" /\ pipe[m] = <<>>
  \/ child[m] = "starting" /\ status[m] = "loading" /\ mgr[m] = "reading" /\ pipe[m] = <<>>
  \/ /\ child[m] = "up" /\ mgr[m] = "reading"
     /\ \/ pipe[m] = <<>> /\ status[m] = "loaded"
        \/ pipe[m] = <<"READY">> /\ status[m] \in {"loading", "sleeping"}
  \/ /\ child[m] = "asleep" /\ mgr[m] = "reading"
     /\ \/ pipe[m] = <<>> /\ status[m] = "sleeping"
        \/ pipe[m] = <<"SLEEP">> /\ status[m] = "loaded"
  \/ /\ child[m] \in {"closing", "dead"} /\ status[m] # "unloaded"
     /\ \/ mgr[m] = "reading" /\ (pipe[m] = <<>> \/ Pending(m))
        \/ mgr[m] = "joining" /\ pipe[m] = <<>>

Counted == ModelsMax > 0 => Cardinality(Running) <= ModelsMax

AllGone == router = "stopped" => \A m \in Models : mgr[m] = "none"
NoCalls == router # "serving" => \A c \in Clients : at[c] = "idle"

IInv == Shapes /\ (\A m \in Models : Matched(m)) /\ Counted /\ NoCalls /\ AllGone

LEMMA Reports ==
  /\ \A x : Append(<<>>, x) = <<x>>
  /\ \A x : Head(<<x>>) = x /\ Tail(<<x>>) = <<>> /\ Len(<<x>>) = 1
  /\ Len(<<>>) = 0
  /\ <<>> # <<"READY">> /\ <<>> # <<"SLEEP">> /\ <<"READY">> # <<"SLEEP">>
OBVIOUS

LEMMA InitIInv == Init => IInv
<1> SUFFICES ASSUME Init PROVE IInv
  OBVIOUS
<1>1. Shapes
  BY DEF Init, Shapes, Statuses, ChildStates, Places
<1>2. \A m \in Models : Matched(m)
  BY DEF Init, Matched
<1>3. Running = {}
  BY DEF Init, Running, IsRunning
<1>4. Counted
  BY <1>3, FS_EmptySet, ModelsAssumption DEF Counted
<1> QED
  BY <1>1, <1>2, <1>4 DEF IInv, NoCalls, AllGone, Init

(* The three steps that change a status.                                   *)

LEMMA RunningIsFinite == IsFiniteSet(Running)
BY FS_Subset, ModelsAssumption DEF Running

LEMMA CountedSame ==
  ASSUME Counted, Running' \subseteq Running
  PROVE Counted'
BY FS_Subset, RunningIsFinite, FS_CardinalityType, ModelsAssumption DEF Counted

LEMMA SpawnCounted ==
  ASSUME NEW c \in Clients, Counted, Shapes, Spawn(c), target[c] \in Models
  PROVE Counted'
<1> DEFINE m == target[c]
<1>1. Running' = Running \cup {m} /\ m \notin Running
  BY DEF Spawn, MaySpawn, IsRunning, Running, Shapes
<1>2. Cardinality(Running') = Cardinality(Running) + 1
  BY <1>1, FS_AddElement, RunningIsFinite
<1>3. ModelsMax > 0 => Cardinality(Running) < ModelsMax
  BY RunningIsFinite, FS_CardinalityType, ModelsAssumption DEF Spawn, MaySpawn, Full
<1> QED
  BY <1>2, <1>3, RunningIsFinite, FS_CardinalityType, ModelsAssumption DEF Counted

(* The steps of the clients, but Spawn, leave status, children, pipes and  *)
(* managing threads alone.                                                 *)
Quiet == UNCHANGED <<status, child, mgr, pipe>>

LEMMA QuietKeeps ==
  ASSUME Shapes, \A m \in Models : Matched(m), Counted, Quiet
  PROVE (\A m \in Models : Matched(m))' /\ Counted'
<1>1. (\A m \in Models : Matched(m))'
  BY DEF Quiet, Matched, Pending
<1>2. Running' = Running
  BY DEF Quiet, Running, IsRunning
<1> QED
  BY <1>1, <1>2, CountedSame

\* what a client that is not idle may do to at and target
Moves(c) ==
  /\ at' \in [Clients -> Places] /\ \A d \in Clients \ {c} : at'[d] = at[d]
  /\ \/ target' = target
     \/ target' = [target EXCEPT ![c] = Nobody] /\ at'[c] = "idle"
  /\ at[c] # "idle" /\ router' = router

LEMMA ClientMoves ==
  ASSUME NEW c \in Clients, Shapes, ClientStep(c)
  PROVE Moves(c) /\ (Quiet \/ Spawn(c))
<1>1. CASE Unload(c)
  BY <1>1 DEF Unload, Places, Shapes, End, Moves, Quiet, process
<1>2. CASE ChooseVictim(c)
  BY <1>2 DEF ChooseVictim, Places, Shapes, Goto, Moves, Quiet, process, table
<1>3. CASE Evict(c)
  BY <1>3 DEF Evict, Places, Shapes, Goto, Moves, Quiet, process
<1>4. CASE EvictDone(c)
  BY <1>4 DEF EvictDone, Places, Shapes, Goto, Moves, Quiet, process, table
<1>5. CASE AlreadyLoaded(c)
  BY <1>5 DEF AlreadyLoaded, Places, Shapes, AfterLoad, Goto, End, Moves, Quiet, process, table
<1>6. CASE LoadFails(c)
  BY <1>6 DEF LoadFails, Places, Shapes, End, Moves, Quiet, process, table
<1>7. CASE Spawn(c)
  BY <1>7 DEF Spawn, Places, Shapes, AfterLoad, Goto, End, Moves
<1>8. CASE LoadingDone(c)
  BY <1>8 DEF LoadingDone, Places, Shapes, Goto, Moves, Quiet, process, table
<1>9. CASE CheckLoaded(c)
  BY <1>9 DEF CheckLoaded, Places, Shapes, Goto, End, Moves, Quiet, process, table
<1>10. CASE Proxy(c)
  BY <1>10 DEF Proxy, Places, Shapes, Goto, End, Moves, Quiet, process, table
<1>11. CASE Touch(c)
  BY <1>11 DEF Touch, Places, Shapes, End, Moves, Quiet, process
<1> QED
  BY <1>1, <1>2, <1>3, <1>4, <1>5, <1>6, <1>7, <1>8, <1>9, <1>10, <1>11 DEF ClientStep

LEMMA MovesKeep ==
  ASSUME NEW c \in Clients, Shapes, NoCalls, Moves(c)
  PROVE /\ at' \in [Clients -> Places]
        /\ target' \in [Clients -> Models \cup {Nobody}]
        /\ \A d \in Clients : at'[d] # "idle" => target'[d] \in Models
        /\ NoCalls' /\ router = "serving" /\ router' = "serving"
<1>1. router = "serving" /\ router' = "serving"
  BY DEF Moves, NoCalls
<1>2. CASE target' = target
  BY <1>1, <1>2 DEF Shapes, NoCalls, Moves
<1>3. CASE target' = [target EXCEPT ![c] = Nobody] /\ at'[c] = "idle"
  BY <1>1, <1>3 DEF Shapes, NoCalls, Moves
<1> QED
  BY <1>2, <1>3 DEF Moves

LEMMA ClientKeeps ==
  ASSUME NEW c \in Clients, IInv, ClientStep(c)
  PROVE IInv'
<1> USE DEF IInv
<1>1. Moves(c) /\ (Quiet \/ Spawn(c))
  BY ClientMoves
<1>2. /\ at' \in [Clients -> Places]
      /\ target' \in [Clients -> Models \cup {Nobody}]
      /\ \A d \in Clients : at'[d] # "idle" => target'[d] \in Models
      /\ NoCalls' /\ router = "serving" /\ router' = "serving"
  BY <1>1, MovesKeep
<1>3. CASE Quiet
  <2>1. Shapes'
    BY <1>2, <1>3 DEF Quiet, Shapes
  <2> QED
    BY <1>2, <1>3, <2>1, QuietKeeps DEF AllGone
<1>4. CASE Spawn(c)
  <2>1. PICK m \in Models : m = target[c]
    BY <1>4 DEF Spawn, Shapes
  <2>10. /\ status[m] = "unloaded" /\ status' = [status EXCEPT ![m] = "loading"]
         /\ child' = [child EXCEPT ![m] = "starting"]
         /\ mgr' = [mgr EXCEPT ![m] = "reading"] /\ pipe' = pipe
    BY <1>4, <2>1 DEF Spawn, MaySpawn, IsRunning
  <2>11. pipe[m] = <<>>
    BY <2>10 DEF Matched, Pending
  <2>2. Shapes'
    BY <1>2, <2>10 DEF Shapes, Statuses, ChildStates
  <2>3. Matched(m)'
    BY <2>10, <2>11 DEF Shapes, Matched
  <2>4. ASSUME NEW k \in Models, k # m PROVE Matched(k)'
    BY <2>4, <2>10 DEF Shapes, Matched, Pending
  <2>5. Counted'
    BY <1>4, <2>1, SpawnCounted
  <2> QED
    BY <1>2, <2>2, <2>3, <2>4, <2>5 DEF AllGone
<1> QED
  BY <1>1, <1>3, <1>4

LEMMA RunKeeps ==
  ASSUME NEW m \in Models, IInv, Run(m)
  PROVE IInv'
<1> USE DEF IInv
<1>1. /\ UNCHANGED <<status, mgr, at, target, router>>
      /\ \A k \in Models \ {m} : child'[k] = child[k] /\ pipe'[k] = pipe[k]
  BY DEF Run, Ready, FallAsleep, Wake, Report, ObeyExit, Exit, Die, Shapes, table, clients
<1>2. Shapes' /\ Matched(m)'
  <2>10. ASSUME NEW x, NEW y, NEW z, Report(m, x, y, z)
         PROVE /\ pipe[m] = <<>> /\ child[m] = x /\ child' = [child EXCEPT ![m] = y]
               /\ pipe' = [pipe EXCEPT ![m] = <<z>>]
    <3>1. pipe[m] \in {<<>>, <<"READY">>, <<"SLEEP">>} /\ Len(pipe[m]) < 1
      BY <2>10 DEF Report, Shapes, PipeBound
    <3>2. pipe[m] = <<>>
      BY <3>1, Reports
    <3> QED
      BY <2>10, <3>2, Reports DEF Report
  <2>1. CASE Ready(m)
    BY <2>1, <1>1, <2>10 DEF Ready, Shapes, ChildStates, Matched, Pending
  <2>2. CASE FallAsleep(m)
    BY <2>2, <1>1, <2>10 DEF FallAsleep, Shapes, ChildStates, Matched, Pending
  <2>3. CASE Wake(m)
    BY <2>3, <1>1, <2>10 DEF Wake, Shapes, ChildStates, Matched, Pending
  <2>4. CASE ObeyExit(m)
    BY <2>4, <1>1 DEF ObeyExit, Shapes, ChildStates, Matched, Pending
  <2>5. CASE Exit(m)
    BY <2>5, <1>1 DEF Exit, Shapes, ChildStates, Matched, Pending
  <2>6. CASE Die(m)
    BY <2>6, <1>1 DEF Die, Shapes, ChildStates, Matched, Pending
  <2> QED
    BY <2>1, <2>2, <2>3, <2>4, <2>5, <2>6 DEF Run
<1>3. ASSUME NEW k \in Models, k # m PROVE Matched(k)'
  BY <1>1, <1>3 DEF Matched, Pending
<1>4. Running' = Running
  BY <1>1 DEF Running, IsRunning
<1> QED
  BY <1>1, <1>2, <1>3, <1>4, CountedSame DEF NoCalls, AllGone

LEMMA ManagerKeeps ==
  ASSUME NEW m \in Models, IInv, ManagerStep(m)
  PROVE IInv'
<1> USE DEF IInv
<1>1. UNCHANGED <<at, target, router>>
  BY DEF ManagerStep, ReadReport, ReadEof, Reap, clients
<1>2. Shapes' /\ Matched(m)' /\ Running' \subseteq Running
  <2>1. CASE ReadReport(m)
    <3>1. pipe[m] \in {<<"READY">>, <<"SLEEP">>}
      BY <2>1 DEF ReadReport, Shapes
    <3>2. Head(pipe[m]) = "READY" <=> pipe[m] = <<"READY">>
      BY <3>1, Reports
    <3>3. Tail(pipe[m]) = <<>>
      BY <3>1, Reports
    <3>4. pipe' = [pipe EXCEPT ![m] = <<>>] /\ child' = child /\ mgr' = mgr /\ mgr[m] = "reading"
      BY <2>1, <3>3 DEF ReadReport
    <3>5. status' = [status EXCEPT ![m] = IF pipe[m] = <<"READY">> THEN "loaded" ELSE "sleeping"]
      BY <2>1, <3>1, <3>2, Reports DEF ReadReport, Reported
    <3> QED
      BY <1>1, <3>1, <3>4, <3>5 DEF Shapes, Statuses, Matched, Pending, Running, IsRunning
  <2>2. CASE ReadEof(m)
    BY <2>2, <1>1 DEF ReadEof, AtEof, process, Shapes, Matched, Running, IsRunning
  <2>3. CASE Reap(m)
    BY <2>3, <1>1 DEF Reap, Reaped, Shapes, Statuses, ChildStates, Matched, Running, IsRunning
  <2> QED
    BY <2>1, <2>2, <2>3 DEF ManagerStep
<1>3. ASSUME NEW k \in Models, k # m PROVE Matched(k)'
  BY <1>3 DEF ManagerStep, ReadReport, ReadEof, Reap, process, Shapes, Matched, Pending
<1>4. AllGone'
  BY <1>1 DEF AllGone, ManagerStep, ReadReport, ReadEof, Reap
<1> QED
  BY <1>1, <1>2, <1>3, <1>4, CountedSame DEF NoCalls

LEMMA StopperKeeps ==
  ASSUME NEW m \in Models, IInv, StopperStep(m)
  PROVE IInv'
<1> USE DEF IInv
<1>1. /\ UNCHANGED <<status, mgr, pipe, at, target, router>>
      /\ \A k \in Models \ {m} : child'[k] = child[k]
      /\ \/ child' = child
         \/ /\ child[m] \in {"starting", "up", "asleep"}
            /\ child' = [child EXCEPT ![m] = "closing"]
  BY DEF StopperStep, StopperLook, TellExit, StopperDone, Kill, StopperTo, process, table, clients, Shapes
<1>2. Shapes'
  BY <1>1 DEF Shapes, ChildStates
<1>3. ASSUME NEW k \in Models PROVE Matched(k)'
  BY <1>1 DEF Matched, Pending, Shapes
<1>4. Running' = Running
  BY <1>1 DEF Running, IsRunning
<1> QED
  BY <1>1, <1>2, <1>3, <1>4, CountedSame DEF NoCalls, AllGone

LEMMA NextKeeps ==
  ASSUME IInv, [Next]_vars
  PROVE IInv'
<1>1. ASSUME NEW c \in Clients, Arrive(c) PROVE IInv'
  <2>1. PICK m \in Models, p \in Places \ {"idle"} :
          /\ at' = [at EXCEPT ![c] = p] /\ target' = [target EXCEPT ![c] = m]
          /\ router = "serving" /\ router' = router /\ Quiet
    BY <1>1 DEF Arrive, Request, RequestLoaded, AskLoad, AskUnload, Begin, Goto, Places, Quiet,
      table, process
  <2>2. Shapes'
    BY <2>1 DEF IInv, Shapes, Quiet
  <2> QED
    BY <2>1, <2>2, QuietKeeps DEF IInv, NoCalls, AllGone
<1>2. CASE UnloadAll
  <2>1. Quiet /\ UNCHANGED <<at, target>> /\ router' = "joining" /\ \A c \in Clients : at[c] = "idle"
    BY <1>2 DEF UnloadAll, Quiet, process, clients
  <2> QED
    BY <2>1, QuietKeeps DEF IInv, Shapes, Quiet, NoCalls, AllGone
<1>3. CASE Joined
  <2>1. /\ Quiet /\ UNCHANGED <<at, target>> /\ router = "joining" /\ router' = "stopped"
        /\ \A m \in Models : mgr[m] = "none"
    BY <1>3 DEF Joined, Quiet, process, clients, table
  <2> QED
    BY <2>1, QuietKeeps DEF IInv, Shapes, Quiet, NoCalls, AllGone
<1>4. CASE UNCHANGED vars
  BY <1>4, QuietKeeps DEF IInv, vars, table, process, clients, Quiet, Shapes, NoCalls, AllGone
<1> QED
  BY <1>1, <1>2, <1>3, <1>4, ClientKeeps, RunKeeps, ManagerKeeps, StopperKeeps DEF Next

THEOREM Invariant == Spec => []IInv
BY InitIInv, NextKeeps, PTL DEF Spec

LEMMA ChildrenAreRunning ==
  ASSUME IInv PROVE {m \in Models : child[m] # "none"} = Running
BY DEF IInv, Matched, Running, IsRunning

(* Never more than models_max child processes, however many threads load   *)
(* models at once and however late each of them takes the mutex.           *)
THEOREM LimitHolds == Spec => []LimitIsKept
<1>1. IInv => LimitIsKept
  BY ChildrenAreRunning DEF LimitIsKept, IInv, Counted
<1> QED
  BY <1>1, Invariant, PTL

(* No child process outlives its entry in the table or the router.         *)
THEOREM NoOrphanEver == Spec => []NoOrphan
<1>1. IInv => NoOrphan
  BY DEF IInv, Matched, NoOrphan, IsRunning, AllGone
<1> QED
  BY <1>1, Invariant, PTL

(* Once its reports are read, a child's status is what the child does.     *)
THEOREM StatusTells == Spec => []StatusIsTrue
<1>1. IInv => StatusIsTrue
  BY DEF IInv, Matched, Pending, StatusIsTrue
<1> QED
  BY <1>1, Invariant, PTL

(* The table of the router tells the truth about the child processes.      *)
THEOREM TableHolds == Spec => []TableIsTrue
BY NoOrphanEver, StatusTells, PTL DEF TableIsTrue

(* Every change of a status is an arrow of the state diagram, or the end   *)
(* of a process that has exited.                                           *)
THEOREM DiagramHolds == Spec => FollowsDiagram
<1>1. ASSUME IInv, [Next]_vars, NEW m \in Models PROVE Diagram(m) \/ UNCHANGED vars
  <2> USE DEF IInv, Diagram
  <2>1. ASSUME Quiet PROVE Diagram(m)
    BY <2>1 DEF Quiet
  <2>2. ASSUME NEW c \in Clients, Spawn(c) PROVE Diagram(m)
    BY <2>2 DEF Spawn, MaySpawn, IsRunning, Shapes
  <2>3. ASSUME NEW k \in Models, ReadReport(k) PROVE Diagram(m)
    <3>1. pipe[k] \in {<<"READY">>, <<"SLEEP">>}
      BY <1>1, <2>3 DEF ReadReport, Shapes
    <3>2. Pending(k)
      BY <1>1, <2>3, <3>1, Reports DEF ReadReport, Matched, Pending
    <3>3. status' = [status EXCEPT ![k] = IF pipe[k] = <<"READY">> THEN "loaded" ELSE "sleeping"]
      BY <2>3, <3>1, Reports DEF ReadReport, Reported
    <3> QED
      BY <1>1, <3>1, <3>2, <3>3, Reports DEF Pending, Shapes
  <2>4. ASSUME NEW k \in Models, Reap(k) PROVE Diagram(m)
    BY <2>4 DEF Reap, Reaped, Shapes
  <2>5. ASSUME NEW c \in Clients, Arrive(c) PROVE status' = status
    BY <2>5 DEF Arrive, Request, RequestLoaded, AskLoad, AskUnload, Begin, table
  <2>6. ASSUME NEW k \in Models, Run(k) \/ StopperStep(k) \/ ReadEof(k) PROVE status' = status
    BY <2>6 DEF Run, Ready, FallAsleep, Wake, Report, ObeyExit, Exit, Die, table,
      StopperStep, StopperLook, TellExit, StopperDone, Kill, StopperTo, ReadEof
  <2>7. ASSUME UnloadAll \/ Joined PROVE status' = status
    BY <2>7 DEF UnloadAll, Joined, table
  <2>8. ASSUME NEW c \in Clients, ClientStep(c) PROVE Diagram(m)
    <3>1. Quiet \/ Spawn(c)
      BY <1>1, <2>8, ClientMoves
    <3> QED
      BY <2>1, <2>2, <3>1
  <2> QED
    BY <1>1, <2>3, <2>4, <2>5, <2>6, <2>7, <2>8 DEF Next, ManagerStep
<1>2. ASSUME IInv, [Next]_vars PROVE [\A m \in Models : Diagram(m)]_vars
  BY <1>1, <1>2
<1> QED
  BY <1>2, Invariant, PTL DEF Spec, FollowsDiagram
=============================================================================
