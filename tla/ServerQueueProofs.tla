------------------------- MODULE ServerQueueProofs -------------------------
(***************************************************************************)
(* Proofs about ServerQueue, for every set of requests and every number of *)
(* slots.                                                                  *)
(***************************************************************************)
EXTENDS ServerQueue, QueueLemmas

-----------------------------------------------------------------------------
(* What the operations on the deques leave in them.                        *)

\* What is in a sequence is counted there.
LEMMA CountRange ==
    ASSUME NEW S, NEW q \in Seq(S), NEW t
    PROVE  Count(q, t) \in Nat /\ (t \in Range(q) <=> Count(q, t) # 0)
<1>1. t \in Range(q) <=> \E i \in DOMAIN q : q[i] = t
  BY DEF Range
<1>2. QED BY <1>1, CountIsZero, CountIsNat

\* Erasing a task leaves a sequence of tasks, and every other task in it.
LEMMA CleanupLemma ==
    ASSUME NEW S, NEW q \in Seq(S), NEW r
    PROVE  /\ CleanupPendingTask(q, r) \in Seq(S)
           /\ \A t \in Range(q) \ {Completion(r)} :
                    t \in Range(CleanupPendingTask(q, r))
<1>1. CleanupPendingTask(q, r) \in Seq(S)
  BY CountRemoveFirst DEF CleanupPendingTask
<1>2. ASSUME NEW t \in Range(q), t # Completion(r)
      PROVE  t \in Range(CleanupPendingTask(q, r))
  <2>1. Count(CleanupPendingTask(q, r), t) = Count(q, t)
    BY <1>2, CountRemoveFirst DEF CleanupPendingTask
  <2>2. QED BY <1>1, <1>2, <2>1, CountRange
<1>3. QED BY <1>1, <1>2

\* Operations at either end of a deque keep what is in it.
LEMMA EndsLemma ==
    ASSUME NEW S, NEW q \in Seq(S), NEW x \in S
    PROVE  /\ Append(q, x) \in Seq(S)
           /\ Append(q, x) # <<>>
           /\ <<x>> \o q \in Seq(S)
           /\ <<x>> \o q # <<>>
           /\ x \in Range(Append(q, x))
           /\ \A t \in Range(q) : t \in Range(Append(q, x))
           /\ \A t \in Range(q) : t \in Range(<<x>> \o q)
<1>1. /\ Append(q, x) \in Seq(S)
      /\ Append(q, x) # <<>>
      /\ Len(Append(q, x)) = Len(q) + 1
      /\ \A i \in 1..Len(q) : Append(q, x)[i] = q[i]
      /\ Append(q, x)[Len(q)+1] = x
  BY AppendProperties
<1>2. DOMAIN Append(q, x) = 1..(Len(q) + 1) /\ DOMAIN q = 1..Len(q) /\ Len(q) \in Nat
  BY <1>1, LenProperties
<1>3. <<x>> \in Seq(S) /\ Len(<<x>>) = 1
  OBVIOUS
<1>4. /\ <<x>> \o q \in Seq(S)
      /\ Len(<<x>> \o q) = 1 + Len(q)
      /\ \A i \in 1..(1 + Len(q)) :
            (<<x>> \o q)[i] = IF i <= 1 THEN <<x>>[i] ELSE q[i - 1]
  BY <1>3, ConcatProperties
<1>5. <<x>> \o q # <<>>
  BY <1>4, <1>2, EmptySeq
<1>6. x \in Range(Append(q, x))
  BY <1>1, <1>2 DEF Range
<1>7. ASSUME NEW t \in Range(q) PROVE t \in Range(Append(q, x))
  BY <1>1, <1>2 DEF Range
<1>8. ASSUME NEW t \in Range(q) PROVE t \in Range(<<x>> \o q)
  <2>1. PICK i \in 1..Len(q) : t = q[i]
    BY <1>2 DEF Range
  <2>2. DOMAIN (<<x>> \o q) = 1..(1 + Len(q))
    BY <1>4, LenProperties
  <2>3. i + 1 \in 1..(1 + Len(q)) /\ ~(i + 1 <= 1) /\ (i + 1) - 1 = i
    BY <1>2, <2>1
  <2>4. (<<x>> \o q)[i + 1] = t
    BY <1>4, <2>1, <2>3
  <2>5. QED BY <2>2, <2>3, <2>4 DEF Range
<1>9. QED BY <1>1, <1>4, <1>5, <1>6, <1>7, <1>8

-----------------------------------------------------------------------------
(* Type correctness.                                                       *)

QueueType ==
    /\ queue_tasks \in Seq(Task)
    /\ queue_tasks_deferred \in Seq(Task)
    /\ idle \in BOOLEAN
    /\ waiters \subseteq Requests \cup {Main}

Typed == TypeOK /\ IsFiniteSet(work)

LEMMA TaskTypes ==
    /\ \A r \in Requests : Completion(r) \in Task /\ Cancel(r) \in Task
    /\ NextResponse \in Task /\ NoTask \in Task
    /\ \A t \in Task : t.type \in {"COMPLETION", "CANCEL"} => t.id \in Requests
<1>1. /\ \A r \in Requests : Completion(r) \in Task /\ Cancel(r) \in Task
      /\ NextResponse \in Task /\ NoTask \in Task
  BY DEF Task, NoTask
<1>2. ASSUME NEW t \in Task, t.type \in {"COMPLETION", "CANCEL"}
      PROVE  t.id \in Requests
  <2>1. CASE \E r \in Requests : t = Completion(r) \/ t = Cancel(r)
    BY <2>1 DEF Completion, Cancel
  <2>2. CASE t = NextResponse
    BY <1>2, <2>2 DEF NextResponse
  <2>3. QED BY <2>1, <2>2 DEF Task
<1>3. QED BY <1>1, <1>2

LEMMA NotifyType ==
    ASSUME QueueType, NotifyOne
    PROVE  waiters' \subseteq waiters
BY DEF NotifyOne, QueueType

LEMMA PostType ==
    ASSUME QueueType, NEW t \in Task, Post(t)
    PROVE  QueueType'
<1>1. queue_tasks' \in Seq(Task)
  BY EndsLemma DEF Post, QueueType
<1>2. QED BY <1>1, NotifyType DEF Post, QueueType

LEMMA DeferType ==
    ASSUME QueueType, NEW t \in Task, Defer(t)
    PROVE  QueueType'
<1>1. queue_tasks_deferred' \in Seq(Task)
  BY EndsLemma DEF Defer, QueueType
<1>2. QED BY <1>1, NotifyType DEF Defer, QueueType

LEMMA PostCancelType ==
    ASSUME QueueType, NEW r \in Requests, PostCancel(r)
    PROVE  QueueType'
<1>1. /\ CleanupPendingTask(queue_tasks, r) \in Seq(Task)
      /\ CleanupPendingTask(queue_tasks_deferred, r) \in Seq(Task)
  BY CleanupLemma DEF QueueType
<1>2. <<Cancel(r)>> \o CleanupPendingTask(queue_tasks, r) \in Seq(Task)
  BY <1>1, EndsLemma, TaskTypes
<1>3. QED BY <1>1, <1>2, NotifyType DEF PostCancel, QueueType

LEMMA PopDeferredType ==
    ASSUME QueueType, PopDeferredTask
    PROVE  QueueType'
<1>1. CASE queue_tasks_deferred = <<>>
  BY <1>1, NotifyType DEF PopDeferredTask, QueueType, queueVars
<1>2. CASE queue_tasks_deferred # <<>>
  <2>1. Head(queue_tasks_deferred) \in Task /\ Tail(queue_tasks_deferred) \in Seq(Task)
    BY <1>2, HeadTailProperties DEF QueueType
  <2>2. <<Head(queue_tasks_deferred)>> \o queue_tasks \in Seq(Task)
    BY <2>1, EndsLemma DEF QueueType
  <2>3. QED BY <1>2, <2>1, <2>2, NotifyType DEF PopDeferredTask, QueueType
<1>3. QED BY <1>1, <1>2

\* A slot is taken only when one is free, and released one at a time.
LEMMA SlotCount ==
    ASSUME IsFiniteSet(work), Cardinality(work) <= NSlots, NEW r
    PROVE  /\ IsFiniteSet(work \ {r})
           /\ Cardinality(work \ {r}) <= NSlots
           /\ IsFiniteSet(work \cup {r})
           /\ SlotFree => Cardinality(work \cup {r}) <= NSlots
<1>1. Cardinality(work) \in Nat /\ NSlots \in Nat
  BY FS_CardinalityType, NSlotsAssumption
<1>2. /\ IsFiniteSet(work \ {r})
      /\ Cardinality(work \ {r}) = IF r \in work THEN Cardinality(work) - 1
                                                ELSE Cardinality(work)
  BY FS_RemoveElement
<1>3. /\ IsFiniteSet(work \cup {r})
      /\ Cardinality(work \cup {r}) = IF r \in work THEN Cardinality(work)
                                                   ELSE Cardinality(work) + 1
  BY FS_AddElement
<1>4. QED BY <1>1, <1>2, <1>3 DEF SlotFree

LEMMA TypedInit == Init => Typed
<1> SUFFICES ASSUME Init PROVE Typed
  OBVIOUS
<1>1. IsFiniteSet(work) /\ Cardinality(work) <= NSlots
  BY FS_EmptySet, NSlotsAssumption DEF Init
<1>2. queue_tasks \in Seq(Task) /\ queue_tasks_deferred \in Seq(Task)
  BY EmptySeq DEF Init
<1>3. QED BY <1>1, <1>2, TaskTypes DEF Init, Typed, TypeOK, MainPc, RequestPc

LEMMA TypedStep == Typed /\ [Next]_vars => Typed'
<1> SUFFICES ASSUME Typed, [Next]_vars PROVE Typed'
  OBVIOUS
<1> USE DEF Typed, TypeOK
<1>q. QueueType
  BY DEF QueueType
<1>1. CASE StartLoop
  BY <1>1 DEF StartLoop, MainPc, queueVars, slotVars
<1>2. CASE Stop
  BY <1>2 DEF Stop, MainPc, queueVars, slotVars, sleepVars
<1>3. CASE PopTask
  <2>1. queue_tasks' \in Seq(Task) /\ current' \in Task
    BY <1>3, HeadTailProperties DEF PopTask
  <2>2. QED BY <1>3, <2>1 DEF PopTask, MainPc, slotVars, sleepVars
<1>4. CASE Launch
  <2>1. current.id \in Requests
    BY <1>4, TaskTypes DEF Launch, InCallback
  <2>2. QED BY <1>4, <2>1, SlotCount, TaskTypes
        DEF Launch, InCallback, MainPc, queueVars, sleepVars
<1>5. CASE Refuse
  <2>1. current.id \in Requests
    BY <1>5, TaskTypes DEF Refuse, InCallback
  <2>2. QED BY <1>5, <2>1, TaskTypes
        DEF Refuse, InCallback, MainPc, queueVars, sleepVars
<1>6. CASE DeferTask
  BY <1>6, <1>q, DeferType, TaskTypes
  DEF DeferTask, InCallback, MainPc, slotVars, sleepVars, QueueType
<1>7. CASE CancelSlot
  BY <1>7, <1>q, PopDeferredType, SlotCount, TaskTypes
  DEF CancelSlot, InCallback, MainPc, queueVars, sleepVars, QueueType
<1>8. CASE IgnoreNextResponse
  BY <1>8, TaskTypes
  DEF IgnoreNextResponse, InCallback, MainPc, queueVars, slotVars, sleepVars
<1>9. CASE BeginUpdate
  BY <1>9, <1>q, PostType, TaskTypes
  DEF BeginUpdate, MainPc, queueVars, slotVars, sleepVars, QueueType
<1>10. CASE EndUpdate
  BY <1>10 DEF EndUpdate, MainPc, queueVars, slotVars, sleepVars
<1>11. CASE TouchTime
  BY <1>11 DEF TouchTime, MainPc, queueVars, slotVars, sleepVars
<1>12. CASE GoOn
  BY <1>12 DEF GoOn, MainPc, queueVars, slotVars, sleepVars
<1>13. CASE WaitForTasks
  BY <1>13 DEF WaitForTasks, MainPc, queueVars, slotVars, sleepVars
<1>14. CASE WakeForTasks
  BY <1>14 DEF WakeForTasks, MainPc, queueVars, slotVars, sleepVars
<1>15. CASE EnterSleep
  BY <1>15 DEF EnterSleep, MainPc, queueVars, slotVars
<1>16. CASE FallAsleep
  BY <1>16 DEF FallAsleep, MainPc, queueVars, slotVars
<1>17. CASE WakeUp
  BY <1>17 DEF WakeUp, MainPc, queueVars, slotVars
<1>18. CASE ExitSleep
  BY <1>18 DEF ExitSleep, NotifyAll, MainPc, queueVars, slotVars
<1>19. CASE WaitTimeout
  BY <1>19 DEF WaitTimeout, MainPc, queueVars, slotVars, sleepVars
<1>20. ASSUME NEW r \in Requests, Finish(r) PROVE Typed'
  BY <1>20, <1>q, PopDeferredType, SlotCount DEF Finish, sleepVars, QueueType
<1>21. ASSUME NEW r \in Requests, Arrive(r) PROVE Typed'
  BY <1>21 DEF Arrive, RequestPc, queueVars, slotVars
<1>22. ASSUME NEW r \in Requests, WaiterWakes(r) PROVE Typed'
  BY <1>22 DEF WaiterWakes, RequestPc, queueVars, slotVars, sleepVars
<1>23. ASSUME NEW r \in Requests, PostTask(r) PROVE Typed'
  BY <1>23, <1>q, PostType, TaskTypes
  DEF PostTask, RequestPc, slotVars, sleepVars, QueueType
<1>24. ASSUME NEW r \in Requests, Receive(r) PROVE Typed'
  BY <1>24 DEF Receive, RequestPc, queueVars, slotVars, sleepVars
<1>25. ASSUME NEW r \in Requests, ReceiveError(r) PROVE Typed'
  BY <1>25, <1>q, PostCancelType
  DEF ReceiveError, RequestPc, slotVars, sleepVars, QueueType
<1>26. ASSUME NEW r \in Requests, Disconnect(r) PROVE Typed'
  BY <1>26, <1>q, PostCancelType
  DEF Disconnect, RequestPc, slotVars, sleepVars, QueueType
<1>27. CASE Terminate
  BY <1>27 DEF Terminate, NotifyAll, queueVars, slotVars
<1>28. CASE TerminateOnMain
  BY <1>28 DEF TerminateOnMain, MainPc, queueVars, slotVars, sleepVars
<1>29. ASSUME NEW t \in Requests \cup {Main}, SpuriousWake(t) PROVE Typed'
  BY <1>29 DEF SpuriousWake, queueVars, slotVars, sleepVars
<1>30. CASE Tick
  BY <1>30 DEF Tick, queueVars, slotVars, sleepVars
<1>31. CASE UNCHANGED vars
  BY <1>31 DEF vars
<1>32. QED
  BY <1>1, <1>2, <1>3, <1>4, <1>5, <1>6, <1>7, <1>8, <1>9, <1>10, <1>11,
     <1>12, <1>13, <1>14, <1>15, <1>16, <1>17, <1>18, <1>19, <1>20, <1>21,
     <1>22, <1>23, <1>24, <1>25, <1>26, <1>27, <1>28, <1>29, <1>30, <1>31
  DEF Next, MainStep, RequestStep

\* In every reachable state the queues hold tasks, the threads are where they
\* can be, and no more slots are taken than there are.
THEOREM TypeCorrect == Spec => []TypeOK
<1>1. Spec => []Typed
  BY TypedInit, TypedStep, PTL DEF Spec
<1>2. Typed => TypeOK
  BY DEF Typed
<1>3. QED BY <1>1, <1>2, PTL
-----------------------------------------------------------------------------
(* Sleeping and waking up.                                                 *)

\* The inductive invariant.  Two facts carry the proof: while the server
\* sleeps the main thread is at one of a few places, so it is the only waiter
\* when it waits for tasks; and from the moment update_slots has seen a busy
\* slot, its NEXT_RESPONSE stays in the queue until the loop goes round.
Asleep == {"unloading", "asleep", "loading", "deadlock", "drain", "done"}

QueueInv ==
    /\ NoLostWakeup
    /\ NoWaiterForgotten
    /\ SleepsOnlyWhenIdle
    /\ sleeping => mainPc \in Asleep
    /\ sleeping /\ mainPc = "drain" => ~running
    /\ mainPc \in {"decode", "touch", "wait"} /\ work # {} =>
            NextResponse \in Range(queue_tasks)
    /\ mainPc \in {"init", "idle", "unloading", "asleep", "loading"} =>
            work = {}

\* What the invariant needs to know about a step that adds to the deques.
Enqueues ==
    /\ mainPc = "idle" /\ Main \in waiters => Main \notin waiters'
    /\ waiters' \subseteq waiters
    /\ \A t \in Range(queue_tasks) :
            t.type = "NEXT_RESPONSE" => t \in Range(queue_tasks')

LEMMA NotifyWakesMain ==
    ASSUME Typed, QueueInv, NotifyOne
    PROVE  /\ mainPc = "idle" /\ Main \in waiters => Main \notin waiters'
           /\ waiters' \subseteq waiters
<1>1. mainPc = "idle" /\ Main \in waiters => waiters = {Main}
  BY DEF Typed, TypeOK, QueueInv, NoWaiterForgotten, Asleep
<1>2. QED BY <1>1 DEF NotifyOne

LEMMA PostEnqueues ==
    ASSUME Typed, QueueInv, NEW t \in Task, Post(t)
    PROVE  Enqueues /\ t \in Range(queue_tasks')
<1>1. /\ t \in Range(queue_tasks')
      /\ \A u \in Range(queue_tasks) : u \in Range(queue_tasks')
  BY EndsLemma DEF Post, Typed, TypeOK
<1>2. QED BY <1>1, NotifyWakesMain DEF Post, Enqueues

LEMMA DeferEnqueues ==
    ASSUME Typed, QueueInv, NEW t \in Task, Defer(t)
    PROVE  Enqueues
BY NotifyWakesMain DEF Defer, Enqueues

LEMMA PostCancelEnqueues ==
    ASSUME Typed, QueueInv, NEW r \in Requests, PostCancel(r)
    PROVE  Enqueues
<1>1. CleanupPendingTask(queue_tasks, r) \in Seq(Task)
  BY CleanupLemma DEF Typed, TypeOK
<1>2. ASSUME NEW t \in Range(queue_tasks), t.type = "NEXT_RESPONSE"
      PROVE  t \in Range(queue_tasks')
  <2>1. t # Completion(r)
    BY <1>2 DEF Completion
  <2>2. t \in Range(CleanupPendingTask(queue_tasks, r))
    BY <2>1, CleanupLemma DEF Typed, TypeOK
  <2>3. QED BY <2>2, <1>1, EndsLemma, TaskTypes DEF PostCancel
<1>3. QED BY <1>2, NotifyWakesMain DEF PostCancel, Enqueues

LEMMA PopDeferredEnqueues ==
    ASSUME Typed, QueueInv, PopDeferredTask
    PROVE  Enqueues
<1>1. CASE queue_tasks_deferred = <<>>
  BY <1>1, NotifyWakesMain DEF PopDeferredTask, Enqueues, queueVars
<1>2. CASE queue_tasks_deferred # <<>>
  <2>1. Head(queue_tasks_deferred) \in Task
    BY <1>2, HeadTailProperties DEF Typed, TypeOK
  <2>2. \A t \in Range(queue_tasks) : t \in Range(queue_tasks')
    BY <1>2, <2>1, EndsLemma DEF PopDeferredTask, Typed, TypeOK
  <2>3. QED BY <2>2, NotifyWakesMain DEF PopDeferredTask, Enqueues
<1>3. QED BY <1>1, <1>2

LEMMA NextResponseType == NextResponse.type = "NEXT_RESPONSE"
BY DEF NextResponse

LEMMA QueueInvInit == Init => QueueInv
BY DEF Init, QueueInv, NoLostWakeup, NoWaiterForgotten, SleepsOnlyWhenIdle, Asleep

LEMMA QueueInvStep == Typed /\ QueueInv /\ [Next]_vars => QueueInv'
<1> SUFFICES ASSUME Typed, QueueInv, [Next]_vars PROVE QueueInv'
  OBVIOUS
<1> USE DEF QueueInv, NoLostWakeup, NoWaiterForgotten, SleepsOnlyWhenIdle, Asleep
<1>1. CASE StartLoop
  BY <1>1 DEF StartLoop, queueVars, slotVars
<1>2. CASE Stop
  BY <1>2 DEF Stop, queueVars, slotVars, sleepVars
<1>3. CASE PopTask
  BY <1>3 DEF PopTask, slotVars, sleepVars
<1>4. CASE Launch
  BY <1>4 DEF Launch, InCallback, queueVars, sleepVars
<1>5. CASE Refuse
  BY <1>5 DEF Refuse, InCallback, queueVars, sleepVars
<1>6. CASE DeferTask
  BY <1>6, DeferEnqueues
  DEF DeferTask, InCallback, slotVars, sleepVars, Enqueues, Typed, TypeOK
<1>7. CASE CancelSlot
  BY <1>7, PopDeferredEnqueues
  DEF CancelSlot, InCallback, queueVars, sleepVars, Enqueues
<1>8. CASE IgnoreNextResponse
  BY <1>8 DEF IgnoreNextResponse, InCallback, queueVars, slotVars, sleepVars
<1>9. CASE BeginUpdate
  BY <1>9, PostEnqueues, TaskTypes
  DEF BeginUpdate, queueVars, slotVars, sleepVars, Enqueues
<1>10. CASE EndUpdate
  BY <1>10 DEF EndUpdate, queueVars, slotVars, sleepVars
<1>11. CASE TouchTime
  BY <1>11 DEF TouchTime, queueVars, slotVars, sleepVars
<1>12. CASE GoOn
  BY <1>12 DEF GoOn, queueVars, slotVars, sleepVars
<1>13. ASSUME mainPc = "wait", ~TasksOrStop PROVE work = {}
  <2>1. Range(queue_tasks) = {}
    BY <1>13 DEF TasksOrStop, Range
  <2>2. QED BY <1>13, <2>1
<1>14. CASE WaitForTasks
  BY <1>14, <1>13, MainAssumption
  DEF WaitForTasks, TasksOrStop, queueVars, slotVars, sleepVars
<1>15. CASE WakeForTasks
  BY <1>15, MainAssumption
  DEF WakeForTasks, TasksOrStop, queueVars, slotVars, sleepVars
<1>16. CASE EnterSleep
  BY <1>16, <1>13 DEF EnterSleep, queueVars, slotVars
<1>17. CASE FallAsleep
  BY <1>17, MainAssumption DEF FallAsleep, queueVars, slotVars
<1>18. CASE WakeUp
  BY <1>18, MainAssumption DEF WakeUp, queueVars, slotVars
<1>19. CASE ExitSleep
  BY <1>19 DEF ExitSleep, NotifyAll, queueVars, slotVars
<1>20. CASE WaitTimeout
  BY <1>20 DEF WaitTimeout, queueVars, slotVars, sleepVars
<1>21. ASSUME NEW r \in Requests, Finish(r) PROVE QueueInv'
  BY <1>21, PopDeferredEnqueues, NextResponseType DEF Finish, sleepVars, Enqueues
<1>22. ASSUME NEW r \in Requests, Arrive(r) PROVE QueueInv'
  BY <1>22, MainAssumption DEF Arrive, LockFree, queueVars, slotVars
<1>23. ASSUME NEW r \in Requests, WaiterWakes(r) PROVE QueueInv'
  BY <1>23 DEF WaiterWakes, queueVars, slotVars, sleepVars
<1>24. ASSUME NEW r \in Requests, PostTask(r) PROVE QueueInv'
  BY <1>24, PostEnqueues, TaskTypes, NextResponseType
  DEF PostTask, slotVars, sleepVars, Enqueues
<1>25. ASSUME NEW r \in Requests, Receive(r) PROVE QueueInv'
  BY <1>25 DEF Receive, queueVars, slotVars, sleepVars
<1>26. ASSUME NEW r \in Requests, ReceiveError(r) PROVE QueueInv'
  BY <1>26, PostCancelEnqueues, NextResponseType
  DEF ReceiveError, slotVars, sleepVars, Enqueues
<1>27. ASSUME NEW r \in Requests, Disconnect(r) PROVE QueueInv'
  BY <1>27, PostCancelEnqueues, NextResponseType
  DEF Disconnect, slotVars, sleepVars, Enqueues
<1>28. CASE Terminate
  BY <1>28 DEF Terminate, NotifyAll, queueVars, slotVars
<1>29. CASE TerminateOnMain
  BY <1>29 DEF TerminateOnMain, queueVars, slotVars, sleepVars
<1>30. ASSUME NEW t \in Requests \cup {Main}, SpuriousWake(t) PROVE QueueInv'
  BY <1>30 DEF SpuriousWake, queueVars, slotVars, sleepVars
<1>31. CASE Tick
  BY <1>31 DEF Tick, queueVars, slotVars, sleepVars
<1>32. CASE UNCHANGED vars
  BY <1>32 DEF vars
<1>33. QED
  BY <1>1, <1>2, <1>3, <1>4, <1>5, <1>6, <1>7, <1>8, <1>9, <1>10, <1>11,
     <1>12, <1>14, <1>15, <1>16, <1>17, <1>18, <1>19, <1>20, <1>21, <1>22,
     <1>23, <1>24, <1>25, <1>26, <1>27, <1>28, <1>29, <1>30, <1>31, <1>32
  DEF Next, MainStep, RequestStep

LEMMA QueueInvHolds == Spec => []QueueInv
<1>1. Spec => []Typed
  BY TypedInit, TypedStep, PTL DEF Spec
<1>2. QED BY <1>1, QueueInvInit, QueueInvStep, PTL DEF Spec

\* post() and terminate() never leave the main loop asleep in its wait for
\* tasks, with any number of HTTP threads on the same condition variable.
THEOREM NoLostWakeupHolds == Spec => []NoLostWakeup
BY QueueInvHolds, PTL DEF QueueInv

\* After a reload nobody is left blocked in wait_until_no_sleep.
THEOREM NoWaiterForgottenHolds == Spec => []NoWaiterForgotten
BY QueueInvHolds, PTL DEF QueueInv

\* The model is never unloaded under a slot that is still processing.
THEOREM SleepsOnlyWhenIdleHolds == Spec => []SleepsOnlyWhenIdle
BY QueueInvHolds, PTL DEF QueueInv

-----------------------------------------------------------------------------
(* Tasks are neither lost nor duplicated.                                  *)

\* How often a task is in the queues, and with the one that was popped.
InQueues(t) == Count(queue_tasks, t) + Count(queue_tasks_deferred, t)
Pending(t)  == InQueues(t) + (IF current = t THEN 1 ELSE 0)
Places(r)   == Pending(Completion(r)) + (IF r \in work THEN 1 ELSE 0)

\* The inductive invariant.  NoTaskLost leaves out that a task has no copy
\* before it is posted, and that only a client that has left is cancelled.
TaskInv(r) ==
    /\ Places(r) <= 1
    /\ pc[r] \in {"arrive", "sleepwait", "parse"} => Places(r) = 0 /\ result[r] = "none"
    /\ pc[r] = "posted" /\ result[r] = "none" => Places(r) = 1
    /\ result[r] # "none" => Places(r) = 0
    /\ pc[r] # "end" => Pending(Cancel(r)) = 0

LostInv ==
    /\ mainPc # "callback" => current = NoTask
    /\ \A r \in Requests : TaskInv(r)

LEMMA TaskNames ==
    /\ \A r, s : Completion(r) = Completion(s) <=> r = s
    /\ \A r, s : Cancel(r) = Cancel(s) <=> r = s
    /\ \A r, s : Completion(r) # Cancel(s)
    /\ \A r : Completion(r) # NoTask /\ Cancel(r) # NoTask
    /\ \A t \in Task : t.type = "COMPLETION" => t = Completion(t.id)
    /\ \A t \in Task : t.type = "CANCEL" => t = Cancel(t.id)
    /\ \A t \in Task : t.type = "NEXT_RESPONSE" => t = NoTask
BY DEF Completion, Cancel, NextResponse, NoTask, Task

LEMMA PendingIsNat ==
    ASSUME Typed, NEW t
    PROVE  InQueues(t) \in Nat /\ Pending(t) \in Nat
BY CountIsNat DEF Typed, TypeOK, InQueues, Pending

LEMMA PostCounts ==
    ASSUME Typed, NEW u \in Task, Post(u), NEW t
    PROVE  InQueues(t)' = InQueues(t) + (IF u = t THEN 1 ELSE 0)
<1>1. Count(Append(queue_tasks, u), t) = Count(queue_tasks, t) + (IF u = t THEN 1 ELSE 0)
  BY CountAppend DEF Typed, TypeOK
<1>2. Count(queue_tasks, t) \in Nat /\ Count(queue_tasks_deferred, t) \in Nat
  BY CountIsNat DEF Typed, TypeOK
<1>3. QED BY <1>1, <1>2 DEF Post, InQueues

LEMMA DeferCounts ==
    ASSUME Typed, NEW u \in Task, Defer(u), NEW t
    PROVE  InQueues(t)' = InQueues(t) + (IF u = t THEN 1 ELSE 0)
<1>1. Count(Append(queue_tasks_deferred, u), t)
        = Count(queue_tasks_deferred, t) + (IF u = t THEN 1 ELSE 0)
  BY CountAppend DEF Typed, TypeOK
<1>2. Count(queue_tasks, t) \in Nat /\ Count(queue_tasks_deferred, t) \in Nat
  BY CountIsNat DEF Typed, TypeOK
<1>3. QED BY <1>1, <1>2 DEF Defer, InQueues

LEMMA PopDeferredCounts ==
    ASSUME Typed, PopDeferredTask, NEW t
    PROVE  InQueues(t)' = InQueues(t)
<1>1. CASE queue_tasks_deferred = <<>>
  BY <1>1 DEF PopDeferredTask, queueVars, InQueues
<1>2. CASE queue_tasks_deferred # <<>>
  <2> DEFINE x == Head(queue_tasks_deferred)
             q == Tail(queue_tasks_deferred)
  <2>1. /\ x \in Task /\ q \in Seq(Task)
        /\ Count(queue_tasks_deferred, t) = Count(q, t) + (IF x = t THEN 1 ELSE 0)
    BY <1>2, CountTail DEF Typed, TypeOK
  <2>2. queue_tasks' = <<x>> \o queue_tasks /\ queue_tasks_deferred' = q
    BY <1>2 DEF PopDeferredTask
  <2> HIDE DEF x, q
  <2>3. Count(<<x>> \o queue_tasks, t) = Count(queue_tasks, t) + (IF x = t THEN 1 ELSE 0)
    BY <2>1, CountCons DEF Typed, TypeOK
  <2>4. Count(queue_tasks, t) \in Nat /\ Count(q, t) \in Nat
    BY <2>1, CountIsNat DEF Typed, TypeOK
  <2>5. QED BY <2>1, <2>2, <2>3, <2>4 DEF InQueues
<1>3. QED BY <1>1, <1>2

LEMMA PostCancelCounts ==
    ASSUME Typed, NEW r \in Requests, PostCancel(r), NEW t
    PROVE  /\ InQueues(t)' <= InQueues(t) + (IF Cancel(r) = t THEN 1 ELSE 0)
           /\ t # Completion(r) /\ t # Cancel(r) => InQueues(t)' = InQueues(t)
<1> DEFINE a == CleanupPendingTask(queue_tasks, r)
           b == CleanupPendingTask(queue_tasks_deferred, r)
<1>1. /\ a \in Seq(Task) /\ b \in Seq(Task)
      /\ Count(a, t) = IF Completion(r) = t /\ Count(queue_tasks, t) > 0
                       THEN Count(queue_tasks, t) - 1 ELSE Count(queue_tasks, t)
      /\ Count(b, t) = IF Completion(r) = t /\ Count(queue_tasks_deferred, t) > 0
                       THEN Count(queue_tasks_deferred, t) - 1
                       ELSE Count(queue_tasks_deferred, t)
  BY CountRemoveFirst DEF CleanupPendingTask, Typed, TypeOK
<1>2. queue_tasks' = <<Cancel(r)>> \o a /\ queue_tasks_deferred' = b
  BY DEF PostCancel
<1> HIDE DEF a, b
<1>3. Count(<<Cancel(r)>> \o a, t) = Count(a, t) + (IF Cancel(r) = t THEN 1 ELSE 0)
  BY <1>1, CountCons, TaskTypes
<1>4. Count(queue_tasks, t) \in Nat /\ Count(queue_tasks_deferred, t) \in Nat
  BY CountIsNat DEF Typed, TypeOK
<1>5. InQueues(t)' = Count(a, t) + (IF Cancel(r) = t THEN 1 ELSE 0) + Count(b, t)
  BY <1>2, <1>3 DEF InQueues
<1>6. QED BY <1>1, <1>4, <1>5 DEF InQueues

\* What a step may do to a request it is not about.
Untouched(r) ==
    /\ Pending(Completion(r))' = Pending(Completion(r))
    /\ Pending(Cancel(r))' = Pending(Cancel(r))
    /\ r \in work' <=> r \in work
    /\ result'[r] = result[r]
    /\ pc'[r] = pc[r]

LEMMA UntouchedKeeps ==
    ASSUME NEW r \in Requests, TaskInv(r), Untouched(r)
    PROVE  TaskInv(r)'
BY DEF TaskInv, Untouched, Places

LEMMA LostInvInit == Init => LostInv
<1> SUFFICES ASSUME Init, NEW r \in Requests PROVE LostInv
  BY DEF Init, LostInv
<1>1. \A t : Count(<<>>, t) = 0
  <2>1. \A t : At(<<>>, t) = {}
    BY DEF At
  <2>2. QED BY <2>1, FS_EmptySet DEF Count
<1>2. \A t : InQueues(t) = 0
  BY <1>1 DEF Init, InQueues
<1>3. QED BY <1>2, TaskNames DEF Init, LostInv, TaskInv, Places, Pending

\* The steps that move no task.
LEMMA StillStep ==
    ASSUME LostInv, UNCHANGED <<queueVars, current, slotVars, pc>>, mainPc # "callback",
           mainPc' # "callback"
    PROVE  LostInv'
BY DEF LostInv, TaskInv, Places, Pending, InQueues, queueVars, slotVars

LEMMA LostInvMain ==
    ASSUME Typed, LostInv, MainStep
    PROVE  LostInv'
<1> USE DEF LostInv
<1>t. \A t : Pending(t) \in Nat /\ InQueues(t) \in Nat
  BY PendingIsNat
<1>1. CASE StartLoop \/ Stop \/ EndUpdate \/ TouchTime \/ GoOn \/ WaitForTasks
            \/ WakeForTasks \/ EnterSleep \/ FallAsleep \/ WakeUp \/ ExitSleep
  BY <1>1, StillStep DEF StartLoop, Stop, EndUpdate, TouchTime, GoOn, WaitForTasks,
     WakeForTasks, EnterSleep, FallAsleep, WakeUp, ExitSleep
<1>2. CASE PopTask
  <2>1. CASE queue_tasks = <<>>
    BY <1>2, <2>1 DEF PopTask, TaskInv, Places, Pending, InQueues, slotVars
  <2>2. CASE queue_tasks # <<>>
    <3>1. ASSUME NEW t, t # NoTask PROVE Pending(t)' = Pending(t)
      <4>1. Count(queue_tasks, t) = Count(Tail(queue_tasks), t)
                                      + (IF Head(queue_tasks) = t THEN 1 ELSE 0)
            /\ Tail(queue_tasks) \in Seq(Task)
        BY <2>2, CountTail DEF Typed, TypeOK
      <4>2. /\ Count(Tail(queue_tasks), t) \in Nat
            /\ Count(queue_tasks_deferred, t) \in Nat
        BY <4>1, CountIsNat DEF Typed, TypeOK
      <4>3. /\ current # t
            /\ current' = Head(queue_tasks) /\ queue_tasks' = Tail(queue_tasks)
            /\ queue_tasks_deferred' = queue_tasks_deferred
        BY <1>2, <2>2, <3>1 DEF PopTask
      <4>4. /\ Pending(t) = Count(queue_tasks, t) + Count(queue_tasks_deferred, t)
            /\ Pending(t)' = Count(Tail(queue_tasks), t) + Count(queue_tasks_deferred, t)
                               + (IF Head(queue_tasks) = t THEN 1 ELSE 0)
        BY <4>2, <4>3, <1>t DEF Pending, InQueues
      <4>5. QED BY <4>1, <4>2, <4>4
    <3>2. \A r \in Requests : Untouched(r)
      BY <1>2, <3>1, TaskNames DEF PopTask, Untouched, slotVars
    <3>3. QED BY <1>2, <2>2, <3>2, UntouchedKeeps DEF PopTask
  <2>3. QED BY <2>1, <2>2
<1>3. CASE Launch
  <2>1. PICK r \in Requests : current = Completion(r) /\ r = current.id
    BY <1>3, TaskTypes, TaskNames DEF Launch, InCallback, Typed, TypeOK
  <2>2. \A t : InQueues(t)' = InQueues(t)
    BY <1>3 DEF Launch, InQueues, queueVars
  <2>3. r \notin work
    BY <2>1, <1>t DEF TaskInv, Places, Pending
  <2>4. Places(r)' = Places(r) /\ Pending(Cancel(r))' = Pending(Cancel(r))
    BY <1>3, <1>t, <2>1, <2>2, <2>3, TaskNames DEF Launch, InCallback, Places, Pending
  <2>5. \A s \in Requests \ {r} : Untouched(s)
    BY <1>3, <2>1, <2>2, TaskNames DEF Launch, InCallback, Pending, Untouched
  <2>6. TaskInv(r)'
    BY <1>3, <2>4 DEF Launch, TaskInv
  <2>7. QED BY <1>3, <2>5, <2>6, UntouchedKeeps DEF Launch, InCallback
<1>4. CASE Refuse
  <2>1. PICK r \in Requests : current = Completion(r) /\ r = current.id
    BY <1>4, TaskTypes, TaskNames DEF Refuse, InCallback, Typed, TypeOK
  <2>2. \A t : InQueues(t)' = InQueues(t)
    BY <1>4 DEF Refuse, InQueues, queueVars
  <2>3. /\ Places(r) = 1 /\ Places(r)' = 0
        /\ Pending(Cancel(r))' = Pending(Cancel(r))
    BY <1>4, <1>t, <2>1, <2>2, TaskNames DEF Refuse, InCallback, Places, Pending, TaskInv
  <2>4. result' = [result EXCEPT ![r] = "error"] /\ result \in [Requests -> {"none", "ok", "error"}]
    BY <1>4, <2>1 DEF Refuse, Typed, TypeOK
  <2>5. \A s \in Requests \ {r} : Untouched(s)
    BY <1>4, <2>1, <2>2, <2>4, TaskNames DEF Refuse, InCallback, Pending, Untouched
  <2>6. TaskInv(r)'
    BY <1>4, <2>3, <2>4 DEF Refuse, TaskInv
  <2>7. QED BY <1>4, <2>5, <2>6, UntouchedKeeps DEF Refuse, InCallback
<1>5. CASE DeferTask
  <2>1. \A t : t # NoTask => Pending(t)' = Pending(t)
    BY <1>5, <1>t, DeferCounts DEF DeferTask, InCallback, Pending, Typed, TypeOK
  <2>2. \A r \in Requests : Untouched(r)
    BY <1>5, <2>1, TaskNames DEF DeferTask, Untouched, slotVars
  <2>3. QED BY <1>5, <2>2, UntouchedKeeps DEF DeferTask, InCallback
<1>6. CASE CancelSlot
  <2>1. PICK r \in Requests : current = Cancel(r) /\ r = current.id
    BY <1>6, TaskTypes, TaskNames DEF CancelSlot, InCallback, Typed, TypeOK
  <2>2. \A t : InQueues(t)' = InQueues(t)
    BY <1>6, PopDeferredCounts DEF CancelSlot, InQueues, queueVars
  <2>3. /\ Places(r)' <= Places(r) /\ Places(r)' \in Nat
        /\ Pending(Cancel(r)) # 0
    BY <1>6, <1>t, <2>1, <2>2, TaskNames DEF CancelSlot, InCallback, Places, Pending
  <2>4. pc[r] = "end"
    BY <2>3 DEF TaskInv
  <2>5. TaskInv(r)'
    BY <1>6, <1>t, <2>3, <2>4 DEF CancelSlot, TaskInv, Places
  <2>6. \A s \in Requests \ {r} : Untouched(s)
    BY <1>6, <2>1, <2>2, TaskNames DEF CancelSlot, InCallback, Pending, Untouched
  <2>7. QED BY <1>6, <2>5, <2>6, UntouchedKeeps DEF CancelSlot, InCallback
<1>7. CASE IgnoreNextResponse
  <2>1. current = NoTask
    BY <1>7, TaskNames DEF IgnoreNextResponse, InCallback, Typed, TypeOK
  <2>2. \A r \in Requests : Untouched(r)
    BY <1>7, <2>1 DEF IgnoreNextResponse, InCallback, Untouched, Pending, InQueues, queueVars, slotVars
  <2>3. QED BY <1>7, <2>2, UntouchedKeeps DEF IgnoreNextResponse, InCallback
<1>8. CASE BeginUpdate
  <2>1. \A t : t # NoTask => InQueues(t)' = InQueues(t)
    BY <1>8, <1>t, PostCounts, TaskTypes DEF BeginUpdate, NoTask, InQueues, queueVars
  <2>2. \A r \in Requests : Untouched(r)
    BY <1>8, <2>1, TaskNames DEF BeginUpdate, Untouched, Pending, slotVars
  <2>3. QED BY <1>8, <2>2, UntouchedKeeps DEF BeginUpdate
<1>9. QED
  BY <1>1, <1>2, <1>3, <1>4, <1>5, <1>6, <1>7, <1>8 DEF MainStep

LEMMA LostInvStep == Typed /\ LostInv /\ [Next]_vars => LostInv'
<1> SUFFICES ASSUME Typed, LostInv, [Next]_vars PROVE LostInv'
  OBVIOUS
<1>t. \A t : Pending(t) \in Nat /\ InQueues(t) \in Nat
  BY PendingIsNat
<1>s. ASSUME UNCHANGED <<queueVars, current, slotVars, pc>>,
             mainPc # "callback" \/ mainPc' = mainPc
      PROVE  LostInv'
  <2>1. \A r \in Requests : TaskInv(r)'
    BY <1>s DEF LostInv, TaskInv, Places, Pending, InQueues, queueVars, slotVars
  <2>2. mainPc' # "callback" => current' = NoTask
    BY <1>s DEF LostInv
  <2>3. QED BY <2>1, <2>2 DEF LostInv
<1>n. \A t : InQueues(t)' \in Nat
  <2>1. queue_tasks' \in Seq(Task) /\ queue_tasks_deferred' \in Seq(Task)
    BY TypedStep DEF Typed, TypeOK
  <2>2. \A t : Count(queue_tasks', t) \in Nat /\ Count(queue_tasks_deferred', t) \in Nat
    BY <2>1, CountIsNat
  <2>3. QED BY <2>2 DEF InQueues
<1>1. CASE MainStep
  BY <1>1, LostInvMain
<1>2. CASE WaitTimeout
  BY <1>2, <1>s DEF WaitTimeout
<1>3. CASE Terminate \/ TerminateOnMain \/ Tick
  BY <1>3, <1>s DEF Terminate, TerminateOnMain, Tick
<1>4. ASSUME NEW t \in Requests \cup {Main}, SpuriousWake(t) PROVE LostInv'
  BY <1>4, <1>s DEF SpuriousWake
<1>5. ASSUME NEW r \in Requests, Finish(r) PROVE LostInv'
  <2>1. \A t : InQueues(t)' = InQueues(t)
    BY <1>5, PopDeferredCounts DEF Finish
  <2>2. Places(r)' = Places(r) - 1 /\ Places(r) \in Nat
    BY <1>5, <1>t, <2>1 DEF Finish, Places, Pending
  <2>3. result' = [result EXCEPT ![r] = "ok"] /\ result \in [Requests -> {"none", "ok", "error"}]
    BY <1>5 DEF Finish, Typed, TypeOK
  <2>4. TaskInv(r)'
    BY <1>5, <1>t, <2>1, <2>2, <2>3 DEF Finish, LostInv, TaskInv, Places, Pending
  <2>5. \A s \in Requests \ {r} : Untouched(s)
    BY <1>5, <2>1, <2>3 DEF Finish, Untouched, Pending
  <2>6. QED BY <1>5, <2>4, <2>5, UntouchedKeeps DEF Finish, LostInv
<1>6. ASSUME NEW r \in Requests, Arrive(r) \/ WaiterWakes(r) \/ Receive(r)
      PROVE  LostInv'
  <2>1. \A t : Pending(t)' = Pending(t)
    BY <1>6 DEF Arrive, WaiterWakes, Receive, Pending, InQueues, queueVars
  <2>2. \A s \in Requests : Places(s)' = Places(s) /\ result'[s] = result[s]
    BY <1>6, <2>1 DEF Arrive, WaiterWakes, Receive, Places, slotVars
  <2>3. pc \in [Requests -> RequestPc]
    BY DEF Typed, TypeOK
  <2>4. ASSUME NEW s \in Requests PROVE TaskInv(s)'
    BY <1>6, <2>1, <2>2, <2>3 DEF Arrive, WaiterWakes, Receive, LostInv, TaskInv
  <2>5. QED BY <1>6, <2>4 DEF Arrive, WaiterWakes, Receive, LostInv
<1>7. ASSUME NEW r \in Requests, PostTask(r) PROVE LostInv'
  <2>1. \A t : InQueues(t)' = InQueues(t) + (IF Completion(r) = t THEN 1 ELSE 0)
    BY <1>7, PostCounts, TaskTypes DEF PostTask
  <2>2. pc' = [pc EXCEPT ![r] = "posted"] /\ pc \in [Requests -> RequestPc]
    BY <1>7 DEF PostTask, Typed, TypeOK
  <2>3. /\ Places(r)' = Places(r) + 1 /\ Places(r) \in Nat
        /\ Pending(Cancel(r))' = Pending(Cancel(r))
    BY <1>7, <1>t, <2>1, TaskNames DEF PostTask, Places, Pending, slotVars
  <2>4. TaskInv(r)'
    BY <1>7, <2>2, <2>3 DEF PostTask, LostInv, TaskInv, slotVars
  <2>5. \A s \in Requests \ {r} : Untouched(s)
    BY <1>7, <1>t, <2>1, <2>2, TaskNames DEF PostTask, Untouched, Pending, slotVars
  <2>6. QED BY <1>7, <2>4, <2>5, UntouchedKeeps DEF PostTask, LostInv
<1>8. ASSUME NEW r \in Requests, ReceiveError(r) \/ Disconnect(r) PROVE LostInv'
  <2>1. /\ pc' = [pc EXCEPT ![r] = "end"] /\ pc \in [Requests -> RequestPc]
        /\ PostCancel(r) /\ UNCHANGED <<mainPc, current, work, result>>
    BY <1>8 DEF ReceiveError, Disconnect, Typed, TypeOK, slotVars
  <2>2. /\ \A t : InQueues(t)' <= InQueues(t) + (IF Cancel(r) = t THEN 1 ELSE 0)
        /\ \A t : t # Completion(r) /\ t # Cancel(r) => InQueues(t)' = InQueues(t)
    BY <2>1, PostCancelCounts
  <2>3. Places(r)' <= Places(r) /\ Places(r) \in Nat
    BY <1>t, <1>n, <2>1, <2>2, TaskNames DEF Places, Pending
  <2>4. TaskInv(r)'
    <3>1. Places(r)' \in Nat
      BY <1>n DEF Places, Pending
    <3>2. QED BY <2>1, <2>3, <3>1 DEF LostInv, TaskInv, Places, Pending
  <2>5. \A s \in Requests \ {r} : Untouched(s)
    BY <1>t, <2>1, <2>2, TaskNames DEF Untouched, Pending
  <2>6. QED BY <2>1, <2>4, <2>5, UntouchedKeeps DEF LostInv
<1>9. CASE UNCHANGED vars
  BY <1>9, <1>s DEF vars, queueVars, slotVars
<1>10. QED
  BY <1>1, <1>2, <1>3, <1>4, <1>5, <1>6, <1>7, <1>8, <1>9 DEF Next, RequestStep

\* Wherever a task is, it is there once: it is neither lost nor run twice,
\* whichever client leaves and whatever is deferred meanwhile.
THEOREM NoTaskLostHolds == Spec => []NoTaskLost
<1>1. Spec => []Typed
  BY TypedInit, TypedStep, PTL DEF Spec
<1>2. Spec => []LostInv
  BY <1>1, LostInvInit, LostInvStep, PTL DEF Spec
<1>3. LostInv => NoTaskLost
  <2>1. \A r : Copies(r) = Places(r)
    BY DEF Copies, Places, Pending, InQueues, Count, At
  <2>2. QED BY <2>1 DEF LostInv, TaskInv, NoTaskLost
<1>4. QED BY <1>2, <1>3, PTL
=============================================================================
