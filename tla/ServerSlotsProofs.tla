------------------------- MODULE ServerSlotsProofs -------------------------
(***************************************************************************)
(* For any number of requests, tasks and slots and any shape of request:   *)
(* nothing is queued for a reader that has left, every task is in one      *)
(* place until it is answered once, the slots and readers implement        *)
(* TaskService, a release brings back the task that waits for the slot,    *)
(* and of ordinary requests none waits for what cannot come.               *)
(*                                                                         *)
(* The first follows from ReaderInv alone: a reader whose ids are awaited  *)
(* has not left, because stop() removes the ids before it does anything    *)
(* else, and send() queues a result only for an id that is awaited.  The   *)
(* others rest on IInv, the inductive invariant of where a task is, and    *)
(* the last on StrandInv too: what each slot and deferred task waits for.  *)
(***************************************************************************)
EXTENDS ServerSlots, QueueLemmas, TLAPS

Awaited == {"registered", "waiting", "stop"}

\* What the threads have of each reader: a result queue and a position.
ReaderTypes ==
    /\ results = [r \in Requests |-> results[r]]
    /\ rpc \in [Requests -> {"new", "registered", "waiting", "stop", "purge",
                             "cancel", "done"}]

ReaderInv ==
    /\ ReaderTypes
    /\ \A r \in Requests : r \in waiting => rpc[r] \in Awaited

\* What the main thread does to a reader: nothing, or send().
MainTouches ==
    /\ UNCHANGED <<waiting, rpc>>
    /\ \/ UNCHANGED results
       \/ \E t, type : Send(t, type)

Left(r) == rpc[r] \in {"purge", "cancel", "done"}

LEMMA InitReaderInv == Init => ReaderInv
BY DEF Init, ReaderInv, ReaderTypes

\* send() leaves the results of every reader but an awaited one alone.
LEMMA SendSparesOthers ==
    ASSUME ReaderInv, NEW t, NEW type, Send(t, type), UNCHANGED <<waiting, rpc>>
    PROVE  /\ ReaderInv'
           /\ \A r \in Requests : Left(r) => results'[r] = results[r]
<1>1. CASE t[1] \in waiting
  <2>1. results' = [results EXCEPT
                       ![t[1]] = Append(@, [index |-> t[2], type |-> type])]
    BY <1>1 DEF Send
  <2>2. \A r \in Requests : Left(r) => r # t[1]
    BY <1>1 DEF ReaderInv, Awaited, Left
  <2>3. QED BY <2>1, <2>2 DEF ReaderInv, ReaderTypes, Awaited
<1>2. CASE t[1] \notin waiting
  <2>1. UNCHANGED results
    BY <1>2 DEF Send
  <2>2. QED BY <2>1 DEF ReaderInv, ReaderTypes, Awaited
<1>3. QED BY <1>1, <1>2

LEMMA MainKeepsInv ==
    ASSUME ReaderInv, MainTouches
    PROVE  /\ ReaderInv'
           /\ \A r \in Requests : Left(r) => results'[r] = results[r]
<1>1. CASE UNCHANGED results
  BY <1>1 DEF ReaderInv, ReaderTypes, MainTouches, Awaited
<1>2. CASE \E t, type : Send(t, type)
  BY <1>2, SendSparesOthers DEF MainTouches
<1>3. QED BY <1>1, <1>2 DEF MainTouches

LEMMA SlotStepTouches ==
    ASSUME NEW s \in SlotIds, SlotStep(s)
    PROVE  MainTouches
<1>1. CASE EmptyPrompt(s)
  BY <1>1 DEF EmptyPrompt, SendAndRelease, readerVars, MainTouches
<1>2. CASE RefusePrompt(s)
  BY <1>2 DEF RefusePrompt, SendAndRelease, readerVars, MainTouches
<1>3. CASE SkipPrompt(s)
  BY <1>3 DEF SkipPrompt, sendVars, readerVars, MainTouches
<1>4. CASE AddPrompt(s)
  BY <1>4 DEF AddPrompt, sendVars, readerVars, MainTouches
<1>5. CASE SampleFinal(s)
  BY <1>5 DEF SampleFinal, SendAndRelease, readerVars, MainTouches
<1>6. CASE SamplePartial(s)
  BY <1>6 DEF SamplePartial, readerVars, MainTouches
<1>7. CASE FailSlot(s)
  BY <1>7 DEF FailSlot, SendAndRelease, readerVars, MainTouches
<1>8. QED
  BY <1>1, <1>2, <1>3, <1>4, <1>5, <1>6, <1>7 DEF SlotStep

LEMMA MainStepTouches ==
    ASSUME MainStep
    PROVE  MainTouches
<1>1. CASE PopTask
  BY <1>1 DEF PopTask, sendVars, readerVars, MainTouches
<1>2. CASE WaitForTasks
  BY <1>2 DEF WaitForTasks, sendVars, readerVars, MainTouches
<1>3. CASE Launch
  BY <1>3 DEF Launch, sendVars, readerVars, MainTouches
<1>4. CASE Refuse
  BY <1>4 DEF Refuse, readerVars, MainTouches
<1>5. CASE DeferTask
  BY <1>5 DEF DeferTask, sendVars, readerVars, MainTouches
<1>6. CASE SlotAction
  BY <1>6 DEF SlotAction, sendVars, readerVars, MainTouches
<1>7. CASE Metrics
  BY <1>7 DEF Metrics, readerVars, MainTouches
<1>8. CASE CancelTask
  BY <1>8 DEF CancelTask, sendVars, readerVars, MainTouches
<1>9. CASE IgnoreNextResponse
  BY <1>9 DEF IgnoreNextResponse, sendVars, readerVars, MainTouches
<1>10. CASE BeginUpdate
  BY <1>10 DEF BeginUpdate, sendVars, readerVars, MainTouches
<1>11. CASE EndPrompts
  BY <1>11 DEF EndPrompts, sendVars, readerVars, MainTouches
<1>12. CASE DecodeNothing
  BY <1>12 DEF DecodeNothing, sendVars, readerVars, MainTouches
<1>13. CASE Decode
  BY <1>13 DEF Decode, sendVars, readerVars, MainTouches
<1>14. CASE DecodeFails
  BY <1>14 DEF DecodeFails, sendVars, readerVars, MainTouches
<1>15. CASE ReleaseSlot
  BY <1>15 DEF ReleaseSlot, sendVars, readerVars, MainTouches
<1>16. CASE EndUpdate
  BY <1>16 DEF EndUpdate, sendVars, readerVars, MainTouches
<1>17. CASE \E s \in SlotIds : SlotStep(s)
  BY <1>17, SlotStepTouches
<1>18. QED
  BY <1>1, <1>2, <1>3, <1>4, <1>5, <1>6, <1>7, <1>8, <1>9, <1>10, <1>11,
     <1>12, <1>13, <1>14, <1>15, <1>16, <1>17 DEF MainStep

LEMMA ReaderKeepsInv ==
    ASSUME ReaderInv, NEW q \in Requests, ReaderStep(q) \/ Disconnect(q)
    PROVE  /\ ReaderInv'
           /\ \A r \in Requests : Left(r) => results'[r] \in {results[r], <<>>}
<1> USE DEF ReaderInv, ReaderTypes, Awaited, Left
<1>1. CASE Register(q)
  BY <1>1 DEF Register, sendVars
<1>2. CASE PostTasks(q)
  BY <1>2 DEF PostTasks, sendVars
<1>3. CASE Receive(q)
  BY <1>3 DEF Receive
<1>4. CASE Unregister(q)
  BY <1>4 DEF Unregister, sendVars
<1>5. CASE Purge(q)
  BY <1>5 DEF Purge
<1>6. CASE PostCancels(q)
  BY <1>6 DEF PostCancels, sendVars
<1>7. CASE Disconnect(q)
  BY <1>7 DEF Disconnect, sendVars
<1>8. QED
  BY <1>1, <1>2, <1>3, <1>4, <1>5, <1>6, <1>7 DEF ReaderStep

LEMMA NextKeepsInv ==
    ASSUME ReaderInv, [Next]_vars
    PROVE  /\ ReaderInv'
           /\ \A r \in Requests : Left(r) => results'[r] \in {results[r], <<>>}
<1>1. CASE MainStep
  BY <1>1, MainStepTouches, MainKeepsInv
<1>2. CASE \E r \in Requests : ReaderStep(r) \/ (Alive /\ Disconnect(r))
  BY <1>2, ReaderKeepsInv
<1>3. CASE UNCHANGED vars
  BY <1>3 DEF vars, ReaderInv, ReaderTypes, Awaited
<1>4. QED BY <1>1, <1>2, <1>3 DEF Next

\* remove_waiting_task_ids comes first in stop(): whatever the main thread is
\* doing, no result is queued for a reader that has left.
THEOREM NoResultAfterLeavingHolds == Spec => NoResultAfterLeaving
<1>1. Init => ReaderInv
  BY InitReaderInv
<1>2. ReaderInv /\ [Next]_vars => ReaderInv'
  BY NextKeepsInv
<1>3. ReaderInv /\ [Next]_vars =>
          [\A r \in Requests :
              rpc[r] \in {"purge", "cancel", "done"} =>
                  results'[r] \in {results[r], <<>>}]_vars
  BY NextKeepsInv DEF Left
<1>4. QED
  BY <1>1, <1>2, <1>3, PTL DEF Spec, NoResultAfterLeaving

-----------------------------------------------------------------------------
(* Tasks and their results.                                                *)

\* A task, or the parent it travels with while it is queued.
Top(t)     == IF IsChild(t) THEN <<t[1], Info(t).parent>> ELSE t
HasSlot(t) == \E s \in SlotIds : slots[s].task = t
Posted(r)  == rpc[r] \notin {"new", "registered"}

\* How often a task is queued or on a slot, if no two slots have it.
Held(t) == Queued(Top(t)) + (IF HasSlot(t) THEN 1 ELSE 0)

TaskItems   == {Item("TASK", t) : t \in {u \in Tasks : ~IsChild(u) /\ Posted(u[1])}}
CancelItems == {Item("CANCEL", t) : t \in {u \in Tasks : rpc[u[1]] = "done"}}
Items       == TaskItems \cup CancelItems \cup {NextResponse}

\* The task of the slot that is about to be released is answered.
Control ==
    /\ mainPc # "process" => current = NextResponse
    /\ mainPc # "aborted" => n_empty_consecutive <= 3
    /\ mainPc = "release" => /\ at \in SlotIds /\ ~IsIdle(at) /\ loop # "none"
                             /\ sent[slots[at].task] # <<>>

Readers == \A r \in Requests :
    /\ rpc[r] = "new" <=> req[r] = <<>>
    /\ rpc[r] = "new" => received_count[r] = 0
    /\ rpc[r] \in {"registered", "waiting"} => received_count[r] < Len(req[r])
    /\ r \in waiting => rpc[r] \in Awaited

\* Only parents and tasks without a parent are queued, once they are posted.
QueuesOk ==
    /\ queue_tasks \in Seq(Items) /\ queue_tasks_deferred \in Seq(TaskItems)
    /\ current \in Items

SlotsOk ==
    /\ \A s \in SlotIds : slots[s].task # NoTask =>
           slots[s].task \in Tasks /\ Posted(slots[s].task[1])
    /\ \A s, x \in SlotIds : slots[s].task = slots[x].task /\ s # x => IsIdle(s)

AnswersOk == \A t \in TaskIds :
    /\ Len(sent[t]) <= 1
    /\ sent[t] # <<>> => t \in Tasks /\ Posted(t[1])

\* An answered task is gone, but for the slot that is about to be released.
PlacesOk == \A t \in Tasks :
    /\ Held(t) <= 1
    /\ sent[t] # <<>> /\ Held(t) # 0 => mainPc = "release" /\ slots[at].task = t
    /\ rpc[t[1]] = "waiting" /\ sent[t] = <<>> /\ ~Failed(t[1]) => Held(t) = 1

\* A reader gets the partial results of a task before its answer, and nothing
\* of a task whose final result it has seen.
ResultsOk(r) ==
    /\ \A k \in DOMAIN results[r] :
           /\ results[r][k].index \in DOMAIN req[r]
           /\ results[r][k].index \notin seen[r]
           /\ results[r][k].type # "partial" => sent[<<r, results[r][k].index>>] # <<>>
    /\ \A j, k \in DOMAIN results[r] :
           j < k /\ results[r][j].index = results[r][k].index
               => results[r][j].type = "partial"
    /\ seen[r] \subseteq DOMAIN req[r]
    /\ \A i \in seen[r] : sent[<<r, i>>] # <<>>
    /\ results[r] # <<>> => rpc[r] \in {"registered", "waiting", "stop", "purge"}
    /\ received_count[r] = Cardinality(seen[r])

IInv ==
    /\ TypeOK /\ Control /\ Readers /\ QueuesOk /\ SlotsOk /\ AnswersOk /\ PlacesOk
    /\ \A r \in Requests : ResultsOk(r)

-----------------------------------------------------------------------------
(* Tasks, parents and children.                                            *)

LEMMA ShapeIs ==
    ASSUME NEW q \in Shapes
    PROVE  /\ DOMAIN q = 1 .. Len(q) /\ Len(q) \in 1 .. MaxTasks
           /\ \A i \in DOMAIN q :
                 /\ q[i] \in TaskInfo(NCtx + 1)
                 /\ q[i].parent = 0 =>
                        \E n \in 0 .. NSlots - 1 :
                            {j \in DOMAIN q : q[j].parent = i} = i + 1 .. i + n
                 /\ q[i].parent # 0 =>
                        /\ q[i].kind = "COMPLETION"
                        /\ q[i].parent \in DOMAIN q /\ q[i].parent < i
                        /\ q[q[i].parent].parent = 0
                        /\ q[i] = [q[q[i].parent] EXCEPT
                                      !.parent = q[i].parent, !.id_slot = -1]
<1>1. q \in Seq(TaskInfo(NCtx + 1)) /\ Len(q) \in 1 .. MaxTasks
  BY ShapesAssumption
<1>2. DOMAIN q = 1 .. Len(q) /\ \A i \in DOMAIN q : q[i] \in TaskInfo(NCtx + 1)
  BY <1>1, LenProperties, ElementOfSeq
<1>3. ASSUME NEW i \in DOMAIN q, q[i].parent # 0
      PROVE  q[i].parent \in DOMAIN q
  <2>1. q[i].parent < i /\ q[i].parent \in 0 .. MaxTasks
    BY <1>2, <1>3, ShapesAssumption DEF TaskInfo
  <2>2. QED BY <1>1, <1>2, <1>3, <2>1, BoundsAssumption
<1>4. QED BY <1>1, <1>2, <1>3, ShapesAssumption, Zenon

LEMMA TaskIs ==
    ASSUME TypeOK, NEW t \in Tasks
    PROVE  /\ t \in TaskIds /\ t = <<t[1], t[2]>> /\ t # NoTask
           /\ t[1] \in Requests /\ t[2] \in 1 .. MaxTasks
           /\ req[t[1]] \in Shapes /\ t[2] \in DOMAIN req[t[1]]
           /\ Info(t) \in TaskInfo(NCtx + 1) /\ t \in Ids(t[1])
<1>1. /\ t \in TaskIds /\ t = <<t[1], t[2]>> /\ t[1] \in Requests /\ t[2] \in 1 .. MaxTasks
      /\ t[2] \in DOMAIN req[t[1]]
  BY DEF Tasks, TaskIds
<1>2. t # NoTask
  <2>1. \A a, b : <<a, b>> # <<>>
    OBVIOUS
  <2>2. QED BY <1>1, <2>1, Zenon DEF NoTask
<1>3. req[t[1]] \in Shapes
  BY <1>1 DEF TypeOK
<1>4. Info(t) \in TaskInfo(NCtx + 1)
  BY <1>1, <1>3, ShapeIs DEF Info
<1>5. t \in Ids(t[1])
  BY <1>1 DEF Ids
<1>6. QED BY <1>1, <1>2, <1>3, <1>4, <1>5

LEMMA TaskOf_ ==
    ASSUME TypeOK, NEW r \in Requests, NEW i \in DOMAIN req[r]
    PROVE  /\ <<r, i>> \in Tasks /\ <<r, i>> \in TaskIds /\ i \in 1 .. MaxTasks
           /\ req[r] \in Shapes
<1>1. req[r] \in Shapes \cup {<<>>}
  BY DEF TypeOK
<1>2. req[r] # <<>>
  OBVIOUS
<1>3. i \in 1 .. MaxTasks
  <2>1. req[r] \in Shapes
    BY <1>1, <1>2
  <2>2. DOMAIN req[r] = 1 .. Len(req[r]) /\ Len(req[r]) \in 1 .. MaxTasks
    BY <2>1, ShapeIs
  <2>3. QED BY <2>2, BoundsAssumption
<1>4. QED BY <1>1, <1>2, <1>3 DEF Tasks, TaskIds

LEMMA TopIs ==
    ASSUME TypeOK, NEW t \in Tasks
    PROVE  /\ Top(t) \in Tasks /\ ~IsChild(Top(t)) /\ Top(t)[1] = t[1]
           /\ ~IsChild(t) => Top(t) = t
<1>1. CASE IsChild(t)
  <2> DEFINE p == Info(t).parent
  <2>1. p \in DOMAIN req[t[1]] /\ req[t[1]][p].parent = 0
    <3>1. PICK q \in Shapes : q = req[t[1]]
      BY TaskIs
    <3>2. t[2] \in DOMAIN q /\ q[t[2]].parent # 0 /\ p = q[t[2]].parent
      BY <1>1, <3>1, TaskIs DEF IsChild, Info
    <3> HIDE DEF p
    <3>3. p \in DOMAIN q /\ q[p].parent = 0
      BY <3>2, ShapeIs
    <3>4. QED BY <3>1, <3>3
  <2>2. Top(t) = <<t[1], p>>
    BY <1>1 DEF Top
  <2> HIDE DEF p
  <2>3. <<t[1], p>> \in Tasks
    BY <2>1, TaskIs, TaskOf_
  <2>4. Info(<<t[1], p>>).parent = 0
    BY <2>1 DEF Info
  <2>5. QED BY <1>1, <2>2, <2>3, <2>4 DEF IsChild
<1>2. CASE ~IsChild(t)
  BY <1>2 DEF Top
<1>3. QED BY <1>1, <1>2

\* The children of a task are the tasks that follow it, fewer than the slots.
LEMMA ChildrenAre ==
    ASSUME TypeOK, NEW t \in Tasks, ~IsChild(t)
    PROVE  /\ \E n \in 0 .. NSlots - 1 :
                 /\ IsFiniteSet(Children(t)) /\ Cardinality(Children(t)) = n
                 /\ \A c \in Children(t) : c[2] \in t[2] + 1 .. t[2] + n
                 /\ \A j \in t[2] + 1 .. t[2] + n : <<t[1], j>> \in Children(t)
           /\ \A c \in Children(t) : /\ c \in Tasks /\ c[1] = t[1] /\ IsChild(c)
                                     /\ Info(c).parent = t[2] /\ Top(c) = t /\ c # t
           /\ Children(t) # {} => Info(t).kind = "COMPLETION" /\ <<t[1], t[2] + 1>> \in Children(t)
           /\ \A c \in Tasks : Top(c) = t => c = t \/ c \in Children(t)
<1> DEFINE r == t[1]
           i == t[2]
<1>1. /\ r \in Requests /\ req[r] \in Shapes /\ i \in DOMAIN req[r] /\ t = <<r, i>>
      /\ i \in 1 .. MaxTasks /\ Info(t).parent = 0
  BY TaskIs DEF IsChild
<1>2. PICK n \in 0 .. NSlots - 1 : {j \in DOMAIN req[r] : req[r][j].parent = i} = i + 1 .. i + n
  BY <1>1, ShapeIs DEF Info
<1> HIDE DEF r, i
<1>3. Children(t) = {c \in Ids(r) : Info(c).parent = i}
  BY DEF Children, r, i
<1>4. ASSUME NEW c \in Children(t)
      PROVE  /\ c \in Tasks /\ c = <<r, c[2]>> /\ c[2] \in i + 1 .. i + n /\ IsChild(c)
             /\ Info(c).parent = i /\ Top(c) = t /\ c # t
  <2>1. PICK j \in DOMAIN req[r] : c = <<r, j>>
    BY <1>3 DEF Ids
  <2>2. c[1] = r /\ c[2] = j /\ Info(c) = req[r][j] /\ Info(c).parent = i
    BY <1>3, <2>1 DEF Info
  <2>3. j \in i + 1 .. i + n /\ c \in Tasks
    BY <1>1, <1>2, <2>1, <2>2, TaskOf_
  <2>4. IsChild(c) /\ i # 0
    BY <1>1, <2>2 DEF IsChild
  <2>5. Top(c) = t
    BY <1>1, <2>2, <2>4 DEF Top
  <2>6. j # i
    BY <1>1, <2>3
  <2>7. QED BY <1>1, <2>1, <2>2, <2>3, <2>4, <2>5, <2>6
<1>5. ASSUME NEW j \in i + 1 .. i + n PROVE <<r, j>> \in Children(t)
  BY <1>2, <1>3 DEF Ids, Info
<1>6. IsFiniteSet(Children(t)) /\ Cardinality(Children(t)) = n
  <2> DEFINE I == i + 1 .. i + n
             f == [j \in I |-> <<r, j>>]
  <2>1. i + 1 \in Int /\ i + n \in Int
    BY <1>1
  <2>2. /\ IsFiniteSet(I)
        /\ Cardinality(I) = IF i + 1 > i + n THEN 0 ELSE (i + n) - (i + 1) + 1
    BY <2>1, FS_Interval
  <2>3. Cardinality(I) = n
    BY <1>1, <2>2
  <2>4. f \in [I -> Children(t)]
    BY <1>5
  <2>5. \A j, k \in I : f[j] = f[k] => j = k
    OBVIOUS
  <2>6. \A c \in Children(t) : \E j \in I : f[j] = c
    BY <1>4
  <2> HIDE DEF f, I
  <2>7. f \in Bijection(I, Children(t))
    BY <2>4, <2>5, <2>6 DEF Bijection, Injection, IsInjective, Surjection
  <2>8. QED BY <2>2, <2>3, <2>7, FS_Bijection DEF ExistsBijection
<1>7. ASSUME NEW c \in Tasks, Top(c) = t, c # t PROVE c \in Children(t)
  <2>1. IsChild(c) /\ c[1] = r /\ Info(c).parent = i
    BY <1>1, <1>7 DEF Top
  <2>2. c \in Ids(r)
    BY <2>1, TaskIs
  <2>3. QED BY <1>3, <2>1, <2>2
<1>8. ASSUME Children(t) # {}
      PROVE  Info(t).kind = "COMPLETION" /\ <<t[1], t[2] + 1>> \in Children(t)
  <2>1. PICK c \in Children(t) : TRUE
    BY <1>8
  <2>2. c[2] \in DOMAIN req[r] /\ req[r][c[2]] = Info(c) /\ Info(c).parent = i /\ i # 0
    BY <1>1, <1>4, TaskIs DEF Info
  <2>3. Info(c).kind = "COMPLETION" /\ Info(c) = [req[r][i] EXCEPT !.parent = i, !.id_slot = -1]
    <3>1. PICK q \in Shapes : q = req[r]
      BY <1>1
    <3>2. c[2] \in DOMAIN q /\ q[c[2]].parent # 0 /\ q[c[2]].parent = i
      BY <1>1, <2>2, <3>1
    <3>3. q[c[2]].kind = "COMPLETION" /\ q[c[2]] = [q[i] EXCEPT !.parent = i, !.id_slot = -1]
      BY <3>2, ShapeIs
    <3>4. QED BY <2>2, <3>1, <3>3
  <2>4. Info(t) = req[r][i] /\ Info(t) \in TaskInfo(NCtx + 1)
    BY <1>1, TaskIs DEF Info, r, i
  <2>5. Info(c).kind = Info(t).kind
    BY <2>3, <2>4 DEF TaskInfo
  <2>6. i + 1 \in i + 1 .. i + n
    BY <1>1, <1>4, <2>1
  <2>7. QED BY <1>5, <2>3, <2>5, <2>6 DEF r, i
<1>9. QED BY <1>1, <1>4, <1>5, <1>6, <1>7, <1>8 DEF r, i

-----------------------------------------------------------------------------
(* Counting what is queued.                                                *)

LEMMA ItemIs ==
    ASSUME NEW a, NEW t
    PROVE  /\ Item(a, t).type = a /\ Item(a, t).id = t
           /\ \A b, u : Item(a, t) = Item(b, u) => a = b /\ t = u
BY DEF Item

InQueues(q, d, c, t) == Count(q, Item("TASK", t)) + Count(d, Item("TASK", t))
                            + (IF c = Item("TASK", t) THEN 1 ELSE 0)

LEMMA QueuedIs ==
    ASSUME NEW t
    PROVE  /\ Queued(t) = InQueues(queue_tasks, queue_tasks_deferred, current, t)
           /\ Queued(t)' = InQueues(queue_tasks', queue_tasks_deferred', current', t)
BY DEF Queued, Copies, InQueues, Count, At

LEMMA InQueuesIsNat ==
    ASSUME NEW S, NEW T, NEW q \in Seq(S), NEW d \in Seq(T), NEW c, NEW t
    PROVE  /\ Count(q, Item("TASK", t)) \in Nat /\ Count(d, Item("TASK", t)) \in Nat
           /\ InQueues(q, d, c, t) \in Nat
           /\ Item("TASK", t) \notin S \cup T \cup {c} => InQueues(q, d, c, t) = 0
           /\ c = Item("TASK", t) => InQueues(q, d, c, t) > 0
<1> DEFINE x == Item("TASK", t)
<1>1. Count(q, x) \in Nat /\ Count(d, x) \in Nat
  BY CountIsNat
<1>2. x \notin S => Count(q, x) = 0
  <2>1. x \notin S => \A i \in DOMAIN q : q[i] # x
    BY LenProperties, ElementOfSeq
  <2>2. QED BY <2>1, CountIsZero
<1>3. x \notin T => Count(d, x) = 0
  <2>1. x \notin T => \A i \in DOMAIN d : d[i] # x
    BY LenProperties, ElementOfSeq
  <2>2. QED BY <2>1, CountIsZero
<1> HIDE DEF x
<1>4. InQueues(q, d, c, t) = Count(q, x) + Count(d, x) + (IF c = x THEN 1 ELSE 0)
  BY DEF InQueues, x
<1>5. InQueues(q, d, c, t) \in Nat /\ (c = x => InQueues(q, d, c, t) > 0)
  BY <1>1, <1>4
<1>6. x \notin S \cup T \cup {c} => InQueues(q, d, c, t) = 0
  BY <1>2, <1>3, <1>4
<1>7. QED BY <1>1, <1>5, <1>6 DEF x

\* A task is queued only as an item of the queues.
LEMMA QueuedIsNat ==
    ASSUME QueuesOk, NEW t
    PROVE  /\ Queued(t) \in Nat
           /\ Queued(t) # 0 => Item("TASK", t) \in TaskItems
           /\ current = Item("TASK", t) => Queued(t) > 0
<1>1. /\ queue_tasks \in Seq(Items) /\ queue_tasks_deferred \in Seq(TaskItems)
      /\ current \in Items
  BY DEF QueuesOk
<1>2. Item("TASK", t) \in Items => Item("TASK", t) \in TaskItems
  BY ItemIs DEF Items, CancelItems, NextResponse
<1>3. TaskItems \subseteq Items
  BY DEF Items
<1>4. Queued(t) = InQueues(queue_tasks, queue_tasks_deferred, current, t)
  BY QueuedIs
<1>5. QED BY <1>1, <1>2, <1>3, <1>4, InQueuesIsNat

LEMMA SeqGrows ==
    ASSUME NEW S, NEW T, S \subseteq T, NEW q \in Seq(S)
    PROVE  q \in Seq(T)
<1>1. Len(q) \in Nat /\ q \in [1 .. Len(q) -> S]
  BY LenProperties
<1>2. q \in [1 .. Len(q) -> T]
  BY <1>1
<1>3. QED BY <1>1, <1>2, SeqDef

\* What a step leaves alone that changes no request.
LEMMA SameRequests ==
    ASSUME UNCHANGED req
    PROVE  /\ Tasks' = Tasks
           /\ \A t : /\ Info(t)' = Info(t) /\ IsChild(t)' = IsChild(t) /\ Top(t)' = Top(t)
                     /\ Ids(t)' = Ids(t) /\ Children(t)' = Children(t)
<1>1. \A t : Info(t)' = Info(t)
  BY DEF Info
<1>2. \A t : Ids(t)' = Ids(t) /\ IsChild(t)' = IsChild(t)
  BY <1>1 DEF Ids, IsChild
<1>3. QED BY <1>1, <1>2 DEF Tasks, Top, Children

\* No step takes a request back.
Onward ==
    /\ UNCHANGED req
    /\ \A r \in Requests : (Posted(r) => Posted(r)') /\ (rpc[r] = "done" => rpc'[r] = "done")

LEMMA ItemsGrow ==
    ASSUME TypeOK, Onward
    PROVE  TaskItems \subseteq TaskItems' /\ Items \subseteq Items'
<1>1. Tasks' = Tasks /\ \A t : IsChild(t)' = IsChild(t)
  BY SameRequests DEF Onward
<1>2. \A t \in Tasks : t[1] \in Requests
  BY TaskIs
<1>3. ASSUME NEW x \in TaskItems PROVE x \in TaskItems'
  <2>1. PICK t \in Tasks : x = Item("TASK", t) /\ ~IsChild(t) /\ Posted(t[1])
    BY DEF TaskItems
  <2>2. t \in Tasks' /\ ~IsChild(t)' /\ Posted(t[1])'
    BY <1>1, <1>2, <2>1 DEF Onward
  <2>3. QED BY <2>1, <2>2 DEF TaskItems, Item
<1>4. ASSUME NEW x \in CancelItems PROVE x \in CancelItems'
  <2>1. PICK t \in Tasks : x = Item("CANCEL", t) /\ rpc[t[1]] = "done"
    BY DEF CancelItems
  <2>2. t \in Tasks' /\ rpc'[t[1]] = "done"
    BY <1>1, <1>2, <2>1 DEF Onward
  <2>3. QED BY <2>1, <2>2 DEF CancelItems, Item
<1>5. QED BY <1>3, <1>4 DEF Items, NextResponse, Item

\* The queues keep their items, but for the one that current may lose.
Dropped(t) ==
    /\ queue_tasks' \in Seq(Items) /\ queue_tasks_deferred' \in Seq(TaskItems)
    /\ current' \in Items
    /\ \A u : Queued(u) = Queued(u)' + (IF u = t THEN 1 ELSE 0)

QueuesKept ==
    /\ queue_tasks' \in Seq(Items) /\ queue_tasks_deferred' \in Seq(TaskItems)
    /\ current' \in Items
    /\ \A u : Queued(u)' = Queued(u)

LEMMA DeferredIndexIs ==
    ASSUME QueuesOk, queue_tasks_deferred # <<>>, NEW s
    PROVE  DeferredIndex(s) \in 1 .. Len(queue_tasks_deferred)
<1> DEFINE d == queue_tasks_deferred
           Test(item) == Info(item.id).kind # "SLOT_ACTION" /\ Info(item.id).id_slot = s
           I == {j \in 1 .. Len(d) : Info(d[j].id).kind # "SLOT_ACTION" /\ Info(d[j].id).id_slot = s}
           i == IF I # {} THEN Min(I) ELSE 0
<1>1. DeferredIndex(s) = IF i = 0 THEN 1 ELSE i
  BY Zenon DEF DeferredIndex, SelectInSeq
<1>2. Len(d) \in Nat /\ Len(d) # 0
  BY LenProperties, EmptySeq DEF QueuesOk
<1>3. CASE I = {}
  BY <1>1, <1>2, <1>3
<1>4. CASE I # {}
  <2>1. I \subseteq Nat
    OBVIOUS
  <2>2. PICK x \in I : \A y \in I : x <= y
    BY <1>4, <2>1, LeastNat
  <2>3. Min(I) \in I
    BY <2>2 DEF Min
  <2>4. i \in I
    BY <1>4, <2>3
  <2>5. QED BY <1>1, <2>4
<1>5. QED BY <1>3, <1>4

LEMMA PopDeferredKeeps ==
    ASSUME QueuesOk, NEW s, PopDeferredTask(s)
    PROVE  /\ queue_tasks' \in Seq(Items) /\ queue_tasks_deferred' \in Seq(TaskItems)
           /\ \A c, u : InQueues(queue_tasks', queue_tasks_deferred', c, u)
                            = InQueues(queue_tasks, queue_tasks_deferred, c, u)
<1>0. /\ queue_tasks \in Seq(Items) /\ queue_tasks_deferred \in Seq(TaskItems)
      /\ TaskItems \subseteq Items
  BY DEF QueuesOk, Items
<1>1. CASE queue_tasks_deferred = <<>>
  BY <1>0, <1>1 DEF PopDeferredTask, queueVars
<1>2. CASE queue_tasks_deferred # <<>>
  <2> DEFINE k == DeferredIndex(s)
  <2>1. k \in 1 .. Len(queue_tasks_deferred)
    BY <1>2, DeferredIndexIs
  <2>2. /\ queue_tasks' = <<queue_tasks_deferred[k]>> \o queue_tasks
        /\ queue_tasks_deferred' = RemoveAt(queue_tasks_deferred, k)
    BY <1>2 DEF PopDeferredTask
  <2> HIDE DEF k
  <2>3. queue_tasks_deferred[k] \in TaskItems /\ queue_tasks_deferred[k] \in Items
    BY <1>0, <2>1, ElementOfSeq
  <2>4. PICK x \in Items : x = queue_tasks_deferred[k]
    BY <2>3
  <2>5. queue_tasks' \in Seq(Items)
    BY <1>0, <2>2, <2>3, ConcatProperties
  <2>6. queue_tasks_deferred' \in Seq(TaskItems)
    BY <1>0, <2>1, <2>2, CountRemoveAt
  <2>7. ASSUME NEW u
        PROVE  Count(queue_tasks', Item("TASK", u)) + Count(queue_tasks_deferred', Item("TASK", u))
                   = Count(queue_tasks, Item("TASK", u)) + Count(queue_tasks_deferred, Item("TASK", u))
    <3> DEFINE e == Item("TASK", u)
    <3>1. Count(queue_tasks', e) = Count(queue_tasks, e) + (IF x = e THEN 1 ELSE 0)
      BY <1>0, <2>2, <2>4, CountCons
    <3>2. Count(queue_tasks_deferred, e) = Count(queue_tasks_deferred', e) + (IF x = e THEN 1 ELSE 0)
      BY <1>0, <2>1, <2>2, <2>4, CountRemoveAt
    <3>3. Count(queue_tasks, e) \in Nat /\ Count(queue_tasks_deferred', e) \in Nat
      BY <1>0, <2>6, CountIsNat
    <3> HIDE DEF e
    <3>4. Count(queue_tasks', e) + Count(queue_tasks_deferred', e)
              = Count(queue_tasks, e) + Count(queue_tasks_deferred, e)
      BY <3>1, <3>2, <3>3
    <3>5. QED BY <3>4 DEF e
  <2>8. QED BY <2>5, <2>6, <2>7 DEF InQueues
<1>3. QED BY <1>1, <1>2

\* Steps that move an item from one place to another.
LEMMA MovesKeep ==
    ASSUME QueuesOk, Control
    PROVE  /\ UNCHANGED <<queueVars, current>> => QueuesKept
           /\ PopTask => QueuesKept
           /\ UNCHANGED queueVars /\ current' = NextResponse /\ current.type # "TASK" => QueuesKept
           /\ UNCHANGED <<queue_tasks_deferred, current>>
                  /\ queue_tasks' = Append(queue_tasks, NextResponse) => QueuesKept
           /\ \A t : current = Item("TASK", t) /\ UNCHANGED queue_tasks /\ Defer(t)
                         /\ current' = NextResponse => QueuesKept
           /\ \A t : current = Item("TASK", t) /\ UNCHANGED queueVars
                         /\ current' = NextResponse => Dropped(t)
<1>0. /\ queue_tasks \in Seq(Items) /\ queue_tasks_deferred \in Seq(TaskItems)
      /\ current \in Items /\ NextResponse \in Items
      /\ \A u : NextResponse # Item("TASK", u)
  BY ItemIs DEF QueuesOk, Items, NextResponse
<1>1. ASSUME UNCHANGED <<queueVars, current>> PROVE QueuesKept
  BY <1>0, <1>1, QueuedIs DEF QueuesKept, queueVars
<1>2. ASSUME PopTask PROVE QueuesKept
  <2>1. mainPc = "drain" /\ current = NextResponse /\ UNCHANGED queue_tasks_deferred
    BY <1>2 DEF PopTask, Control
  <2>2. CASE queue_tasks = <<>>
    BY <1>0, <1>2, <2>1, <2>2, QueuedIs DEF PopTask, QueuesKept
  <2>3. CASE queue_tasks # <<>>
    <3>1. current' = Head(queue_tasks) /\ queue_tasks' = Tail(queue_tasks)
      BY <1>2, <2>3 DEF PopTask
    <3>2. current' \in Items /\ queue_tasks' \in Seq(Items)
      BY <1>0, <2>3, <3>1, HeadTailProperties
    <3>3. ASSUME NEW u PROVE Queued(u)' = Queued(u)
      <4> DEFINE e == Item("TASK", u)
      <4>1. Count(queue_tasks, e) = Count(queue_tasks', e) + (IF current' = e THEN 1 ELSE 0)
        BY <1>0, <2>3, <3>1, CountTail
      <4>2. Count(queue_tasks', e) \in Nat /\ Count(queue_tasks_deferred, e) \in Nat
        BY <1>0, <3>2, CountIsNat
      <4>3. current # e
        BY <1>0, <2>1
      <4> HIDE DEF e
      <4>4. Count(queue_tasks', e) + Count(queue_tasks_deferred, e) + (IF current' = e THEN 1 ELSE 0)
               = Count(queue_tasks, e) + Count(queue_tasks_deferred, e) + (IF current = e THEN 1 ELSE 0)
        BY <4>1, <4>2, <4>3
      <4>5. QED BY <2>1, <4>4, QueuedIs DEF InQueues, e
    <3>4. QED BY <1>0, <2>1, <3>2, <3>3 DEF QueuesKept
  <2>4. QED BY <2>2, <2>3
<1>3. ASSUME UNCHANGED queueVars, current' = NextResponse, current.type # "TASK" PROVE QueuesKept
  <2>1. \A u : current # Item("TASK", u) /\ current' # Item("TASK", u)
    BY <1>0, <1>3, ItemIs
  <2>2. \A u : Queued(u)' = Queued(u)
    BY <1>3, <2>1, QueuedIs DEF queueVars, InQueues
  <2>3. QED BY <1>0, <1>3, <2>2 DEF QueuesKept, queueVars
<1>4. ASSUME UNCHANGED <<queue_tasks_deferred, current>>,
             queue_tasks' = Append(queue_tasks, NextResponse)
      PROVE  QueuesKept
  <2>1. queue_tasks' \in Seq(Items)
    BY <1>0, <1>4, AppendProperties
  <2>2. ASSUME NEW u PROVE Queued(u)' = Queued(u)
    <3>1. Count(queue_tasks', Item("TASK", u)) = Count(queue_tasks, Item("TASK", u)) + 0
      BY <1>0, <1>4, CountAppend
    <3>2. Count(queue_tasks, Item("TASK", u)) \in Nat
      BY <1>0, CountIsNat
    <3>3. Count(queue_tasks', Item("TASK", u)) = Count(queue_tasks, Item("TASK", u))
      BY <3>1, <3>2
    <3>4. QED BY <1>4, <3>3, QueuedIs DEF InQueues
  <2>3. QED BY <1>0, <1>4, <2>1, <2>2 DEF QueuesKept
<1>5. ASSUME NEW t, current = Item("TASK", t), UNCHANGED queue_tasks, Defer(t),
             current' = NextResponse
      PROVE  QueuesKept
  <2>1. Item("TASK", t) \in TaskItems
    BY <1>0, <1>5, ItemIs DEF Items, CancelItems, NextResponse
  <2>2. PICK x \in TaskItems : x = Item("TASK", t)
    BY <2>1
  <2>3. queue_tasks_deferred' = Append(queue_tasks_deferred, x)
    BY <1>5, <2>2 DEF Defer
  <2>4. queue_tasks_deferred' \in Seq(TaskItems)
    BY <1>0, <2>3, AppendProperties
  <2>5. ASSUME NEW u PROVE Queued(u)' = Queued(u)
    <3> DEFINE e == Item("TASK", u)
    <3>1. Count(queue_tasks_deferred', e) = Count(queue_tasks_deferred, e) + (IF x = e THEN 1 ELSE 0)
      BY <1>0, <2>3, CountAppend
    <3>2. Count(queue_tasks, e) \in Nat /\ Count(queue_tasks_deferred, e) \in Nat
      BY <1>0, CountIsNat
    <3>3. current = x /\ current' # e
      BY <1>0, <1>5, <2>2
    <3> HIDE DEF e
    <3>4. Count(queue_tasks, e) + Count(queue_tasks_deferred', e) + (IF current' = e THEN 1 ELSE 0)
              = Count(queue_tasks, e) + Count(queue_tasks_deferred, e) + (IF current = e THEN 1 ELSE 0)
      BY <3>1, <3>2, <3>3
    <3>5. QED BY <1>5, <3>4, QueuedIs DEF InQueues, e
  <2>6. QED BY <1>0, <1>5, <2>4, <2>5 DEF QueuesKept
<1>6. ASSUME NEW t, current = Item("TASK", t), UNCHANGED queueVars, current' = NextResponse
      PROVE  Dropped(t)
  <2>1. ASSUME NEW u PROVE Queued(u) = Queued(u)' + (IF u = t THEN 1 ELSE 0)
    <3> DEFINE e == Item("TASK", u)
    <3>1. Count(queue_tasks, e) \in Nat /\ Count(queue_tasks_deferred, e) \in Nat
      BY <1>0, CountIsNat
    <3>2. current' # e /\ (current = e <=> u = t)
      BY <1>0, <1>6, ItemIs
    <3> HIDE DEF e
    <3>3. Count(queue_tasks, e) + Count(queue_tasks_deferred, e) + (IF current = e THEN 1 ELSE 0)
              = Count(queue_tasks, e) + Count(queue_tasks_deferred, e) + (IF current' = e THEN 1 ELSE 0)
                + (IF u = t THEN 1 ELSE 0)
      BY <3>1, <3>2
    <3>4. QED BY <1>6, <3>3, QueuedIs DEF InQueues, queueVars, e
  <2>2. QED BY <1>0, <1>6, <2>1 DEF Dropped, queueVars
<1>7. QED BY <1>1, <1>2, <1>3, <1>4, <1>5, <1>6

-----------------------------------------------------------------------------
(* The main thread.                                                        *)

LEMMA FirstIs ==
    ASSUME NEW S, S \subseteq SlotIds, S # {}
    PROVE  First(S) \in S
<1>1. S \subseteq Nat
  BY BoundsAssumption DEF SlotIds
<1>2. PICK s \in S : \A x \in S : s <= x
  BY <1>1, LeastNat
<1>3. QED BY <1>2 DEF First

LoopOk ==
    /\ mainPc \in {"drain", "process", "update", "prompt", "decode", "sample",
                   "fail", "release", "wait", "aborted"}
    /\ at \in 0 .. NSlots /\ loop \in {"none", "prompt", "sample", "fail"}
    /\ batch \subseteq SlotIds
    /\ n_empty_consecutive \in 0 .. 4
    /\ mainPc # "process" => current = NextResponse
    /\ mainPc # "aborted" => n_empty_consecutive <= 3
    /\ mainPc = "release" => at \in SlotIds /\ loop # "none"

LEMMA LoopIs ==
    ASSUME TypeOK, Control
    PROVE  LoopOk /\ NSlots \in Nat /\ SlotIds \subseteq 0 .. NSlots
                  /\ \A s \in SlotIds : s + 1 \in 0 .. NSlots
BY BoundsAssumption DEF TypeOK, Control, LoopOk, SlotIds

\* The slot a loop has come to.
LEMMA SlotFound ==
    ASSUME TypeOK, NEW s \in SlotIds
    PROVE  /\ OnPromptSlot(s) => ~IsIdle(s) /\ slots[s].state \in {"STARTED", "PROCESSING_PROMPT"}
           /\ OnSampleSlot(s) => ~IsIdle(s) /\ slots[s].state \in {"DONE_PROMPT", "GENERATING"}
           /\ FailSlot(s) => ~IsIdle(s)
<1>1. ASSUME OnPromptSlot(s)
      PROVE  ~IsIdle(s) /\ slots[s].state \in {"STARTED", "PROCESSING_PROMPT"}
  <2>1. s = First(PromptSlots) /\ PromptSlots # {} /\ PromptSlots \subseteq SlotIds
    BY <1>1 DEF OnPromptSlot, PromptSlots, InState
  <2>2. s \in PromptSlots
    BY <2>1, FirstIs
  <2>3. QED BY <2>2 DEF PromptSlots, InState, IsIdle
<1>2. ASSUME OnSampleSlot(s)
      PROVE  ~IsIdle(s) /\ slots[s].state \in {"DONE_PROMPT", "GENERATING"}
  <2>1. s = First(SampleSlots) /\ SampleSlots # {} /\ SampleSlots \subseteq SlotIds
    BY <1>2 DEF OnSampleSlot, SampleSlots, InState
  <2>2. s \in SampleSlots
    BY <2>1, FirstIs
  <2>3. QED BY <2>2 DEF SampleSlots, InState, IsIdle
<1>3. ASSUME FailSlot(s) PROVE ~IsIdle(s)
  <2>1. s = First(SlotIds \ IdleSlots) /\ IdleSlots # SlotIds /\ IdleSlots \subseteq SlotIds
    BY <1>3 DEF FailSlot, IdleSlots
  <2>2. s \in SlotIds \ IdleSlots
    <3>1. SlotIds \ IdleSlots \subseteq SlotIds /\ SlotIds \ IdleSlots # {}
      BY <2>1
    <3>2. QED BY <2>1, <3>1, FirstIs
  <2>3. QED BY <2>2 DEF IdleSlots
<1>4. QED BY <1>1, <1>2, <1>3

LEMMA LoopStep ==
    ASSUME TypeOK, Control, MainStep
    PROVE  LoopOk'
<1>0. LoopOk /\ NSlots \in Nat /\ SlotIds \subseteq 0 .. NSlots
      /\ \A s \in SlotIds : s + 1 \in 0 .. NSlots
  BY LoopIs
<1>1. CASE \E type : Process(type) /\ UNCHANGED <<at, loop, batch>> /\ n_empty_consecutive' \in {n_empty_consecutive, 0}
  BY <1>0, <1>1 DEF LoopOk, Process
<1>2. CASE PopTask
  BY <1>0, <1>2 DEF LoopOk, PopTask, loopVars
<1>3. CASE WaitForTasks
  BY <1>0, <1>3 DEF LoopOk, WaitForTasks, loopVars
<1>4. CASE BeginUpdate
  <2>1. Gathered \subseteq SlotIds
    BY DEF Gathered, InState
  <2>2. CASE IdleSlots = SlotIds
    BY <1>0, <1>4, <2>2 DEF LoopOk, BeginUpdate
  <2>3. CASE IdleSlots # SlotIds
    <3>1. batch' \subseteq SlotIds /\ at' = 0 /\ mainPc' = "prompt"
      BY <1>4, <2>1, <2>3 DEF BeginUpdate
    <3>2. UNCHANGED <<current, loop, n_empty_consecutive>> /\ current = NextResponse
      BY <1>0, <1>4 DEF LoopOk, BeginUpdate
    <3>3. 0 \in 0 .. NSlots
      BY <1>0
    <3>4. QED BY <1>0, <1>4, <3>1, <3>2, <3>3 DEF LoopOk, BeginUpdate
  <2>4. QED BY <2>2, <2>3
<1>5. CASE EndPrompts
  BY <1>0, <1>5 DEF LoopOk, EndPrompts, loopVars
<1>6. CASE DecodeNothing
  BY <1>0, <1>6 DEF LoopOk, DecodeNothing, LeaveUpdate
<1>7. CASE Decode
  <2>1. Activated \subseteq SlotIds
    BY DEF Activated, InState
  <2>2. QED BY <1>0, <1>7, <2>1 DEF LoopOk, Decode
<1>8. CASE DecodeFails
  BY <1>0, <1>8 DEF LoopOk, DecodeFails
<1>9. CASE ReleaseSlot
  BY <1>0, <1>9 DEF LoopOk, ReleaseSlot
<1>10. CASE EndUpdate
  BY <1>0, <1>10 DEF LoopOk, EndUpdate, LeaveUpdate
<1>11. CASE \E s \in SlotIds : SlotStep(s)
  <2>1. PICK s \in SlotIds : SlotStep(s)
    BY <1>11
  <2>2. CASE SkipPrompt(s)
    BY <1>0, <2>2 DEF LoopOk, SkipPrompt, OnPromptSlot
  <2>3. CASE AddPrompt(s)
    BY <1>0, <2>3 DEF LoopOk, AddPrompt, OnPromptSlot
  <2>4. CASE SamplePartial(s)
    BY <1>0, <2>4 DEF LoopOk, SamplePartial, OnSampleSlot
  <2>5. CASE EmptyPrompt(s)
    BY <1>0, <2>5 DEF LoopOk, EmptyPrompt, SendAndRelease, OnPromptSlot
  <2>6. CASE RefusePrompt(s)
    BY <1>0, <2>6 DEF LoopOk, RefusePrompt, SendAndRelease, OnPromptSlot
  <2>7. CASE SampleFinal(s)
    BY <1>0, <2>7 DEF LoopOk, SampleFinal, SendAndRelease, OnSampleSlot
  <2>8. CASE FailSlot(s)
    BY <1>0, <2>8 DEF LoopOk, FailSlot, SendAndRelease
  <2>9. QED BY <2>1, <2>2, <2>3, <2>4, <2>5, <2>6, <2>7, <2>8 DEF SlotStep
<1>12. Launch \/ Refuse \/ DeferTask \/ SlotAction \/ Metrics \/ CancelTask \/ IgnoreNextResponse
         => \E type : Process(type) /\ UNCHANGED <<at, loop, batch>> /\ n_empty_consecutive' \in {n_empty_consecutive, 0}
  BY DEF Launch, Refuse, DeferTask, SlotAction, Metrics, CancelTask, IgnoreNextResponse, loopVars
<1>13. QED
  BY <1>1, <1>2, <1>3, <1>4, <1>5, <1>6, <1>7, <1>8, <1>9, <1>10, <1>11, <1>12 DEF MainStep

SlotT == [state : SlotStates, task : TaskIds \cup {NoTask}, n : Nat]

SlotsTyped ==
    /\ slots \in [SlotIds -> SlotT]
    /\ \A s \in SlotIds : IsIdle(s) <=> slots[s].task = NoTask

\* Slots change their state, but not their task.
SlotsMoved ==
    /\ SlotsTyped'
    /\ \A s \in SlotIds : slots'[s].task = slots[s].task

Still == UNCHANGED <<req, rpc, waiting, received_count, seen>>

\* The steps of the main thread as the tasks see them: nothing happens,
Quiet ==
    /\ Still /\ UNCHANGED sent /\ QueuesKept /\ SlotsMoved
    /\ mainPc # "release" /\ mainPc' # "release"
\* the task of a slot is answered,
Answered(s, type) ==
    /\ Still /\ QueuesKept /\ UNCHANGED slots
    /\ mainPc # "release" /\ mainPc' = "release" /\ at' = s
    /\ ~IsIdle(s) /\ Send(slots[s].task, type)
    /\ type = "error" => mainPc = "fail" \/ (mainPc = "prompt" /\ TooLong(s))
\* and its slot freed; or a CANCEL frees it,
Freed(s) ==
    /\ Still /\ QueuesKept /\ UNCHANGED <<sent, results>>
    /\ slots' = [slots EXCEPT ![s] = IdleSlot] /\ PopDeferredTask(s)
    /\ ~IsIdle(s) /\ mainPc' # "release"
    /\ IF mainPc = "release" THEN s = at ELSE rpc[slots[s].task[1]] = "done"
\* or the task that was taken from the queue is answered without a slot,
Finished(t, u, type) ==
    /\ Still /\ Dropped(t) /\ UNCHANGED slots
    /\ mainPc # "release" /\ mainPc' # "release"
    /\ t \in Tasks /\ ~IsChild(t) /\ Posted(t[1]) /\ Queued(t) > 0
    /\ Send(u, type) /\ u \in Tasks /\ Top(u) = t
    /\ \/ type = "error" /\ ~Info(t).launches
       \/ type = "final" /\ Children(t) = {} /\ u = t /\ ~NeedsSlot(t)
\* or launched on slot s, and its children c on slots f[c].
Placed(t, s, f) ==
    /\ Still /\ Dropped(t) /\ UNCHANGED <<sent, results>>
    /\ mainPc = "process" /\ mainPc' = "drain"
    /\ t \in Tasks /\ ~IsChild(t) /\ Posted(t[1]) /\ Queued(t) > 0 /\ NeedsSlot(t)
    /\ s \in IdleSlots
    /\ f \in [Children(t) -> IdleSlots \ {s}]
    /\ \A c, e \in Children(t) : f[c] = f[e] => c = e
    /\ SlotsTyped'
    /\ slots'[s].task = t /\ slots'[s].state = "STARTED"
    /\ \A c \in Children(t) : slots'[f[c]].task = c /\ slots'[f[c]].state = "WAIT_OTHER"
    /\ \A x \in SlotIds : x # s /\ (\A c \in Children(t) : f[c] # x) => slots'[x] = slots[x]

LEMMA SlotsAre ==
    ASSUME TypeOK
    PROVE  /\ SlotsTyped
           /\ \A s \in SlotIds : IsIdle(s) \/ slots[s].task \in TaskIds
BY DEF TypeOK, SlotsTyped, SlotT, IsIdle

\* A change of state and count of one slot that keeps its task.
LEMMA SlotMoves ==
    ASSUME SlotsTyped, NEW s \in SlotIds, ~IsIdle(s),
           NEW st \in SlotStates \ {"IDLE"}, NEW v \in SlotT,
           v.task = slots[s].task, v.state = st,
           slots' = [slots EXCEPT ![s] = v]
    PROVE  SlotsMoved
<1>1. slots \in [SlotIds -> SlotT] /\ slots[s] \in SlotT
  BY DEF SlotsTyped
<1>2. v \in SlotT /\ v.task = slots[s].task /\ v.state = st
  OBVIOUS
<1>3. slots' \in [SlotIds -> SlotT]
  BY <1>1, <1>2
<1>4. ASSUME NEW x \in SlotIds
      PROVE  slots'[x].task = slots[x].task /\ (IsIdle(x)' <=> slots'[x].task = NoTask)
  <2>1. CASE x = s
    <3>1. slots'[x] = v
      BY <1>1, <2>1
    <3>2. slots[s].task # NoTask
      BY DEF SlotsTyped
    <3>3. QED BY <1>2, <2>1, <3>1, <3>2 DEF IsIdle
  <2>2. CASE x # s
    <3>1. slots'[x] = slots[x]
      BY <1>1, <2>2
    <3>2. QED BY <3>1 DEF SlotsTyped, IsIdle
  <2>3. QED BY <2>1, <2>2
<1>5. QED BY <1>3, <1>4 DEF SlotsMoved, SlotsTyped

LEMMA SlotChanges ==
    ASSUME NEW x \in SlotT, NEW st \in SlotStates, NEW v, v = [x EXCEPT !.state = st]
    PROVE  v \in SlotT /\ v.state = st /\ v.task = x.task
BY DEF SlotT

LEMMA MovesSlots ==
    ASSUME TypeOK
    PROVE  /\ UNCHANGED slots => SlotsMoved
           /\ Decode => SlotsMoved
           /\ \A s \in SlotIds : SkipPrompt(s) \/ AddPrompt(s) \/ SamplePartial(s) => SlotsMoved
<1>0. SlotsTyped /\ slots \in [SlotIds -> SlotT]
  BY SlotsAre DEF SlotsTyped
<1>1. UNCHANGED slots => SlotsMoved
  BY <1>0 DEF SlotsMoved, SlotsTyped, IsIdle
<1>2. ASSUME Decode PROVE SlotsMoved
  <2>1. slots' = [s \in SlotIds |-> IF s \in Activated THEN [slots[s] EXCEPT !.state = "DONE_PROMPT"]
                                                        ELSE slots[s]]
    BY <1>2 DEF Decode
  <2>2. ASSUME NEW s \in SlotIds
        PROVE  /\ slots'[s] \in SlotT /\ slots'[s].task = slots[s].task
               /\ IsIdle(s)' <=> slots'[s].task = NoTask
    <3>1. slots[s] \in SlotT /\ (slots[s].state = "IDLE" <=> slots[s].task = NoTask)
      BY <1>0 DEF SlotsTyped, IsIdle
    <3>2. CASE s \in Activated
      <4>1. slots'[s] = [slots[s] EXCEPT !.state = "DONE_PROMPT"]
        BY <2>1, <3>2
      <4>2. slots[s].state # "IDLE"
        BY <3>2 DEF Activated, InState
      <4>3. slots'[s] \in SlotT /\ slots'[s].task = slots[s].task /\ slots'[s].state # "IDLE"
        BY <3>1, <4>1 DEF SlotT, SlotStates
      <4>4. QED BY <3>1, <4>2, <4>3 DEF IsIdle
    <3>3. CASE s \notin Activated
      <4>1. slots'[s] = slots[s]
        BY <2>1, <3>3
      <4>2. QED BY <3>1, <4>1 DEF IsIdle
    <3>4. QED BY <3>2, <3>3
  <2>3. slots' \in [SlotIds -> SlotT]
    BY <2>1, <2>2
  <2>4. QED BY <2>2, <2>3 DEF SlotsMoved, SlotsTyped
<1>3. ASSUME NEW s \in SlotIds, SkipPrompt(s) PROVE SlotsMoved
  <2>1. ~IsIdle(s) /\ slots' = [slots EXCEPT ![s].state = "PROCESSING_PROMPT"]
    BY <1>3, SlotFound DEF SkipPrompt
  <2>2. PICK v : v = [slots[s] EXCEPT !.state = "PROCESSING_PROMPT"] /\ v \in SlotT
                       /\ v.state = "PROCESSING_PROMPT" /\ v.task = slots[s].task
    <3>1. PICK v : v = [slots[s] EXCEPT !.state = "PROCESSING_PROMPT"]
      OBVIOUS
    <3>2. slots[s] \in SlotT /\ "PROCESSING_PROMPT" \in SlotStates /\ 0 \in Nat
      BY <1>0 DEF SlotStates
    <3>3. v \in SlotT /\ v.state = "PROCESSING_PROMPT" /\ v.task = slots[s].task
      BY <3>1, <3>2, SlotChanges
    <3>4. QED BY <3>1, <3>3
  <2>3. slots' = [slots EXCEPT ![s] = v]
    BY <1>0, <2>1, <2>2
  <2>4. "PROCESSING_PROMPT" \in SlotStates \ {"IDLE"}
    BY DEF SlotStates
  <2>5. QED BY <1>0, <2>1, <2>2, <2>3, <2>4, SlotMoves
<1>4. ASSUME NEW s \in SlotIds, AddPrompt(s) PROVE SlotsMoved
  <2>1. PICK st : st = IF slots[s].n + 1 = TaskOf(s).tokens THEN "DONE_PROMPT" ELSE "PROCESSING_PROMPT"
    OBVIOUS
  <2>2. PICK n : n = slots[s].n + 1
    OBVIOUS
  <2>3. ~IsIdle(s) /\ slots' = [slots EXCEPT ![s].n = n, ![s].state = st]
    BY <1>4, <2>1, <2>2, SlotFound DEF AddPrompt
  <2>4. st \in SlotStates \ {"IDLE"} /\ n \in Nat
    BY <1>0, <2>1, <2>2 DEF SlotStates, SlotT
  <2>5. PICK v : v = [slots[s] EXCEPT !.state = st, !.n = n] /\ v \in SlotT
                       /\ v.state = st /\ v.task = slots[s].task
    <3>1. PICK v : v = [slots[s] EXCEPT !.state = st, !.n = n]
      OBVIOUS
    <3>2. slots[s] \in SlotT /\ st \in SlotStates /\ n \in Nat
      BY <1>0, <2>4
    <3>3. PICK x \in SlotT : x = slots[s]
      BY <3>2
    <3>4. v = [x EXCEPT !.state = st, !.n = n]
      BY <3>1, <3>3
    <3>5. v \in SlotT /\ v.state = st /\ v.task = x.task
      BY <3>2, <3>4 DEF SlotT
    <3>6. QED BY <3>1, <3>3, <3>5
  <2>6. slots' = [slots EXCEPT ![s] = v]
    BY <1>0, <2>3, <2>5
  <2>a. ~IsIdle(s)
    BY <2>3
  <2>7. QED BY <1>0, <2>a, <2>4, <2>5, <2>6, SlotMoves
<1>5. ASSUME NEW s \in SlotIds, SamplePartial(s) PROVE SlotsMoved
  <2>1. PICK n : n = Decoded(s)
    OBVIOUS
  <2>2. ~IsIdle(s) /\ slots' = [slots EXCEPT ![s].state = "GENERATING", ![s].n = n]
    BY <1>5, <2>1, SlotFound DEF SamplePartial
  <2>3. n \in Nat /\ "GENERATING" \in SlotStates \ {"IDLE"}
    BY <1>0, <2>1 DEF SlotStates, SlotT, Decoded
  <2>4. PICK v : v = [slots[s] EXCEPT !.state = "GENERATING", !.n = n] /\ v \in SlotT
                       /\ v.state = "GENERATING" /\ v.task = slots[s].task
    <3>1. PICK v : v = [slots[s] EXCEPT !.state = "GENERATING", !.n = n]
      OBVIOUS
    <3>2. slots[s] \in SlotT /\ "GENERATING" \in SlotStates /\ n \in Nat
      BY <1>0, <2>3
    <3>3. PICK x \in SlotT : x = slots[s]
      BY <3>2
    <3>4. v = [x EXCEPT !.state = "GENERATING", !.n = n]
      BY <3>1, <3>3
    <3>5. v \in SlotT /\ v.state = "GENERATING" /\ v.task = x.task
      BY <3>2, <3>4 DEF SlotT
    <3>6. QED BY <3>1, <3>3, <3>5
  <2>5. slots' = [slots EXCEPT ![s] = v]
    BY <1>0, <2>2, <2>4
  <2>a. ~IsIdle(s)
    BY <2>2
  <2>6. QED BY <1>0, <2>a, <2>3, <2>4, <2>5, SlotMoves
<1>6. QED BY <1>1, <1>2, <1>3, <1>4, <1>5

\* What the main thread has taken from the queue.
LEMMA CurrentIs ==
    ASSUME TypeOK, QueuesOk
    PROVE  /\ current.type = "TASK" =>
                  /\ current = Item("TASK", current.id) /\ current.id \in Tasks
                  /\ ~IsChild(current.id) /\ Posted(current.id[1])
                  /\ Queued(current.id) > 0
           /\ current.type = "CANCEL" => current.id \in Tasks /\ rpc[current.id[1]] = "done"
<1>1. current \in Items
  BY DEF QueuesOk
<1>2. ASSUME current.type = "TASK"
      PROVE  \E t \in Tasks : current = Item("TASK", t) /\ ~IsChild(t) /\ Posted(t[1])
  BY <1>1, <1>2, ItemIs DEF Items, TaskItems, CancelItems, NextResponse
<1>3. ASSUME current.type = "CANCEL"
      PROVE  \E t \in Tasks : current = Item("CANCEL", t) /\ rpc[t[1]] = "done"
  BY <1>1, <1>3, ItemIs DEF Items, TaskItems, CancelItems, NextResponse
<1>4. \A t : current = Item("TASK", t) => Queued(t) > 0
  BY QueuedIsNat
<1>5. QED BY <1>2, <1>3, <1>4, ItemIs

LEMMA ChildSlotIs ==
    ASSUME TypeOK, NEW t \in Tasks, ~IsChild(t), EnoughForChildren(t), NEW s \in IdleSlots
    PROVE  /\ \A c \in Children(t) : ChildSlot(c, s) \in IdleSlots \ {s}
           /\ \A c, e \in Children(t) : ChildSlot(c, s) = ChildSlot(e, s) => c = e
<1> DEFINE free == IdleSlots \ {s}
           Rank(x) == Cardinality({y \in free : y < x})
<1>1. PICK n \in 0 .. NSlots - 1 :
          /\ Cardinality(Children(t)) = n
          /\ \A c \in Children(t) : c[2] \in t[2] + 1 .. t[2] + n
  BY ChildrenAre
<1>2. /\ SlotIds \subseteq Nat /\ IdleSlots \subseteq SlotIds /\ IsFiniteSet(SlotIds)
  <2>1. NSlots \in Nat \ {0}
    BY BoundsAssumption
  <2>2. 0 \in Int /\ NSlots - 1 \in Int
    BY <2>1
  <2>3. QED BY <2>1, <2>2, FS_Interval DEF SlotIds, IdleSlots
<1>3. IsFiniteSet(free) /\ free \subseteq Nat /\ Cardinality(free) = Cardinality(IdleSlots) - 1
  <2>1. IsFiniteSet(IdleSlots)
    BY <1>2, FS_Subset
  <2>2. QED BY <1>2, <2>1, FS_RemoveElement
<1>4. Cardinality(free) >= n /\ Cardinality(free) \in Nat /\ n \in Nat
  <2>1. Cardinality(IdleSlots) > n
    BY <1>1 DEF EnoughForChildren
  <2>2. Cardinality(free) \in Nat /\ n \in Nat
    BY <1>1, <1>3, FS_CardinalityType, BoundsAssumption
  <2>3. Cardinality(IdleSlots) \in Nat
    BY <1>2, FS_Subset, FS_CardinalityType
  <2> HIDE DEF free
  <2>4. QED BY <1>3, <2>1, <2>2, <2>3
<1>5. ASSUME NEW c \in Children(t)
      PROVE  /\ ChildSlot(c, s) \in free
             /\ Rank(ChildSlot(c, s)) = c[2] - t[2] - 1
             /\ c = <<t[1], c[2]>> /\ c[2] \in Nat
  <2> DEFINE k == c[2] - t[2] - 1
  <2>1. /\ c \in Tasks /\ c[1] = t[1] /\ Info(c).parent = t[2]
    BY ChildrenAre
  <2>2. c = <<t[1], c[2]>> /\ c[2] \in Nat /\ t[2] \in Nat
    BY <2>1, TaskIs
  <2>3. k \in Nat /\ k < n
    BY <1>1, <1>4, <2>2
  <2>4. k < Cardinality(free)
    BY <1>4, <2>3
  <2> HIDE DEF k
  <2>5. \E x \in free : Rank(x) = k
    BY <1>3, <2>3, <2>4, RankExists
  <2>6. ChildSlot(c, s) = CHOOSE x \in free : Rank(x) = k
    BY <2>1 DEF ChildSlot, k
  <2> HIDE DEF free, Rank
  <2>7. ChildSlot(c, s) \in free /\ Rank(ChildSlot(c, s)) = k
    BY <2>5, <2>6
  <2>8. QED BY <2>2, <2>7 DEF k
<1>6. ASSUME NEW c \in Children(t), NEW e \in Children(t), ChildSlot(c, s) = ChildSlot(e, s)
      PROVE  c = e
  <2>1. c[2] - t[2] - 1 = e[2] - t[2] - 1
    BY <1>5, <1>6
  <2>2. c[2] \in Nat /\ e[2] \in Nat /\ t[2] \in Nat
    <3>1. t[2] \in 1 .. MaxTasks
      BY TaskIs
    <3> HIDE DEF free, Rank
    <3>2. QED BY <1>5, <3>1
  <2>3. c[2] = e[2]
    BY <2>1, <2>2
  <2>4. QED BY <1>5, <2>3
<1>7. QED BY <1>5, <1>6

LEMMA LaunchPlaces ==
    ASSUME TypeOK, Control, QueuesOk, Launch
    PROVE  \E t, s, f : Placed(t, s, f)
<1> DEFINE t == current.id
<1>1. /\ mainPc = "process" /\ current.type = "TASK" /\ mainPc' = "drain" /\ current' = NextResponse
      /\ EnoughForChildren(t) /\ NeedsSlot(t)
      /\ UNCHANGED <<queueVars, waiting, sendVars, readerVars>>
  BY DEF Launch, Process
<1>2. PICK s \in Available(t) :
           slots' = [x \in SlotIds |->
                        IF x = s THEN Launched(t)
                        ELSE IF \E c \in Children(t) : ChildSlot(c, s) = x
                        THEN Launched(CHOOSE c \in Children(t) : ChildSlot(c, s) = x)
                        ELSE slots[x]]
  BY DEF Launch
<1>3. /\ current = Item("TASK", t) /\ t \in Tasks /\ ~IsChild(t) /\ Posted(t[1]) /\ Queued(t) > 0
  BY <1>1, CurrentIs
<1> HIDE DEF t
<1>4. Dropped(t)
  BY <1>1, <1>3, MovesKeep
<1>5. s \in IdleSlots /\ IdleSlots \subseteq SlotIds
  BY DEF Available, IdleSlots
<1> DEFINE f == [c \in Children(t) |-> ChildSlot(c, s)]
<1>6. /\ f \in [Children(t) -> IdleSlots \ {s}]
      /\ \A c, e \in Children(t) : f[c] = f[e] => c = e
  BY <1>1, <1>3, <1>5, ChildSlotIs
<1>7. ASSUME NEW c \in Children(t)
      PROVE  slots'[f[c]] = Launched(c) /\ f[c] \in SlotIds
  <2>1. PICK x \in SlotIds : x = ChildSlot(c, s) /\ x = f[c] /\ x # s
    BY <1>5, <1>6
  <2>2. \A e \in Children(t) : ChildSlot(e, s) = x => e = c
    BY <1>1, <1>3, <1>5, <2>1, ChildSlotIs
  <2>3. (CHOOSE e \in Children(t) : ChildSlot(e, s) = x) = c
    BY <2>1, <2>2
  <2>4. slots'[x] = Launched(c)
    BY <1>2, <2>1, <2>3
  <2>5. QED BY <2>1, <2>4
<1>8. slots'[s] = Launched(t)
  BY <1>2, <1>5
<1>9. ASSUME NEW x \in SlotIds, x # s, \A c \in Children(t) : f[c] # x
      PROVE  slots'[x] = slots[x]
  BY <1>2, <1>9
<1>10. ASSUME NEW c \in Tasks
       PROVE  /\ Launched(c) \in SlotT /\ Launched(c).task = c
              /\ Launched(c).state # "IDLE" /\ c # NoTask
  BY TaskIs DEF Launched, SlotT, SlotStates
<1>11. \A c \in Children(t) : c \in Tasks
  BY <1>3, ChildrenAre
<1> HIDE DEF f
<1>12. ASSUME NEW x \in SlotIds
       PROVE  slots'[x] \in SlotT /\ (IsIdle(x)' <=> slots'[x].task = NoTask)
  <2>1. CASE x = s
    BY <1>3, <1>8, <1>10, <2>1 DEF IsIdle
  <2>2. CASE x # s /\ \E c \in Children(t) : f[c] = x
    BY <1>7, <1>10, <1>11, <2>2 DEF IsIdle
  <2>3. CASE x # s /\ \A c \in Children(t) : f[c] # x
    <3>1. slots'[x] = slots[x]
      BY <1>9, <2>3
    <3>2. SlotsTyped
      BY SlotsAre
    <3>3. QED BY <3>1, <3>2 DEF SlotsTyped, IsIdle
  <2>4. QED BY <2>1, <2>2, <2>3
<1>13. SlotsTyped'
  <2>1. slots' \in [SlotIds -> SlotT]
    BY <1>2, <1>12
  <2>2. QED BY <1>12, <2>1 DEF SlotsTyped
<1>14. /\ slots'[s].task = t /\ slots'[s].state = "STARTED"
       /\ \A c \in Children(t) : slots'[f[c]].task = c /\ slots'[f[c]].state = "WAIT_OTHER"
  <2>1. slots'[s].task = t /\ slots'[s].state = "STARTED"
    BY <1>3, <1>8 DEF Launched
  <2>2. ASSUME NEW c \in Children(t)
        PROVE  slots'[f[c]].task = c /\ slots'[f[c]].state = "WAIT_OTHER"
    <3>1. IsChild(c)
      BY <1>3, ChildrenAre
    <3>2. slots'[f[c]] = Launched(c)
      BY <1>7
    <3>3. Launched(c) = [state |-> "WAIT_OTHER", task |-> c, n |-> 0]
      BY <3>1 DEF Launched
    <3>4. QED BY <3>2, <3>3
  <2>3. QED BY <2>1, <2>2
<1>15. Still /\ UNCHANGED <<sent, results>>
  BY <1>1 DEF Still, readerVars, sendVars
<1>16. Placed(t, s, f)
  BY <1>1, <1>3, <1>4, <1>5, <1>6, <1>9, <1>13, <1>14, <1>15 DEF Placed
<1>17. QED BY <1>16

\* A release frees its slot and keeps what is queued.
LEMMA ReleaseFrees ==
    ASSUME TypeOK, QueuesOk, NEW s, Release(s),
           \/ current' = current
           \/ current' = NextResponse /\ current.type # "TASK"
    PROVE  QueuesKept /\ slots' = [slots EXCEPT ![s] = IdleSlot]
<1>1. PopDeferredTask(s) /\ slots' = [slots EXCEPT ![s] = IdleSlot]
  BY DEF Release
<1>2. /\ queue_tasks' \in Seq(Items) /\ queue_tasks_deferred' \in Seq(TaskItems)
      /\ \A c, u : InQueues(queue_tasks', queue_tasks_deferred', c, u)
                            = InQueues(queue_tasks, queue_tasks_deferred, c, u)
  BY <1>1, PopDeferredKeeps
<1>3. current \in Items /\ NextResponse \in Items
  BY DEF QueuesOk, Items
<1>4. ASSUME NEW u PROVE Queued(u)' = Queued(u)
  <2>1. /\ Queued(u)' = InQueues(queue_tasks', queue_tasks_deferred', current', u)
        /\ Queued(u) = InQueues(queue_tasks, queue_tasks_deferred, current, u)
    BY QueuedIs
  <2>2. current' = Item("TASK", u) <=> current = Item("TASK", u)
    BY ItemIs DEF NextResponse
  <2>3. InQueues(queue_tasks, queue_tasks_deferred, current', u)
            = InQueues(queue_tasks, queue_tasks_deferred, current, u)
    BY <2>2 DEF InQueues
  <2>4. QED BY <1>2, <2>1, <2>3
<1>5. QED BY <1>1, <1>2, <1>3, <1>4 DEF QueuesKept

LEMMA SlotStepIs ==
    ASSUME TypeOK, Control, QueuesOk, NEW s \in SlotIds, SlotStep(s)
    PROVE  \/ Quiet /\ UNCHANGED results
           \/ Quiet /\ ~IsIdle(s) /\ Send(slots[s].task, "partial")
           \/ Answered(s, "final") \/ Answered(s, "error")
<1>1. CASE SkipPrompt(s)
  <2>1. UNCHANGED <<queueVars, mainPc, current, waiting, sendVars, readerVars>> /\ mainPc = "prompt"
    BY <1>1 DEF SkipPrompt, OnPromptSlot
  <2>2. QueuesKept /\ SlotsMoved
    BY <1>1, <2>1, MovesKeep, MovesSlots
  <2>3. QED BY <2>1, <2>2 DEF Quiet, Still, sendVars, readerVars
<1>2. CASE AddPrompt(s)
  <2>1. UNCHANGED <<queueVars, mainPc, current, waiting, sendVars, readerVars>> /\ mainPc = "prompt"
    BY <1>2 DEF AddPrompt, OnPromptSlot
  <2>2. QueuesKept /\ SlotsMoved
    BY <1>2, <2>1, MovesKeep, MovesSlots
  <2>3. QED BY <2>1, <2>2 DEF Quiet, Still, sendVars, readerVars
<1>3. CASE SamplePartial(s)
  <2>1. /\ UNCHANGED <<queueVars, mainPc, current, waiting, readerVars>> /\ mainPc = "sample"
        /\ Send(slots[s].task, "partial") /\ OnSampleSlot(s)
    BY <1>3 DEF SamplePartial, OnSampleSlot
  <2>2. QueuesKept /\ SlotsMoved
    BY <1>3, <2>1, MovesKeep, MovesSlots
  <2>3. UNCHANGED sent
    BY <2>1 DEF Send
  <2>4. ~IsIdle(s)
    BY <2>1, SlotFound
  <2>5. QED BY <2>1, <2>2, <2>3, <2>4 DEF Quiet, Still, readerVars
<1>4. ASSUME NEW type, NEW l, SendAndRelease(s, type, l), ~IsIdle(s), mainPc # "release",
             UNCHANGED <<queueVars, slots, current, waiting, readerVars>>,
             type = "error" => mainPc = "fail" \/ (mainPc = "prompt" /\ TooLong(s))
      PROVE  Answered(s, type)
  <2>1. QueuesKept
    BY <1>4, MovesKeep
  <2>2. QED BY <1>4, <2>1 DEF SendAndRelease, Answered, Still, readerVars
<1>5. CASE EmptyPrompt(s)
  <2>1. ~IsIdle(s) /\ mainPc # "release" /\ SendAndRelease(s, "final", "prompt")
    BY <1>5, SlotFound DEF EmptyPrompt, OnPromptSlot
  <2>2. UNCHANGED <<queueVars, slots, current, waiting, readerVars>>
    BY <1>5 DEF EmptyPrompt
  <2>3. QED BY <1>4, <2>1, <2>2
<1>6. CASE RefusePrompt(s)
  <2>1. /\ ~IsIdle(s) /\ mainPc = "prompt" /\ SendAndRelease(s, "error", "prompt")
        /\ TooLong(s)
    BY <1>6, SlotFound DEF RefusePrompt, OnPromptSlot
  <2>2. UNCHANGED <<queueVars, slots, current, waiting, readerVars>>
    BY <1>6 DEF RefusePrompt
  <2>3. QED BY <1>4, <2>1, <2>2
<1>7. CASE SampleFinal(s)
  <2>1. ~IsIdle(s) /\ mainPc # "release" /\ SendAndRelease(s, "final", "sample")
    BY <1>7, SlotFound DEF SampleFinal, OnSampleSlot
  <2>2. UNCHANGED <<queueVars, slots, current, waiting, readerVars>>
    BY <1>7 DEF SampleFinal
  <2>3. QED BY <1>4, <2>1, <2>2
<1>8. CASE FailSlot(s)
  <2>1. ~IsIdle(s) /\ mainPc = "fail" /\ SendAndRelease(s, "error", "fail")
    BY <1>8, SlotFound DEF FailSlot
  <2>2. UNCHANGED <<queueVars, slots, current, waiting, readerVars>>
    BY <1>8 DEF FailSlot
  <2>3. QED BY <1>4, <2>1, <2>2
<1>9. QED BY <1>1, <1>2, <1>3, <1>5, <1>6, <1>7, <1>8 DEF SlotStep

LEMMA ProcessIs ==
    ASSUME TypeOK, Control, QueuesOk,
           Refuse \/ DeferTask \/ SlotAction \/ Metrics \/ CancelTask \/ IgnoreNextResponse
    PROVE  \/ Quiet /\ UNCHANGED results
           \/ \E s \in SlotIds : Freed(s)
           \/ \E t, u, type : Finished(t, u, type)
<1> DEFINE t == current.id
<1>1. mainPc = "process" /\ mainPc' = "drain" /\ current' = NextResponse /\ Still
  BY DEF Refuse, DeferTask, SlotAction, Metrics, CancelTask, IgnoreNextResponse, Process, Still, readerVars
<1>2. current.type = "TASK" =>
          current = Item("TASK", t) /\ t \in Tasks /\ ~IsChild(t) /\ Posted(t[1]) /\ Queued(t) > 0
  BY CurrentIs
<1> HIDE DEF t
<1>3. ASSUME NEW u, NEW type, Send(u, type), u \in Tasks, Top(u) = t, current.type = "TASK",
             UNCHANGED <<queueVars, slots>>,
             \/ type = "error" /\ ~Info(t).launches
             \/ type = "final" /\ Children(t) = {} /\ u = t /\ ~NeedsSlot(t)
      PROVE  Finished(t, u, type)
  <2>1. Dropped(t)
    BY <1>1, <1>2, <1>3, MovesKeep
  <2>2. QED BY <1>1, <1>2, <1>3, <2>1 DEF Finished
<1>4. ASSUME UNCHANGED slots, UNCHANGED sendVars, QueuesKept PROVE Quiet /\ UNCHANGED results
  <2>1. SlotsMoved
    BY <1>4, MovesSlots
  <2>2. QED BY <1>1, <1>4, <2>1 DEF Quiet, sendVars
<1>5. CASE Refuse
  <2> DEFINE u == IF Children(t) = {} THEN t ELSE <<t[1], t[2] + 1>>
  <2>1. /\ current.type = "TASK" /\ Send(u, "error") /\ UNCHANGED <<queueVars, slots>>
        /\ ~Info(t).launches
    BY <1>5 DEF Refuse, Process, t
  <2>2. u \in Tasks /\ Top(u) = t
    <3>1. CASE Children(t) = {}
      BY <1>2, <2>1, <3>1, TopIs
    <3>2. CASE Children(t) # {}
      <4>1. <<t[1], t[2] + 1>> \in Children(t)
        BY <1>2, <2>1, <3>2, ChildrenAre
      <4>2. QED BY <1>2, <2>1, <3>2, <4>1, ChildrenAre
    <3>3. QED BY <3>1, <3>2
  <2> HIDE DEF u
  <2>3. QED BY <1>3, <2>1, <2>2
<1>6. CASE DeferTask
  <2>1. /\ current.type = "TASK" /\ Defer(t) /\ UNCHANGED <<queue_tasks, slots>>
        /\ UNCHANGED sendVars
    BY <1>6 DEF DeferTask, Process, t
  <2>2. QueuesKept
    BY <1>1, <1>2, <2>1, MovesKeep
  <2>3. QED BY <1>4, <2>1, <2>2
<1>7. CASE SlotAction
  <2>1. /\ current.type = "TASK" /\ Info(t).kind = "SLOT_ACTION"
        /\ UNCHANGED <<queue_tasks, slots>>
        /\ \/ Send(t, "final") /\ UNCHANGED queue_tasks_deferred
           \/ Send(t, "error") /\ UNCHANGED queue_tasks_deferred /\ ~Info(t).launches
           \/ Defer(t) /\ UNCHANGED sendVars
    BY <1>7 DEF SlotAction, Process, t
  <2>2. Top(t) = t /\ Children(t) = {} /\ ~NeedsSlot(t)
    <3>1. Children(t) # {} => Info(t).kind = "COMPLETION"
      BY <1>2, <2>1, ChildrenAre
    <3>2. QED BY <1>2, <2>1, <3>1, TopIs DEF NeedsSlot
  <2>3. CASE Defer(t) /\ UNCHANGED sendVars
    <3>1. QueuesKept
      BY <1>1, <1>2, <2>1, <2>3, MovesKeep
    <3>2. QED BY <1>4, <2>1, <2>3, <3>1
  <2>4. CASE Send(t, "final") /\ UNCHANGED queue_tasks_deferred
    BY <1>2, <1>3, <2>1, <2>2, <2>4 DEF queueVars
  <2>5. CASE Send(t, "error") /\ UNCHANGED queue_tasks_deferred /\ ~Info(t).launches
    BY <1>2, <1>3, <2>1, <2>2, <2>5 DEF queueVars
  <2>6. QED BY <2>1, <2>3, <2>4, <2>5
<1>8. CASE Metrics
  <2>1. /\ current.type = "TASK" /\ Info(t).kind = "METRICS" /\ Send(t, "final")
        /\ UNCHANGED <<queueVars, slots>>
    BY <1>8 DEF Metrics, Process, t
  <2>2. Top(t) = t /\ Children(t) = {} /\ ~NeedsSlot(t)
    <3>1. Children(t) # {} => Info(t).kind = "COMPLETION"
      BY <1>2, <2>1, ChildrenAre
    <3>2. QED BY <1>2, <2>1, <3>1, TopIs DEF NeedsSlot
  <2>3. QED BY <1>2, <1>3, <2>1, <2>2
<1>9. CASE CancelTask
  <2> DEFINE mine == {s \in SlotIds : slots[s].task = t}
  <2>1. /\ current.type = "CANCEL" /\ UNCHANGED sendVars
        /\ IF mine = {} THEN UNCHANGED <<slots, queueVars>> ELSE Release(First(mine))
    BY <1>9 DEF CancelTask, Process, t
  <2>2. CASE mine = {}
    <3>1. UNCHANGED queueVars /\ UNCHANGED slots
      BY <2>1, <2>2
    <3>2. QueuesKept
      BY <1>1, <2>1, <3>1, MovesKeep
    <3>3. QED BY <1>4, <2>1, <3>1, <3>2
  <2>3. CASE mine # {}
    <3>1. First(mine) \in mine
      BY <2>3, FirstIs
    <3>2. PICK s \in SlotIds : s = First(mine) /\ slots[s].task = t
      BY <3>1
    <3>3. t \in Tasks /\ rpc[t[1]] = "done"
      BY <2>1, CurrentIs DEF t
    <3>4. Release(s)
      BY <2>1, <2>3, <3>2
    <3>5. QueuesKept /\ slots' = [slots EXCEPT ![s] = IdleSlot]
      BY <1>1, <2>1, <3>4, ReleaseFrees
    <3>6. ~IsIdle(s)
      <4>1. t # NoTask
        BY <3>3, TaskIs
      <4>2. QED BY <3>2, <4>1, SlotsAre DEF SlotsTyped
    <3>7. Freed(s)
      BY <1>1, <2>1, <3>2, <3>3, <3>4, <3>5, <3>6 DEF Freed, Release, sendVars
    <3>8. QED BY <3>7
  <2>4. QED BY <2>2, <2>3
<1>10. CASE IgnoreNextResponse
  <2>1. current.type = "NEXT_RESPONSE" /\ UNCHANGED queueVars /\ UNCHANGED slots /\ UNCHANGED sendVars
    BY <1>10 DEF IgnoreNextResponse, Process
  <2>2. QueuesKept
    BY <1>1, <2>1, MovesKeep
  <2>3. QED BY <1>4, <2>1, <2>2
<1>11. QED BY <1>5, <1>6, <1>7, <1>8, <1>9, <1>10

LEMMA MainStepIs ==
    ASSUME TypeOK, Control, QueuesOk, MainStep
    PROVE  \/ Quiet /\ UNCHANGED results
           \/ \E s \in SlotIds : Quiet /\ ~IsIdle(s) /\ Send(slots[s].task, "partial")
           \/ \E s \in SlotIds, type \in {"final", "error"} : Answered(s, type)
           \/ \E s \in SlotIds : Freed(s)
           \/ \E t, u, type : Finished(t, u, type)
           \/ \E t, s, f : Placed(t, s, f)
<1>1. ASSUME QueuesKept, SlotsMoved, UNCHANGED <<waiting, sendVars, readerVars>>,
             mainPc # "release", mainPc' # "release"
      PROVE  Quiet /\ UNCHANGED results
  BY <1>1 DEF Quiet, Still, sendVars, readerVars
<1>2. UNCHANGED slots => SlotsMoved
  BY MovesSlots
<1>3. CASE PopTask
  BY <1>1, <1>2, <1>3, MovesKeep DEF PopTask
<1>4. CASE WaitForTasks
  BY <1>1, <1>2, <1>4, MovesKeep DEF WaitForTasks
<1>5. CASE BeginUpdate
  <2>1. /\ UNCHANGED <<queue_tasks_deferred, current, slots, waiting, sendVars, readerVars>>
        /\ UNCHANGED queue_tasks \/ queue_tasks' = Append(queue_tasks, NextResponse)
        /\ mainPc = "update" /\ mainPc' \in {"wait", "prompt"}
    BY <1>5 DEF BeginUpdate
  <2>2. QueuesKept
    <3>1. CASE UNCHANGED queue_tasks
      <4>1. UNCHANGED <<queueVars, current>>
        BY <2>1, <3>1 DEF queueVars
      <4>2. QED BY <4>1, MovesKeep
    <3>2. CASE queue_tasks' = Append(queue_tasks, NextResponse)
      BY <2>1, <3>2, MovesKeep
    <3>3. QED BY <2>1, <3>1, <3>2
  <2>3. QED BY <1>1, <1>2, <2>1, <2>2
<1>6. CASE EndPrompts
  BY <1>1, <1>2, <1>6, MovesKeep DEF EndPrompts
<1>7. CASE DecodeNothing
  BY <1>1, <1>2, <1>7, MovesKeep DEF DecodeNothing
<1>8. CASE Decode
  BY <1>1, <1>8, MovesKeep, MovesSlots DEF Decode
<1>9. CASE DecodeFails
  BY <1>1, <1>2, <1>9, MovesKeep DEF DecodeFails
<1>10. CASE EndUpdate
  BY <1>1, <1>2, <1>10, MovesKeep DEF EndUpdate
<1>11. CASE ReleaseSlot
  <2>1. /\ mainPc = "release" /\ Release(at) /\ mainPc' = loop
        /\ UNCHANGED <<current, waiting, sendVars, readerVars>>
    BY <1>11 DEF ReleaseSlot
  <2>2. at \in SlotIds /\ ~IsIdle(at) /\ loop # "release"
    BY <2>1 DEF Control, TypeOK
  <2>3. QueuesKept /\ slots' = [slots EXCEPT ![at] = IdleSlot]
    BY <2>1, ReleaseFrees
  <2>4. Freed(at)
    BY <2>1, <2>2, <2>3 DEF Freed, Release, Still, sendVars, readerVars
  <2>5. QED BY <2>2, <2>4
<1>12. CASE Launch
  BY <1>12, LaunchPlaces
<1>13. CASE Refuse \/ DeferTask \/ SlotAction \/ Metrics \/ CancelTask \/ IgnoreNextResponse
  BY <1>13, ProcessIs
<1>14. CASE \E s \in SlotIds : SlotStep(s)
  <2>1. PICK s \in SlotIds : SlotStep(s)
    BY <1>14
  <2>2. \/ Quiet /\ UNCHANGED results
        \/ Quiet /\ ~IsIdle(s) /\ Send(slots[s].task, "partial")
        \/ Answered(s, "final") \/ Answered(s, "error")
    BY <2>1, SlotStepIs
  <2>3. QED BY <2>2
<1>15. QED
  BY <1>3, <1>4, <1>5, <1>6, <1>7, <1>8, <1>9, <1>10, <1>11, <1>12, <1>13, <1>14 DEF MainStep

-----------------------------------------------------------------------------
(* Where the tasks are.                                                    *)

LEMMA QueuedThen ==
    ASSUME NEW t, NEW u, u = Top(t)'
    PROVE  Queued(Top(t))' = Queued(u)'
<1>1. Queued(Top(t))' = InQueues(queue_tasks', queue_tasks_deferred', current', Top(t)')
  BY DEF Queued, Copies, InQueues, Count, At
<1>2. QED BY <1>1, QueuedIs

LEMMA HeldThen ==
    ASSUME NEW t, NEW u, u = Top(t)'
    PROVE  Held(t)' = Queued(u)' + (IF HasSlot(t)' THEN 1 ELSE 0)
BY QueuedThen DEF Held

LEMMA HeldIs ==
    ASSUME UNCHANGED req, NEW t, NEW u, u = Top(t)
    PROVE  /\ Held(t) = Queued(u) + (IF HasSlot(t) THEN 1 ELSE 0)
           /\ Held(t)' = Queued(u)' + (IF HasSlot(t)' THEN 1 ELSE 0)
<1>1. Top(t)' = u
  BY SameRequests
<1>2. QED BY <1>1, HeldThen DEF Held

\* What the release at the end of an answer relies on.
ReleaseOk == mainPc = "release" => ~IsIdle(at) /\ sent[slots[at].task] # <<>>

Accounted == SlotsOk /\ AnswersOk /\ PlacesOk /\ ReleaseOk

\* Answers are not taken back.
LEMMA FailedGrows ==
    ASSUME TypeOK, UNCHANGED req, NEW r \in Requests, Failed(r),
           \A t \in TaskIds : sent[t] # <<>> => sent'[t] = sent[t]
    PROVE  Failed(r)'
<1>1. PICK t \in Ids(r) : Len(sent[t]) > 0 /\ sent[t][1] = "error"
  BY DEF Failed
<1>2. t \in TaskIds
  BY TaskOf_ DEF Ids
<1>3. sent[t] # <<>>
  BY <1>1, EmptySeq
<1>4. sent'[t] = sent[t] /\ Ids(r)' = Ids(r)
  BY <1>2, <1>3, SameRequests
<1>5. QED BY <1>1, <1>4 DEF Failed

LEMMA SendIs ==
    ASSUME TypeOK, NEW t \in TaskIds, NEW type \in {"partial", "final", "error"}, Send(t, type)
    PROVE  /\ results' \in [Requests -> Seq(Result)]
           /\ sent' \in [TaskIds -> Seq({"final", "error"})]
           /\ \A u \in TaskIds : u # t \/ type = "partial" => sent'[u] = sent[u]
           /\ type # "partial" => sent'[t] = Append(sent[t], type)
           /\ \A r \in Requests :
                 results'[r] = IF r = t[1] /\ r \in waiting
                               THEN Append(results[r], [index |-> t[2], type |-> type])
                               ELSE results[r]
<1> DEFINE x == [index |-> t[2], type |-> type]
<1>1. /\ results \in [Requests -> Seq(Result)] /\ sent \in [TaskIds -> Seq({"final", "error"})]
      /\ t[1] \in Requests /\ x \in Result
  BY DEF TypeOK, TaskIds, Result
<1> HIDE DEF x
<1>2. results' = IF t[1] \in waiting THEN [results EXCEPT ![t[1]] = Append(@, x)] ELSE results
  BY DEF Send, x
<1>3. results[t[1]] \in Seq(Result) /\ Append(results[t[1]], x) \in Seq(Result)
  BY <1>1, AppendProperties
<1>4. /\ results' \in [Requests -> Seq(Result)]
      /\ \A r \in Requests :
            results'[r] = IF r = t[1] /\ r \in waiting THEN Append(results[r], x) ELSE results[r]
  BY <1>1, <1>2, <1>3
<1>5. sent' = IF type = "partial" THEN sent ELSE [sent EXCEPT ![t] = Append(@, type)]
  BY DEF Send
<1>6. /\ sent' \in [TaskIds -> Seq({"final", "error"})]
      /\ \A u \in TaskIds : u # t \/ type = "partial" => sent'[u] = sent[u]
      /\ type # "partial" => sent'[t] = Append(sent[t], type)
  <2>1. CASE type = "partial"
    BY <1>1, <1>5, <2>1
  <2>2. CASE type # "partial"
    <3>1. sent' = [sent EXCEPT ![t] = Append(@, type)] /\ type \in {"final", "error"}
      BY <1>5, <2>2
    <3>2. sent[t] \in Seq({"final", "error"}) /\ Append(sent[t], type) \in Seq({"final", "error"})
      BY <1>1, <3>1, AppendProperties
    <3>3. QED BY <1>1, <2>2, <3>1, <3>2
  <2>3. QED BY <2>1, <2>2
<1>7. QED BY <1>4, <1>6 DEF x

\* A task that is queued or has a slot is not answered before its release.
LEMMA HeldIsOpen ==
    ASSUME TypeOK, QueuesOk, Accounted, NEW t \in Tasks
    PROVE  /\ Queued(Top(t)) \in Nat
           /\ HasSlot(t) => Queued(Top(t)) = 0
           /\ mainPc # "release" /\ (HasSlot(t) \/ Queued(Top(t)) > 0) => sent[t] = <<>>
<1>1. Queued(Top(t)) \in Nat
  BY QueuedIsNat
<1>2. Held(t) = Queued(Top(t)) + (IF HasSlot(t) THEN 1 ELSE 0) /\ Held(t) <= 1
  BY DEF Held, Accounted, PlacesOk
<1>3. HasSlot(t) => Queued(Top(t)) = 0
  BY <1>1, <1>2
<1>4. HasSlot(t) \/ Queued(Top(t)) > 0 => Held(t) # 0
  BY <1>1, <1>2
<1>5. sent[t] # <<>> /\ Held(t) # 0 => mainPc = "release"
  BY DEF Accounted, PlacesOk
<1>6. QED BY <1>1, <1>3, <1>4, <1>5

\* What is left alone by a step that keeps the readers.
LEMMA StillIs ==
    ASSUME TypeOK, Still
    PROVE  /\ UNCHANGED req /\ Tasks' = Tasks /\ Onward
           /\ \A r : Posted(r)' = Posted(r)
BY SameRequests DEF Still, Onward, Posted

\* The answer of a task that has none.
LEMMA AnswerIs ==
    ASSUME TypeOK, AnswersOk, Still, NEW o \in Tasks, Posted(o[1]), sent[o] = <<>>,
           NEW type \in {"final", "error"}, Send(o, type)
    PROVE  /\ sent'[o] = <<type>> /\ sent'[o] # <<>>
           /\ \A u \in TaskIds : u # o => sent'[u] = sent[u]
           /\ \A r \in Requests : Failed(r) => Failed(r)'
           /\ AnswersOk'
<1>1. o \in TaskIds /\ Tasks' = Tasks /\ UNCHANGED req /\ \A r : Posted(r)' = Posted(r)
  BY StillIs, TaskIs
<1>2. sent'[o] = Append(<<>>, type) /\ \A u \in TaskIds : u # o => sent'[u] = sent[u]
  BY <1>1, SendIs
<1>3. Append(<<>>, type) = <<type>> /\ Len(<<type>>) = 1 /\ <<type>> # <<>>
  OBVIOUS
<1>4. sent'[o] = <<type>> /\ sent'[o] # <<>> /\ Len(sent'[o]) = 1
  BY <1>2, <1>3
<1>5. \A r \in Requests : Failed(r) => Failed(r)'
  BY <1>1, <1>2, FailedGrows
<1>6. ASSUME NEW t \in TaskIds
      PROVE  Len(sent'[t]) <= 1 /\ (sent'[t] # <<>> => t \in Tasks /\ Posted(t[1]))
  <2>1. CASE t = o
    <3>1. Len(sent'[t]) = 1
      BY <1>4, <2>1
    <3>2. QED BY <1>1, <2>1, <3>1
  <2>2. CASE t # o
    <3>1. sent'[t] = sent[t]
      BY <1>2, <2>2
    <3>2. QED BY <3>1 DEF AnswersOk
  <2>3. QED BY <2>1, <2>2
<1>7. AnswersOk'
  BY <1>1, <1>6 DEF AnswersOk
<1>8. QED BY <1>2, <1>4, <1>5, <1>7

LEMMA QuietAccounts ==
    ASSUME TypeOK, QueuesOk, Accounted, Quiet
    PROVE  Accounted'
<1>1. /\ UNCHANGED <<req, rpc, sent>> /\ Tasks' = Tasks /\ mainPc # "release" /\ mainPc' # "release"
      /\ \A r : Posted(r)' = Posted(r)
  BY StillIs DEF Quiet, Still
<1>2. \A s \in SlotIds : slots'[s].task = slots[s].task /\ (IsIdle(s)' <=> IsIdle(s))
  BY SlotsAre DEF Quiet, SlotsMoved, SlotsTyped
<1>3. SlotsOk'
  BY <1>1, <1>2 DEF Accounted, SlotsOk
<1>4. AnswersOk'
  BY <1>1 DEF Accounted, AnswersOk
<1>5. ASSUME NEW t \in Tasks PROVE Held(t)' = Held(t) /\ HasSlot(t)' = HasSlot(t)
  <2>1. HasSlot(t)' = HasSlot(t)
    BY <1>2 DEF HasSlot
  <2>2. PICK u : u = Top(t)
    OBVIOUS
  <2>3. Queued(u)' = Queued(u)
    BY DEF Quiet, QueuesKept
  <2>4. QED BY <1>1, <2>1, <2>2, <2>3, HeldIs
<1>6. \A r : Failed(r)' = Failed(r)
  BY <1>1, SameRequests DEF Failed
<1>7. PlacesOk'
  <2>1. ASSUME NEW t \in Tasks
        PROVE  /\ Held(t)' <= 1
               /\ ~(sent'[t] # <<>> /\ Held(t)' # 0)
               /\ rpc'[t[1]] = "waiting" /\ sent'[t] = <<>> /\ ~Failed(t[1])' => Held(t)' = 1
    BY <1>1, <1>5, <1>6 DEF Accounted, PlacesOk
  <2>2. QED BY <1>1, <2>1 DEF PlacesOk
<1>8. ReleaseOk'
  BY <1>1 DEF ReleaseOk
<1>9. QED BY <1>3, <1>4, <1>7, <1>8 DEF Accounted

LEMMA AnsweredAccounts ==
    ASSUME TypeOK, QueuesOk, Accounted, NEW s \in SlotIds, NEW type \in {"final", "error"},
           Answered(s, type)
    PROVE  Accounted' /\ slots[s].task \in Tasks /\ sent[slots[s].task] = <<>>
<1> DEFINE o == slots[s].task
<1>1. /\ UNCHANGED <<req, rpc, slots>> /\ Tasks' = Tasks /\ mainPc # "release"
      /\ mainPc' = "release" /\ at' = s /\ ~IsIdle(s) /\ Send(o, type)
      /\ \A r : Posted(r)' = Posted(r)
  BY StillIs DEF Answered, Still
<1>2. o \in Tasks /\ o # NoTask /\ o \in TaskIds /\ Posted(o[1])
  BY <1>1, SlotsAre, TaskIs DEF SlotsTyped, Accounted, SlotsOk
<1>3. HasSlot(o) /\ slots'[s].task = o
  BY <1>1 DEF HasSlot
<1> HIDE DEF o
<1>4. sent[o] = <<>>
  BY <1>1, <1>2, <1>3, HeldIsOpen
<1>5. /\ sent'[o] # <<>> /\ \A u \in TaskIds : u # o => sent'[u] = sent[u]
      /\ \A r \in Requests : Failed(r) => Failed(r)'
      /\ AnswersOk'
  BY <1>1, <1>2, <1>4, AnswerIs DEF Answered, Accounted
<1>6. SlotsOk'
  BY <1>1 DEF Accounted, SlotsOk, IsIdle
<1>8. ASSUME NEW t \in Tasks PROVE Held(t)' = Held(t)
  <2>1. HasSlot(t)' = HasSlot(t)
    BY <1>1 DEF HasSlot
  <2>2. PICK u : u = Top(t)
    OBVIOUS
  <2>3. Queued(u)' = Queued(u)
    BY DEF Answered, QueuesKept
  <2>4. QED BY <1>1, <2>1, <2>2, <2>3, HeldIs
<1>9. ASSUME NEW t \in Tasks
      PROVE  /\ Held(t)' <= 1
             /\ sent'[t] # <<>> /\ Held(t)' # 0 => slots'[s].task = t
             /\ rpc'[t[1]] = "waiting" /\ sent'[t] = <<>> /\ ~Failed(t[1])' => Held(t)' = 1
  <2>1. /\ Held(t) <= 1
        /\ sent[t] # <<>> /\ Held(t) # 0 => mainPc = "release"
        /\ rpc[t[1]] = "waiting" /\ sent[t] = <<>> /\ ~Failed(t[1]) => Held(t) = 1
    BY DEF Accounted, PlacesOk
  <2>2. t \in TaskIds /\ t[1] \in Requests
    BY TaskIs
  <2>3. Failed(t[1]) => Failed(t[1])'
    BY <1>5, <2>2
  <2>4. CASE t = o
    <3>1. sent'[t] # <<>>
      BY <1>5, <2>4
    <3>2. QED BY <1>3, <1>8, <2>1, <2>4, <3>1
  <2>5. CASE t # o
    <3>1. sent'[t] = sent[t]
      BY <1>5, <2>2, <2>5
    <3>2. QED BY <1>1, <1>8, <2>1, <2>3, <3>1
  <2>6. QED BY <2>4, <2>5
<1>10. PlacesOk'
  BY <1>1, <1>9 DEF PlacesOk
<1>11. ReleaseOk'
  <2>1. ~IsIdle(s)' /\ sent'[slots'[s].task] # <<>>
    BY <1>1, <1>3, <1>5 DEF IsIdle
  <2>2. ~IsIdle(at)'
    BY <1>1, <2>1 DEF IsIdle
  <2>3. QED BY <1>1, <2>1, <2>2 DEF ReleaseOk
<1>12. QED BY <1>2, <1>4, <1>5, <1>6, <1>10, <1>11 DEF Accounted, o

LEMMA FreedAccounts ==
    ASSUME TypeOK, QueuesOk, Accounted, NEW s \in SlotIds, Freed(s)
    PROVE  Accounted'
<1>0. PICK o : o = slots[s].task
  OBVIOUS
<1>1. /\ UNCHANGED <<req, rpc, sent>> /\ Tasks' = Tasks /\ mainPc' # "release"
      /\ ~IsIdle(s) /\ slots' = [slots EXCEPT ![s] = IdleSlot]
      /\ IF mainPc = "release" THEN s = at ELSE rpc[o[1]] = "done"
      /\ \A r : Posted(r)' = Posted(r)
  BY <1>0, StillIs DEF Freed, Still
<1>2. /\ o \in Tasks /\ o # NoTask
      /\ \A x \in SlotIds : slots[x].task = NoTask <=> IsIdle(x)
      /\ \A x \in SlotIds : slots[x].task = o => x = s
  <2>1. \A x \in SlotIds : slots[x].task = NoTask <=> IsIdle(x)
    BY SlotsAre DEF SlotsTyped
  <2>2. o \in Tasks /\ o # NoTask
    BY <1>0, <1>1, <2>1 DEF Accounted, SlotsOk
  <2>3. QED BY <1>0, <1>1, <2>1, <2>2 DEF Accounted, SlotsOk
<1>3. /\ slots'[s].task = NoTask /\ IsIdle(s)'
      /\ \A x \in SlotIds : x # s => slots'[x] = slots[x] /\ IsIdle(x)' = IsIdle(x)
  <2>1. slots \in [SlotIds -> SlotT]
    BY SlotsAre DEF SlotsTyped
  <2>2. slots'[s] = IdleSlot /\ \A x \in SlotIds : x # s => slots'[x] = slots[x]
    BY <1>1, <2>1
  <2>3. QED BY <2>2 DEF IdleSlot, IsIdle
<1>4. SlotsOk'
  <2>1. ASSUME NEW x \in SlotIds, slots'[x].task # NoTask
        PROVE  slots'[x].task \in Tasks /\ rpc'[slots'[x].task[1]] \notin {"new", "registered"}
    <3>1. x # s /\ slots'[x] = slots[x]
      BY <1>3, <2>1
    <3>2. slots[x].task \in Tasks /\ Posted(slots[x].task[1])
      BY <2>1, <3>1 DEF Accounted, SlotsOk
    <3>3. QED BY <1>1, <3>1, <3>2 DEF Posted
  <2>2. ASSUME NEW x \in SlotIds, NEW y \in SlotIds, slots'[x].task = slots'[y].task, x # y
        PROVE  IsIdle(x)'
    <3>1. CASE x = s
      BY <1>3, <3>1
    <3>2. CASE y = s
      BY <1>2, <1>3, <2>2, <3>2
    <3>3. CASE x # s /\ y # s
      <4>1. slots'[x] = slots[x] /\ slots'[y] = slots[y] /\ IsIdle(x)' = IsIdle(x)
        BY <1>3, <3>3
      <4>2. QED BY <2>2, <4>1 DEF Accounted, SlotsOk
    <3>4. QED BY <3>1, <3>2, <3>3
  <2>3. QED BY <1>1, <2>1, <2>2 DEF SlotsOk, Posted
<1>5. AnswersOk'
  BY <1>1 DEF Accounted, AnswersOk
<1>6. ~HasSlot(o)' /\ HasSlot(o)
  <2>1. \A x \in SlotIds : slots'[x].task # o
    BY <1>2, <1>3
  <2>2. QED BY <1>0, <2>1 DEF HasSlot
<1>7. ASSUME NEW t \in Tasks, t # o PROVE HasSlot(t)' = HasSlot(t)
  <2>1. t # NoTask
    BY TaskIs
  <2>2. \A x \in SlotIds : slots'[x].task = t <=> slots[x].task = t
    BY <1>0, <1>3, <1>7, <2>1
  <2>3. QED BY <2>2 DEF HasSlot
<1>8. ASSUME NEW t \in Tasks
      PROVE  IF t = o THEN Held(t)' = 0 ELSE Held(t)' = Held(t)
  <2>1. PICK u : u = Top(t)
    OBVIOUS
  <2>2. Queued(u)' = Queued(u)
    BY DEF Freed, QueuesKept
  <2>3. /\ Held(t) = Queued(u) + (IF HasSlot(t) THEN 1 ELSE 0)
        /\ Held(t)' = Queued(u)' + (IF HasSlot(t)' THEN 1 ELSE 0)
    BY <1>1, <2>1, HeldIs
  <2>4. HasSlot(t) => Queued(u) = 0
    BY <2>1, HeldIsOpen
  <2>5. CASE t = o
    <3>1. HasSlot(t) /\ ~HasSlot(t)'
      BY <1>6, <2>5
    <3>2. QED BY <2>2, <2>3, <2>4, <2>5, <3>1
  <2>6. CASE t # o
    BY <1>7, <2>2, <2>3, <2>6
  <2>7. QED BY <2>5, <2>6
<1>9. ASSUME NEW t \in Tasks
      PROVE  /\ Held(t)' <= 1
             /\ ~(sent[t] # <<>> /\ Held(t)' # 0)
             /\ rpc[t[1]] = "waiting" /\ sent[t] = <<>> /\ ~Failed(t[1]) => Held(t)' = 1
  <2>1. /\ Held(t) <= 1
        /\ sent[t] # <<>> /\ Held(t) # 0 => mainPc = "release" /\ slots[at].task = t
        /\ rpc[t[1]] = "waiting" /\ sent[t] = <<>> /\ ~Failed(t[1]) => Held(t) = 1
    BY DEF Accounted, PlacesOk
  <2>2. CASE t = o
    <3>1. rpc[o[1]] = "done" \/ sent[o] # <<>>
      BY <1>0, <1>1 DEF Accounted, ReleaseOk
    <3>2. Held(t)' = 0
      BY <1>8, <2>2
    <3>3. QED BY <2>2, <3>1, <3>2
  <2>3. CASE t # o
    <3>1. mainPc = "release" => slots[at].task # t
      BY <1>0, <1>1, <2>3
    <3>2. Held(t)' = Held(t)
      BY <1>8, <2>3
    <3>3. QED BY <2>1, <3>1, <3>2
  <2>4. QED BY <2>2, <2>3
<1>10. \A r : Failed(r)' = Failed(r)
  BY <1>1, SameRequests DEF Failed
<1>11. PlacesOk'
  BY <1>1, <1>9, <1>10 DEF PlacesOk
<1>12. ReleaseOk'
  BY <1>1 DEF ReleaseOk
<1>13. QED BY <1>4, <1>5, <1>11, <1>12 DEF Accounted

LEMMA FinishedAccounts ==
    ASSUME TypeOK, QueuesOk, Accounted, NEW t, NEW u, NEW type, Finished(t, u, type)
    PROVE  Accounted' /\ u \in Tasks /\ sent[u] = <<>> /\ type \in {"final", "error"}
<1>1. /\ UNCHANGED <<req, rpc, slots>> /\ Tasks' = Tasks /\ Still
      /\ mainPc # "release" /\ mainPc' # "release"
      /\ t \in Tasks /\ ~IsChild(t) /\ Posted(t[1]) /\ Queued(t) > 0
      /\ Send(u, type) /\ u \in Tasks /\ Top(u) = t
      /\ type = "error" \/ (type = "final" /\ Children(t) = {} /\ u = t)
      /\ \A r : Posted(r)' = Posted(r)
  BY StillIs DEF Finished, Still
<1>2. sent[u] = <<>> /\ Posted(u[1]) /\ u \in TaskIds /\ u[1] = t[1] /\ u[1] \in Requests
  <2>1. sent[u] = <<>>
    BY <1>1, HeldIsOpen
  <2>2. QED BY <1>1, <2>1, TopIs, TaskIs
<1>3. /\ sent'[u] = <<type>> /\ sent'[u] # <<>>
      /\ \A v \in TaskIds : v # u => sent'[v] = sent[v]
      /\ \A r \in Requests : Failed(r) => Failed(r)'
      /\ AnswersOk'
  BY <1>1, <1>2, AnswerIs DEF Accounted
<1>4. SlotsOk'
  BY <1>1 DEF Accounted, SlotsOk, IsIdle
<1>5. ASSUME NEW v \in Tasks
      PROVE  IF Top(v) = t THEN Held(v)' = 0 /\ Held(v) = 1 ELSE Held(v)' = Held(v)
  <2>1. HasSlot(v)' = HasSlot(v)
    BY <1>1 DEF HasSlot
  <2>2. PICK w : w = Top(v)
    OBVIOUS
  <2>3. Queued(w) = Queued(w)' + (IF w = t THEN 1 ELSE 0)
    BY DEF Finished, Dropped
  <2>4. /\ Held(v) = Queued(w) + (IF HasSlot(v) THEN 1 ELSE 0)
        /\ Held(v)' = Queued(w)' + (IF HasSlot(v)' THEN 1 ELSE 0)
    BY <1>1, <2>2, HeldIs
  <2>5. Queued(w) \in Nat /\ Held(v) <= 1
    BY <2>2, HeldIsOpen DEF Accounted, PlacesOk
  <2>6. Queued(w)' \in Nat
    <3>1. Queued(w)' = InQueues(queue_tasks', queue_tasks_deferred', current', w)
      BY QueuedIs
    <3>2. QED BY <3>1, InQueuesIsNat DEF Finished, Dropped
  <2>7. CASE w = t
    BY <1>1, <2>1, <2>2, <2>3, <2>4, <2>5, <2>6, <2>7
  <2>8. CASE w # t
    BY <2>1, <2>2, <2>3, <2>4, <2>5, <2>6, <2>8
  <2>9. QED BY <2>7, <2>8
<1>6. type = "error" => Failed(u[1])'
  <2>1. type = "error" => Len(sent'[u]) > 0 /\ sent'[u][1] = "error"
    BY <1>3
  <2>2. u \in Ids(u[1])'
    BY <1>1, TaskIs, SameRequests
  <2>3. QED BY <2>1, <2>2 DEF Failed
<1>7. ASSUME NEW v \in Tasks
      PROVE  /\ Held(v)' <= 1
             /\ ~(sent'[v] # <<>> /\ Held(v)' # 0)
             /\ rpc[v[1]] = "waiting" /\ sent'[v] = <<>> /\ ~Failed(v[1])' => Held(v)' = 1
  <2>1. /\ Held(v) <= 1
        /\ sent[v] # <<>> => ~(Held(v) # 0)
        /\ rpc[v[1]] = "waiting" /\ sent[v] = <<>> /\ ~Failed(v[1]) => Held(v) = 1
    BY <1>1 DEF Accounted, PlacesOk
  <2>2. v \in TaskIds /\ v[1] \in Requests /\ Top(v)[1] = v[1]
    BY TaskIs, TopIs
  <2>3. CASE Top(v) = t
    <3>1. Held(v)' = 0
      BY <1>5, <2>3
    <3>2. type = "error" => Failed(v[1])'
      BY <1>2, <1>6, <2>2, <2>3
    <3>3. type = "final" => v = u
      BY <1>1, <2>3, ChildrenAre
    <3>4. QED BY <1>1, <1>3, <3>1, <3>2, <3>3
  <2>4. CASE Top(v) # t
    <3>1. Held(v)' = Held(v) /\ v # u
      BY <1>1, <1>5, <2>4
    <3>2. sent'[v] = sent[v]
      BY <1>3, <2>2, <3>1
    <3>3. QED BY <1>3, <2>1, <2>2, <3>1, <3>2
  <2>5. QED BY <2>3, <2>4
<1>8. PlacesOk'
  BY <1>1, <1>7 DEF PlacesOk
<1>9. ReleaseOk'
  BY <1>1 DEF ReleaseOk
<1>10. QED BY <1>1, <1>2, <1>3, <1>4, <1>8, <1>9 DEF Accounted

LEMMA PlacedAccounts ==
    ASSUME TypeOK, QueuesOk, Accounted, NEW t, NEW s, NEW f, Placed(t, s, f)
    PROVE  Accounted'
<1> DEFINE Family == {t} \cup Children(t)
           Fresh  == {s} \cup {f[c] : c \in Children(t)}
<1>1. /\ UNCHANGED <<req, rpc, sent>> /\ Tasks' = Tasks
      /\ mainPc # "release" /\ mainPc' # "release"
      /\ t \in Tasks /\ ~IsChild(t) /\ Posted(t[1]) /\ Queued(t) > 0
      /\ s \in IdleSlots /\ f \in [Children(t) -> IdleSlots \ {s}]
      /\ \A c, e \in Children(t) : f[c] = f[e] => c = e
      /\ \A r : Posted(r)' = Posted(r)
  BY StillIs DEF Placed, Still
<1>2. /\ slots'[s].task = t /\ \A c \in Children(t) : slots'[f[c]].task = c
      /\ \A x \in SlotIds \ Fresh : slots'[x] = slots[x]
      /\ \A x \in SlotIds : IsIdle(x)' <=> slots'[x].task = NoTask
  BY DEF Placed, SlotsTyped
<1>3. \A c \in Children(t) : c \in Tasks /\ c[1] = t[1] /\ c # t /\ Top(c) = t
  BY <1>1, ChildrenAre
<1>4. \A v \in Tasks : Top(v) = t <=> v \in Family
  BY <1>1, <1>3, ChildrenAre, TopIs
<1>5. Family \subseteq Tasks /\ \A v \in Family : v # NoTask /\ v[1] = t[1]
  BY <1>1, <1>3, TaskIs
<1>6. Fresh \subseteq IdleSlots /\ Fresh \subseteq SlotIds
  BY <1>1 DEF IdleSlots
<1>7. \A v \in Family : ~HasSlot(v)
  BY <1>1, <1>4, <1>5, HeldIsOpen
<1>8. \A x \in Fresh : slots'[x].task \in Family
  BY <1>2
<1>9. \A x, y \in Fresh : slots'[x].task = slots'[y].task => x = y
  BY <1>1, <1>2, <1>3
<1>10. \A v \in Family : \E x \in Fresh : slots'[x].task = v
  BY <1>2
<1> HIDE DEF Family, Fresh
<1>11. \A x \in SlotIds \ Fresh : slots'[x].task \notin Family
  BY <1>2, <1>7 DEF HasSlot
<1>12. \A x \in Fresh : slots[x].task = NoTask
  BY <1>6, SlotsAre DEF SlotsTyped, IdleSlots
<1>13. SlotsOk'
  <2>1. ASSUME NEW x \in SlotIds, slots'[x].task # NoTask
        PROVE  slots'[x].task \in Tasks /\ Posted(slots'[x].task[1])
    <3>1. CASE x \in Fresh
      BY <1>1, <1>5, <1>8, <3>1
    <3>2. CASE x \notin Fresh
      <4>1. slots'[x] = slots[x]
        BY <1>2, <3>2
      <4>2. QED BY <2>1, <4>1 DEF Accounted, SlotsOk
    <3>3. QED BY <3>1, <3>2
  <2>2. ASSUME NEW x \in SlotIds, NEW y \in SlotIds, slots'[x].task = slots'[y].task, x # y
        PROVE  slots'[x].task = NoTask
    <3>1. x \notin Fresh /\ y \notin Fresh
      BY <1>8, <1>9, <1>11, <2>2
    <3>2. slots'[x] = slots[x] /\ slots'[y] = slots[y]
      BY <1>2, <3>1
    <3>3. IsIdle(x)
      BY <2>2, <3>2 DEF Accounted, SlotsOk
    <3>4. QED BY <3>2, <3>3, SlotsAre DEF SlotsTyped
  <2>3. \A x, y \in SlotIds : slots'[x].task = slots'[y].task /\ x # y => IsIdle(x)'
    BY <1>2, <2>2
  <2>4. \A r : rpc'[r] \notin {"new", "registered"} <=> Posted(r)
    BY <1>1 DEF Posted
  <2>5. QED BY <1>1, <2>1, <2>3, <2>4 DEF SlotsOk, Posted
<1>14. AnswersOk'
  BY <1>1 DEF Accounted, AnswersOk
<1>15. ASSUME NEW v \in Tasks
       PROVE  IF v \in Family THEN HasSlot(v)' ELSE HasSlot(v)' = HasSlot(v)
  <2>1. CASE v \in Family
    BY <1>6, <1>10, <2>1 DEF HasSlot
  <2>2. CASE v \notin Family
    <3>1. v # NoTask
      BY TaskIs
    <3>2. \A x \in SlotIds : slots'[x].task = v <=> slots[x].task = v
      BY <1>2, <1>8, <1>12, <2>2, <3>1
    <3>3. QED BY <2>2, <3>2 DEF HasSlot
  <2>3. QED BY <2>1, <2>2
<1>16. ASSUME NEW v \in Tasks PROVE Held(v)' = Held(v)
  <2>1. PICK w : w = Top(v)
    OBVIOUS
  <2>2. Queued(w) = Queued(w)' + (IF w = t THEN 1 ELSE 0)
    BY DEF Placed, Dropped
  <2>3. /\ Held(v) = Queued(w) + (IF HasSlot(v) THEN 1 ELSE 0)
        /\ Held(v)' = Queued(w)' + (IF HasSlot(v)' THEN 1 ELSE 0)
    BY <1>1, <2>1, HeldIs
  <2>4. Queued(w) \in Nat
    BY <2>1, HeldIsOpen
  <2>5. Queued(w)' \in Nat
    <3>1. Queued(w)' = InQueues(queue_tasks', queue_tasks_deferred', current', w)
      BY QueuedIs
    <3>2. QED BY <3>1, InQueuesIsNat DEF Placed, Dropped
  <2>6. CASE w = t
    <3>1. ~HasSlot(v) /\ HasSlot(v)'
      BY <1>4, <1>7, <1>15, <2>1, <2>6
    <3>2. QED BY <2>2, <2>3, <2>4, <2>5, <2>6, <3>1
  <2>7. CASE w # t
    <3>1. HasSlot(v)' = HasSlot(v)
      BY <1>4, <1>15, <2>1, <2>7
    <3>2. QED BY <2>2, <2>3, <2>4, <2>5, <2>7, <3>1
  <2>8. QED BY <2>6, <2>7
<1>17. \A r : Failed(r)' = Failed(r)
  BY <1>1, SameRequests DEF Failed
<1>18. ASSUME NEW v \in Tasks
       PROVE  /\ Held(v)' <= 1
              /\ ~(sent[v] # <<>> /\ Held(v)' # 0)
              /\ rpc[v[1]] = "waiting" /\ sent[v] = <<>> /\ ~Failed(v[1])' => Held(v)' = 1
  BY <1>1, <1>16, <1>17 DEF Accounted, PlacesOk
<1>19. PlacesOk'
  BY <1>1, <1>18 DEF PlacesOk
<1>20. ReleaseOk'
  BY <1>1 DEF ReleaseOk
<1>21. QED BY <1>13, <1>14, <1>19, <1>20 DEF Accounted

-----------------------------------------------------------------------------
(* What the readers are sent.                                              *)

LEMMA ResultsAre ==
    ASSUME TypeOK, NEW r \in Requests, ResultsOk(r)
    PROVE  /\ results[r] \in Seq(Result)
           /\ \A k \in DOMAIN results[r] : /\ results[r][k] \in Result
                                           /\ <<r, results[r][k].index>> \in Tasks
                                           /\ <<r, results[r][k].index>> \in TaskIds
           /\ \A i \in seen[r] : <<r, i>> \in TaskIds
<1>1. results[r] \in Seq(Result)
  BY DEF TypeOK
<1>2. \A k \in DOMAIN results[r] : results[r][k] \in Result
  BY <1>1, LenProperties, ElementOfSeq
<1>3. /\ \A k \in DOMAIN results[r] : results[r][k].index \in DOMAIN req[r]
      /\ \A i \in seen[r] : i \in DOMAIN req[r]
  BY DEF ResultsOk
<1>4. QED BY <1>1, <1>2, <1>3, TaskOf_

\* A step that sends nothing and takes nothing.
LEMMA ResultsStay ==
    ASSUME NEW r \in Requests, ResultsOk(r),
           UNCHANGED <<sent, results, req, seen, received_count, rpc>>
    PROVE  ResultsOk(r)'
BY DEF ResultsOk

LEMMA ResultsSent ==
    ASSUME TypeOK, Readers, AnswersOk, Still, NEW t \in Tasks, Posted(t[1]), sent[t] = <<>>,
           NEW type \in {"partial", "final", "error"}, Send(t, type),
           NEW r \in Requests, ResultsOk(r)
    PROVE  ResultsOk(r)'
<1> DEFINE x == [index |-> t[2], type |-> type]
<1>1. UNCHANGED <<req, rpc, waiting, received_count, seen>> /\ t \in TaskIds /\ t = <<t[1], t[2]>>
      /\ t[2] \in DOMAIN req[t[1]]
  BY TaskIs DEF Still
<1>2. \A u \in TaskIds : sent[u] # <<>> => sent'[u] # <<>>
  BY <1>1, SendIs
<1>3. type # "partial" => sent'[t] # <<>>
  BY <1>1, AnswerIs
<1>4. PICK q : q = results[r]
  OBVIOUS
<1>5. PICK p : p = results'[r]
  OBVIOUS
<1>6. p = IF r = t[1] /\ r \in waiting THEN Append(q, x) ELSE q
  BY <1>1, <1>4, <1>5, SendIs
<1>7. q \in Seq(Result) /\ \A k \in DOMAIN q : <<r, q[k].index>> \in TaskIds
  BY <1>4, ResultsAre
<1>8. /\ \A k \in DOMAIN q : q[k].index \in DOMAIN req[r] /\ q[k].index \notin seen[r]
      /\ \A k \in DOMAIN q : q[k].type # "partial" => sent[<<r, q[k].index>>] # <<>>
      /\ \A j, k \in DOMAIN q : j < k /\ q[j].index = q[k].index => q[j].type = "partial"
      /\ seen[r] \subseteq DOMAIN req[r] /\ \A i \in seen[r] : sent[<<r, i>>] # <<>>
      /\ q # <<>> => rpc[r] \in {"registered", "waiting", "stop", "purge"}
      /\ received_count[r] = Cardinality(seen[r])
  BY <1>4 DEF ResultsOk
<1>9. \A i \in seen[r] : sent'[<<r, i>>] # <<>>
  BY <1>2, <1>8, ResultsAre
<1>10. \A k \in DOMAIN q : q[k].type # "partial" => sent'[<<r, q[k].index>>] # <<>>
  BY <1>2, <1>7, <1>8
<1>11. x.index = t[2] /\ x.type = type
  OBVIOUS
<1> HIDE DEF x
<1>12. /\ \A k \in DOMAIN p : p[k].index \in DOMAIN req[r] /\ p[k].index \notin seen[r]
       /\ \A k \in DOMAIN p : p[k].type # "partial" => sent'[<<r, p[k].index>>] # <<>>
       /\ \A j, k \in DOMAIN p : j < k /\ p[j].index = p[k].index => p[j].type = "partial"
       /\ p # <<>> => rpc[r] \in {"registered", "waiting", "stop", "purge"}
  <2>1. CASE ~(r = t[1] /\ r \in waiting)
    <3>1. p = q
      BY <1>6, <2>1
    <3>2. QED BY <1>8, <1>10, <3>1
  <2>2. CASE r = t[1] /\ r \in waiting
    <3>1. p = Append(q, x) /\ Len(q) \in Nat /\ DOMAIN q = 1 .. Len(q)
      BY <1>6, <1>7, <2>2, LenProperties
    <3>2. DOMAIN p = 1 .. Len(q) + 1 /\ p[Len(q) + 1] = x /\ \A k \in 1 .. Len(q) : p[k] = q[k]
      BY <1>7, <3>1, AppendProperties, LenProperties
    <3>3. \A k \in DOMAIN p : (k = Len(q) + 1 /\ p[k] = x) \/ (k \in DOMAIN q /\ p[k] = q[k])
      BY <3>1, <3>2
    <3>4. x.index \in DOMAIN req[r] /\ x.index \notin seen[r]
      BY <1>1, <1>8, <1>11, <2>2
    <3>5. x.type # "partial" => sent'[<<r, x.index>>] # <<>>
      BY <1>1, <1>3, <1>11, <2>2
    <3>6. \A j \in DOMAIN q : q[j].index = x.index => q[j].type = "partial"
      BY <1>1, <1>8, <1>11, <2>2
    <3>7. \A j, k \in DOMAIN p : j < k /\ p[j].index = p[k].index => p[j].type = "partial"
      <4>1. ASSUME NEW j \in DOMAIN p, NEW k \in DOMAIN p, j < k, p[j].index = p[k].index
            PROVE  p[j].type = "partial"
        <5>1. j \in DOMAIN q /\ p[j] = q[j]
          BY <3>1, <3>2, <3>3, <4>1
        <5>2. CASE k = Len(q) + 1
          BY <3>2, <3>6, <4>1, <5>1, <5>2
        <5>3. CASE k # Len(q) + 1
          BY <1>8, <3>3, <4>1, <5>1, <5>3
        <5>4. QED BY <5>2, <5>3
      <4>2. QED BY <4>1
    <3>8. rpc[r] \in {"registered", "waiting", "stop", "purge"}
      BY <2>2 DEF Readers, Awaited
    <3>9. \A k \in DOMAIN p : p[k].index \in DOMAIN req[r] /\ p[k].index \notin seen[r]
      BY <1>8, <3>3, <3>4
    <3>10. \A k \in DOMAIN p : p[k].type # "partial" => sent'[<<r, p[k].index>>] # <<>>
      BY <1>10, <3>3, <3>5
    <3>11. QED BY <3>7, <3>8, <3>9, <3>10
  <2>3. QED BY <2>1, <2>2
<1>13. QED BY <1>1, <1>5, <1>8, <1>9, <1>12 DEF ResultsOk

-----------------------------------------------------------------------------
(* The steps of the main thread.                                           *)

LEMMA ItemsTyped ==
    ASSUME TypeOK
    PROVE  Items \subseteq QItem /\ TaskItems \subseteq Items
<1>1. \A t \in Tasks : t \in TaskIds
  BY TaskIs
<1>2. QED BY <1>1 DEF Items, TaskItems, CancelItems, QItem

\* What such a step leaves behind.
Advanced ==
    /\ Still /\ SlotsTyped' /\ Accounted'
    /\ queue_tasks' \in Seq(Items) /\ queue_tasks_deferred' \in Seq(TaskItems)
    /\ current' \in Items
    /\ results' \in [Requests -> Seq(Result)]
    /\ sent' \in [TaskIds -> Seq({"final", "error"})]
    /\ \A r \in Requests : ResultsOk(r)'

LEMMA MainAdvances ==
    ASSUME IInv, MainStep
    PROVE  Advanced
<1>1. /\ TypeOK /\ Control /\ Readers /\ QueuesOk /\ SlotsOk /\ AnswersOk /\ PlacesOk
      /\ \A r \in Requests : ResultsOk(r)
  BY DEF IInv
<1>2. Accounted
  BY <1>1 DEF Accounted, ReleaseOk, Control
<1>3. \/ Quiet /\ UNCHANGED results
      \/ \E s \in SlotIds : Quiet /\ ~IsIdle(s) /\ Send(slots[s].task, "partial")
      \/ \E s \in SlotIds, type \in {"final", "error"} : Answered(s, type)
      \/ \E s \in SlotIds : Freed(s)
      \/ \E t, u, type : Finished(t, u, type)
      \/ \E t, s, f : Placed(t, s, f)
  BY <1>1, MainStepIs
<1>4. ASSUME Still, UNCHANGED <<sent, results>>
      PROVE  /\ results' \in [Requests -> Seq(Result)]
             /\ sent' \in [TaskIds -> Seq({"final", "error"})]
             /\ \A r \in Requests : ResultsOk(r)'
  <2>1. UNCHANGED <<sent, results, req, seen, received_count, rpc>>
    BY <1>4 DEF Still
  <2>2. \A r \in Requests : ResultsOk(r)'
    BY <1>1, <2>1, ResultsStay
  <2>3. QED BY <1>1, <1>4, <2>2 DEF TypeOK
<1>5. ASSUME Still, NEW t \in Tasks, NEW type \in {"partial", "final", "error"},
             Posted(t[1]), sent[t] = <<>>, Send(t, type)
      PROVE  /\ results' \in [Requests -> Seq(Result)]
             /\ sent' \in [TaskIds -> Seq({"final", "error"})]
             /\ \A r \in Requests : ResultsOk(r)'
  <2>1. \A r \in Requests : ResultsOk(r)'
    BY <1>1, <1>5, ResultsSent
  <2>2. t \in TaskIds
    BY <1>1, TaskIs
  <2>3. QED BY <1>1, <1>5, <2>1, <2>2, SendIs
<1>6. ASSUME NEW s \in SlotIds, ~IsIdle(s)
      PROVE  slots[s].task \in Tasks /\ Posted(slots[s].task[1]) /\ HasSlot(slots[s].task)
  BY <1>1, <1>6, SlotsAre DEF SlotsTyped, SlotsOk, HasSlot
<1>7. UNCHANGED slots => SlotsTyped'
  BY <1>1, SlotsAre DEF SlotsTyped, IsIdle
<1>8. CASE Quiet /\ UNCHANGED results
  <2>1. Still /\ UNCHANGED sent /\ QueuesKept /\ SlotsMoved
    BY <1>8 DEF Quiet
  <2>2. Accounted'
    BY <1>1, <1>2, <1>8, QuietAccounts
  <2>3. QED BY <1>4, <1>8, <2>1, <2>2 DEF Advanced, QueuesKept, SlotsMoved
<1>9. CASE \E s \in SlotIds : Quiet /\ ~IsIdle(s) /\ Send(slots[s].task, "partial")
  <2>1. PICK s \in SlotIds : Quiet /\ ~IsIdle(s) /\ Send(slots[s].task, "partial")
    BY <1>9
  <2>2. Still /\ QueuesKept /\ SlotsMoved /\ mainPc # "release"
    BY <2>1 DEF Quiet
  <2>3. Accounted'
    BY <1>1, <1>2, <2>1, QuietAccounts
  <2>4. sent[slots[s].task] = <<>>
    BY <1>1, <1>2, <1>6, <2>1, <2>2, HeldIsOpen
  <2>5. QED BY <1>5, <1>6, <2>1, <2>2, <2>3, <2>4 DEF Advanced, QueuesKept, SlotsMoved
<1>10. CASE \E s \in SlotIds, type \in {"final", "error"} : Answered(s, type)
  <2>1. PICK s \in SlotIds, type \in {"final", "error"} : Answered(s, type)
    BY <1>10
  <2>2. Still /\ QueuesKept /\ UNCHANGED slots /\ ~IsIdle(s) /\ Send(slots[s].task, type)
    BY <2>1 DEF Answered
  <2>3. Accounted' /\ sent[slots[s].task] = <<>>
    BY <1>1, <1>2, <2>1, AnsweredAccounts
  <2>4. QED BY <1>5, <1>6, <1>7, <2>2, <2>3 DEF Advanced, QueuesKept
<1>11. CASE \E s \in SlotIds : Freed(s)
  <2>1. PICK s \in SlotIds : Freed(s)
    BY <1>11
  <2>2. Still /\ QueuesKept /\ UNCHANGED <<sent, results>> /\ slots' = [slots EXCEPT ![s] = IdleSlot]
    BY <2>1 DEF Freed
  <2>3. Accounted'
    BY <1>1, <1>2, <2>1, FreedAccounts
  <2>4. SlotsTyped'
    <3>1. SlotsTyped /\ IdleSlot \in SlotT /\ IdleSlot.state = "IDLE" /\ IdleSlot.task = NoTask
      BY <1>1, SlotsAre DEF IdleSlot, SlotT, SlotStates
    <3>2. QED BY <2>2, <3>1 DEF SlotsTyped, IsIdle
  <2>5. QED BY <1>4, <2>2, <2>3, <2>4 DEF Advanced, QueuesKept
<1>12. CASE \E t, u, type : Finished(t, u, type)
  <2>1. PICK t, u, type : Finished(t, u, type)
    BY <1>12
  <2>2. /\ Still /\ Dropped(t) /\ UNCHANGED slots /\ Send(u, type)
        /\ t \in Tasks /\ Posted(t[1]) /\ u \in Tasks /\ Top(u) = t
    BY <2>1 DEF Finished
  <2>3. Accounted' /\ sent[u] = <<>> /\ type \in {"final", "error"}
    BY <1>1, <1>2, <2>1, FinishedAccounts
  <2>4. Posted(u[1])
    BY <1>1, <2>2, TopIs
  <2>5. QED BY <1>5, <1>7, <2>2, <2>3, <2>4 DEF Advanced, Dropped
<1>13. CASE \E t, s, f : Placed(t, s, f)
  <2>1. PICK t, s, f : Placed(t, s, f)
    BY <1>13
  <2>2. Still /\ Dropped(t) /\ UNCHANGED <<sent, results>> /\ SlotsTyped'
    BY <2>1 DEF Placed
  <2>3. Accounted'
    BY <1>1, <1>2, <2>1, PlacedAccounts
  <2>4. QED BY <1>4, <2>2, <2>3 DEF Advanced, Dropped
<1>14. QED BY <1>3, <1>8, <1>9, <1>10, <1>11, <1>12, <1>13

LEMMA MainKeepsIInv ==
    ASSUME IInv, MainStep
    PROVE  IInv'
<1>1. TypeOK /\ Control /\ Readers /\ QueuesOk
  BY DEF IInv
<1>2. Advanced /\ Still /\ Onward /\ LoopOk'
  <2>1. Advanced /\ LoopOk'
    BY <1>1, MainAdvances, LoopStep
  <2>2. QED BY <1>1, <2>1, StillIs DEF Advanced
<1>3. /\ queue_tasks' \in Seq(Items) /\ queue_tasks_deferred' \in Seq(TaskItems)
      /\ current' \in Items
  BY <1>2 DEF Advanced
<1>4. TypeOK'
  <2>1. queue_tasks' \in Seq(QItem) /\ queue_tasks_deferred' \in Seq(QItem) /\ current' \in QItem
    <3>1. Items \subseteq QItem /\ TaskItems \subseteq QItem
      BY <1>1, ItemsTyped
    <3>2. QED BY <1>3, <3>1, SeqGrows
  <2>2. /\ slots' \in [SlotIds -> SlotT]
        /\ \A s \in SlotIds : IsIdle(s)' <=> slots'[s].task = NoTask
    BY <1>2 DEF Advanced, SlotsTyped
  <2>3. UNCHANGED <<req, rpc, waiting, received_count, seen>>
    BY <1>2 DEF Still
  <2>4. results' \in [Requests -> Seq(Result)] /\ sent' \in [TaskIds -> Seq({"final", "error"})]
    BY <1>2 DEF Advanced
  <2>5. QED BY <1>1, <1>2, <2>1, <2>2, <2>3, <2>4 DEF TypeOK, LoopOk, SlotT
<1>5. SlotsOk' /\ AnswersOk' /\ PlacesOk' /\ ReleaseOk'
  BY <1>2 DEF Advanced, Accounted
<1>6. Control'
  BY <1>2, <1>5 DEF LoopOk, ReleaseOk, Control
<1>7. Readers'
  BY <1>1, <1>2 DEF Readers, Still
<1>8. QueuesOk'
  <2>1. TaskItems \subseteq TaskItems' /\ Items \subseteq Items'
    BY <1>1, <1>2, ItemsGrow
  <2>2. QED BY <1>3, <2>1, SeqGrows DEF QueuesOk
<1>9. \A r \in Requests : ResultsOk(r)'
  BY <1>2 DEF Advanced
<1>10. QED BY <1>4, <1>5, <1>6, <1>7, <1>8, <1>9 DEF IInv

-----------------------------------------------------------------------------
(* The steps of the HTTP threads.                                          *)

MainVars == <<slots, mainPc, current, at, loop, batch, n_empty_consecutive>>

\* A reader that moves on alone, and does not begin to wait.
Apart ==
    /\ UNCHANGED <<queueVars, MainVars, sent, req>> /\ Onward
    /\ \A r \in Requests : rpc'[r] = "waiting" => rpc[r] = "waiting"

LEMMA ApartKeeps ==
    ASSUME IInv, Apart
    PROVE  Control' /\ QueuesOk' /\ SlotsOk' /\ AnswersOk' /\ PlacesOk'
<1>1. /\ TypeOK /\ Control /\ QueuesOk /\ SlotsOk /\ AnswersOk /\ PlacesOk
      /\ UNCHANGED <<queueVars, slots, mainPc, current, at, loop, n_empty_consecutive, sent, req>>
      /\ Onward /\ \A r \in Requests : rpc'[r] = "waiting" => rpc[r] = "waiting"
  BY DEF IInv, Apart, MainVars
<1>2. /\ Tasks' = Tasks /\ \A t \in Tasks : t[1] \in Requests /\ t \in TaskIds
      /\ \A r \in Requests : Posted(r) => Posted(r)'
  BY <1>1, SameRequests, TaskIs DEF Onward
<1>3. Control'
  BY <1>1 DEF Control, IsIdle
<1>4. QueuesOk'
  <2>1. TaskItems \subseteq TaskItems' /\ Items \subseteq Items'
    BY <1>1, ItemsGrow
  <2>2. queue_tasks \in Seq(Items) /\ queue_tasks_deferred \in Seq(TaskItems) /\ current \in Items
    BY <1>1 DEF QueuesOk
  <2>3. queue_tasks \in Seq(Items') /\ queue_tasks_deferred \in Seq(TaskItems') /\ current \in Items'
    BY <2>1, <2>2, SeqGrows
  <2>4. QED BY <1>1, <2>3 DEF QueuesOk, queueVars
<1>5. SlotsOk'
  <2>1. \A s \in SlotIds : slots[s].task # NoTask =>
            slots[s].task \in Tasks /\ Posted(slots[s].task[1])'
    BY <1>1, <1>2 DEF SlotsOk
  <2>2. \A s, x \in SlotIds : slots[s].task = slots[x].task /\ s # x => IsIdle(s)
    BY <1>1 DEF SlotsOk
  <2>3. QED BY <1>1, <1>2, <2>1, <2>2 DEF SlotsOk, Posted, IsIdle
<1>6. AnswersOk'
  <2>1. \A t \in TaskIds : /\ Len(sent[t]) <= 1
                           /\ sent[t] # <<>> => t \in Tasks /\ Posted(t[1])'
    BY <1>1, <1>2 DEF AnswersOk
  <2>2. QED BY <1>1, <1>2, <2>1 DEF AnswersOk
<1>7. ASSUME NEW t \in Tasks PROVE Held(t)' = Held(t)
  <2>1. PICK u : u = Top(t)
    OBVIOUS
  <2>2. Queued(u)' = Queued(u)
    BY <1>1, QueuedIs DEF queueVars
  <2>3. HasSlot(t)' = HasSlot(t)
    BY <1>1 DEF HasSlot
  <2>4. QED BY <1>1, <2>1, <2>2, <2>3, HeldIs
<1>8. \A r : Failed(r)' = Failed(r)
  BY <1>1, SameRequests DEF Failed
<1>9. ASSUME NEW t \in Tasks
      PROVE  /\ Held(t)' <= 1
             /\ sent[t] # <<>> /\ Held(t)' # 0 => mainPc = "release" /\ slots[at].task = t
             /\ rpc'[t[1]] = "waiting" /\ sent[t] = <<>> /\ ~Failed(t[1])' => Held(t)' = 1
  BY <1>1, <1>2, <1>7, <1>8 DEF PlacesOk
<1>10. PlacesOk'
  BY <1>1, <1>2, <1>9 DEF PlacesOk
<1>11. QED BY <1>3, <1>4, <1>5, <1>6, <1>10

LEMMA DisconnectKeeps ==
    ASSUME IInv, NEW r \in Requests, Disconnect(r) \/ Purge(r) \/ Unregister(r)
    PROVE  IInv'
<1>1. TypeOK /\ Readers /\ \A x \in Requests : ResultsOk(x)
  BY DEF IInv
<1>2. /\ UNCHANGED <<queueVars, MainVars, sent, req, received_count, seen>>
      /\ waiting' \subseteq waiting
  BY DEF Disconnect, Purge, Unregister, loopVars, sendVars, MainVars
<1>3. PICK pc \in {"stop", "purge", "cancel", "done"} :
          /\ rpc' = [rpc EXCEPT ![r] = pc] /\ rpc[r] \in {"waiting", "stop", "purge"}
          /\ pc # "stop" => r \notin waiting'
          /\ pc = "done" => rpc[r] = "stop" /\ ~HasNext(r) /\ UNCHANGED results
          /\ pc \in {"stop", "purge"} => UNCHANGED results
          /\ pc = "cancel" => results' = [results EXCEPT ![r] = <<>>]
  <2>1. CASE Disconnect(r)
    BY <2>1 DEF Disconnect, sendVars
  <2>2. CASE Purge(r)
    <3>1. r \notin waiting
      BY <1>1, <2>2 DEF Readers, Awaited, Purge
    <3>2. QED BY <2>2, <3>1 DEF Purge
  <2>3. CASE Unregister(r)
    BY <2>3 DEF Unregister, sendVars
  <2>4. QED BY <2>1, <2>2, <2>3
<1>4. rpc' \in [Requests -> {"new", "registered", "waiting", "stop", "purge", "cancel", "done"}]
      /\ rpc'[r] = pc /\ \A x \in Requests : x # r => rpc'[x] = rpc[x]
  BY <1>1, <1>3 DEF TypeOK
<1>5. Apart
  BY <1>2, <1>3, <1>4 DEF Apart, Onward, Posted
<1>6. Control' /\ QueuesOk' /\ SlotsOk' /\ AnswersOk' /\ PlacesOk'
  BY <1>5, ApartKeeps
<1>7. /\ results' \in [Requests -> Seq(Result)]
      /\ \A x \in Requests : results'[x] = IF x = r /\ pc = "cancel" THEN <<>> ELSE results[x]
  <2>1. results \in [Requests -> Seq(Result)] /\ <<>> \in Seq(Result)
    BY <1>1 DEF TypeOK
  <2>2. QED BY <1>3, <2>1
<1>8. TypeOK'
  BY <1>1, <1>2, <1>4, <1>7 DEF TypeOK, queueVars, MainVars, IsIdle
<1>9. Readers'
  <2>1. ASSUME NEW x \in Requests
        PROVE  /\ rpc'[x] = "new" <=> req[x] = <<>>
               /\ rpc'[x] = "new" => received_count[x] = 0
               /\ rpc'[x] \in {"registered", "waiting"} => received_count[x] < Len(req[x])
               /\ x \in waiting' => rpc'[x] \in Awaited
    <3>1. /\ rpc[x] = "new" <=> req[x] = <<>>
          /\ rpc[x] = "new" => received_count[x] = 0
          /\ rpc[x] \in {"registered", "waiting"} => received_count[x] < Len(req[x])
          /\ x \in waiting => rpc[x] \in Awaited
      BY <1>1 DEF Readers
    <3>2. CASE x = r
      BY <1>2, <1>3, <1>4, <3>1, <3>2 DEF Awaited
    <3>3. CASE x # r
      BY <1>2, <1>4, <3>1, <3>3
    <3>4. QED BY <3>2, <3>3
  <2>2. QED BY <1>2, <2>1 DEF Readers, Awaited
<1>10. pc = "done" => results[r] = <<>>
  <2> SUFFICES ASSUME pc = "done" PROVE results[r] = <<>>
    OBVIOUS
  <2>1. ResultsOk(r) /\ ~(received_count[r] < Len(req[r])) /\ req[r] # <<>>
    BY <1>1, <1>3 DEF HasNext, Readers
  <2>2. DOMAIN req[r] = 1 .. Len(req[r]) /\ Len(req[r]) \in Nat
    <3>1. req[r] \in Shapes
      BY <1>1, <2>1 DEF TypeOK
    <3>2. DOMAIN req[r] = 1 .. Len(req[r]) /\ Len(req[r]) \in 1 .. MaxTasks
      BY <3>1, ShapeIs
    <3>3. QED BY <3>2, BoundsAssumption
  <2>3. PICK n \in Nat : n = Len(req[r])
    BY <2>2
  <2>4. IsFiniteSet(1 .. n) /\ Cardinality(1 .. n) = n
    <3>1. Cardinality(1 .. n) = IF 1 > n THEN 0 ELSE n - 1 + 1
      BY FS_Interval
    <3>2. QED BY <3>1, FS_Interval
  <2>5. PICK S \in SUBSET (1 .. n) : S = seen[r] /\ received_count[r] = Cardinality(S)
    BY <2>1, <2>2, <2>3 DEF ResultsOk
  <2>6. S = 1 .. n
    <3>1. IsFiniteSet(S) /\ Cardinality(S) \in Nat
      BY <2>4, FS_Subset, FS_CardinalityType
    <3>2. Cardinality(S) <= n
      BY <2>4, FS_Subset
    <3>3. Cardinality(S) = Cardinality(1 .. n)
      BY <2>1, <2>3, <2>4, <2>5, <3>1, <3>2
    <3>4. QED BY <2>4, <3>3, FS_Subset
  <2>7. \A k \in DOMAIN results[r] : FALSE
    BY <2>1, <2>2, <2>3, <2>5, <2>6 DEF ResultsOk
  <2>8. results[r] \in Seq(Result)
    BY <1>1 DEF TypeOK
  <2>9. Len(results[r]) \in Nat /\ DOMAIN results[r] = 1 .. Len(results[r])
    BY <2>8, LenProperties
  <2>10. Len(results[r]) = 0
    BY <2>7, <2>9
  <2>11. QED BY <2>8, <2>10, EmptySeq
<1>11. ASSUME NEW x \in Requests PROVE ResultsOk(x)'
  <2>1. ResultsOk(x)
    BY <1>1
  <2>2. CASE x # r
    <3>1. results'[x] = results[x] /\ rpc'[x] = rpc[x]
      BY <1>4, <1>7, <2>2
    <3>2. QED BY <1>2, <2>1, <3>1 DEF ResultsOk
  <2>3. CASE x = r /\ pc = "cancel"
    <3>1. results'[x] = <<>>
      BY <1>7, <2>3
    <3>2. QED BY <1>2, <2>1, <3>1 DEF ResultsOk
  <2>4. CASE x = r /\ pc # "cancel"
    <3>1. results'[x] = results[x] /\ (results[x] # <<>> => rpc'[x] \in {"stop", "purge"})
      BY <1>3, <1>4, <1>7, <1>10, <2>4
    <3>2. QED BY <1>2, <2>1, <3>1 DEF ResultsOk
  <2>5. QED BY <2>2, <2>3, <2>4
<1>12. QED BY <1>6, <1>8, <1>9, <1>11 DEF IInv

LEMMA ReceiveKeeps ==
    ASSUME IInv, NEW r \in Requests, Receive(r)
    PROVE  IInv'
<1>1. TypeOK /\ Readers /\ (\A x \in Requests : ResultsOk(x)) /\ ResultsOk(r)
  BY DEF IInv
<1>2. PICK q \in Seq(Result) : q = results[r]
  BY <1>1 DEF TypeOK
<1>3. PICK res : res = Head(q)
  OBVIOUS
<1>4. PICK S : S = seen[r]
  OBVIOUS
<1>5. PICK n : n = received_count[r]
  OBVIOUS
<1>6. PICK m : m = IF res.type = "final" THEN n + 1 ELSE n
  OBVIOUS
<1>7. PICK T : T = IF res.type = "final" THEN S \cup {res.index} ELSE S
  OBVIOUS
<1>8. /\ UNCHANGED <<queueVars, MainVars, sent, req, waiting>>
      /\ rpc[r] = "waiting" /\ q # <<>>
      /\ results' = [results EXCEPT ![r] = Tail(q)]
  BY <1>2 DEF Receive, loopVars, MainVars
<1>9. /\ received_count' = [received_count EXCEPT ![r] = m]
      /\ seen' = [seen EXCEPT ![r] = T]
  <2>1. CASE res.type = "final"
    BY <1>2, <1>3, <1>4, <1>5, <1>6, <1>7, <2>1 DEF Receive
  <2>2. CASE res.type # "final"
    <3>1. UNCHANGED <<received_count, seen>> /\ m = n /\ T = S
      BY <1>2, <1>3, <1>6, <1>7, <2>2 DEF Receive
    <3>2. received_count = [received_count EXCEPT ![r] = n] /\ seen = [seen EXCEPT ![r] = S]
      BY <1>1, <1>4, <1>5 DEF TypeOK
    <3>3. QED BY <3>1, <3>2
  <2>3. QED BY <2>1, <2>2
<1>10. /\ received_count'[r] = m /\ seen'[r] = T
       /\ \A x \in Requests : x # r => received_count'[x] = received_count[x] /\ seen'[x] = seen[x]
  BY <1>1, <1>9 DEF TypeOK
<1>11. rpc' = IF res.type = "error" \/ m = Len(req[r]) THEN [rpc EXCEPT ![r] = "stop"] ELSE rpc
  BY <1>2, <1>3, <1>10 DEF Receive
<1>12. /\ Len(q) \in Nat /\ DOMAIN q = 1 .. Len(q) /\ Len(q) # 0
       /\ res = q[1] /\ res \in Result
       /\ Tail(q) \in Seq(Result) /\ DOMAIN Tail(q) = 1 .. Len(q) - 1
       /\ \A k \in 1 .. Len(q) - 1 : Tail(q)[k] = q[k + 1]
  <2>1. Len(q) \in Nat \ {0} /\ DOMAIN q = 1 .. Len(q)
    BY <1>8, LenProperties, EmptySeq
  <2>2. Tail(q) \in Seq(Result) /\ Len(Tail(q)) = Len(q) - 1
        /\ \A k \in 1 .. Len(q) - 1 : Tail(q)[k] = q[k + 1]
    BY <1>8, <2>1, HeadTailProperties
  <2>3. DOMAIN Tail(q) = 1 .. Len(q) - 1
    BY <2>2, LenProperties
  <2>4. res = q[1]
    BY <1>3, <1>8
  <2>5. res \in Result
    BY <2>1, <2>4, ElementOfSeq
  <2>6. QED BY <2>1, <2>2, <2>3, <2>4, <2>5
<1>13. PICK N : N = Len(req[r])
  OBVIOUS
<1>14. DOMAIN req[r] = 1 .. N /\ N \in Nat /\ N <= MaxTasks /\ 1 .. N \subseteq 1 .. MaxTasks
  <2>1. req[r] \in Shapes
    BY <1>1, <1>8 DEF TypeOK, Readers
  <2>2. DOMAIN req[r] = 1 .. N /\ N \in 1 .. MaxTasks
    BY <1>13, <2>1, ShapeIs
  <2>3. QED BY <2>2, BoundsAssumption
<1>15. /\ \A k \in DOMAIN q : q[k].index \in 1 .. N /\ q[k].index \notin S
       /\ \A k \in DOMAIN q : q[k].type # "partial" => sent[<<r, q[k].index>>] # <<>>
       /\ \A j, k \in DOMAIN q : j < k /\ q[j].index = q[k].index => q[j].type = "partial"
       /\ S \subseteq 1 .. N /\ \A i \in S : sent[<<r, i>>] # <<>>
       /\ n = Cardinality(S)
  BY <1>1, <1>2, <1>4, <1>5, <1>14 DEF ResultsOk
<1>16. 1 \in DOMAIN q
  BY <1>12
<1>17. res.index \in 1 .. N /\ res.index \notin S
       /\ (res.type # "partial" => sent[<<r, res.index>>] # <<>>)
  BY <1>12, <1>15, <1>16
<1>18. T \subseteq 1 .. N /\ \A i \in T : sent[<<r, i>>] # <<>>
  BY <1>7, <1>15, <1>17
<1>19. n \in Nat /\ m = Cardinality(T) /\ m \in Nat /\ m <= N
  <2>1. IsFiniteSet(1 .. N) /\ Cardinality(1 .. N) = N
    <3>1. Cardinality(1 .. N) = IF 1 > N THEN 0 ELSE N - 1 + 1
      BY <1>14, FS_Interval
    <3>2. IsFiniteSet(1 .. N)
      BY <1>14, FS_Interval
    <3>3. QED BY <1>14, <3>1, <3>2
  <2>2. IsFiniteSet(S) /\ n \in Nat
    BY <1>15, <2>1, FS_Subset, FS_CardinalityType
  <2>3. IsFiniteSet(S \cup {res.index}) /\ Cardinality(S \cup {res.index}) = n + 1
    BY <1>15, <1>17, <2>2, FS_AddElement
  <2>4. m = Cardinality(T)
    BY <1>6, <1>7, <1>15, <2>3
  <2>5. Cardinality(T) <= N
    BY <1>18, <2>1, FS_Subset
  <2>6. m \in Nat
    BY <1>6, <2>2
  <2>7. QED BY <2>2, <2>4, <2>5, <2>6
<1>20. /\ rpc'[r] \in {"waiting", "stop"} /\ (rpc'[r] = "waiting" => m < N)
       /\ \A x \in Requests : x # r => rpc'[x] = rpc[x]
       /\ rpc' \in [Requests -> {"new", "registered", "waiting", "stop", "purge", "cancel", "done"}]
  <2>1. rpc'[r] = IF res.type = "error" \/ m = N THEN "stop" ELSE "waiting"
    BY <1>1, <1>8, <1>11, <1>13 DEF TypeOK
  <2>2. m # N => m < N
    BY <1>14, <1>19
  <2>3. QED BY <1>1, <1>11, <2>1, <2>2 DEF TypeOK
<1>21. Apart
  BY <1>8, <1>20 DEF Apart, Onward, Posted
<1>22. Control' /\ QueuesOk' /\ SlotsOk' /\ AnswersOk' /\ PlacesOk'
  BY <1>21, ApartKeeps
<1>23. TypeOK'
  <2>1. results' \in [Requests -> Seq(Result)]
    BY <1>1, <1>8, <1>12 DEF TypeOK
  <2>2. received_count' \in [Requests -> 0 .. MaxTasks]
    <3>1. m \in 0 .. MaxTasks
      BY <1>14, <1>19, BoundsAssumption
    <3>2. QED BY <1>1, <1>9, <3>1 DEF TypeOK
  <2>3. seen' \in [Requests -> SUBSET (1 .. MaxTasks)]
    <3>1. T \in SUBSET (1 .. MaxTasks)
      BY <1>14, <1>18
    <3>2. QED BY <1>1, <1>9, <3>1 DEF TypeOK
  <2>4. QED BY <1>1, <1>8, <1>20, <2>1, <2>2, <2>3 DEF TypeOK, queueVars, MainVars, IsIdle
<1>24. Readers'
  <2>1. ASSUME NEW x \in Requests
        PROVE  /\ rpc'[x] = "new" <=> req[x] = <<>>
               /\ rpc'[x] = "new" => received_count'[x] = 0
               /\ rpc'[x] \in {"registered", "waiting"} => received_count'[x] < Len(req[x])
               /\ x \in waiting => rpc'[x] \in Awaited
    <3>1. /\ rpc[x] = "new" <=> req[x] = <<>>
          /\ rpc[x] = "new" => received_count[x] = 0
          /\ rpc[x] \in {"registered", "waiting"} => received_count[x] < Len(req[x])
          /\ x \in waiting => rpc[x] \in Awaited
      BY <1>1 DEF Readers
    <3>2. CASE x = r
      BY <1>8, <1>10, <1>13, <1>20, <3>1, <3>2 DEF Awaited
    <3>3. CASE x # r
      BY <1>10, <1>20, <3>1, <3>3
    <3>4. QED BY <3>2, <3>3
  <2>2. QED BY <1>8, <2>1 DEF Readers, Awaited
<1>25. ASSUME NEW x \in Requests PROVE ResultsOk(x)'
  <2>1. CASE x # r
    <3>1. results'[x] = results[x] /\ rpc'[x] = rpc[x]
          /\ received_count'[x] = received_count[x] /\ seen'[x] = seen[x]
      BY <1>1, <1>8, <1>10, <1>20, <2>1 DEF TypeOK
    <3>2. ResultsOk(x)
      BY <1>1
    <3>3. QED BY <1>8, <3>1, <3>2 DEF ResultsOk
  <2>2. CASE x = r
    <3>1. PICK p : p = Tail(q)
      OBVIOUS
    <3>2. results'[r] = p
      BY <1>1, <1>8, <3>1 DEF TypeOK
    <3>3. \A k \in DOMAIN p : k + 1 \in DOMAIN q /\ p[k] = q[k + 1] /\ 1 < k + 1
      BY <1>12, <3>1
    <3>4. \A k \in DOMAIN p : p[k].index \in 1 .. N /\ p[k].index \notin T
      <4>1. ASSUME NEW k \in DOMAIN p PROVE p[k].index \in 1 .. N /\ p[k].index \notin T
        <5>1. p[k] = q[k + 1] /\ k + 1 \in DOMAIN q /\ 1 < k + 1
          BY <3>3
        <5>2. q[k + 1].index \in 1 .. N /\ q[k + 1].index \notin S
          BY <1>15, <5>1
        <5>3. res.type = "final" => q[k + 1].index # res.index
          BY <1>12, <1>15, <1>16, <5>1
        <5>4. QED BY <1>7, <5>1, <5>2, <5>3
      <4>2. QED BY <4>1
    <3>5. \A k \in DOMAIN p : p[k].type # "partial" => sent[<<r, p[k].index>>] # <<>>
      BY <1>15, <3>3
    <3>6. \A j, k \in DOMAIN p : j < k /\ p[j].index = p[k].index => p[j].type = "partial"
      <4>1. ASSUME NEW j \in DOMAIN p, NEW k \in DOMAIN p, j < k, p[j].index = p[k].index
            PROVE  p[j].type = "partial"
        <5>1. /\ j + 1 \in DOMAIN q /\ k + 1 \in DOMAIN q
              /\ p[j] = q[j + 1] /\ p[k] = q[k + 1]
          BY <3>3, <4>1
        <5>2. j + 1 < k + 1
          BY <1>12, <3>1, <4>1
        <5>3. QED BY <1>15, <4>1, <5>1, <5>2
      <4>2. QED BY <4>1
    <3>7. rpc'[r] \in {"registered", "waiting", "stop", "purge"}
      BY <1>20
    <3>8. seen'[r] = T /\ received_count'[r] = Cardinality(T) /\ DOMAIN req'[r] = 1 .. N
          /\ UNCHANGED sent
      BY <1>8, <1>10, <1>14, <1>19
    <3>9. ResultsOk(r)'
      BY <1>18, <3>2, <3>4, <3>5, <3>6, <3>7, <3>8 DEF ResultsOk
    <3>10. QED BY <2>2, <3>9
  <2>3. QED BY <2>1, <2>2
<1>26. QED BY <1>22, <1>23, <1>24, <1>25 DEF IInv

LEMMA RegisterKeeps ==
    ASSUME IInv, NEW r \in Requests, Register(r)
    PROVE  IInv'
<1>1. /\ TypeOK /\ Control /\ Readers /\ QueuesOk /\ SlotsOk /\ AnswersOk /\ PlacesOk
      /\ \A x \in Requests : ResultsOk(x)
  BY DEF IInv
<1>2. PICK q \in Shapes : req' = [req EXCEPT ![r] = q]
  BY DEF Register
<1>3. /\ UNCHANGED <<queueVars, MainVars, sent, results, received_count, seen>>
      /\ rpc[r] = "new" /\ waiting' = waiting \cup {r}
      /\ rpc' = [rpc EXCEPT ![r] = "registered"]
  BY DEF Register, MainVars, loopVars, sendVars
<1>4. /\ req[r] = <<>> /\ req'[r] = q /\ \A x \in Requests : x # r => req'[x] = req[x]
      /\ rpc'[r] = "registered" /\ \A x \in Requests : x # r => rpc'[x] = rpc[x]
      /\ received_count[r] = 0
  BY <1>1, <1>2, <1>3 DEF TypeOK, Readers
<1>5. PICK n : n = Len(q)
  OBVIOUS
<1>6. DOMAIN q = 1 .. n /\ n \in Nat /\ 0 < n /\ 1 .. n \subseteq 1 .. MaxTasks /\ q # <<>>
  <2>1. DOMAIN q = 1 .. n /\ n \in 1 .. MaxTasks
    BY <1>5, ShapeIs
  <2>2. n \in Nat /\ 0 < n /\ 1 .. n \subseteq 1 .. MaxTasks
    BY <2>1, BoundsAssumption
  <2>3. QED BY <2>1, <2>2
<1>7. \A u \in Tasks : u \in TaskIds /\ u[1] \in Requests /\ u[1] # r
  <2>1. ASSUME NEW u \in Tasks, u[1] = r PROVE FALSE
    <3>1. u[2] \in DOMAIN req[r]
      BY <2>1 DEF Tasks
    <3>2. DOMAIN req[r] = {}
      BY <1>4
    <3>3. QED BY <3>1, <3>2
  <2>2. QED BY <1>1, <2>1, TaskIs
<1>8. ASSUME NEW u \in Tasks
      PROVE  u \in Tasks' /\ IsChild(u)' = IsChild(u) /\ Top(u)' = Top(u)
  <2>1. u \in TaskIds /\ req'[u[1]] = req[u[1]]
    BY <1>4, <1>7
  <2>2. Info(u)' = Info(u)
    BY <2>1 DEF Info
  <2>3. IsChild(u)' = IsChild(u)
    BY <2>2 DEF IsChild
  <2>4. QED BY <2>1, <2>2, <2>3 DEF Tasks, Top
<1>9. ASSUME NEW u \in Tasks'
      PROVE  /\ u \in TaskIds /\ u[1] \in Requests
             /\ u \in Tasks <=> u[1] # r
  <2>1. u \in TaskIds /\ u[1] \in Requests /\ u[2] \in DOMAIN req'[u[1]]
    BY DEF Tasks, TaskIds
  <2>2. u[1] # r => u \in Tasks
    BY <1>4, <2>1 DEF Tasks
  <2>3. QED BY <1>7, <2>1, <2>2
<1>10. \A x \in Requests : x # r => (Posted(x)' <=> Posted(x)) /\ Ids(x)' = Ids(x)
  BY <1>4 DEF Posted, Ids
<1>11. TypeOK'
  <2>1. req' \in [Requests -> Shapes \cup {<<>>}]
    BY <1>1, <1>2 DEF TypeOK
  <2>2. QED BY <1>1, <1>3, <2>1 DEF TypeOK, queueVars, MainVars, IsIdle
<1>12. Control'
  BY <1>1, <1>3 DEF Control, IsIdle, MainVars
<1>13. Readers'
  <2>1. ASSUME NEW x \in Requests
        PROVE  /\ rpc'[x] = "new" <=> req'[x] = <<>>
               /\ rpc'[x] = "new" => received_count[x] = 0
               /\ rpc'[x] \in {"registered", "waiting"} => received_count[x] < Len(req'[x])
               /\ x \in waiting' => rpc'[x] \in Awaited
    <3>1. CASE x = r
      BY <1>4, <1>5, <1>6, <3>1 DEF Awaited
    <3>2. CASE x # r
      BY <1>1, <1>3, <1>4, <3>2 DEF Readers
    <3>3. QED BY <3>1, <3>2
  <2>2. QED BY <1>3, <2>1 DEF Readers, Awaited
<1>14. QueuesOk'
  <2>1. ASSUME NEW i \in TaskItems PROVE i \in TaskItems'
    <3>1. PICK u \in Tasks : i = Item("TASK", u) /\ ~IsChild(u) /\ Posted(u[1])
      BY DEF TaskItems
    <3>2. u \in Tasks' /\ ~IsChild(u)' /\ Posted(u[1])'
      BY <1>7, <1>8, <1>10, <3>1
    <3>3. QED BY <3>1, <3>2 DEF TaskItems, Item
  <2>2. ASSUME NEW i \in CancelItems PROVE i \in CancelItems'
    <3>1. PICK u \in Tasks : i = Item("CANCEL", u) /\ rpc[u[1]] = "done"
      BY DEF CancelItems
    <3>2. u \in Tasks' /\ rpc'[u[1]] = "done"
      BY <1>4, <1>7, <1>8, <3>1
    <3>3. QED BY <3>1, <3>2 DEF CancelItems, Item
  <2>3. TaskItems \subseteq TaskItems' /\ Items \subseteq Items'
    BY <2>1, <2>2 DEF Items, NextResponse, Item
  <2>4. queue_tasks \in Seq(Items') /\ queue_tasks_deferred \in Seq(TaskItems') /\ current \in Items'
    BY <1>1, <2>3, SeqGrows DEF QueuesOk
  <2>5. QED BY <1>3, <2>4 DEF QueuesOk, queueVars, MainVars
<1>15. SlotsOk'
  <2>1. ASSUME NEW s \in SlotIds, slots[s].task # NoTask
        PROVE  slots[s].task \in Tasks' /\ Posted(slots[s].task[1])'
    <3>1. slots[s].task \in Tasks /\ Posted(slots[s].task[1])
      BY <1>1, <2>1 DEF SlotsOk
    <3>2. PICK o \in Tasks : o = slots[s].task /\ Posted(o[1])
      BY <3>1
    <3>3. o \in Tasks' /\ rpc'[o[1]] = rpc[o[1]]
      BY <1>4, <1>7, <1>8, <3>2
    <3>4. QED BY <1>3, <3>2, <3>3 DEF Posted, MainVars
  <2>2. \A s, x \in SlotIds : slots[s].task = slots[x].task /\ s # x => IsIdle(s)
    BY <1>1 DEF SlotsOk
  <2>3. QED BY <1>3, <2>1, <2>2 DEF SlotsOk, MainVars, IsIdle, Posted
<1>16. AnswersOk'
  <2>1. ASSUME NEW t \in TaskIds
        PROVE  Len(sent[t]) <= 1 /\ (sent[t] # <<>> => t \in Tasks' /\ Posted(t[1])')
    BY <1>1, <1>7, <1>8, <1>10 DEF AnswersOk
  <2>2. QED BY <1>3, <2>1 DEF AnswersOk
<1>17. \A u : Queued(u)' = Queued(u)
  BY <1>3, QueuedIs DEF queueVars, MainVars
<1>18. \A t : HasSlot(t)' = HasSlot(t)
  BY <1>3 DEF HasSlot, MainVars
<1>19. PlacesOk'
  <2>1. ASSUME NEW t \in Tasks'
        PROVE  /\ Held(t)' <= 1
               /\ sent[t] # <<>> /\ Held(t)' # 0 => mainPc = "release" /\ slots[at].task = t
               /\ rpc'[t[1]] = "waiting" /\ sent[t] = <<>> /\ ~Failed(t[1])' => Held(t)' = 1
    <3>1. PICK u : u = Top(t)'
      OBVIOUS
    <3>2. Held(t)' = Queued(u)' + (IF HasSlot(t)' THEN 1 ELSE 0)
      BY <3>1, HeldThen
    <3>3. CASE t[1] = r
      <4>1. t \notin Tasks /\ t \in TaskIds /\ t # NoTask
        <5>1. t \notin Tasks /\ t = <<t[1], t[2]>>
          BY <1>9, <3>3 DEF TaskIds
        <5>2. \A a, b : <<a, b>> # <<>>
          OBVIOUS
        <5>3. QED BY <1>9, <5>1, <5>2, Zenon DEF NoTask
      <4>2. ~HasSlot(t)
        BY <1>1, <4>1 DEF HasSlot, SlotsOk
      <4>3. u[1] = r
        BY <3>1, <3>3 DEF Top
      <4>4. Queued(u) = 0
        <5>1. ASSUME Item("TASK", u) \in TaskItems PROVE FALSE
          <6>1. PICK v \in Tasks : Item("TASK", u) = Item("TASK", v)
            BY <5>1 DEF TaskItems
          <6>2. u = v
            BY <6>1, ItemIs
          <6>3. QED BY <1>7, <4>3, <6>2
        <5>2. QED BY <1>1, <5>1, QueuedIsNat
      <4>5. Held(t)' = 0
        BY <1>17, <1>18, <3>2, <4>2, <4>4
      <4>6. QED BY <1>4, <3>3, <4>5
    <3>4. CASE t[1] # r
      <4>1. t \in Tasks /\ t[1] \in Requests
        BY <1>9, <3>4
      <4>2. u = Top(t)
        BY <1>8, <3>1, <4>1
      <4>3. Held(t)' = Held(t)
        BY <1>17, <1>18, <3>2, <4>2 DEF Held
      <4>4. Failed(t[1])' = Failed(t[1])
        BY <1>3, <1>10, <3>4, <4>1 DEF Failed
      <4>5. QED BY <1>1, <1>4, <3>4, <4>1, <4>3, <4>4 DEF PlacesOk
    <3>5. QED BY <3>3, <3>4
  <2>2. QED BY <1>3, <2>1 DEF PlacesOk, MainVars
<1>20. ASSUME NEW x \in Requests PROVE ResultsOk(x)'
  <2>1. ResultsOk(x)
    BY <1>1
  <2>2. CASE x # r
    BY <1>3, <1>4, <2>1, <2>2 DEF ResultsOk
  <2>3. CASE x = r
    <3>1. DOMAIN req[r] = {}
      BY <1>4
    <3>2. seen[r] = {} /\ \A k \in DOMAIN results[r] : FALSE
      BY <2>1, <2>3, <3>1 DEF ResultsOk
    <3>3. QED BY <1>3, <1>4, <2>1, <2>3, <3>2 DEF ResultsOk
  <2>4. QED BY <2>2, <2>3
<1>21. QED
  BY <1>11, <1>12, <1>13, <1>14, <1>15, <1>16, <1>19, <1>20 DEF IInv

\* A request is posted as its tasks that are not children, each of them once.
Posting(r) == {Item("TASK", u) : u \in {v \in Tasks : ~IsChild(v) /\ v[1] = r}}

LEMMA TopTasksAre ==
    ASSUME TypeOK, NEW r \in Requests, req[r] # <<>>
    PROVE  /\ TopTasks(r) \in Seq(Posting(r))
           /\ \A u : Count(TopTasks(r), Item("TASK", u)) =
                         IF Item("TASK", u) \in Posting(r) THEN 1 ELSE 0
<1>1. PICK n \in Nat : DOMAIN req[r] = 1 .. n
  <2>1. req[r] \in Shapes
    BY DEF TypeOK
  <2>2. DOMAIN req[r] = 1 .. Len(req[r]) /\ Len(req[r]) \in 1 .. MaxTasks
    BY <2>1, ShapeIs
  <2>3. QED BY <2>2, BoundsAssumption
<1> DEFINE s == [i \in 1 .. n |-> Item("TASK", <<r, i>>)]
           K == {Item("TASK", <<r, i>>) : i \in {j \in 1 .. n : req[r][j].parent = 0}}
           S == {Item("TASK", <<r, i>>) : i \in 1 .. n}
<1>2. TopTasks(r) = Kept(s, K)
  <2>1. \A q, M : Selected(q, M) = Kept(q, M)
    BY DEF Selected, Kept
  <2>2. TopTasks(r) = Selected(s, K)
    BY <1>1 DEF TopTasks
  <2>3. QED BY <2>1, <2>2
<1>3. K = Posting(r)
  <2>1. \A i \in 1 .. n : <<r, i>> \in Tasks /\ Info(<<r, i>>) = req[r][i]
    BY <1>1, TaskOf_ DEF Info
  <2>2. ASSUME NEW x \in K PROVE x \in Posting(r)
    <3>1. PICK i \in 1 .. n : x = Item("TASK", <<r, i>>) /\ req[r][i].parent = 0
      OBVIOUS
    <3>2. PICK u \in Tasks : u = <<r, i>>
      BY <2>1
    <3>3. ~IsChild(u) /\ u[1] = r
      BY <2>1, <3>1, <3>2 DEF IsChild
    <3>4. QED BY <3>1, <3>2, <3>3 DEF Posting
  <2>3. ASSUME NEW x \in Posting(r) PROVE x \in K
    <3>1. PICK u \in Tasks : x = Item("TASK", u) /\ ~IsChild(u) /\ u[1] = r
      BY DEF Posting
    <3>2. PICK i \in 1 .. n : u = <<r, i>>
      BY <1>1, <3>1, TaskIs
    <3>3. req[r][i].parent = 0
      BY <2>1, <3>1, <3>2 DEF IsChild
    <3>4. QED BY <3>1, <3>2, <3>3
  <2>4. QED BY <2>2, <2>3
<1>4. s \in Seq(S)
  <2>1. \A i \in 1 .. n : s[i] \in S
    OBVIOUS
  <2>2. s \in [1 .. n -> S]
    BY <2>1
  <2>3. QED BY <2>2, SeqDef
<1>5. ASSUME NEW u, Item("TASK", u) \in K PROVE Count(s, Item("TASK", u)) = 1
  <2>1. PICK j \in 1 .. n : Item("TASK", u) = Item("TASK", <<r, j>>)
    BY <1>5
  <2>2. u = <<r, j>>
    BY <2>1, ItemIs
  <2>3. ASSUME NEW i \in 1 .. n PROVE s[i] = Item("TASK", u) <=> i = j
    <3>1. s[i] = Item("TASK", u) => <<r, i>> = <<r, j>>
      <4>1. s[i] = Item("TASK", <<r, i>>)
        OBVIOUS
      <4>2. QED BY <2>2, <4>1, ItemIs
    <3>2. QED BY <2>2, <3>1
  <2>4. At(s, Item("TASK", u)) = {j}
    <3>1. At(s, Item("TASK", u)) = {i \in 1 .. n : s[i] = Item("TASK", u)}
      BY DEF At
    <3>2. QED BY <2>3, <3>1
  <2>5. QED BY <2>4, FS_Singleton DEF Count
<1> HIDE DEF s, K, S
<1>6. /\ Kept(s, K) \in Seq(S) /\ \A i \in 1 .. Len(Kept(s, K)) : Kept(s, K)[i] \in K
      /\ \A x : Count(Kept(s, K), x) = IF x \in K THEN Count(s, x) ELSE 0
  <2>1. ASSUME NEW x PROVE Count(Kept(s, K), x) = IF x \in K THEN Count(s, x) ELSE 0
    BY <1>4, CountKept
  <2>2. Kept(s, K) \in Seq(S) /\ \A i \in 1 .. Len(Kept(s, K)) : Kept(s, K)[i] \in K
    BY <1>4, CountKept
  <2>3. QED BY <2>1, <2>2
<1>7. PICK v \in Seq(S) : v = Kept(s, K)
  BY <1>6
<1>8. v \in Seq(K)
  <2>1. Len(v) \in Nat /\ v \in [1 .. Len(v) -> S] /\ \A i \in 1 .. Len(v) : v[i] \in K
    BY <1>6, <1>7, LenProperties
  <2>2. v \in [1 .. Len(v) -> K]
    BY <2>1
  <2>3. QED BY <2>1, <2>2, SeqDef
<1>9. ASSUME NEW u
      PROVE  Count(v, Item("TASK", u)) = IF Item("TASK", u) \in K THEN 1 ELSE 0
  BY <1>5, <1>6, <1>7
<1>10. QED BY <1>2, <1>3, <1>7, <1>8, <1>9

\* post_tasks adds each of them to the queue.
LEMMA PostTasksAdds ==
    ASSUME IInv, NEW r \in Requests, PostTasks(r)
    PROVE  /\ QueuesOk' /\ queue_tasks' \in Seq(QItem) /\ Onward
           /\ \A u : Queued(u)' = Queued(u) + (IF Item("TASK", u) \in Posting(r) THEN 1 ELSE 0)
<1>1. /\ TypeOK /\ Control /\ Readers /\ QueuesOk /\ SlotsOk /\ AnswersOk /\ PlacesOk
      /\ \A x \in Requests : ResultsOk(x)
  BY DEF IInv
<1>2. /\ UNCHANGED <<queue_tasks_deferred, MainVars, sent, results, received_count, seen, req,
                     waiting>>
      /\ rpc[r] = "registered" /\ rpc' = [rpc EXCEPT ![r] = "waiting"]
      /\ queue_tasks' = TopTasks(r) \o queue_tasks \/ queue_tasks' = queue_tasks \o TopTasks(r)
  BY DEF PostTasks, MainVars, loopVars, sendVars
<1>3. /\ rpc'[r] = "waiting" /\ \A x \in Requests : x # r => rpc'[x] = rpc[x]
      /\ ~Posted(r) /\ req[r] # <<>>
      /\ rpc' \in [Requests -> {"new", "registered", "waiting", "stop", "purge", "cancel", "done"}]
  BY <1>1, <1>2 DEF TypeOK, Readers, Posted
<1>4. /\ Onward /\ Tasks' = Tasks /\ \A t \in Tasks : t \in TaskIds /\ t[1] \in Requests
      /\ \A x \in Requests : Posted(x) => Posted(x)'
  BY <1>1, <1>2, <1>3, SameRequests, TaskIs DEF Onward, Posted
<1>5. PICK top : top = TopTasks(r)
  OBVIOUS
<1>6. top \in Seq(Posting(r))
      /\ \A u : Count(top, Item("TASK", u)) = IF Item("TASK", u) \in Posting(r) THEN 1 ELSE 0
  BY <1>1, <1>3, <1>5, TopTasksAre
<1>7. Posting(r) \subseteq TaskItems' /\ TaskItems \subseteq TaskItems' /\ Items \subseteq Items'
  <2>1. ASSUME NEW x \in Posting(r) PROVE x \in TaskItems'
    <3>1. PICK u \in Tasks : x = Item("TASK", u) /\ ~IsChild(u) /\ u[1] = r
      BY DEF Posting
    <3>2. u \in Tasks' /\ ~IsChild(u)' /\ Posted(u[1])'
      BY <1>2, <1>3, <1>4, <3>1, SameRequests DEF Posted
    <3>3. QED BY <3>1, <3>2 DEF TaskItems, Item
  <2>2. QED BY <1>1, <1>4, <2>1, ItemsGrow
<1>8. PICK T : T = Items'
  OBVIOUS
<1>9. top \in Seq(T) /\ queue_tasks \in Seq(T) /\ queue_tasks' \in Seq(T)
      /\ \A u : Count(queue_tasks', Item("TASK", u))
                    = Count(queue_tasks, Item("TASK", u)) + Count(top, Item("TASK", u))
  <2>1. Posting(r) \subseteq T /\ Items \subseteq T
    BY <1>7, <1>8 DEF Items
  <2>2. top \in Seq(T) /\ queue_tasks \in Seq(T)
    BY <1>1, <1>6, <2>1, SeqGrows DEF QueuesOk
  <2>3. PICK q \in Seq(T) : q = queue_tasks
    BY <2>2
  <2>4. top \o q \in Seq(T) /\ q \o top \in Seq(T)
    BY <2>2, <2>3, ConcatProperties
  <2>5. ASSUME NEW e
        PROVE  /\ Count(top \o q, e) = Count(q, e) + Count(top, e)
               /\ Count(q \o top, e) = Count(q, e) + Count(top, e)
    <3>1. Count(top \o q, e) = Count(top, e) + Count(q, e)
      BY <2>2, <2>3, CountConcat
    <3>2. Count(q \o top, e) = Count(q, e) + Count(top, e)
      BY <2>2, <2>3, CountConcat
    <3>3. Count(top, e) \in Nat /\ Count(q, e) \in Nat
      BY <2>2, <2>3, CountIsNat
    <3>4. QED BY <3>1, <3>2, <3>3
  <2>6. queue_tasks' = top \o q \/ queue_tasks' = q \o top
    BY <1>2, <1>5, <2>3
  <2>7. QED BY <2>2, <2>3, <2>4, <2>5, <2>6
<1>10. QueuesOk'
  <2>1. queue_tasks_deferred \in Seq(TaskItems') /\ current \in Items'
    BY <1>1, <1>7, SeqGrows DEF QueuesOk
  <2>2. QED BY <1>2, <1>8, <1>9, <2>1 DEF QueuesOk, MainVars
<1>11. queue_tasks' \in Seq(QItem)
  <2>1. Items' \subseteq QItem
    <3>1. \A t \in Tasks' : t \in TaskIds
      BY <1>4
    <3>2. QED BY <3>1 DEF Items, TaskItems, CancelItems, QItem, NextResponse, Item
  <2>2. QED BY <1>8, <1>9, <2>1, SeqGrows
<1>12. ASSUME NEW u
       PROVE  Queued(u)' = Queued(u) + (IF Item("TASK", u) \in Posting(r) THEN 1 ELSE 0)
  <2>1. /\ Queued(u) = InQueues(queue_tasks, queue_tasks_deferred, current, u)
        /\ Queued(u)' = InQueues(queue_tasks', queue_tasks_deferred', current', u)
        /\ UNCHANGED <<queue_tasks_deferred, current>>
    BY <1>2, QueuedIs DEF MainVars
  <2>2. PICK e : e = Item("TASK", u)
    OBVIOUS
  <2>3. PICK a : a = Count(queue_tasks, e)
    OBVIOUS
  <2>4. PICK d : d = Count(queue_tasks_deferred, e)
    OBVIOUS
  <2>5. a \in Nat /\ d \in Nat
    BY <1>1, <2>3, <2>4, CountIsNat DEF QueuesOk
  <2>6. Count(queue_tasks', e) = a + (IF e \in Posting(r) THEN 1 ELSE 0)
    BY <1>6, <1>9, <2>2, <2>3
  <2>7. Queued(u) = a + d + (IF current = e THEN 1 ELSE 0)
    BY <2>1, <2>2, <2>3, <2>4 DEF InQueues
  <2>8. Queued(u)' = (a + (IF e \in Posting(r) THEN 1 ELSE 0)) + d + (IF current = e THEN 1 ELSE 0)
    BY <2>1, <2>2, <2>4, <2>6 DEF InQueues
  <2>9. QED BY <2>2, <2>5, <2>7, <2>8
<1>13. QED BY <1>4, <1>10, <1>11, <1>12

LEMMA PostTasksKeeps ==
    ASSUME IInv, NEW r \in Requests, PostTasks(r)
    PROVE  IInv'
<1>1. /\ TypeOK /\ Control /\ Readers /\ QueuesOk /\ SlotsOk /\ AnswersOk /\ PlacesOk
      /\ \A x \in Requests : ResultsOk(x)
  BY DEF IInv
<1>2. /\ UNCHANGED <<queue_tasks_deferred, MainVars, sent, results, received_count, seen, req,
                     waiting>>
      /\ rpc[r] = "registered" /\ rpc' = [rpc EXCEPT ![r] = "waiting"]
      /\ queue_tasks' = TopTasks(r) \o queue_tasks \/ queue_tasks' = queue_tasks \o TopTasks(r)
  BY DEF PostTasks, MainVars, loopVars, sendVars
<1>3. /\ rpc'[r] = "waiting" /\ \A x \in Requests : x # r => rpc'[x] = rpc[x]
      /\ ~Posted(r) /\ req[r] # <<>>
      /\ rpc' \in [Requests -> {"new", "registered", "waiting", "stop", "purge", "cancel", "done"}]
  BY <1>1, <1>2 DEF TypeOK, Readers, Posted
<1>4. /\ Onward /\ Tasks' = Tasks /\ \A t \in Tasks : t \in TaskIds /\ t[1] \in Requests
      /\ \A x \in Requests : Posted(x) => Posted(x)'
  BY <1>1, <1>2, <1>3, SameRequests, TaskIs DEF Onward, Posted
<1>5. /\ QueuesOk' /\ queue_tasks' \in Seq(QItem)
      /\ \A u : Queued(u)' = Queued(u) + (IF Item("TASK", u) \in Posting(r) THEN 1 ELSE 0)
  BY PostTasksAdds
<1>6. TypeOK'
  BY <1>1, <1>2, <1>3, <1>5 DEF TypeOK, MainVars, IsIdle
<1>7. Control'
  BY <1>1, <1>2 DEF Control, IsIdle, MainVars
<1>8. Readers'
  <2>1. ASSUME NEW x \in Requests
        PROVE  /\ rpc'[x] = "new" <=> req[x] = <<>>
               /\ rpc'[x] = "new" => received_count[x] = 0
               /\ rpc'[x] \in {"registered", "waiting"} => received_count[x] < Len(req[x])
               /\ x \in waiting => rpc'[x] \in Awaited
    BY <1>1, <1>2, <1>3 DEF Readers, Awaited
  <2>2. QED BY <1>2, <2>1 DEF Readers, Awaited
<1>9. SlotsOk'
  <2>1. ASSUME NEW s \in SlotIds, slots[s].task # NoTask
        PROVE  slots[s].task \in Tasks /\ Posted(slots[s].task[1])'
    <3>1. PICK o \in Tasks : o = slots[s].task /\ Posted(o[1])
      BY <1>1, <2>1 DEF SlotsOk
    <3>2. Posted(o[1])'
      BY <1>4, <3>1
    <3>3. QED BY <1>2, <3>1, <3>2 DEF Posted, MainVars
  <2>2. \A s, x \in SlotIds : slots[s].task = slots[x].task /\ s # x => IsIdle(s)
    BY <1>1 DEF SlotsOk
  <2>3. QED BY <1>2, <1>4, <2>1, <2>2 DEF SlotsOk, MainVars, IsIdle, Posted
<1>10. AnswersOk'
  <2>1. \A t \in TaskIds : /\ Len(sent[t]) <= 1
                           /\ sent[t] # <<>> => t \in Tasks /\ Posted(t[1])'
    BY <1>1, <1>4 DEF AnswersOk, Onward
  <2>2. QED BY <1>2, <1>4, <2>1 DEF AnswersOk
<1>11. ASSUME NEW t \in Tasks
       PROVE  /\ Held(t)' <= 1
              /\ sent[t] # <<>> /\ Held(t)' # 0 => mainPc = "release" /\ slots[at].task = t
              /\ rpc'[t[1]] = "waiting" /\ sent[t] = <<>> /\ ~Failed(t[1])' => Held(t)' = 1
  <2>1. PICK u \in Tasks : u = Top(t) /\ ~IsChild(u) /\ u[1] = t[1]
    BY <1>1, TopIs
  <2>2. Item("TASK", u) \in Posting(r) <=> t[1] = r
    <3>1. Item("TASK", u) \in Posting(r) => u[1] = r
      BY ItemIs DEF Posting
    <3>2. u[1] = r => Item("TASK", u) \in Posting(r)
      BY <2>1 DEF Posting
    <3>3. QED BY <2>1, <3>1, <3>2
  <2>3. /\ Held(t) = Queued(u) + (IF HasSlot(t) THEN 1 ELSE 0)
        /\ Held(t)' = Queued(u)' + (IF HasSlot(t)' THEN 1 ELSE 0)
        /\ HasSlot(t)' = HasSlot(t)
    BY <1>2, <2>1, HeldIs DEF HasSlot, MainVars
  <2>4. Queued(u)' = Queued(u) + (IF t[1] = r THEN 1 ELSE 0) /\ Queued(u) \in Nat
    BY <1>1, <1>5, <2>2, QueuedIsNat
  <2>5. CASE t[1] = r
    <3>1. ~HasSlot(t)
      <4>1. t # NoTask
        BY <1>1, TaskIs
      <4>2. QED BY <1>1, <1>3, <2>5, <4>1 DEF HasSlot, SlotsOk
    <3>2. Queued(u) = 0
      <4>1. ASSUME Item("TASK", u) \in TaskItems PROVE FALSE
        <5>1. PICK v \in Tasks : Item("TASK", u) = Item("TASK", v) /\ Posted(v[1])
          BY <4>1 DEF TaskItems
        <5>2. u = v
          BY <5>1, ItemIs
        <5>3. QED BY <1>3, <2>1, <2>5, <5>1, <5>2
      <4>2. QED BY <1>1, <4>1, QueuedIsNat
    <3>3. Held(t)' = 1
      BY <2>3, <2>4, <2>5, <3>1, <3>2
    <3>4. sent[t] = <<>>
      BY <1>1, <1>3, <1>4, <2>5 DEF AnswersOk
    <3>5. QED BY <3>3, <3>4
  <2>6. CASE t[1] # r
    <3>1. Held(t)' = Held(t)
      BY <2>3, <2>4, <2>6
    <3>2. Failed(t[1])' = Failed(t[1])
      BY <1>2, SameRequests DEF Failed
    <3>3. rpc'[t[1]] = rpc[t[1]]
      BY <1>3, <1>4, <2>6
    <3>4. QED BY <1>1, <3>1, <3>2, <3>3 DEF PlacesOk
  <2>7. QED BY <2>5, <2>6
<1>12. PlacesOk'
  BY <1>2, <1>4, <1>11 DEF PlacesOk, MainVars
<1>13. ASSUME NEW x \in Requests PROVE ResultsOk(x)'
  <2>1. ResultsOk(x) /\ rpc'[x] \in {rpc[x], "waiting"}
    BY <1>1, <1>3
  <2>2. QED BY <1>2, <2>1 DEF ResultsOk
<1>14. QED
  BY <1>5, <1>6, <1>7, <1>8, <1>9, <1>10, <1>12, <1>13 DEF IInv

\* cleanup_pending_task takes the tasks of a request out of a queue, no others.
LEMMA CleanupIs ==
    ASSUME NEW S, NEW q \in Seq(S), NEW r, NEW u
    PROVE  /\ CleanupPendingTasks(q, r) \in Seq(S)
           /\ Count(CleanupPendingTasks(q, r), Item("TASK", u)) =
                  IF u \in Ids(r) THEN 0 ELSE Count(q, Item("TASK", u))
<1> DEFINE K == {item \in Range(q) : ~IsTaskOf(item, r)}
           x == Item("TASK", u)
<1>1. CleanupPendingTasks(q, r) = Kept(q, K)
  <2>1. \A M : Selected(q, M) = Kept(q, M)
    BY DEF Selected, Kept
  <2>2. QED BY <2>1 DEF CleanupPendingTasks
<1>2. IsTaskOf(x, r) <=> u \in Ids(r)
  BY ItemIs DEF IsTaskOf
<1>3. x \in K <=> (\E i \in DOMAIN q : q[i] = x) /\ u \notin Ids(r)
  BY <1>2 DEF Range
<1> HIDE DEF K, x
<1>4. Kept(q, K) \in Seq(S) /\ Count(Kept(q, K), x) = IF x \in K THEN Count(q, x) ELSE 0
  BY CountKept
<1>5. (\A i \in DOMAIN q : q[i] # x) => Count(q, x) = 0
  BY CountIsZero
<1>6. Count(Kept(q, K), x) = IF u \in Ids(r) THEN 0 ELSE Count(q, x)
  BY <1>3, <1>4, <1>5
<1>7. QED BY <1>1, <1>4, <1>6 DEF x

LEMMA CancelsAre ==
    ASSUME TypeOK, NEW r \in Requests, req[r] # <<>>, NEW ids \in SetToSeqs(Ids(r)), NEW T,
           \A t \in Ids(r) : Item("CANCEL", t) \in T
    PROVE  /\ [i \in DOMAIN ids |-> Item("CANCEL", ids[i])] \in Seq(T)
           /\ \A u : Count([i \in DOMAIN ids |-> Item("CANCEL", ids[i])], Item("TASK", u)) = 0
<1>1. PICK n \in Nat : DOMAIN req[r] = 1 .. n
  <2>1. req[r] \in Shapes
    BY DEF TypeOK
  <2>2. DOMAIN req[r] = 1 .. Len(req[r]) /\ Len(req[r]) \in 1 .. MaxTasks
    BY <2>1, ShapeIs
  <2>3. QED BY <2>2, BoundsAssumption
<1>2. IsFiniteSet(Ids(r))
  <2> DEFINE f == [i \in 1 .. n |-> <<r, i>>]
  <2>1. Ids(r) = {<<r, i>> : i \in 1 .. n}
    BY <1>1 DEF Ids
  <2>2. f \in Surjection(1 .. n, Ids(r))
    BY <2>1 DEF Surjection
  <2>3. IsFiniteSet(1 .. n)
    BY FS_Interval
  <2>4. QED BY <2>2, <2>3, FS_Surjection
<1>3. PICK m \in Nat : m = Cardinality(Ids(r))
  BY <1>2, FS_CardinalityType
<1>4. ids \in [1 .. m -> Ids(r)]
  BY <1>3 DEF SetToSeqs
<1> DEFINE s == [i \in 1 .. m |-> Item("CANCEL", ids[i])]
<1>5. s \in [1 .. m -> T] /\ s = [i \in DOMAIN ids |-> Item("CANCEL", ids[i])]
  BY <1>4
<1>6. \A i \in 1 .. m : s[i] = Item("CANCEL", ids[i])
  OBVIOUS
<1> HIDE DEF s
<1>7. s \in Seq(T) /\ DOMAIN s = 1 .. m
  BY <1>5, SeqDef
<1>8. ASSUME NEW u PROVE Count(s, Item("TASK", u)) = 0
  <2>1. \A i \in DOMAIN s : s[i] # Item("TASK", u)
    BY <1>6, <1>7, ItemIs
  <2>2. QED BY <1>7, <2>1, CountIsZero
<1>9. QED BY <1>5, <1>7, <1>8

\* post_tasks with the CANCELs: nothing else of the request stays queued.
LEMMA PostCancelsTakes ==
    ASSUME IInv, NEW r \in Requests, PostCancels(r)
    PROVE  /\ QueuesOk' /\ Onward /\ \A x : Posted(x)' <=> Posted(x)
           /\ queue_tasks' \in Seq(QItem) /\ queue_tasks_deferred' \in Seq(QItem)
           /\ \A u : /\ Queued(u) \in Nat /\ Queued(u)' \in Nat /\ Queued(u)' <= Queued(u)
                     /\ u \notin Ids(r) => Queued(u)' = Queued(u)
<1>1. /\ TypeOK /\ Control /\ Readers /\ QueuesOk /\ SlotsOk /\ AnswersOk /\ PlacesOk
      /\ \A x \in Requests : ResultsOk(x)
  BY DEF IInv
<1>2. /\ UNCHANGED <<MainVars, sent, results, received_count, seen, req, waiting>>
      /\ rpc[r] = "cancel" /\ rpc' = [rpc EXCEPT ![r] = "done"]
      /\ queue_tasks_deferred' = CleanupPendingTasks(queue_tasks_deferred, r)
  BY DEF PostCancels, MainVars, loopVars, sendVars
<1>3. PICK ids \in SetToSeqs(Ids(r)) :
          queue_tasks' = [i \in DOMAIN ids |-> Item("CANCEL", ids[i])]
                             \o CleanupPendingTasks(queue_tasks, r)
  BY DEF PostCancels
<1>4. /\ rpc'[r] = "done" /\ (\A x \in Requests : x # r => rpc'[x] = rpc[x])
      /\ Posted(r) /\ req[r] # <<>>
      /\ rpc' \in [Requests -> {"new", "registered", "waiting", "stop", "purge", "cancel", "done"}]
  BY <1>1, <1>2 DEF TypeOK, Readers, Posted
<1>5. /\ Onward /\ Tasks' = Tasks /\ \A t \in Tasks : t \in TaskIds /\ t[1] \in Requests
      /\ \A x : Posted(x)' <=> Posted(x)
  <2>1. \A x : Posted(x)' <=> Posted(x)
    BY <1>1, <1>2, <1>4 DEF Posted, TypeOK
  <2>2. Onward
    BY <1>2, <1>4, <2>1 DEF Onward
  <2>3. QED BY <1>1, <2>1, <2>2, SameRequests, TaskIs DEF Onward
<1>6. TaskItems \subseteq TaskItems' /\ Items \subseteq Items'
      /\ \A t \in Ids(r) : Item("CANCEL", t) \in Items'
  <2>1. ASSUME NEW t \in Ids(r) PROVE Item("CANCEL", t) \in Items'
    <3>1. t \in Tasks /\ t[1] = r
      BY <1>1, TaskOf_ DEF Ids
    <3>2. t \in Tasks' /\ rpc'[t[1]] = "done"
      BY <1>4, <1>5, <3>1
    <3>3. Item("CANCEL", t) \in CancelItems'
      BY <3>2 DEF CancelItems, Item
    <3>4. QED BY <3>3 DEF Items
  <2>2. QED BY <1>1, <1>5, <2>1, ItemsGrow
<1>7. PICK T : T = Items'
  OBVIOUS
<1>8. PICK c : c = [i \in DOMAIN ids |-> Item("CANCEL", ids[i])]
  OBVIOUS
<1>9. PICK q : q = CleanupPendingTasks(queue_tasks, r)
  OBVIOUS
<1>10. PICK d : d = CleanupPendingTasks(queue_tasks_deferred, r)
  OBVIOUS
<1>11. c \in Seq(T) /\ \A u : Count(c, Item("TASK", u)) = 0
  BY <1>1, <1>4, <1>6, <1>7, <1>8, CancelsAre
<1>12. /\ queue_tasks \in Seq(T) /\ queue_tasks_deferred \in Seq(TaskItems')
       /\ current \in T
  BY <1>1, <1>6, <1>7, SeqGrows DEF QueuesOk
<1>13. /\ q \in Seq(T)
       /\ \A u : Count(q, Item("TASK", u)) =
                     IF u \in Ids(r) THEN 0 ELSE Count(queue_tasks, Item("TASK", u))
  BY <1>9, <1>12, CleanupIs
<1>14. /\ d \in Seq(TaskItems')
       /\ \A u : Count(d, Item("TASK", u)) =
                     IF u \in Ids(r) THEN 0 ELSE Count(queue_tasks_deferred, Item("TASK", u))
  BY <1>10, <1>12, CleanupIs
<1>15. queue_tasks' = c \o q /\ c \o q \in Seq(T)
       /\ \A u : Count(c \o q, Item("TASK", u)) = Count(q, Item("TASK", u))
  <2>1. queue_tasks' = c \o q /\ c \o q \in Seq(T)
    BY <1>3, <1>8, <1>9, <1>11, <1>13, ConcatProperties
  <2>2. ASSUME NEW u PROVE Count(c \o q, Item("TASK", u)) = Count(q, Item("TASK", u))
    <3>1. Count(c \o q, Item("TASK", u)) = Count(c, Item("TASK", u)) + Count(q, Item("TASK", u))
      BY <1>11, <1>13, CountConcat
    <3>2. Count(c, Item("TASK", u)) = 0 /\ Count(q, Item("TASK", u)) \in Nat
      BY <1>11, <1>13, CountIsNat
    <3>3. QED BY <3>1, <3>2
  <2>3. QED BY <2>1, <2>2
<1>16. QueuesOk'
  BY <1>2, <1>7, <1>10, <1>12, <1>14, <1>15 DEF QueuesOk, MainVars
<1>17. queue_tasks' \in Seq(QItem) /\ queue_tasks_deferred' \in Seq(QItem)
  <2>1. Items' \subseteq QItem /\ TaskItems' \subseteq QItem
    <3>1. \A t \in Tasks' : t \in TaskIds
      BY <1>5
    <3>2. QED BY <3>1 DEF Items, TaskItems, CancelItems, QItem, NextResponse, Item
  <2>2. QED BY <1>2, <1>7, <1>10, <1>14, <1>15, <2>1, SeqGrows
<1>18. ASSUME NEW u
       PROVE  /\ Queued(u) \in Nat /\ Queued(u)' \in Nat /\ Queued(u)' <= Queued(u)
              /\ u \notin Ids(r) => Queued(u)' = Queued(u)
  <2>1. /\ Queued(u) = InQueues(queue_tasks, queue_tasks_deferred, current, u)
        /\ Queued(u)' = InQueues(queue_tasks', queue_tasks_deferred', current', u)
        /\ UNCHANGED current
    BY <1>2, QueuedIs DEF MainVars
  <2>2. PICK e : e = Item("TASK", u)
    OBVIOUS
  <2>3. PICK a : a = Count(queue_tasks, e)
    OBVIOUS
  <2>4. PICK b : b = Count(queue_tasks_deferred, e)
    OBVIOUS
  <2>5. a \in Nat /\ b \in Nat
    BY <1>12, <2>3, <2>4, CountIsNat
  <2>6. /\ Count(queue_tasks', e) = IF u \in Ids(r) THEN 0 ELSE a
        /\ Count(queue_tasks_deferred', e) = IF u \in Ids(r) THEN 0 ELSE b
    BY <1>2, <1>10, <1>13, <1>14, <1>15, <2>2, <2>3, <2>4
  <2>7. Queued(u) = a + b + (IF current = e THEN 1 ELSE 0)
    BY <2>1, <2>2, <2>3, <2>4 DEF InQueues
  <2>8. Queued(u)' = (IF u \in Ids(r) THEN 0 ELSE a) + (IF u \in Ids(r) THEN 0 ELSE b)
                         + (IF current = e THEN 1 ELSE 0)
    BY <2>1, <2>2, <2>6 DEF InQueues
  <2>9. QED BY <2>5, <2>7, <2>8
<1>19. QED BY <1>5, <1>16, <1>17, <1>18

LEMMA PostCancelsKeeps ==
    ASSUME IInv, NEW r \in Requests, PostCancels(r)
    PROVE  IInv'
<1>1. /\ TypeOK /\ Control /\ Readers /\ QueuesOk /\ SlotsOk /\ AnswersOk /\ PlacesOk
      /\ \A x \in Requests : ResultsOk(x)
  BY DEF IInv
<1>2. /\ UNCHANGED <<MainVars, sent, results, received_count, seen, req, waiting>>
      /\ rpc[r] = "cancel" /\ rpc' = [rpc EXCEPT ![r] = "done"]
      /\ queue_tasks_deferred' = CleanupPendingTasks(queue_tasks_deferred, r)
  BY DEF PostCancels, MainVars, loopVars, sendVars
<1>3. /\ rpc'[r] = "done" /\ (\A x \in Requests : x # r => rpc'[x] = rpc[x])
      /\ Posted(r) /\ req[r] # <<>>
      /\ rpc' \in [Requests -> {"new", "registered", "waiting", "stop", "purge", "cancel", "done"}]
  BY <1>1, <1>2 DEF TypeOK, Readers, Posted
<1>4. /\ QueuesOk' /\ Onward /\ \A x : Posted(x)' <=> Posted(x)
      /\ queue_tasks' \in Seq(QItem) /\ queue_tasks_deferred' \in Seq(QItem)
      /\ \A u : /\ Queued(u) \in Nat /\ Queued(u)' \in Nat /\ Queued(u)' <= Queued(u)
                /\ u \notin Ids(r) => Queued(u)' = Queued(u)
  BY PostCancelsTakes
<1>5. Tasks' = Tasks /\ \A t \in Tasks : t \in TaskIds /\ t[1] \in Requests
  BY <1>1, <1>2, SameRequests, TaskIs
<1>6. TypeOK'
  BY <1>1, <1>2, <1>3, <1>4 DEF TypeOK, MainVars, IsIdle
<1>7. Control'
  BY <1>1, <1>2 DEF Control, IsIdle, MainVars
<1>8. Readers'
  <2>1. r \notin waiting
    BY <1>1, <1>2 DEF Readers, Awaited
  <2>2. ASSUME NEW x \in Requests
        PROVE  /\ rpc'[x] = "new" <=> req[x] = <<>>
               /\ rpc'[x] = "new" => received_count[x] = 0
               /\ rpc'[x] \in {"registered", "waiting"} => received_count[x] < Len(req[x])
               /\ x \in waiting => rpc'[x] \in Awaited
    BY <1>1, <1>2, <1>3, <2>1 DEF Readers, Awaited
  <2>3. QED BY <1>2, <2>2 DEF Readers, Awaited
<1>9. SlotsOk'
  <2>1. ASSUME NEW s \in SlotIds, slots[s].task # NoTask
        PROVE  slots[s].task \in Tasks /\ Posted(slots[s].task[1])'
    <3>1. PICK o \in Tasks : o = slots[s].task /\ Posted(o[1])
      BY <1>1, <2>1 DEF SlotsOk
    <3>2. Posted(o[1])'
      BY <1>4, <1>5, <3>1
    <3>3. QED BY <1>2, <3>1, <3>2 DEF Posted, MainVars
  <2>2. \A s, x \in SlotIds : slots[s].task = slots[x].task /\ s # x => IsIdle(s)
    BY <1>1 DEF SlotsOk
  <2>3. QED BY <1>2, <1>4, <1>5, <2>1, <2>2 DEF SlotsOk, MainVars, IsIdle, Posted
<1>10. AnswersOk'
  <2>1. \A t \in TaskIds : /\ Len(sent[t]) <= 1
                           /\ sent[t] # <<>> => t \in Tasks /\ Posted(t[1])'
    BY <1>1, <1>4, <1>5 DEF AnswersOk
  <2>2. QED BY <1>2, <1>4, <1>5, <2>1 DEF AnswersOk
<1>11. ASSUME NEW t \in Tasks
       PROVE  /\ Held(t)' <= 1
              /\ sent[t] # <<>> /\ Held(t)' # 0 => mainPc = "release" /\ slots[at].task = t
              /\ rpc'[t[1]] = "waiting" /\ sent[t] = <<>> /\ ~Failed(t[1])' => Held(t)' = 1
  <2>1. PICK u \in Tasks : u = Top(t) /\ u[1] = t[1]
    BY <1>1, TopIs
  <2>2. /\ Held(t) = Queued(u) + (IF HasSlot(t) THEN 1 ELSE 0)
        /\ Held(t)' = Queued(u)' + (IF HasSlot(t)' THEN 1 ELSE 0)
        /\ HasSlot(t)' = HasSlot(t)
    BY <1>2, <2>1, HeldIs DEF HasSlot, MainVars
  <2>3. /\ Queued(u) \in Nat /\ Queued(u)' \in Nat /\ Queued(u)' <= Queued(u)
        /\ u \notin Ids(r) => Queued(u)' = Queued(u)
    BY <1>4
  <2>4. CASE t[1] = r
    <3>1. Held(t)' <= Held(t) /\ (Held(t)' # 0 => Held(t) # 0)
      BY <2>2, <2>3
    <3>2. Held(t)' \in Nat /\ Held(t) \in Nat
      BY <2>2, <2>3
    <3>3. Held(t) <= 1
          /\ (sent[t] # <<>> /\ Held(t) # 0 => mainPc = "release" /\ slots[at].task = t)
      BY <1>1 DEF PlacesOk
    <3>4. QED BY <1>3, <2>4, <3>1, <3>2, <3>3
  <2>5. CASE t[1] # r
    <3>1. u \notin Ids(r)
      BY <2>1, <2>5 DEF Ids
    <3>2. Held(t)' = Held(t)
      BY <2>2, <2>3, <3>1
    <3>3. Failed(t[1])' = Failed(t[1])
      BY <1>2, SameRequests DEF Failed
    <3>4. rpc'[t[1]] = rpc[t[1]]
      BY <1>3, <1>4, <1>5, <2>5
    <3>5. QED BY <1>1, <3>2, <3>3, <3>4 DEF PlacesOk
  <2>6. QED BY <2>4, <2>5
<1>12. PlacesOk'
  BY <1>2, <1>4, <1>5, <1>11 DEF PlacesOk, MainVars
<1>13. ASSUME NEW x \in Requests PROVE ResultsOk(x)'
  <2>1. ResultsOk(x) /\ (x # r => rpc'[x] = rpc[x])
    BY <1>1, <1>3
  <2>2. x = r => results[x] = <<>>
    BY <1>2, <2>1 DEF ResultsOk
  <2>3. QED BY <1>2, <2>1, <2>2 DEF ResultsOk
<1>14. QED
  BY <1>4, <1>6, <1>7, <1>8, <1>9, <1>10, <1>12, <1>13 DEF IInv

-----------------------------------------------------------------------------
(* The invariant.                                                          *)

LEMMA InitIInv == Init => IInv
<1> SUFFICES ASSUME Init PROVE IInv
  OBVIOUS
<1>1. Tasks = {} /\ \A r \in Requests : Ids(r) = {}
  BY DEF Init, Tasks, TaskIds, Ids
<1>2. \A S : <<>> \in Seq(S)
  BY EmptySeq
<1>3. TypeOK
  <2>1. IdleSlot \in SlotT /\ IdleSlot.state = "IDLE" /\ IdleSlot.task = NoTask
    BY DEF IdleSlot, SlotT, SlotStates
  <2>2. /\ slots \in [SlotIds -> SlotT]
        /\ \A s \in SlotIds : IsIdle(s) <=> slots[s].task = NoTask
    BY <2>1 DEF Init, IsIdle
  <2>3. queue_tasks \in Seq(QItem) /\ queue_tasks_deferred \in Seq(QItem) /\ current \in QItem
    BY <1>2 DEF Init, QItem
  <2>4. at \in 0 .. NSlots /\ n_empty_consecutive \in 0 .. 4
    BY BoundsAssumption DEF Init
  <2>5. received_count \in [Requests -> 0 .. MaxTasks] /\ seen \in [Requests -> SUBSET (1 .. MaxTasks)]
    BY BoundsAssumption DEF Init
  <2>6. results \in [Requests -> Seq(Result)] /\ sent \in [TaskIds -> Seq({"final", "error"})]
    BY <1>2 DEF Init
  <2>7. QED BY <2>2, <2>3, <2>4, <2>5, <2>6 DEF TypeOK, Init, SlotT
<1>4. Control /\ Readers
  BY DEF Init, Control, Readers
<1>5. QueuesOk
  BY <1>2 DEF Init, QueuesOk, Items
<1>6. SlotsOk
  BY DEF Init, SlotsOk, IdleSlot, NoTask, IsIdle
<1>7. AnswersOk
  <2>1. Len(<<>>) = 0
    OBVIOUS
  <2>2. \A t \in TaskIds : sent[t] = <<>> /\ Len(sent[t]) = 0
    BY <2>1 DEF Init
  <2>3. QED BY <2>2 DEF AnswersOk
<1>8. PlacesOk
  BY <1>1 DEF PlacesOk
<1>9. \A r \in Requests : ResultsOk(r)
  <2>1. Cardinality({}) = 0
    BY FS_EmptySet
  <2>2. QED BY <2>1 DEF Init, ResultsOk
<1>10. QED BY <1>3, <1>4, <1>5, <1>6, <1>7, <1>8, <1>9 DEF IInv

LEMMA NextKeepsIInv == IInv /\ [Next]_vars => IInv'
<1> SUFFICES ASSUME IInv, [Next]_vars PROVE IInv'
  OBVIOUS
<1>1. CASE MainStep
  BY <1>1, MainKeepsIInv
<1>2. CASE \E r \in Requests : ReaderStep(r) \/ (Alive /\ Disconnect(r))
  BY <1>2, RegisterKeeps, PostTasksKeeps, ReceiveKeeps, DisconnectKeeps, PostCancelsKeeps
     DEF ReaderStep
<1>3. CASE UNCHANGED vars
  <2>1. Apart
    BY <1>3 DEF vars, Apart, queueVars, MainVars, Onward, Posted
  <2>2. TypeOK' /\ Readers'
    BY <1>3 DEF IInv, vars, TypeOK, IsIdle, Readers, Awaited
  <2>3. \A r \in Requests : ResultsOk(r)'
    BY <1>3, ResultsStay DEF IInv, vars
  <2>4. QED BY <2>1, <2>2, <2>3, ApartKeeps DEF IInv
<1>4. QED BY <1>1, <1>2, <1>3 DEF Next

LEMMA RunningIs ==
    ASSUME TypeOK, SlotsOk, NEW t \in Tasks
    PROVE  Running(t) = IF HasSlot(t) THEN 1 ELSE 0
<1> DEFINE On == {s \in SlotIds : slots[s].task = t}
<1>1. CASE HasSlot(t)
  <2>1. PICK s \in SlotIds : slots[s].task = t
    BY <1>1 DEF HasSlot
  <2>2. ~IsIdle(s) /\ t # NoTask
    BY <2>1, SlotsAre, TaskIs DEF SlotsTyped
  <2>3. \A x \in SlotIds : slots[x].task = t => x = s
    BY <2>1, <2>2 DEF SlotsOk
  <2>4. On = {s}
    BY <2>1, <2>3
  <2>5. QED BY <1>1, <2>4, FS_Singleton DEF Running
<1>2. CASE ~HasSlot(t)
  <2>1. On = {}
    BY <1>2 DEF HasSlot
  <2>2. QED BY <1>2, <2>1, FS_EmptySet DEF Running
<1>3. QED BY <1>1, <1>2

LEMMA IInvImplies == IInv => TasksAccounted
<1> SUFFICES ASSUME IInv PROVE TasksAccounted
  OBVIOUS
<1>1. /\ TypeOK /\ SlotsOk /\ AnswersOk /\ PlacesOk
      /\ \A r \in Requests : ResultsOk(r)
  BY DEF IInv
<1>2. NoTaskLost
  <2>1. ASSUME NEW t \in Tasks PROVE Places(t) = Held(t)
    <3>1. Places(t) = Queued(Top(t)) + Running(t)
      BY DEF Places, Top
    <3>2. QED BY <1>1, <3>1, RunningIs DEF Held
  <2>2. QED BY <1>1, <2>1 DEF NoTaskLost, PlacesOk
<1>3. NoDuplicateResult
  BY <1>1 DEF NoDuplicateResult, AnswersOk, ResultsOk
<1>4. NoResultLeak
  BY <1>1 DEF NoResultLeak, ResultsOk
<1>5. QED BY <1>1, <1>2, <1>3, <1>4 DEF TasksAccounted

\* Whatever is deferred, released, cancelled or refused in between, a task of
\* a request is in one place (queue, deferred queue, main thread or slot)
\* until it is answered, is answered at most once, and what is kept in
\* queue_results belongs to a reader that will take it or throw it away.
THEOREM TasksAccountedHolds == Spec => []TasksAccounted
<1>1. Init => IInv
  BY InitIInv
<1>2. IInv /\ [Next]_vars => IInv'
  BY NextKeepsIInv
<1>3. IInv => TasksAccounted
  BY IInvImplies
<1>4. QED
  BY <1>1, <1>2, <1>3, PTL DEF Spec

-----------------------------------------------------------------------------
(* The refinement of TaskService.                                          *)

\* The phase of a task, told without counting.
View(t) ==
    IF t \notin Tasks THEN "none"
    ELSE IF sent[t] = <<"final">> THEN "ok"
    ELSE IF sent[t] # <<>> THEN "error"
    ELSE IF HasSlot(t) THEN "running"
    ELSE IF rpc[t[1]] = "registered" \/ Queued(Top(t)) > 0 THEN "pending"
    ELSE "dropped"

Views == \A t \in TaskIds : Phase(t) = View(t)

InSlots == {t \in TaskIds : View(t) = "running"}

\* A sequence of at most one answer.
LEMMA AnswerOf ==
    ASSUME NEW a \in Seq({"final", "error"}), Len(a) <= 1
    PROVE  a = <<>> \/ a = <<"final">> \/ a = <<"error">>
<1>1. Len(a) \in Nat /\ DOMAIN a = 1 .. Len(a)
  BY LenProperties
<1>2. CASE Len(a) = 0
  BY <1>2, EmptySeq
<1>3. CASE Len(a) = 1
  <2>1. a[1] \in {"final", "error"}
    BY <1>1, <1>3, ElementOfSeq
  <2>2. a = <<a[1]>>
    BY <1>3
  <2>3. QED BY <2>1, <2>2
<1>4. QED BY <1>1, <1>2, <1>3

LEMMA AnswersDiffer ==
    /\ <<"final">> # <<>> /\ <<"error">> # <<>> /\ <<"final">> # <<"error">>
<1>1. Len(<<"final">>) = 1 /\ Len(<<"error">>) = 1 /\ Len(<<>>) = 0
  OBVIOUS
<1>2. <<"final">>[1] # <<"error">>[1]
  OBVIOUS
<1>3. QED BY <1>1, <1>2

LEMMA ViewIs == IInv => Views
<1> SUFFICES ASSUME IInv, NEW t \in TaskIds PROVE Phase(t) = View(t)
  BY DEF Views
<1>1. TypeOK /\ SlotsOk /\ AnswersOk /\ QueuesOk
  BY DEF IInv
<1>2. CASE t \notin Tasks
  BY <1>2 DEF Phase, View
<1>3. CASE t \in Tasks
  <2>1. PICK a \in {<<>>, <<"final">>, <<"error">>} : a = sent[t]
    <3>1. sent[t] \in Seq({"final", "error"}) /\ Len(sent[t]) <= 1
      BY <1>1 DEF TypeOK, AnswersOk
    <3>2. QED BY <3>1, AnswerOf
  <2>2. Len(<<>>) = 0 /\ Len(<<"final">>) = 1 /\ Len(<<"error">>) = 1
    OBVIOUS
  <2>3. CASE a = <<"final">>
    BY <1>3, <2>1, <2>2, <2>3, AnswersDiffer DEF Phase, View
  <2>4. CASE a = <<"error">>
    BY <1>3, <2>1, <2>2, <2>4, AnswersDiffer DEF Phase, View
  <2>5. CASE a = <<>>
    <3>1. Phase(t) = IF Running(t) > 0 THEN "running"
                     ELSE IF rpc[t[1]] = "registered" \/ Places(t) > 0 THEN "pending"
                     ELSE "dropped"
      BY <1>3, <2>1, <2>2, <2>5, AnswersDiffer DEF Phase
    <3>2. Running(t) = IF HasSlot(t) THEN 1 ELSE 0
      BY <1>1, <1>3, RunningIs
    <3>3. Places(t) = Queued(Top(t)) + Running(t) /\ Queued(Top(t)) \in Nat
      BY <1>1, QueuedIsNat DEF Places, Top
    <3>4. View(t) = IF HasSlot(t) THEN "running"
                    ELSE IF rpc[t[1]] = "registered" \/ Queued(Top(t)) > 0 THEN "pending"
                    ELSE "dropped"
      BY <1>3, <2>1, <2>2, <2>5, AnswersDiffer DEF View
    <3>5. CASE HasSlot(t)
      BY <3>1, <3>2, <3>4, <3>5
    <3>6. CASE ~HasSlot(t)
      BY <3>1, <3>2, <3>3, <3>4, <3>6
    <3>7. QED BY <3>5, <3>6
  <2>6. QED BY <2>3, <2>4, <2>5
<1>4. QED BY <1>2, <1>3

LEMMA SlotsSuffice == IInv => Cardinality(InSlots) <= NSlots
<1> SUFFICES ASSUME IInv PROVE Cardinality(InSlots) <= NSlots
  OBVIOUS
<1> DEFINE f == [t \in InSlots |-> CHOOSE s \in SlotIds : slots[s].task = t]
<1>1. \A t \in InSlots : \E s \in SlotIds : slots[s].task = t
  BY DEF InSlots, View, HasSlot
<1>2. \A t \in InSlots : f[t] \in SlotIds /\ slots[f[t]].task = t
  BY <1>1
<1>3. f \in Injection(InSlots, SlotIds)
  <2>1. f \in [InSlots -> SlotIds]
    BY <1>2
  <2>2. \A t, u \in InSlots : f[t] = f[u] => t = u
    BY <1>2
  <2> HIDE DEF f
  <2>3. QED BY <2>1, <2>2 DEF Injection, IsInjective
<1>4. IsFiniteSet(SlotIds) /\ Cardinality(SlotIds) = NSlots
  <2>1. NSlots \in Nat /\ NSlots # 0 /\ 0 \in Int /\ NSlots - 1 \in Int
    BY BoundsAssumption
  <2>2. Cardinality(0 .. NSlots - 1) = IF 0 > NSlots - 1 THEN 0 ELSE (NSlots - 1) - 0 + 1
    BY <2>1, FS_Interval
  <2>3. IsFiniteSet(0 .. NSlots - 1)
    BY <2>1, FS_Interval
  <2>4. QED BY <2>1, <2>2, <2>3 DEF SlotIds
<1>5. QED BY <1>3, <1>4, FS_Injection

LEMMA ServiceTasks == Service!Tasks = TaskIds
BY DEF Service!Tasks, TaskIds

LEMMA ServiceCounts == \A X : Service!Cardinality(X) = Cardinality(X)
BY DEF Service!Cardinality, Cardinality

\* The steps of TaskService, in terms of views.
Same(S)     == \A t \in TaskIds \ S : View(t)' = View(t)
SameClients == \A r \in Requests : Client(r)' = Client(r)

LEMMA ServiceStutters ==
    ASSUME Views, Views', Same({}), SameClients
    PROVE  UNCHANGED Service!vars
<1>1. \A t \in TaskIds : Phase(t)' = Phase(t)
  BY DEF Views, Same
<1>2. [t \in TaskIds |-> Phase(t)]' = [t \in TaskIds |-> Phase(t)]
  BY <1>1
<1>3. [r \in Requests |-> Client(r)]' = [r \in Requests |-> Client(r)]
  BY DEF SameClients
<1>4. QED BY <1>2, <1>3 DEF Service!vars

LEMMA ServiceAnswers ==
    ASSUME Views, Views', NEW t \in TaskIds, View(t) \in {"pending", "running"},
           View(t)' \in {"ok", "error"}, Same({t}), SameClients
    PROVE  Service!Answer(t)
<1>1. [r \in Requests |-> Client(r)]' = [r \in Requests |-> Client(r)]
  BY DEF SameClients
<1>2. Phase(t) \in {"pending", "running"} /\ Phase(t)' \in {"ok", "error"}
  BY DEF Views
<1>3. \A u \in TaskIds : u # t => Phase(u)' = Phase(u)
  BY DEF Views, Same
<1>4. [u \in TaskIds |-> Phase(u)]' =
          [[u \in TaskIds |-> Phase(u)] EXCEPT ![t] = Phase(t)']
  BY <1>3
<1>5. QED BY <1>1, <1>2, <1>4 DEF Service!Answer

LEMMA ServiceStarts ==
    ASSUME Views, Views', NEW r \in Requests, NEW S \in SUBSET TaskIds, S # {},
           \A t \in S : t[1] = r /\ View(t) = "pending" /\ View(t)' = "running",
           Same(S), SameClients, Cardinality(InSlots') <= NSlots
    PROVE  Service!Start(r)
<1>1. [x \in Requests |-> Client(x)]' = [x \in Requests |-> Client(x)]
  BY DEF SameClients
<1>2. /\ \A t \in S : t[1] = r /\ Phase(t) = "pending" /\ Phase(t)' = "running"
      /\ \A t \in TaskIds : t \notin S => Phase(t)' = Phase(t)
  BY DEF Views, Same
<1>3. Service!Tasks = TaskIds
  BY DEF Service!Tasks, TaskIds
<1>4. S \in SUBSET {t \in Service!Of(r) : [u \in TaskIds |-> Phase(u)][t] = "pending"}
  BY <1>2, <1>3 DEF Service!Of
<1>5. Service!Running \cup S = InSlots'
  <2>1. InSlots' = {t \in TaskIds : Phase(t)' = "running"}
    BY DEF InSlots, Views
  <2>2. Service!Running = {t \in TaskIds : Phase(t) = "running"}
    BY <1>3 DEF Service!Running
  <2>3. QED BY <1>2, <2>1, <2>2
<1>6. [u \in TaskIds |-> Phase(u)]' =
          [u \in Service!Tasks |-> IF u \in S THEN "running" ELSE [v \in TaskIds |-> Phase(v)][u]]
  BY <1>2, <1>3
<1>7. Service!Cardinality(Service!Running \cup S) <= NSlots
  BY <1>5, ServiceCounts
<1>8. QED BY <1>1, <1>4, <1>6, <1>7, Zenon DEF Service!Start

LEMMA ServiceDrops ==
    ASSUME Views, Views', NEW r \in Requests, NEW S \in SUBSET TaskIds,
           NEW F \in SUBSET S, Cardinality(F) <= 1,
           \A t \in S : /\ t[1] = r /\ View(t) \in {"pending", "running"}
                        /\ View(t)' = IF t \in F THEN "error" ELSE "dropped",
           Same(S), SameClients, Client(r) = "left" \/ F # {}
    PROVE  Service!Drop(r)
<1>1. [x \in Requests |-> Client(x)]' = [x \in Requests |-> Client(x)]
  BY DEF SameClients
<1>2. /\ \A t \in S : /\ t[1] = r /\ Phase(t) \in {"pending", "running"}
                      /\ Phase(t)' = IF t \in F THEN "error" ELSE "dropped"
      /\ \A t \in TaskIds : t \notin S => Phase(t)' = Phase(t)
  BY DEF Views, Same
<1>3. Service!Tasks = TaskIds
  BY DEF Service!Tasks, TaskIds
<1>4. S \in SUBSET {t \in Service!Of(r) : [u \in TaskIds |-> Phase(u)][t] \in {"pending", "running"}}
  BY <1>2, <1>3 DEF Service!Of
<1>5. F \in SUBSET Service!Of(r) /\ F \subseteq S
  BY <1>4
<1>6. \/ [x \in Requests |-> Client(x)][r] = "left"
      \/ \E t \in Service!Of(r) : t \in F
  BY <1>5
<1>7. [u \in TaskIds |-> Phase(u)]' =
          [u \in Service!Tasks |-> IF u \in F THEN "error" ELSE IF u \in S THEN "dropped"
                                   ELSE [v \in TaskIds |-> Phase(v)][u]]
  BY <1>2, <1>3
<1>8. Service!Cardinality(F) <= 1
  BY ServiceCounts
<1>9. \/ [x \in Requests |-> Client(x)][r] = "left"
      \/ \E t \in Service!Of(r) : [v \in TaskIds |-> Phase(v)][t] = "error" \/ t \in F
  BY <1>6
<1>10. QED BY <1>1, <1>4, <1>5, <1>7, <1>8, <1>9, Zenon DEF Service!Drop

LEMMA ServiceLeaves ==
    ASSUME Views, Views', NEW r \in Requests, Same({}),
           Client(r) = "waiting", Client(r)' = "left",
           \A x \in Requests : x # r => Client(x)' = Client(x)
    PROVE  Service!Leave(r)
<1>1. [t \in TaskIds |-> Phase(t)]' = [t \in TaskIds |-> Phase(t)]
  BY DEF Views, Same
<1>2. [x \in Requests |-> Client(x)]' = [[x \in Requests |-> Client(x)] EXCEPT ![r] = "left"]
  OBVIOUS
<1>3. QED BY <1>1, <1>2 DEF Service!Leave

LEMMA ServiceSubmits ==
    ASSUME Views, Views', NEW r \in Requests, NEW n \in 1 .. MaxTasks,
           \A t \in TaskIds : View(t)' = IF t[1] = r /\ t[2] <= n THEN "pending" ELSE View(t),
           Client(r) = "new", Client(r)' = "waiting",
           \A x \in Requests : x # r => Client(x)' = Client(x)
    PROVE  Service!Submit(r)
<1>1. [x \in Requests |-> Client(x)]' = [[x \in Requests |-> Client(x)] EXCEPT ![r] = "waiting"]
  OBVIOUS
<1>2. \A t \in TaskIds : Phase(t)' = IF t[1] = r /\ t[2] <= n THEN "pending" ELSE Phase(t)
  BY DEF Views
<1>3. [t \in TaskIds |-> Phase(t)]' =
          [t \in TaskIds |-> IF t[1] = r /\ t[2] <= n THEN "pending"
                             ELSE [u \in TaskIds |-> Phase(u)][t]]
  BY <1>2
<1>4. Service!Tasks = TaskIds
  BY DEF Service!Tasks, TaskIds
<1>5. QED BY <1>1, <1>3, <1>4 DEF Service!Submit

\* What a step leaves of a task's view.
LEMMA ViewThen ==
    ASSUME UNCHANGED req, NEW t, NEW u, u = Top(t)
    PROVE  View(t)' = IF t \notin Tasks THEN "none"
                      ELSE IF sent'[t] = <<"final">> THEN "ok"
                      ELSE IF sent'[t] # <<>> THEN "error"
                      ELSE IF HasSlot(t)' THEN "running"
                      ELSE IF rpc'[t[1]] = "registered" \/ Queued(u)' > 0 THEN "pending"
                      ELSE "dropped"
<1>1. u = Top(t)' /\ Tasks' = Tasks
  BY SameRequests
<1>2. Queued(Top(t))' = Queued(u)'
  BY <1>1, QueuedThen
<1>3. QED BY <1>1, <1>2 DEF View

LEMMA ViewStays ==
    ASSUME UNCHANGED req, NEW t, t \in Tasks => sent'[t] = sent[t] /\ HasSlot(t)' = HasSlot(t),
           t \in Tasks => (rpc'[t[1]] = "registered" <=> rpc[t[1]] = "registered"),
           NEW u, u = Top(t), t \in Tasks => (Queued(u)' > 0 <=> Queued(u) > 0)
    PROVE  View(t)' = View(t)
<1>1. CASE t \in Tasks
  BY <1>1, ViewThen DEF View
<1>2. CASE t \notin Tasks
  BY <1>2, ViewThen DEF View
<1>3. QED BY <1>1, <1>2

LEMMA QuietRefines ==
    ASSUME IInv, Quiet
    PROVE  Same({}) /\ SameClients
<1>1. /\ UNCHANGED <<req, rpc, sent>> /\ \A u : Queued(u)' = Queued(u)
      /\ \A s \in SlotIds : slots'[s].task = slots[s].task
  BY DEF Quiet, Still, QueuesKept, SlotsMoved
<1>2. ASSUME NEW t \in TaskIds PROVE View(t)' = View(t)
  <2>1. HasSlot(t)' = HasSlot(t)
    BY <1>1 DEF HasSlot
  <2>2. PICK u : u = Top(t)
    OBVIOUS
  <2>3. QED BY <1>1, <2>1, <2>2, ViewStays
<1>3. QED BY <1>1, <1>2 DEF Same, SameClients, Client

LEMMA AnsweredRefines ==
    ASSUME IInv, Accounted, NEW s \in SlotIds, NEW type \in {"final", "error"}, Answered(s, type)
    PROVE  /\ SameClients
           /\ \E o \in TaskIds : /\ View(o) = "running" /\ View(o)' \in {"ok", "error"}
                                 /\ Same({o})
<1>1. TypeOK /\ QueuesOk /\ AnswersOk
  BY DEF IInv
<1>2. PICK o \in Tasks : o = slots[s].task /\ sent[o] = <<>>
  BY <1>1, AnsweredAccounts
<1>3. /\ UNCHANGED <<req, rpc, slots>> /\ Still /\ Send(o, type) /\ \A u : Queued(u)' = Queued(u)
  BY <1>2 DEF Answered, Still, QueuesKept
<1>4. HasSlot(o) /\ \A t : HasSlot(t)' = HasSlot(t)
  BY <1>2, <1>3 DEF HasSlot
<1>5. Posted(o[1])
  <2>1. slots[s].task # NoTask
    BY <1>1, <1>2, TaskIs
  <2>2. QED BY <1>2, <2>1 DEF Accounted, SlotsOk
<1>6. sent'[o] = <<type>> /\ sent'[o] # <<>> /\ \A u \in TaskIds : u # o => sent'[u] = sent[u]
  BY <1>1, <1>2, <1>3, <1>5, AnswerIs
<1>7. View(o) = "running"
  <2>1. <<>> # <<"final">>
    OBVIOUS
  <2>2. QED BY <1>2, <1>4, <2>1 DEF View
<1>8. View(o)' \in {"ok", "error"}
  <2>1. PICK u : u = Top(o)
    OBVIOUS
  <2>2. QED BY <1>2, <1>3, <1>6, <2>1, ViewThen
<1>9. ASSUME NEW t \in TaskIds \ {o} PROVE View(t)' = View(t)
  <2>1. PICK u : u = Top(t)
    OBVIOUS
  <2>2. QED BY <1>3, <1>4, <1>6, <2>1, ViewStays
<1>10. SameClients
  BY <1>3 DEF SameClients, Client
<1>11. o \in TaskIds
  BY <1>1, TaskIs
<1>12. QED BY <1>7, <1>8, <1>9, <1>10, <1>11 DEF Same

LEMMA FreedRefines ==
    ASSUME IInv, Accounted, NEW s \in SlotIds, Freed(s)
    PROVE  /\ SameClients
           /\ \/ Same({})
              \/ \E o \in TaskIds : /\ View(o) = "running" /\ View(o)' = "dropped"
                                    /\ Same({o}) /\ Client(o[1]) = "left"
<1>0. TypeOK /\ QueuesOk
  BY DEF IInv
<1>1. PICK o : o = slots[s].task
  OBVIOUS
<1>2. /\ UNCHANGED <<req, rpc, sent>> /\ ~IsIdle(s)
      /\ slots' = [slots EXCEPT ![s] = IdleSlot]
      /\ IF mainPc = "release" THEN s = at ELSE rpc[o[1]] = "done"
      /\ \A u : Queued(u)' = Queued(u)
  BY <1>1 DEF Freed, Still, QueuesKept
<1>3. /\ o \in Tasks /\ o \in TaskIds /\ o # NoTask /\ Posted(o[1])
      /\ \A x \in SlotIds : slots[x].task = o => x = s
  <2>1. \A x \in SlotIds : slots[x].task = NoTask <=> IsIdle(x)
    BY <1>0, SlotsAre DEF SlotsTyped
  <2>2. o \in Tasks /\ o # NoTask /\ Posted(o[1])
    BY <1>1, <1>2, <2>1 DEF Accounted, SlotsOk
  <2>3. o \in TaskIds
    BY <1>0, <2>2, TaskIs
  <2>4. QED BY <1>1, <1>2, <2>1, <2>2, <2>3 DEF Accounted, SlotsOk
<1>4. slots'[s].task = NoTask /\ \A x \in SlotIds : x # s => slots'[x] = slots[x]
  <2>1. slots \in [SlotIds -> SlotT]
    BY <1>0, SlotsAre DEF SlotsTyped
  <2>2. slots'[s] = IdleSlot /\ \A x \in SlotIds : x # s => slots'[x] = slots[x]
    BY <1>2, <2>1
  <2>3. QED BY <2>2 DEF IdleSlot
<1>5. ~HasSlot(o)' /\ HasSlot(o)
  BY <1>1, <1>3, <1>4 DEF HasSlot
<1>6. ASSUME NEW t \in TaskIds, t # o PROVE View(t)' = View(t)
  <2>1. t \in Tasks => HasSlot(t)' = HasSlot(t)
    <3>1. t \in Tasks => t # NoTask
      BY <1>0, TaskIs
    <3>2. QED BY <1>1, <1>4, <1>6, <3>1 DEF HasSlot
  <2>2. PICK u : u = Top(t)
    OBVIOUS
  <2>3. QED BY <1>2, <2>1, <2>2, ViewStays
<1>7. SameClients
  BY <1>2 DEF SameClients, Client
<1>8. PICK u : u = Top(o)
  OBVIOUS
<1>9. View(o)' = IF sent[o] = <<"final">> THEN "ok"
                 ELSE IF sent[o] # <<>> THEN "error"
                 ELSE IF Queued(u) > 0 THEN "pending" ELSE "dropped"
  BY <1>2, <1>3, <1>5, <1>8, ViewThen DEF Posted
<1>10. CASE sent[o] # <<>>
  <2>1. View(o)' = View(o)
    BY <1>3, <1>9, <1>10 DEF View
  <2>2. QED BY <1>6, <1>7, <2>1 DEF Same
<1>11. CASE sent[o] = <<>>
  <2>1. rpc[o[1]] = "done"
    BY <1>1, <1>2, <1>11 DEF Accounted, ReleaseOk
  <2>2. Client(o[1]) = "left"
    BY <2>1 DEF Client
  <2>3. Queued(u) = 0
    BY <1>0, <1>3, <1>5, <1>8, HeldIsOpen
  <2>4. View(o) = "running" /\ View(o)' = "dropped"
    BY <1>3, <1>5, <1>9, <1>11, <2>3, AnswersDiffer DEF View
  <2>5. QED BY <1>3, <1>6, <1>7, <2>2, <2>4 DEF Same
<1>12. QED BY <1>10, <1>11

\* A task that leaves the queues, and what travels with it.
LEMMA TakenIs ==
    ASSUME IInv, Accounted, Still, NEW t \in Tasks, ~IsChild(t), Posted(t[1]),
           Queued(t) > 0, Dropped(t), mainPc # "release"
    PROVE  /\ UNCHANGED <<req, rpc>> /\ SameClients
           /\ Queued(t)' = 0 /\ \A u : u # t => Queued(u)' = Queued(u)
           /\ \A v \in Tasks : Top(v) = t =>
                  /\ v \in TaskIds /\ v[1] = t[1] /\ Posted(v[1])
                  /\ sent[v] = <<>> /\ ~HasSlot(v) /\ View(v) = "pending"
<1>1. TypeOK /\ QueuesOk
  BY DEF IInv
<1>2. UNCHANGED <<req, rpc>> /\ SameClients
  BY DEF Still, SameClients, Client
<1>3. \A u : Queued(u) \in Nat /\ Queued(u)' \in Nat
  <2>1. ASSUME NEW u PROVE Queued(u) \in Nat
    BY <1>1, QueuedIsNat
  <2>2. ASSUME NEW u PROVE Queued(u)' \in Nat
    <3>1. Queued(u)' = InQueues(queue_tasks', queue_tasks_deferred', current', u)
      BY QueuedIs
    <3>2. QED BY <3>1, InQueuesIsNat DEF Dropped
  <2>3. QED BY <2>1, <2>2
<1>4. Queued(t)' = 0
  <2>1. Top(t) = t
    BY <1>1, TopIs
  <2>2. Held(t) = Queued(t) + (IF HasSlot(t) THEN 1 ELSE 0) /\ Held(t) <= 1
    BY <2>1 DEF Held, Accounted, PlacesOk
  <2>3. Queued(t) = Queued(t)' + 1
    BY DEF Dropped
  <2>4. QED BY <1>3, <2>2, <2>3
<1>5. ASSUME NEW u, u # t PROVE Queued(u)' = Queued(u)
  <2>1. Queued(u) = Queued(u)' + 0
    BY <1>5 DEF Dropped
  <2>2. QED BY <1>3, <2>1
<1>6. ASSUME NEW v \in Tasks, Top(v) = t
      PROVE  /\ v \in TaskIds /\ v[1] = t[1] /\ Posted(v[1])
             /\ sent[v] = <<>> /\ ~HasSlot(v) /\ View(v) = "pending"
  <2>1. v \in TaskIds /\ v[1] = t[1]
    BY <1>1, <1>6, TaskIs, TopIs
  <2>2. sent[v] = <<>> /\ ~HasSlot(v)
    BY <1>1, <1>3, <1>6, HeldIsOpen
  <2>3. QED BY <1>6, <2>1, <2>2, AnswersDiffer DEF View
<1>7. QED BY <1>2, <1>4, <1>5, <1>6

LEMMA FinishedRefines ==
    ASSUME IInv, Accounted, NEW t, NEW u, NEW type, Finished(t, u, type)
    PROVE  /\ SameClients /\ u \in TaskIds
           /\ \/ View(u) = "pending" /\ View(u)' = "ok" /\ Same({u})
              \/ \E S \in SUBSET TaskIds :
                     /\ u \in S /\ Same(S)
                     /\ \A v \in S :
                           /\ v[1] = u[1] /\ View(v) = "pending"
                           /\ View(v)' = IF v = u THEN "error" ELSE "dropped"
<1>0. TypeOK /\ QueuesOk /\ AnswersOk
  BY DEF IInv
<1>1. /\ Still /\ Dropped(t) /\ UNCHANGED slots /\ mainPc # "release"
      /\ t \in Tasks /\ ~IsChild(t) /\ Posted(t[1]) /\ Queued(t) > 0
      /\ Send(u, type) /\ u \in Tasks /\ Top(u) = t
      /\ type = "error" \/ (type = "final" /\ Children(t) = {} /\ u = t)
  BY DEF Finished
<1>2. /\ UNCHANGED <<req, rpc>> /\ SameClients
      /\ Queued(t)' = 0 /\ (\A w : w # t => Queued(w)' = Queued(w))
      /\ \A v \in Tasks : Top(v) = t =>
             /\ v \in TaskIds /\ v[1] = t[1] /\ Posted(v[1])
             /\ sent[v] = <<>> /\ ~HasSlot(v) /\ View(v) = "pending"
  BY <1>1, TakenIs
<1>3. /\ sent'[u] = <<type>> /\ u \in TaskIds
      /\ \A v \in TaskIds : v # u => sent'[v] = sent[v]
  <2>1. Posted(u[1]) /\ sent[u] = <<>> /\ type \in {"final", "error"} /\ u \in TaskIds
    BY <1>1, <1>2
  <2>2. QED BY <1>0, <1>1, <2>1, AnswerIs
<1>4. \A v : HasSlot(v)' = HasSlot(v)
  BY <1>1 DEF HasSlot
<1>5. ASSUME NEW v \in TaskIds, v \in Tasks => Top(v) # t PROVE View(v)' = View(v)
  <2>1. PICK w : w = Top(v)
    OBVIOUS
  <2>2. v \in Tasks => Queued(w)' = Queued(w) /\ sent'[v] = sent[v]
    BY <1>1, <1>2, <1>3, <1>5, <2>1
  <2>3. QED BY <1>2, <1>4, <2>1, <2>2, ViewStays
<1>6. ASSUME NEW v \in Tasks, Top(v) = t
      PROVE  View(v)' = IF v # u THEN "dropped"
                        ELSE IF type = "final" THEN "ok" ELSE "error"
  <2>1. View(v)' = IF sent'[v] = <<"final">> THEN "ok"
                   ELSE IF sent'[v] # <<>> THEN "error"
                   ELSE IF HasSlot(v)' THEN "running"
                   ELSE IF rpc'[v[1]] = "registered" \/ Queued(t)' > 0 THEN "pending"
                   ELSE "dropped"
    BY <1>2, <1>6, ViewThen
  <2>2. CASE v = u
    BY <1>1, <1>3, <2>1, <2>2, AnswersDiffer
  <2>3. CASE v # u
    BY <1>2, <1>3, <1>4, <1>6, <2>1, <2>3, AnswersDiffer DEF Posted
  <2>4. QED BY <2>2, <2>3
<1>7. CASE type = "final"
  <2>1. \A v \in Tasks : Top(v) = t => v = u
    BY <1>0, <1>1, <1>7, ChildrenAre
  <2>2. Same({u})
    BY <1>5, <2>1 DEF Same
  <2>3. View(u) = "pending" /\ View(u)' = "ok"
    BY <1>1, <1>2, <1>6, <1>7
  <2>4. QED BY <1>2, <1>3, <2>2, <2>3
<1>8. CASE type # "final"
  <2>1. PICK S : S = {v \in Tasks : Top(v) = t}
    OBVIOUS
  <2>2. S \in SUBSET TaskIds /\ u \in S
    BY <1>1, <1>2, <2>1
  <2>3. Same(S)
    BY <1>5, <2>1 DEF Same
  <2>4. \A v \in S : /\ v[1] = u[1] /\ View(v) = "pending"
                     /\ View(v)' = IF v = u THEN "error" ELSE "dropped"
    BY <1>1, <1>2, <1>6, <1>8, <2>1
  <2>5. QED BY <1>2, <1>3, <2>2, <2>3, <2>4
<1>9. QED BY <1>7, <1>8

LEMMA PlacedRefines ==
    ASSUME IInv, Accounted, NEW t, NEW s, NEW f, Placed(t, s, f)
    PROVE  /\ SameClients /\ t[1] \in Requests
           /\ \E S \in SUBSET TaskIds :
                  /\ S # {} /\ Same(S)
                  /\ \A v \in S : v[1] = t[1] /\ View(v) = "pending" /\ View(v)' = "running"
<1>0. TypeOK /\ QueuesOk
  BY DEF IInv
<1>1. /\ Still /\ Dropped(t) /\ UNCHANGED sent /\ mainPc # "release"
      /\ t \in Tasks /\ ~IsChild(t) /\ Posted(t[1]) /\ Queued(t) > 0
      /\ s \in SlotIds /\ f \in [Children(t) -> SlotIds]
      /\ IsIdle(s) /\ \A c \in Children(t) : IsIdle(f[c])
      /\ slots'[s].task = t /\ \A c \in Children(t) : slots'[f[c]].task = c
      /\ \A x \in SlotIds : x # s /\ (\A c \in Children(t) : f[c] # x) => slots'[x] = slots[x]
  BY DEF Placed, IdleSlots
<1>2. /\ UNCHANGED <<req, rpc>> /\ SameClients
      /\ Queued(t)' = 0 /\ (\A w : w # t => Queued(w)' = Queued(w))
      /\ \A v \in Tasks : Top(v) = t =>
             /\ v \in TaskIds /\ v[1] = t[1] /\ Posted(v[1])
             /\ sent[v] = <<>> /\ ~HasSlot(v) /\ View(v) = "pending"
  BY <1>1, TakenIs
<1>3. PICK S : S = {v \in Tasks : Top(v) = t}
  OBVIOUS
<1>4. t \in S /\ \A v : v \in S <=> v = t \/ v \in Children(t)
  <2>1. t \in Tasks /\ ~IsChild(t)
    BY <1>1
  <2>2. \A c \in Children(t) : c \in Tasks /\ Top(c) = t
    BY <1>0, <2>1, ChildrenAre
  <2>3. \A c \in Tasks : Top(c) = t => c = t \/ c \in Children(t)
    BY <1>0, <2>1, ChildrenAre
  <2>4. Top(t) = t
    BY <1>0, <2>1, TopIs
  <2>5. QED BY <1>1, <1>3, <2>2, <2>3, <2>4
<1>5. ASSUME NEW v \in S PROVE HasSlot(v)'
  <2>1. v = t \/ v \in Children(t)
    BY <1>4
  <2>2. QED BY <1>1, <2>1 DEF HasSlot
<1>6. ASSUME NEW v \in Tasks \ S PROVE HasSlot(v)' = HasSlot(v)
  <2>1. v # NoTask
    BY <1>0, TaskIs
  <2>2. \A x \in SlotIds : IsIdle(x) => slots[x].task = NoTask
    BY <1>0, SlotsAre DEF SlotsTyped
  <2>3. ASSUME NEW x \in SlotIds PROVE slots'[x].task = v <=> slots[x].task = v
    <3>1. CASE x = s
      BY <1>1, <1>4, <2>1, <2>2, <3>1
    <3>2. CASE \E c \in Children(t) : f[c] = x
      BY <1>1, <1>4, <2>1, <2>2, <3>2
    <3>3. CASE x # s /\ \A c \in Children(t) : f[c] # x
      BY <1>1, <3>3
    <3>4. QED BY <3>1, <3>2, <3>3
  <2>4. QED BY <2>3 DEF HasSlot
<1>7. ASSUME NEW v \in S PROVE View(v)' = "running"
  <2>1. v \in Tasks /\ sent'[v] = <<>>
    BY <1>1, <1>2, <1>3
  <2>2. PICK w : w = Top(v)
    OBVIOUS
  <2>3. QED BY <1>2, <1>5, <2>1, <2>2, ViewThen, AnswersDiffer
<1>8. ASSUME NEW v \in TaskIds \ S PROVE View(v)' = View(v)
  <2>1. PICK w : w = Top(v)
    OBVIOUS
  <2>2. v \in Tasks => Queued(w)' = Queued(w)
    BY <1>2, <1>3, <2>1
  <2>3. QED BY <1>1, <1>2, <1>6, <2>1, <2>2, ViewStays
<1>9. S \in SUBSET TaskIds /\ t[1] \in Requests
  BY <1>0, <1>1, <1>2, <1>3, TaskIs
<1>10. QED BY <1>2, <1>3, <1>4, <1>7, <1>8, <1>9 DEF Same

LEMMA MainRefines ==
    ASSUME IInv, Views', Cardinality(InSlots') <= NSlots, MainStep
    PROVE  Service!Next \/ UNCHANGED Service!vars
<1>1. TypeOK /\ Control /\ QueuesOk /\ Accounted /\ Views
  BY ViewIs DEF IInv, Accounted, ReleaseOk, Control
<1>2. CASE Quiet
  BY <1>1, <1>2, QuietRefines, ServiceStutters
<1>3. ASSUME NEW s \in SlotIds, NEW type \in {"final", "error"}, Answered(s, type)
      PROVE  Service!Next
  <2>1. PICK o \in TaskIds : View(o) = "running" /\ View(o)' \in {"ok", "error"} /\ Same({o})
    BY <1>1, <1>3, AnsweredRefines
  <2>2. SameClients
    BY <1>1, <1>3, AnsweredRefines
  <2>3. Service!Answer(o)
    BY <1>1, <2>1, <2>2, ServiceAnswers
  <2>4. QED BY <2>3, ServiceTasks DEF Service!Next
<1>4. ASSUME NEW s \in SlotIds, Freed(s)
      PROVE  Service!Next \/ UNCHANGED Service!vars
  <2>1. /\ SameClients
        /\ \/ Same({})
           \/ \E o \in TaskIds : /\ View(o) = "running" /\ View(o)' = "dropped"
                                 /\ Same({o}) /\ Client(o[1]) = "left"
    BY <1>1, <1>4, FreedRefines
  <2>2. CASE Same({})
    BY <1>1, <2>1, <2>2, ServiceStutters
  <2>3. ASSUME NEW o \in TaskIds, View(o) = "running", View(o)' = "dropped", Same({o}),
               Client(o[1]) = "left"
        PROVE  Service!Next
    <3>1. PICK r \in Requests : r = o[1]
      BY DEF TaskIds
    <3>2. Cardinality({}) <= 1
      BY FS_EmptySet
    <3>3. Service!Drop(r)
      <4>1. PICK S : S = {o}
        OBVIOUS
      <4>2. PICK F \in SUBSET S : F = {}
        OBVIOUS
      <4>3. \A t \in S : /\ t[1] = r /\ View(t) \in {"pending", "running"}
                         /\ View(t)' = IF t \in F THEN "error" ELSE "dropped"
        BY <2>3, <3>1, <4>1, <4>2
      <4>4. S \in SUBSET TaskIds /\ Same(S) /\ Client(r) = "left" /\ Cardinality(F) <= 1
        BY <2>3, <3>1, <3>2, <4>1, <4>2
      <4>5. QED BY <1>1, <2>1, <4>3, <4>4, ServiceDrops
    <3>4. QED BY <3>3 DEF Service!Next
  <2>4. QED BY <2>1, <2>2, <2>3
<1>5. ASSUME NEW t, NEW u, NEW type, Finished(t, u, type)
      PROVE  Service!Next
  <2>1. /\ SameClients /\ u \in TaskIds
        /\ \/ View(u) = "pending" /\ View(u)' = "ok" /\ Same({u})
           \/ \E S \in SUBSET TaskIds :
                  /\ u \in S /\ Same(S)
                  /\ \A v \in S :
                        /\ v[1] = u[1] /\ View(v) = "pending"
                        /\ View(v)' = IF v = u THEN "error" ELSE "dropped"
    BY <1>1, <1>5, FinishedRefines
  <2>2. CASE View(u) = "pending" /\ View(u)' = "ok" /\ Same({u})
    <3>1. Service!Answer(u)
      BY <1>1, <2>1, <2>2, ServiceAnswers
    <3>2. QED BY <2>1, <3>1, ServiceTasks DEF Service!Next
  <2>3. ASSUME NEW S \in SUBSET TaskIds, u \in S, Same(S),
               \A v \in S : /\ v[1] = u[1] /\ View(v) = "pending"
                            /\ View(v)' = IF v = u THEN "error" ELSE "dropped"
        PROVE  Service!Next
    <3>1. PICK r \in Requests : r = u[1]
      BY <2>1 DEF TaskIds
    <3>2. PICK F \in SUBSET S : F = {u}
      BY <2>3
    <3>3. Cardinality(F) <= 1 /\ F # {}
      BY <3>2, FS_Singleton
    <3>4. \A v \in S : /\ v[1] = r /\ View(v) \in {"pending", "running"}
                       /\ View(v)' = IF v \in F THEN "error" ELSE "dropped"
      BY <2>3, <3>1, <3>2
    <3>5. Service!Drop(r)
      BY <1>1, <2>1, <2>3, <3>3, <3>4, ServiceDrops
    <3>6. QED BY <3>5 DEF Service!Next
  <2>4. QED BY <2>1, <2>2, <2>3
<1>6. ASSUME NEW t, NEW s, NEW f, Placed(t, s, f)
      PROVE  Service!Next
  <2>1. SameClients /\ t[1] \in Requests
    BY <1>1, <1>6, PlacedRefines
  <2>2. PICK S \in SUBSET TaskIds :
            /\ S # {} /\ Same(S)
            /\ \A v \in S : v[1] = t[1] /\ View(v) = "pending" /\ View(v)' = "running"
    BY <1>1, <1>6, PlacedRefines
  <2>3. PICK r \in Requests : r = t[1]
    BY <2>1
  <2>4. Service!Start(r)
    BY <1>1, <2>1, <2>2, <2>3, ServiceStarts
  <2>5. QED BY <2>4 DEF Service!Next
<1>7. QED BY <1>1, <1>2, <1>3, <1>4, <1>5, <1>6, MainStepIs

\* The steps of the HTTP threads. A reader that goes on without the queue and
\* the slots changes no view.
LEMMA ApartRefines ==
    ASSUME IInv, Apart, \A r \in Requests : rpc[r] = "registered" <=> rpc'[r] = "registered"
    PROVE  Same({})
<1>1. /\ TypeOK /\ UNCHANGED <<sent, req>>
      /\ UNCHANGED <<queue_tasks, queue_tasks_deferred, current, slots>>
  BY DEF IInv, Apart, MainVars, queueVars
<1>2. \A t : HasSlot(t)' = HasSlot(t)
  BY <1>1 DEF HasSlot
<1>3. \A u : Queued(u)' = Queued(u)
  BY <1>1, QueuedIs
<1>4. ASSUME NEW t \in TaskIds PROVE View(t)' = View(t)
  <2>1. PICK u : u = Top(t)
    OBVIOUS
  <2>2. t[1] \in Requests
    BY DEF TaskIds
  <2>3. QED BY <1>1, <1>2, <1>3, <2>1, <2>2, ViewStays
<1>5. QED BY <1>4 DEF Same

LEMMA GoesOnRefines ==
    ASSUME IInv, Views', NEW r \in Requests,
           Disconnect(r) \/ Purge(r) \/ Unregister(r) \/ Receive(r)
    PROVE  Service!Next \/ UNCHANGED Service!vars
<1>1. TypeOK /\ Views
  BY ViewIs DEF IInv
<1>2. UNCHANGED <<queueVars, MainVars, sent, req>>
  BY DEF Disconnect, Purge, Unregister, Receive, loopVars, sendVars, MainVars
<1>3. PICK pc : rpc' = [rpc EXCEPT ![r] = pc] /\ \/ pc = rpc[r]
                                                 \/ rpc[r] = "waiting" /\ pc = "stop"
                                                 \/ rpc[r] = "stop" /\ pc \in {"purge", "done"}
                                                 \/ rpc[r] = "purge" /\ pc = "cancel"
  <2>1. rpc = [rpc EXCEPT ![r] = rpc[r]]
    BY <1>1 DEF TypeOK
  <2>2. CASE Disconnect(r)
    BY <2>2 DEF Disconnect
  <2>3. CASE Purge(r)
    BY <2>3 DEF Purge
  <2>4. CASE Unregister(r)
    BY <2>4 DEF Unregister
  <2>5. CASE Receive(r)
    <3>1. rpc[r] = "waiting" /\ (rpc' = [rpc EXCEPT ![r] = "stop"] \/ rpc' = rpc)
      BY <2>5 DEF Receive
    <3>2. QED BY <2>1, <3>1
  <2>6. QED BY <2>2, <2>3, <2>4, <2>5
<1>4. rpc'[r] = pc /\ \A x \in Requests : x # r => rpc'[x] = rpc[x]
  BY <1>1, <1>3 DEF TypeOK
<1>5. /\ \A x \in Requests : /\ rpc'[x] = "waiting" => rpc[x] = "waiting"
                             /\ rpc[x] = "registered" <=> rpc'[x] = "registered"
                             /\ Posted(x) => Posted(x)'
                             /\ rpc[x] = "done" => rpc'[x] = "done"
  BY <1>3, <1>4 DEF Posted
<1>6. Same({})
  <2>1. Apart
    BY <1>2, <1>5 DEF Apart, Onward
  <2>2. QED BY <1>5, <2>1, ApartRefines
<1>7. \A x \in Requests : x # r => Client(x)' = Client(x)
  BY <1>4 DEF Client
<1>8. CASE rpc[r] = "waiting" /\ pc = "stop"
  <2>1. Client(r) = "waiting" /\ Client(r)' = "left"
    BY <1>4, <1>8 DEF Client
  <2>2. Service!Leave(r)
    BY <1>1, <1>6, <1>7, <2>1, ServiceLeaves
  <2>3. QED BY <2>2 DEF Service!Next
<1>9. CASE ~(rpc[r] = "waiting" /\ pc = "stop")
  <2>1. Client(r)' = Client(r)
    BY <1>3, <1>4, <1>9 DEF Client
  <2>2. SameClients
    BY <1>7, <2>1 DEF SameClients
  <2>3. QED BY <1>1, <1>6, <2>2, ServiceStutters
<1>10. QED BY <1>8, <1>9

LEMMA PostTasksRefines ==
    ASSUME IInv, Views', NEW r \in Requests, PostTasks(r)
    PROVE  UNCHANGED Service!vars
<1>1. TypeOK /\ Views /\ QueuesOk /\ SlotsOk /\ AnswersOk
  BY ViewIs DEF IInv
<1>2. /\ UNCHANGED <<slots, sent, req>>
      /\ rpc[r] = "registered" /\ rpc' = [rpc EXCEPT ![r] = "waiting"]
  BY DEF PostTasks, sendVars
<1>3. rpc'[r] = "waiting" /\ \A x \in Requests : x # r => rpc'[x] = rpc[x]
  BY <1>1, <1>2 DEF TypeOK
<1>4. \A u : Queued(u)' = Queued(u) + (IF Item("TASK", u) \in Posting(r) THEN 1 ELSE 0)
  BY PostTasksAdds
<1>5. \A t : HasSlot(t)' = HasSlot(t)
  BY <1>2 DEF HasSlot
<1>6. SameClients
  BY <1>2, <1>3 DEF SameClients, Client
<1>7. ASSUME NEW t \in TaskIds PROVE View(t)' = View(t)
  <2>1. PICK u : u = Top(t)
    OBVIOUS
  <2>2. Queued(u) \in Nat
    BY <1>1, QueuedIsNat
  <2>3. CASE t \notin Tasks
    BY <1>2, <2>1, <2>3, ViewStays
  <2>4. CASE t \in Tasks /\ t[1] = r
    <3>1. u \in Tasks /\ ~IsChild(u) /\ u[1] = r
      BY <1>1, <2>1, <2>4, TopIs
    <3>2. Queued(u)' > 0
      <4>1. Item("TASK", u) \in Posting(r)
        BY <3>1 DEF Posting
      <4>2. QED BY <1>4, <2>2, <4>1
    <3>3. sent[t] = <<>> /\ ~HasSlot(t)
      <4>1. ~Posted(t[1]) /\ t # NoTask
        BY <1>1, <1>2, <2>4, TaskIs DEF Posted
      <4>2. QED BY <1>1, <4>1 DEF AnswersOk, SlotsOk, HasSlot
    <3>4. View(t) = "pending"
      BY <1>2, <2>4, <3>3, AnswersDiffer DEF View
    <3>5. View(t)' = "pending"
      BY <1>2, <1>5, <2>1, <2>4, <3>2, <3>3, ViewThen, AnswersDiffer
    <3>6. QED BY <3>4, <3>5
  <2>5. CASE t \in Tasks /\ t[1] # r
    <3>1. u \in Tasks /\ u[1] # r /\ t[1] \in Requests
      BY <1>1, <2>1, <2>5, TopIs, TaskIs
    <3>2. Item("TASK", u) \notin Posting(r)
      BY <3>1 DEF Posting, Item
    <3>3. Queued(u)' = Queued(u)
      BY <1>4, <2>2, <3>2
    <3>4. rpc'[t[1]] = rpc[t[1]]
      BY <1>3, <2>5, <3>1
    <3>5. QED BY <1>2, <1>5, <2>1, <3>3, <3>4, ViewStays
  <2>6. QED BY <2>3, <2>4, <2>5
<1>8. Same({})
  BY <1>7 DEF Same
<1>9. QED BY <1>1, <1>6, <1>8, ServiceStutters

LEMMA PostCancelsRefines ==
    ASSUME IInv, Views', NEW r \in Requests, PostCancels(r)
    PROVE  Service!Next
<1>1. TypeOK /\ Views /\ QueuesOk
  BY ViewIs DEF IInv
<1>2. /\ UNCHANGED <<slots, sent, req>>
      /\ rpc[r] = "cancel" /\ rpc' = [rpc EXCEPT ![r] = "done"]
  BY DEF PostCancels, sendVars
<1>3. rpc'[r] = "done" /\ \A x \in Requests : x # r => rpc'[x] = rpc[x]
  BY <1>1, <1>2 DEF TypeOK
<1>4. \A u : /\ Queued(u) \in Nat /\ Queued(u)' \in Nat /\ Queued(u)' <= Queued(u)
             /\ u \notin Ids(r) => Queued(u)' = Queued(u)
  BY PostCancelsTakes
<1>5. \A t : HasSlot(t)' = HasSlot(t)
  BY <1>2 DEF HasSlot
<1>6. SameClients /\ Client(r) = "left"
  BY <1>2, <1>3 DEF SameClients, Client
<1>7. PICK S : S = {t \in TaskIds : View(t) = "pending" /\ View(t)' = "dropped" /\ t[1] = r}
  OBVIOUS
<1>8. ASSUME NEW t \in TaskIds \ S PROVE View(t)' = View(t)
  <2>1. PICK u : u = Top(t)
    OBVIOUS
  <2>2. CASE t \notin Tasks
    BY <1>2, <2>1, <2>2, ViewStays
  <2>3. CASE t \in Tasks
    <3>1. t[1] \in Requests
      BY <1>1, <2>3, TaskIs
    <3>2. rpc[t[1]] = "registered" <=> rpc'[t[1]] = "registered"
      BY <1>2, <1>3, <3>1
    <3>3. CASE Queued(u)' > 0 <=> Queued(u) > 0
      BY <1>2, <1>5, <2>1, <3>2, <3>3, ViewStays
    <3>4. CASE ~(Queued(u)' > 0 <=> Queued(u) > 0)
      <4>1. Queued(u) > 0 /\ ~(Queued(u)' > 0)
        BY <1>4, <3>4
      <4>2. u \in Ids(r)
        <5>1. Queued(u)' # Queued(u)
          BY <4>1
        <5>2. QED BY <1>4, <5>1
      <4>3. t[1] = r
        <5>1. u[1] = r
          BY <4>2 DEF Ids
        <5>2. QED BY <1>1, <2>1, <2>3, <5>1, TopIs
      <4>4. View(t)' = IF sent[t] = <<"final">> THEN "ok"
                       ELSE IF sent[t] # <<>> THEN "error"
                       ELSE IF HasSlot(t) THEN "running"
                       ELSE "dropped"
        BY <1>2, <1>3, <1>5, <2>1, <2>3, <4>1, <4>3, ViewThen
      <4>5. View(t) = IF sent[t] = <<"final">> THEN "ok"
                      ELSE IF sent[t] # <<>> THEN "error"
                      ELSE IF HasSlot(t) THEN "running"
                      ELSE "pending"
        BY <2>1, <2>3, <4>1 DEF View
      <4>6. ~(View(t) = "pending" /\ View(t)' = "dropped")
        BY <1>7, <1>8, <4>3
      <4>7. QED BY <4>4, <4>5, <4>6
    <3>5. QED BY <3>3, <3>4
  <2>4. QED BY <2>2, <2>3
<1>9. Service!Drop(r)
  <2>1. PICK F \in SUBSET S : F = {}
    OBVIOUS
  <2>2. Cardinality(F) <= 1
    BY <2>1, FS_EmptySet
  <2>3. \A t \in S : /\ t[1] = r /\ View(t) \in {"pending", "running"}
                     /\ View(t)' = IF t \in F THEN "error" ELSE "dropped"
    BY <1>7, <2>1
  <2>4. S \in SUBSET TaskIds /\ Same(S)
    BY <1>7, <1>8 DEF Same
  <2>5. QED BY <1>1, <1>6, <2>2, <2>3, <2>4, ServiceDrops
<1>10. QED BY <1>9 DEF Service!Next

LEMMA RegisterRefines ==
    ASSUME IInv, Views', NEW r \in Requests, Register(r)
    PROVE  Service!Next
<1>1. TypeOK /\ Views /\ Readers /\ AnswersOk /\ SlotsOk
  BY ViewIs DEF IInv
<1>2. PICK q \in Shapes : req' = [req EXCEPT ![r] = q]
  BY DEF Register
<1>3. /\ UNCHANGED <<queue_tasks, queue_tasks_deferred, current, slots, sent>>
      /\ rpc[r] = "new" /\ rpc' = [rpc EXCEPT ![r] = "registered"]
  BY DEF Register, queueVars, sendVars
<1>4. /\ req[r] = <<>> /\ req'[r] = q /\ \A x \in Requests : x # r => req'[x] = req[x]
      /\ rpc'[r] = "registered" /\ \A x \in Requests : x # r => rpc'[x] = rpc[x]
  BY <1>1, <1>2, <1>3 DEF TypeOK, Readers
<1>5. PICK n \in 1 .. MaxTasks : DOMAIN q = 1 .. n
  BY ShapeIs
<1>6. \A t : HasSlot(t)' = HasSlot(t)
  BY <1>3 DEF HasSlot
<1>7. ASSUME NEW t \in TaskIds
      PROVE  View(t)' = IF t[1] = r /\ t[2] <= n THEN "pending" ELSE View(t)
  <2>1. t[1] \in Requests /\ t[2] \in 1 .. MaxTasks
    BY DEF TaskIds
  <2>2. CASE t[1] = r
    <3>1. t \notin Tasks
      BY <1>4, <2>2 DEF Tasks
    <3>2. t \in Tasks' <=> t[2] <= n
      <4>1. t \in Tasks' <=> t[2] \in 1 .. n
        BY <1>4, <1>5, <2>2 DEF Tasks
      <4>2. QED BY <1>5, <2>1, <4>1, BoundsAssumption
    <3>3. sent[t] = <<>> /\ ~HasSlot(t)
      <4>1. t # NoTask
        <5>1. \A a, b : <<a, b>> # <<>>
          OBVIOUS
        <5>2. t = <<t[1], t[2]>>
          BY DEF TaskIds
        <5>3. QED BY <5>1, <5>2, Zenon DEF NoTask
      <4>2. QED BY <1>1, <3>1, <4>1 DEF AnswersOk, SlotsOk, HasSlot
    <3>4. View(t)' = IF t \in Tasks' THEN "pending" ELSE "none"
      BY <1>3, <1>4, <1>6, <2>2, <3>3, AnswersDiffer DEF View
    <3>5. View(t) = "none"
      BY <3>1 DEF View
    <3>6. QED BY <2>2, <3>2, <3>4, <3>5
  <2>3. CASE t[1] # r
    <3>1. req'[t[1]] = req[t[1]] /\ rpc'[t[1]] = rpc[t[1]]
      BY <1>4, <2>1, <2>3
    <3>2. t \in Tasks' <=> t \in Tasks
      BY <3>1 DEF Tasks
    <3>3. Top(t)' = Top(t)
      <4>1. Info(t)' = Info(t)
        BY <3>1 DEF Info
      <4>2. QED BY <4>1 DEF IsChild, Top
    <3>4. Queued(Top(t))' = Queued(Top(t))
      <4>1. PICK u : u = Top(t)
        OBVIOUS
      <4>2. Queued(Top(t))' = Queued(u)'
        BY <3>3, <4>1, QueuedThen
      <4>3. Queued(u)' = Queued(u)
        BY <1>3, QueuedIs
      <4>4. QED BY <4>1, <4>2, <4>3
    <3>5. View(t)' = View(t)
      BY <1>3, <1>6, <3>1, <3>2, <3>4 DEF View
    <3>6. QED BY <2>3, <3>5
  <2>4. QED BY <2>2, <2>3
<1>8. /\ Client(r) = "new" /\ Client(r)' = "waiting"
      /\ \A x \in Requests : x # r => Client(x)' = Client(x)
  BY <1>3, <1>4 DEF Client
<1>9. Service!Submit(r)
  BY <1>1, <1>7, <1>8, ServiceSubmits
<1>10. QED BY <1>9 DEF Service!Next

LEMMA InitRefines == Init => Service!Init
<1> SUFFICES ASSUME Init PROVE Service!Init
  OBVIOUS
<1>1. \A t \in TaskIds : t \notin Tasks
  BY DEF Init, Tasks, TaskIds
<1>2. \A t \in TaskIds : Phase(t) = "none"
  BY <1>1 DEF Phase
<1>3. \A r \in Requests : Client(r) = "new"
  BY DEF Init, Client
<1>4. QED BY <1>2, <1>3, ServiceTasks DEF Service!Init

LEMMA ViewsThen == IInv' => Views'
BY ViewIs, PTL

LEMMA SlotsSufficeThen == IInv' => (Cardinality(InSlots) <= NSlots)'
BY SlotsSuffice, PTL

LEMMA StepRefines == IInv /\ IInv' /\ [Next]_vars => [Service!Next]_(Service!vars)
<1> SUFFICES ASSUME IInv, IInv', [Next]_vars
             PROVE  Service!Next \/ UNCHANGED Service!vars
  OBVIOUS
<1>1. Views' /\ Cardinality(InSlots') <= NSlots
  BY ViewsThen, SlotsSufficeThen
<1>2. CASE MainStep
  BY <1>1, <1>2, MainRefines
<1>3. CASE \E r \in Requests : ReaderStep(r) \/ (Alive /\ Disconnect(r))
  <2>1. PICK r \in Requests : ReaderStep(r) \/ (Alive /\ Disconnect(r))
    BY <1>3
  <2>2. CASE Register(r)
    BY <1>1, <2>2, RegisterRefines
  <2>3. CASE PostTasks(r)
    BY <1>1, <2>3, PostTasksRefines
  <2>4. CASE PostCancels(r)
    BY <1>1, <2>4, PostCancelsRefines
  <2>5. CASE Disconnect(r) \/ Purge(r) \/ Unregister(r) \/ Receive(r)
    BY <1>1, <2>5, GoesOnRefines
  <2>6. QED BY <2>1, <2>2, <2>3, <2>4, <2>5 DEF ReaderStep
<1>4. CASE UNCHANGED vars
  <2>1. Apart
    BY <1>4 DEF vars, Apart, queueVars, MainVars, Onward, Posted
  <2>2. Same({}) /\ SameClients
    BY <1>4, <2>1, ApartRefines DEF vars, SameClients, Client
  <2>3. Views
    BY ViewIs
  <2>4. QED BY <1>1, <2>2, <2>3, ServiceStutters
<1>5. QED BY <1>2, <1>3, <1>4 DEF Next

\* However the queue, the slots and the readers interleave, a client sees
\* TaskService: a task is accepted once, runs on a slot of its own, is answered
\* at most once, and is given up only with its client or its request.
THEOREM TaskServiceRefinement == Spec => ImplementsTaskService
<1>1. Init => IInv
  BY InitIInv
<1>2. IInv /\ [Next]_vars => IInv'
  BY NextKeepsIInv
<1>3. Init => Service!Init
  BY InitRefines
<1>4. IInv /\ IInv' /\ [Next]_vars => [Service!Next]_(Service!vars)
  BY StepRefines
<1>5. QED
  BY <1>1, <1>2, <1>3, <1>4, PTL DEF Spec, ImplementsTaskService, Service!Spec

-----------------------------------------------------------------------------
(* The task that a release brings back.                                    *)

\* Requests that name a slot the server has, if any, and act on none.
NamesSlots ==
    \A q \in Shapes : \A i \in DOMAIN q :
        q[i].kind # "SLOT_ACTION" /\ q[i].id_slot \in -1 .. NSlots - 1

LEMMA DeferredIndexFinds ==
    ASSUME QueuesOk, NEW s, NEW i \in 1 .. Len(queue_tasks_deferred),
           Info(queue_tasks_deferred[i].id).kind # "SLOT_ACTION",
           Info(queue_tasks_deferred[i].id).id_slot = s
    PROVE  Info(queue_tasks_deferred[DeferredIndex(s)].id).id_slot = s
<1> DEFINE d == queue_tasks_deferred
           I == {j \in 1 .. Len(d) : Info(d[j].id).kind # "SLOT_ACTION" /\ Info(d[j].id).id_slot = s}
           m == IF I # {} THEN Min(I) ELSE 0
<1>1. DeferredIndex(s) = IF m = 0 THEN 1 ELSE m
  BY Zenon DEF DeferredIndex, SelectInSeq
<1>2. i \in I /\ I \subseteq Nat \ {0}
  OBVIOUS
<1>3. PICK x \in I : \A y \in I : x <= y
  BY <1>2, LeastNat
<1>4. Min(I) \in I
  BY <1>3 DEF Min
<1>5. m \in I /\ m # 0
  BY <1>2, <1>4
<1>6. QED BY <1>1, <1>5

LEMMA FreedPrioritizes ==
    ASSUME NamesSlots, IInv, NEW s \in SlotIds, Freed(s), NEW i \in DOMAIN queue_tasks_deferred,
           UsesSlot(queue_tasks_deferred[i], s)
    PROVE  UsesSlot(Head(queue_tasks'), s)
<1> DEFINE d == queue_tasks_deferred
           k == DeferredIndex(s)
<1>1. /\ TypeOK /\ QueuesOk /\ d \in Seq(TaskItems) /\ queue_tasks \in Seq(Items)
      /\ DOMAIN d = 1 .. Len(d) /\ d # <<>>
  BY LenProperties, EmptySeq DEF IInv, QueuesOk
<1>2. NSlots \in Nat /\ NSlots # 0 /\ s \in 0 .. NSlots - 1
  BY BoundsAssumption DEF SlotIds
<1>3. ASSUME NEW j \in DOMAIN d
      PROVE  /\ Info(d[j].id).kind # "SLOT_ACTION"
             /\ UsesSlot(d[j], s) <=> Info(d[j].id).id_slot = s
  <2>1. d[j] \in TaskItems
    BY <1>1, ElementOfSeq
  <2>2. PICK t \in Tasks : d[j] = Item("TASK", t)
    BY <2>1 DEF TaskItems
  <2>3. d[j].id = t
    BY <2>2 DEF Item
  <2>4. PICK q \in Shapes : q = req[t[1]] /\ t[2] \in DOMAIN q
    BY <1>1, TaskIs
  <2>5. PICK x : x = Info(t).id_slot
    OBVIOUS
  <2>6. Info(t).kind # "SLOT_ACTION" /\ x \in -1 .. NSlots - 1
    BY <2>4, <2>5 DEF NamesSlots, Info
  <2>7. x # -1 => x % NSlots = x
    BY <1>2, <2>6
  <2>8. x # -1 /\ x % NSlots = s <=> x = s
    BY <1>2, <2>7
  <2>9. QED BY <2>3, <2>5, <2>6, <2>8 DEF UsesSlot
<1>4. PopDeferredTask(s)
  BY DEF Freed
<1>5. k \in 1 .. Len(d)
  BY <1>1, DeferredIndexIs
<1>6. queue_tasks' = <<d[k]>> \o queue_tasks
  BY <1>1, <1>4 DEF PopDeferredTask
<1>7. UsesSlot(d[k], s)
  <2>1. Info(d[i].id).kind # "SLOT_ACTION" /\ Info(d[i].id).id_slot = s
    BY <1>3
  <2>2. Info(d[k].id).id_slot = s
    BY <1>1, <2>1, DeferredIndexFinds
  <2>3. QED BY <1>1, <1>3, <1>5, <2>2
<1> HIDE DEF k
<1>8. Head(queue_tasks') = d[k]
  <2>1. PICK x \in Items : x = d[k]
    BY <1>1, <1>5, ElementOfSeq DEF Items
  <2>2. PICK q \in Seq(Items) : q = queue_tasks
    BY <1>1
  <2>3. Head(<<x>> \o q) = x
    BY <2>2
  <2>4. QED BY <1>6, <2>1, <2>2, <2>3
<1>9. QED BY <1>7, <1>8

\* A release brings the deferred task that waits for this very slot back to the
\* front of the queue, as pop_deferred_task documents, if the requests name only
\* slots the server has and act on none.
THEOREM ReleasePrioritizesSlotHolds ==
    ASSUME NamesSlots
    PROVE  Spec => ReleasePrioritizesSlot
<1> DEFINE Step ==
        \A s \in SlotIds :
            /\ ~IsIdle(s) /\ IsIdle(s)'
            /\ \E i \in DOMAIN queue_tasks_deferred : UsesSlot(queue_tasks_deferred[i], s)
            => UsesSlot(Head(queue_tasks'), s)
<1>1. Init => IInv
  BY InitIInv
<1>2. IInv /\ [Next]_vars => IInv'
  BY NextKeepsIInv
<1>3. IInv /\ [Next]_vars => [Step]_vars
  <2> SUFFICES ASSUME IInv, [Next]_vars, NEW s \in SlotIds, ~IsIdle(s), IsIdle(s)',
                      NEW i \in DOMAIN queue_tasks_deferred, UsesSlot(queue_tasks_deferred[i], s)
               PROVE  UsesSlot(Head(queue_tasks'), s)
    OBVIOUS
  <2>1. slots' # slots
    BY DEF IsIdle
  <2>2. MainStep
    BY <2>1 DEF Next, vars, ReaderStep, Register, PostTasks, Receive, Unregister, Purge,
                PostCancels, Disconnect
  <2>3. TypeOK /\ Control /\ QueuesOk /\ SlotsTyped
    BY SlotsAre DEF IInv
  <2>4. ~SlotsMoved
    <3>1. ASSUME SlotsMoved PROVE FALSE
      BY <2>3, <3>1 DEF SlotsMoved, SlotsTyped
    <3>2. QED BY <3>1
  <2>5. \A x \in SlotIds : \A type : ~Answered(x, type)
    BY <2>1 DEF Answered
  <2>6. \A t, u, type : ~Finished(t, u, type)
    BY <2>1 DEF Finished
  <2>7. \A t, x, f : ~Placed(t, x, f)
    <3>1. ASSUME NEW t, NEW x, NEW f, Placed(t, x, f) PROVE FALSE
      <4>1. /\ x \in IdleSlots /\ f \in [Children(t) -> IdleSlots \ {x}]
            /\ \A y \in SlotIds : y # x /\ (\A c \in Children(t) : f[c] # y) => slots'[y] = slots[y]
        BY <3>1 DEF Placed
      <4>2. s # x /\ \A c \in Children(t) : f[c] # s
        BY <4>1 DEF IdleSlots
      <4>3. slots'[s] = slots[s]
        BY <4>1, <4>2
      <4>4. QED BY <4>3 DEF IsIdle
    <3>2. QED BY <3>1
  <2>8. PICK x \in SlotIds : Freed(x)
    BY <2>2, <2>3, <2>4, <2>5, <2>6, <2>7, MainStepIs DEF Quiet
  <2>9. x = s
    <3>1. slots' = [slots EXCEPT ![x] = IdleSlot] /\ slots \in [SlotIds -> SlotT]
      BY <2>3, <2>8 DEF Freed, SlotsTyped
    <3>2. s # x => slots'[s] = slots[s]
      BY <3>1
    <3>3. QED BY <3>2 DEF IsIdle
  <2>10. QED BY <2>8, <2>9, FreedPrioritizes
<1>4. QED
  BY <1>1, <1>2, <1>3, PTL DEF Spec, ReleasePrioritizesSlot
-----------------------------------------------------------------------------
(* Nobody waits for what cannot come.                                      *)

\* Requests that are never refused, from clients that stay, and where a
\* failed decode drops all that is left of a request.
Ordinary ==
    /\ ~CanCancel
    /\ \A q \in Shapes : \A i \in DOMAIN q :
           /\ q[i].launches /\ q[i].kind # "SLOT_ACTION"
           /\ q[i].kind = "COMPLETION" => q[i].tokens # 0 /\ q[i].tokens < NCtx
           /\ q[i].kind = "EMBEDDING"  => q[i].tokens = 1
           /\ CanFail /\ q[i].parent = 0 => i = 1

\* The decode has failed, and the slots are being released.
Failing == mainPc = "fail" \/ (mainPc = "release" /\ loop = "fail")

\* The slots whose children still wait for the shared prompt.
Parents == InState({"STARTED", "PROCESSING_PROMPT"}
                       \cup IF mainPc \in {"prompt", "decode"} THEN {"DONE_PROMPT"} ELSE {})

ParentsOk ==
    Failing \/ \A s \in InState({"WAIT_OTHER"}) :
                   \E p \in Parents : slots[s].task \in Children(slots[p].task)

\* A prompt that is done is in the batch until it has been sampled.
DoneOk ==
    Failing \/ \A s \in InState({"DONE_PROMPT"}) :
                   /\ s \in batch
                   /\ \/ mainPc \in {"prompt", "decode"}
                      \/ (mainPc = "sample" \/ mainPc = "release") /\ s >= at

RoundOk ==
    /\ mainPc = "release" => \/ loop = "fail"
                             \/ /\ loop = "sample"
                                /\ slots[at].state \in {"DONE_PROMPT", "GENERATING"}
    /\ mainPc = "prompt" /\ batch = {} =>
           at = 0 /\ InState({"STARTED", "PROCESSING_PROMPT"}) # {}
    /\ mainPc = "decode" => batch # {}
    /\ n_empty_consecutive = 0 /\ mainPc # "aborted"
    /\ Failing => CanFail

Busy == \E s \in SlotIds : ~IsIdle(s)

SlotTasksOk == \A s \in SlotIds : ~IsIdle(s) => NeedsSlot(slots[s].task)

\* More copies of a task are queued than deferred: it is on its way to a slot.
Incoming(t) == /\ t \in Tasks /\ NeedsSlot(t)
               /\ Queued(t) > Count(queue_tasks_deferred, Item("TASK", t))

DefersOk == \A i \in DOMAIN queue_tasks_deferred : NeedsSlot(queue_tasks_deferred[i].id)

\* While a task is deferred, there is a slot to be released or to be taken.
DeferredOk == queue_tasks_deferred # <<>> => Busy \/ \E t : Incoming(t)

\* A round leaves a NEXT_RESPONSE behind while a slot works.
RoundGoesOn ==
    /\ mainPc \in {"prompt", "decode", "sample", "fail", "release"} => queue_tasks # <<>>
    /\ mainPc = "wait" /\ Busy => queue_tasks # <<>>

\* Only a failed decode makes a client leave before it has all results, and
\* frees the slots of its request.
FailedOk(r) ==
    /\ Failed(r) => CanFail
    /\ Failed(r) => Failing \/ \A s \in SlotIds : slots[s].task \notin Ids(r)
    /\ rpc[r] \in {"purge", "cancel"} => Failed(r)
    /\ rpc[r] \in {"stop", "done"} /\ HasNext(r) => Failed(r)
    /\ \A k \in DOMAIN results[r] : results[r][k].type = "error" => Failed(r)

StrandInv ==
    /\ ParentsOk /\ DoneOk /\ RoundOk
    /\ SlotTasksOk /\ DefersOk /\ DeferredOk /\ RoundGoesOn
    /\ \A r \in Requests : FailedOk(r)

-----------------------------------------------------------------------------
(* Lemmas on ordinary requests.                                            *)

LEMMA OrdinaryTask ==
    ASSUME Ordinary, TypeOK, NEW t \in Tasks
    PROVE  /\ Info(t).launches /\ Info(t).kind # "SLOT_ACTION"
           /\ Info(t).kind = "COMPLETION" => Info(t).tokens # 0 /\ Info(t).tokens < NCtx
           /\ Info(t).kind = "EMBEDDING"  => Info(t).tokens = 1
           /\ CanFail /\ ~IsChild(t) => t[2] = 1
<1>1. PICK q \in Shapes : q = req[t[1]]
  BY TaskIs
<1>2. PICK i \in DOMAIN q : i = t[2]
  BY <1>1, TaskIs
<1>3. Info(t) = q[i]
  BY <1>1, <1>2 DEF Info
<1>4. /\ q[i].launches /\ q[i].kind # "SLOT_ACTION"
      /\ q[i].kind = "COMPLETION" => q[i].tokens # 0 /\ q[i].tokens < NCtx
      /\ q[i].kind = "EMBEDDING"  => q[i].tokens = 1
      /\ CanFail /\ q[i].parent = 0 => i = 1
  BY DEF Ordinary
<1>5. QED BY <1>2, <1>3, <1>4 DEF IsChild

\* update_slots refuses no prompt.
LEMMA PromptFits ==
    ASSUME Ordinary, IInv, SlotTasksOk, NEW s \in SlotIds, ~IsIdle(s)
    PROVE  TaskOf(s).tokens # 0 /\ ~TooLong(s)
<1>1. TypeOK /\ SlotsOk /\ SlotsTyped
  BY SlotsAre DEF IInv
<1>2. PICK t \in Tasks : t = slots[s].task
  BY <1>1 DEF SlotsTyped, SlotsOk
<1>3. Info(t).kind \in {"COMPLETION", "EMBEDDING"} /\ Info(t).tokens \in Nat /\ NCtx \in Nat
  BY <1>1, <1>2, TaskIs, BoundsAssumption DEF SlotTasksOk, NeedsSlot, TaskInfo
<1>4. TaskOf(s) = Info(t)
  BY <1>2 DEF TaskOf
<1>5. /\ Info(t).kind = "COMPLETION" => Info(t).tokens # 0 /\ Info(t).tokens < NCtx
      /\ Info(t).kind = "EMBEDDING"  => Info(t).tokens = 1
  BY <1>1, OrdinaryTask
<1>6. TooLong(s) <=> IF Info(t).kind = "EMBEDDING" THEN Info(t).tokens > 1 ELSE Info(t).tokens >= NCtx
  BY <1>4 DEF TooLong
<1>7. QED BY <1>3, <1>4, <1>5, <1>6

LEMMA ParentsThen ==
    ASSUME UNCHANGED req,
           \A s \in SlotIds : slots'[s].state = "WAIT_OTHER" =>
               \E p \in SlotIds :
                   /\ \/ slots'[p].state \in {"STARTED", "PROCESSING_PROMPT"}
                      \/ slots'[p].state = "DONE_PROMPT" /\ mainPc' \in {"prompt", "decode"}
                   /\ slots'[s].task \in Children(slots'[p].task)
    PROVE  ParentsOk'
<1>1. \A t : Children(t)' = Children(t)
  BY SameRequests
<1>2. ASSUME NEW s \in SlotIds, slots'[s].state = "WAIT_OTHER"
      PROVE  \E p \in Parents' : slots'[s].task \in Children(slots[p].task)'
  <2>1. PICK p \in SlotIds :
            /\ \/ slots'[p].state \in {"STARTED", "PROCESSING_PROMPT"}
               \/ slots'[p].state = "DONE_PROMPT" /\ mainPc' \in {"prompt", "decode"}
            /\ slots'[s].task \in Children(slots'[p].task)
    BY <1>2
  <2>2. p \in Parents'
    BY <2>1 DEF Parents, InState
  <2>3. Children(slots[p].task)' = Children(slots'[p].task)
    BY <1>1
  <2>4. QED BY <2>1, <2>2, <2>3
<1>3. QED BY <1>2 DEF ParentsOk, InState

-----------------------------------------------------------------------------
(* The rounds of update_slots.                                             *)

RoundsOk == ParentsOk /\ DoneOk /\ RoundOk

LEMMA ParentIs ==
    ASSUME ParentsOk, ~Failing, NEW s \in SlotIds, slots[s].state = "WAIT_OTHER"
    PROVE  \E p \in SlotIds :
               /\ \/ slots[p].state \in {"STARTED", "PROCESSING_PROMPT"}
                  \/ slots[p].state = "DONE_PROMPT" /\ mainPc \in {"prompt", "decode"}
               /\ slots[s].task \in Children(slots[p].task)
BY DEF ParentsOk, Parents, InState

\* Between two rounds.
Outside == {"drain", "process", "update", "wait"}

LEMMA OutsideIs ==
    ASSUME RoundsOk, mainPc \in Outside
    PROVE  /\ ~Failing /\ \A s \in SlotIds : slots[s].state # "DONE_PROMPT"
           /\ \A s \in SlotIds : slots[s].state = "WAIT_OTHER" =>
                  \E p \in SlotIds : /\ slots[p].state \in {"STARTED", "PROCESSING_PROMPT"}
                                     /\ slots[s].task \in Children(slots[p].task)
<1>1. ~Failing
  BY DEF Failing, Outside
<1>2. \A s \in SlotIds : slots[s].state # "DONE_PROMPT"
  BY <1>1 DEF RoundsOk, DoneOk, InState, Outside
<1>3. QED BY <1>1, <1>2, ParentIs DEF RoundsOk

LEMMA OutsideThen ==
    ASSUME UNCHANGED req, mainPc' \in Outside, n_empty_consecutive' = 0,
           \A s \in SlotIds : slots'[s].state # "DONE_PROMPT",
           \A s \in SlotIds : slots'[s].state = "WAIT_OTHER" =>
               \E p \in SlotIds : /\ slots'[p].state \in {"STARTED", "PROCESSING_PROMPT"}
                                  /\ slots'[s].task \in Children(slots'[p].task)
    PROVE  RoundsOk'
<1>1. ParentsOk'
  BY ParentsThen
<1>2. DoneOk'
  BY DEF DoneOk, InState
<1>3. RoundOk'
  BY DEF RoundOk, Failing, Outside
<1>4. QED BY <1>1, <1>2, <1>3 DEF RoundsOk

LEMMA OutsideStays ==
    ASSUME RoundsOk, mainPc \in Outside, mainPc' \in Outside,
           UNCHANGED <<slots, req, n_empty_consecutive>>
    PROVE  RoundsOk'
<1>1. n_empty_consecutive' = 0
  BY DEF RoundsOk, RoundOk
<1>2. QED BY <1>1, OutsideIs, OutsideThen

\* A parent is launched with its children.
LEMMA PlacedRounds ==
    ASSUME RoundsOk, TypeOK, NEW t, NEW s, NEW f, Placed(t, s, f), n_empty_consecutive' = 0
    PROVE  RoundsOk'
<1>1. /\ mainPc \in Outside /\ mainPc' \in Outside /\ UNCHANGED req
      /\ s \in IdleSlots /\ f \in [Children(t) -> IdleSlots \ {s}]
      /\ slots'[s].task = t /\ slots'[s].state = "STARTED"
      /\ \A c \in Children(t) : slots'[f[c]].task = c /\ slots'[f[c]].state = "WAIT_OTHER"
      /\ \A x \in SlotIds : x # s /\ (\A c \in Children(t) : f[c] # x) => slots'[x] = slots[x]
  BY DEF Placed, Still, Outside
<1>2. \A x \in SlotIds : slots[x].state # "IDLE" => slots'[x] = slots[x]
  <2>1. ASSUME NEW x \in SlotIds, slots[x].state # "IDLE" PROVE slots'[x] = slots[x]
    <3>1. x # s /\ \A c \in Children(t) : f[c] # x
      BY <1>1, <2>1 DEF IdleSlots, IsIdle
    <3>2. QED BY <1>1, <3>1
  <2>2. QED BY <2>1
<1>3. ASSUME NEW x \in SlotIds, slots'[x] # slots[x]
      PROVE  x = s \/ \E c \in Children(t) : f[c] = x
  BY <1>1, <1>3
<1>4. ASSUME NEW x \in SlotIds PROVE slots'[x].state # "DONE_PROMPT"
  <2>1. CASE slots'[x] = slots[x]
    BY <1>1, <2>1, OutsideIs
  <2>2. CASE slots'[x] # slots[x]
    BY <1>1, <1>3, <2>2
  <2>3. QED BY <2>1, <2>2
<1>5. ASSUME NEW x \in SlotIds, slots'[x].state = "WAIT_OTHER"
      PROVE  \E p \in SlotIds : /\ slots'[p].state \in {"STARTED", "PROCESSING_PROMPT"}
                                /\ slots'[x].task \in Children(slots'[p].task)
  <2>1. CASE slots'[x] = slots[x]
    <3>1. PICK p \in SlotIds : /\ slots[p].state \in {"STARTED", "PROCESSING_PROMPT"}
                               /\ slots[x].task \in Children(slots[p].task)
      BY <1>1, <1>5, <2>1, OutsideIs
    <3>2. slots'[p] = slots[p]
      BY <1>2, <3>1
    <3>3. QED BY <2>1, <3>1, <3>2
  <2>2. CASE slots'[x] # slots[x]
    <3>1. x # s
      BY <1>1, <1>5
    <3>2. PICK c \in Children(t) : f[c] = x
      BY <1>3, <2>2, <3>1
    <3>3. slots'[x].task \in Children(slots'[s].task) /\ s \in SlotIds
      BY <1>1, <3>2 DEF IdleSlots
    <3>4. QED BY <1>1, <3>3
  <2>3. QED BY <2>1, <2>2
<1>6. QED BY <1>1, <1>4, <1>5, OutsideThen

LEMMA GatheredIs == ASSUME NEW s \in InState({"GENERATING"}) PROVE Gathered # {}
<1> DEFINE gen == InState({"GENERATING"})
<1>1. gen \subseteq SlotIds /\ gen # {}
  BY DEF InState
<1>2. First(gen) \in gen
  BY <1>1, FirstIs
<1>3. First(gen) \in Gathered
  BY <1>2 DEF Gathered
<1>4. QED BY <1>3

LEMMA BeginRounds ==
    ASSUME RoundsOk, TypeOK, BeginUpdate
    PROVE  RoundsOk'
<1>1. /\ mainPc = "update" /\ mainPc \in Outside
      /\ UNCHANGED <<slots, req, n_empty_consecutive, loop>>
  BY DEF BeginUpdate, readerVars, Outside
<1>2. CASE IdleSlots = SlotIds
  <2>1. mainPc' \in Outside
    BY <1>2 DEF BeginUpdate, Outside
  <2>2. QED BY <1>1, <2>1, OutsideStays
<1>3. CASE IdleSlots # SlotIds
  <2>1. mainPc' = "prompt" /\ batch' = Gathered /\ at' = 0
    BY <1>3 DEF BeginUpdate
  <2>2. ParentsOk'
    BY <1>1, OutsideIs, ParentsThen
  <2>3. DoneOk'
    BY <1>1, OutsideIs DEF DoneOk, InState
  <2>4. ASSUME Gathered = {} PROVE InState({"STARTED", "PROCESSING_PROMPT"}) # {}
    <3>1. PICK s \in SlotIds : slots[s].state # "IDLE"
      BY <1>3 DEF IdleSlots, IsIdle
    <3>2. slots[s].state \in SlotStates
      BY SlotsAre DEF SlotsTyped, SlotT
    <3>3. slots[s].state # "GENERATING" /\ slots[s].state # "DONE_PROMPT"
      BY <1>1, <2>4, GatheredIs, OutsideIs DEF InState
    <3>4. PICK p \in SlotIds : slots[p].state \in {"STARTED", "PROCESSING_PROMPT"}
      BY <1>1, <3>1, <3>2, <3>3, OutsideIs DEF SlotStates
    <3>5. QED BY <3>4 DEF InState
  <2>5. InState({"STARTED", "PROCESSING_PROMPT"})' = InState({"STARTED", "PROCESSING_PROMPT"})
    BY <1>1 DEF InState
  <2>6. RoundOk'
    BY <1>1, <2>1, <2>4, <2>5 DEF RoundsOk, RoundOk, Failing
  <2>7. QED BY <2>2, <2>3, <2>6 DEF RoundsOk
<1>4. QED BY <1>2, <1>3

\* The prompt of a slot goes on.
LEMMA PromptRounds ==
    ASSUME RoundsOk, TypeOK, NEW s \in SlotIds, SkipPrompt(s) \/ AddPrompt(s)
    PROVE  RoundsOk'
<1>1. /\ mainPc = "prompt" /\ mainPc' = "prompt" /\ UNCHANGED <<req, n_empty_consecutive, loop>>
      /\ ~Failing
  BY DEF SkipPrompt, AddPrompt, OnPromptSlot, readerVars, Failing
<1>2. slots[s].state \in {"STARTED", "PROCESSING_PROMPT"} /\ slots \in [SlotIds -> SlotT]
  BY SlotFound, SlotsAre DEF SkipPrompt, AddPrompt, SlotsTyped
<1>3. /\ \A x \in SlotIds : x # s => slots'[x] = slots[x]
      /\ slots'[s].task = slots[s].task /\ batch \subseteq batch' /\ batch' # {}
      /\ \/ slots'[s].state = "PROCESSING_PROMPT"
         \/ slots'[s].state = "DONE_PROMPT" /\ s \in batch'
  <2>1. CASE SkipPrompt(s)
    <3>1. /\ slots' = [slots EXCEPT ![s].state = "PROCESSING_PROMPT"]
          /\ batch # {} /\ batch' = batch
      BY <2>1 DEF SkipPrompt
    <3>2. QED BY <1>2, <3>1 DEF SlotT
  <2>2. CASE AddPrompt(s)
    <3>1. PICK st \in {"DONE_PROMPT", "PROCESSING_PROMPT"} :
              /\ slots' = [slots EXCEPT ![s].n = @ + 1, ![s].state = st]
              /\ batch' = batch \cup {s}
      BY <2>2 DEF AddPrompt
    <3>2. /\ \A x \in SlotIds : x # s => slots'[x] = slots[x]
          /\ slots'[s] = [slots[s] EXCEPT !.n = @ + 1, !.state = st]
      BY <1>2, <3>1
    <3>3. slots'[s].task = slots[s].task /\ slots'[s].state = st
      BY <1>2, <3>2 DEF SlotT
    <3>4. QED BY <3>1, <3>2, <3>3
  <2>3. QED BY <2>1, <2>2
<1>4. \A x \in SlotIds : slots'[x].task = slots[x].task
  BY <1>3
<1>5. ASSUME NEW x \in SlotIds, slots'[x].state = "WAIT_OTHER"
      PROVE  \E p \in SlotIds :
                 /\ \/ slots'[p].state \in {"STARTED", "PROCESSING_PROMPT"}
                    \/ slots'[p].state = "DONE_PROMPT" /\ mainPc' \in {"prompt", "decode"}
                 /\ slots'[x].task \in Children(slots'[p].task)
  <2>1. slots[x].state = "WAIT_OTHER"
    BY <1>3, <1>5
  <2>2. PICK p \in SlotIds :
                 /\ slots[p].state \in {"STARTED", "PROCESSING_PROMPT", "DONE_PROMPT"}
                 /\ slots[x].task \in Children(slots[p].task)
    BY <1>1, <2>1, ParentIs DEF RoundsOk
  <2>3. slots'[p].state \in {"STARTED", "PROCESSING_PROMPT", "DONE_PROMPT"}
    BY <1>3, <2>2
  <2>4. QED BY <1>1, <1>4, <2>2, <2>3
<1>6. ParentsOk'
  BY <1>1, <1>5, ParentsThen
<1>7. DoneOk'
  <2>1. ASSUME NEW x \in SlotIds, slots'[x].state = "DONE_PROMPT" PROVE x \in batch'
    <3>1. CASE x = s
      BY <1>3, <2>1, <3>1
    <3>2. CASE x # s
      <4>1. slots[x].state = "DONE_PROMPT"
        BY <1>3, <2>1, <3>2
      <4>2. x \in batch
        BY <1>1, <4>1 DEF RoundsOk, DoneOk, InState
      <4>3. QED BY <1>3, <4>2
    <3>3. QED BY <3>1, <3>2
  <2>2. QED BY <1>1, <2>1 DEF DoneOk, InState
<1>8. RoundOk'
  BY <1>1, <1>3 DEF RoundsOk, RoundOk, Failing
<1>9. QED BY <1>6, <1>7, <1>8 DEF RoundsOk

\* The loop over the prompts ends with something in the batch.
LEMMA EndPromptsRounds ==
    ASSUME RoundsOk, TypeOK, EndPrompts
    PROVE  RoundsOk'
<1>1. /\ mainPc = "prompt" /\ mainPc' = "decode" /\ PromptSlots = {} /\ ~Failing
      /\ UNCHANGED <<slots, req, n_empty_consecutive, loop, batch, at>>
  BY DEF EndPrompts, readerVars, loopVars, Failing
<1>2. ParentsOk'
  BY <1>1, ParentIs, ParentsThen DEF RoundsOk
<1>3. DoneOk'
  BY <1>1 DEF RoundsOk, DoneOk, InState
<1>4. batch # {}
  <2>1. SUFFICES ASSUME batch = {} PROVE FALSE
    OBVIOUS
  <2>2. PICK s \in InState({"STARTED", "PROCESSING_PROMPT"}) : TRUE
    BY <1>1, <2>1 DEF RoundsOk, RoundOk
  <2>3. at = 0 /\ s \in Nat
    BY <1>1, <2>1, <2>2, LoopIs, BoundsAssumption DEF RoundsOk, RoundOk, InState, SlotIds
  <2>4. s \in PromptSlots
    BY <2>1, <2>2, <2>3 DEF PromptSlots, Compatible
  <2>5. QED BY <1>1, <2>4
<1>5. RoundOk'
  BY <1>1, <1>4 DEF RoundsOk, RoundOk, Failing
<1>6. QED BY <1>2, <1>3, <1>5 DEF RoundsOk

\* The children of a parent whose prompt is done are activated with it.
LEMMA DecodeRounds ==
    ASSUME RoundsOk, TypeOK, Decode
    PROVE  RoundsOk'
<1>1. /\ mainPc = "decode" /\ mainPc' = "sample" /\ UNCHANGED req /\ ~Failing
      /\ n_empty_consecutive' = 0 /\ at' = 0 /\ batch' = batch \cup Activated
  BY DEF Decode, readerVars, Failing
<1>2. slots' = [s \in SlotIds |-> IF s \in Activated THEN [slots[s] EXCEPT !.state = "DONE_PROMPT"]
                                                     ELSE slots[s]]
  BY DEF Decode
<1>3. \A s \in SlotIds : slots[s] \in SlotT
  BY SlotsAre DEF SlotsTyped
<1>4. ASSUME NEW s \in SlotIds
      PROVE  /\ slots'[s].task = slots[s].task
             /\ s \in Activated => slots[s].state = "WAIT_OTHER" /\ slots'[s].state = "DONE_PROMPT"
             /\ s \notin Activated => slots'[s] = slots[s]
  <2>1. CASE s \in Activated
    <3>1. slots'[s] = [slots[s] EXCEPT !.state = "DONE_PROMPT"]
      BY <1>2, <2>1
    <3>2. slots'[s].task = slots[s].task /\ slots'[s].state = "DONE_PROMPT"
      BY <1>3, <3>1 DEF SlotT
    <3>3. QED BY <2>1, <3>2 DEF Activated, InState
  <2>2. CASE s \notin Activated
    BY <1>2, <2>2
  <2>3. QED BY <2>1, <2>2
<1>5. ASSUME NEW s \in SlotIds, slots'[s].state = "WAIT_OTHER"
      PROVE  \E p \in SlotIds : /\ slots'[p].state \in {"STARTED", "PROCESSING_PROMPT"}
                                /\ slots'[s].task \in Children(slots'[p].task)
  <2>1. s \notin Activated /\ slots[s].state = "WAIT_OTHER"
    BY <1>4, <1>5
  <2>2. PICK p \in SlotIds : /\ slots[p].state \in {"STARTED", "PROCESSING_PROMPT", "DONE_PROMPT"}
                             /\ slots[s].task \in Children(slots[p].task)
    BY <1>1, <2>1, ParentIs DEF RoundsOk
  <2>3. slots[p].state # "DONE_PROMPT"
    BY <2>1, <2>2 DEF Activated, InState
  <2>4. slots'[p] = slots[p]
    BY <1>4, <2>2, <2>3
  <2>5. QED BY <1>4, <2>2, <2>3, <2>4
<1>6. ParentsOk'
  BY <1>1, <1>5, ParentsThen
<1>7. DoneOk'
  <2>1. ASSUME NEW s \in SlotIds, slots'[s].state = "DONE_PROMPT" PROVE s \in batch' /\ s >= at'
    <3>1. s \in batch'
      <4>1. CASE s \in Activated
        BY <1>1, <4>1
      <4>2. CASE s \notin Activated
        <5>1. slots[s].state = "DONE_PROMPT"
          BY <1>4, <2>1, <4>2
        <5>2. QED BY <1>1, <5>1 DEF RoundsOk, DoneOk, InState
      <4>3. QED BY <4>1, <4>2
    <3>2. s >= 0
      BY BoundsAssumption DEF SlotIds
    <3>3. QED BY <1>1, <3>1, <3>2
  <2>2. QED BY <1>1, <2>1 DEF DoneOk, InState
<1>8. RoundOk'
  BY <1>1 DEF RoundsOk, RoundOk, Failing
<1>9. QED BY <1>6, <1>7, <1>8 DEF RoundsOk

LEMMA FailingRounds ==
    ASSUME n_empty_consecutive' = 0, Failing', CanFail
    PROVE  RoundsOk'
BY DEF RoundsOk, ParentsOk, DoneOk, RoundOk, Failing

LEMMA SampleSlotIs ==
    ASSUME RoundsOk, TypeOK, NEW s \in SlotIds, OnSampleSlot(s)
    PROVE  /\ slots[s].state \in {"DONE_PROMPT", "GENERATING"}
           /\ \A x \in SlotIds : slots[x].state = "DONE_PROMPT" => x \in batch /\ s <= x
<1>1. mainPc = "sample" /\ s = First(SampleSlots) /\ SampleSlots # {} /\ SampleSlots \subseteq SlotIds
  BY DEF OnSampleSlot, SampleSlots, InState
<1>2. s \in SampleSlots /\ \A x \in SampleSlots : s <= x
  <2>1. SampleSlots \subseteq Nat
    BY <1>1, BoundsAssumption DEF SlotIds
  <2>2. PICK y \in SampleSlots : \A x \in SampleSlots : y <= x
    BY <1>1, <2>1, LeastNat
  <2>3. QED BY <1>1, <2>2 DEF First
<1>3. ASSUME NEW x \in SlotIds, slots[x].state = "DONE_PROMPT"
      PROVE  x \in batch /\ x \in SampleSlots
  <2>1. x \in batch /\ x >= at
    BY <1>1, <1>3 DEF RoundsOk, DoneOk, InState, Failing
  <2>2. QED BY <1>3, <2>1 DEF SampleSlots, InState
<1>4. QED BY <1>2, <1>3 DEF SampleSlots, InState

\* Each slot of the batch is sampled in its turn ...
LEMMA SampleRounds ==
    ASSUME RoundsOk, TypeOK, NEW s \in SlotIds, SampleFinal(s) \/ SamplePartial(s)
    PROVE  RoundsOk'
<1>1. /\ mainPc = "sample" /\ ~Failing /\ UNCHANGED <<req, n_empty_consecutive, batch>>
      /\ OnSampleSlot(s)
  BY DEF SampleFinal, SamplePartial, OnSampleSlot, readerVars, Failing
<1>2. /\ slots[s].state \in {"DONE_PROMPT", "GENERATING"}
      /\ \A x \in SlotIds : slots[x].state = "DONE_PROMPT" => x \in batch /\ s <= x
  BY <1>1, SampleSlotIs
<1>3. CASE SampleFinal(s)
  <2>1. mainPc' = "release" /\ loop' = "sample" /\ at' = s /\ UNCHANGED slots
    BY <1>3 DEF SampleFinal, SendAndRelease
  <2>2. ParentsOk'
    BY <1>1, <2>1, ParentIs, ParentsThen DEF RoundsOk
  <2>3. \A x \in SlotIds : slots[x].state = "DONE_PROMPT" => x \in batch /\ x >= s
    <3>1. SlotIds \subseteq Nat
      BY BoundsAssumption DEF SlotIds
    <3>2. QED BY <1>2, <3>1
  <2>4. DoneOk'
    BY <1>1, <2>1, <2>3 DEF DoneOk, InState
  <2>5. RoundOk'
    BY <1>1, <1>2, <2>1 DEF RoundsOk, RoundOk, Failing
  <2>6. QED BY <2>2, <2>4, <2>5 DEF RoundsOk
<1>4. CASE SamplePartial(s)
  <2>1. /\ mainPc' = "sample" /\ UNCHANGED loop /\ at' = s + 1
        /\ slots' = [slots EXCEPT ![s].state = "GENERATING", ![s].n = Decoded(s)]
    BY <1>1, <1>4 DEF SamplePartial
  <2>2. /\ \A x \in SlotIds : x # s => slots'[x] = slots[x]
        /\ slots'[s].state = "GENERATING" /\ slots'[s].task = slots[s].task
    <3>1. slots \in [SlotIds -> SlotT]
      BY SlotsAre DEF SlotsTyped
    <3> DEFINE k == Decoded(s)
    <3>2. slots' = [slots EXCEPT ![s].state = "GENERATING", ![s].n = k]
      BY <2>1
    <3> HIDE DEF k
    <3>3. /\ \A x \in SlotIds : x # s => slots'[x] = slots[x]
          /\ slots'[s] = [slots[s] EXCEPT !.state = "GENERATING", !.n = k]
      BY <3>1, <3>2
    <3>4. QED BY <3>1, <3>3 DEF SlotT
  <2>3. ASSUME NEW x \in SlotIds, slots'[x].state = "WAIT_OTHER"
        PROVE  \E p \in SlotIds : /\ slots'[p].state \in {"STARTED", "PROCESSING_PROMPT"}
                                  /\ slots'[x].task \in Children(slots'[p].task)
    <3>1. slots[x].state = "WAIT_OTHER" /\ slots'[x].task = slots[x].task
      BY <2>2, <2>3
    <3>2. PICK p \in SlotIds : /\ slots[p].state \in {"STARTED", "PROCESSING_PROMPT"}
                               /\ slots[x].task \in Children(slots[p].task)
      BY <1>1, <3>1, ParentIs DEF RoundsOk
    <3>3. slots'[p] = slots[p]
      BY <1>2, <2>2, <3>2
    <3>4. QED BY <3>1, <3>2, <3>3
  <2>4. ParentsOk'
    BY <1>1, <2>3, ParentsThen
  <2>5. \A x \in SlotIds : slots'[x].state = "DONE_PROMPT" => x \in batch /\ x >= s + 1
    <3>1. SlotIds \subseteq Nat
      BY BoundsAssumption DEF SlotIds
    <3>2. \A x \in SlotIds : slots'[x].state = "DONE_PROMPT" => x # s /\ slots[x].state = "DONE_PROMPT"
      BY <2>2
    <3>3. QED BY <1>2, <3>1, <3>2
  <2>6. DoneOk'
    BY <1>1, <2>1, <2>5 DEF DoneOk, InState
  <2>7. RoundOk'
    BY <1>1, <2>1 DEF RoundsOk, RoundOk, Failing
  <2>8. QED BY <2>4, <2>6, <2>7 DEF RoundsOk
<1>5. QED BY <1>3, <1>4

\* ... and is freed before the next.
LEMMA ReleaseRounds ==
    ASSUME RoundsOk, TypeOK, ReleaseSlot
    PROVE  RoundsOk'
<1>1. /\ mainPc = "release" /\ mainPc' = loop /\ at' = at + 1
      /\ slots' = [slots EXCEPT ![at] = IdleSlot]
      /\ UNCHANGED <<req, n_empty_consecutive, batch>>
  BY DEF ReleaseSlot, Release, readerVars
<1>2. CASE loop = "fail"
  <2>1. Failing' /\ CanFail /\ n_empty_consecutive' = 0
    BY <1>1, <1>2 DEF RoundsOk, RoundOk, Failing
  <2>2. QED BY <2>1, FailingRounds
<1>3. CASE loop = "sample" /\ slots[at].state \in {"DONE_PROMPT", "GENERATING"}
  <2>1. ~Failing /\ mainPc' = "sample"
    BY <1>1, <1>3 DEF Failing
  <2>2. /\ \A x \in SlotIds : x # at => slots'[x] = slots[x]
        /\ \A x \in SlotIds : x = at => slots'[x] = IdleSlot
    BY <1>1 DEF TypeOK
  <2>3. IdleSlot.state = "IDLE"
    BY DEF IdleSlot
  <2>4. ASSUME NEW x \in SlotIds, slots'[x].state = "WAIT_OTHER"
        PROVE  \E p \in SlotIds : /\ slots'[p].state \in {"STARTED", "PROCESSING_PROMPT"}
                                  /\ slots'[x].task \in Children(slots'[p].task)
    <3>1. slots'[x] = slots[x]
      BY <2>2, <2>3, <2>4
    <3>2. PICK p \in SlotIds : /\ slots[p].state \in {"STARTED", "PROCESSING_PROMPT"}
                               /\ slots[x].task \in Children(slots[p].task)
      BY <1>1, <2>1, <2>4, <3>1, ParentIs DEF RoundsOk
    <3>3. slots'[p] = slots[p]
      BY <1>3, <2>2, <3>2
    <3>4. QED BY <3>1, <3>2, <3>3
  <2>5. ParentsOk'
    BY <1>1, <2>4, ParentsThen
  <2>6. \A x \in SlotIds : slots'[x].state = "DONE_PROMPT" => x \in batch /\ x >= at + 1
    <3>1. SlotIds \subseteq Nat /\ at \in Nat
      BY BoundsAssumption DEF SlotIds, TypeOK
    <3>2. ASSUME NEW x \in SlotIds, slots'[x].state = "DONE_PROMPT"
          PROVE  x # at /\ slots[x].state = "DONE_PROMPT"
      BY <2>2, <2>3, <3>2
    <3>3. \A x \in SlotIds : slots[x].state = "DONE_PROMPT" => x \in batch /\ x >= at
      BY <1>1, <2>1 DEF RoundsOk, DoneOk, InState
    <3>4. QED BY <3>1, <3>2, <3>3
  <2>7. DoneOk'
    BY <1>1, <2>1, <2>6 DEF DoneOk, InState
  <2>8. RoundOk'
    BY <1>1, <2>1 DEF RoundsOk, RoundOk, Failing
  <2>9. QED BY <2>5, <2>7, <2>8 DEF RoundsOk
<1>4. QED BY <1>1, <1>2, <1>3 DEF RoundsOk, RoundOk

\* After the last slot nobody waits for a sample any more.
LEMMA EndUpdateRounds ==
    ASSUME RoundsOk, TypeOK, EndUpdate
    PROVE  RoundsOk'
<1>1. /\ mainPc' \in Outside /\ UNCHANGED <<slots, req, n_empty_consecutive>>
      /\ \/ mainPc = "sample" /\ SampleSlots = {}
         \/ mainPc = "fail" /\ IdleSlots = SlotIds
  BY DEF EndUpdate, readerVars, Outside
<1>2. n_empty_consecutive' = 0
  BY <1>1 DEF RoundsOk, RoundOk
<1>3. CASE mainPc = "fail" /\ IdleSlots = SlotIds
  <2>1. \A s \in SlotIds : slots'[s].state = "IDLE"
    BY <1>1, <1>3 DEF IdleSlots, IsIdle
  <2>2. QED BY <1>1, <1>2, <2>1, OutsideThen
<1>4. CASE mainPc = "sample" /\ SampleSlots = {}
  <2>1. ~Failing
    BY <1>4 DEF Failing
  <2>2. ASSUME NEW s \in SlotIds, slots[s].state = "DONE_PROMPT" PROVE FALSE
    <3>1. s \in batch /\ s >= at
      BY <1>4, <2>1, <2>2 DEF RoundsOk, DoneOk, InState
    <3>2. s \in SampleSlots
      BY <2>2, <3>1 DEF SampleSlots, InState
    <3>3. QED BY <1>4, <3>2
  <2>3. \A s \in SlotIds : slots[s].state = "WAIT_OTHER" =>
            \E p \in SlotIds : /\ slots[p].state \in {"STARTED", "PROCESSING_PROMPT"}
                               /\ slots[s].task \in Children(slots[p].task)
    BY <1>4, <2>1, ParentIs DEF RoundsOk
  <2>4. QED BY <1>1, <1>2, <2>2, <2>3, OutsideThen
<1>5. QED BY <1>1, <1>3, <1>4

\* A client that has everything has nothing on a slot; one that leaves before
\* has left none: a CANCEL finds no slot.
LEMMA CancelFindsNone ==
    ASSUME IInv, \A r \in Requests : FailedOk(r), mainPc = "process", current.type = "CANCEL",
           NEW s \in SlotIds
    PROVE  slots[s].task # current.id
<1> DEFINE t == current.id
           r == t[1]
<1>1. /\ TypeOK /\ QueuesOk /\ ResultsOk(r) /\ FailedOk(r) /\ Accounted /\ ~Failing
      /\ t \in Tasks /\ rpc[r] = "done" /\ t = <<r, t[2]>>
      /\ r \in Requests /\ t[2] \in DOMAIN req[r] /\ t \in Ids(r) /\ req[r] \in Shapes
      /\ received_count[r] \in Nat
  <2>1. TypeOK /\ QueuesOk
    BY DEF IInv
  <2>2. t \in Tasks /\ rpc[r] = "done"
    BY <2>1, CurrentIs
  <2>3. t = <<r, t[2]>> /\ r \in Requests /\ t[2] \in DOMAIN req[r] /\ t \in Ids(r) /\ req[r] \in Shapes
    BY <2>1, <2>2, TaskIs
  <2>4. ResultsOk(r) /\ FailedOk(r) /\ received_count[r] \in Nat
    BY <2>1, <2>3, BoundsAssumption DEF IInv, TypeOK
  <2>5. Accounted /\ ~Failing
    BY DEF IInv, Accounted, ReleaseOk, Control, Failing
  <2>6. QED BY <2>1, <2>2, <2>3, <2>4, <2>5
<1> HIDE DEF t, r
<1>2. SUFFICES ASSUME slots[s].task = t PROVE FALSE
  BY DEF t
<1>3. CASE HasNext(r)
  BY <1>1, <1>2, <1>3 DEF FailedOk
<1>4. CASE ~HasNext(r)
  <2>1. DOMAIN req[r] = 1 .. Len(req[r]) /\ Len(req[r]) \in Nat
    <3>1. DOMAIN req[r] = 1 .. Len(req[r]) /\ Len(req[r]) \in 1 .. MaxTasks
      BY <1>1, ShapeIs
    <3>2. QED BY <3>1, BoundsAssumption
  <2>2. /\ seen[r] \subseteq DOMAIN req[r] /\ received_count[r] = Cardinality(seen[r])
        /\ \A i \in seen[r] : sent[<<r, i>>] # <<>>
    BY <1>1 DEF ResultsOk
  <2>3. IsFiniteSet(1 .. Len(req[r])) /\ Cardinality(1 .. Len(req[r])) = Len(req[r])
    BY <2>1, FS_Interval
  <2>4. Cardinality(seen[r]) <= Len(req[r])
    BY <2>1, <2>2, <2>3, FS_Subset
  <2>5. Cardinality(seen[r]) = Len(req[r])
    BY <1>1, <1>4, <2>1, <2>2, <2>4 DEF HasNext
  <2>6. seen[r] = DOMAIN req[r]
    BY <2>1, <2>2, <2>3, <2>5, FS_Subset
  <2>7. sent[t] # <<>>
    <3>1. sent[<<r, t[2]>>] # <<>>
      BY <1>1, <2>2, <2>6
    <3>2. QED BY <1>1, <3>1
  <2>8. HasSlot(t) /\ mainPc # "release"
    BY <1>2 DEF HasSlot
  <2>9. QED BY <1>1, <2>7, <2>8, HeldIsOpen
<1>5. QED BY <1>3, <1>4

LEMMA MainKeepsRounds ==
    ASSUME Ordinary, IInv, StrandInv, MainStep
    PROVE  RoundsOk'
<1>1. /\ TypeOK /\ Control /\ QueuesOk /\ RoundsOk /\ SlotTasksOk /\ \A r \in Requests : FailedOk(r)
  BY DEF IInv, StrandInv, RoundsOk
<1>2. CASE PopTask \/ WaitForTasks \/ Refuse \/ DeferTask \/ SlotAction \/ Metrics \/ IgnoreNextResponse
  <2>1. mainPc \in Outside /\ mainPc' \in Outside /\ UNCHANGED <<slots, req, n_empty_consecutive>>
    BY <1>2 DEF PopTask, WaitForTasks, Refuse, DeferTask, SlotAction, Metrics, IgnoreNextResponse,
                Process, Outside, loopVars, readerVars
  <2>2. QED BY <1>1, <2>1, OutsideStays
<1>3. CASE CancelTask
  <2>1. /\ mainPc = "process" /\ current.type = "CANCEL" /\ mainPc' = "drain"
        /\ UNCHANGED <<req, n_empty_consecutive>>
    BY <1>3 DEF CancelTask, Process, loopVars, readerVars
  <2>2. {s \in SlotIds : slots[s].task = current.id} = {}
    BY <1>1, <2>1, CancelFindsNone
  <2>3. UNCHANGED slots
    BY <1>3, <2>2 DEF CancelTask
  <2>4. QED BY <1>1, <2>1, <2>3, OutsideStays DEF Outside
<1>4. CASE Launch
  <2>1. n_empty_consecutive' = 0
    BY <1>4 DEF Launch
  <2>2. QED BY <1>1, <1>4, <2>1, LaunchPlaces, PlacedRounds
<1>5. CASE BeginUpdate
  BY <1>1, <1>5, BeginRounds
<1>6. CASE EndPrompts
  BY <1>1, <1>6, EndPromptsRounds
<1>7. CASE DecodeNothing
  BY <1>1, <1>7 DEF DecodeNothing, RoundsOk, RoundOk
<1>8. CASE Decode
  BY <1>1, <1>8, DecodeRounds
<1>9. CASE DecodeFails
  BY <1>9, FailingRounds DEF DecodeFails, Failing
<1>10. CASE ReleaseSlot
  BY <1>1, <1>10, ReleaseRounds
<1>11. CASE EndUpdate
  BY <1>1, <1>11, EndUpdateRounds
<1>12. ASSUME NEW s \in SlotIds, SlotStep(s) PROVE RoundsOk'
  <2>1. ~EmptyPrompt(s) /\ ~RefusePrompt(s)
    <3>1. OnPromptSlot(s) => TaskOf(s).tokens # 0 /\ ~TooLong(s)
      BY <1>1, SlotFound, PromptFits
    <3>2. QED BY <3>1 DEF EmptyPrompt, RefusePrompt
  <2>2. CASE SkipPrompt(s) \/ AddPrompt(s)
    BY <1>1, <2>2, PromptRounds
  <2>3. CASE SampleFinal(s) \/ SamplePartial(s)
    BY <1>1, <2>3, SampleRounds
  <2>4. CASE FailSlot(s)
    <3>1. Failing /\ Failing' /\ UNCHANGED n_empty_consecutive
      BY <2>4 DEF FailSlot, SendAndRelease, Failing
    <3>2. CanFail /\ n_empty_consecutive = 0
      BY <1>1, <3>1 DEF RoundsOk, RoundOk
    <3>3. QED BY <3>1, <3>2, FailingRounds
  <2>5. QED BY <1>12, <2>1, <2>2, <2>3, <2>4 DEF SlotStep
<1>13. QED
  BY <1>2, <1>3, <1>4, <1>5, <1>6, <1>7, <1>8, <1>9, <1>10, <1>11, <1>12 DEF MainStep

-----------------------------------------------------------------------------
(* What is deferred.                                                       *)

LEMMA NeedsSame == ASSUME UNCHANGED req PROVE \A t : NeedsSlot(t)' = NeedsSlot(t)
BY SameRequests DEF NeedsSlot

LEMMA SlotTasksThen ==
    ASSUME UNCHANGED req,
           \A s \in SlotIds : slots'[s].state # "IDLE" => NeedsSlot(slots'[s].task)
    PROVE  SlotTasksOk'
<1>1. \A t : NeedsSlot(t)' = NeedsSlot(t)
  BY NeedsSame
<1>2. \A s \in SlotIds : NeedsSlot(slots[s].task)' = NeedsSlot(slots'[s].task)
  BY <1>1
<1>3. QED BY <1>2 DEF SlotTasksOk, IsIdle

LEMMA DefersThen ==
    ASSUME UNCHANGED req,
           \A i \in DOMAIN queue_tasks_deferred' : NeedsSlot(queue_tasks_deferred'[i].id)
    PROVE  DefersOk'
<1>1. \A t : NeedsSlot(t)' = NeedsSlot(t)
  BY NeedsSame
<1>2. \A i : NeedsSlot(queue_tasks_deferred[i].id)' = NeedsSlot(queue_tasks_deferred'[i].id)
  BY <1>1
<1>3. QED BY <1>2 DEF DefersOk

\* Only a task that finds no slot is deferred, and then some slot works.
LEMMA DeferredBeside ==
    ASSUME TypeOK, NEW t \in Tasks, ~IsChild(t), Available(t) = {} \/ ~EnoughForChildren(t)
    PROVE  Busy
<1>1. SUFFICES ASSUME ~Busy PROVE FALSE
  OBVIOUS
<1>2. IdleSlots = SlotIds
  BY <1>1 DEF Busy, IdleSlots
<1>3. NSlots \in Nat \ {0} /\ Info(t).id_slot \in Int
  BY BoundsAssumption, TaskIs DEF TaskInfo
<1>4. Available(t) # {}
  <2>1. 0 \in SlotIds /\ Info(t).id_slot % NSlots \in SlotIds
    BY <1>3 DEF SlotIds
  <2>2. QED BY <1>2, <2>1 DEF Available
<1>5. EnoughForChildren(t)
  <2>1. PICK n \in 0 .. NSlots - 1 : Cardinality(Children(t)) = n
    BY ChildrenAre
  <2>2. Cardinality(SlotIds) = NSlots
    BY <1>3, FS_Interval DEF SlotIds
  <2>3. QED BY <1>2, <1>3, <2>1, <2>2 DEF EnoughForChildren
<1>6. QED BY <1>4, <1>5

LEMMA DeferralsAre ==
    ASSUME Ordinary, IInv, StrandInv, MainStep
    PROVE  \/ UNCHANGED queue_tasks_deferred
           \/ mainPc = "release" /\ PopDeferredTask(at)
           \/ \E t \in Tasks : Defer(t) /\ NeedsSlot(t) /\ Busy
<1>1. TypeOK /\ QueuesOk /\ \A r \in Requests : FailedOk(r)
  BY DEF IInv, StrandInv
<1>2. CASE DeferTask
  <2>1. PICK t \in Tasks : t = current.id /\ ~IsChild(t)
    BY <1>1, <1>2, CurrentIs DEF DeferTask, Process
  <2>2. Defer(t) /\ NeedsSlot(t) /\ (Available(t) = {} \/ ~EnoughForChildren(t))
    BY <1>2, <2>1 DEF DeferTask
  <2>3. QED BY <1>1, <2>1, <2>2, DeferredBeside
<1>3. CASE SlotAction
  <2>1. current.id \in Tasks
    BY <1>1, <1>3, CurrentIs DEF SlotAction, Process
  <2>2. Info(current.id).kind # "SLOT_ACTION"
    BY <1>1, <2>1, OrdinaryTask
  <2>3. QED BY <1>3, <2>2 DEF SlotAction
<1>4. CASE CancelTask
  <2>1. mainPc = "process" /\ current.type = "CANCEL"
    BY <1>4 DEF CancelTask, Process
  <2>2. {s \in SlotIds : slots[s].task = current.id} = {}
    BY <1>1, <2>1, CancelFindsNone
  <2>3. UNCHANGED queueVars
    BY <1>4, <2>2 DEF CancelTask
  <2>4. QED BY <2>3 DEF queueVars
<1>5. CASE ReleaseSlot
  BY <1>5 DEF ReleaseSlot, Release
<1>6. CASE \/ PopTask \/ WaitForTasks \/ Launch \/ Refuse \/ Metrics \/ IgnoreNextResponse
           \/ BeginUpdate \/ EndPrompts \/ DecodeNothing \/ Decode \/ DecodeFails \/ EndUpdate
  BY <1>6 DEF PopTask, WaitForTasks, Launch, Refuse, Metrics, IgnoreNextResponse, BeginUpdate,
              EndPrompts, DecodeNothing, Decode, DecodeFails, EndUpdate, queueVars
<1>7. CASE \E s \in SlotIds : SlotStep(s)
  <2>1. PICK s \in SlotIds : SlotStep(s)
    BY <1>7
  <2>2. UNCHANGED queueVars
    BY <2>1 DEF SlotStep, EmptyPrompt, RefusePrompt, SkipPrompt, AddPrompt, SampleFinal,
                SamplePartial, FailSlot
  <2>3. QED BY <2>2 DEF queueVars
<1>8. QED BY <1>2, <1>3, <1>4, <1>5, <1>6, <1>7 DEF MainStep

\* What a step that touches no deferred task has to keep.
LEMMA DeferredStays ==
    ASSUME DefersOk, DeferredOk, UNCHANGED <<req, queue_tasks_deferred>>, Busy => Busy',
           \A t : NeedsSlot(t) => Queued(t)' = Queued(t)
    PROVE  DefersOk' /\ DeferredOk'
<1>1. Tasks' = Tasks /\ \A t : NeedsSlot(t)' = NeedsSlot(t)
  BY SameRequests, NeedsSame
<1>2. DefersOk'
  BY DefersThen DEF DefersOk
<1>3. ASSUME NEW t, Incoming(t) PROVE Incoming(t)'
  <2>1. /\ Queued(t)' = Queued(t)
        /\ Count(queue_tasks_deferred, Item("TASK", t))'
               = Count(queue_tasks_deferred, Item("TASK", t))
    BY <1>3 DEF Incoming, Count, At
  <2>2. QED BY <1>1, <1>3, <2>1 DEF Incoming
<1>4. QED BY <1>2, <1>3 DEF DeferredOk

\* A deferred task that a release brings back is on its way to a slot.
LEMMA DeferredComesBack ==
    ASSUME TypeOK, QueuesOk, DefersOk, UNCHANGED req, QueuesKept, NEW s, PopDeferredTask(s)
    PROVE  DefersOk' /\ DeferredOk'
<1>1. CASE queue_tasks_deferred = <<>>
  <2>1. queue_tasks_deferred' = <<>>
    BY <1>1 DEF PopDeferredTask, queueVars
  <2>2. QED BY <2>1, DefersThen DEF DeferredOk
<1>2. CASE queue_tasks_deferred # <<>>
  <2> DEFINE q == queue_tasks_deferred
             k == DeferredIndex(s)
  <2>1. q \in Seq(TaskItems) /\ k \in 1 .. Len(q) /\ q' = RemoveAt(q, k) /\ DOMAIN q = 1 .. Len(q)
    BY <1>2, DeferredIndexIs, LenProperties DEF QueuesOk, PopDeferredTask
  <2>2. q' \in Seq(TaskItems) /\ \A e : Count(q, e) = Count(q', e) + (IF q[k] = e THEN 1 ELSE 0)
    BY <2>1, CountRemoveAt
  <2>3. \A e : Count(q, e) \in Nat /\ Count(q', e) \in Nat
    BY <2>1, <2>2, CountIsNat
  <2>4. q[k] \in TaskItems
    BY <2>1, ElementOfSeq
  <2>5. PICK t \in Tasks : q[k] = Item("TASK", t)
    BY <2>4 DEF TaskItems
  <2>6. NeedsSlot(t)
    BY <2>1, <2>5, ItemIs DEF DefersOk
  <2>7. Queued(t)' > Count(q', Item("TASK", t))
    <3>1. Count(q', Item("TASK", t)) + 1 = Count(q, Item("TASK", t))
      BY <2>2, <2>3, <2>5
    <3>2. Queued(t)' = Queued(t)
      BY DEF QueuesKept
    <3>3. Queued(t) = InQueues(queue_tasks, q, current, t)
      BY QueuedIs
    <3>4. Count(queue_tasks, Item("TASK", t)) \in Nat
      BY CountIsNat DEF QueuesOk
    <3> DEFINE c == Count(q, Item("TASK", t))
               d == Count(q', Item("TASK", t))
               a == Count(queue_tasks, Item("TASK", t))
    <3>5. Queued(t) = a + c + (IF current = Item("TASK", t) THEN 1 ELSE 0)
      BY <3>3 DEF InQueues
    <3>6. a \in Nat /\ c \in Nat /\ d \in Nat
      BY <2>3, <3>4
    <3> HIDE DEF a, c, d
    <3>7. Queued(t)' > d
      BY <3>1, <3>2, <3>5, <3>6 DEF c, d
    <3>8. QED BY <3>7 DEF d
  <2>8. Tasks' = Tasks /\ NeedsSlot(t)'
    BY <2>6, SameRequests, NeedsSame
  <2>9. Incoming(t)'
    <3>1. Count(queue_tasks_deferred, Item("TASK", t))' = Count(q', Item("TASK", t))
      BY DEF Count, At, Item
    <3>2. QED BY <2>5, <2>7, <2>8, <3>1 DEF Incoming
  <2>10. DeferredOk'
    BY <2>9 DEF DeferredOk
  <2>11. ASSUME NEW i \in DOMAIN q' PROVE NeedsSlot(q'[i].id)
    <3>1. Count(q', q'[i]) # 0
      BY <2>2, CountIsZero
    <3>2. Count(q, q'[i]) # 0
      <4>1. \A e : Count(q', e) # 0 => Count(q, e) # 0
        BY <2>2, <2>3
      <4>2. QED BY <3>1, <4>1
    <3>3. PICK j \in DOMAIN q : q[j] = q'[i]
      BY <2>1, <3>2, CountIsZero
    <3>4. QED BY <3>3 DEF DefersOk
  <2>12. DefersOk'
    BY <2>11, DefersThen
  <2>13. QED BY <2>10, <2>12
<1>3. QED BY <1>1, <1>2

LEMMA MainKeepsDeferred ==
    ASSUME Ordinary, IInv, StrandInv, MainStep
    PROVE  SlotTasksOk' /\ DefersOk' /\ DeferredOk'
<1>1. /\ TypeOK /\ Control /\ QueuesOk /\ SlotsTyped /\ SlotTasksOk /\ DefersOk /\ DeferredOk
  BY SlotsAre DEF IInv, StrandInv
<1>2. UNCHANGED req
  BY <1>1, MainStepIs DEF Quiet, Answered, Freed, Finished, Placed, Still
<1>3. ASSUME mainPc # "release", Busy => Busy', \A t : NeedsSlot(t) => Queued(t)' = Queued(t)
      PROVE  DefersOk' /\ DeferredOk'
  <2>1. CASE UNCHANGED queue_tasks_deferred
    BY <1>1, <1>2, <1>3, <2>1, DeferredStays
  <2>2. ASSUME NEW t \in Tasks, Defer(t), NeedsSlot(t), Busy PROVE DefersOk' /\ DeferredOk'
    <3>1. DeferredOk'
      BY <1>3, <2>2 DEF DeferredOk
    <3> DEFINE q == queue_tasks_deferred
    <3>2. q \in Seq(TaskItems) /\ q' = Append(q, Item("TASK", t))
      BY <1>1, <2>2 DEF QueuesOk, Defer
    <3>3. \A i \in DOMAIN q' : q'[i] = Item("TASK", t) \/ (i \in DOMAIN q /\ q'[i] = q[i])
      BY <3>2
    <3>4. \A i \in DOMAIN q' : NeedsSlot(q'[i].id)
      BY <1>1, <2>2, <3>3, ItemIs DEF DefersOk
    <3>5. QED BY <1>2, <3>1, <3>4, DefersThen
  <2>3. QED BY <1>3, <2>1, <2>2, DeferralsAre
<1>4. ASSUME SlotsTyped', \A s \in SlotIds : slots'[s].task = slots[s].task
      PROVE  SlotTasksOk' /\ (Busy => Busy')
  <2>1. \A s \in SlotIds : IsIdle(s)' <=> IsIdle(s)
    BY <1>1, <1>4 DEF SlotsTyped
  <2>2. \A s \in SlotIds : slots'[s].state # "IDLE" => NeedsSlot(slots'[s].task)
    BY <1>1, <1>4, <2>1 DEF SlotTasksOk, IsIdle
  <2>3. QED BY <1>2, <2>1, <2>2, SlotTasksThen DEF Busy
<1>5. CASE Quiet
  BY <1>3, <1>4, <1>5 DEF Quiet, QueuesKept, SlotsMoved
<1>6. ASSUME UNCHANGED slots PROVE SlotTasksOk' /\ (Busy => Busy')
  BY <1>1, <1>2, <1>6, SlotTasksThen DEF SlotTasksOk, IsIdle, Busy
<1>7. CASE \E s \in SlotIds, type \in {"final", "error"} : Answered(s, type)
  BY <1>3, <1>6, <1>7 DEF Answered, QueuesKept
<1>8. ASSUME NEW s \in SlotIds, Freed(s) PROVE SlotTasksOk' /\ DefersOk' /\ DeferredOk'
  <2>1. /\ slots' = [slots EXCEPT ![s] = IdleSlot] /\ PopDeferredTask(s) /\ QueuesKept
    BY <1>8 DEF Freed
  <2>2. \A x \in SlotIds : slots'[x].state # "IDLE" => slots'[x] = slots[x] /\ ~IsIdle(x)
    BY <1>1, <2>1 DEF SlotsTyped, IdleSlot, IsIdle
  <2>3. SlotTasksOk'
    BY <1>1, <1>2, <2>2, SlotTasksThen DEF SlotTasksOk
  <2>4. QED BY <1>1, <1>2, <2>1, <2>3, DeferredComesBack
<1>9. ASSUME NEW t, NEW u, NEW type, Finished(t, u, type)
      PROVE  SlotTasksOk' /\ DefersOk' /\ DeferredOk'
  <2>1. UNCHANGED slots /\ t \in Tasks /\ mainPc # "release" /\ Dropped(t)
    BY <1>9 DEF Finished
  <2>2. ~NeedsSlot(t)
    <3>1. Info(t).launches
      BY <1>1, <2>1, OrdinaryTask
    <3>2. QED BY <1>9, <3>1 DEF Finished
  <2>3. ASSUME NEW u1, NeedsSlot(u1) PROVE Queued(u1)' = Queued(u1)
    <3>1. u1 # t
      BY <2>2, <2>3
    <3>2. Queued(u1) = Queued(u1)' + 0
      BY <2>1, <3>1 DEF Dropped
    <3>3. Queued(u1)' \in Nat
      <4>1. queue_tasks' \in Seq(Items) /\ queue_tasks_deferred' \in Seq(TaskItems)
        BY <2>1 DEF Dropped
      <4>2. InQueues(queue_tasks', queue_tasks_deferred', current', u1) \in Nat
        BY <4>1, InQueuesIsNat
      <4>3. QED BY <4>2, QueuedIs
    <3>4. QED BY <3>2, <3>3
  <2>4. QED BY <1>3, <1>6, <2>1, <2>3
<1>10. ASSUME NEW t, NEW s, NEW f, Placed(t, s, f)
       PROVE  SlotTasksOk' /\ DefersOk' /\ DeferredOk'
  <2>1. /\ t \in Tasks /\ ~IsChild(t) /\ NeedsSlot(t) /\ s \in SlotIds /\ mainPc = "process"
        /\ f \in [Children(t) -> IdleSlots \ {s}]
        /\ slots'[s].task = t /\ slots'[s].state = "STARTED"
        /\ \A c \in Children(t) : slots'[f[c]].task = c
        /\ \A x \in SlotIds : x # s /\ (\A c \in Children(t) : f[c] # x) => slots'[x] = slots[x]
    BY <1>10 DEF Placed, IdleSlots
  <2>2. Busy'
    BY <2>1 DEF Busy, IsIdle
  <2>3. \A c \in Children(t) : NeedsSlot(c)
    <3>1. ASSUME NEW c \in Children(t) PROVE Info(c).kind = "COMPLETION"
      <4>1. c \in Tasks /\ IsChild(c)
        BY <1>1, <2>1, ChildrenAre
      <4>2. PICK q \in Shapes : q = req[c[1]] /\ c[2] \in DOMAIN q
        BY <1>1, <4>1, TaskIs
      <4>3. q[c[2]].parent # 0
        BY <4>1, <4>2 DEF IsChild, Info
      <4>4. q[c[2]].kind = "COMPLETION"
        BY <4>2, <4>3, ShapeIs
      <4>5. QED BY <4>2, <4>4 DEF Info
    <3>2. QED BY <3>1 DEF NeedsSlot
  <2>4. ASSUME NEW x \in SlotIds, slots'[x].state # "IDLE" PROVE NeedsSlot(slots'[x].task)
    <3>1. CASE x = s
      BY <2>1, <3>1
    <3>2. CASE \E c \in Children(t) : f[c] = x
      BY <2>1, <2>3, <3>2
    <3>3. CASE x # s /\ \A c \in Children(t) : f[c] # x
      BY <1>1, <2>1, <2>4, <3>3 DEF SlotTasksOk, IsIdle
    <3>4. QED BY <3>1, <3>2, <3>3
  <2>5. SlotTasksOk'
    BY <1>2, <2>4, SlotTasksThen
  <2>6. UNCHANGED queue_tasks_deferred \/ \E u \in Tasks : Defer(u) /\ NeedsSlot(u)
    BY <2>1, DeferralsAre
  <2>7. DeferredOk'
    BY <2>2 DEF DeferredOk
  <2>8. DefersOk'
    <3>1. CASE UNCHANGED queue_tasks_deferred
      BY <1>1, <1>2, <3>1, DefersThen DEF DefersOk
    <3>2. ASSUME NEW u \in Tasks, Defer(u), NeedsSlot(u) PROVE DefersOk'
      <4> DEFINE q == queue_tasks_deferred
      <4>1. q \in Seq(TaskItems) /\ q' = Append(q, Item("TASK", u))
        BY <1>1, <3>2 DEF QueuesOk, Defer
      <4>2. \A i \in DOMAIN q' : q'[i] = Item("TASK", u) \/ (i \in DOMAIN q /\ q'[i] = q[i])
        BY <4>1
      <4>3. \A i \in DOMAIN q' : NeedsSlot(q'[i].id)
        BY <1>1, <3>2, <4>2, ItemIs DEF DefersOk
      <4>4. QED BY <1>2, <4>3, DefersThen
    <3>3. QED BY <2>6, <3>1, <3>2
  <2>9. QED BY <2>5, <2>7, <2>8
<1>11. QED BY <1>1, <1>5, <1>7, <1>8, <1>9, <1>10, MainStepIs

\* The loop finds work after a round.
LEMMA MainKeepsGoing ==
    ASSUME TypeOK, QueuesOk, RoundGoesOn, MainStep
    PROVE  RoundGoesOn'
<1> DEFINE Round == {"prompt", "decode", "sample", "fail", "release"}
<1>1. CASE \/ PopTask \/ WaitForTasks \/ Launch \/ Refuse \/ DeferTask \/ SlotAction \/ Metrics
           \/ CancelTask \/ IgnoreNextResponse
  <2>1. mainPc' \in {"process", "update", "drain"}
    BY <1>1 DEF PopTask, WaitForTasks, Launch, Refuse, DeferTask, SlotAction, Metrics, CancelTask,
                IgnoreNextResponse, Process
  <2>2. QED BY <2>1 DEF RoundGoesOn
<1>2. CASE BeginUpdate
  <2>1. CASE IdleSlots = SlotIds
    <3>1. mainPc' = "wait" /\ UNCHANGED slots
      BY <1>2, <2>1 DEF BeginUpdate
    <3>2. ~Busy'
      BY <2>1, <3>1 DEF Busy, IdleSlots, IsIdle
    <3>3. QED BY <3>1, <3>2 DEF RoundGoesOn
  <2>2. CASE IdleSlots # SlotIds
    <3>1. queue_tasks' = Append(queue_tasks, NextResponse) /\ queue_tasks \in Seq(Items)
      BY <1>2, <2>2 DEF BeginUpdate, QueuesOk
    <3>2. Append(queue_tasks, NextResponse) # <<>>
      <4>1. NextResponse \in Items
        BY DEF Items
      <4>2. QED BY <3>1, <4>1, AppendProperties
    <3>3. QED BY <3>1, <3>2 DEF RoundGoesOn
  <2>3. QED BY <2>1, <2>2
<1>3. ASSUME mainPc \in Round, UNCHANGED queue_tasks PROVE RoundGoesOn'
  BY <1>3 DEF RoundGoesOn
<1>4. CASE EndPrompts \/ DecodeNothing \/ Decode \/ DecodeFails \/ EndUpdate
  <2>1. mainPc \in Round /\ UNCHANGED queueVars
    BY <1>4 DEF EndPrompts, DecodeNothing, Decode, DecodeFails, EndUpdate
  <2>2. QED BY <1>3, <2>1 DEF queueVars
<1>5. CASE \E s \in SlotIds : SlotStep(s)
  <2>1. PICK s \in SlotIds : SlotStep(s)
    BY <1>5
  <2>2. mainPc \in Round /\ UNCHANGED queueVars
    BY <2>1 DEF SlotStep, EmptyPrompt, RefusePrompt, SkipPrompt, AddPrompt, SampleFinal,
                SamplePartial, FailSlot, OnPromptSlot, OnSampleSlot
  <2>3. QED BY <1>3, <2>2 DEF queueVars
<1>6. CASE ReleaseSlot
  <2>1. mainPc = "release" /\ PopDeferredTask(at) /\ queue_tasks # <<>>
    BY <1>6 DEF ReleaseSlot, Release, RoundGoesOn
  <2>2. CASE queue_tasks_deferred = <<>>
    BY <1>3, <2>1, <2>2 DEF PopDeferredTask, queueVars
  <2>3. CASE queue_tasks_deferred # <<>>
    <3>1. PICK x : queue_tasks' = <<x>> \o queue_tasks /\ queue_tasks \in Seq(Items)
      BY <2>1, <2>3 DEF PopDeferredTask, QueuesOk
    <3>2. Len(<<x>> \o queue_tasks) = 1 + Len(queue_tasks) /\ Len(queue_tasks) \in Nat
      BY <3>1
    <3>3. queue_tasks' # <<>>
      BY <3>1, <3>2
    <3>4. QED BY <3>3 DEF RoundGoesOn
  <2>4. QED BY <2>2, <2>3
<1>7. QED BY <1>1, <1>2, <1>4, <1>5, <1>6 DEF MainStep

-----------------------------------------------------------------------------
(* Requests that have failed.                                              *)

\* Of a request with an error nothing is queued any more: a failed decode was
\* that of its only parent.
LEMMA QueuedNotFailed ==
    ASSUME Ordinary, IInv, NEW t \in Tasks, ~IsChild(t), Queued(t) > 0, FailedOk(t[1])
    PROVE  ~Failed(t[1])
<1>1. SUFFICES ASSUME Failed(t[1]) PROVE FALSE
  OBVIOUS
<1>2. TypeOK /\ QueuesOk /\ Accounted /\ PlacesOk
  BY DEF IInv, Accounted, ReleaseOk, Control
<1>3. PICK u \in Ids(t[1]) : Len(sent[u]) > 0 /\ sent[u][1] = "error"
  BY <1>1 DEF Failed
<1>4. u \in Tasks /\ u[1] = t[1] /\ sent[u] # <<>>
  <2>1. t[1] \in Requests
    BY <1>2, TaskIs
  <2>2. u \in Tasks /\ u[1] = t[1]
    BY <1>2, <2>1, TaskOf_ DEF Ids
  <2>3. QED BY <1>3, <2>2, EmptySeq
<1>5. Top(u) = t
  <2>1. Top(u) \in Tasks /\ ~IsChild(Top(u)) /\ Top(u)[1] = t[1]
    BY <1>2, <1>4, TopIs
  <2>2. CanFail
    BY <1>1 DEF FailedOk
  <2>3. Top(u)[2] = 1 /\ t[2] = 1
    BY <1>2, <2>1, <2>2, OrdinaryTask
  <2>4. t = <<t[1], t[2]>> /\ Top(u) = <<Top(u)[1], Top(u)[2]>>
    BY <1>2, <2>1, TaskIs
  <2>5. QED BY <2>1, <2>3, <2>4
<1>6. Queued(Top(u)) > 0 /\ Held(u) # 0
  <2>1. Queued(t) \in Nat /\ Held(u) = Queued(t) + (IF HasSlot(u) THEN 1 ELSE 0)
    BY <1>2, <1>5, QueuedIsNat DEF Held
  <2>2. QED BY <1>5, <2>1
<1>7. mainPc = "release" /\ slots[at].task = u
  BY <1>2, <1>4, <1>6 DEF PlacesOk
<1>8. HasSlot(u)
  BY <1>7 DEF HasSlot, IInv, Control
<1>9. Queued(Top(u)) = 0
  BY <1>2, <1>4, <1>8, HeldIsOpen
<1>10. QED BY <1>6, <1>9

\* A failed decode is over when all slots are idle.
LEMMA FailingEnds ==
    ASSUME TypeOK, Control, MainStep, Failing
    PROVE  Failing' \/ \A s \in SlotIds : slots'[s].task = NoTask
<1>1. CASE mainPc = "fail"
  <2>1. EndUpdate \/ \E s \in SlotIds : FailSlot(s)
    BY <1>1 DEF MainStep, PopTask, WaitForTasks, Launch, Refuse, DeferTask, SlotAction, Metrics,
                CancelTask, IgnoreNextResponse, Process, BeginUpdate, EndPrompts, DecodeNothing,
                Decode, DecodeFails, ReleaseSlot, SlotStep, EmptyPrompt, RefusePrompt, SkipPrompt,
                AddPrompt, SampleFinal, SamplePartial, OnPromptSlot, OnSampleSlot
  <2>2. CASE EndUpdate
    <3>1. IdleSlots = SlotIds /\ UNCHANGED slots
      BY <1>1, <2>2 DEF EndUpdate
    <3>2. QED BY <3>1, SlotsAre DEF SlotsTyped, IdleSlots
  <2>3. CASE \E s \in SlotIds : FailSlot(s)
    BY <2>3 DEF FailSlot, SendAndRelease, Failing
  <2>4. QED BY <2>1, <2>2, <2>3
<1>2. CASE mainPc = "release" /\ loop = "fail"
  <2>1. ReleaseSlot
    BY <1>2 DEF MainStep, PopTask, WaitForTasks, Launch, Refuse, DeferTask, SlotAction, Metrics,
                CancelTask, IgnoreNextResponse, Process, BeginUpdate, EndPrompts, DecodeNothing,
                Decode, DecodeFails, EndUpdate, SlotStep, EmptyPrompt, RefusePrompt, SkipPrompt,
                AddPrompt, SampleFinal, SamplePartial, FailSlot, OnPromptSlot, OnSampleSlot
  <2>2. QED BY <1>2, <2>1 DEF ReleaseSlot, Failing
<1>3. QED BY <1>1, <1>2 DEF Failing

\* Only an error makes a request fail.
LEMMA FailedSame ==
    ASSUME TypeOK, UNCHANGED req, NEW r \in Requests,
           \A t \in TaskIds : sent'[t] = sent[t] \/ (sent[t] = <<>> /\ sent'[t] = <<"final">>)
    PROVE  Failed(r)' <=> Failed(r)
<1>1. Ids(r)' = Ids(r) /\ Ids(r) \subseteq TaskIds
  BY SameRequests, TaskOf_ DEF Ids
<1>2. ASSUME NEW t \in TaskIds
      PROVE  Len(sent[t]) > 0 /\ sent[t][1] = "error" <=> Len(sent'[t]) > 0 /\ sent'[t][1] = "error"
  <2>1. CASE sent'[t] = sent[t]
    BY <2>1
  <2>2. CASE sent[t] = <<>> /\ sent'[t] = <<"final">>
    <3>1. ~(Len(sent[t]) > 0) /\ sent'[t][1] # "error"
      BY <2>2
    <3>2. QED BY <3>1
  <2>3. QED BY <1>2, <2>1, <2>2
<1>3. QED BY <1>1, <1>2 DEF Failed

\* What is left to show for a step of the main thread: who fails, and what is
\* queued for whom.
LEMMA FailedThen ==
    ASSUME TypeOK, Control, MainStep, RoundOk, NEW r \in Requests, FailedOk(r), Still,
           Failed(r) => Failed(r)',
           Failed(r)' => Failed(r) \/ Failing,
           \A k \in DOMAIN results'[r] : results'[r][k].type = "error" => Failed(r)',
           Failed(r) => \A s \in SlotIds : slots'[s].task \in {slots[s].task, NoTask}
                                              \/ slots'[s].task \notin Ids(r)
    PROVE  FailedOk(r)'
<1>1. Ids(r)' = Ids(r) /\ rpc'[r] = rpc[r] /\ (HasNext(r)' <=> HasNext(r))
  BY SameRequests DEF Still, HasNext
<1>2. Failed(r)' => CanFail
  BY DEF FailedOk, RoundOk
<1>3. ASSUME Failed(r)', ~Failing', NEW s \in SlotIds PROVE slots'[s].task \notin Ids(r)
  <2>1. NoTask \notin Ids(r)
    <3>1. \A i \in DOMAIN req[r] : <<r, i>> \in Tasks
      BY TaskOf_
    <3>2. NoTask \notin Tasks
      BY TaskIs
    <3>3. QED BY <3>1, <3>2 DEF Ids
  <2>2. CASE Failing
    <3>1. slots'[s].task = NoTask
      BY <1>3, <2>2, FailingEnds
    <3>2. QED BY <2>1, <3>1
  <2>3. CASE ~Failing
    <3>1. Failed(r)
      BY <1>3, <2>3
    <3>2. slots[s].task \notin Ids(r)
      BY <2>3, <3>1 DEF FailedOk
    <3>3. QED BY <2>1, <3>1, <3>2
  <2>4. QED BY <2>2, <2>3
<1>4. QED BY <1>1, <1>2, <1>3 DEF FailedOk

\* A result that is queued.
LEMMA ErrorsSent ==
    ASSUME TypeOK, NEW r \in Requests, FailedOk(r), NEW t \in TaskIds,
           NEW type \in {"partial", "final", "error"}, Send(t, type),
           Failed(r) => Failed(r)', type = "error" /\ t[1] = r => Failed(r)'
    PROVE  \A k \in DOMAIN results'[r] : results'[r][k].type = "error" => Failed(r)'
<1> DEFINE x == [index |-> t[2], type |-> type]
<1>1. /\ results[r] \in Seq(Result) /\ x.type = type
      /\ results'[r] = IF r = t[1] /\ r \in waiting THEN Append(results[r], x) ELSE results[r]
  BY SendIs DEF TypeOK
<1>2. \A k \in DOMAIN results[r] : results[r][k].type = "error" => Failed(r)'
  BY DEF FailedOk
<1> HIDE DEF x
<1>3. CASE r = t[1] /\ r \in waiting
  <2>1. results'[r] = Append(results[r], x)
    BY <1>1, <1>3
  <2>2. \A k \in DOMAIN results'[r] :
            (k \in DOMAIN results[r] /\ results'[r][k] = results[r][k]) \/ results'[r][k] = x
    BY <1>1, <2>1
  <2>3. QED BY <1>1, <1>2, <1>3, <2>2
<1>4. CASE ~(r = t[1] /\ r \in waiting)
  BY <1>1, <1>2, <1>4
<1>5. QED BY <1>3, <1>4

LEMMA MainKeepsFailed ==
    ASSUME Ordinary, IInv, StrandInv, MainStep, NEW r \in Requests
    PROVE  FailedOk(r)'
<1>1. /\ TypeOK /\ Control /\ QueuesOk /\ SlotsTyped /\ SlotsOk /\ AnswersOk /\ Accounted
      /\ SlotTasksOk /\ RoundOk /\ FailedOk(r)
  BY SlotsAre DEF IInv, StrandInv, Accounted, ReleaseOk, Control
<1>2. \A t \in Tasks : t \in TaskIds /\ t[1] \in Requests
  BY <1>1, TaskIs
<1>3. Still
  BY <1>1, MainStepIs DEF Quiet, Answered, Freed, Finished, Placed
<1>4. UNCHANGED req
  BY <1>3 DEF Still
<1>5. UNCHANGED sent => (Failed(r)' <=> Failed(r))
  BY <1>1, <1>4, FailedSame
<1>6. UNCHANGED results =>
          \A k \in DOMAIN results'[r] : results'[r][k].type = "error" => Failed(r)
  BY <1>1 DEF FailedOk
<1>7. \A s \in SlotIds : ~IsIdle(s) => slots[s].task \in Tasks /\ Posted(slots[s].task[1])
                                          /\ slots[s].task \in TaskIds
  BY <1>1, <1>2 DEF SlotsTyped, SlotsOk
<1>8. CASE Quiet /\ UNCHANGED results
  <2>1. UNCHANGED sent /\ \A s \in SlotIds : slots'[s].task = slots[s].task
    BY <1>8 DEF Quiet, SlotsMoved
  <2>2. \A k \in DOMAIN results'[r] : results'[r][k].type = "error" => Failed(r)'
    BY <1>5, <1>6, <1>8, <2>1
  <2>3. QED BY <1>1, <1>3, <1>5, <2>1, <2>2, FailedThen
<1>9. ASSUME NEW s \in SlotIds, Quiet, ~IsIdle(s), Send(slots[s].task, "partial") PROVE FailedOk(r)'
  <2>1. UNCHANGED sent /\ \A x \in SlotIds : slots'[x].task = slots[x].task
    BY <1>9 DEF Quiet, SlotsMoved
  <2>2. \A k \in DOMAIN results'[r] : results'[r][k].type = "error" => Failed(r)'
    BY <1>1, <1>5, <1>7, <1>9, <2>1, ErrorsSent
  <2>3. QED BY <1>1, <1>3, <1>5, <2>1, <2>2, FailedThen
<1>10. ASSUME NEW s \in SlotIds, NEW type \in {"final", "error"}, Answered(s, type)
       PROVE  FailedOk(r)'
  <2>1. /\ ~IsIdle(s) /\ Send(slots[s].task, type) /\ UNCHANGED slots /\ mainPc # "release"
        /\ type = "error" => mainPc = "fail" \/ (mainPc = "prompt" /\ TooLong(s))
    BY <1>10 DEF Answered
  <2>2. PICK t \in Tasks : t = slots[s].task /\ Posted(t[1]) /\ t \in TaskIds
    BY <1>7, <2>1
  <2>3. type = "error" => Failing
    BY <1>1, <2>1, PromptFits DEF Failing
  <2>4. HasSlot(t)
    BY <2>2 DEF HasSlot
  <2>5. sent[t] = <<>>
    BY <1>1, <2>1, <2>4, HeldIsOpen
  <2>6. /\ sent'[t] = <<type>> /\ \A u \in TaskIds : u # t => sent'[u] = sent[u]
        /\ Failed(r) => Failed(r)'
    <3>1. Send(t, type)
      BY <2>1, <2>2
    <3>2. QED BY <1>1, <1>3, <2>2, <2>5, <3>1, AnswerIs
  <2>7. type = "error" /\ t[1] = r => Failed(r)'
    <3>1. ASSUME type = "error", t[1] = r PROVE Failed(r)'
      <4>1. t \in Ids(r)'
        BY <1>1, <1>4, <2>2, <3>1, TaskIs, SameRequests
      <4>2. sent'[t] = <<"error">> /\ Len(<<"error">>) > 0 /\ <<"error">>[1] = "error"
        BY <2>6, <3>1
      <4>3. QED BY <4>1, <4>2 DEF Failed
    <3>2. QED BY <3>1
  <2>8. Failed(r)' => Failed(r) \/ Failing
    <3>1. CASE type = "error"
      BY <2>3, <3>1
    <3>2. CASE type = "final"
      BY <1>1, <1>4, <2>5, <2>6, <3>2, FailedSame
    <3>3. QED BY <3>1, <3>2
  <2>9. \A k \in DOMAIN results'[r] : results'[r][k].type = "error" => Failed(r)'
    BY <1>1, <2>1, <2>2, <2>6, <2>7, ErrorsSent
  <2>10. QED BY <1>1, <1>3, <2>1, <2>6, <2>8, <2>9, FailedThen
<1>11. ASSUME NEW s \in SlotIds, Freed(s) PROVE FailedOk(r)'
  <2>1. UNCHANGED <<sent, results>> /\ slots' = [slots EXCEPT ![s] = IdleSlot]
    BY <1>11 DEF Freed
  <2>2. \A x \in SlotIds : slots'[x].task \in {slots[x].task, NoTask}
    BY <1>1, <2>1 DEF SlotsTyped, IdleSlot
  <2>3. QED BY <1>1, <1>3, <1>5, <1>6, <2>1, <2>2, FailedThen
<1>12. ASSUME NEW t, NEW u, NEW type, Finished(t, u, type) PROVE FailedOk(r)'
  <2>1. /\ UNCHANGED slots /\ t \in Tasks /\ Send(u, type) /\ u \in Tasks /\ Top(u) = t
        /\ Posted(t[1]) /\ Queued(t) > 0 /\ mainPc # "release"
    BY <1>12 DEF Finished
  <2>2. type = "final" /\ u = t
    <3>1. Info(t).launches
      BY <1>1, <2>1, OrdinaryTask
    <3>2. QED BY <1>12, <3>1 DEF Finished
  <2>3. sent[t] = <<>>
    BY <1>1, <2>1, <2>2, HeldIsOpen
  <2>4. /\ sent'[t] = <<type>> /\ \A x \in TaskIds : x # t => sent'[x] = sent[x]
        /\ Failed(r) => Failed(r)'
    <3>1. Send(t, type)
      BY <2>1, <2>2
    <3>2. QED BY <1>1, <1>3, <2>1, <2>2, <2>3, <3>1, AnswerIs
  <2>5. Failed(r)' => Failed(r)
    BY <1>1, <1>4, <2>2, <2>3, <2>4, FailedSame
  <2>6. \A k \in DOMAIN results'[r] : results'[r][k].type = "error" => Failed(r)'
    BY <1>1, <1>2, <2>1, <2>2, <2>4, ErrorsSent
  <2>7. QED BY <1>1, <1>3, <2>1, <2>4, <2>5, <2>6, FailedThen
<1>13. ASSUME NEW t, NEW s, NEW f, Placed(t, s, f) PROVE FailedOk(r)'
  <2>1. /\ t \in Tasks /\ ~IsChild(t) /\ Queued(t) > 0 /\ UNCHANGED <<sent, results>>
        /\ slots'[s].task = t
        /\ \A c \in Children(t) : slots'[f[c]].task = c
        /\ \A x \in SlotIds : x # s /\ (\A c \in Children(t) : f[c] # x) => slots'[x] = slots[x]
    BY <1>13 DEF Placed
  <2>2. t[1] \in Requests /\ FailedOk(t[1]) /\ \A c \in Children(t) : c[1] = t[1]
    <3>1. t[1] \in Requests
      BY <1>2, <2>1
    <3>2. \A x \in Requests : FailedOk(x)
      BY DEF StrandInv
    <3>3. \A c \in Children(t) : c[1] = t[1]
      BY <1>1, <2>1, ChildrenAre
    <3>4. QED BY <3>1, <3>2, <3>3
  <2>3. ~Failed(t[1])
    BY <2>1, <2>2, QueuedNotFailed
  <2>4. \A u : u \in Ids(r) => u[1] = r
    BY DEF Ids
  <2>5. ASSUME Failed(r), NEW x \in SlotIds
        PROVE  slots'[x].task \in {slots[x].task, NoTask} \/ slots'[x].task \notin Ids(r)
    <3>1. t[1] # r
      BY <2>3, <2>5
    <3>2. CASE x = s
      BY <2>1, <2>4, <3>1, <3>2
    <3>3. CASE \E c \in Children(t) : f[c] = x
      BY <2>1, <2>2, <2>4, <3>1, <3>3
    <3>4. CASE x # s /\ \A c \in Children(t) : f[c] # x
      BY <2>1, <3>4
    <3>5. QED BY <3>2, <3>3, <3>4
  <2>6. QED BY <1>1, <1>3, <1>5, <1>6, <2>1, <2>5, FailedThen
<1>14. QED BY <1>1, <1>8, <1>9, <1>10, <1>11, <1>12, <1>13, MainStepIs

-----------------------------------------------------------------------------
(* The readers.                                                            *)

\* What the readers leave alone: the main thread, and the tasks there are.
Old(t) == /\ NeedsSlot(t)' = NeedsSlot(t) /\ Children(t)' = Children(t)
          /\ t \in Tasks => t \in Tasks'

LEMMA OldTasks ==
    ASSUME IInv, UNCHANGED req \/ \E r \in Requests : Register(r)
    PROVE  \A t \in Tasks : Old(t)
<1>1. CASE UNCHANGED req
  BY <1>1, SameRequests, NeedsSame DEF Old
<1>2. ASSUME NEW r \in Requests, Register(r), NEW t \in Tasks PROVE Old(t)
  <2>1. TypeOK /\ Readers
    BY DEF IInv
  <2>2. PICK q \in Shapes : req' = [req EXCEPT ![r] = q]
    BY <1>2 DEF Register
  <2>3. rpc[r] = "new" /\ req[r] = <<>> /\ t[1] \in Requests /\ t[2] \in DOMAIN req[t[1]]
    BY <1>2, <2>1, TaskIs DEF Register, Readers
  <2>4. t[1] # r
    BY <2>3
  <2>5. req'[t[1]] = req[t[1]]
    BY <2>1, <2>2, <2>3, <2>4 DEF TypeOK
  <2>6. \A u : u[1] = t[1] => Info(u)' = Info(u) /\ Ids(u[1])' = Ids(u[1])
    BY <2>5 DEF Info, Ids
  <2>7. Ids(t[1])' = Ids(t[1]) /\ \A c \in Ids(t[1]) : Info(c)' = Info(c)
    BY <2>5, <2>6 DEF Ids
  <2>8. Children(t)' = Children(t)
    BY <2>7 DEF Children
  <2>9. NeedsSlot(t)' = NeedsSlot(t)
    BY <2>6 DEF NeedsSlot
  <2>10. t \in Tasks'
    BY <2>5 DEF Tasks
  <2>11. QED BY <2>8, <2>9, <2>10 DEF Old
<1>3. QED BY <1>1, <1>2

LEMMA ReadersKeepRounds ==
    ASSUME IInv, RoundsOk, SlotTasksOk, UNCHANGED MainVars, \A t \in Tasks : Old(t)
    PROVE  RoundsOk' /\ SlotTasksOk' /\ (Busy' <=> Busy)
<1>1. /\ UNCHANGED <<slots, mainPc, at, loop, batch, n_empty_consecutive>>
      /\ \A S : InState(S)' = InState(S)
  BY DEF MainVars, InState
<1>2. \A s \in SlotIds : slots[s].state # "IDLE" => slots[s].task \in Tasks
  BY SlotsAre DEF IInv, SlotsOk, SlotsTyped, IsIdle
<1>3. ParentsOk'
  <2>1. Parents' = Parents /\ Failing' = Failing
    BY <1>1 DEF Parents, InState, Failing
  <2>2. ASSUME NEW p \in Parents, NEW u, u \in Children(slots[p].task)
        PROVE  u \in Children(slots[p].task)'
    <3>1. PICK t \in Tasks : t = slots[p].task /\ p \in SlotIds
      BY <1>2 DEF Parents, InState
    <3>2. Children(t)' = Children(t)
      BY DEF Old
    <3>3. Children(slots[p].task)' = Children(t)'
      BY <1>1, <3>1
    <3>4. QED BY <2>2, <3>1, <3>2, <3>3
  <2>3. QED BY <1>1, <2>1, <2>2 DEF RoundsOk, ParentsOk
<1>4. DoneOk' /\ RoundOk'
  BY <1>1 DEF RoundsOk, DoneOk, RoundOk, Failing
<1>5. SlotTasksOk'
  <2>1. ASSUME NEW s \in SlotIds, slots[s].state # "IDLE" PROVE NeedsSlot(slots[s].task)'
    <3>1. PICK t \in Tasks : t = slots[s].task
      BY <1>2, <2>1
    <3>2. NeedsSlot(t)' = NeedsSlot(t) /\ NeedsSlot(t)
      BY <2>1, <3>1 DEF Old, SlotTasksOk, IsIdle
    <3>3. NeedsSlot(slots[s].task)' = NeedsSlot(t)'
      BY <1>1, <3>1
    <3>4. QED BY <3>2, <3>3
  <2>2. QED BY <1>1, <2>1 DEF SlotTasksOk, IsIdle
<1>6. Busy' <=> Busy
  BY <1>1 DEF Busy, IsIdle
<1>7. QED BY <1>3, <1>4, <1>5, <1>6 DEF RoundsOk

\* Deferred tasks stay deferred, and what is on its way stays on its way.
LEMMA ReadersKeepDeferred ==
    ASSUME IInv, QueuesOk', DefersOk, DeferredOk, Busy' <=> Busy, \A t \in Tasks : Old(t),
           \A i \in DOMAIN queue_tasks_deferred' :
               \E j \in DOMAIN queue_tasks_deferred :
                   queue_tasks_deferred[j] = queue_tasks_deferred'[i],
           \A t : Incoming(t) =>
               Queued(t)' > Count(queue_tasks_deferred', Item("TASK", t))
    PROVE  DefersOk' /\ DeferredOk'
<1> DEFINE d == queue_tasks_deferred
<1>1. d \in Seq(TaskItems)
  BY DEF IInv, QueuesOk
<1>2. ASSUME NEW i \in DOMAIN d' PROVE NeedsSlot(d[i].id)'
  <2>1. PICK j \in DOMAIN d : d[j] = d'[i]
    BY <1>2
  <2>2. d[j] \in TaskItems
    <3>1. DOMAIN d = 1 .. Len(d)
      BY <1>1, LenProperties
    <3>2. QED BY <1>1, <3>1, ElementOfSeq
  <2>3. PICK t \in Tasks : d[j].id = t
    BY <2>2, ItemIs DEF TaskItems
  <2>4. NeedsSlot(t) /\ NeedsSlot(t)' = NeedsSlot(t)
    BY <2>3 DEF DefersOk, Old
  <2>5. NeedsSlot(d[i].id)' = NeedsSlot(t)'
    BY <2>1, <2>3
  <2>6. QED BY <2>4, <2>5
<1>3. DefersOk'
  BY <1>2 DEF DefersOk
<1>4. ASSUME d' # <<>>, ~Busy PROVE \E t : Incoming(t)'
  <2>1. d # <<>>
    <3>1. SUFFICES ASSUME d = <<>> PROVE FALSE
      OBVIOUS
    <3>2. DOMAIN d = {}
      BY <3>1
    <3>3. DOMAIN d' = {}
      BY <3>2
    <3>4. d' \in Seq(TaskItems')
      BY DEF QueuesOk
    <3>5. QED BY <1>4, <3>3, <3>4
  <2>2. PICK t : Incoming(t)
    BY <1>4, <2>1 DEF DeferredOk
  <2>3. t \in Tasks' /\ NeedsSlot(t)' /\ Queued(t)' > Count(d', Item("TASK", t))
    BY <2>2 DEF Incoming, Old
  <2>4. Count(d, Item("TASK", t))' = Count(d', Item("TASK", t))
    BY DEF Count, At, Item
  <2>5. QED BY <2>3, <2>4 DEF Incoming
<1>5. QED BY <1>3, <1>4 DEF DeferredOk

LEMMA FailedStays ==
    ASSUME UNCHANGED <<slots, mainPc, loop, sent, req>>, NEW r \in Requests, FailedOk(r),
           rpc'[r] \in {"purge", "cancel"} => Failed(r),
           rpc'[r] \in {"stop", "done"} /\ received_count'[r] < Len(req[r]) => Failed(r),
           \A k \in DOMAIN results'[r] : results'[r][k].type = "error" => Failed(r)
    PROVE  FailedOk(r)'
<1>1. /\ Ids(r)' = Ids(r) /\ (Failed(r)' <=> Failed(r)) /\ (Failing' <=> Failing)
  BY SameRequests DEF Failed, Failing
<1>2. HasNext(r)' <=> received_count'[r] < Len(req[r])
  BY DEF HasNext
<1>3. QED BY <1>1, <1>2 DEF FailedOk

\* A step of one reader r.
LEMMA FailedElsewhere ==
    ASSUME UNCHANGED <<slots, mainPc, loop, sent, req>>, NEW r, \A x \in Requests : FailedOk(x),
           \A x \in Requests \ {r} : /\ rpc'[x] = rpc[x] /\ received_count'[x] = received_count[x]
                                     /\ results'[x] = results[x]
    PROVE  \A x \in Requests \ {r} : FailedOk(x)'
<1>1. ASSUME NEW x \in Requests \ {r} PROVE FailedOk(x)'
  <2>1. /\ rpc'[x] = rpc[x] /\ received_count'[x] = received_count[x] /\ results'[x] = results[x]
        /\ FailedOk(x) /\ x \in Requests
    OBVIOUS
  <2>2. received_count[x] < Len(req[x]) <=> HasNext(x)
    BY DEF HasNext
  <2>3. QED BY <2>1, <2>2, FailedStays DEF FailedOk
<1>2. QED BY <1>1

\* A client stops waiting when it has everything, or an error.
LEMMA ReceiveFails ==
    ASSUME IInv, NEW r \in Requests, \A x \in Requests : FailedOk(x), Receive(r)
    PROVE  \A x \in Requests : FailedOk(x)'
<1>1. /\ UNCHANGED <<slots, mainPc, loop, sent, req>> /\ rpc[r] = "waiting"
      /\ results[r] # <<>> /\ results' = [results EXCEPT ![r] = Tail(@)]
      /\ rpc' = IF Head(results[r]).type = "error" \/ received_count'[r] = Len(req[r])
                THEN [rpc EXCEPT ![r] = "stop"] ELSE rpc
      /\ received_count' \in {received_count, [received_count EXCEPT ![r] = @ + 1]}
  BY DEF Receive, loopVars
<1>2. /\ rpc \in [Requests -> {"new", "registered", "waiting", "stop", "purge", "cancel", "done"}]
      /\ results \in [Requests -> Seq(Result)]
      /\ received_count \in [Requests -> 0 .. MaxTasks]
  BY DEF IInv, TypeOK
<1>3. \A x \in Requests \ {r} : /\ rpc'[x] = rpc[x] /\ received_count'[x] = received_count[x]
                                /\ results'[x] = results[x]
  BY <1>1, <1>2
<1>4. PICK q \in Seq(Result) : q = results[r] /\ q # <<>> /\ results'[r] = Tail(q)
  BY <1>1, <1>2
<1>5. \A k \in DOMAIN q : q[k].type = "error" => Failed(r)
  BY <1>4 DEF FailedOk
<1>6. Head(q).type = "error" => Failed(r)
  <2>1. Head(q) = q[1] /\ 1 \in DOMAIN q
    BY <1>4, HeadTailProperties, LenProperties, EmptySeq
  <2>2. QED BY <1>5, <2>1
<1>7. \A k \in DOMAIN results'[r] : results'[r][k].type = "error" => Failed(r)
  <2>1. \A k \in DOMAIN Tail(q) : \E j \in DOMAIN q : Tail(q)[k] = q[j]
    BY <1>4
  <2>2. QED BY <1>4, <1>5, <2>1
<1>8. rpc'[r] \in {"purge", "cancel"} => Failed(r)
  BY <1>1, <1>2
<1>9. rpc'[r] \in {"stop", "done"} /\ received_count'[r] < Len(req[r]) => Failed(r)
  <2>1. ASSUME received_count'[r] = Len(req[r]) PROVE ~(received_count'[r] < Len(req[r]))
    <3>1. received_count'[r] \in Int
      BY <1>1, <1>2, BoundsAssumption
    <3>2. QED BY <2>1, <3>1
  <2>2. QED BY <1>1, <1>2, <1>4, <1>6, <2>1
<1>10. FailedOk(r)'
  BY <1>1, <1>7, <1>8, <1>9, FailedStays
<1>11. \A x \in Requests \ {r} : FailedOk(x)'
  BY <1>1, <1>3, FailedElsewhere
<1>12. QED BY <1>10, <1>11

\* The steps of a reader that receive nothing.
LEMMA LeavingFails ==
    ASSUME IInv, NEW r \in Requests, \A x \in Requests : FailedOk(x),
           PostTasks(r) \/ Unregister(r) \/ Purge(r) \/ PostCancels(r)
    PROVE  \A x \in Requests : FailedOk(x)'
<1>1. /\ UNCHANGED <<slots, mainPc, loop, sent, req, received_count>>
      /\ results' \in {results, [results EXCEPT ![r] = <<>>]}
      /\ \/ rpc' = [rpc EXCEPT ![r] = "waiting"]
         \/ rpc[r] = "stop" /\ rpc' = [rpc EXCEPT ![r] = IF HasNext(r) THEN "purge" ELSE "done"]
         \/ rpc[r] = "purge" /\ rpc' = [rpc EXCEPT ![r] = "cancel"]
         \/ rpc[r] = "cancel" /\ rpc' = [rpc EXCEPT ![r] = "done"]
  BY DEF PostTasks, Unregister, Purge, PostCancels, loopVars, sendVars
<1>2. /\ rpc \in [Requests -> {"new", "registered", "waiting", "stop", "purge", "cancel", "done"}]
      /\ results \in [Requests -> Seq(Result)]
  BY DEF IInv, TypeOK
<1>3. \A x \in Requests \ {r} : /\ rpc'[x] = rpc[x] /\ received_count'[x] = received_count[x]
                                /\ results'[x] = results[x]
  BY <1>1, <1>2
<1>4. \A k \in DOMAIN results'[r] : results'[r][k].type = "error" => Failed(r)
  <2>1. CASE results' = results
    BY <2>1 DEF FailedOk
  <2>2. CASE results' = [results EXCEPT ![r] = <<>>]
    <3>1. results'[r] = <<>> /\ DOMAIN <<>> = {}
      BY <1>2, <2>2
    <3>2. DOMAIN results'[r] = {}
      BY <3>1
    <3>3. QED BY <3>2
  <2>3. QED BY <1>1, <2>1, <2>2
<1>5. /\ rpc'[r] \in {"purge", "cancel"} => Failed(r)
      /\ rpc'[r] \in {"stop", "done"} /\ HasNext(r) => Failed(r)
  BY <1>1, <1>2 DEF FailedOk
<1>6. received_count'[r] < Len(req[r]) <=> HasNext(r)
  BY <1>1 DEF HasNext
<1>7. FailedOk(r)'
  BY <1>1, <1>4, <1>5, <1>6, FailedStays
<1>8. \A x \in Requests \ {r} : FailedOk(x)'
  BY <1>1, <1>3, FailedElsewhere
<1>9. QED BY <1>7, <1>8

LEMMA RegisterFails ==
    ASSUME IInv, NEW r \in Requests, \A x \in Requests : FailedOk(x), Register(r)
    PROVE  \A x \in Requests : FailedOk(x)'
<1>1. /\ UNCHANGED <<slots, mainPc, loop, sent, results, received_count>>
      /\ rpc[r] = "new" /\ rpc' = [rpc EXCEPT ![r] = "registered"]
      /\ \E q \in Shapes : req' = [req EXCEPT ![r] = q]
  BY DEF Register, loopVars, sendVars
<1>2. /\ rpc \in [Requests -> {"new", "registered", "waiting", "stop", "purge", "cancel", "done"}]
      /\ req \in [Requests -> Shapes \cup {<<>>}] /\ AnswersOk /\ SlotsOk /\ ResultsOk(r) /\ TypeOK
      /\ req[r] = <<>>
  BY <1>1 DEF IInv, TypeOK, Readers
<1>3. /\ rpc'[r] = "registered" /\ (Failing' <=> Failing)
      /\ \A x \in Requests \ {r} : rpc'[x] = rpc[x] /\ req'[x] = req[x]
  BY <1>1, <1>2 DEF Failing
<1>4. ASSUME NEW x \in Requests \ {r} PROVE FailedOk(x)'
  <2>1. req'[x] = req[x] /\ rpc'[x] = rpc[x] /\ FailedOk(x)
    BY <1>3
  <2>2. Ids(x)' = Ids(x) /\ (HasNext(x)' <=> HasNext(x))
    BY <1>1, <2>1 DEF Ids, HasNext
  <2>3. Failed(x)' <=> Failed(x)
    BY <1>1, <2>2 DEF Failed
  <2>4. QED BY <1>1, <1>3, <2>1, <2>2, <2>3 DEF FailedOk
<1>5. FailedOk(r)'
  <2>1. ~Failed(r)'
    <3>1. SUFFICES ASSUME Failed(r)' PROVE FALSE
      OBVIOUS
    <3>2. PICK t \in Ids(r)' : Len(sent[t]) > 0
      BY <1>1, <3>1 DEF Failed
    <3>3. t[1] = r /\ t \in TaskIds
      <4>1. PICK q \in Shapes : q = req'[r]
        BY <1>1, <1>2
      <4>2. PICK i \in DOMAIN q : t = <<r, i>>
        BY <3>2, <4>1 DEF Ids
      <4>3. DOMAIN q = 1 .. Len(q) /\ Len(q) \in 1 .. MaxTasks
        BY ShapeIs
      <4>4. i \in 1 .. MaxTasks
        BY <4>3, BoundsAssumption
      <4>5. QED BY <4>2, <4>4 DEF TaskIds
    <3>4. sent[t] # <<>>
      BY <3>2, EmptySeq
    <3>5. Posted(r)
      BY <1>2, <3>3, <3>4 DEF AnswersOk
    <3>6. QED BY <1>1, <3>5 DEF Posted
  <2>2. results[r] = <<>>
    BY <1>1, <1>2 DEF ResultsOk
  <2>3. DOMAIN results'[r] = {}
    BY <1>1, <2>2
  <2>4. rpc'[r] = "registered"
    BY <1>3
  <2>5. /\ (Failed(r) => CanFail)'
        /\ (Failed(r) => Failing \/ \A s \in SlotIds : slots[s].task \notin Ids(r))'
    BY <2>1
  <2>6. /\ rpc'[r] \notin {"purge", "cancel"} /\ rpc'[r] \notin {"stop", "done"}
        /\ \A k \in DOMAIN results'[r] : results'[r][k].type = "error" => Failed(r)'
    BY <2>3, <2>4
  <2>7. QED BY <2>5, <2>6 DEF FailedOk
<1>6. QED BY <1>4, <1>5

-----------------------------------------------------------------------------
(* What the readers do to the queues.                                      *)

\* Nothing new is deferred, and what is on its way to a slot stays on its way.
Beside ==
    /\ \A i \in DOMAIN queue_tasks_deferred' :
           \E j \in DOMAIN queue_tasks_deferred :
               queue_tasks_deferred[j] = queue_tasks_deferred'[i]
    /\ \A t : Incoming(t) => Queued(t)' > Count(queue_tasks_deferred', Item("TASK", t))

LEMMA ApartDefers ==
    ASSUME UNCHANGED <<queueVars, current>>
    PROVE  Beside /\ (queue_tasks # <<>> => queue_tasks' # <<>>)
<1>1. /\ queue_tasks' = queue_tasks /\ queue_tasks_deferred' = queue_tasks_deferred
      /\ current' = current
  BY DEF queueVars
<1>2. \A t : Queued(t)' = Queued(t)
  BY <1>1, QueuedIs
<1>3. QED BY <1>1, <1>2 DEF Beside, Incoming

LEMMA PostTasksDefers ==
    ASSUME IInv, NEW r \in Requests, PostTasks(r)
    PROVE  Beside /\ (queue_tasks # <<>> => queue_tasks' # <<>>)
<1>1. /\ TypeOK /\ QueuesOk /\ req[r] # <<>> /\ UNCHANGED queue_tasks_deferred
      /\ queue_tasks' = TopTasks(r) \o queue_tasks \/ queue_tasks' = queue_tasks \o TopTasks(r)
  BY DEF IInv, PostTasks, Readers
<1>2. ASSUME NEW t, Incoming(t)
      PROVE  Queued(t)' > Count(queue_tasks_deferred, Item("TASK", t))
  <2>1. Queued(t)' = Queued(t) + (IF Item("TASK", t) \in Posting(r) THEN 1 ELSE 0)
    BY PostTasksAdds
  <2>2. Queued(t) \in Nat /\ Queued(t) > Count(queue_tasks_deferred, Item("TASK", t))
    BY <1>1, <1>2, QueuedIsNat DEF Incoming
  <2>3. Count(queue_tasks_deferred, Item("TASK", t)) \in Nat
    BY <1>1, CountIsNat DEF QueuesOk
  <2>4. QED BY <2>1, <2>2, <2>3
<1>3. ASSUME queue_tasks # <<>> PROVE queue_tasks' # <<>>
  <2>1. PICK T : T = Items \cup Posting(r)
    OBVIOUS
  <2>2. TopTasks(r) \in Seq(T) /\ queue_tasks \in Seq(T)
    BY <1>1, <2>1, TopTasksAre, SeqGrows DEF QueuesOk
  <2>3. PICK q \in Seq(T) : q = queue_tasks
    BY <2>2
  <2>4. PICK p \in Seq(T) : p = TopTasks(r)
    BY <2>2
  <2>5. Len(q) \in Nat /\ Len(p) \in Nat /\ Len(q) # 0
    BY <1>3, <2>3, EmptySeq, LenProperties
  <2>6. Len(p \o q) = Len(p) + Len(q) /\ Len(q \o p) = Len(q) + Len(p)
    BY ConcatProperties
  <2>7. Len(<<>>) = 0
    OBVIOUS
  <2>8. Len(p \o q) # 0 /\ Len(q \o p) # 0
    BY <2>5, <2>6
  <2>9. queue_tasks' = p \o q \/ queue_tasks' = q \o p
    BY <1>1, <2>3, <2>4
  <2>10. QED BY <2>7, <2>8, <2>9
<1>4. QED BY <1>1, <1>2, <1>3 DEF Beside

\* A request has a task to be cancelled.
LEMMA SomeCancels ==
    ASSUME TypeOK, NEW r \in Requests, req[r] # <<>>, NEW ids \in SetToSeqs(Ids(r))
    PROVE  1 \in DOMAIN ids
<1>1. PICK q \in Shapes : q = req[r]
  BY DEF TypeOK
<1>2. DOMAIN q = 1 .. Len(q) /\ Len(q) \in 1 .. MaxTasks
  BY ShapeIs
<1>3. PICK n \in Nat \ {0} : n = Len(q)
  <2>1. PICK n : n = Len(q)
    OBVIOUS
  <2>2. n \in 1 .. MaxTasks /\ MaxTasks \in Nat
    BY <1>2, <2>1, BoundsAssumption
  <2>3. n \in Nat \ {0}
    BY <2>2
  <2>4. QED BY <2>1, <2>3
<1>4. Ids(r) = {<<r, i>> : i \in 1 .. n}
  BY <1>1, <1>2, <1>3 DEF Ids
<1>5. IsFiniteSet(Ids(r))
  <2> DEFINE f == [i \in 1 .. n |-> <<r, i>>]
  <2>1. f \in Surjection(1 .. n, Ids(r))
    BY <1>4 DEF Surjection
  <2>2. QED BY <2>1, FS_Interval, FS_Surjection
<1>6. Ids(r) # {}
  <2>1. 1 \in 1 .. n
    BY <1>3
  <2>2. <<r, 1>> \in Ids(r)
    BY <1>4, <2>1
  <2>3. QED BY <2>2
<1>7. Cardinality(Ids(r)) \in Nat /\ Cardinality(Ids(r)) # 0
  BY <1>5, <1>6, FS_CardinalityType, FS_EmptySet
<1>8. ids \in [1 .. Cardinality(Ids(r)) -> Ids(r)]
  BY DEF SetToSeqs
<1>9. QED BY <1>7, <1>8

\* The CANCELs find only what has failed, and that is not on its way.
LEMMA PostCancelsDefers ==
    ASSUME Ordinary, IInv, NEW r \in Requests, FailedOk(r), PostCancels(r)
    PROVE  Beside /\ (queue_tasks # <<>> => queue_tasks' # <<>>)
<1>1. /\ TypeOK /\ QueuesOk /\ req[r] # <<>> /\ rpc[r] = "cancel" /\ Failed(r)
      /\ queue_tasks_deferred' = CleanupPendingTasks(queue_tasks_deferred, r)
  BY DEF IInv, PostCancels, Readers, FailedOk
<1> DEFINE d == queue_tasks_deferred
<1>2. d \in Seq(TaskItems) /\ d' \in Seq(TaskItems)
      /\ \A u : Count(d', Item("TASK", u)) = IF u \in Ids(r) THEN 0 ELSE Count(d, Item("TASK", u))
  <2>1. PICK q \in Seq(TaskItems) : q = d
    BY <1>1 DEF QueuesOk
  <2>2. d' = CleanupPendingTasks(q, r)
    BY <1>1, <2>1
  <2>3. QED BY <2>1, <2>2, CleanupIs
<1>3. ASSUME NEW i \in DOMAIN d' PROVE \E j \in DOMAIN d : d[j] = d'[i]
  <2>1. PICK e \in Seq(TaskItems) : e = d' /\ i \in DOMAIN e
    BY <1>2, <1>3
  <2>2. e[i] \in TaskItems
    BY <2>1, LenProperties, ElementOfSeq
  <2>3. PICK u : e[i] = Item("TASK", u)
    BY <2>2 DEF TaskItems
  <2>4. Count(e, Item("TASK", u)) # 0
    BY <2>1, <2>3, CountIsZero
  <2>5. Count(d, Item("TASK", u)) # 0
    BY <1>2, <2>1, <2>4
  <2>6. \E j \in DOMAIN d : d[j] = Item("TASK", u)
    BY <1>2, <2>5, CountIsZero
  <2>7. QED BY <2>1, <2>3, <2>6
<1>4. ASSUME NEW t, Incoming(t) PROVE Queued(t)' > Count(d', Item("TASK", t))
  <2>1. t \in Tasks /\ Queued(t) \in Nat /\ Queued(t) > Count(d, Item("TASK", t))
    BY <1>1, <1>4, QueuedIsNat DEF Incoming
  <2>2. Count(d, Item("TASK", t)) \in Nat
    BY <1>2, CountIsNat
  <2>3. Queued(t) > 0
    BY <2>1, <2>2
  <2>4. ~IsChild(t)
    <3>1. Item("TASK", t) \in TaskItems
      BY <1>1, <2>3, QueuedIsNat
    <3>2. QED BY <3>1, ItemIs DEF TaskItems
  <2>5. t \notin Ids(r)
    <3>1. ASSUME t \in Ids(r) PROVE FALSE
      <4>1. t[1] = r
        BY <3>1 DEF Ids
      <4>2. QED BY <1>1, <2>1, <2>3, <2>4, <4>1, QueuedNotFailed
    <3>2. QED BY <3>1
  <2>6. Queued(t)' = Queued(t)
    BY <2>5, PostCancelsTakes
  <2>7. Count(d', Item("TASK", t)) = Count(d, Item("TASK", t))
    BY <1>2, <2>5
  <2>8. QED BY <2>1, <2>6, <2>7
<1>5. queue_tasks' # <<>>
  <2>1. PICK ids \in SetToSeqs(Ids(r)) :
            queue_tasks' = [i \in DOMAIN ids |-> Item("CANCEL", ids[i])]
                               \o CleanupPendingTasks(queue_tasks, r)
    BY DEF PostCancels
  <2>2. PICK T : T = Items \cup {Item("CANCEL", t) : t \in Ids(r)}
    OBVIOUS
  <2>3. PICK c : c = [i \in DOMAIN ids |-> Item("CANCEL", ids[i])]
    OBVIOUS
  <2>4. c \in Seq(T)
    BY <1>1, <2>2, <2>3, CancelsAre
  <2>5. PICK q \in Seq(T) : q = CleanupPendingTasks(queue_tasks, r)
    <3>1. queue_tasks \in Seq(T)
      BY <1>1, <2>2, SeqGrows DEF QueuesOk
    <3>2. CleanupPendingTasks(queue_tasks, r) \in Seq(T)
      BY <3>1, CleanupIs
    <3>3. QED BY <3>2
  <2>6. Len(c) # 0
    <3>1. 1 \in DOMAIN ids
      BY <1>1, SomeCancels
    <3>2. 1 \in DOMAIN c
      BY <2>3, <3>1
    <3>3. DOMAIN c = 1 .. Len(c) /\ Len(c) \in Nat
      BY <2>4, LenProperties
    <3>4. QED BY <3>2, <3>3
  <2>7. Len(c \o q) = Len(c) + Len(q) /\ Len(c) \in Nat /\ Len(q) \in Nat /\ Len(<<>>) = 0
    BY <2>4, <2>5, ConcatProperties, LenProperties
  <2>8. queue_tasks' = c \o q
    BY <2>1, <2>3, <2>5
  <2>9. Len(c \o q) # 0
    BY <2>6, <2>7
  <2>10. QED BY <2>7, <2>8, <2>9
<1>6. QED BY <1>3, <1>4, <1>5 DEF Beside

-----------------------------------------------------------------------------
(* Nobody is stranded.                                                     *)

LEMMA GoingStays ==
    ASSUME RoundGoesOn, UNCHANGED mainPc, Busy' <=> Busy, queue_tasks # <<>> => queue_tasks' # <<>>
    PROVE  RoundGoesOn'
BY DEF RoundGoesOn

\* A step that leaves the main thread alone.
LEMMA BesideKeeps ==
    ASSUME IInv, IInv', StrandInv, UNCHANGED MainVars, \A t \in Tasks : Old(t),
           Beside, queue_tasks # <<>> => queue_tasks' # <<>>, \A r \in Requests : FailedOk(r)'
    PROVE  StrandInv'
<1>1. RoundsOk' /\ SlotTasksOk' /\ (Busy' <=> Busy)
  BY ReadersKeepRounds DEF StrandInv, RoundsOk
<1>2. QueuesOk'
  BY DEF IInv
<1>3. DefersOk' /\ DeferredOk'
  BY <1>1, <1>2, ReadersKeepDeferred DEF StrandInv, Beside
<1>4. RoundGoesOn'
  BY <1>1, GoingStays DEF StrandInv, MainVars
<1>5. QED BY <1>1, <1>3, <1>4 DEF StrandInv, RoundsOk

LEMMA ReaderKeepsStrand ==
    ASSUME Ordinary, IInv, IInv', StrandInv, NEW r \in Requests, ReaderStep(r)
    PROVE  StrandInv'
<1>1. \A x \in Requests : FailedOk(x)
  BY DEF StrandInv
<1>2. UNCHANGED MainVars
  BY DEF ReaderStep, Register, PostTasks, Receive, Unregister, Purge, PostCancels, MainVars, loopVars
<1>3. \A t \in Tasks : Old(t)
  <2>1. UNCHANGED req \/ Register(r)
    BY DEF ReaderStep, PostTasks, Receive, Unregister, Purge, PostCancels
  <2>2. QED BY <2>1, OldTasks
<1>4. Beside /\ (queue_tasks # <<>> => queue_tasks' # <<>>)
  <2>1. CASE Register(r) \/ Receive(r) \/ Unregister(r) \/ Purge(r)
    <3>1. UNCHANGED <<queueVars, current>>
      BY <2>1 DEF Register, Receive, Unregister, Purge
    <3>2. QED BY <3>1, ApartDefers
  <2>2. CASE PostTasks(r)
    BY <2>2, PostTasksDefers
  <2>3. CASE PostCancels(r)
    BY <1>1, <2>3, PostCancelsDefers
  <2>4. QED BY <2>1, <2>2, <2>3 DEF ReaderStep
<1>5. \A x \in Requests : FailedOk(x)'
  <2>1. CASE Register(r)
    BY <1>1, <2>1, RegisterFails
  <2>2. CASE Receive(r)
    BY <1>1, <2>2, ReceiveFails
  <2>3. CASE PostTasks(r) \/ Unregister(r) \/ Purge(r) \/ PostCancels(r)
    BY <1>1, <2>3, LeavingFails
  <2>4. QED BY <2>1, <2>2, <2>3 DEF ReaderStep
<1>6. QED BY <1>2, <1>3, <1>4, <1>5, BesideKeeps

LEMMA StutterKeepsStrand ==
    ASSUME IInv, IInv', StrandInv, UNCHANGED vars
    PROVE  StrandInv'
<1>1. UNCHANGED <<MainVars, req, queueVars, current>>
  BY DEF vars, MainVars, queueVars
<1>2. Beside /\ (queue_tasks # <<>> => queue_tasks' # <<>>)
  BY <1>1, ApartDefers
<1>3. \A t \in Tasks : Old(t)
  BY <1>1, OldTasks
<1>4. \A x \in Requests : FailedOk(x)'
  <2>1. /\ UNCHANGED <<slots, mainPc, loop, sent, req>>
        /\ rpc' = rpc /\ received_count' = received_count /\ results' = results
    BY DEF vars
  <2>2. ASSUME NEW x \in Requests PROVE FailedOk(x)'
    <3>1. FailedOk(x)
      BY DEF StrandInv
    <3>2. received_count[x] < Len(req[x]) <=> HasNext(x)
      BY DEF HasNext
    <3>3. QED BY <2>1, <3>1, <3>2, FailedStays DEF FailedOk
  <2>3. QED BY <2>2
<1>5. QED BY <1>1, <1>2, <1>3, <1>4, BesideKeeps

LEMMA NextKeepsStrand == Ordinary /\ IInv /\ IInv' /\ StrandInv /\ [Next]_vars => StrandInv'
<1> SUFFICES ASSUME Ordinary, IInv, IInv', StrandInv, [Next]_vars PROVE StrandInv'
  OBVIOUS
<1>1. CASE MainStep
  <2>1. ParentsOk' /\ DoneOk' /\ RoundOk'
    BY <1>1, MainKeepsRounds DEF RoundsOk
  <2>2. SlotTasksOk' /\ DefersOk' /\ DeferredOk'
    BY <1>1, MainKeepsDeferred
  <2>3. RoundGoesOn'
    BY <1>1, MainKeepsGoing DEF IInv, StrandInv
  <2>4. \A r \in Requests : FailedOk(r)'
    BY <1>1, MainKeepsFailed
  <2>5. QED BY <2>1, <2>2, <2>3, <2>4 DEF StrandInv
<1>2. CASE \E r \in Requests : ReaderStep(r) \/ (Alive /\ Disconnect(r))
  <2>1. \A r \in Requests : ~Disconnect(r)
    BY DEF Disconnect, Ordinary
  <2>2. PICK r \in Requests : ReaderStep(r)
    BY <1>2, <2>1
  <2>3. QED BY <2>2, ReaderKeepsStrand
<1>3. CASE UNCHANGED vars
  BY <1>3, StutterKeepsStrand
<1>4. QED BY <1>1, <1>2, <1>3 DEF Next

LEMMA InitStrand == Init => StrandInv
<1> SUFFICES ASSUME Init PROVE StrandInv
  OBVIOUS
<1>1. \A s \in SlotIds : slots[s].state = "IDLE"
  BY DEF Init, IdleSlot
<1>2. mainPc = "drain" /\ n_empty_consecutive = 0 /\ queue_tasks_deferred = <<>>
  BY DEF Init
<1>3. ParentsOk /\ DoneOk
  BY <1>1 DEF ParentsOk, DoneOk, InState
<1>4. RoundOk /\ SlotTasksOk
  BY <1>1, <1>2 DEF RoundOk, Failing, SlotTasksOk, IsIdle
<1>5. DefersOk /\ DeferredOk
  BY <1>2 DEF DefersOk, DeferredOk
<1>6. RoundGoesOn
  BY <1>2 DEF RoundGoesOn
<1>7. ASSUME NEW r \in Requests PROVE FailedOk(r)
  <2>1. req[r] = <<>> /\ rpc[r] = "new" /\ results[r] = <<>>
    BY DEF Init
  <2>2. Ids(r) = {} /\ DOMAIN results[r] = {}
    BY <2>1 DEF Ids
  <2>3. ~Failed(r)
    BY <2>2 DEF Failed
  <2>4. QED BY <2>1, <2>2, <2>3 DEF FailedOk
<1>8. QED BY <1>3, <1>4, <1>5, <1>6, <1>7 DEF StrandInv

LEMMA StrandImplies == IInv /\ StrandInv => NobodyIsStranded
<1> SUFFICES ASSUME IInv, StrandInv PROVE NobodyIsStranded
  OBVIOUS
<1>1. ChildHasParent
  <2>1. ASSUME mainPc = "decode", NEW s \in InState({"WAIT_OTHER"})
        PROVE  \E p \in InState({"STARTED", "PROCESSING_PROMPT", "DONE_PROMPT"}) :
                   slots[s].task \in Children(slots[p].task)
    <3>1. ~Failing
      BY <2>1 DEF Failing
    <3>2. PICK p \in Parents : slots[s].task \in Children(slots[p].task)
      BY <3>1 DEF StrandInv, ParentsOk
    <3>3. p \in InState({"STARTED", "PROCESSING_PROMPT", "DONE_PROMPT"})
      BY DEF Parents, InState
    <3>4. QED BY <3>2, <3>3
  <2>2. QED BY <2>1 DEF ChildHasParent
<1>2. NoKillSwitch
  BY DEF StrandInv, RoundOk, NoKillSwitch
<1>3. NothingDeferredWhenIdle
  <2>1. SUFFICES ASSUME mainPc = "wait", queue_tasks = <<>>, queue_tasks_deferred # <<>>
                 PROVE  FALSE
    BY DEF NothingDeferredWhenIdle
  <2>2. ~Busy
    BY <2>1 DEF StrandInv, RoundGoesOn
  <2>3. PICK t : Incoming(t)
    BY <2>1, <2>2 DEF StrandInv, DeferredOk
  <2>4. current = NextResponse
    BY <2>1 DEF IInv, Control
  <2>5. current # Item("TASK", t)
    BY <2>4, ItemIs DEF NextResponse
  <2>6. Count(queue_tasks, Item("TASK", t)) = 0
    <3>1. queue_tasks \in Seq(Items) /\ DOMAIN queue_tasks = {}
      BY <2>1 DEF IInv, QueuesOk
    <3>2. \A i \in DOMAIN queue_tasks : queue_tasks[i] # Item("TASK", t)
      BY <3>1
    <3>3. QED BY <3>1, <3>2, CountIsZero
  <2>7. Count(queue_tasks_deferred, Item("TASK", t)) \in Nat
    BY CountIsNat DEF IInv, QueuesOk
  <2>8. Queued(t) = Count(queue_tasks_deferred, Item("TASK", t))
    BY <2>5, <2>6, <2>7, QueuedIs DEF InQueues
  <2>9. Queued(t) > Count(queue_tasks_deferred, Item("TASK", t))
    BY <2>3 DEF Incoming
  <2>10. QED BY <2>7, <2>8, <2>9
<1>4. QED BY <1>1, <1>2, <1>3 DEF NobodyIsStranded

\* Of requests that are not refused, from clients that stay, nobody waits for
\* what cannot come: when a batch is decoded, a child has a parent whose prompt
\* is still to be finished, update_slots never finds nothing to decode, so that
\* it does not abort, and when the loop sleeps, nothing is deferred.
THEOREM NobodyIsStrandedHolds == ASSUME Ordinary PROVE Spec => []NobodyIsStranded
<1> DEFINE Inv == IInv /\ StrandInv
<1>1. Init => Inv
  BY InitIInv, InitStrand
<1>2. Inv /\ [Next]_vars => Inv'
  <2>1. Inv /\ [Next]_vars => IInv'
    BY NextKeepsIInv
  <2>2. Ordinary
    OBVIOUS
  <2>3. QED BY <2>1, <2>2, NextKeepsStrand
<1>3. Inv => NobodyIsStranded
  BY StrandImplies
<1> HIDE DEF Inv
<1>4. QED BY <1>1, <1>2, <1>3, PTL DEF Spec

=============================================================================
