---------------------------- MODULE ServerSlots ----------------------------
(***************************************************************************)
(* The life of a task in llama-server: an HTTP handler posts the tasks of  *)
(* a request through server_response_reader, the main thread schedules     *)
(* them on slots (process_single_task) and decodes them (update_slots),    *)
(* and the results come back through server_response                       *)
(* (tools/server/server-context.cpp, server-queue.cpp).                    *)
(*                                                                         *)
(* An action of the main thread ends with the critical section (of         *)
(* mutex_tasks or mutex_results) it enters; the code between two sections  *)
(* is local to that thread.  Sleeping and the condition variables are      *)
(* ServerQueue's subject: there it is shown that the loop runs whenever    *)
(* there is a task, so this module only says when it may run.              *)
(*                                                                         *)
(* queue_results is kept per reader: recv_with_timeout takes the first     *)
(* result that belongs to the caller, and no two readers share a task id.  *)
(*                                                                         *)
(* A definition Name_Variant is the mutated form of Name that the mutants  *)
(* of PROJECT.json put in its place; no action uses it.                    *)
(***************************************************************************)
EXTENDS Integers, Sequences, FiniteSets, SequencesExt

CONSTANTS
    Requests,       \* HTTP requests, each with a reader of its own
    Shapes,         \* the requests a client may send (see TaskInfo)
    MaxTasks,       \* bound on the tasks of a request
    NSlots,         \* slots.size()
    NPredict,       \* bound on the tokens a slot generates
    NCtx,           \* slot.n_ctx, in batches
    CanCancel,      \* clients may disconnect
    CanFail         \* llama_decode may fail for good

\* A task as the handler builds it.  tokens is the length of its prompt in
\* batches, launches says whether launch_slot_with_task (or the slot action)
\* accepts it, parent is the index of its parent or 0, and group stands for
\* what can_batch_with compares: the task type and the LoRA set.
TaskInfo(MaxTokens) ==
    [kind     : {"COMPLETION", "EMBEDDING", "SLOT_ACTION", "METRICS"},
     parent   : 0 .. MaxTasks,
     id_slot  : Int,
     tokens   : 0 .. MaxTokens,
     launches : BOOLEAN,
     group    : Nat]

ASSUME BoundsAssumption == /\ NSlots \in Nat \ {0}
                           /\ MaxTasks \in Nat \ {0}
                           /\ NPredict \in Nat \ {0}
                           /\ NCtx \in Nat
ASSUME FlagsAssumption  == CanCancel \in BOOLEAN /\ CanFail \in BOOLEAN
\* n_cmpl <= n_parallel is checked when the request is parsed; a child is a
\* copy of its parent that names no slot, only completions have children, and
\* they take the ids after their parent's.
ASSUME ShapesAssumption ==
    \A q \in Shapes :
        /\ q \in Seq(TaskInfo(NCtx + 1)) /\ Len(q) \in 1 .. MaxTasks
        /\ \A i \in DOMAIN q :
               /\ q[i].parent = 0 =>
                      \E n \in 0 .. NSlots - 1 :
                          {j \in DOMAIN q : q[j].parent = i} = i + 1 .. i + n
               /\ q[i].parent # 0 =>
                      /\ q[i].kind = "COMPLETION"
                      /\ q[i].parent < i /\ q[q[i].parent].parent = 0
                      /\ q[i] = [q[q[i].parent] EXCEPT
                                    !.parent = q[i].parent, !.id_slot = -1]

VARIABLES
    queue_tasks, queue_tasks_deferred,
    slots,                  \* [state, task, n]
    mainPc, current,        \* the main thread, and the task it popped
    at, loop,               \* its position in a loop over the slots, and which
    batch,                  \* slots with tokens in the batch
    n_empty_consecutive,
    waiting,                \* readers with their ids in waiting_task_ids
    results,                \* queue_results
    req,                    \* the tasks of a request
    rpc,                    \* the HTTP threads
    received_count, seen,   \* finals a reader has received, and their indices
    sent                    \* the answers given to a task (history)

queueVars  == <<queue_tasks, queue_tasks_deferred>>
loopVars   == <<at, loop, batch, n_empty_consecutive>>
readerVars == <<req, rpc, received_count, seen>>
sendVars   == <<results, sent>>
vars == <<queue_tasks, queue_tasks_deferred, slots, mainPc, current, at, loop,
          batch, n_empty_consecutive, waiting, results, req, rpc,
          received_count, seen, sent>>

SlotIds == 0 .. NSlots - 1
TaskIds == Requests \X (1 .. MaxTasks)
NoTask  == <<>>

Info(t)     == req[t[1]][t[2]]
Ids(r)      == {<<r, i>> : i \in DOMAIN req[r]}
IsChild(t)  == Info(t).parent # 0
Children(t) == {c \in Ids(t[1]) : Info(c).parent = t[2]}

Item(type, t) == [type |-> type, id |-> t]
NextResponse  == Item("NEXT_RESPONSE", NoTask)

IdleSlot      == [state |-> "IDLE", task |-> NoTask, n |-> 0]
IsIdle(s)     == slots[s].state = "IDLE"
IdleSlots     == {s \in SlotIds : IsIdle(s)}
InState(S)    == {s \in SlotIds : slots[s].state \in S}
First(S)      == CHOOSE s \in S : \A x \in S : s <= x
TaskOf(s)     == Info(slots[s].task)

(***************************************************************************)
(* server_response                                                         *)
(***************************************************************************)
\* send(): a result nobody waits for is dropped.
Send_Unchecked(t, type) ==
    /\ results' = [results EXCEPT
                      ![t[1]] = Append(@, [index |-> t[2], type |-> type])]
    /\ sent' = IF type = "partial" THEN sent ELSE [sent EXCEPT ![t] = Append(@, type)]

Send(t, type) ==
    /\ results' = IF t[1] \in waiting
                  THEN [results EXCEPT
                           ![t[1]] = Append(@, [index |-> t[2], type |-> type])]
                  ELSE results
    /\ sent' = IF type = "partial" THEN sent ELSE [sent EXCEPT ![t] = Append(@, type)]

(***************************************************************************)
(* server_queue                                                            *)
(***************************************************************************)
IsTaskOf(item, r) == item.type = "TASK" /\ item.id \in Ids(r)

\* What is left of q when a loop erases what is not in K.
Selected(q, K) ==
    LET kept[i \in 0 .. Len(q)] ==
            IF i = 0 THEN <<>>
            ELSE IF q[i] \in K THEN Append(kept[i - 1], q[i]) ELSE kept[i - 1]
    IN  kept[Len(q)]

CleanupPendingTasks(q, r) == Selected(q, {item \in Range(q) : ~IsTaskOf(item, r)})

Defer(t) == queue_tasks_deferred' = Append(queue_tasks_deferred, Item("TASK", t))

DeferredIndex_First(s) == 1

\* A task that names the released slot goes first; id_slot is compared as the
\* client sent it, and a slot action keeps its slot in another field.
DeferredIndex(s) ==
    LET i == SelectInSeq(queue_tasks_deferred,
                         LAMBDA item : /\ Info(item.id).kind # "SLOT_ACTION"
                                       /\ Info(item.id).id_slot = s)
    IN  IF i = 0 THEN 1 ELSE i

PopDeferredTask_Missing(s) == UNCHANGED queueVars

PopDeferredTask_KeepsTask(s) ==
    IF queue_tasks_deferred = <<>>
    THEN UNCHANGED queueVars
    ELSE /\ queue_tasks' = <<Head(queue_tasks_deferred)>> \o queue_tasks
         /\ UNCHANGED queue_tasks_deferred

PopDeferredTask(s) ==
    IF queue_tasks_deferred = <<>>
    THEN UNCHANGED queueVars
    ELSE /\ queue_tasks' = <<queue_tasks_deferred[DeferredIndex(s)]>> \o queue_tasks
         /\ queue_tasks_deferred' =
                RemoveAt(queue_tasks_deferred, DeferredIndex(s))

(***************************************************************************)
(* server_slot                                                             *)
(***************************************************************************)
Launched(t) == [state |-> IF IsChild(t) THEN "WAIT_OTHER" ELSE "STARTED",
                task  |-> t, n |-> 0]

Release_KeepsTask(s) ==
    /\ slots' = [slots EXCEPT ![s].state = "IDLE"]
    /\ PopDeferredTask(s)

Release(s) ==
    /\ slots' = [slots EXCEPT ![s] = IdleSlot]
    /\ PopDeferredTask(s)

\* A loop over the slots sends a result for slot s and then releases it.
SendAndRelease(s, type, l) ==
    /\ Send(slots[s].task, type)
    /\ mainPc' = "release"
    /\ at' = s
    /\ loop' = l

ReleaseSlot ==
    /\ mainPc = "release"
    /\ Release(at)
    /\ mainPc' = loop
    /\ loop' = "none"
    /\ at' = at + 1
    /\ UNCHANGED <<current, batch, n_empty_consecutive, waiting, sendVars,
                   readerVars>>

(***************************************************************************)
(* The main thread: start_loop and process_single_task.                    *)
(***************************************************************************)
PopTask ==
    /\ mainPc = "drain"
    /\ IF queue_tasks = <<>>
       THEN mainPc' = "update" /\ UNCHANGED <<queue_tasks, current>>
       ELSE /\ mainPc' = "process"
            /\ current' = Head(queue_tasks)
            /\ queue_tasks' = Tail(queue_tasks)
    /\ UNCHANGED <<queue_tasks_deferred, slots, loopVars, waiting, sendVars,
                   readerVars>>

WaitForTasks ==
    /\ mainPc = "wait"
    /\ queue_tasks # <<>>
    /\ mainPc' = "drain"
    /\ UNCHANGED <<queueVars, slots, current, loopVars, waiting, sendVars,
                   readerVars>>

Process(type) ==
    /\ mainPc = "process"
    /\ current.type = type
    /\ mainPc' = "drain"
    /\ current' = NextResponse

NeedsSlot(t) == Info(t).kind \in {"COMPLETION", "EMBEDDING"}

\* get_slot_by_id wraps around; get_available_slot picks any idle slot.
Available(t) ==
    IdleSlots \cap (IF Info(t).id_slot = -1 THEN SlotIds
                                            ELSE {Info(t).id_slot % NSlots})

EnoughForChildren(t) == Cardinality(IdleSlots) > Cardinality(Children(t))

\* get_free_slots: the children take the first idle slots, in order.
ChildSlot(c, s) ==
    LET free == IdleSlots \ {s}
    IN  CHOOSE x \in free :
            Cardinality({y \in free : y < x}) = c[2] - Info(c).parent - 1

Launch ==
    LET t == current.id IN
    /\ Process("TASK") /\ NeedsSlot(t)
    /\ EnoughForChildren(t) /\ Info(t).launches
    /\ \E s \in Available(t) :
           slots' = [x \in SlotIds |->
                        IF x = s THEN Launched(t)
                        ELSE IF \E c \in Children(t) : ChildSlot(c, s) = x
                        THEN Launched(CHOOSE c \in Children(t) : ChildSlot(c, s) = x)
                        ELSE slots[x]]
    /\ n_empty_consecutive' = 0
    /\ UNCHANGED <<queueVars, at, loop, batch, waiting, sendVars, readerVars>>

\* launch_slot_with_task fails for the first child, or for a task without
\* children: one error is sent and the task is dropped.
Refuse ==
    LET t == current.id IN
    /\ Process("TASK") /\ NeedsSlot(t)
    /\ Available(t) # {} /\ EnoughForChildren(t) /\ ~Info(t).launches
    /\ Send(IF Children(t) = {} THEN t ELSE <<t[1], t[2] + 1>>, "error")
    /\ UNCHANGED <<queueVars, slots, loopVars, waiting, readerVars>>

DeferTask ==
    LET t == current.id IN
    /\ Process("TASK") /\ NeedsSlot(t)
    /\ Available(t) = {} \/ ~EnoughForChildren(t)
    /\ Defer(t)
    /\ UNCHANGED <<queue_tasks, slots, loopVars, waiting, sendVars, readerVars>>

\* SLOT_SAVE, SLOT_RESTORE and SLOT_ERASE: on the idle slot, at once.
SlotAction ==
    LET t == current.id
        s == Info(t).id_slot % NSlots
    IN
    /\ Process("TASK") /\ Info(t).kind = "SLOT_ACTION"
    /\ IF IsIdle(s)
       THEN /\ Send(t, IF Info(t).launches THEN "final" ELSE "error")
            /\ UNCHANGED queue_tasks_deferred
       ELSE Defer(t) /\ UNCHANGED sendVars
    /\ UNCHANGED <<queue_tasks, slots, loopVars, waiting, readerVars>>

\* METRICS is answered at once (so are GET_LORA and SET_LORA, queued at the back).
Metrics ==
    LET t == current.id IN
    /\ Process("TASK") /\ Info(t).kind = "METRICS"
    /\ Send(t, "final")
    /\ UNCHANGED <<queueVars, slots, loopVars, waiting, readerVars>>

CancelTask ==
    LET mine == {s \in SlotIds : slots[s].task = current.id} IN
    /\ Process("CANCEL")
    /\ IF mine = {} THEN UNCHANGED <<slots, queueVars>> ELSE Release(First(mine))
    /\ UNCHANGED <<loopVars, waiting, sendVars, readerVars>>

IgnoreNextResponse ==
    /\ Process("NEXT_RESPONSE")
    /\ UNCHANGED <<queueVars, slots, loopVars, waiting, sendVars, readerVars>>

(***************************************************************************)
(* update_slots                                                            *)
(***************************************************************************)
\* can_batch_with is asked of the first slot of the batch.
Compatible(s, b) == \A x \in b : TaskOf(x).group = TaskOf(s).group

Gathered ==
    LET gen == InState({"GENERATING"})
    IN  {s \in gen : TaskOf(s).group = TaskOf(First(gen)).group}

BeginUpdate ==
    /\ mainPc = "update"
    /\ IF IdleSlots = SlotIds
       THEN mainPc' = "wait" /\ UNCHANGED <<queue_tasks, batch, at>>
       ELSE /\ queue_tasks' = Append(queue_tasks, NextResponse)
            /\ batch' = Gathered
            /\ mainPc' = "prompt"
            /\ at' = 0
    /\ UNCHANGED <<queue_tasks_deferred, slots, current, loop,
                   n_empty_consecutive, waiting, sendVars, readerVars>>

\* The locals of update_slots.
LeaveUpdate == at' = 0 /\ loop' = "none" /\ batch' = {}

PromptSlots ==
    {s \in InState({"STARTED", "PROCESSING_PROMPT"}) :
        s >= at /\ Compatible(s, batch)}

\* The sizes that update_slots refuses.
TooLong(s) == IF TaskOf(s).kind = "EMBEDDING" THEN TaskOf(s).tokens > 1
                                              ELSE TaskOf(s).tokens >= NCtx

OnPromptSlot(s) == mainPc = "prompt" /\ PromptSlots # {} /\ s = First(PromptSlots)

EmptyPrompt(s) ==
    /\ OnPromptSlot(s)
    /\ TaskOf(s).tokens = 0
    /\ SendAndRelease(s, "final", "prompt")
    /\ UNCHANGED <<queueVars, slots, current, batch, n_empty_consecutive, waiting,
                   readerVars>>

RefusePrompt(s) ==
    /\ OnPromptSlot(s)
    /\ TaskOf(s).tokens # 0 /\ TooLong(s)
    /\ SendAndRelease(s, "error", "prompt")
    /\ UNCHANGED <<queueVars, slots, current, batch, n_empty_consecutive, waiting,
                   readerVars>>

\* An embedding is not split: when it does not fit, it waits for the next round.
SkipPrompt(s) ==
    /\ OnPromptSlot(s)
    /\ TaskOf(s).kind = "EMBEDDING" /\ TaskOf(s).tokens = 1 /\ batch # {}
    /\ slots' = [slots EXCEPT ![s].state = "PROCESSING_PROMPT"]
    /\ at' = s + 1
    /\ UNCHANGED <<queueVars, mainPc, current, loop, batch, n_empty_consecutive,
                   waiting, sendVars, readerVars>>

\* One batch of the prompt; the loop ends early when the batch is full.
AddPrompt(s) ==
    /\ OnPromptSlot(s)
    /\ TaskOf(s).tokens # 0 /\ ~TooLong(s)
    /\ slots' = [slots EXCEPT
                    ![s].n = @ + 1,
                    ![s].state = IF slots[s].n + 1 = TaskOf(s).tokens
                                 THEN "DONE_PROMPT" ELSE "PROCESSING_PROMPT"]
    /\ batch' = batch \cup {s}
    /\ \E full \in BOOLEAN : at' = IF full THEN NSlots ELSE s + 1
    /\ UNCHANGED <<queueVars, mainPc, current, loop, n_empty_consecutive, waiting,
                   sendVars, readerVars>>

EndPrompts ==
    /\ mainPc = "prompt"
    /\ PromptSlots = {}
    /\ mainPc' = "decode"
    /\ UNCHANGED <<queueVars, slots, current, loopVars, waiting, sendVars,
                   readerVars>>

\* Nothing to decode: the fourth time in a row is a GGML_ABORT.
DecodeNothing ==
    /\ mainPc = "decode"
    /\ batch = {}
    /\ n_empty_consecutive' = n_empty_consecutive + 1
    /\ mainPc' = IF n_empty_consecutive' > 3 THEN "aborted" ELSE "wait"
    /\ LeaveUpdate
    /\ UNCHANGED <<queueVars, slots, current, waiting, sendVars, readerVars>>

\* The children of a parent whose prompt is done.
Activated_None == {}

Activated ==
    {s \in InState({"WAIT_OTHER"}) :
        \E p \in InState({"DONE_PROMPT"}) : slots[s].task \in Children(slots[p].task)}

Decode ==
    /\ mainPc = "decode"
    /\ batch # {}
    /\ slots' = [s \in SlotIds |->
                    IF s \in Activated THEN [slots[s] EXCEPT !.state = "DONE_PROMPT"]
                                       ELSE slots[s]]
    /\ batch' = batch \cup Activated
    /\ n_empty_consecutive' = 0
    /\ mainPc' = "sample"
    /\ at' = 0
    /\ UNCHANGED <<queueVars, current, loop, waiting, sendVars, readerVars>>

DecodeFails ==
    /\ CanFail
    /\ mainPc = "decode"
    /\ batch # {}
    /\ n_empty_consecutive' = 0
    /\ mainPc' = "fail"
    /\ at' = 0
    /\ UNCHANGED <<queueVars, slots, current, loop, batch, waiting, sendVars,
                   readerVars>>

SampleSlots == {s \in batch \cap InState({"DONE_PROMPT", "GENERATING"}) : s >= at}

OnSampleSlot(s) == mainPc = "sample" /\ SampleSlots # {} /\ s = First(SampleSlots)

Decoded(s) == IF slots[s].state = "DONE_PROMPT" THEN 1 ELSE slots[s].n + 1

\* An embedding is ready, or process_token meets a stop condition.
SampleFinal(s) ==
    /\ OnSampleSlot(s)
    /\ SendAndRelease(s, "final", "sample")
    /\ UNCHANGED <<queueVars, slots, current, batch, n_empty_consecutive, waiting,
                   readerVars>>

SamplePartial(s) ==
    /\ OnSampleSlot(s)
    /\ TaskOf(s).kind = "COMPLETION" /\ Decoded(s) < NPredict
    /\ slots' = [slots EXCEPT ![s].state = "GENERATING", ![s].n = Decoded(s)]
    /\ Send(slots[s].task, "partial")
    /\ at' = s + 1
    /\ UNCHANGED <<queueVars, mainPc, current, loop, batch, n_empty_consecutive,
                   waiting, readerVars>>

FailSlot(s) ==
    /\ mainPc = "fail"
    /\ IdleSlots # SlotIds /\ s = First(SlotIds \ IdleSlots)
    /\ SendAndRelease(s, "error", "fail")
    /\ UNCHANGED <<queueVars, slots, current, batch, n_empty_consecutive, waiting,
                   readerVars>>

EndUpdate ==
    /\ \/ mainPc = "sample" /\ SampleSlots = {}
       \/ mainPc = "fail" /\ IdleSlots = SlotIds
    /\ mainPc' = "wait"
    /\ LeaveUpdate
    /\ UNCHANGED <<queueVars, slots, current, n_empty_consecutive, waiting,
                   sendVars, readerVars>>

(***************************************************************************)
(* The HTTP threads: server_response_reader.                               *)
(***************************************************************************)
HasNext(r) == received_count[r] < Len(req[r])

\* The handler has built its tasks; post_tasks first makes them awaited ...
Register(r) ==
    /\ rpc[r] = "new"
    /\ \E q \in Shapes : req' = [req EXCEPT ![r] = q]
    /\ waiting' = waiting \cup {r}
    /\ rpc' = [rpc EXCEPT ![r] = "registered"]
    /\ UNCHANGED <<queueVars, slots, mainPc, current, loopVars, sendVars,
                   received_count, seen>>

TopTasks(r) ==
    LET top == {i \in DOMAIN req[r] : req[r][i].parent = 0}
    IN  Selected([i \in DOMAIN req[r] |-> Item("TASK", <<r, i>>)],
                 {Item("TASK", <<r, i>>) : i \in top})

\* ... and then queues them, metrics in front; a parent carries its children.
PostTasks(r) ==
    /\ rpc[r] = "registered"
    /\ queue_tasks' = IF req[r][1].kind = "METRICS" THEN TopTasks(r) \o queue_tasks
                                                   ELSE queue_tasks \o TopTasks(r)
    /\ rpc' = [rpc EXCEPT ![r] = "waiting"]
    /\ UNCHANGED <<queue_tasks_deferred, slots, mainPc, current, loopVars,
                   waiting, sendVars, req, received_count, seen>>

\* next(); the reader is destroyed when it has everything or after an error.
Receive(r) ==
    LET res == Head(results[r]) IN
    /\ rpc[r] = "waiting"
    /\ results[r] # <<>>
    /\ results' = [results EXCEPT ![r] = Tail(@)]
    /\ IF res.type = "final"
       THEN /\ received_count' = [received_count EXCEPT ![r] = @ + 1]
            /\ seen' = [seen EXCEPT ![r] = @ \cup {res.index}]
       ELSE UNCHANGED <<received_count, seen>>
    /\ rpc' = IF res.type = "error" \/ received_count'[r] = Len(req[r])
              THEN [rpc EXCEPT ![r] = "stop"] ELSE rpc
    /\ UNCHANGED <<queueVars, slots, mainPc, current, loopVars, waiting, sent, req>>

\* should_stop() after a timeout, or a stream that cannot be written.
Disconnect(r) ==
    /\ CanCancel
    /\ rpc[r] = "waiting"
    /\ rpc' = [rpc EXCEPT ![r] = "stop"]
    /\ UNCHANGED <<queueVars, slots, mainPc, current, loopVars, waiting, sendVars,
                   req, received_count, seen>>

\* stop(): remove_waiting_task_ids,
Unregister(r) ==
    /\ rpc[r] = "stop"
    /\ waiting' = waiting \ {r}
    /\ rpc' = [rpc EXCEPT ![r] = IF HasNext(r) THEN "purge" ELSE "done"]
    /\ UNCHANGED <<queueVars, slots, mainPc, current, loopVars, sendVars, req,
                   received_count, seen>>

\* remove_waiting_task_id of every task: its results are thrown away.
Purge(r) ==
    /\ rpc[r] = "purge"
    /\ results' = [results EXCEPT ![r] = <<>>]
    /\ rpc' = [rpc EXCEPT ![r] = "cancel"]
    /\ UNCHANGED <<queueVars, slots, mainPc, current, loopVars, waiting, sent, req,
                   received_count, seen>>

\* All CANCELs go to the front of the queue, in the order of an unordered_set.
PostCancels(r) ==
    /\ rpc[r] = "cancel"
    /\ \E ids \in SetToSeqs(Ids(r)) :
           queue_tasks' = [i \in DOMAIN ids |-> Item("CANCEL", ids[i])]
                              \o CleanupPendingTasks(queue_tasks, r)
    /\ queue_tasks_deferred' = CleanupPendingTasks(queue_tasks_deferred, r)
    /\ rpc' = [rpc EXCEPT ![r] = "done"]
    /\ UNCHANGED <<slots, mainPc, current, loopVars, waiting, sendVars, req,
                   received_count, seen>>

-----------------------------------------------------------------------------
Init ==
    /\ queue_tasks = <<>> /\ queue_tasks_deferred = <<>>
    /\ slots = [s \in SlotIds |-> IdleSlot]
    /\ mainPc = "drain"
    /\ current = NextResponse
    /\ at = 0 /\ loop = "none" /\ batch = {}
    /\ n_empty_consecutive = 0
    /\ waiting = {}
    /\ results = [r \in Requests |-> <<>>]
    /\ req = [r \in Requests |-> <<>>]
    /\ rpc = [r \in Requests |-> "new"]
    /\ received_count = [r \in Requests |-> 0]
    /\ seen = [r \in Requests |-> {}]
    /\ sent = [t \in TaskIds |-> <<>>]

SlotStep(s) ==
    EmptyPrompt(s) \/ RefusePrompt(s) \/ SkipPrompt(s) \/ AddPrompt(s)
        \/ SampleFinal(s) \/ SamplePartial(s) \/ FailSlot(s)

MainStep ==
    \/ PopTask \/ WaitForTasks
    \/ Launch \/ Refuse \/ DeferTask \/ SlotAction \/ Metrics
    \/ CancelTask \/ IgnoreNextResponse
    \/ BeginUpdate \/ EndPrompts \/ DecodeNothing \/ Decode \/ DecodeFails
    \/ ReleaseSlot \/ EndUpdate
    \/ \E s \in SlotIds : SlotStep(s)

\* GGML_ABORT ends the process.
Alive == mainPc # "aborted"

ReaderStep(r) ==
    /\ Alive
    /\ \/ Register(r) \/ PostTasks(r) \/ Receive(r)
       \/ Unregister(r) \/ Purge(r) \/ PostCancels(r)

Next == MainStep \/ \E r \in Requests : ReaderStep(r) \/ (Alive /\ Disconnect(r))

\* The main thread and the HTTP threads run.
Fairness == WF_vars(MainStep) /\ \A r \in Requests : WF_vars(ReaderStep(r))

Spec     == Init /\ [][Next]_vars
FairSpec == Spec /\ Fairness

-----------------------------------------------------------------------------
(***************************************************************************)
(* Properties.                                                             *)
(***************************************************************************)
Result == [index : 1 .. MaxTasks, type : {"partial", "final", "error"}]
QItem  == {Item(type, t) : type \in {"TASK", "CANCEL"}, t \in TaskIds}
              \cup {NextResponse}
SlotStates == {"IDLE", "WAIT_OTHER", "STARTED", "PROCESSING_PROMPT",
               "DONE_PROMPT", "GENERATING"}

TypeOK ==
    /\ queue_tasks \in Seq(QItem) /\ queue_tasks_deferred \in Seq(QItem)
    /\ slots \in [SlotIds -> [state : SlotStates, task : TaskIds \cup {NoTask},
                              n : Nat]]
    /\ mainPc \in {"drain", "process", "update", "prompt", "decode", "sample",
                   "fail", "release", "wait", "aborted"}
    /\ current \in QItem
    /\ at \in 0 .. NSlots /\ loop \in {"none", "prompt", "sample", "fail"}
    /\ batch \subseteq SlotIds
    /\ n_empty_consecutive \in 0 .. 4
    /\ waiting \subseteq Requests
    /\ results \in [Requests -> Seq(Result)]
    /\ req \in [Requests -> Shapes \cup {<<>>}]
    /\ rpc \in [Requests -> {"new", "registered", "waiting", "stop", "purge",
                             "cancel", "done"}]
    /\ received_count \in [Requests -> 0 .. MaxTasks]
    /\ seen \in [Requests -> SUBSET (1 .. MaxTasks)]
    /\ sent \in [TaskIds -> Seq({"final", "error"})]
    \* GGML_ASSERT(task) in release(): a slot has a task while it processes
    /\ \A s \in SlotIds : IsIdle(s) <=> slots[s].task = NoTask

\* No result outlives its reader: a handler that leaves, at whatever moment,
\* leaves nothing behind in queue_results that nobody would ever take.
NoResultLeak ==
    \A r \in Requests :
        results[r] # <<>> => rpc[r] \in {"registered", "waiting", "stop", "purge"}

\* Once stop() has made a reader's ids unawaited, nothing is queued for it any
\* more, so throwing away what is there (remove_waiting_task_id) is enough.
NoResultAfterLeaving ==
    [][\A r \in Requests :
          rpc[r] \in {"purge", "cancel", "done"} =>
              results'[r] \in {results[r], <<>>}]_vars

\* wait_for_all asserts that no result is received twice: a task is answered
\* at most once, whatever cancels, fails or releases its slot meanwhile.
NoDuplicateResult ==
    /\ \A t \in TaskIds : Len(sent[t]) <= 1
    /\ \A r \in Requests : received_count[r] = Cardinality(seen[r])

Copies(q, t) == Cardinality({i \in DOMAIN q : q[i] = Item("TASK", t)})
Queued(t)    == Copies(queue_tasks, t) + Copies(queue_tasks_deferred, t)
                    + (IF current = Item("TASK", t) THEN 1 ELSE 0)
Running(t)   == Cardinality({s \in SlotIds : slots[s].task = t})

\* Until it is launched, a child travels inside its parent.
Tasks     == {t \in TaskIds : t[2] \in DOMAIN req[t[1]]}
Places(t) == Queued(IF IsChild(t) THEN <<t[1], Info(t).parent>> ELSE t)
                 + Running(t)
Failed(r) == \E t \in Ids(r) : Len(sent[t]) > 0 /\ sent[t][1] = "error"

\* A task its reader waits for is neither lost nor duplicated on its way
\* between the queue, the deferred queue, the main thread and the slots.
NoTaskLost ==
    \A t \in Tasks :
        /\ Places(t) <= 1
        /\ rpc[t[1]] = "waiting" /\ sent[t] = <<>> /\ ~Failed(t[1])
               => Places(t) = 1

\* Tasks and their results are accounted for: the variables have their types,
\* a task is in one place until it is answered, at most once, and a result
\* is kept only for a reader that waits for it.
TasksAccounted ==
    TypeOK /\ NoTaskLost /\ NoDuplicateResult /\ NoResultLeak

\* When a batch is decoded, every child that waits for its parent has one in
\* a slot that is still to finish the shared prompt.
ChildHasParent ==
    mainPc = "decode" =>
        \A s \in InState({"WAIT_OTHER"}) :
            \E p \in InState({"STARTED", "PROCESSING_PROMPT", "DONE_PROMPT"}) :
                slots[s].task \in Children(slots[p].task)

\* update_slots never spins without tokens until it aborts the server.
NoKillSwitch ==
    mainPc # "aborted"

\* defer(): when the loop waits for tasks, every slot is idle; no release is
\* left that could bring a deferred task back.
NothingDeferredWhenIdle ==
    mainPc = "wait" /\ queue_tasks = <<>> => queue_tasks_deferred = <<>>

\* Nothing waits for what cannot come: a child for a parent that has gone, the
\* decode loop for tokens, a deferred task for a release.
NobodyIsStranded ==
    ChildHasParent /\ NoKillSwitch /\ NothingDeferredWhenIdle

\* "Add a new task, but defer until one slot is available": between two
\* rounds no task that any one slot can take is deferred beside an idle slot.
DeferredUntilSlotAvailable ==
    mainPc = "wait" /\ IdleSlots # {} =>
        \A i \in DOMAIN queue_tasks_deferred :
            LET t == queue_tasks_deferred[i].id
            IN  ~ (NeedsSlot(t) /\ Info(t).id_slot = -1 /\ Children(t) = {})

\* The slot a task asks for.
UsesSlot(item, s) ==
    Info(item.id).id_slot # -1 /\ Info(item.id).id_slot % NSlots = s

\* pop_deferred_task: "prioritize tasks that use the specified slot".
ReleasePrioritizesSlot ==
    [][\A s \in SlotIds :
          /\ ~IsIdle(s) /\ IsIdle(s)'
          /\ \E i \in DOMAIN queue_tasks_deferred :
                 UsesSlot(queue_tasks_deferred[i], s)
          => UsesSlot(Head(queue_tasks'), s)]_vars

\* Every request is answered.
AllAnswered ==
    \A r \in Requests : rpc[r] = "registered" ~> rpc[r] = "done"

\* A request that has gone, for whatever reason, leaves the slots for good.
SlotsAreFreed ==
    \A r \in Requests :
        rpc[r] = "done" ~> [](\A s \in SlotIds : slots[s].task \notin Ids(r))

(***************************************************************************)
(* The abstract specification.                                             *)
(***************************************************************************)
Phase(t) ==
    CASE t \notin Tasks                          -> "none"
      [] t \in Tasks /\ Len(sent[t]) > 1         -> "twice"
      [] t \in Tasks /\ sent[t] = <<"final">>    -> "ok"
      [] t \in Tasks /\ sent[t] = <<"error">>    -> "error"
      [] t \in Tasks /\ sent[t] = <<>> ->
             IF Running(t) > 0 THEN "running"
             ELSE IF rpc[t[1]] = "registered" \/ Places(t) > 0 THEN "pending"
             ELSE "dropped"

Client(r) == CASE rpc[r] = "new"                            -> "new"
               [] rpc[r] \in {"registered", "waiting"}      -> "waiting"
               [] rpc[r] \in {"stop", "purge", "cancel", "done"} -> "left"

Service == INSTANCE TaskService
               WITH phase  <- [t \in TaskIds |-> Phase(t)],
                    client <- [r \in Requests |-> Client(r)]

\* The queue, the slots and the readers together implement TaskService: a
\* task is accepted, run and answered at most once, runs only on a slot of
\* its own, and disappears only when its client has gone or its request has
\* failed.
ImplementsTaskService == Service!Spec
=============================================================================
