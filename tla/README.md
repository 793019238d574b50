# TLA+ models of llama-server and its library

This directory holds a specification of the parts of this repository where
threads, queues, caches and retries meet: the server's task queue, the
scheduling of tasks on slots, the batch and decode loop, the cells of the KV
cache, the prompt cache and the context checkpoints, the router and its child
processes, the log, and the CPU thread pool. TLC checks small instances; TLAPS
proves the most important facts for all values of the constants.

1. [The system](#1-the-system)
2. [Modules](#2-modules)
3. [ServerQueue](#3-serverqueue)
4. [ServerSlots and TaskService](#4-serverslots-and-taskservice)
5. [SlotBatch](#5-slotbatch)
6. [KvCells](#6-kvcells)
7. [Checkpoints and PromptCache](#7-checkpoints-and-promptcache)
8. [ServerModels](#8-servermodels)
9. [CommonLog and LogSink](#9-commonlog-and-logsink)
10. [CpuThreadpool](#10-cputhreadpool)
11. [Runs, bounds and fairness](#11-runs-bounds-and-fairness)
12. [Proofs](#12-proofs)
13. [Disagreements found](#13-disagreements-found)
14. [What is not modelled](#14-what-is-not-modelled)
15. [Plan](#15-plan)

## 1. The system

The repository is a fork of llama.cpp with a quantized KV cache (TurboQuant),
a prompt compressor (PFlash) and a HIP/CUDA focus. Most of its lines are
numerical kernels, parsers and third-party code. What carries state over time:

| Component | State | Operations | Hard behaviour | Correct when |
|---|---|---|---|---|
| `server_queue` (`tools/server/server-queue.cpp`) | `queue_tasks`, `queue_tasks_deferred`, `running`, `sleeping`, `req_stop_sleeping`, `time_last_task` | `post`, `defer`, `pop_deferred_task`, `wait_until_no_sleep`, `terminate`, `start_loop` | one condition variable for two kinds of threads, sleep, shutdown, a long section under the lock | no wake-up and no task is lost, the model is unloaded only when idle, waiting requests get on |
| `server_response`, `server_response_reader` | waiting ids, result queue; per reader: ids, `received_count`, `cancelled` | `send`, `recv_with_timeout`, `post_tasks`, `next`, `wait_for_all`, `stop` | disconnection at any moment against results on their way | every task is answered at most once, nothing is left for a reader that is gone |
| slots (`server-context.cpp`) | slot state, task, prompt; parents and children (`n > 1`) | `process_single_task`, launch, `release`, `update_slots` | deferral, cancellation in two steps, an error in the middle of a round | a task is in exactly one place; children always have a parent; slots are freed |
| batch and decode loop (`update_slots`) | `batch`, `i_batch`, `spec_i_batch`, `spec_draft`, `n_batch`, the slot's prompt, the KV cells | fill the batch, decode by chunks, halve, purge, sample, verify drafts | retries after partial work; indices relative to the batch or to a chunk | the cache holds exactly what the slot believes, logits belong to the slot's own last token |
| HTTP handlers, signals (`server.cpp`, `server-http.cpp`) | the handler's reader | post, read, leave; `terminate` | threads of a pool, a signal on any thread | as above |
| prompt cache, checkpoints (`server-task.cpp`, `server-context.cpp`) | list of saved prompts under two limits; per slot a list of checkpoints | `alloc`, `load`, `update`; create, restore, erase a checkpoint | failed allocation and failed restore; memory that cannot be rolled back; copies that are pending | limits hold, no prompt is forgotten that would fit, what is restored is the memory of the tokens it goes with |
| router (`server-models.cpp`) | status of models, child processes, `stopping_models`, two helper threads per child | `load`, `unload`, eviction by LRU, `unload_all`, reports of the child | waits while others change the map; processes that end at any moment; a death that notifies nobody | no more models loaded than allowed, a status is true, no process is left behind, waits end |
| log (`common/log.cpp`) | ring of entries, worker thread | `add`, `pause`, `resume`, `set_file`, `set_colors` | a ring that grows under its reader; a marker in the ring | order kept, nothing dropped, `pause` ends and leaves nothing unprinted |
| KV cells (`src/llama-kv-cells.h`, `src/llama-kv-cache.cpp`) | cells, used set, positions per sequence, head | `find_slot`, `prepare`, `apply_ubatch`, `seq_rm`, `seq_cp`, `seq_add` | undo, cells shared by sequences, cells overwritten outside the window | counters agree with the cells, positions without gaps, undo is exact |
| recurrent memory (`src/llama-memory-recurrent.cpp`) | cells, tails | `find_slot`, `seq_rm`, `seq_cp`, ... | states copied and swapped in place | tails point to the right state |
| batch splitting (`src/llama-batch.cpp`) | used flags, outputs | `split_simple`, `split_equal`, `split_seq` | coupled sequences | every token exactly once, in order |
| CPU threadpool (`ggml/src/ggml-cpu/ggml-cpu.c`) | graph counter, barrier counters, chunk counter, `stop`, `pause`, per thread what it saw last | kick-off, barrier, poll, sleep, pause, resume, free | threads that poll, sleep or are one step ahead; abort in the middle | every chunk computed once and in order, no worker sleeps through a graph, calls return |
| ggml allocator, backend scheduler (`ggml/src`) | free blocks; copies and events | alloc/free; compute | reuse of memory and of copies | no overlap; no stale input |

How they interact: an HTTP handler waits until the server is awake
(`wait_until_no_sleep`), tokenizes, registers its task ids with
`server_response`, posts its tasks to `server_queue`, and polls for results.
The main thread takes tasks from the queue, gives them to slots or defers
them, and runs `update_slots`, which fills one batch for all slots, decodes it
against the KV cache and sends results. Releasing a slot brings one deferred
task back to the queue. A handler that leaves takes its ids back and posts
CANCEL tasks to the front of the queue. Choosing a slot may save its prompt to
the prompt cache and restore another; a prompt that starts keeps what it has in
common with the cached one, or goes back to a checkpoint. A decode places
micro-batches in the cells of the KV cache, and its graph is computed by the
CPU thread pool when no device takes it. In router mode the HTTP threads
belong to the router, which starts one such server per model as a child
process, and reads its log for reports; the child pauses its log to write one.

`PROJECT.json` lists all components with their status, and the hazards of
this code with the properties that cover each.

## 2. Modules

| Module | Models | Used by |
|---|---|---|
| `ServerQueue` | `server_queue` with every thread, its mutex and its condition variable | `MCServerQueue`, `ServerQueueProofs` |
| `TaskService` | the promise to a handler: abstract specification | `ServerSlots` (refinement) |
| `ServerSlots` | the queue's contents, the slots and the readers of results, composed | `MCServerSlots`, `ServerSlotsProofs` |
| `SlotBatch` | `update_slots` token by token over a unified KV cache | `MCSlotBatch`, `SlotBatchProofs` |
| `KvCells` | one stream of the KV cache, cell by cell, and `llama_context::decode` | `MCKvCells`, `CacheProofs` |
| `Checkpoints` | the prefix a slot keeps and its context checkpoints | `CacheProofs` |
| `TokenTexts` | sequences of tokens: the common prefix, a loop that erases | `Checkpoints`, `PromptCache` |
| `PromptCache` | the prompt cache, the choice of a slot, forks between streams | `MCPromptCache`, `CacheProofs` |
| `ServerModels` | the router, its clients and child processes | `ServerModelsProofs` |
| `LogSink` | the promise of the log: an unbounded queue that can be closed | `CommonLog` (refinement) |
| `CommonLog` | the ring of entries, its worker, pause and resume | `CommonLogProofs` |
| `CpuThreadpool` | the CPU thread pool and its barrier | `CpuThreadpoolProofs` |
| `QueueLemmas` | nothing: facts about copies of an element in a deque, least numbers, what a loop keeps and the loop that erases from a deque | `ServerQueueProofs`, `ServerSlotsProofs`, `SlotBatchProofs`, `CacheProofs` |

The first three models split one program by question. `ServerQueue` has the waits
and sees slots only as "who holds one". `ServerSlots` leaves the condition
variables to it (there, `NoLostWakeup` and `QueuedTaskIsTaken` say that the
loop runs when there is a task) and follows tasks and results; a round's
decode is one step. `SlotBatch` leaves the threads out, since all of
`update_slots` runs on the main thread, and follows tokens, chunks and cells.
`KvCells` opens the step that `SlotBatch` takes for granted, the placing of a
batch in cells; `Checkpoints` and `PromptCache` represent a memory by the text
it was computed from, which is what `SlotBatch` has no need to know.

A definition named `Name_Variant` is a plausible mistake in the code that
`Name` models. No action uses it; `PROJECT.json` "mutants" puts it in the place of
`Name` to show that a property would notice. Properties that are checked
together are conjunctions of named parts (`KvIsSound == TypeOK /\ CountersTrue
/\ ...`); such a property has a mutant for each part that one can break.

## 3. ServerQueue

One action is one critical section of `mutex_tasks`, with the thread-local
work next to it. `waiters` is the set of threads blocked on `condition_tasks`;
`NotifyOne` removes any one of them, `NotifyAll` all; `SpuriousWake` removes one
for no reason. Where the code re-evaluates a predicate, a woken thread that
finds it false goes back into `waiters`.

| Variable | Code |
|---|---|
| `running`, `sleeping`, `req_stop_sleeping` | members of the same names |
| `idle` | whether `idle_sleep_ms` have passed since `time_last_task`; `Tick` sets it, what touches the time resets it |
| `queue_tasks`, `queue_tasks_deferred` | the deques |
| `mainPc`, `current` | where the main thread is in `start_loop`, and the task it moved out of the queue |
| `work` | the requests whose task is in a slot |
| `pc`, `result` | the HTTP threads, and what `server_response` holds for them |
| `terminated` | `terminate()` has been called |

The mutex is visible only in `LockFree`: the main thread keeps it while it
unloads (`mainPc = "unloading"`) and reloads (`"loading"`) the model. The
callbacks are reduced to their outcomes: `Launch`, `Refuse`, `DeferTask`,
`CancelSlot`, and in `update_slots` `BeginUpdate` (posts NEXT_RESPONSE),
`Finish(r)` (final result and release) and `EndUpdate`.

## 4. ServerSlots and TaskService

A request is a sequence of task records (`TaskInfo`): its kind, the length of its
prompt in batches, the slot it names, its parent, whether
`launch_slot_with_task` accepts it, and the group that `can_batch_with` compares.
The handler's thread registers ids (`Register`), posts (`PostTasks`), receives
(`Receive`), disconnects (`Disconnect`), and leaves in the steps of `stop()`:
`Unregister`, `Purge`, `PostCancels`. These are separate because `server_response` and
`server_queue` have different mutexes and the main thread runs between them.

The main thread pops a task and processes it (`Launch`, `Refuse`, `DeferTask`,
`SlotAction`, `Metrics`, `CancelTask`), then goes over the slots in order, as
`update_slots` does: `BeginUpdate` gathers the slots that generate; `EmptyPrompt`,
`RefusePrompt`, `SkipPrompt` and `AddPrompt` visit the slots with a prompt;
`Decode`, `DecodeFails`, `DecodeNothing` (and its kill switch) come next, and
`SampleFinal`, `SamplePartial` or `FailSlot` visit the slots again. A result is
sent in one step and the slot released in the next (`ReleaseSlot`), because
another thread may run in between. `sent` is a history variable.

Data left out: the choice among idle slots (similarity, LRU) is any idle slot;
a round's decode is one step (the chunks are in `SlotBatch`); stopping is
nondeterministic up to `NPredict` tokens; embeddings stand for every task that
must not be split.

`TaskService` has one variable for tasks (none, pending, running, ok, error,
dropped) and one for clients. `ServerSlots` maps its state to it with `Phase` and
`Client` and implements it (`ImplementsTaskService`): a task is accepted once,
runs at most once and never on more slots than there are, is answered at most
once, and vanishes without an answer only if its client left or a task of its
request failed. Tasks of one request that share a prompt may start together.

## 5. SlotBatch

A token is its sequence and position, and whether it has an output. The KV
cache is a set of cells `[pos, seqs]`; this is a faithful set because no sequence holds a
position twice. `SeqRm`, `SeqsClear` and `SeqCopy` are the `llama_memory_*` calls;
`Consistent` is the check of `llama_batch_allocr::init` that a sequence's positions
go on without a gap; `HasRoom` is `find_slot` of a unified cache.

| Variable | Code |
|---|---|
| `slots[s].state`, `.parent` | `server_slot::state`, `task->id_parent` (as the parent's slot) |
| `slots[s].n_task`, `.n_tokens` | `task->n_tokens()`, `prompt.n_tokens()` |
| `slots[s].i_batch`, `.dft` | `i_batch`, `spec_i_batch` (empty: no drafts) |
| `batch`, `n_batch`, `i`, `view` | the batch, and the locals of the decode loop |
| `phase`, `at` | where in `update_slots`, and at which slot |

`Gather`/`GatherDraft` add the sampled token and drafts of a slot that generates,
`AddPrompt` a part of a prompt after trimming the cache to what is reused;
`Decode`, `MakeRoom` (purge one idle slot, or halve `n_batch`) and `DecodeFails` are
the three outcomes of `llama_decode`; `Sample` is the sampling loop and `Speculate`
the verification of drafts after it. `Launch` clears the other idle slots when
`ClearIdle` is set. The number of prompt tokens reused is any number up to what
is cached, minus one for a prompt that is cached entirely.

`phase = "overflow"` and `phase = "nologits"` stand for the two asserts
(`llama_batch size exceeded`, `logits != nullptr`); nothing moves afterwards.

## 6. KvCells

One stream of `llama_kv_cache`: its cells (`kv.cells`: position and sequences
per cell, the set of used cells, and per sequence how often each position
occurs) and the head where the next search starts. `len[s]` is what the server
believes of a slot: the tokens it takes to be in the cache.

An operation on cells is a loop in the code; in each round it changes one cell, `used`
and the counters. Here it is written as what the loop leaves behind, which is
possible because a round reads only its own cell: the counters change by how
often the positions occur among the cells concerned (`Occurs`), and what becomes
empty is a set (`Freed`, `Below`). So `SeqRmCells`, `SeqAddCells`, `PosAddCells` and
`SetCells` are the loops over `seq_rm`, `seq_add`, `pos_add` and `set`, and `PutTokens` that over
the tokens of a ubatch (`rm`, `pos_set`, `seq_add`). `FindSlot` takes the first n usable cells
in the order of the search. Only the loops over ubatches, in which a round depends on
the one before, are recursive functions: `PrepareLoop`, `Undo` and `Compute`.

| Action | Code |
|---|---|
| `DecodeBatch` | `llama_context::decode` of a batch: split into ubatches (`Split`), `prepare` (find a place for all of them, overwriting as it goes, then undo), then per ubatch `apply_ubatch` and a computation that may fail or be aborted, which removes the positions of its ubatch and keeps the ubatches before; `update_slots` then clears every slot that is processing (`ComputeFails`) |
| `Reuse` | a new prompt keeps a prefix (`seq_rm` of the rest), where the window allows it (`Reused`) |
| `Reject` | removal of rejected draft tokens after a decode |
| `CopyState` | `seq_cp` of a parent's prompt to a child: cells become shared |
| `Shift` | context shift: `seq_rm` and `seq_add`, which moves the head |
| `Clear` | `seq_rm` of a whole sequence |

What is easy to get wrong here is that everything is kept twice: `find_slot`
and the server read `used` and `seq_pos`, never the cells, and `prepare` saves
and restores both through a temporary copy. `KvIsSound` says that the two agree
(`CountersTrue`), that positions have no gap (`Contiguous`) and that what the
next token attends to is present and nothing after it (`NeededPresent`);
`OthersUntouched` that an operation on one sequence leaves the others what they attend
to (`Isolation`), and that a `prepare` that fails leaves everything (`PrepareRestores`);
`AlwaysFits` that the size `llama_kv_cache_iswa` chooses for the windowed cache suffices.

`setup` says what a server makes use of: the window, requests with several completions
(`copies`), context shifts, drafts, prompts that are sent again as they were (`repeats`) and
computations that fail. Section 13 shows which combinations go wrong.

## 7. Checkpoints and PromptCache

Both represent a memory by the tokens it was computed from, because the
contents of a position depend on all the tokens before it. A memory that
is used for other tokens than its own is then visible as two different texts.

`Checkpoints` is one slot over a memory that cannot be rolled back at will: a
sliding window, whose oldest cells are gone, or a recurrent state. `StartPrompt`
is the beginning of `update_slots` for a new prompt: the common prefix, the look
for a checkpoint, the removal of those that are no longer valid, the removal of
the rest from the memory. `Chunk` decodes part of the prompt and may
make a checkpoint before it, `Generate` a token of the answer. `Reclaim`,
`RestoreSlot`, `ContextShift` and the two cases inside other actions that
`Hazards` names are off in the registered run; section 13 says why.

`PromptCache` (specification `CacheSpec`: its names keep apart from those of
`Checkpoints`, so that proofs can speak of both) is `server_prompt_cache` with the choice of a slot that drives it:
`Launch` (by similarity, or the least recently used slot, whose prompt may be
saved and replaced by a better one from the cache), `LaunchAt` (the task names
its slot), `Decode`, `Stop`, `Erase`. It covers memory with one stream per
slot, where a fork copies the buffer only at the next decode
(`pending`; a round's copies go from parents to children, so that they are a set), and unified memory, where idle slots are cleared, restoring may
fail for lack of room, and a decode that does not fit purges a slot or ends
all. `oom` is the failed allocation that makes the cache lower its own limit.

## 8. ServerModels

The router. `status`, `exitCode`, `stopping` and `used` are the table and
`stopping_models`, all under one mutex, so each section under it is one action.

| Actions | Code |
|---|---|
| `RequestLoaded`, `AskLoad`, `AskUnload`, ... `Proxy`, `Touch` | HTTP threads: load a model (evict the least recently used one, wait, check again, spawn), wait until it is loaded, use it, unload it |
| `ReadReport`, `ReadEof`, `Reap` | the managing thread: reads the child's reports, joins the stopper, waits for the process and sets the last status |
| `StopperLook`, `TellExit`, `StopperDone`, `Kill` | the stopping thread: waits on `cv_stop`, sends the exit command, kills after a timeout |
| `Ready`, `FallAsleep`, `Wake`, `ObeyExit`, `Exit`, `Die` | the child process: a `llama-server`, seen from outside; it may exit at any moment |
| `UnloadAll`, `Joined` | the router's shutdown |

A wait on `cv` is a guard, because every change of a status notifies it and
the waiter may be late. A wait on `cv_stop` has states of its own, because half
of what it waits for (the death of the child) notifies nobody. An exiting
process closes its output before it can be waited for; this moment
(`"closing"`) is in the model, and it matters: see `Wedged` in section 13.
`Alive` is `subprocess_alive` of the vendored `subprocess.h`. The look that finds the process at its end
also takes its exit status from the system and closes its input; that is left out, since
`subprocess_join` later returns the status that was kept.

## 9. CommonLog and LogSink

`CommonLog` is `common/log.cpp`: the ring with `head` and `tail`, `Add` from any
thread (doubling the ring when it is full), the worker (`WorkerWait`,
`WorkerTake`, `WorkerPrint`) and a control thread that pauses, resumes or
changes the output (`Pause`, `Join`, `Resume`, `BeginChange`, `EndChange`).
Every lock has one critical section, hence one action. `LogSink` is what a
caller may rely on: messages are printed once, in the order of acceptance, a
closed log accepts nothing and, when it is opened again, has nothing left to
print. `PendingMessages` maps the ring and the worker's copy to its queue.

## 10. CpuThreadpool

The thread pool of `ggml-cpu.c`, built without OpenMP. Thread 0 is the caller
of `ggml_graph_compute`; it installs a graph and a plan (`Install`), publishes
them by the graph counter that also holds the number of threads (`Kickoff`),
works itself, and takes the plan down when it returns (`Return`). Workers poll,
sleep, look for a graph, or lie in the pause (`Top` to `Dispatch`). A node is
converted in parts, then after a barrier computed in chunks from a shared
counter, and another barrier follows. The barrier is modelled by its atomic
accesses (`EnterBarrier`, `Arrive`, `ResetBarrier`, `OpenBarrier`, `Spin`): a
fast thread can be in the next barrier while a slow one still spins in the
last. An abort names the node before which all threads leave; `Pause`,
`Resume` and `Free` come from the caller between graphs.

## 11. Runs, bounds and fairness

| Run | Instance | Shows |
|---|---|---|
| `queue_loop` | 3 requests (one refused), 1 slot, sleep, cancel, shutdown, signals | no wake-up, waiter or task is lost; the model is unloaded only when idle; a queued task is taken while the server is awake; a started loop stops |
| `slots_safety` | 2 requests of 9 shapes, 2 slots, disconnections, decode errors | no task or result is lost, duplicated or left over; `ServerSlots` implements `TaskService` |
| `slots_answers` | 2 requests of 4 shapes, 2 slots, decode errors | nobody is stranded: children have parents, no kill switch, nothing stays deferred in an idle server; a release prefers the task that names the slot; all are answered |
| `slots_cancel` | 2 requests of one task, disconnections | their slots are freed for good |
| `batch_tight` | 3 slots, batch 2, context 4, 4 cells | chunks, halving and purging keep prompt, cache and logits together; the context error is the last resort; a round ends |
| `batch_ample` | 2 slots, batch 3, drafts, n=2, `ClearIdle`, 10 cells, decode errors | rollback, copy and clearing keep them together; the context never overflows |
| `log_ring` | a ring of 2 that doubles twice, 6 messages, any number of pauses | nothing is dropped or reordered, a pause leaves nothing unprinted, pause and worker go on; `CommonLog` implements `LogSink` |
| `threadpool_graphs` | 3 threads, 3 nodes (one skipped), 4 chunks, 2 graphs, a pause, an abort, free | chunks are computed once and in order, the plan outlives its readers, no worker sleeps through a graph, calls return |
| `router` | 2 models, limit 1, 2 clients, 3 requests, one crash, shutdown | the limit holds, the table is true of the processes, statuses follow the diagram, waits end |
| `kv_unified` | 2 sequences, 5 cells, ubatches of 1, batches of 2 | the cells are sound, the window always fits, others are untouched |
| `checkpoints_slot` | both kinds of memory, prompts and answers up to 7 tokens of 2 kinds, 2 checkpoints | a slot goes on from the memory of its own tokens, with a token left; checkpoints agree with the prompt |
| `prompt_cache` | 2 slots, 3 prompts, streams without limit, unified with limit 5 | every prompt, in a slot or saved, comes with its own memory; the limit holds; nothing that fits is forgotten |

The configurations outside this table (`*_v_*.cfg`) are the subject of section
13, except `ServerModels_limit.cfg`: `TypeOK` and the safety properties of the
router with three models and a limit of two, which pass.

The bounds and why they are enough:

* Requests and slots. Two requests on one slot force deferral; a third makes the
  deferred queue longer than one and puts a second waiter on the condition variable, which is
  what the wake-up questions need. `NSlots = 2` lets a parent and a child exclude
  or admit another task. In
  `ServerSlots` two requests of two tasks give four tasks for two slots, so that two
  may be deferred at once.
* `MaxTasks = 2`: a parent and one child, or two independent tasks. More children
  repeat the second.
* `NPredict = 2` lets a slot send a partial result and then a final one; `NCtx = 3` in batches
  allows a prompt of one and of two rounds, and one that is refused.
* `SlotBatch`: a context of 4 tokens and a cache of the same size
  make the slots compete, so a chunk of 2 is halved to 1, and a third slot's prompt is split
  over rounds or purged. In the ample run the cache holds both contexts, and a batch of 3
  is exceeded when both slots draft. Requests come without end, so every cached length meets every
  new prompt.
* `CommonLog`: six messages fill the ring of 2 and then of 4, in every rotation of
  head and tail, and leave some for after the pause. The theorems of section 12
  lift the bound.
* `CpuThreadpool`: with three threads one can be a whole barrier behind the second
  while the third is between. Two graphs with any number of threads up to three
  cover a worker that joins, leaves out and joins again. `MaxGraphs` bounds the
  counter that the code keeps in 15 bits; its wrap-around is not modelled.
* `ServerModels`: two models and a limit of one force eviction; three requests by two
  clients let one model be loaded twice with the other's eviction between. A child
  has at most one unread report (`PipeBound`).
* `KvCells`: window 2 for two sequences with ubatches of one is exactly the size the
  code would choose, 5 cells; the full cache of 5 cells is too small for two
  sequences of 4, so that `prepare` fails with part of the batch placed. Three set-ups
  are checked (`MCSound`): a window; a full cache with context shifts, drafts, repeated prompts and
  failures; one with copies in the place of the shifts.
* `Checkpoints`: 64, the distance and the least length in the code, become 1 and 3;
  no prompt and no first chunk is shorter than 2 (`MinChunk`). Two checkpoints of a
  prompt of up to seven tokens make the oldest be dropped. Two kinds of tokens
  suffice to make any two prompts diverge at any place.
* `PromptCache`: one prompt is a prefix of nothing, one diverges at once and one
  in the middle; answers extend them, so contained, diverging and equal
  prompts all occur. The limit of 5 holds two of them, not three.
* All other counters are bounded by these.

Requests are interchangeable in `ServerSlots`, so `slots_safety`, whose properties are
all safety properties, uses symmetry. Deadlock is checked in `batch_tight`, `kv_unified`, `checkpoints_slot` and
`prompt_cache`, where the system never stops; the other
configurations have shutdown, finitely many requests or messages, or an assert, after which
nothing may move.

Fairness. `ServerQueue`: weak fairness of the main thread and of each HTTP
thread (they are operating-system threads that hold no lock for ever), of the
timeout of `wait_for`, and strong fairness of `Finish(r)`: a generation is bounded
by `n_predict` and by the context, so a slot that is decoded again and again
finishes. `ServerSlots`: weak fairness of the main thread and of each reader;
the number of tokens is bounded in the model, so no assumption about stopping is
needed. `SlotBatch`: weak fairness of `update_slots`. No client is assumed to
disconnect, no signal to come and no spurious wake-up to happen.
`CommonLog`: weak fairness of the worker and of the control thread once it has
begun to join it or to change the output; nobody has to log, pause or resume.
`CpuThreadpool`: weak fairness of every thread inside a graph, of the workers
between graphs, and of the caller inside a call; it need not call anything.
`ServerModels`: weak fairness of the router's threads, of a child that
starts up, and of a process that is dying; no child has to obey the exit command
(the stopping thread kills it) or to report sleep. The other modules state
no liveness and assume no fairness.

## 12. Proofs

`tlapm` checks every leaf; the assumptions are the named `ASSUME`s on the constants.

| Theorem | For all | Argument |
|---|---|---|
| `TypeCorrect` (ServerQueueProofs) | requests, slots, flags | `Typed` adds that `work` is finite, which the count of slots needs; the lemmas on `RemoveFirst` show that clean-up keeps a sequence of tasks |
| `NoLostWakeupHolds`, `NoWaiterForgottenHolds`, `SleepsOnlyWhenIdleHolds` | same | one inductive invariant, `QueueInv`: while awake only the main thread is in `waiters`, so `notify_one` can only reach it; while a slot works and the loop is past `update_slots` there is a NEXT_RESPONSE in the queue or the loop is not at its end |
| `NoTaskLostHolds` (ServerQueueProofs) | same | `LostInv`: a task has no copy before it is posted, one in all places together from then until its answer, and only the task of a client that has left is cancelled. Copies in a deque are counted (`QueueLemmas`), so that a task cannot be both left behind and doubled |
| `NoResultAfterLeavingHolds` (ServerSlotsProofs) | requests, shapes, slots | `ReaderInv`: a reader is in `waiting` only until it has unregistered; then every step of the main thread (`MainTouches`) leaves its results alone because `send` drops them |
| `TasksAccountedHolds` (ServerSlotsProofs) | requests, shapes, slots, sizes | `IInv`: what the main thread holds at each place of its program (`Control`, `SlotsOk`), what is in the queues (`QueuesOk`), where a task is (`PlacesOk`: never in two places; gone once answered, but for the slot about to be released; in exactly one place while its reader waits and it is neither answered nor refused) and what is in the result queue (`AnswersOk`, `ResultsOk`). Every step of the main thread is one of five kinds (`MainStepIs`): it moves tasks without an answer, answers the task of a slot, frees a slot, finishes the task in hand or places one with its children |
| `TaskServiceRefinement` (ServerSlotsProofs) | same | under `IInv` the phase of a task can be told without counting (`View`); each of the five kinds of step, and each step of a reader, is then a stutter or one step of `TaskService`, for several tasks only where it starts them together; the tasks in slots inject into the slots |
| `ReleasePrioritizesSlotHolds` (ServerSlotsProofs) | same, with `NamesSlots` | the index that `pop_deferred_task` finds is that of a task for this slot, and nothing is put before it until the slot is idle |
| `NobodyIsStrandedHolds` (ServerSlotsProofs) | same, with `Ordinary` | `StrandInv`: who waits has what it waits for. A waiting child has a parent in a slot whose prompt is not yet sampled (`ParentsOk`); a finished prompt is in the batch until it is sampled (`DoneOk`); a round that has gathered nothing has a prompt to add (`RoundOk`); while a slot works there is a NEXT_RESPONSE (`RoundGoesOn`); while a task is deferred, a slot works or a task is on its way to one, told by counting more copies in all places than in the deferred queue (`DeferredOk`); only a failed decode makes a client leave, and then its slots are free (`FailedOk`) |
| `ErrorOnlyWhenFullHolds` (SlotBatchProofs) | sizes with `NBatch # 1` | `ShrinkInv`: `n_batch` is smaller than `NBatch` only if no idle slot has a cached prompt; halving changes no slot |
| `BatchFitsWithoutDrafts` (SlotBatchProofs) | sizes with `MaxDraft = 0` | `FitInv`: while slots are gathered the batch is no longer than the number of slots passed, which the allocated size covers (more than `n_batch` slots can generate once children are activated) |
| `CacheMatchesSlotsHolds`, `SampleSeesItsLogitsHolds`, `ContextShiftNeverNeededHolds` (SlotBatchProofs) | sizes with `MaxDraft = 0`, `CanFork = FALSE` | `IInv`: the cache has the first tokens of a slot, and the others are one block of consecutive entries in what is left of the batch; a slot that waits for logits waits for those of its last token; each cell belongs to one sequence |
| `CacheMatchesSlotsWhenAmple`, `SampleSeesItsLogitsWhenAmple`, `DraftSeesItsLogitsWhenAmple`, `ContextShiftNeverNeededWhenAmple`, `LogitsNotNullWhenAmple`, `ChildStartsWithPromptWhenAmple` (SlotBatchProofs) | sizes with `Ample`; drafts, children and failed decodes allowed | `AmpleInv`: the cache holds no position of a sequence twice (`Distinct`) and, but for tokens that are still in the batch, exactly the prompts of the slots (`AmpleAgree`); a slot with drafts has them in the batch in a row, in order and with logits (`Verifies`); the batch is one chunk (`AmpleBatch`) |
| `RoundDescends` (SlotBatchProofs) | all sizes, drafts, children, failures | `RoundInv`: while a chunk is decoded some of the batch is left, and a decoded chunk has tokens; then each action is a step to the next slot, loop or chunk, a retry with less, or the end of the round |
| `SlotMemoryIsSoundHolds`, `CheckpointsAgreeHolds` (CacheProofs) | kinds of memory, sizes and texts with `Usual` | `IInv`: `MemOk` (the memory was computed from the slot's tokens and holds the window before the next one, or the slot has just gone back and may make no checkpoint yet), `ChecksOk` (checkpoints in order, far enough apart, each of at least two tokens), `TaskOk` (they agree with the task while it is evaluated and with the slot's tokens afterwards) |
| `PromptsAreTrueHolds`, `CacheIsTidyHolds` (CacheProofs) | slots, prompts, answers, configurations | `CacheInv`: the children a started slot waits with are its own and waiting (`KidsOk`); both ends of a pending copy generate (`CopiesOk`), so that no copy hits a slot that was saved, restored or started in the meantime; with the copy made, each buffer begins with the slot's prompt (`MemoryOk`); the cache is true and unnested (`Tidy`) and within its limit (`Within`); the order of use is one (`LruOk`) |
| `CountersTrueHolds` (CacheProofs) | sequences, cells, ubatches, set-ups | `KvInv`: the types, among them that a cache is one whose counters are those of its cells (`KvT`); each operation of the cache takes such a cache to such a cache, and changes a cell as it should |
| `KvIsSoundHolds`, `AlwaysFitsHolds`, `OthersUntouchedHolds` (CacheProofs) | same, with `SoundSetups` | `KvSoundInv`: a sequence has the positions from some one on up to its last token, each in one cell, and where the first one is not 0 all before it are out of the window of the next token (`Lines`); without copies no cell is shared (`Single`); what may be rejected was decoded |
| `TypeCorrect`, `RingFaithful`, `PauseFlushes` (CommonLogProofs) | initial capacities, numbers of messages | `IInv` is `TypeOK`, `NothingDropped` and `Phases`, which says which states of the worker and of the control thread go together |
| `Refinement` (CommonLogProofs) | same | `PendingIs`: under `IInv` the mapped queue is the run of consecutive numbers from the last printed message to the last accepted one, so `Add` appends its end and `WorkerPrint` removes its beginning; everything else is a stutter or opens and closes the log |
| `LimitHolds`, `TableHolds`, `DiagramHolds` (ServerModelsProofs) | models, clients, limits, sleepers | `IInv` is, for each model, `Matched`: one of five combinations of process, status, managing thread and unread report; with `Counted` (the limit in terms of statuses), `NoCalls` and `AllGone` for the shutdown |
| `ThreadsInStep`, `PlanIsOutlived`, `GraphsAreComputed`, `SleepersAreNotNeeded` (CpuThreadpoolProofs) | threads, graphs, chunks | `IInv`: `BarrierInv` (the counter of the barrier is the number of threads that have arrived), `StopInv`, and `Segment`, which says that all threads are in the same stretch between two barriers: past the last node (`EndSegment`), between nodes (`LoopSegment`) or dividing the chunks of one (`ChunkSegment`) |

The invariants are stronger than the properties because these are not
inductive: `NoLostWakeup` speaks of the main thread's wait, but is kept only
because no HTTP thread can be waiting beside it, which in turn holds only
because a waiter implies `sleeping`. `NBatch # 1` is needed: with a batch of one
token `update_slots` reports the error before it looks at idle slots. With drafts
`BatchFits` is false (section 13). `NothingDropped` needs `Phases` because
whether the last entry of the ring is a message or a marker is known only from
where the two threads are. The limit is kept although a client looks at it
and spawns in different sections, because `Spawn` looks again; `Counted` alone
does not say so of processes, `Matched` does.

`Ample` is `NSlots <= NBatch` and `NSlots * NCtx <= Cells`: the batch has
room for one token of each slot, and the cache for a full context of each. It is what
the server gets with one slot, or with a KV cache of one stream per slot
(`--no-kv-unified`; `llama-context.cpp:215` divides the cells by the slots and a slot's
context is its share, `server-context.cpp:812`) and the default `n_batch` of 2048.
`batch_ample` is an instance. The invariant then speaks
of one chunk only, because a decode never has to be retried with less. This is where the work lies:
that the cache never runs out follows from the invariant itself (`AmpleCells`). Before
a decode, cells and chunk together hold each position of a slot at most once and none
beyond its prompt, and a prompt ends below `n_ctx`, so that sequences and positions bound the
cells from above (`DistinctFits`, an injection into slots times positions). A cell that
a parent shares with its children is counted for the parent only. `AmpleSpeculate` is the
step that unit tests hardly reach: rejected drafts leave the cache and the
prompt together, from the same position, while other slots' drafts are
still to be verified from the same chunk. `Ample` cannot be dropped: a shared cache that
fills up splits the batch. Then drafts make `DraftSeesItsLogits`, `LogitsNotNull` and
`CacheMatchesSlots` false (constants of `SlotBatch_v_logits`), and children
`SampleSeesItsLogits`, `ChildStartsWithPrompt` and `CacheMatchesSlots` (`SlotBatch_v_fork`);
`ContextShiftNeverNeeded` holds with both, but is not proved for such a cache. The
capacity of the batch is a different matter: `SlotBatch_v_overflow` has an ample cache.

`RoundDescends` is what can be proved of `RoundEnds`. Ordered by loop, by
tokens left in the batch, by cached prompts left and by `n_batch`, each disjunct of `Descends` goes
down; that steps go on being taken is fairness, and stays with TLC. In
particular the retries of `llama_decode` end: each takes a cached prompt away or
halves an `n_batch` above one, and only a decoded chunk sets `n_batch` back.

The two theorems on `PromptCache` have no hypothesis but the assumptions on the
constants. A handler works on a state of its own (`World`) through several steps, some of them in loops
over slots or saved prompts; each is shown to keep `GoodWorld` (an idle slot has the
memory of its prompt, the cache is tidy) and to change of the slots only what idle
ones hold (`Keeps`). A loop is a recursive function, and `LoopKeeps` in `QueueLemmas`
says that what every round keeps is kept by the loop. `Settled`, the condition
under which a slot stops in `Next`, cannot be dropped (`PromptCache_v_fork`): without it
`CopiesOk` is false, and then `MemoryIsTrue` is.

For `KvCells` the work lies in `prepare`. It places the ubatches one after the other
on top of each other, and restores in reverse order only the cells it took, not those that
`apply_ubatch` purged; then the ubatches are placed in the cells found, in a cache
that is not the one they were found in. `UndoneTo` says what each cell is during the undo:
what it was before the last ubatch that took it, or what it was in the end. So a
cell that was purged and not taken is empty for good. `UndoneWhole` concludes that without purges, that
is without a window, nothing has changed; `PlacedAgain` that with them, placing all
ubatches again still gives the cache that `prepare` had reached, since what one of them
overwrites the first time is overwritten or already purged the second time.
So soundness need be shown of the simulation only (`SimulatedLines`), one ubatch that continues the lines at a time
(`ApplyLines`). `SizeFits` counts the cells that cannot be overwritten: no more than the window of
each sequence, by an injection into sequences times window, so that a ubatch is left.

`SoundSetups` has no set-up with both copies and shifts, and none with a window and
also copies, shifts, drafts, repeated prompts or failures, or with fewer cells than
`llama_kv_cache_iswa` allots. Section 13 gives a counterexample for each of these but two
(`MCShared`, `MCRepeats`, `MCDrafts`, `MCFails`; copies with a window, `MCCopies`, violate `SharedFits`,
so that a decode may find no place after it has purged). Context shifts do not occur with
a window: `llama_kv_cache_iswa::get_can_shift` is false where its two caches
differ in size (`llama-kv-cache-iswa.cpp:220`), and `server-context.cpp:785` then switches
them off. With fewer cells `AlwaysFits` claims nothing. Without a window, drafts, repeats and failures are
in the theorem, beside copies or beside shifts.

The hypotheses that name no usual size are as weak as the code allows.
Without `MaxDraft = 0` and `CanFork = FALSE`, `CacheMatchesSlots` and
`SampleSeesItsLogits` are false when the cache splits a batch
(`SlotBatch_v_logits`, `SlotBatch_v_fork`); without drafts and forks they hold for
every size of cache and batch. `Usual` leaves out the `Hazards`, each of which breaks
`SlotMemoryIsSound` or `CheckpointsAgree`, and chunks and windows of one
token: TLC violates `CheckpointsAgree` with `MinChunk = 1`, `MinTokens = 2` and with
`Window = 1`, `MinTokens = 2`. The invariant of `Checkpoints` shows why these
sizes matter: every checkpoint has at least two tokens, and a slot that has just
gone back, whose window is not complete, has no more tokens than its last
checkpoint, so that it makes no new one. `NamesSlots` leaves out requests for a slot the
server does not have and slot actions: `pop_deferred_task` compares `id_slot` as
it was sent, which is negative or too large in the one case, and in the
other names no slot at all, since a slot action keeps its slot elsewhere (section 13).
`Ordinary` leaves out what makes `NobodyIsStranded` false: prompts that are empty or too
long (`ServerSlots_v_killswitch`), slot actions (`ServerSlots_v_deferred`), tasks that are
refused, and clients that leave early, since a client that leaves may remove the one task that
a release has brought back. A failed decode makes clients leave too: with decode
errors a request has only one task that is not a child, so that nothing of it is
queued when it fails. Without this, TLC violates the property (section 13). Of the shapes in
`slots_answers` only `TwoSlots` is outside `Ordinary`; that it does no harm there is model-checked.
`ServerSlots` assumes of a request (`ShapesAssumption`) that children come right after
their parent and only completions have them, as the handler creates them.

Only model-checked: everything under fairness (`AllAnswered`, `QueuedTaskIsTaken`,
`StartedLoopStops`, `SlotsAreFreed`, `RoundEnds`, `LogGoesOn`, `CallsReturn`,
`WaitsEnd`), since TLAPS proves no liveness under fairness and nothing about
ENABLED; and `ForgetsNothing` of `PromptCache`. The modules use no
RECURSIVE operator; where a loop of the code is a recursive function
(`Selected` in `Checkpoints`, `ServerSlots` and `PromptCache`, `Size`, `Best` and `IdleCleared` in
`PromptCache`, `PrepareLoop`, `Undo` and `Compute` in `KvCells`, `Kept` in `QueueLemmas`), what it returns is proved
from the least index at which it would be wrong.

## 13. Disagreements found

Modelling met a number of places where the code does something else than a
comment or another part of it expects. Each has a configuration in which TLC
finds the property violated, to be run by hand with `tlc -config X.cfg M`,
where `M` is the module that has the constants (`MCServerQueue`,
`MCServerSlots`, `MCSlotBatch`, `MCKvCells`, `MCPromptCache`, otherwise the
module itself).

| Configuration | What the code does |
|---|---|
| `ServerQueue_v_reload` | a task posted between the check of `wait_until_no_sleep` and the sleep does not wake the server |
| `ServerQueue_v_waitends` | an HTTP thread waits on the main thread's condition variable and may swallow its only notification; then nobody wakes the server |
| `ServerQueue_v_parse` | the model may be unloaded while a handler tokenizes with it |
| `ServerQueue_v_earlystop` | `terminate()` before `start_loop()` is lost |
| `ServerQueue_v_signal` | the signal handler blocks on the mutex its own thread holds |
| `ServerQueue_v_canceldefer` | a CANCEL misses a task that is being deferred |
| `ServerSlots_v_killswitch` | a parent refused in `update_slots` leaves its children waiting; the server then aborts |
| `ServerSlots_v_cancelabort` | a parent launched again between the CANCELs of its request leaves a child, and the server aborts |
| `ServerSlots_v_deferred` | a deferred task that takes no slot leaves the next one behind |
| `ServerSlots_v_headofline` | a deferred parent blocks tasks that could run |
| `SlotBatch_v_fork` | a child is copied from a parent whose prompt is only partly decoded |
| `SlotBatch_v_logits` | drafts are verified after a chunk that does not contain them |
| `SlotBatch_v_overflow` | drafts exceed the allocated batch |
| `KvCells_v_shared` | a context shift moves cells that a child shares with its parent, so that the other sequence has a gap or a position twice |
| `Checkpoints_v_restore` | a slot restored from a file keeps the checkpoints of the prompt it had |
| `PromptCache_v_fork` | with one stream per slot a fork is copied at the next decode; a child that stops, is saved or replaced before it is taken for what it is not yet, or is overwritten by the copy afterwards |
| `CommonLog_v_marker` | the marker of `pause` does not expand the ring: one that is full but for one entry becomes empty, and the worker waits while `pause` joins it |
| `ServerModels_v_crash` | a child whose output has closed but that cannot be waited for yet counts as alive; the stopping thread waits again, and its death notifies nobody (`Wedged`) |
| `ServerModels_v_evict` | a thread that waits for an eviction misses the end of the model when another thread loads it again |
| `ServerModels_v_stale` | an unload that comes after the managing thread is done leaves a name in `stopping_models` without a thread |

`ReleasePrioritizesSlot` fails in `ServerSlots_v_headofline.cfg` with `Shapes <- WithAction`
and one task and one slot: a deferred slot action is not given its slot.

`ServerSlots_v_deferred.cfg` also violates `NothingDeferredWhenIdle` with `Shapes <-
CancelShapes` and `CanCancel = TRUE`: a release brings one deferred task back to
the queue; when its client leaves before it is taken, `cleanup_pending_task` erases it, and the
tasks deferred behind it stay where they are while all slots are idle, until some other task
comes and goes. `ServerSlots_v_headofline.cfg` shows the same with `CanFail = TRUE` and the
invariant `NobodyIsStranded`: no client leaves on its own, but one whose request has failed
removes the rest of it.

`KvCells_v_shared.cfg` shows more with other values of `Configs`, each a cache with a window:

* `MCCopies` violates `SharedFits`: shared cells cannot be overwritten, so the
  windowed cache may have no room for a ubatch.
* `MCRepeats` (`NCells = 7`, `MaxPos = 4`) violates `NeededPresent`, and so `KvIsSound`: a prompt that is cached as a
  whole is evaluated again from its last token, without asking whether the window
  before that token is still there.
* `MCDrafts` (`MaxPos = 7`, `MaxUbatches = 7`) violates `NeededPresent`, and so `KvIsSound`: when the drafts of
  a sequence are split over several ubatches, the later ones take cells that are out of the window
  only of the drafts before them; when these are rejected, the window of what is left is gone.
* `MCFails` (`NCells = 7`, `MaxPos = 5`, `MaxUbatches = 3`) violates `Contiguous`, and so `KvIsSound`: `prepare` has
  placed the whole batch and restores the cells it took, but not those it purged
  (`llama-kv-cache.cpp:886`); when a computation fails, the ubatches that would have
  overwritten what was restored never come, and a sequence that keeps its tokens has a
  gap between its first position and its window, which `seq_pos_min` does not show.

With `Checkpoints_v_restore.cfg` and another value of `Hazards`: `"reclaim"` and
`"repeat"` (with `Kinds = {"swa"}`) violate `WindowPresent`, since a slot
believes in cells that others have overwritten, or returns to its last token
as with `MCRepeats`; `"shift"` and `"cancel"` (with `Kinds =
{"recurrent"}`) violate `MemoryMatches`, since the checkpoints
are not shifted, and a prompt that is cancelled between two chunks leaves a slot
whose prompt is shorter than its checkpoint, so that a later prompt is continued
from a checkpoint of other text. A prompt or a first chunk of one token has the
same effect (`Hazards = {}`, `MinTokens = 2` and `MinChunk = 1` or `Window = 1`). In `PromptCache_v_fork.cfg`, `SavedIsTrue` fails as well.

The registered runs leave out exactly these cases: `slots_answers` has prompts that are
neither empty nor too long and no slot action, `slots_cancel` has requests of one
task, `queue_loop` speaks of tasks queued while the server is awake, and the
properties of `SlotBatch` are checked without drafts and children where the cache is tight, and with
them where it is not. (With drafts in a tight cache `KvMatchesPrompt` fails as
well: the rejected drafts of a slot are removed before they are decoded.)
`kv_unified` has no set-up with both copies and shifts, or with a window and
copies, shifts, drafts, repeated prompts or failures; `checkpoints_slot` switches the `Hazards` off;
`prompt_cache` stops no slot while its copy is pending; the liveness of
`log_ring` and `router` is stated up to `MarkerOverran` and `Wedged`.

## 14. What is not modelled

* `ServerSlots` and `SlotBatch`: LoRA tasks (answered at once, like METRICS), the
  untimed `recv`, `server_response::terminate` (never called), images, cache
  reuse by shifting, aLoRA, PFlash's replacement of the prompt, slots that
  cannot be batched together (in `SlotBatch`; `ServerSlots` has them). Context
  shift, checkpoints, the prompt cache and several streams are in modules of their own.
* `KvCells`: the K and V buffers, the accumulated shifts and the extended
  positions of images, `seq_keep` and `seq_div`, tokens of several sequences,
  several streams. As in the code, the cells that a purge empties inside
  `prepare` are not restored by its undo. The undo takes the saved heads by their
  index among the streams (`llama-kv-cache.cpp:895`), which makes no difference
  for one stream.
* `Checkpoints`: `n_cache_reuse`, which moves chunks of the cache; images; aLoRA.
* `PromptCache`: sizes count one unit per token; tasks with children exist only
  with one stream per slot; prompts are decoded in one step. The prompts of the
  run do not come near the threshold of a quarter at which a saved prompt is
  passed over.
* `ServerModels`: the download of models, `models_max = 0` together with load
  on start-up, two uses in the same millisecond, a report that is not
  read because it follows an unfinished line, and a child that is told to exit
  before it can listen (it is killed in the end).
* `CpuThreadpool`: OpenMP, thread priorities and affinity, operations other than
  matrix multiplication and no-ops. Atomic accesses are sequentially consistent.
* Hazards that no property of a run covers, and which `PROJECT.json` therefore
  does not list: the signal handler that takes a mutex its own thread may hold
  (`server.cpp:33`), a deferred parent in front of tasks that could run
  (`server-queue.cpp:93`), a batch that drafts overflow (`server-context.cpp:870`;
  these have configurations in section 13), a failed image
  (`server-context.cpp:2633`), fairness between long prompts (`:2217`), states
  copied in place (`llama-memory-recurrent.cpp:452`), the reuse of tensors
  (`ggml-alloc.c:310`) and of copies (`ggml-backend.cpp:1467`).
* Parsing and formatting (JSON, chat templates, grammars, arguments), numerical
  code (models, samplers, quantization, kernels), device backends, the web UI,
  command line tools, scripts and vendored code have no protocol to check.

## 15. Plan

Left, in this order:

1. `BatchSplit`: `split_simple`, `split_equal` and `split_seq`; each token in exactly
   one micro-batch, against a reference.
2. `MemoryRecurrent`: the cells of the recurrent memory, below `Checkpoints`.
3. `DynAlloc` and `BackendSched`: no two live tensors overlap; no stale copy is read.
4. The reasoning budget and the selection of PFlash.

Proofs: `ForgetsNothing`, and `KvCells` with drafts that fit one ubatch beside a window.
