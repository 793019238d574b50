----------------------------- MODULE SlotBatch -----------------------------
(***************************************************************************)
(* update_slots at the level of tokens (tools/server/server-context.cpp):  *)
(* the batch is filled with the sampled and drafted tokens of generating   *)
(* slots and with prompts, decoded in chunks of n_batch that shrink while  *)
(* the unified KV cache has no room, and sampled chunk by chunk.           *)
(*                                                                         *)
(* All of it runs on the main thread; ServerSlots has the threads around   *)
(* it.  A token is its sequence and position, and the KV cache is the set  *)
(* of its used cells: no sequence holds a position twice, so two cells     *)
(* always differ.  Prompts that update_slots refuses, images, context      *)
(* shift, checkpoints (SWA and recurrent models) and slots that cannot be  *)
(* batched together are left out; n_past may be any length of the cached   *)
(* prompt.                                                                 *)
(*                                                                         *)
(* A definition Name_Variant is the mutated form of Name that the mutants  *)
(* of PROJECT.json put in its place; no action uses it.                    *)
(***************************************************************************)
EXTENDS Integers, Sequences, FiniteSets, FiniteSetsExt

CONSTANTS
    NSlots,
    NBatch,         \* llama_n_batch
    NCtx,           \* slot.n_ctx
    Cells,          \* cells of the KV cache
    MaxDraft,       \* speculative.n_max; 0: no draft model
    ClearIdle,      \* params_base.clear_idle
    CanFork,        \* requests with n_cmpl = 2
    CanFail         \* llama_decode may fail for another reason

ASSUME SizeAssumption == /\ NSlots \in Nat \ {0}
                         /\ NBatch \in Nat \ {0}
                         /\ NCtx \in Nat \ {0, 1}
                         /\ Cells \in Nat
                         /\ MaxDraft \in Nat
ASSUME FlagAssumption == ClearIdle \in BOOLEAN /\ CanFork \in BOOLEAN /\ CanFail \in BOOLEAN

VARIABLES
    slots,          \* see Slot
    batch,          \* the tokens of this round
    n_batch, i,     \* size and start of the chunk
    view,           \* tokens of the chunk just decoded (n_tokens)
    kv,             \* used cells
    phase, at       \* where update_slots is

vars == <<slots, batch, n_batch, i, view, kv, phase, at>>

SlotIds  == 0 .. NSlots - 1
NoParent == -1
Busy     == {s \in SlotIds : slots[s].state # "IDLE"}
Idle     == SlotIds \ Busy
InState(S) == {s \in SlotIds : slots[s].state \in S}

Token(s, pos, out) == [seq |-> s, pos |-> pos, out |-> out]
\* llama_batch_init; common_batch_add asserts that no more tokens are added.
Capacity == Max({NBatch, NSlots})

(***************************************************************************)
(* llama_memory_*                                                          *)
(***************************************************************************)
Used(K)             == {c \in K : c.seqs # {}}
SeqRm_Nothing(K, s, p0) == K
SeqRm(K, s, p0)     == Used({[c EXCEPT !.seqs = IF c.pos >= p0 THEN @ \ {s} ELSE @] :
                                c \in K})
SeqsClear(K, S)     == Used({[c EXCEPT !.seqs = @ \ S] : c \in K})
\* Every x in S becomes a copy of sequence from[x]; copy_state_to clears x first.
SeqCopy_NoClear(K, S, from) ==
    {[c EXCEPT !.seqs = @ \cup {x \in S : from[x] \in @}] : c \in K}
SeqCopy(K, S, from) == Used({[c EXCEPT !.seqs = (@ \ S) \cup {x \in S : from[x] \in @}] :
                                c \in K})
Positions(s)        == {c.pos : c \in {k \in kv : s \in k.seqs}}

(***************************************************************************)
(* Between two rounds: process_single_task.                                *)
(***************************************************************************)
\* release(): the slot keeps its prompt as a cache, unless it is a child.
\* i_batch is not reset.
Released(slot) == [slot EXCEPT !.state = "IDLE", !.n_task = 0, !.dft = <<>>,
                               !.n_tokens = IF slot.parent = NoParent THEN @ ELSE 0,
                               !.parent = NoParent]
ChildrenIn(S)  == {s \in S : slots[s].parent # NoParent}

\* slot_save_and_clear: a launch takes the cached prompts of the slots it
\* leaves idle.
Cleared(S)        == IF ClearIdle THEN {x \in Idle \ S : slots[x].n_tokens > 0} ELSE {}
SlotsOnLaunch(S)  == [x \in SlotIds |-> IF x \in Cleared(S)
                                        THEN [slots[x] EXCEPT !.n_tokens = 0]
                                        ELSE slots[x]]

Launch(s) ==
    /\ phase = "idle" /\ s \in Idle
    /\ \E n \in 1 .. NCtx - 1 :
           slots' = [SlotsOnLaunch({s}) EXCEPT ![s].state = "STARTED", ![s].n_task = n]
    /\ kv' = SeqsClear(kv, Cleared({s}))
    /\ UNCHANGED <<batch, n_batch, i, view, phase, at>>

LaunchWithChild(s, c) ==
    /\ CanFork
    /\ phase = "idle" /\ s \in Idle /\ c \in Idle \ {s}
    /\ \E n \in 1 .. NCtx - 1 :
           slots' = [SlotsOnLaunch({s, c}) EXCEPT
                         ![s].state = "STARTED", ![s].n_task = n,
                         ![c].state = "WAIT_OTHER", ![c].n_task = n, ![c].parent = s]
    /\ kv' = SeqsClear(kv, Cleared({s, c}))
    /\ UNCHANGED <<batch, n_batch, i, view, phase, at>>

\* The CANCELs of a request are processed in one go.
Cancel(s) ==
    LET mine == {s} \cup {c \in Busy : slots[c].parent = s} IN
    /\ phase = "idle" /\ s \in Busy /\ slots[s].parent = NoParent
    /\ slots' = [x \in SlotIds |-> IF x \in mine THEN Released(slots[x]) ELSE slots[x]]
    /\ kv' = SeqsClear(kv, ChildrenIn(mine))
    /\ UNCHANGED <<batch, n_batch, i, view, phase, at>>

(***************************************************************************)
(* Filling the batch.                                                      *)
(***************************************************************************)
BeginUpdate ==
    /\ phase = "idle" /\ Busy # {}
    /\ phase' = "gather"
    /\ batch' = <<>> /\ at' = 0
    /\ n_batch' = NBatch /\ i' = 0 /\ view' = 0
    /\ UNCHANGED <<slots, kv>>

OnSlot(p, S, s) == phase = p /\ s \in S /\ s >= at /\ \A x \in S : x >= at => s <= x
Past(S)         == \A s \in S : s < at

Generating  == InState({"GENERATING"})
\* get_n_draft_max
DraftMax(s) == IF MaxDraft = 0 THEN 0
                               ELSE Min({MaxDraft, NCtx - slots[s].n_tokens - 2})

\* The tokens a generating slot adds: the sampled one and d drafts.
Sampled_LastOut(s, d) ==
    [k \in 1 .. d + 1 |-> Token(s, slots[s].n_tokens + k - 1, k = d + 1)]

Sampled(s, d) ==
    [k \in 1 .. d + 1 |-> Token(s, slots[s].n_tokens + k - 1, TRUE)]

Gather(s) ==
    /\ OnSlot("gather", Generating, s)
    /\ Len(batch) < Capacity
    /\ batch' = batch \o Sampled(s, 0)
    /\ slots' = [slots EXCEPT ![s].i_batch = Len(batch), ![s].n_tokens = @ + 1]
    /\ at' = s + 1
    /\ UNCHANGED <<n_batch, i, view, kv, phase>>

GatherDraft(s) ==
    /\ OnSlot("gather", Generating, s)
    /\ DraftMax(s) > 0
    /\ \E d \in 0 .. DraftMax(s) :
           /\ Len(batch) + 1 + d <= Capacity
           /\ batch' = batch \o Sampled(s, d)
           /\ slots' = [slots EXCEPT ![s].n_tokens = @ + 1 + d,
                                     ![s].dft = [k \in 1 .. d + 1 |-> Len(batch) + k - 1]]
    /\ at' = s + 1
    /\ UNCHANGED <<n_batch, i, view, kv, phase>>

\* GGML_ASSERT(batch.seq_id[batch.n_tokens] && "llama_batch size exceeded")
Overflow(s) ==
    /\ OnSlot("gather", Generating, s)
    /\ Len(batch) + 1 + Max({0, DraftMax(s)}) > Capacity
    /\ phase' = "overflow"
    /\ UNCHANGED <<slots, batch, n_batch, i, view, kv, at>>

EndGather ==
    /\ phase = "gather" /\ Past(Generating)
    /\ phase' = "prompt" /\ at' = 0
    /\ UNCHANGED <<slots, batch, n_batch, i, view, kv>>

Prompting == InState({"STARTED", "PROCESSING_PROMPT"})

\* At least one token of the prompt is evaluated again [TAG_PROMPT_LOGITS].
Cached_Whole(s) == IF slots[s].state = "STARTED"
                   THEN 0 .. Min({slots[s].n_tokens, slots[s].n_task})
                   ELSE {slots[s].n_tokens}

Cached(s) == IF slots[s].state = "STARTED"
             THEN 0 .. Min({slots[s].n_tokens, slots[s].n_task - 1})
             ELSE {slots[s].n_tokens}

AddPrompt(s) ==
    /\ OnSlot("prompt", Prompting, s)
    /\ \E n_past \in Cached(s) :
           LET cur  == Max({0, Min({slots[s].n_task - n_past, NBatch - Len(batch)})})
               done == n_past + cur = slots[s].n_task
           IN  /\ batch' = batch \o [k \in 1 .. cur |->
                                        Token(s, n_past + k - 1, done /\ k = cur)]
               /\ kv' = SeqRm(kv, s, n_past)
               /\ slots' = [slots EXCEPT
                               ![s].state = IF done THEN "DONE_PROMPT"
                                                    ELSE "PROCESSING_PROMPT",
                               ![s].n_tokens = n_past + cur,
                               ![s].i_batch = IF done THEN Len(batch') - 1 ELSE @]
    /\ at' = IF Len(batch') >= NBatch THEN NSlots ELSE s + 1
    /\ UNCHANGED <<n_batch, i, view, phase>>

EndPrompts ==
    /\ phase = "prompt" /\ Past(Prompting)
    /\ phase' = IF batch = <<>> THEN "idle" ELSE "decode"
    /\ UNCHANGED <<slots, batch, n_batch, i, view, kv, at>>

(***************************************************************************)
(* Decoding a chunk.                                                       *)
(***************************************************************************)
Chunk       == Min({n_batch, Len(batch) - i})
ChunkTokens == {batch[j] : j \in i + 1 .. i + Chunk}
InChunk(s)  == {t.pos : t \in {u \in ChunkTokens : u.seq = s}}

\* llama_batch_allocr::init: the positions of a sequence stay consecutive.
Consistent ==
    \A s \in SlotIds :
        InChunk(s) # {} =>
            /\ Positions(s) # {} => Min(InChunk(s)) = Max(Positions(s)) + 1
            /\ Max(InChunk(s)) - Min(InChunk(s)) + 1 = Cardinality(InChunk(s))

HasRoom_OneMore == Cardinality(kv) + Chunk <= Cells + 1

HasRoom == Cardinality(kv) + Chunk <= Cells

\* The children of the parents whose prompt is done.
Forked == {c \in InState({"WAIT_OTHER"}) :
              slots[slots[c].parent].state = "DONE_PROMPT"}

Decode ==
    /\ phase = "decode" /\ Consistent /\ HasRoom
    /\ kv' = SeqCopy(kv \cup {[pos |-> t.pos, seqs |-> {t.seq}] : t \in ChunkTokens},
                     Forked, [c \in Forked |-> slots[c].parent])
    /\ slots' = [s \in SlotIds |->
                    IF s \in Forked
                    THEN [slots[slots[s].parent] EXCEPT !.parent = slots[s].parent]
                    ELSE slots[s]]
    /\ view' = Chunk
    /\ n_batch' = NBatch
    /\ phase' = "sample"
    /\ UNCHANGED <<batch, i, at>>

\* The idle slot whose cached prompt try_clear_idle_slots gives up.
Purgeable_None == {}
Purgeable == {s \in Idle : slots[s].n_tokens > 0}

Halved_Not == n_batch
Halved == n_batch \div 2

MakeRoom ==
    /\ phase = "decode" /\ Consistent /\ ~HasRoom
    /\ n_batch > 1
    /\ IF Purgeable # {}
       THEN /\ slots' = [slots EXCEPT ![Min(Purgeable)].n_tokens = 0]
            /\ kv' = SeqsClear(kv, {Min(Purgeable)})
            /\ UNCHANGED n_batch
       ELSE n_batch' = Halved /\ UNCHANGED <<slots, kv>>
    /\ UNCHANGED <<batch, i, view, phase, at>>

\* "Invalid input batch.", "Context size has been exceeded." or "Compute
\* error.": every slot gets the error and its prompt is cleared.
DecodeFails ==
    /\ phase = "decode"
    /\ CanFail \/ ~Consistent \/ (~HasRoom /\ n_batch = 1)
    /\ slots' = [s \in SlotIds |-> IF s \in Busy
                                   THEN [Released(slots[s]) EXCEPT !.n_tokens = 0]
                                   ELSE slots[s]]
    /\ kv' = SeqsClear(kv, Busy)
    /\ phase' = "idle"
    /\ UNCHANGED <<batch, n_batch, i, view, at>>

(***************************************************************************)
(* Sampling from the chunk.                                                *)
(***************************************************************************)
\* process_token stops a slot at the latest when its context is full.
ContextFull_Late(n) == n >= NCtx

ContextFull(n) == n + 1 >= NCtx

\* The slots whose last token is in the chunk.
ToSample ==
    {s \in InState({"DONE_PROMPT", "GENERATING"}) :
        slots[s].i_batch \in i .. i + view - 1 /\ slots[s].dft = <<>>}

Sample ==
    /\ phase = "sample"
    /\ \E stop \in SUBSET ToSample :
           /\ \A s \in ToSample \ stop : ~ContextFull(slots[s].n_tokens)
           /\ slots' = [s \in SlotIds |->
                           IF s \in stop
                           THEN [Released(slots[s]) EXCEPT !.i_batch = -1]
                           ELSE IF s \in ToSample
                           THEN [slots[s] EXCEPT !.state = "GENERATING", !.i_batch = -1]
                           ELSE slots[s]]
           /\ kv' = SeqsClear(kv, ChildrenIn(stop))
    /\ phase' = "spec" /\ at' = 0
    /\ UNCHANGED <<batch, n_batch, i, view>>

Drafting == {s \in Generating : slots[s].dft # <<>>}

\* llama_get_logits_ith counts from the start of the chunk.
HasLogits(idx) == idx < view /\ batch[i + idx + 1].out

\* The length of the prompt after a of the drafts were accepted.
Accepted(s, a) == slots[s].n_tokens - (Len(slots[s].dft) - 1) + a

Speculate(s) ==
    /\ OnSlot("spec", Drafting, s)
    /\ \E a \in 0 .. Len(slots[s].dft) - 1 :
           LET n == Accepted(s, a) IN
           IF \E k \in 1 .. a + 1 : ~HasLogits(slots[s].dft[k])
           THEN phase' = "nologits" /\ UNCHANGED <<slots, kv>>
           ELSE /\ \E stop \in BOOLEAN :
                       /\ ContextFull(n) => stop
                       /\ LET slot == [slots[s] EXCEPT !.n_tokens = n, !.dft = <<>>]
                          IN  /\ slots' = [slots EXCEPT
                                              ![s] = IF stop THEN Released(slot) ELSE slot]
                              /\ kv' = IF stop /\ slot.parent # NoParent
                                       THEN SeqsClear(kv, {s})
                                       ELSE SeqRm(kv, s, n)
                /\ UNCHANGED phase
    /\ at' = s + 1
    /\ UNCHANGED <<batch, n_batch, i, view>>

Advance_Whole == i + NBatch

Advance == i + view

EndChunk ==
    /\ phase = "spec" /\ Past(Drafting)
    /\ i' = Advance
    /\ phase' = IF Advance < Len(batch) THEN "decode" ELSE "idle"
    /\ UNCHANGED <<slots, batch, n_batch, view, kv, at>>

-----------------------------------------------------------------------------
Init ==
    /\ slots = [s \in SlotIds |-> [state |-> "IDLE", parent |-> NoParent, n_task |-> 0,
                                   n_tokens |-> 0, i_batch |-> -1, dft |-> <<>>]]
    /\ batch = <<>> /\ n_batch = NBatch /\ i = 0 /\ view = 0
    /\ kv = {}
    /\ phase = "idle" /\ at = 0

Request ==
    \E s \in SlotIds :
        Launch(s) \/ Cancel(s) \/ \E c \in SlotIds : LaunchWithChild(s, c)

UpdateSlots ==
    \/ BeginUpdate \/ EndGather \/ EndPrompts
    \/ Decode \/ MakeRoom \/ DecodeFails
    \/ Sample \/ EndChunk
    \/ \E s \in SlotIds : \/ Gather(s) \/ GatherDraft(s) \/ Overflow(s)
                          \/ AddPrompt(s) \/ Speculate(s)

Next == Request \/ UpdateSlots

Spec     == Init /\ [][Next]_vars
FairSpec == Spec /\ WF_vars(UpdateSlots)

-----------------------------------------------------------------------------
(***************************************************************************)
(* Properties.                                                             *)
(***************************************************************************)
Slot == [state : {"IDLE", "WAIT_OTHER", "STARTED", "PROCESSING_PROMPT", "DONE_PROMPT",
                  "GENERATING"},
         parent : SlotIds \cup {NoParent}, n_task : 0 .. NCtx - 1, n_tokens : 0 .. NCtx,
         i_batch : -1 .. Capacity - 1, dft : Seq(0 .. Capacity - 1)]

TypeOK ==
    /\ slots \in [SlotIds -> Slot]
    /\ batch \in Seq([seq : SlotIds, pos : 0 .. NCtx, out : BOOLEAN])
    /\ n_batch \in 1 .. NBatch /\ i \in Nat /\ view \in 0 .. NBatch
    /\ kv \subseteq [pos : 0 .. NCtx, seqs : (SUBSET SlotIds) \ {{}}]
    /\ Cardinality(kv) <= Cells
    /\ phase \in {"idle", "gather", "prompt", "decode", "sample", "spec", "overflow",
                  "nologits"}
    /\ at \in 0 .. NSlots

\* Between two rounds the prompt a slot believes to be cached (or to have
\* generated) is exactly what its sequence holds in the KV cache.
KvMatchesPrompt ==
    phase = "idle" => \A s \in SlotIds : Positions(s) = 0 .. slots[s].n_tokens - 1

\* A slot samples from the logits of the last token of its own prompt (or of
\* the parent it was copied from), with all its tokens in the cache.
SampleSeesItsLogits ==
    phase = "sample" =>
        \A s \in ToSample :
            LET t == batch[slots[s].i_batch + 1] IN
            /\ t.out /\ t.pos = slots[s].n_tokens - 1
            /\ t.seq = s \/ (slots[s].state = "DONE_PROMPT" /\ t.seq = slots[s].parent)
            /\ Positions(s) = 0 .. slots[s].n_tokens - 1

\* The same for a slot that verifies its drafts.
DraftSeesItsLogits ==
    phase = "spec" =>
        \A s \in {d \in Drafting : d >= at} : \A k \in DOMAIN slots[s].dft :
            /\ slots[s].dft[k] < view
            /\ batch[i + slots[s].dft[k] + 1] =
                   Token(s, slots[s].n_tokens - Len(slots[s].dft) + k - 1, TRUE)

\* The guard of the context shift: "we should never get here, because
\* generation should already stopped in process_token()".
ContextShiftNeverNeeded ==
    phase = "gather" => \A s \in Generating : s >= at => slots[s].n_tokens + 1 < NCtx

\* llama_decode never rejects what update_slots submits as an invalid batch.
NoInvalidBatch ==
    phase = "decode" => Consistent

\* Slots, batch and cache agree: the variables have their types, what a slot
\* believes cached is in the cache, and a batch continues what is cached.
CacheMatchesSlots ==
    TypeOK /\ KvMatchesPrompt /\ NoInvalidBatch

\* "Context size has been exceeded" is the last resort: no idle slot could
\* have given up its cached prompt instead.
ErrorOnlyWhenFull ==
    phase = "decode" /\ ~HasRoom /\ n_batch = 1 =>
        \A s \in Idle : ~ (slots[s].n_tokens > 0)

\* A child is activated "when the main prompt is processed".
ChildStartsWithPrompt ==
    phase = "sample" =>
        \A s \in InState({"DONE_PROMPT"}) :
            slots[s].parent # NoParent => Positions(s) = 0 .. slots[s].n_tokens - 1

\* "update_slots() will always submit a maximum of n_batch or n_parallel tokens"
BatchFits ==
    phase # "overflow"

\* common_sampler: GGML_ASSERT(logits != nullptr)
LogitsNotNull ==
    phase # "nologits"

\* Whatever the cache has room for, a round of update_slots ends (or comes to
\* the assertion of LogitsNotNull): the retries of llama_decode come to an end.
RoundEnds ==
    phase = "decode" ~> phase \in {"idle", "nologits"}
=============================================================================
