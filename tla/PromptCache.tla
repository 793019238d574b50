---------------------------- MODULE PromptCache ----------------------------
(***************************************************************************)
(* The host-memory prompt cache of the server (server_prompt_cache,        *)
(* src/tools/server/server-task.cpp), the choice of a slot that drives it  *)
(* (get_available_slot, server-context.cpp) and the memory behind the      *)
(* slots, in its two layouts:                                              *)
(*                                                                         *)
(*   streams   one buffer per slot.  Forking a slot copies the cells'      *)
(*             metadata at once and the buffer at the next decode, while   *)
(*             saving and restoring a slot read and write the buffer now;  *)
(*   unified   one buffer for all slots: restoring a prompt and decoding   *)
(*             may lack room.                                              *)
(*                                                                         *)
(* A buffer's content is represented by the tokens it was computed from.   *)
(* The size of a saved state is one unit per token.  A prompt is decoded   *)
(* in one step; its batches are in SlotBatch, its checkpoints in           *)
(* Checkpoints.                                                            *)
(***************************************************************************)
EXTENDS TokenTexts

CONSTANTS
    NSlots,     \* the number of slots
    Prompts,    \* the prompts of the tasks
    Answers,    \* bound: the tokens that may be sampled
    Confs,      \* the configurations: [unified, clear, limit], limit the
                \* initial limit_size of the cache, 0 for none
    NCtx        \* n_ctx: the cells of a unified memory, and limit_tokens

ASSUME PromptCacheAssumption ==
    /\ NSlots \in Nat \ {0}
    /\ {NCtx, MaxTokens} \subseteq Nat
    /\ Answers \subseteq Token
    /\ \A t \in Prompts : /\ t \in Seq(Token)
                          /\ Len(t) \in 1 .. MaxTokens /\ Len(t) <= NCtx
    /\ \A c \in Confs : c.limit \in Nat /\ (c.clear => c.unified)

VARIABLES
    conf,     \* the configuration
    slots,    \* slot -> [state, job, kids, child, tokens, buf]
    cache,    \* prompt_cache->states: [tokens, data], the oldest first
    limit,    \* prompt_cache->limit_size, 0 for none
    pending,  \* sc_info: the buffer copies the next decode performs
    lru       \* slot -> its place by t_last_used, 1 the least recently used

cacheVars == <<conf, slots, cache, limit, pending, lru>>

Slot  == 1 .. NSlots

\* no more than there is
Cut(s, n) == FirstN(s, Min({n, Len(s)}))

IsIdle(w, s) == w.slots[s].state = "idle"
Idle         == {s \in Slot : slots[s].state = "idle"}

\* the part of the state a task's handler works on
World == [slots |-> slots, cache |-> cache, limit |-> limit]
Become(w) == slots' = w.slots /\ cache' = w.cache /\ limit' = w.limit

Total(w, S) == MapThenSumSet(LAMBDA s : Len(w.slots[s].tokens), S)

\* mutants: the others do not move up; a failed restore leaves the tokens
UsedLast_OthersStay(S) ==
    [s \in Slot |-> IF s \in S THEN Cardinality(Slot \ S) + Cardinality({u \in S : u <= s})
                              ELSE lru[s]]
Cleared_KeepsTokens(slot) == [slot EXCEPT !.buf = <<>>]

\* prompt_clear(): the cells are free, in a unified memory also for the others
Cleared(slot) ==
    [slot EXCEPT !.tokens = <<>>, !.buf = IF conf.unified THEN <<>> ELSE @]

\* release(): the prompt stays for the next task, but not that of a child
Released(slot) ==
    [(IF slot.child THEN Cleared(slot) ELSE slot) EXCEPT
        !.state = "idle", !.job = <<>>, !.kids = {}, !.child = FALSE]

\* the slots of S are released one after the other
UsedLast(S) ==
    [s \in Slot |-> IF s \in S THEN Cardinality(Slot \ S) + Cardinality({u \in S : u <= s})
                              ELSE Cardinality({u \in Slot \ S : lru[u] <= lru[s]})]

-----------------------------------------------------------------------------
(* server_prompt_cache *)

Size(c) ==
    LET size[n \in 0 .. Len(c)] == IF n = 0 THEN 0 ELSE size[n - 1] + Len(c[n].data)
    IN  size[Len(c)]
\* n_tokens() counts what size() counts: the token limit is only felt
\* without a size limit
Cap(lim) == IF lim > 0 THEN lim ELSE NCtx

\* update(): the oldest prompts go while there are several above the limit
Pruned(c, lim) ==
    IF c = <<>> THEN c
    ELSE LET k == Min({i \in 1 .. Len(c) :
                         i = Len(c) \/ Size(SubSeq(c, i, Len(c))) <= Cap(lim)})
         IN SubSeq(c, k, Len(c))
Updated_Never(w) == w      \* mutant: the caller forgets update()
Updated(w) == [w EXCEPT !.cache = Pruned(@, w.limit)]

\* mutant: what the prompt contains is left in the cache
Save_KeepsContained(w, s, oom) ==
    LET t == w.slots[s].tokens IN
    IF \E i \in DOMAIN w.cache : IsPrefix(t, w.cache[i].tokens) THEN w
    ELSE [w EXCEPT !.cache = Append(@,
             [tokens |-> t, data |-> Cut(w.slots[s].buf, Len(t))])]

\* alloc() and llama_state_seq_get_data_ext(): a prompt some entry begins
\* with is not saved; the entries it begins with go, even when there is then
\* no memory for it and the limit is lowered instead
Save(w, s, oom) ==
    LET t    == w.slots[s].tokens
        rest == Selected(w.cache, {e \in ToSet(w.cache) : ~IsPrefix(e.tokens, t)})
    IN IF \E i \in DOMAIN w.cache : IsPrefix(t, w.cache[i].tokens) THEN w
       ELSE IF oom
       THEN Updated([w EXCEPT !.cache = rest, !.limit = Max({1, (2 * Size(rest)) \div 5})])
       ELSE [w EXCEPT !.cache = Append(rest,
                [tokens |-> t, data |-> Cut(w.slots[s].buf, Len(t))])]

\* load() looks for a prompt that keeps a larger part of itself and more of
\* the task than what the slot holds
Better(p, q, t) ==
    LET keepP == CommonPrefix(p, t)
        keepQ == CommonPrefix(q, t)
    IN /\ 4 * keepQ >= Len(q)
       /\ p # <<>> => keepP * Len(q) < keepQ * Len(p)
       /\ keepP < keepQ
Best(w, s, t) ==
    LET best[n \in 0 .. Len(w.cache)] ==
            IF n = 0 THEN w.slots[s].tokens
            ELSE IF Better(best[n - 1], w.cache[n].tokens, t) THEN w.cache[n].tokens
            ELSE best[n - 1]
    IN  best[Len(w.cache)]

\* mutant: the entry is erased although it could not be restored
Load_ErasesFirst(w, s, t) ==
    LET best == Best(w, s, t)
        i    == CHOOSE j \in DOMAIN w.cache : w.cache[j].tokens = best
        full == conf.unified /\ Total(w, Slot \ {s}) + Len(best) > NCtx
    IN IF best = w.slots[s].tokens THEN w
       ELSE IF full THEN [w EXCEPT !.cache = RemoveAt(@, i), !.slots[s] = Cleared(@)]
       ELSE [w EXCEPT !.cache = RemoveAt(@, i),
                      !.slots[s].tokens = best, !.slots[s].buf = w.cache[i].data]

\* load(), and the caller's prompt_clear() when the memory has no room; then
\* the entry stays
Load(w, s, t) ==
    LET best == Best(w, s, t)
        i    == CHOOSE j \in DOMAIN w.cache : w.cache[j].tokens = best
        full == conf.unified /\ Total(w, Slot \ {s}) + Len(best) > NCtx
    IN IF best = w.slots[s].tokens THEN w
       ELSE IF full THEN [w EXCEPT !.slots[s] = Cleared(@)]
       ELSE [w EXCEPT !.cache = RemoveAt(@, i),
                      !.slots[s].tokens = best, !.slots[s].buf = w.cache[i].data]

\* slot_save_and_clear()
SaveAndClear(w, s, oom) ==
    IF w.slots[s].tokens = <<>> \/ ~IsIdle(w, s) THEN w
    ELSE Updated([Save(w, s, oom) EXCEPT !.slots[s] = Cleared(@)])
IdleCleared(w, oom) ==
    LET done[s \in 0 .. NSlots] ==
            IF s = 0 THEN w ELSE SaveAndClear(done[s - 1], s, oom)
    IN  IF conf.clear THEN done[NSlots] ELSE w

-----------------------------------------------------------------------------
(* The handler of a completion task *)

\* get_available_slot(): the first idle slot with the longest common prefix,
\* the one that was used least recently when they have nothing in common
Common(s, t)  == CommonPrefix(slots[s].tokens, t)
Similar(t)    == {s \in Idle : 10 * Common(s, t) > Len(t)}
MostSimilar(t) == CHOOSE s \in Similar(t) : \A u \in Similar(t) :
                    \/ Common(s, t) > Common(u, t)
                    \/ Common(s, t) = Common(u, t) /\ s <= u
LeastRecent   == CHOOSE s \in Idle : \A u \in Idle : lru[s] <= lru[u]
Available(t)  == IF Similar(t) # {} THEN MostSimilar(t) ELSE LeastRecent

\* a slot about to lose most of its prompt is saved first
UsesCache(s, t) == s \in Similar(t) => 2 * Common(s, t) < Len(slots[s].tokens)
CacheUpdated(s, t, oom) ==
    LET saved == IF slots[s].tokens = <<>> THEN World ELSE Save(World, s, oom)
    IN IF UsesCache(s, t) THEN Updated(Load(saved, s, t)) ELSE World

\* get_free_slots(): the first n idle slots but s
Free(s, n) == {u \in Idle \ {s} : Cardinality({v \in Idle \ {s} : v < u}) < n}

Started(w, s, t, kids) ==
    [w EXCEPT !.slots = [u \in Slot |->
        IF u = s THEN [w.slots[u] EXCEPT !.state = "started", !.job = t, !.kids = kids]
        ELSE IF u \in kids THEN [w.slots[u] EXCEPT !.state = "waiting", !.child = TRUE]
        ELSE w.slots[u]]]

\* SERVER_TASK_TYPE_COMPLETION with n children.  A task that lacks slots for
\* its children is deferred after the cache was updated for it.
Launch(t, n, oom) ==
    /\ Idle # {}
    /\ n > 0 => ~conf.unified
    /\ LET s    == Available(t)
           w    == CacheUpdated(s, t, oom)
           kids == Free(s, n)
       IN IF Cardinality(kids) < n THEN Become(w)
          ELSE Become(IdleCleared(Started(w, s, t, kids), oom))
    /\ UNCHANGED <<conf, pending, lru>>

\* a task that names its slot, or is no completion: the cache is not used
LaunchAt(s, t) ==
    /\ s \in Idle
    /\ Become(IdleCleared(Started(World, s, t, {}), FALSE))
    /\ UNCHANGED <<conf, pending, lru>>

\* SERVER_TASK_TYPE_SLOT_ERASE
Erase(s) ==
    /\ s \in Idle
    /\ slots' = [slots EXCEPT ![s] = Cleared(@)]
    /\ UNCHANGED <<conf, cache, limit, pending, lru>>

-----------------------------------------------------------------------------
(* update_slots() *)

Starting   == {s \in Slot : slots[s].state = "started"}
Generating == {s \in Slot : slots[s].state = "generating"}

Copied_Never(buf) == buf   \* mutant: the decode makes no copy
\* memory_update(): the pending copies.  They are those of one round's forks,
\* from parents to children, so that their order does not matter.
CopyTo(s)   == CHOOSE c \in pending : c.dst = s
Copied(buf) == [s \in Slot |-> IF \E c \in pending : c.dst = s THEN buf[CopyTo(s).src]
                                                              ELSE buf[s]]

\* what a slot adds: the rest of its prompt, at least a token, or the token
\* it sampled last
Past(s) == IF s \in Starting
           THEN Min({Common(s, slots[s].job), Len(slots[s].job) - 1})
           ELSE Len(slots[s].tokens)
Added(s, out) == CASE s \in Starting   -> SubSeq(slots[s].job, Past(s) + 1, Len(slots[s].job))
                   [] s \in Generating -> <<out[s]>>
                   [] OTHER            -> <<>>
Evaluated(s, buf, out) ==
    [slots[s] EXCEPT !.tokens = Cut(@, Past(s)) \o Added(s, out),
                     !.buf    = Cut(buf[s], Past(s)) \o Added(s, out),
                     !.state  = IF s \in Starting THEN "generating" ELSE @]

\* copy_state_to() each child of a parent whose prompt is done
ForkedFrom(s) == {p \in Starting : s \in slots[p].kids}
WithForks(w) ==
    [w EXCEPT !.slots = [s \in Slot |->
        LET parent == CHOOSE p \in ForkedFrom(s) : TRUE IN
        IF ForkedFrom(s) = {} THEN [w.slots[s] EXCEPT !.kids = {}]
        ELSE [w.slots[s] EXCEPT !.state = "generating", !.tokens = w.slots[parent].tokens]]]
Forks == {c \in [src : Slot, dst : Slot] : c.src \in ForkedFrom(c.dst)}

\* try_clear_idle_slots(), as long as the unified memory lacks room
Fits(w) == conf.unified => Total(w, Slot) <= NCtx
Purged(w, S) ==
    [w EXCEPT !.slots = [s \in Slot |-> IF s \in S THEN Cleared(w.slots[s]) ELSE w.slots[s]]]
Victims(w) ==
    LET upTo(n) == {s \in Idle : slots[s].tokens # <<>> /\ s <= n}
        enough  == {n \in 0 .. NSlots : Fits(Purged(w, upTo(n)))}
    IN  upTo(IF enough = {} THEN NSlots ELSE Min(enough))

\* one decode of everything that is being processed; without room even after
\* the idle slots were cleared, the tasks fail and their slots are cleared
Decode(out) ==
    /\ Starting \cup Generating # {}
    /\ \A s \in Generating : Len(slots[s].tokens) < MaxTokens
    /\ LET buf  == Copied([s \in Slot |-> slots[s].buf])
           all  == [World EXCEPT !.slots = [s \in Slot |-> Evaluated(s, buf, out)]]
           fail == Slot \ Idle
       IN \E w \in {Purged(all, Victims(all))} :
            \/ /\ Fits(w)
               /\ Become(WithForks(w))
               /\ pending' = Forks
               /\ lru' = lru
            \/ /\ ~Fits(w)
               /\ Become([w EXCEPT !.slots = [s \in Slot |->
                              IF s \in fail THEN Cleared(Released(w.slots[s]))
                                            ELSE w.slots[s]]])
               /\ pending' = {}
               /\ lru' = UsedLast(fail)
    /\ UNCHANGED conf

\* the end of an answer, or a cancel task: a parent goes with the children
\* that still wait for it
Stop(s) ==
    /\ slots[s].state \in {"started", "generating"}
    /\ LET S == {s} \cup slots[s].kids
       IN /\ slots' = [u \in Slot |-> IF u \in S THEN Released(slots[u]) ELSE slots[u]]
          /\ lru' = UsedLast(S)
    /\ UNCHANGED <<conf, cache, limit, pending>>

\* no copy from or to the slot is pending
Settled(s) == \A c \in pending : s \notin {c.src, c.dst}

-----------------------------------------------------------------------------
CacheInit ==
    /\ conf \in Confs
    /\ slots = [s \in Slot |->
         [state |-> "idle", job |-> <<>>, kids |-> {}, child |-> FALSE,
          tokens |-> <<>>, buf |-> <<>>]]
    /\ cache = <<>>
    /\ limit = conf.limit
    /\ pending = {}
    /\ lru = [s \in Slot |-> NSlots + 1 - s]  \* all -1: the last one is taken

Ask  == \E t \in Prompts, n \in 0 .. 1, oom \in BOOLEAN : Launch(t, n, oom)
AskAt == \E s \in Slot, t \in Prompts : LaunchAt(s, t)
Step == \E out \in [Generating -> Answers] : Decode(out)

CacheNext ==
    \/ Ask \/ AskAt \/ Step
    \/ \E s \in Slot : Erase(s)
    \/ \E s \in Slot : Settled(s) /\ Stop(s)
CacheSpec == CacheInit /\ [][CacheNext]_cacheVars

\* a slot may also stop between a fork and the decode that copies its buffer:
\* its task is cancelled, or its first token ends its answer
CacheHazardNext == CacheNext \/ \E s \in Slot : Stop(s)
CacheHazardSpec == CacheInit /\ [][CacheHazardNext]_cacheVars

-----------------------------------------------------------------------------
(* Properties *)

\* Prompts and answers are sequences of tokens, and the slots' use is an order.
CacheTypeOK ==
    /\ conf \in Confs
    /\ slots \in [Slot ->
         [state : {"idle", "started", "waiting", "generating"},
          job : Prompts \cup {<<>>}, kids : SUBSET Slot, child : BOOLEAN,
          tokens : Texts, buf : Texts]]
    /\ cache \in Seq([tokens : Texts \ {<<>>}, data : Texts])
    /\ limit \in Nat
    /\ pending \subseteq [src : Slot, dst : Slot]
    /\ lru \in [Slot -> Slot] /\ \A s, u \in Slot : lru[s] = lru[u] => s = u

\* The memory of a slot is what its prompt says, once the pending copies are
\* made: whatever was restored, forked, overwritten, cleared or purged.
MemoryIsTrue ==
    LET buf == Copied([s \in Slot |-> slots[s].buf])
    IN \A s \in Slot : Cut(buf[s], Len(slots[s].tokens)) = slots[s].tokens

\* A saved state was computed from the prompt it is saved under.
SavedIsTrue == \A i \in DOMAIN cache : cache[i].data = cache[i].tokens

\* Every prompt, in a slot or saved, comes with the memory computed from it.
PromptsAreTrue == CacheTypeOK /\ MemoryIsTrue /\ SavedIsTrue

\* No saved prompt begins another: what it could give, the longer one gives.
NoneContained ==
    \A i, j \in DOMAIN cache : i # j => ~IsPrefix(cache[i].tokens, cache[j].tokens)

\* Between two tasks the cache is within its limit, the one lowered for lack
\* of memory included, or holds a single prompt.
WithinLimit == Len(cache) <= 1 \/ Size(cache) <= Cap(limit)

\* The cache keeps to its bounds and holds nothing twice.
CacheIsTidy == NoneContained /\ WithinLimit

\* Unless memory ran out, using the cache forgets no prompt, saved or in an
\* idle slot, that would fit: it is still the beginning of one of them.
Held(q) == \/ \E i \in DOMAIN cache : IsPrefix(q, cache[i].tokens)
           \/ \E s \in Slot : IsPrefix(q, slots[s].tokens)
Everything == Size(cache) + Total(World, Idle)
ForgetsNothing ==
    [][cache' # cache /\ limit' = limit /\ Everything <= Cap(limit) =>
         \A q \in {cache[i].tokens : i \in DOMAIN cache}
                    \cup {slots[s].tokens : s \in Idle} : Held(q)']_cacheVars
=============================================================================
