---------------------------- MODULE Checkpoints ----------------------------
(***************************************************************************)
(* The context checkpoints of one server slot (src/tools/server/           *)
(* server-context.cpp, update_slots), for the two kinds of memory that     *)
(* cannot be rolled back at will:                                          *)
(*                                                                         *)
(*   "swa"        a sliding-window cache (llama_kv_cache_iswa, its window  *)
(*                part): the oldest cells are gone;                        *)
(*   "recurrent"  llama_memory_recurrent, also inside a hybrid memory: one *)
(*                state, that of the last position.                        *)
(*                                                                         *)
(* A new prompt keeps the prefix it has in common with the cached one when *)
(* the memory allows it, goes back to a checkpoint when there is one that  *)
(* helps, and starts over otherwise.  A memory's content is represented by *)
(* the tokens it was computed from, since the cell of a position depends   *)
(* on all the tokens before it; the part of an iSWA or hybrid memory that  *)
(* keeps every position follows the prompt and is left out.                *)
(***************************************************************************)
EXTENDS TokenTexts

CONSTANTS
    Kinds,      \* the kinds of memory: a subset of {"swa", "recurrent"}
    Window,     \* n_swa of the sliding window
    MaxChecks,  \* n_ctx_checkpoints
    MinTokens,  \* the shortest prompt worth a checkpoint (64 in the code)
    Gap,        \* the distance between checkpoints (64 in the code)
    MinChunk,   \* bound: the fewest tokens of a prompt and of its first chunk
    Hazards     \* the events that are switched on: a subset of {"reclaim",
                \* "restore", "shift", "repeat", "cancel"}

ASSUME CheckpointsAssumption ==
    /\ Kinds \subseteq {"swa", "recurrent"}
    /\ {Window, MaxChecks, Gap, MinTokens, MinChunk} \subseteq Nat \ {0}
    /\ MaxTokens \in Nat

VARIABLES
    kind,    \* the kind of memory
    state,   \* "idle", "started" (the prefix is chosen), "prompt", "generating"
    task,    \* slot.task->tokens
    tokens,  \* slot.prompt.tokens
    mem,     \* [text, lo]: what the memory was computed from, and pos_min
    checks   \* slot.prompt.checkpoints: [n, text, lo], the oldest first

vars == <<kind, state, task, tokens, mem, checks>>

Empty      == [text |-> <<>>, lo |-> 0]
PosMin(m)  == IF m.text = <<>> THEN -1 ELSE m.lo
PosMax(m)  == Len(m.text) - 1
NSwa       == IF kind = "swa" THEN Window ELSE 0

-----------------------------------------------------------------------------
(* The memory *)

\* the positions a window cache may give up once its sequence has n tokens
Spare(lo, n) == lo .. Max({lo, n - Window + 1})

\* a decode of the tokens t: it may reuse the cells masked before it
Decoded(m, t) ==
    LET text == m.text \o t IN
    IF kind = "recurrent" THEN {[text |-> text, lo |-> Len(text) - 1]}
    ELSE {[text |-> text, lo |-> lo] : lo \in Spare(m.lo, Len(m.text))}

\* llama_memory_seq_rm(slot, p0, -1): a recurrent memory refuses to give up
\* its last position alone
CanRemove(m, p0) == kind = "recurrent" /\ 0 < p0 => p0 > PosMax(m)
Removed(m, p0) ==
    CASE p0 > PosMax(m) -> m
      [] p0 <= m.lo     -> Empty
      [] OTHER          -> [m EXCEPT !.text = FirstN(@, p0)]

-----------------------------------------------------------------------------
Init ==
    /\ kind \in Kinds
    /\ state = "idle"
    /\ task = <<>>
    /\ tokens = <<>>
    /\ mem = Empty
    /\ checks = <<>>

\* mutant: the newest checkpoint, wherever it starts
Useful_Variant(thold) == Len(checks)

\* the newest checkpoint that starts early enough, 0 when there is none
Useful(thold) == Max({0} \union {i \in DOMAIN checks : checks[i].lo < thold})

\* the outcomes of looking for the prefix: how many tokens are kept, the
\* position from which checkpoints are dropped, and the memory
Prefix(n0) ==
    LET thold == Max({0, n0 - NSwa})
        u     == Useful(thold)
        c     == checks[u]
        next  == Min({n0, Max({c.lo + 1, PosMax(c)})})
        stay  == [past |-> n0, next |-> n0, mem |-> mem]
        reset == [past |-> 0, next |-> 0, mem |-> mem]
    IN  IF ~(0 < n0 /\ n0 < Len(tokens) /\ PosMin(mem) >= thold) THEN {stay}
        ELSE IF u = 0 THEN {reset}
        ELSE \* restored, or there was no room for the checkpoint's cells
             {[past |-> Min({next, Len(tokens), c.n}), next |-> next,
               mem |-> [text |-> c.text, lo |-> c.lo]],
              [reset EXCEPT !.mem = Empty]}

\* mutant: a prompt that is cached whole is not evaluated again
LeaveOne_Variant(n, T) == n

\* "need to evaluate at least 1 token for each active slot" [TAG_PROMPT_LOGITS]
LeaveOne(n, T) == IF n = Len(T) THEN n - 1 ELSE n

\* mutants: checkpoints are never dropped;  one position too late
Valid_Never(cs, next) == cs
Valid_Late(cs, next)  == Selected(cs, {c \in Range(cs) : PosMax(c) <= next + 1})

Valid(cs, next) == Selected(cs, {c \in Range(cs) : PosMax(c) <= next})

\* update_slots, SLOT_STATE_STARTED: T is the prompt of the request, use says
\* whether it may use the cache (cache_prompt)
StartPrompt(T, use) ==
    /\ state = "idle" /\ Len(T) >= MinChunk
    /\ ~use => tokens # <<>>
    /\ T = tokens => "repeat" \in Hazards \/ kind = "recurrent"
    /\ \E p \in Prefix(IF use THEN CommonPrefix(tokens, T) ELSE 0) :
         LET n == LeaveOne(p.past, T) IN
         /\ checks' = Valid(checks, p.next)
         /\ IF CanRemove(p.mem, n)
            THEN tokens' = FirstN(tokens, n) /\ mem' = Removed(p.mem, n)
            ELSE tokens' = <<>> /\ mem' = Empty        \* prompt_clear
    /\ state' = "started"
    /\ task' = T
    /\ UNCHANGED kind

\* a checkpoint of what is decoded so far, if it is long enough and far enough
\* from the last one
Worth ==
    /\ PosMin(mem) >= 0
    /\ checks = <<>> \/ Len(tokens) > Last(checks).n + Gap

\* mutant: no room is made
WithCheckpoint_Variant == Append(checks, [n |-> Len(tokens), text |-> mem.text, lo |-> mem.lo])

WithCheckpoint ==
    LET kept == IF Len(checks) >= MaxChecks
                THEN SubSeq(checks, Len(checks) - MaxChecks + 2, Len(checks)) ELSE checks
    IN  Append(kept, [n |-> Len(tokens), text |-> mem.text, lo |-> mem.lo])

\* the next k tokens of the prompt: a checkpoint before they are decoded, at the
\* end of the prompt always, elsewhere where the distances say so (mark)
Chunk(k, mark) ==
    LET t == SubSeq(task, Len(tokens) + 1, Len(tokens) + k)
        n == Len(tokens) + k
    IN
    /\ state \in {"started", "prompt"}
    /\ n <= Len(task)
    /\ tokens = <<>> => n >= MinChunk
    /\ n = Len(task) => mark
    /\ checks' = IF mark /\ Worth /\ n >= MinTokens THEN WithCheckpoint ELSE checks
    /\ tokens' = tokens \o t
    /\ mem' \in Decoded(mem, t)
    /\ state' = IF n = Len(task) THEN "generating" ELSE "prompt"
    /\ UNCHANGED <<kind, task>>

Generate(t) ==
    /\ state = "generating"
    /\ Len(tokens) < MaxTokens
    /\ tokens' = Append(tokens, t)
    /\ mem' \in Decoded(mem, <<t>>)
    /\ UNCHANGED <<kind, state, task, checks>>

\* the request ends or is cancelled;  the slot keeps its prompt
Release ==
    /\ \/ state = "generating"
       \/ state = "prompt" /\ (kind = "swa" \/ "cancel" \in Hazards)
    /\ state' = "idle"
    /\ task' = <<>>
    /\ UNCHANGED <<kind, tokens, mem, checks>>

\* prompt_clear, after a failed decode or by SLOT_ERASE: the checkpoints stay
ClearPrompt ==
    /\ state # "started"
    /\ tokens # <<>>
    /\ state' = "idle"
    /\ task' = <<>>
    /\ tokens' = <<>>
    /\ mem' = Empty
    /\ UNCHANGED <<kind, checks>>

\* other slots of a unified cache decode and take the cells that are masked
Reclaim ==
    /\ "reclaim" \in Hazards /\ kind = "swa"
    /\ \E lo \in Spare(mem.lo, Len(mem.text)) \ {mem.lo} : mem' = [mem EXCEPT !.lo = lo]
    /\ UNCHANGED <<kind, state, task, tokens, checks>>

\* SLOT_RESTORE of a file saved with the prompt T
RestoreSlot(T) ==
    /\ "restore" \in Hazards
    /\ state = "idle" /\ T # <<>>
    /\ tokens' = T
    /\ mem' \in {[text |-> T, lo |-> lo] :
                  lo \in IF kind = "swa" THEN Spare(0, Len(T)) ELSE {Len(T) - 1}}
    /\ UNCHANGED <<kind, state, task, checks>>

\* the context shift: the memory is taken to be that of the remaining tokens
ContextShift(keep, discard) ==
    LET T == FirstN(tokens, keep) \o SubSeq(tokens, keep + discard + 1, Len(tokens)) IN
    /\ "shift" \in Hazards
    /\ state = "generating" /\ Len(tokens) = MaxTokens
    /\ discard > 0 /\ keep + discard < Len(tokens)
    /\ tokens' = T
    /\ mem' = [text |-> T,
               lo   |-> CASE kind = "recurrent"         -> Len(T) - 1
                          [] mem.lo >= keep + discard    -> mem.lo - discard
                          [] OTHER                       -> Min({mem.lo, keep})]
    /\ UNCHANGED <<kind, state, task, checks>>

Next ==
    \/ \E T \in Texts, use \in BOOLEAN : StartPrompt(T, use)
    \/ \E k \in 1 .. MaxTokens, mark \in BOOLEAN : Chunk(k, mark)
    \/ \E t \in Token : Generate(t)
    \/ Release
    \/ ClearPrompt

Spec == Init /\ [][Next]_vars

\* with the events that Hazards switches on
HazardNext ==
    \/ Next
    \/ Reclaim
    \/ \E T \in Texts : RestoreSlot(T)
    \/ \E keep, discard \in 0 .. MaxTokens : ContextShift(keep, discard)

HazardSpec == Init /\ [][HazardNext]_vars

-----------------------------------------------------------------------------
(* Properties *)

\* The variables have their types.
TypeOK ==
    /\ kind \in Kinds
    /\ state \in {"idle", "started", "prompt", "generating"}
    /\ task \in Texts /\ tokens \in Texts /\ mem.text \in Texts
    /\ mem.lo \in 0 .. MaxTokens
    /\ Len(checks) <= MaxChecks
    /\ \A i \in DOMAIN checks : checks[i].text \in Texts /\ checks[i].n \in 0 .. MaxTokens

\* The memory of a slot is that of the tokens the slot holds, after any series
\* of prompts with common prefixes, of cancellations and of restored
\* checkpoints: nothing is computed after the wrong text.
MemoryMatches == mem.text = tokens

\* The window before the next token is in the memory.
WindowPresent == kind = "swa" => mem.lo <= Max({0, Len(mem.text) - Window + 1})

\* "guarantee that a checkpoint will result in at least one token being
\* processed": a prompt that starts has at least one token left, and what the
\* slot keeps is a prefix of it.
OneTokenLeft == state = "started" => IsStrictPrefix(tokens, task)

\* What a slot goes on from is sound: the memory is that of its tokens, reaches
\* back far enough, and leaves a token to evaluate.
SlotMemoryIsSound == TypeOK /\ MemoryMatches /\ WindowPresent /\ OneTokenLeft

\* What a checkpoint was made of agrees with the prompt as far as a slot goes
\* back with it: a checkpoint of a window loses its last position.
Agrees(c) ==
    LET n == Min({Len(tokens), IF kind = "swa" THEN Max({c.lo + 1, PosMax(c)}) ELSE c.n})
    IN  FirstN(c.text, n) = FirstN(tokens, n)
CheckpointsAgree == \A i \in DOMAIN checks : Agrees(checks[i])
=============================================================================
