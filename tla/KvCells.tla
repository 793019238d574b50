------------------------------- MODULE KvCells -------------------------------
(***************************************************************************)
(* One stream of llama_kv_cache (src/src/llama-kv-cache.cpp) and its cells *)
(* (src/src/llama-kv-cells.h): the unified cache, in which the cells of    *)
(* all sequences, that is of all slots of the server, lie side by side.    *)
(*                                                                         *)
(* A cell holds one position and the set of sequences that see it.  The    *)
(* model keeps what the code keeps beside the cells: the set of used cells *)
(* and, per sequence, how often each position occurs (seq_pos), both       *)
(* maintained cell by cell and read instead of the cells.  What a cell's   *)
(* position refers to in the K and V buffers, the accumulated shift and    *)
(* the 2D position are left out.                                           *)
(*                                                                         *)
(* The operations are those the server calls (server-context.cpp): a       *)
(* decode of a batch, which places the batch in ubatches (prepare,         *)
(* find_slot, apply_ubatch) and may fail at any of them; the reuse of a    *)
(* prefix by a new prompt; the removal of rejected draft tokens; the copy  *)
(* of a parent's prompt to a child; the context shift; the clearing of a   *)
(* slot.  Every operation runs in the main thread and is one step.         *)
(***************************************************************************)
EXTENDS Integers, Sequences, FiniteSetsExt, Functions

CONSTANTS
    NSeqs,       \* n_seq_max: the sequences are 0 .. NSeqs - 1
    NCells,      \* the size of the cache, in cells
    NUbatch,     \* n_ubatch
    MaxPos,      \* bound: the largest position of a token
    MaxUbatches, \* bound: the ubatches of one batch
    Configs      \* the set-ups of the server the runs start from

ASSUME KvAssumption ==
    /\ {NSeqs, NCells, NUbatch, MaxUbatches} \subseteq Nat \ {0}
    /\ MaxPos \in Nat
    \* window: n_swa, 0 where the cache has no sliding window;  copies, shifts,
    \* drafts: requests with several completions, context shifts and drafts are
    \* in use;  repeats: a prompt equal to the whole cached one is sent again;
    \* fails: a computation may fail
    /\ \A c \in Configs : c.window \in Nat
                       /\ {c.copies, c.shifts, c.drafts, c.repeats, c.fails} \subseteq BOOLEAN

Seqs      == 0 .. NSeqs - 1
Cell      == 0 .. NCells - 1
NBatch    == MaxUbatches * NUbatch
Position  == 0 .. MaxPos
Unused    == -1

VARIABLES
    setup,  \* the set-up
    kv,     \* [cells, head]: the cells and where the next search starts
    len,    \* per sequence, the tokens its slot takes to be in the cache
    by,     \* history: the sequences the last operation named
    failed, \* history: the last operation was a decode that found no place
    child,  \* the slots whose task is a child: their prompt is not reused
    drafted \* history: the tokens of the last decode, if they may be drafts

kvVars == <<setup, kv, len, child, by, failed, drafted>>

-----------------------------------------------------------------------------
(* llama_kv_cells: an operation on several cells is the loop over them, in  *)
(* which each round changes its own cell and the counters                   *)

NoCells == [pos    |-> [i \in Cell |-> Unused],
            seq    |-> [i \in Cell |-> {}],
            used   |-> {},
            seqPos |-> [s \in Seqs |-> [p \in Position |-> 0]]]

\* how often seq_pos_rm or seq_pos_add counts p for s, over the cells I
Occurs(c, I, s, p) == Cardinality({i \in I : s \in c.seq[i] /\ c.pos[i] = p})

Present(c, s)   == {p \in Position : c.seqPos[s][p] > 0}
SeqPosMin(c, s) == IF Present(c, s) = {} THEN -1 ELSE Min(Present(c, s))
SeqPosMax(c, s) == IF Present(c, s) = {} THEN -1 ELSE Max(Present(c, s))

\* seq_rm for every cell and sequence in gone;  a cell that no sequence sees any
\* more is empty
Freed(c, gone) == {i \in Cell : c.seq[i] # {} /\ \A s \in c.seq[i] : <<i, s>> \in gone}

SeqRmCells(c, gone) ==
    LET freed == Freed(c, gone) IN
    [pos    |-> [i \in Cell |-> IF i \in freed THEN Unused ELSE c.pos[i]],
     seq    |-> [i \in Cell |-> {s \in c.seq[i] : <<i, s>> \notin gone}],
     used   |-> c.used \ freed,
     seqPos |-> [s \in Seqs |-> [p \in Position |->
                   c.seqPos[s][p] - Occurs(c, {i \in Cell : <<i, s>> \in gone}, s, p)]]]

\* seq_add
SeqAddCells(c, I, s) ==
    [pos    |-> c.pos,
     seq    |-> [i \in Cell |-> IF i \in I THEN c.seq[i] \union {s} ELSE c.seq[i]],
     used   |-> c.used,
     seqPos |-> [q \in Seqs |-> [p \in Position |->
                   IF q = s THEN c.seqPos[q][p] + Cardinality({i \in I : c.pos[i] = p})
                   ELSE c.seqPos[q][p]]]]

\* pos_add moves a cell for every sequence that sees it
Below(c, I, d) == {i \in I : c.pos[i] + d < 0}

PosAddCells(c, I, d) ==
    LET freed == Below(c, I, d) IN
    [pos    |-> [i \in Cell |-> IF i \in freed THEN Unused
                                ELSE IF i \in I THEN c.pos[i] + d ELSE c.pos[i]],
     seq    |-> [i \in Cell |-> IF i \in freed THEN {} ELSE c.seq[i]],
     used   |-> c.used \ freed,
     seqPos |-> [s \in Seqs |-> [p \in Position |->
                   c.seqPos[s][p] - Occurs(c, I, s, p) + Occurs(c, I, s, p - d)]]]

\* rm where there is something to remove, pos_set and seq_add: the tokens of ub
\* in the cells idxs
TokenOf(idxs, i) == CHOOSE j \in DOMAIN idxs : idxs[j] = i

PutTokens(c, idxs, ub) ==
    LET I == Range(idxs) IN
    [pos    |-> [i \in Cell |-> IF i \in I THEN ub[TokenOf(idxs, i)].pos ELSE c.pos[i]],
     seq    |-> [i \in Cell |-> IF i \in I THEN {ub[TokenOf(idxs, i)].seq} ELSE c.seq[i]],
     used   |-> c.used \union I,
     seqPos |-> [s \in Seqs |-> [p \in Position |->
                   c.seqPos[s][p] - Occurs(c, I, s, p)
                     + Cardinality({j \in DOMAIN ub : ub[j] = [seq |-> s, pos |-> p]})]]]

\* mutant: the counters of what the cells held are not taken back
SetCells_Variant(c, I, old) ==
    [pos    |-> [i \in Cell |-> IF i \in I THEN old.pos[i] ELSE c.pos[i]],
     seq    |-> [i \in Cell |-> IF i \in I THEN old.seq[i] ELSE c.seq[i]],
     used   |-> (c.used \ {i \in I : old.pos[i] = Unused})
                  \union {i \in I : old.pos[i] # Unused},
     seqPos |-> [s \in Seqs |-> [p \in Position |->
                   c.seqPos[s][p] + Occurs(old, I, s, p)]]]

\* set: what the cells I held in old, of which cp saved pos and seq
SetCells(c, I, old) ==
    [pos    |-> [i \in Cell |-> IF i \in I THEN old.pos[i] ELSE c.pos[i]],
     seq    |-> [i \in Cell |-> IF i \in I THEN old.seq[i] ELSE c.seq[i]],
     used   |-> (c.used \ {i \in I : c.pos[i] # Unused /\ old.pos[i] = Unused})
                  \union {i \in I : c.pos[i] = Unused /\ old.pos[i] # Unused},
     seqPos |-> [s \in Seqs |-> [p \in Position |->
                   c.seqPos[s][p] - Occurs(c, I, s, p) + Occurs(old, I, s, p)]]]

-----------------------------------------------------------------------------
(* llama_kv_cache *)

Infinity == MaxPos + 1 \* p1 < 0 stands for the largest llama_pos

InRange(c, s, p0, p1) == {i \in Cell : c.pos[i] >= p0 /\ c.pos[i] < p1 /\ s \in c.seq[i]}

\* "If we freed up a slot, set head to it so searching can start there."
RemoveSeqs(k, gone) ==
    [cells |-> SeqRmCells(k.cells, gone),
     head  |-> Min({k.head} \union Freed(k.cells, gone))]

\* mutant: the cells are removed for every sequence that sees them
SeqRm_Variant(k, s, p0, p1) ==
    RemoveSeqs(k, {<<i, q>> : i \in InRange(k.cells, s, p0, p1), q \in Seqs})

SeqRm(k, s, p0, p1) ==
    RemoveSeqs(k, {<<i, s>> : i \in InRange(k.cells, s, p0, p1)})

SeqCp(k, src, dst) ==
    [k EXCEPT !.cells = SeqAddCells(@, InRange(@, src, 0, Infinity), dst)]

\* seq_add also moves the cells that other sequences see: it tests the range
\* and the sequence, and pos_add has no sequence
SeqAdd(k, s, p0, p1, d) ==
    LET I     == InRange(k.cells, s, p0, p1)
        freed == Below(k.cells, I, d)
    IN  [cells |-> PosAddCells(k.cells, I, d),
         head  |-> IF freed # {} THEN Min(freed) ELSE 0]

\* is_masked_swa for the standard window
Masked(p0, p1) == setup.window > 0 /\ p1 - p0 >= setup.window

\* mutants: a window too early;  only empty cells
CanUse_Early(c, i) ==
    \/ c.pos[i] = Unused
    \/ \E s \in Seqs : c.seq[i] = {s} /\ Masked(c.pos[i], SeqPosMax(c, s) + 2)

CanUse_Empty(c, i) == c.pos[i] = Unused

\* a cell is usable when it is empty, or one sequence sees it and will not
\* look at it again
CanUse(c, i) ==
    \/ c.pos[i] = Unused
    \/ \E s \in Seqs : c.seq[i] = {s} /\ Masked(c.pos[i], SeqPosMax(c, s) + 1)

Usable(c) == {i \in Cell : CanUse(c, i)}

\* find_slot: the first n usable cells from the head on, and from the first
\* cell again;  not necessarily consecutive
Start(k, n)    == IF k.head > Cardinality(k.cells.used) + 2 * n THEN 0 ELSE k.head
Ahead(start, i) == IF i >= start THEN i - start ELSE i - start + NCells

FindSlot(k, n) ==
    LET U         == Usable(k.cells)
        before(i) == {h \in U : Ahead(Start(k, n), h) < Ahead(Start(k, n), i)}
    IN  IF Cardinality(U) < n THEN <<>>
        ELSE [j \in 1 .. n |-> CHOOSE i \in U : Cardinality(before(i)) = j - 1]

\* what a ubatch in the cells I overwrites, as sequence and position
Overwritten(c, I) ==
    UNION {{<<s, c.pos[i]>> : i \in {i \in I : c.seq[i] = {s}}} : s \in Seqs}

\* mutant: the positions before an overwritten one stay
Purge_Variant(c, lost) == c

\* "we want to preserve the invariant that all positions between [pos_min,
\* pos_max] for each sequence will be present in the cache": nothing is left of
\* a sequence up to the largest position it lost
Purge(c, lost) ==
    IF lost = {} THEN c
    ELSE SeqRmCells(c, UNION {{<<i, x[1]>> : i \in InRange(c, x[1], 0, x[2] + 1)} : x \in lost})

\* mutant: the head moves as if the cells were consecutive
ApplyUbatch_Variant(k, idxs, ub) ==
    [cells |-> Purge(PutTokens(k.cells, idxs, ub), Overwritten(k.cells, Range(idxs))),
     head  |-> k.head + Len(ub)]

ApplyUbatch(k, idxs, ub) ==
    [cells |-> Purge(PutTokens(k.cells, idxs, ub), Overwritten(k.cells, Range(idxs))),
     head  |-> idxs[Len(ub)] + 1]

\* one round of the loop of prepare;  n counts the ubatches that found a place,
\* idxs is that of the last one
PrepareOne(a, ub) ==
    LET idxs == FindSlot(a.kv, Len(ub)) IN
    IF ~a.ok \/ idxs = <<>> THEN [a EXCEPT !.ok = FALSE]
    ELSE [ok |-> TRUE, n |-> a.n + 1, idxs |-> idxs, kv |-> ApplyUbatch(a.kv, idxs, ub)]

PrepareLoop(k, ubs) ==
    LET found[u \in 0 .. Len(ubs)] ==
            IF u = 0 THEN [ok |-> TRUE, n |-> 0, idxs |-> <<>>, kv |-> k]
            ELSE PrepareOne(found[u - 1], ubs[u])
    IN  found

\* mutant: the head stays where the undone ubatches left it
RestoreOne_Variant(k, idxs, before) ==
    [k EXCEPT !.cells = SetCells(@, Range(idxs), before.cells)]

\* "iterate backwards and restore the cells to their original state": the
\* cells of the slots found, not those the purges emptied
RestoreOne(k, idxs, before) ==
    [cells |-> SetCells(k.cells, Range(idxs), before.cells), head |-> before.head]

Undo(found, n) ==
    LET undone[j \in 0 .. n] ==
            IF j = 0 THEN found[n].kv
            ELSE RestoreOne(undone[j - 1], found[n - j + 1].idxs, found[n - j].kv)
    IN  undone[n]

Prepare(k, ubs) ==
    LET found == PrepareLoop(k, ubs)
        last  == found[Len(ubs)]
    IN  [ok   |-> last.ok,
         idxs |-> [u \in 1 .. last.n |-> found[u].idxs],
         kv   |-> Undo(found, last.n)]

-----------------------------------------------------------------------------
(* llama_context::decode *)

\* split_simple: the tokens in their order, n_ubatch at a time
Parts(m) == Min({u \in 0 .. m : u * NUbatch >= m})
Split(batch) ==
    [u \in 1 .. Parts(Len(batch)) |->
        SubSeq(batch, (u - 1) * NUbatch + 1, Min({u * NUbatch, Len(batch)}))]

\* "the last ubatch failed or was aborted -> remove all positions of that
\* ubatch from the memory module": of each sequence from its smallest one on
DropUbatch(k, ub) ==
    RemoveSeqs(k, UNION {{<<i, ub[j].seq>> :
                            i \in InRange(k.cells, ub[j].seq, ub[j].pos, Infinity)} :
                         j \in DOMAIN ub})

\* the ubatches up to the done-th
Compute(k, idxs, ubs, done) ==
    LET after[u \in 0 .. done] ==
            IF u = 0 THEN k ELSE ApplyUbatch(after[u - 1], idxs[u], ubs[u])
    IN  after[done]

\* the next n tokens of sequence s
Tokens(s, n) == [j \in 1 .. n |-> [seq |-> s, pos |-> len[s] - 1 + j]]

KvInit ==
    /\ setup \in Configs
    /\ kv = [cells |-> NoCells, head |-> 0]
    /\ len = [s \in Seqs |-> 0]
    /\ child = {}
    /\ by = {}
    /\ failed = FALSE
    /\ drafted = {}

\* every slot that is processing, those of the batch among them, is released
\* and its prompt cleared
ComputeFails(k, named) ==
    /\ setup.fails
    /\ \E P \in SUBSET Seqs :
         /\ named \subseteq P
         /\ kv' = RemoveSeqs(k, Cell \X P)
         /\ len' = [q \in Seqs |-> IF q \in P THEN 0 ELSE len[q]]
         /\ by' = P
         /\ child' = child \ P
    /\ failed' = FALSE
    /\ drafted' = {}

\* update_slots decodes a batch of a tokens of s and b tokens of t, in this
\* order;  llama_batch_allocr requires that they continue their sequences
DecodeBatch(s, t, a, b) ==
    LET batch == Tokens(s, a) \o Tokens(t, b)
        ubs   == Split(batch)
        p     == Prepare(kv, ubs)
        named == {s} \union IF b > 0 THEN {t} ELSE {}
    IN  /\ len[s] + a <= MaxPos + 1 /\ len[t] + b <= MaxPos + 1
        /\ \A q \in named : len[q] = SeqPosMax(kv.cells, q) + 1
        /\ \/ /\ ~p.ok
              /\ kv' = p.kv
              /\ by' = named /\ failed' = TRUE /\ drafted' = {}
              /\ UNCHANGED <<len, child>>
           \/ /\ p.ok
              /\ kv' = Compute(p.kv, p.idxs, ubs, Len(ubs))
              /\ len' = [len EXCEPT ![s] = @ + a, ![t] = @ + b]
              /\ by' = named /\ failed' = FALSE
              /\ drafted' = IF setup.drafts THEN Range(batch) ELSE {}
              /\ UNCHANGED child
           \/ /\ p.ok
              /\ \E last \in 1 .. Len(ubs) :
                   ComputeFails(DropUbatch(Compute(p.kv, p.idxs, ubs, last), ubs[last]), named)
        /\ UNCHANGED setup

\* an operation on the sequences S, of which s then has n tokens
Done(S, s, n) ==
    /\ len' = [len EXCEPT ![s] = n]
    /\ by' = S
    /\ failed' = FALSE
    /\ drafted' = {}
    /\ UNCHANGED setup

\* a new prompt keeps a prefix of t cached tokens, unless the window before it
\* is gone; full says that the prompt has no more tokens, so that the last one
\* of the prefix is evaluated again
Reused(s, t) ==
    IF /\ 0 < t /\ t < len[s]
       /\ SeqPosMin(kv.cells, s) >= Max({0, t - setup.window})
    THEN 0 ELSE t

Reuse(s, t, full) ==
    LET n == Reused(s, t) - IF full THEN 1 ELSE 0 IN
    /\ s \notin child
    /\ t <= len[s]
    /\ full => Reused(s, t) > 0
    /\ full /\ t = len[s] => setup.repeats
    /\ kv' = SeqRm(kv, s, n, Infinity)
    /\ Done({s}, s, n)
    /\ UNCHANGED child

\* the tokens of the last decode after the first n accepted ones are removed
Reject(t) ==
    /\ t \in drafted
    /\ [t EXCEPT !.pos = @ - 1] \in drafted
    /\ kv' = SeqRm(kv, t.seq, t.pos, Infinity)
    /\ Done({t.seq}, t.seq, t.pos)
    /\ UNCHANGED child

\* prompt_clear, for a child in release()
Clear(s) ==
    /\ kv' = SeqRm(kv, s, 0, Infinity)
    /\ child' = child \ {s}
    /\ Done({s}, s, 0)

\* server_slot::copy_state_to
CopyState(s, d) ==
    /\ setup.copies /\ s # d
    /\ len[s] > 0 /\ s \notin child
    /\ child' = child \union {d}
    /\ kv' = SeqCp(SeqRm(kv, d, 0, Infinity), s, d)
    /\ Done({s, d}, d, len[s])

\* the context shift of update_slots, for a request that is neither parent nor
\* child, in a slot whose prompt may be that of a parent
Shift(s, keep, discard) ==
    LET n == len[s] IN
    /\ setup.shifts /\ s \notin child
    /\ UNCHANGED child
    /\ n = MaxPos + 1
    /\ discard > 0 /\ keep + discard < n
    /\ kv' = SeqAdd(SeqRm(kv, s, keep, keep + discard), s, keep + discard, n, -discard)
    /\ Done({s}, s, n - discard)

KvNext ==
    \/ \E s \in Seqs, a \in 1 .. NBatch : \E t \in Seqs \ {s}, b \in 0 .. NBatch - a :
          DecodeBatch(s, t, a, b)
    \/ \E s \in Seqs, t \in 0 .. MaxPos + 1, full \in BOOLEAN : Reuse(s, t, full)
    \/ \E t \in drafted : Reject(t)
    \/ \E s \in Seqs : Clear(s)
    \/ \E s, d \in Seqs : CopyState(s, d)
    \/ \E s \in Seqs, keep, discard \in Position : Shift(s, keep, discard)

KvSpec == KvInit /\ [][KvNext]_kvVars

-----------------------------------------------------------------------------
(* Properties *)

Holds(s) == {kv.cells.pos[i] : i \in {i \in Cell : s \in kv.cells.seq[i]}}

\* the positions the next token of s attends to
Needed(s) == {p \in 0 .. len[s] - 1 : ~Masked(p, len[s])}

\* The cells, the search position and the history have their types.
KvTypeOK ==
    /\ setup \in Configs
    /\ kv.cells.pos \in [Cell -> Position \union {Unused}]
    /\ kv.cells.seq \in [Cell -> SUBSET Seqs]
    /\ kv.cells.used \subseteq Cell
    /\ kv.cells.seqPos \in [Seqs -> [Position -> 0 .. NCells]]
    /\ kv.head \in 0 .. NCells
    /\ len \in [Seqs -> 0 .. MaxPos + 1]
    /\ child \subseteq Seqs /\ by \subseteq Seqs /\ failed \in BOOLEAN
    /\ drafted \subseteq [seq : Seqs, pos : Position]

\* What is kept beside the cells agrees with them after every operation, the
\* undone and the failed decodes included: a cell is in `used` exactly when it
\* has a position, then at least one sequence sees it, and seq_pos counts, per
\* sequence and position, the cells that hold it (find_slot, apply_ubatch and
\* the server read seq_pos and `used`, never the cells).
CountersTrue ==
    /\ \A i \in Cell : /\ i \in kv.cells.used <=> kv.cells.pos[i] # Unused
                       /\ i \in kv.cells.used <=> kv.cells.seq[i] # {}
    /\ \A s \in Seqs, p \in Position :
          kv.cells.seqPos[s][p] =
              Cardinality({i \in Cell : s \in kv.cells.seq[i] /\ kv.cells.pos[i] = p})

\* "All positions in the range [pos_min, pos_max] are guaranteed to be present
\* in the memory" (llama.h, llama_memory_seq_pos_min), each in one cell.
Contiguous ==
    \A s \in Seqs : \A p \in SeqPosMin(kv.cells, s) .. SeqPosMax(kv.cells, s) :
        p >= 0 => kv.cells.seqPos[s][p] = 1

\* Everything the next token of a sequence attends to is in the cache, and
\* nothing after it, whatever the other sequences decoded in the meantime and
\* whatever failed.
NeededPresent == \A s \in Seqs : Needed(s) \subseteq Holds(s) /\ SeqPosMax(kv.cells, s) < len[s]

\* The cells, what is kept beside them and what the slots believe agree.
KvIsSound == KvTypeOK /\ CountersTrue /\ Contiguous /\ NeededPresent

SwaSized == setup.window > 0 /\ NCells >= setup.window * NSeqs + NUbatch

\* While no cell is shared, a ubatch always finds its place in a sliding-window
\* cache of n_swa cells per sequence and n_ubatch more, the size that
\* llama_kv_cache_iswa gives it.
AlwaysFits ==
    SwaSized /\ (\A i \in Cell : Cardinality(kv.cells.seq[i]) < 2)
        => \A n \in 1 .. NUbatch : FindSlot(kv, n) # <<>>

\* An operation on some sequences leaves what the next token of every other
\* sequence attends to, although they share the cells.
Isolation == [][\A s \in Seqs \ by' : Needed(s)' = Needed(s)
                                   /\ Needed(s) \subseteq Holds(s)']_kvVars

\* "restore the cells to their original state" (llama_kv_cache::prepare): a
\* decode that finds no place for one of its ubatches changes nothing, although
\* the ubatches before it were placed, and others overwritten for them.
PrepareRestores == [][failed' => kv' = kv]_kvVars

\* No operation disturbs more than it names.
OthersUntouched == Isolation /\ PrepareRestores

\* The comment of the size of the sliding-window cache, with shared cells: a
\* sequence of its cache, alone in its batch, always finds a place.
SharedFits == SwaSized => \A n \in 1 .. NUbatch : FindSlot(kv, n) # <<>>
=============================================================================
