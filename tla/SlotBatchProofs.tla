-------------------------- MODULE SlotBatchProofs --------------------------
(***************************************************************************)
(* Proofs about SlotBatch, for any number of slots and any size of batch,  *)
(* context and cache.                                                      *)
(***************************************************************************)
EXTENDS SlotBatch, QueueLemmas, TLAPS

-----------------------------------------------------------------------------
(* The context error is the last resort.                                   *)

\* n_batch shrinks only after every idle slot has given up its prompt, and is
\* whole again before the next chunk is sampled.
ShrinkInv ==
    /\ phase \in {"gather", "prompt", "sample", "spec"} => n_batch = NBatch
    /\ phase = "decode" => n_batch = NBatch \/ Purgeable = {}

LEMMA ShrinkInit == Init => ShrinkInv
BY DEF Init, ShrinkInv

LEMMA ShrinkStep ==
    ASSUME ShrinkInv, [Next]_vars
    PROVE  ShrinkInv'
<1>1. ASSUME NEW s \in SlotIds,
             Launch(s) \/ Cancel(s) \/ \E c \in SlotIds : LaunchWithChild(s, c)
      PROVE  ShrinkInv'
  BY <1>1 DEF ShrinkInv, Launch, Cancel, LaunchWithChild
<1>2. CASE BeginUpdate
  BY <1>2 DEF ShrinkInv, BeginUpdate
<1>3. CASE EndGather
  BY <1>3 DEF ShrinkInv, EndGather
<1>4. CASE EndPrompts
  BY <1>4 DEF ShrinkInv, EndPrompts
<1>5. CASE Decode
  BY <1>5 DEF ShrinkInv, Decode
<1>6. CASE MakeRoom
  <2>1. CASE Purgeable # {}
    BY <1>6, <2>1 DEF ShrinkInv, MakeRoom
  <2>2. CASE Purgeable = {}
    <3>1. Purgeable' = Purgeable
      BY <1>6, <2>2 DEF MakeRoom, Purgeable, Idle, Busy
    <3>2. QED
      BY <1>6, <2>2, <3>1 DEF ShrinkInv, MakeRoom
  <2>3. QED BY <2>1, <2>2
<1>7. CASE DecodeFails
  BY <1>7 DEF ShrinkInv, DecodeFails
<1>8. CASE Sample
  BY <1>8 DEF ShrinkInv, Sample
<1>9. CASE EndChunk
  BY <1>9 DEF ShrinkInv, EndChunk
<1>10. ASSUME NEW s \in SlotIds,
              Gather(s) \/ GatherDraft(s) \/ Overflow(s) \/ AddPrompt(s)
       PROVE  ShrinkInv'
  BY <1>10 DEF ShrinkInv, Gather, GatherDraft, Overflow, AddPrompt, OnSlot
<1>11. ASSUME NEW s \in SlotIds, Speculate(s)
       PROVE  ShrinkInv'
  <2>1. n_batch = NBatch /\ UNCHANGED n_batch /\ phase' # "decode"
    BY <1>11 DEF ShrinkInv, Speculate, OnSlot
  <2>2. QED BY <2>1 DEF ShrinkInv
<1>12. CASE UNCHANGED vars
  BY <1>12 DEF ShrinkInv, vars, Purgeable, Idle, Busy
<1>13. QED
  BY <1>1, <1>2, <1>3, <1>4, <1>5, <1>6, <1>7, <1>8, <1>9, <1>10, <1>11, <1>12
  DEF Next, Request, UpdateSlots

\* "Context size has been exceeded." is sent only when no idle slot holds a
\* prompt that could be purged.  It takes n_batch > 1: the error is tested
\* before try_clear_idle_slots, so with n_batch = 1 it comes at once.
THEOREM ErrorOnlyWhenFullHolds ==
    ASSUME NBatch # 1
    PROVE  Spec => []ErrorOnlyWhenFull
<1>1. ShrinkInv => ErrorOnlyWhenFull
  BY DEF ShrinkInv, ErrorOnlyWhenFull, Purgeable
<1>2. QED
  BY <1>1, ShrinkInit, ShrinkStep, PTL DEF Spec

-----------------------------------------------------------------------------
(* Without drafts the batch has room for every generating slot.            *)

LEMMA MaxOfTwo ==
    ASSUME NEW a \in Int, NEW b \in Int
    PROVE  Max({a, b}) \in {a, b} /\ Max({a, b}) >= a /\ Max({a, b}) >= b
<1>1. \E x \in {a, b} : \A y \in {a, b} : x >= y
  BY a >= b \/ b >= a
<1>2. QED BY <1>1 DEF Max

LEMMA MinOfTwo ==
    ASSUME NEW a \in Int, NEW b \in Int
    PROVE  Min({a, b}) \in {a, b} /\ Min({a, b}) <= a /\ Min({a, b}) <= b
<1>1. \E x \in {a, b} : \A y \in {a, b} : x <= y
  BY a <= b \/ b <= a
<1>2. QED BY <1>1 DEF Min

LEMMA CapacityHoldsSlots == Capacity \in Nat /\ Capacity >= NSlots
BY MaxOfTwo, SizeAssumption DEF Capacity

LEMMA AppendOne ==
    ASSUME NEW S, NEW seq \in Seq(S), NEW x
    PROVE  /\ seq \o [k \in 1 .. 1 |-> x] \in Seq(S \cup {x})
           /\ Len(seq \o [k \in 1 .. 1 |-> x]) = Len(seq) + 1
<1>1. seq \in Seq(S \cup {x}) /\ [k \in 1 .. 1 |-> x] \in Seq(S \cup {x})
  OBVIOUS
<1>2. Len([k \in 1 .. 1 |-> x]) = 1
  OBVIOUS
<1>3. QED BY <1>1, <1>2

\* While slots are gathered each one passed has added at most one token.
OneEach == at \in Int /\ \E S : batch \in Seq(S) /\ Len(batch) <= at

FitInv ==
    /\ phase = "gather" => OneEach
    /\ phase # "overflow"

LEMMA FitInit == Init => FitInv
BY DEF Init, FitInv

LEMMA GatherFits ==
    ASSUME MaxDraft = 0, FitInv, NEW s \in SlotIds,
           Gather(s) \/ GatherDraft(s) \/ Overflow(s)
    PROVE  FitInv'
<1>1. OneEach /\ s \in Int /\ at <= s /\ phase = "gather"
  BY SizeAssumption DEF FitInv, Gather, GatherDraft, Overflow, OnSlot, SlotIds
<1>2. PICK S : batch \in Seq(S) /\ Len(batch) <= at
  BY <1>1 DEF OneEach
<1>3. DraftMax(s) = 0 /\ Max({0, DraftMax(s)}) = 0
  <2>1. DraftMax(s) = 0
    BY DEF DraftMax
  <2>2. Max({0, 0}) \in {0, 0}
    BY MaxOfTwo
  <2>3. QED BY <2>1, <2>2
<1>4. CASE Gather(s)
  <2> DEFINE t == Token(s, slots[s].n_tokens + 1 - 1, TRUE)
  <2>1. Sampled(s, 0) = [k \in 1 .. 1 |-> t]
    BY DEF Sampled
  <2>2. batch' \in Seq(S \cup {t}) /\ Len(batch') = Len(batch) + 1
    BY <1>2, <1>4, <2>1, AppendOne DEF Gather
  <2>3. at' = s + 1 /\ phase' = phase
    BY <1>4 DEF Gather
  <2>4. Len(batch) \in Nat /\ Len(batch') <= at' /\ at' \in Int
    BY <1>1, <1>2, <2>2, <2>3 DEF OneEach
  <2>5. QED BY <1>1, <2>2, <2>3, <2>4 DEF FitInv, OneEach
<1>5. CASE GatherDraft(s)
  BY <1>3, <1>5 DEF GatherDraft
<1>6. CASE Overflow(s)
  <2>1. Len(batch) \in Nat /\ Len(batch) + 1 > Capacity
    BY <1>2, <1>3, <1>6 DEF Overflow
  <2>2. s + 1 <= NSlots
    BY SizeAssumption DEF SlotIds
  <2>3. QED
    BY <1>1, <1>2, <2>1, <2>2, CapacityHoldsSlots, SizeAssumption DEF OneEach
<1>7. QED BY <1>4, <1>5, <1>6

LEMMA FitStep ==
    ASSUME MaxDraft = 0, FitInv, [Next]_vars
    PROVE  FitInv'
<1>1. CASE Request
  BY <1>1 DEF Request, Launch, Cancel, LaunchWithChild, FitInv
<1>2. CASE BeginUpdate
  <2>1. batch' = <<>> /\ at' = 0 /\ phase' = "gather"
    BY <1>2 DEF BeginUpdate
  <2>2. batch' \in Seq({}) /\ Len(batch') = 0
    BY <2>1
  <2>3. QED BY <2>1, <2>2 DEF FitInv, OneEach
<1>3. CASE EndGather \/ EndPrompts \/ EndChunk
  BY <1>3 DEF EndGather, EndPrompts, EndChunk, FitInv
<1>4. CASE Decode \/ MakeRoom \/ DecodeFails
  BY <1>4 DEF Decode, MakeRoom, DecodeFails, FitInv
<1>5. CASE Sample
  BY <1>5 DEF Sample, FitInv
<1>6. ASSUME NEW s \in SlotIds, Gather(s) \/ GatherDraft(s) \/ Overflow(s)
      PROVE  FitInv'
  BY <1>6, GatherFits
<1>7. ASSUME NEW s \in SlotIds, AddPrompt(s) \/ Speculate(s)
      PROVE  FitInv'
  <2>1. phase' # "gather" /\ phase' # "overflow"
    BY <1>7 DEF AddPrompt, Speculate, OnSlot
  <2>2. QED BY <2>1 DEF FitInv
<1>8. CASE UNCHANGED vars
  BY <1>8 DEF vars, FitInv, OneEach
<1>9. QED
  BY <1>1, <1>2, <1>3, <1>4, <1>5, <1>6, <1>7, <1>8 DEF Next, UpdateSlots

\* Without speculative decoding the batch allocated for n_batch or n_parallel
\* tokens is large enough, whatever is generated.
THEOREM BatchFitsWithoutDrafts ==
    ASSUME MaxDraft = 0
    PROVE  Spec => []BatchFits
<1>1. FitInv => BatchFits
  BY DEF FitInv, BatchFits
<1>2. FitInv /\ [Next]_vars => FitInv'
  BY FitStep
<1>3. QED
  BY <1>1, <1>2, FitInit, PTL DEF Spec

-----------------------------------------------------------------------------
(* Slots, batch and cache, without drafts (no speculative decoding) and    *)
(* forks (requests for several completions).  With them the properties do  *)
(* not hold when the cache splits a batch: SlotBatch_v_logits.cfg and      *)
(* SlotBatch_v_fork.cfg have the counterexamples.                          *)

TokenT == [seq : SlotIds, pos : 0 .. NCtx, out : BOOLEAN]
CellT  == [pos : 0 .. NCtx, seqs : (SUBSET SlotIds) \ {{}}]

\* After its first lo tokens, batch B holds the tokens n .. m-1 of slot s, in
\* order, at the indices b+n+1 .. b+m.
Block(B, lo, s, n, m, b) ==
    /\ \A j \in lo + 1 .. Len(B) :
          /\ B[j].seq = s <=> b + n < j /\ j <= b + m
          /\ B[j].seq = s => B[j].pos = j - b - 1
    /\ n < m => lo <= b + n /\ b + m <= Len(B)

\* The logits the slot waits for are those of the last of its m tokens.
Awaits(B, lo, s, m, b, i_batch) ==
    /\ i_batch = b + m - 1 /\ lo <= i_batch /\ i_batch < Len(B)
    /\ B[b + m] = Token(s, m - 1, TRUE)

LEMMA ConcatAt ==
    ASSUME NEW S, NEW B \in Seq(S), NEW F \in Seq(S)
    PROVE  /\ B \o F \in Seq(S) /\ Len(B \o F) = Len(B) + Len(F)
           /\ \A j \in 1 .. Len(B) : (B \o F)[j] = B[j]
           /\ \A j \in 1 .. Len(B) + Len(F) :
                 j > Len(B) => (B \o F)[j] = F[j - Len(B)] /\ j - Len(B) \in 1 .. Len(F)
OBVIOUS

LEMMA BlockOther ==
    ASSUME NEW B \in Seq(TokenT), NEW F \in Seq(TokenT), NEW lo \in Nat, NEW x \in SlotIds,
           NEW n \in Nat, NEW m \in Nat, NEW b \in Int, n <= m,
           Block(B, lo, x, n, m, b),
           \A k \in 1 .. Len(F) : F[k].seq # x
    PROVE  Block(B \o F, lo, x, n, m, b)
<1> DEFINE C == B \o F
<1>1. /\ Len(C) = Len(B) + Len(F) /\ Len(B) \in Nat /\ Len(F) \in Nat
      /\ \A j \in 1 .. Len(B) : C[j] = B[j]
      /\ \A j \in 1 .. Len(B) + Len(F) :
            j > Len(B) => C[j] = F[j - Len(B)] /\ j - Len(B) \in 1 .. Len(F)
  BY ConcatAt
<1> HIDE DEF C
<1>2. ASSUME NEW j \in lo + 1 .. Len(C)
      PROVE  /\ C[j].seq = x <=> b + n < j /\ j <= b + m
             /\ C[j].seq = x => C[j].pos = j - b - 1
  <2>1. CASE j <= Len(B)
    BY <1>1, <2>1 DEF Block
  <2>2. CASE j > Len(B)
    <3>1. C[j].seq # x
      BY <1>1, <2>2
    <3>2. ~(b + n < j /\ j <= b + m)
      BY <1>1, <2>2 DEF Block
    <3>3. QED BY <3>1, <3>2
  <2>3. QED BY <1>1, <2>1, <2>2
<1>3. n < m => lo <= b + n /\ b + m <= Len(C)
  BY <1>1 DEF Block
<1>4. QED BY <1>2, <1>3 DEF Block, C

LEMMA AwaitsOther ==
    ASSUME NEW B \in Seq(TokenT), NEW F \in Seq(TokenT), NEW lo \in Nat, NEW x \in SlotIds,
           NEW m \in Nat, NEW b \in Int, NEW k \in Int, Awaits(B, lo, x, m, b, k)
    PROVE  Awaits(B \o F, lo, x, m, b, k)
<1>1. /\ Len(B \o F) = Len(B) + Len(F) /\ Len(B) \in Nat /\ Len(F) \in Nat
      /\ \A j \in 1 .. Len(B) : (B \o F)[j] = B[j]
  BY ConcatAt
<1>2. b + m \in 1 .. Len(B)
  BY <1>1 DEF Awaits
<1>3. (B \o F)[b + m] = B[b + m]
  BY <1>1, <1>2
<1>4. QED BY <1>1, <1>3 DEF Awaits

\* The c tokens from position p on that a slot adds at the end of the batch.
LEMMA BlockOwn ==
    ASSUME NEW B \in Seq(TokenT), NEW F \in Seq(TokenT), NEW s \in SlotIds,
           NEW p \in Nat,
           \A j \in 1 .. Len(B) : B[j].seq # s,
           \A k \in 1 .. Len(F) : F[k].seq = s /\ F[k].pos = p + k - 1
    PROVE  Block(B \o F, 0, s, p, p + Len(F), Len(B) - p)
<1> DEFINE C == B \o F
<1>1. /\ Len(C) = Len(B) + Len(F) /\ Len(B) \in Nat /\ Len(F) \in Nat
      /\ \A j \in 1 .. Len(B) : C[j] = B[j]
      /\ \A j \in 1 .. Len(B) + Len(F) :
            j > Len(B) => C[j] = F[j - Len(B)] /\ j - Len(B) \in 1 .. Len(F)
  BY ConcatAt
<1> HIDE DEF C
<1>2. ASSUME NEW j \in 1 .. Len(C)
      PROVE  /\ C[j].seq = s <=> Len(B) < j
             /\ C[j].seq = s => C[j].pos = j - (Len(B) - p) - 1
  <2>1. CASE j <= Len(B)
    BY <1>1, <2>1
  <2>2. CASE j > Len(B)
    BY <1>1, <2>2
  <2>3. QED BY <1>1, <2>1, <2>2
<1>3. QED
  BY <1>1, <1>2 DEF Block, C

LEMMA AwaitsOwn ==
    ASSUME NEW B \in Seq(TokenT), NEW F \in Seq(TokenT), NEW s \in SlotIds, NEW p \in Nat,
           Len(F) > 0, F[Len(F)] = Token(s, p + Len(F) - 1, TRUE)
    PROVE  Awaits(B \o F, 0, s, p + Len(F), Len(B) - p, Len(B) + Len(F) - 1)
<1> DEFINE C == B \o F
           m == p + Len(F)
           b == Len(B) - p
<1>1. /\ Len(C) = Len(B) + Len(F) /\ Len(B) \in Nat /\ Len(F) \in Nat
      /\ \A j \in 1 .. Len(B) + Len(F) :
            j > Len(B) => C[j] = F[j - Len(B)] /\ j - Len(B) \in 1 .. Len(F)
  BY ConcatAt
<1>2. /\ b + m \in 1 .. Len(B) + Len(F) /\ b + m > Len(B) /\ (b + m) - Len(B) = Len(F)
      /\ Len(B) + Len(F) - 1 = b + m - 1
  BY <1>1
<1>3. F[Len(F)] = Token(s, m - 1, TRUE)
  OBVIOUS
<1> HIDE DEF C, m, b
<1>4. C[b + m] = Token(s, m - 1, TRUE)
  BY <1>1, <1>2, <1>3
<1>5. Awaits(C, 0, s, m, b, Len(B) + Len(F) - 1)
  BY <1>1, <1>2, <1>4 DEF Awaits
<1>6. QED BY <1>5 DEF C, m, b

-----------------------------------------------------------------------------
(* The cache, when every cell holds a token of one sequence.               *)

Own(K) == K \subseteq CellT /\ \A c \in K : \E s \in SlotIds : c.seqs = {s}
Held(K, s) == {c.pos : c \in {k \in K : s \in k.seqs}}

LEMMA CellSame ==
    ASSUME NEW c \in CellT
    PROVE  /\ [c EXCEPT !.seqs = c.seqs] = c
           /\ \A X : [c EXCEPT !.seqs = X].seqs = X /\ [c EXCEPT !.seqs = X].pos = c.pos
BY DEF CellT

\* llama_memory_seq_rm drops the cells of the sequence from p0 on.
LEMMA SeqRmOwn ==
    ASSUME NEW K, Own(K), NEW s \in SlotIds, NEW p0
    PROVE  SeqRm(K, s, p0) = {c \in K : ~(c.seqs = {s} /\ c.pos >= p0)}
<1> DEFINE R(c) == [c EXCEPT !.seqs = IF c.pos >= p0 THEN c.seqs \ {s} ELSE c.seqs]
<1>1. ASSUME NEW c \in K
      PROVE  R(c) = IF c.seqs = {s} /\ c.pos >= p0 THEN [c EXCEPT !.seqs = {}] ELSE c
  <2>1. c \in CellT /\ \E x \in SlotIds : c.seqs = {x}
    BY DEF Own
  <2>2. CASE c.seqs = {s} /\ c.pos >= p0
    <3>1. c.seqs \ {s} = {}
      BY <2>2
    <3>2. QED BY <2>2, <3>1
  <2>3. CASE ~(c.seqs = {s} /\ c.pos >= p0)
    <3>1. (IF c.pos >= p0 THEN c.seqs \ {s} ELSE c.seqs) = c.seqs
      <4>1. CASE c.pos >= p0
        <5>1. c.seqs # {s}
          BY <4>1, <2>3
        <5>2. c.seqs \ {s} = c.seqs
          BY <2>1, <5>1
        <5>3. QED BY <4>1, <5>2
      <4>2. QED BY <4>1
    <3>2. R(c) = [c EXCEPT !.seqs = c.seqs]
      BY <3>1
    <3>3. QED BY <2>1, <2>3, <3>2, CellSame
  <2>4. QED BY <2>2, <2>3
<1>2. ASSUME NEW c \in K
      PROVE  c.seqs # {} /\ [c EXCEPT !.seqs = {}].seqs = {}
  BY CellSame DEF Own
<1>3. SeqRm(K, s, p0) = {c \in {R(c) : c \in K} : c.seqs # {}}
  BY DEF SeqRm, Used
<1> DEFINE Gone(c) == c.seqs = {s} /\ c.pos >= p0
<1>4. \A c \in K : /\ Gone(c) => R(c).seqs = {}
                   /\ ~Gone(c) => R(c) = c /\ R(c).seqs # {}
  BY <1>1, <1>2
<1> HIDE DEF R, Gone
<1>5. SeqRm(K, s, p0) = {c \in K : ~Gone(c)}
  BY <1>3, <1>4
<1>6. QED BY <1>5 DEF Gone

LEMMA SeqsClearOwn ==
    ASSUME NEW K, Own(K), NEW S
    PROVE  SeqsClear(K, S) = {c \in K : \A s \in S : c.seqs # {s}}
<1> DEFINE R(c) == [c EXCEPT !.seqs = c.seqs \ S]
<1>1. ASSUME NEW c \in K
      PROVE  R(c) = IF \E s \in S : c.seqs = {s} THEN [c EXCEPT !.seqs = {}] ELSE c
  <2>1. c \in CellT /\ \E x \in SlotIds : c.seqs = {x}
    BY DEF Own
  <2>2. CASE \E s \in S : c.seqs = {s}
    <3>1. c.seqs \ S = {}
      BY <2>2
    <3>2. QED BY <2>2, <3>1
  <2>3. CASE ~(\E s \in S : c.seqs = {s})
    <3>1. c.seqs \ S = c.seqs
      BY <2>1, <2>3
    <3>2. R(c) = [c EXCEPT !.seqs = c.seqs]
      BY <3>1
    <3>3. QED BY <2>1, <2>3, <3>2, CellSame
  <2>4. QED BY <2>2, <2>3
<1>2. ASSUME NEW c \in K
      PROVE  c.seqs # {} /\ [c EXCEPT !.seqs = {}].seqs = {}
  BY CellSame DEF Own
<1>3. SeqsClear(K, S) = {c \in {R(c) : c \in K} : c.seqs # {}}
  BY DEF SeqsClear, Used
<1> HIDE DEF R
<1>4. QED BY <1>1, <1>2, <1>3

\* Without forks llama_memory_seq_cp is never called.
LEMMA SeqCopyNothing ==
    ASSUME NEW K, Own(K), NEW from
    PROVE  SeqCopy(K, {}, from) = K
<1> DEFINE R(c) == [c EXCEPT !.seqs = (c.seqs \ {}) \cup {x \in {} : from[x] \in c.seqs}]
<1>1. ASSUME NEW c \in K
      PROVE  R(c) = c /\ c.seqs # {}
  <2>1. (c.seqs \ {}) \cup {x \in {} : from[x] \in c.seqs} = c.seqs
    OBVIOUS
  <2>2. R(c) = [c EXCEPT !.seqs = c.seqs]
    BY <2>1
  <2>3. QED BY <2>2, CellSame DEF Own
<1>2. SeqCopy(K, {}, from) = {c \in {R(c) : c \in K} : c.seqs # {}}
  BY DEF SeqCopy, Used
<1> HIDE DEF R
<1>3. QED BY <1>1, <1>2

\* What is left in the cache after a removal.
LEMMA HeldAfter ==
    ASSUME NEW K, Own(K), NEW s \in SlotIds
    PROVE  /\ \A x \in SlotIds, p0 \in Int :
                 Held(SeqRm(K, s, p0), x) =
                     IF x = s THEN {p \in Held(K, s) : p < p0} ELSE Held(K, x)
           /\ \A S \in SUBSET SlotIds :
                 Held(SeqsClear(K, S), s) = IF s \in S THEN {} ELSE Held(K, s)
<1>0. ASSUME NEW c \in K
      PROVE  c.pos \in Int /\ \E x \in SlotIds : c.seqs = {x}
  BY SizeAssumption DEF Own, CellT
<1>1. ASSUME NEW x \in SlotIds, NEW p0 \in Int
      PROVE  Held(SeqRm(K, s, p0), x) =
                 IF x = s THEN {p \in Held(K, s) : p < p0} ELSE Held(K, x)
  <2>1. SeqRm(K, s, p0) = {c \in K : ~(c.seqs = {s} /\ c.pos >= p0)}
    BY SeqRmOwn
  <2>2. CASE x = s
    <3>1. ASSUME NEW c \in K, s \in c.seqs
          PROVE  ~(c.seqs = {s} /\ c.pos >= p0) <=> c.pos < p0
      BY <1>0, <3>1
    <3>2. QED BY <2>1, <2>2, <3>1 DEF Held
  <2>3. CASE x # s
    <3>1. ASSUME NEW c \in K, x \in c.seqs
          PROVE  c.seqs # {s}
      BY <2>3, <3>1
    <3>2. QED BY <2>1, <2>3, <3>1 DEF Held
  <2>4. QED BY <2>2, <2>3
<1>2. ASSUME NEW S \in SUBSET SlotIds
      PROVE  Held(SeqsClear(K, S), s) = IF s \in S THEN {} ELSE Held(K, s)
  <2>1. SeqsClear(K, S) = {c \in K : \A x \in S : c.seqs # {x}}
    BY SeqsClearOwn
  <2>2. ASSUME NEW c \in K, s \in c.seqs
        PROVE  (\A x \in S : c.seqs # {x}) <=> s \notin S
    BY <1>0, <2>2
  <2>3. QED BY <2>1, <2>2 DEF Held
<1>3. QED BY <1>1, <1>2

\* A removal leaves a smaller cache of the same kind.
LEMMA SubCache ==
    ASSUME NEW K, Own(K), IsFiniteSet(K), Cardinality(K) <= Cells,
           NEW L \in SUBSET K
    PROVE  Own(L) /\ IsFiniteSet(L) /\ Cardinality(L) <= Cells
<1>1. Own(L)
  BY DEF Own
<1>2. IsFiniteSet(L) /\ Cardinality(L) <= Cardinality(K)
  BY FS_Subset
<1>3. Cardinality(K) \in Nat /\ Cardinality(L) \in Nat
  BY <1>2, FS_CardinalityType
<1>4. QED BY <1>1, <1>2, <1>3, SizeAssumption

-----------------------------------------------------------------------------
(* The inductive invariant.                                                *)

Live(slot) == \/ slot.state = "DONE_PROMPT"
              \/ slot.state = "GENERATING" /\ slot.i_batch # -1

\* A slot has the first n of its tokens in cache K and the others in the part
\* of batch B still to be decoded; fresh: it has none in the batch.
Fits(s, slot, K, B, decoded, sampled, fresh) ==
    \E n \in Nat, b \in Int :
        /\ n <= slot.n_tokens
        /\ Held(K, s) = 0 .. n - 1
        /\ Block(B, decoded, s, n, slot.n_tokens, b)
        /\ Live(slot) => Awaits(B, sampled, s, slot.n_tokens, b, slot.i_batch)
        /\ fresh => n = slot.n_tokens

SlotOk(s, slot, ph, passed) ==
    /\ slot.state # "WAIT_OTHER" /\ slot.parent = NoParent /\ slot.dft = <<>>
    /\ slot.state = "STARTED" => slot.n_task > 0
    /\ slot.state = "PROCESSING_PROMPT" => slot.n_tokens < slot.n_task
    /\ Live(slot) => slot.n_tokens < NCtx
    /\ slot.state = "GENERATING" /\ slot.i_batch = -1 => slot.n_tokens + 1 < NCtx
    /\ ph = "gather" /\ slot.state = "GENERATING" => (slot.i_batch = -1 <=> s >= passed)
    /\ ph \in {"idle", "gather"} => slot.state # "DONE_PROMPT"
    /\ ph = "idle" => ~Live(slot)

\* The tokens of the batch that are in the cache, and those sampled from.
Decoded == IF phase \in {"sample", "spec"} THEN i + view ELSE i
Sampling == IF phase = "spec" THEN i + view ELSE i
Fresh(s) == \/ slots[s].state \in {"IDLE", "STARTED"}
            \/ phase = "gather" /\ ~Live(slots[s])
            \/ phase = "prompt" /\ ~Live(slots[s]) /\ s >= at
InRound == phase \in {"gather", "prompt", "decode", "sample", "spec"}

SlotsOk == /\ slots \in [SlotIds -> Slot]
           /\ \A s \in SlotIds : SlotOk(s, slots[s], phase, at)
BatchOk == /\ batch \in Seq(TokenT) /\ Len(batch) <= Capacity
           /\ n_batch \in 1 .. NBatch /\ i \in Nat /\ view \in 0 .. NBatch
           /\ at \in 0 .. NSlots
           /\ InRound \/ phase \in {"idle", "overflow", "nologits"}
           /\ phase \in {"gather", "prompt"} => i = 0
           /\ phase = "decode" => i <= Len(batch)
           /\ phase \in {"sample", "spec"} => i + view <= Len(batch)
CacheOk == Own(kv) /\ IsFiniteSet(kv) /\ Cardinality(kv) <= Cells
Agree   == /\ phase = "idle" =>
                  \A s \in SlotIds : Held(kv, s) = 0 .. slots[s].n_tokens - 1
           /\ InRound =>
                  \A s \in SlotIds :
                      Fits(s, slots[s], kv, batch, Decoded, Sampling, Fresh(s))

IInv == SlotsOk /\ BatchOk /\ CacheOk /\ Agree

LEMMA PositionsAreHeld == \A s : Positions(s) = Held(kv, s)
BY DEF Positions, Held

LEMMA SlotFields ==
    ASSUME NEW slot \in Slot
    PROVE  /\ slot.n_tokens \in 0 .. NCtx /\ slot.n_task \in 0 .. NCtx - 1
           /\ slot.i_batch \in Int /\ slot.i_batch >= -1
           /\ NCtx \in Nat /\ NCtx > 1
BY SizeAssumption, CapacityHoldsSlots DEF Slot

LEMMA IInvType == IInv => TypeOK
<1> SUFFICES ASSUME IInv PROVE TypeOK
  OBVIOUS
<1>1. batch \in Seq([seq : SlotIds, pos : 0 .. NCtx, out : BOOLEAN])
  BY DEF IInv, BatchOk, TokenT
<1>2. kv \subseteq [pos : 0 .. NCtx, seqs : (SUBSET SlotIds) \ {{}}]
  BY DEF IInv, CacheOk, Own, CellT
<1>3. QED
  BY <1>1, <1>2 DEF IInv, SlotsOk, BatchOk, CacheOk, InRound, TypeOK

LEMMA IInvInit == Init => IInv
<1> SUFFICES ASSUME Init PROVE IInv
  OBVIOUS
<1> DEFINE e == [state |-> "IDLE", parent |-> NoParent, n_task |-> 0,
                 n_tokens |-> 0, i_batch |-> -1, dft |-> <<>>]
<1>1. e \in Slot
  BY SizeAssumption, CapacityHoldsSlots DEF Slot
<1>2. slots = [s \in SlotIds |-> e]
  BY DEF Init
<1>3. e.state = "IDLE" /\ e.parent = NoParent /\ e.dft = <<>> /\ e.n_tokens = 0
  OBVIOUS
<1> HIDE DEF e
<1>4. SlotsOk
  BY <1>1, <1>2, <1>3 DEF SlotsOk, SlotOk, Live
<1>5. BatchOk
  <2>1. batch \in Seq(TokenT) /\ Len(batch) = 0
    BY DEF Init
  <2>2. QED
    BY <2>1, SizeAssumption, CapacityHoldsSlots DEF Init, BatchOk, InRound
<1>6. CacheOk
  BY FS_EmptySet, SizeAssumption DEF Init, CacheOk, Own
<1>7. Agree
  BY <1>2, <1>3 DEF Init, Agree, Held, InRound
<1>8. QED BY <1>4, <1>5, <1>6, <1>7 DEF IInv

\* The tokens of another slot change nothing for a slot.
LEMMA FitsOther ==
    ASSUME NEW s \in SlotIds, NEW slot \in Slot, NEW K, NEW L, Held(L, s) = Held(K, s),
           NEW B \in Seq(TokenT), NEW F \in Seq(TokenT),
           \A k \in 1 .. Len(F) : F[k].seq # s,
           NEW fresh \in BOOLEAN, NEW fresh2 \in BOOLEAN, fresh2 => fresh,
           Fits(s, slot, K, B, 0, 0, fresh)
    PROVE  Fits(s, slot, L, B \o F, 0, 0, fresh2)
<1> DEFINE m == slot.n_tokens
           k == slot.i_batch
<1>1. m \in Nat /\ k \in Int
  BY SlotFields
<1>2. PICK n \in Nat, b \in Int :
          /\ n <= m /\ Held(K, s) = 0 .. n - 1 /\ Block(B, 0, s, n, m, b)
          /\ Live(slot) => Awaits(B, 0, s, m, b, k)
          /\ fresh => n = m
  BY DEF Fits
<1> HIDE DEF m, k
<1>3. Block(B \o F, 0, s, n, m, b)
  BY <1>1, <1>2, BlockOther
<1>4. Live(slot) => Awaits(B \o F, 0, s, m, b, k)
  BY <1>1, <1>2, AwaitsOther
<1>5. QED BY <1>2, <1>3, <1>4 DEF Fits, m, k

\* The tokens a slot adds at the end of the batch.
LEMMA FitsOwn ==
    ASSUME NEW s \in SlotIds, NEW old \in Slot, NEW slot \in Slot, NEW K, NEW L,
           NEW B \in Seq(TokenT), NEW F \in Seq(TokenT), NEW p \in Nat,
           Fits(s, old, K, B, 0, 0, TRUE),
           Held(L, s) = 0 .. p - 1, slot.n_tokens = p + Len(F),
           \A k \in 1 .. Len(F) : F[k].seq = s /\ F[k].pos = p + k - 1,
           Live(slot) => /\ Len(F) > 0 /\ F[Len(F)] = Token(s, p + Len(F) - 1, TRUE)
                         /\ slot.i_batch = Len(B) + Len(F) - 1
    PROVE  Fits(s, slot, L, B \o F, 0, 0, FALSE)
<1>1. \A j \in 1 .. Len(B) : B[j].seq # s
  <2>1. PICK n \in Nat, b \in Int : n = old.n_tokens /\ Block(B, 0, s, n, n, b)
    BY DEF Fits
  <2>2. \A j \in 0 + 1 .. Len(B) : B[j].seq = s <=> b + n < j /\ j <= b + n
    BY <2>1 DEF Block
  <2>3. QED BY <2>2
<1>2. Block(B \o F, 0, s, p, p + Len(F), Len(B) - p)
  BY <1>1, BlockOwn
<1>3. Live(slot) => Awaits(B \o F, 0, s, p + Len(F), Len(B) - p, slot.i_batch)
  BY AwaitsOwn
<1>4. Len(B) - p \in Int /\ p <= p + Len(F)
  OBVIOUS
<1>5. QED BY <1>2, <1>3, <1>4 DEF Fits

-----------------------------------------------------------------------------
(* Each action keeps the invariant.                                        *)

\* The updates of a slot, for any types of its fields.
SlotOf(A, B, C, D, E, F) ==
    [state : A, parent : B, n_task : C, n_tokens : D, i_batch : E, dft : F]

LEMMA SlotOfUpdates ==
    ASSUME NEW A, NEW B, NEW C, NEW D, NEW E, NEW F, NEW r \in SlotOf(A, B, C, D, E, F)
    PROVE  /\ \A n \in D : [r EXCEPT !.n_tokens = n] \in SlotOf(A, B, C, D, E, F)
           /\ \A k \in E : [r EXCEPT !.i_batch = k] \in SlotOf(A, B, C, D, E, F)
           /\ \A a \in A, c \in C :
                 [r EXCEPT !.state = a, !.n_task = c] \in SlotOf(A, B, C, D, E, F)
           /\ \A a \in A, k \in E :
                 [r EXCEPT !.state = a, !.i_batch = k] \in SlotOf(A, B, C, D, E, F)
           /\ \A k \in E, n \in D :
                 [r EXCEPT !.i_batch = k, !.n_tokens = n] \in SlotOf(A, B, C, D, E, F)
           /\ \A a \in A, n \in D, k \in E :
                 [r EXCEPT !.state = a, !.n_tokens = n, !.i_batch = k]
                     \in SlotOf(A, B, C, D, E, F)
           /\ \A a \in A, c \in C, f \in F, n \in D, b \in B :
                 [r EXCEPT !.state = a, !.n_task = c, !.dft = f, !.n_tokens = n, !.parent = b]
                     \in SlotOf(A, B, C, D, E, F)
BY DEF SlotOf

States == {"IDLE", "WAIT_OTHER", "STARTED", "PROCESSING_PROMPT", "DONE_PROMPT", "GENERATING"}
Drafts == Seq(0 .. Capacity - 1)

LEMMA SlotIsSlotOf ==
    Slot = SlotOf(States, SlotIds \cup {NoParent}, 0 .. NCtx - 1, 0 .. NCtx,
                  -1 .. Capacity - 1, Drafts)
BY DEF Slot, SlotOf, States, Drafts

LEMMA SlotUpdates ==
    ASSUME NEW r \in Slot
    PROVE  /\ \A n \in 0 .. NCtx : [r EXCEPT !.n_tokens = n] \in Slot
           /\ \A k \in -1 .. Capacity - 1 : [r EXCEPT !.i_batch = k] \in Slot
           /\ \A a \in States, c \in 0 .. NCtx - 1 :
                 [r EXCEPT !.state = a, !.n_task = c] \in Slot
           /\ \A a \in States, k \in -1 .. Capacity - 1 :
                 [r EXCEPT !.state = a, !.i_batch = k] \in Slot
           /\ \A k \in -1 .. Capacity - 1, n \in 0 .. NCtx :
                 [r EXCEPT !.i_batch = k, !.n_tokens = n] \in Slot
           /\ \A a \in States, n \in 0 .. NCtx, k \in -1 .. Capacity - 1 :
                 [r EXCEPT !.state = a, !.n_tokens = n, !.i_batch = k] \in Slot
<1> DEFINE A == States
           B == SlotIds \cup {NoParent}
           C == 0 .. NCtx - 1
           D == 0 .. NCtx
           E == -1 .. Capacity - 1
           F == Drafts
<1>1. Slot = SlotOf(A, B, C, D, E, F)
  BY SlotIsSlotOf
<1> HIDE DEF A, B, C, D, E, F
<1>2. /\ \A n \in D : [r EXCEPT !.n_tokens = n] \in Slot
      /\ \A k \in E : [r EXCEPT !.i_batch = k] \in Slot
      /\ \A a \in A, c \in C : [r EXCEPT !.state = a, !.n_task = c] \in Slot
      /\ \A a \in A, k \in E : [r EXCEPT !.state = a, !.i_batch = k] \in Slot
      /\ \A k \in E, n \in D : [r EXCEPT !.i_batch = k, !.n_tokens = n] \in Slot
      /\ \A a \in A, n \in D, k \in E :
            [r EXCEPT !.state = a, !.n_tokens = n, !.i_batch = k] \in Slot
  BY <1>1, SlotOfUpdates
<1>3. QED BY <1>2 DEF A, C, D, E

\* What the updates leave in the fields that the invariant reads.
LEMMA SlotAfter ==
    ASSUME NEW r \in Slot, NEW a, NEW c, NEW k, NEW n
    PROVE  /\ LET t == [r EXCEPT !.n_tokens = n] IN
                 /\ t.state = r.state /\ t.parent = r.parent /\ t.n_task = r.n_task
                 /\ t.n_tokens = n /\ t.i_batch = r.i_batch /\ t.dft = r.dft
           /\ LET t == [r EXCEPT !.state = a, !.n_task = c] IN
                 /\ t.state = a /\ t.parent = r.parent /\ t.n_task = c
                 /\ t.n_tokens = r.n_tokens /\ t.i_batch = r.i_batch /\ t.dft = r.dft
           /\ LET t == [r EXCEPT !.state = a, !.i_batch = k] IN
                 /\ t.state = a /\ t.parent = r.parent /\ t.n_task = r.n_task
                 /\ t.n_tokens = r.n_tokens /\ t.i_batch = k /\ t.dft = r.dft
           /\ LET t == [r EXCEPT !.i_batch = k, !.n_tokens = n] IN
                 /\ t.state = r.state /\ t.parent = r.parent /\ t.n_task = r.n_task
                 /\ t.n_tokens = n /\ t.i_batch = k /\ t.dft = r.dft
           /\ LET t == [r EXCEPT !.state = a, !.n_tokens = n, !.i_batch = k] IN
                 /\ t.state = a /\ t.parent = r.parent /\ t.n_task = r.n_task
                 /\ t.n_tokens = n /\ t.i_batch = k /\ t.dft = r.dft
BY SlotIsSlotOf DEF SlotOf

\* Between two rounds: slots change, and the cache loses what they give up.
LEMMA BetweenRounds ==
    ASSUME IInv, phase = "idle", NEW S \in SUBSET SlotIds,
           kv' = SeqsClear(kv, S), slots' \in [SlotIds -> Slot],
           UNCHANGED <<batch, n_batch, i, view, phase, at>>,
           \A s \in SlotIds :
               /\ SlotOk(s, slots'[s], "idle", at)
               /\ slots'[s].n_tokens = IF s \in S THEN 0 ELSE slots[s].n_tokens
    PROVE  IInv'
<1>1. SlotsOk'
  BY DEF SlotsOk
<1>2. BatchOk'
  BY DEF IInv, BatchOk, InRound
<1>3. CacheOk'
  <2>1. kv' \in SUBSET kv
    BY SeqsClearOwn DEF IInv, CacheOk
  <2>2. QED BY <2>1, SubCache DEF IInv, CacheOk
<1>4. Agree'
  <2>1. ASSUME NEW s \in SlotIds
        PROVE  Held(kv', s) = 0 .. slots'[s].n_tokens - 1
    <3>1. Held(kv', s) = IF s \in S THEN {} ELSE Held(kv, s)
      BY HeldAfter DEF IInv, CacheOk
    <3>2. Held(kv, s) = 0 .. slots[s].n_tokens - 1
      BY DEF IInv, Agree
    <3>3. QED BY <3>1, <3>2
  <2>2. ~InRound'
    BY DEF InRound
  <2>3. QED BY <2>1, <2>2 DEF Agree
<1>5. QED BY <1>1, <1>2, <1>3, <1>4 DEF IInv

LEMMA LaunchKeeps ==
    ASSUME IInv, NEW s \in SlotIds, Launch(s)
    PROVE  IInv'
<1>1. PICK n \in 1 .. NCtx - 1 :
          slots' = [SlotsOnLaunch({s}) EXCEPT ![s].state = "STARTED", ![s].n_task = n]
  BY DEF Launch
<1> DEFINE S == Cleared({s})
           f == SlotsOnLaunch({s})
<1>2. S \in SUBSET SlotIds /\ s \notin S /\ \A x \in S : slots[x].state = "IDLE"
  BY DEF Cleared, Idle, Busy
<1>3. f \in [SlotIds -> Slot]
  <2>1. ASSUME NEW x \in SlotIds PROVE [slots[x] EXCEPT !.n_tokens = 0] \in Slot
    <3>1. slots[x] \in Slot /\ 0 \in 0 .. NCtx
      BY SizeAssumption DEF IInv, SlotsOk
    <3>2. QED BY <3>1, SlotUpdates
  <2>2. QED BY <2>1 DEF SlotsOnLaunch, IInv, SlotsOk
<1>4. \A x \in SlotIds : f[x] = IF x \in S THEN [slots[x] EXCEPT !.n_tokens = 0] ELSE slots[x]
  BY DEF SlotsOnLaunch
<1>5. phase = "idle" /\ kv' = SeqsClear(kv, S)
      /\ UNCHANGED <<batch, n_batch, i, view, phase, at>>
  BY DEF Launch
<1> HIDE DEF S, f
<1>6. slots' = [f EXCEPT ![s] = [f[s] EXCEPT !.state = "STARTED", !.n_task = n]]
  BY <1>1, <1>3 DEF f
<1>7. [f[s] EXCEPT !.state = "STARTED", !.n_task = n] \in Slot
  <2>1. f[s] \in Slot /\ "STARTED" \in States /\ n \in 0 .. NCtx - 1
    BY <1>3, SizeAssumption DEF States
  <2>2. QED BY <2>1, SlotUpdates
<1>8. slots' \in [SlotIds -> Slot]
  BY <1>3, <1>6, <1>7
<1>9. slots'[s] = [slots[s] EXCEPT !.state = "STARTED", !.n_task = n]
  BY <1>2, <1>3, <1>4, <1>6
<1>10. ASSUME NEW x \in SlotIds
       PROVE  /\ SlotOk(x, slots'[x], "idle", at)
              /\ slots'[x].n_tokens = IF x \in S THEN 0 ELSE slots[x].n_tokens
  <2>1. SlotOk(x, slots[x], "idle", at) /\ slots[x] \in Slot
    BY <1>5 DEF IInv, SlotsOk
  <2>2. CASE x = s
    <3>1. /\ slots'[x].state = "STARTED" /\ slots'[x].parent = slots[x].parent
          /\ slots'[x].n_task = n /\ slots'[x].n_tokens = slots[x].n_tokens
          /\ slots'[x].dft = slots[x].dft
      <4>1. slots[x] \in Slot /\ slots'[x] = [slots[x] EXCEPT !.state = "STARTED", !.n_task = n]
        BY <1>9, <2>1, <2>2
      <4>2. QED BY <4>1, SlotAfter
    <3>2. QED BY <1>2, <2>1, <2>2, <3>1 DEF SlotOk, Live
  <2>3. CASE x # s /\ x \in S
    <3>1. slots'[x] = [slots[x] EXCEPT !.n_tokens = 0] /\ slots[x].state = "IDLE"
      BY <1>2, <1>3, <1>4, <1>6, <2>3
    <3>2. /\ slots'[x].state = "IDLE" /\ slots'[x].parent = slots[x].parent
          /\ slots'[x].n_tokens = 0 /\ slots'[x].dft = slots[x].dft
      BY <2>1, <3>1, SlotAfter
    <3>3. QED BY <2>1, <2>3, <3>2 DEF SlotOk, Live
  <2>4. CASE x # s /\ x \notin S
    <3>1. slots'[x] = slots[x]
      BY <1>3, <1>4, <1>6, <2>4
    <3>2. QED BY <2>1, <2>4, <3>1
  <2>5. QED BY <2>2, <2>3, <2>4
<1>11. QED BY <1>2, <1>5, <1>8, <1>10, BetweenRounds

LEMMA ReleasedSlot ==
    ASSUME NEW slot \in Slot, slot.parent = NoParent
    PROVE  /\ Released(slot) \in Slot
           /\ Released(slot).state = "IDLE" /\ Released(slot).parent = NoParent
           /\ Released(slot).dft = <<>> /\ Released(slot).n_tokens = slot.n_tokens
<1> DEFINE A == States
           B == SlotIds \cup {NoParent}
           C == 0 .. NCtx - 1
           D == 0 .. NCtx
           E == -1 .. Capacity - 1
           F == Drafts
           r == [slot EXCEPT !.state = "IDLE", !.n_task = 0, !.dft = <<>>,
                             !.n_tokens = slot.n_tokens, !.parent = NoParent]
<1>1. Released(slot) = r
  BY DEF Released
<1>2. Slot = SlotOf(A, B, C, D, E, F)
  BY SlotIsSlotOf
<1>3. "IDLE" \in A /\ NoParent \in B /\ 0 \in C /\ slot.n_tokens \in D /\ <<>> \in F
  BY SlotFields, SizeAssumption DEF States, Drafts
<1> HIDE DEF A, B, C, D, E, F
<1>4. r \in Slot
  BY <1>2, <1>3, SlotOfUpdates
<1>5. r.state = "IDLE" /\ r.parent = NoParent /\ r.dft = <<>> /\ r.n_tokens = slot.n_tokens
  BY <1>2 DEF SlotOf
<1>6. QED BY <1>1, <1>4, <1>5

LEMMA CancelKeeps ==
    ASSUME IInv, NEW s \in SlotIds, Cancel(s)
    PROVE  IInv'
<1> DEFINE mine == {s} \cup {c \in Busy : slots[c].parent = s}
<1>0. \A x \in SlotIds : SlotOk(x, slots[x], phase, at) /\ slots[x] \in Slot
  BY DEF IInv, SlotsOk
<1>1. mine = {s}
  BY <1>0, SizeAssumption DEF Busy, SlotOk, NoParent, SlotIds
<1>2. /\ phase = "idle" /\ UNCHANGED <<batch, n_batch, i, view, phase, at>>
      /\ slots' = [x \in SlotIds |-> IF x \in mine THEN Released(slots[x]) ELSE slots[x]]
      /\ kv' = SeqsClear(kv, ChildrenIn(mine))
  BY DEF Cancel
<1>3. ChildrenIn(mine) = {}
  BY <1>0, <1>1 DEF ChildrenIn, SlotOk
<1> HIDE DEF mine
<1>4. Released(slots[s]) \in Slot /\ slots' \in [SlotIds -> Slot]
  <2>1. Released(slots[s]) \in Slot
    BY <1>0, ReleasedSlot DEF SlotOk
  <2>2. QED BY <1>0, <1>1, <1>2, <2>1
<1>5. ASSUME NEW x \in SlotIds
      PROVE  /\ SlotOk(x, slots'[x], "idle", at)
             /\ slots'[x].n_tokens = IF x \in {} THEN 0 ELSE slots[x].n_tokens
  <2>1. CASE x = s
    <3>1. slots'[x] = Released(slots[x])
      BY <1>1, <1>2, <2>1
    <3>2. QED BY <1>0, <3>1, ReleasedSlot DEF SlotOk, Live
  <2>2. CASE x # s
    <3>1. slots'[x] = slots[x]
      BY <1>1, <1>2, <2>2
    <3>2. QED BY <1>0, <1>2, <3>1
  <2>3. QED BY <2>1, <2>2
<1>6. QED
  <2>1. {} \in SUBSET SlotIds /\ kv' = SeqsClear(kv, {})
    BY <1>2, <1>3
  <2>2. QED BY <1>2, <1>4, <1>5, <2>1, BetweenRounds

LEMMA BeginKeeps ==
    ASSUME IInv, BeginUpdate
    PROVE  IInv'
<1>1. /\ phase = "idle" /\ phase' = "gather" /\ batch' = <<>> /\ at' = 0 /\ n_batch' = NBatch
      /\ i' = 0 /\ view' = 0 /\ UNCHANGED <<slots, kv>>
  BY DEF BeginUpdate
<1>2. \A x \in SlotIds : SlotOk(x, slots[x], "idle", at) /\ slots[x] \in Slot
  BY <1>1 DEF IInv, SlotsOk
<1>3. SlotsOk'
  <2>1. ASSUME NEW x \in SlotIds PROVE SlotOk(x, slots[x], "gather", 0)
    BY <1>2, SizeAssumption DEF SlotOk, Live, SlotIds
  <2>2. QED BY <1>1, <2>1 DEF IInv, SlotsOk
<1>4. BatchOk'
  <2>1. batch' \in Seq(TokenT) /\ Len(batch') = 0
    BY <1>1
  <2>2. QED
    BY <1>1, <2>1, SizeAssumption, CapacityHoldsSlots DEF BatchOk, InRound
<1>5. CacheOk'
  BY <1>1 DEF IInv, CacheOk
<1>6. ASSUME NEW x \in SlotIds
      PROVE  Fits(x, slots'[x], kv', batch', Decoded', Sampling', Fresh(x)')
  <2>1. Decoded' = 0 /\ Sampling' = 0
    BY <1>1 DEF Decoded, Sampling
  <2>2. Held(kv, x) = 0 .. slots[x].n_tokens - 1
    BY <1>1 DEF IInv, Agree
  <2>3. ~Live(slots[x]) /\ slots[x].n_tokens \in Nat
    BY <1>2, SlotFields DEF SlotOk
  <2>4. Block(<<>>, 0, x, slots[x].n_tokens, slots[x].n_tokens, 0)
    BY <2>3 DEF Block
  <2>5. QED BY <1>1, <2>1, <2>2, <2>3, <2>4 DEF Fits
<1>7. QED
  <2>1. Agree'
    BY <1>1, <1>6 DEF Agree
  <2>2. QED BY <1>3, <1>4, <1>5, <2>1 DEF IInv

\* A slot adds the tokens F of its positions from p on to the batch.
LEMMA AddKeeps ==
    ASSUME IInv, phase \in {"gather", "prompt"}, NEW s \in SlotIds, at <= s, Fresh(s),
           NEW F \in Seq(TokenT), NEW p \in Nat, NEW slot \in Slot,
           batch' = batch \o F, Len(batch) + Len(F) <= Capacity,
           slots' = [slots EXCEPT ![s] = slot],
           at' \in s + 1 .. NSlots,
           kv' \in SUBSET kv, Held(kv', s) = 0 .. p - 1,
           \A x \in SlotIds \ {s} : Held(kv', x) = Held(kv, x),
           \A k \in 1 .. Len(F) : F[k].seq = s /\ F[k].pos = p + k - 1,
           slot.n_tokens = p + Len(F), slot.state \notin {"IDLE", "STARTED"},
           Live(slot) => /\ Len(F) > 0 /\ F[Len(F)] = Token(s, p + Len(F) - 1, TRUE)
                         /\ slot.i_batch = Len(batch) + Len(F) - 1,
           phase = "gather" => Live(slot),
           SlotOk(s, slot, phase, at'),
           \A x \in SlotIds \ {s} : SlotOk(x, slots[x], phase, at'),
           UNCHANGED <<n_batch, i, view, phase>>
    PROVE  IInv'
<1>1. SlotsOk'
  BY DEF IInv, SlotsOk
<1>2. BatchOk'
  <2>1. batch' \in Seq(TokenT) /\ Len(batch') = Len(batch) + Len(F)
    BY ConcatAt DEF IInv, BatchOk
  <2>2. at' \in 0 .. NSlots
    BY SizeAssumption DEF SlotIds
  <2>3. QED BY <2>1, <2>2 DEF IInv, BatchOk, InRound
<1>3. CacheOk'
  BY SubCache DEF IInv, CacheOk
<1>4. Decoded = 0 /\ Sampling = 0 /\ Decoded' = 0 /\ Sampling' = 0
  BY DEF IInv, BatchOk, Decoded, Sampling
<1>5. batch \in Seq(TokenT) /\ slots \in [SlotIds -> Slot] /\ s \in Int /\ at \in Int
  BY SizeAssumption DEF IInv, BatchOk, SlotsOk, SlotIds
<1>6. \A x \in SlotIds : Fits(x, slots[x], kv, batch, 0, 0, Fresh(x)) /\ Fresh(x) \in BOOLEAN
  BY <1>4 DEF IInv, Agree, InRound, Fresh
<1>7. Fits(s, slot, kv', batch', 0, 0, FALSE)
  <2>1. Fits(s, slots[s], kv, batch, 0, 0, TRUE) /\ slots[s] \in Slot
    BY <1>5, <1>6
  <2>2. QED BY <1>5, <2>1, FitsOwn
<1>8. ASSUME NEW x \in SlotIds
      PROVE  Fits(x, slots'[x], kv', batch', 0, 0, Fresh(x)')
  <2>1. CASE x = s
    <3>1. slots'[x] = slot
      BY <1>5, <2>1
    <3>2. ~Fresh(x)'
      BY <1>5, <2>1, <3>1 DEF Fresh
    <3>3. QED BY <1>7, <2>1, <3>1, <3>2 DEF Fits
  <2>2. CASE x # s
    <3>1. slots'[x] = slots[x] /\ slots[x] \in Slot /\ x \in Int
      BY <1>5, <2>2, SizeAssumption DEF SlotIds
    <3>2. Fresh(x)' \in BOOLEAN /\ (Fresh(x)' => Fresh(x))
      BY <1>5, <3>1 DEF Fresh
    <3>3. Held(kv', x) = Held(kv, x) /\ \A k \in 1 .. Len(F) : F[k].seq # x
      BY <2>2
    <3>4. Fits(x, slots[x], kv', batch \o F, 0, 0, Fresh(x)')
      BY <1>5, <1>6, <3>1, <3>2, <3>3, FitsOther
    <3>5. QED BY <3>1, <3>4
  <2>3. QED BY <2>1, <2>2
<1>9. Agree'
  BY <1>4, <1>8 DEF Agree
<1>10. QED BY <1>1, <1>2, <1>3, <1>9 DEF IInv

LEMMA TokenSeq ==
    ASSUME NEW c \in Nat, NEW F, F = [k \in 1 .. c |-> F[k]],
           \A k \in 1 .. c : F[k] \in TokenT
    PROVE  F \in Seq(TokenT) /\ Len(F) = c
<1>1. F \in [1 .. c -> TokenT]
  OBVIOUS
<1>2. QED BY <1>1

LEMMA GatherKeeps ==
    ASSUME IInv, NEW s \in SlotIds, Gather(s)
    PROVE  IInv'
<1> DEFINE m == slots[s].n_tokens
           F == Sampled(s, 0)
           t == Token(s, m, TRUE)
           slot == [slots[s] EXCEPT !.i_batch = Len(batch), !.n_tokens = m + 1]
<1>1. /\ phase = "gather" /\ slots[s].state = "GENERATING" /\ s >= at
      /\ \A x \in Generating : x >= at => s <= x
      /\ Len(batch) < Capacity /\ batch' = batch \o F /\ at' = s + 1
      /\ UNCHANGED <<n_batch, i, view, kv, phase>>
  BY DEF Gather, OnSlot, Generating, InState
<1>2. /\ slots \in [SlotIds -> Slot] /\ slots[s] \in Slot
      /\ \A x \in SlotIds : SlotOk(x, slots[x], "gather", at)
      /\ batch \in Seq(TokenT) /\ Len(batch) \in Nat /\ at \in Int
  BY <1>1 DEF IInv, SlotsOk, BatchOk
<1>3. slots' = [slots EXCEPT ![s] = slot]
  BY <1>2 DEF Gather
<1>4. /\ s \in Int /\ s < NSlots /\ m \in 0 .. NCtx /\ m + 1 < NCtx /\ NCtx \in Nat
      /\ Capacity \in Nat /\ NSlots \in Nat /\ slots[s].i_batch = -1
  BY <1>1, <1>2, SlotFields, CapacityHoldsSlots, SizeAssumption DEF SlotOk, SlotIds
<1>5. slot \in Slot
  <2>1. Len(batch) \in -1 .. Capacity - 1 /\ m + 1 \in 0 .. NCtx
    BY <1>1, <1>2, <1>4
  <2>2. QED BY <1>2, <2>1, SlotUpdates
<1>6. /\ slot.state = "GENERATING" /\ slot.i_batch = Len(batch) /\ slot.n_tokens = m + 1
      /\ slot.parent = slots[s].parent /\ slot.dft = slots[s].dft
  BY <1>1, <1>2, SlotAfter
<1>7. t \in TokenT /\ t.seq = s /\ t.pos = m
  BY <1>4 DEF Token, TokenT
<1>8. F = [k \in 1 .. 1 |-> Token(s, m + k - 1, TRUE)]
  BY DEF Sampled
<1> HIDE DEF m, F, t, slot
<1>9. F \in Seq(TokenT) /\ Len(F) = 1 /\ F[1] = t
  <2>1. m + 1 - 1 = m
    BY <1>4
  <2>2. F[1] = t
    <3>1. 1 \in 1 .. 1
      OBVIOUS
    <3>2. F[1] = Token(s, m + 1 - 1, TRUE)
      BY <1>8, <3>1
    <3>3. QED BY <2>1, <3>2 DEF t
  <2>3. \A k \in 1 .. 1 : F[k] \in TokenT
    BY <1>7, <2>2
  <2>4. F = [k \in 1 .. 1 |-> F[k]]
    BY <1>8
  <2>5. QED BY <2>2, <2>3, <2>4, TokenSeq
<1>10. Fresh(s)
  BY <1>1, <1>4 DEF Fresh, Live
<1>11. Held(kv', s) = 0 .. m - 1
  <2>1. Fits(s, slots[s], kv, batch, Decoded, Sampling, Fresh(s))
    BY <1>1 DEF IInv, Agree, InRound
  <2>2. PICK n \in Nat : n = slots[s].n_tokens /\ Held(kv, s) = 0 .. n - 1
    BY <1>10, <2>1 DEF Fits
  <2>3. QED BY <1>1, <2>2 DEF m
<1>12. SlotOk(s, slot, "gather", at')
  BY <1>1, <1>2, <1>4, <1>6 DEF SlotOk, Live
<1>13. ASSUME NEW x \in SlotIds \ {s} PROVE SlotOk(x, slots[x], "gather", at')
  <2>1. x \in Int
    BY SizeAssumption DEF SlotIds
  <2>2. slots[x].state = "GENERATING" => (x >= at <=> x >= at')
    BY <1>1, <1>2, <1>4, <2>1 DEF Generating, InState
  <2>3. QED BY <1>2, <2>2 DEF SlotOk
<1>14. QED
  <2>1. /\ \A k \in 1 .. Len(F) : F[k].seq = s /\ F[k].pos = m + k - 1
        /\ F[Len(F)] = Token(s, m + Len(F) - 1, TRUE) /\ Len(F) > 0
        /\ slot.n_tokens = m + Len(F) /\ slot.i_batch = Len(batch) + Len(F) - 1
    <3>1. /\ m + Len(F) - 1 = m /\ Len(batch) + Len(F) - 1 = Len(batch)
          /\ m + Len(F) = m + 1 /\ Len(F) > 0
      BY <1>2, <1>4, <1>9
    <3>2. F[Len(F)] = t /\ t = Token(s, m + Len(F) - 1, TRUE)
      BY <1>9, <3>1 DEF t
    <3>3. \A k \in 1 .. Len(F) : F[k] = t /\ m + k - 1 = m
      BY <1>4, <1>9
    <3>4. \A k \in 1 .. Len(F) : F[k].seq = s /\ F[k].pos = m + k - 1
      BY <1>7, <3>3
    <3>5. QED BY <1>6, <3>1, <3>2, <3>4
  <2>2. Live(slot) /\ slot.state \notin {"IDLE", "STARTED"}
    BY <1>2, <1>6 DEF Live
  <2>3. /\ Len(batch) + Len(F) <= Capacity /\ at <= s /\ at' \in s + 1 .. NSlots
        /\ m \in Nat /\ kv' \in SUBSET kv /\ \A x \in SlotIds \ {s} : Held(kv', x) = Held(kv, x)
    BY <1>1, <1>2, <1>4, <1>9
  <2>4. phase \in {"gather", "prompt"} /\ SlotOk(s, slot, phase, at')
        /\ \A x \in SlotIds \ {s} : SlotOk(x, slots[x], phase, at')
    BY <1>1, <1>12, <1>13
  <2>5. QED
    BY <1>1, <1>3, <1>5, <1>9, <1>10, <1>11, <2>1, <2>2, <2>3, <2>4, AddKeeps

LEMMA EndGatherKeeps ==
    ASSUME IInv, EndGather
    PROVE  IInv'
<1>1. /\ phase = "gather" /\ phase' = "prompt" /\ at' = 0
      /\ \A s \in Generating : s < at
      /\ UNCHANGED <<slots, batch, n_batch, i, view, kv>>
  BY DEF EndGather, Past
<1>2. SlotsOk'
  BY <1>1 DEF IInv, SlotsOk, SlotOk
<1>3. BatchOk'
  BY <1>1, SizeAssumption DEF IInv, BatchOk, InRound
<1>4. CacheOk'
  BY <1>1 DEF IInv, CacheOk
<1>5. Decoded' = Decoded /\ Sampling' = Sampling /\ \A s \in SlotIds : Fresh(s)' => Fresh(s)
  BY <1>1 DEF Decoded, Sampling, Fresh
<1>6. ASSUME NEW s \in SlotIds
      PROVE  Fits(s, slots[s], kv, batch, Decoded, Sampling, Fresh(s)')
  <2>1. Fits(s, slots[s], kv, batch, Decoded, Sampling, Fresh(s))
    BY <1>1 DEF IInv, Agree, InRound
  <2>2. QED BY <1>5, <2>1 DEF Fits
<1>7. Agree'
  BY <1>1, <1>5, <1>6 DEF Agree
<1>8. QED BY <1>2, <1>3, <1>4, <1>7 DEF IInv

LEMMA AddPromptKeeps ==
    ASSUME IInv, NEW s \in SlotIds, AddPrompt(s)
    PROVE  IInv'
<1> DEFINE m == slots[s].n_tokens
           task == slots[s].n_task
           room == NBatch - Len(batch)
<1>1. /\ phase = "prompt" /\ slots[s].state \in {"STARTED", "PROCESSING_PROMPT"} /\ s >= at
      /\ at' = (IF Len(batch') >= NBatch THEN NSlots ELSE s + 1)
      /\ UNCHANGED <<n_batch, i, view, phase>>
  BY DEF AddPrompt, OnSlot, Prompting, InState
<1>2. /\ slots \in [SlotIds -> Slot] /\ slots[s] \in Slot
      /\ \A x \in SlotIds : SlotOk(x, slots[x], "prompt", at)
      /\ batch \in Seq(TokenT) /\ Len(batch) \in Nat /\ at \in Int /\ Len(batch) <= Capacity
      /\ Own(kv)
  BY <1>1 DEF IInv, SlotsOk, BatchOk, CacheOk
<1>3. /\ s \in Int /\ s < NSlots /\ m \in 0 .. NCtx /\ task \in 0 .. NCtx - 1 /\ NCtx \in Nat
      /\ Capacity \in Nat /\ NSlots \in Nat /\ NBatch \in Nat /\ NBatch <= Capacity
      /\ room \in Int
  <2>1. NBatch <= Capacity
    <3>1. NBatch \in Int /\ NSlots \in Int
      BY SizeAssumption
    <3>2. Max({NBatch, NSlots}) >= NBatch
      BY <3>1, MaxOfTwo
    <3>3. QED BY <3>1, <3>2, CapacityHoldsSlots DEF Capacity
  <2>2. QED
    BY <1>2, <2>1, SlotFields, CapacityHoldsSlots, SizeAssumption DEF SlotIds
<1>4. PICK p \in Cached(s) :
          LET cur  == Max({0, Min({task - p, room})})
              done == p + cur = task
          IN  /\ batch' = batch \o [k \in 1 .. cur |->
                                       Token(s, p + k - 1, done /\ k = cur)]
              /\ kv' = SeqRm(kv, s, p)
              /\ slots' = [slots EXCEPT
                              ![s].state = IF done THEN "DONE_PROMPT"
                                                   ELSE "PROCESSING_PROMPT",
                              ![s].n_tokens = p + cur,
                              ![s].i_batch = IF done THEN Len(batch') - 1 ELSE @]
  BY DEF AddPrompt
<1> DEFINE cur  == Max({0, Min({task - p, room})})
           done == p + cur = task
           F    == [k \in 1 .. cur |-> Token(s, p + k - 1, done /\ k = cur)]
           st   == IF done THEN "DONE_PROMPT" ELSE "PROCESSING_PROMPT"
           last == IF done THEN Len(batch') - 1 ELSE slots[s].i_batch
           slot == [slots[s] EXCEPT !.state = st, !.n_tokens = p + cur, !.i_batch = last]
<1>5. p \in Nat /\ p < task /\ p <= m
  <2>1. CASE slots[s].state = "STARTED"
    <3>1. task > 0
      BY <1>2, <2>1 DEF SlotOk
    <3>2. Min({m, task - 1}) <= m /\ Min({m, task - 1}) <= task - 1
          /\ Min({m, task - 1}) \in {m, task - 1}
      <4>1. m \in Int /\ task - 1 \in Int
        BY <1>3
      <4> HIDE DEF m, task
      <4>2. QED BY <4>1, MinOfTwo
    <3>3. p \in 0 .. Min({m, task - 1})
      BY <1>4, <2>1 DEF Cached
    <3>4. QED BY <1>3, <3>1, <3>2, <3>3
  <2>2. CASE slots[s].state = "PROCESSING_PROMPT"
    <3>1. p = m
      BY <1>4, <2>2 DEF Cached
    <3>2. m < task
      BY <1>2, <2>2 DEF SlotOk
    <3>3. QED BY <1>3, <3>1, <3>2
  <2>3. QED BY <1>1, <2>1, <2>2
<1>6. /\ cur \in Nat /\ p + cur <= task /\ (done => cur > 0)
      /\ cur = 0 \/ Len(batch) + cur <= NBatch
  <2> DEFINE left == task - p
             least == Min({left, room})
  <2>1. left \in Int /\ left > 0
    BY <1>3, <1>5
  <2>2. least \in {left, room} /\ least <= left /\ least <= room
    BY <1>3, <2>1, MinOfTwo
  <2>3. least \in Int
    BY <1>3, <2>1, <2>2
  <2> HIDE DEF least
  <2>4. Max({0, least}) \in {0, least} /\ Max({0, least}) >= 0 /\ Max({0, least}) >= least
    BY <2>3, MaxOfTwo
  <2>5. cur = Max({0, least})
    BY DEF least
  <2>6. QED BY <1>2, <1>3, <1>5, <2>1, <2>2, <2>3, <2>4, <2>5
<1>7. batch' = batch \o F /\ kv' = SeqRm(kv, s, p)
  BY <1>4
<1>8. slots' = [slots EXCEPT ![s] = slot]
  BY <1>2, <1>4
<1> HIDE DEF cur
<1>9. F \in Seq(TokenT) /\ Len(F) = cur
      /\ (\A k \in 1 .. cur : F[k].seq = s /\ F[k].pos = p + k - 1)
      /\ (done => F[cur] = Token(s, p + cur - 1, TRUE))
  <2>1. \A k \in 1 .. cur : F[k] = Token(s, p + k - 1, done /\ k = cur)
    OBVIOUS
  <2>2. ASSUME NEW k \in 1 .. cur
        PROVE  F[k] \in TokenT /\ F[k].seq = s /\ F[k].pos = p + k - 1
    <3>1. p + k - 1 \in 0 .. NCtx
      BY <1>3, <1>5, <1>6
    <3>2. (done /\ k = cur) \in BOOLEAN
      OBVIOUS
    <3>3. QED BY <2>1, <3>1, <3>2 DEF Token, TokenT
  <2>3. F = [k \in 1 .. cur |-> F[k]]
    OBVIOUS
  <2>4. ASSUME done PROVE F[cur] = Token(s, p + cur - 1, TRUE)
    <3>1. cur \in 1 .. cur /\ (done /\ cur = cur) = TRUE
      BY <1>6, <2>4
    <3>2. F[cur] = Token(s, p + cur - 1, done /\ cur = cur)
      BY <2>1, <3>1
    <3>3. QED BY <3>1, <3>2
  <2> HIDE DEF F
  <2>5. QED BY <1>6, <2>2, <2>3, <2>4, TokenSeq
<1> HIDE DEF F
<1>10. Len(batch') = Len(batch) + cur
  BY <1>2, <1>7, <1>9, ConcatAt
<1>11. /\ slot.state = st /\ slot.n_tokens = p + cur /\ slot.i_batch = last
       /\ slot.parent = slots[s].parent /\ slot.dft = slots[s].dft /\ slot.n_task = task
  BY <1>2, SlotAfter
<1>12. slot \in Slot
  <2>1. st \in States /\ p + cur \in 0 .. NCtx
    BY <1>3, <1>5, <1>6 DEF States
  <2>2. last \in -1 .. Capacity - 1
    <3>1. CASE done
      BY <1>2, <1>3, <1>6, <1>10, <3>1
    <3>2. CASE ~done
      BY <1>2, <3>2, SlotIsSlotOf DEF SlotOf
    <3>3. QED BY <3>1, <3>2
  <2> HIDE DEF st, last
  <2>3. QED BY <1>2, <2>1, <2>2, SlotUpdates
<1> HIDE DEF slot
<1>13. Fresh(s) /\ slots[s].parent = NoParent
  BY <1>1, <1>2 DEF Fresh, Live, SlotOk
<1>14. Held(kv', s) = 0 .. p - 1 /\ \A x \in SlotIds \ {s} : Held(kv', x) = Held(kv, x)
  <2>1. Fits(s, slots[s], kv, batch, Decoded, Sampling, Fresh(s))
    BY <1>1 DEF IInv, Agree, InRound
  <2>2. PICK n \in Nat : n = m /\ Held(kv, s) = 0 .. n - 1
    BY <1>13, <2>1 DEF Fits
  <2>3. Held(kv', s) = {q \in Held(kv, s) : q < p}
    BY <1>2, <1>5, <1>7, HeldAfter
  <2>4. \A x \in SlotIds \ {s} : Held(kv', x) = Held(kv, x)
    BY <1>2, <1>5, <1>7, HeldAfter
  <2>5. {q \in 0 .. m - 1 : q < p} = 0 .. p - 1
    BY <1>3, <1>5
  <2>6. QED BY <2>2, <2>3, <2>4, <2>5
<1>15. SlotOk(s, slot, "prompt", at')
  <2>1. SlotOk(s, slots[s], "prompt", at)
    BY <1>2
  <2>2. CASE done
    <3>1. slot.n_tokens < NCtx
      BY <1>3, <1>5, <1>6, <1>11
    <3>2. QED BY <1>11, <2>1, <2>2, <3>1 DEF SlotOk, Live
  <2>3. CASE ~done
    <3>1. slot.n_tokens < slot.n_task
      <4>1. slot.n_tokens = p + cur /\ slot.n_task = task
        BY <1>11
      <4>2. p + cur # task
        BY <2>3
      <4>3. p + cur < task
        BY <1>3, <1>5, <1>6, <4>2
      <4>4. QED BY <4>1, <4>3
    <3>2. QED BY <1>11, <2>1, <2>3, <3>1 DEF SlotOk, Live
  <2>4. QED BY <2>2, <2>3
<1>16. \A x \in SlotIds \ {s} : SlotOk(x, slots[x], "prompt", at')
  BY <1>2 DEF SlotOk
<1>17. Live(slot) => /\ Len(F) > 0 /\ F[Len(F)] = Token(s, p + Len(F) - 1, TRUE)
                     /\ slot.i_batch = Len(batch) + Len(F) - 1
  <2>1. Live(slot) => done
    BY <1>11 DEF Live
  <2>2. ASSUME Live(slot)
        PROVE  /\ Len(F) > 0 /\ F[Len(F)] = Token(s, p + Len(F) - 1, TRUE)
               /\ slot.i_batch = Len(batch) + Len(F) - 1
    <3>1. done
      BY <2>1, <2>2
    <3>2. cur > 0 /\ F[cur] = Token(s, p + cur - 1, TRUE) /\ Len(F) = cur
      BY <1>6, <1>9, <3>1
    <3>3. slot.i_batch = Len(batch) + cur - 1
      <4>1. slot.i_batch = last
        BY <1>11
      <4>2. last = Len(batch') - 1
        BY <3>1
      <4> HIDE DEF last
      <4>3. slot.i_batch = Len(batch') - 1
        BY <4>1, <4>2
      <4>4. cur \in Nat /\ Len(batch) \in Nat
        BY <1>2, <1>6
      <4> HIDE DEF done
      <4>5. QED BY <1>10, <4>3, <4>4
    <3> HIDE DEF done
    <3>4. QED BY <3>2, <3>3
  <2>3. QED BY <2>2
<1>18. /\ Len(batch) + Len(F) <= Capacity /\ at <= s /\ at' \in s + 1 .. NSlots
       /\ slot.n_tokens = p + Len(F) /\ slot.state \notin {"IDLE", "STARTED"}
  BY <1>1, <1>2, <1>3, <1>6, <1>9, <1>10, <1>11
<1>19. kv' \in SUBSET kv
  BY <1>2, <1>7, SeqRmOwn
<1>20. QED
  <2>1. \A k \in 1 .. Len(F) : F[k].seq = s /\ F[k].pos = p + k - 1
    <3>1. Len(F) = cur
      BY <1>9
    <3>2. \A k \in 1 .. cur : F[k].seq = s /\ F[k].pos = p + k - 1
      BY <1>9
    <3> HIDE DEF done
    <3>3. QED BY <3>1, <3>2
  <2>2. phase \in {"gather", "prompt"} /\ phase # "gather" /\ SlotOk(s, slot, phase, at')
        /\ \A x \in SlotIds \ {s} : SlotOk(x, slots[x], phase, at')
    BY <1>1, <1>15, <1>16
  <2>3. QED
    BY <1>1, <1>5, <1>7, <1>8, <1>9, <1>12, <1>13, <1>14, <1>17, <1>18, <1>19, <2>1, <2>2,
       AddKeeps

\* A round is over when nothing of the batch is left to decode: every slot has
\* its tokens in the cache and none waits for logits.
LEMMA NothingLeft ==
    ASSUME IInv, InRound, Decoded >= Len(batch), Sampling >= Len(batch), NEW s \in SlotIds
    PROVE  ~Live(slots[s]) /\ Held(kv, s) = 0 .. slots[s].n_tokens - 1
<1> DEFINE m == slots[s].n_tokens
           lo == Decoded
<1>1. m \in Nat /\ slots[s].i_batch \in Int /\ Len(batch) \in Nat /\ lo \in Int /\ Sampling \in Int
  BY SlotFields DEF IInv, SlotsOk, BatchOk, Decoded, Sampling
<1>2. Fits(s, slots[s], kv, batch, lo, Sampling, Fresh(s))
  BY DEF IInv, Agree
<1> HIDE DEF lo
<1>3. PICK n \in Nat, b \in Int :
          /\ n <= m /\ Held(kv, s) = 0 .. n - 1 /\ Block(batch, lo, s, n, m, b)
          /\ Live(slots[s]) => Awaits(batch, Sampling, s, m, b, slots[s].i_batch)
  BY <1>2 DEF Fits
<1>4. n = m
  BY <1>1, <1>3 DEF Block, lo
<1>5. ASSUME Live(slots[s]) PROVE FALSE
  <2>1. Sampling <= slots[s].i_batch /\ slots[s].i_batch < Len(batch)
    BY <1>3, <1>5 DEF Awaits
  <2>2. QED BY <1>1, <2>1
<1>6. QED BY <1>3, <1>4, <1>5

LEMMA EndPromptsKeeps ==
    ASSUME IInv, EndPrompts
    PROVE  IInv'
<1>1. /\ phase = "prompt" /\ phase' = (IF batch = <<>> THEN "idle" ELSE "decode")
      /\ UNCHANGED <<slots, batch, n_batch, i, view, kv, at>>
  BY DEF EndPrompts
<1>2. i = 0 /\ Decoded = 0 /\ Sampling = 0 /\ Len(batch) \in Nat
  BY <1>1 DEF IInv, BatchOk, Decoded, Sampling
<1>3. BatchOk'
  BY <1>1, <1>2 DEF IInv, BatchOk, InRound
<1>4. CacheOk'
  BY <1>1 DEF IInv, CacheOk
<1>5. CASE batch = <<>>
  <2>1. phase' = "idle"
    BY <1>1, <1>5
  <2>2. \A s \in SlotIds : ~Live(slots[s]) /\ Held(kv, s) = 0 .. slots[s].n_tokens - 1
    BY <1>1, <1>2, <1>5, NothingLeft DEF InRound
  <2>3. SlotsOk'
    BY <1>1, <2>1, <2>2 DEF IInv, SlotsOk, SlotOk, Live
  <2>4. Agree'
    BY <1>1, <2>1, <2>2 DEF Agree, InRound
  <2>5. QED BY <1>3, <1>4, <2>3, <2>4 DEF IInv
<1>6. CASE batch # <<>>
  <2>1. phase' = "decode"
    BY <1>1, <1>6
  <2>2. SlotsOk'
    BY <1>1, <2>1 DEF IInv, SlotsOk, SlotOk
  <2>3. Decoded' = Decoded /\ Sampling' = Sampling /\ \A s \in SlotIds : Fresh(s)' => Fresh(s)
    BY <1>1, <2>1 DEF Decoded, Sampling, Fresh
  <2>4. ASSUME NEW s \in SlotIds
        PROVE  Fits(s, slots[s], kv, batch, Decoded, Sampling, Fresh(s)')
    <3>1. Fits(s, slots[s], kv, batch, Decoded, Sampling, Fresh(s))
      BY <1>1 DEF IInv, Agree, InRound
    <3>2. QED BY <2>3, <3>1 DEF Fits
  <2>5. Agree'
    BY <1>1, <2>1, <2>3, <2>4 DEF Agree
  <2>6. QED BY <1>3, <1>4, <2>2, <2>5 DEF IInv
<1>7. QED BY <1>5, <1>6

\* Decoding the next c tokens of the batch gives a slot its positions
\* n .. n2 - 1, and what is left of the block is a block.
LEMMA BlockDecoded ==
    ASSUME NEW B \in Seq(TokenT), NEW lo \in Nat, NEW c \in Nat, lo + c <= Len(B),
           NEW s \in SlotIds, NEW n \in Nat, NEW m \in Nat, NEW b \in Int, n <= m,
           Block(B, lo, s, n, m, b)
    PROVE  \E n2 \in n .. m :
               /\ {B[j].pos : j \in {k \in lo + 1 .. lo + c : B[k].seq = s}} = n .. n2 - 1
               /\ Block(B, lo + c, s, n2, m, b)
<1> DEFINE n2 == IF n = m \/ lo + c <= b + n THEN n
                 ELSE IF lo + c >= b + m THEN m ELSE lo + c - b
           J  == {k \in lo + 1 .. lo + c : B[k].seq = s}
<1>0. Len(B) \in Nat
  OBVIOUS
<1>1. \A j \in lo + 1 .. Len(B) :
          /\ B[j].seq = s <=> b + n < j /\ j <= b + m
          /\ B[j].seq = s => B[j].pos = j - b - 1
  BY DEF Block
<1>2. n < m => lo <= b + n /\ b + m <= Len(B)
  BY DEF Block
<1>3. n2 \in n .. m
  BY <1>2
<1>4. J = b + n + 1 .. b + n2
  <2>1. \A j \in Int : j \in lo + 1 .. lo + c =>
            j \in lo + 1 .. Len(B)
    BY <1>0
  <2>2. J = {j \in lo + 1 .. lo + c : b + n < j /\ j <= b + m}
    BY <1>1, <2>1
  <2>3. ASSUME NEW j \in Int
        PROVE  (j \in lo + 1 .. lo + c /\ b + n < j /\ j <= b + m) <=>
                   j \in b + n + 1 .. b + n2
    <3>1. CASE n = m
      BY <3>1
    <3>2. CASE n < m /\ lo + c <= b + n
      BY <1>2, <3>2
    <3>3. CASE n < m /\ lo + c > b + n /\ lo + c >= b + m
      BY <1>2, <3>3
    <3>4. CASE n < m /\ lo + c > b + n /\ lo + c < b + m
      BY <1>2, <3>4
    <3>5. QED BY <1>0, <3>1, <3>2, <3>3, <3>4
  <2>4. (\A j \in J : j \in Int) /\ \A j \in b + n + 1 .. b + n2 : j \in Int
    BY <1>3
  <2>5. \A j \in Int : j \in J <=> j \in b + n + 1 .. b + n2
    BY <2>2, <2>3
  <2> HIDE DEF J, n2
  <2>6. QED BY <2>4, <2>5
<1>5. {B[j].pos : j \in J} = n .. n2 - 1
  <2>1. \A j \in J : B[j].pos = j - b - 1
    BY <1>0, <1>1
  <2> HIDE DEF J, n2
  <2>2. {B[j].pos : j \in J} = {j - b - 1 : j \in b + n + 1 .. b + n2}
    BY <1>4, <2>1
  <2>3. ASSUME NEW q \in n .. n2 - 1
        PROVE  q + b + 1 \in b + n + 1 .. b + n2 /\ q = (q + b + 1) - b - 1
    BY <1>3
  <2>4. ASSUME NEW j \in b + n + 1 .. b + n2
        PROVE  j - b - 1 \in n .. n2 - 1
    BY <1>3
  <2>5. {j - b - 1 : j \in b + n + 1 .. b + n2} = n .. n2 - 1
    BY <2>3, <2>4
  <2>6. QED BY <2>2, <2>5
<1>6. Block(B, lo + c, s, n2, m, b)
  <2>1. ASSUME NEW j \in lo + c + 1 .. Len(B)
        PROVE  (b + n < j /\ j <= b + m) <=> (b + n2 < j /\ j <= b + m)
    BY <1>0, <1>2
  <2>2. n2 < m => lo + c <= b + n2 /\ b + m <= Len(B)
    BY <1>0, <1>2
  <2>3. \A j \in lo + c + 1 .. Len(B) : j \in lo + 1 .. Len(B)
    BY <1>0
  <2> HIDE DEF n2
  <2>4. QED BY <1>1, <2>1, <2>2, <2>3 DEF Block
<1> HIDE DEF n2
<1>7. QED BY <1>3, <1>5, <1>6

LEMMA ChunkSize ==
    ASSUME IInv, phase = "decode"
    PROVE  /\ Chunk \in 0 .. NBatch /\ i + Chunk <= Len(batch)
           /\ i \in Nat /\ Len(batch) \in Nat /\ batch \in Seq(TokenT)
           /\ Decoded = i /\ Sampling = i
<1>1. /\ i \in Nat /\ Len(batch) \in Nat /\ batch \in Seq(TokenT) /\ i <= Len(batch)
      /\ n_batch \in 1 .. NBatch /\ NBatch \in Nat
  BY SizeAssumption DEF IInv, BatchOk
<1>2. n_batch \in Int /\ Len(batch) - i \in Int
  BY <1>1
<1>3. /\ Chunk \in {n_batch, Len(batch) - i} /\ Chunk <= n_batch
      /\ Chunk <= Len(batch) - i
  BY <1>2, MinOfTwo DEF Chunk
<1>4. QED BY <1>1, <1>3 DEF Decoded, Sampling

\* The chunk continues what the cache holds of a sequence.
LEMMA ChunkContinues ==
    ASSUME IInv, phase = "decode", NEW s \in SlotIds
    PROVE  \E n \in Nat, n2 \in Nat, b \in Int :
               /\ n <= n2 /\ n2 <= slots[s].n_tokens
               /\ Positions(s) = 0 .. n - 1 /\ InChunk(s) = n .. n2 - 1
               /\ Block(batch, i + Chunk, s, n2, slots[s].n_tokens, b)
               /\ Live(slots[s]) =>
                      Awaits(batch, i, s, slots[s].n_tokens, b, slots[s].i_batch)
               /\ Fresh(s) => n2 = slots[s].n_tokens
<1> DEFINE m == slots[s].n_tokens
<1>1. /\ Chunk \in Nat /\ i + Chunk <= Len(batch) /\ i \in Nat /\ batch \in Seq(TokenT)
      /\ Decoded = i /\ Sampling = i
  BY ChunkSize
<1>2. m \in Nat
  BY SlotFields DEF IInv, SlotsOk
<1>3. PICK n \in Nat, b \in Int :
          /\ n <= m /\ Held(kv, s) = 0 .. n - 1 /\ Block(batch, i, s, n, m, b)
          /\ Live(slots[s]) => Awaits(batch, i, s, m, b, slots[s].i_batch)
          /\ Fresh(s) => n = m
  BY <1>1 DEF IInv, Agree, InRound, Fits
<1> HIDE DEF m
<1>4. PICK n2 \in n .. m :
          /\ {batch[j].pos : j \in {k \in i + 1 .. i + Chunk : batch[k].seq = s}} = n .. n2 - 1
          /\ Block(batch, i + Chunk, s, n2, m, b)
  BY <1>1, <1>2, <1>3, BlockDecoded
<1>5. InChunk(s) = {batch[j].pos : j \in {k \in i + 1 .. i + Chunk : batch[k].seq = s}}
  BY DEF InChunk, ChunkTokens
<1>6. Positions(s) = 0 .. n - 1
  BY <1>3, PositionsAreHeld
<1>7. n2 \in Nat /\ n <= n2 /\ n2 <= m /\ (Fresh(s) => n2 = m)
  BY <1>2, <1>3, <1>4
<1>8. QED BY <1>3, <1>4, <1>5, <1>6, <1>7 DEF m

\* What a decoded chunk adds to the cache.
NewCells == {[pos |-> t.pos, seqs |-> {t.seq}] : t \in ChunkTokens}

LEMMA IntervalSize ==
    ASSUME NEW a \in Int, NEW c \in Int, a <= c + 1
    PROVE  IsFiniteSet(a .. c) /\ Cardinality(a .. c) = c - a + 1
<1>1. IsFiniteSet(a .. c) /\ Cardinality(a .. c) = IF a > c THEN 0 ELSE c - a + 1
  BY FS_Interval
<1>2. QED BY <1>1

LEMMA NewCellsFit ==
    ASSUME IInv, phase = "decode"
    PROVE  Own(NewCells) /\ IsFiniteSet(NewCells) /\ Cardinality(NewCells) <= Chunk
<1>1. /\ Chunk \in Nat /\ i + Chunk <= Len(batch) /\ i \in Nat /\ batch \in Seq(TokenT)
      /\ Len(batch) \in Nat
  BY ChunkSize
<1> DEFINE cell(j) == [pos |-> batch[j].pos, seqs |-> {batch[j].seq}]
           J == i + 1 .. i + Chunk
           f == [j \in J |-> cell(j)]
<1>2. NewCells = {cell(j) : j \in J}
  BY DEF NewCells, ChunkTokens
<1>3. ASSUME NEW j \in J
      PROVE  cell(j) \in CellT /\ \E s \in SlotIds : cell(j).seqs = {s}
  <2>1. batch[j] \in TokenT
    BY <1>1
  <2>2. batch[j].seq \in SlotIds /\ batch[j].pos \in 0 .. NCtx
    BY <2>1 DEF TokenT
  <2>3. {batch[j].seq} \in (SUBSET SlotIds) \ {{}}
    BY <2>2
  <2>4. QED BY <2>2, <2>3 DEF CellT
<1>4. Own(NewCells)
  BY <1>2, <1>3 DEF Own
<1>5. IsFiniteSet(J) /\ Cardinality(J) = Chunk
  <2>1. i + 1 \in Int /\ i + Chunk \in Int /\ i + 1 <= (i + Chunk) + 1
    BY <1>1
  <2>2. IsFiniteSet(J) /\ Cardinality(J) = (i + Chunk) - (i + 1) + 1
    BY <2>1, IntervalSize
  <2>3. QED BY <1>1, <2>2
<1>6. f \in Surjection(J, NewCells)
  BY <1>2 DEF Surjection
<1> HIDE DEF J, f
<1>7. IsFiniteSet(NewCells) /\ Cardinality(NewCells) <= Cardinality(J)
  BY <1>5, <1>6, FS_Surjection
<1>8. QED BY <1>4, <1>5, <1>7

LEMMA DecodeKeeps ==
    ASSUME IInv, Decode
    PROVE  IInv'
<1>1. /\ phase = "decode" /\ phase' = "sample" /\ view' = Chunk /\ n_batch' = NBatch
      /\ UNCHANGED <<batch, i, at>> /\ HasRoom
  BY DEF Decode
<1>2. /\ Chunk \in 0 .. NBatch /\ Chunk \in Nat /\ i + Chunk <= Len(batch) /\ i \in Nat
      /\ batch \in Seq(TokenT) /\ Decoded' = i + Chunk /\ Sampling' = i
  BY <1>1, ChunkSize, SizeAssumption DEF Decoded, Sampling
<1>3. Forked = {}
  BY DEF IInv, SlotsOk, SlotOk, Forked, InState
<1>4. slots' = slots
  <2>1. slots' = [s \in SlotIds |-> slots[s]]
    BY <1>3 DEF Decode
  <2>2. QED BY <2>1 DEF IInv, SlotsOk
<1>5. /\ Own(kv \cup NewCells) /\ IsFiniteSet(kv \cup NewCells)
      /\ Cardinality(kv \cup NewCells) <= Cells
  <2>1. Own(NewCells) /\ IsFiniteSet(NewCells) /\ Cardinality(NewCells) <= Chunk
    BY <1>1, NewCellsFit
  <2>2. Own(kv) /\ IsFiniteSet(kv)
    BY DEF IInv, CacheOk
  <2>3. IsFiniteSet(kv \cup NewCells) /\ IsFiniteSet(kv \cap NewCells)
        /\ Cardinality(kv \cup NewCells) =
               Cardinality(kv) + Cardinality(NewCells) - Cardinality(kv \cap NewCells)
    BY <2>1, <2>2, FS_Union, FS_Intersection
  <2>4. /\ Cardinality(kv) \in Nat /\ Cardinality(NewCells) \in Nat
        /\ Cardinality(kv \cap NewCells) \in Nat
    BY <2>1, <2>2, <2>3, FS_CardinalityType
  <2>5. Cardinality(kv) + Chunk <= Cells
    BY <1>1 DEF HasRoom
  <2>6. Cardinality(kv \cup NewCells) <= Cells
    BY <1>2, <2>1, <2>3, <2>4, <2>5, SizeAssumption
  <2>7. QED BY <2>1, <2>2, <2>3, <2>6 DEF Own
<1>6. kv' = kv \cup NewCells
  <2>1. PICK from : kv' = SeqCopy(kv \cup NewCells, Forked, from)
    BY DEF Decode, NewCells
  <2>2. QED BY <1>3, <1>5, <2>1, SeqCopyNothing
<1>7. SlotsOk'
  BY <1>1, <1>4 DEF IInv, SlotsOk, SlotOk
<1>8. BatchOk'
  BY <1>1, <1>2, SizeAssumption DEF IInv, BatchOk, InRound
<1>9. CacheOk'
  BY <1>5, <1>6 DEF CacheOk
<1>10. ASSUME NEW s \in SlotIds
       PROVE  Fits(s, slots[s], kv', batch, i + Chunk, i, Fresh(s)')
  <2>1. PICK n \in Nat, n2 \in Nat, b \in Int :
            /\ n <= n2 /\ n2 <= slots[s].n_tokens
            /\ Positions(s) = 0 .. n - 1 /\ InChunk(s) = n .. n2 - 1
            /\ Block(batch, i + Chunk, s, n2, slots[s].n_tokens, b)
            /\ Live(slots[s]) =>
                   Awaits(batch, i, s, slots[s].n_tokens, b, slots[s].i_batch)
            /\ Fresh(s) => n2 = slots[s].n_tokens
    BY <1>1, ChunkContinues
  <2>2. Held(kv', s) = Positions(s) \cup InChunk(s)
    <3>1. Held(NewCells, s) = InChunk(s)
      <4>1. ASSUME NEW t \in ChunkTokens
            PROVE  s \in {t.seq} <=> t.seq = s
        OBVIOUS
      <4> DEFINE cell(t) == [pos |-> t.pos, seqs |-> {t.seq}]
      <4>2. \A t : cell(t).pos = t.pos /\ cell(t).seqs = {t.seq}
        OBVIOUS
      <4>3. NewCells = {cell(t) : t \in ChunkTokens}
        BY DEF NewCells
      <4> HIDE DEF cell
      <4>4. Held(NewCells, s) = {t.pos : t \in {u \in ChunkTokens : s \in {u.seq}}}
        BY <4>2, <4>3 DEF Held
      <4>5. QED BY <4>1, <4>4 DEF InChunk
    <3>2. Held(kv \cup NewCells, s) = Held(kv, s) \cup Held(NewCells, s)
      BY DEF Held
    <3>3. QED BY <1>6, <3>1, <3>2, PositionsAreHeld
  <2>3. (0 .. n - 1) \cup (n .. n2 - 1) = 0 .. n2 - 1
    BY <2>1
  <2>4. Held(kv', s) = 0 .. n2 - 1
    BY <2>1, <2>2, <2>3
  <2>5. Fresh(s)' => Fresh(s)
    BY <1>1, <1>4 DEF Fresh
  <2>6. QED BY <2>1, <2>4, <2>5 DEF Fits
<1>11. Agree'
  BY <1>1, <1>2, <1>4, <1>10 DEF Agree
<1>12. QED BY <1>7, <1>8, <1>9, <1>11 DEF IInv

LEMMA MakeRoomKeeps ==
    ASSUME IInv, MakeRoom
    PROVE  IInv'
<1>1. /\ phase = "decode" /\ n_batch > 1 /\ UNCHANGED <<batch, i, view, phase, at>>
      /\ (phase \in {"sample", "spec"}) = FALSE /\ phase # "spec"
  BY DEF MakeRoom
<1>2. Decoded' = Decoded /\ Sampling' = Sampling
  BY <1>1 DEF Decoded, Sampling
<1>3. CASE Purgeable # {}
  <2> DEFINE s == Min(Purgeable)
  <2>1. s \in SlotIds /\ slots[s].state = "IDLE"
    <3>1. Purgeable \subseteq Nat
      BY SizeAssumption DEF Purgeable, Idle, SlotIds
    <3>2. \E x \in Purgeable : \A y \in Purgeable : x <= y
      BY <1>3, <3>1, LeastNat
    <3>3. s \in Purgeable
      BY <3>2 DEF Min
    <3>4. QED BY <3>3 DEF Purgeable, Idle, Busy
  <2>2. /\ slots' = [slots EXCEPT ![s].n_tokens = 0] /\ kv' = SeqsClear(kv, {s})
        /\ UNCHANGED n_batch
    BY <1>3 DEF MakeRoom
  <2> DEFINE slot == [slots[s] EXCEPT !.n_tokens = 0]
  <2> HIDE DEF s
  <2>3. /\ slots \in [SlotIds -> Slot] /\ slots[s] \in Slot
        /\ \A x \in SlotIds : SlotOk(x, slots[x], "decode", at)
    BY <1>1, <2>1 DEF IInv, SlotsOk
  <2>4. slot \in Slot
    <3>1. 0 \in 0 .. NCtx
      BY SizeAssumption
    <3>2. QED BY <2>3, <3>1, SlotUpdates
  <2>5. /\ slot.state = "IDLE" /\ slot.parent = slots[s].parent /\ slot.dft = slots[s].dft
        /\ slot.n_tokens = 0
    BY <2>1, <2>3, SlotAfter
  <2>6. slots' = [slots EXCEPT ![s] = slot]
    BY <2>1, <2>2, <2>3
  <2> HIDE DEF slot
  <2>7. SlotsOk'
    <3>1. SlotOk(s, slot, "decode", at)
      BY <2>1, <2>3, <2>5 DEF SlotOk, Live
    <3>2. QED BY <1>1, <2>1, <2>3, <2>4, <2>6, <3>1 DEF SlotsOk
  <2>8. BatchOk'
    BY <1>1, <2>2 DEF IInv, BatchOk, InRound
  <2>9. CacheOk'
    <3>1. kv' \in SUBSET kv
      BY <2>2, SeqsClearOwn DEF IInv, CacheOk
    <3>2. QED BY <3>1, SubCache DEF IInv, CacheOk
  <2>10. ASSUME NEW x \in SlotIds
         PROVE  Fits(x, slots'[x], kv', batch, Decoded, Sampling, Fresh(x)')
    <3>1. Fits(x, slots[x], kv, batch, Decoded, Sampling, Fresh(x))
      BY <1>1 DEF IInv, Agree, InRound
    <3>2. Held(kv', x) = IF x \in {s} THEN {} ELSE Held(kv, x)
      <4>1. {s} \in SUBSET SlotIds /\ Own(kv)
        BY <2>1 DEF IInv, CacheOk
      <4>2. QED BY <2>2, <4>1, HeldAfter
    <3>3. CASE x = s
      <4>1. slots'[x] = slot /\ Held(kv', x) = 0 .. 0 - 1
        BY <2>1, <2>3, <2>6, <3>2, <3>3
      <4>2. Fresh(s)
        BY <2>1 DEF Fresh
      <4>3. PICK n \in Nat, b \in Int :
                n = slots[s].n_tokens /\ Block(batch, Decoded, s, n, n, b)
        BY <3>1, <3>3, <4>2 DEF Fits
      <4>4. Block(batch, Decoded, s, 0, 0, b)
        <5>1. \A j \in Decoded + 1 .. Len(batch) : ~(b + n < j /\ j <= b + n)
          BY <4>3 DEF IInv, BatchOk, Decoded
        <5>2. \A j \in Decoded + 1 .. Len(batch) : ~(b + 0 < j /\ j <= b + 0)
          BY <4>3 DEF IInv, BatchOk, Decoded
        <5>3. QED BY <4>3, <5>1, <5>2 DEF Block
      <4>5. ~Live(slot)
        BY <2>5 DEF Live
      <4>6. 0 \in Nat /\ 0 <= slot.n_tokens /\ Held(kv', s) = 0 .. 0 - 1
            /\ Block(batch, Decoded, s, 0, slot.n_tokens, b)
        BY <2>5, <3>3, <4>1, <4>4
      <4>7. Fits(s, slot, kv', batch, Decoded, Sampling, Fresh(x)')
        BY <2>5, <4>5, <4>6 DEF Fits
      <4>8. QED BY <3>3, <4>1, <4>7
    <3>4. CASE x # s
      <4>1. slots'[x] = slots[x] /\ Held(kv', x) = Held(kv, x)
        BY <2>1, <2>3, <2>6, <3>2, <3>4
      <4>2. Fresh(x)' => Fresh(x)
        BY <1>1, <4>1 DEF Fresh
      <4>3. QED BY <3>1, <4>1, <4>2 DEF Fits
    <3>5. QED BY <3>3, <3>4
  <2>11. Agree'
    BY <1>1, <1>2, <2>10 DEF Agree
  <2>12. QED BY <2>7, <2>8, <2>9, <2>11 DEF IInv
<1>4. CASE Purgeable = {}
  <2>1. n_batch' = n_batch \div 2 /\ UNCHANGED <<slots, kv>>
    BY <1>4 DEF MakeRoom, Halved
  <2>2. n_batch' \in 1 .. NBatch
    BY <1>1, <2>1, SizeAssumption DEF IInv, BatchOk
  <2>3. SlotsOk'
    BY <1>1, <2>1 DEF IInv, SlotsOk
  <2>4. BatchOk'
    BY <1>1, <2>2 DEF IInv, BatchOk, InRound
  <2>5. CacheOk'
    BY <2>1 DEF IInv, CacheOk
  <2>6. ASSUME NEW x \in SlotIds
        PROVE  Fits(x, slots[x], kv, batch, Decoded, Sampling, Fresh(x)')
    <3>1. Fits(x, slots[x], kv, batch, Decoded, Sampling, Fresh(x))
      BY <1>1 DEF IInv, Agree, InRound
    <3>2. Fresh(x)' => Fresh(x)
      BY <1>1, <2>1 DEF Fresh
    <3>3. QED BY <3>1, <3>2 DEF Fits
  <2>7. Agree'
    BY <1>1, <1>2, <2>1, <2>6 DEF Agree
  <2>8. QED BY <2>3, <2>4, <2>5, <2>7 DEF IInv
<1>5. QED BY <1>3, <1>4

\* A slot that gets the error is released and loses its prompt.
LEMMA GivenUpSlot ==
    ASSUME NEW slot \in Slot, slot.parent = NoParent
    PROVE  LET r == [Released(slot) EXCEPT !.n_tokens = 0] IN
           /\ r \in Slot /\ r.state = "IDLE" /\ r.parent = NoParent /\ r.dft = <<>>
           /\ r.n_tokens = 0
<1>1. /\ Released(slot) \in Slot /\ Released(slot).state = "IDLE"
      /\ Released(slot).parent = NoParent /\ Released(slot).dft = <<>>
  BY ReleasedSlot
<1>2. 0 \in 0 .. NCtx
  BY SizeAssumption
<1>3. [Released(slot) EXCEPT !.n_tokens = 0] \in Slot
  BY <1>1, <1>2, SlotUpdates
<1>4. QED BY <1>1, <1>3, SlotAfter

LEMMA DecodeFailsKeeps ==
    ASSUME IInv, DecodeFails
    PROVE  IInv'
<1> DEFINE gone(s) == [Released(slots[s]) EXCEPT !.n_tokens = 0]
<1>1. /\ phase = "decode" /\ phase' = "idle" /\ UNCHANGED <<batch, n_batch, i, view, at>>
      /\ slots' = [s \in SlotIds |-> IF s \in Busy THEN gone(s) ELSE slots[s]]
      /\ kv' = SeqsClear(kv, Busy)
  BY DEF DecodeFails
<1>2. \A s \in SlotIds : SlotOk(s, slots[s], "decode", at) /\ slots[s] \in Slot
  BY <1>1 DEF IInv, SlotsOk
<1>3. ASSUME NEW s \in SlotIds
      PROVE  /\ gone(s) \in Slot /\ gone(s).state = "IDLE" /\ gone(s).parent = NoParent
             /\ gone(s).dft = <<>> /\ gone(s).n_tokens = 0
  <2>1. slots[s] \in Slot /\ slots[s].parent = NoParent
    BY <1>2 DEF SlotOk
  <2>2. QED BY <2>1, GivenUpSlot
<1> HIDE DEF gone
<1>4. ASSUME NEW s \in SlotIds
      PROVE  /\ slots'[s] \in Slot /\ SlotOk(s, slots'[s], "idle", at)
             /\ Held(kv', s) = 0 .. slots'[s].n_tokens - 1
  <2>1. Busy \in SUBSET SlotIds /\ Own(kv)
    BY DEF Busy, IInv, CacheOk
  <2>2. Held(kv', s) = IF s \in Busy THEN {} ELSE Held(kv, s)
    BY <1>1, <2>1, HeldAfter
  <2>3. CASE s \in Busy
    <3>1. slots'[s] = gone(s)
      BY <1>1, <2>3
    <3>2. SlotOk(s, gone(s), "idle", at)
      BY <1>3 DEF SlotOk, Live
    <3>3. Held(kv', s) = 0 .. gone(s).n_tokens - 1
      BY <1>3, <2>2, <2>3
    <3>4. QED BY <1>3, <3>1, <3>2, <3>3
  <2>4. CASE s \notin Busy
    <3>1. slots'[s] = slots[s] /\ slots[s].state = "IDLE"
      BY <1>1, <2>4 DEF Busy
    <3>2. Fresh(s) /\ ~Live(slots[s])
      BY <3>1 DEF Fresh, Live
    <3>3. Fits(s, slots[s], kv, batch, Decoded, Sampling, Fresh(s))
      BY <1>1 DEF IInv, Agree, InRound
    <3>4. Held(kv, s) = 0 .. slots[s].n_tokens - 1
      BY <3>2, <3>3 DEF Fits
    <3>5. SlotOk(s, slots[s], "idle", at)
      BY <1>2, <3>1, <3>2 DEF SlotOk
    <3>6. QED BY <1>2, <2>2, <2>4, <3>1, <3>4, <3>5
  <2>5. QED BY <2>3, <2>4
<1>5. SlotsOk'
  BY <1>1, <1>4 DEF SlotsOk
<1>6. BatchOk'
  BY <1>1 DEF IInv, BatchOk, InRound
<1>7. CacheOk'
  <2>1. kv' \in SUBSET kv
    BY <1>1, SeqsClearOwn DEF IInv, CacheOk
  <2>2. QED BY <2>1, SubCache DEF IInv, CacheOk
<1>8. Agree'
  BY <1>1, <1>4 DEF Agree, InRound
<1>9. QED BY <1>5, <1>6, <1>7, <1>8 DEF IInv

\* A slot that is sampled has all its tokens in the cache, and waits for the
\* logits of the last of them.
LEMMA SampledSlot ==
    ASSUME IInv, phase = "sample", NEW s \in ToSample
    PROVE  /\ s \in SlotIds /\ Live(slots[s])
           /\ \E b \in Int :
                 /\ Held(kv, s) = 0 .. slots[s].n_tokens - 1
                 /\ Block(batch, Decoded, s, slots[s].n_tokens, slots[s].n_tokens, b)
                 /\ Awaits(batch, i, s, slots[s].n_tokens, b, slots[s].i_batch)
<1> DEFINE m == slots[s].n_tokens
           k == slots[s].i_batch
<1>1. /\ i \in Nat /\ view \in Nat /\ Decoded = i + view /\ Sampling = i
  BY SizeAssumption DEF IInv, BatchOk, Decoded, Sampling
<1>2. s \in SlotIds /\ k \in i .. i + view - 1 /\ slots[s].state \in {"DONE_PROMPT", "GENERATING"}
  BY DEF ToSample, InState
<1>3. m \in Nat /\ k \in Int
  BY <1>2, SlotFields DEF IInv, SlotsOk
<1>4. Live(slots[s])
  BY <1>1, <1>2 DEF Live
<1>5. PICK n \in Nat, b \in Int :
          /\ n <= m /\ Held(kv, s) = 0 .. n - 1 /\ Block(batch, Decoded, s, n, m, b)
          /\ Awaits(batch, i, s, m, b, k)
  BY <1>1, <1>2, <1>4 DEF IInv, Agree, InRound, Fits
<1>6. n = m
  <2>1. n < m => i + view <= b + n
    BY <1>1, <1>5 DEF Block
  <2>2. k = b + m - 1
    BY <1>5 DEF Awaits
  <2>3. QED BY <1>1, <1>2, <1>3, <1>5, <2>1, <2>2
<1>7. QED BY <1>2, <1>4, <1>5, <1>6

\* What Sample makes of the slots it samples: released, or generating.
LEMMA SampledUpdate ==
    ASSUME NEW slot \in Slot, slot.parent = NoParent
    PROVE  /\ LET r == [Released(slot) EXCEPT !.i_batch = -1] IN
                 /\ r \in Slot /\ r.state = "IDLE" /\ r.parent = NoParent /\ r.dft = <<>>
                 /\ r.n_tokens = slot.n_tokens
           /\ LET r == [slot EXCEPT !.state = "GENERATING", !.i_batch = -1] IN
                 /\ r \in Slot /\ r.state = "GENERATING" /\ r.parent = NoParent
                 /\ r.dft = slot.dft /\ r.n_tokens = slot.n_tokens /\ r.i_batch = -1
<1>1. -1 \in -1 .. Capacity - 1 /\ "GENERATING" \in States
  BY CapacityHoldsSlots, SizeAssumption DEF States
<1>2. /\ Released(slot) \in Slot /\ Released(slot).state = "IDLE"
      /\ Released(slot).parent = NoParent /\ Released(slot).dft = <<>>
      /\ Released(slot).n_tokens = slot.n_tokens
  BY ReleasedSlot
<1>3. LET r == [Released(slot) EXCEPT !.i_batch = -1] IN
          /\ r \in Slot /\ r.state = "IDLE" /\ r.parent = NoParent /\ r.dft = <<>>
          /\ r.n_tokens = slot.n_tokens
  <2>1. [Released(slot) EXCEPT !.i_batch = -1] \in Slot
    BY <1>1, <1>2, SlotUpdates
  <2>2. QED BY <1>2, <2>1, SlotIsSlotOf DEF SlotOf
<1>4. [slot EXCEPT !.state = "GENERATING", !.i_batch = -1] \in Slot
  BY <1>1, SlotUpdates
<1>5. QED BY <1>3, <1>4, SlotAfter

LEMMA SampleKeeps ==
    ASSUME IInv, Sample
    PROVE  IInv'
<1> DEFINE off(s)  == [Released(slots[s]) EXCEPT !.i_batch = -1]
           next(s) == [slots[s] EXCEPT !.state = "GENERATING", !.i_batch = -1]
<1>1. PICK stop \in SUBSET ToSample :
          /\ \A s \in ToSample \ stop : ~ContextFull(slots[s].n_tokens)
          /\ slots' = [s \in SlotIds |-> IF s \in stop THEN off(s)
                                         ELSE IF s \in ToSample THEN next(s) ELSE slots[s]]
          /\ kv' = SeqsClear(kv, ChildrenIn(stop))
  BY DEF Sample
<1>2. /\ phase = "sample" /\ phase' = "spec" /\ at' = 0 /\ UNCHANGED <<batch, n_batch, i, view>>
  BY DEF Sample
<1>3. /\ i \in Nat /\ view \in Nat /\ Decoded = i + view /\ Sampling = i
      /\ Decoded' = i + view /\ Sampling' = i + view
  BY <1>2, SizeAssumption DEF IInv, BatchOk, Decoded, Sampling
<1>4. \A s \in SlotIds : SlotOk(s, slots[s], "sample", at) /\ slots[s] \in Slot
  BY <1>2 DEF IInv, SlotsOk
<1>5. kv' = kv
  <2>1. stop \subseteq SlotIds
    BY DEF ToSample, InState
  <2>2. ChildrenIn(stop) = {}
    BY <1>4, <2>1 DEF ChildrenIn, SlotOk
  <2>3. kv' = SeqsClear(kv, {})
    BY <1>1, <2>2
  <2>4. Own(kv)
    BY DEF IInv, CacheOk
  <2>5. SeqsClear(kv, {}) = {c \in kv : \A s \in {} : c.seqs # {s}}
    BY <2>4, SeqsClearOwn
  <2>6. QED BY <2>3, <2>5
<1>6. ASSUME NEW s \in SlotIds
      PROVE  /\ off(s) \in Slot /\ off(s).state = "IDLE" /\ off(s).parent = NoParent
             /\ off(s).dft = <<>> /\ off(s).n_tokens = slots[s].n_tokens
             /\ next(s) \in Slot /\ next(s).state = "GENERATING" /\ next(s).parent = NoParent
             /\ next(s).dft = <<>> /\ next(s).n_tokens = slots[s].n_tokens
             /\ next(s).i_batch = -1
  <2>1. slots[s] \in Slot /\ slots[s].parent = NoParent /\ slots[s].dft = <<>>
    BY <1>4 DEF SlotOk
  <2>2. QED BY <2>1, SampledUpdate
<1> HIDE DEF off, next
<1>7. ASSUME NEW s \in SlotIds
      PROVE  /\ slots'[s] \in Slot /\ SlotOk(s, slots'[s], "spec", 0)
             /\ Fits(s, slots'[s], kv, batch, i + view, i + view, Fresh(s)')
  <2>1. CASE s \in ToSample
    <3>1. PICK b \in Int :
              /\ Held(kv, s) = 0 .. slots[s].n_tokens - 1
              /\ Block(batch, i + view, s, slots[s].n_tokens, slots[s].n_tokens, b)
      BY <1>2, <1>3, <2>1, SampledSlot
    <3>2. slots[s].n_tokens \in Nat
      BY <1>4, SlotFields
    <3>3. \A x : x.n_tokens = slots[s].n_tokens /\ ~Live(x) =>
              Fits(s, x, kv, batch, i + view, i + view, Fresh(s)')
      BY <3>1, <3>2 DEF Fits
    <3>4. CASE s \in stop
      <4>1. slots'[s] = off(s)
        BY <1>1, <3>4
      <4>2. ~Live(off(s)) /\ SlotOk(s, off(s), "spec", 0)
        BY <1>6 DEF Live, SlotOk
      <4>3. QED BY <1>6, <3>3, <4>1, <4>2
    <3>5. CASE s \notin stop
      <4>1. slots'[s] = next(s)
        BY <1>1, <2>1, <3>5
      <4>2. slots[s].n_tokens + 1 < NCtx
        <5>1. ~(slots[s].n_tokens + 1 >= NCtx)
          BY <1>1, <2>1, <3>5 DEF ContextFull
        <5>2. QED BY <3>2, <5>1, SizeAssumption
      <4>3. ~Live(next(s)) /\ SlotOk(s, next(s), "spec", 0)
        BY <1>6, <4>2 DEF Live, SlotOk
      <4>4. QED BY <1>6, <3>3, <4>1, <4>3
    <3>6. QED BY <3>4, <3>5
  <2>2. CASE s \notin ToSample
    <3>1. slots'[s] = slots[s]
      BY <1>1, <2>2
    <3>2. Fits(s, slots[s], kv, batch, i + view, i, Fresh(s))
      BY <1>2, <1>3 DEF IInv, Agree, InRound
    <3>3. Fresh(s)' => Fresh(s)
      BY <1>2, <3>1 DEF Fresh
    <3>4. ASSUME NEW b \in Int, Live(slots[s]),
                 Awaits(batch, i, s, slots[s].n_tokens, b, slots[s].i_batch)
          PROVE  Awaits(batch, i + view, s, slots[s].n_tokens, b, slots[s].i_batch)
      <4>1. slots[s].i_batch \notin i .. i + view - 1
        BY <1>4, <2>2, <3>4 DEF ToSample, InState, Live, SlotOk
      <4>2. i <= slots[s].i_batch /\ slots[s].i_batch \in Int
        BY <1>4, <3>4, SlotFields DEF Awaits
      <4>3. i + view <= slots[s].i_batch
        BY <1>3, <4>1, <4>2
      <4>4. QED BY <3>4, <4>3 DEF Awaits
    <3>5. Fits(s, slots[s], kv, batch, i + view, i + view, Fresh(s)')
      <4>1. PICK n \in Nat, b \in Int :
                /\ n <= slots[s].n_tokens
                /\ Held(kv, s) = 0 .. n - 1
                /\ Block(batch, i + view, s, n, slots[s].n_tokens, b)
                /\ Live(slots[s]) =>
                       Awaits(batch, i, s, slots[s].n_tokens, b, slots[s].i_batch)
                /\ Fresh(s) => n = slots[s].n_tokens
        BY <3>2 DEF Fits
      <4>2. Live(slots[s]) =>
                Awaits(batch, i + view, s, slots[s].n_tokens, b, slots[s].i_batch)
        BY <3>4, <4>1
      <4>3. QED BY <3>3, <4>1, <4>2 DEF Fits
    <3>6. SlotOk(s, slots[s], "spec", 0)
      BY <1>4 DEF SlotOk
    <3>7. QED BY <1>4, <3>1, <3>5, <3>6
  <2>3. QED BY <2>1, <2>2
<1>8. SlotsOk'
  BY <1>1, <1>2, <1>7 DEF SlotsOk
<1>9. BatchOk'
  BY <1>2, SizeAssumption DEF IInv, BatchOk, InRound
<1>10. CacheOk'
  BY <1>5 DEF IInv, CacheOk
<1>11. Agree'
  BY <1>2, <1>3, <1>5, <1>7 DEF Agree
<1>12. QED BY <1>8, <1>9, <1>10, <1>11 DEF IInv

LEMMA EndChunkKeeps ==
    ASSUME IInv, EndChunk
    PROVE  IInv'
<1>1. /\ phase = "spec" /\ i' = i + view
      /\ phase' = (IF i + view < Len(batch) THEN "decode" ELSE "idle")
      /\ UNCHANGED <<slots, batch, n_batch, view, kv, at>>
  BY DEF EndChunk, Advance
<1>2. /\ i \in Nat /\ view \in 0 .. NBatch /\ i + view \in Nat /\ i + view <= Len(batch)
      /\ Decoded = i + view /\ Sampling = i + view /\ Len(batch) \in Nat
  BY <1>1, SizeAssumption DEF IInv, BatchOk, Decoded, Sampling
<1>3. BatchOk'
  BY <1>1, <1>2 DEF IInv, BatchOk, InRound
<1>4. CacheOk'
  BY <1>1 DEF IInv, CacheOk
<1>5. CASE i + view < Len(batch)
  <2>1. phase' = "decode"
    BY <1>1, <1>5
  <2>2. SlotsOk'
    BY <1>1, <2>1 DEF IInv, SlotsOk, SlotOk
  <2>3. Decoded' = Decoded /\ Sampling' = Sampling /\ \A s \in SlotIds : Fresh(s)' => Fresh(s)
    BY <1>1, <1>2, <2>1 DEF Decoded, Sampling, Fresh
  <2>4. ASSUME NEW s \in SlotIds
        PROVE  Fits(s, slots[s], kv, batch, Decoded, Sampling, Fresh(s)')
    <3>1. Fits(s, slots[s], kv, batch, Decoded, Sampling, Fresh(s))
      BY <1>1 DEF IInv, Agree, InRound
    <3>2. QED BY <2>3, <3>1 DEF Fits
  <2>5. Agree'
    BY <1>1, <2>1, <2>3, <2>4 DEF Agree
  <2>6. QED BY <1>3, <1>4, <2>2, <2>5 DEF IInv
<1>6. CASE ~(i + view < Len(batch))
  <2>1. phase' = "idle"
    BY <1>1, <1>6
  <2>2. \A s \in SlotIds : ~Live(slots[s]) /\ Held(kv, s) = 0 .. slots[s].n_tokens - 1
    BY <1>1, <1>2, <1>6, NothingLeft DEF InRound
  <2>3. SlotsOk'
    BY <1>1, <2>1, <2>2 DEF IInv, SlotsOk, SlotOk, Live
  <2>4. Agree'
    BY <1>1, <2>1, <2>2 DEF Agree, InRound
  <2>5. QED BY <1>3, <1>4, <2>3, <2>4 DEF IInv
<1>7. QED BY <1>5, <1>6

LEMMA IInvStep ==
    ASSUME MaxDraft = 0, CanFork = FALSE, IInv, [Next]_vars
    PROVE  IInv'
<1>1. ASSUME NEW s \in SlotIds, Launch(s) PROVE IInv'
  BY <1>1, LaunchKeeps
<1>2. ASSUME NEW s \in SlotIds, Cancel(s) PROVE IInv'
  BY <1>2, CancelKeeps
<1>3. ASSUME NEW s \in SlotIds, NEW c \in SlotIds, LaunchWithChild(s, c) PROVE IInv'
  BY <1>3 DEF LaunchWithChild
<1>4. CASE BeginUpdate
  BY <1>4, BeginKeeps
<1>5. CASE EndGather
  BY <1>5, EndGatherKeeps
<1>6. CASE EndPrompts
  BY <1>6, EndPromptsKeeps
<1>7. CASE Decode
  BY <1>7, DecodeKeeps
<1>8. CASE MakeRoom
  BY <1>8, MakeRoomKeeps
<1>9. CASE DecodeFails
  BY <1>9, DecodeFailsKeeps
<1>10. CASE Sample
  BY <1>10, SampleKeeps
<1>11. CASE EndChunk
  BY <1>11, EndChunkKeeps
<1>12. ASSUME NEW s \in SlotIds, Gather(s) PROVE IInv'
  BY <1>12, GatherKeeps
<1>13. ASSUME NEW s \in SlotIds, GatherDraft(s) PROVE IInv'
  BY <1>13 DEF GatherDraft, DraftMax
<1>14. ASSUME NEW s \in SlotIds, Overflow(s) PROVE IInv'
  <2>1. phase' = "overflow" /\ UNCHANGED <<slots, batch, n_batch, i, view, kv, at>>
    BY <1>14 DEF Overflow
  <2>2. SlotsOk'
    BY <2>1 DEF IInv, SlotsOk, SlotOk
  <2>3. BatchOk'
    BY <2>1 DEF IInv, BatchOk, InRound
  <2>4. CacheOk' /\ Agree'
    BY <2>1 DEF IInv, CacheOk, Agree, InRound
  <2>5. QED BY <2>2, <2>3, <2>4 DEF IInv
<1>15. ASSUME NEW s \in SlotIds, AddPrompt(s) PROVE IInv'
  BY <1>15, AddPromptKeeps
<1>16. ASSUME NEW s \in SlotIds, Speculate(s) PROVE IInv'
  BY <1>16 DEF Speculate, OnSlot, Drafting, Generating, InState, IInv, SlotsOk, SlotOk
<1>17. CASE UNCHANGED vars
  <2>1. UNCHANGED <<slots, batch, n_batch, i, view, kv, phase, at>>
    BY <1>17 DEF vars
  <2>2. SlotsOk' /\ BatchOk' /\ CacheOk'
    BY <2>1 DEF IInv, SlotsOk, BatchOk, CacheOk, InRound
  <2>3. Decoded' = Decoded /\ Sampling' = Sampling /\ \A s \in SlotIds : Fresh(s)' = Fresh(s)
    BY <2>1 DEF Decoded, Sampling, Fresh
  <2>4. Agree'
    BY <2>1, <2>3 DEF IInv, Agree, InRound
  <2>5. QED BY <2>2, <2>4 DEF IInv
<1>18. QED
  BY <1>1, <1>2, <1>3, <1>4, <1>5, <1>6, <1>7, <1>8, <1>9, <1>10, <1>11, <1>12, <1>13,
     <1>14, <1>15, <1>16, <1>17 DEF Next, Request, UpdateSlots

\* The least and the greatest element of an interval.
LEMMA IntervalEnds ==
    ASSUME NEW a \in Int, NEW c \in Int, a <= c
    PROVE  Min(a .. c) = a /\ Max(a .. c) = c
<1>1. a \in a .. c /\ \A y \in a .. c : a <= y
  OBVIOUS
<1>2. c \in a .. c /\ \A y \in a .. c : c >= y
  OBVIOUS
<1>3. \A x \in a .. c : (\A y \in a .. c : x <= y) => x = a
  BY <1>1
<1>4. \A x \in a .. c : (\A y \in a .. c : x >= y) => x = c
  BY <1>2
<1>5. Min(a .. c) = a
  BY <1>1, <1>3 DEF Min
<1>6. Max(a .. c) = c
  BY <1>2, <1>4 DEF Max
<1>7. QED BY <1>5, <1>6

LEMMA ChunkConsistent ==
    ASSUME IInv, phase = "decode"
    PROVE  Consistent
<1>1. ASSUME NEW s \in SlotIds, InChunk(s) # {}
      PROVE  /\ Positions(s) # {} => Min(InChunk(s)) = Max(Positions(s)) + 1
             /\ Max(InChunk(s)) - Min(InChunk(s)) + 1 = Cardinality(InChunk(s))
  <2>1. PICK n \in Nat, n2 \in Nat : Positions(s) = 0 .. n - 1 /\ InChunk(s) = n .. n2 - 1
    BY ChunkContinues
  <2>2. n < n2 /\ n - 1 \in Int /\ n2 - 1 \in Int /\ n <= n2 - 1
    BY <1>1, <2>1
  <2>3. Min(InChunk(s)) = n /\ Max(InChunk(s)) = n2 - 1
    BY <2>1, <2>2, IntervalEnds
  <2>4. ASSUME Positions(s) # {} PROVE Max(Positions(s)) = n - 1
    <3>1. 0 <= n - 1 /\ 0 \in Int
      BY <2>1, <2>4
    <3>2. Max(0 .. n - 1) = n - 1
      BY <2>2, <3>1, IntervalEnds
    <3>3. QED BY <2>1, <3>2
  <2>5. Cardinality(InChunk(s)) = (n2 - 1) - n + 1
    <3>1. n \in Int /\ n2 - 1 \in Int /\ n <= (n2 - 1) + 1
      BY <2>2
    <3>2. Cardinality(n .. n2 - 1) = (n2 - 1) - n + 1
      BY <3>1, IntervalSize
    <3>3. QED BY <2>1, <3>2
  <2>6. QED BY <2>2, <2>3, <2>4, <2>5
<1>2. QED BY <1>1 DEF Consistent

\* Without speculative decoding and without requests for several completions,
\* slots, batch and cache agree: between two rounds the cache holds exactly the
\* prompt each slot believes cached, and llama_decode is never given a batch
\* whose positions do not continue it.
THEOREM CacheMatchesSlotsHolds ==
    ASSUME MaxDraft = 0, CanFork = FALSE
    PROVE  Spec => []CacheMatchesSlots
<1>1. IInv => KvMatchesPrompt
  BY PositionsAreHeld DEF IInv, Agree, KvMatchesPrompt
<1>2. IInv => NoInvalidBatch
  BY ChunkConsistent DEF NoInvalidBatch
<1>3. IInv => CacheMatchesSlots
  BY <1>1, <1>2, IInvType DEF CacheMatchesSlots
<1>4. IInv /\ [Next]_vars => IInv'
  BY IInvStep
<1>5. QED BY <1>3, <1>4, IInvInit, PTL DEF Spec

\* The logits a slot samples from are those of the last token of its own
\* prompt, however the batch was cut into chunks and whatever was purged in
\* between, and all the tokens before it are in the cache.
THEOREM SampleSeesItsLogitsHolds ==
    ASSUME MaxDraft = 0, CanFork = FALSE
    PROVE  Spec => []SampleSeesItsLogits
<1>1. ASSUME IInv, phase = "sample", NEW s \in ToSample
      PROVE  LET t == batch[slots[s].i_batch + 1] IN
             /\ t.out /\ t.pos = slots[s].n_tokens - 1 /\ t.seq = s
             /\ Positions(s) = 0 .. slots[s].n_tokens - 1
  <2>1. PICK b \in Int :
            /\ s \in SlotIds /\ Held(kv, s) = 0 .. slots[s].n_tokens - 1
            /\ Awaits(batch, i, s, slots[s].n_tokens, b, slots[s].i_batch)
    BY <1>1, SampledSlot
  <2>2. slots[s].n_tokens \in Nat
    BY <1>1, <2>1, SlotFields DEF IInv, SlotsOk
  <2>3. slots[s].i_batch + 1 = b + slots[s].n_tokens
    BY <2>1, <2>2 DEF Awaits
  <2>4. batch[slots[s].i_batch + 1] = Token(s, slots[s].n_tokens - 1, TRUE)
    BY <2>1, <2>3 DEF Awaits
  <2>5. QED BY <2>1, <2>4, PositionsAreHeld DEF Token
<1>2. IInv => SampleSeesItsLogits
  BY <1>1 DEF SampleSeesItsLogits
<1>3. IInv /\ [Next]_vars => IInv'
  BY IInvStep
<1>4. QED BY <1>2, <1>3, IInvInit, PTL DEF Spec

\* "we should never get here, because generation should already stopped in
\* process_token()": a generating slot always has room for its next token.
THEOREM ContextShiftNeverNeededHolds ==
    ASSUME MaxDraft = 0, CanFork = FALSE
    PROVE  Spec => []ContextShiftNeverNeeded
<1>1. IInv => ContextShiftNeverNeeded
  BY DEF IInv, SlotsOk, SlotOk, ContextShiftNeverNeeded, Generating, InState
<1>2. IInv /\ [Next]_vars => IInv'
  BY IInvStep
<1>3. QED BY <1>1, <1>2, IInvInit, PTL DEF Spec

-----------------------------------------------------------------------------
(* The cache when cells are shared.                                        *)

\* No sequence holds a position twice.
Distinct(K) ==
    /\ K \subseteq CellT
    /\ \A c \in K, d \in K, s \in SlotIds :
          c.pos = d.pos /\ s \in c.seqs /\ s \in d.seqs => c = d

\* Every operation of the cache gives each cell c the sequences G[c].
LEMMA Reassigned ==
    ASSUME NEW K, Distinct(K), NEW G \in [K -> SUBSET SlotIds],
           \A c \in K, d \in K, s \in SlotIds :
               c.pos = d.pos /\ s \in G[c] /\ s \in G[d] => c = d
    PROVE  LET L == Used({[c EXCEPT !.seqs = G[c]] : c \in K}) IN
           /\ Distinct(L)
           /\ \A s \in SlotIds : Held(L, s) = {c.pos : c \in {k \in K : s \in G[k]}}
<1> DEFINE R(c) == [c EXCEPT !.seqs = G[c]]
           L == Used({R(c) : c \in K})
<1>1. ASSUME NEW c \in K
      PROVE  /\ R(c).seqs = G[c] /\ R(c).pos = c.pos /\ (G[c] # {} => R(c) \in CellT)
             /\ G[c] \subseteq SlotIds
  BY DEF Distinct, CellT
<1>2. L = {c \in {R(c) : c \in K} : c.seqs # {}}
  BY DEF Used
<1> HIDE DEF R, L
<1>3. ASSUME NEW d \in L PROVE \E c \in K : d = R(c) /\ G[c] # {}
  BY <1>1, <1>2
<1>4. ASSUME NEW c \in K, G[c] # {} PROVE R(c) \in L
  BY <1>1, <1>2, <1>4
<1>5. L \subseteq CellT
  BY <1>1, <1>3
<1>6. ASSUME NEW d \in L, NEW e \in L, NEW s \in SlotIds,
             d.pos = e.pos, s \in d.seqs, s \in e.seqs
      PROVE  d = e
  <2>1. PICK c \in K : d = R(c)
    BY <1>3
  <2>2. PICK f \in K : e = R(f)
    BY <1>3
  <2>3. c.pos = f.pos /\ s \in G[c] /\ s \in G[f]
    BY <1>1, <1>6, <2>1, <2>2
  <2>4. QED BY <2>1, <2>2, <2>3
<1>7. ASSUME NEW s \in SlotIds
      PROVE  Held(L, s) = {c.pos : c \in {k \in K : s \in G[k]}}
  <2>1. ASSUME NEW p \in Held(L, s) PROVE \E c \in K : s \in G[c] /\ c.pos = p
    <3>1. PICK d \in L : s \in d.seqs /\ d.pos = p
      BY DEF Held
    <3>2. QED BY <1>1, <1>3, <3>1
  <2>2. ASSUME NEW c \in K, s \in G[c] PROVE c.pos \in Held(L, s)
    <3>1. R(c) \in L /\ R(c).pos = c.pos /\ s \in R(c).seqs
      BY <1>1, <1>4, <2>2
    <3>2. QED BY <3>1 DEF Held
  <2>3. QED BY <2>1, <2>2
<1>8. Distinct(L)
  BY <1>5, <1>6 DEF Distinct
<1>9. QED BY <1>7, <1>8 DEF L, R

LEMMA SeqRmDistinct ==
    ASSUME NEW K, Distinct(K), NEW s \in SlotIds, NEW p0 \in Int
    PROVE  /\ Distinct(SeqRm(K, s, p0))
           /\ \A x \in SlotIds : Held(SeqRm(K, s, p0), x) =
                  IF x = s THEN {p \in Held(K, s) : p < p0} ELSE Held(K, x)
<1> DEFINE G == [c \in K |-> IF c.pos >= p0 THEN c.seqs \ {s} ELSE c.seqs]
           L == Used({[c EXCEPT !.seqs = G[c]] : c \in K})
<1>1. SeqRm(K, s, p0) = L
  BY DEF SeqRm
<1>2. \A c \in K : c.seqs \subseteq SlotIds /\ c.pos \in Int /\ G[c] \subseteq c.seqs
  BY SizeAssumption DEF Distinct, CellT
<1>3. G \in [K -> SUBSET SlotIds]
  BY <1>2
<1>4. \A c \in K, d \in K, x \in SlotIds :
          c.pos = d.pos /\ x \in G[c] /\ x \in G[d] => c = d
  BY <1>2 DEF Distinct
<1>5. \A c \in K, x \in SlotIds : x \in G[c] <=> x \in c.seqs /\ ~(x = s /\ c.pos >= p0)
  OBVIOUS
<1> HIDE DEF G
<1>6. /\ Distinct(L)
      /\ \A x \in SlotIds : Held(L, x) = {c.pos : c \in {k \in K : x \in G[k]}}
  BY <1>3, <1>4, Reassigned
<1> HIDE DEF L
<1>7. ASSUME NEW x \in SlotIds
      PROVE  Held(L, x) = IF x = s THEN {p \in Held(K, s) : p < p0} ELSE Held(K, x)
  <2>1. CASE x = s
    <3>1. \A c \in K : x \in G[c] <=> s \in c.seqs /\ c.pos < p0
      BY <1>2, <1>5, <2>1
    <3>2. QED BY <1>6, <2>1, <3>1 DEF Held
  <2>2. CASE x # s
    <3>1. \A c \in K : x \in G[c] <=> x \in c.seqs
      BY <1>5, <2>2
    <3>2. QED BY <1>6, <2>2, <3>1 DEF Held
  <2>3. QED BY <2>1, <2>2
<1>8. QED BY <1>1, <1>6, <1>7

LEMMA SeqsClearDistinct ==
    ASSUME NEW K, Distinct(K), NEW S \in SUBSET SlotIds
    PROVE  /\ Distinct(SeqsClear(K, S))
           /\ \A x \in SlotIds : Held(SeqsClear(K, S), x) = IF x \in S THEN {} ELSE Held(K, x)
<1> DEFINE G == [c \in K |-> c.seqs \ S]
           L == Used({[c EXCEPT !.seqs = G[c]] : c \in K})
<1>1. SeqsClear(K, S) = L
  BY DEF SeqsClear
<1>2. \A c \in K : c.seqs \subseteq SlotIds /\ G[c] \subseteq c.seqs
  BY DEF Distinct, CellT
<1>3. G \in [K -> SUBSET SlotIds]
  BY <1>2
<1>4. \A c \in K, d \in K, x \in SlotIds :
          c.pos = d.pos /\ x \in G[c] /\ x \in G[d] => c = d
  BY <1>2 DEF Distinct
<1>5. \A c \in K, x \in SlotIds : x \in G[c] <=> x \in c.seqs /\ x \notin S
  OBVIOUS
<1> HIDE DEF G
<1>6. /\ Distinct(L)
      /\ \A x \in SlotIds : Held(L, x) = {c.pos : c \in {k \in K : x \in G[k]}}
  BY <1>3, <1>4, Reassigned
<1> HIDE DEF L
<1>7. ASSUME NEW x \in SlotIds
      PROVE  Held(L, x) = IF x \in S THEN {} ELSE Held(K, x)
  BY <1>5, <1>6 DEF Held
<1>8. QED BY <1>1, <1>6, <1>7

\* A copied sequence holds what the sequence it is copied from holds.
LEMMA SeqCopyDistinct ==
    ASSUME NEW K, Distinct(K), NEW S \in SUBSET SlotIds, NEW from \in [S -> SlotIds]
    PROVE  /\ Distinct(SeqCopy(K, S, from))
           /\ \A x \in SlotIds : Held(SeqCopy(K, S, from), x) =
                  IF x \in S THEN Held(K, from[x]) ELSE Held(K, x)
<1> DEFINE G == [c \in K |-> (c.seqs \ S) \cup {x \in S : from[x] \in c.seqs}]
           L == Used({[c EXCEPT !.seqs = G[c]] : c \in K})
<1>1. SeqCopy(K, S, from) = L
  BY DEF SeqCopy
<1>2. \A c \in K : c.seqs \subseteq SlotIds
  BY DEF Distinct, CellT
<1>3. G \in [K -> SUBSET SlotIds]
  BY <1>2
<1>4. \A c \in K, x \in SlotIds : x \in G[c] <=> IF x \in S THEN from[x] \in c.seqs ELSE x \in c.seqs
  OBVIOUS
<1> HIDE DEF G
<1>5. ASSUME NEW c \in K, NEW d \in K, NEW x \in SlotIds,
             c.pos = d.pos, x \in G[c], x \in G[d]
      PROVE  c = d
  <2>1. CASE x \in S
    <3>1. from[x] \in SlotIds /\ from[x] \in c.seqs /\ from[x] \in d.seqs
      BY <1>4, <1>5, <2>1
    <3>2. QED BY <1>5, <3>1 DEF Distinct
  <2>2. CASE x \notin S
    BY <1>4, <1>5, <2>2 DEF Distinct
  <2>3. QED BY <2>1, <2>2
<1>6. /\ Distinct(L)
      /\ \A x \in SlotIds : Held(L, x) = {c.pos : c \in {k \in K : x \in G[k]}}
  BY <1>3, <1>5, Reassigned
<1> HIDE DEF L
<1>7. ASSUME NEW x \in SlotIds
      PROVE  Held(L, x) = IF x \in S THEN Held(K, from[x]) ELSE Held(K, x)
  BY <1>4, <1>6 DEF Held
<1>8. QED BY <1>1, <1>6, <1>7

\* A cell per slot and position is enough.
LEMMA DistinctFits ==
    ASSUME NEW K, Distinct(K), \A s \in SlotIds : Held(K, s) \subseteq 0 .. NCtx - 1
    PROVE  IsFiniteSet(K) /\ Cardinality(K) <= NSlots * NCtx
<1> DEFINE P == SlotIds \X (0 .. NCtx - 1)
           one(c) == CHOOSE s \in SlotIds : s \in c.seqs
           f == [c \in K |-> <<one(c), c.pos>>]
<1>1. IsFiniteSet(P) /\ Cardinality(P) = NSlots * NCtx
  <2>1. IsFiniteSet(SlotIds) /\ Cardinality(SlotIds) = NSlots
    <3>1. Cardinality(SlotIds) = (NSlots - 1) - 0 + 1 /\ IsFiniteSet(SlotIds)
      BY IntervalSize, SizeAssumption DEF SlotIds
    <3>2. QED BY <3>1, SizeAssumption
  <2>2. IsFiniteSet(0 .. NCtx - 1) /\ Cardinality(0 .. NCtx - 1) = NCtx
    <3>1. IsFiniteSet(0 .. NCtx - 1) /\ Cardinality(0 .. NCtx - 1) = (NCtx - 1) - 0 + 1
      BY IntervalSize, SizeAssumption
    <3>2. QED BY <3>1, SizeAssumption
  <2>3. QED BY <2>1, <2>2, FS_Product
<1>2. ASSUME NEW c \in K
      PROVE  one(c) \in SlotIds /\ one(c) \in c.seqs /\ c.pos \in 0 .. NCtx - 1
  <2>1. \E s \in SlotIds : s \in c.seqs
    BY DEF Distinct, CellT
  <2>2. one(c) \in SlotIds /\ one(c) \in c.seqs
    BY <2>1
  <2>3. c.pos \in Held(K, one(c))
    BY <2>2 DEF Held
  <2>4. QED BY <2>2, <2>3
<1> HIDE DEF one
<1>3. f \in [K -> P]
  BY <1>2
<1>4. ASSUME NEW c \in K, NEW d \in K, f[c] = f[d] PROVE c = d
  <2>1. one(c) = one(d) /\ c.pos = d.pos
    BY <1>4
  <2>2. QED BY <1>2, <2>1 DEF Distinct
<1> HIDE DEF f, P
<1>5. f \in Injection(K, P)
  BY <1>3, <1>4 DEF Injection, IsInjective
<1>6. IsFiniteSet(K) /\ Cardinality(K) <= Cardinality(P)
  BY <1>1, <1>5, FS_Injection
<1>7. QED BY <1>1, <1>6

-----------------------------------------------------------------------------
(* Drafts and children, in a cache with a cell for every position of every *)
(* slot and a batch with room for a token of every slot.  The cache never  *)
(* runs out, so n_batch is never halved and a batch is one chunk: indices  *)
(* into the batch and into the logits are the same.  Between the rounds    *)
(* the cache holds what the slots believe; while a batch is filled, what   *)
(* is in the cache and what the slot has in the batch, one after the other.*)

Ample == NSlots <= NBatch /\ NSlots * NCtx <= Cells

\* The drafts of a slot stand in batch B, in order, up to its last token.
Verifies(B, s, slot) ==
    \A k \in DOMAIN slot.dft :
        /\ slot.dft[k] < Len(B)
        /\ B[slot.dft[k] + 1] = Token(s, slot.n_tokens - Len(slot.dft) + k - 1, TRUE)

\* The logits a slot waits for are those of its last token, or the same token
\* of the parent it was just copied from.
Sees(B, s, slot) ==
    LET t == B[slot.i_batch + 1] IN
    /\ slot.i_batch \in 0 .. Len(B) - 1
    /\ t.out /\ t.pos = slot.n_tokens - 1
    /\ t.seq = s \/ (slot.state = "DONE_PROMPT" /\ t.seq = slot.parent)

RoundSlot(s, slot, ph, passed) ==
    /\ slot.state = "WAIT_OTHER" => slot.parent # NoParent
    /\ slot.dft # <<>> => slot.state = "GENERATING" /\ slot.i_batch = -1
    /\ slot.state = "STARTED" => slot.n_task > 0
    /\ slot.state = "PROCESSING_PROMPT" => slot.n_tokens < slot.n_task
    /\ slot.state = "GENERATING" /\ slot.i_batch = -1 /\ slot.dft = <<>>
           => slot.n_tokens + 1 < NCtx
    /\ ph = "gather" /\ slot.state = "GENERATING" /\ s >= passed
           => slot.i_batch = -1 /\ slot.dft = <<>>
    /\ ph = "spec" /\ slot.dft # <<>> => s >= passed
    /\ ph = "idle" => slot.dft = <<>>
    /\ ph \in {"idle", "spec"} => ~Live(slot)

Filling    == phase \in {"gather", "prompt", "decode", "overflow"}
InCache    == phase \in {"idle", "sample", "spec"}
\* A slot that has added nothing to the batch yet.
Unadded(s) == \/ slots[s].state = "IDLE"
              \/ phase = "gather" /\ (slots[s].state # "GENERATING" \/ s >= at)
              \/ phase = "prompt" /\ s >= at /\ slots[s].state \in {"STARTED", "PROCESSING_PROMPT"}

AmpleSlots ==
    /\ slots \in [SlotIds -> Slot]
    /\ \A s \in SlotIds : RoundSlot(s, slots[s], phase, at) /\ Verifies(batch, s, slots[s])
AmpleBatch ==
    /\ batch \in Seq(TokenT) /\ Len(batch) <= NBatch
    /\ n_batch = NBatch /\ i \in Nat /\ view \in 0 .. NBatch /\ at \in 0 .. NSlots
    /\ InCache \/ Filling
    /\ Filling => i = 0
    /\ phase \in {"sample", "spec"} => i = 0 /\ view = Len(batch)
AmpleAgree ==
    /\ InCache => \A s \in SlotIds : Held(kv, s) = 0 .. slots[s].n_tokens - 1
    /\ Filling => \A s \in SlotIds : Fits(s, slots[s], kv, batch, 0, 0, Unadded(s))
    /\ phase = "sample" => \A s \in SlotIds : Live(slots[s]) => Sees(batch, s, slots[s])

AmpleInv == AmpleSlots /\ AmpleBatch /\ Distinct(kv) /\ AmpleAgree

\* The positions of a slot are below n_ctx.
LEMMA HeldBelow ==
    ASSUME AmpleInv, NEW s \in SlotIds
    PROVE  Held(kv, s) \subseteq 0 .. NCtx - 1
<1>1. slots[s].n_tokens \in 0 .. NCtx /\ NCtx \in Nat
  BY SlotFields DEF AmpleInv, AmpleSlots
<1>2. \E n \in Nat : n <= slots[s].n_tokens /\ Held(kv, s) = 0 .. n - 1
  <2>1. CASE InCache
    BY <1>1, <2>1 DEF AmpleInv, AmpleAgree
  <2>2. CASE Filling
    BY <2>2 DEF AmpleInv, AmpleAgree, Fits
  <2>3. QED BY <2>1, <2>2 DEF AmpleInv, AmpleBatch
<1>3. QED BY <1>1, <1>2

LEMMA AmpleType ==
    ASSUME Ample
    PROVE  AmpleInv => TypeOK
<1> SUFFICES ASSUME AmpleInv PROVE TypeOK
  OBVIOUS
<1>1. batch \in Seq([seq : SlotIds, pos : 0 .. NCtx, out : BOOLEAN])
  BY DEF AmpleInv, AmpleBatch, TokenT
<1>2. kv \subseteq [pos : 0 .. NCtx, seqs : (SUBSET SlotIds) \ {{}}]
  BY DEF AmpleInv, Distinct, CellT
<1>3. Cardinality(kv) <= Cells
  <2>1. IsFiniteSet(kv) /\ Cardinality(kv) <= NSlots * NCtx
    BY HeldBelow, DistinctFits DEF AmpleInv
  <2>2. Cardinality(kv) \in Nat /\ NSlots * NCtx \in Int
    BY <2>1, FS_CardinalityType, SizeAssumption
  <2>3. QED BY <2>1, <2>2, SizeAssumption DEF Ample
<1>4. n_batch \in 1 .. NBatch
  BY SizeAssumption DEF AmpleInv, AmpleBatch
<1>5. QED
  BY <1>1, <1>2, <1>3, <1>4 DEF AmpleInv, AmpleSlots, AmpleBatch, InCache, Filling, TypeOK

\* An idle slot fits at any time of a round.
LEMMA IdleRound ==
    ASSUME NEW s, NEW slot, NEW ph, NEW passed, slot.state = "IDLE", slot.dft = <<>>
    PROVE  RoundSlot(s, slot, ph, passed) /\ \A B : Verifies(B, s, slot)
BY DEF RoundSlot, Live, Verifies

LEMMA AmpleInit == Init => AmpleInv
<1> SUFFICES ASSUME Init PROVE AmpleInv
  OBVIOUS
<1> DEFINE e == [state |-> "IDLE", parent |-> NoParent, n_task |-> 0,
                 n_tokens |-> 0, i_batch |-> -1, dft |-> <<>>]
<1>1. e \in Slot
  BY SizeAssumption, CapacityHoldsSlots DEF Slot
<1>2. slots = [s \in SlotIds |-> e]
  BY DEF Init
<1>3. e.state = "IDLE" /\ e.parent = NoParent /\ e.dft = <<>> /\ e.n_tokens = 0
  OBVIOUS
<1> HIDE DEF e
<1>4. AmpleSlots
  <2>1. \A s \in SlotIds : slots[s] = e
    BY <1>2
  <2>2. QED BY <1>1, <1>2, <1>3, <2>1, IdleRound DEF AmpleSlots
<1>5. AmpleBatch
  <2>1. batch \in Seq(TokenT) /\ Len(batch) = 0
    BY DEF Init
  <2>2. QED
    BY <2>1, SizeAssumption DEF Init, AmpleBatch, InCache, Filling
<1>6. Distinct(kv)
  BY DEF Init, Distinct
<1>7. AmpleAgree
  BY <1>2, <1>3 DEF Init, AmpleAgree, Held, InCache, Filling
<1>8. QED BY <1>4, <1>5, <1>6, <1>7 DEF AmpleInv

-----------------------------------------------------------------------------
\* release(), of a child or not.
LEMMA ReleasedAny ==
    ASSUME NEW slot \in Slot
    PROVE  /\ Released(slot) \in Slot
           /\ Released(slot).state = "IDLE" /\ Released(slot).parent = NoParent
           /\ Released(slot).dft = <<>>
           /\ Released(slot).n_tokens = IF slot.parent = NoParent THEN slot.n_tokens ELSE 0
           /\ [Released(slot) EXCEPT !.n_tokens = 0] \in Slot
           /\ [Released(slot) EXCEPT !.n_tokens = 0].state = "IDLE"
           /\ [Released(slot) EXCEPT !.n_tokens = 0].dft = <<>>
           /\ [Released(slot) EXCEPT !.n_tokens = 0].n_tokens = 0
           /\ [Released(slot) EXCEPT !.i_batch = -1] \in Slot
           /\ [Released(slot) EXCEPT !.i_batch = -1].state = "IDLE"
           /\ [Released(slot) EXCEPT !.i_batch = -1].dft = <<>>
           /\ [Released(slot) EXCEPT !.i_batch = -1].n_tokens = Released(slot).n_tokens
<1> DEFINE A == States
           B == SlotIds \cup {NoParent}
           C == 0 .. NCtx - 1
           D == 0 .. NCtx
           E == -1 .. Capacity - 1
           F == Drafts
           n == IF slot.parent = NoParent THEN slot.n_tokens ELSE 0
           r == [slot EXCEPT !.state = "IDLE", !.n_task = 0, !.dft = <<>>,
                             !.n_tokens = n, !.parent = NoParent]
<1>1. Released(slot) = r
  BY DEF Released
<1>2. Slot = SlotOf(A, B, C, D, E, F)
  BY SlotIsSlotOf
<1>3. "IDLE" \in A /\ NoParent \in B /\ 0 \in C /\ n \in D /\ <<>> \in F
  BY SlotFields, SizeAssumption DEF States, Drafts
<1>4. -1 \in -1 .. Capacity - 1 /\ 0 \in 0 .. NCtx
  BY CapacityHoldsSlots, SizeAssumption
<1> HIDE DEF A, B, C, D, E, F, n
<1>5. r \in Slot
  BY <1>2, <1>3, SlotOfUpdates
<1>6. r.state = "IDLE" /\ r.parent = NoParent /\ r.dft = <<>> /\ r.n_tokens = n
  BY <1>2 DEF SlotOf
<1> HIDE DEF r
<1>7. [r EXCEPT !.n_tokens = 0] \in Slot /\ [r EXCEPT !.i_batch = -1] \in Slot
  BY <1>4, <1>5, SlotUpdates
<1>8. /\ [r EXCEPT !.n_tokens = 0].state = "IDLE" /\ [r EXCEPT !.n_tokens = 0].dft = <<>>
      /\ [r EXCEPT !.n_tokens = 0].n_tokens = 0
  BY <1>5, <1>6, SlotAfter
<1>9. /\ [r EXCEPT !.i_batch = -1].state = "IDLE" /\ [r EXCEPT !.i_batch = -1].dft = <<>>
      /\ [r EXCEPT !.i_batch = -1].n_tokens = r.n_tokens
  BY <1>5, <1>6, SlotIsSlotOf DEF SlotOf
<1>10. QED BY <1>1, <1>5, <1>6, <1>7, <1>8, <1>9 DEF n

\* Between two rounds: slots change, and the cache loses what they give up.
LEMMA AmpleBetween ==
    ASSUME AmpleInv, phase = "idle", NEW S \in SUBSET SlotIds,
           kv' = SeqsClear(kv, S), slots' \in [SlotIds -> Slot],
           UNCHANGED <<batch, n_batch, i, view, phase, at>>,
           \A s \in SlotIds :
               /\ RoundSlot(s, slots'[s], "idle", at)
               /\ slots'[s].n_tokens = IF s \in S THEN 0 ELSE slots[s].n_tokens
    PROVE  AmpleInv'
<1>1. AmpleSlots'
  <2>1. \A s \in SlotIds : Verifies(batch, s, slots'[s])
    BY DEF RoundSlot, Verifies
  <2>2. QED BY <2>1 DEF AmpleSlots
<1>2. AmpleBatch'
  BY DEF AmpleInv, AmpleBatch, InCache, Filling
<1>3. Distinct(kv')
  BY SeqsClearDistinct DEF AmpleInv
<1>4. AmpleAgree'
  <2>1. ASSUME NEW s \in SlotIds
        PROVE  Held(kv', s) = 0 .. slots'[s].n_tokens - 1
    <3>1. Held(kv', s) = IF s \in S THEN {} ELSE Held(kv, s)
      BY SeqsClearDistinct DEF AmpleInv
    <3>2. Held(kv, s) = 0 .. slots[s].n_tokens - 1
      BY DEF AmpleInv, AmpleAgree, InCache
    <3>3. QED BY <3>1, <3>2
  <2>2. QED BY <2>1 DEF AmpleAgree, InCache, Filling
<1>5. QED BY <1>1, <1>2, <1>3, <1>4 DEF AmpleInv, Distinct

LEMMA AmpleCancel ==
    ASSUME AmpleInv, NEW s \in SlotIds, Cancel(s)
    PROVE  AmpleInv'
<1> DEFINE mine == {s} \cup {c \in Busy : slots[c].parent = s}
<1>0. \A x \in SlotIds : RoundSlot(x, slots[x], "idle", at) /\ slots[x] \in Slot
  BY DEF AmpleInv, AmpleSlots, Cancel
<1>1. /\ phase = "idle" /\ UNCHANGED <<batch, n_batch, i, view, phase, at>>
      /\ slots' = [x \in SlotIds |-> IF x \in mine THEN Released(slots[x]) ELSE slots[x]]
      /\ kv' = SeqsClear(kv, ChildrenIn(mine))
  BY DEF Cancel
<1>2. mine \subseteq SlotIds /\ ChildrenIn(mine) \in SUBSET SlotIds
  BY DEF Busy, ChildrenIn
<1> HIDE DEF mine
<1>3. slots' \in [SlotIds -> Slot]
  BY <1>0, <1>1, ReleasedAny
<1>4. ASSUME NEW x \in SlotIds
      PROVE  /\ RoundSlot(x, slots'[x], "idle", at)
             /\ slots'[x].n_tokens = IF x \in ChildrenIn(mine) THEN 0 ELSE slots[x].n_tokens
  <2>1. CASE x \in mine
    <3>1. slots'[x] = Released(slots[x]) /\ slots[x] \in Slot
      BY <1>0, <1>1, <2>1
    <3>2. QED BY <2>1, <3>1, ReleasedAny, IdleRound DEF ChildrenIn
  <2>2. CASE x \notin mine
    <3>1. slots'[x] = slots[x]
      BY <1>1, <2>2
    <3>2. QED BY <1>0, <2>2, <3>1 DEF ChildrenIn
  <2>3. QED BY <2>1, <2>2
<1>5. QED BY <1>1, <1>2, <1>3, <1>4, AmpleBetween

\* slot_save_and_clear: the slots of T are launched, others lose their prompt.
LEMMA LaunchClears ==
    ASSUME AmpleInv, phase = "idle", NEW T \in SUBSET Idle
    PROVE  LET f == SlotsOnLaunch(T) IN
           /\ f \in [SlotIds -> Slot] /\ Cleared(T) \in SUBSET SlotIds
           /\ \A x \in SlotIds :
                 f[x].n_tokens = IF x \in Cleared(T) THEN 0 ELSE slots[x].n_tokens
           /\ \A x \in T : x \in SlotIds /\ f[x] = slots[x]
           /\ \A x \in SlotIds : RoundSlot(x, f[x], "idle", at)
<1> DEFINE S == Cleared(T)
           f == SlotsOnLaunch(T)
           off(x) == [slots[x] EXCEPT !.n_tokens = 0]
<1>1. S \in SUBSET SlotIds /\ S \cap T = {} /\ \A x \in S : slots[x].state = "IDLE"
  BY DEF Cleared, Idle, Busy
<1>2. \A x \in SlotIds : RoundSlot(x, slots[x], "idle", at) /\ slots[x] \in Slot
  BY DEF AmpleInv, AmpleSlots
<1>3. ASSUME NEW x \in SlotIds
      PROVE  /\ off(x) \in Slot /\ off(x).state = slots[x].state
             /\ off(x).dft = slots[x].dft /\ off(x).n_tokens = 0
  <2>1. slots[x] \in Slot /\ 0 \in 0 .. NCtx
    BY <1>2, SizeAssumption
  <2>2. off(x) \in Slot
    BY <2>1, SlotUpdates
  <2>3. QED BY <2>1, <2>2, SlotIsSlotOf DEF SlotOf
<1>4. f = [x \in SlotIds |-> IF x \in S THEN off(x) ELSE slots[x]]
  BY DEF SlotsOnLaunch
<1> HIDE DEF S, off, f
<1>5. ASSUME NEW x \in SlotIds
      PROVE  /\ f[x] \in Slot /\ RoundSlot(x, f[x], "idle", at)
             /\ f[x].n_tokens = IF x \in S THEN 0 ELSE slots[x].n_tokens
  <2>1. CASE x \in S
    <3>1. f[x] = off(x) /\ slots[x].state = "IDLE" /\ slots[x].dft = <<>>
      BY <1>1, <1>2, <1>4, <2>1 DEF RoundSlot
    <3>2. QED BY <1>3, <2>1, <3>1, IdleRound
  <2>2. CASE x \notin S
    BY <1>2, <1>4, <2>2
  <2>3. QED BY <2>1, <2>2
<1>6. f \in [SlotIds -> Slot]
  BY <1>4, <1>5
<1>7. \A x \in T : x \in SlotIds /\ f[x] = slots[x]
  BY <1>1, <1>4 DEF Idle
<1>8. QED BY <1>1, <1>5, <1>6, <1>7 DEF S, f

LEMMA AmpleLaunch ==
    ASSUME AmpleInv, NEW s \in SlotIds, Launch(s)
    PROVE  AmpleInv'
<1> DEFINE f == SlotsOnLaunch({s})
           S == Cleared({s})
<1>1. PICK n \in 1 .. NCtx - 1 :
          slots' = [f EXCEPT ![s].state = "STARTED", ![s].n_task = n]
  BY DEF Launch
<1>2. /\ phase = "idle" /\ s \in Idle /\ kv' = SeqsClear(kv, S)
      /\ UNCHANGED <<batch, n_batch, i, view, phase, at>>
  BY DEF Launch
<1>3. /\ f \in [SlotIds -> Slot] /\ S \in SUBSET SlotIds
      /\ \A x \in SlotIds : f[x].n_tokens = IF x \in S THEN 0 ELSE slots[x].n_tokens
      /\ \A x \in SlotIds : RoundSlot(x, f[x], "idle", at)
      /\ f[s] = slots[s]
  <2>1. {s} \in SUBSET Idle
    BY <1>2
  <2>2. QED BY <1>2, <2>1, LaunchClears
<1> DEFINE r == [f[s] EXCEPT !.state = "STARTED", !.n_task = n]
<1> HIDE DEF f, S
<1>4. r \in Slot
  <2>1. f[s] \in Slot /\ "STARTED" \in States /\ n \in 0 .. NCtx - 1
    BY <1>3, SizeAssumption DEF States
  <2>2. QED BY <2>1, SlotUpdates
<1>5. /\ r.state = "STARTED" /\ r.n_task = n /\ r.n_tokens = f[s].n_tokens
      /\ r.dft = f[s].dft
  BY <1>3, SlotAfter
<1>6. slots' = [f EXCEPT ![s] = r]
  BY <1>1, <1>3
<1>7. n > 0 /\ RoundSlot(s, f[s], "idle", at)
  BY <1>3, SizeAssumption
<1> HIDE DEF r
<1>8. RoundSlot(s, r, "idle", at)
  BY <1>5, <1>7 DEF RoundSlot, Live
<1>9. ASSUME NEW x \in SlotIds
      PROVE  /\ slots'[x] \in Slot /\ RoundSlot(x, slots'[x], "idle", at)
             /\ slots'[x].n_tokens = IF x \in S THEN 0 ELSE slots[x].n_tokens
  <2>1. slots'[x] = IF x = s THEN r ELSE f[x]
    BY <1>3, <1>6
  <2>2. QED BY <1>3, <1>4, <1>5, <1>8, <2>1
<1>10. slots' \in [SlotIds -> Slot]
  BY <1>3, <1>4, <1>6
<1>11. QED BY <1>2, <1>3, <1>9, <1>10, AmpleBetween

\* The slot of a child that waits for its parent.
Waiting(slot, n, p) == [slot EXCEPT !.state = "WAIT_OTHER", !.n_task = n, !.parent = p]

LEMMA WaitingSlot ==
    ASSUME NEW slot \in Slot, NEW n \in 0 .. NCtx - 1, NEW p \in SlotIds
    PROVE  /\ Waiting(slot, n, p) \in Slot
           /\ Waiting(slot, n, p).state = "WAIT_OTHER" /\ Waiting(slot, n, p).parent = p
           /\ Waiting(slot, n, p).n_tokens = slot.n_tokens
           /\ Waiting(slot, n, p).dft = slot.dft
<1> DEFINE A == States
           B == SlotIds \cup {NoParent}
           C == 0 .. NCtx - 1
           D == 0 .. NCtx
           E == -1 .. Capacity - 1
           F == Drafts
<1>1. Slot = SlotOf(A, B, C, D, E, F)
  BY SlotIsSlotOf
<1>2. "WAIT_OTHER" \in A /\ p \in B /\ n \in C
  BY DEF States
<1> HIDE DEF A, B, C, D, E, F
<1>3. QED BY <1>1, <1>2 DEF SlotOf, Waiting

LEMMA AmpleLaunchWithChild ==
    ASSUME AmpleInv, NEW s \in SlotIds, NEW c \in SlotIds, LaunchWithChild(s, c)
    PROVE  AmpleInv'
<1> DEFINE f == SlotsOnLaunch({s, c})
           S == Cleared({s, c})
<1>1. PICK n \in 1 .. NCtx - 1 :
          slots' = [f EXCEPT ![s].state = "STARTED", ![s].n_task = n,
                             ![c].state = "WAIT_OTHER", ![c].n_task = n, ![c].parent = s]
  BY DEF LaunchWithChild
<1>2. /\ phase = "idle" /\ s \in Idle /\ c \in Idle /\ c # s /\ kv' = SeqsClear(kv, S)
      /\ UNCHANGED <<batch, n_batch, i, view, phase, at>>
  BY DEF LaunchWithChild
<1>3. /\ f \in [SlotIds -> Slot] /\ S \in SUBSET SlotIds
      /\ \A x \in SlotIds : f[x].n_tokens = IF x \in S THEN 0 ELSE slots[x].n_tokens
      /\ \A x \in SlotIds : RoundSlot(x, f[x], "idle", at)
      /\ f[s] = slots[s] /\ f[c] = slots[c]
  <2>1. {s, c} \in SUBSET Idle
    BY <1>2
  <2>2. QED BY <1>2, <2>1, LaunchClears
<1> DEFINE r == [f[s] EXCEPT !.state = "STARTED", !.n_task = n]
           q == Waiting(f[c], n, s)
<1> HIDE DEF f, S
<1>4. r \in Slot
  <2>1. f[s] \in Slot /\ "STARTED" \in States /\ n \in 0 .. NCtx - 1
    BY <1>3, SizeAssumption DEF States
  <2>2. QED BY <2>1, SlotUpdates
<1>5. /\ r.state = "STARTED" /\ r.n_task = n /\ r.n_tokens = f[s].n_tokens
      /\ r.dft = f[s].dft
  BY <1>3, SlotAfter
<1>6. /\ q \in Slot /\ q.state = "WAIT_OTHER" /\ q.parent = s
      /\ q.n_tokens = f[c].n_tokens /\ q.dft = f[c].dft
  <2>1. f[c] \in Slot /\ n \in 0 .. NCtx - 1
    BY <1>3, SizeAssumption
  <2>2. QED BY <2>1, WaitingSlot
<1>7. slots' = [[f EXCEPT ![s] = r] EXCEPT ![c] = q]
  BY <1>1, <1>2, <1>3 DEF Waiting
<1>8. n > 0 /\ RoundSlot(s, f[s], "idle", at) /\ RoundSlot(c, f[c], "idle", at) /\ s # NoParent
  BY <1>3, SizeAssumption DEF NoParent, SlotIds
<1> HIDE DEF r, q
<1>9. RoundSlot(s, r, "idle", at) /\ RoundSlot(c, q, "idle", at)
  BY <1>5, <1>6, <1>8 DEF RoundSlot, Live
<1>10. ASSUME NEW x \in SlotIds
       PROVE  /\ slots'[x] \in Slot /\ RoundSlot(x, slots'[x], "idle", at)
              /\ slots'[x].n_tokens = IF x \in S THEN 0 ELSE slots[x].n_tokens
  <2>1. slots'[x] = IF x = c THEN q ELSE IF x = s THEN r ELSE f[x]
    BY <1>3, <1>7
  <2>2. QED BY <1>3, <1>4, <1>5, <1>6, <1>9, <2>1
<1>11. slots' \in [SlotIds -> Slot]
  BY <1>3, <1>4, <1>6, <1>7
<1>12. QED BY <1>2, <1>3, <1>10, <1>11, AmpleBetween

LEMMA AmpleBegin ==
    ASSUME AmpleInv, BeginUpdate
    PROVE  AmpleInv'
<1>1. /\ phase = "idle" /\ phase' = "gather" /\ batch' = <<>> /\ at' = 0 /\ n_batch' = NBatch
      /\ i' = 0 /\ view' = 0 /\ UNCHANGED <<slots, kv>>
  BY DEF BeginUpdate
<1>2. \A x \in SlotIds : RoundSlot(x, slots[x], "idle", at) /\ slots[x] \in Slot
  BY <1>1 DEF AmpleInv, AmpleSlots
<1>3. AmpleSlots'
  <2>1. ASSUME NEW x \in SlotIds
        PROVE  RoundSlot(x, slots[x], "gather", 0) /\ Verifies(<<>>, x, slots[x])
    <3>1. slots[x].dft = <<>> /\ ~Live(slots[x]) /\ RoundSlot(x, slots[x], "idle", at)
      BY <1>2 DEF RoundSlot
    <3>2. RoundSlot(x, slots[x], "gather", 0)
      BY <3>1 DEF RoundSlot, Live
    <3>3. DOMAIN slots[x].dft = {}
      BY <3>1
    <3>4. QED BY <3>2, <3>3 DEF Verifies
  <2>2. QED BY <1>1, <2>1 DEF AmpleInv, AmpleSlots
<1>4. AmpleBatch'
  <2>1. batch' \in Seq(TokenT) /\ Len(batch') = 0
    BY <1>1
  <2>2. QED
    BY <1>1, <2>1, SizeAssumption DEF AmpleBatch, InCache, Filling
<1>5. ASSUME NEW x \in SlotIds
      PROVE  Fits(x, slots'[x], kv', batch', 0, 0, Unadded(x)')
  <2>1. Held(kv, x) = 0 .. slots[x].n_tokens - 1
    BY <1>1 DEF AmpleInv, AmpleAgree, InCache
  <2>2. ~Live(slots[x]) /\ slots[x].n_tokens \in Nat
    BY <1>2, SlotFields DEF RoundSlot
  <2>3. Block(<<>>, 0, x, slots[x].n_tokens, slots[x].n_tokens, 0)
    BY <2>2 DEF Block
  <2>4. QED BY <1>1, <2>1, <2>2, <2>3 DEF Fits
<1>6. AmpleAgree'
  BY <1>1, <1>5 DEF AmpleAgree, InCache, Filling
<1>7. QED BY <1>1, <1>3, <1>4, <1>6 DEF AmpleInv, Distinct

LEMMA VerifiesMore ==
    ASSUME NEW B \in Seq(TokenT), NEW F \in Seq(TokenT), NEW s, NEW slot \in Slot,
           Verifies(B, s, slot)
    PROVE  Verifies(B \o F, s, slot)
<1>1. /\ Len(B \o F) = Len(B) + Len(F) /\ Len(B) \in Nat /\ Len(F) \in Nat
      /\ \A j \in 1 .. Len(B) : (B \o F)[j] = B[j]
  BY ConcatAt
<1>2. ASSUME NEW k \in DOMAIN slot.dft PROVE slot.dft[k] \in Nat
  <2>1. PICK d : d = slot.dft
    OBVIOUS
  <2>2. PICK T : T = 0 .. Capacity - 1
    OBVIOUS
  <2>3. d \in Seq(T)
    BY <2>1, <2>2 DEF Slot
  <2>4. k \in 1 .. Len(d)
    BY <2>1, <2>3
  <2>5. d[k] \in T
    BY <2>3, <2>4
  <2>6. QED BY <2>1, <2>2, <2>5, CapacityHoldsSlots
<1>3. ASSUME NEW k \in DOMAIN slot.dft
      PROVE  slot.dft[k] < Len(B \o F) /\ (B \o F)[slot.dft[k] + 1] = B[slot.dft[k] + 1]
  <2>1. slot.dft[k] < Len(B) /\ slot.dft[k] \in Nat
    BY <1>2 DEF Verifies
  <2>2. slot.dft[k] + 1 \in 1 .. Len(B)
    BY <1>1, <2>1
  <2>3. QED BY <1>1, <2>1, <2>2
<1>4. QED BY <1>3 DEF Verifies

\* A slot adds the tokens F of its positions from p on to the batch.
LEMMA AmpleAdd ==
    ASSUME AmpleInv, phase \in {"gather", "prompt"}, NEW s \in SlotIds, at <= s, Unadded(s),
           NEW F \in Seq(TokenT), NEW p \in Nat, NEW slot \in Slot,
           batch' = batch \o F, Len(batch) + Len(F) <= NBatch,
           slots' = [slots EXCEPT ![s] = slot],
           at' \in s + 1 .. NSlots,
           Distinct(kv'), Held(kv', s) = 0 .. p - 1,
           \A x \in SlotIds \ {s} : Held(kv', x) = Held(kv, x),
           \A k \in 1 .. Len(F) : F[k].seq = s /\ F[k].pos = p + k - 1,
           slot.n_tokens = p + Len(F), slot.state # "IDLE",
           Live(slot) => /\ Len(F) > 0 /\ F[Len(F)] = Token(s, p + Len(F) - 1, TRUE)
                         /\ slot.i_batch = Len(batch) + Len(F) - 1,
           phase = "gather" => slot.state = "GENERATING",
           RoundSlot(s, slot, phase, at'), Verifies(batch', s, slot),
           \A x \in SlotIds \ {s} : RoundSlot(x, slots[x], phase, at'),
           UNCHANGED <<n_batch, i, view, phase>>
    PROVE  AmpleInv'
<1>1. batch \in Seq(TokenT) /\ slots \in [SlotIds -> Slot] /\ s \in Int /\ at \in Int
  BY SizeAssumption DEF AmpleInv, AmpleBatch, AmpleSlots, SlotIds
<1>2. AmpleSlots'
  <2>1. ASSUME NEW x \in SlotIds
        PROVE  RoundSlot(x, slots'[x], phase, at') /\ Verifies(batch', x, slots'[x])
    <3>1. CASE x = s
      BY <1>1, <3>1
    <3>2. CASE x # s
      <4>1. slots'[x] = slots[x] /\ slots[x] \in Slot /\ Verifies(batch, x, slots[x])
        BY <1>1, <3>2 DEF AmpleInv, AmpleSlots
      <4>2. QED BY <1>1, <3>2, <4>1, VerifiesMore
    <3>3. QED BY <3>1, <3>2
  <2>2. slots' \in [SlotIds -> Slot]
    BY <1>1
  <2>3. QED BY <2>1, <2>2 DEF AmpleSlots
<1>3. AmpleBatch'
  <2>1. batch' \in Seq(TokenT) /\ Len(batch') = Len(batch) + Len(F)
    BY <1>1, ConcatAt
  <2>2. at' \in 0 .. NSlots
    BY SizeAssumption DEF SlotIds
  <2>3. QED BY <2>1, <2>2 DEF AmpleInv, AmpleBatch, InCache, Filling
<1>4. \A x \in SlotIds : Fits(x, slots[x], kv, batch, 0, 0, Unadded(x)) /\ Unadded(x) \in BOOLEAN
  BY DEF AmpleInv, AmpleAgree, Filling, Unadded
<1>5. Fits(s, slot, kv', batch', 0, 0, FALSE)
  <2>1. Fits(s, slots[s], kv, batch, 0, 0, TRUE) /\ slots[s] \in Slot
    BY <1>1, <1>4
  <2>2. QED BY <1>1, <2>1, FitsOwn
<1>6. ASSUME NEW x \in SlotIds
      PROVE  Fits(x, slots'[x], kv', batch', 0, 0, Unadded(x)')
  <2>1. CASE x = s
    <3>1. slots'[x] = slot
      BY <1>1, <2>1
    <3>2. ~Unadded(x)'
      BY <1>1, <2>1, <3>1 DEF Unadded
    <3>3. QED BY <1>5, <2>1, <3>1, <3>2 DEF Fits
  <2>2. CASE x # s
    <3>1. slots'[x] = slots[x] /\ slots[x] \in Slot /\ x \in Int
      BY <1>1, <2>2, SizeAssumption DEF SlotIds
    <3>2. Unadded(x)' \in BOOLEAN /\ (Unadded(x)' => Unadded(x))
      BY <1>1, <3>1 DEF Unadded
    <3>3. Held(kv', x) = Held(kv, x) /\ \A k \in 1 .. Len(F) : F[k].seq # x
      BY <2>2
    <3>4. Fits(x, slots[x], kv', batch \o F, 0, 0, Unadded(x)')
      BY <1>1, <1>4, <3>1, <3>2, <3>3, FitsOther
    <3>5. QED BY <3>1, <3>4
  <2>3. QED BY <2>1, <2>2
<1>7. AmpleAgree'
  <2>1. phase' \in {"gather", "prompt"}
    OBVIOUS
  <2>2. QED BY <1>6, <2>1 DEF AmpleAgree, InCache
<1>8. QED BY <1>2, <1>3, <1>7 DEF AmpleInv, Distinct

\* The sampled token and d drafts follow the tokens of the slot.
LEMMA SampledTokens ==
    ASSUME NEW s \in SlotIds, NEW d \in Nat, NEW m \in Nat, m = slots[s].n_tokens,
           m + d <= NCtx
    PROVE  /\ Sampled(s, d) \in Seq(TokenT) /\ Len(Sampled(s, d)) = d + 1
           /\ \A k \in 1 .. d + 1 : Sampled(s, d)[k] = Token(s, m + k - 1, TRUE)
<1> DEFINE F == Sampled(s, d)
<1>1. F = [k \in 1 .. d + 1 |-> Token(s, m + k - 1, TRUE)]
  BY DEF Sampled
<1>2. ASSUME NEW k \in 1 .. d + 1 PROVE Token(s, m + k - 1, TRUE) \in TokenT
  <2>1. m + k - 1 \in 0 .. NCtx
    BY SizeAssumption
  <2>2. QED BY <2>1 DEF Token, TokenT
<1> HIDE DEF F
<1>3. \A k \in 1 .. d + 1 : F[k] = Token(s, m + k - 1, TRUE) /\ F[k] \in TokenT
  BY <1>1, <1>2
<1>4. F = [k \in 1 .. d + 1 |-> F[k]] /\ d + 1 \in Nat
  BY <1>1
<1>5. F \in Seq(TokenT) /\ Len(F) = d + 1
  BY <1>3, <1>4, TokenSeq
<1>6. QED BY <1>3, <1>5 DEF F

\* What a generating slot may count on when its turn comes.
LEMMA AmpleTurn ==
    ASSUME Ample, AmpleInv, NEW s \in SlotIds, OnSlot("gather", Generating, s)
    PROVE  /\ phase = "gather" /\ at <= s /\ Unadded(s) /\ Capacity = NBatch
           /\ slots[s] \in Slot /\ slots[s].state = "GENERATING"
           /\ slots[s].i_batch = -1 /\ slots[s].dft = <<>>
           /\ slots[s].n_tokens \in Nat /\ slots[s].n_tokens + 1 < NCtx
           /\ Held(kv, s) = 0 .. slots[s].n_tokens - 1
           /\ s + 1 \in s + 1 .. NSlots
           /\ \A x \in SlotIds \ {s} : RoundSlot(x, slots[x], phase, s + 1)
<1>1. /\ phase = "gather" /\ slots[s].state = "GENERATING" /\ s >= at
      /\ \A x \in Generating : x >= at => s <= x
  BY DEF OnSlot, Generating, InState
<1>2. /\ slots[s] \in Slot /\ at \in Int /\ s \in Int /\ s + 1 \in s + 1 .. NSlots
      /\ \A x \in SlotIds : RoundSlot(x, slots[x], "gather", at)
  BY <1>1, SizeAssumption DEF AmpleInv, AmpleSlots, AmpleBatch, SlotIds
<1>3. Unadded(s) /\ at <= s
  BY <1>1, <1>2 DEF Unadded
<1>4. /\ slots[s].i_batch = -1 /\ slots[s].dft = <<>> /\ slots[s].n_tokens + 1 < NCtx
      /\ slots[s].n_tokens \in Nat
  <2>1. RoundSlot(s, slots[s], "gather", at)
    BY <1>2
  <2>2. QED BY <1>1, <1>2, <2>1, SlotFields DEF RoundSlot
<1>5. Held(kv, s) = 0 .. slots[s].n_tokens - 1
  <2>1. Fits(s, slots[s], kv, batch, 0, 0, Unadded(s))
    BY <1>1 DEF AmpleInv, AmpleAgree, Filling
  <2>2. QED BY <1>3, <2>1 DEF Fits
<1>6. ASSUME NEW x \in SlotIds \ {s} PROVE RoundSlot(x, slots[x], "gather", s + 1)
  <2>1. x \in Int
    BY SizeAssumption DEF SlotIds
  <2>2. slots[x].state = "GENERATING" => (x >= at <=> x >= s + 1)
    BY <1>1, <1>2, <2>1 DEF Generating, InState
  <2>3. QED BY <1>2, <2>2 DEF RoundSlot
<1>7. Capacity = NBatch
  <2>1. NBatch \in Int /\ NSlots \in Int /\ NSlots <= NBatch
    BY SizeAssumption DEF Ample
  <2>2. /\ Max({NBatch, NSlots}) \in {NBatch, NSlots} /\ Max({NBatch, NSlots}) >= NBatch
    BY <2>1, MaxOfTwo
  <2>3. QED BY <2>1, <2>2 DEF Capacity
<1>8. QED BY <1>1, <1>2, <1>3, <1>4, <1>5, <1>6, <1>7

LEMMA AmpleGather ==
    ASSUME Ample, AmpleInv, NEW s \in SlotIds, Gather(s)
    PROVE  AmpleInv'
<1> DEFINE F == Sampled(s, 0)
<1>0. PICK m \in Nat : m = slots[s].n_tokens
  BY AmpleTurn DEF Gather
<1> DEFINE slot == [slots[s] EXCEPT !.i_batch = Len(batch), !.n_tokens = m + 1]
<1>1. /\ phase = "gather" /\ at <= s /\ Unadded(s) /\ Capacity = NBatch
      /\ slots[s] \in Slot /\ slots[s].state = "GENERATING" /\ slots[s].dft = <<>>
      /\ m + 1 < NCtx /\ Held(kv, s) = 0 .. m - 1
      /\ \A x \in SlotIds \ {s} : RoundSlot(x, slots[x], phase, s + 1)
  BY <1>0, AmpleTurn DEF Gather
<1>2. /\ Len(batch) < Capacity /\ batch' = batch \o F /\ at' = s + 1
      /\ UNCHANGED <<n_batch, i, view, kv, phase>>
  BY DEF Gather
<1>3. s + 1 \in s + 1 .. NSlots
  BY AmpleTurn DEF Gather
<1>4. slots \in [SlotIds -> Slot] /\ batch \in Seq(TokenT) /\ Len(batch) \in Nat /\ Distinct(kv)
  BY DEF AmpleInv, AmpleSlots, AmpleBatch
<1>5. slots' = [slots EXCEPT ![s] = slot]
  BY <1>0, <1>4 DEF Gather
<1>6. /\ slot \in Slot /\ slot.state = "GENERATING" /\ slot.i_batch = Len(batch)
      /\ slot.n_tokens = m + 1 /\ slot.dft = <<>> /\ slot.parent = slots[s].parent
  <2>1. Len(batch) \in -1 .. Capacity - 1 /\ m + 1 \in 0 .. NCtx
    BY <1>1, <1>2, <1>4, SizeAssumption
  <2>2. slot \in Slot
    BY <1>1, <2>1, SlotUpdates
  <2>3. QED BY <1>1, <2>2, SlotAfter
<1>7. F \in Seq(TokenT) /\ Len(F) = 1 /\ \A k \in 1 .. 1 : F[k] = Token(s, m + k - 1, TRUE)
  <2>1. 0 \in Nat /\ m + 0 <= NCtx
    BY <1>1, SizeAssumption
  <2>2. F \in Seq(TokenT) /\ Len(F) = 0 + 1 /\ \A k \in 1 .. 0 + 1 : F[k] = Token(s, m + k - 1, TRUE)
    BY <1>0, <2>1, SampledTokens
  <2>3. 0 + 1 = 1
    OBVIOUS
  <2> HIDE DEF F
  <2>4. QED BY <2>2, <2>3
<1> HIDE DEF F, slot
<1>8. /\ \A k \in 1 .. Len(F) : F[k].seq = s /\ F[k].pos = m + k - 1
      /\ Len(F) > 0 /\ F[Len(F)] = Token(s, m + Len(F) - 1, TRUE)
      /\ slot.i_batch = Len(batch) + Len(F) - 1 /\ slot.n_tokens = m + Len(F)
      /\ Len(batch) + Len(F) <= NBatch
  <2>1. \A k \in 1 .. 1 : F[k].seq = s /\ F[k].pos = m + k - 1
    BY <1>7 DEF Token
  <2>2. 1 \in 1 .. 1
    OBVIOUS
  <2>3. F[1] = Token(s, m + 1 - 1, TRUE)
    BY <1>7, <2>2
  <2>4. Len(batch) + 1 <= NBatch /\ Len(batch) + 1 - 1 = Len(batch)
    BY <1>1, <1>2, <1>4, SizeAssumption
  <2>5. QED BY <1>6, <1>7, <2>1, <2>3, <2>4
<1>9. RoundSlot(s, slot, phase, s + 1) /\ Verifies(batch', s, slot)
  <2>1. DOMAIN slot.dft = {} /\ ~(s >= s + 1) /\ slot.i_batch # -1
    BY <1>4, <1>6, SizeAssumption DEF SlotIds
  <2>2. QED BY <1>1, <1>6, <2>1 DEF RoundSlot, Verifies
<1>10. /\ Distinct(kv') /\ Held(kv', s) = 0 .. m - 1 /\ Held(kv', s) = Held(kv, s)
       /\ \A x \in SlotIds \ {s} : Held(kv', x) = Held(kv, x)
  BY <1>1, <1>2, <1>4 DEF Distinct
<1>11. at' \in s + 1 .. NSlots /\ phase \in {"gather", "prompt"} /\ RoundSlot(s, slot, phase, at')
       /\ \A x \in SlotIds \ {s} : RoundSlot(x, slots[x], phase, at')
  BY <1>1, <1>2, <1>3, <1>9
<1>12. QED
  BY <1>0, <1>1, <1>2, <1>5, <1>6, <1>7, <1>8, <1>9, <1>10, <1>11, AmpleAdd

\* A slot that adds its sampled token and the drafts at the indices f.
WithDrafts(slot, n, f) == [slot EXCEPT !.n_tokens = n, !.dft = f]

LEMMA WithDraftsSlot ==
    ASSUME NEW slot \in Slot, NEW n \in 0 .. NCtx, NEW f \in Drafts
    PROVE  /\ WithDrafts(slot, n, f) \in Slot
           /\ WithDrafts(slot, n, f).state = slot.state
           /\ WithDrafts(slot, n, f).parent = slot.parent
           /\ WithDrafts(slot, n, f).n_tokens = n
           /\ WithDrafts(slot, n, f).i_batch = slot.i_batch
           /\ WithDrafts(slot, n, f).dft = f
<1> DEFINE A == States
           B == SlotIds \cup {NoParent}
           C == 0 .. NCtx - 1
           D == 0 .. NCtx
           E == -1 .. Capacity - 1
           F == Drafts
<1>1. Slot = SlotOf(A, B, C, D, E, F)
  BY SlotIsSlotOf
<1>2. n \in D /\ f \in F
  OBVIOUS
<1> HIDE DEF A, B, C, D, E, F
<1>3. QED BY <1>1, <1>2 DEF SlotOf, WithDrafts

LEMMA AmpleGatherDraft ==
    ASSUME Ample, AmpleInv, NEW s \in SlotIds, GatherDraft(s)
    PROVE  AmpleInv'
<1>0. PICK m \in Nat : m = slots[s].n_tokens
  BY AmpleTurn DEF GatherDraft
<1>1. PICK d \in 0 .. DraftMax(s) :
          /\ Len(batch) + 1 + d <= Capacity
          /\ batch' = batch \o Sampled(s, d)
          /\ slots' = [slots EXCEPT ![s].n_tokens = @ + 1 + d,
                                    ![s].dft = [k \in 1 .. d + 1 |-> Len(batch) + k - 1]]
  BY DEF GatherDraft
<1> DEFINE F == Sampled(s, d)
           f == [k \in 1 .. d + 1 |-> Len(batch) + k - 1]
           slot == WithDrafts(slots[s], m + 1 + d, f)
<1>2. /\ phase = "gather" /\ at <= s /\ Unadded(s) /\ Capacity = NBatch
      /\ slots[s] \in Slot /\ slots[s].state = "GENERATING" /\ slots[s].i_batch = -1
      /\ m + 1 < NCtx /\ Held(kv, s) = 0 .. m - 1
      /\ \A x \in SlotIds \ {s} : RoundSlot(x, slots[x], phase, s + 1)
  BY <1>0, AmpleTurn DEF GatherDraft
<1>3. at' = s + 1 /\ UNCHANGED <<n_batch, i, view, kv, phase>> /\ DraftMax(s) > 0
  BY DEF GatherDraft
<1>4. s + 1 \in s + 1 .. NSlots
  BY AmpleTurn DEF GatherDraft
<1>5. slots \in [SlotIds -> Slot] /\ batch \in Seq(TokenT) /\ Len(batch) \in Nat /\ Distinct(kv)
  BY DEF AmpleInv, AmpleSlots, AmpleBatch
<1>6. d \in Nat /\ m + d + 2 <= NCtx
  <2>1. MaxDraft # 0 /\ DraftMax(s) = Min({MaxDraft, NCtx - m - 2})
    BY <1>0, <1>3 DEF DraftMax
  <2>2. MaxDraft \in Int /\ NCtx - m - 2 \in Int /\ NCtx \in Int
    BY SizeAssumption
  <2>3. DraftMax(s) \in {MaxDraft, NCtx - m - 2} /\ DraftMax(s) <= NCtx - m - 2
    BY <2>1, <2>2, MinOfTwo
  <2>4. DraftMax(s) \in Int
    BY <2>2, <2>3
  <2>5. QED BY <2>2, <2>3, <2>4
<1>7. slots' = [slots EXCEPT ![s] = slot]
  BY <1>0, <1>1, <1>5 DEF WithDrafts
<1>8. f \in Drafts /\ Len(f) = d + 1 /\ \A k \in 1 .. d + 1 : f[k] = Len(batch) + k - 1
  <2>1. \A k \in 1 .. d + 1 : f[k] = Len(batch) + k - 1
    OBVIOUS
  <2>2. \A k \in 1 .. d + 1 : Len(batch) + k - 1 \in 0 .. Capacity - 1
    BY <1>1, <1>5, <1>6, CapacityHoldsSlots
  <2>3. PICK T : T = 0 .. Capacity - 1
    OBVIOUS
  <2>4. f \in [1 .. d + 1 -> T]
    BY <2>2, <2>3
  <2>5. d + 1 \in Nat
    BY <1>6
  <2> HIDE DEF f
  <2>6. f \in Seq(T) /\ Len(f) = d + 1
    BY <2>4, <2>5
  <2>7. QED BY <2>1, <2>3, <2>6 DEF Drafts
<1>9. F \in Seq(TokenT) /\ Len(F) = d + 1 /\ \A k \in 1 .. d + 1 : F[k] = Token(s, m + k - 1, TRUE)
  <2>1. m + d <= NCtx
    BY <1>6, SizeAssumption
  <2>2. QED BY <1>0, <1>6, <2>1, SampledTokens
<1> HIDE DEF F, f
<1>10. /\ slot \in Slot /\ slot.state = "GENERATING" /\ slot.n_tokens = m + 1 + d
       /\ slot.i_batch = -1 /\ slot.dft = f /\ slot.parent = slots[s].parent
  <2>1. m + 1 + d \in 0 .. NCtx
    BY <1>6, SizeAssumption
  <2>2. QED BY <1>2, <1>8, <2>1, WithDraftsSlot
<1> HIDE DEF slot
<1>11. Len(batch') = Len(batch) + d + 1 /\ \A k \in 1 .. d + 1 : batch'[Len(batch) + k] = F[k]
  <2>1. /\ Len(batch \o F) = Len(batch) + Len(F)
        /\ \A j \in 1 .. Len(batch) + Len(F) :
              j > Len(batch) => (batch \o F)[j] = F[j - Len(batch)]
    BY <1>5, <1>9, ConcatAt
  <2>2. batch' = batch \o F
    BY <1>1 DEF F
  <2>3. ASSUME NEW k \in 1 .. d + 1 PROVE batch'[Len(batch) + k] = F[k]
    <3>1. /\ Len(batch) + k \in 1 .. Len(batch) + Len(F) /\ Len(batch) + k > Len(batch)
          /\ (Len(batch) + k) - Len(batch) = k
      BY <1>5, <1>6, <1>9
    <3>2. QED BY <2>1, <2>2, <3>1
  <2>4. QED BY <1>5, <1>6, <1>9, <2>1, <2>2, <2>3
<1>12. Verifies(batch', s, slot)
  <2>1. DOMAIN slot.dft = 1 .. d + 1 /\ Len(slot.dft) = d + 1
    BY <1>8, <1>10 DEF Drafts
  <2>2. ASSUME NEW k \in 1 .. d + 1
        PROVE  /\ slot.dft[k] < Len(batch')
               /\ batch'[slot.dft[k] + 1] = Token(s, slot.n_tokens - (d + 1) + k - 1, TRUE)
    <3>1. slot.dft[k] = Len(batch) + k - 1
      BY <1>8, <1>10
    <3>2. /\ Len(batch) + k - 1 < Len(batch) + d + 1 /\ (Len(batch) + k - 1) + 1 = Len(batch) + k
          /\ (m + 1 + d) - (d + 1) + k - 1 = m + k - 1
      BY <1>5, <1>6
    <3>3. slot.dft[k] + 1 = Len(batch) + k
      BY <3>1, <3>2
    <3>4. slot.n_tokens - (d + 1) + k - 1 = m + k - 1
      BY <1>10, <3>2
    <3>5. slot.dft[k] < Len(batch')
      BY <1>11, <3>1, <3>2
    <3>6. batch'[slot.dft[k] + 1] = Token(s, m + k - 1, TRUE)
      BY <1>9, <1>11, <3>3
    <3>7. QED BY <3>4, <3>5, <3>6
  <2>3. QED BY <2>1, <2>2 DEF Verifies
<1>13. RoundSlot(s, slot, phase, s + 1)
  <2>1. slot.dft # <<>> /\ ~(s >= s + 1)
    <3>1. Len(slot.dft) # 0
      BY <1>6, <1>8, <1>10
    <3>2. QED BY <3>1, SizeAssumption DEF SlotIds
  <2>2. QED BY <1>2, <1>10, <2>1 DEF RoundSlot
<1>14. /\ \A k \in 1 .. Len(F) : F[k].seq = s /\ F[k].pos = m + k - 1
       /\ slot.n_tokens = m + Len(F) /\ Len(batch) + Len(F) <= NBatch /\ ~Live(slot)
  <2>1. \A k \in 1 .. d + 1 : F[k].seq = s /\ F[k].pos = m + k - 1
    BY <1>9 DEF Token
  <2>2. m + 1 + d = m + (d + 1) /\ Len(batch) + (d + 1) <= NBatch
    BY <1>1, <1>2, <1>5, <1>6, SizeAssumption
  <2>3. QED BY <1>9, <1>10, <2>1, <2>2 DEF Live
<1>15. /\ Distinct(kv') /\ Held(kv', s) = 0 .. m - 1
       /\ \A x \in SlotIds \ {s} : Held(kv', x) = Held(kv, x)
  BY <1>2, <1>3, <1>5 DEF Distinct
<1>16. /\ at' \in s + 1 .. NSlots /\ phase \in {"gather", "prompt"}
       /\ RoundSlot(s, slot, phase, at') /\ batch' = batch \o F
       /\ \A x \in SlotIds \ {s} : RoundSlot(x, slots[x], phase, at')
  BY <1>1, <1>2, <1>3, <1>4, <1>13 DEF F
<1>17. QED
  BY <1>0, <1>2, <1>3, <1>7, <1>9, <1>10, <1>12, <1>14, <1>15, <1>16, AmpleAdd

LEMMA AmpleOverflow ==
    ASSUME AmpleInv, NEW s \in SlotIds, Overflow(s)
    PROVE  AmpleInv'
<1>1. /\ phase = "gather" /\ phase' = "overflow"
      /\ UNCHANGED <<slots, batch, n_batch, i, view, kv, at>>
  BY DEF Overflow, OnSlot
<1>2. AmpleSlots'
  BY <1>1 DEF AmpleInv, AmpleSlots, RoundSlot
<1>3. AmpleBatch'
  BY <1>1 DEF AmpleInv, AmpleBatch, InCache, Filling
<1>4. AmpleAgree'
  <2>1. ASSUME NEW x \in SlotIds
        PROVE  Fits(x, slots[x], kv, batch, 0, 0, Unadded(x)')
    <3>1. Fits(x, slots[x], kv, batch, 0, 0, Unadded(x)) /\ (Unadded(x)' => Unadded(x))
      BY <1>1 DEF AmpleInv, AmpleAgree, Filling, Unadded
    <3>2. QED BY <3>1 DEF Fits
  <2>2. QED BY <1>1, <2>1 DEF AmpleAgree, InCache
<1>5. QED BY <1>1, <1>2, <1>3, <1>4 DEF AmpleInv, Distinct

LEMMA AmpleEndGather ==
    ASSUME AmpleInv, EndGather
    PROVE  AmpleInv'
<1>1. /\ phase = "gather" /\ phase' = "prompt" /\ at' = 0
      /\ UNCHANGED <<slots, batch, n_batch, i, view, kv>>
  BY DEF EndGather
<1>2. AmpleSlots'
  BY <1>1 DEF AmpleInv, AmpleSlots, RoundSlot
<1>3. AmpleBatch'
  BY <1>1, SizeAssumption DEF AmpleInv, AmpleBatch, InCache, Filling
<1>4. AmpleAgree'
  <2>1. ASSUME NEW x \in SlotIds
        PROVE  Fits(x, slots[x], kv, batch, 0, 0, Unadded(x)')
    <3>1. Fits(x, slots[x], kv, batch, 0, 0, Unadded(x)) /\ (Unadded(x)' => Unadded(x))
      BY <1>1 DEF AmpleInv, AmpleAgree, Filling, Unadded
    <3>2. QED BY <3>1 DEF Fits
  <2>2. QED BY <1>1, <2>1 DEF AmpleAgree, InCache
<1>5. QED BY <1>1, <1>2, <1>3, <1>4 DEF AmpleInv, Distinct

LEMMA AmpleAddPrompt ==
    ASSUME AmpleInv, NEW s \in SlotIds, AddPrompt(s)
    PROVE  AmpleInv'
<1> DEFINE m == slots[s].n_tokens
           task == slots[s].n_task
           room == NBatch - Len(batch)
<1>1. /\ phase = "prompt" /\ slots[s].state \in {"STARTED", "PROCESSING_PROMPT"} /\ s >= at
      /\ at' = (IF Len(batch') >= NBatch THEN NSlots ELSE s + 1)
      /\ UNCHANGED <<n_batch, i, view, phase>>
  BY DEF AddPrompt, OnSlot, Prompting, InState
<1>2. /\ slots \in [SlotIds -> Slot] /\ slots[s] \in Slot
      /\ \A x \in SlotIds : RoundSlot(x, slots[x], "prompt", at)
      /\ batch \in Seq(TokenT) /\ Len(batch) \in Nat /\ at \in Int /\ Len(batch) <= NBatch
      /\ Distinct(kv)
  BY <1>1 DEF AmpleInv, AmpleSlots, AmpleBatch
<1>3. /\ s \in Int /\ s < NSlots /\ m \in 0 .. NCtx /\ task \in 0 .. NCtx - 1 /\ NCtx \in Nat
      /\ Capacity \in Nat /\ NSlots \in Nat /\ NBatch \in Nat /\ NBatch <= Capacity
      /\ room \in Int
  <2>1. NBatch <= Capacity
    <3>1. NBatch \in Int /\ NSlots \in Int
      BY SizeAssumption
    <3>2. Max({NBatch, NSlots}) >= NBatch
      BY <3>1, MaxOfTwo
    <3>3. QED BY <3>1, <3>2, CapacityHoldsSlots DEF Capacity
  <2>2. QED
    BY <1>2, <2>1, SlotFields, CapacityHoldsSlots, SizeAssumption DEF SlotIds
<1>4. PICK p \in Cached(s) :
          LET cur  == Max({0, Min({task - p, room})})
              done == p + cur = task
          IN  /\ batch' = batch \o [k \in 1 .. cur |->
                                       Token(s, p + k - 1, done /\ k = cur)]
              /\ kv' = SeqRm(kv, s, p)
              /\ slots' = [slots EXCEPT
                              ![s].state = IF done THEN "DONE_PROMPT"
                                                   ELSE "PROCESSING_PROMPT",
                              ![s].n_tokens = p + cur,
                              ![s].i_batch = IF done THEN Len(batch') - 1 ELSE @]
  BY DEF AddPrompt
<1> DEFINE cur  == Max({0, Min({task - p, room})})
           done == p + cur = task
           F    == [k \in 1 .. cur |-> Token(s, p + k - 1, done /\ k = cur)]
           st   == IF done THEN "DONE_PROMPT" ELSE "PROCESSING_PROMPT"
           last == IF done THEN Len(batch') - 1 ELSE slots[s].i_batch
           slot == [slots[s] EXCEPT !.state = st, !.n_tokens = p + cur, !.i_batch = last]
<1>5. p \in Nat /\ p < task /\ p <= m
  <2>1. CASE slots[s].state = "STARTED"
    <3>1. task > 0
      BY <1>2, <2>1 DEF RoundSlot
    <3>2. Min({m, task - 1}) <= m /\ Min({m, task - 1}) <= task - 1
          /\ Min({m, task - 1}) \in {m, task - 1}
      <4>1. m \in Int /\ task - 1 \in Int
        BY <1>3
      <4> HIDE DEF m, task
      <4>2. QED BY <4>1, MinOfTwo
    <3>3. p \in 0 .. Min({m, task - 1})
      BY <1>4, <2>1 DEF Cached
    <3>4. QED BY <1>3, <3>1, <3>2, <3>3
  <2>2. CASE slots[s].state = "PROCESSING_PROMPT"
    <3>1. p = m
      BY <1>4, <2>2 DEF Cached
    <3>2. m < task
      BY <1>2, <2>2 DEF RoundSlot
    <3>3. QED BY <1>3, <3>1, <3>2
  <2>3. QED BY <1>1, <2>1, <2>2
<1>6. /\ cur \in Nat /\ p + cur <= task /\ (done => cur > 0)
      /\ cur = 0 \/ Len(batch) + cur <= NBatch
  <2> DEFINE left == task - p
             least == Min({left, room})
  <2>1. left \in Int /\ left > 0
    BY <1>3, <1>5
  <2>2. least \in {left, room} /\ least <= left /\ least <= room
    BY <1>3, <2>1, MinOfTwo
  <2>3. least \in Int
    BY <1>3, <2>1, <2>2
  <2> HIDE DEF least
  <2>4. Max({0, least}) \in {0, least} /\ Max({0, least}) >= 0 /\ Max({0, least}) >= least
    <3>1. 0 \in Int
      OBVIOUS
    <3>2. QED BY <2>3, <3>1, MaxOfTwo
  <2>5. cur = Max({0, least})
    BY DEF least
  <2>6. QED BY <1>2, <1>3, <1>5, <2>1, <2>2, <2>3, <2>4, <2>5
<1>7. batch' = batch \o F /\ kv' = SeqRm(kv, s, p)
  BY <1>4
<1>8. slots' = [slots EXCEPT ![s] = slot]
  BY <1>2, <1>4
<1> HIDE DEF cur
<1>9. F \in Seq(TokenT) /\ Len(F) = cur
      /\ (\A k \in 1 .. cur : F[k].seq = s /\ F[k].pos = p + k - 1)
      /\ (done => F[cur] = Token(s, p + cur - 1, TRUE))
  <2>1. \A k \in 1 .. cur : F[k] = Token(s, p + k - 1, done /\ k = cur)
    OBVIOUS
  <2>2. ASSUME NEW k \in 1 .. cur
        PROVE  F[k] \in TokenT /\ F[k].seq = s /\ F[k].pos = p + k - 1
    <3>1. p + k - 1 \in 0 .. NCtx
      BY <1>3, <1>5, <1>6
    <3>2. (done /\ k = cur) \in BOOLEAN
      OBVIOUS
    <3>3. QED BY <2>1, <3>1, <3>2 DEF Token, TokenT
  <2>3. F = [k \in 1 .. cur |-> F[k]]
    OBVIOUS
  <2>4. ASSUME done PROVE F[cur] = Token(s, p + cur - 1, TRUE)
    <3>1. cur \in 1 .. cur /\ (done /\ cur = cur) = TRUE
      BY <1>6, <2>4
    <3>2. F[cur] = Token(s, p + cur - 1, done /\ cur = cur)
      BY <2>1, <3>1
    <3>3. QED BY <3>1, <3>2
  <2> HIDE DEF F
  <2>5. QED BY <1>6, <2>2, <2>3, <2>4, TokenSeq
<1> HIDE DEF F
<1>10. Len(batch') = Len(batch) + cur
  BY <1>2, <1>7, <1>9, ConcatAt
<1>11. /\ slot.state = st /\ slot.n_tokens = p + cur /\ slot.i_batch = last
       /\ slot.parent = slots[s].parent /\ slot.dft = <<>> /\ slot.n_task = task
  BY <1>1, <1>2, SlotAfter DEF RoundSlot
<1>12. slot \in Slot
  <2>1. st \in States /\ p + cur \in 0 .. NCtx
    BY <1>3, <1>5, <1>6 DEF States
  <2>2. last \in -1 .. Capacity - 1
    <3>1. CASE done
      BY <1>2, <1>3, <1>6, <1>10, <3>1
    <3>2. CASE ~done
      BY <1>2, <3>2, SlotIsSlotOf DEF SlotOf
    <3>3. QED BY <3>1, <3>2
  <2> HIDE DEF st, last
  <2>3. QED BY <1>2, <2>1, <2>2, SlotUpdates
<1> HIDE DEF slot
<1>13. Unadded(s)
  BY <1>1, <1>2 DEF Unadded
<1>14. Held(kv', s) = 0 .. p - 1 /\ \A x \in SlotIds \ {s} : Held(kv', x) = Held(kv, x)
  <2>1. Fits(s, slots[s], kv, batch, 0, 0, Unadded(s))
    BY <1>1 DEF AmpleInv, AmpleAgree, Filling
  <2>2. PICK n \in Nat : n = m /\ Held(kv, s) = 0 .. n - 1
    BY <1>13, <2>1 DEF Fits
  <2>3. Held(kv', s) = {q \in Held(kv, s) : q < p}
    BY <1>2, <1>5, <1>7, SeqRmDistinct
  <2>4. \A x \in SlotIds \ {s} : Held(kv', x) = Held(kv, x)
    BY <1>2, <1>5, <1>7, SeqRmDistinct
  <2>5. {q \in 0 .. m - 1 : q < p} = 0 .. p - 1
    BY <1>3, <1>5
  <2>6. QED BY <2>2, <2>3, <2>4, <2>5
<1>15. RoundSlot(s, slot, "prompt", at')
  <2>1. RoundSlot(s, slots[s], "prompt", at)
    BY <1>2
  <2>2. CASE done
    <3>1. slot.n_tokens < NCtx
      BY <1>3, <1>5, <1>6, <1>11
    <3>2. QED BY <1>11, <2>1, <2>2, <3>1 DEF RoundSlot, Live
  <2>3. CASE ~done
    <3>1. slot.n_tokens < slot.n_task
      <4>1. slot.n_tokens = p + cur /\ slot.n_task = task
        BY <1>11
      <4>2. p + cur # task
        BY <2>3
      <4>3. p + cur < task
        BY <1>3, <1>5, <1>6, <4>2
      <4>4. QED BY <4>1, <4>3
    <3>2. QED BY <1>11, <2>1, <2>3, <3>1 DEF RoundSlot, Live
  <2>4. QED BY <2>2, <2>3
<1>16. \A x \in SlotIds \ {s} : RoundSlot(x, slots[x], "prompt", at')
  BY <1>2 DEF RoundSlot
<1>17. Live(slot) => /\ Len(F) > 0 /\ F[Len(F)] = Token(s, p + Len(F) - 1, TRUE)
                     /\ slot.i_batch = Len(batch) + Len(F) - 1
  <2>1. Live(slot) => done
    BY <1>11 DEF Live
  <2>2. ASSUME Live(slot)
        PROVE  /\ Len(F) > 0 /\ F[Len(F)] = Token(s, p + Len(F) - 1, TRUE)
               /\ slot.i_batch = Len(batch) + Len(F) - 1
    <3>1. done
      BY <2>1, <2>2
    <3>2. cur > 0 /\ F[cur] = Token(s, p + cur - 1, TRUE) /\ Len(F) = cur
      BY <1>6, <1>9, <3>1
    <3>3. slot.i_batch = Len(batch) + cur - 1
      <4>1. slot.i_batch = last
        BY <1>11
      <4>2. last = Len(batch') - 1
        BY <3>1
      <4> HIDE DEF last
      <4>3. slot.i_batch = Len(batch') - 1
        BY <4>1, <4>2
      <4>4. cur \in Nat /\ Len(batch) \in Nat
        BY <1>2, <1>6
      <4> HIDE DEF done
      <4>5. QED BY <1>10, <4>3, <4>4
    <3> HIDE DEF done
    <3>4. QED BY <3>2, <3>3
  <2>3. QED BY <2>2
<1>18. /\ Len(batch) + Len(F) <= NBatch /\ at <= s /\ at' \in s + 1 .. NSlots
       /\ slot.n_tokens = p + Len(F) /\ slot.state \notin {"IDLE", "STARTED"}
  BY <1>1, <1>2, <1>3, <1>6, <1>9, <1>10, <1>11
<1>19. Distinct(kv')
  BY <1>2, <1>5, <1>7, SeqRmDistinct
<1>20. QED
  <2>1. \A k \in 1 .. Len(F) : F[k].seq = s /\ F[k].pos = p + k - 1
    <3>1. Len(F) = cur
      BY <1>9
    <3>2. \A k \in 1 .. cur : F[k].seq = s /\ F[k].pos = p + k - 1
      BY <1>9
    <3> HIDE DEF done
    <3>3. QED BY <3>1, <3>2
  <2>2. phase \in {"gather", "prompt"} /\ phase # "gather" /\ RoundSlot(s, slot, phase, at')
        /\ \A x \in SlotIds \ {s} : RoundSlot(x, slots[x], phase, at')
    BY <1>1, <1>15, <1>16
  <2>3. Verifies(batch', s, slot)
    <3>1. DOMAIN slot.dft = {}
      BY <1>11
    <3>2. QED BY <3>1 DEF Verifies
  <2>4. QED
    BY <1>1, <1>5, <1>7, <1>8, <1>9, <1>12, <1>13, <1>14, <1>17, <1>18, <1>19, <2>1, <2>2, <2>3,
       AmpleAdd

LEMMA AmpleEndPrompts ==
    ASSUME AmpleInv, EndPrompts
    PROVE  AmpleInv'
<1>1. /\ phase = "prompt" /\ phase' = (IF batch = <<>> THEN "idle" ELSE "decode")
      /\ UNCHANGED <<slots, batch, n_batch, i, view, kv, at>>
  BY DEF EndPrompts
<1>2. AmpleBatch'
  BY <1>1 DEF AmpleInv, AmpleBatch, InCache, Filling
<1>3. \A x \in SlotIds : /\ slots[x] \in Slot /\ Fits(x, slots[x], kv, batch, 0, 0, Unadded(x))
                         /\ RoundSlot(x, slots[x], "prompt", at) /\ Verifies(batch, x, slots[x])
  BY <1>1 DEF AmpleInv, AmpleSlots, AmpleAgree, Filling
<1>4. CASE batch = <<>>
  <2>1. phase' = "idle" /\ Len(batch) = 0
    BY <1>1, <1>4
  <2>2. ASSUME NEW x \in SlotIds
        PROVE  /\ RoundSlot(x, slots[x], "idle", at)
               /\ Held(kv, x) = 0 .. slots[x].n_tokens - 1
    <3>1. PICK m \in Nat, k \in Int : m = slots[x].n_tokens /\ k = slots[x].i_batch
      BY <1>3, SlotFields
    <3>2. PICK n \in Nat, b \in Int :
              /\ n <= m /\ Held(kv, x) = 0 .. n - 1 /\ Block(batch, 0, x, n, m, b)
              /\ Live(slots[x]) => Awaits(batch, 0, x, m, b, k)
      BY <1>3, <3>1 DEF Fits
    <3>3. n = m
      BY <2>1, <3>1, <3>2 DEF Block
    <3>4. ~Live(slots[x])
      <4>1. ASSUME Live(slots[x]) PROVE FALSE
        <5>1. 0 <= k /\ k < Len(batch)
          BY <3>2, <4>1 DEF Awaits
        <5>2. QED BY <2>1, <3>1, <5>1
      <4>2. QED BY <4>1
    <3>5. slots[x].dft = <<>>
      <4>1. PICK f : f = slots[x].dft
        OBVIOUS
      <4>2. PICK T : T = 0 .. Capacity - 1
        OBVIOUS
      <4>3. f \in Seq(T) /\ \A q \in T : q >= 0 /\ q \in Int
        BY <1>3, <4>1, <4>2, CapacityHoldsSlots DEF Slot
      <4>4. ASSUME f # <<>> PROVE FALSE
        <5>1. 1 \in DOMAIN f /\ f[1] \in T
          BY <4>3, <4>4
        <5>2. f[1] < 0
          BY <1>3, <2>1, <4>1, <5>1 DEF Verifies
        <5>3. QED BY <4>3, <5>1, <5>2
      <4>5. QED BY <4>1, <4>4
    <3>6. QED BY <1>3, <3>1, <3>2, <3>3, <3>4, <3>5 DEF RoundSlot
  <2>3. AmpleSlots'
    BY <1>1, <1>3, <2>1, <2>2 DEF AmpleInv, AmpleSlots
  <2>4. AmpleAgree'
    BY <1>1, <2>1, <2>2 DEF AmpleAgree, InCache, Filling
  <2>5. QED BY <1>1, <1>2, <2>3, <2>4 DEF AmpleInv, Distinct
<1>5. CASE batch # <<>>
  <2>1. phase' = "decode"
    BY <1>1, <1>5
  <2>2. AmpleSlots'
    BY <1>1, <2>1 DEF AmpleInv, AmpleSlots, RoundSlot
  <2>3. ASSUME NEW x \in SlotIds
        PROVE  Fits(x, slots[x], kv, batch, 0, 0, Unadded(x)')
    <3>1. Unadded(x)' => Unadded(x)
      BY <1>1, <2>1 DEF Unadded
    <3>2. QED BY <1>3, <3>1 DEF Fits
  <2>4. AmpleAgree'
    BY <1>1, <2>1, <2>3 DEF AmpleAgree, InCache
  <2>5. QED BY <1>1, <1>2, <2>2, <2>4 DEF AmpleInv, Distinct
<1>6. QED BY <1>4, <1>5

-----------------------------------------------------------------------------
(* The one chunk of a batch.                                               *)

\* The one chunk of a batch gives every slot the rest of its positions.
LEMMA WholeChunk ==
    ASSUME AmpleInv, phase = "decode"
    PROVE  /\ Chunk = Len(batch) /\ i = 0 /\ Len(batch) \in Nat /\ batch \in Seq(TokenT)
           /\ ChunkTokens = {batch[j] : j \in 1 .. Len(batch)}
<1>1. i = 0 /\ Len(batch) \in Nat /\ batch \in Seq(TokenT) /\ Len(batch) <= NBatch /\ n_batch = NBatch
  BY DEF AmpleInv, AmpleBatch, Filling
<1>2. Chunk = Len(batch)
  <2>1. n_batch \in Int /\ Len(batch) - i \in Int /\ Len(batch) - i = Len(batch)
    BY <1>1, SizeAssumption
  <2>2. /\ Chunk \in {n_batch, Len(batch) - i} /\ Chunk <= n_batch
        /\ Chunk <= Len(batch) - i
    BY <2>1, MinOfTwo DEF Chunk
  <2>3. PICK len, c : len \in Nat /\ len = Len(batch) /\ c = Chunk
    BY <1>1
  <2>4. c \in {NBatch, len} /\ c <= NBatch /\ c <= len /\ len <= NBatch /\ NBatch \in Nat
    BY <1>1, <2>1, <2>2, <2>3, SizeAssumption
  <2>5. c = len
    BY <2>3, <2>4
  <2>6. QED BY <2>3, <2>5
<1>3. i + 1 .. i + Chunk = 1 .. Len(batch)
  BY <1>1, <1>2
<1>4. QED BY <1>1, <1>2, <1>3 DEF ChunkTokens

LEMMA WholeContinues ==
    ASSUME AmpleInv, phase = "decode", NEW s \in SlotIds
    PROVE  \E n \in Nat, b \in Int :
               /\ n <= slots[s].n_tokens
               /\ Held(kv, s) = 0 .. n - 1 /\ InChunk(s) = n .. slots[s].n_tokens - 1
               /\ \A j \in 1 .. Len(batch) : batch[j].seq = s => batch[j].pos = j - b - 1
               /\ Live(slots[s]) =>
                      Awaits(batch, 0, s, slots[s].n_tokens, b, slots[s].i_batch)
               /\ slots[s].state = "IDLE" => n = slots[s].n_tokens
<1>1. PICK m \in Nat : m = slots[s].n_tokens
  BY SlotFields DEF AmpleInv, AmpleSlots
<1>2. PICK n \in Nat, b \in Int :
          /\ n <= m /\ Held(kv, s) = 0 .. n - 1 /\ Block(batch, 0, s, n, m, b)
          /\ Live(slots[s]) => Awaits(batch, 0, s, m, b, slots[s].i_batch)
          /\ slots[s].state = "IDLE" => n = m
  BY <1>1 DEF AmpleInv, AmpleAgree, Filling, Fits, Unadded
<1>3. PICK len \in Nat : len = Len(batch) /\ batch \in Seq(TokenT)
  BY WholeChunk
<1>4. PICK n2 \in n .. m :
          /\ {batch[j].pos : j \in {k \in 0 + 1 .. 0 + len : batch[k].seq = s}} = n .. n2 - 1
          /\ Block(batch, 0 + len, s, n2, m, b)
  <2>1. 0 \in Nat /\ 0 + len <= Len(batch)
    BY <1>3
  <2>2. QED BY <1>2, <1>3, <2>1, BlockDecoded
<1>5. n2 = m
  BY <1>3, <1>4 DEF Block
<1>6. InChunk(s) = {batch[j].pos : j \in {k \in 1 .. len : batch[k].seq = s}}
  BY <1>3, WholeChunk DEF InChunk
<1>7. 0 + 1 .. 0 + len = 1 .. len
  OBVIOUS
<1>8. InChunk(s) = n .. m - 1
  BY <1>4, <1>5, <1>6, <1>7
<1>9. \A j \in 1 .. Len(batch) : batch[j].seq = s => batch[j].pos = j - b - 1
  BY <1>2 DEF Block
<1>10. QED BY <1>1, <1>2, <1>8, <1>9

LEMMA AmpleConsistent ==
    ASSUME AmpleInv, phase = "decode"
    PROVE  Consistent
<1>1. ASSUME NEW s \in SlotIds, InChunk(s) # {}
      PROVE  /\ Positions(s) # {} => Min(InChunk(s)) = Max(Positions(s)) + 1
             /\ Max(InChunk(s)) - Min(InChunk(s)) + 1 = Cardinality(InChunk(s))
  <2>1. PICK n \in Nat, n2 \in Nat : Positions(s) = 0 .. n - 1 /\ InChunk(s) = n .. n2 - 1
    <3>1. slots[s].n_tokens \in Nat
      BY SlotFields DEF AmpleInv, AmpleSlots
    <3>2. QED BY <3>1, WholeContinues, PositionsAreHeld
  <2>2. n < n2 /\ n - 1 \in Int /\ n2 - 1 \in Int /\ n <= n2 - 1
    BY <1>1, <2>1
  <2>3. Min(InChunk(s)) = n /\ Max(InChunk(s)) = n2 - 1
    BY <2>1, <2>2, IntervalEnds
  <2>4. ASSUME Positions(s) # {} PROVE Max(Positions(s)) = n - 1
    <3>1. 0 <= n - 1 /\ 0 \in Int
      BY <2>1, <2>4
    <3>2. Max(0 .. n - 1) = n - 1
      BY <2>2, <3>1, IntervalEnds
    <3>3. QED BY <2>1, <3>2
  <2>5. Cardinality(InChunk(s)) = (n2 - 1) - n + 1
    <3>1. n \in Int /\ n2 - 1 \in Int /\ n <= (n2 - 1) + 1
      BY <2>2
    <3>2. Cardinality(n .. n2 - 1) = (n2 - 1) - n + 1
      BY <3>1, IntervalSize
    <3>3. QED BY <2>1, <3>2
  <2>6. QED BY <2>2, <2>3, <2>4, <2>5
<1>2. QED BY <1>1 DEF Consistent

\* The cells of the chunk are new, and together with those of the cache no
\* more than one for every position of every slot.
LEMMA AmpleCells ==
    ASSUME Ample, AmpleInv, phase = "decode"
    PROVE  /\ Distinct(kv \cup NewCells)
           /\ \A s \in SlotIds : Held(kv \cup NewCells, s) = 0 .. slots[s].n_tokens - 1
           /\ Cardinality(kv) + Chunk <= Cells
<1> DEFINE cell(j) == [pos |-> batch[j].pos, seqs |-> {batch[j].seq}]
           J == 1 .. Len(batch)
           K == kv \cup NewCells
           f == [j \in J |-> cell(j)]
<1>1. /\ Chunk = Len(batch) /\ Len(batch) \in Nat /\ batch \in Seq(TokenT)
      /\ ChunkTokens = {batch[j] : j \in J}
  BY WholeChunk
<1>2. NewCells = {cell(j) : j \in J}
  BY <1>1 DEF NewCells
<1>3. ASSUME NEW j \in J
      PROVE  /\ batch[j] \in ChunkTokens /\ batch[j].seq \in SlotIds
             /\ batch[j].pos \in InChunk(batch[j].seq)
             /\ cell(j) \in CellT /\ cell(j).pos = batch[j].pos /\ cell(j).seqs = {batch[j].seq}
  <2>1. batch[j] \in TokenT /\ batch[j] \in ChunkTokens
    BY <1>1
  <2>2. batch[j].seq \in SlotIds /\ batch[j].pos \in 0 .. NCtx
    BY <2>1 DEF TokenT
  <2>3. {batch[j].seq} \in (SUBSET SlotIds) \ {{}}
    BY <2>2
  <2>4. cell(j) \in CellT
    BY <2>2, <2>3 DEF CellT
  <2>5. batch[j].pos \in InChunk(batch[j].seq)
    BY <2>1 DEF InChunk
  <2>6. QED BY <2>1, <2>2, <2>4, <2>5
<1> HIDE DEF cell
<1>4. ASSUME NEW c \in kv, NEW j \in J, NEW s \in SlotIds,
             s \in c.seqs, s = batch[j].seq, c.pos = batch[j].pos
      PROVE  FALSE
  <2>1. PICK n \in Nat : Held(kv, s) = 0 .. n - 1 /\ InChunk(s) = n .. slots[s].n_tokens - 1
    BY WholeContinues
  <2>2. c.pos \in Held(kv, s) /\ c.pos \in InChunk(s)
    BY <1>3, <1>4 DEF Held
  <2>3. slots[s].n_tokens \in Nat
    BY SlotFields DEF AmpleInv, AmpleSlots
  <2>4. QED BY <2>1, <2>2, <2>3
<1>5. ASSUME NEW j \in J, NEW k \in J, batch[j].seq = batch[k].seq, batch[j].pos = batch[k].pos
      PROVE  j = k
  <2>1. PICK s \in SlotIds : s = batch[j].seq
    BY <1>3
  <2>2. PICK b \in Int : \A q \in J : batch[q].seq = s => batch[q].pos = q - b - 1
    BY <2>1, WholeContinues
  <2>3. j - b - 1 = k - b - 1
    BY <1>5, <2>1, <2>2
  <2>4. QED BY <1>1, <2>3
<1>6. ASSUME NEW c \in K, NEW d \in K, NEW s \in SlotIds,
             c.pos = d.pos, s \in c.seqs, s \in d.seqs
      PROVE  c = d
  <2>1. CASE c \in kv /\ d \in kv
    BY <1>6, <2>1 DEF AmpleInv, Distinct
  <2>2. CASE c \in NewCells /\ d \in NewCells
    <3>1. PICK j \in J, k \in J : c = cell(j) /\ d = cell(k)
      BY <1>2, <2>2
    <3>2. batch[j].seq = s /\ batch[k].seq = s /\ batch[j].pos = batch[k].pos
      BY <1>3, <1>6, <3>1
    <3>3. QED BY <1>5, <3>1, <3>2
  <2>3. CASE c \in kv /\ d \in NewCells
    <3>1. PICK j \in J : d = cell(j)
      BY <1>2, <2>3
    <3>2. batch[j].seq = s /\ batch[j].pos = c.pos
      BY <1>3, <1>6, <3>1
    <3>3. QED BY <1>4, <1>6, <2>3, <3>2
  <2>4. CASE d \in kv /\ c \in NewCells
    <3>1. PICK j \in J : c = cell(j)
      BY <1>2, <2>4
    <3>2. batch[j].seq = s /\ batch[j].pos = d.pos
      BY <1>3, <1>6, <3>1
    <3>3. QED BY <1>4, <1>6, <2>4, <3>2
  <2>5. QED BY <2>1, <2>2, <2>3, <2>4
<1>7. Distinct(K)
  <2>1. K \subseteq CellT
    BY <1>2, <1>3 DEF AmpleInv, Distinct
  <2>2. QED BY <1>6, <2>1 DEF Distinct
<1>8. ASSUME NEW s \in SlotIds PROVE Held(K, s) = 0 .. slots[s].n_tokens - 1
  <2>1. PICK n \in Nat : /\ n <= slots[s].n_tokens /\ Held(kv, s) = 0 .. n - 1
                         /\ InChunk(s) = n .. slots[s].n_tokens - 1
    BY WholeContinues
  <2>2. Held(NewCells, s) = InChunk(s)
    <3>1. ASSUME NEW p \in Held(NewCells, s) PROVE p \in InChunk(s)
      <4>1. PICK j \in J : s \in cell(j).seqs /\ p = cell(j).pos
        BY <1>2 DEF Held
      <4>2. QED BY <1>3, <4>1
    <3>2. ASSUME NEW p \in InChunk(s) PROVE p \in Held(NewCells, s)
      <4>1. PICK j \in J : batch[j].seq = s /\ batch[j].pos = p
        BY <1>1 DEF InChunk
      <4>2. cell(j) \in NewCells /\ s \in cell(j).seqs /\ cell(j).pos = p
        BY <1>2, <1>3, <4>1
      <4>3. QED BY <4>2 DEF Held
    <3>3. QED BY <3>1, <3>2
  <2>3. Held(K, s) = Held(kv, s) \cup Held(NewCells, s)
    BY DEF Held
  <2>4. slots[s].n_tokens \in Nat
    BY SlotFields DEF AmpleInv, AmpleSlots
  <2>5. (0 .. n - 1) \cup (n .. slots[s].n_tokens - 1) = 0 .. slots[s].n_tokens - 1
    BY <2>1, <2>4
  <2>6. QED BY <2>1, <2>2, <2>3, <2>5
<1>9. Cardinality(kv) + Chunk <= Cells
  <2>1. \A s \in SlotIds : Held(K, s) \subseteq 0 .. NCtx - 1
    <3>1. ASSUME NEW s \in SlotIds PROVE Held(K, s) \subseteq 0 .. NCtx - 1
      <4>1. PICK m \in 0 .. NCtx : m = slots[s].n_tokens /\ NCtx \in Nat
        BY SlotFields DEF AmpleInv, AmpleSlots
      <4>2. Held(K, s) = 0 .. m - 1
        BY <1>8, <4>1
      <4> HIDE DEF K
      <4>3. QED BY <4>1, <4>2
    <3>2. QED BY <3>1
  <2>2. IsFiniteSet(K) /\ Cardinality(K) <= NSlots * NCtx
    BY <1>7, <2>1, DistinctFits
  <2>3. IsFiniteSet(kv) /\ IsFiniteSet(NewCells)
    BY <2>2, FS_Subset
  <2>4. kv \cap NewCells = {}
    <3>1. ASSUME NEW c \in kv, c \in NewCells PROVE FALSE
      <4>1. PICK j \in J : c = cell(j)
        BY <1>2, <3>1
      <4>2. QED BY <1>3, <1>4, <4>1
    <3>2. QED BY <3>1
  <2>5. Cardinality(K) = Cardinality(kv) + Cardinality(NewCells)
    <3>1. Cardinality(K) = Cardinality(kv) + Cardinality(NewCells) - Cardinality({})
      BY <2>3, <2>4, FS_Union
    <3>2. Cardinality({}) = 0 /\ Cardinality(kv) \in Nat /\ Cardinality(NewCells) \in Nat
      BY <2>3, FS_EmptySet, FS_CardinalityType
    <3>3. QED BY <3>1, <3>2
  <2>6. Cardinality(J) <= Cardinality(NewCells)
    <3>1. f \in [J -> NewCells]
      BY <1>2
    <3>2. ASSUME NEW j \in J, NEW k \in J, f[j] = f[k] PROVE j = k
      <4>1. cell(j) = cell(k)
        BY <3>2
      <4>2. batch[j].pos = batch[k].pos /\ batch[j].seq = batch[k].seq
        BY <1>3, <4>1
      <4>3. QED BY <1>5, <4>2
    <3> HIDE DEF f, J
    <3>3. f \in Injection(J, NewCells)
      BY <3>1, <3>2 DEF Injection, IsInjective
    <3>4. QED BY <2>3, <3>3, FS_Injection
  <2>7. Cardinality(J) = Len(batch)
    <3>1. 1 \in Int /\ Len(batch) \in Int /\ 1 <= Len(batch) + 1
      BY <1>1
    <3>2. Cardinality(J) = Len(batch) - 1 + 1
      BY <3>1, IntervalSize
    <3>3. QED BY <1>1, <3>2
  <2>8. /\ Cardinality(kv) \in Nat /\ Cardinality(NewCells) \in Nat /\ Cells \in Nat
        /\ NSlots * NCtx \in Int
    BY <2>3, FS_CardinalityType, SizeAssumption
  <2> HIDE DEF J, K
  <2>9. QED BY <1>1, <2>2, <2>5, <2>6, <2>7, <2>8 DEF Ample
<1>10. QED BY <1>7, <1>8, <1>9

-----------------------------------------------------------------------------
(* Decoding the batch and sampling from it.                                *)

\* A child with the state of its parent.
Copied(slot, p) == [slot EXCEPT !.parent = p]

LEMMA CopiedSlot ==
    ASSUME NEW slot \in Slot, NEW p \in SlotIds
    PROVE  /\ Copied(slot, p) \in Slot
           /\ Copied(slot, p).state = slot.state /\ Copied(slot, p).parent = p
           /\ Copied(slot, p).n_tokens = slot.n_tokens
           /\ Copied(slot, p).i_batch = slot.i_batch /\ Copied(slot, p).dft = slot.dft
<1> DEFINE A == States
           B == SlotIds \cup {NoParent}
           C == 0 .. NCtx - 1
           D == 0 .. NCtx
           E == -1 .. Capacity - 1
           F == Drafts
<1>1. Slot = SlotOf(A, B, C, D, E, F)
  BY SlotIsSlotOf
<1>2. p \in B
  OBVIOUS
<1> HIDE DEF A, B, C, D, E, F
<1>3. QED BY <1>1, <1>2 DEF SlotOf, Copied

LEMMA AmpleDecode ==
    ASSUME Ample, AmpleInv, Decode
    PROVE  AmpleInv'
<1> DEFINE par(s) == slots[s].parent
           K == kv \cup NewCells
           from == [c \in Forked |-> slots[c].parent]
<1>1. /\ phase = "decode" /\ phase' = "sample" /\ view' = Chunk /\ n_batch' = NBatch
      /\ UNCHANGED <<batch, i, at>>
      /\ kv' = SeqCopy(K, Forked, from)
      /\ slots' = [s \in SlotIds |-> IF s \in Forked THEN Copied(slots[par(s)], par(s))
                                     ELSE slots[s]]
  BY DEF Decode, NewCells, Copied
<1>2. \A s \in SlotIds : /\ slots[s] \in Slot /\ RoundSlot(s, slots[s], "decode", at)
                         /\ Verifies(batch, s, slots[s])
  BY <1>1 DEF AmpleInv, AmpleSlots
<1>3. /\ Distinct(K)
      /\ \A s \in SlotIds : Held(K, s) = 0 .. slots[s].n_tokens - 1
  BY <1>1, AmpleCells
<1>4. /\ Chunk = Len(batch) /\ i = 0 /\ Len(batch) \in Nat /\ batch \in Seq(TokenT)
      /\ Len(batch) <= NBatch
  BY <1>1, WholeChunk DEF AmpleInv, AmpleBatch
<1>5. ASSUME NEW s \in Forked
      PROVE  s \in SlotIds /\ par(s) \in SlotIds /\ slots[par(s)].state = "DONE_PROMPT"
  <2>1. s \in SlotIds /\ slots[s].state = "WAIT_OTHER" /\ slots[par(s)].state = "DONE_PROMPT"
    BY DEF Forked, InState
  <2>2. par(s) \in SlotIds \cup {NoParent}
    BY <1>2, <2>1 DEF Slot
  <2>3. par(s) # NoParent
    BY <1>2, <2>1 DEF RoundSlot
  <2>4. QED BY <2>1, <2>2, <2>3
<1>6. from \in [Forked -> SlotIds] /\ Forked \in SUBSET SlotIds
  BY <1>5
<1> HIDE DEF K, from
<1>7. /\ Distinct(kv')
      /\ \A x \in SlotIds : Held(kv', x) = IF x \in Forked THEN Held(K, from[x]) ELSE Held(K, x)
  <2>1. PICK S : S = Forked
    OBVIOUS
  <2>2. S \in SUBSET SlotIds /\ from \in [S -> SlotIds] /\ Distinct(K) /\ kv' = SeqCopy(K, S, from)
    BY <1>1, <1>3, <1>6, <2>1
  <2>3. Distinct(SeqCopy(K, S, from))
    BY <2>2, SeqCopyDistinct
  <2>4. \A x \in SlotIds : Held(SeqCopy(K, S, from), x) =
                               IF x \in S THEN Held(K, from[x]) ELSE Held(K, x)
    BY <2>2, SeqCopyDistinct
  <2>5. QED BY <2>1, <2>2, <2>3, <2>4
<1>8. ASSUME NEW s \in SlotIds, Live(slots[s])
      PROVE  /\ slots[s].i_batch \in 0 .. Len(batch) - 1
             /\ batch[slots[s].i_batch + 1] = Token(s, slots[s].n_tokens - 1, TRUE)
  <2>1. PICK m \in Nat, k \in Int : m = slots[s].n_tokens /\ k = slots[s].i_batch
    BY <1>2, SlotFields
  <2>2. PICK b \in Int : Awaits(batch, 0, s, m, b, k)
    BY <1>1, <1>8, <2>1, WholeContinues
  <2>3. /\ k = b + m - 1 /\ 0 <= k /\ k < Len(batch) /\ batch[b + m] = Token(s, m - 1, TRUE)
    BY <2>2 DEF Awaits
  <2>4. k + 1 = b + m
    BY <2>3
  <2>5. slots[s].i_batch \in 0 .. Len(batch) - 1
    BY <1>4, <2>1, <2>3
  <2>6. batch[k + 1] = Token(s, m - 1, TRUE)
    BY <2>3, <2>4
  <2>7. QED BY <2>1, <2>5, <2>6
<1>9. ASSUME NEW s \in SlotIds
      PROVE  /\ slots'[s] \in Slot /\ RoundSlot(s, slots'[s], "sample", at)
             /\ Verifies(batch, s, slots'[s])
             /\ Held(kv', s) = 0 .. slots'[s].n_tokens - 1
             /\ Live(slots'[s]) => Sees(batch, s, slots'[s])
  <2>1. CASE s \in Forked
    <3>1. PICK p \in SlotIds : p = par(s) /\ slots[p].state = "DONE_PROMPT" /\ from[s] = p
      BY <1>5, <2>1 DEF from
    <3>2. slots'[s] = Copied(slots[p], p)
      BY <1>1, <2>1, <3>1
    <3>3. slots[p] \in Slot /\ slots[p].dft = <<>> /\ Live(slots[p])
      BY <1>2, <3>1 DEF RoundSlot, Live
    <3>4. /\ slots'[s] \in Slot /\ slots'[s].state = "DONE_PROMPT" /\ slots'[s].parent = p
          /\ slots'[s].n_tokens = slots[p].n_tokens /\ slots'[s].dft = <<>>
          /\ slots'[s].i_batch = slots[p].i_batch
      BY <3>1, <3>2, <3>3, CopiedSlot
    <3>5. DOMAIN slots'[s].dft = {}
      BY <3>4
    <3>6. Sees(batch, s, slots'[s])
      <4>1. /\ slots[p].i_batch \in 0 .. Len(batch) - 1
            /\ batch[slots[p].i_batch + 1] = Token(p, slots[p].n_tokens - 1, TRUE)
        BY <1>8, <3>3
      <4>2. QED BY <3>4, <4>1 DEF Sees, Token
    <3>7. Held(kv', s) = 0 .. slots'[s].n_tokens - 1
      BY <1>3, <1>7, <2>1, <3>1, <3>4
    <3>8. QED BY <3>4, <3>5, <3>6, <3>7 DEF RoundSlot, Verifies
  <2>2. CASE s \notin Forked
    <3>1. slots'[s] = slots[s]
      BY <1>1, <2>2
    <3>2. Live(slots[s]) => Sees(batch, s, slots[s])
      <4>1. ASSUME Live(slots[s]) PROVE Sees(batch, s, slots[s])
        <5>1. /\ slots[s].i_batch \in 0 .. Len(batch) - 1
              /\ batch[slots[s].i_batch + 1] = Token(s, slots[s].n_tokens - 1, TRUE)
          BY <1>8, <4>1
        <5>2. QED BY <5>1 DEF Sees, Token
      <4>2. QED BY <4>1
    <3>3. Held(kv', s) = 0 .. slots[s].n_tokens - 1
      BY <1>3, <1>7, <2>2
    <3>4. RoundSlot(s, slots[s], "sample", at)
      BY <1>2 DEF RoundSlot
    <3>5. QED BY <1>2, <3>1, <3>2, <3>3, <3>4
  <2>3. QED BY <2>1, <2>2
<1>10. AmpleSlots'
  <2>1. slots' \in [SlotIds -> Slot]
    BY <1>1, <1>9
  <2>2. QED BY <1>1, <1>9, <2>1 DEF AmpleSlots
<1>11. AmpleBatch'
  BY <1>1, <1>4, SizeAssumption DEF AmpleInv, AmpleBatch, InCache, Filling
<1>12. AmpleAgree'
  BY <1>1, <1>9 DEF AmpleAgree, InCache, Filling
<1>13. QED BY <1>7, <1>10, <1>11, <1>12 DEF AmpleInv, Distinct

LEMMA AmpleDecodeFails ==
    ASSUME AmpleInv, DecodeFails
    PROVE  AmpleInv'
<1> DEFINE gone(s) == [Released(slots[s]) EXCEPT !.n_tokens = 0]
<1>1. /\ phase = "decode" /\ phase' = "idle" /\ UNCHANGED <<batch, n_batch, i, view, at>>
      /\ slots' = [s \in SlotIds |-> IF s \in Busy THEN gone(s) ELSE slots[s]]
      /\ kv' = SeqsClear(kv, Busy)
  BY DEF DecodeFails
<1>2. \A s \in SlotIds : slots[s] \in Slot /\ RoundSlot(s, slots[s], "decode", at)
  BY <1>1 DEF AmpleInv, AmpleSlots
<1>3. \A s \in SlotIds : /\ gone(s) \in Slot /\ gone(s).state = "IDLE" /\ gone(s).dft = <<>>
                         /\ gone(s).n_tokens = 0
  BY <1>2, ReleasedAny
<1> HIDE DEF gone
<1>4. /\ Distinct(kv')
      /\ \A s \in SlotIds : Held(kv', s) = IF s \in Busy THEN {} ELSE Held(kv, s)
  <2>1. Busy \in SUBSET SlotIds /\ Distinct(kv)
    BY DEF Busy, AmpleInv
  <2>2. QED BY <1>1, <2>1, SeqsClearDistinct
<1>5. ASSUME NEW s \in SlotIds
      PROVE  /\ slots'[s] \in Slot /\ RoundSlot(s, slots'[s], "idle", at)
             /\ Verifies(batch, s, slots'[s])
             /\ Held(kv', s) = 0 .. slots'[s].n_tokens - 1
  <2>1. CASE s \in Busy
    <3>1. slots'[s] = gone(s)
      BY <1>1, <2>1
    <3>2. Held(kv', s) = 0 .. gone(s).n_tokens - 1
      <4>1. Held(kv', s) = {} /\ gone(s).n_tokens = 0
        BY <1>3, <1>4, <2>1
      <4>2. 0 .. 0 - 1 = {}
        OBVIOUS
      <4>3. QED BY <4>1, <4>2
    <3>3. QED BY <1>3, <3>1, <3>2, IdleRound
  <2>2. CASE s \notin Busy
    <3>1. slots'[s] = slots[s] /\ slots[s].state = "IDLE"
      BY <1>1, <2>2 DEF Busy
    <3>2. slots[s].dft = <<>>
      BY <1>2, <3>1 DEF RoundSlot
    <3>3. Held(kv, s) = 0 .. slots[s].n_tokens - 1
      BY <1>1, <3>1, WholeContinues
    <3>4. QED BY <1>2, <1>4, <2>2, <3>1, <3>2, <3>3, IdleRound
  <2>3. QED BY <2>1, <2>2
<1>6. AmpleSlots'
  <2>1. slots' \in [SlotIds -> Slot]
    BY <1>1, <1>5
  <2>2. QED BY <1>1, <1>5, <2>1 DEF AmpleSlots
<1>7. AmpleBatch'
  BY <1>1 DEF AmpleInv, AmpleBatch, InCache, Filling
<1>8. AmpleAgree'
  BY <1>1, <1>5 DEF AmpleAgree, InCache, Filling
<1>9. QED BY <1>4, <1>6, <1>7, <1>8 DEF AmpleInv, Distinct

\* What Sample makes of a slot that goes on.
LEMMA GoesOn ==
    ASSUME NEW slot \in Slot
    PROVE  LET r == [slot EXCEPT !.state = "GENERATING", !.i_batch = -1] IN
           /\ r \in Slot /\ r.state = "GENERATING" /\ r.parent = slot.parent
           /\ r.dft = slot.dft /\ r.n_tokens = slot.n_tokens /\ r.i_batch = -1
<1>1. -1 \in -1 .. Capacity - 1 /\ "GENERATING" \in States
  BY CapacityHoldsSlots, SizeAssumption DEF States
<1>2. [slot EXCEPT !.state = "GENERATING", !.i_batch = -1] \in Slot
  BY <1>1, SlotUpdates
<1>3. QED BY <1>2, SlotAfter

LEMMA AmpleSample ==
    ASSUME AmpleInv, Sample
    PROVE  AmpleInv'
<1> DEFINE off(s)  == [Released(slots[s]) EXCEPT !.i_batch = -1]
           next(s) == [slots[s] EXCEPT !.state = "GENERATING", !.i_batch = -1]
<1>1. PICK stop \in SUBSET ToSample :
          /\ \A s \in ToSample \ stop : ~ContextFull(slots[s].n_tokens)
          /\ slots' = [s \in SlotIds |-> IF s \in stop THEN off(s)
                                         ELSE IF s \in ToSample THEN next(s) ELSE slots[s]]
          /\ kv' = SeqsClear(kv, ChildrenIn(stop))
  BY DEF Sample
<1>2. /\ phase = "sample" /\ phase' = "spec" /\ at' = 0 /\ UNCHANGED <<batch, n_batch, i, view>>
  BY DEF Sample
<1>3. \A s \in SlotIds : /\ slots[s] \in Slot /\ RoundSlot(s, slots[s], "sample", at)
                         /\ Verifies(batch, s, slots[s])
                         /\ Held(kv, s) = 0 .. slots[s].n_tokens - 1
                         /\ Live(slots[s]) => Sees(batch, s, slots[s])
  BY <1>2 DEF AmpleInv, AmpleSlots, AmpleAgree, InCache
<1>4. i = 0 /\ view = Len(batch) /\ Len(batch) \in Nat
  BY <1>2 DEF AmpleInv, AmpleBatch
<1>5. ASSUME NEW s \in SlotIds
      PROVE  /\ off(s) \in Slot /\ off(s).state = "IDLE" /\ off(s).dft = <<>>
             /\ off(s).n_tokens = IF slots[s].parent = NoParent THEN slots[s].n_tokens ELSE 0
             /\ next(s) \in Slot /\ next(s).state = "GENERATING" /\ next(s).dft = slots[s].dft
             /\ next(s).n_tokens = slots[s].n_tokens /\ next(s).i_batch = -1
  <2>1. slots[s] \in Slot
    BY <1>3
  <2>2. QED BY <2>1, ReleasedAny, GoesOn
<1> HIDE DEF off, next
<1>6. stop \subseteq SlotIds /\ ChildrenIn(stop) \in SUBSET SlotIds
  BY DEF ToSample, InState, ChildrenIn
<1>7. /\ Distinct(kv')
      /\ \A s \in SlotIds : Held(kv', s) = IF s \in ChildrenIn(stop) THEN {} ELSE Held(kv, s)
  <2>1. Distinct(kv)
    BY DEF AmpleInv
  <2>2. QED BY <1>1, <1>6, <2>1, SeqsClearDistinct
<1>8. ASSUME NEW s \in SlotIds
      PROVE  s \in ToSample <=> Live(slots[s])
  <2>1. ASSUME Live(slots[s]) PROVE s \in ToSample
    <3>1. slots[s].i_batch \in 0 .. Len(batch) - 1
      BY <1>3, <2>1 DEF Sees
    <3>2. slots[s].dft = <<>>
      BY <1>3, <2>1 DEF RoundSlot, Live
    <3>3. slots[s].state \in {"DONE_PROMPT", "GENERATING"}
      BY <2>1 DEF Live
    <3>4. slots[s].i_batch \in i .. i + view - 1
      BY <1>4, <3>1
    <3>5. QED BY <3>2, <3>3, <3>4 DEF ToSample, InState
  <2>2. ASSUME s \in ToSample PROVE Live(slots[s])
    <3>1. slots[s].i_batch \in 0 .. Len(batch) - 1 /\ slots[s].state \in {"DONE_PROMPT", "GENERATING"}
      BY <1>4, <2>2 DEF ToSample, InState
    <3>2. QED BY <1>4, <3>1 DEF Live
  <2>3. QED BY <2>1, <2>2
<1>9. ASSUME NEW s \in SlotIds
      PROVE  /\ slots'[s] \in Slot /\ RoundSlot(s, slots'[s], "spec", 0)
             /\ Verifies(batch, s, slots'[s])
             /\ Held(kv', s) = 0 .. slots'[s].n_tokens - 1
  <2>1. CASE s \in stop
    <3>1. slots'[s] = off(s)
      BY <1>1, <2>1
    <3>2. Held(kv', s) = 0 .. off(s).n_tokens - 1
      <4>1. s \in ChildrenIn(stop) <=> slots[s].parent # NoParent
        BY <2>1 DEF ChildrenIn
      <4>2. CASE slots[s].parent = NoParent
        <5>1. Held(kv', s) = Held(kv, s) /\ off(s).n_tokens = slots[s].n_tokens
          BY <1>5, <1>7, <4>1, <4>2
        <5>2. QED BY <1>3, <5>1
      <4>3. CASE slots[s].parent # NoParent
        <5>1. Held(kv', s) = {} /\ off(s).n_tokens = 0
          BY <1>5, <1>7, <4>1, <4>3
        <5>2. 0 .. 0 - 1 = {}
          OBVIOUS
        <5>3. QED BY <5>1, <5>2
      <4>4. QED BY <4>2, <4>3
    <3>3. QED BY <1>5, <3>1, <3>2, IdleRound
  <2>2. CASE s \notin stop /\ s \in ToSample
    <3>1. slots'[s] = next(s)
      BY <1>1, <2>2
    <3>2. slots[s].dft = <<>> /\ slots[s].n_tokens \in Nat
      BY <1>3, <2>2, SlotFields DEF ToSample
    <3>3. slots[s].n_tokens + 1 < NCtx
      <4>1. ~(slots[s].n_tokens + 1 >= NCtx)
        BY <1>1, <2>2 DEF ContextFull
      <4>2. QED BY <3>2, <4>1, SizeAssumption
    <3>4. RoundSlot(s, next(s), "spec", 0)
      BY <1>5, <3>2, <3>3 DEF RoundSlot, Live
    <3>5. Verifies(batch, s, next(s))
      <4>1. DOMAIN next(s).dft = {}
        BY <1>5, <3>2
      <4>2. QED BY <4>1 DEF Verifies
    <3>6. Held(kv', s) = 0 .. next(s).n_tokens - 1
      BY <1>3, <1>5, <1>7, <2>2 DEF ChildrenIn
    <3>7. QED BY <1>5, <3>1, <3>4, <3>5, <3>6
  <2>3. CASE s \notin ToSample
    <3>1. slots'[s] = slots[s] /\ ~Live(slots[s])
      BY <1>1, <1>8, <2>3
    <3>2. RoundSlot(s, slots[s], "spec", 0)
      BY <1>3, <3>1, SizeAssumption DEF RoundSlot, SlotIds
    <3>3. Held(kv', s) = 0 .. slots[s].n_tokens - 1
      BY <1>1, <1>3, <1>7, <2>3 DEF ChildrenIn
    <3>4. QED BY <1>3, <3>1, <3>2, <3>3
  <2>4. QED BY <2>1, <2>2, <2>3
<1>10. AmpleSlots'
  <2>1. slots' \in [SlotIds -> Slot]
    BY <1>1, <1>9
  <2>2. QED BY <1>2, <1>9, <2>1 DEF AmpleSlots
<1>11. AmpleBatch'
  BY <1>2, SizeAssumption DEF AmpleInv, AmpleBatch, InCache, Filling
<1>12. AmpleAgree'
  BY <1>2, <1>9 DEF AmpleAgree, InCache, Filling
<1>13. QED BY <1>7, <1>10, <1>11, <1>12 DEF AmpleInv, Distinct

\* The cells of the chunk always fit: llama_decode never asks for room.
LEMMA AmpleMakeRoom ==
    ASSUME Ample, AmpleInv, MakeRoom
    PROVE  FALSE
<1>1. phase = "decode" /\ ~HasRoom
  BY DEF MakeRoom
<1>2. QED BY <1>1, AmpleCells DEF HasRoom

\* The drafts of a slot and the sampled token before them are the last tokens
\* of the slot, and the logits of all of them are there.
LEMMA DraftsInBatch ==
    ASSUME AmpleInv, phase = "spec", NEW s \in Drafting
    PROVE  /\ Len(slots[s].dft) \in Nat /\ Len(slots[s].dft) > 0
           /\ slots[s].n_tokens \in 0 .. NCtx /\ Len(slots[s].dft) <= slots[s].n_tokens
           /\ \A k \in 1 .. Len(slots[s].dft) : HasLogits(slots[s].dft[k])
<1>1. s \in SlotIds /\ slots[s].dft # <<>>
  BY DEF Drafting, Generating, InState
<1>2. /\ slots[s] \in Slot /\ Verifies(batch, s, slots[s])
      /\ i = 0 /\ view = Len(batch) /\ batch \in Seq(TokenT) /\ Len(batch) \in Nat
  BY <1>1 DEF AmpleInv, AmpleSlots, AmpleBatch
<1>3. slots[s].n_tokens \in 0 .. NCtx /\ NCtx \in Nat /\ Capacity \in Nat
  BY <1>2, SlotFields, CapacityHoldsSlots, SizeAssumption
<1>4. PICK f, T : f = slots[s].dft /\ T = 0 .. Capacity - 1 /\ f \in Seq(T)
  BY <1>2 DEF Slot
<1>5. Len(f) \in Nat /\ DOMAIN f = 1 .. Len(f) /\ \A k \in 1 .. Len(f) : f[k] \in T
  <2>1. f \in Seq(T)
    BY <1>4
  <2>2. QED BY <2>1
<1>6. Len(f) > 0
  <2>1. f # <<>>
    BY <1>1, <1>4
  <2>2. QED BY <1>4, <2>1
<1>7. PICK l \in Nat, m \in 0 .. NCtx : l = Len(f) /\ m = slots[s].n_tokens
  BY <1>3, <1>5
<1>8. ASSUME NEW k \in 1 .. Len(f)
      PROVE  /\ f[k] \in Nat /\ f[k] < Len(batch)
             /\ batch[f[k] + 1] = Token(s, m - l + k - 1, TRUE)
  <2>1. f[k] \in Nat
    BY <1>3, <1>4, <1>5
  <2>2. QED BY <1>2, <1>4, <1>5, <1>7, <2>1 DEF Verifies
<1>9. l <= m
  <2>1. 1 \in 1 .. Len(f)
    BY <1>5, <1>6
  <2>2. PICK q \in Nat : q = f[1] /\ q < Len(batch)
    BY <1>8, <2>1
  <2>3. batch[f[1] + 1] \in TokenT
    <3>1. q + 1 \in 1 .. Len(batch)
      BY <1>2, <2>2
    <3>2. batch[q + 1] \in TokenT
      BY <1>2, <3>1
    <3>3. QED BY <2>2, <3>2
  <2>4. Token(s, m - l + 1 - 1, TRUE) \in TokenT
    BY <1>8, <2>1, <2>3
  <2>5. m - l + 1 - 1 \in 0 .. NCtx
    BY <2>4 DEF Token, TokenT
  <2>6. QED BY <1>3, <2>5
<1>10. ASSUME NEW k \in 1 .. Len(f) PROVE HasLogits(f[k])
  <2>1. PICK q \in Nat : q = f[k] /\ q < Len(batch)
    BY <1>8
  <2>2. 0 + q + 1 = q + 1
    OBVIOUS
  <2>3. batch[q + 1] = Token(s, m - l + k - 1, TRUE)
    BY <1>8, <2>1
  <2>4. batch[0 + q + 1].out
    BY <2>2, <2>3 DEF Token
  <2>5. QED BY <1>2, <2>1, <2>4 DEF HasLogits
<1>11. QED BY <1>3, <1>4, <1>5, <1>6, <1>7, <1>9, <1>10

LEMMA AmpleSpeculate ==
    ASSUME AmpleInv, NEW s \in SlotIds, Speculate(s)
    PROVE  AmpleInv'
<1>1. /\ phase = "spec" /\ s \in Drafting /\ s >= at /\ at' = s + 1
      /\ \A x \in Drafting : x >= at => s <= x
      /\ UNCHANGED <<batch, n_batch, i, view>>
  BY DEF Speculate, OnSlot
<1>2. \A x \in SlotIds : /\ slots[x] \in Slot /\ RoundSlot(x, slots[x], "spec", at)
                         /\ Verifies(batch, x, slots[x])
                         /\ Held(kv, x) = 0 .. slots[x].n_tokens - 1
  BY <1>1 DEF AmpleInv, AmpleSlots, AmpleAgree, InCache
<1>3. /\ slots[s].state = "GENERATING" /\ slots[s].dft # <<>> /\ slots[s].i_batch = -1
  BY <1>1, <1>2 DEF RoundSlot, Drafting
<1>4. PICK l \in Nat, m \in 0 .. NCtx :
          /\ l = Len(slots[s].dft) /\ m = slots[s].n_tokens /\ l > 0 /\ l <= m
          /\ \A k \in 1 .. l : HasLogits(slots[s].dft[k])
  BY <1>1, DraftsInBatch
<1>5. PICK a \in 0 .. l - 1 :
          LET n == Accepted(s, a) IN
          IF \E k \in 1 .. a + 1 : ~HasLogits(slots[s].dft[k])
          THEN phase' = "nologits" /\ UNCHANGED <<slots, kv>>
          ELSE /\ \E stop \in BOOLEAN :
                      /\ ContextFull(n) => stop
                      /\ LET slot == [slots[s] EXCEPT !.n_tokens = n, !.dft = <<>>]
                         IN  /\ slots' = [slots EXCEPT
                                             ![s] = IF stop THEN Released(slot) ELSE slot]
                             /\ kv' = IF stop /\ slot.parent # NoParent
                                      THEN SeqsClear(kv, {s})
                                      ELSE SeqRm(kv, s, n)
               /\ UNCHANGED phase
  BY <1>4 DEF Speculate
<1>6. \A k \in 1 .. a + 1 : HasLogits(slots[s].dft[k])
  <2>1. 1 .. a + 1 \subseteq 1 .. l
    BY <1>4
  <2>2. QED BY <1>4, <2>1
<1>7. PICK n : n = Accepted(s, a) /\ n = m - (l - 1) + a
  BY <1>4 DEF Accepted
<1>8. n \in 0 .. NCtx /\ n <= m /\ NCtx \in Nat
  <2>1. n = m - (l - 1) + a /\ l > 0 /\ l <= m /\ NCtx \in Nat
    BY <1>4, <1>7, SizeAssumption
  <2>2. QED BY <2>1
<1> DEFINE slot == WithDrafts(slots[s], n, <<>>)
<1>9. /\ slot \in Slot /\ slot.state = "GENERATING" /\ slot.parent = slots[s].parent
      /\ slot.n_tokens = n /\ slot.i_batch = -1 /\ slot.dft = <<>>
  <2>1. <<>> \in Drafts
    BY DEF Drafts
  <2>2. QED BY <1>2, <1>3, <1>8, <2>1, WithDraftsSlot
<1>10. PICK stop \in BOOLEAN :
           /\ phase' = phase
           /\ ContextFull(n) => stop
           /\ slots' = [slots EXCEPT ![s] = IF stop THEN Released(slot) ELSE slot]
           /\ kv' = IF stop /\ slot.parent # NoParent THEN SeqsClear(kv, {s}) ELSE SeqRm(kv, s, n)
  BY <1>5, <1>6, <1>7 DEF WithDrafts
<1> HIDE DEF slot
<1>11. Distinct(kv) /\ slots \in [SlotIds -> Slot] /\ n \in Int /\ {s} \in SUBSET SlotIds
  BY <1>8 DEF AmpleInv, AmpleSlots
<1>12. /\ slots'[s] \in Slot /\ RoundSlot(s, slots'[s], "spec", s + 1)
       /\ slots'[s].dft = <<>>
       /\ slots'[s].n_tokens = IF stop /\ slot.parent # NoParent THEN 0 ELSE n
  <2>1. CASE stop
    <3>1. slots'[s] = Released(slot)
      BY <1>10, <1>11, <2>1
    <3>2. /\ Released(slot) \in Slot /\ Released(slot).state = "IDLE" /\ Released(slot).dft = <<>>
          /\ Released(slot).n_tokens = IF slot.parent = NoParent THEN slot.n_tokens ELSE 0
      BY <1>9, ReleasedAny
    <3>3. QED BY <1>9, <2>1, <3>1, <3>2, IdleRound
  <2>2. CASE ~stop
    <3>1. slots'[s] = slot
      BY <1>10, <1>11, <2>2
    <3>2. n + 1 < NCtx
      BY <1>8, <1>10, <2>2 DEF ContextFull
    <3>3. RoundSlot(s, slot, "spec", s + 1)
      BY <1>9, <3>2 DEF RoundSlot, Live
    <3>4. QED BY <1>9, <2>2, <3>1, <3>3
  <2>3. QED BY <2>1, <2>2
<1>13. /\ Distinct(kv')
       /\ Held(kv', s) = 0 .. slots'[s].n_tokens - 1
       /\ \A x \in SlotIds \ {s} : Held(kv', x) = Held(kv, x)
  <2>1. CASE stop /\ slot.parent # NoParent
    <3>1. kv' = SeqsClear(kv, {s}) /\ slots'[s].n_tokens = 0
      BY <1>10, <1>12, <2>1
    <3>2. Distinct(SeqsClear(kv, {s}))
      BY <1>11, SeqsClearDistinct
    <3>3. \A x \in SlotIds : Held(SeqsClear(kv, {s}), x) = IF x \in {s} THEN {} ELSE Held(kv, x)
      BY <1>11, SeqsClearDistinct
    <3>4. 0 .. 0 - 1 = {}
      OBVIOUS
    <3>5. QED BY <3>1, <3>2, <3>3, <3>4
  <2>2. CASE ~(stop /\ slot.parent # NoParent)
    <3>1. kv' = SeqRm(kv, s, n) /\ slots'[s].n_tokens = n
      BY <1>10, <1>12, <2>2
    <3>2. Distinct(SeqRm(kv, s, n))
      BY <1>11, SeqRmDistinct
    <3>3. \A x \in SlotIds : Held(SeqRm(kv, s, n), x) =
                                 IF x = s THEN {p \in Held(kv, s) : p < n} ELSE Held(kv, x)
      BY <1>11, SeqRmDistinct
    <3>4. {p \in Held(kv, s) : p < n} = 0 .. n - 1
      <4>1. Held(kv, s) = 0 .. m - 1
        BY <1>2, <1>4
      <4>2. QED BY <1>8, <4>1
    <3>5. QED BY <3>1, <3>2, <3>3, <3>4
  <2>3. QED BY <2>1, <2>2
<1>14. ASSUME NEW x \in SlotIds
       PROVE  /\ slots'[x] \in Slot /\ RoundSlot(x, slots'[x], "spec", s + 1)
              /\ Verifies(batch, x, slots'[x])
              /\ Held(kv', x) = 0 .. slots'[x].n_tokens - 1
  <2>1. CASE x = s
    <3>1. DOMAIN slots'[s].dft = {}
      BY <1>12
    <3>2. QED BY <1>12, <1>13, <2>1, <3>1 DEF Verifies
  <2>2. CASE x # s
    <3>1. slots'[x] = slots[x]
      BY <1>10, <1>11, <2>2
    <3>2. RoundSlot(x, slots[x], "spec", s + 1)
      <4>1. x \in Int /\ s \in Int /\ at \in Int
        BY SizeAssumption DEF SlotIds, AmpleInv, AmpleBatch
      <4>2. ASSUME slots[x].dft # <<>> PROVE x >= s + 1
        <5>1. x \in Drafting /\ x >= at
          BY <1>2, <4>2 DEF RoundSlot, Drafting, Generating, InState
        <5>2. s <= x
          BY <1>1, <5>1
        <5>3. QED BY <2>2, <4>1, <5>2
      <4>3. QED BY <1>2, <4>2 DEF RoundSlot
    <3>3. QED BY <1>2, <1>13, <2>2, <3>1, <3>2
  <2>3. QED BY <2>1, <2>2
<1>15. AmpleSlots'
  <2>1. slots' \in [SlotIds -> Slot]
    BY <1>10, <1>11, <1>12
  <2>2. QED BY <1>1, <1>10, <1>14, <2>1 DEF AmpleSlots
<1>16. AmpleBatch'
  <2>1. s + 1 \in 0 .. NSlots
    BY SizeAssumption DEF SlotIds
  <2>2. QED BY <1>1, <1>10, <2>1 DEF AmpleInv, AmpleBatch, InCache, Filling
<1>17. AmpleAgree'
  BY <1>1, <1>10, <1>14 DEF AmpleAgree, InCache, Filling
<1>18. QED BY <1>13, <1>15, <1>16, <1>17 DEF AmpleInv, Distinct

LEMMA AmpleEndChunk ==
    ASSUME AmpleInv, EndChunk
    PROVE  AmpleInv'
<1>1. /\ phase = "spec" /\ UNCHANGED <<slots, batch, n_batch, view, kv, at>>
      /\ \A x \in Drafting : x < at
      /\ i' = i + view /\ phase' = IF i + view < Len(batch) THEN "decode" ELSE "idle"
  BY DEF EndChunk, Past, Advance
<1>2. i = 0 /\ view = Len(batch) /\ Len(batch) \in Nat /\ at \in Int
  BY <1>1 DEF AmpleInv, AmpleBatch
<1>3. phase' = "idle" /\ i' \in Nat
  BY <1>1, <1>2
<1>4. ASSUME NEW x \in SlotIds PROVE RoundSlot(x, slots[x], "idle", at)
  <2>1. RoundSlot(x, slots[x], "spec", at)
    BY <1>1 DEF AmpleInv, AmpleSlots
  <2>2. slots[x].dft = <<>>
    <3>1. ASSUME slots[x].dft # <<>> PROVE FALSE
      <4>1. x \in Drafting /\ x >= at /\ x \in Int
        BY <2>1, <3>1, SizeAssumption DEF RoundSlot, Drafting, Generating, InState, SlotIds
      <4>2. x < at
        BY <1>1, <4>1
      <4>3. QED BY <1>2, <4>1, <4>2
    <3>2. QED BY <3>1
  <2>3. QED BY <2>1, <2>2 DEF RoundSlot
<1>5. AmpleSlots'
  BY <1>1, <1>3, <1>4 DEF AmpleInv, AmpleSlots, Verifies
<1>6. AmpleBatch'
  BY <1>1, <1>3 DEF AmpleInv, AmpleBatch, InCache, Filling
<1>7. AmpleAgree'
  BY <1>1, <1>3 DEF AmpleInv, AmpleAgree, InCache, Filling
<1>8. QED BY <1>1, <1>5, <1>6, <1>7 DEF AmpleInv, Distinct

LEMMA AmpleSame ==
    ASSUME AmpleInv, UNCHANGED vars
    PROVE  AmpleInv'
<1>1. \A s \in SlotIds : Unadded(s)' = Unadded(s)
  BY DEF Unadded, vars
<1>2. AmpleSlots'
  BY DEF AmpleInv, AmpleSlots, vars
<1>3. AmpleBatch'
  BY DEF AmpleInv, AmpleBatch, InCache, Filling, vars
<1>4. AmpleAgree'
  BY <1>1 DEF AmpleInv, AmpleAgree, InCache, Filling, vars
<1>5. QED BY <1>2, <1>3, <1>4 DEF AmpleInv, Distinct, vars

LEMMA AmpleStep ==
    ASSUME Ample, AmpleInv, [Next]_vars
    PROVE  AmpleInv'
<1>1. CASE \E s \in SlotIds : Launch(s)
  BY <1>1, AmpleLaunch
<1>2. CASE \E s \in SlotIds : Cancel(s)
  BY <1>2, AmpleCancel
<1>3. CASE \E s \in SlotIds, c \in SlotIds : LaunchWithChild(s, c)
  BY <1>3, AmpleLaunchWithChild
<1>4. CASE BeginUpdate
  BY <1>4, AmpleBegin
<1>5. CASE \E s \in SlotIds : Gather(s) \/ GatherDraft(s) \/ Overflow(s)
  BY <1>5, AmpleGather, AmpleGatherDraft, AmpleOverflow
<1>6. CASE EndGather
  BY <1>6, AmpleEndGather
<1>7. CASE \E s \in SlotIds : AddPrompt(s)
  BY <1>7, AmpleAddPrompt
<1>8. CASE EndPrompts
  BY <1>8, AmpleEndPrompts
<1>9. CASE Decode
  BY <1>9, AmpleDecode
<1>10. CASE MakeRoom
  BY <1>10, AmpleMakeRoom
<1>11. CASE DecodeFails
  BY <1>11, AmpleDecodeFails
<1>12. CASE Sample
  BY <1>12, AmpleSample
<1>13. CASE \E s \in SlotIds : Speculate(s)
  BY <1>13, AmpleSpeculate
<1>14. CASE EndChunk
  BY <1>14, AmpleEndChunk
<1>15. CASE UNCHANGED vars
  BY <1>15, AmpleSame
<1>16. QED
  BY <1>1, <1>2, <1>3, <1>4, <1>5, <1>6, <1>7, <1>8, <1>9, <1>10, <1>11, <1>12, <1>13,
     <1>14, <1>15
  DEF Next, Request, UpdateSlots

-----------------------------------------------------------------------------
(* What holds with drafts and children.                                    *)

\* With a cell for every position of every slot, the logits a slot verifies its
\* drafts against are those of the sampled token and of its drafts, in order:
\* every other slot of the batch, a child's copy, a request cancelled or failed
\* in an earlier round and the rollback of rejected drafts leave them alone.
THEOREM DraftSeesItsLogitsWhenAmple ==
    ASSUME Ample
    PROVE  Spec => []DraftSeesItsLogits
<1>1. ASSUME AmpleInv, phase = "spec", NEW s \in Drafting, NEW k \in DOMAIN slots[s].dft
      PROVE  /\ slots[s].dft[k] < view
             /\ batch[i + slots[s].dft[k] + 1] =
                    Token(s, slots[s].n_tokens - Len(slots[s].dft) + k - 1, TRUE)
  <2>1. /\ s \in SlotIds /\ i = 0 /\ view = Len(batch) /\ slots[s] \in Slot
        /\ Verifies(batch, s, slots[s])
    BY <1>1 DEF AmpleInv, AmpleSlots, AmpleBatch, Drafting, Generating, InState
  <2>2. PICK q : q = slots[s].dft[k]
    OBVIOUS
  <2>3. /\ q < Len(batch)
        /\ batch[q + 1] = Token(s, slots[s].n_tokens - Len(slots[s].dft) + k - 1, TRUE)
    BY <1>1, <2>1, <2>2 DEF Verifies
  <2>4. q \in Int
    <3>1. PICK f, T : f = slots[s].dft /\ T = 0 .. Capacity - 1 /\ f \in Seq(T)
      BY <2>1 DEF Slot
    <3>2. k \in DOMAIN f
      BY <1>1, <3>1
    <3>3. f[k] \in T
      <4>1. f \in Seq(T)
        BY <3>1
      <4>2. QED BY <3>2, <4>1
    <3>4. QED BY <2>2, <3>1, <3>3, CapacityHoldsSlots
  <2>5. 0 + q + 1 = q + 1
    BY <2>4
  <2>6. QED BY <2>1, <2>2, <2>3, <2>5
<1>2. AmpleInv => DraftSeesItsLogits
  BY <1>1 DEF DraftSeesItsLogits
<1>3. AmpleInv /\ [Next]_vars => AmpleInv'
  BY AmpleStep
<1>4. QED BY <1>2, <1>3, AmpleInit, PTL DEF Spec

\* The same hypothesis, with drafts and with requests for several completions:
\* between two rounds the cache holds exactly the prompt each slot believes
\* cached, also after drafts were rejected, a parent's prompt was copied to its
\* children or a decode failed, and llama_decode is never given a batch whose
\* positions do not continue it.
THEOREM CacheMatchesSlotsWhenAmple ==
    ASSUME Ample
    PROVE  Spec => []CacheMatchesSlots
<1>1. AmpleInv => KvMatchesPrompt
  BY PositionsAreHeld DEF AmpleInv, AmpleAgree, InCache, KvMatchesPrompt
<1>2. AmpleInv => NoInvalidBatch
  BY AmpleConsistent DEF NoInvalidBatch
<1>3. AmpleInv => CacheMatchesSlots
  BY <1>1, <1>2, AmpleType DEF CacheMatchesSlots
<1>4. AmpleInv /\ [Next]_vars => AmpleInv'
  BY AmpleStep
<1>5. QED BY <1>3, <1>4, AmpleInit, PTL DEF Spec

\* "we should never get here, because generation should already stopped in
\* process_token()": with drafts and children too a generating slot has room
\* for its next token when its turn in the batch comes.
THEOREM ContextShiftNeverNeededWhenAmple ==
    ASSUME Ample
    PROVE  Spec => []ContextShiftNeverNeeded
<1>1. ASSUME AmpleInv, phase = "gather", NEW s \in Generating, s >= at
      PROVE  slots[s].n_tokens + 1 < NCtx
  <2>1. s \in SlotIds /\ slots[s].state = "GENERATING"
    BY DEF Generating, InState
  <2>2. RoundSlot(s, slots[s], "gather", at)
    BY <1>1, <2>1 DEF AmpleInv, AmpleSlots
  <2>3. QED BY <1>1, <2>1, <2>2 DEF RoundSlot
<1>2. AmpleInv => ContextShiftNeverNeeded
  BY <1>1 DEF ContextShiftNeverNeeded
<1>3. AmpleInv /\ [Next]_vars => AmpleInv'
  BY AmpleStep
<1>4. QED BY <1>2, <1>3, AmpleInit, PTL DEF Spec

\* A slot samples from the logits of the last token of its own prompt, or, if
\* it is a child that was just copied, of the same token of its parent, with all
\* its tokens in the cache.
THEOREM SampleSeesItsLogitsWhenAmple ==
    ASSUME Ample
    PROVE  Spec => []SampleSeesItsLogits
<1>1. ASSUME AmpleInv, phase = "sample", NEW s \in ToSample
      PROVE  /\ Sees(batch, s, slots[s])
             /\ Positions(s) = 0 .. slots[s].n_tokens - 1
  <2>1. /\ s \in SlotIds /\ slots[s].state \in {"DONE_PROMPT", "GENERATING"}
        /\ slots[s].i_batch \in i .. i + view - 1 /\ i = 0 /\ view \in Nat
    BY <1>1 DEF ToSample, InState, AmpleInv, AmpleBatch
  <2>2. slots[s].i_batch # -1
    BY <2>1
  <2>3. Live(slots[s])
    BY <2>1, <2>2 DEF Live
  <2>4. QED BY <1>1, <2>1, <2>3, PositionsAreHeld DEF AmpleInv, AmpleAgree, InCache
<1>2. AmpleInv => SampleSeesItsLogits
  BY <1>1 DEF Sees, SampleSeesItsLogits
<1>3. AmpleInv /\ [Next]_vars => AmpleInv'
  BY AmpleStep
<1>4. QED BY <1>2, <1>3, AmpleInit, PTL DEF Spec

\* common_sampler's GGML_ASSERT(logits != nullptr) does not fail: a batch that
\* is one chunk has the logits of every draft.
THEOREM LogitsNotNullWhenAmple ==
    ASSUME Ample
    PROVE  Spec => []LogitsNotNull
<1>1. AmpleInv => LogitsNotNull
  BY DEF AmpleInv, AmpleBatch, InCache, Filling, LogitsNotNull
<1>2. AmpleInv /\ [Next]_vars => AmpleInv'
  BY AmpleStep
<1>3. QED BY <1>1, <1>2, AmpleInit, PTL DEF Spec

\* A child is activated "when the main prompt is processed": it has all of the
\* parent's prompt in the cache.
THEOREM ChildStartsWithPromptWhenAmple ==
    ASSUME Ample
    PROVE  Spec => []ChildStartsWithPrompt
<1>1. AmpleInv => ChildStartsWithPrompt
  BY PositionsAreHeld DEF AmpleInv, AmpleAgree, InCache, InState, ChildStartsWithPrompt
<1>2. AmpleInv /\ [Next]_vars => AmpleInv'
  BY AmpleStep
<1>3. QED BY <1>1, <1>2, AmpleInit, PTL DEF Spec

-----------------------------------------------------------------------------
(* Why a round of update_slots ends, for all sizes, with drafts, children  *)
(* and failures: every step brings it forward.  That steps are taken is    *)
(* left to the fairness of FairSpec.                                       *)

Running == phase \in {"gather", "prompt", "decode", "sample", "spec"}

\* The next slot of the same loop; only the first two loops add tokens.
NextSlot ==
    /\ phase \in {"gather", "prompt", "spec"} /\ phase' = phase /\ i' = i
    /\ phase = "spec" => batch' = batch
    /\ at < at' /\ at' <= NSlots

\* The next loop for the same tokens.
NextPhase ==
    /\ <<phase, phase'>> \in {<<"gather", "prompt">>, <<"prompt", "decode">>,
                              <<"decode", "sample">>, <<"sample", "spec">>}
    /\ UNCHANGED <<batch, i>>

\* The same tokens once more, with one cached prompt less in the cache or, when
\* there is none, in a smaller chunk.
Retry ==
    /\ phase = "decode" /\ phase' = "decode" /\ UNCHANGED <<batch, i>>
    /\ \/ n_batch' = n_batch /\ \E s \in Purgeable : Purgeable' = Purgeable \ {s}
       \/ Purgeable = {} /\ Purgeable' = {} /\ 1 <= n_batch' /\ n_batch' < n_batch

\* The next tokens of the batch.
NextChunk ==
    phase = "spec" /\ phase' = "decode" /\ batch' = batch /\ i < i' /\ i' < Len(batch)

Ended == phase' \in {"idle", "overflow", "nologits"}

Descends == NextSlot \/ NextPhase \/ Retry \/ NextChunk \/ Ended

\* Slots with wide types, which hold whatever the cache does.
Loose == {r \in SlotOf(States, SlotIds \cup {NoParent}, Int, Int, Int, Seq(Int)) :
             r.state = "WAIT_OTHER" => r.parent # NoParent}

LooseSlots == slots \in [SlotIds -> Loose]

\* There is a chunk to decode, and a decoded chunk has tokens.
RoundInv ==
    /\ LooseSlots /\ \E S : batch \in Seq(S)
    /\ n_batch \in Nat /\ n_batch > 0 /\ i \in Nat /\ at \in 0 .. NSlots
    /\ phase \in {"gather", "prompt"} => i = 0
    /\ phase = "decode" => i < Len(batch)
    /\ phase \in {"sample", "spec"} => view \in Nat /\ view > 0

LEMMA LooseFields ==
    ASSUME NEW r \in Loose
    PROVE  /\ r.state \in States /\ r.parent \in SlotIds \cup {NoParent}
           /\ r.n_task \in Int /\ r.n_tokens \in Int
           /\ r.i_batch \in Int /\ r.dft \in Seq(Int)
           /\ r.state = "WAIT_OTHER" => r.parent # NoParent
BY DEF Loose, SlotOf

LEMMA LooseUpdates ==
    ASSUME NEW r \in Loose
    PROVE  /\ \A n \in Int : [r EXCEPT !.n_tokens = n] \in Loose
           /\ \A k \in Int : [r EXCEPT !.i_batch = k] \in Loose
           /\ \A p \in SlotIds : [r EXCEPT !.parent = p] \in Loose
           /\ \A k, n \in Int : [r EXCEPT !.i_batch = k, !.n_tokens = n] \in Loose
           /\ \A n \in Int, f \in Seq(Int) : [r EXCEPT !.n_tokens = n, !.dft = f] \in Loose
           /\ \A a \in States \ {"WAIT_OTHER"}, c \in Int :
                 [r EXCEPT !.state = a, !.n_task = c] \in Loose
           /\ \A a \in States \ {"WAIT_OTHER"}, k \in Int :
                 [r EXCEPT !.state = a, !.i_batch = k] \in Loose
           /\ \A a \in States \ {"WAIT_OTHER"}, n \in Int, k \in Int :
                 [r EXCEPT !.state = a, !.n_tokens = n, !.i_batch = k] \in Loose
           /\ \A c \in Int, p \in SlotIds : Waiting(r, c, p) \in Loose
<1> DEFINE A == States
           B == SlotIds \cup {NoParent}
           C == Int
           D == Int
           E == Int
           F == Seq(Int)
           W(x) == x.state = "WAIT_OTHER" => x.parent # NoParent
<1>1. Loose = {x \in SlotOf(A, B, C, D, E, F) : W(x)}
  BY DEF Loose
<1>2. "WAIT_OTHER" \in A /\ \A p \in SlotIds : p \in B /\ p # NoParent
  BY SizeAssumption DEF NoParent, SlotIds, States
<1>3. States = A /\ Int = C /\ Int = D /\ Int = E /\ Seq(Int) = F
  OBVIOUS
<1>4. ASSUME NEW n \in D, NEW k \in E, NEW f \in F
      PROVE  /\ [r EXCEPT !.n_tokens = n] \in Loose
             /\ [r EXCEPT !.i_batch = k] \in Loose
             /\ [r EXCEPT !.i_batch = k, !.n_tokens = n] \in Loose
             /\ [r EXCEPT !.n_tokens = n, !.dft = f] \in Loose
  <2> HIDE DEF A, B, C, D, E, F
  <2>1. QED BY <1>1 DEF SlotOf
<1>5. ASSUME NEW a \in A \ {"WAIT_OTHER"}, NEW c \in C, NEW n \in D, NEW k \in E
      PROVE  /\ [r EXCEPT !.state = a, !.n_task = c] \in Loose
             /\ [r EXCEPT !.state = a, !.i_batch = k] \in Loose
             /\ [r EXCEPT !.state = a, !.n_tokens = n, !.i_batch = k] \in Loose
  <2> HIDE DEF A, B, C, D, E, F
  <2>1. QED BY <1>1 DEF SlotOf
<1>6. ASSUME NEW p \in SlotIds, NEW c \in C
      PROVE  [r EXCEPT !.parent = p] \in Loose /\ Waiting(r, c, p) \in Loose
  <2> HIDE DEF A, B, C, D, E, F
  <2>1. QED BY <1>1, <1>2 DEF SlotOf, Waiting
<1>7. 0 \in D /\ 0 \in E /\ <<>> \in F
  OBVIOUS
<1> HIDE DEF A, B, C, D, E, F
<1>8. /\ \A n \in Int : [r EXCEPT !.n_tokens = n] \in Loose
      /\ \A k \in Int : [r EXCEPT !.i_batch = k] \in Loose
      /\ \A k, n \in Int : [r EXCEPT !.i_batch = k, !.n_tokens = n] \in Loose
      /\ \A n \in Int, f \in Seq(Int) : [r EXCEPT !.n_tokens = n, !.dft = f] \in Loose
  BY <1>3, <1>4, <1>7
<1>9. /\ \A a \in States \ {"WAIT_OTHER"}, c \in Int :
            [r EXCEPT !.state = a, !.n_task = c] \in Loose
      /\ \A a \in States \ {"WAIT_OTHER"}, k \in Int :
            [r EXCEPT !.state = a, !.i_batch = k] \in Loose
      /\ \A a \in States \ {"WAIT_OTHER"}, n \in Int, k \in Int :
            [r EXCEPT !.state = a, !.n_tokens = n, !.i_batch = k] \in Loose
  BY <1>3, <1>5, <1>7
<1>10. /\ \A p \in SlotIds : [r EXCEPT !.parent = p] \in Loose
       /\ \A c \in Int, p \in SlotIds : Waiting(r, c, p) \in Loose
  BY <1>3, <1>6, <1>7
<1>11. QED BY <1>8, <1>9, <1>10

LEMMA LooseReleased ==
    ASSUME NEW r \in Loose
    PROVE  /\ Released(r) \in Loose
           /\ [Released(r) EXCEPT !.n_tokens = 0] \in Loose
           /\ [Released(r) EXCEPT !.i_batch = -1] \in Loose
<1> DEFINE A == States
           B == SlotIds \cup {NoParent}
           C == Int
           D == Int
           E == Int
           F == Seq(Int)
           n == IF r.parent = NoParent THEN r.n_tokens ELSE 0
           q == [r EXCEPT !.state = "IDLE", !.n_task = 0, !.dft = <<>>,
                          !.n_tokens = n, !.parent = NoParent]
<1>1. Released(r) = q
  BY DEF Released
<1>2. Loose = {x \in SlotOf(A, B, C, D, E, F) : x.state = "WAIT_OTHER" => x.parent # NoParent}
  BY DEF Loose
<1>3. "IDLE" \in A /\ NoParent \in B /\ 0 \in C /\ <<>> \in F /\ n \in D
  BY LooseFields DEF States
<1> HIDE DEF A, B, C, D, E, F, n
<1>4. q \in SlotOf(A, B, C, D, E, F)
  BY <1>2, <1>3, SlotOfUpdates
<1>5. q.state = "IDLE"
  BY <1>2 DEF SlotOf
<1> HIDE DEF q
<1>6. q \in Loose
  BY <1>2, <1>4, <1>5
<1>7. \A m \in Int : [q EXCEPT !.n_tokens = m] \in Loose
  BY <1>6, LooseUpdates
<1>8. \A k \in Int : [q EXCEPT !.i_batch = k] \in Loose
  BY <1>6, LooseUpdates
<1>9. 0 \in Int /\ -1 \in Int
  OBVIOUS
<1>10. QED BY <1>1, <1>6, <1>7, <1>8, <1>9

LEMMA LooseLaunch ==
    ASSUME LooseSlots, NEW T
    PROVE  SlotsOnLaunch(T) \in [SlotIds -> Loose]
<1>1. ASSUME NEW x \in SlotIds
      PROVE  slots[x] \in Loose /\ [slots[x] EXCEPT !.n_tokens = 0] \in Loose
  <2>1. slots[x] \in Loose /\ 0 \in Int
    BY DEF LooseSlots
  <2>2. QED BY <2>1, LooseUpdates
<1>2. QED BY <1>1 DEF SlotsOnLaunch

LEMMA TailAppended ==
    ASSUME NEW S, NEW b \in Seq(S), NEW m \in Nat, NEW f, f = [k \in 1 .. m |-> f[k]]
    PROVE  \E T : b \o f \in Seq(T)
<1> DEFINE T == S \cup {f[k] : k \in 1 .. m}
<1>1. f \in [1 .. m -> T]
  OBVIOUS
<1>2. f \in Seq(T) /\ b \in Seq(T)
  BY <1>1
<1>3. b \o f \in Seq(T)
  BY <1>2
<1>4. QED BY <1>3

-----------------------------------------------------------------------------
(* Between two rounds. *)

LEMMA RoundBetween ==
    ASSUME RoundInv, phase = "idle", LooseSlots',
           UNCHANGED <<batch, n_batch, i, view, phase, at>>
    PROVE  RoundInv' /\ ~Running
<1>1. QED BY DEF RoundInv, Running

LEMMA RoundLaunch ==
    ASSUME RoundInv, NEW s \in SlotIds, Launch(s)
    PROVE  RoundInv' /\ ~Running
<1> DEFINE f == SlotsOnLaunch({s})
<1>1. PICK n \in 1 .. NCtx - 1 :
          slots' = [f EXCEPT ![s].state = "STARTED", ![s].n_task = n]
  BY DEF Launch
<1>2. phase = "idle" /\ UNCHANGED <<batch, n_batch, i, view, phase, at>>
  BY DEF Launch
<1>3. f \in [SlotIds -> Loose]
  BY LooseLaunch DEF RoundInv
<1> DEFINE r == [f[s] EXCEPT !.state = "STARTED", !.n_task = n]
<1> HIDE DEF f
<1>4. r \in Loose
  <2>1. f[s] \in Loose /\ "STARTED" \in States \ {"WAIT_OTHER"} /\ n \in Int
    BY <1>3, SizeAssumption DEF States
  <2>2. \A a \in States \ {"WAIT_OTHER"}, c \in Int :
            [f[s] EXCEPT !.state = a, !.n_task = c] \in Loose
    BY <2>1, LooseUpdates
  <2>3. QED BY <2>1, <2>2
<1>5. slots' = [f EXCEPT ![s] = r]
  BY <1>1, <1>3
<1> HIDE DEF r
<1>6. LooseSlots'
  BY <1>3, <1>4, <1>5 DEF LooseSlots
<1>7. QED BY <1>2, <1>6, RoundBetween

LEMMA RoundLaunchWithChild ==
    ASSUME RoundInv, NEW s \in SlotIds, NEW c \in SlotIds, LaunchWithChild(s, c)
    PROVE  RoundInv' /\ ~Running
<1> DEFINE f == SlotsOnLaunch({s, c})
<1>1. PICK n \in 1 .. NCtx - 1 :
          slots' = [f EXCEPT ![s].state = "STARTED", ![s].n_task = n,
                             ![c].state = "WAIT_OTHER", ![c].n_task = n, ![c].parent = s]
  BY DEF LaunchWithChild
<1>2. phase = "idle" /\ c # s /\ UNCHANGED <<batch, n_batch, i, view, phase, at>>
  BY DEF LaunchWithChild
<1>3. f \in [SlotIds -> Loose]
  BY LooseLaunch DEF RoundInv
<1> DEFINE r == [f[s] EXCEPT !.state = "STARTED", !.n_task = n]
           q == Waiting(f[c], n, s)
<1> HIDE DEF f
<1>4. f[s] \in Loose /\ f[c] \in Loose /\ "STARTED" \in States \ {"WAIT_OTHER"} /\ n \in Int
  BY <1>3, SizeAssumption DEF States
<1>5. r \in Loose
  <2>1. \A a \in States \ {"WAIT_OTHER"}, m \in Int :
            [f[s] EXCEPT !.state = a, !.n_task = m] \in Loose
    BY <1>4, LooseUpdates
  <2>2. QED BY <1>4, <2>1
<1>6. q \in Loose
  <2>1. \A m \in Int, p \in SlotIds : Waiting(f[c], m, p) \in Loose
    BY <1>4, LooseUpdates
  <2>2. QED BY <1>4, <2>1
<1>7. slots' = [[f EXCEPT ![s] = r] EXCEPT ![c] = q]
  BY <1>1, <1>2, <1>3 DEF Waiting
<1> HIDE DEF r, q
<1>8. LooseSlots'
  BY <1>3, <1>5, <1>6, <1>7 DEF LooseSlots
<1>9. QED BY <1>2, <1>8, RoundBetween

LEMMA RoundCancel ==
    ASSUME RoundInv, NEW s \in SlotIds, Cancel(s)
    PROVE  RoundInv' /\ ~Running
<1>1. PICK mine : slots' = [x \in SlotIds |-> IF x \in mine THEN Released(slots[x]) ELSE slots[x]]
  BY DEF Cancel
<1>2. phase = "idle" /\ UNCHANGED <<batch, n_batch, i, view, phase, at>>
  BY DEF Cancel
<1>3. ASSUME NEW x \in SlotIds
      PROVE  slots[x] \in Loose /\ Released(slots[x]) \in Loose
  <2>1. slots[x] \in Loose
    BY DEF RoundInv, LooseSlots
  <2>2. QED BY <2>1, LooseReleased
<1>4. LooseSlots'
  BY <1>1, <1>3 DEF LooseSlots
<1>5. QED BY <1>2, <1>4, RoundBetween

-----------------------------------------------------------------------------
(* Filling the batch. *)

LEMMA RoundBegin ==
    ASSUME RoundInv, BeginUpdate
    PROVE  RoundInv' /\ ~Running
<1>1. /\ phase = "idle" /\ phase' = "gather" /\ batch' = <<>> /\ at' = 0
      /\ n_batch' = NBatch /\ i' = 0 /\ slots' = slots
  BY DEF BeginUpdate
<1>2. LooseSlots' /\ batch' \in Seq({})
  BY <1>1 DEF RoundInv, LooseSlots
<1>3. QED BY <1>1, <1>2, SizeAssumption DEF RoundInv, Running

\* The slot at s is passed.
LEMMA RoundTurn ==
    ASSUME RoundInv, NEW s \in SlotIds, at <= s, phase \in {"gather", "prompt", "spec"},
           at' = s + 1 \/ at' = NSlots,
           LooseSlots', \E T : batch' \in Seq(T), phase = "spec" => batch' = batch,
           UNCHANGED <<n_batch, i, view, phase>>
    PROVE  RoundInv' /\ (Running => Descends)
<1>1. at \in Int /\ s \in Int /\ s < NSlots /\ NSlots \in Int /\ 0 <= s
  BY SizeAssumption DEF RoundInv, SlotIds
<1>2. at < at' /\ at' <= NSlots /\ at' \in 0 .. NSlots
  BY <1>1
<1>3. NextSlot
  BY <1>2 DEF NextSlot
<1>4. QED BY <1>2, <1>3 DEF RoundInv, Descends

LEMMA DraftMaxInt ==
    ASSUME RoundInv, NEW s \in SlotIds
    PROVE  DraftMax(s) \in Int
<1>1. PICK m \in Int : m = slots[s].n_tokens
  BY LooseFields DEF RoundInv, LooseSlots
<1>2. PICK c \in Int : c = NCtx - m - 2
  BY SizeAssumption
<1>3. Min({MaxDraft, NCtx - m - 2}) \in Int
  <2>1. MaxDraft \in Int
    BY SizeAssumption
  <2>2. Min({MaxDraft, c}) \in {MaxDraft, c}
    BY <2>1, MinOfTwo
  <2>3. QED BY <1>2, <2>1, <2>2
<1>4. QED BY <1>1, <1>3 DEF DraftMax

LEMMA SampledAppended ==
    ASSUME RoundInv, NEW s \in SlotIds, NEW d \in Nat
    PROVE  \E T : batch \o Sampled(s, d) \in Seq(T)
<1>1. PICK S : batch \in Seq(S)
  BY DEF RoundInv
<1> DEFINE f == Sampled(s, d)
<1>2. f = [k \in 1 .. d + 1 |-> f[k]] /\ d + 1 \in Nat
  BY DEF Sampled
<1> HIDE DEF f
<1>3. \E T : batch \o f \in Seq(T)
  BY <1>1, <1>2, TailAppended
<1>4. QED BY <1>3 DEF f

LEMMA RoundGather ==
    ASSUME RoundInv, NEW s \in SlotIds, Gather(s)
    PROVE  RoundInv' /\ (Running => Descends)
<1>1. /\ phase = "gather" /\ at <= s /\ at' = s + 1
      /\ batch' = batch \o Sampled(s, 0)
      /\ slots' = [slots EXCEPT ![s].i_batch = Len(batch), ![s].n_tokens = @ + 1]
      /\ UNCHANGED <<n_batch, i, view, phase>>
  BY DEF Gather, OnSlot
<1>2. slots[s] \in Loose /\ slots \in [SlotIds -> Loose]
  BY DEF RoundInv, LooseSlots
<1>3. PICK k, n \in Int : k = Len(batch) /\ n = slots[s].n_tokens + 1
  <2>1. PICK S : batch \in Seq(S)
    BY DEF RoundInv
  <2>2. Len(batch) \in Int
    BY <2>1
  <2>3. slots[s].n_tokens + 1 \in Int
    BY <1>2, LooseFields
  <2>4. QED BY <2>2, <2>3
<1>4. slots' = [slots EXCEPT ![s] = [slots[s] EXCEPT !.i_batch = k, !.n_tokens = n]]
  BY <1>1, <1>2, <1>3
<1>5. \A m, j \in Int : [slots[s] EXCEPT !.i_batch = m, !.n_tokens = j] \in Loose
  BY <1>2, LooseUpdates
<1> DEFINE r == [slots[s] EXCEPT !.i_batch = k, !.n_tokens = n]
<1>6. r \in Loose
  BY <1>5
<1> HIDE DEF r
<1>7. LooseSlots'
  BY <1>2, <1>4, <1>6 DEF LooseSlots, r
<1>8. \E T : batch' \in Seq(T)
  BY <1>1, SampledAppended, 0 \in Nat
<1>9. QED BY <1>1, <1>7, <1>8, RoundTurn

LEMMA RoundGatherDraft ==
    ASSUME RoundInv, NEW s \in SlotIds, GatherDraft(s)
    PROVE  RoundInv' /\ (Running => Descends)
<1>1. PICK d \in 0 .. DraftMax(s) :
          /\ batch' = batch \o Sampled(s, d)
          /\ slots' = [slots EXCEPT ![s].n_tokens = @ + 1 + d,
                                    ![s].dft = [k \in 1 .. d + 1 |-> Len(batch) + k - 1]]
  BY DEF GatherDraft
<1>2. phase = "gather" /\ at <= s /\ at' = s + 1 /\ UNCHANGED <<n_batch, i, view, phase>>
  BY DEF GatherDraft, OnSlot
<1>3. d \in Nat
  BY DraftMaxInt
<1>4. slots[s] \in Loose /\ slots \in [SlotIds -> Loose]
  BY DEF RoundInv, LooseSlots
<1>5. PICK n \in Int : n = slots[s].n_tokens + 1 + d
  BY <1>3, <1>4, LooseFields
<1>6. PICK f \in Seq(Int) : f = [k \in 1 .. d + 1 |-> Len(batch) + k - 1]
  <2>1. PICK S : batch \in Seq(S)
    BY DEF RoundInv
  <2>2. PICK l \in Int : l = Len(batch)
    BY <2>1
  <2>3. [k \in 1 .. d + 1 |-> l + k - 1] \in Seq(Int)
    BY <1>3
  <2>4. QED BY <2>2, <2>3
<1>7. slots' = [slots EXCEPT ![s] = [slots[s] EXCEPT !.n_tokens = n, !.dft = f]]
  BY <1>1, <1>4, <1>5, <1>6
<1>8. \A m \in Int, g \in Seq(Int) : [slots[s] EXCEPT !.n_tokens = m, !.dft = g] \in Loose
  BY <1>4, LooseUpdates
<1> DEFINE r == [slots[s] EXCEPT !.n_tokens = n, !.dft = f]
<1>9. r \in Loose
  BY <1>8
<1> HIDE DEF r
<1>10. LooseSlots'
  BY <1>4, <1>7, <1>9 DEF LooseSlots, r
<1>11. \E T : batch' \in Seq(T)
  BY <1>1, <1>3, SampledAppended
<1>12. QED BY <1>2, <1>10, <1>11, RoundTurn

LEMMA RoundOverflow ==
    ASSUME RoundInv, NEW s \in SlotIds, Overflow(s)
    PROVE  RoundInv' /\ (Running => Descends)
<1>1. phase' = "overflow" /\ UNCHANGED <<slots, batch, n_batch, i, view, at>>
  BY DEF Overflow
<1>2. QED BY <1>1 DEF RoundInv, LooseSlots, Descends, Ended

LEMMA RoundEndGather ==
    ASSUME RoundInv, EndGather
    PROVE  RoundInv' /\ (Running => Descends)
<1>1. /\ phase = "gather" /\ phase' = "prompt" /\ at' = 0
      /\ UNCHANGED <<slots, batch, n_batch, i, view>>
  BY DEF EndGather
<1>2. NextPhase
  BY <1>1 DEF NextPhase
<1>3. 0 \in 0 .. NSlots
  BY SizeAssumption
<1>4. QED BY <1>1, <1>2, <1>3 DEF RoundInv, LooseSlots, Descends

LEMMA RoundAddPrompt ==
    ASSUME RoundInv, NEW s \in SlotIds, AddPrompt(s)
    PROVE  RoundInv' /\ (Running => Descends)
<1>1. /\ phase = "prompt" /\ at <= s
      /\ at' = s + 1 \/ at' = NSlots
      /\ UNCHANGED <<n_batch, i, view, phase>>
  BY DEF AddPrompt, OnSlot
<1> DEFINE cur(p)  == Max({0, Min({slots[s].n_task - p, NBatch - Len(batch)})})
           done(p) == p + cur(p) = slots[s].n_task
           f(p)    == [k \in 1 .. cur(p) |-> Token(s, p + k - 1, done(p) /\ k = cur(p))]
<1>2. PICK p \in Cached(s) :
          /\ batch' = batch \o f(p)
          /\ slots' = [slots EXCEPT
                          ![s].state = IF done(p) THEN "DONE_PROMPT"
                                                  ELSE "PROCESSING_PROMPT",
                          ![s].n_tokens = p + cur(p),
                          ![s].i_batch = IF done(p) THEN Len(batch') - 1 ELSE @]
  BY DEF AddPrompt
<1>3. slots[s] \in Loose /\ slots \in [SlotIds -> Loose]
  BY DEF RoundInv, LooseSlots
<1>4. PICK S : batch \in Seq(S)
  BY DEF RoundInv
<1>5. p \in Int
  BY <1>3, LooseFields DEF Cached
<1>6. PICK m \in Nat : m = cur(p)
  <2>1. slots[s].n_task \in Int /\ Len(batch) \in Int /\ NBatch \in Int
    BY <1>3, <1>4, LooseFields, SizeAssumption
  <2>2. PICK a \in Int : a = slots[s].n_task - p
    BY <1>5, <2>1
  <2>3. PICK b \in Int : b = NBatch - Len(batch)
    BY <2>1
  <2>4. Min({a, b}) \in {a, b}
    BY MinOfTwo
  <2>5. PICK c \in Int : c = Min({a, b})
    BY <2>4
  <2>6. Max({0, c}) \in {0, c} /\ Max({0, c}) >= 0
    BY MaxOfTwo, 0 \in Int
  <2>7. Max({0, c}) \in Nat
    BY <2>6
  <2>8. QED BY <2>2, <2>3, <2>5, <2>7
<1> DEFINE g == f(p)
<1>7. g = [k \in 1 .. m |-> g[k]]
  BY <1>6
<1> HIDE DEF g
<1>8. \E T : batch' \in Seq(T)
  <2>1. \E T : batch \o g \in Seq(T)
    BY <1>4, <1>7, TailAppended
  <2>2. QED BY <1>2, <2>1 DEF g
<1> DEFINE a == IF done(p) THEN "DONE_PROMPT" ELSE "PROCESSING_PROMPT"
           n == p + cur(p)
           k == IF done(p) THEN Len(batch') - 1 ELSE slots[s].i_batch
           r == [slots[s] EXCEPT !.state = a, !.n_tokens = n, !.i_batch = k]
<1>9. slots' = [slots EXCEPT ![s] = r]
  BY <1>2, <1>3
<1>10. a \in States \ {"WAIT_OTHER"} /\ n \in Int
  BY <1>5, <1>6 DEF States
<1>11. k \in Int
  <2>1. PICK T : batch' \in Seq(T)
    BY <1>8
  <2>2. Len(batch') - 1 \in Int /\ slots[s].i_batch \in Int
    BY <1>3, <2>1, LooseFields
  <2>3. QED BY <2>2
<1>12. \A x \in States \ {"WAIT_OTHER"}, y \in Int, z \in Int :
          [slots[s] EXCEPT !.state = x, !.n_tokens = y, !.i_batch = z] \in Loose
  BY <1>3, LooseUpdates
<1> HIDE DEF a, n, k, cur, done, f
<1>13. r \in Loose
  BY <1>10, <1>11, <1>12
<1> HIDE DEF r
<1>14. LooseSlots'
  BY <1>3, <1>9, <1>13 DEF LooseSlots
<1>15. QED BY <1>1, <1>8, <1>14, RoundTurn

LEMMA RoundEndPrompts ==
    ASSUME RoundInv, EndPrompts
    PROVE  RoundInv' /\ (Running => Descends)
<1>1. /\ phase = "prompt" /\ phase' = IF batch = <<>> THEN "idle" ELSE "decode"
      /\ UNCHANGED <<slots, batch, n_batch, i, view, at>>
  BY DEF EndPrompts
<1>2. PICK S : batch \in Seq(S)
  BY DEF RoundInv
<1>3. CASE batch = <<>>
  BY <1>1, <1>3 DEF RoundInv, LooseSlots, Descends, Ended
<1>4. CASE batch # <<>>
  <2>1. i = 0 /\ 0 < Len(batch) /\ phase' = "decode"
    BY <1>1, <1>2, <1>4 DEF RoundInv
  <2>2. NextPhase
    BY <1>1, <2>1 DEF NextPhase
  <2>3. QED BY <1>1, <2>1, <2>2 DEF RoundInv, LooseSlots, Descends
<1>5. QED BY <1>3, <1>4

-----------------------------------------------------------------------------
(* Decoding and sampling. *)

LEMMA RoundDecode ==
    ASSUME RoundInv, Decode
    PROVE  RoundInv' /\ (Running => Descends)
<1> DEFINE par(s) == slots[s].parent
<1>1. /\ phase = "decode" /\ phase' = "sample" /\ view' = Chunk /\ n_batch' = NBatch
      /\ UNCHANGED <<batch, i, at>>
      /\ slots' = [s \in SlotIds |-> IF s \in Forked THEN Copied(slots[par(s)], par(s))
                                     ELSE slots[s]]
  BY DEF Decode, Copied
<1>2. ASSUME NEW s \in SlotIds
      PROVE  slots[s] \in Loose /\ (s \in Forked => Copied(slots[par(s)], par(s)) \in Loose)
  <2>1. slots[s] \in Loose
    BY DEF RoundInv, LooseSlots
  <2>2. SUFFICES ASSUME s \in Forked
                 PROVE  Copied(slots[par(s)], par(s)) \in Loose
    BY <2>1
  <2>3. par(s) \in SlotIds
    BY <2>1, <2>2, LooseFields DEF Forked, InState
  <2>4. slots[par(s)] \in Loose
    BY <2>3 DEF RoundInv, LooseSlots
  <2>5. \A p \in SlotIds : [slots[par(s)] EXCEPT !.parent = p] \in Loose
    BY <2>4, LooseUpdates
  <2>6. QED BY <2>3, <2>5 DEF Copied
<1>3. LooseSlots'
  BY <1>1, <1>2 DEF LooseSlots
<1>4. Chunk \in Nat /\ Chunk > 0
  <2>1. PICK S : batch \in Seq(S)
    BY DEF RoundInv
  <2>2. PICK l \in Int : l = Len(batch) - i /\ l > 0
    BY <1>1, <2>1 DEF RoundInv
  <2>3. n_batch \in Int /\ n_batch > 0
    BY DEF RoundInv
  <2>4. Min({n_batch, l}) \in {n_batch, l}
    BY <2>3, MinOfTwo
  <2>5. QED BY <2>2, <2>3, <2>4 DEF Chunk
<1>5. NextPhase
  BY <1>1 DEF NextPhase
<1>6. NBatch \in Nat /\ NBatch > 0
  BY SizeAssumption
<1> HIDE DEF par
<1>7. QED BY <1>1, <1>3, <1>4, <1>5, <1>6 DEF RoundInv, Descends

LEMMA LeastPurgeable ==
    ASSUME Purgeable # {}
    PROVE  Min(Purgeable) \in Purgeable
<1>1. Purgeable \in SUBSET Nat
  BY SizeAssumption DEF Purgeable, Idle, SlotIds
<1>2. \E x \in Purgeable : \A y \in Purgeable : x <= y
  BY <1>1, LeastNat
<1>3. QED BY <1>2 DEF Min

LEMMA RoundMakeRoom ==
    ASSUME RoundInv, MakeRoom
    PROVE  RoundInv' /\ (Running => Descends)
<1>1. /\ phase = "decode" /\ phase' = phase /\ n_batch > 1 /\ UNCHANGED <<batch, i, view, at>>
  BY DEF MakeRoom
<1>2. CASE Purgeable # {}
  <2> DEFINE m == Min(Purgeable)
             r == [slots[m] EXCEPT !.n_tokens = 0]
  <2>1. slots' = [slots EXCEPT ![m] = r] /\ n_batch' = n_batch
    BY <1>2 DEF MakeRoom
  <2>2. m \in Purgeable /\ m \in SlotIds
    BY <1>2, LeastPurgeable DEF Purgeable, Idle
  <2> HIDE DEF m
  <2>3. slots[m] \in Loose /\ slots \in [SlotIds -> Loose]
    BY <2>2 DEF RoundInv, LooseSlots
  <2>4. r \in Loose /\ r.n_tokens = 0 /\ r.state = slots[m].state
    <3>1. \A n \in Int : [slots[m] EXCEPT !.n_tokens = n] \in Loose
      BY <2>3, LooseUpdates
    <3>2. r.n_tokens = 0 /\ r.state = slots[m].state
      BY <2>3 DEF Loose, SlotOf
    <3>3. QED BY <3>1, <3>2
  <2> HIDE DEF r
  <2>5. LooseSlots'
    BY <2>1, <2>3, <2>4 DEF LooseSlots
  <2>6. \A x \in SlotIds : slots'[x] = IF x = m THEN r ELSE slots[x]
    BY <2>1, <2>3
  <2>7. Purgeable' = Purgeable \ {m}
    BY <2>2, <2>4, <2>6 DEF Purgeable, Idle, Busy
  <2>8. Retry
    BY <1>1, <2>1, <2>2, <2>7 DEF Retry
  <2>9. QED BY <1>1, <2>1, <2>5, <2>8 DEF RoundInv, Descends
<1>3. CASE Purgeable = {}
  <2>1. n_batch' = n_batch \div 2 /\ slots' = slots
    BY <1>3 DEF MakeRoom, Halved
  <2>2. Purgeable' = {}
    BY <1>3, <2>1 DEF Purgeable, Idle, Busy
  <2>3. n_batch' \in Nat /\ 1 <= n_batch' /\ n_batch' < n_batch
    BY <1>1, <2>1 DEF RoundInv
  <2>4. Retry
    BY <1>1, <1>3, <2>2, <2>3 DEF Retry
  <2>5. QED BY <1>1, <2>1, <2>3, <2>4 DEF RoundInv, LooseSlots, Descends
<1>4. QED BY <1>2, <1>3

LEMMA RoundDecodeFails ==
    ASSUME RoundInv, DecodeFails
    PROVE  RoundInv' /\ (Running => Descends)
<1>1. /\ phase' = "idle" /\ UNCHANGED <<batch, n_batch, i, view, at>>
      /\ slots' = [s \in SlotIds |-> IF s \in Busy
                                     THEN [Released(slots[s]) EXCEPT !.n_tokens = 0]
                                     ELSE slots[s]]
  BY DEF DecodeFails
<1>2. ASSUME NEW s \in SlotIds
      PROVE  slots[s] \in Loose /\ [Released(slots[s]) EXCEPT !.n_tokens = 0] \in Loose
  <2>1. slots[s] \in Loose
    BY DEF RoundInv, LooseSlots
  <2>2. QED BY <2>1, LooseReleased
<1>3. LooseSlots'
  BY <1>1, <1>2 DEF LooseSlots
<1>4. QED BY <1>1, <1>3 DEF RoundInv, Descends, Ended

LEMMA RoundSample ==
    ASSUME RoundInv, Sample
    PROVE  RoundInv' /\ (Running => Descends)
<1>1. /\ phase = "sample" /\ phase' = "spec" /\ at' = 0
      /\ UNCHANGED <<batch, n_batch, i, view>>
  BY DEF Sample
<1>2. PICK stop : slots' = [s \in SlotIds |->
                               IF s \in stop
                               THEN [Released(slots[s]) EXCEPT !.i_batch = -1]
                               ELSE IF s \in ToSample
                               THEN [slots[s] EXCEPT !.state = "GENERATING", !.i_batch = -1]
                               ELSE slots[s]]
  BY DEF Sample
<1>3. ASSUME NEW s \in SlotIds
      PROVE  /\ slots[s] \in Loose
             /\ [Released(slots[s]) EXCEPT !.i_batch = -1] \in Loose
             /\ [slots[s] EXCEPT !.state = "GENERATING", !.i_batch = -1] \in Loose
  <2>1. slots[s] \in Loose
    BY DEF RoundInv, LooseSlots
  <2>2. \A a \in States \ {"WAIT_OTHER"}, k \in Int :
            [slots[s] EXCEPT !.state = a, !.i_batch = k] \in Loose
    BY <2>1, LooseUpdates
  <2>3. "GENERATING" \in States \ {"WAIT_OTHER"} /\ -1 \in Int
    BY DEF States
  <2>4. QED BY <2>1, <2>2, <2>3, LooseReleased
<1>4. LooseSlots'
  BY <1>2, <1>3 DEF LooseSlots
<1>5. NextPhase /\ 0 \in 0 .. NSlots
  BY <1>1, SizeAssumption DEF NextPhase
<1>6. QED BY <1>1, <1>4, <1>5 DEF RoundInv, Descends

LEMMA RoundSpeculate ==
    ASSUME RoundInv, NEW s \in SlotIds, Speculate(s)
    PROVE  RoundInv' /\ (Running => Descends)
<1>1. phase = "spec" /\ at <= s /\ at' = s + 1 /\ UNCHANGED <<batch, n_batch, i, view>>
  BY DEF Speculate, OnSlot
<1>2. slots[s] \in Loose /\ slots \in [SlotIds -> Loose]
  BY DEF RoundInv, LooseSlots
<1>3. CASE phase' = "nologits" /\ UNCHANGED slots
  <2>1. at \in Int /\ s \in Int /\ 0 <= s /\ s < NSlots /\ NSlots \in Int
    BY SizeAssumption DEF RoundInv, SlotIds
  <2>2. at' \in 0 .. NSlots
    BY <1>1, <2>1
  <2>3. QED BY <1>1, <1>3, <2>2 DEF RoundInv, LooseSlots, Descends, Ended
<1>4. CASE /\ phase' = phase
           /\ \E a \in 0 .. Len(slots[s].dft) - 1, stop \in BOOLEAN :
                 LET slot == [slots[s] EXCEPT !.n_tokens = Accepted(s, a), !.dft = <<>>] IN
                 slots' = [slots EXCEPT ![s] = IF stop THEN Released(slot) ELSE slot]
  <2> DEFINE slot(n) == [slots[s] EXCEPT !.n_tokens = n, !.dft = <<>>]
  <2>1. PICK a \in 0 .. Len(slots[s].dft) - 1, stop \in BOOLEAN :
            slots' = [slots EXCEPT ![s] = IF stop THEN Released(slot(Accepted(s, a)))
                                                  ELSE slot(Accepted(s, a))]
    BY <1>4
  <2>2. PICK n \in Int : n = Accepted(s, a)
    <3>1. slots[s].n_tokens \in Int /\ slots[s].dft \in Seq(Int)
      BY <1>2, LooseFields
    <3>2. QED BY <3>1 DEF Accepted
  <2>3. slot(n) \in Loose
    <3>1. \A m \in Int, f \in Seq(Int) : [slots[s] EXCEPT !.n_tokens = m, !.dft = f] \in Loose
      BY <1>2, LooseUpdates
    <3>2. <<>> \in Seq(Int)
      OBVIOUS
    <3>3. QED BY <3>1, <3>2
  <2> HIDE DEF slot
  <2>4. Released(slot(n)) \in Loose
    BY <2>3, LooseReleased
  <2>5. LooseSlots'
    BY <1>2, <2>1, <2>2, <2>3, <2>4 DEF LooseSlots
  <2>6. \E T : batch' \in Seq(T)
    BY <1>1 DEF RoundInv
  <2>7. QED BY <1>1, <1>4, <2>5, <2>6, RoundTurn
<1>5. QED BY <1>3, <1>4 DEF Speculate

LEMMA RoundEndChunk ==
    ASSUME RoundInv, EndChunk
    PROVE  RoundInv' /\ (Running => Descends)
<1>1. /\ phase = "spec" /\ i' = i + view /\ UNCHANGED <<slots, batch, n_batch, view, at>>
      /\ phase' = IF i + view < Len(batch) THEN "decode" ELSE "idle"
  BY DEF EndChunk, Advance
<1>2. i' \in Nat /\ i < i'
  BY <1>1 DEF RoundInv
<1>3. CASE i + view < Len(batch)
  <2>1. NextChunk
    BY <1>1, <1>2, <1>3 DEF NextChunk
  <2>2. QED BY <1>1, <1>2, <1>3, <2>1 DEF RoundInv, LooseSlots, Descends
<1>4. CASE ~(i + view < Len(batch))
  BY <1>1, <1>2, <1>4 DEF RoundInv, LooseSlots, Descends, Ended
<1>5. QED BY <1>3, <1>4

-----------------------------------------------------------------------------
LEMMA RoundInit == Init => RoundInv
<1> SUFFICES ASSUME Init PROVE RoundInv
  OBVIOUS
<1> DEFINE r == [state |-> "IDLE", parent |-> NoParent, n_task |-> 0, n_tokens |-> 0,
                 i_batch |-> -1, dft |-> <<>>]
<1>1. slots = [s \in SlotIds |-> r]
  BY DEF Init
<1>2. "IDLE" \in States /\ <<>> \in Seq(Int) /\ 0 \in Int /\ -1 \in Int
  BY DEF States
<1>3. r \in Loose
  BY <1>2 DEF Loose, SlotOf
<1> HIDE DEF r
<1>4. LooseSlots
  BY <1>1, <1>3 DEF LooseSlots
<1>5. batch \in Seq({})
  BY DEF Init
<1>6. QED BY <1>4, <1>5, SizeAssumption DEF Init, RoundInv

LEMMA RoundSame ==
    ASSUME RoundInv, UNCHANGED vars
    PROVE  RoundInv'
BY DEF RoundInv, LooseSlots, vars

LEMMA RoundNext ==
    ASSUME RoundInv, Next
    PROVE  RoundInv' /\ (Running => Descends)
<1>1. ASSUME NEW s \in SlotIds,
             Launch(s) \/ Cancel(s) \/ \E c \in SlotIds : LaunchWithChild(s, c)
      PROVE  RoundInv' /\ ~Running
  BY <1>1, RoundLaunch, RoundCancel, RoundLaunchWithChild
<1>2. CASE BeginUpdate
  BY <1>2, RoundBegin
<1>3. CASE EndGather
  BY <1>3, RoundEndGather
<1>4. CASE EndPrompts
  BY <1>4, RoundEndPrompts
<1>5. CASE Decode
  BY <1>5, RoundDecode
<1>6. CASE MakeRoom
  BY <1>6, RoundMakeRoom
<1>7. CASE DecodeFails
  BY <1>7, RoundDecodeFails
<1>8. CASE Sample
  BY <1>8, RoundSample
<1>9. CASE EndChunk
  BY <1>9, RoundEndChunk
<1>10. ASSUME NEW s \in SlotIds,
              Gather(s) \/ GatherDraft(s) \/ Overflow(s) \/ AddPrompt(s) \/ Speculate(s)
       PROVE  RoundInv' /\ (Running => Descends)
  BY <1>10, RoundGather, RoundGatherDraft, RoundOverflow, RoundAddPrompt, RoundSpeculate
<1>11. QED
  BY <1>1, <1>2, <1>3, <1>4, <1>5, <1>6, <1>7, <1>8, <1>9, <1>10
  DEF Next, Request, UpdateSlots

\* No step of a round goes back: it comes to the next slot, the next loop or
\* the next tokens, it retries the same tokens with one cached prompt less or,
\* when none is left, with a smaller n_batch, or it ends the round.
THEOREM RoundDescends == Spec => [][Running => Descends]_vars
<1>1. RoundInv /\ [Next]_vars => RoundInv'
  BY RoundNext, RoundSame
<1>2. RoundInv /\ [Next]_vars => [Running => Descends]_vars
  BY RoundNext
<1>3. QED
  BY <1>1, <1>2, RoundInit, PTL DEF Spec
=============================================================================
