------------------------------ MODULE CacheProofs ------------------------------
(***************************************************************************)
(* Proofs about what is kept of prompts that were decoded.                 *)
(*                                                                         *)
(* Checkpoints: the memory a slot goes on from is that of its own tokens,  *)
(* and what its checkpoints were made of agrees with them.  The hypotheses *)
(* are those without which the properties fail (the README's section on    *)
(* disagreements): the events of Hazards do not occur, a prompt and its    *)
(* first chunk have at least two tokens, and the window has more than one  *)
(* position.                                                               *)
(*                                                                         *)
(* PromptCache: the memory of every prompt, in a slot or saved, is the one *)
(* computed from it, and the cache keeps to its limit and holds nothing    *)
(* twice.  These have no hypothesis but the assumptions on the constants.  *)
(*                                                                         *)
(* KvCells: the counters are those of the cells, without hypothesis;  the  *)
(* cells, the counters and the slots agree, a ubatch finds its place and   *)
(* nobody loses what it needs, in the set-ups of SoundSetups, which leaves *)
(* out what the README's section shows to go wrong.                        *)
(***************************************************************************)
EXTENDS Checkpoints, PromptCache, KvCells, QueueLemmas, TLAPS

Usual == Hazards = {} /\ MinChunk > 1 /\ Window > 1

LEMMA Sizes ==
    /\ Window \in Nat /\ MaxChecks \in Nat /\ Gap \in Nat /\ MinTokens \in Nat
    /\ MinChunk \in Nat /\ MaxTokens \in Nat
    /\ Window > 0 /\ MaxChecks > 0 /\ Gap > 0 /\ MinChunk > 0
    /\ Kinds \subseteq {"swa", "recurrent"}
  BY CheckpointsAssumption

-----------------------------------------------------------------------------
(* Numbers *)

LEMMA MaxOf ==
    ASSUME NEW a \in Int, NEW b \in Int
    PROVE  Max({a, b}) = IF a >= b THEN a ELSE b
<1>1. \E x \in {a, b} : \A y \in {a, b} : x >= y
  OBVIOUS
<1>2. Max({a, b}) \in {a, b} /\ \A y \in {a, b} : Max({a, b}) >= y
  BY <1>1 DEF Max
<1>3. QED BY <1>2

LEMMA MinOf ==
    ASSUME NEW a \in Int, NEW b \in Int
    PROVE  Min({a, b}) = IF a <= b THEN a ELSE b
<1>1. \E x \in {a, b} : \A y \in {a, b} : x <= y
  OBVIOUS
<1>2. Min({a, b}) \in {a, b} /\ \A y \in {a, b} : Min({a, b}) <= y
  BY <1>1 DEF Min
<1>3. QED BY <1>2

LEMMA MinOfThree ==
    ASSUME NEW a \in Int, NEW b \in Int, NEW c \in Int
    PROVE  LET m == Min({a, b, c})
           IN  m \in {a, b, c} /\ m <= a /\ m <= b /\ m <= c
<1>1. \E x \in {a, b, c} : \A y \in {a, b, c} : x <= y
  OBVIOUS
<1>2. Min({a, b, c}) \in {a, b, c} /\ \A y \in {a, b, c} : Min({a, b, c}) <= y
  BY <1>1 DEF Min
<1>3. QED BY <1>2

\* A nonempty set of naturals with a bound has a greatest element.
LEMMA MaxUpTo ==
    ASSUME NEW n \in Nat, NEW R, R \subseteq 0 .. n, R # {}
    PROVE  Max(R) \in R /\ \A y \in R : y <= Max(R)
<1> DEFINE Q == {n - x : x \in R}
<1>1. Q \subseteq Nat /\ Q # {}
  <2>1. \A x \in R : x \in 0 .. n /\ n - x \in Nat
    OBVIOUS
  <2>2. QED BY <2>1, Zenon
<1>2. PICK q \in Q : \A y \in Q : q <= y
  BY <1>1, LeastNat
<1>3. PICK x \in R : q = n - x
  BY <1>2
<1>4. \A y \in R : x >= y
  BY <1>2, <1>3
<1>5. Max(R) \in R /\ \A y \in R : Max(R) >= y
  BY <1>4 DEF Max
<1>6. QED BY <1>5

-----------------------------------------------------------------------------
(* Sequences *)

LEMMA TextsAre ==
    ASSUME NEW s
    PROVE  s \in Texts <=> s \in Seq(Token) /\ Len(s) <= MaxTokens
<1>1. ASSUME s \in Texts PROVE s \in Seq(Token) /\ Len(s) <= MaxTokens
  <2>1. PICK n \in 0 .. MaxTokens : s \in [1 .. n -> Token]
    BY <1>1 DEF Texts
  <2>2. n \in Nat /\ n <= MaxTokens
    BY Sizes
  <2>3. QED BY <2>1, <2>2, SeqDef
<1>2. ASSUME s \in Seq(Token), Len(s) <= MaxTokens PROVE s \in Texts
  <2>1. Len(s) \in 0 .. MaxTokens /\ s \in [1 .. Len(s) -> Token]
    BY <1>2, Sizes, LenProperties
  <2>2. QED BY <2>1 DEF Texts
<1>3. QED BY <1>1, <1>2

\* The first n elements of s and t are the same.
Same(s, t, n) == \A j \in 1 .. n : s[j] = t[j]

LEMMA FirstNIs ==
    ASSUME NEW S, NEW s \in Seq(S), NEW n \in 0 .. Len(s)
    PROVE  /\ FirstN(s, n) \in Seq(S) /\ Len(FirstN(s, n)) = n
           /\ \A j \in 1 .. n : FirstN(s, n)[j] = s[j]
<1>1. Len(s) \in Nat
  BY LenProperties
<1>2. /\ 1 \in 1 .. Len(s) + 1 /\ n \in 1 - 1 .. Len(s)
      /\ n \in Nat /\ n - 1 + 1 = n
  BY <1>1
<1>3. /\ SubSeq(s, 1, n) \in Seq(S)
      /\ Len(SubSeq(s, 1, n)) = n - 1 + 1
      /\ \A i \in 1 .. n - 1 + 1 : SubSeq(s, 1, n)[i] = s[1 + i - 1]
  BY <1>2, SubSeqProperties
<1>4. \A i \in 1 .. n : 1 + i - 1 = i
  BY <1>2
<1>5. QED BY <1>2, <1>3, <1>4 DEF FirstN

LEMMA FirstNSame ==
    ASSUME NEW S, NEW s \in Seq(S), NEW t \in Seq(S),
           NEW n \in 0 .. Len(s), n <= Len(t)
    PROVE  FirstN(s, n) = FirstN(t, n) <=> Same(s, t, n)
<1>1. n \in 0 .. Len(t)
  BY LenProperties
<1>2. /\ FirstN(s, n) \in Seq(S) /\ Len(FirstN(s, n)) = n
      /\ \A j \in 1 .. n : FirstN(s, n)[j] = s[j]
  BY FirstNIs
<1>3. /\ FirstN(t, n) \in Seq(S) /\ Len(FirstN(t, n)) = n
      /\ \A j \in 1 .. n : FirstN(t, n)[j] = t[j]
  BY <1>1, FirstNIs
<1>4. ASSUME Same(s, t, n) PROVE FirstN(s, n) = FirstN(t, n)
  <2>1. \A j \in 1 .. n : FirstN(s, n)[j] = FirstN(t, n)[j]
    BY <1>2, <1>3, <1>4 DEF Same
  <2>2. QED BY <1>2, <1>3, <2>1, SeqEqual
<1>5. QED BY <1>2, <1>3, <1>4 DEF Same

LEMMA CommonPrefixIs ==
    ASSUME NEW S, NEW s \in Seq(S), NEW t \in Seq(S)
    PROVE  LET n == CommonPrefix(s, t)
           IN  n \in 0 .. Len(s) /\ n <= Len(t) /\ Same(s, t, n)
<1> DEFINE m == Min({Len(s), Len(t)})
           R == {n \in 0 .. m : FirstN(s, n) = FirstN(t, n)}
<1>1. Len(s) \in Nat /\ Len(t) \in Nat
  BY LenProperties
<1>2. m \in Nat /\ m <= Len(s) /\ m <= Len(t)
  BY <1>1, MinOf
<1> HIDE DEF m
<1>3. 0 \in R
  <2>1. FirstN(s, 0) = FirstN(t, 0)
    BY <1>1, FirstNSame DEF Same
  <2>2. QED BY <1>2, <2>1
<1>4. Max(R) \in R
  BY <1>2, <1>3, MaxUpTo
<1>5. CommonPrefix(s, t) = Max(R)
  BY DEF CommonPrefix, m
<1> HIDE DEF R
<1>6. CommonPrefix(s, t) \in 0 .. m /\ FirstN(s, CommonPrefix(s, t)) = FirstN(t, CommonPrefix(s, t))
  BY <1>4, <1>5 DEF R
<1>7. CommonPrefix(s, t) \in 0 .. Len(s) /\ CommonPrefix(s, t) <= Len(t)
  BY <1>1, <1>2, <1>6
<1>8. QED BY <1>6, <1>7, FirstNSame

-----------------------------------------------------------------------------
(* The inductive invariant *)

CheckT == [n : 2 .. MaxTokens, text : Seq(Token), lo : 0 .. MaxTokens]

\* How far a slot may go back with a checkpoint.
Back(c) == IF kind = "swa" THEN c.n - 1 ELSE c.n

\* The oldest position of the window of the last of n tokens.
Low(n) == IF n > Window THEN n - Window ELSE 0

\* What the checkpoints were made of agrees with s as far as s goes.
Follows(s) ==
    \A i \in 1 .. Len(checks) : \A j \in 1 .. Back(checks[i]) :
        j <= Len(s) => checks[i].text[j] = s[j]

\* s has everything a slot may go back to.
Reaches(s) == \A i \in 1 .. Len(checks) : Back(checks[i]) <= Len(s)

\* Tokens of a slot that has just gone back with a checkpoint: the memory may
\* lack the window of the last one, and be a single token, which no new
\* checkpoint must record.
Thin(n, lo) == n = 1 \/ (kind = "swa" /\ lo > Low(n))

MemIs(text, lo) ==
    /\ text \in Seq(Token) /\ Len(text) <= MaxTokens /\ lo \in 0 .. MaxTokens
    /\ Len(text) = 0 => lo = 0
    /\ Len(text) > 0 => lo < Len(text)
    /\ kind = "recurrent" /\ Len(text) > 0 => lo = Len(text) - 1
    /\ kind = "swa" /\ lo > Low(Len(text)) => lo = Len(text) - Window + 1

MemOk ==
    /\ mem = [text |-> tokens, lo |-> mem.lo] /\ MemIs(tokens, mem.lo)
    /\ Thin(Len(tokens), mem.lo) =>
          /\ state = "started"
          /\ Len(checks) > 0 /\ Len(tokens) <= checks[Len(checks)].n

ChecksOk ==
    /\ checks \in Seq(CheckT) /\ Len(checks) <= MaxChecks
    /\ \A i \in 1 .. Len(checks) :
          /\ Len(checks[i].text) = checks[i].n
          /\ kind = "swa" => checks[i].lo <= Low(checks[i].n)
          /\ kind = "recurrent" => checks[i].lo = checks[i].n - 1
    /\ \A i, j \in 1 .. Len(checks) : i < j => checks[i].n + Gap < checks[j].n

TaskOk ==
    /\ task \in Seq(Token) /\ Len(task) <= MaxTokens
    /\ state \in {"started", "prompt"} =>
          /\ Len(tokens) < Len(task) /\ Same(tokens, task, Len(tokens))
          /\ Len(task) >= MinChunk
          /\ Follows(task) /\ Reaches(task)
    /\ state \in {"prompt", "generating"} => Len(tokens) > 0
    /\ state \in {"idle", "generating"} => Follows(tokens)
    /\ state = "generating" => Reaches(tokens)
    /\ state = "idle" /\ kind = "recurrent" /\ Len(tokens) > 0 => Reaches(tokens)

IInv ==
    /\ kind \in Kinds /\ state \in {"idle", "started", "prompt", "generating"}
    /\ MemOk /\ ChecksOk /\ TaskOk

LEMMA InvInit ==
    ASSUME Init, Usual
    PROVE  IInv
<1> USE Sizes
<1>1. <<>> \in Seq(Token) /\ Len(<<>>) = 0 /\ <<>> \in Seq(CheckT)
  OBVIOUS
<1>2. ChecksOk
  BY <1>1 DEF Init, ChecksOk
<1>3. MemOk
  <2>1. mem.lo = 0 /\ mem.text = <<>> /\ mem = [text |-> tokens, lo |-> mem.lo]
    BY DEF Init, Empty
  <2>2. QED BY <1>1, <2>1 DEF Init, MemOk, MemIs, Thin, Low
<1>4. TaskOk
  BY <1>1 DEF Init, TaskOk, Follows, Same
<1>5. QED BY <1>2, <1>3, <1>4 DEF IInv, Init

LEMMA CheckIs ==
    ASSUME ChecksOk, NEW i \in 1 .. Len(checks)
    PROVE  /\ checks[i] \in CheckT /\ checks[i].n \in 2 .. MaxTokens
           /\ checks[i].text \in Seq(Token) /\ checks[i].lo \in 0 .. MaxTokens
           /\ checks[i] = [n |-> checks[i].n, text |-> checks[i].text, lo |-> checks[i].lo]
           /\ Len(checks[i].text) = checks[i].n /\ PosMax(checks[i]) = checks[i].n - 1
           /\ kind = "swa" => checks[i].lo <= Low(checks[i].n)
           /\ kind = "recurrent" => checks[i].lo = checks[i].n - 1
<1>1. checks[i] \in CheckT
  BY ElementOfSeq DEF ChecksOk
<1>2. QED BY <1>1 DEF CheckT, ChecksOk, PosMax

\* How far a slot goes back, as the code computes it.
LEMMA BackIs ==
    ASSUME IInv, Usual, NEW i \in 1 .. Len(checks)
    PROVE  LET c == checks[i]
           IN  /\ (IF kind = "swa" THEN Max({c.lo + 1, PosMax(c)}) ELSE c.n) = Back(c)
               /\ Max({c.lo + 1, PosMax(c)}) = IF kind = "swa" THEN Back(c) ELSE c.n
               /\ Back(c) \in 1 .. c.n
<1> DEFINE c == checks[i]
<1>1. /\ c.n \in Nat /\ c.n >= 2 /\ c.lo \in Nat /\ PosMax(c) = c.n - 1
      /\ kind = "swa" => c.lo <= Low(c.n)
      /\ kind = "recurrent" => c.lo = c.n - 1
      /\ kind \in {"swa", "recurrent"}
  <2>1. ChecksOk /\ kind \in {"swa", "recurrent"}
    BY Sizes DEF IInv
  <2>2. /\ c.n \in 2 .. MaxTokens /\ c.lo \in 0 .. MaxTokens /\ PosMax(c) = c.n - 1
        /\ kind = "swa" => c.lo <= Low(c.n)
        /\ kind = "recurrent" => c.lo = c.n - 1
    BY <2>1, CheckIs
  <2> HIDE DEF c
  <2>3. QED BY <2>1, <2>2, Sizes
<1> HIDE DEF c
<1>2. Max({c.lo + 1, PosMax(c)}) = IF c.lo + 1 >= PosMax(c) THEN c.lo + 1 ELSE PosMax(c)
  BY <1>1, MaxOf
<1>3. kind = "swa" => c.lo + 1 <= c.n - 1
  BY <1>1, Sizes DEF Low, Usual
<1>4. QED BY <1>1, <1>2, <1>3 DEF Back, c

LEMMA InvSound ==
    ASSUME IInv, Usual
    PROVE  SlotMemoryIsSound
<1> USE Sizes
<1>1. /\ tokens \in Seq(Token) /\ Len(tokens) \in Nat /\ Len(tokens) <= MaxTokens
      /\ mem.text = tokens /\ mem.lo \in 0 .. MaxTokens
      /\ task \in Seq(Token) /\ Len(task) \in Nat /\ Len(task) <= MaxTokens
  BY LenProperties DEF IInv, MemOk, MemIs, TaskOk
<1>2. TypeOK
  <2>1. task \in Texts /\ tokens \in Texts /\ mem.text \in Texts
    BY <1>1, TextsAre
  <2>2. ASSUME NEW i \in DOMAIN checks
        PROVE checks[i].text \in Texts /\ checks[i].n \in 0 .. MaxTokens
    <3>1. i \in 1 .. Len(checks)
      BY LenProperties DEF IInv, ChecksOk
    <3>2. /\ checks[i].n \in 2 .. MaxTokens /\ checks[i].text \in Seq(Token)
          /\ Len(checks[i].text) = checks[i].n
      BY <3>1, CheckIs DEF IInv
    <3>3. checks[i].n \in 0 .. MaxTokens /\ Len(checks[i].text) <= MaxTokens
      BY <3>2
    <3>4. QED BY <3>2, <3>3, TextsAre
  <2>3. QED BY <1>1, <2>1, <2>2 DEF TypeOK, IInv, ChecksOk
<1>3. MemoryMatches
  BY <1>1 DEF MemoryMatches
<1>4. WindowPresent
  <2>1. SUFFICES ASSUME kind = "swa"
                 PROVE mem.lo <= Max({0, Len(mem.text) - Window + 1})
    BY DEF WindowPresent
  <2>2. /\ Len(tokens) = 0 => mem.lo = 0
        /\ mem.lo > Low(Len(tokens)) => mem.lo = Len(tokens) - Window + 1
    BY <2>1 DEF IInv, MemOk, MemIs
  <2> DEFINE x == Len(tokens) - Window + 1
  <2>3. x \in Int /\ (mem.lo <= 0 \/ mem.lo <= x)
    BY <1>1, <2>2 DEF Low
  <2> HIDE DEF x
  <2>4. Max({0, x}) = IF 0 >= x THEN 0 ELSE x
    BY <2>3, MaxOf
  <2>5. mem.lo <= Max({0, x})
    BY <1>1, <2>3, <2>4
  <2>6. QED BY <1>1, <2>5 DEF x
<1>5. OneTokenLeft
  <2>1. SUFFICES ASSUME state = "started" PROVE IsStrictPrefix(tokens, task)
    BY DEF OneTokenLeft
  <2>2. Len(tokens) < Len(task) /\ Same(tokens, task, Len(tokens))
    BY <2>1 DEF IInv, TaskOk
  <2>3. Len(tokens) \in 0 .. Len(tokens) /\ Len(tokens) <= Len(task)
    BY <1>1, <2>2
  <2>4. FirstN(tokens, Len(tokens)) = FirstN(task, Len(tokens))
    BY <1>1, <2>2, <2>3, FirstNSame
  <2>5. tokens # task
    BY <1>1, <2>2
  <2>6. QED BY <2>3, <2>4, <2>5 DEF IsStrictPrefix, IsPrefix, FirstN
<1>6. QED BY <1>2, <1>3, <1>4, <1>5 DEF SlotMemoryIsSound

\* In every state the checkpoints agree with the slot's tokens.
LEMMA FollowsTokens ==
    ASSUME IInv
    PROVE  Follows(tokens)
<1>1. ASSUME state \in {"started", "prompt"},
             NEW i \in 1 .. Len(checks), NEW j \in 1 .. Back(checks[i]), j <= Len(tokens)
      PROVE  checks[i].text[j] = tokens[j]
  <2>1. /\ Len(tokens) < Len(task) /\ Same(tokens, task, Len(tokens)) /\ Follows(task)
        /\ Len(tokens) \in Nat /\ Len(task) \in Nat
    BY <1>1, LenProperties DEF IInv, TaskOk, MemOk, MemIs
  <2>2. j \in 1 .. Len(tokens) /\ j <= Len(task)
    BY <1>1, <2>1
  <2>3. QED BY <1>1, <2>1, <2>2 DEF Same, Follows
<1>2. QED BY <1>1 DEF IInv, TaskOk, Follows

LEMMA InvAgree ==
    ASSUME IInv, Usual
    PROVE  CheckpointsAgree
<1>1. SUFFICES ASSUME NEW i \in DOMAIN checks PROVE Agrees(checks[i])
  BY DEF CheckpointsAgree
<1>2. i \in 1 .. Len(checks)
  BY LenProperties DEF IInv, ChecksOk
<1> DEFINE c == checks[i]
           m == Min({Len(tokens), Back(c)})
<1>3. /\ c.n \in 2 .. MaxTokens /\ c.text \in Seq(Token) /\ Len(c.text) = c.n
      /\ Back(c) \in 1 .. c.n
      /\ (IF kind = "swa" THEN Max({c.lo + 1, PosMax(c)}) ELSE c.n) = Back(c)
  BY <1>2, CheckIs, BackIs DEF IInv
<1>4. tokens \in Seq(Token) /\ Len(tokens) \in Nat
  BY LenProperties DEF IInv, MemOk, MemIs
<1>5. Follows(tokens)
  BY FollowsTokens
<1>6. \A j \in 1 .. Back(c) : j <= Len(tokens) => c.text[j] = tokens[j]
  BY <1>2, <1>5 DEF Follows
<1> HIDE DEF c
<1>7. m \in 0 .. Len(c.text) /\ m <= Len(tokens) /\ m <= Back(c)
  BY <1>3, <1>4, MinOf
<1> HIDE DEF m
<1>8. Same(c.text, tokens, m)
  BY <1>3, <1>4, <1>6, <1>7 DEF Same
<1>9. FirstN(c.text, m) = FirstN(tokens, m)
  BY <1>3, <1>4, <1>7, <1>8, FirstNSame
<1>10. QED BY <1>3, <1>9 DEF Agrees, c, m

-----------------------------------------------------------------------------
(* The steps that decode *)

LEMMA TokensTyped ==
    ASSUME IInv
    PROVE  /\ tokens \in Seq(Token) /\ Len(tokens) \in Nat /\ Len(tokens) <= MaxTokens
           /\ mem.text = tokens /\ mem.lo \in 0 .. MaxTokens
           /\ task \in Seq(Token) /\ Len(task) \in Nat /\ Len(task) <= MaxTokens
           /\ Len(checks) \in Nat /\ checks \in Seq(CheckT)
  BY LenProperties DEF IInv, MemOk, MemIs, TaskOk, ChecksOk

\* After a decode the memory is that of all the tokens, and the window is there
\* although its cells may have been reused.
LEMMA DecodedIs ==
    ASSUME IInv, NEW t \in Seq(Token), Len(t) > 0, Len(tokens) + Len(t) <= MaxTokens,
           NEW m \in Decoded(mem, t)
    PROVE  /\ m = [text |-> tokens \o t, lo |-> m.lo] /\ MemIs(tokens \o t, m.lo)
           /\ Len(tokens) + Len(t) > 1 => ~Thin(Len(tokens) + Len(t), m.lo)
<1> USE Sizes
<1> DEFINE k == Len(tokens)
           n == k + Len(t)
<1>1. /\ k \in Nat /\ Len(t) \in Nat /\ tokens \o t \in Seq(Token) /\ Len(tokens \o t) = n
      /\ mem.text = tokens /\ mem.lo \in 0 .. MaxTokens
  BY TokensTyped, LenProperties, ConcatProperties
<1>2. /\ k = 0 => mem.lo = 0
      /\ k > 0 => mem.lo < k
      /\ kind = "swa" /\ mem.lo > Low(k) => mem.lo = k - Window + 1
      /\ kind \in {"swa", "recurrent"}
  BY DEF IInv, MemOk, MemIs
<1>3. CASE kind = "recurrent"
  <2>1. m = [text |-> tokens \o t, lo |-> n - 1]
    BY <1>1, <1>3 DEF Decoded
  <2>2. m.lo = n - 1 /\ m = [text |-> tokens \o t, lo |-> m.lo]
    BY <2>1
  <2> HIDE DEF n
  <2>3. n \in Nat /\ n > 0 /\ n <= MaxTokens
    BY <1>1 DEF n
  <2>4. MemIs(tokens \o t, m.lo) /\ (n > 1 => ~Thin(n, m.lo))
    BY <1>1, <1>3, <2>2, <2>3 DEF MemIs, Thin
  <2>5. QED BY <2>2, <2>4 DEF n
<1>4. CASE kind = "swa"
  <2> DEFINE x == k - Window + 1
  <2>1. PICK lo \in mem.lo .. Max({mem.lo, x}) : m = [text |-> tokens \o t, lo |-> lo]
    BY <1>1, <1>4 DEF Decoded, Spare
  <2>2. m.lo = lo /\ m = [text |-> tokens \o t, lo |-> m.lo]
    BY <2>1
  <2>3. Max({mem.lo, x}) = IF mem.lo >= x THEN mem.lo ELSE x
    <3>1. x \in Int /\ mem.lo \in Int
      BY <1>1
    <3> HIDE DEF x
    <3>2. QED BY <3>1, MaxOf
  <2>4. lo \in Nat /\ (lo <= mem.lo \/ lo <= x)
    BY <1>1, <2>1, <2>3
  <2>5. lo <= Low(n) /\ lo < n /\ n > 0 /\ n <= MaxTokens /\ n \in Nat
    BY <1>1, <1>2, <1>4, <2>4 DEF Low
  <2> HIDE DEF n, x
  <2>6. MemIs(tokens \o t, lo) /\ (n > 1 => ~Thin(n, lo))
    BY <1>1, <1>4, <2>4, <2>5 DEF MemIs, Thin, Low
  <2>7. QED BY <2>2, <2>6 DEF n
<1>5. QED BY <1>2, <1>3, <1>4

LEMMA GenerateStep ==
    ASSUME IInv, Usual, NEW t \in Token, Generate(t)
    PROVE  IInv'
<1> USE Sizes
<1>1. /\ tokens \in Seq(Token) /\ Len(tokens) \in Nat /\ Len(tokens) < MaxTokens
      /\ state = "generating" /\ tokens' = Append(tokens, t)
      /\ <<t>> \in Seq(Token) /\ Len(<<t>>) = 1
      /\ UNCHANGED <<kind, state, task, checks>>
  BY TokensTyped DEF Generate
<1>2. Append(tokens, t) = tokens \o <<t>>
  BY <1>1, AppendIsConcat
<1>3. /\ tokens' \in Seq(Token) /\ Len(tokens') = Len(tokens) + 1
      /\ \A j \in 1 .. Len(tokens) : tokens'[j] = tokens[j]
  BY <1>1, AppendProperties
<1>4. Len(tokens) > 0
  BY <1>1 DEF IInv, TaskOk
<1>5. MemOk'
  <2>1. mem' \in Decoded(mem, <<t>>) /\ Len(<<t>>) > 0 /\ Len(tokens) + Len(<<t>>) <= MaxTokens
    BY <1>1 DEF Generate
  <2>a. /\ mem' = [text |-> tokens \o <<t>>, lo |-> mem'.lo] /\ MemIs(tokens \o <<t>>, mem'.lo)
        /\ Len(tokens) + Len(<<t>>) > 1 => ~Thin(Len(tokens) + Len(<<t>>), mem'.lo)
    BY <1>1, <2>1, DecodedIs
  <2>2. /\ mem' = [text |-> tokens \o <<t>>, lo |-> mem'.lo] /\ MemIs(tokens \o <<t>>, mem'.lo)
        /\ Len(tokens) + 1 > 1 => ~Thin(Len(tokens) + 1, mem'.lo)
    BY <1>1, <2>a
  <2>3. MemIs(tokens, mem.lo)' /\ ~Thin(Len(tokens), mem.lo)'
    BY <1>1, <1>2, <1>3, <1>4, <2>2 DEF MemIs, Thin
  <2>4. QED BY <1>1, <1>2, <2>2, <2>3 DEF MemOk
<1>6. ChecksOk'
  BY <1>1 DEF IInv, ChecksOk
<1>7. TaskOk'
  <2>1. Reaches(tokens) /\ Follows(tokens)
    BY <1>1 DEF IInv, TaskOk
  <2>2. ASSUME NEW i \in 1 .. Len(checks)
        PROVE  Back(checks[i]) <= Len(tokens) /\ Back(checks[i]) \in Nat
    <3>1. Back(checks[i]) \in 1 .. checks[i].n /\ checks[i].n \in 2 .. MaxTokens
      BY BackIs, CheckIs DEF IInv
    <3>2. QED BY <2>1, <3>1 DEF Reaches
  <2>3. Reaches(tokens)'
    BY <1>1, <1>3, <2>2 DEF Reaches, Back
  <2>4. Follows(tokens)'
    <3>1. ASSUME NEW i \in 1 .. Len(checks), NEW j \in 1 .. Back(checks[i])
          PROVE  checks[i].text[j] = tokens'[j]
      <4>1. j <= Len(tokens) /\ j \in 1 .. Len(tokens)
        BY <1>1, <2>2
      <4>2. QED BY <1>3, <2>1, <4>1 DEF Follows
    <3>2. QED BY <1>1, <3>1 DEF Follows, Back
  <2>5. QED BY <1>1, <2>3, <2>4 DEF IInv, TaskOk
<1>8. QED BY <1>1, <1>5, <1>6, <1>7 DEF IInv

LEMMA ReleaseStep ==
    ASSUME IInv, Usual, Release
    PROVE  IInv'
<1> USE Sizes
<1>1. /\ state \in {"generating", "prompt"} /\ (state = "prompt" => kind = "swa")
      /\ state' = "idle" /\ task' = <<>>
      /\ UNCHANGED <<kind, tokens, mem, checks>>
  BY DEF Release, Usual
<1>2. MemOk'
  BY <1>1 DEF IInv, MemOk, MemIs, Thin, Low
<1>3. ChecksOk'
  BY <1>1 DEF IInv, ChecksOk
<1>4. TaskOk'
  <2>1. Follows(tokens)
    BY FollowsTokens
  <2>2. state = "generating" => Reaches(tokens)
    BY DEF IInv, TaskOk
  <2>3. Follows(tokens)' /\ (state = "generating" => Reaches(tokens)')
    BY <1>1, <2>1, <2>2 DEF Follows, Reaches, Back
  <2>4. <<>> \in Seq(Token) /\ Len(<<>>) = 0
    OBVIOUS
  <2>5. kind = "recurrent" => state = "generating"
    BY <1>1
  <2>6. QED BY <1>1, <2>3, <2>4, <2>5 DEF TaskOk
<1>5. QED BY <1>1, <1>2, <1>3, <1>4 DEF IInv

LEMMA ClearStep ==
    ASSUME IInv, Usual, ClearPrompt
    PROVE  IInv'
<1> USE Sizes
<1>1. /\ state' = "idle" /\ task' = <<>> /\ tokens' = <<>> /\ mem' = Empty
      /\ UNCHANGED <<kind, checks>>
      /\ <<>> \in Seq(Token) /\ Len(<<>>) = 0
  BY DEF ClearPrompt
<1>2. MemOk'
  <2>1. mem'.lo = 0 /\ mem' = [text |-> <<>>, lo |-> mem'.lo]
    BY <1>1 DEF Empty
  <2>2. QED BY <1>1, <2>1 DEF MemOk, MemIs, Thin, Low
<1>3. ChecksOk'
  BY <1>1 DEF IInv, ChecksOk
<1>4. TaskOk'
  <2>1. Follows(tokens)'
    BY <1>1 DEF Follows
  <2>2. QED BY <1>1, <2>1 DEF TaskOk
<1>5. QED BY <1>1, <1>2, <1>3, <1>4 DEF IInv

\* A checkpoint is only made of tokens whose window is in the memory, and
\* which are more than one.
LEMMA WorthIs ==
    ASSUME IInv, Usual, Worth
    PROVE  /\ Len(tokens) >= 2 /\ ~Thin(Len(tokens), mem.lo)
           /\ Len(checks) > 0 => checks[Len(checks)].n + Gap < Len(tokens)
<1> USE Sizes
<1>1. Len(tokens) > 0
  <2>1. mem.text = tokens /\ Len(tokens) \in Nat /\ tokens \in Seq(Token)
    BY TokensTyped
  <2>2. tokens # <<>>
    BY <2>1 DEF Worth, PosMin
  <2>3. QED BY <2>1, <2>2, EmptySeq
<1>2. Len(checks) > 0 => Len(tokens) > checks[Len(checks)].n + Gap
  BY DEF Worth, Last
<1>3. ASSUME Thin(Len(tokens), mem.lo) PROVE FALSE
  <2>1. Len(checks) > 0 /\ Len(tokens) <= checks[Len(checks)].n
    BY <1>3 DEF IInv, MemOk
  <2>2. checks[Len(checks)].n \in 2 .. MaxTokens
    <3>1. Len(checks) \in 1 .. Len(checks)
      BY <2>1, TokensTyped
    <3>2. QED BY <3>1, CheckIs DEF IInv
  <2>3. QED BY <1>2, <2>1, <2>2, TokensTyped
<1>4. Len(tokens) # 1
  BY <1>3 DEF Thin
<1>5. Len(tokens) >= 2
  <2> DEFINE n == Len(tokens)
  <2>1. n \in Nat /\ n > 0 /\ n # 1
    BY <1>1, <1>4, TokensTyped
  <2> HIDE DEF n
  <2>2. n >= 2
    BY <2>1
  <2>3. QED BY <2>2 DEF n
<1>6. Len(checks) > 0 => checks[Len(checks)].n + Gap < Len(tokens)
  BY <1>2
<1>7. QED BY <1>3, <1>5, <1>6

\* Room is made by dropping the oldest checkpoints: what stays of them are the
\* last ones, d later than where they were.
LEMMA WithCheckpointIs ==
    ASSUME IInv, Usual, Worth
    PROVE  \E d \in Nat : \E m \in Nat :
             /\ m + 1 <= MaxChecks /\ m + d = Len(checks)
             /\ WithCheckpoint \in Seq(CheckT) /\ Len(WithCheckpoint) = m + 1
             /\ \A i \in 1 .. m : WithCheckpoint[i] = checks[i + d]
             /\ WithCheckpoint[m + 1] = [n |-> Len(tokens), text |-> tokens, lo |-> mem.lo]
<1> USE Sizes
<1> DEFINE new == [n |-> Len(tokens), text |-> tokens, lo |-> mem.lo]
           l == Len(checks)
           a == l - MaxChecks + 2
           kept == IF l >= MaxChecks THEN SubSeq(checks, a, l) ELSE checks
<1>1. /\ l \in Nat /\ checks \in Seq(CheckT) /\ l <= MaxChecks
      /\ \A i \in 1 .. l : checks[i] \in CheckT
  BY TokensTyped, ElementOfSeq DEF IInv, ChecksOk
<1>2. new \in CheckT
  BY TokensTyped, WorthIs DEF CheckT
<1>3. WithCheckpoint = Append(kept, new)
  BY TokensTyped DEF WithCheckpoint
<1> HIDE DEF new
<1>4. \E d \in Nat : \E m \in Nat :
         /\ m + 1 <= MaxChecks /\ m + d = l
         /\ kept \in Seq(CheckT) /\ Len(kept) = m
         /\ \A i \in 1 .. m : kept[i] = checks[i + d]
  <2>1. CASE l >= MaxChecks
    <3>1. /\ a \in Int /\ l \in Int /\ l = MaxChecks
          /\ a = 2 /\ \A i \in a .. l : checks[i] \in CheckT
      BY <1>1, <2>1
    <3>2. /\ SubSeq(checks, a, l) \in Seq(CheckT)
          /\ Len(SubSeq(checks, a, l)) = IF a <= l THEN l - a + 1 ELSE 0
          /\ \A i \in 1 .. l - a + 1 : SubSeq(checks, a, l)[i] = checks[a + i - 1]
      BY <3>1, SubSeqProperties
    <3>3. kept = SubSeq(checks, a, l)
      BY <2>1
    <3> HIDE DEF kept, a
    <3>4. /\ l - 1 \in Nat /\ l - 1 + 1 <= MaxChecks /\ l - 1 + 1 = l
          /\ Len(kept) = l - 1 /\ l - a + 1 = l - 1
      BY <1>1, <3>1, <3>2, <3>3
    <3>5. \A i \in 1 .. l - 1 : kept[i] = checks[i + 1]
      <4>1. \A i \in 1 .. l - 1 : a + i - 1 = i + 1
        BY <1>1, <3>1
      <4>2. QED BY <3>2, <3>3, <3>4, <4>1
    <3>6. QED BY <3>2, <3>3, <3>4, <3>5
  <2>2. CASE ~(l >= MaxChecks)
    <3>1. kept = checks
      BY <2>2
    <3> HIDE DEF kept
    <3>2. l + 1 <= MaxChecks /\ l + 0 = l /\ \A i \in 1 .. l : i + 0 = i
      BY <1>1, <2>2
    <3>3. QED BY <1>1, <3>1, <3>2
  <2>3. QED BY <2>1, <2>2
<1>5. PICK d \in Nat, m \in Nat :
         /\ m + 1 <= MaxChecks /\ m + d = l
         /\ kept \in Seq(CheckT) /\ Len(kept) = m
         /\ \A i \in 1 .. m : kept[i] = checks[i + d]
  BY <1>4
<1> HIDE DEF kept, l
<1>6. /\ Append(kept, new) \in Seq(CheckT) /\ Len(Append(kept, new)) = m + 1
      /\ \A i \in 1 .. m : Append(kept, new)[i] = kept[i]
      /\ Append(kept, new)[m + 1] = new
  BY <1>2, <1>5, AppendProperties
<1>7. QED BY <1>3, <1>5, <1>6 DEF l, new

LEMMA ChunkChecks ==
    ASSUME IInv, Usual, Worth, checks' = WithCheckpoint, kind' = kind
    PROVE  /\ ChecksOk'
           /\ \A i \in 1 .. Len(checks') :
                 \/ \E h \in 1 .. Len(checks) : checks'[i] = checks[h]
                 \/ checks'[i] = [n |-> Len(tokens), text |-> tokens, lo |-> mem.lo]
<1> USE Sizes
<1> DEFINE new == [n |-> Len(tokens), text |-> tokens, lo |-> mem.lo]
<1>1. PICK d \in Nat, m \in Nat :
             /\ m + 1 <= MaxChecks /\ m + d = Len(checks)
             /\ WithCheckpoint \in Seq(CheckT) /\ Len(WithCheckpoint) = m + 1
             /\ \A i \in 1 .. m : WithCheckpoint[i] = checks[i + d]
             /\ WithCheckpoint[m + 1] = new
  BY WithCheckpointIs
<1>2. /\ checks' \in Seq(CheckT) /\ Len(checks') = m + 1 /\ checks'[m + 1] = new
      /\ \A i \in 1 .. m : checks'[i] = checks[i + d] /\ i + d \in 1 .. Len(checks)
  BY <1>1
<1>3. \A i \in 1 .. m + 1 : i \in 1 .. m \/ i = m + 1
  OBVIOUS
<1>4. /\ Len(tokens) >= 2 /\ ~Thin(Len(tokens), mem.lo)
      /\ Len(checks) > 0 => checks[Len(checks)].n + Gap < Len(tokens)
      /\ Len(tokens) \in Nat /\ Len(checks) \in Nat
  BY WorthIs, TokensTyped
<1>5. new.n = Len(tokens) /\ new.text = tokens /\ new.lo = mem.lo
  OBVIOUS
<1> HIDE DEF new
<1>6. ASSUME NEW i \in 1 .. Len(checks')
      PROVE  /\ Len(checks'[i].text) = checks'[i].n
             /\ kind' = "swa" => checks'[i].lo <= Low(checks'[i].n)
             /\ kind' = "recurrent" => checks'[i].lo = checks'[i].n - 1
  <2>1. CASE i \in 1 .. m
    <3>1. checks'[i] = checks[i + d] /\ i + d \in 1 .. Len(checks)
      BY <1>2, <2>1
    <3>2. QED BY <3>1, CheckIs DEF IInv
  <2>2. CASE i = m + 1
    <3>1. kind = "recurrent" => mem.lo = Len(tokens) - 1
      BY <1>4 DEF IInv, MemOk, MemIs
    <3>2. kind = "swa" => mem.lo <= Low(Len(tokens))
      BY <1>4, TokensTyped DEF Thin, Low
    <3>3. QED BY <1>2, <1>5, <2>2, <3>1, <3>2
  <2>3. QED BY <1>2, <1>3, <2>1, <2>2
<1>7. ASSUME NEW i \in 1 .. Len(checks'), NEW j \in 1 .. Len(checks'), i < j
      PROVE  checks'[i].n + Gap < checks'[j].n
  <2>1. i \in 1 .. m /\ i + d \in 1 .. Len(checks) /\ checks'[i] = checks[i + d]
    BY <1>2, <1>3, <1>7
  <2>2. CASE j \in 1 .. m
    <3>1. j + d \in 1 .. Len(checks) /\ checks'[j] = checks[j + d] /\ i + d < j + d
      BY <1>2, <1>7, <2>2
    <3>2. QED BY <2>1, <3>1 DEF IInv, ChecksOk
  <2>3. CASE j = m + 1
    <3>1. Len(checks) \in 1 .. Len(checks) /\ Len(checks) > 0
      BY <1>4, <2>1
    <3>2. checks[i + d].n \in 2 .. MaxTokens /\ checks[Len(checks)].n \in 2 .. MaxTokens
      BY <2>1, <3>1, CheckIs DEF IInv
    <3>3. i + d = Len(checks) \/ checks[i + d].n + Gap < checks[Len(checks)].n
      <4>1. i + d = Len(checks) \/ i + d < Len(checks)
        BY <2>1, <1>4
      <4>2. QED BY <2>1, <3>1, <4>1 DEF IInv, ChecksOk
    <3>4. checks[i + d].n <= checks[Len(checks)].n
      BY <3>2, <3>3
    <3>5. checks'[i].n = checks[i + d].n /\ checks'[j].n = Len(tokens)
      BY <1>2, <1>5, <2>1, <2>3
    <3>6. checks[Len(checks)].n + Gap < Len(tokens)
      BY <1>4, <3>1
    <3>7. QED BY <1>4, <3>2, <3>4, <3>5, <3>6
  <2>4. QED BY <1>2, <1>3, <2>2, <2>3
<1>8. ChecksOk'
  <2>1. Len(checks') <= MaxChecks
    BY <1>1, <1>2
  <2>2. QED BY <1>2, <1>6, <1>7, <2>1 DEF ChecksOk
<1>9. ASSUME NEW i \in 1 .. Len(checks')
      PROVE  (\E h \in 1 .. Len(checks) : checks'[i] = checks[h]) \/ checks'[i] = new
  BY <1>2, <1>3
<1>10. QED BY <1>8, <1>9 DEF new

LEMMA ChunkStep ==
    ASSUME IInv, Usual, NEW k \in 1 .. MaxTokens, NEW mark \in BOOLEAN, Chunk(k, mark)
    PROVE  IInv'
<1> USE Sizes
<1> DEFINE n == Len(tokens) + k
           t == SubSeq(task, Len(tokens) + 1, n)
<1>1. /\ state \in {"started", "prompt"} /\ n <= Len(task)
      /\ Len(tokens) = 0 => n >= MinChunk
      /\ tokens' = tokens \o t /\ mem' \in Decoded(mem, t)
      /\ state' = IF n = Len(task) THEN "generating" ELSE "prompt"
      /\ kind' = kind /\ task' = task
      /\ checks' = checks \/ (Worth /\ checks' = WithCheckpoint)
  <2>1. Len(tokens) = 0 => tokens = <<>>
    BY TokensTyped, EmptySeq
  <2>2. QED BY <2>1 DEF Chunk
<1>2. /\ tokens \in Seq(Token) /\ Len(tokens) \in Nat
      /\ task \in Seq(Token) /\ Len(task) \in Nat /\ Len(task) <= MaxTokens
      /\ Len(task) >= MinChunk /\ Same(tokens, task, Len(tokens))
      /\ Follows(task) /\ Reaches(task)
  BY <1>1, TokensTyped DEF IInv, TaskOk
<1>3. t \in Seq(Token) /\ Len(t) = k /\ \A i \in 1 .. k : t[i] = task[Len(tokens) + i]
  <2>1. \A i \in Len(tokens) + 1 .. n : task[i] \in Token
    BY <1>1, <1>2, ElementOfSeq
  <2>2. /\ t \in Seq(Token)
        /\ Len(t) = IF Len(tokens) + 1 <= n THEN n - (Len(tokens) + 1) + 1 ELSE 0
        /\ \A i \in 1 .. n - (Len(tokens) + 1) + 1 : t[i] = task[Len(tokens) + 1 + i - 1]
    BY <1>2, <2>1, SubSeqProperties
  <2>3. /\ n - (Len(tokens) + 1) + 1 = k /\ Len(tokens) + 1 <= n
        /\ \A i \in 1 .. k : Len(tokens) + 1 + i - 1 = Len(tokens) + i
    BY <1>2
  <2> HIDE DEF t
  <2>4. QED BY <2>2, <2>3
<1> HIDE DEF t
<1>4. /\ tokens' \in Seq(Token) /\ Len(tokens') = n
      /\ \A j \in 1 .. n :
            tokens'[j] = IF j <= Len(tokens) THEN tokens[j] ELSE t[j - Len(tokens)]
  BY <1>1, <1>2, <1>3, ConcatProperties
<1>5. Same(tokens', task, n)
  <2>1. ASSUME NEW j \in 1 .. n PROVE tokens'[j] = task[j]
    <3>1. CASE j <= Len(tokens)
      <4>1. j \in 1 .. Len(tokens)
        BY <3>1
      <4>2. QED BY <1>2, <1>4, <3>1, <4>1 DEF Same
    <3>2. CASE ~(j <= Len(tokens))
      <4>1. j - Len(tokens) \in 1 .. k /\ Len(tokens) + (j - Len(tokens)) = j
        BY <1>2, <3>2
      <4>2. QED BY <1>3, <1>4, <3>2, <4>1
    <3>3. QED BY <3>1, <3>2
  <2>2. QED BY <2>1 DEF Same
<1>6. n \in Nat /\ n > 1 /\ n <= MaxTokens /\ n > Len(tokens)
  BY <1>1, <1>2 DEF Usual
<1>7. MemOk'
  <2>1. Len(t) > 0 /\ Len(tokens) + Len(t) <= MaxTokens
    BY <1>2, <1>3, <1>6
  <2>2. /\ mem' = [text |-> tokens \o t, lo |-> mem'.lo] /\ MemIs(tokens \o t, mem'.lo)
        /\ Len(tokens) + Len(t) > 1 => ~Thin(Len(tokens) + Len(t), mem'.lo)
    BY <1>1, <1>3, <2>1, DecodedIs
  <2>3. ~Thin(n, mem'.lo)
    BY <1>3, <1>6, <2>2
  <2>4. MemIs(tokens, mem.lo)' /\ ~Thin(Len(tokens), mem.lo)'
    BY <1>1, <1>4, <2>2, <2>3 DEF MemIs, Thin
  <2>5. QED BY <1>1, <2>2, <2>4 DEF MemOk
<1>8. /\ ChecksOk'
      /\ \A i \in 1 .. Len(checks') :
            \/ \E h \in 1 .. Len(checks) : checks'[i] = checks[h]
            \/ checks'[i] = [n |-> Len(tokens), text |-> tokens, lo |-> mem.lo]
  <2>1. CASE checks' = checks
    BY <1>1, <2>1 DEF IInv, ChecksOk
  <2>2. CASE Worth /\ checks' = WithCheckpoint
    BY <1>1, <2>2, ChunkChecks
  <2>3. QED BY <1>1, <2>1, <2>2
<1>9. Len(tokens) < Len(task)
  BY <1>1, <1>2, <1>6
<1>10. ASSUME NEW i \in 1 .. Len(checks')
       PROVE  /\ Back(checks[i])' <= Len(task) /\ Back(checks[i])' \in Nat
              /\ \A j \in 1 .. Back(checks[i])' : checks'[i].text[j] = task[j]
  <2>1. Back(checks[i])' = Back(checks'[i])
    BY <1>1 DEF Back
  <2>2. CASE \E h \in 1 .. Len(checks) : checks'[i] = checks[h]
    <3>1. PICK h \in 1 .. Len(checks) : checks'[i] = checks[h]
      BY <2>2
    <3>2. Back(checks[h]) \in 1 .. checks[h].n /\ checks[h].n \in 2 .. MaxTokens
      BY BackIs, CheckIs DEF IInv
    <3>3. Back(checks[h]) <= Len(task)
      BY <1>2 DEF Reaches
    <3>4. ASSUME NEW j \in 1 .. Back(checks[h]) PROVE checks[h].text[j] = task[j]
      <4>1. j <= Len(task)
        BY <1>2, <3>2, <3>3
      <4>2. QED BY <1>2, <4>1 DEF Follows
    <3>5. QED BY <2>1, <3>1, <3>2, <3>3, <3>4
  <2>3. CASE checks'[i] = [n |-> Len(tokens), text |-> tokens, lo |-> mem.lo]
    <3>1. /\ checks'[i].n = Len(tokens) /\ checks'[i].text = tokens
          /\ checks'[i] \in CheckT
      BY <1>8, <2>3, ElementOfSeq DEF ChecksOk
    <3>2. Len(tokens) >= 2
      BY <3>1 DEF CheckT
    <3>3. Back(checks'[i]) \in 1 .. Len(tokens)
      BY <1>2, <3>1, <3>2 DEF Back
    <3>4. \A j \in 1 .. Back(checks'[i]) : j \in 1 .. Len(tokens)
      BY <1>2, <3>3
    <3>5. QED BY <1>2, <1>9, <2>1, <3>1, <3>3, <3>4 DEF Same
  <2>4. QED BY <1>8, <2>2, <2>3
<1>11. ASSUME NEW s \in Seq(Token), Len(s) = Len(task), Same(s, task, Len(task))
       PROVE  /\ \A i \in 1 .. Len(checks') : Back(checks[i])' <= Len(s)
              /\ \A i \in 1 .. Len(checks') : \A j \in 1 .. Back(checks[i])' :
                    checks'[i].text[j] = s[j]
  <2>1. ASSUME NEW i \in 1 .. Len(checks'), NEW j \in 1 .. Back(checks[i])'
        PROVE  checks'[i].text[j] = s[j]
    <3>1. /\ Back(checks[i])' <= Len(task) /\ Back(checks[i])' \in Nat
          /\ checks'[i].text[j] = task[j]
      BY <1>10
    <3>2. j \in 1 .. Len(task)
      BY <1>2, <3>1
    <3>3. QED BY <1>11, <3>1, <3>2 DEF Same
  <2>2. QED BY <1>10, <1>11, <2>1
<1>12. CASE n = Len(task)
  <2>1. state' = "generating"
    BY <1>1, <1>12
  <2>2. Follows(tokens)' /\ Reaches(tokens)'
    BY <1>4, <1>5, <1>11, <1>12 DEF Follows, Reaches
  <2>3. TaskOk'
    BY <1>1, <1>2, <1>4, <1>6, <2>1, <2>2 DEF TaskOk
  <2>4. QED BY <1>1, <1>7, <1>8, <2>1, <2>3 DEF IInv
<1>13. CASE n # Len(task)
  <2>1. state' = "prompt" /\ Len(tokens') < Len(task')
    BY <1>1, <1>2, <1>4, <1>6, <1>13
  <2>2. Follows(task)' /\ Reaches(task)'
    <3>1. Same(task, task, Len(task))
      BY DEF Same
    <3>2. QED BY <1>1, <1>2, <1>11, <3>1 DEF Follows, Reaches
  <2>3. Same(tokens, task, Len(tokens))'
    BY <1>1, <1>4, <1>5 DEF Same
  <2>4. TaskOk'
    BY <1>1, <1>2, <1>4, <1>6, <2>1, <2>2, <2>3 DEF TaskOk
  <2>5. QED BY <1>1, <1>7, <1>8, <2>1, <2>4 DEF IInv
<1>14. QED BY <1>12, <1>13

-----------------------------------------------------------------------------
(* A new prompt *)

\* T keeps n0 tokens at most; toks and m are what the slot and the memory go on
\* with, after the checkpoints beyond next are dropped.
StartsAt(T, n0, next, toks, m) ==
    /\ \A i \in 1 .. Len(checks) : checks[i].n - 1 <= next => Back(checks[i]) <= n0
    /\ \E n \in 0 .. n0 : n < Len(T) /\ toks = FirstN(tokens, n)
    /\ m = [text |-> toks, lo |-> m.lo] /\ MemIs(toks, m.lo)
    /\ Thin(Len(toks), m.lo) =>
          \E i \in 1 .. Len(checks) : checks[i].n - 1 <= next /\ Len(toks) <= checks[i].n

\* The n0 first tokens are those of T.
Shared(T, n0) ==
    /\ T \in Seq(Token) /\ Len(T) \in Nat /\ Len(T) <= MaxTokens /\ Len(T) >= MinChunk
    /\ n0 \in 0 .. Len(tokens) /\ n0 <= Len(T) /\ Same(tokens, T, n0)

\* The checkpoints that stay, in their order.
LEMMA ValidIs ==
    ASSUME IInv, NEW next \in Int
    PROVE  /\ Valid(checks, next) \in Seq(CheckT) /\ Len(Valid(checks, next)) <= Len(checks)
           /\ \E e :
                /\ e \in [1 .. Len(Valid(checks, next)) -> 1 .. Len(checks)]
                /\ \A j, k \in 1 .. Len(Valid(checks, next)) : j < k => e[j] < e[k]
                /\ \A j \in 1 .. Len(Valid(checks, next)) :
                      /\ Valid(checks, next)[j] = checks[e[j]]
                      /\ checks[e[j]].n - 1 <= next
                /\ \A h \in 1 .. Len(checks) : checks[h].n - 1 <= next =>
                      \E j \in 1 .. Len(Valid(checks, next)) : e[j] = h
<1> DEFINE K == {c \in Range(checks) : PosMax(c) <= next}
           V == Kept(checks, K)
<1>1. Valid(checks, next) = V
  BY DEF Valid, Selected, Kept
<1>2. checks \in Seq(CheckT) /\ DOMAIN checks = 1 .. Len(checks)
  BY TokensTyped, LenProperties
<1>3. V \in Seq(CheckT) /\ Len(V) <= Len(checks) /\ \E e : Embedded(V, checks, K, Len(checks), e)
  BY <1>2, KeptIs
<1>4. \A h \in 1 .. Len(checks) : checks[h] \in K <=> checks[h].n - 1 <= next
  <2>1. ASSUME NEW h \in 1 .. Len(checks) PROVE checks[h] \in K <=> checks[h].n - 1 <= next
    <3>1. PosMax(checks[h]) = checks[h].n - 1
      BY CheckIs DEF IInv
    <3>2. checks[h] \in Range(checks)
      BY <1>2 DEF Range
    <3>3. QED BY <3>1, <3>2
  <2>2. QED BY <2>1
<1> HIDE DEF V, K
<1>5. PICK e : Embedded(V, checks, K, Len(checks), e)
  BY <1>3
<1>6. /\ e \in [1 .. Len(V) -> 1 .. Len(checks)]
      /\ \A j, k \in 1 .. Len(V) : j < k => e[j] < e[k]
      /\ \A j \in 1 .. Len(V) : V[j] = checks[e[j]] /\ checks[e[j]].n - 1 <= next
      /\ \A h \in 1 .. Len(checks) : checks[h].n - 1 <= next => \E j \in 1 .. Len(V) : e[j] = h
  <2>1. /\ e \in [1 .. Len(V) -> 1 .. Len(checks)]
        /\ \A j, k \in 1 .. Len(V) : j < k => e[j] < e[k]
        /\ \A j \in 1 .. Len(V) : V[j] = checks[e[j]] /\ V[j] \in K
        /\ \A h \in 1 .. Len(checks) : checks[h] \in K => \E j \in 1 .. Len(V) : e[j] = h
    BY <1>5 DEF Embedded
  <2>2. QED BY <1>4, <2>1
<1>7. QED BY <1>1, <1>3, <1>6

LEMMA StartFinish ==
    ASSUME IInv, Usual, NEW T, NEW n0, Shared(T, n0), NEW next \in Int,
           StartsAt(T, n0, next, tokens', mem'),
           checks' = Valid(checks, next), state' = "started", task' = T, kind' = kind
    PROVE  IInv'
<1> USE Sizes
<1>1. PICK e :
         /\ e \in [1 .. Len(checks') -> 1 .. Len(checks)]
         /\ \A j, k \in 1 .. Len(checks') : j < k => e[j] < e[k]
         /\ \A j \in 1 .. Len(checks') : checks'[j] = checks[e[j]] /\ checks[e[j]].n - 1 <= next
         /\ \A h \in 1 .. Len(checks) : checks[h].n - 1 <= next =>
               \E j \in 1 .. Len(checks') : e[j] = h
  <2> DEFINE V == Valid(checks, next)
  <2>1. \E e :
         /\ e \in [1 .. Len(V) -> 1 .. Len(checks)]
         /\ \A j, k \in 1 .. Len(V) : j < k => e[j] < e[k]
         /\ \A j \in 1 .. Len(V) : V[j] = checks[e[j]] /\ checks[e[j]].n - 1 <= next
         /\ \A h \in 1 .. Len(checks) : checks[h].n - 1 <= next =>
               \E j \in 1 .. Len(V) : e[j] = h
    BY ValidIs
  <2>2. checks' = V
    OBVIOUS
  <2> HIDE DEF V
  <2>3. QED BY <2>1, <2>2
<1>2. /\ checks' \in Seq(CheckT) /\ Len(checks') <= Len(checks)
      /\ Len(checks') \in Nat /\ Len(checks) \in Nat /\ Len(checks) <= MaxChecks
  BY ValidIs, TokensTyped, LenProperties DEF IInv, ChecksOk
<1>3. ASSUME NEW j \in 1 .. Len(checks')
      PROVE  /\ Len(checks'[j].text) = checks'[j].n
             /\ kind' = "swa" => checks'[j].lo <= Low(checks'[j].n)
             /\ kind' = "recurrent" => checks'[j].lo = checks'[j].n - 1
  <2>1. e[j] \in 1 .. Len(checks) /\ checks'[j] = checks[e[j]]
    BY <1>1
  <2>2. QED BY <2>1, CheckIs DEF IInv
<1>4. ASSUME NEW j \in 1 .. Len(checks'), NEW k \in 1 .. Len(checks'), j < k
      PROVE  checks'[j].n + Gap < checks'[k].n
  <2>1. /\ e[j] \in 1 .. Len(checks) /\ checks'[j] = checks[e[j]]
        /\ e[k] \in 1 .. Len(checks) /\ checks'[k] = checks[e[k]] /\ e[j] < e[k]
    BY <1>1, <1>4
  <2>2. QED BY <2>1 DEF IInv, ChecksOk
<1>5. ChecksOk'
  BY <1>2, <1>3, <1>4 DEF ChecksOk
<1>6. MemOk'
  <2>1. ASSUME Thin(Len(tokens'), mem'.lo)
        PROVE  Len(checks') > 0 /\ Len(tokens') <= checks'[Len(checks')].n
    <3>1. PICK i \in 1 .. Len(checks) : checks[i].n - 1 <= next /\ Len(tokens') <= checks[i].n
      BY <2>1 DEF StartsAt
    <3>2. PICK j \in 1 .. Len(checks') : e[j] = i
      BY <1>1, <3>1
    <3>3. Len(checks') \in 1 .. Len(checks') /\ Len(checks') > 0 /\ checks'[j] = checks[i]
      BY <1>1, <1>2, <3>2
    <3>a. \A k \in 1 .. Len(checks') : checks'[k] \in CheckT
      BY <1>2, ElementOfSeq
    <3>4. checks'[j].n \in 2 .. MaxTokens /\ checks'[Len(checks')].n \in 2 .. MaxTokens
      <4>1. \A k \in 1 .. Len(checks') : checks'[k].n \in 2 .. MaxTokens
        BY <3>a DEF CheckT
      <4>2. QED BY <3>3, <4>1
    <3>5. j = Len(checks') \/ checks'[j].n + Gap < checks'[Len(checks')].n
      BY <1>2, <1>4, <3>3
    <3>6. Len(tokens') \in Nat
      BY LenProperties DEF StartsAt, MemIs
    <3>7. QED BY <3>1, <3>3, <3>4, <3>5, <3>6
  <2>2. mem' = [text |-> tokens', lo |-> mem'.lo] /\ MemIs(tokens', mem'.lo)
    BY DEF StartsAt
  <2>3. MemIs(tokens, mem.lo)'
    BY <2>2 DEF MemIs
  <2>4. Thin(Len(tokens), mem.lo)' => Thin(Len(tokens'), mem'.lo)
    BY DEF Thin
  <2>5. QED BY <2>1, <2>2, <2>3, <2>4 DEF MemOk
<1>7. TaskOk'
  <2>1. /\ T \in Seq(Token) /\ Len(T) \in Nat /\ Len(T) <= MaxTokens /\ Len(T) >= MinChunk
        /\ n0 \in 0 .. Len(tokens) /\ n0 <= Len(T) /\ Same(tokens, T, n0)
        /\ tokens \in Seq(Token) /\ Len(tokens) \in Nat
    BY TokensTyped DEF Shared
  <2>2. PICK n \in 0 .. n0 : n < Len(T) /\ tokens' = FirstN(tokens, n)
    BY DEF StartsAt
  <2>3. n \in 0 .. Len(tokens)
    BY <2>1
  <2>4. Len(tokens') = n /\ \A j \in 1 .. n : tokens'[j] = tokens[j]
    BY <2>1, <2>2, <2>3, FirstNIs
  <2>5. Same(tokens, task, Len(tokens))'
    <3>1. \A j \in 1 .. n : j \in 1 .. n0
      BY <2>1
    <3>2. QED BY <2>1, <2>4, <3>1 DEF Same
  <2>6. ASSUME NEW j \in 1 .. Len(checks')
        PROVE  /\ Back(checks[j])' <= Len(T)
               /\ \A h \in 1 .. Back(checks[j])' : checks'[j].text[h] = T[h]
    <3> DEFINE i == e[j]
    <3>1. i \in 1 .. Len(checks) /\ checks'[j] = checks[i] /\ checks[i].n - 1 <= next
      BY <1>1
    <3> HIDE DEF i
    <3>2. Back(checks[j])' = Back(checks[i])
      BY <3>1 DEF Back
    <3>3. Back(checks[i]) <= n0 /\ Back(checks[i]) \in 1 .. checks[i].n /\ checks[i].n \in 2 .. MaxTokens
      BY <3>1, BackIs, CheckIs DEF StartsAt, IInv
    <3>4. ASSUME NEW h \in 1 .. Back(checks[i]) PROVE checks[i].text[h] = T[h]
      <4>1. h \in 1 .. n0 /\ h <= Len(tokens)
        BY <2>1, <3>3
      <4>2. checks[i].text[h] = tokens[h]
        BY <3>1, <4>1, FollowsTokens DEF Follows
      <4>3. QED BY <2>1, <4>1, <4>2 DEF Same
    <3>5. QED BY <2>1, <3>1, <3>2, <3>3, <3>4
  <2>7. Follows(task)' /\ Reaches(task)'
    BY <2>6 DEF Follows, Reaches
  <2>8. QED BY <2>1, <2>2, <2>4, <2>5, <2>7 DEF TaskOk
<1>8. QED BY <1>5, <1>6, <1>7 DEF IInv

\* Starting over.
LEMMA EmptyOutcome ==
    ASSUME IInv, Usual, NEW T, NEW n0, Shared(T, n0), NEW next \in Int,
           \A i \in 1 .. Len(checks) : checks[i].n - 1 <= next => Back(checks[i]) <= n0
    PROVE  StartsAt(T, n0, next, <<>>, Empty)
<1> USE Sizes
<1>1. 0 \in 0 .. n0 /\ 0 < Len(T) /\ 0 \in 0 .. Len(tokens)
  BY TokensTyped DEF Shared
<1>2. FirstN(tokens, 0) = <<>>
  <2>1. FirstN(tokens, 0) \in Seq(Token) /\ Len(FirstN(tokens, 0)) = 0
    BY <1>1, TokensTyped, FirstNIs
  <2>2. QED BY <2>1, EmptySeq
<1>3. <<>> \in Seq(Token) /\ Len(<<>>) = 0 /\ Empty.lo = 0 /\ Empty = [text |-> <<>>, lo |-> Empty.lo]
  BY DEF Empty
<1>4. MemIs(<<>>, Empty.lo) /\ ~Thin(0, Empty.lo)
  BY <1>3 DEF MemIs, Thin, Low
<1>5. QED BY <1>1, <1>2, <1>3, <1>4 DEF StartsAt

\* No checkpoint is of a single token, so that none stays.
LEMMA NoneStays ==
    ASSUME IInv, Usual, NEW n0
    PROVE  \A i \in 1 .. Len(checks) : checks[i].n - 1 <= 0 => Back(checks[i]) <= n0
<1>1. ASSUME NEW i \in 1 .. Len(checks) PROVE ~(checks[i].n - 1 <= 0)
  <2>1. checks[i].n \in 2 .. MaxTokens
    BY CheckIs DEF IInv
  <2>2. QED BY <2>1, Sizes
<1>2. QED BY <1>1

LEMMA RemovedAll ==
    ASSUME IInv
    PROVE  Removed(mem, 0) = Empty /\ Removed(Empty, 0) = Empty
<1>1. /\ mem = [text |-> tokens, lo |-> mem.lo] /\ mem.lo \in Nat /\ Len(tokens) \in Nat
      /\ Len(tokens) = 0 => mem.lo = 0 /\ tokens = <<>>
  <2>1. Len(tokens) = 0 => tokens = <<>>
    BY TokensTyped, EmptySeq
  <2>2. QED BY <2>1, TokensTyped, Sizes DEF IInv, MemOk, MemIs
<1>2. Removed(Empty, 0) = Empty
  BY DEF Removed, PosMax, Empty
<1>3. CASE Len(tokens) = 0
  <2>1. mem = Empty
    BY <1>1, <1>3 DEF Empty
  <2>2. QED BY <1>2, <2>1
<1>4. CASE Len(tokens) # 0
  <2>1. ~(0 > PosMax(mem)) /\ 0 <= mem.lo
    BY <1>1, <1>4, TokensTyped DEF PosMax
  <2>2. QED BY <1>2, <2>1 DEF Removed
<1>5. QED BY <1>3, <1>4

\* The memory after the part beyond n is given up.
Left(m, n) == IF CanRemove(m, n) THEN Removed(m, n) ELSE Empty

\* The tokens that stay with it.
Rest(m, n) == IF CanRemove(m, n) THEN FirstN(tokens, n) ELSE <<>>

\* Nothing is kept.
LEMMA ZeroOutcome ==
    ASSUME IInv, Usual, NEW T, NEW n0, Shared(T, n0), NEW next \in Int, NEW m \in {mem, Empty},
           \A i \in 1 .. Len(checks) : checks[i].n - 1 <= next => Back(checks[i]) <= n0
    PROVE  StartsAt(T, n0, next, Rest(m, 0), Left(m, 0))
<1>1. CanRemove(m, 0)
  BY DEF CanRemove
<1>2. Left(m, 0) = Empty
  BY <1>1, RemovedAll DEF Left
<1>3. Rest(m, 0) = <<>>
  <2>1. FirstN(tokens, 0) \in Seq(Token) /\ Len(FirstN(tokens, 0)) = 0
    BY TokensTyped, FirstNIs
  <2>2. QED BY <1>1, <2>1, EmptySeq DEF Rest
<1>4. QED BY <1>2, <1>3, EmptyOutcome

\* All the cached tokens are the beginning of the prompt.
LEMMA WholeOutcome ==
    ASSUME IInv, Usual, NEW T, NEW n0, Shared(T, n0), state = "idle",
           n0 = Len(tokens), n0 > 0, T = tokens => kind = "recurrent"
    PROVE  StartsAt(T, n0, n0, Rest(mem, LeaveOne(n0, T)), Left(mem, LeaveOne(n0, T)))
<1> USE Sizes
<1>1. /\ tokens \in Seq(Token) /\ Len(tokens) \in Nat
      /\ T \in Seq(Token) /\ Len(T) \in Nat /\ n0 <= Len(T) /\ Same(tokens, T, n0)
      /\ mem.text = tokens /\ PosMax(mem) = n0 - 1
      /\ kind \in {"swa", "recurrent"}
  BY TokensTyped DEF Shared, IInv, PosMax
<1>2. \A i \in 1 .. Len(checks) : checks[i].n - 1 <= n0 => Back(checks[i]) <= n0
  <2>1. CASE kind = "swa"
    BY <2>1 DEF Back
  <2>2. CASE kind = "recurrent"
    <3>1. Reaches(tokens)
      BY <2>2 DEF IInv, TaskOk
    <3>2. QED BY <3>1 DEF Reaches
  <2>3. QED BY <1>1, <2>1, <2>2
<1>3. CASE n0 < Len(T)
  <2>1. LeaveOne(n0, T) = n0
    BY <1>3 DEF LeaveOne
  <2>2. n0 > PosMax(mem) /\ CanRemove(mem, n0)
    BY <1>1 DEF CanRemove
  <2>a. ~(n0 <= mem.lo)
    BY <1>1, TokensTyped DEF IInv, MemOk, MemIs
  <2>3. Left(mem, n0) = mem
    BY <2>2, <2>a DEF Left, Removed
  <2>4. Rest(mem, n0) = FirstN(tokens, n0)
    BY <2>2 DEF Rest
  <2>5. FirstN(tokens, n0) = tokens
    <3>1. n0 \in 0 .. Len(tokens)
      BY <1>1
    <3>2. /\ FirstN(tokens, n0) \in Seq(Token) /\ Len(FirstN(tokens, n0)) = n0
          /\ \A j \in 1 .. n0 : FirstN(tokens, n0)[j] = tokens[j]
      BY <1>1, <3>1, FirstNIs
    <3>3. QED BY <1>1, <3>2, SeqEqual
  <2>6. n0 \in 0 .. n0
    BY <1>1
  <2>7. /\ mem = [text |-> tokens, lo |-> mem.lo] /\ MemIs(tokens, mem.lo)
        /\ ~Thin(Len(tokens), mem.lo)
    BY DEF IInv, MemOk
  <2>8. QED BY <1>2, <1>3, <2>1, <2>3, <2>4, <2>5, <2>6, <2>7 DEF StartsAt
<1>4. CASE n0 = Len(T)
  <2>1. T = tokens
    <3>1. \A j \in 1 .. Len(tokens) : tokens[j] = T[j]
      BY <1>1 DEF Same
    <3>2. QED BY <1>1, <1>4, <3>1, SeqEqual
  <2>2. LeaveOne(n0, T) = n0 - 1 /\ n0 - 1 > 0
    BY <1>1, <1>4 DEF LeaveOne, Shared, Usual
  <2>3. ~CanRemove(mem, n0 - 1)
    BY <1>1, <2>1, <2>2 DEF CanRemove
  <2>4. Left(mem, n0 - 1) = Empty /\ Rest(mem, n0 - 1) = <<>>
    BY <2>3 DEF Left, Rest
  <2>5. n0 \in Int
    BY <1>1
  <2>6. QED BY <1>2, <2>2, <2>4, <2>5, EmptyOutcome
<1>5. QED BY <1>1, <1>3, <1>4

\* Of a memory whose window reaches back far enough the end is given up.
LEMMA TrimOutcome ==
    ASSUME IInv, Usual, NEW T, NEW n0, Shared(T, n0), kind = "swa",
           NEW lo \in 0 .. MaxTokens, NEW text \in Seq(Token), NEW next \in Int, NEW n \in 1 .. n0,
           \A i \in 1 .. Len(checks) : checks[i].n - 1 <= next => Back(checks[i]) <= n0,
           n < Len(T), n < Len(text), Same(text, tokens, n),
           lo < n, lo <= Low(n) \/ lo = n - Window + 1,
           n = 1 \/ lo > Low(n) =>
              \E i \in 1 .. Len(checks) : checks[i].n - 1 <= next /\ n <= checks[i].n
    PROVE  LET m == [text |-> text, lo |-> lo]
           IN  StartsAt(T, n0, next, Rest(m, n), Left(m, n))
<1> USE Sizes
<1> DEFINE m == [text |-> text, lo |-> lo]
<1>1. /\ tokens \in Seq(Token) /\ Len(tokens) \in Nat /\ Len(tokens) <= MaxTokens
      /\ n0 \in 0 .. Len(tokens) /\ n \in Nat /\ n <= Len(tokens) /\ Len(text) \in Nat
  BY TokensTyped, LenProperties DEF Shared
<1>2. m.text = text /\ m.lo = lo
  OBVIOUS
<1>3. CanRemove(m, n)
  BY DEF CanRemove
<1>4. ~(n > PosMax(m)) /\ ~(n <= m.lo)
  BY <1>1, <1>2 DEF PosMax
<1>5. Left(m, n) = [text |-> FirstN(text, n), lo |-> lo]
  <2>1. Removed(m, n) = [m EXCEPT !.text = FirstN(@, n)]
    BY <1>4 DEF Removed
  <2>2. QED BY <1>3, <2>1 DEF Left
<1>6. Rest(m, n) = FirstN(tokens, n)
  BY <1>3 DEF Rest
<1> HIDE DEF m
<1>7. FirstN(text, n) = FirstN(tokens, n)
  <2>1. n \in 0 .. Len(text)
    BY <1>1
  <2>2. QED BY <1>1, <2>1, FirstNSame
<1>8. FirstN(tokens, n) \in Seq(Token) /\ Len(FirstN(tokens, n)) = n
  <2>1. n \in 0 .. Len(tokens)
    BY <1>1
  <2>2. QED BY <1>1, <2>1, FirstNIs
<1>9. MemIs(FirstN(tokens, n), lo)
  <2>1. n <= MaxTokens /\ ~(n = 0) /\ n \in Nat
    BY <1>1
  <2>2. lo > Low(n) => lo = n - Window + 1
    BY <2>1 DEF Low
  <2>3. ASSUME NEW x \in Seq(Token), Len(x) = n PROVE MemIs(x, lo)
    BY <2>1, <2>2, <2>3 DEF MemIs
  <2>4. QED BY <1>8, <2>3
<1>10. n \in 0 .. n0
  BY <1>1
<1> DEFINE toks == FirstN(tokens, n)
           r == [text |-> toks, lo |-> lo]
<1>11. r = [text |-> toks, lo |-> r.lo] /\ r.lo = lo
  OBVIOUS
<1>12. Thin(Len(toks), lo) =>
          \E i \in 1 .. Len(checks) : checks[i].n - 1 <= next /\ Len(toks) <= checks[i].n
  BY <1>8 DEF Thin
<1>13. Left(m, n) = r /\ Rest(m, n) = toks
  BY <1>5, <1>6, <1>7
<1>14. \E h \in 0 .. n0 : h < Len(T) /\ toks = FirstN(tokens, h)
  BY <1>10
<1>15. MemIs(toks, r.lo)
  BY <1>9, <1>11
<1> HIDE DEF toks, r
<1>16. StartsAt(T, n0, next, toks, r)
  BY <1>11, <1>12, <1>14, <1>15 DEF StartsAt
<1>17. QED BY <1>13, <1>16 DEF m

LEMMA UsefulIs ==
    ASSUME IInv, NEW thold
    PROVE  LET u == Useful(thold)
           IN  u \in 0 .. Len(checks) /\ (u # 0 => checks[u].lo < thold)
<1> DEFINE R == {0} \union {i \in DOMAIN checks : checks[i].lo < thold}
<1>1. DOMAIN checks = 1 .. Len(checks) /\ Len(checks) \in Nat
  BY TokensTyped, LenProperties
<1>2. R \subseteq 0 .. Len(checks) /\ R # {}
  BY <1>1
<1>3. Max(R) \in R
  <2> HIDE DEF R
  <2>1. QED BY <1>1, <1>2, MaxUpTo
<1>4. Useful(thold) = Max(R)
  BY DEF Useful
<1>5. Useful(thold) \in R
  BY <1>3, <1>4
<1>6. QED BY <1>2, <1>5

\* The prompt leaves the cached tokens at n0, and the window reaches back that far.
LEMMA PartOutcome ==
    ASSUME IInv, Usual, NEW T, NEW n0, Shared(T, n0), state = "idle",
           0 < n0, n0 < Len(tokens), ~(PosMin(mem) >= Max({0, n0 - NSwa}))
    PROVE  StartsAt(T, n0, n0, Rest(mem, LeaveOne(n0, T)), Left(mem, LeaveOne(n0, T)))
<1> USE Sizes
<1>1. /\ tokens \in Seq(Token) /\ Len(tokens) \in Nat
      /\ T \in Seq(Token) /\ Len(T) \in Nat /\ n0 <= Len(T) /\ n0 \in Nat
      /\ mem.text = tokens /\ mem.lo \in 0 .. MaxTokens /\ mem.lo < Len(tokens)
      /\ mem = [text |-> tokens, lo |-> mem.lo]
      /\ kind = "recurrent" => mem.lo = Len(tokens) - 1
      /\ kind \in {"swa", "recurrent"}
  BY TokensTyped DEF Shared, IInv, MemOk, MemIs
<1>2. PosMin(mem) = mem.lo
  BY <1>1 DEF PosMin
<1>3. Max({0, n0 - NSwa}) = IF 0 >= n0 - NSwa THEN 0 ELSE n0 - NSwa
  <2>1. n0 - NSwa \in Int
    BY <1>1 DEF NSwa
  <2>2. QED BY <2>1, MaxOf
<1>4. kind = "swa" /\ mem.lo < n0 - Window
  <2>1. kind # "recurrent"
    BY <1>1, <1>2, <1>3 DEF NSwa
  <2>2. QED BY <1>1, <1>2, <1>3, <2>1 DEF NSwa
<1> DEFINE n == LeaveOne(n0, T)
<1>5. n \in {n0, n0 - 1} /\ n < Len(T)
  BY <1>1 DEF LeaveOne
<1> HIDE DEF n
<1>6. /\ n \in 1 .. n0 /\ n < Len(tokens) /\ mem.lo < n /\ n > 1
      /\ mem.lo <= Low(n)
  BY <1>1, <1>4, <1>5 DEF Low, Usual
<1>7. Same(tokens, tokens, n)
  BY DEF Same
<1>8. \A i \in 1 .. Len(checks) : checks[i].n - 1 <= n0 => Back(checks[i]) <= n0
  BY <1>4 DEF Back
<1>9. ~(n = 1 \/ mem.lo > Low(n))
  <2>1. Low(n) \in Int
    BY <1>6 DEF Low
  <2>2. QED BY <1>1, <1>6, <2>1
<1>10. LET m == [text |-> tokens, lo |-> mem.lo]
       IN  StartsAt(T, n0, n0, Rest(m, n), Left(m, n))
  BY <1>1, <1>4, <1>5, <1>6, <1>7, <1>8, <1>9, TrimOutcome, SMTT(30)
<1>11. QED BY <1>1, <1>10 DEF n

\* The slot goes back with the checkpoint u.
LEMMA RestoreOutcome ==
    ASSUME IInv, Usual, NEW T, NEW n0, Shared(T, n0), state = "idle",
           0 < n0, n0 < Len(tokens), NEW u \in 1 .. Len(checks),
           checks[u].lo < Max({0, n0 - NSwa})
    PROVE  LET c    == checks[u]
               next == Min({n0, Max({c.lo + 1, PosMax(c)})})
               n    == LeaveOne(Min({next, Len(tokens), c.n}), T)
               m    == [text |-> c.text, lo |-> c.lo]
           IN  next \in Int /\ StartsAt(T, n0, next, Rest(m, n), Left(m, n))
<1> USE Sizes
<1> DEFINE c    == checks[u]
           next == Min({n0, Max({c.lo + 1, PosMax(c)})})
           past == Min({next, Len(tokens), c.n})
           n    == LeaveOne(past, T)
           m    == [text |-> c.text, lo |-> c.lo]
<1>1. /\ tokens \in Seq(Token) /\ Len(tokens) \in Nat
      /\ T \in Seq(Token) /\ Len(T) \in Nat /\ n0 <= Len(T) /\ n0 \in Nat
      /\ kind \in {"swa", "recurrent"}
  BY TokensTyped DEF Shared, IInv
<1>2. /\ c.n \in 2 .. MaxTokens /\ c.n \in Nat /\ c.n >= 2
      /\ c.text \in Seq(Token) /\ Len(c.text) = c.n
      /\ c.lo \in 0 .. MaxTokens /\ PosMax(c) = c.n - 1
      /\ kind = "swa" => c.lo <= Low(c.n)
      /\ kind = "recurrent" => c.lo = c.n - 1
      /\ c = [n |-> c.n, text |-> c.text, lo |-> c.lo]
  BY CheckIs DEF IInv
<1>3. Max({c.lo + 1, PosMax(c)}) = IF kind = "swa" THEN c.n - 1 ELSE c.n
  BY BackIs DEF Back
<1>4. \A j \in 1 .. Back(c) : j <= Len(tokens) => c.text[j] = tokens[j]
  BY FollowsTokens DEF Follows
<1>5. c.lo < IF 0 >= n0 - NSwa THEN 0 ELSE n0 - NSwa
  <2>1. n0 - NSwa \in Int
    BY <1>1 DEF NSwa
  <2>2. Max({0, n0 - NSwa}) = IF 0 >= n0 - NSwa THEN 0 ELSE n0 - NSwa
    BY ONLY <2>1, MaxOf
  <2>3. c.lo < Max({0, n0 - NSwa})
    OBVIOUS
  <2>4. QED BY <2>2, <2>3, Zenon
<1>a. m.text = c.text /\ m.lo = c.lo
  OBVIOUS
<1> HIDE DEF c, m
<1>6. next = (IF kind = "swa" THEN IF n0 <= c.n - 1 THEN n0 ELSE c.n - 1
                              ELSE IF n0 <= c.n THEN n0 ELSE c.n)
  <2> DEFINE b == IF kind = "swa" THEN c.n - 1 ELSE c.n
  <2>1. b \in Int /\ n0 \in Int
    BY <1>1, <1>2
  <2>2. next = Min({n0, b})
    BY <1>3
  <2> HIDE DEF b, next
  <2>3. next = IF n0 <= b THEN n0 ELSE b
    BY <2>1, <2>2, MinOf
  <2>4. QED BY <2>3 DEF b
<1>7. next \in Int /\ past \in {next, Len(tokens), c.n} /\ past <= next /\ past <= Len(tokens) /\ past <= c.n
  <2>1. next \in Int
    BY <1>1, <1>2, <1>6
  <2> HIDE DEF next
  <2>2. Len(tokens) \in Int /\ c.n \in Int
    BY <1>1, <1>2
  <2>3. LET x == Min({next, Len(tokens), c.n})
        IN  x \in {next, Len(tokens), c.n} /\ x <= next /\ x <= Len(tokens) /\ x <= c.n
    BY <2>1, <2>2, MinOfThree
  <2>4. QED BY <2>1, <2>3
<1> HIDE DEF next, past
<1>8. n = IF past = Len(T) THEN past - 1 ELSE past
  BY DEF LeaveOne
<1> HIDE DEF n
<1>9. CASE kind = "recurrent"
  <2>1. c.lo = c.n - 1 /\ c.n <= n0 /\ next = c.n /\ past = c.n
    BY <1>1, <1>2, <1>5, <1>6, <1>7, <1>9 DEF NSwa
  <2>2. ASSUME NEW i \in 1 .. Len(checks), checks[i].n - 1 <= next
        PROVE  Back(checks[i]) <= n0
    <3>1. checks[i].n \in 2 .. MaxTokens
      BY CheckIs DEF IInv
    <3>2. CASE u < i
      <4>1. c.n + Gap < checks[i].n
        BY <3>2 DEF IInv, ChecksOk, c
      <4>2. QED BY <1>2, <2>1, <2>2, <3>1, <4>1, SMTT(30)
    <3>3. CASE i = u
      BY <1>9, <2>1, <3>3 DEF Back, c
    <3>4. CASE i < u
      <4>1. checks[i].n + Gap < c.n
        BY <3>4 DEF IInv, ChecksOk, c
      <4>2. checks[i].n < c.n
        BY <1>2, <3>1, <4>1, SMTT(30)
      <4>3. Back(checks[i]) = checks[i].n
        BY <1>9 DEF Back
      <4>4. QED BY <1>1, <1>2, <2>1, <3>1, <4>2, <4>3, SMTT(30)
    <3>5. QED BY <3>2, <3>3, <3>4, TokensTyped
  <2>3. CASE c.n = Len(T)
    <3>1. n = c.n - 1 /\ 0 < n
      BY <1>2, <1>8, <2>1, <2>3
    <3>2. PosMax(m) = c.n - 1
      BY <1>2, <1>a DEF PosMax
    <3>3. ~CanRemove(m, n)
      BY <1>2, <1>9, <3>1, <3>2 DEF CanRemove
    <3>4. Left(m, n) = Empty /\ Rest(m, n) = <<>>
      BY <3>3 DEF Left, Rest
    <3>5. StartsAt(T, n0, next, <<>>, Empty)
      BY <1>7, <2>2, EmptyOutcome
    <3>6. QED BY <1>7, <3>4, <3>5 DEF c, next, past, n, m
  <2>4. CASE c.n # Len(T)
    <3>1. n = c.n /\ n < Len(T) /\ n \in 0 .. n0 /\ n \in 0 .. Len(tokens)
      BY <1>1, <1>2, <1>8, <2>1, <2>4
    <3>2. PosMax(m) = c.n - 1
      BY <1>2, <1>a DEF PosMax
    <3>3. n > PosMax(m) /\ CanRemove(m, n) /\ ~(n <= m.lo)
      BY <1>2, <1>a, <2>1, <3>1, <3>2 DEF CanRemove
    <3>4. Left(m, n) = m
      BY <3>3 DEF Left, Removed
    <3>5. Rest(m, n) = FirstN(tokens, n)
      BY <3>3 DEF Rest
    <3>6. FirstN(tokens, n) = c.text
      <4>1. /\ FirstN(tokens, n) \in Seq(Token) /\ Len(FirstN(tokens, n)) = n
            /\ \A j \in 1 .. n : FirstN(tokens, n)[j] = tokens[j]
        BY <1>1, <3>1, FirstNIs
      <4>2. ASSUME NEW j \in 1 .. n PROVE FirstN(tokens, n)[j] = c.text[j]
        <5>1. j \in 1 .. Back(c) /\ j <= Len(tokens)
          BY <1>1, <1>9, <3>1 DEF Back
        <5>2. QED BY <1>4, <4>1, <5>1
      <4>3. QED BY <1>2, <3>1, <4>1, <4>2, SeqEqual
    <3>7. MemIs(c.text, c.lo) /\ ~Thin(Len(c.text), c.lo)
      <4>1. c.n <= MaxTokens /\ c.n > 1 /\ c.lo < c.n
        BY <1>2, <2>1
      <4>2. QED BY <1>2, <1>9, <2>1, <4>1 DEF MemIs, Thin
    <3>8. m = [text |-> c.text, lo |-> m.lo]
      BY <1>a DEF m
    <3>9. StartsAt(T, n0, next, c.text, m)
      BY <1>a, <2>2, <3>1, <3>6, <3>7, <3>8 DEF StartsAt
    <3>10. QED BY <1>7, <3>4, <3>5, <3>6, <3>9 DEF c, next, past, n, m
  <2>5. QED BY <2>3, <2>4
<1>10. CASE kind = "swa"
  <2>1. c.lo < n0 - Window /\ c.lo \in Nat
    BY <1>1, <1>2, <1>5, <1>10 DEF NSwa
  <2>2. /\ next = (IF n0 <= c.n - 1 THEN n0 ELSE c.n - 1) /\ past = next
    BY <1>1, <1>2, <1>6, <1>7, <1>10
  <2>3. c.lo + 1 <= c.n - 1 /\ (c.lo = 0 \/ c.lo <= c.n - Window)
    BY <1>2, <1>10 DEF Low, Usual
  <2>a. Window > 1 /\ n0 > 2 /\ n0 \in Nat /\ c.n \in Nat /\ c.n >= 2
    BY <1>1, <1>2, <2>1 DEF Usual
  <2>b. /\ next \in Nat /\ next <= n0 /\ next <= c.n - 1 /\ c.lo + 1 <= next
        /\ next = n0 \/ next = c.n - 1
    BY <2>1, <2>2, <2>3, <2>a
  <2>c. \/ n = next /\ n < Len(T)
        \/ n = next - 1 /\ next = n0 /\ n < Len(T)
    BY <1>1, <1>8, <2>2, <2>b
  <2>4. n \in 1 .. n0 /\ n < Len(T) /\ n < c.n /\ c.lo < n /\ n <= Len(tokens)
    <3>1. n < Len(T)
      BY <2>c
    <3>2. /\ n \in Nat /\ n <= n0 /\ n < c.n
          /\ n >= 1 /\ c.lo < n
      <4>1. CASE n = next
        BY <2>1, <2>a, <2>b, <4>1
      <4>2. CASE n = next - 1 /\ next = n0
        <5>1. c.lo + 2 < n0
          BY <2>1, <2>a
        <5>2. QED BY <2>1, <2>a, <2>b, <4>2, <5>1
      <4>3. QED BY <2>c, <4>1, <4>2
    <3>3. n <= Len(tokens)
      <4>1. n0 < Len(tokens) /\ Len(tokens) \in Nat
        BY <1>1
      <4>2. QED BY <2>a, <3>2, <4>1
    <3>4. QED BY <2>a, <3>1, <3>2, <3>3
  <2>5. c.lo <= Low(n) \/ c.lo = n - Window + 1
    <3>1. Low(n) >= 0 /\ (c.lo <= n - Window => c.lo <= Low(n)) /\ n \in Nat
      BY <2>1, <2>4, <2>a DEF Low
    <3>2. c.lo = 0 \/ c.lo <= n - Window \/ c.lo = n - Window + 1
      <4>1. CASE next = n0
        <5>1. n \in Nat /\ n0 <= n + 1 /\ c.lo < n0 - Window /\ Window \in Nat
          BY <2>1, <2>4, <2>a, <2>c, <4>1
        <5>2. QED BY <2>1, <2>a, <5>1
      <4>2. CASE next # n0
        <5>1. n = c.n - 1
          BY <2>b, <2>c, <4>2
        <5>2. CASE c.lo = 0
          BY <5>2
        <5>3. CASE c.lo <= c.n - Window
          <6>1. c.lo \in Nat /\ c.n \in Nat /\ Window \in Nat
            BY <2>1, <2>a, <5>1, <2>4, <1>2, Sizes
          <6>2. QED BY ONLY <5>1, <5>3, <6>1
        <5>4. QED BY <2>3, <5>2, <5>3
      <4>3. QED BY <4>1, <4>2
    <3>3. QED BY <3>1, <3>2
  <2>6. n = 1 \/ c.lo > Low(n) => c.n - 1 <= next /\ n <= c.n
    BY <2>1, <2>3, <2>4, <2>a, <2>b, <2>c, SMTT(30) DEF Low
  <2>7. \A i \in 1 .. Len(checks) : checks[i].n - 1 <= next => Back(checks[i]) <= n0
    <3>1. ASSUME NEW i \in 1 .. Len(checks), checks[i].n - 1 <= next PROVE Back(checks[i]) <= n0
      <4>1. checks[i].n \in 2 .. MaxTokens
        BY CheckIs DEF IInv
      <4>2. Back(checks[i]) = checks[i].n - 1
        BY <1>10 DEF Back
      <4>3. QED BY <2>a, <2>b, <3>1, <4>1, <4>2
    <3>2. QED BY <3>1
  <2>8. Same(c.text, tokens, n)
    <3>1. \A j \in 1 .. n : j \in 1 .. Back(c) /\ j <= Len(tokens)
      BY <1>1, <1>2, <1>10, <2>4, SMTT(30) DEF Back
    <3>2. QED BY <1>4, <3>1 DEF Same
  <2>9. n = 1 \/ c.lo > Low(n) =>
           \E i \in 1 .. Len(checks) : checks[i].n - 1 <= next /\ n <= checks[i].n
    BY <2>6 DEF c
  <2>10. c.lo \in 0 .. MaxTokens /\ c.text \in Seq(Token) /\ n < Len(c.text)
    BY <1>2, <2>4
  <2>11. LET w == [text |-> c.text, lo |-> c.lo]
         IN  StartsAt(T, n0, next, Rest(w, n), Left(w, n))
    BY <1>7, <1>10, <2>4, <2>5, <2>7, <2>8, <2>9, <2>10, TrimOutcome
  <2>12. QED BY <1>7, <2>11 DEF c, next, past, n, m
<1>11. QED BY <1>1, <1>9, <1>10

LEMMA StartStep ==
    ASSUME IInv, Usual, NEW T \in Texts, NEW use \in BOOLEAN, StartPrompt(T, use)
    PROVE  IInv'
<1> USE Sizes
<1> DEFINE n0 == IF use THEN CommonPrefix(tokens, T) ELSE 0
           thold == Max({0, n0 - NSwa})
           u     == Useful(thold)
           c     == checks[u]
           back  == Min({n0, Max({c.lo + 1, PosMax(c)})})
           stay  == [past |-> n0, next |-> n0, mem |-> mem]
           reset == [past |-> 0, next |-> 0, mem |-> mem]
           gone  == [past |-> 0, next |-> 0, mem |-> Empty]
           old   == [past |-> Min({back, Len(tokens), c.n}), next |-> back,
                     mem |-> [text |-> c.text, lo |-> c.lo]]
           inner == 0 < n0 /\ n0 < Len(tokens) /\ PosMin(mem) >= thold
<1>1. /\ tokens \in Seq(Token) /\ Len(tokens) \in Nat
      /\ T \in Seq(Token) /\ Len(T) \in Nat /\ Len(T) <= MaxTokens /\ Len(T) >= MinChunk
      /\ state = "idle" /\ state' = "started" /\ task' = T /\ kind' = kind
      /\ T = tokens => kind = "recurrent"
  BY TokensTyped, TextsAre, LenProperties DEF StartPrompt, Usual
<1>2. Shared(T, n0)
  <2>1. CASE use
    <3>1. n0 = CommonPrefix(tokens, T)
      BY <2>1
    <3> HIDE DEF n0
    <3>2. n0 \in 0 .. Len(tokens) /\ n0 <= Len(T) /\ Same(tokens, T, n0)
      BY <1>1, <3>1, CommonPrefixIs
    <3>3. QED BY <1>1, <3>2 DEF Shared
  <2>2. CASE ~use
    BY <1>1, <2>2 DEF Shared, Same
  <2>3. QED BY <2>1, <2>2
<1>3. PICK p \in Prefix(n0) :
         /\ checks' = Valid(checks, p.next)
         /\ tokens' = Rest(p.mem, LeaveOne(p.past, T))
         /\ mem' = Left(p.mem, LeaveOne(p.past, T))
  BY DEF StartPrompt, Rest, Left
<1> HIDE DEF n0
<1>4. \/ ~inner /\ p = stay
      \/ inner /\ u = 0 /\ p = reset
      \/ inner /\ u # 0 /\ (p = old \/ p = gone)
  BY DEF Prefix
<1>5. /\ u \in 0 .. Len(checks) /\ (u # 0 => c.lo < thold)
      /\ n0 \in 0 .. Len(tokens) /\ n0 \in Int /\ n0 >= 0
  <2> HIDE DEF thold
  <2>1. u \in 0 .. Len(checks) /\ (u # 0 => c.lo < thold)
    BY UsefulIs
  <2>2. QED BY <1>1, <1>2, <2>1 DEF Shared
<1>6. LeaveOne(0, T) = 0
  BY <1>1 DEF LeaveOne, Usual
<1>7. p.next \in Int /\ StartsAt(T, n0, p.next, tokens', mem')
  <2>1. CASE ~inner /\ p = stay
    <3>1. p.next = n0 /\ p.past = n0 /\ p.mem = mem
      BY <2>1
    <3>2. CASE n0 = 0
      <4>1. \A i \in 1 .. Len(checks) : checks[i].n - 1 <= n0 => Back(checks[i]) <= n0
        BY <3>2, NoneStays
      <4>2. StartsAt(T, n0, n0, Rest(mem, 0), Left(mem, 0))
        BY <1>2, <1>5, <4>1, ZeroOutcome
      <4>3. QED BY <1>3, <1>5, <1>6, <3>1, <3>2, <4>2
    <3>3. CASE n0 # 0 /\ n0 = Len(tokens)
      <4>1. n0 > 0
        BY <1>5, <3>3
      <4>2. StartsAt(T, n0, n0, Rest(mem, LeaveOne(n0, T)), Left(mem, LeaveOne(n0, T)))
        BY <1>1, <1>2, <3>3, <4>1, WholeOutcome
      <4>3. QED BY <1>3, <1>5, <3>1, <4>2
    <3>4. CASE n0 # 0 /\ n0 # Len(tokens)
      <4>1. 0 < n0 /\ n0 < Len(tokens)
        BY <1>1, <1>5, <3>4
      <4>2. ~(PosMin(mem) >= Max({0, n0 - NSwa}))
        BY <2>1, <4>1
      <4>3. StartsAt(T, n0, n0, Rest(mem, LeaveOne(n0, T)), Left(mem, LeaveOne(n0, T)))
        BY <1>1, <1>2, <4>1, <4>2, PartOutcome
      <4>4. QED BY <1>3, <1>5, <3>1, <4>3
    <3>5. QED BY <3>2, <3>3, <3>4
  <2>2. CASE p \in {reset, gone}
    <3>1. p.next = 0 /\ p.past = 0 /\ p.mem \in {mem, Empty}
      BY <2>2
    <3>2. \A i \in 1 .. Len(checks) : checks[i].n - 1 <= 0 => Back(checks[i]) <= n0
      BY NoneStays
    <3>3. StartsAt(T, n0, 0, Rest(p.mem, 0), Left(p.mem, 0))
      BY <1>2, <3>1, <3>2, ZeroOutcome
    <3>4. QED BY <1>3, <1>6, <3>1, <3>3
  <2>3. CASE inner /\ u # 0 /\ p = old
    <3>1. p.next = back /\ p.past = Min({back, Len(tokens), c.n})
          /\ p.mem = [text |-> c.text, lo |-> c.lo]
      BY <2>3
    <3>2. u \in 1 .. Len(checks) /\ 0 < n0 /\ n0 < Len(tokens) /\ c.lo < Max({0, n0 - NSwa})
      BY <1>5, <2>3
    <3> HIDE DEF u
    <3>3. LET n == LeaveOne(Min({back, Len(tokens), c.n}), T)
              m == [text |-> c.text, lo |-> c.lo]
          IN  back \in Int /\ StartsAt(T, n0, back, Rest(m, n), Left(m, n))
      BY <1>1, <1>2, <3>2, RestoreOutcome
    <3> HIDE DEF back, c
    <3>4. QED BY <1>3, <3>1, <3>3
  <2>4. QED BY <1>4, <2>1, <2>2, <2>3
<1>8. QED BY <1>1, <1>2, <1>3, <1>7, StartFinish

-----------------------------------------------------------------------------
(* The theorems *)

LEMMA StepKeepsInv ==
    ASSUME IInv, Usual, [Next]_vars
    PROVE  IInv'
<1>1. ASSUME NEW T \in Texts, NEW use \in BOOLEAN, StartPrompt(T, use) PROVE IInv'
  BY <1>1, StartStep
<1>2. ASSUME NEW k \in 1 .. MaxTokens, NEW mark \in BOOLEAN, Chunk(k, mark) PROVE IInv'
  BY <1>2, ChunkStep
<1>3. ASSUME NEW t \in Token, Generate(t) PROVE IInv'
  BY <1>3, GenerateStep
<1>4. ASSUME Release PROVE IInv'
  BY <1>4, ReleaseStep
<1>5. ASSUME ClearPrompt PROVE IInv'
  BY <1>5, ClearStep
<1>6. ASSUME UNCHANGED vars PROVE IInv'
  <2>1. /\ kind' = kind /\ state' = state /\ task' = task /\ tokens' = tokens /\ mem' = mem
        /\ checks' = checks
    BY <1>6 DEF vars
  <2>2. MemOk'
    BY <2>1 DEF IInv, MemOk, MemIs, Thin
  <2>3. ChecksOk'
    BY <2>1 DEF IInv, ChecksOk
  <2>4. TaskOk'
    BY <2>1 DEF IInv, TaskOk, Follows, Reaches, Same, Back
  <2>5. QED BY <2>1, <2>2, <2>3, <2>4 DEF IInv
<1>7. QED BY <1>1, <1>2, <1>3, <1>4, <1>5, <1>6 DEF Next

\* After any series of prompts, cancelled or not, and of checkpoints gone back
\* to, the memory is that of the slot's tokens, its window is there, and the
\* prompt that starts has a token left.
THEOREM SlotMemoryIsSoundHolds ==
    ASSUME Usual
    PROVE  Spec => []SlotMemoryIsSound
<1>1. Init => IInv
  BY InvInit
<1>2. IInv /\ [Next]_vars => IInv'
  BY StepKeepsInv
<1>3. IInv => SlotMemoryIsSound
  BY InvSound
<1>4. QED BY <1>1, <1>2, <1>3, PTL DEF Spec

\* As far as a slot can go back with one of its checkpoints, the checkpoint was
\* made of the tokens the slot has: those that the new prompt contradicts are
\* dropped when it starts.
THEOREM CheckpointsAgreeHolds ==
    ASSUME Usual
    PROVE  Spec => []CheckpointsAgree
<1>1. Init => IInv
  BY InvInit
<1>2. IInv /\ [Next]_vars => IInv'
  BY StepKeepsInv
<1>3. IInv => CheckpointsAgree
  BY InvAgree
<1>4. QED BY <1>1, <1>2, <1>3, PTL DEF Spec

-----------------------------------------------------------------------------
(* The prompt cache: PromptCache, for the same tokens *)

\* What the operations take and leave.
SlotT  == [state : {"idle", "started", "waiting", "generating"},
           job : Prompts \cup {<<>>}, kids : SUBSET Slot, child : BOOLEAN,
           tokens : Texts, buf : Texts]
EntryT == [tokens : Texts \ {<<>>}, data : Texts]
WorldT == [slots : [Slot -> SlotT], cache : Seq(EntryT), limit : Nat]

\* The buffer of a slot is what its prompt says.
Backed(x) == Cut(x.buf, Len(x.tokens)) = x.tokens

\* Texts have a length within the bound.
LEMMA TextIs ==
    ASSUME NEW s \in Texts
    PROVE  s \in Seq(Token) /\ Len(s) \in Nat /\ Len(s) <= MaxTokens
  BY TextsAre, LenProperties

LEMMA EmptyText == <<>> \in Texts
<1>1. <<>> \in Seq(Token) /\ Len(<<>>) = 0
  OBVIOUS
<1>2. Len(<<>>) <= MaxTokens
  BY <1>1, Sizes
<1>3. QED BY <1>1, <1>2, TextsAre, Zenon

\* The first n elements of a sequence, or all of it.
LEMMA CutIs ==
    ASSUME NEW S, NEW s \in Seq(S), NEW n \in Nat
    PROVE  LET m == IF n <= Len(s) THEN n ELSE Len(s)
           IN  m \in 0 .. Len(s) /\ Cut(s, n) = FirstN(s, m)
<1>1. Len(s) \in Nat
  BY LenProperties
<1>2. Min({n, Len(s)}) = IF n <= Len(s) THEN n ELSE Len(s)
  BY <1>1, MinOf
<1>3. QED BY <1>1, <1>2 DEF Cut

\* The first n tokens are a text, and the same for two texts that share more.
LEMMA CutSame ==
    ASSUME NEW S, NEW s \in Seq(S), NEW t \in Seq(S), Cut(s, Len(t)) = t,
           NEW n \in Nat, n <= Len(t)
    PROVE  Cut(s, n) = Cut(t, n) /\ Len(Cut(t, n)) = n
<1>1. Len(s) \in Nat /\ Len(t) \in Nat
  BY LenProperties
<1>2. Cut(t, n) = FirstN(t, n) /\ n \in 0 .. Len(t)
  BY <1>1, CutIs
<1> DEFINE k == IF Len(t) <= Len(s) THEN Len(t) ELSE Len(s)
<1>3. k \in 0 .. Len(s) /\ Cut(s, Len(t)) = FirstN(s, k)
  BY <1>1, CutIs
<1>4. t = FirstN(s, k) /\ Len(FirstN(s, k)) = k /\ \A j \in 1 .. k : FirstN(s, k)[j] = s[j]
  BY <1>3, FirstNIs
<1>5. k = Len(t) /\ Len(t) <= Len(s) /\ n <= Len(s)
  BY <1>1, <1>4
<1>6. Cut(s, n) = FirstN(s, n) /\ n \in 0 .. Len(s)
  BY <1>1, <1>5, CutIs
<1>7. Same(s, t, n)
  BY <1>1, <1>4, <1>5 DEF Same
<1>8. FirstN(s, n) = FirstN(t, n)
  BY <1>5, <1>6, <1>7, FirstNSame
<1>9. Len(FirstN(t, n)) = n
  BY <1>2, FirstNIs
<1>10. QED BY <1>2, <1>6, <1>8, <1>9

LEMMA CutAll ==
    ASSUME NEW S, NEW s \in Seq(S)
    PROVE  Cut(s, Len(s)) = s
<1>1. Cut(s, Len(s)) = FirstN(s, Len(s))
  BY LenProperties, CutIs
<1>2. QED BY <1>1, SubSeqFull DEF FirstN

LEMMA CutNone ==
    ASSUME NEW S, NEW s \in Seq(S)
    PROVE  Cut(s, 0) = <<>>
<1>1. Cut(s, 0) = FirstN(s, 0)
  BY LenProperties, CutIs
<1>2. QED BY <1>1, SubSeqEmpty DEF FirstN

LEMMA CutText ==
    ASSUME NEW s \in Texts, NEW n \in Nat
    PROVE  /\ Cut(s, n) \in Texts
           /\ Len(Cut(s, n)) = IF n <= Len(s) THEN n ELSE Len(s)
<1> DEFINE m == IF n <= Len(s) THEN n ELSE Len(s)
<1>1. s \in Seq(Token) /\ Len(s) \in Nat /\ Len(s) <= MaxTokens
  BY TextIs
<1>2. m \in 0 .. Len(s) /\ Cut(s, n) = FirstN(s, m)
  BY <1>1, CutIs
<1> HIDE DEF m
<1>3. FirstN(s, m) \in Seq(Token) /\ Len(FirstN(s, m)) = m
  BY <1>1, <1>2, FirstNIs
<1>4. FirstN(s, m) \in Texts
  BY <1>1, <1>2, <1>3, TextsAre, Sizes
<1>5. QED BY <1>2, <1>3, <1>4 DEF m

\* prompt_clear() and release() leave a slot whose memory is its prompt's.
LEMMA ClearedIs ==
    ASSUME NEW x \in SlotT
    PROVE  /\ Cleared(x) \in SlotT /\ Backed(Cleared(x)) /\ Cleared(x).tokens = <<>>
           /\ Cleared(x).state = x.state /\ Cleared(x).kids = x.kids
           /\ Cleared(x).job = x.job /\ Cleared(x).child = x.child
<1> DEFINE b == IF conf.unified THEN <<>> ELSE x.buf
           c == [x EXCEPT !.tokens = <<>>, !.buf = b]
<1>1. b \in Texts
  BY EmptyText DEF SlotT
<1>2. Cleared(x) = c
  BY DEF Cleared
<1> HIDE DEF b
<1>3. /\ c \in SlotT /\ c.tokens = <<>> /\ c.buf = b
      /\ c.state = x.state /\ c.kids = x.kids /\ c.job = x.job /\ c.child = x.child
  BY <1>1, EmptyText DEF SlotT
<1>4. Cut(b, 0) = <<>>
  BY <1>1, TextIs, CutNone
<1>5. Len(<<>>) = 0
  OBVIOUS
<1>6. QED BY <1>2, <1>3, <1>4, <1>5 DEF Backed

LEMMA ReleasedIs ==
    ASSUME NEW x \in SlotT
    PROVE  /\ Released(x) \in SlotT /\ Released(x).state = "idle" /\ Released(x).kids = {}
           /\ Backed(x) => Backed(Released(x))
<1> DEFINE y == IF x.child THEN Cleared(x) ELSE x
           r == [y EXCEPT !.state = "idle", !.job = <<>>, !.kids = {}, !.child = FALSE]
<1>1. y \in SlotT /\ (Backed(x) => Backed(y))
  BY ClearedIs
<1>2. Released(x) = r
  BY DEF Released
<1> HIDE DEF y
<1>3. /\ r \in SlotT /\ r.state = "idle" /\ r.kids = {}
      /\ r.tokens = y.tokens /\ r.buf = y.buf
  BY <1>1 DEF SlotT
<1> HIDE DEF r
<1>4. QED BY <1>1, <1>2, <1>3 DEF Backed

-----------------------------------------------------------------------------
(* The saved prompts *)

LEMMA SizeIsNat ==
    ASSUME NEW c \in Seq(EntryT)
    PROVE  Size(c) \in Nat
<1> DEFINE n == Len(c)
           step == [i \in 1 .. n |-> [v \in Nat |-> v + Len(c[i].data)]]
           F == CHOOSE size : size = [i \in 0 .. n |->
                    IF i = 0 THEN 0 ELSE size[i - 1] + Len(c[i].data)]
<1>1. n \in Nat /\ \A i \in 1 .. n : Len(c[i].data) \in Nat
  <2>1. n \in Nat /\ \A i \in 1 .. n : c[i] \in EntryT
    BY LenProperties, ElementOfSeq
  <2>2. \A i \in 1 .. n : c[i].data \in Texts
    BY <2>1 DEF EntryT
  <2>3. QED BY <2>1, <2>2, TextIs
<1>2. step \in [1 .. n -> [Nat -> Nat]]
  BY <1>1
<1>3. PICK f \in [0 .. n -> Nat] :
         f = [i \in 0 .. n |-> IF i = 0 THEN 0 ELSE step[i][f[i - 1]]]
  <2> HIDE DEF step, n
  <2>1. \E f : Rounds(f, Nat, 0, n, step)
    BY <1>1, <1>2, LoopRuns
  <2>2. QED BY <2>1 DEF Rounds
<1>4. \E size : size = [i \in 0 .. n |->
                    IF i = 0 THEN 0 ELSE size[i - 1] + Len(c[i].data)]
  <2>1. ASSUME NEW i \in 0 .. n
        PROVE f[i] = IF i = 0 THEN 0 ELSE f[i - 1] + Len(c[i].data)
    <3>1. f[i] = IF i = 0 THEN 0 ELSE step[i][f[i - 1]]
      BY <1>3
    <3>2. ASSUME i # 0 PROVE step[i][f[i - 1]] = f[i - 1] + Len(c[i].data)
      <4>1. i \in 1 .. n /\ i - 1 \in 0 .. n
        BY <1>1, <3>2
      <4>2. f[i - 1] \in Nat
        BY <1>3, <4>1
      <4>3. QED BY <4>1, <4>2
    <3>3. QED BY <3>1, <3>2
  <2>2. f = [i \in 0 .. n |-> IF i = 0 THEN 0 ELSE f[i - 1] + Len(c[i].data)]
    BY <1>3, <2>1
  <2>3. QED BY <2>2
<1>5. F = [i \in 0 .. n |-> IF i = 0 THEN 0 ELSE F[i - 1] + Len(c[i].data)]
  BY <1>4, Zenon
<1>6. Size(c) = F[n]
  BY Zenon DEF Size
<1> HIDE DEF F
<1>7. \A i \in 0 .. n : F[i] = IF i = 0 THEN 0 ELSE F[i - 1] + Len(c[i].data)
  BY <1>5
<1>8. F[0] \in Nat /\ \A i \in 1 .. n : F[i - 1] \in Nat => F[i] \in Nat
  <2>1. 0 \in 0 .. n /\ \A i \in 1 .. n : i \in 0 .. n /\ i # 0
    BY <1>1
  <2>2. F[0] = 0 /\ \A i \in 1 .. n : F[i] = F[i - 1] + Len(c[i].data)
    BY <1>7, <2>1
  <2>3. ASSUME NEW i \in 1 .. n, F[i - 1] \in Nat PROVE F[i] \in Nat
    <3>1. F[i] = F[i - 1] + Len(c[i].data) /\ Len(c[i].data) \in Nat
      BY <1>1, <2>2
    <3>2. QED BY <2>3, <3>1
  <2>4. QED BY <2>2, <2>3
<1>9. \A i \in 0 .. n : F[i] \in Nat
  <2> HIDE DEF n
  <2>1. QED BY <1>1, <1>8, LoopKeeps
<1>10. QED BY <1>1, <1>6, <1>9

\* The entries of v are some of c.
Among(v, c) ==
    \E e \in [1 .. Len(v) -> 1 .. Len(c)] :
        /\ \A j, k \in 1 .. Len(v) : j # k => e[j] # e[k]
        /\ \A j \in 1 .. Len(v) : v[j] = c[e[j]]

\* Each was computed from its prompt, and none begins another.
True(c)     == \A i \in 1 .. Len(c) : c[i].data = c[i].tokens
Unnested(c) == \A i, j \in 1 .. Len(c) : i # j => ~IsPrefix(c[i].tokens, c[j].tokens)
Tidy(c)     == c \in Seq(EntryT) /\ True(c) /\ Unnested(c)

LEMMA AmongTidy ==
    ASSUME NEW c, Tidy(c), NEW v \in Seq(EntryT), Among(v, c)
    PROVE  Tidy(v)
<1>1. PICK e \in [1 .. Len(v) -> 1 .. Len(c)] :
        /\ \A j, k \in 1 .. Len(v) : j # k => e[j] # e[k]
        /\ \A j \in 1 .. Len(v) : v[j] = c[e[j]]
  BY DEF Among
<1>2. True(v)
  BY <1>1 DEF Tidy, True
<1>3. Unnested(v)
  BY <1>1 DEF Tidy, Unnested
<1>4. QED BY <1>2, <1>3 DEF Tidy

LEMMA AmongSelf ==
    ASSUME NEW c \in Seq(EntryT)
    PROVE  Among(c, c)
<1> DEFINE e == [j \in 1 .. Len(c) |-> j]
<1>1. e \in [1 .. Len(c) -> 1 .. Len(c)] /\ \A j \in 1 .. Len(c) : e[j] = j
  OBVIOUS
<1> HIDE DEF e
<1>2. QED BY <1>1 DEF Among

LEMMA AmongSuffix ==
    ASSUME NEW c \in Seq(EntryT), NEW k \in 1 .. Len(c)
    PROVE  LET v == SubSeq(c, k, Len(c))
           IN  v \in Seq(EntryT) /\ Len(v) = Len(c) - k + 1 /\ Among(v, c)
<1> DEFINE v == SubSeq(c, k, Len(c))
           e == [j \in 1 .. Len(c) - k + 1 |-> k + j - 1]
<1>1. Len(c) \in Nat /\ \A i \in 1 .. Len(c) : c[i] \in EntryT
  BY LenProperties, ElementOfSeq
<1>2. k \in Int /\ Len(c) \in Int /\ \A i \in k .. Len(c) : c[i] \in EntryT
  BY <1>1
<1>3. /\ v \in Seq(EntryT)
      /\ Len(v) = IF k <= Len(c) THEN Len(c) - k + 1 ELSE 0
      /\ \A i \in 1 .. Len(c) - k + 1 : v[i] = c[k + i - 1]
  BY <1>2, SubSeqProperties
<1>4. Len(v) = Len(c) - k + 1
  BY <1>1, <1>3
<1> HIDE DEF v
<1>5. /\ e \in [1 .. Len(v) -> 1 .. Len(c)]
      /\ \A j, l \in 1 .. Len(v) : j # l => e[j] # e[l]
      /\ \A j \in 1 .. Len(v) : v[j] = c[e[j]]
  BY <1>1, <1>3, <1>4
<1> HIDE DEF e
<1>6. Among(v, c)
  BY <1>5 DEF Among
<1>7. QED BY <1>3, <1>4, <1>6 DEF v

\* What update() leaves is within the limit, or a single entry.
Within(c, lim) == Len(c) <= 1 \/ Size(c) <= Cap(lim)

LEMMA KeptCache ==
    ASSUME NEW c, Tidy(c), NEW lim
    PROVE  Tidy(Pruned(c, lim)) /\ Within(Pruned(c, lim), lim)
<1>1. c \in Seq(EntryT) /\ Len(c) \in Nat
  BY LenProperties DEF Tidy
<1>2. CASE c = <<>>
  <2>1. Pruned(c, lim) = c /\ Len(c) = 0
    BY <1>2 DEF Pruned
  <2>2. QED BY <2>1 DEF Within
<1>3. CASE c # <<>>
  <2> DEFINE I == {i \in 1 .. Len(c) :
                      i = Len(c) \/ Size(SubSeq(c, i, Len(c))) <= Cap(lim)}
             k == Min(I)
  <2>1. Len(c) \in I /\ I \subseteq Nat
    BY <1>1, <1>3, EmptySeq
  <2>2. k \in I
    <3> HIDE DEF I
    <3>1. \E x \in I : \A y \in I : x <= y
      BY <2>1, LeastNat
    <3>2. QED BY <3>1 DEF Min
  <2>3. Pruned(c, lim) = SubSeq(c, k, Len(c))
    BY <1>3, Zenon DEF Pruned
  <2> HIDE DEF k
  <2>4. k \in 1 .. Len(c) /\ (k = Len(c) \/ Size(SubSeq(c, k, Len(c))) <= Cap(lim))
    BY <2>2
  <2> DEFINE v == SubSeq(c, k, Len(c))
  <2>5. v \in Seq(EntryT) /\ Len(v) = Len(c) - k + 1 /\ Among(v, c)
    BY <1>1, <2>4, AmongSuffix
  <2>6. Tidy(v)
    BY <2>5, AmongTidy
  <2>7. k = Len(c) => Len(v) = 1
    BY <1>1, <2>5
  <2>8. Within(v, lim)
    BY <2>4, <2>7 DEF Within
  <2>9. QED BY <2>3, <2>6, <2>8
<1>4. QED BY <1>2, <1>3

LEMMA SelectedCache ==
    ASSUME NEW c, Tidy(c), NEW K
    PROVE  LET v == Selected(c, K)
           IN  Tidy(v) /\ \A j \in 1 .. Len(v) : v[j] \in K
<1> DEFINE v == Kept(c, K)
<1>1. c \in Seq(EntryT) /\ Len(c) \in Nat
  BY LenProperties DEF Tidy
<1>2. Selected(c, K) = v
  BY DEF Selected, Kept
<1>3. v \in Seq(EntryT) /\ \E e : Embedded(v, c, K, Len(c), e)
  BY <1>1, KeptIs
<1> HIDE DEF v
<1>4. PICK e : Embedded(v, c, K, Len(c), e)
  BY <1>3
<1>5. ASSUME NEW j \in 1 .. Len(v), NEW k \in 1 .. Len(v), j # k PROVE e[j] # e[k]
  <2>1. j < k \/ k < j
    BY <1>5
  <2>2. e[j] \in 1 .. Len(c) /\ e[k] \in 1 .. Len(c) /\ (e[j] < e[k] \/ e[k] < e[j])
    BY <1>4, <2>1 DEF Embedded
  <2>3. QED BY <2>2
<1>6. Among(v, c)
  BY <1>4, <1>5 DEF Embedded, Among
<1>7. Tidy(v) /\ \A j \in 1 .. Len(v) : v[j] \in K
  BY <1>3, <1>4, <1>6, AmongTidy DEF Embedded
<1>8. QED BY <1>2, <1>7

LEMMA RemovedCache ==
    ASSUME NEW c, Tidy(c), NEW k \in 1 .. Len(c)
    PROVE  Tidy(RemoveAt(c, k))
<1> DEFINE a == SubSeq(c, 1, k - 1)
           b == SubSeq(c, k + 1, Len(c))
           v == a \o b
           e == [j \in 1 .. Len(c) - 1 |-> IF j < k THEN j ELSE j + 1]
<1>1. c \in Seq(EntryT) /\ Len(c) \in Nat /\ \A i \in 1 .. Len(c) : c[i] \in EntryT
  BY LenProperties, ElementOfSeq DEF Tidy
<1>2. /\ a \in Seq(EntryT) /\ Len(a) = k - 1
      /\ \A i \in 1 .. k - 1 : a[i] = c[i]
  <2>1. 1 \in Int /\ k - 1 \in Int /\ \A i \in 1 .. k - 1 : c[i] \in EntryT
    BY <1>1
  <2>2. /\ a \in Seq(EntryT) /\ Len(a) = IF 1 <= k - 1 THEN k - 1 - 1 + 1 ELSE 0
        /\ \A i \in 1 .. k - 1 - 1 + 1 : a[i] = c[1 + i - 1]
    BY <2>1, SubSeqProperties
  <2>3. k - 1 - 1 + 1 = k - 1 /\ \A i \in 1 .. k - 1 : 1 + i - 1 = i
    BY <1>1
  <2>4. QED BY <1>1, <2>2, <2>3
<1>3. /\ b \in Seq(EntryT) /\ Len(b) = Len(c) - k
      /\ \A i \in 1 .. Len(c) - k : b[i] = c[k + i]
  <2>1. k + 1 \in Int /\ Len(c) \in Int /\ \A i \in k + 1 .. Len(c) : c[i] \in EntryT
    BY <1>1
  <2>2. /\ b \in Seq(EntryT) /\ Len(b) = IF k + 1 <= Len(c) THEN Len(c) - (k + 1) + 1 ELSE 0
        /\ \A i \in 1 .. Len(c) - (k + 1) + 1 : b[i] = c[k + 1 + i - 1]
    BY <2>1, SubSeqProperties
  <2>3. Len(b) = Len(c) - k
    BY <1>1, <2>2
  <2>4. ASSUME NEW i \in 1 .. Len(c) - k PROVE b[i] = c[k + i]
    <3>1. i \in 1 .. Len(c) - (k + 1) + 1 /\ k + 1 + i - 1 = k + i
      BY <1>1
    <3>2. b[i] = c[k + 1 + i - 1]
      BY <2>2, <3>1
    <3>3. QED BY <3>1, <3>2
  <2>5. QED BY <2>2, <2>3, <2>4
<1>4. RemoveAt(c, k) = v
  BY DEF RemoveAt
<1> HIDE DEF a, b
<1>5. /\ v \in Seq(EntryT) /\ Len(v) = Len(a) + Len(b)
      /\ \A i \in 1 .. Len(a) + Len(b) : v[i] = IF i <= Len(a) THEN a[i] ELSE b[i - Len(a)]
  BY <1>2, <1>3, ConcatProperties
<1>6. Len(v) = Len(c) - 1
  BY <1>1, <1>2, <1>3, <1>5
<1> HIDE DEF v
<1>7. ASSUME NEW j \in 1 .. Len(v)
      PROVE  e[j] \in 1 .. Len(c) /\ e[j] = (IF j < k THEN j ELSE j + 1) /\ v[j] = c[e[j]]
  <2>1. j \in 1 .. Len(c) - 1
    BY <1>6
  <2>2. e[j] = IF j < k THEN j ELSE j + 1
    BY <2>1
  <2>3. CASE j < k
    <3>1. j \in 1 .. k - 1 /\ j <= Len(a) /\ j \in 1 .. Len(a) + Len(b)
      BY <1>1, <1>2, <1>3, <2>1, <2>3
    <3>2. v[j] = c[j]
      BY <1>2, <1>5, <3>1
    <3>3. QED BY <1>1, <2>1, <2>2, <2>3, <3>2
  <2>4. CASE ~(j < k)
    <3>1. ~(j <= Len(a)) /\ j \in 1 .. Len(a) + Len(b) /\ j - Len(a) \in 1 .. Len(c) - k
          /\ k + (j - Len(a)) = j + 1
      BY <1>1, <1>2, <1>3, <2>1, <2>4
    <3>2. v[j] = c[j + 1]
      BY <1>3, <1>5, <3>1
    <3>3. QED BY <1>1, <2>1, <2>2, <2>4, <3>2
  <2>5. QED BY <2>3, <2>4
<1>8. e \in [1 .. Len(v) -> 1 .. Len(c)]
  BY <1>6, <1>7
<1> HIDE DEF e
<1>9. \A i, j \in 1 .. Len(v) : i # j => e[i] # e[j]
  BY <1>1, <1>7
<1>10. Among(v, c)
  BY <1>7, <1>8, <1>9 DEF Among
<1>11. QED BY <1>4, <1>5, <1>10, AmongTidy

-----------------------------------------------------------------------------
(* The handler of a task *)

\* A state of a handler's work: what is saved is true and holds nothing
\* twice, and an idle slot has the memory of its prompt.
GoodWorld(w) ==
    /\ w \in WorldT
    /\ \A s \in Slot : w.slots[s].state = "idle" => Backed(w.slots[s])
    /\ Tidy(w.cache)

\* From v to w no slot changes but in what an idle one has for a prompt.
Keeps(v, w) ==
    \A u \in Slot :
        /\ w.slots[u].state = v.slots[u].state
        /\ w.slots[u].kids = v.slots[u].kids
        /\ w.slots[u].job = v.slots[u].job
        /\ v.slots[u].state # "idle" => w.slots[u] = v.slots[u]

LEMMA KeepsTwice ==
    ASSUME NEW u, NEW v, NEW w, Keeps(u, v), Keeps(v, w)
    PROVE  Keeps(u, w)
  BY DEF Keeps

CacheAnd(w, c, n) == [w EXCEPT !.cache = c, !.limit = n]

LEMMA WithCache ==
    ASSUME NEW w, GoodWorld(w), NEW c, Tidy(c), NEW n \in Nat
    PROVE  LET v == CacheAnd(w, c, n)
           IN  /\ GoodWorld(v) /\ Keeps(w, v)
               /\ v.slots = w.slots /\ v.cache = c /\ v.limit = n
<1> DEFINE v == CacheAnd(w, c, n)
<1>1. w \in WorldT /\ c \in Seq(EntryT)
  BY DEF GoodWorld, Tidy
<1>2. v \in WorldT /\ v.slots = w.slots /\ v.cache = c /\ v.limit = n
  BY <1>1 DEF WorldT, CacheAnd
<1> HIDE DEF v
<1>3. GoodWorld(v) /\ Keeps(w, v)
  BY <1>2 DEF GoodWorld, Keeps
<1>4. QED BY <1>2, <1>3 DEF v

LEMMA WithCacheOnly ==
    ASSUME NEW w, GoodWorld(w), NEW c, Tidy(c)
    PROVE  LET v == [w EXCEPT !.cache = c]
           IN  /\ GoodWorld(v) /\ Keeps(w, v)
               /\ v.slots = w.slots /\ v.cache = c /\ v.limit = w.limit
<1>1. w \in WorldT /\ w.limit \in Nat
  BY DEF GoodWorld, WorldT
<1>2. [w EXCEPT !.cache = c] = CacheAnd(w, c, w.limit)
  BY <1>1 DEF WorldT, CacheAnd
<1>3. QED BY <1>1, <1>2, WithCache

LEMMA WithSlot ==
    ASSUME NEW w, GoodWorld(w), NEW s \in Slot, w.slots[s].state = "idle",
           NEW x \in SlotT, Backed(x), x.state = "idle",
           x.kids = w.slots[s].kids, x.job = w.slots[s].job
    PROVE  LET v == [w EXCEPT !.slots[s] = x]
           IN  /\ GoodWorld(v) /\ Keeps(w, v)
               /\ v.slots = [w.slots EXCEPT ![s] = x]
               /\ v.cache = w.cache /\ v.limit = w.limit
<1> DEFINE v == [w EXCEPT !.slots[s] = x]
<1>1. w \in WorldT /\ w.slots \in [Slot -> SlotT]
  BY DEF GoodWorld, WorldT
<1>2. /\ v \in WorldT /\ v.cache = w.cache /\ v.limit = w.limit
      /\ v.slots = [w.slots EXCEPT ![s] = x]
  BY <1>1 DEF WorldT
<1> HIDE DEF v
<1>3. \A u \in Slot : v.slots[u] = IF u = s THEN x ELSE w.slots[u]
  BY <1>1, <1>2
<1>4. GoodWorld(v)
  BY <1>2, <1>3 DEF GoodWorld
<1>5. Keeps(w, v)
  BY <1>3 DEF Keeps
<1>6. QED BY <1>2, <1>4, <1>5 DEF v

LEMMA UpdatedKeeps ==
    ASSUME NEW w, GoodWorld(w)
    PROVE  LET v == Updated(w)
           IN  /\ GoodWorld(v) /\ Keeps(w, v) /\ Within(v.cache, v.limit)
               /\ v.slots = w.slots
<1> DEFINE c == Pruned(w.cache, w.limit)
<1>1. Tidy(c) /\ Within(c, w.limit)
  BY KeptCache DEF GoodWorld
<1>2. Updated(w) = [w EXCEPT !.cache = c]
  BY DEF Updated
<1> HIDE DEF c
<1>3. QED BY <1>1, <1>2, WithCacheOnly

\* A prompt that no entry begins with, with the memory of it, is saved next to
\* those it does not begin with.
LEMMA AppendedCache ==
    ASSUME NEW c, Tidy(c), NEW e \in EntryT, e.data = e.tokens,
           \A j \in 1 .. Len(c) : /\ ~IsPrefix(c[j].tokens, e.tokens)
                                  /\ ~IsPrefix(e.tokens, c[j].tokens)
    PROVE  Tidy(Append(c, e))
<1> DEFINE v == Append(c, e)
<1>1. c \in Seq(EntryT) /\ Len(c) \in Nat
  BY LenProperties DEF Tidy
<1>2. /\ v \in Seq(EntryT) /\ Len(v) = Len(c) + 1
      /\ \A j \in 1 .. Len(c) : v[j] = c[j]
      /\ v[Len(c) + 1] = e
  BY <1>1, AppendProperties
<1> HIDE DEF v
<1>3. \A j \in 1 .. Len(v) : j = Len(c) + 1 \/ (j # Len(c) + 1 /\ j \in 1 .. Len(c))
  BY <1>1, <1>2
<1>4. True(v)
  BY <1>2, <1>3 DEF Tidy, True
<1>5. Unnested(v)
  BY <1>2, <1>3 DEF Tidy, Unnested
<1>6. QED BY <1>2, <1>4, <1>5 DEF Tidy, v

LEMMA SaveKeeps ==
    ASSUME NEW w, GoodWorld(w), NEW s \in Slot, w.slots[s].state = "idle",
           w.slots[s].tokens # <<>>, NEW oom
    PROVE  LET v == Save(w, s, oom)
           IN  GoodWorld(v) /\ Keeps(w, v) /\ v.slots = w.slots
<1> DEFINE t    == w.slots[s].tokens
           K    == {e \in ToSet(w.cache) : ~IsPrefix(e.tokens, t)}
           rest == Selected(w.cache, K)
           old  == \E i \in DOMAIN w.cache : IsPrefix(t, w.cache[i].tokens)
           new  == [tokens |-> t, data |-> Cut(w.slots[s].buf, Len(t))]
           lim  == Max({1, (2 * Size(rest)) \div 5})
           low  == CacheAnd(w, rest, lim)
           more == [w EXCEPT !.cache = Append(rest, new)]
<1>1. Save(w, s, oom) = IF old THEN w ELSE IF oom THEN Updated(low) ELSE more
  BY DEF Save, CacheAnd
<1>2. /\ w.slots[s] \in SlotT /\ w.cache \in Seq(EntryT) /\ DOMAIN w.cache = 1 .. Len(w.cache)
      /\ Tidy(w.cache) /\ Backed(w.slots[s])
  <2>1. w.cache \in Seq(EntryT) /\ w.slots[s] \in SlotT
    BY DEF GoodWorld, WorldT
  <2>2. QED BY <2>1, LenProperties DEF GoodWorld
<1>3. t \in Texts /\ new.tokens = t /\ new.data = t /\ new \in EntryT
  BY <1>2 DEF Backed, SlotT, EntryT
<1>4. Tidy(rest) /\ \A j \in 1 .. Len(rest) : rest[j] \in K
  BY <1>2, SelectedCache
<1>5. \A j \in 1 .. Len(rest) : /\ ~IsPrefix(rest[j].tokens, t)
                                /\ rest[j] \in ToSet(w.cache)
  BY <1>4
<1> HIDE DEF t, K, rest, new
<1>6. CASE old
  <2>1. Keeps(w, w)
    BY DEF Keeps
  <2>2. QED BY <1>1, <1>6, <2>1
<1>7. CASE ~old /\ oom
  <2>1. rest \in Seq(EntryT) /\ Size(rest) \in Nat
    BY <1>4, SizeIsNat DEF Tidy
  <2>2. lim \in Nat
    <3> DEFINE d == (2 * Size(rest)) \div 5
    <3>1. d \in Nat
      BY <2>1
    <3> HIDE DEF d
    <3>2. Max({1, d}) \in Nat
      BY <3>1, MaxOf
    <3>3. QED BY <3>2 DEF d
  <2> HIDE DEF lim
  <2>3. GoodWorld(low) /\ Keeps(w, low) /\ low.slots = w.slots
    BY <1>4, <2>2, WithCache
  <2> HIDE DEF low
  <2>4. GoodWorld(Updated(low)) /\ Keeps(low, Updated(low)) /\ Updated(low).slots = low.slots
    BY <2>3, UpdatedKeeps
  <2>5. Save(w, s, oom) = Updated(low)
    BY <1>1, <1>7
  <2>6. QED BY <2>3, <2>4, <2>5, KeepsTwice
<1>8. CASE ~old /\ ~oom
  <2>1. ASSUME NEW j \in 1 .. Len(rest)
        PROVE  /\ ~IsPrefix(rest[j].tokens, new.tokens)
               /\ ~IsPrefix(new.tokens, rest[j].tokens)
    <3>1. rest[j] \in ToSet(w.cache) /\ ~IsPrefix(rest[j].tokens, t)
      BY <1>5
    <3>2. \E i \in DOMAIN w.cache : w.cache[i] = rest[j]
      BY <3>1 DEF ToSet
    <3>3. QED BY <1>3, <1>8, <3>1, <3>2
  <2>2. Tidy(Append(rest, new))
    BY <1>3, <1>4, <2>1, AppendedCache
  <2>3. GoodWorld(more) /\ Keeps(w, more) /\ more.slots = w.slots
    BY <2>2, WithCacheOnly
  <2> HIDE DEF more
  <2>4. QED BY <1>1, <1>8, <2>3
<1>9. QED BY <1>6, <1>7, <1>8

\* The prompt load() goes for is the slot's own or a saved one.
LEMMA BestIs ==
    ASSUME NEW w, NEW s, NEW t, w.cache \in Seq(EntryT)
    PROVE  \/ Best(w, s, t) = w.slots[s].tokens
           \/ \E i \in 1 .. Len(w.cache) : w.cache[i].tokens = Best(w, s, t)
<1> DEFINE n == Len(w.cache)
           a == w.slots[s].tokens
           q(i) == w.cache[i].tokens
           V == {a} \cup {q(i) : i \in 1 .. n}
           step == [i \in 1 .. n |-> [v \in V |-> IF Better(v, q(i), t) THEN q(i) ELSE v]]
           F == CHOOSE best : best = [i \in 0 .. n |->
                    IF i = 0 THEN a
                    ELSE IF Better(best[i - 1], q(i), t) THEN q(i) ELSE best[i - 1]]
<1>1. n \in Nat /\ a \in V /\ \A i \in 1 .. n : q(i) \in V
  BY LenProperties
<1> HIDE DEF V
<1>2. step \in [1 .. n -> [V -> V]]
  BY <1>1
<1>3. PICK f : f \in [0 .. n -> V] /\ f = [i \in 0 .. n |-> IF i = 0 THEN a ELSE step[i][f[i - 1]]]
  <2> HIDE DEF step, n, a
  <2>1. \E f : Rounds(f, V, a, n, step)
    BY <1>1, <1>2, LoopRuns
  <2>2. QED BY <2>1 DEF Rounds
<1>4. \E best : best = [i \in 0 .. n |->
                    IF i = 0 THEN a
                    ELSE IF Better(best[i - 1], q(i), t) THEN q(i) ELSE best[i - 1]]
  <2>1. ASSUME NEW i \in 0 .. n
        PROVE f[i] = IF i = 0 THEN a
                     ELSE IF Better(f[i - 1], q(i), t) THEN q(i) ELSE f[i - 1]
    <3>1. f[i] = IF i = 0 THEN a ELSE step[i][f[i - 1]]
      BY <1>3
    <3>2. ASSUME i # 0
          PROVE  step[i][f[i - 1]] = IF Better(f[i - 1], q(i), t) THEN q(i) ELSE f[i - 1]
      <4>1. i \in 1 .. n /\ i - 1 \in 0 .. n
        BY <1>1, <3>2
      <4>2. f[i - 1] \in V
        BY <1>3, <4>1
      <4>3. QED BY <4>1, <4>2
    <3>3. QED BY <3>1, <3>2
  <2>2. f = [i \in 0 .. n |-> IF i = 0 THEN a
                     ELSE IF Better(f[i - 1], q(i), t) THEN q(i) ELSE f[i - 1]]
    BY <1>3, <2>1
  <2>3. QED BY <2>2
<1>5. F = [i \in 0 .. n |-> IF i = 0 THEN a
                     ELSE IF Better(F[i - 1], q(i), t) THEN q(i) ELSE F[i - 1]]
  BY <1>4, Zenon
<1>6. Best(w, s, t) = F[n]
  BY Zenon DEF Best
<1> HIDE DEF F
<1>7. \A i \in 0 .. n : F[i] = IF i = 0 THEN a
                     ELSE IF Better(F[i - 1], q(i), t) THEN q(i) ELSE F[i - 1]
  BY <1>5
<1>8. F[0] \in V /\ \A i \in 1 .. n : F[i - 1] \in V => F[i] \in V
  <2>1. 0 \in 0 .. n /\ \A i \in 1 .. n : i \in 0 .. n /\ i # 0
    BY <1>1
  <2>2. QED BY <1>1, <1>7, <2>1
<1>9. F[n] \in V
  <2> HIDE DEF n
  <2>1. \A i \in 0 .. n : F[i] \in V
    BY <1>1, <1>8, LoopKeeps
  <2>2. QED BY <1>1, <2>1
<1>10. QED BY <1>6, <1>9 DEF V

LEMMA ClearKeeps ==
    ASSUME NEW w, GoodWorld(w), NEW s \in Slot, w.slots[s].state = "idle"
    PROVE  LET v == [w EXCEPT !.slots[s] = Cleared(@)]
           IN  GoodWorld(v) /\ Keeps(w, v) /\ v.cache = w.cache /\ v.limit = w.limit
<1> DEFINE x == Cleared(w.slots[s])
<1>1. w \in WorldT /\ w.slots[s] \in SlotT
  BY DEF GoodWorld, WorldT
<1>2. /\ x \in SlotT /\ Backed(x) /\ x.state = "idle"
      /\ x.kids = w.slots[s].kids /\ x.job = w.slots[s].job
  BY <1>1, ClearedIs
<1>3. [w EXCEPT !.slots[s] = Cleared(@)] = [w EXCEPT !.slots[s] = x]
  OBVIOUS
<1> HIDE DEF x
<1>4. QED BY <1>2, <1>3, WithSlot, ZenonT(30)

\* What load() makes of a slot and of the entry it found.
Restored(w, s, i) ==
    [w EXCEPT !.slots[s] = [w.slots[s] EXCEPT !.tokens = w.cache[i].tokens,
                                              !.buf = w.cache[i].data]]

LEMMA LoadKeeps ==
    ASSUME NEW w, GoodWorld(w), NEW s \in Slot, w.slots[s].state = "idle", NEW t
    PROVE  LET v == Load(w, s, t)
           IN  GoodWorld(v) /\ Keeps(w, v)
<1> DEFINE best == Best(w, s, t)
           i    == CHOOSE j \in DOMAIN w.cache : w.cache[j].tokens = best
           full == conf.unified /\ Total(w, Slot \ {s}) + Len(best) > NCtx
           c    == RemoveAt(w.cache, i)
           one  == [w EXCEPT !.slots[s] = Cleared(@)]
           two  == [w EXCEPT !.cache = c,
                             !.slots[s].tokens = best, !.slots[s].buf = w.cache[i].data]
<1>1. Load(w, s, t) = IF best = w.slots[s].tokens THEN w ELSE IF full THEN one ELSE two
  BY DEF Load
<1>2. /\ w \in WorldT /\ w.slots \in [Slot -> SlotT] /\ w.slots[s] \in SlotT
      /\ w.cache \in Seq(EntryT) /\ DOMAIN w.cache = 1 .. Len(w.cache)
      /\ Tidy(w.cache)
  <2>1. w \in WorldT /\ w.cache \in Seq(EntryT) /\ w.slots \in [Slot -> SlotT]
    BY DEF GoodWorld, WorldT
  <2>2. QED BY <2>1, LenProperties DEF GoodWorld
<1>3. CASE best = w.slots[s].tokens
  <2>1. Keeps(w, w)
    BY DEF Keeps
  <2>2. QED BY <1>1, <1>3, <2>1
<1>4. CASE best # w.slots[s].tokens /\ full
  <2>1. GoodWorld(one) /\ Keeps(w, one)
    BY ClearKeeps
  <2> HIDE DEF one
  <2>2. QED BY <1>1, <1>4, <2>1
<1>5. CASE best # w.slots[s].tokens /\ ~full
  <2>1. i \in 1 .. Len(w.cache) /\ w.cache[i].tokens = best
    <3>1. \E j \in DOMAIN w.cache : w.cache[j].tokens = best
      BY <1>2, <1>5, BestIs
    <3> HIDE DEF best
    <3>2. QED BY <1>2, <3>1
  <2> HIDE DEF i
  <2>2. Tidy(c)
    BY <1>2, <2>1, RemovedCache
  <2> DEFINE x == [w.slots[s] EXCEPT !.tokens = w.cache[i].tokens, !.buf = w.cache[i].data]
  <2>3. w.cache[i] \in EntryT /\ w.cache[i].data = w.cache[i].tokens
    BY <1>2, <2>1, ElementOfSeq DEF Tidy, True
  <2>4. w.cache[i].tokens \in Texts /\ w.cache[i].data \in Texts
    BY <2>3 DEF EntryT
  <2>5. /\ x \in SlotT /\ x.tokens = w.cache[i].tokens /\ x.buf = w.cache[i].data
        /\ x.state = w.slots[s].state /\ x.kids = w.slots[s].kids /\ x.job = w.slots[s].job
    BY <1>2, <2>4 DEF SlotT
  <2> HIDE DEF x
  <2>6. Backed(x)
    <3>1. Cut(x.tokens, Len(x.tokens)) = x.tokens
      BY <2>4, <2>5, TextIs, CutAll
    <3>2. QED BY <2>3, <2>5, <3>1 DEF Backed
  <2> DEFINE v == Restored(w, s, i)
  <2>7. v = [w EXCEPT !.slots[s] = x]
    BY DEF Restored, x
  <2>8. GoodWorld(v) /\ Keeps(w, v) /\ v.cache = w.cache
    BY <2>5, <2>6, <2>7, WithSlot
  <2>9. GoodWorld([v EXCEPT !.cache = c]) /\ Keeps(v, [v EXCEPT !.cache = c])
    <3> HIDE DEF v, c
    <3>1. QED BY <2>2, <2>8, WithCacheOnly
  <2>10. two = [v EXCEPT !.cache = c]
    BY <1>2, <2>1, <2>7 DEF WorldT, SlotT, x
  <2> HIDE DEF two, v
  <2>11. GoodWorld(two) /\ Keeps(w, two)
    BY <2>8, <2>9, <2>10, KeepsTwice
  <2>12. QED BY <1>1, <1>5, <2>11
<1>6. QED BY <1>3, <1>4, <1>5

WithinW(w) == Within(w.cache, w.limit)

LEMMA SaveAndClearKeeps ==
    ASSUME NEW w, GoodWorld(w), NEW s \in Slot, NEW oom
    PROVE  LET v == SaveAndClear(w, s, oom)
           IN  GoodWorld(v) /\ Keeps(w, v) /\ (WithinW(w) => WithinW(v))
<1> DEFINE a == Save(w, s, oom)
           b == [a EXCEPT !.slots[s] = Cleared(@)]
<1>1. CASE w.slots[s].tokens = <<>> \/ ~IsIdle(w, s)
  <2>1. SaveAndClear(w, s, oom) = w
    BY <1>1 DEF SaveAndClear
  <2>2. Keeps(w, w)
    BY DEF Keeps
  <2>3. QED BY <2>1, <2>2
<1>2. CASE w.slots[s].tokens # <<>> /\ IsIdle(w, s)
  <2>1. SaveAndClear(w, s, oom) = Updated(b)
    BY <1>2 DEF SaveAndClear
  <2>2. w.slots[s].state = "idle"
    BY <1>2 DEF IsIdle
  <2>3. GoodWorld(a) /\ Keeps(w, a) /\ a.slots = w.slots
    BY <1>2, <2>2, SaveKeeps
  <2> HIDE DEF a
  <2>4. GoodWorld(b) /\ Keeps(a, b)
    BY <2>2, <2>3, ClearKeeps
  <2> HIDE DEF b
  <2>5. GoodWorld(Updated(b)) /\ Keeps(b, Updated(b)) /\ WithinW(Updated(b))
    BY <2>4, UpdatedKeeps DEF WithinW
  <2>6. Keeps(w, Updated(b))
    BY <2>3, <2>4, <2>5, KeepsTwice
  <2>7. QED BY <2>1, <2>5, <2>6
<1>3. QED BY <1>1, <1>2

LEMMA IdleClearedKeeps ==
    ASSUME NEW w, GoodWorld(w), NEW oom
    PROVE  LET v == IdleCleared(w, oom)
           IN  GoodWorld(v) /\ Keeps(w, v) /\ (WithinW(w) => WithinW(v))
<1> DEFINE V == {v \in WorldT : GoodWorld(v) /\ Keeps(w, v) /\ (WithinW(w) => WithinW(v))}
           n == NSlots
           step == [s \in 1 .. n |-> [v \in V |-> SaveAndClear(v, s, oom)]]
           F == CHOOSE done : done = [s \in 0 .. n |->
                    IF s = 0 THEN w ELSE SaveAndClear(done[s - 1], s, oom)]
<1>1. n \in Nat /\ Slot = 1 .. n
  BY PromptCacheAssumption DEF Slot
<1>2. w \in V
  BY DEF GoodWorld, Keeps
<1>3. ASSUME NEW s \in 1 .. n, NEW v \in V PROVE SaveAndClear(v, s, oom) \in V
  <2> DEFINE u == SaveAndClear(v, s, oom)
  <2>1. GoodWorld(v) /\ Keeps(w, v) /\ (WithinW(w) => WithinW(v)) /\ s \in Slot
    BY <1>1
  <2>2. GoodWorld(u) /\ Keeps(v, u) /\ (WithinW(v) => WithinW(u))
    BY <2>1, SaveAndClearKeeps
  <2> HIDE DEF u
  <2>3. Keeps(w, u) /\ u \in WorldT
    BY <2>1, <2>2, KeepsTwice DEF GoodWorld
  <2>4. u \in V
    BY <2>1, <2>2, <2>3
  <2>5. QED BY <2>4 DEF u
<1> HIDE DEF V
<1>4. step \in [1 .. n -> [V -> V]]
  BY <1>3
<1>5. PICK f : f \in [0 .. n -> V] /\ f = [i \in 0 .. n |-> IF i = 0 THEN w ELSE step[i][f[i - 1]]]
  <2> HIDE DEF step
  <2>1. \E f : Rounds(f, V, w, n, step)
    BY <1>1, <1>2, <1>4, LoopRuns
  <2>2. QED BY <2>1 DEF Rounds
<1>6. \E done : done = [s \in 0 .. n |->
                    IF s = 0 THEN w ELSE SaveAndClear(done[s - 1], s, oom)]
  <2>1. ASSUME NEW i \in 0 .. n
        PROVE f[i] = IF i = 0 THEN w ELSE SaveAndClear(f[i - 1], i, oom)
    <3>1. f[i] = IF i = 0 THEN w ELSE step[i][f[i - 1]]
      BY <1>5
    <3>2. ASSUME i # 0 PROVE step[i][f[i - 1]] = SaveAndClear(f[i - 1], i, oom)
      <4>1. i \in 1 .. n /\ i - 1 \in 0 .. n
        BY <1>1, <3>2
      <4>2. f[i - 1] \in V
        BY <1>5, <4>1
      <4>3. QED BY <4>1, <4>2
    <3>3. QED BY <3>1, <3>2
  <2>2. f = [i \in 0 .. n |-> IF i = 0 THEN w ELSE SaveAndClear(f[i - 1], i, oom)]
    BY <1>5, <2>1
  <2>3. QED BY <2>2
<1>7. F = [s \in 0 .. n |-> IF s = 0 THEN w ELSE SaveAndClear(F[s - 1], s, oom)]
  BY <1>6, Zenon
<1>8. IdleCleared(w, oom) = IF conf.clear THEN F[n] ELSE w
  BY Zenon DEF IdleCleared
<1> HIDE DEF F
<1>9. \A s \in 0 .. n : F[s] = IF s = 0 THEN w ELSE SaveAndClear(F[s - 1], s, oom)
  BY <1>7
<1>10. F[0] \in V /\ \A i \in 1 .. n : F[i - 1] \in V => F[i] \in V
  <2>1. 0 \in 0 .. n /\ \A i \in 1 .. n : i \in 0 .. n /\ i # 0
    BY <1>1
  <2>2. QED BY <1>2, <1>3, <1>9, <2>1
<1>11. F[n] \in V
  <2>1. \A i \in 0 .. n : F[i] \in V
    BY <1>1, <1>10, LoopKeeps
  <2>2. QED BY <1>1, <2>1
<1>12. IdleCleared(w, oom) \in V
  BY <1>2, <1>8, <1>11
<1>13. QED BY <1>12 DEF V

-----------------------------------------------------------------------------
(* The slot of a task *)

LEMMA SharedIs ==
    ASSUME NEW s \in Seq(Token), NEW t \in Seq(Token)
    PROVE  CommonPrefix(s, t) \in Nat /\ CommonPrefix(s, t) <= Len(s)
           /\ CommonPrefix(s, t) <= Len(t)
<1>1. CommonPrefix(s, t) \in 0 .. Len(s) /\ CommonPrefix(s, t) <= Len(t)
  BY CommonPrefixIs
<1>2. Len(s) \in Nat
  BY LenProperties
<1>3. QED BY <1>1, <1>2

LEMMA PromptIs ==
    ASSUME NEW t \in Prompts
    PROVE  t \in Texts /\ t \in Seq(Token) /\ Len(t) \in 1 .. MaxTokens
<1>1. t \in Seq(Token) /\ Len(t) \in 1 .. MaxTokens
  BY PromptCacheAssumption
<1>2. Len(t) <= MaxTokens
  BY <1>1, Sizes
<1>3. QED BY <1>1, <1>2, TextsAre

\* get_available_slot() returns an idle slot.
LEMMA AvailableIsIdle ==
    ASSUME slots \in [Slot -> SlotT], lru \in [Slot -> Slot],
           Idle # {}, NEW t \in Prompts
    PROVE  Available(t) \in Slot /\ slots[Available(t)].state = "idle"
<1>1. Slot \subseteq Nat /\ Idle \subseteq Slot
  BY PromptCacheAssumption DEF Slot, Idle
<1>2. t \in Seq(Token) /\ Len(t) \in Nat
  BY PromptIs, LenProperties
<1>3. CASE Similar(t) # {}
  <2> DEFINE S    == Similar(t)
             C(s) == Common(s, t)
             D    == {Len(t) - C(s) : s \in S}
  <2>1. S \subseteq Slot
    BY <1>1 DEF Similar
  <2>2. ASSUME NEW s \in S PROVE C(s) \in Nat /\ C(s) <= Len(t)
    <3>1. slots[s].tokens \in Seq(Token)
      <4>1. slots[s] \in SlotT
        BY <2>1
      <4>2. slots[s].tokens \in Texts
        BY <4>1 DEF SlotT
      <4>3. QED BY <4>2, TextIs
    <3>2. QED BY <1>2, <3>1, SharedIs DEF Common
  <2>3. MostSimilar(t) = CHOOSE s \in S : \A u \in S : C(s) > C(u) \/ (C(s) = C(u) /\ s <= u)
    BY Zenon DEF MostSimilar
  <2> HIDE DEF S, C
  <2>4. D \subseteq Nat /\ D # {}
    <3>1. \A s \in S : Len(t) - C(s) \in Nat
      BY <1>2, <2>2
    <3>2. QED BY <1>3, <3>1 DEF S
  <2>5. PICK s1 \in S : \A u \in S : C(u) <= C(s1)
    <3>1. PICK d \in D : \A y \in D : d <= y
      <4> HIDE DEF D
      <4>1. QED BY <2>4, LeastNat
    <3>2. PICK s1 \in S : d = Len(t) - C(s1)
      BY <3>1
    <3>3. ASSUME NEW u \in S PROVE C(u) <= C(s1)
      <4>1. Len(t) - C(s1) <= Len(t) - C(u)
        BY <3>1, <3>2
      <4>2. QED BY <1>2, <2>2, <4>1
    <3>4. QED BY <3>3
  <2> DEFINE T == {s \in S : C(s) = C(s1)}
  <2>6. PICK s2 \in T : \A u \in T : s2 <= u
    <3>1. T \subseteq Nat /\ T # {}
      BY <1>1, <2>1
    <3>2. QED BY <3>1, LeastNat
  <2>7. \A u \in S : C(s2) > C(u) \/ (C(s2) = C(u) /\ s2 <= u)
    <3>1. ASSUME NEW u \in S PROVE C(s2) > C(u) \/ (C(s2) = C(u) /\ s2 <= u)
      <4>1. C(u) <= C(s1) /\ C(u) \in Nat /\ C(s1) \in Nat /\ C(s2) = C(s1)
        BY <2>2, <2>5, <2>6
      <4>2. C(u) = C(s1) => s2 <= u
        BY <2>6
      <4>3. QED BY <4>1, <4>2
    <3>2. QED BY <3>1
  <2>8. MostSimilar(t) \in S
    BY <2>3, <2>6, <2>7
  <2>9. MostSimilar(t) \in Idle
    BY <2>8 DEF S, Similar
  <2>10. Available(t) = MostSimilar(t)
    BY <1>3 DEF Available
  <2>11. QED BY <2>9, <2>10 DEF Idle
<1>4. CASE Similar(t) = {}
  <2> DEFINE R == {lru[s] : s \in Idle}
  <2>1. R \subseteq Nat /\ R # {}
    BY <1>1
  <2>2. PICK r \in R : \A y \in R : r <= y
    BY <2>1, LeastNat
  <2>3. PICK s \in Idle : r = lru[s]
    BY <2>2
  <2>4. \A u \in Idle : lru[s] <= lru[u]
    BY <2>2, <2>3
  <2>5. LeastRecent \in Idle
    BY <2>4 DEF LeastRecent
  <2>6. Available(t) = LeastRecent
    BY <1>4 DEF Available
  <2>7. QED BY <2>5, <2>6 DEF Idle
<1>5. QED BY <1>3, <1>4

-----------------------------------------------------------------------------
(* The order in which the slots were used *)

LruOk(r) == r \in [Slot -> Slot] /\ \A s, u \in Slot : r[s] = r[u] => s = u

\* Releasing slots one after the other leaves an order.
LEMMA UsedLastIs ==
    ASSUME LruOk(lru), NEW S \in SUBSET Slot
    PROVE  LruOk(UsedLast(S))
<1> DEFINE R    == Slot \ S
           A(s) == {u \in S : u <= s}
           B(s) == {u \in R : lru[u] <= lru[s]}
           r    == UsedLast(S)
<1>1. Slot = 1 .. NSlots /\ NSlots \in Nat
  BY PromptCacheAssumption DEF Slot
<1>2. IsFiniteSet(Slot) /\ Cardinality(Slot) = NSlots
  <2>1. IsFiniteSet(1 .. NSlots) /\ Cardinality(1 .. NSlots) = IF 1 > NSlots THEN 0 ELSE NSlots - 1 + 1
    BY <1>1, FS_Interval
  <2>2. QED BY <1>1, <2>1
<1>3. IsFiniteSet(S) /\ IsFiniteSet(R) /\ Cardinality(S) \in Nat /\ Cardinality(R) \in Nat
  BY <1>2, FS_Subset, FS_CardinalityType
<1>4. Cardinality(S) + Cardinality(R) = NSlots
  <2>1. S \cup R = Slot /\ S \cap R = {}
    OBVIOUS
  <2>2. Cardinality(S \cup R) = Cardinality(S) + Cardinality(R) - Cardinality(S \cap R)
    BY <1>3, FS_Union
  <2>3. Cardinality(S \cap R) = 0
    BY <2>1, FS_EmptySet
  <2>4. Cardinality(S \cup R) = NSlots
    BY <1>2, <2>1
  <2>5. QED BY <1>3, <2>2, <2>3, <2>4
<1>5. ASSUME NEW s \in Slot
      PROVE r[s] = IF s \in S THEN Cardinality(R) + Cardinality(A(s)) ELSE Cardinality(B(s))
  BY DEF UsedLast, Cardinality, Cardinality
<1> HIDE DEF r
<1>6. ASSUME NEW s \in S
      PROVE IsFiniteSet(A(s)) /\ Cardinality(A(s)) \in 1 .. Cardinality(S)
  <2>1. s \in A(s) /\ A(s) \in SUBSET S
    BY <1>1
  <2>2. IsFiniteSet(A(s)) /\ Cardinality(A(s)) <= Cardinality(S) /\ Cardinality(A(s)) \in Nat
    BY <1>3, <2>1, FS_Subset, FS_CardinalityType
  <2>3. Cardinality(A(s)) # 0
    BY <2>1, <2>2, FS_EmptySet
  <2>4. QED BY <1>3, <2>2, <2>3
<1>7. ASSUME NEW s \in R
      PROVE IsFiniteSet(B(s)) /\ Cardinality(B(s)) \in 1 .. Cardinality(R)
  <2>1. s \in B(s) /\ B(s) \in SUBSET R
    BY <1>1 DEF LruOk
  <2>2. IsFiniteSet(B(s)) /\ Cardinality(B(s)) <= Cardinality(R) /\ Cardinality(B(s)) \in Nat
    BY <1>3, <2>1, FS_Subset, FS_CardinalityType
  <2>3. Cardinality(B(s)) # 0
    BY <2>1, <2>2, FS_EmptySet
  <2>4. QED BY <1>3, <2>2, <2>3
<1>8. ASSUME NEW s \in S, NEW u \in S, s < u PROVE Cardinality(A(s)) < Cardinality(A(u))
  <2>1. s \in Nat /\ u \in Nat
    BY <1>1
  <2>2. ASSUME NEW x \in A(s) PROVE x \in A(u)
    <3>1. x \in S /\ x \in Nat /\ x <= s
      BY <1>1
    <3>2. x <= u
      BY <1>8, <2>1, <3>1
    <3>3. QED BY <3>1, <3>2
  <2>3. u \in A(u) /\ u \notin A(s)
    BY <1>8, <2>1
  <2>4. A(s) \in SUBSET A(u) /\ A(s) # A(u)
    BY <2>2, <2>3
  <2> HIDE DEF A
  <2>5. IsFiniteSet(A(u)) /\ Cardinality(A(u)) \in Nat /\ Cardinality(A(s)) \in Nat
    BY <1>3, <1>6
  <2>6. Cardinality(A(s)) <= Cardinality(A(u)) /\ Cardinality(A(s)) # Cardinality(A(u))
    BY <2>4, <2>5, FS_Subset
  <2>7. QED BY <2>5, <2>6
<1>9. ASSUME NEW s \in R, NEW u \in R, lru[s] < lru[u] PROVE Cardinality(B(s)) < Cardinality(B(u))
  <2>1. \A x \in Slot : lru[x] \in Nat
    <3>1. Slot \subseteq Nat
      BY <1>1
    <3>2. QED BY <3>1 DEF LruOk
  <2>2. ASSUME NEW x \in B(s) PROVE x \in B(u)
    <3>1. x \in R /\ lru[x] <= lru[s]
      OBVIOUS
    <3>2. lru[x] <= lru[u]
      BY <1>9, <2>1, <3>1
    <3>3. QED BY <3>1, <3>2
  <2>3. u \in B(u) /\ u \notin B(s)
    BY <1>9, <2>1
  <2>4. B(s) \in SUBSET B(u) /\ B(s) # B(u)
    BY <2>2, <2>3
  <2> HIDE DEF B
  <2>5. IsFiniteSet(B(u)) /\ Cardinality(B(u)) \in Nat /\ Cardinality(B(s)) \in Nat
    BY <1>3, <1>7
  <2>6. Cardinality(B(s)) <= Cardinality(B(u)) /\ Cardinality(B(s)) # Cardinality(B(u))
    BY <2>4, <2>5, FS_Subset
  <2>7. QED BY <2>5, <2>6
<1> HIDE DEF A, B
<1>10. r \in [Slot -> Slot]
  <2>1. ASSUME NEW s \in Slot PROVE r[s] \in Slot
    <3>1. CASE s \in S
      <4>1. r[s] = Cardinality(R) + Cardinality(A(s)) /\ Cardinality(A(s)) \in 1 .. Cardinality(S)
        BY <1>5, <1>6, <3>1
      <4>2. r[s] \in 1 .. NSlots
        <5> HIDE DEF R
        <5>1. QED BY <1>1, <1>3, <1>4, <4>1
      <4>3. QED BY <1>1, <4>2
    <3>2. CASE s \in R
      <4>1. r[s] = Cardinality(B(s)) /\ Cardinality(B(s)) \in 1 .. Cardinality(R)
        BY <1>5, <1>7, <3>2
      <4>2. r[s] \in 1 .. NSlots
        <5> HIDE DEF R
        <5>1. QED BY <1>1, <1>3, <1>4, <4>1
      <4>3. QED BY <1>1, <4>2
    <3>3. QED BY <3>1, <3>2
  <2>2. r = [s \in Slot |-> r[s]]
    BY DEF r, UsedLast
  <2>3. QED BY <2>1, <2>2
<1>11. ASSUME NEW s \in Slot, NEW u \in Slot, r[s] = r[u] PROVE s = u
  <2>1. CASE s \in S /\ u \in S
    <3>1. Cardinality(A(s)) = Cardinality(A(u))
      <4>1. Cardinality(A(s)) \in Nat /\ Cardinality(A(u)) \in Nat
        BY <1>3, <1>6, <2>1
      <4>2. Cardinality(R) + Cardinality(A(s)) = Cardinality(R) + Cardinality(A(u))
        BY <1>5, <1>11, <2>1
      <4>3. Cardinality(R) \in Nat
        BY <1>3
      <4> HIDE DEF R
      <4>4. QED BY <4>1, <4>2, <4>3
    <3>2. ~(s < u) /\ ~(u < s)
      <4>1. Cardinality(A(s)) \in Nat /\ Cardinality(A(u)) \in Nat
        BY <1>3, <1>6, <2>1
      <4>2. QED BY <1>8, <2>1, <3>1, <4>1
    <3>3. QED BY <1>1, <3>2
  <2>2. CASE s \in R /\ u \in R
    <3>1. Cardinality(B(s)) = Cardinality(B(u)) /\ Cardinality(B(s)) \in Nat
      BY <1>3, <1>5, <1>7, <1>11, <2>2
    <3>2. ~(lru[s] < lru[u]) /\ ~(lru[u] < lru[s])
      BY <1>9, <2>2, <3>1
    <3>3. lru[s] \in Nat /\ lru[u] \in Nat
      BY <1>1 DEF LruOk
    <3>4. lru[s] = lru[u]
      BY <3>2, <3>3
    <3>5. QED BY <3>4 DEF LruOk
  <2>3. ASSUME NEW a \in S, NEW b \in R PROVE r[a] # r[b]
    <3>1. Cardinality(A(a)) \in 1 .. Cardinality(S) /\ Cardinality(B(b)) \in 1 .. Cardinality(R)
      BY <1>6, <1>7
    <3>2. r[a] = Cardinality(R) + Cardinality(A(a)) /\ r[b] = Cardinality(B(b))
      BY <1>5
    <3>3. QED BY <1>3, <3>1, <3>2
  <2>4. QED BY <1>11, <2>1, <2>2, <2>3
<1>12. QED BY <1>10, <1>11 DEF LruOk, r

-----------------------------------------------------------------------------
(* The inductive invariant *)

\* The children a started slot waits with are its own.
KidsOk(sl) ==
    \A s \in Slot :
        /\ sl[s].state # "started" => sl[s].kids = {}
        /\ sl[s].state = "started" => sl[s].job \in Prompts
        /\ \A u \in sl[s].kids : sl[u].state = "waiting"
        /\ \A r \in Slot : r # s => sl[s].kids \cap sl[r].kids = {}

\* Both ends of a pending copy are generating.
CopiesOk(sl, ps) ==
    \A c \in ps : /\ c.src \in Slot /\ c.dst \in Slot
                  /\ sl[c.src].state = "generating" /\ sl[c.dst].state = "generating"

\* MemoryIsTrue, slot by slot.
Due(ps, s)      == \E c \in ps : c.dst = s
Source(ps, s)   == (CHOOSE c \in ps : c.dst = s).src
BufOf(sl, ps, s) == IF Due(ps, s) THEN sl[Source(ps, s)].buf ELSE sl[s].buf
MemoryOk(sl, ps) ==
    \A s \in Slot : Cut(BufOf(sl, ps, s), Len(sl[s].tokens)) = sl[s].tokens

SlotsOk(sl, ps) ==
    /\ sl \in [Slot -> SlotT] /\ ps \subseteq [src : Slot, dst : Slot]
    /\ KidsOk(sl) /\ CopiesOk(sl, ps) /\ MemoryOk(sl, ps)

CacheInv ==
    /\ conf \in Confs
    /\ SlotsOk(slots, pending)
    /\ Tidy(cache) /\ limit \in Nat /\ Within(cache, limit)
    /\ LruOk(lru)

LEMMA SourceIs ==
    ASSUME NEW sl, NEW ps, SlotsOk(sl, ps), NEW s \in Slot, Due(ps, s)
    PROVE  /\ Source(ps, s) \in Slot /\ sl[Source(ps, s)].state = "generating"
           /\ sl[s].state = "generating"
  BY DEF SlotsOk, CopiesOk, Due, Source

LEMMA BackedIs ==
    ASSUME NEW sl, NEW ps, SlotsOk(sl, ps), NEW s \in Slot
    PROVE  sl[s] \in SlotT /\ (~Due(ps, s) => Backed(sl[s]))
  BY DEF SlotsOk, MemoryOk, BufOf, Backed

LEMMA MemoryIs ==
    ASSUME CacheInv
    PROVE  /\ MemoryIsTrue
           /\ \A s \in Slot : Copied([u \in Slot |-> slots[u].buf])[s]
                                   = BufOf(slots, pending, s)
<1> DEFINE b == [u \in Slot |-> slots[u].buf]
<1>1. ASSUME NEW s \in Slot PROVE Copied(b)[s] = BufOf(slots, pending, s)
  <2>1. Copied(b)[s] = IF Due(pending, s) THEN b[Source(pending, s)] ELSE b[s]
    BY DEF Copied, CopyTo, Due, Source
  <2>2. Due(pending, s) => Source(pending, s) \in Slot
    BY SourceIs DEF CacheInv
  <2>3. QED BY <2>1, <2>2 DEF BufOf
<1>2. MemoryIsTrue
  <2>1. \A s \in Slot : Cut(Copied(b)[s], Len(slots[s].tokens)) = slots[s].tokens
    BY <1>1 DEF CacheInv, SlotsOk, MemoryOk
  <2>2. QED BY <2>1 DEF MemoryIsTrue
<1>3. QED BY <1>1, <1>2

\* What the invariant is for.
LEMMA CacheInvSound ==
    ASSUME CacheInv
    PROVE  PromptsAreTrue /\ CacheIsTidy
<1>1. CacheTypeOK
  BY DEF CacheInv, SlotsOk, Tidy, LruOk, CacheTypeOK, SlotT, EntryT
<1>2. DOMAIN cache = 1 .. Len(cache)
  BY LenProperties DEF CacheInv, Tidy
<1>3. SavedIsTrue
  BY <1>2 DEF CacheInv, Tidy, True, SavedIsTrue
<1>4. NoneContained
  BY <1>2 DEF CacheInv, Tidy, Unnested, NoneContained
<1>5. WithinLimit
  BY DEF CacheInv, Within, WithinLimit
<1>6. QED BY <1>1, <1>3, <1>4, <1>5, MemoryIs DEF PromptsAreTrue, CacheIsTidy

LEMMA CacheInvInit ==
    ASSUME CacheInit
    PROVE  CacheInv
<1> DEFINE x == [state |-> "idle", job |-> <<>>, kids |-> {}, child |-> FALSE,
                 tokens |-> <<>>, buf |-> <<>>]
<1>1. \A s \in Slot : slots[s] = x
  BY DEF CacheInit
<1>2. x \in SlotT /\ Backed(x) /\ x.kids = {} /\ x.state = "idle"
  <2>1. x \in SlotT
    BY EmptyText DEF SlotT
  <2>2. Len(<<>>) = 0 /\ Cut(<<>>, 0) = <<>>
    BY EmptyText, TextIs, CutNone
  <2>3. QED BY <2>1, <2>2 DEF Backed
<1>3. slots \in [Slot -> SlotT]
  BY <1>2 DEF CacheInit
<1> HIDE DEF x
<1>4. pending = {} /\ cache = <<>> /\ conf \in Confs /\ limit = conf.limit
  BY DEF CacheInit
<1>5. limit \in Nat
  BY <1>4, PromptCacheAssumption
<1>6. KidsOk(slots)
  BY <1>1, <1>2 DEF KidsOk
<1>7. SlotsOk(slots, pending)
  BY <1>1, <1>2, <1>3, <1>4, <1>6
     DEF SlotsOk, CopiesOk, MemoryOk, BufOf, Due, Backed
<1>8. Tidy(cache) /\ Within(cache, limit)
  <2>1. cache \in Seq(EntryT) /\ Len(cache) = 0
    BY <1>4
  <2>2. QED BY <2>1 DEF Tidy, True, Unnested, Within
<1>9. LruOk(lru)
  <2>1. Slot = 1 .. NSlots /\ NSlots \in Nat
    BY PromptCacheAssumption DEF Slot
  <2>2. lru = [s \in Slot |-> NSlots + 1 - s]
    BY DEF CacheInit
  <2>3. QED BY <2>1, <2>2 DEF LruOk
<1>10. QED BY <1>4, <1>5, <1>7, <1>8, <1>9 DEF CacheInv

LEMMA WorldIsGood ==
    ASSUME CacheInv
    PROVE  GoodWorld(World) /\ World.slots = slots /\ WithinW(World)
           /\ World.cache = cache /\ World.limit = limit
<1>1. World = [slots |-> slots, cache |-> cache, limit |-> limit]
  BY DEF World
<1>2. World \in WorldT
  BY <1>1 DEF CacheInv, SlotsOk, Tidy, WorldT
<1>3. ASSUME NEW s \in Slot, slots[s].state = "idle" PROVE Backed(slots[s])
  <2>1. SlotsOk(slots, pending)
    BY DEF CacheInv
  <2>2. ~Due(pending, s)
    BY <1>3, <2>1, SourceIs
  <2>3. QED BY <2>1, <2>2, BackedIs
<1>4. QED BY <1>1, <1>2, <1>3 DEF GoodWorld, CacheInv, WithinW

-----------------------------------------------------------------------------
(* The actions *)

\* A handler changes of the slots only what idle ones hold: what waits,
\* starts or is to be copied stays as it was.
LEMMA HandlerKeeps ==
    ASSUME NEW sl, NEW ps, SlotsOk(sl, ps), NEW v, v.slots = sl,
           NEW w, GoodWorld(w), Keeps(v, w)
    PROVE  SlotsOk(w.slots, ps)
<1> DEFINE z == w.slots
<1>1. z \in [Slot -> SlotT] /\ ps \subseteq [src : Slot, dst : Slot]
  BY DEF GoodWorld, WorldT, SlotsOk
<1>2. \A u \in Slot : /\ z[u].state = sl[u].state /\ z[u].kids = sl[u].kids
                      /\ z[u].job = sl[u].job
                      /\ sl[u].state # "idle" => z[u] = sl[u]
  BY DEF Keeps
<1>3. \A u \in Slot : z[u].state = "idle" => Backed(z[u])
  BY DEF GoodWorld
<1> HIDE DEF z
<1>4. KidsOk(z)
  <2>1. KidsOk(sl) /\ sl \in [Slot -> SlotT]
    BY DEF SlotsOk
  <2>2. \A s \in Slot : sl[s].kids \subseteq Slot
    BY <2>1 DEF SlotT
  <2>3. QED BY <1>2, <2>1, <2>2 DEF KidsOk
<1>5. CopiesOk(z, ps)
  BY <1>2 DEF SlotsOk, CopiesOk
<1>6. MemoryOk(z, ps)
  <2>1. ASSUME NEW s \in Slot
        PROVE  Cut(BufOf(z, ps, s), Len(z[s].tokens)) = z[s].tokens
    <3>1. Cut(BufOf(sl, ps, s), Len(sl[s].tokens)) = sl[s].tokens
      BY DEF SlotsOk, MemoryOk
    <3>2. CASE Due(ps, s)
      <4>1. /\ Source(ps, s) \in Slot /\ sl[Source(ps, s)].state = "generating"
            /\ sl[s].state = "generating"
        BY <3>2, SourceIs
      <4>2. z[s] = sl[s] /\ z[Source(ps, s)] = sl[Source(ps, s)]
        BY <1>2, <4>1
      <4>3. QED BY <3>1, <3>2, <4>2 DEF BufOf
    <3>3. CASE ~Due(ps, s)
      <4>1. Backed(z[s])
        <5>1. Backed(sl[s])
          BY <3>3, BackedIs
        <5>2. z[s] = sl[s] \/ z[s].state = "idle"
          BY <1>2
        <5>3. QED BY <1>3, <5>1, <5>2
      <4>2. QED BY <3>3, <4>1 DEF BufOf, Backed
    <3>4. QED BY <3>2, <3>3
  <2>2. QED BY <2>1 DEF MemoryOk
<1>7. QED BY <1>1, <1>4, <1>5, <1>6 DEF SlotsOk, z

\* The slots a task may have, one for itself and those of its children.
AllFree(sl, s, kids) == /\ s \in Slot \ kids /\ kids \subseteq Slot
                        /\ \A u \in kids \cup {s} : sl[u].state = "idle"

LEMMA StartedKeeps ==
    ASSUME NEW w, GoodWorld(w), NEW ps, SlotsOk(w.slots, ps),
           NEW s, NEW kids, AllFree(w.slots, s, kids), NEW t \in Prompts
    PROVE  LET v == Started(w, s, t, kids)
           IN  GoodWorld(v) /\ SlotsOk(v.slots, ps) /\ (WithinW(w) => WithinW(v))
<1> DEFINE a == w.slots
           x(u) == IF u = s
                   THEN [a[u] EXCEPT !.state = "started", !.job = t, !.kids = kids]
                   ELSE IF u \in kids THEN [a[u] EXCEPT !.state = "waiting", !.child = TRUE]
                   ELSE a[u]
           z == [u \in Slot |-> x(u)]
           v == Started(w, s, t, kids)
<1>0. /\ s \in Slot /\ a[s].state = "idle" /\ kids \in SUBSET Slot /\ s \notin kids
      /\ \A u \in kids : a[u].state = "idle"
  BY DEF AllFree
<1>1. w \in WorldT /\ a \in [Slot -> SlotT] /\ KidsOk(a) /\ CopiesOk(a, ps) /\ MemoryOk(a, ps)
      /\ ps \subseteq [src : Slot, dst : Slot]
  BY DEF GoodWorld, WorldT, SlotsOk
<1>2. v = [w EXCEPT !.slots = z]
  BY DEF Started
<1>3. ASSUME NEW u \in Slot
      PROVE  /\ x(u) \in SlotT /\ x(u).tokens = a[u].tokens /\ x(u).buf = a[u].buf
             /\ x(u).state = (IF u = s THEN "started" ELSE IF u \in kids THEN "waiting" ELSE a[u].state)
             /\ x(u).kids = (IF u = s THEN kids ELSE a[u].kids)
             /\ x(u).job = (IF u = s THEN t ELSE a[u].job)
  <2>1. PICK y \in SlotT : y = a[u]
    BY <1>1
  <2>2. CASE u = s
    <3>1. x(u) = [y EXCEPT !.state = "started", !.job = t, !.kids = kids]
      BY <2>1, <2>2
    <3>2. /\ t \in Prompts \cup {<<>>} /\ kids \in SUBSET Slot
      BY <1>0
    <3>3. QED BY <2>1, <2>2, <3>1, <3>2 DEF SlotT
  <2>3. CASE u # s /\ u \in kids
    <3>1. x(u) = [y EXCEPT !.state = "waiting", !.child = TRUE]
      BY <2>1, <2>3
    <3>2. QED BY <2>1, <2>3, <3>1 DEF SlotT
  <2>4. CASE u # s /\ u \notin kids
    BY <2>1, <2>4
  <2>5. QED BY <2>2, <2>3, <2>4
<1>4. z \in [Slot -> SlotT]
  BY <1>3
<1>5. v \in WorldT /\ v.slots = z /\ v.cache = w.cache /\ v.limit = w.limit
  BY <1>1, <1>2, <1>4 DEF WorldT
<1>6. \A u \in Slot :
         /\ z[u].tokens = a[u].tokens /\ z[u].buf = a[u].buf
         /\ z[u].state = (IF u = s THEN "started" ELSE IF u \in kids THEN "waiting" ELSE a[u].state)
         /\ z[u].kids = (IF u = s THEN kids ELSE a[u].kids)
         /\ z[u].job = (IF u = s THEN t ELSE a[u].job)
  BY <1>3
<1> HIDE DEF x, z, v
<1>7. \A u \in Slot : z[u].state = "idle" => Backed(z[u])
  BY <1>0, <1>6 DEF GoodWorld, Backed
<1>8. GoodWorld(v)
  BY <1>5, <1>7 DEF GoodWorld
<1>9. KidsOk(z)
  <2>1. \A r \in Slot : a[r].kids \subseteq Slot /\ \A u \in a[r].kids : a[u].state = "waiting"
    BY <1>1 DEF KidsOk, SlotT
  <2>2. \A r \in Slot : z[r].state # "started" => z[r].kids = {}
    <3>1. \A r \in Slot : a[r].state # "started" => a[r].kids = {}
      BY <1>1 DEF KidsOk
    <3>2. QED BY <1>0, <1>6, <3>1
  <2>3. \A r \in Slot : z[r].state = "started" => z[r].job \in Prompts
    <3>1. \A r \in Slot : a[r].state = "started" => a[r].job \in Prompts
      BY <1>1 DEF KidsOk
    <3>2. QED BY <1>0, <1>6, <3>1
  <2>4. \A r \in Slot : \A u \in z[r].kids : z[u].state = "waiting"
    BY <1>0, <1>6, <2>1
  <2>5. ASSUME NEW r \in Slot, NEW q \in Slot, r # q PROVE z[r].kids \cap z[q].kids = {}
    <3>1. a[r].kids \cap a[q].kids = {}
      BY <1>1, <2>5 DEF KidsOk
    <3>2. kids \cap a[r].kids = {} /\ kids \cap a[q].kids = {}
      BY <1>0, <2>1
    <3>3. QED BY <1>6, <2>5, <3>1, <3>2
  <2>6. QED BY <2>2, <2>3, <2>4, <2>5 DEF KidsOk
<1>10. CopiesOk(z, ps)
  BY <1>0, <1>1, <1>6 DEF CopiesOk
<1>11. MemoryOk(z, ps)
  <2>1. ASSUME NEW u \in Slot PROVE BufOf(z, ps, u) = BufOf(a, ps, u)
    <3>1. Due(ps, u) => Source(ps, u) \in Slot
      BY SourceIs
    <3>2. QED BY <1>6, <3>1 DEF BufOf
  <2>2. QED BY <1>1, <1>6, <2>1 DEF MemoryOk
<1>12. SlotsOk(z, ps)
  BY <1>1, <1>4, <1>9, <1>10, <1>11 DEF SlotsOk
<1>13. WithinW(w) => WithinW(v)
  BY <1>5 DEF WithinW
<1>14. QED BY <1>5, <1>8, <1>12, <1>13 DEF v

LEMMA BecomeKeeps ==
    ASSUME CacheInv, NEW w, GoodWorld(w), WithinW(w), SlotsOk(w.slots, pending),
           Become(w), UNCHANGED <<conf, pending, lru>>
    PROVE  CacheInv'
<1>1. slots' = w.slots /\ cache' = w.cache /\ limit' = w.limit
  BY DEF Become
<1>2. Tidy(w.cache) /\ w.limit \in Nat /\ Within(w.cache, w.limit)
  BY DEF GoodWorld, WorldT, WithinW
<1>3. SlotsOk(slots, pending)'
  BY <1>1
<1>4. Tidy(cache)' /\ (limit \in Nat)' /\ Within(cache, limit)'
  BY <1>1, <1>2 DEF Within, Cap
<1>5. (conf \in Confs)' /\ LruOk(lru)'
  BY DEF CacheInv, LruOk
<1>6. QED BY <1>3, <1>4, <1>5 DEF CacheInv

LEMMA CacheUpdatedKeeps ==
    ASSUME CacheInv, NEW s \in Slot, slots[s].state = "idle", NEW t, NEW oom
    PROVE  LET w == CacheUpdated(s, t, oom)
           IN  GoodWorld(w) /\ Keeps(World, w) /\ WithinW(w)
<1> DEFINE W  == World
           a  == IF slots[s].tokens = <<>> THEN W ELSE Save(W, s, oom)
           b  == Load(a, s, t)
           c  == Updated(b)
<1>1. GoodWorld(W) /\ W.slots = slots /\ WithinW(W) /\ Keeps(W, W)
  BY WorldIsGood DEF Keeps
<1>2. CacheUpdated(s, t, oom) = IF UsesCache(s, t) THEN c ELSE W
  BY DEF CacheUpdated
<1> HIDE DEF W
<1>3. GoodWorld(a) /\ Keeps(W, a) /\ a.slots = W.slots
  <2>1. CASE slots[s].tokens = <<>>
    BY <1>1, <2>1
  <2>2. CASE slots[s].tokens # <<>>
    <3>1. W.slots[s].state = "idle" /\ W.slots[s].tokens # <<>>
      BY <1>1, <2>2
    <3>2. GoodWorld(Save(W, s, oom)) /\ Keeps(W, Save(W, s, oom))
          /\ Save(W, s, oom).slots = W.slots
      BY <1>1, <3>1, SaveKeeps
    <3>3. QED BY <2>2, <3>2
  <2>3. QED BY <2>1, <2>2
<1> HIDE DEF a
<1>4. GoodWorld(b) /\ Keeps(a, b)
  <2>1. a.slots[s].state = "idle"
    BY <1>1, <1>3
  <2>2. QED BY <1>3, <2>1, LoadKeeps
<1> HIDE DEF b
<1>5. GoodWorld(c) /\ Keeps(b, c) /\ WithinW(c)
  BY <1>4, UpdatedKeeps DEF WithinW
<1> HIDE DEF c
<1>6. Keeps(W, c)
  BY <1>3, <1>4, <1>5, KeepsTwice
<1>7. QED BY <1>1, <1>2, <1>5, <1>6 DEF W

\* A task starts in an idle slot, with idle ones for its children.
LEMMA StartKeeps ==
    ASSUME CacheInv,
           NEW w, GoodWorld(w), Keeps(World, w), WithinW(w),
           NEW s, NEW kids, AllFree(slots, s, kids), NEW t \in Prompts, NEW oom,
           Become(IdleCleared(Started(w, s, t, kids), oom)),
           UNCHANGED <<conf, pending, lru>>
    PROVE  CacheInv'
<1> DEFINE a == Started(w, s, t, kids)
           b == IdleCleared(a, oom)
<1>1. World.slots = slots /\ SlotsOk(slots, pending)
  BY WorldIsGood DEF CacheInv
<1>2. SlotsOk(w.slots, pending)
  BY <1>1, HandlerKeeps
<1>3. AllFree(w.slots, s, kids)
  BY <1>1 DEF Keeps, AllFree
<1>4. GoodWorld(a) /\ SlotsOk(a.slots, pending) /\ WithinW(a)
  <2> HIDE DEF b
  <2>1. QED BY <1>2, <1>3, StartedKeeps, Zenon
<1> HIDE DEF a
<1>5. GoodWorld(b) /\ Keeps(a, b) /\ WithinW(b)
  BY <1>4, IdleClearedKeeps
<1>6. Become(b)
  BY DEF a
<1> HIDE DEF b
<1>7. SlotsOk(b.slots, pending)
  BY <1>4, <1>5, HandlerKeeps
<1>8. QED BY <1>5, <1>6, <1>7, BecomeKeeps

LEMMA LaunchKeeps ==
    ASSUME CacheInv, NEW t \in Prompts, NEW n, NEW oom,
           Launch(t, n, oom)
    PROVE  CacheInv'
<1> DEFINE s    == Available(t)
           w    == CacheUpdated(s, t, oom)
           kids == Free(s, n)
<1>1. /\ Idle # {} /\ UNCHANGED <<conf, pending, lru>>
      /\ IF Cardinality(kids) < n THEN Become(w)
         ELSE Become(IdleCleared(Started(w, s, t, kids), oom))
  BY DEF Launch
<1>2. s \in Slot /\ slots[s].state = "idle"
  BY <1>1, AvailableIsIdle DEF CacheInv, SlotsOk, LruOk
<1>3. AllFree(slots, s, kids)
  BY <1>2 DEF Free, Idle, AllFree
<1> HIDE DEF s, kids
<1>4. GoodWorld(w) /\ Keeps(World, w) /\ WithinW(w)
  BY <1>2, CacheUpdatedKeeps
<1> HIDE DEF w
<1>5. CASE Become(w)
  <2>1. World.slots = slots /\ SlotsOk(slots, pending)
    BY WorldIsGood DEF CacheInv
  <2>2. SlotsOk(w.slots, pending)
    BY <1>4, <2>1, HandlerKeeps
  <2>3. QED BY <1>1, <1>4, <1>5, <2>2, BecomeKeeps
<1>6. CASE Become(IdleCleared(Started(w, s, t, kids), oom))
  BY <1>1, <1>2, <1>3, <1>4, <1>6, StartKeeps
<1>7. QED BY <1>1, <1>5, <1>6

LEMMA LaunchAtKeeps ==
    ASSUME CacheInv, NEW s \in Slot, NEW t \in Prompts,
           LaunchAt(s, t)
    PROVE  CacheInv'
<1>1. /\ slots[s].state = "idle" /\ UNCHANGED <<conf, pending, lru>>
      /\ Become(IdleCleared(Started(World, s, t, {}), FALSE))
  BY DEF LaunchAt, Idle
<1>2. GoodWorld(World) /\ WithinW(World) /\ Keeps(World, World)
  BY WorldIsGood DEF Keeps
<1>3. AllFree(slots, s, {})
  BY <1>1 DEF AllFree
<1>4. QED BY <1>1, <1>2, <1>3, StartKeeps

LEMMA EraseKeeps ==
    ASSUME CacheInv, NEW s \in Slot, Erase(s)
    PROVE  CacheInv'
<1> DEFINE w == [World EXCEPT !.slots[s] = Cleared(@)]
<1>1. /\ slots[s].state = "idle" /\ slots' = [slots EXCEPT ![s] = Cleared(@)]
      /\ UNCHANGED <<conf, cache, limit, pending, lru>>
  BY DEF Erase, Idle
<1>2. /\ GoodWorld(World) /\ WithinW(World) /\ World.slots = slots
      /\ World.cache = cache /\ World.limit = limit
  BY WorldIsGood
<1>3. GoodWorld(w) /\ Keeps(World, w) /\ w.cache = cache /\ w.limit = limit
  BY <1>1, <1>2, ClearKeeps
<1>4. w.slots = [slots EXCEPT ![s] = Cleared(@)]
  BY <1>2 DEF World
<1> HIDE DEF w
<1>5. Become(w) /\ WithinW(w)
  BY <1>1, <1>2, <1>3, <1>4 DEF Become, WithinW
<1>6. SlotsOk(w.slots, pending)
  BY <1>2, <1>3, HandlerKeeps DEF CacheInv
<1>7. QED BY <1>1, <1>3, <1>5, <1>6, BecomeKeeps

LEMMA StopKeeps ==
    ASSUME CacheInv, NEW s \in Slot, Settled(s), Stop(s)
    PROVE  CacheInv'
<1> DEFINE S == {s} \cup slots[s].kids
           z == slots'
<1>1. /\ slots[s].state \in {"started", "generating"}
      /\ slots' = [u \in Slot |-> IF u \in S THEN Released(slots[u]) ELSE slots[u]]
      /\ lru' = UsedLast(S) /\ UNCHANGED <<conf, cache, limit, pending>>
  BY DEF Stop
<1>2. /\ slots \in [Slot -> SlotT] /\ pending \subseteq [src : Slot, dst : Slot]
      /\ KidsOk(slots) /\ CopiesOk(slots, pending) /\ MemoryOk(slots, pending)
      /\ SlotsOk(slots, pending)
  BY DEF CacheInv, SlotsOk
<1>3. S \in SUBSET Slot /\ \A u \in S : u = s \/ slots[u].state = "waiting"
  BY <1>2 DEF SlotT, KidsOk
<1>4. \A u \in Slot : u \notin S => z[u] = slots[u]
  BY <1>1
<1>5. \A u \in S : /\ z[u] \in SlotT /\ z[u].state = "idle" /\ z[u].kids = {}
                   /\ Backed(slots[u]) => Backed(z[u])
  <2>1. ASSUME NEW u \in S
        PROVE  /\ z[u] \in SlotT /\ z[u].state = "idle" /\ z[u].kids = {}
               /\ Backed(slots[u]) => Backed(z[u])
    <3>1. slots[u] \in SlotT /\ z[u] = Released(slots[u])
      BY <1>1, <1>2, <1>3
    <3>2. QED BY <3>1, ReleasedIs
  <2>2. QED BY <2>1
<1>6. DOMAIN z = Slot /\ z = [u \in Slot |-> z[u]]
  BY <1>1
<1>7. z \in [Slot -> SlotT]
  BY <1>2, <1>4, <1>5, <1>6
<1>8. KidsOk(z)
  <2>1. ASSUME NEW r \in Slot, r \notin S, NEW u \in slots[r].kids PROVE u \in Slot \ S
    <3>1. u \in Slot /\ slots[u].state = "waiting" /\ u \notin slots[s].kids
      BY <1>2, <2>1 DEF KidsOk, SlotT
    <3>2. QED BY <1>1, <3>1
  <2>2. \A r \in Slot : /\ z[r].state # "started" => z[r].kids = {}
                        /\ z[r].state = "started" => z[r].job \in Prompts
    BY <1>2, <1>4, <1>5 DEF KidsOk
  <2>3. ASSUME NEW r \in Slot, NEW u \in z[r].kids PROVE z[u].state = "waiting"
    <3>1. r \notin S /\ z[r] = slots[r]
      BY <1>4, <1>5, <2>3
    <3>2. u \in Slot /\ z[u] = slots[u]
      BY <1>4, <2>1, <2>3, <3>1
    <3>3. QED BY <1>2, <2>3, <3>1, <3>2 DEF KidsOk
  <2>4. ASSUME NEW r \in Slot, NEW q \in Slot, q # r PROVE z[r].kids \cap z[q].kids = {}
    <3>1. slots[r].kids \cap slots[q].kids = {}
      BY <1>2, <2>4 DEF KidsOk
    <3>2. QED BY <1>4, <1>5, <3>1
  <2>5. QED BY <2>2, <2>3, <2>4 DEF KidsOk
<1>9. \A c \in pending : c.src \in Slot \ S /\ c.dst \in Slot \ S
  BY <1>2, <1>3 DEF Settled, CopiesOk
<1>10. CopiesOk(z, pending)
  BY <1>2, <1>4, <1>9 DEF CopiesOk
<1>11. MemoryOk(z, pending)
  <2>1. ASSUME NEW u \in Slot
        PROVE  Cut(BufOf(z, pending, u), Len(z[u].tokens)) = z[u].tokens
    <3>1. Cut(BufOf(slots, pending, u), Len(slots[u].tokens)) = slots[u].tokens
      BY <1>2 DEF MemoryOk
    <3>2. CASE Due(pending, u)
      <4>1. u \in Slot \ S /\ Source(pending, u) \in Slot \ S
        BY <1>9, <3>2 DEF Due, Source
      <4>2. QED BY <1>4, <3>1, <3>2, <4>1 DEF BufOf
    <3>3. CASE ~Due(pending, u)
      <4>1. Backed(slots[u])
        BY <1>2, <3>3, BackedIs
      <4>2. Backed(z[u])
        BY <1>4, <1>5, <4>1
      <4>3. QED BY <3>3, <4>2 DEF BufOf, Backed
    <3>4. QED BY <3>2, <3>3
  <2>2. QED BY <2>1 DEF MemoryOk
<1>12. SlotsOk(z, pending)
  BY <1>2, <1>7, <1>8, <1>10, <1>11 DEF SlotsOk
<1>13. LruOk(lru')
  <2>1. LruOk(UsedLast(S))
    BY <1>3, UsedLastIs DEF CacheInv
  <2>2. QED BY <1>1, <2>1
<1>14. CacheInv'
  <2>1. SlotsOk(slots, pending)' /\ LruOk(lru)'
    BY <1>1, <1>12, <1>13
  <2>2. (conf \in Confs)' /\ Tidy(cache)' /\ (limit \in Nat)' /\ Within(cache, limit)'
    BY <1>1 DEF CacheInv, Within, Cap
  <2>3. QED BY <2>1, <2>2 DEF CacheInv
<1>15. QED BY <1>14

\* What a decode makes of a slot, its buffer copied: memory and prompt grow
\* by the same tokens.
LEMMA DecodedSlot ==
    ASSUME CacheInv, NEW s \in Slot,
           NEW out \in [Generating -> Answers],
           \A u \in Generating : Len(slots[u].tokens) < MaxTokens,
           NEW buf, buf[s] = BufOf(slots, pending, s)
    PROVE  LET d == Evaluated(s, buf, out)
           IN  /\ d \in SlotT /\ d.buf = d.tokens
               /\ d.state = (IF slots[s].state = "started" THEN "generating" ELSE slots[s].state)
               /\ d.kids = slots[s].kids /\ d.job = slots[s].job
<1> DEFINE x    == slots[s]
           t    == x.tokens
           past == Past(s)
           add  == Added(s, out)
           a    == Cut(t, past) \o add
           b    == Cut(buf[s], past) \o add
           d    == Evaluated(s, buf, out)
<1>1. /\ x \in SlotT /\ t \in Texts /\ t \in Seq(Token) /\ Len(t) \in Nat /\ Len(t) <= MaxTokens
      /\ MaxTokens \in Nat /\ SlotsOk(slots, pending) /\ KidsOk(slots)
  <2>1. SlotsOk(slots, pending) /\ x \in SlotT
    BY DEF CacheInv, SlotsOk
  <2>2. t \in Texts
    BY <2>1 DEF SlotT
  <2>3. QED BY <2>1, <2>2, TextIs, Sizes DEF SlotsOk
<1>2. buf[s] \in Texts /\ buf[s] \in Seq(Token) /\ Cut(buf[s], Len(t)) = t
  <2>1. \A u \in Slot : slots[u].buf \in Texts
    BY <1>1 DEF SlotsOk, SlotT
  <2>2. BufOf(slots, pending, s) \in Texts
    BY <1>1, <2>1, SourceIs DEF BufOf
  <2>3. Cut(buf[s], Len(t)) = t
    BY <1>1 DEF SlotsOk, MemoryOk
  <2>4. QED BY <2>2, <2>3, TextIs
<1>3. /\ past \in Nat /\ past <= Len(t)
      /\ add \in Seq(Token) /\ Len(add) \in Nat /\ past + Len(add) <= MaxTokens
  <2>1. CASE x.state = "started"
    <3> DEFINE j == x.job
               c == Common(s, j)
    <3>1. s \in Starting /\ s \notin Generating /\ j \in Prompts
      BY <1>1, <2>1 DEF Starting, Generating, KidsOk
    <3>2. j \in Seq(Token) /\ Len(j) \in 1 .. MaxTokens
      BY <3>1, PromptIs
    <3>3. c \in Nat /\ c <= Len(t)
      BY <1>1, <3>2, SharedIs DEF Common
    <3>4. past = Min({c, Len(j) - 1})
      BY <3>1 DEF Past
    <3> HIDE DEF c, j, past
    <3>5. past = IF c <= Len(j) - 1 THEN c ELSE Len(j) - 1
      <4>1. c \in Int /\ Len(j) - 1 \in Int
        BY <1>1, <3>2, <3>3
      <4>2. QED BY <3>4, <4>1, MinOf
    <3>6. past \in Nat /\ past <= Len(t) /\ past < Len(j) /\ Len(j) \in Nat /\ Len(j) <= MaxTokens
      BY <1>1, <3>2, <3>3, <3>5
    <3>7. add = SubSeq(j, past + 1, Len(j))
      BY <3>1 DEF Added, j, past
    <3>8. add \in Seq(Token) /\ Len(add) = Len(j) - past
      <4>1. \A i \in past + 1 .. Len(j) : j[i] \in Token
        <5>1. \A i \in 1 .. Len(j) : j[i] \in Token
          BY <3>2, ElementOfSeq
        <5>2. QED BY <3>6, <5>1
      <4>2. past + 1 \in Int /\ Len(j) \in Int
        BY <3>6
      <4>3. add \in Seq(Token) /\ Len(add) = IF past + 1 <= Len(j) THEN Len(j) - (past + 1) + 1 ELSE 0
        BY <3>7, <4>1, <4>2, SubSeqProperties
      <4>4. QED BY <3>6, <4>3
    <3>9. QED BY <1>1, <3>6, <3>8
  <2>2. CASE x.state = "generating"
    <3>1. s \in Generating /\ s \notin Starting
      BY <2>2 DEF Generating, Starting
    <3>2. past = Len(t) /\ add = <<out[s]>>
      BY <3>1 DEF Past, Added
    <3>3. out[s] \in Token /\ Len(t) < MaxTokens
      BY <3>1, PromptCacheAssumption
    <3>4. add \in Seq(Token) /\ Len(add) = 1
      BY <3>2, <3>3
    <3>5. QED BY <1>1, <3>2, <3>3, <3>4
  <2>3. CASE x.state \notin {"started", "generating"}
    <3>1. s \notin Generating /\ s \notin Starting
      BY <2>3 DEF Generating, Starting
    <3>2. past = Len(t) /\ add = <<>>
      BY <3>1 DEF Past, Added
    <3>3. add \in Seq(Token) /\ Len(add) = 0
      BY <3>2
    <3>4. QED BY <1>1, <3>2, <3>3
  <2>4. QED BY <2>1, <2>2, <2>3
<1>4. d = [x EXCEPT !.tokens = a, !.buf = b,
                    !.state = IF s \in Starting THEN "generating" ELSE x.state]
  BY DEF Evaluated
<1>5. s \in Starting <=> x.state = "started"
  BY DEF Starting
<1> HIDE DEF past, add, t
<1>6. a = b /\ a \in Texts
  <2>1. Cut(buf[s], past) = Cut(t, past) /\ Len(Cut(t, past)) = past
    BY <1>1, <1>2, <1>3, CutSame
  <2>2. Cut(t, past) \in Texts
    BY <1>1, <1>3, CutText
  <2>3. Cut(t, past) \in Seq(Token)
    BY <2>2, TextIs
  <2> DEFINE f == Cut(t, past)
  <2>4. f \in Seq(Token) /\ Len(f) = past /\ a = f \o add /\ b = f \o add
    BY <2>1, <2>3
  <2> HIDE DEF f, a, b
  <2>5. a \in Seq(Token) /\ Len(a) = past + Len(add)
    BY <1>3, <2>4, ConcatProperties
  <2>6. QED BY <1>3, <2>4, <2>5, TextsAre
<1> HIDE DEF a, b, x
<1>7. /\ d \in SlotT /\ d.buf = b /\ d.tokens = a
      /\ d.state = (IF x.state = "started" THEN "generating" ELSE x.state)
      /\ d.kids = x.kids /\ d.job = x.job
  BY <1>1, <1>4, <1>5, <1>6 DEF SlotT
<1>8. QED BY <1>6, <1>7 DEF x

\* A state between a decode and what is done about its outcome: the tokens
\* were computed, and some of the idle slots of S were cleared.
Computed(z) ==
    /\ z \in [Slot -> SlotT]
    /\ \A s \in Slot :
        /\ Backed(z[s])
        /\ slots[s].state # "idle" => z[s].buf = z[s].tokens
        /\ z[s].state = (IF slots[s].state = "started" THEN "generating" ELSE slots[s].state)
        /\ z[s].kids = slots[s].kids

LEMMA ComputedSlots ==
    ASSUME CacheInv,
           NEW out \in [Generating -> Answers],
           \A u \in Generating : Len(slots[u].tokens) < MaxTokens
    PROVE  LET buf == Copied([s \in Slot |-> slots[s].buf])
               all == [World EXCEPT !.slots = [s \in Slot |-> Evaluated(s, buf, out)]]
               w   == Purged(all, Victims(all))
           IN  Computed(w.slots) /\ w = [slots |-> w.slots, cache |-> cache, limit |-> limit]
<1> DEFINE buf == Copied([s \in Slot |-> slots[s].buf])
           D   == [s \in Slot |-> Evaluated(s, buf, out)]
           all == [World EXCEPT !.slots = D]
           V   == Victims(all)
           z   == [s \in Slot |-> IF s \in V THEN Cleared(D[s]) ELSE D[s]]
           w   == Purged(all, V)
<1>1. \A s \in Slot : buf[s] = BufOf(slots, pending, s)
  BY MemoryIs
<1>2. V \subseteq Idle
  BY DEF Victims
<1> HIDE DEF buf, V
<1>3. ASSUME NEW s \in Slot
      PROVE  /\ D[s] \in SlotT /\ D[s].buf = D[s].tokens
             /\ D[s].state = (IF slots[s].state = "started" THEN "generating" ELSE slots[s].state)
             /\ D[s].kids = slots[s].kids
  <2>1. buf[s] = BufOf(slots, pending, s)
    BY <1>1
  <2>2. D[s] = Evaluated(s, buf, out)
    OBVIOUS
  <2> HIDE DEF D
  <2>3. QED BY <2>1, <2>2, DecodedSlot
<1>4. World = [slots |-> slots, cache |-> cache, limit |-> limit]
  BY DEF World
<1>5. all.slots = D /\ all = [slots |-> D, cache |-> cache, limit |-> limit]
  BY <1>4
<1>6. w.slots = z /\ w = [slots |-> w.slots, cache |-> cache, limit |-> limit]
  <2>1. w = [all EXCEPT !.slots = z]
    BY <1>5 DEF Purged
  <2> HIDE DEF D, V, w, z
  <2>2. w = [slots |-> z, cache |-> cache, limit |-> limit]
    BY <1>5, <2>1
  <2>3. QED BY <2>2
<1> HIDE DEF D, w
<1>7. ASSUME NEW s \in Slot
      PROVE  /\ z[s] \in SlotT /\ Backed(z[s])
             /\ slots[s].state # "idle" => z[s].buf = z[s].tokens
             /\ z[s].state = (IF slots[s].state = "started" THEN "generating" ELSE slots[s].state)
             /\ z[s].kids = slots[s].kids
  <2>1. CASE s \in V
    <3>1. z[s] = Cleared(D[s]) /\ slots[s].state = "idle"
      BY <1>2, <2>1 DEF Idle
    <3> HIDE DEF z
    <3>2. QED BY <1>3, <3>1, ClearedIs
  <2>2. CASE s \notin V
    <3>1. z[s] = D[s]
      BY <2>2
    <3> HIDE DEF z
    <3>2. D[s].tokens \in Texts
      BY <1>3 DEF SlotT
    <3>3. Backed(D[s])
      BY <1>3, <3>2, TextIs, CutAll DEF Backed
    <3>4. QED BY <1>3, <3>1, <3>3
  <2>3. QED BY <2>1, <2>2
<1>8. z \in [Slot -> SlotT]
  BY <1>7
<1> HIDE DEF z
<1>9. Computed(z)
  BY <1>7, <1>8 DEF Computed
<1>10. QED BY <1>6, <1>9 DEF w, D, buf, V

\* A slot that waits has one parent.
LEMMA ForkedIs ==
    ASSUME CacheInv, NEW s \in Slot
    PROVE  /\ ForkedFrom(s) \subseteq Slot
           /\ \A p \in ForkedFrom(s) : slots[p].state = "started"
           /\ \A p, q \in ForkedFrom(s) : p = q
           /\ ForkedFrom(s) # {} => slots[s].state = "waiting"
<1>1. KidsOk(slots)
  BY DEF CacheInv, SlotsOk
<1>2. \A p \in ForkedFrom(s) : p \in Slot /\ slots[p].state = "started" /\ s \in slots[p].kids
  BY DEF ForkedFrom, Starting
<1>3. QED BY <1>1, <1>2 DEF KidsOk

\* The children of the slots whose prompts are done go on from them.
Parent(s) == CHOOSE p \in ForkedFrom(s) : TRUE
WithKids(z) ==
    [s \in Slot |-> IF ForkedFrom(s) = {} THEN [z[s] EXCEPT !.kids = {}]
                      ELSE [z[s] EXCEPT !.state = "generating", !.tokens = z[Parent(s)].tokens]]

LEMMA ForkedSlots ==
    ASSUME CacheInv, NEW z, Computed(z), NEW y, y = WithKids(z)
    PROVE  SlotsOk(y, Forks)
<1> DEFINE F == Forks
<1>1. z \in [Slot -> SlotT] /\ KidsOk(slots)
  BY DEF Computed, CacheInv, SlotsOk
<1>2. ASSUME NEW s \in Slot, ForkedFrom(s) = {}
      PROVE  /\ y[s] \in SlotT /\ y[s].state = z[s].state /\ y[s].kids = {}
             /\ y[s].tokens = z[s].tokens /\ y[s].buf = z[s].buf
  <2>1. y[s] = [z[s] EXCEPT !.kids = {}]
    BY <1>2 DEF WithKids
  <2>2. PICK x \in SlotT : x = z[s]
    BY <1>1
  <2>3. y[s] = [x EXCEPT !.kids = {}]
    BY <2>1, <2>2
  <2>4. /\ y[s] \in SlotT /\ y[s].state = x.state /\ y[s].kids = {}
        /\ y[s].tokens = x.tokens /\ y[s].buf = x.buf
    BY <2>3 DEF SlotT
  <2>5. QED BY <2>2, <2>4
<1>3. ASSUME NEW s \in Slot, ForkedFrom(s) # {}
      PROVE  /\ Parent(s) \in ForkedFrom(s) /\ Parent(s) \in Slot
             /\ y[s] \in SlotT /\ y[s].state = "generating" /\ y[s].kids = {}
             /\ y[s].tokens = z[Parent(s)].tokens
  <2>1. y[s] = [z[s] EXCEPT !.state = "generating", !.tokens = z[Parent(s)].tokens]
    BY <1>3 DEF WithKids
  <2>2. Parent(s) \in ForkedFrom(s)
    BY <1>3 DEF Parent
  <2>3. Parent(s) \in Slot /\ slots[s].state = "waiting"
    BY <1>3, <2>2, ForkedIs
  <2>4. z[s].kids = {}
    BY <1>1, <2>3 DEF Computed, KidsOk
  <2>5. z[Parent(s)].tokens \in Texts
    BY <1>1, <2>3 DEF SlotT
  <2>6. PICK x \in SlotT : x = z[s]
    BY <1>1
  <2>7. PICK t \in Texts : t = z[Parent(s)].tokens
    BY <2>5
  <2>8. y[s] = [x EXCEPT !.state = "generating", !.tokens = t] /\ x.kids = {}
    BY <2>1, <2>4, <2>6, <2>7
  <2>9. y[s] \in SlotT /\ y[s].state = "generating" /\ y[s].kids = {} /\ y[s].tokens = t
    BY <2>8 DEF SlotT
  <2>10. QED BY <2>2, <2>3, <2>7, <2>9
<1>4. y = [s \in Slot |-> y[s]]
  BY DEF WithKids
<1>5. y \in [Slot -> SlotT]
  BY <1>2, <1>3, <1>4
<1>6. \A s \in Slot : y[s].kids = {} /\ y[s].state # "started"
  <2>1. \A s \in Slot : z[s].state # "started"
    BY DEF Computed
  <2>2. QED BY <1>2, <1>3, <2>1
<1>7. KidsOk(y)
  BY <1>6 DEF KidsOk
<1>8. /\ F \subseteq [src : Slot, dst : Slot]
      /\ \A c \in F : c.src \in Slot /\ c.dst \in Slot /\ c.src \in ForkedFrom(c.dst)
      /\ \A p, s \in Slot : p \in ForkedFrom(s) =>
            [src |-> p, dst |-> s] \in F
  BY DEF Forks
<1> HIDE DEF F
<1>9. ASSUME NEW s \in Slot, NEW p \in ForkedFrom(s)
      PROVE  /\ p \in Slot /\ ForkedFrom(p) = {}
             /\ z[p].state = "generating" /\ z[p].buf = z[p].tokens
  <2>1. p \in Slot /\ slots[p].state = "started"
    BY ForkedIs
  <2>2. ForkedFrom(p) = {}
    BY <2>1, ForkedIs
  <2>3. QED BY <2>1, <2>2 DEF Computed
<1>10. CopiesOk(y, F)
  <2>1. ASSUME NEW c \in F
        PROVE  /\ c.src \in Slot /\ c.dst \in Slot
               /\ y[c.src].state = "generating" /\ y[c.dst].state = "generating"
    <3>1. c.src \in Slot /\ c.dst \in Slot /\ c.src \in ForkedFrom(c.dst)
      BY <1>8
    <3>2. y[c.dst].state = "generating"
      BY <1>3, <3>1
    <3>3. ForkedFrom(c.src) = {} /\ z[c.src].state = "generating"
      BY <1>9, <3>1
    <3>4. y[c.src].state = "generating"
      BY <1>2, <3>1, <3>3
    <3>5. QED BY <3>1, <3>2, <3>4
  <2>2. QED BY <2>1 DEF CopiesOk
<1>11. MemoryOk(y, F)
  <2>1. ASSUME NEW s \in Slot
        PROVE  Cut(BufOf(y, F, s), Len(y[s].tokens)) = y[s].tokens
    <3>1. CASE ForkedFrom(s) = {}
      <4>1. ~Due(F, s)
        BY <1>8, <3>1 DEF Due
      <4>2. Backed(z[s])
        BY DEF Computed
      <4>3. y[s].tokens = z[s].tokens /\ y[s].buf = z[s].buf
        BY <1>2, <3>1
      <4>4. QED BY <4>1, <4>2, <4>3 DEF BufOf, Backed
    <3>2. CASE ForkedFrom(s) # {}
      <4> DEFINE p == Parent(s)
      <4>1. p \in ForkedFrom(s) /\ p \in Slot /\ y[s].tokens = z[p].tokens
        BY <1>3, <3>2
      <4>2. Due(F, s) /\ Source(F, s) \in ForkedFrom(s)
        <5>1. Due(F, s)
          <6>1. [src |-> p, dst |-> s] \in F /\ [src |-> p, dst |-> s].dst = s
            BY <1>8, <4>1
          <6>2. QED BY <6>1 DEF Due
        <5>2. QED BY <1>8, <5>1 DEF Due, Source
      <4>3. Source(F, s) = p
        BY <4>1, <4>2, ForkedIs
      <4> HIDE DEF p
      <4>4. BufOf(y, F, s) = y[p].buf
        BY <4>2, <4>3 DEF BufOf
      <4>5. ForkedFrom(p) = {} /\ z[p].buf = z[p].tokens
        BY <1>9, <4>1
      <4>6. y[p].buf = z[p].tokens
        BY <1>2, <4>1, <4>5
      <4>7. z[p].tokens \in Seq(Token)
        <5>1. z[p].tokens \in Texts
          BY <1>1, <4>1 DEF SlotT
        <5>2. QED BY <5>1, TextIs
      <4>8. Cut(z[p].tokens, Len(z[p].tokens)) = z[p].tokens
        BY <4>7, CutAll
      <4>9. QED BY <4>1, <4>4, <4>6, <4>8
    <3>3. QED BY <3>1, <3>2
  <2>2. QED BY <2>1 DEF MemoryOk
<1>12. QED BY <1>5, <1>7, <1>8, <1>10, <1>11 DEF SlotsOk, F

LEMMA FailedSlots ==
    ASSUME CacheInv, NEW z, Computed(z), NEW y,
           y = [s \in Slot |-> IF s \in Slot \ Idle THEN Cleared(Released(z[s])) ELSE z[s]]
    PROVE  SlotsOk(y, {})
<1>1. z \in [Slot -> SlotT] /\ KidsOk(slots)
  BY DEF Computed, CacheInv, SlotsOk
<1>2. ASSUME NEW s \in Slot
      PROVE  /\ y[s] \in SlotT /\ y[s].state = "idle" /\ y[s].kids = {} /\ Backed(y[s])
  <2>1. CASE s \in Idle
    <3>1. y[s] = z[s] /\ slots[s].state = "idle"
      BY <2>1 DEF Idle
    <3>2. z[s].state = "idle" /\ z[s].kids = {} /\ Backed(z[s])
      BY <1>1, <3>1 DEF Computed, KidsOk
    <3>3. QED BY <1>1, <3>1, <3>2
  <2>2. CASE s \notin Idle
    <3> DEFINE r == Released(z[s])
    <3>1. y[s] = Cleared(r)
      BY <2>2
    <3>2. r \in SlotT /\ r.state = "idle" /\ r.kids = {}
      BY <1>1, ReleasedIs
    <3> HIDE DEF r
    <3>3. QED BY <3>1, <3>2, ClearedIs
  <2>3. QED BY <2>1, <2>2
<1>3. y = [s \in Slot |-> y[s]]
  OBVIOUS
<1>4. y \in [Slot -> SlotT]
  BY <1>2, <1>3
<1>5. KidsOk(y)
  BY <1>2 DEF KidsOk
<1>6. MemoryOk(y, {})
  BY <1>2 DEF MemoryOk, BufOf, Due, Backed
<1>7. CopiesOk(y, {})
  BY DEF CopiesOk
<1>8. QED BY <1>4, <1>5, <1>6, <1>7 DEF SlotsOk

LEMMA DecodeKeeps ==
    ASSUME CacheInv,
           NEW out \in [Generating -> Answers], Decode(out)
    PROVE  CacheInv'
<1> DEFINE buf  == Copied([s \in Slot |-> slots[s].buf])
           all  == [World EXCEPT !.slots = [s \in Slot |-> Evaluated(s, buf, out)]]
           w    == Purged(all, Victims(all))
           z    == w.slots
           fail == Slot \ Idle
           lost == [w EXCEPT !.slots = [s \in Slot |->
                      IF s \in fail THEN Cleared(Released(z[s])) ELSE z[s]]]
<1>1. /\ \A u \in Generating : Len(slots[u].tokens) < MaxTokens
      /\ \/ Become(WithForks(w)) /\ pending' = Forks /\ lru' = lru
         \/ Become(lost) /\ pending' = {} /\ lru' = UsedLast(fail)
      /\ conf' = conf
  BY DEF Decode
<1>2. Computed(z)
  BY <1>1, ComputedSlots
<1>3. w = [slots |-> z, cache |-> cache, limit |-> limit]
  BY <1>1, ComputedSlots
<1> HIDE DEF w
<1>4. CASE Become(WithForks(w)) /\ pending' = Forks /\ lru' = lru
  <2> DEFINE y == WithForks(w).slots
  <2>1. /\ y = WithKids(z)
        /\ WithForks(w).cache = cache /\ WithForks(w).limit = limit
    BY <1>3 DEF WithForks, WithKids, Parent
  <2> HIDE DEF y
  <2>2. SlotsOk(y, Forks)
    BY <1>2, <2>1, ForkedSlots
  <2>3. slots' = y /\ cache' = cache /\ limit' = limit
    BY <1>4, <2>1 DEF Become, y
  <2>4. SlotsOk(slots, pending)' /\ LruOk(lru)'
    BY <1>4, <2>2, <2>3 DEF CacheInv, LruOk
  <2>5. (conf \in Confs)' /\ Tidy(cache)' /\ (limit \in Nat)' /\ Within(cache, limit)'
    BY <1>1, <2>3 DEF CacheInv, Within, Cap
  <2>6. QED BY <2>4, <2>5 DEF CacheInv
<1>5. CASE Become(lost) /\ pending' = {} /\ lru' = UsedLast(fail)
  <2> DEFINE y == lost.slots
  <2>1. /\ y = [s \in Slot |->
                  IF s \in Slot \ Idle THEN Cleared(Released(z[s])) ELSE z[s]]
        /\ lost.cache = cache /\ lost.limit = limit
    BY <1>3
  <2>2. slots' = y /\ cache' = cache /\ limit' = limit
    BY <1>5, <2>1 DEF Become
  <2> HIDE DEF y
  <2>3. SlotsOk(y, {})
    BY <1>2, <2>1, FailedSlots
  <2>4. LruOk(UsedLast(fail))
    BY UsedLastIs DEF CacheInv
  <2>5. SlotsOk(slots, pending)' /\ LruOk(lru)'
    BY <1>5, <2>2, <2>3, <2>4
  <2>6. (conf \in Confs)' /\ Tidy(cache)' /\ (limit \in Nat)' /\ Within(cache, limit)'
    BY <1>1, <2>2 DEF CacheInv, Within, Cap
  <2>7. QED BY <2>5, <2>6 DEF CacheInv
<1>6. QED BY <1>1, <1>4, <1>5

\* Every step of PromptCache keeps the invariant.
LEMMA StepKeepsCacheInv ==
    ASSUME CacheInv, [CacheNext]_(cacheVars)
    PROVE  CacheInv'
<1>1. CASE UNCHANGED cacheVars
  <2>1. UNCHANGED <<conf, slots, cache, limit, pending, lru>>
    BY <1>1 DEF cacheVars
  <2>2. QED BY <2>1 DEF CacheInv, Within, Cap, LruOk
<1>2. CASE Ask
  <2>1. PICK t \in Prompts, n \in 0 .. 1, oom \in BOOLEAN : Launch(t, n, oom)
    BY <1>2 DEF Ask
  <2>2. QED BY <2>1, LaunchKeeps
<1>3. CASE AskAt
  BY <1>3, LaunchAtKeeps DEF AskAt
<1>4. CASE Step
  BY <1>4, DecodeKeeps DEF Step
<1>5. CASE \E s \in Slot : Erase(s)
  BY <1>5, EraseKeeps
<1>6. CASE \E s \in Slot : Settled(s) /\ Stop(s)
  BY <1>6, StopKeeps
<1>7. QED BY <1>1, <1>2, <1>3, <1>4, <1>5, <1>6 DEF CacheNext

\* Every slot's memory, the pending copies of forks made, begins with what was
\* computed from its prompt, and every saved state was computed from the
\* prompt it is saved under: through get_available_slot, the saving and
\* restoring of prompts, their clearing, forks between streams, decodes that
\* fail for lack of room, and the end of answers.
THEOREM PromptsAreTrueHolds ==
    CacheSpec => []PromptsAreTrue
<1>1. CacheInit => CacheInv
  BY CacheInvInit
<1>2. CacheInv /\ [CacheNext]_(cacheVars) => CacheInv'
  BY StepKeepsCacheInv
<1>3. CacheInv => PromptsAreTrue
  BY CacheInvSound
<1>4. QED BY <1>1, <1>2, <1>3, PTL DEF CacheSpec

\* No saved prompt begins another, and between two tasks the cache is within
\* its limit or holds a single prompt: alloc erases what a new prompt contains,
\* and update is called after each save, the one that lowers the limit
\* included.
THEOREM CacheIsTidyHolds ==
    CacheSpec => []CacheIsTidy
<1>1. CacheInit => CacheInv
  BY CacheInvInit
<1>2. CacheInv /\ [CacheNext]_(cacheVars) => CacheInv'
  BY StepKeepsCacheInv
<1>3. CacheInv => CacheIsTidy
  BY CacheInvSound
<1>4. QED BY <1>1, <1>2, <1>3, PTL DEF CacheSpec

-----------------------------------------------------------------------------
(* KvCells: the cells and what is kept beside them *)

CellsType == [pos : [Cell -> Position \cup {Unused}], seq : [Cell -> SUBSET Seqs],
              used : SUBSET Cell, seqPos : [Seqs -> [Position -> Int]]]

\* used and the counters agree with the cells
Agree(c) ==
    /\ \A i \in Cell : (i \in c.used <=> c.pos[i] # Unused) /\ (i \in c.used <=> c.seq[i] # {})
    /\ \A s \in Seqs, p \in Position : c.seqPos[s][p] = Occurs(c, Cell, s, p)

GoodCells(c) == c \in CellsType /\ Agree(c)

LEMMA KvConstants ==
    /\ NSeqs \in Nat \ {0} /\ NCells \in Nat \ {0} /\ NUbatch \in Nat \ {0}
    /\ MaxUbatches \in Nat \ {0} /\ MaxPos \in Nat
    /\ Cell = 0 .. NCells - 1 /\ Seqs = 0 .. NSeqs - 1 /\ Position = 0 .. MaxPos
    /\ Unused = -1 /\ Unused \notin Position
BY KvAssumption DEF Cell, Seqs, Position, Unused

LEMMA CellIsFinite ==
    /\ IsFiniteSet(Cell) /\ Cardinality(Cell) = NCells
    /\ \A T : T \subseteq Cell => IsFiniteSet(T) /\ Cardinality(T) \in Nat /\ Cardinality(T) <= NCells
<1>1. IsFiniteSet(0 .. NCells - 1) /\ Cardinality(0 .. NCells - 1) = NCells
  <2>1. 0 \in Int /\ NCells - 1 \in Int
    BY KvConstants
  <2>2. IsFiniteSet(0 .. NCells - 1) /\ Cardinality(0 .. NCells - 1)
            = IF 0 > NCells - 1 THEN 0 ELSE (NCells - 1) - 0 + 1
    BY <2>1, FS_Interval
  <2>3. QED BY <2>2, KvConstants
<1>2. IsFiniteSet(Cell) /\ Cardinality(Cell) = NCells
  BY <1>1 DEF Cell
<1>3. ASSUME NEW T, T \subseteq Cell
      PROVE  IsFiniteSet(T) /\ Cardinality(T) \in Nat /\ Cardinality(T) <= NCells
  BY <1>2, <1>3, FS_Subset, FS_CardinalityType
<1>4. QED BY <1>2, <1>3

LEMMA OccursIsNat ==
    ASSUME NEW c, NEW I \in SUBSET Cell, NEW s, NEW p
    PROVE  Occurs(c, I, s, p) \in Nat /\ Occurs(c, I, s, p) <= NCells
<1>1. {i \in I : s \in c.seq[i] /\ c.pos[i] = p} \subseteq Cell
  OBVIOUS
<1>2. QED BY <1>1, CellIsFinite DEF Occurs

LEMMA OccursSplit ==
    ASSUME NEW c, NEW I \in SUBSET Cell, NEW s, NEW p
    PROVE  Occurs(c, Cell, s, p) = Occurs(c, I, s, p) + Occurs(c, Cell \ I, s, p)
<1> DEFINE A == {i \in I : s \in c.seq[i] /\ c.pos[i] = p}
           B == {i \in Cell \ I : s \in c.seq[i] /\ c.pos[i] = p}
           C == {i \in Cell : s \in c.seq[i] /\ c.pos[i] = p}
<1>1. IsFiniteSet(A) /\ IsFiniteSet(B) /\ Cardinality(A) \in Nat /\ Cardinality(B) \in Nat
  <2>1. A \subseteq Cell /\ B \subseteq Cell
    OBVIOUS
  <2>2. QED BY <2>1, CellIsFinite
<1>2. C = A \cup B /\ A \cap B = {}
  OBVIOUS
<1>3. Occurs(c, Cell, s, p) = Cardinality(C) /\ Occurs(c, I, s, p) = Cardinality(A)
      /\ Occurs(c, Cell \ I, s, p) = Cardinality(B)
  BY DEF Occurs
<1> HIDE DEF A, B, C
<1>4. Cardinality(A \cup B) = Cardinality(A) + Cardinality(B) - Cardinality(A \cap B)
  BY <1>1, FS_Union
<1>5. Cardinality(A \cap B) = 0
  BY <1>2, FS_EmptySet
<1>6. QED BY <1>1, <1>2, <1>3, <1>4, <1>5

LEMMA OccursSame ==
    ASSUME NEW c, NEW d, NEW J, NEW s, NEW p, NEW q,
           \A i \in J : (s \in c.seq[i] /\ c.pos[i] = p) <=> (s \in d.seq[i] /\ d.pos[i] = q)
    PROVE  Occurs(c, J, s, p) = Occurs(d, J, s, q)
<1>1. {i \in J : s \in c.seq[i] /\ c.pos[i] = p} = {i \in J : s \in d.seq[i] /\ d.pos[i] = q}
  OBVIOUS
<1>2. QED BY <1>1 DEF Occurs

LEMMA OccursNone ==
    ASSUME NEW c, NEW J, NEW s, NEW p, \A i \in J : ~(s \in c.seq[i] /\ c.pos[i] = p)
    PROVE  Occurs(c, J, s, p) = 0
<1>1. {i \in J : s \in c.seq[i] /\ c.pos[i] = p} = {}
  OBVIOUS
<1>2. QED BY <1>1, FS_EmptySet DEF Occurs

\* Cells that are the same outside I: the count changes by what I holds.
LEMMA OccursChange ==
    ASSUME NEW c, NEW d, NEW I \in SUBSET Cell, NEW s, NEW p,
           \A i \in Cell \ I : (s \in c.seq[i] /\ c.pos[i] = p) <=> (s \in d.seq[i] /\ d.pos[i] = p)
    PROVE  Occurs(d, Cell, s, p) = Occurs(c, Cell, s, p) - Occurs(c, I, s, p) + Occurs(d, I, s, p)
<1>1. Occurs(c, Cell \ I, s, p) = Occurs(d, Cell \ I, s, p)
  BY OccursSame
<1>2. Occurs(c, Cell, s, p) = Occurs(c, I, s, p) + Occurs(c, Cell \ I, s, p)
  BY OccursSplit
<1>3. Occurs(d, Cell, s, p) = Occurs(d, I, s, p) + Occurs(d, Cell \ I, s, p)
  BY OccursSplit
<1>4. /\ Occurs(c, I, s, p) \in Nat /\ Occurs(d, I, s, p) \in Nat
      /\ Occurs(c, Cell \ I, s, p) \in Nat /\ Occurs(d, Cell \ I, s, p) \in Nat
  <2>1. Cell \ I \in SUBSET Cell
    OBVIOUS
  <2>2. QED BY <2>1, OccursIsNat
<1>5. QED BY <1>1, <1>2, <1>3, <1>4

\* Good cells are determined by what the cells hold.
LEMMA SameCells ==
    ASSUME NEW c, NEW d, GoodCells(c), GoodCells(d),
           \A i \in Cell : c.pos[i] = d.pos[i] /\ c.seq[i] = d.seq[i]
    PROVE  c = d
<1>0. c \in CellsType /\ d \in CellsType
  BY DEF GoodCells
<1>1. c.pos = d.pos /\ c.seq = d.seq
  BY <1>0 DEF CellsType
<1>2. c.used = d.used
  <2>1. c.used \subseteq Cell /\ d.used \subseteq Cell
    BY <1>0 DEF CellsType
  <2>2. \A i \in Cell : i \in c.used <=> i \in d.used
    BY DEF GoodCells, Agree
  <2>3. QED BY <2>1, <2>2
<1>3. ASSUME NEW s \in Seqs, NEW p \in Position PROVE c.seqPos[s][p] = d.seqPos[s][p]
  <2>1. Occurs(c, Cell, s, p) = Occurs(d, Cell, s, p)
    BY OccursSame
  <2>2. QED BY <2>1 DEF GoodCells, Agree
<1>4. c.seqPos = d.seqPos
  <2>1. c.seqPos \in [Seqs -> [Position -> Int]] /\ d.seqPos \in [Seqs -> [Position -> Int]]
    BY <1>0 DEF CellsType
  <2>2. ASSUME NEW s \in Seqs PROVE c.seqPos[s] = d.seqPos[s]
    <3>1. c.seqPos[s] \in [Position -> Int] /\ d.seqPos[s] \in [Position -> Int]
      BY <2>1
    <3>2. QED BY <1>3, <3>1
  <2>3. QED BY <2>1, <2>2
<1>5. c = [pos |-> c.pos, seq |-> c.seq, used |-> c.used, seqPos |-> c.seqPos]
      /\ d = [pos |-> d.pos, seq |-> d.seq, used |-> d.used, seqPos |-> d.seqPos]
  BY <1>0 DEF CellsType
<1>6. QED BY <1>1, <1>2, <1>4, <1>5

\* seq_rm
LEMMA SeqRmCellsGood ==
    ASSUME NEW c, GoodCells(c), NEW gone
    PROVE  /\ GoodCells(SeqRmCells(c, gone))
           /\ \A i \in Cell :
                 /\ SeqRmCells(c, gone).seq[i] = {s \in c.seq[i] : <<i, s>> \notin gone}
                 /\ SeqRmCells(c, gone).pos[i] = IF i \in Freed(c, gone) THEN Unused ELSE c.pos[i]
<1> DEFINE G(s) == {i \in Cell : <<i, s>> \in gone}
<1>0. PICK d : d = SeqRmCells(c, gone)
  OBVIOUS
<1>1. c \in CellsType /\ Agree(c)
  BY DEF GoodCells
<1>2. /\ d.pos = [i \in Cell |-> IF i \in Freed(c, gone) THEN Unused ELSE c.pos[i]]
      /\ d.seq = [i \in Cell |-> {s \in c.seq[i] : <<i, s>> \notin gone}]
      /\ d.used = c.used \ Freed(c, gone)
      /\ d.seqPos = [s \in Seqs |-> [p \in Position |-> c.seqPos[s][p] - Occurs(c, G(s), s, p)]]
      /\ d = [pos |-> d.pos, seq |-> d.seq, used |-> d.used, seqPos |-> d.seqPos]
  BY <1>0 DEF SeqRmCells
<1>3. \A s : G(s) \in SUBSET Cell
  OBVIOUS
<1>4. d \in CellsType
  <2>1. d.pos \in [Cell -> Position \cup {Unused}] /\ d.seq \in [Cell -> SUBSET Seqs]
        /\ d.used \in SUBSET Cell
    BY <1>1, <1>2 DEF CellsType
  <2>2. ASSUME NEW s \in Seqs, NEW p \in Position
        PROVE  c.seqPos[s][p] - Occurs(c, G(s), s, p) \in Int
    <3>1. c.seqPos[s][p] \in Int
      BY <1>1 DEF CellsType
    <3>2. Occurs(c, G(s), s, p) \in Nat
      BY <1>3, OccursIsNat
    <3>3. QED BY <3>1, <3>2
  <2> HIDE DEF G
  <2>3. d.seqPos \in [Seqs -> [Position -> Int]]
    BY <1>2, <2>2
  <2>4. QED BY <1>2, <2>1, <2>3 DEF CellsType
<1>5. ASSUME NEW i \in Cell
      PROVE  /\ d.seq[i] = {s \in c.seq[i] : <<i, s>> \notin gone}
             /\ d.pos[i] = IF i \in Freed(c, gone) THEN Unused ELSE c.pos[i]
             /\ i \in Freed(c, gone) <=> c.seq[i] # {} /\ d.seq[i] = {}
  BY <1>2 DEF Freed
<1>6. ASSUME NEW i \in Cell
      PROVE  (i \in d.used <=> d.pos[i] # Unused) /\ (i \in d.used <=> d.seq[i] # {})
  BY <1>1, <1>2, <1>5 DEF Agree
<1>7. ASSUME NEW s \in Seqs, NEW p \in Position PROVE d.seqPos[s][p] = Occurs(d, Cell, s, p)
  <2>1. d.seqPos[s][p] = c.seqPos[s][p] - Occurs(c, G(s), s, p)
    BY <1>2
  <2>2. c.seqPos[s][p] = Occurs(c, Cell, s, p)
    BY <1>1 DEF Agree
  <2>3. \A i \in Cell \ G(s) : (s \in c.seq[i] /\ c.pos[i] = p) <=> (s \in d.seq[i] /\ d.pos[i] = p)
    BY <1>5
  <2>4. \A i \in G(s) : ~(s \in d.seq[i] /\ d.pos[i] = p)
    BY <1>5
  <2> HIDE DEF G
  <2>5. Occurs(d, Cell, s, p)
          = Occurs(c, Cell, s, p) - Occurs(c, G(s), s, p) + Occurs(d, G(s), s, p)
    BY <1>3, <2>3, OccursChange
  <2>6. Occurs(d, G(s), s, p) = 0
    BY <2>4, OccursNone
  <2>7. Occurs(c, G(s), s, p) \in Nat /\ Occurs(c, Cell, s, p) \in Nat
    BY <1>3, OccursIsNat
  <2>8. QED BY <2>1, <2>2, <2>5, <2>6, <2>7
<1>8. GoodCells(d)
  BY <1>4, <1>6, <1>7 DEF GoodCells, Agree
<1>9. QED BY <1>0, <1>5, <1>8

\* seq_add, in cells that are in use and not seen by s
SeqAdded(c, I, s, d) ==
    \A i \in Cell : /\ d.pos[i] = c.pos[i]
                    /\ d.seq[i] = IF i \in I THEN c.seq[i] \cup {s} ELSE c.seq[i]

LEMMA SeqAddCellsGood ==
    ASSUME NEW c, GoodCells(c), NEW I \in SUBSET Cell, NEW s \in Seqs,
           \A i \in I : c.pos[i] # Unused /\ s \notin c.seq[i]
    PROVE  GoodCells(SeqAddCells(c, I, s)) /\ SeqAdded(c, I, s, SeqAddCells(c, I, s))
<1>0. PICK d : d = SeqAddCells(c, I, s)
  OBVIOUS
<1>1. c \in CellsType /\ Agree(c)
  BY DEF GoodCells
<1>3. /\ d.pos = c.pos /\ d.used = c.used
      /\ d.seq = [i \in Cell |-> IF i \in I THEN c.seq[i] \cup {s} ELSE c.seq[i]]
      /\ d.seqPos = [q \in Seqs |-> [p \in Position |->
                       IF q = s THEN c.seqPos[q][p] + Cardinality({i \in I : c.pos[i] = p})
                       ELSE c.seqPos[q][p]]]
      /\ d = [pos |-> d.pos, seq |-> d.seq, used |-> d.used, seqPos |-> d.seqPos]
  BY <1>0 DEF SeqAddCells
<1>4. ASSUME NEW p \in Position PROVE {i \in I : c.pos[i] = p} \subseteq Cell
  OBVIOUS
<1>5. ASSUME NEW p \in Position
      PROVE  Cardinality({i \in I : c.pos[i] = p}) = Occurs(d, I, s, p)
  <2>1. {i \in I : c.pos[i] = p} = {i \in I : s \in d.seq[i] /\ d.pos[i] = p}
    BY <1>3
  <2>2. QED BY <2>1 DEF Occurs
<1>6. ASSUME NEW q \in Seqs, NEW p \in Position
      PROVE  d.seqPos[q][p] = (IF q = s THEN c.seqPos[q][p] + Occurs(d, I, s, p) ELSE c.seqPos[q][p])
  BY <1>3, <1>5
<1>7. d \in CellsType
  <2>1. d.seq \in [Cell -> SUBSET Seqs]
    BY <1>1, <1>3 DEF CellsType
  <2>2. ASSUME NEW q \in Seqs, NEW p \in Position
        PROVE  (IF q = s THEN c.seqPos[q][p] + Cardinality({i \in I : c.pos[i] = p})
                ELSE c.seqPos[q][p]) \in Int
    <3>1. c.seqPos[q][p] \in Int
      BY <1>1 DEF CellsType
    <3>2. Cardinality({i \in I : c.pos[i] = p}) \in Nat
      BY <1>4, CellIsFinite
    <3>3. QED BY <3>1, <3>2
  <2> DEFINE n(p) == Cardinality({i \in I : c.pos[i] = p})
  <2>3. /\ d.seqPos = [q \in Seqs |-> [p \in Position |->
                          IF q = s THEN c.seqPos[q][p] + n(p) ELSE c.seqPos[q][p]]]
        /\ \A q \in Seqs, p \in Position :
              (IF q = s THEN c.seqPos[q][p] + n(p) ELSE c.seqPos[q][p]) \in Int
    BY <1>3, <2>2
  <2> HIDE DEF n
  <2>6. d.seqPos \in [Seqs -> [Position -> Int]]
    BY <2>3
  <2>4. c.pos \in [Cell -> Position \cup {Unused}] /\ c.used \in SUBSET Cell
    BY <1>1 DEF CellsType
  <2>5. QED BY <1>3, <2>1, <2>4, <2>6 DEF CellsType
<1>8. ASSUME NEW i \in Cell
      PROVE  /\ d.pos[i] = c.pos[i]
             /\ d.seq[i] = IF i \in I THEN c.seq[i] \cup {s} ELSE c.seq[i]
  BY <1>3
<1>9. ASSUME NEW i \in Cell
      PROVE  (i \in d.used <=> d.pos[i] # Unused) /\ (i \in d.used <=> d.seq[i] # {})
  <2>1. (i \in c.used <=> c.pos[i] # Unused) /\ (i \in c.used <=> c.seq[i] # {})
    BY <1>1 DEF Agree
  <2>2. i \in I => c.pos[i] # Unused
    OBVIOUS
  <2>3. QED BY <1>3, <1>8, <2>1, <2>2
<1>10. ASSUME NEW q \in Seqs, NEW p \in Position PROVE d.seqPos[q][p] = Occurs(d, Cell, q, p)
  <2>1. c.seqPos[q][p] = Occurs(c, Cell, q, p)
    BY <1>1 DEF Agree
  <2>2. CASE q = s
    <3>0. \A i \in Cell \ I : (s \in c.seq[i] /\ c.pos[i] = p) <=> (s \in d.seq[i] /\ d.pos[i] = p)
      BY <1>8
    <3>1. Occurs(d, Cell, s, p) = Occurs(c, Cell, s, p) - Occurs(c, I, s, p) + Occurs(d, I, s, p)
      BY <3>0, OccursChange
    <3>2. Occurs(c, I, s, p) = 0
      BY OccursNone
    <3>3. Occurs(c, Cell, s, p) \in Nat /\ Occurs(d, I, s, p) \in Nat
      BY OccursIsNat
    <3>4. QED BY <1>6, <2>1, <2>2, <3>1, <3>2, <3>3
  <2>3. CASE q # s
    <3>1. \A i \in Cell : (q \in c.seq[i] /\ c.pos[i] = p) <=> (q \in d.seq[i] /\ d.pos[i] = p)
      BY <1>8, <2>3
    <3>2. Occurs(c, Cell, q, p) = Occurs(d, Cell, q, p)
      BY <3>1, OccursSame
    <3>3. QED BY <1>6, <2>1, <2>3, <3>2
  <2>4. QED BY <2>2, <2>3
<1>11. GoodCells(d)
  BY <1>7, <1>9, <1>10 DEF GoodCells, Agree
<1>12. SeqAdded(c, I, s, d)
  BY <1>8 DEF SeqAdded
<1>13. QED BY <1>0, <1>11, <1>12

\* pos_add to smaller positions
PosAdded(c, I, k, d) ==
    \A i \in Cell : /\ d.pos[i] = IF i \in Below(c, I, k) THEN Unused
                                 ELSE IF i \in I THEN c.pos[i] + k ELSE c.pos[i]
                    /\ d.seq[i] = IF i \in Below(c, I, k) THEN {} ELSE c.seq[i]

LEMMA PosAddCellsGood ==
    ASSUME NEW c, GoodCells(c), NEW I \in SUBSET Cell, NEW k \in Int,
           \A i \in I : c.pos[i] \in Position /\ c.pos[i] + k <= MaxPos
    PROVE  GoodCells(PosAddCells(c, I, k)) /\ PosAdded(c, I, k, PosAddCells(c, I, k))
<1>0. PICK d : d = PosAddCells(c, I, k)
  OBVIOUS
<1>1. c \in CellsType /\ Agree(c)
  BY DEF GoodCells
<1>2. PICK F : F = Below(c, I, k)
  OBVIOUS
<1>3. /\ d.pos = [i \in Cell |-> IF i \in F THEN Unused ELSE IF i \in I THEN c.pos[i] + k ELSE c.pos[i]]
      /\ d.seq = [i \in Cell |-> IF i \in F THEN {} ELSE c.seq[i]]
      /\ d.used = c.used \ F
      /\ d.seqPos = [s \in Seqs |-> [p \in Position |->
                        c.seqPos[s][p] - Occurs(c, I, s, p) + Occurs(c, I, s, p - k)]]
      /\ d = [pos |-> d.pos, seq |-> d.seq, used |-> d.used, seqPos |-> d.seqPos]
  BY <1>0, <1>2 DEF PosAddCells
<1>4. F \subseteq I /\ \A i \in I : i \in F <=> c.pos[i] + k < 0
  BY <1>2 DEF Below
<1>5. \A i \in I : i \notin F => c.pos[i] + k \in Position
  <2>1. ASSUME NEW i \in I, i \notin F PROVE c.pos[i] + k \in Position
    <3>1. c.pos[i] \in Int /\ c.pos[i] + k <= MaxPos /\ ~(c.pos[i] + k < 0)
      BY <1>4, <2>1, KvConstants
    <3>2. QED BY <3>1, KvConstants
  <2>2. QED BY <2>1
<1>6. d \in CellsType
  <2>1. ASSUME NEW i \in Cell PROVE d.pos[i] \in Position \cup {Unused} /\ d.seq[i] \in SUBSET Seqs
    <3>1. c.pos[i] \in Position \cup {Unused} /\ c.seq[i] \in SUBSET Seqs
      BY <1>1 DEF CellsType
    <3>2. QED BY <1>3, <1>5, <3>1
  <2>2. d.pos \in [Cell -> Position \cup {Unused}] /\ d.seq \in [Cell -> SUBSET Seqs]
    BY <1>3, <2>1
  <2>3. d.used \in SUBSET Cell
    BY <1>1, <1>3 DEF CellsType
  <2>4. ASSUME NEW s \in Seqs, NEW p \in Position
        PROVE  c.seqPos[s][p] - Occurs(c, I, s, p) + Occurs(c, I, s, p - k) \in Int
    <3>1. c.seqPos[s][p] \in Int
      BY <1>1 DEF CellsType
    <3>2. Occurs(c, I, s, p) \in Nat /\ Occurs(c, I, s, p - k) \in Nat
      BY OccursIsNat
    <3>3. QED BY <3>1, <3>2
  <2>5. d.seqPos \in [Seqs -> [Position -> Int]]
    BY <1>3, <2>4
  <2>6. QED BY <1>3, <2>2, <2>3, <2>5 DEF CellsType
<1>7. ASSUME NEW i \in Cell
      PROVE  /\ d.pos[i] = IF i \in F THEN Unused ELSE IF i \in I THEN c.pos[i] + k ELSE c.pos[i]
             /\ d.seq[i] = IF i \in F THEN {} ELSE c.seq[i]
  BY <1>3
<1>8. ASSUME NEW i \in Cell
      PROVE  (i \in d.used <=> d.pos[i] # Unused) /\ (i \in d.used <=> d.seq[i] # {})
  <2>1. (i \in c.used <=> c.pos[i] # Unused) /\ (i \in c.used <=> c.seq[i] # {})
    BY <1>1 DEF Agree
  <2>2. i \in I => c.pos[i] # Unused
    BY KvConstants
  <2>3. QED BY <1>3, <1>4, <1>5, <1>7, <2>1, <2>2, KvConstants
<1>9. ASSUME NEW s \in Seqs, NEW p \in Position PROVE d.seqPos[s][p] = Occurs(d, Cell, s, p)
  <2>1. d.seqPos[s][p] = c.seqPos[s][p] - Occurs(c, I, s, p) + Occurs(c, I, s, p - k)
    BY <1>3
  <2>2. c.seqPos[s][p] = Occurs(c, Cell, s, p)
    BY <1>1 DEF Agree
  <2>3. \A i \in Cell \ I : (s \in c.seq[i] /\ c.pos[i] = p) <=> (s \in d.seq[i] /\ d.pos[i] = p)
    BY <1>4, <1>7
  <2>4. Occurs(d, Cell, s, p) = Occurs(c, Cell, s, p) - Occurs(c, I, s, p) + Occurs(d, I, s, p)
    BY <2>3, OccursChange
  <2>5. ASSUME NEW i \in I
        PROVE  (s \in c.seq[i] /\ c.pos[i] = p - k) <=> (s \in d.seq[i] /\ d.pos[i] = p)
    <3>1. c.pos[i] \in Int /\ p \in Int /\ p >= 0 /\ i \in Cell
      BY KvConstants
    <3>2. CASE i \in F
      <4>1. c.pos[i] + k < 0
        BY <1>4, <3>2
      <4>2. c.pos[i] # p - k
        BY <3>1, <4>1
      <4>3. d.seq[i] = {}
        BY <1>7, <3>1, <3>2
      <4>4. QED BY <4>2, <4>3
    <3>3. CASE i \notin F
      <4>1. d.pos[i] = c.pos[i] + k /\ d.seq[i] = c.seq[i]
        BY <1>7, <3>1, <3>3
      <4>2. QED BY <3>1, <4>1
    <3>4. QED BY <3>2, <3>3
  <2>6. Occurs(c, I, s, p - k) = Occurs(d, I, s, p)
    BY <2>5, OccursSame
  <2>7. QED BY <2>1, <2>2, <2>4, <2>6
<1>10. GoodCells(d)
  BY <1>6, <1>8, <1>9 DEF GoodCells, Agree
<1>11. PosAdded(c, I, k, d)
  BY <1>2, <1>7 DEF PosAdded
<1>12. QED BY <1>0, <1>10, <1>11

\* set: the cells I hold again what they held in e
LEMMA SetCellsGood ==
    ASSUME NEW c, GoodCells(c), NEW e, GoodCells(e), NEW I \in SUBSET Cell
    PROVE  /\ GoodCells(SetCells(c, I, e))
           /\ \A i \in Cell :
                 /\ SetCells(c, I, e).pos[i] = IF i \in I THEN e.pos[i] ELSE c.pos[i]
                 /\ SetCells(c, I, e).seq[i] = IF i \in I THEN e.seq[i] ELSE c.seq[i]
<1>0. PICK d : d = SetCells(c, I, e)
  OBVIOUS
<1>1. c \in CellsType /\ Agree(c) /\ e \in CellsType /\ Agree(e)
  BY DEF GoodCells
<1>2. /\ d.pos = [i \in Cell |-> IF i \in I THEN e.pos[i] ELSE c.pos[i]]
      /\ d.seq = [i \in Cell |-> IF i \in I THEN e.seq[i] ELSE c.seq[i]]
      /\ d.used = (c.used \ {i \in I : c.pos[i] # Unused /\ e.pos[i] = Unused})
                     \cup {i \in I : c.pos[i] = Unused /\ e.pos[i] # Unused}
      /\ d.seqPos = [s \in Seqs |-> [p \in Position |->
                        c.seqPos[s][p] - Occurs(c, I, s, p) + Occurs(e, I, s, p)]]
      /\ d = [pos |-> d.pos, seq |-> d.seq, used |-> d.used, seqPos |-> d.seqPos]
  BY <1>0 DEF SetCells
<1>3. ASSUME NEW i \in Cell
      PROVE  /\ d.pos[i] = IF i \in I THEN e.pos[i] ELSE c.pos[i]
             /\ d.seq[i] = IF i \in I THEN e.seq[i] ELSE c.seq[i]
  BY <1>2
<1>4. d \in CellsType
  <2>1. d.pos \in [Cell -> Position \cup {Unused}] /\ d.seq \in [Cell -> SUBSET Seqs]
        /\ d.used \in SUBSET Cell
    BY <1>1, <1>2 DEF CellsType
  <2>2. ASSUME NEW s \in Seqs, NEW p \in Position
        PROVE  c.seqPos[s][p] - Occurs(c, I, s, p) + Occurs(e, I, s, p) \in Int
    <3>1. c.seqPos[s][p] \in Int
      BY <1>1 DEF CellsType
    <3>2. Occurs(c, I, s, p) \in Nat /\ Occurs(e, I, s, p) \in Nat
      BY OccursIsNat
    <3>3. QED BY <3>1, <3>2
  <2>3. d.seqPos \in [Seqs -> [Position -> Int]]
    BY <1>2, <2>2
  <2>4. QED BY <1>2, <2>1, <2>3 DEF CellsType
<1>5. ASSUME NEW i \in Cell
      PROVE  (i \in d.used <=> d.pos[i] # Unused) /\ (i \in d.used <=> d.seq[i] # {})
  <2>1. /\ (i \in c.used <=> c.pos[i] # Unused) /\ (i \in c.used <=> c.seq[i] # {})
        /\ (i \in e.used <=> e.pos[i] # Unused) /\ (i \in e.used <=> e.seq[i] # {})
    BY <1>1 DEF Agree
  <2>2. QED BY <1>2, <1>3, <2>1
<1>6. ASSUME NEW s \in Seqs, NEW p \in Position PROVE d.seqPos[s][p] = Occurs(d, Cell, s, p)
  <2>1. d.seqPos[s][p] = c.seqPos[s][p] - Occurs(c, I, s, p) + Occurs(e, I, s, p)
    BY <1>2
  <2>2. c.seqPos[s][p] = Occurs(c, Cell, s, p)
    BY <1>1 DEF Agree
  <2>3. \A i \in Cell \ I : (s \in c.seq[i] /\ c.pos[i] = p) <=> (s \in d.seq[i] /\ d.pos[i] = p)
    BY <1>3
  <2>4. Occurs(d, Cell, s, p) = Occurs(c, Cell, s, p) - Occurs(c, I, s, p) + Occurs(d, I, s, p)
    BY <2>3, OccursChange
  <2>5. \A i \in I : (s \in e.seq[i] /\ e.pos[i] = p) <=> (s \in d.seq[i] /\ d.pos[i] = p)
    BY <1>3
  <2>6. Occurs(e, I, s, p) = Occurs(d, I, s, p)
    BY <2>5, OccursSame
  <2>7. QED BY <2>1, <2>2, <2>4, <2>6
<1>7. GoodCells(d)
  BY <1>4, <1>5, <1>6 DEF GoodCells, Agree
<1>8. QED BY <1>0, <1>3, <1>7

-----------------------------------------------------------------------------
(* The tokens of a ubatch in their cells *)

\* tokens, and the distinct cells for n of them
TokenT    == [seq : Seqs, pos : Position]
Places(n) == {x \in [1 .. n -> Cell] : \A j, k \in 1 .. n : x[j] = x[k] => j = k}

LEMMA PlacesAre ==
    ASSUME NEW n \in Nat, NEW idxs \in Places(n)
    PROVE  /\ DOMAIN idxs = 1 .. n /\ Range(idxs) \in SUBSET Cell
           /\ \A j \in 1 .. n : idxs[j] \in Range(idxs) /\ TokenOf(idxs, idxs[j]) = j
           /\ \A i \in Range(idxs) : TokenOf(idxs, i) \in 1 .. n /\ idxs[TokenOf(idxs, i)] = i
<1>1. idxs \in [1 .. n -> Cell] /\ \A j, k \in 1 .. n : idxs[j] = idxs[k] => j = k
  BY DEF Places
<1>2. Range(idxs) \in SUBSET Cell /\ \A j \in 1 .. n : idxs[j] \in Range(idxs)
  BY <1>1 DEF Range
<1>3. ASSUME NEW i \in Range(idxs)
      PROVE  TokenOf(idxs, i) \in 1 .. n /\ idxs[TokenOf(idxs, i)] = i
  <2>1. \E j \in DOMAIN idxs : idxs[j] = i
    BY DEF Range
  <2>2. QED BY <1>1, <2>1 DEF TokenOf
<1>4. ASSUME NEW j \in 1 .. n PROVE TokenOf(idxs, idxs[j]) = j
  <2>1. idxs[j] \in Range(idxs)
    BY <1>2
  <2>2. TokenOf(idxs, idxs[j]) \in 1 .. n /\ idxs[TokenOf(idxs, idxs[j])] = idxs[j]
    BY <1>3, <2>1
  <2>3. QED BY <1>1, <2>2
<1>5. QED BY <1>1, <1>2, <1>3, <1>4

\* d: c, with the tokens of ub in their cells
PutIn(c, n, idxs, ub, d) ==
    /\ \A i \in Cell \ Range(idxs) : d.pos[i] = c.pos[i] /\ d.seq[i] = c.seq[i]
    /\ \A j \in 1 .. n : d.pos[idxs[j]] = ub[j].pos /\ d.seq[idxs[j]] = {ub[j].seq}

LEMMA PutTokensGood ==
    ASSUME NEW c, GoodCells(c), NEW n \in Nat, NEW idxs \in Places(n), NEW ub \in [1 .. n -> TokenT]
    PROVE  /\ GoodCells(PutTokens(c, idxs, ub))
           /\ PutIn(c, n, idxs, ub, PutTokens(c, idxs, ub))
<1> DEFINE T(i) == TokenOf(idxs, i)
           These(s, p) == {j \in 1 .. n : ub[j] = [seq |-> s, pos |-> p]}
<1>0. PICK d : d = PutTokens(c, idxs, ub)
  OBVIOUS
<1>01. PICK I : I = Range(idxs)
  OBVIOUS
<1>1. c \in CellsType /\ Agree(c)
  BY DEF GoodCells
<1>2. /\ I \in SUBSET Cell
      /\ \A j \in 1 .. n : idxs[j] \in I /\ T(idxs[j]) = j
      /\ \A i \in I : T(i) \in 1 .. n /\ idxs[T(i)] = i
  BY <1>01, PlacesAre
<1>3. \A j \in 1 .. n : ub[j].seq \in Seqs /\ ub[j].pos \in Position
                        /\ ub[j] = [seq |-> ub[j].seq, pos |-> ub[j].pos]
  BY DEF TokenT
<1>4. DOMAIN ub = 1 .. n
  OBVIOUS
<1>5. /\ d.pos = [i \in Cell |-> IF i \in I THEN ub[T(i)].pos ELSE c.pos[i]]
      /\ d.seq = [i \in Cell |-> IF i \in I THEN {ub[T(i)].seq} ELSE c.seq[i]]
      /\ d.used = c.used \cup I
      /\ d.seqPos = [s \in Seqs |-> [p \in Position |->
                        c.seqPos[s][p] - Occurs(c, I, s, p) + Cardinality(These(s, p))]]
      /\ d = [pos |-> d.pos, seq |-> d.seq, used |-> d.used, seqPos |-> d.seqPos]
  BY <1>0, <1>01, <1>4 DEF PutTokens
<1>6. ASSUME NEW i \in Cell
      PROVE  /\ d.pos[i] = IF i \in I THEN ub[T(i)].pos ELSE c.pos[i]
             /\ d.seq[i] = IF i \in I THEN {ub[T(i)].seq} ELSE c.seq[i]
  BY <1>5
<1>7. ASSUME NEW s \in Seqs, NEW p \in Position
      PROVE  Cardinality(These(s, p)) \in Nat /\ Cardinality(These(s, p)) = Occurs(d, I, s, p)
  <2> DEFINE A == These(s, p)
             D == {i \in I : s \in d.seq[i] /\ d.pos[i] = p}
             f == [j \in A |-> idxs[j]]
  <2>1. \A j \in 1 .. n : d.seq[idxs[j]] = {ub[j].seq} /\ d.pos[idxs[j]] = ub[j].pos
    BY <1>2, <1>6
  <2>2. \A j \in 1 .. n : j \in A <=> idxs[j] \in D
    BY <1>2, <1>3, <2>1
  <2>3. A \subseteq 1 .. n /\ D \subseteq I
    OBVIOUS
  <2> HIDE DEF A, D
  <2>4. f \in Bijection(A, D)
    <3>1. f \in [A -> D]
      BY <2>2, <2>3
    <3>2. \A j, k \in A : f[j] = f[k] => j = k
      BY <2>3 DEF Places
    <3>3. ASSUME NEW i \in D PROVE \E j \in A : f[j] = i
      <4>1. i \in I /\ T(i) \in 1 .. n /\ idxs[T(i)] = i
        BY <1>2, <2>3
      <4>2. T(i) \in A
        BY <2>2, <4>1
      <4>3. QED BY <4>1, <4>2
    <3> HIDE DEF f
    <3>4. QED BY <3>1, <3>2, <3>3 DEF Bijection, Injection, IsInjective, Surjection
  <2>5. IsFiniteSet(1 .. n)
    BY FS_Interval
  <2>6. IsFiniteSet(A) /\ Cardinality(A) \in Nat
    BY <2>3, <2>5, FS_Subset, FS_CardinalityType
  <2>7. Cardinality(D) = Cardinality(A)
    BY <2>4, <2>6, FS_Bijection DEF ExistsBijection
  <2>8. Occurs(d, I, s, p) = Cardinality(D)
    BY DEF Occurs, D
  <2>9. QED BY <2>6, <2>7, <2>8 DEF A
<1> HIDE DEF These
<1>8. d \in CellsType
  <2>1. ASSUME NEW i \in Cell PROVE d.pos[i] \in Position \cup {Unused} /\ d.seq[i] \in SUBSET Seqs
    <3>1. c.pos[i] \in Position \cup {Unused} /\ c.seq[i] \in SUBSET Seqs
      BY <1>1 DEF CellsType
    <3>2. CASE i \in I
      <4>1. PICK j \in 1 .. n : j = T(i)
        BY <1>2, <3>2
      <4>2. d.pos[i] = ub[j].pos /\ d.seq[i] = {ub[j].seq}
        BY <1>6, <3>2, <4>1
      <4>3. QED BY <1>3, <4>2
    <3>3. CASE i \notin I
      BY <1>6, <3>1, <3>3
    <3>4. QED BY <3>2, <3>3
  <2>2. d.pos \in [Cell -> Position \cup {Unused}] /\ d.seq \in [Cell -> SUBSET Seqs]
    BY <1>5, <2>1
  <2>3. d.used \in SUBSET Cell
    BY <1>1, <1>2, <1>5 DEF CellsType
  <2>4. ASSUME NEW s \in Seqs, NEW p \in Position
        PROVE  c.seqPos[s][p] - Occurs(c, I, s, p) + Cardinality(These(s, p)) \in Int
    <3>1. c.seqPos[s][p] \in Int
      BY <1>1 DEF CellsType
    <3>2. Occurs(c, I, s, p) \in Nat
      BY <1>2, OccursIsNat
    <3>3. Cardinality(These(s, p)) \in Nat
      BY <1>7
    <3>4. QED BY <3>1, <3>2, <3>3
  <2>5. d.seqPos \in [Seqs -> [Position -> Int]]
    BY <1>5, <2>4
  <2>6. QED BY <1>5, <2>2, <2>3, <2>5 DEF CellsType
<1>9. ASSUME NEW i \in Cell
      PROVE  (i \in d.used <=> d.pos[i] # Unused) /\ (i \in d.used <=> d.seq[i] # {})
  <2>1. (i \in c.used <=> c.pos[i] # Unused) /\ (i \in c.used <=> c.seq[i] # {})
    BY <1>1 DEF Agree
  <2>2. i \in I => ub[T(i)].pos # Unused
    BY <1>2, <1>3, KvConstants
  <2>3. QED BY <1>5, <1>6, <2>1, <2>2
<1>10. ASSUME NEW s \in Seqs, NEW p \in Position PROVE d.seqPos[s][p] = Occurs(d, Cell, s, p)
  <2>1. d.seqPos[s][p] = c.seqPos[s][p] - Occurs(c, I, s, p) + Cardinality(These(s, p))
    BY <1>5
  <2>2. c.seqPos[s][p] = Occurs(c, Cell, s, p)
    BY <1>1 DEF Agree
  <2>3. \A i \in Cell \ I : (s \in c.seq[i] /\ c.pos[i] = p) <=> (s \in d.seq[i] /\ d.pos[i] = p)
    BY <1>6
  <2>4. Occurs(d, Cell, s, p) = Occurs(c, Cell, s, p) - Occurs(c, I, s, p) + Occurs(d, I, s, p)
    BY <1>2, <2>3, OccursChange
  <2>5. QED BY <1>7, <2>1, <2>2, <2>4
<1>11. GoodCells(d)
  BY <1>8, <1>9, <1>10 DEF GoodCells, Agree
<1>12. ASSUME NEW j \in 1 .. n PROVE d.pos[idxs[j]] = ub[j].pos /\ d.seq[idxs[j]] = {ub[j].seq}
  BY <1>2, <1>6
<1>13. PutIn(c, n, idxs, ub, d)
  BY <1>01, <1>6, <1>12 DEF PutIn
<1>14. QED BY <1>0, <1>11, <1>13

-----------------------------------------------------------------------------
(* The cache: what is left when sequences are removed *)

GoodC == {c \in CellsType : Agree(c)}
KvT   == [cells : GoodC, head : 0 .. NCells]

LEMMA KvIs ==
    /\ \A c : c \in GoodC <=> GoodCells(c)
    /\ \A c, h : GoodCells(c) /\ h \in 0 .. NCells => [cells |-> c, head |-> h] \in KvT
    /\ \A k \in KvT : /\ GoodCells(k.cells) /\ k.head \in 0 .. NCells
                      /\ k = [cells |-> k.cells, head |-> k.head]
<1>1. \A c : c \in GoodC <=> GoodCells(c)
  BY DEF GoodC, GoodCells
<1> HIDE DEF GoodC
<1>2. QED BY <1>1 DEF KvT

LEMMA CellIs ==
    ASSUME NEW c, GoodCells(c), NEW i \in Cell
    PROVE  /\ c.pos[i] \in Position \cup {Unused} /\ c.seq[i] \in SUBSET Seqs
           /\ c.pos[i] # Unused <=> c.seq[i] # {}
           /\ c.pos[i] \in Int
           /\ i \in c.used <=> c.pos[i] # Unused
<1>1. c \in CellsType /\ Agree(c)
  BY DEF GoodCells
<1>2. c.pos[i] \in Position \cup {Unused} /\ c.seq[i] \in SUBSET Seqs
  BY <1>1 DEF CellsType
<1>3. QED BY <1>1, <1>2, KvConstants DEF Agree

LEMMA MinHead ==
    ASSUME NEW h \in 0 .. NCells, NEW F \in SUBSET Cell
    PROVE  /\ Min({h} \cup F) \in 0 .. NCells
           /\ F # {} => Min(F) \in 0 .. NCells
<1>1. ASSUME NEW T \in SUBSET (0 .. NCells), T # {} PROVE Min(T) \in 0 .. NCells
  <2>0. T \subseteq Nat /\ NCells \in Nat
    BY KvConstants
  <2>1. PICK x \in T : \A y \in T : x <= y
    BY <1>1, <2>0, LeastNat
  <2>2. Min(T) \in T
    BY <2>1 DEF Min
  <2>3. QED BY <2>2
<1>2. F \in SUBSET (0 .. NCells) /\ {h} \cup F \in SUBSET (0 .. NCells)
  BY KvConstants
<1>3. QED BY <1>1, <1>2

\* what is left of cells c when the sequences in gone are removed
LeftBy(c, gone, d) ==
    \A i \in Cell : /\ d.seq[i] = {s \in c.seq[i] : <<i, s>> \notin gone}
                    /\ d.pos[i] = IF d.seq[i] = {} THEN Unused ELSE c.pos[i]

LEMMA SeqRmCellsIs ==
    ASSUME NEW c, GoodCells(c), NEW gone
    PROVE  GoodCells(SeqRmCells(c, gone)) /\ LeftBy(c, gone, SeqRmCells(c, gone))
<1>1. PICK d : d = SeqRmCells(c, gone)
  OBVIOUS
<1>2. /\ GoodCells(d)
      /\ \A i \in Cell : /\ d.seq[i] = {s \in c.seq[i] : <<i, s>> \notin gone}
                         /\ d.pos[i] = IF i \in Freed(c, gone) THEN Unused ELSE c.pos[i]
  BY <1>1, SeqRmCellsGood
<1>3. ASSUME NEW i \in Cell PROVE d.pos[i] = IF d.seq[i] = {} THEN Unused ELSE c.pos[i]
  <2>1. c.pos[i] # Unused <=> c.seq[i] # {}
    BY CellIs
  <2>2. i \in Freed(c, gone) <=> c.seq[i] # {} /\ d.seq[i] = {}
    BY <1>2 DEF Freed
  <2>3. d.seq[i] # {} => c.seq[i] # {}
    BY <1>2
  <2>4. QED BY <1>2, <2>1, <2>2, <2>3
<1>4. QED BY <1>1, <1>2, <1>3 DEF LeftBy

LEMMA RemoveSeqsIs ==
    ASSUME NEW k \in KvT, NEW gone
    PROVE  RemoveSeqs(k, gone) \in KvT /\ LeftBy(k.cells, gone, RemoveSeqs(k, gone).cells)
<1>1. GoodCells(k.cells) /\ k.head \in 0 .. NCells
  BY KvIs
<1>2. PICK c : c = SeqRmCells(k.cells, gone)
  OBVIOUS
<1>3. GoodCells(c) /\ LeftBy(k.cells, gone, c)
  BY <1>1, <1>2, SeqRmCellsIs
<1>4. PICK h : h = Min({k.head} \cup Freed(k.cells, gone))
  OBVIOUS
<1>5. h \in 0 .. NCells
  <2>1. Freed(k.cells, gone) \in SUBSET Cell
    BY DEF Freed
  <2>2. QED BY <1>1, <1>4, <2>1, MinHead
<1>6. RemoveSeqs(k, gone) = [cells |-> c, head |-> h]
  BY <1>2, <1>4 DEF RemoveSeqs
<1>7. QED BY <1>3, <1>5, <1>6, KvIs

\* what is left when s is removed from the positions p0 to p1 - 1
LeftOf(c, s, p0, p1, d) ==
    \A i \in Cell : /\ d.seq[i] = IF p0 <= c.pos[i] /\ c.pos[i] < p1 THEN c.seq[i] \ {s} ELSE c.seq[i]
                    /\ d.pos[i] = IF d.seq[i] = {} THEN Unused ELSE c.pos[i]

LEMMA SeqRmIs ==
    ASSUME NEW k \in KvT, NEW s \in Seqs, NEW p0 \in Int, NEW p1 \in Int
    PROVE  SeqRm(k, s, p0, p1) \in KvT /\ LeftOf(k.cells, s, p0, p1, SeqRm(k, s, p0, p1).cells)
<1> DEFINE gone == {<<i, s>> : i \in InRange(k.cells, s, p0, p1)}
<1>1. PICK d : d = SeqRm(k, s, p0, p1)
  OBVIOUS
<1>2. d = RemoveSeqs(k, gone)
  BY <1>1 DEF SeqRm
<1>3. \A i \in Cell : \A q : <<i, q>> \in gone
             <=> q = s /\ k.cells.pos[i] >= p0 /\ k.cells.pos[i] < p1 /\ s \in k.cells.seq[i]
  BY DEF InRange
<1>4. GoodCells(k.cells)
  BY KvIs
<1> HIDE DEF gone
<1>5. d \in KvT /\ LeftBy(k.cells, gone, d.cells)
  BY <1>2, RemoveSeqsIs
<1>6. ASSUME NEW i \in Cell
      PROVE  /\ d.cells.seq[i] = IF p0 <= k.cells.pos[i] /\ k.cells.pos[i] < p1
                                 THEN k.cells.seq[i] \ {s} ELSE k.cells.seq[i]
             /\ d.cells.pos[i] = IF d.cells.seq[i] = {} THEN Unused ELSE k.cells.pos[i]
  <2>1. d.cells.seq[i] = {q \in k.cells.seq[i] : <<i, q>> \notin gone}
    BY <1>5 DEF LeftBy
  <2>2. k.cells.pos[i] \in Int
    BY <1>4, CellIs
  <2>3. d.cells.seq[i] = {q \in k.cells.seq[i] :
            ~(q = s /\ k.cells.pos[i] >= p0 /\ k.cells.pos[i] < p1 /\ s \in k.cells.seq[i])}
    BY <1>3, <2>1
  <2>4. CASE p0 <= k.cells.pos[i] /\ k.cells.pos[i] < p1
    <3>1. d.cells.seq[i] = k.cells.seq[i] \ {s}
      BY <2>2, <2>3, <2>4
    <3>2. QED BY <1>5, <2>4, <3>1 DEF LeftBy
  <2>5. CASE ~(p0 <= k.cells.pos[i] /\ k.cells.pos[i] < p1)
    <3>1. d.cells.seq[i] = k.cells.seq[i]
      BY <2>2, <2>3, <2>5
    <3>2. QED BY <1>5, <2>5, <3>1 DEF LeftBy
  <2>6. QED BY <2>4, <2>5
<1>7. QED BY <1>1, <1>5, <1>6 DEF LeftOf

-----------------------------------------------------------------------------
(* Placing one ubatch: what it overwrites and purges, and where it fits *)

\* lost: pairs of a sequence and a position
PurgedBy(c, lost, d) ==
    \A i \in Cell : /\ d.seq[i] = {s \in c.seq[i] : ~\E x \in lost : x[1] = s /\ c.pos[i] <= x[2]}
                    /\ d.pos[i] = IF d.seq[i] = {} THEN Unused ELSE c.pos[i]

LEMMA PurgeIs ==
    ASSUME NEW c, GoodCells(c), NEW lost, lost \subseteq Seqs \X (Position \cup {Unused})
    PROVE  GoodCells(Purge(c, lost)) /\ PurgedBy(c, lost, Purge(c, lost))
<1>1. CASE lost = {}
  <2>1. Purge(c, lost) = c
    BY <1>1 DEF Purge
  <2>2. ASSUME NEW i \in Cell
        PROVE  /\ c.seq[i] = {s \in c.seq[i] : ~\E x \in lost : x[1] = s /\ c.pos[i] <= x[2]}
               /\ c.pos[i] = IF c.seq[i] = {} THEN Unused ELSE c.pos[i]
    <3>1. c.pos[i] # Unused <=> c.seq[i] # {}
      BY CellIs
    <3>2. QED BY <1>1, <3>1
  <2>3. QED BY <2>1, <2>2 DEF PurgedBy
<1>2. CASE lost # {}
  <2> DEFINE gone == UNION {{<<i, x[1]>> : i \in InRange(c, x[1], 0, x[2] + 1)} : x \in lost}
  <2>1. PICK d : d = Purge(c, lost)
    OBVIOUS
  <2>2. d = SeqRmCells(c, gone)
    BY <1>2, <2>1 DEF Purge
  <2>3. ASSUME NEW i \in Cell, NEW s \in c.seq[i]
        PROVE  <<i, s>> \in gone <=> \E x \in lost : x[1] = s /\ c.pos[i] <= x[2]
    <3>1. c.seq[i] \in SUBSET Seqs /\ c.pos[i] \in Position \cup {Unused} /\ c.pos[i] # Unused
      BY CellIs
    <3>2. c.pos[i] \in Int /\ c.pos[i] >= 0
      BY <3>1, KvConstants
    <3>3. ASSUME NEW x \in lost
          PROVE  i \in InRange(c, s, 0, x[2] + 1) <=> c.pos[i] <= x[2]
      <4>1. x[2] \in Int
        BY <3>3, KvConstants
      <4>2. QED BY <3>2, <4>1 DEF InRange
    <3>4. <<i, s>> \in gone <=> \E x \in lost : x[1] = s /\ i \in InRange(c, x[1], 0, x[2] + 1)
      OBVIOUS
    <3>5. QED BY <3>3, <3>4
  <2> HIDE DEF gone
  <2>4. GoodCells(d) /\ LeftBy(c, gone, d)
    BY <2>2, SeqRmCellsIs
  <2>5. PurgedBy(c, lost, d)
    BY <2>3, <2>4, ZenonT(30) DEF PurgedBy, LeftBy
  <2>6. QED BY <2>1, <2>4, <2>5
<1>3. QED BY <1>1, <1>2

LEMMA OverwrittenIs ==
    ASSUME NEW c, GoodCells(c), NEW I \in SUBSET Cell
    PROVE  /\ Overwritten(c, I) \subseteq Seqs \X (Position \cup {Unused})
           /\ \A s \in Seqs : \A p : <<s, p>> \in Overwritten(c, I)
                                   <=> \E i \in I : c.seq[i] = {s} /\ c.pos[i] = p
<1>1. \A i \in I : c.pos[i] \in Position \cup {Unused}
  BY CellIs
<1>2. QED BY <1>1 DEF Overwritten

LEMMA ApplyIs ==
    ASSUME NEW k \in KvT, NEW n \in Nat \ {0}, NEW idxs \in Places(n), NEW ub \in [1 .. n -> TokenT],
           Len(ub) = n
    PROVE  /\ ApplyUbatch(k, idxs, ub) \in KvT
           /\ PurgedBy(PutTokens(k.cells, idxs, ub), Overwritten(k.cells, Range(idxs)),
                     ApplyUbatch(k, idxs, ub).cells)
           /\ ApplyUbatch(k, idxs, ub).head = idxs[n] + 1
<1>1. GoodCells(k.cells)
  BY KvIs
<1>2. GoodCells(PutTokens(k.cells, idxs, ub))
  BY <1>1, PutTokensGood
<1>3. Overwritten(k.cells, Range(idxs)) \subseteq Seqs \X (Position \cup {Unused})
  <2>1. Range(idxs) \in SUBSET Cell
    BY PlacesAre
  <2>2. QED BY <1>1, <2>1, OverwrittenIs
<1>4. PICK c : c = Purge(PutTokens(k.cells, idxs, ub), Overwritten(k.cells, Range(idxs)))
  OBVIOUS
<1>5. GoodCells(c) /\ PurgedBy(PutTokens(k.cells, idxs, ub), Overwritten(k.cells, Range(idxs)), c)
  BY <1>2, <1>3, <1>4, PurgeIs
<1>6. idxs[n] + 1 \in 0 .. NCells
  <2>1. idxs[n] \in Cell
    BY DEF Places
  <2>2. QED BY <2>1, KvConstants
<1>7. ApplyUbatch(k, idxs, ub) = [cells |-> c, head |-> idxs[n] + 1]
  BY <1>4 DEF ApplyUbatch
<1>8. QED BY <1>5, <1>6, <1>7, KvIs

\* d: k, with what b holds in the cells I
RestoredTo(k, I, b, d) ==
    /\ d.head = b.head
    /\ \A i \in Cell :
          /\ d.cells.pos[i] = IF i \in I THEN b.cells.pos[i] ELSE k.cells.pos[i]
          /\ d.cells.seq[i] = IF i \in I THEN b.cells.seq[i] ELSE k.cells.seq[i]

LEMMA RestoreIs ==
    ASSUME NEW k \in KvT, NEW b \in KvT, NEW n \in Nat, NEW idxs \in Places(n)
    PROVE  RestoreOne(k, idxs, b) \in KvT /\ RestoredTo(k, Range(idxs), b, RestoreOne(k, idxs, b))
<1>1. GoodCells(k.cells) /\ GoodCells(b.cells) /\ b.head \in 0 .. NCells
  BY KvIs
<1>2. Range(idxs) \in SUBSET Cell
  BY PlacesAre
<1>3. PICK c : c = SetCells(k.cells, Range(idxs), b.cells)
  OBVIOUS
<1>4. /\ GoodCells(c)
      /\ \A i \in Cell : /\ c.pos[i] = IF i \in Range(idxs) THEN b.cells.pos[i] ELSE k.cells.pos[i]
                         /\ c.seq[i] = IF i \in Range(idxs) THEN b.cells.seq[i] ELSE k.cells.seq[i]
  BY <1>1, <1>2, <1>3, SetCellsGood
<1>5. PICK d : d = RestoreOne(k, idxs, b)
  OBVIOUS
<1>6. d = [cells |-> c, head |-> b.head]
  BY <1>3, <1>5 DEF RestoreOne
<1>7. d \in KvT
  BY <1>1, <1>4, <1>6, KvIs
<1>8. RestoredTo(k, Range(idxs), b, d)
  BY <1>4, <1>6 DEF RestoredTo
<1>9. QED BY <1>5, <1>7, <1>8

LEMMA AheadIs ==
    ASSUME NEW start \in 0 .. NCells
    PROVE  /\ \A i \in Cell : Ahead(start, i) \in Nat
           /\ \A i, j \in Cell : Ahead(start, i) = Ahead(start, j) => i = j
<1>1. ASSUME NEW i \in Cell, NEW j \in Cell
      PROVE  Ahead(start, i) \in Nat /\ (Ahead(start, i) = Ahead(start, j) => i = j)
  BY KvConstants DEF Ahead
<1>2. QED BY <1>1

\* the j-th usable cell from the start on
LEMMA NthUsable ==
    ASSUME NEW U \in SUBSET Cell, NEW start \in 0 .. NCells, NEW m \in Nat, m < Cardinality(U)
    PROVE  \E i \in U : Cardinality({h \in U : Ahead(start, h) < Ahead(start, i)}) = m
<1> DEFINE f == [i \in U |-> Ahead(start, i)]
           F == {f[i] : i \in U}
<1>1. IsFiniteSet(U)
  BY CellIsFinite
<1>2. \A i \in U : f[i] \in Nat /\ f[i] = Ahead(start, i)
  BY AheadIs
<1>3. \A i, j \in U : f[i] = f[j] => i = j
  BY <1>2, AheadIs
<1>a. DOMAIN f = U
  OBVIOUS
<1> HIDE DEF f
<1>4. ASSUME NEW V \in SUBSET U, NEW T, T = {f[i] : i \in V}
      PROVE  IsFiniteSet(T) /\ Cardinality(T) = Cardinality(V)
  <2> DEFINE g == [i \in V |-> f[i]]
  <2>1. g \in Bijection(V, T)
    <3>1. g \in [V -> T] /\ \A i, j \in V : g[i] = g[j] => i = j
      BY <1>3, <1>4
    <3>2. \A y \in T : \E i \in V : g[i] = y
      BY <1>4
    <3> HIDE DEF g
    <3>3. QED BY <3>1, <3>2 DEF Bijection, Injection, IsInjective, Surjection
  <2>2. IsFiniteSet(V)
    BY <1>1, FS_Subset
  <2>3. QED BY <2>1, <2>2, FS_Bijection DEF ExistsBijection
<1>5. IsFiniteSet(F) /\ Cardinality(F) = Cardinality(U) /\ F \subseteq Nat
  <2>1. F \subseteq Nat
    BY <1>2
  <2>2. U \in SUBSET U
    OBVIOUS
  <2>3. IsFiniteSet(F) /\ Cardinality(F) = Cardinality(U)
    BY <1>4, <2>2
  <2>4. QED BY <2>1, <2>3
<1>6. PICK y \in F : Cardinality({z \in F : z < y}) = m
  <2> HIDE DEF F
  <2>1. QED BY <1>5, RankExists
<1>7. PICK i \in U : y = f[i]
  BY <1>6
<1> DEFINE V == {h \in U : Ahead(start, h) < Ahead(start, i)}
<1>8. {z \in F : z < y} = {f[h] : h \in V}
  BY <1>2, <1>7
<1>9. V \in SUBSET U
  OBVIOUS
<1>10. Cardinality(V) = m
  <2> HIDE DEF V, F
  <2>1. PICK T : T = {f[h] : h \in V}
    OBVIOUS
  <2>2. Cardinality(T) = Cardinality(V)
    BY <1>4, <1>9, <2>1
  <2>3. QED BY <1>6, <1>8, <2>1, <2>2
<1>11. QED BY <1>10

LEMMA FindSlotIs ==
    ASSUME NEW k \in KvT, NEW n \in Nat \ {0}
    PROVE  /\ FindSlot(k, n) = <<>> <=> Cardinality(Usable(k.cells)) < n
           /\ FindSlot(k, n) # <<>> => /\ FindSlot(k, n) \in Places(n)
                                       /\ Range(FindSlot(k, n)) \subseteq Usable(k.cells)
<1>0. PICK U : U = Usable(k.cells)
  OBVIOUS
<1>1. U \in SUBSET Cell /\ Cardinality(U) \in Nat
  BY <1>0, CellIsFinite DEF Usable
<1>2. PICK start : start = Start(k, n)
  OBVIOUS
<1>3. start \in 0 .. NCells
  BY <1>2, KvIs, KvConstants DEF Start
<1> DEFINE rank(i) == Cardinality({h \in U : Ahead(start, h) < Ahead(start, i)})
           x == [j \in 1 .. n |-> CHOOSE i \in U : rank(i) = j - 1]
<1>4. FindSlot(k, n) = IF Cardinality(U) < n THEN <<>> ELSE x
  BY <1>0, <1>2 DEF FindSlot
<1>5. ASSUME ~(Cardinality(U) < n), NEW j \in 1 .. n
      PROVE  x[j] \in U /\ rank(x[j]) = j - 1
  <2>1. j - 1 \in Nat /\ j - 1 < Cardinality(U)
    BY <1>1, <1>5
  <2>2. \E i \in U : rank(i) = j - 1
    BY <1>1, <1>3, <2>1, NthUsable
  <2> HIDE DEF rank
  <2>3. QED BY <2>2
<1>6. DOMAIN x = 1 .. n
  OBVIOUS
<1> HIDE DEF x, rank
<1>7. ASSUME ~(Cardinality(U) < n)
      PROVE  x \in Places(n) /\ Range(x) \subseteq U
  <2>1. \A j \in 1 .. n : x[j] \in U
    BY <1>5, <1>7
  <2>2. \A j, l \in 1 .. n : x[j] = x[l] => j = l
    BY <1>5, <1>7
  <2>3. x \in [1 .. n -> Cell]
    BY <1>1, <1>6, <2>1 DEF x
  <2>4. QED BY <1>6, <2>1, <2>2, <2>3 DEF Places, Range
<1>8. x # <<>>
  BY <1>6
<1>9. QED BY <1>0, <1>1, <1>4, <1>7, <1>8

-----------------------------------------------------------------------------
(* prepare: the ubatches are placed one after the other *)

LEMMA CountUp ==
    ASSUME NEW n \in Nat, NEW B, 0 \in B, \A u \in 1 .. n : u - 1 \in B => u \in B
    PROVE  \A u \in 0 .. n : u \in B
<1> DEFINE f == [u \in 0 .. n |-> u]
<1>1. f[0] \in B /\ \A u \in 1 .. n : f[u - 1] \in B => f[u] \in B
  OBVIOUS
<1>2. \A u \in 0 .. n : f[u] = u
  OBVIOUS
<1> HIDE DEF f
<1>3. \A u \in 0 .. n : f[u] \in B
  BY <1>1, LoopKeeps
<1>4. QED BY <1>2, <1>3

\* the ubatches of a batch
UbatchesOk(ubs) ==
    /\ Len(ubs) \in Nat
    /\ \A u \in 1 .. Len(ubs) : Len(ubs[u]) \in Nat \ {0} /\ ubs[u] \in [1 .. Len(ubs[u]) -> TokenT]

RoundT    == [ok : BOOLEAN, n : Nat, idxs : Seq(Cell), kv : KvT]

LEMMA PrepareOneIs ==
    ASSUME NEW a \in RoundT, NEW ub, Len(ub) \in Nat \ {0}, ub \in [1 .. Len(ub) -> TokenT]
    PROVE  /\ PrepareOne(a, ub) \in RoundT
           /\ a.ok /\ FindSlot(a.kv, Len(ub)) # <<>> =>
                /\ FindSlot(a.kv, Len(ub)) \in Places(Len(ub))
                /\ PrepareOne(a, ub).ok /\ PrepareOne(a, ub).n = a.n + 1
                /\ PrepareOne(a, ub).idxs = FindSlot(a.kv, Len(ub))
                /\ PrepareOne(a, ub).kv = ApplyUbatch(a.kv, FindSlot(a.kv, Len(ub)), ub)
           /\ ~(a.ok /\ FindSlot(a.kv, Len(ub)) # <<>>) =>
                ~PrepareOne(a, ub).ok /\ PrepareOne(a, ub).n = a.n
<1>0. PICK idxs : idxs = FindSlot(a.kv, Len(ub))
  OBVIOUS
<1>1. a.kv \in KvT /\ a.ok \in BOOLEAN /\ a.n \in Nat /\ a.idxs \in Seq(Cell)
      /\ a = [ok |-> a.ok, n |-> a.n, idxs |-> a.idxs, kv |-> a.kv]
  BY DEF RoundT
<1>2. idxs # <<>> => idxs \in Places(Len(ub))
  BY <1>0, <1>1, FindSlotIs
<1>3. CASE a.ok /\ idxs # <<>>
  <2>1. PICK k : k = ApplyUbatch(a.kv, idxs, ub)
    OBVIOUS
  <2>2. k \in KvT
    BY <1>1, <1>2, <1>3, <2>1, ApplyIs
  <2>3. PrepareOne(a, ub) = [ok |-> TRUE, n |-> a.n + 1, idxs |-> idxs, kv |-> k]
    BY <1>0, <1>3, <2>1 DEF PrepareOne
  <2>4. idxs \in Seq(Cell) /\ a.n + 1 \in Nat
    BY <1>1, <1>2, <1>3 DEF Places
  <2>5. PrepareOne(a, ub) \in RoundT
    BY <2>2, <2>3, <2>4 DEF RoundT
  <2>6. QED BY <1>0, <1>2, <1>3, <2>1, <2>3, <2>5
<1>4. CASE ~(a.ok /\ idxs # <<>>)
  <2>1. PrepareOne(a, ub) = [a EXCEPT !.ok = FALSE]
    BY <1>0, <1>4 DEF PrepareOne
  <2>2. [a EXCEPT !.ok = FALSE] \in RoundT /\ [a EXCEPT !.ok = FALSE].n = a.n
        /\ [a EXCEPT !.ok = FALSE].ok = FALSE
    BY <1>1 DEF RoundT
  <2>3. QED BY <1>0, <1>4, <2>1, <2>2
<1>5. QED BY <1>3, <1>4

LEMMA PrepareLoopIs ==
    ASSUME NEW k \in KvT, NEW ubs, UbatchesOk(ubs)
    PROVE  /\ \A u \in 0 .. Len(ubs) : PrepareLoop(k, ubs)[u] \in RoundT
           /\ PrepareLoop(k, ubs)[0] = [ok |-> TRUE, n |-> 0, idxs |-> <<>>, kv |-> k]
           /\ \A u \in 1 .. Len(ubs) : PrepareLoop(k, ubs)[u] = PrepareOne(PrepareLoop(k, ubs)[u - 1], ubs[u])
<1> DEFINE n == Len(ubs)
           a == [ok |-> TRUE, n |-> 0, idxs |-> <<>>, kv |-> k]
           step == [u \in 1 .. n |-> [v \in RoundT |-> PrepareOne(v, ubs[u])]]
           F == CHOOSE found : found = [u \in 0 .. n |->
                    IF u = 0 THEN a ELSE PrepareOne(found[u - 1], ubs[u])]
<1>1. n \in Nat /\ a \in RoundT
  <2>1. n \in Nat
    BY DEF UbatchesOk
  <2>2. <<>> \in Seq(Cell)
    OBVIOUS
  <2>3. PICK e : e = <<>>
    OBVIOUS
  <2>4. [ok |-> TRUE, n |-> 0, idxs |-> e, kv |-> k] \in RoundT
    BY <2>2, <2>3 DEF RoundT
  <2>5. QED BY <2>1, <2>3, <2>4
<1>2. ASSUME NEW u \in 1 .. n, NEW v \in RoundT PROVE PrepareOne(v, ubs[u]) \in RoundT
  <2>1. Len(ubs[u]) \in Nat \ {0} /\ ubs[u] \in [1 .. Len(ubs[u]) -> TokenT]
    BY DEF UbatchesOk
  <2>2. QED BY <2>1, PrepareOneIs
<1> HIDE DEF a
<1>3. step \in [1 .. n -> [RoundT -> RoundT]]
  BY <1>2
<1>4. PICK f : f \in [0 .. n -> RoundT] /\ f = [i \in 0 .. n |-> IF i = 0 THEN a ELSE step[i][f[i - 1]]]
  <2> HIDE DEF step, n
  <2>1. \E f : Rounds(f, RoundT, a, n, step)
    BY <1>1, <1>3, LoopRuns
  <2>2. QED BY <2>1 DEF Rounds
<1>5. \E found : found = [u \in 0 .. n |-> IF u = 0 THEN a ELSE PrepareOne(found[u - 1], ubs[u])]
  <2>1. ASSUME NEW i \in 0 .. n
        PROVE f[i] = IF i = 0 THEN a ELSE PrepareOne(f[i - 1], ubs[i])
    <3>1. f[i] = IF i = 0 THEN a ELSE step[i][f[i - 1]]
      BY <1>4
    <3>2. ASSUME i # 0 PROVE step[i][f[i - 1]] = PrepareOne(f[i - 1], ubs[i])
      <4>1. i \in 1 .. n /\ i - 1 \in 0 .. n
        BY <1>1, <3>2
      <4>2. f[i - 1] \in RoundT
        BY <1>4, <4>1
      <4>3. QED BY <4>1, <4>2
    <3>3. QED BY <3>1, <3>2
  <2>2. f = [i \in 0 .. n |-> IF i = 0 THEN a ELSE PrepareOne(f[i - 1], ubs[i])]
    BY <1>4, <2>1
  <2>3. QED BY <2>2
<1>6. F = [u \in 0 .. n |-> IF u = 0 THEN a ELSE PrepareOne(F[u - 1], ubs[u])]
  BY <1>5, Zenon
<1>7. PrepareLoop(k, ubs) = F
  BY Zenon DEF PrepareLoop, a
<1> HIDE DEF F
<1>8. F[0] = a /\ \A u \in 1 .. n : F[u] = PrepareOne(F[u - 1], ubs[u])
  BY <1>1, <1>6
<1>9. F[0] \in RoundT /\ \A u \in 1 .. n : F[u - 1] \in RoundT => F[u] \in RoundT
  BY <1>1, <1>2, <1>8
<1>10. \A u \in 0 .. n : F[u] \in RoundT
  <2> HIDE DEF n
  <2>1. QED BY <1>1, <1>9, LoopKeeps
<1>11. QED BY <1>7, <1>8, <1>10 DEF a

\* A round follows one that found a place, and nothing follows one that did not.
RoundIs(f, ubs, u) ==
    \/ f[u].ok /\ f[u].n = u
    \/ /\ ~f[u].ok /\ f[u].n \in 0 .. u - 1
       /\ FindSlot(f[f[u].n].kv, Len(ubs[f[u].n + 1])) = <<>>

\* ks: the caches of a prepared batch, is: the places of its ubatches
Simulated(k, ubs, n, ks, is) ==
    /\ n \in 0 .. Len(ubs)
    /\ ks[0] = k
    /\ \A u \in 0 .. n : ks[u] \in KvT
    /\ \A u \in 1 .. n : /\ is[u] = FindSlot(ks[u - 1], Len(ubs[u]))
                         /\ is[u] \in Places(Len(ubs[u]))
                         /\ Range(is[u]) \subseteq Usable(ks[u - 1].cells)
                         /\ ks[u] = ApplyUbatch(ks[u - 1], is[u], ubs[u])

LEMMA SimulatedIs ==
    ASSUME NEW k \in KvT, NEW ubs, UbatchesOk(ubs), NEW f, f = PrepareLoop(k, ubs),
           NEW n, n = f[Len(ubs)].n
    PROVE  /\ Simulated(k, ubs, n, [u \in 0 .. n |-> f[u].kv], [u \in 1 .. n |-> f[u].idxs])
           /\ f[Len(ubs)].ok <=> n = Len(ubs)
           /\ ~f[Len(ubs)].ok => n < Len(ubs) /\ FindSlot(f[n].kv, Len(ubs[n + 1])) = <<>>
<1> DEFINE N == Len(ubs)
           Good(u) == RoundIs(f, ubs, u) /\ \A v \in 0 .. f[u].n : f[v].ok /\ f[v].n = v
<1>1. /\ \A u \in 0 .. N : f[u] \in RoundT
      /\ f[0] = [ok |-> TRUE, n |-> 0, idxs |-> <<>>, kv |-> k]
      /\ \A u \in 1 .. N : f[u] = PrepareOne(f[u - 1], ubs[u])
  BY PrepareLoopIs
<1>2. N \in Nat /\ \A u \in 1 .. N : Len(ubs[u]) \in Nat \ {0} /\ ubs[u] \in [1 .. Len(ubs[u]) -> TokenT]
  BY DEF UbatchesOk
<1> HIDE DEF N
<1>3. \A u \in 0 .. N : f[u].ok \in BOOLEAN /\ f[u].n \in Nat /\ f[u].kv \in KvT
  BY <1>1 DEF RoundT
<1>4. ASSUME NEW u \in 1 .. N
      PROVE  /\ u - 1 \in 0 .. N
             /\ f[u - 1].ok /\ FindSlot(f[u - 1].kv, Len(ubs[u])) # <<>> =>
                  /\ FindSlot(f[u - 1].kv, Len(ubs[u])) \in Places(Len(ubs[u]))
                  /\ f[u].ok /\ f[u].n = f[u - 1].n + 1
                  /\ f[u].idxs = FindSlot(f[u - 1].kv, Len(ubs[u]))
                  /\ f[u].kv = ApplyUbatch(f[u - 1].kv, FindSlot(f[u - 1].kv, Len(ubs[u])), ubs[u])
             /\ ~(f[u - 1].ok /\ FindSlot(f[u - 1].kv, Len(ubs[u])) # <<>>) =>
                  ~f[u].ok /\ f[u].n = f[u - 1].n
  <2>1. u - 1 \in 0 .. N
    BY <1>2
  <2>2. f[u - 1] \in RoundT /\ f[u] = PrepareOne(f[u - 1], ubs[u])
    BY <1>1, <2>1
  <2>3. Len(ubs[u]) \in Nat \ {0} /\ ubs[u] \in [1 .. Len(ubs[u]) -> TokenT]
    BY <1>2
  <2>4. QED BY <2>1, <2>2, <2>3, PrepareOneIs
<1>5. Good(0)
  BY <1>1 DEF RoundIs
<1>6. ASSUME NEW u \in 1 .. N, Good(u - 1) PROVE Good(u)
  <2>1. CASE f[u - 1].ok /\ FindSlot(f[u - 1].kv, Len(ubs[u])) # <<>>
    <3>1. f[u - 1].n = u - 1 /\ f[u].n = u /\ f[u].ok
      BY <1>3, <1>4, <1>6, <2>1 DEF RoundIs
    <3>2. \A v \in 0 .. u : v = u \/ v \in 0 .. u - 1
      OBVIOUS
    <3>3. QED BY <1>6, <3>1, <3>2 DEF RoundIs
  <2>2. CASE f[u - 1].ok /\ FindSlot(f[u - 1].kv, Len(ubs[u])) = <<>>
    <3>1. f[u - 1].n = u - 1 /\ f[u].n = u - 1 /\ ~f[u].ok /\ u - 1 \in 0 .. u - 1 /\ (u - 1) + 1 = u
      BY <1>3, <1>4, <1>6, <2>2 DEF RoundIs
    <3>2. QED BY <1>6, <2>2, <3>1 DEF RoundIs
  <2>3. CASE ~f[u - 1].ok
    <3>1. f[u].n = f[u - 1].n /\ ~f[u].ok
      BY <1>4, <2>3
    <3>2. f[u - 1].n \in 0 .. u - 1
      BY <1>3, <1>4, <1>6, <2>3 DEF RoundIs
    <3>3. QED BY <1>6, <2>3, <3>1, <3>2 DEF RoundIs
  <2>4. QED BY <1>3, <1>4, <2>1, <2>2, <2>3
<1>7. Good(N)
  <2> DEFINE B == {u \in 0 .. N : Good(u)}
  <2>1. 0 \in B
    BY <1>2, <1>5
  <2>2. ASSUME NEW u \in 1 .. N, u - 1 \in B PROVE u \in B
    <3>1. Good(u - 1)
      BY <2>2
    <3>2. Good(u)
      BY <1>6, <3>1
    <3>3. QED BY <1>2, <3>2
  <2>3. \A u \in 0 .. N : u \in B
    <3> HIDE DEF B
    <3>1. QED BY <1>2, <2>1, <2>2, CountUp
  <2>4. QED BY <1>2, <2>3
<1>8. n = f[N].n
  BY DEF N
<1>9. /\ n \in 0 .. N /\ \A v \in 0 .. n : f[v].ok /\ f[v].n = v
      /\ f[N].ok <=> n = N
      /\ ~f[N].ok => n < N /\ FindSlot(f[n].kv, Len(ubs[n + 1])) = <<>>
  BY <1>2, <1>3, <1>7, <1>8 DEF RoundIs
<1> HIDE DEF Good
<1> DEFINE ks == [u \in 0 .. n |-> f[u].kv]
           is == [u \in 1 .. n |-> f[u].idxs]
<1>10. ks[0] = k /\ \A u \in 0 .. n : ks[u] \in KvT
  <2>1. n \in Nat /\ 0 \in 0 .. n /\ \A u \in 0 .. n : u \in 0 .. N
    BY <1>2, <1>9
  <2>2. f[0].kv = k
    BY <1>1
  <2>3. \A u \in 0 .. n : ks[u] = f[u].kv /\ f[u].kv \in KvT
    BY <1>3, <2>1
  <2> HIDE DEF ks
  <2>4. QED BY <2>1, <2>2, <2>3
<1>11. ASSUME NEW u \in 1 .. n
       PROVE  /\ is[u] = FindSlot(ks[u - 1], Len(ubs[u]))
              /\ is[u] \in Places(Len(ubs[u]))
              /\ Range(is[u]) \subseteq Usable(ks[u - 1].cells)
              /\ ks[u] = ApplyUbatch(ks[u - 1], is[u], ubs[u])
  <2>1. u \in 1 .. N /\ u \in 0 .. n /\ u - 1 \in 0 .. n /\ u - 1 \in 0 .. N
    BY <1>2, <1>9
  <2>2. ks[u] = f[u].kv /\ ks[u - 1] = f[u - 1].kv /\ is[u] = f[u].idxs
    BY <2>1
  <2>3. f[u].ok /\ f[u - 1].ok
    BY <1>9, <2>1
  <2>4. FindSlot(f[u - 1].kv, Len(ubs[u])) # <<>>
    BY <1>4, <2>1, <2>3
  <2>5. f[u - 1].kv \in KvT /\ Len(ubs[u]) \in Nat \ {0}
    BY <1>2, <1>3, <2>1
  <2>6. Range(FindSlot(f[u - 1].kv, Len(ubs[u]))) \subseteq Usable(f[u - 1].kv.cells)
    BY <2>4, <2>5, FindSlotIs
  <2>7. /\ FindSlot(f[u - 1].kv, Len(ubs[u])) \in Places(Len(ubs[u]))
        /\ f[u].idxs = FindSlot(f[u - 1].kv, Len(ubs[u]))
        /\ f[u].kv = ApplyUbatch(f[u - 1].kv, FindSlot(f[u - 1].kv, Len(ubs[u])), ubs[u])
    BY <1>4, <2>1, <2>3, <2>4
  <2> HIDE DEF ks, is
  <2>8. QED BY <2>2, <2>6, <2>7
<1> HIDE DEF ks, is
<1>12. Simulated(k, ubs, n, ks, is)
  BY <1>9, <1>10, <1>11 DEF Simulated, N
<1>13. QED BY <1>9, <1>12 DEF N, ks, is

-----------------------------------------------------------------------------
(* prepare: what is undone *)

\* R: the caches of the loop that undoes
LEMMA UndoLoop ==
    ASSUME NEW ubs, NEW n \in Nat, NEW f, \A u \in 0 .. n : f[u].kv \in KvT,
           UbatchesOk(ubs), n <= Len(ubs), \A u \in 1 .. n : f[u].idxs \in Places(Len(ubs[u]))
    PROVE  \E R : /\ R[0] = f[n].kv
                  /\ \A j \in 0 .. n : R[j] \in KvT
                  /\ \A j \in 1 .. n : R[j] = RestoreOne(R[j - 1], f[n - j + 1].idxs, f[n - j].kv)
                  /\ Undo(f, n) = R[n]
<1> DEFINE a == f[n].kv
           step == [j \in 1 .. n |-> [v \in KvT |-> RestoreOne(v, f[n - j + 1].idxs, f[n - j].kv)]]
           F == CHOOSE undone : undone = [j \in 0 .. n |->
                    IF j = 0 THEN f[n].kv
                    ELSE RestoreOne(undone[j - 1], f[n - j + 1].idxs, f[n - j].kv)]
<1>1. a \in KvT
  OBVIOUS
<1>2. ASSUME NEW j \in 1 .. n, NEW v \in KvT PROVE RestoreOne(v, f[n - j + 1].idxs, f[n - j].kv) \in KvT
  <2>1. n - j + 1 \in 1 .. n /\ n - j \in 0 .. n
    OBVIOUS
  <2>2. f[n - j].kv \in KvT /\ f[n - j + 1].idxs \in Places(Len(ubs[n - j + 1]))
    BY <2>1
  <2>3. Len(ubs[n - j + 1]) \in Nat
    <3>1. n - j + 1 \in 1 .. Len(ubs)
      BY <2>1 DEF UbatchesOk
    <3>2. QED BY <3>1 DEF UbatchesOk
  <2>4. QED BY <2>2, <2>3, RestoreIs
<1> HIDE DEF a
<1>3. step \in [1 .. n -> [KvT -> KvT]]
  BY <1>2
<1>4. PICK g : g \in [0 .. n -> KvT] /\ g = [i \in 0 .. n |-> IF i = 0 THEN a ELSE step[i][g[i - 1]]]
  <2> HIDE DEF step
  <2>1. \E g : Rounds(g, KvT, a, n, step)
    BY <1>1, <1>3, LoopRuns
  <2>2. QED BY <2>1 DEF Rounds
<1>5. \E undone : undone = [j \in 0 .. n |->
                    IF j = 0 THEN a
                    ELSE RestoreOne(undone[j - 1], f[n - j + 1].idxs, f[n - j].kv)]
  <2>1. ASSUME NEW i \in 0 .. n
        PROVE g[i] = IF i = 0 THEN a ELSE RestoreOne(g[i - 1], f[n - i + 1].idxs, f[n - i].kv)
    <3>1. g[i] = IF i = 0 THEN a ELSE step[i][g[i - 1]]
      BY <1>4
    <3>2. ASSUME i # 0 PROVE step[i][g[i - 1]] = RestoreOne(g[i - 1], f[n - i + 1].idxs, f[n - i].kv)
      <4>1. i \in 1 .. n /\ i - 1 \in 0 .. n
        BY <3>2
      <4>2. g[i - 1] \in KvT
        BY <1>4, <4>1
      <4>3. QED BY <4>1, <4>2
    <3>3. QED BY <3>1, <3>2
  <2>2. g = [i \in 0 .. n |-> IF i = 0 THEN a ELSE RestoreOne(g[i - 1], f[n - i + 1].idxs, f[n - i].kv)]
    BY <1>4, <2>1
  <2>3. QED BY <2>2
<1>6. F = [j \in 0 .. n |-> IF j = 0 THEN a
                             ELSE RestoreOne(F[j - 1], f[n - j + 1].idxs, f[n - j].kv)]
  BY <1>5, Zenon DEF a
<1>7. Undo(f, n) = F[n]
  BY Zenon DEF Undo
<1> HIDE DEF F
<1>8. F[0] = a /\ \A j \in 1 .. n : F[j] = RestoreOne(F[j - 1], f[n - j + 1].idxs, f[n - j].kv)
  BY <1>6
<1>9. F[0] \in KvT /\ \A j \in 1 .. n : F[j - 1] \in KvT => F[j] \in KvT
  BY <1>1, <1>2, <1>8
<1>10. \A j \in 0 .. n : F[j] \in KvT
  BY <1>9, LoopKeeps
<1>11. QED BY <1>7, <1>8, <1>10 DEF a

\* c holds in cell i what d holds there
SameAt(c, d, i) == c.pos[i] = d.pos[i] /\ c.seq[i] = d.seq[i]

\* r: in every cell what it held before the first ubatch from the m-th on that was put there
UndoneTo(ks, is, n, l, r) ==
    /\ r.head = ks[l].head
    /\ \A i \in Cell : \E m \in l .. n :
          /\ SameAt(r.cells, ks[m].cells, i)
          /\ \A u \in l + 1 .. m : i \notin Range(is[u])
          /\ m = n \/ i \in Range(is[m + 1])

LEMMA UndoIs ==
    ASSUME NEW k \in KvT, NEW ubs, UbatchesOk(ubs), NEW f, f = PrepareLoop(k, ubs),
           NEW n, n = f[Len(ubs)].n, NEW ks, NEW is,
           ks = [u \in 0 .. n |-> f[u].kv], is = [u \in 1 .. n |-> f[u].idxs]
    PROVE  Undo(f, n) \in KvT /\ UndoneTo(ks, is, n, 0, Undo(f, n))
<1>1. Simulated(k, ubs, n, ks, is)
  BY SimulatedIs
<1>2. n \in Nat /\ n <= Len(ubs) /\ Len(ubs) \in Nat
  BY <1>1 DEF Simulated, UbatchesOk
<1>3. \A u \in 0 .. n : ks[u] = f[u].kv /\ ks[u] \in KvT
  BY <1>1 DEF Simulated
<1>4. \A u \in 1 .. n : is[u] = f[u].idxs /\ is[u] \in Places(Len(ubs[u]))
  BY <1>1 DEF Simulated
<1>5. PICK R : /\ R[0] = f[n].kv
               /\ \A j \in 0 .. n : R[j] \in KvT
               /\ \A j \in 1 .. n : R[j] = RestoreOne(R[j - 1], f[n - j + 1].idxs, f[n - j].kv)
               /\ Undo(f, n) = R[n]
  <2>1. (\A u \in 0 .. n : f[u].kv \in KvT) /\ \A u \in 1 .. n : f[u].idxs \in Places(Len(ubs[u]))
    BY <1>3, <1>4
  <2>2. QED BY <1>2, <2>1, UndoLoop, SMTT(30)
<1> DEFINE B == {j \in 0 .. n : UndoneTo(ks, is, n, n - j, R[j])}
<1>6. 0 \in B
  <2>1. n \in 0 .. n /\ R[0] = ks[n] /\ n - 0 = n
    BY <1>2, <1>3, <1>5
  <2>2. ASSUME NEW i \in Cell
        PROVE  \E m \in n .. n :
                  /\ SameAt(R[0].cells, ks[m].cells, i)
                  /\ \A u \in n + 1 .. m : i \notin Range(is[u])
                  /\ m = n \/ i \in Range(is[m + 1])
    <3>1. n \in n .. n /\ ~\E u \in n + 1 .. n : TRUE
      BY <1>2
    <3>2. QED BY <2>1, <3>1 DEF SameAt
  <2>3. UndoneTo(ks, is, n, n, R[0])
    BY <2>1, <2>2 DEF UndoneTo
  <2>4. QED BY <1>2, <2>1, <2>3
<1>7. ASSUME NEW j \in 1 .. n, j - 1 \in B PROVE j \in B
  <2>1. PICK l : l = n - j
    OBVIOUS
  <2>2. l \in 0 .. n - 1 /\ l + 1 = n - j + 1 /\ l + 1 = n - (j - 1) /\ l + 1 \in 1 .. n /\ l \in 0 .. n
        /\ j - 1 \in 0 .. n
    BY <1>2, <2>1, SMTT(30)
  <2>3. UndoneTo(ks, is, n, l + 1, R[j - 1])
    BY <1>7, <2>2
  <2>4. R[j] = RestoreOne(R[j - 1], is[l + 1], ks[l])
    BY <1>3, <1>4, <1>5, <2>1, <2>2
  <2>5. PICK w \in Nat : is[l + 1] \in Places(w)
    <3>1. l + 1 \in 1 .. Len(ubs)
      BY <1>2, <2>2
    <3>2. Len(ubs[l + 1]) \in Nat
      BY <3>1 DEF UbatchesOk
    <3>3. QED BY <1>4, <2>2, <3>2
  <2>6. R[j - 1] \in KvT /\ ks[l] \in KvT
    BY <1>3, <1>5, <2>2
  <2>7. RestoredTo(R[j - 1], Range(is[l + 1]), ks[l], R[j])
    BY <2>4, <2>5, <2>6, RestoreIs
  <2>8. ASSUME NEW i \in Cell
        PROVE  \E m \in l .. n :
                  /\ SameAt(R[j].cells, ks[m].cells, i)
                  /\ \A u \in l + 1 .. m : i \notin Range(is[u])
                  /\ m = n \/ i \in Range(is[m + 1])
    <3>1. CASE i \in Range(is[l + 1])
      <4>1. l \in l .. n /\ ~\E u \in l + 1 .. l : TRUE
        BY <2>2
      <4>2. QED BY <2>7, <3>1, <4>1 DEF SameAt, RestoredTo
    <3>2. CASE i \notin Range(is[l + 1])
      <4>1. PICK m \in l + 1 .. n :
                  /\ SameAt(R[j - 1].cells, ks[m].cells, i)
                  /\ \A u \in (l + 1) + 1 .. m : i \notin Range(is[u])
                  /\ m = n \/ i \in Range(is[m + 1])
        BY <2>3 DEF UndoneTo
      <4>2. m \in l .. n /\ \A u \in l + 1 .. m : u = l + 1 \/ u \in (l + 1) + 1 .. m
        BY <1>2, <2>2
      <4>3. QED BY <2>7, <3>2, <4>1, <4>2, ZenonT(30) DEF SameAt, RestoredTo
    <3>3. QED BY <3>1, <3>2
  <2>9. UndoneTo(ks, is, n, l, R[j])
    BY <2>7, <2>8 DEF UndoneTo, RestoredTo
  <2>10. QED BY <1>2, <2>1, <2>9
<1>8. n \in B
  <2> HIDE DEF B
  <2>1. \A u \in 0 .. n : u \in B
    BY <1>2, <1>6, <1>7, CountUp
  <2>2. QED BY <1>2, <2>1
<1>9. n - n = 0
  BY <1>2
<1>10. QED BY <1>2, <1>5, <1>8, <1>9

\* What prepare returns.
LEMMA PrepareIs ==
    ASSUME NEW k \in KvT, NEW ubs, UbatchesOk(ubs)
    PROVE  \E n, ks, is :
              /\ Simulated(k, ubs, n, ks, is)
              /\ Prepare(k, ubs).ok <=> n = Len(ubs)
              /\ n < Len(ubs) => FindSlot(ks[n], Len(ubs[n + 1])) = <<>>
              /\ Prepare(k, ubs).idxs = is
              /\ Prepare(k, ubs).kv \in KvT
              /\ UndoneTo(ks, is, n, 0, Prepare(k, ubs).kv)
<1>1. PICK f : f = PrepareLoop(k, ubs)
  OBVIOUS
<1>2. PICK n : n = f[Len(ubs)].n
  OBVIOUS
<1>3. PICK ks, is : ks = [u \in 0 .. n |-> f[u].kv] /\ is = [u \in 1 .. n |-> f[u].idxs]
  OBVIOUS
<1>4. /\ Simulated(k, ubs, n, ks, is)
      /\ f[Len(ubs)].ok <=> n = Len(ubs)
      /\ ~f[Len(ubs)].ok => n < Len(ubs) /\ FindSlot(f[n].kv, Len(ubs[n + 1])) = <<>>
  BY <1>1, <1>2, <1>3, SimulatedIs
<1>5. Undo(f, n) \in KvT /\ UndoneTo(ks, is, n, 0, Undo(f, n))
  BY <1>1, <1>2, <1>3, UndoIs
<1>6. n < Len(ubs) => FindSlot(ks[n], Len(ubs[n + 1])) = <<>>
  <2>1. n \in 0 .. n /\ n \in Int /\ Len(ubs) \in Int
    BY <1>4 DEF Simulated, UbatchesOk
  <2>2. ks[n] = f[n].kv
    BY <1>3, <2>1
  <2>3. QED BY <1>4, <2>1, <2>2
<1>7. Prepare(k, ubs).ok = f[Len(ubs)].ok /\ Prepare(k, ubs).idxs = is
      /\ Prepare(k, ubs).kv = Undo(f, n)
  BY <1>1, <1>2, <1>3 DEF Prepare
<1>8. QED BY <1>4, <1>5, <1>6, <1>7

-----------------------------------------------------------------------------
(* decode: the ubatches are placed where prepare found room *)

\* X: the caches of the loop that places the ubatches
Applied(k, idxs, ubs, done, X) ==
    /\ X[0] = k
    /\ \A u \in 0 .. done : X[u] \in KvT
    /\ \A u \in 1 .. done : X[u] = ApplyUbatch(X[u - 1], idxs[u], ubs[u])

LEMMA ComputeIs ==
    ASSUME NEW k \in KvT, NEW ubs, UbatchesOk(ubs), NEW n \in Nat, n <= Len(ubs), NEW idxs,
           \A u \in 1 .. n : idxs[u] \in Places(Len(ubs[u]))
    PROVE  \E X : Applied(k, idxs, ubs, n, X) /\ Compute(k, idxs, ubs, n) = X[n]
<1> DEFINE step == [j \in 1 .. n |-> [v \in KvT |-> ApplyUbatch(v, idxs[j], ubs[j])]]
           F == CHOOSE after : after = [u \in 0 .. n |->
                    IF u = 0 THEN k ELSE ApplyUbatch(after[u - 1], idxs[u], ubs[u])]
<1>2. ASSUME NEW u \in 1 .. n, NEW v \in KvT PROVE ApplyUbatch(v, idxs[u], ubs[u]) \in KvT
  <2>1. u \in 1 .. Len(ubs)
    BY DEF UbatchesOk
  <2>2. Len(ubs[u]) \in Nat \ {0} /\ ubs[u] \in [1 .. Len(ubs[u]) -> TokenT]
    BY <2>1 DEF UbatchesOk
  <2>3. idxs[u] \in Places(Len(ubs[u]))
    OBVIOUS
  <2>4. QED BY <2>2, <2>3, ApplyIs
<1>3. step \in [1 .. n -> [KvT -> KvT]]
  BY <1>2
<1>4. PICK g : g \in [0 .. n -> KvT] /\ g = [i \in 0 .. n |-> IF i = 0 THEN k ELSE step[i][g[i - 1]]]
  <2> HIDE DEF step
  <2>1. \E g : Rounds(g, KvT, k, n, step)
    BY <1>3, LoopRuns
  <2>2. QED BY <2>1 DEF Rounds
<1>5. \E after : after = [u \in 0 .. n |-> IF u = 0 THEN k ELSE ApplyUbatch(after[u - 1], idxs[u], ubs[u])]
  <2>1. ASSUME NEW i \in 0 .. n
        PROVE g[i] = IF i = 0 THEN k ELSE ApplyUbatch(g[i - 1], idxs[i], ubs[i])
    <3>1. g[i] = IF i = 0 THEN k ELSE step[i][g[i - 1]]
      BY <1>4
    <3>2. ASSUME i # 0 PROVE step[i][g[i - 1]] = ApplyUbatch(g[i - 1], idxs[i], ubs[i])
      <4>1. i \in 1 .. n /\ i - 1 \in 0 .. n
        BY <3>2
      <4>2. g[i - 1] \in KvT
        BY <1>4, <4>1
      <4>3. QED BY <4>1, <4>2
    <3>3. QED BY <3>1, <3>2
  <2>2. g = [i \in 0 .. n |-> IF i = 0 THEN k ELSE ApplyUbatch(g[i - 1], idxs[i], ubs[i])]
    BY <1>4, <2>1
  <2>3. QED BY <2>2
<1>6. F = [u \in 0 .. n |-> IF u = 0 THEN k ELSE ApplyUbatch(F[u - 1], idxs[u], ubs[u])]
  BY <1>5, Zenon
<1>7. Compute(k, idxs, ubs, n) = F[n]
  BY Zenon DEF Compute
<1> HIDE DEF F
<1>8. F[0] = k /\ \A u \in 1 .. n : F[u] = ApplyUbatch(F[u - 1], idxs[u], ubs[u])
  BY <1>6
<1>9. F[0] \in KvT /\ \A u \in 1 .. n : F[u - 1] \in KvT => F[u] \in KvT
  BY <1>2, <1>8
<1>10. \A j \in 0 .. n : F[j] \in KvT
  BY <1>9, LoopKeeps
<1>11. QED BY <1>7, <1>8, <1>10 DEF Applied

\* What one more ubatch does to a cell.
Put(c, idxs, ub, i, s, p) ==
    \* the sequences and the position of cell i when the tokens are in their cells
    IF i \in Range(idxs) THEN s = {ub[TokenOf(idxs, i)].seq} /\ p = ub[TokenOf(idxs, i)].pos
    ELSE s = c.seq[i] /\ p = c.pos[i]

PutAt(c, idxs, ub, lost, d, i) ==
    \E s, p : /\ Put(c, idxs, ub, i, s, p)
              /\ d.seq[i] = {q \in s : ~\E x \in lost : x[1] = q /\ p <= x[2]}
              /\ d.pos[i] = IF d.seq[i] = {} THEN Unused ELSE p

LEMMA ApplyAt ==
    ASSUME NEW k \in KvT, NEW n \in Nat \ {0}, NEW idxs \in Places(n), NEW ub \in [1 .. n -> TokenT],
           Len(ub) = n
    PROVE  /\ ApplyUbatch(k, idxs, ub) \in KvT
           /\ ApplyUbatch(k, idxs, ub).head = idxs[n] + 1
           /\ \A i \in Cell : PutAt(k.cells, idxs, ub, Overwritten(k.cells, Range(idxs)),
                                    ApplyUbatch(k, idxs, ub).cells, i)
<1>1. PICK d : d = ApplyUbatch(k, idxs, ub)
  OBVIOUS
<1>2. PICK e : e = PutTokens(k.cells, idxs, ub)
  OBVIOUS
<1>3. PICK lost : lost = Overwritten(k.cells, Range(idxs))
  OBVIOUS
<1>4. d \in KvT /\ d.head = idxs[n] + 1 /\ PurgedBy(e, lost, d.cells)
  BY <1>1, <1>2, <1>3, ApplyIs
<1>5. ASSUME NEW i \in Cell PROVE Put(k.cells, idxs, ub, i, e.seq[i], e.pos[i])
  <2>1. GoodCells(k.cells)
    BY KvIs
  <2>2. /\ \A h \in Cell \ Range(idxs) : e.pos[h] = k.cells.pos[h] /\ e.seq[h] = k.cells.seq[h]
        /\ \A j \in 1 .. n : e.pos[idxs[j]] = ub[j].pos /\ e.seq[idxs[j]] = {ub[j].seq}
    <3>1. PutIn(k.cells, n, idxs, ub, e)
      BY <1>2, <2>1, PutTokensGood
    <3>2. QED BY <3>1 DEF PutIn
  <2>3. i \in Range(idxs) => TokenOf(idxs, i) \in 1 .. n /\ idxs[TokenOf(idxs, i)] = i
    BY PlacesAre
  <2>4. CASE i \in Range(idxs)
    <3>1. PICK j \in 1 .. n : j = TokenOf(idxs, i) /\ idxs[j] = i
      BY <2>3, <2>4
    <3>2. e.pos[i] = ub[j].pos /\ e.seq[i] = {ub[j].seq}
      BY <2>2, <3>1
    <3>3. QED BY <2>4, <3>1, <3>2 DEF Put
  <2>5. CASE i \notin Range(idxs)
    BY <2>2, <2>5 DEF Put
  <2>6. QED BY <2>4, <2>5
<1>6. ASSUME NEW i \in Cell PROVE PutAt(k.cells, idxs, ub, lost, d.cells, i)
  <2>1. /\ d.cells.seq[i] = {q \in e.seq[i] : ~\E x \in lost : x[1] = q /\ e.pos[i] <= x[2]}
        /\ d.cells.pos[i] = IF d.cells.seq[i] = {} THEN Unused ELSE e.pos[i]
    BY <1>4 DEF PurgedBy
  <2>2. QED BY <1>5, <2>1 DEF PutAt
<1>7. QED BY <1>1, <1>3, <1>4, <1>6

\* The same tokens in cells that hold the same have the same effect.
LEMMA PutAtSame ==
    ASSUME NEW c, NEW d, NEW idxs, NEW ub, NEW lost, NEW e, NEW f, NEW i,
           i \in Range(idxs) \/ SameAt(c, d, i),
           PutAt(c, idxs, ub, lost, e, i), PutAt(d, idxs, ub, lost, f, i)
    PROVE  SameAt(e, f, i)
<1>1. PICK s, p : /\ Put(c, idxs, ub, i, s, p)
                  /\ e.seq[i] = {q \in s : ~\E x \in lost : x[1] = q /\ p <= x[2]}
                  /\ e.pos[i] = IF e.seq[i] = {} THEN Unused ELSE p
  BY DEF PutAt
<1>2. PICK t, r : /\ Put(d, idxs, ub, i, t, r)
                  /\ f.seq[i] = {q \in t : ~\E x \in lost : x[1] = q /\ r <= x[2]}
                  /\ f.pos[i] = IF f.seq[i] = {} THEN Unused ELSE r
  BY DEF PutAt
<1>3. s = t /\ p = r
  BY <1>1, <1>2 DEF Put, SameAt
<1>4. QED BY <1>1, <1>2, <1>3 DEF SameAt

\* Nothing in cell i is to be purged.
Clean(c, lost, i) == \A q \in c.seq[i] : ~\E x \in lost : x[1] = q /\ c.pos[i] <= x[2]

LEMMA PutAtIsClean ==
    ASSUME NEW c, NEW idxs, NEW ub, NEW lost, NEW d, NEW i, i \notin Range(idxs),
           PutAt(c, idxs, ub, lost, d, i)
    PROVE  /\ Clean(d, lost, i)
           /\ \A old : Clean(c, old, i) => Clean(d, old, i)
           /\ Clean(c, lost, i) /\ (c.seq[i] = {} => c.pos[i] = Unused) => SameAt(c, d, i)
<1>1. /\ d.seq[i] = {q \in c.seq[i] : ~\E x \in lost : x[1] = q /\ c.pos[i] <= x[2]}
      /\ d.pos[i] = IF d.seq[i] = {} THEN Unused ELSE c.pos[i]
  BY DEF PutAt, Put
<1>2. \A q \in d.seq[i] : q \in c.seq[i] /\ d.pos[i] = c.pos[i]
  BY <1>1
<1>3. Clean(d, lost, i)
  BY <1>1, <1>2 DEF Clean
<1>4. \A old : Clean(c, old, i) => Clean(d, old, i)
  BY <1>2 DEF Clean
<1>5. ASSUME Clean(c, lost, i), c.seq[i] = {} => c.pos[i] = Unused PROVE SameAt(c, d, i)
  <2>1. d.seq[i] = c.seq[i]
    BY <1>1, <1>5 DEF Clean
  <2>2. QED BY <1>1, <1>5, <2>1 DEF SameAt
<1>6. QED BY <1>3, <1>4, <1>5

\* what the u-th ubatch of a simulation overwrites
LostBy(ks, is, u) == Overwritten(ks[u - 1].cells, Range(is[u]))

LEMMA SimulatedAt ==
    ASSUME NEW k \in KvT, NEW ubs, UbatchesOk(ubs), NEW n, NEW ks, NEW is,
           Simulated(k, ubs, n, ks, is), NEW u \in 1 .. n
    PROVE  /\ n \in Nat /\ u \in 1 .. Len(ubs) /\ u - 1 \in 0 .. n /\ u \in 0 .. n
           /\ Len(ubs[u]) \in Nat \ {0} /\ ubs[u] \in [1 .. Len(ubs[u]) -> TokenT]
           /\ is[u] \in Places(Len(ubs[u])) /\ Range(is[u]) \in SUBSET Cell
           /\ ks[u - 1] \in KvT /\ ks[u] \in KvT
           /\ ks[u].head = is[u][Len(ubs[u])] + 1
           /\ \A i \in Cell : PutAt(ks[u - 1].cells, is[u], ubs[u], LostBy(ks, is, u), ks[u].cells, i)
<1>1. n \in Nat /\ u \in 1 .. Len(ubs) /\ u - 1 \in 0 .. n /\ u \in 0 .. n
  BY DEF Simulated, UbatchesOk
<1>2. Len(ubs[u]) \in Nat \ {0} /\ ubs[u] \in [1 .. Len(ubs[u]) -> TokenT]
  BY <1>1 DEF UbatchesOk
<1>3. /\ is[u] \in Places(Len(ubs[u]))
      /\ ks[u] = ApplyUbatch(ks[u - 1], is[u], ubs[u])
      /\ ks[u - 1] \in KvT /\ ks[u] \in KvT
  BY <1>1 DEF Simulated
<1>4. Range(is[u]) \in SUBSET Cell
  BY <1>2, <1>3, PlacesAre
<1>5. /\ ks[u].head = is[u][Len(ubs[u])] + 1
      /\ \A i \in Cell : PutAt(ks[u - 1].cells, is[u], ubs[u], LostBy(ks, is, u), ks[u].cells, i)
  BY <1>2, <1>3, ApplyAt DEF LostBy
<1>6. QED BY <1>1, <1>2, <1>3, <1>4, <1>5

\* What a ubatch purged stays so in the cells that no later one takes.
LEMMA StaysClean ==
    ASSUME NEW k \in KvT, NEW ubs, UbatchesOk(ubs), NEW n, NEW ks, NEW is,
           Simulated(k, ubs, n, ks, is), NEW u \in 1 .. n, NEW m \in u .. n, NEW i \in Cell,
           \A v \in u .. m : i \notin Range(is[v])
    PROVE  Clean(ks[m].cells, LostBy(ks, is, u), i)
<1> DEFINE B == {w \in 0 .. m - u : Clean(ks[u + w].cells, LostBy(ks, is, u), i)}
<1>1. n \in Nat /\ m - u \in Nat /\ u \in Nat /\ m \in Nat
  BY SimulatedAt
<1>2. ASSUME NEW v \in u .. m
      PROVE  /\ v \in 1 .. n /\ i \notin Range(is[v])
             /\ PutAt(ks[v - 1].cells, is[v], ubs[v], LostBy(ks, is, v), ks[v].cells, i)
  <2>1. v \in 1 .. n
    BY <1>1
  <2>2. QED BY <2>1, SimulatedAt
<1>3. 0 \in B
  <2>1. Clean(ks[u].cells, LostBy(ks, is, u), i)
    BY <1>1, <1>2, PutAtIsClean
  <2>2. QED BY <1>1, <2>1
<1>4. ASSUME NEW w \in 1 .. m - u, w - 1 \in B PROVE w \in B
  <2>1. u + w \in u .. m /\ (u + w) - 1 = u + (w - 1) /\ w \in 0 .. m - u
    BY <1>1
  <2>2. Clean(ks[(u + w) - 1].cells, LostBy(ks, is, u), i)
    BY <1>4, <2>1
  <2>3. Clean(ks[u + w].cells, LostBy(ks, is, u), i)
    BY <1>2, <2>1, <2>2, PutAtIsClean
  <2>4. QED BY <2>1, <2>3
<1>5. m - u \in B
  <2> HIDE DEF B
  <2>1. \A w \in 0 .. m - u : w \in B
    BY <1>1, <1>3, <1>4, CountUp
  <2>2. QED BY <1>1, <2>1
<1>6. u + (m - u) = m
  BY <1>1
<1>7. QED BY <1>5, <1>6

LEMMA SameTwice ==
    ASSUME NEW c, NEW d, NEW e, NEW i, SameAt(c, d, i), SameAt(d, e, i)
    PROVE  SameAt(c, e, i) /\ SameAt(d, c, i)
  BY DEF SameAt

\* To place the ubatches where prepare found their places gives what prepare had, although it
\* restored only the cells it took and not those it purged.
LEMMA PlacedAgain ==
    ASSUME NEW k \in KvT, NEW ubs, UbatchesOk(ubs), NEW n, NEW ks, NEW is,
           Simulated(k, ubs, n, ks, is), n > 0, NEW r \in KvT, UndoneTo(ks, is, n, 0, r),
           NEW X, Applied(r, is, ubs, n, X)
    PROVE  X[n] = ks[n]
<1> DEFINE Touched(i, u) == \E v \in 1 .. u : i \in Range(is[v])
           W(u) == \A i \in Cell : IF Touched(i, u) THEN SameAt(X[u].cells, ks[u].cells, i)
                                   ELSE SameAt(X[u].cells, r.cells, i)
           B == {u \in 0 .. n : W(u)}
<1>1. n \in Nat /\ n # 0
  BY DEF Simulated, UbatchesOk
<1>2. ASSUME NEW i \in Cell, NEW u \in 1 .. n, ~Touched(i, u - 1)
      PROVE  IF i \in Range(is[u]) THEN SameAt(r.cells, ks[u - 1].cells, i)
             ELSE Clean(r.cells, LostBy(ks, is, u), i)
  <2>1. PICK m \in 0 .. n : /\ SameAt(r.cells, ks[m].cells, i)
                            /\ \A v \in 1 .. m : i \notin Range(is[v])
                            /\ m = n \/ i \in Range(is[m + 1])
    BY DEF UndoneTo
  <2>2. m >= u - 1
    <3>1. ASSUME m < u - 1 PROVE FALSE
      <4>1. m + 1 \in 1 .. u - 1 /\ m # n
        BY <1>1, <3>1
      <4>2. QED BY <1>2, <2>1, <4>1
    <3>2. QED BY <1>1, <3>1
  <2>3. CASE i \in Range(is[u])
    <3>1. ~(u \in 1 .. m)
      BY <2>1, <2>3
    <3>2. m = u - 1
      BY <1>1, <2>2, <3>1
    <3>3. QED BY <2>1, <2>3, <3>2
  <2>4. CASE i \notin Range(is[u])
    <3>1. m # u - 1
      <4>1. ASSUME m = u - 1 PROVE FALSE
        <5>1. m + 1 = u /\ m # n
          BY <1>1, <4>1
        <5>2. QED BY <2>1, <2>4, <5>1
      <4>2. QED BY <4>1
    <3>2. m \in u .. n /\ \A v \in u .. m : v \in 1 .. m
      BY <1>1, <2>2, <3>1
    <3>3. Clean(ks[m].cells, LostBy(ks, is, u), i)
      BY <2>1, <3>2, StaysClean
    <3>4. QED BY <2>1, <2>4, <3>3 DEF Clean, SameAt
  <2>5. QED BY <2>3, <2>4
<1>3. 0 \in B
  <2>1. X[0] = r
    BY DEF Applied
  <2>2. \A i \in Cell : ~Touched(i, 0) /\ SameAt(X[0].cells, r.cells, i)
    BY <2>1 DEF SameAt
  <2>3. QED BY <1>1, <2>2
<1>4. ASSUME NEW u \in 1 .. n, u - 1 \in B PROVE u \in B
  <2>1. /\ u - 1 \in 0 .. n /\ u \in 0 .. n
        /\ Len(ubs[u]) \in Nat \ {0} /\ ubs[u] \in [1 .. Len(ubs[u]) -> TokenT]
        /\ is[u] \in Places(Len(ubs[u])) /\ Range(is[u]) \in SUBSET Cell
        /\ ks[u - 1] \in KvT
        /\ \A i \in Cell : PutAt(ks[u - 1].cells, is[u], ubs[u], LostBy(ks, is, u), ks[u].cells, i)
    BY SimulatedAt
  <2>2. X[u - 1] \in KvT /\ X[u] = ApplyUbatch(X[u - 1], is[u], ubs[u])
    BY <2>1 DEF Applied
  <2>3. W(u - 1)
    BY <1>4
  <2>4. \A i \in Cell : Touched(i, u) <=> Touched(i, u - 1) \/ i \in Range(is[u])
    <3>1. \A v : v \in 1 .. u <=> v \in 1 .. u - 1 \/ v = u
      BY <1>1
    <3>2. QED BY <3>1
  <2> HIDE DEF Touched
  <2>5. \A i \in Range(is[u]) : SameAt(X[u - 1].cells, ks[u - 1].cells, i)
    <3>1. ASSUME NEW i \in Range(is[u]) PROVE SameAt(X[u - 1].cells, ks[u - 1].cells, i)
      <4>1. i \in Cell
        BY <2>1
      <4>2. CASE Touched(i, u - 1)
        BY <2>3, <4>1, <4>2
      <4>3. CASE ~Touched(i, u - 1)
        <5>1. SameAt(X[u - 1].cells, r.cells, i) /\ SameAt(r.cells, ks[u - 1].cells, i)
          BY <1>2, <2>3, <4>1, <4>3
        <5>2. QED BY <5>1, SameTwice
      <4>4. QED BY <4>2, <4>3
    <3>2. QED BY <3>1
  <2>6. Overwritten(X[u - 1].cells, Range(is[u])) = LostBy(ks, is, u)
    <3>1. GoodCells(X[u - 1].cells) /\ GoodCells(ks[u - 1].cells)
      BY <2>1, <2>2, KvIs
    <3>2. PICK c, d, I : c = X[u - 1].cells /\ d = ks[u - 1].cells /\ I = Range(is[u])
      OBVIOUS
    <3>3. \A i \in I : c.seq[i] = d.seq[i] /\ c.pos[i] = d.pos[i]
      BY <2>5, <3>2 DEF SameAt
    <3>4. Overwritten(c, I) = Overwritten(d, I)
      BY <3>3 DEF Overwritten
    <3>5. QED BY <3>2, <3>4 DEF LostBy
  <2>7. \A i \in Cell : PutAt(X[u - 1].cells, is[u], ubs[u], LostBy(ks, is, u), X[u].cells, i)
    BY <2>1, <2>2, <2>6, ApplyAt
  <2>8. ASSUME NEW i \in Cell
        PROVE  IF Touched(i, u) THEN SameAt(X[u].cells, ks[u].cells, i)
               ELSE SameAt(X[u].cells, r.cells, i)
    <3>1. CASE i \in Range(is[u]) \/ Touched(i, u - 1)
      <4>1. i \in Range(is[u]) \/ SameAt(X[u - 1].cells, ks[u - 1].cells, i)
        BY <2>3, <3>1
      <4>2. SameAt(X[u].cells, ks[u].cells, i)
        BY <2>1, <2>7, <4>1, PutAtSame
      <4>3. QED BY <2>4, <3>1, <4>2
    <3>2. CASE ~(i \in Range(is[u]) \/ Touched(i, u - 1))
      <4>1. SameAt(X[u - 1].cells, r.cells, i) /\ Clean(r.cells, LostBy(ks, is, u), i)
        BY <1>2, <2>3, <3>2
      <4>2. Clean(X[u - 1].cells, LostBy(ks, is, u), i)
        BY <4>1 DEF SameAt, Clean
      <4>3. GoodCells(X[u - 1].cells)
        BY <2>2, KvIs
      <4>4. X[u - 1].cells.seq[i] = {} => X[u - 1].cells.pos[i] = Unused
        BY <4>3, CellIs
      <4>5. SameAt(X[u - 1].cells, X[u].cells, i)
        BY <2>7, <3>2, <4>2, <4>4, PutAtIsClean
      <4>6. SameAt(X[u].cells, r.cells, i)
        BY <4>1, <4>5 DEF SameAt
      <4>7. QED BY <2>4, <3>2, <4>6
    <3>3. QED BY <3>1, <3>2
  <2>9. QED BY <2>1, <2>8
<1>5. W(n)
  <2> DEFINE C == B
  <2> HIDE DEF W
  <2>1. \A u \in 0 .. n : u \in B
    <3> HIDE DEF B
    <3>1. QED BY <1>1, <1>3, <1>4, CountUp
  <2>2. QED BY <1>1, <2>1
<1>6. X[n] \in KvT /\ ks[n] \in KvT /\ n \in 1 .. n
  BY <1>1 DEF Applied, Simulated
<1>7. ASSUME NEW i \in Cell PROVE SameAt(X[n].cells, ks[n].cells, i)
  <2>1. CASE Touched(i, n)
    <3> HIDE DEF Touched
    <3>1. QED BY <1>5, <2>1
  <2>2. CASE ~Touched(i, n)
    <3>1. PICK m \in 0 .. n : /\ SameAt(r.cells, ks[m].cells, i)
                              /\ m = n \/ i \in Range(is[m + 1])
      BY DEF UndoneTo
    <3>2. m = n
      <4>1. ASSUME m # n PROVE FALSE
        <5>1. m + 1 \in 1 .. n
          BY <1>1, <4>1
        <5>2. QED BY <2>2, <3>1, <4>1, <5>1
      <4>2. QED BY <4>1
    <3>3. SameAt(X[n].cells, r.cells, i)
      <4> HIDE DEF Touched
      <4>1. QED BY <1>5, <2>2
    <3>4. QED BY <3>1, <3>2, <3>3, SameTwice
  <2>3. QED BY <2>1, <2>2
<1>8. X[n].cells = ks[n].cells
  <2>1. GoodCells(X[n].cells) /\ GoodCells(ks[n].cells)
    BY <1>6, KvIs
  <2>2. QED BY <1>7, <2>1, SameCells DEF SameAt
<1>9. X[n].head = ks[n].head
  <2>1. /\ Len(ubs[n]) \in Nat \ {0} /\ ubs[n] \in [1 .. Len(ubs[n]) -> TokenT]
        /\ is[n] \in Places(Len(ubs[n])) /\ ks[n].head = is[n][Len(ubs[n])] + 1
    BY <1>6, SimulatedAt
  <2>2. n - 1 \in 0 .. n
    BY <1>1
  <2>3. X[n - 1] \in KvT /\ X[n] = ApplyUbatch(X[n - 1], is[n], ubs[n])
    BY <1>6, <2>2 DEF Applied
  <2>4. QED BY <2>1, <2>3, ApplyAt
<1>10. QED BY <1>6, <1>8, <1>9, KvIs

\* Where nothing is overwritten, prepare leaves the cache as it was.
LEMMA UndoneWhole ==
    ASSUME NEW k \in KvT, NEW ubs, UbatchesOk(ubs), NEW n, NEW ks, NEW is,
           Simulated(k, ubs, n, ks, is), NEW r \in KvT, UndoneTo(ks, is, n, 0, r),
           \A u \in 1 .. n : LostBy(ks, is, u) = {}
    PROVE  r = k
<1>1. n \in Nat /\ ks[0] = k
  BY DEF Simulated, UbatchesOk
<1>2. ASSUME NEW i \in Cell, NEW m \in 0 .. n, \A u \in 1 .. m : i \notin Range(is[u])
      PROVE  SameAt(ks[m].cells, k.cells, i)
  <2> DEFINE B == {u \in 0 .. m : SameAt(ks[u].cells, k.cells, i)}
  <2>1. m \in Nat /\ 0 \in B
    BY <1>1 DEF SameAt
  <2>2. ASSUME NEW u \in 1 .. m, u - 1 \in B PROVE u \in B
    <3>1. u \in 1 .. n /\ u \in 0 .. m
      BY <1>1, <2>1
    <3>2. ks[u - 1] \in KvT
          /\ PutAt(ks[u - 1].cells, is[u], ubs[u], LostBy(ks, is, u), ks[u].cells, i)
      BY <3>1, SimulatedAt
    <3>3. GoodCells(ks[u - 1].cells)
      BY <3>2, KvIs
    <3>4. ks[u - 1].cells.seq[i] = {} => ks[u - 1].cells.pos[i] = Unused
      BY <3>3, CellIs
    <3>5. Clean(ks[u - 1].cells, LostBy(ks, is, u), i)
      BY <3>1 DEF Clean
    <3>6. SameAt(ks[u - 1].cells, ks[u].cells, i)
      BY <1>2, <3>2, <3>4, <3>5, PutAtIsClean
    <3>7. SameAt(ks[u].cells, k.cells, i)
      BY <2>2, <3>6 DEF SameAt
    <3>8. QED BY <3>1, <3>7
  <2>3. m \in B
    <3> HIDE DEF B
    <3>1. \A u \in 0 .. m : u \in B
      BY <2>1, <2>2, CountUp
    <3>2. QED BY <2>1, <3>1
  <2>4. QED BY <2>3
<1>3. ASSUME NEW i \in Cell PROVE SameAt(r.cells, k.cells, i)
  <2>1. PICK m \in 0 .. n : SameAt(r.cells, ks[m].cells, i) /\ \A u \in 1 .. m : i \notin Range(is[u])
    BY DEF UndoneTo
  <2>2. QED BY <1>2, <2>1, SameTwice
<1>4. r.cells = k.cells
  <2>1. GoodCells(r.cells) /\ GoodCells(k.cells)
    BY KvIs
  <2>2. QED BY <1>3, <2>1, SameCells DEF SameAt
<1>5. r.head = k.head
  BY <1>1 DEF UndoneTo
<1>6. QED BY <1>4, <1>5, KvIs

-----------------------------------------------------------------------------
(* Copies and context shifts *)

LEMMA SeqCpIs ==
    ASSUME NEW k \in KvT, NEW s \in Seqs, NEW d \in Seqs,
           \A i \in Cell : d \notin k.cells.seq[i]
    PROVE  /\ SeqCp(k, s, d) \in KvT
           /\ \A i \in Cell :
                 /\ SeqCp(k, s, d).cells.pos[i] = k.cells.pos[i]
                 /\ SeqCp(k, s, d).cells.seq[i] = IF s \in k.cells.seq[i] THEN k.cells.seq[i] \cup {d}
                                                  ELSE k.cells.seq[i]
<1>0. PICK c : c = k.cells
  OBVIOUS
<1>1. GoodCells(c) /\ k.head \in 0 .. NCells /\ k = [cells |-> c, head |-> k.head]
  BY <1>0, KvIs
<1>2. PICK I : I = InRange(c, s, 0, Infinity)
  OBVIOUS
<1>3. I \in SUBSET Cell /\ \A i \in Cell : i \in I <=> s \in c.seq[i]
  <2>1. ASSUME NEW i \in Cell PROVE i \in I <=> s \in c.seq[i]
    <3>1. s \in c.seq[i] => c.pos[i] \in Position
      BY <1>1, CellIs
    <3>2. s \in c.seq[i] => c.pos[i] >= 0 /\ c.pos[i] < MaxPos + 1
      BY <3>1, KvConstants
    <3>3. QED BY <1>2, <3>2 DEF InRange, Infinity
  <2>2. I \in SUBSET Cell
    BY <1>2 DEF InRange
  <2>3. QED BY <2>1, <2>2
<1>4. \A i \in I : c.pos[i] # Unused /\ d \notin c.seq[i]
  BY <1>0, <1>1, <1>3, CellIs
<1>5. PICK e : e = SeqAddCells(c, I, d)
  OBVIOUS
<1>6. /\ GoodCells(e)
      /\ \A i \in Cell : e.pos[i] = c.pos[i] /\ e.seq[i] = IF i \in I THEN c.seq[i] \cup {d} ELSE c.seq[i]
  <2>1. GoodCells(e) /\ SeqAdded(c, I, d, e)
    BY <1>1, <1>3, <1>4, <1>5, SeqAddCellsGood
  <2>2. QED BY <2>1 DEF SeqAdded
<1>7. SeqCp(k, s, d) = [cells |-> e, head |-> k.head]
  <2>1. SeqCp(k, s, d) = [k EXCEPT !.cells = e]
    BY <1>0, <1>2, <1>5 DEF SeqCp
  <2>2. QED BY <1>1, <2>1
<1>8. [cells |-> e, head |-> k.head] \in KvT
  BY <1>1, <1>6, KvIs
<1>9. QED BY <1>0, <1>3, <1>6, <1>7, <1>8

LEMMA SeqAddIs ==
    ASSUME NEW k \in KvT, NEW s \in Seqs, NEW p0 \in Nat, NEW p1 \in Int, NEW d \in Int,
           p0 + d >= 0, d <= 0
    PROVE  /\ SeqAdd(k, s, p0, p1, d) \in KvT
           /\ \A i \in Cell :
                 /\ SeqAdd(k, s, p0, p1, d).cells.seq[i] = k.cells.seq[i]
                 /\ SeqAdd(k, s, p0, p1, d).cells.pos[i]
                      = IF k.cells.pos[i] >= p0 /\ k.cells.pos[i] < p1 /\ s \in k.cells.seq[i]
                        THEN k.cells.pos[i] + d ELSE k.cells.pos[i]
<1>0. PICK c : c = k.cells
  OBVIOUS
<1>1. GoodCells(c) /\ k.head \in 0 .. NCells /\ k = [cells |-> c, head |-> k.head]
  BY <1>0, KvIs
<1>2. PICK I : I = InRange(c, s, p0, p1)
  OBVIOUS
<1>3. I \in SUBSET Cell
      /\ \A i \in Cell : i \in I <=> c.pos[i] >= p0 /\ c.pos[i] < p1 /\ s \in c.seq[i]
  BY <1>2 DEF InRange
<1>4. ASSUME NEW i \in I PROVE c.pos[i] \in Position /\ c.pos[i] + d <= MaxPos /\ ~(c.pos[i] + d < 0)
  <2>1. i \in Cell /\ c.pos[i] >= p0 /\ s \in c.seq[i]
    BY <1>3
  <2>2. c.pos[i] \in Position
    BY <1>1, <2>1, CellIs
  <2>3. c.pos[i] \in Int /\ c.pos[i] <= MaxPos
    BY <2>2, KvConstants
  <2>4. QED BY <2>1, <2>2, <2>3, KvConstants
<1>5. PICK F : F = Below(c, I, d)
  OBVIOUS
<1>6. F = {}
  BY <1>4, <1>5 DEF Below
<1>7. PICK e : e = PosAddCells(c, I, d)
  OBVIOUS
<1>8. /\ GoodCells(e)
      /\ \A i \in Cell : /\ e.pos[i] = IF i \in F THEN Unused ELSE IF i \in I THEN c.pos[i] + d ELSE c.pos[i]
                         /\ e.seq[i] = IF i \in F THEN {} ELSE c.seq[i]
  <2>1. GoodCells(e) /\ PosAdded(c, I, d, e)
    BY <1>1, <1>3, <1>4, <1>7, PosAddCellsGood
  <2>2. QED BY <1>5, <2>1 DEF PosAdded
<1>9. SeqAdd(k, s, p0, p1, d) = [cells |-> e, head |-> 0]
  BY <1>0, <1>2, <1>5, <1>6, <1>7 DEF SeqAdd
<1>10. [cells |-> e, head |-> 0] \in KvT
  BY <1>8, KvIs, KvConstants
<1>11. \A i \in Cell : e.seq[i] = c.seq[i] /\ e.pos[i] = IF i \in I THEN c.pos[i] + d ELSE c.pos[i]
  BY <1>6, <1>8
<1>12. QED BY <1>0, <1>3, <1>9, <1>10, <1>11

-----------------------------------------------------------------------------
(* batches *)

\* cut: how many tokens of a batch of m the first ubatches have
Cuts(batch, m, ubs, cut) ==
    /\ cut[0] = 0 /\ cut[Len(ubs)] = m
    /\ \A u \in 0 .. Len(ubs) : cut[u] \in 0 .. m
    /\ \A u \in 1 .. Len(ubs) :
          /\ cut[u - 1] < cut[u] /\ cut[u] - cut[u - 1] <= NUbatch
          /\ Len(ubs[u]) = cut[u] - cut[u - 1]
          /\ \A j \in 1 .. Len(ubs[u]) : ubs[u][j] = batch[cut[u - 1] + j]

LEMMA PartsAre ==
    ASSUME NEW m \in Nat \ {0}
    PROVE  /\ Parts(m) \in 1 .. m
           /\ Parts(m) * NUbatch >= m
           /\ \A u \in 0 .. Parts(m) - 1 : u * NUbatch < m
<1> DEFINE T == {u \in 0 .. m : u * NUbatch >= m}
<1>0. NUbatch \in Nat /\ NUbatch >= 1
  BY KvConstants
<1>1. m * NUbatch >= m /\ m \in 0 .. m
  BY <1>0
<1>2. T \subseteq Nat /\ T # {}
  BY <1>1
<1>3. PICK x \in T : \A y \in T : x <= y
  <2> HIDE DEF T
  <2>1. QED BY <1>2, LeastNat
<1>4. Min(T) \in T /\ \A y \in T : Min(T) <= y
  BY <1>3 DEF Min
<1>5. Parts(m) = Min(T)
  BY DEF Parts
<1>6. Min(T) # 0
  <2>1. 0 * NUbatch = 0
    BY <1>0
  <2>2. 0 \notin T
    BY <2>1
  <2>3. QED BY <1>4, <2>2
<1>7. ASSUME NEW u \in 0 .. Min(T) - 1 PROVE u * NUbatch < m
  <2>1. u \in 0 .. m /\ ~(Min(T) <= u)
    BY <1>4
  <2>2. u \notin T
    BY <1>4, <2>1
  <2>3. u * NUbatch \in Int
    BY <1>0
  <2>4. QED BY <2>1, <2>2, <2>3
<1>8. QED BY <1>4, <1>5, <1>6, <1>7

LEMMA SplitIs ==
    ASSUME NEW m \in Nat \ {0}, NEW batch \in Seq(TokenT), Len(batch) = m
    PROVE  UbatchesOk(Split(batch)) /\ Len(Split(batch)) > 0 /\ \E cut : Cuts(batch, m, Split(batch), cut)
<1>0. PICK N \in Nat \ {0} : N = NUbatch
  BY KvConstants
<1>1. PICK P \in 1 .. m : P = Parts(m) /\ P * N >= m /\ \A u \in 0 .. P - 1 : u * N < m
  BY <1>0, PartsAre
<1>2. PICK cut : cut = [u \in 0 .. P |-> IF u * N <= m THEN u * N ELSE m]
  OBVIOUS
<1>3. PICK ubs : ubs = Split(batch)
  OBVIOUS
<1>4. ubs = [u \in 1 .. P |-> SubSeq(batch, (u - 1) * N + 1, Min({u * N, m}))]
  BY <1>0, <1>1, <1>3 DEF Split
<1>5. \A u \in 0 .. P : u * N \in Nat
  BY <1>0
<1>6. /\ cut[0] = 0 /\ cut[P] = m /\ \A u \in 0 .. P : cut[u] \in 0 .. m
  <2>1. 0 * N = 0 /\ 0 \in 0 .. P /\ P \in 0 .. P
    BY <1>0
  <2>2. cut[0] = 0
    BY <1>2, <2>1
  <2>3. cut[P] = m
    BY <1>1, <1>2, <1>5, <2>1
  <2>4. \A u \in 0 .. P : cut[u] \in 0 .. m
    BY <1>2, <1>5
  <2>5. QED BY <2>2, <2>3, <2>4
<1>7. ASSUME NEW u \in 1 .. P
      PROVE  /\ cut[u - 1] = (u - 1) * N /\ cut[u] = Min({u * N, m})
             /\ cut[u - 1] < cut[u] /\ cut[u] - cut[u - 1] <= N
             /\ cut[u - 1] \in 0 .. m /\ cut[u] \in 0 .. m
  <2>1. u - 1 \in 0 .. P - 1 /\ u - 1 \in 0 .. P /\ u \in 0 .. P
    OBVIOUS
  <2>2. (u - 1) * N < m /\ (u - 1) * N \in Nat /\ u * N \in Nat
    BY <1>1, <1>5, <2>1
  <2>3. u * N = (u - 1) * N + N
    BY <1>0
  <2>4. cut[u - 1] = (u - 1) * N /\ cut[u] = IF u * N <= m THEN u * N ELSE m
    BY <1>2, <2>1, <2>2
  <2>5. Min({u * N, m}) = IF u * N <= m THEN u * N ELSE m
    <3>1. PICK x \in Nat : x = u * N
      BY <2>2
    <3>2. \E y \in {x, m} : \A z \in {x, m} : y <= z
      OBVIOUS
    <3>3. Min({x, m}) \in {x, m} /\ \A z \in {x, m} : Min({x, m}) <= z
      BY <3>2 DEF Min
    <3>4. QED BY <3>1, <3>3
  <2>6. QED BY <1>6, <2>1, <2>2, <2>3, <2>4, <2>5
<1>8. Len(ubs) = P /\ DOMAIN ubs = 1 .. P
  BY <1>4
<1>9. ASSUME NEW u \in 1 .. P
      PROVE  /\ Len(ubs[u]) = cut[u] - cut[u - 1]
             /\ Len(ubs[u]) \in Nat \ {0}
             /\ ubs[u] \in [1 .. Len(ubs[u]) -> TokenT]
             /\ \A j \in 1 .. Len(ubs[u]) : ubs[u][j] = batch[cut[u - 1] + j]
  <2>1. PICK lo \in 0 .. m, hi \in 0 .. m : lo = cut[u - 1] /\ hi = cut[u] /\ lo < hi
    BY <1>7
  <2>2. PICK b : b = ubs[u]
    OBVIOUS
  <2>3. b = SubSeq(batch, lo + 1, hi)
    BY <1>4, <1>7, <2>1, <2>2
  <2>4. \A i \in lo + 1 .. hi : batch[i] \in TokenT
    <3>1. \A i \in 1 .. m : batch[i] \in TokenT
      BY ElementOfSeq
    <3>2. QED BY <3>1
  <2>5. /\ SubSeq(batch, lo + 1, hi) \in Seq(TokenT)
        /\ Len(SubSeq(batch, lo + 1, hi)) = hi - lo
        /\ \A i \in 1 .. hi - lo : SubSeq(batch, lo + 1, hi)[i] = batch[lo + i]
    <3>1. lo + 1 \in Int /\ hi \in Int
      OBVIOUS
    <3>2. PICK q : q = SubSeq(batch, lo + 1, hi)
      OBVIOUS
    <3>3. /\ q \in Seq(TokenT)
          /\ Len(q) = IF lo + 1 <= hi THEN hi - (lo + 1) + 1 ELSE 0
          /\ \A i \in 1 .. hi - (lo + 1) + 1 : q[i] = batch[lo + 1 + i - 1]
      BY <2>4, <3>1, <3>2, SubSeqProperties
    <3>4. hi - (lo + 1) + 1 = hi - lo /\ \A i \in 1 .. hi - lo : lo + 1 + i - 1 = lo + i
      BY <2>1
    <3>5. Len(q) = hi - lo /\ \A i \in 1 .. hi - lo : q[i] = batch[lo + i]
      BY <2>1, <3>3, <3>4
    <3>6. QED BY <3>2, <3>3, <3>5
  <2>6. b \in [1 .. hi - lo -> TokenT]
    BY <2>3, <2>5, LenProperties
  <2>7. Len(b) = hi - lo /\ hi - lo \in Nat \ {0} /\ \A j \in 1 .. hi - lo : b[j] = batch[lo + j]
    <3>1. Len(b) = hi - lo /\ \A j \in 1 .. hi - lo : b[j] = batch[lo + j]
      BY <2>3, <2>5, Zenon
    <3>2. hi - lo \in Nat \ {0}
      BY ONLY <2>1, m \in Nat
    <3>3. QED BY <3>1, <3>2
  <2>8. QED BY <2>1, <2>2, <2>6, <2>7
<1>10. UbatchesOk(ubs)
  BY <1>8, <1>9 DEF UbatchesOk
<1>11. Cuts(batch, m, ubs, cut)
  BY <1>0, <1>6, <1>7, <1>8, <1>9 DEF Cuts
<1>12. QED BY <1>3, <1>8, <1>10, <1>11

-----------------------------------------------------------------------------
(* The types and the counters, for every set-up *)

KvInv ==
    /\ setup \in Configs /\ kv \in KvT
    /\ len \in [Seqs -> 0 .. MaxPos + 1]
    /\ child \in SUBSET Seqs /\ by \in SUBSET Seqs /\ failed \in BOOLEAN
    /\ drafted \in SUBSET TokenT

LEMMA KvInvSound == KvInv => KvTypeOK /\ CountersTrue
<1> SUFFICES ASSUME KvInv PROVE KvTypeOK /\ CountersTrue
  OBVIOUS
<1>1. GoodCells(kv.cells) /\ kv.head \in 0 .. NCells
  BY KvIs DEF KvInv
<1>2. PICK c : c = kv.cells
  OBVIOUS
<1>3. c \in CellsType /\ Agree(c)
  BY <1>1, <1>2 DEF GoodCells
<1>4. ASSUME NEW s \in Seqs, NEW p \in Position
      PROVE  /\ c.seqPos[s][p] = Cardinality({i \in Cell : s \in c.seq[i] /\ c.pos[i] = p})
             /\ c.seqPos[s][p] \in 0 .. NCells
  <2>1. c.seqPos[s][p] = Occurs(c, Cell, s, p)
    BY <1>3 DEF Agree
  <2>2. Cell \in SUBSET Cell
    OBVIOUS
  <2>3. Occurs(c, Cell, s, p) \in Nat /\ Occurs(c, Cell, s, p) <= NCells
    BY <2>2, OccursIsNat
  <2>4. QED BY <2>1, <2>3, KvConstants DEF Occurs
<1>5. c.seqPos \in [Seqs -> [Position -> 0 .. NCells]]
  <2>1. c.seqPos \in [Seqs -> [Position -> Int]]
    BY <1>3 DEF CellsType
  <2>2. ASSUME NEW s \in Seqs PROVE c.seqPos[s] \in [Position -> 0 .. NCells]
    <3>1. c.seqPos[s] \in [Position -> Int]
      BY <2>1
    <3>2. QED BY <1>4, <3>1
  <2>3. QED BY <2>1, <2>2
<1>6. KvTypeOK
  <2>1. /\ c.pos \in [Cell -> Position \cup {Unused}] /\ c.seq \in [Cell -> SUBSET Seqs]
        /\ c.used \subseteq Cell
    BY <1>3 DEF CellsType
  <2>2. TokenT = [seq : Seqs, pos : Position]
    BY DEF TokenT
  <2>3. QED BY <1>1, <1>2, <1>5, <2>1, <2>2 DEF KvInv, KvTypeOK
<1>7. CountersTrue
  <2>1. \A i \in Cell : (i \in c.used <=> c.pos[i] # Unused) /\ (i \in c.used <=> c.seq[i] # {})
    BY <1>3 DEF Agree
  <2>2. QED BY <1>2, <1>4, <2>1 DEF CountersTrue
<1>8. QED BY <1>6, <1>7

LEMMA NoCellsGood == GoodCells(NoCells) /\ \A i \in Cell : NoCells.pos[i] = Unused /\ NoCells.seq[i] = {}
<1>1. PICK c : c = NoCells
  OBVIOUS
<1>2. /\ c.pos = [i \in Cell |-> Unused] /\ c.seq = [i \in Cell |-> {}] /\ c.used = {}
      /\ c.seqPos = [s \in Seqs |-> [p \in Position |-> 0]]
      /\ c = [pos |-> c.pos, seq |-> c.seq, used |-> c.used, seqPos |-> c.seqPos]
  BY <1>1 DEF NoCells
<1>3. c \in CellsType
  BY <1>2 DEF CellsType
<1>4. \A i \in Cell : c.pos[i] = Unused /\ c.seq[i] = {} /\ i \notin c.used
  BY <1>2
<1>5. ASSUME NEW s \in Seqs, NEW p \in Position PROVE c.seqPos[s][p] = Occurs(c, Cell, s, p)
  <2>1. c.seqPos[s][p] = 0
    BY <1>2
  <2>2. \A i \in Cell : ~(s \in c.seq[i] /\ c.pos[i] = p)
    BY <1>4
  <2>3. QED BY <2>1, <2>2, OccursNone
<1>6. Agree(c)
  BY <1>4, <1>5 DEF Agree
<1>7. QED BY <1>1, <1>3, <1>4, <1>6 DEF GoodCells

LEMMA KvInvInit == KvInit => KvInv
<1> SUFFICES ASSUME KvInit PROVE KvInv
  OBVIOUS
<1>1. kv = [cells |-> NoCells, head |-> 0] /\ 0 \in 0 .. NCells
  BY KvConstants DEF KvInit
<1>2. kv \in KvT
  BY <1>1, NoCellsGood, KvIs
<1>3. len \in [Seqs -> 0 .. MaxPos + 1]
  BY KvConstants DEF KvInit
<1>4. QED BY <1>2, <1>3 DEF KvInit, KvInv

\* the batch of DecodeBatch
Batch(s, t, a, b) == Tokens(s, a) \o Tokens(t, b)

\* the parameters of a decode
DecodeArgs(s, t, a, b) ==
    /\ s \in Seqs /\ t \in Seqs \ {s} /\ a \in Nat \ {0} /\ b \in Nat
    /\ len[s] + a <= MaxPos + 1 /\ len[t] + b <= MaxPos + 1

LEMMA BatchIs ==
    ASSUME len \in [Seqs -> 0 .. MaxPos + 1], NEW s, NEW t, NEW a, NEW b, DecodeArgs(s, t, a, b)
    PROVE  /\ Batch(s, t, a, b) \in Seq(TokenT) /\ Len(Batch(s, t, a, b)) = a + b /\ a + b \in Nat \ {0}
           /\ \A g \in 1 .. a + b :
                 Batch(s, t, a, b)[g] = IF g <= a THEN [seq |-> s, pos |-> len[s] - 1 + g]
                                        ELSE [seq |-> t, pos |-> len[t] - 1 + (g - a)]
<1>1. ASSUME NEW q \in Seqs, NEW n \in Nat, len[q] + n <= MaxPos + 1
      PROVE  /\ Tokens(q, n) \in Seq(TokenT) /\ Len(Tokens(q, n)) = n
             /\ \A j \in 1 .. n : Tokens(q, n)[j] = [seq |-> q, pos |-> len[q] - 1 + j]
  <2>1. len[q] \in 0 .. MaxPos + 1
    OBVIOUS
  <2>2. ASSUME NEW j \in 1 .. n PROVE [seq |-> q, pos |-> len[q] - 1 + j] \in TokenT
    <3>1. len[q] - 1 + j \in Position
      BY <1>1, <2>1, KvConstants
    <3>2. QED BY <3>1 DEF TokenT
  <2>3. PICK e : e = [j \in 1 .. n |-> [seq |-> q, pos |-> len[q] - 1 + j]]
    OBVIOUS
  <2>4. e \in [1 .. n -> TokenT]
    BY <2>2, <2>3
  <2>5. e \in Seq(TokenT) /\ Len(e) = n
    BY <2>4
  <2>6. Tokens(q, n) = e
    BY <2>3 DEF Tokens
  <2>7. QED BY <2>3, <2>5, <2>6
<1>2. PICK x \in Seq(TokenT) : x = Tokens(s, a) /\ Len(x) = a
                               /\ \A j \in 1 .. a : x[j] = [seq |-> s, pos |-> len[s] - 1 + j]
  BY <1>1 DEF DecodeArgs
<1>3. PICK y \in Seq(TokenT) : y = Tokens(t, b) /\ Len(y) = b
                               /\ \A j \in 1 .. b : y[j] = [seq |-> t, pos |-> len[t] - 1 + j]
  BY <1>1 DEF DecodeArgs
<1>4. /\ x \o y \in Seq(TokenT) /\ Len(x \o y) = a + b
      /\ \A g \in 1 .. a + b : (x \o y)[g] = IF g <= a THEN x[g] ELSE y[g - a]
  BY <1>2, <1>3, ConcatProperties
<1>5. PICK z : z = x \o y
  OBVIOUS
<1>6. ASSUME NEW g \in 1 .. a + b
      PROVE  z[g] = IF g <= a THEN [seq |-> s, pos |-> len[s] - 1 + g]
                    ELSE [seq |-> t, pos |-> len[t] - 1 + (g - a)]
  <2>1. a \in Nat /\ b \in Nat
    BY DEF DecodeArgs
  <2>2. z[g] = IF g <= a THEN x[g] ELSE y[g - a]
    BY <1>4, <1>5
  <2>3. CASE g <= a
    <3>1. g \in 1 .. a
      BY <2>1, <2>3
    <3>2. QED BY <1>2, <2>2, <2>3, <3>1
  <2>4. CASE ~(g <= a)
    <3>1. g - a \in 1 .. b
      BY <2>1, <2>4
    <3>2. QED BY <1>3, <2>2, <2>4, <3>1
  <2>5. QED BY <2>3, <2>4
<1>7. a + b \in Nat \ {0}
  BY DEF DecodeArgs
<1>8. Batch(s, t, a, b) = z
  BY <1>2, <1>3, <1>5 DEF Batch
<1>9. QED BY <1>4, <1>5, <1>6, <1>7, <1>8

\* a decode of ubatches that may place the first n of them
Decodable(k, ubs) ==
    /\ Prepare(k, ubs).kv \in KvT
    /\ Prepare(k, ubs).ok =>
          \A n \in 1 .. Len(ubs) :
              Compute(Prepare(k, ubs).kv, Prepare(k, ubs).idxs, ubs, n) \in KvT

LEMMA DecodableIs ==
    ASSUME NEW k \in KvT, NEW ubs, UbatchesOk(ubs)
    PROVE  Decodable(k, ubs)
<1>1. PICK n, ks, is :
              /\ Simulated(k, ubs, n, ks, is)
              /\ Prepare(k, ubs).ok <=> n = Len(ubs)
              /\ Prepare(k, ubs).idxs = is
              /\ Prepare(k, ubs).kv \in KvT
  BY PrepareIs
<1>2. ASSUME Prepare(k, ubs).ok, NEW m \in 1 .. Len(ubs)
      PROVE  Compute(Prepare(k, ubs).kv, Prepare(k, ubs).idxs, ubs, m) \in KvT
  <2>1. m \in Nat /\ m <= Len(ubs) /\ n = Len(ubs)
    BY <1>1, <1>2 DEF UbatchesOk
  <2>2. \A u \in 1 .. m : is[u] \in Places(Len(ubs[u]))
    <3>1. \A u \in 1 .. m : u \in 1 .. n
      BY <2>1 DEF UbatchesOk
    <3>2. QED BY <1>1, <3>1 DEF Simulated
  <2>3. PICK X : /\ Applied(Prepare(k, ubs).kv, is, ubs, m, X)
                 /\ Compute(Prepare(k, ubs).kv, is, ubs, m) = X[m]
    BY <1>1, <2>1, <2>2, ComputeIs
  <2>4. X[m] \in KvT
    BY <2>1, <2>3 DEF Applied
  <2>5. QED BY <1>1, <2>3, <2>4
<1>3. QED BY <1>1, <1>2 DEF Decodable

LEMMA DecodeKeepsType ==
    ASSUME KvInv, NEW s \in Seqs, NEW t \in Seqs \ {s}, NEW a \in 1 .. NBatch, NEW b \in 0 .. NBatch - a,
           DecodeBatch(s, t, a, b)
    PROVE  KvInv'
<1>0. NBatch \in Nat
  BY KvConstants DEF NBatch
<1>1. PICK ubs : ubs = Split(Batch(s, t, a, b))
  OBVIOUS
<1>2. PICK p : p = Prepare(kv, ubs)
  OBVIOUS
<1>3. PICK named : named = {s} \cup IF b > 0 THEN {t} ELSE {}
  OBVIOUS
<1>4. /\ len[s] + a <= MaxPos + 1 /\ len[t] + b <= MaxPos + 1 /\ setup' = setup
      /\ \/ /\ ~p.ok
            /\ kv' = p.kv
            /\ by' = named /\ failed' = TRUE /\ drafted' = {}
            /\ len' = len /\ child' = child
         \/ /\ p.ok
            /\ kv' = Compute(p.kv, p.idxs, ubs, Len(ubs))
            /\ len' = [len EXCEPT ![s] = @ + a, ![t] = @ + b]
            /\ by' = named /\ failed' = FALSE
            /\ drafted' = IF setup.drafts THEN Range(Batch(s, t, a, b)) ELSE {}
            /\ child' = child
         \/ /\ p.ok
            /\ \E last \in 1 .. Len(ubs) :
                 ComputeFails(DropUbatch(Compute(p.kv, p.idxs, ubs, last), ubs[last]), named)
  BY <1>1, <1>2, <1>3 DEF DecodeBatch, Batch
<1>5. DecodeArgs(s, t, a, b)
  BY <1>0, <1>4 DEF DecodeArgs
<1>6. Batch(s, t, a, b) \in Seq(TokenT) /\ Len(Batch(s, t, a, b)) = a + b /\ a + b \in Nat \ {0}
  BY <1>5, BatchIs DEF KvInv
<1>7. UbatchesOk(ubs) /\ Len(ubs) \in Nat /\ Len(ubs) > 0
  BY <1>1, <1>6, SplitIs DEF UbatchesOk
<1>8. /\ p.kv \in KvT
      /\ p.ok => \A n \in 1 .. Len(ubs) : Compute(p.kv, p.idxs, ubs, n) \in KvT
  <2>1. Decodable(kv, ubs)
    BY <1>7, DecodableIs DEF KvInv
  <2>2. QED BY <1>2, <2>1 DEF Decodable
<1>9. named \in SUBSET Seqs
  BY <1>3
<1>10. CASE /\ ~p.ok
            /\ kv' = p.kv
            /\ by' = named /\ failed' = TRUE /\ drafted' = {}
            /\ len' = len /\ child' = child
  BY <1>4, <1>8, <1>9, <1>10 DEF KvInv
<1>11. CASE /\ p.ok
            /\ kv' = Compute(p.kv, p.idxs, ubs, Len(ubs))
            /\ len' = [len EXCEPT ![s] = @ + a, ![t] = @ + b]
            /\ by' = named /\ failed' = FALSE
            /\ drafted' = IF setup.drafts THEN Range(Batch(s, t, a, b)) ELSE {}
            /\ child' = child
  <2>1. kv' \in KvT
    BY <1>7, <1>8, <1>11
  <2>2. len' \in [Seqs -> 0 .. MaxPos + 1]
    <3>1. len \in [Seqs -> 0 .. MaxPos + 1]
      BY DEF KvInv
    <3>2. len[s] + a \in 0 .. MaxPos + 1 /\ len[t] + b \in 0 .. MaxPos + 1
      BY <1>0, <1>4, <3>1, KvConstants, SMTT(30)
    <3>3. QED BY <1>11, <3>1, <3>2
  <2>3. drafted' \in SUBSET TokenT
    <3>1. Range(Batch(s, t, a, b)) \in SUBSET TokenT
      <4>1. PICK z \in Seq(TokenT) : z = Batch(s, t, a, b)
        BY <1>6
      <4>2. \A g \in DOMAIN z : z[g] \in TokenT
        BY ElementOfSeq, LenProperties
      <4>3. QED BY <4>1, <4>2 DEF Range
    <3>2. QED BY <1>11, <3>1
  <2>4. QED BY <1>4, <1>9, <1>11, <2>1, <2>2, <2>3 DEF KvInv
<1>12. ASSUME p.ok, NEW last \in 1 .. Len(ubs),
              ComputeFails(DropUbatch(Compute(p.kv, p.idxs, ubs, last), ubs[last]), named)
       PROVE  KvInv'
  <2>1. PICK k : k = DropUbatch(Compute(p.kv, p.idxs, ubs, last), ubs[last])
    OBVIOUS
  <2>2. k \in KvT
    <3>1. Compute(p.kv, p.idxs, ubs, last) \in KvT
      BY <1>8, <1>12
    <3>2. QED BY <2>1, <3>1, RemoveSeqsIs DEF DropUbatch
  <2>3. ComputeFails(k, named)
    BY <1>12, <2>1
  <2>4. PICK P \in SUBSET Seqs :
            /\ kv' = RemoveSeqs(k, Cell \X P)
            /\ len' = [q \in Seqs |-> IF q \in P THEN 0 ELSE len[q]]
            /\ by' = P /\ child' = child \ P /\ failed' = FALSE /\ drafted' = {}
    BY <2>3 DEF ComputeFails
  <2>5. kv' \in KvT
    BY <2>2, <2>4, RemoveSeqsIs
  <2>6. len' \in [Seqs -> 0 .. MaxPos + 1]
    BY <2>4, KvConstants DEF KvInv
  <2>7. QED BY <1>4, <2>4, <2>5, <2>6 DEF KvInv
<1>13. QED BY <1>4, <1>10, <1>11, <1>12

LEMMA DoneKeepsType ==
    ASSUME KvInv, kv' \in KvT, child' \in SUBSET Seqs, NEW S \in SUBSET Seqs, NEW s \in Seqs,
           NEW n \in 0 .. MaxPos + 1, Done(S, s, n)
    PROVE  KvInv'
<1>1. len' = [len EXCEPT ![s] = n] /\ by' = S /\ failed' = FALSE /\ drafted' = {} /\ setup' = setup
  BY DEF Done
<1>2. len' \in [Seqs -> 0 .. MaxPos + 1]
  BY <1>1 DEF KvInv
<1>3. QED BY <1>1, <1>2 DEF KvInv

\* what Reuse keeps
LEMMA ReusedIs ==
    ASSUME KvInv, NEW s \in Seqs, NEW t \in 0 .. MaxPos + 1, NEW full \in BOOLEAN, Reuse(s, t, full)
    PROVE  /\ Reused(s, t) \in {0, t}
           /\ Reused(s, t) - (IF full THEN 1 ELSE 0) \in 0 .. len[s]
           /\ Reused(s, t) - (IF full THEN 1 ELSE 0) \in 0 .. MaxPos + 1
<1>1. Reused(s, t) \in {0, t}
  BY DEF Reused
<1>2. t <= len[s] /\ (full => Reused(s, t) > 0)
  BY DEF Reuse
<1>3. len[s] \in 0 .. MaxPos + 1 /\ MaxPos \in Nat
  BY KvConstants DEF KvInv
<1>4. PICK r \in {0, t} : r = Reused(s, t)
  BY <1>1
<1>5. r - (IF full THEN 1 ELSE 0) \in 0 .. len[s] /\ r - (IF full THEN 1 ELSE 0) \in 0 .. MaxPos + 1
  BY <1>2, <1>3, <1>4
<1>6. QED BY <1>4, <1>5

LEMMA OtherStepsKeepType ==
    ASSUME KvInv,
           \/ \E s \in Seqs, t \in 0 .. MaxPos + 1, full \in BOOLEAN : Reuse(s, t, full)
           \/ \E t \in drafted : Reject(t)
           \/ \E s \in Seqs : Clear(s)
           \/ \E s, d \in Seqs : CopyState(s, d)
           \/ \E s \in Seqs, keep, discard \in Position : Shift(s, keep, discard)
    PROVE  KvInv'
<1>1. kv \in KvT /\ len \in [Seqs -> 0 .. MaxPos + 1] /\ child \in SUBSET Seqs /\ drafted \in SUBSET TokenT
      /\ GoodCells(kv.cells)
  BY KvIs DEF KvInv
<1>2. Infinity \in Int /\ 0 \in Int /\ MaxPos \in Nat /\ 0 \in 0 .. MaxPos + 1
  BY KvConstants DEF Infinity
<1>3. ASSUME NEW s \in Seqs, NEW t \in 0 .. MaxPos + 1, NEW full \in BOOLEAN, Reuse(s, t, full)
      PROVE  KvInv'
  <2>1. PICK n \in 0 .. MaxPos + 1 : n = Reused(s, t) - (IF full THEN 1 ELSE 0)
    BY <1>3, ReusedIs
  <2>2. kv' = SeqRm(kv, s, n, Infinity) /\ Done({s}, s, n) /\ child' = child
    BY <1>3, <2>1 DEF Reuse
  <2>3. kv' \in KvT
    BY <1>1, <1>2, <2>2, SeqRmIs
  <2>4. QED BY <1>1, <2>2, <2>3, DoneKeepsType
<1>4. ASSUME NEW t \in drafted, Reject(t) PROVE KvInv'
  <2>1. t.seq \in Seqs /\ t.pos \in 0 .. MaxPos + 1 /\ t.pos \in Int
    BY <1>1, KvConstants DEF TokenT
  <2>2. kv' = SeqRm(kv, t.seq, t.pos, Infinity) /\ Done({t.seq}, t.seq, t.pos) /\ child' = child
    BY <1>4 DEF Reject
  <2>3. kv' \in KvT
    BY <1>1, <1>2, <2>1, <2>2, SeqRmIs
  <2>4. PICK q \in Seqs, n \in 0 .. MaxPos + 1 : Done({q}, q, n)
    BY <2>1, <2>2
  <2>5. QED BY <1>1, <2>2, <2>3, <2>4, DoneKeepsType
<1>5. ASSUME NEW s \in Seqs, Clear(s) PROVE KvInv'
  <2>1. kv' = SeqRm(kv, s, 0, Infinity) /\ Done({s}, s, 0) /\ child' = child \ {s}
    BY <1>5 DEF Clear
  <2>2. kv' \in KvT
    BY <1>1, <1>2, <2>1, SeqRmIs
  <2>3. child' \in SUBSET Seqs
    BY <1>1, <2>1
  <2>4. QED BY <1>2, <2>1, <2>2, <2>3, DoneKeepsType
<1>6. ASSUME NEW s \in Seqs, NEW d \in Seqs, CopyState(s, d) PROVE KvInv'
  <2>1. /\ s # d /\ child' = child \cup {d} /\ kv' = SeqCp(SeqRm(kv, d, 0, Infinity), s, d)
        /\ Done({s, d}, d, len[s])
    BY <1>6 DEF CopyState
  <2>2. PICK k \in KvT : k = SeqRm(kv, d, 0, Infinity) /\ LeftOf(kv.cells, d, 0, Infinity, k.cells)
    BY <1>1, <1>2, SeqRmIs
  <2>3. ASSUME NEW i \in Cell PROVE d \notin k.cells.seq[i]
    <3>1. kv.cells.pos[i] \in Position \cup {Unused} /\ (kv.cells.pos[i] # Unused <=> kv.cells.seq[i] # {})
      BY <1>1, CellIs
    <3>2. d \in kv.cells.seq[i] => 0 <= kv.cells.pos[i] /\ kv.cells.pos[i] < Infinity
      BY <3>1, KvConstants DEF Infinity
    <3>3. QED BY <2>2, <3>2 DEF LeftOf
  <2>4. kv' \in KvT
    BY <2>1, <2>2, <2>3, SeqCpIs
  <2>5. child' \in SUBSET Seqs /\ len[s] \in 0 .. MaxPos + 1
    BY <1>1, <2>1
  <2>6. QED BY <2>1, <2>4, <2>5, DoneKeepsType
<1>7. ASSUME NEW s \in Seqs, NEW keep \in Position, NEW discard \in Position, Shift(s, keep, discard)
      PROVE  KvInv'
  <2>1. PICK n \in 0 .. MaxPos + 1 : n = len[s]
    BY <1>1
  <2>2. /\ discard > 0 /\ keep + discard < n /\ child' = child
        /\ kv' = SeqAdd(SeqRm(kv, s, keep, keep + discard), s, keep + discard, n, -discard)
        /\ Done({s}, s, n - discard)
    BY <1>7, <2>1 DEF Shift
  <2>3. keep \in Nat /\ discard \in Nat /\ n \in Nat
    BY <1>2, KvConstants
  <2>4. PICK k \in KvT : k = SeqRm(kv, s, keep, keep + discard)
    BY <1>1, <2>3, SeqRmIs
  <2>5. keep + discard \in Nat /\ n \in Int /\ -discard \in Int /\ keep + discard + (-discard) >= 0
        /\ -discard <= 0 /\ n - discard \in 0 .. MaxPos + 1
    BY <1>2, <2>2, <2>3
  <2>6. kv' \in KvT
    BY <2>2, <2>4, <2>5, SeqAddIs
  <2>7. QED BY <1>1, <2>2, <2>5, <2>6, DoneKeepsType
<1>8. QED BY <1>3, <1>4, <1>5, <1>6, <1>7

LEMMA KvInvKept == KvInv /\ [KvNext]_kvVars => KvInv'
<1> SUFFICES ASSUME KvInv, [KvNext]_kvVars PROVE KvInv'
  OBVIOUS
<1>1. CASE \E s \in Seqs, a \in 1 .. NBatch : \E t \in Seqs \ {s}, b \in 0 .. NBatch - a :
              DecodeBatch(s, t, a, b)
  BY <1>1, DecodeKeepsType
<1>2. CASE \/ \E s \in Seqs, t \in 0 .. MaxPos + 1, full \in BOOLEAN : Reuse(s, t, full)
           \/ \E t \in drafted : Reject(t)
           \/ \E s \in Seqs : Clear(s)
           \/ \E s, d \in Seqs : CopyState(s, d)
           \/ \E s \in Seqs, keep, discard \in Position : Shift(s, keep, discard)
  BY <1>2, OtherStepsKeepType
<1>3. CASE UNCHANGED kvVars
  BY <1>3 DEF kvVars, KvInv
<1>4. QED BY <1>1, <1>2, <1>3 DEF KvNext

\* Whatever the set-up, what is kept beside the cells agrees with them: `used`
\* and seq_pos are right after every operation, the undone decodes and the
\* failed ones included (llama_kv_cells, llama_kv_cache::prepare).
THEOREM CountersTrueHolds == KvSpec => [](KvTypeOK /\ CountersTrue)
<1>1. KvInit => KvInv
  BY KvInvInit
<1>2. KvInv /\ [KvNext]_kvVars => KvInv'
  BY KvInvKept
<1>3. KvInv => KvTypeOK /\ CountersTrue
  BY KvInvSound
<1>4. QED BY <1>1, <1>2, <1>3, PTL DEF KvSpec

-----------------------------------------------------------------------------
(* What the slots believe: the tokens of a sequence are in line *)

\* The sequence s has the positions lo to n - 1, each in one cell.
Line(c, s, lo, n) ==
    /\ \A i \in Cell : s \in c.seq[i] => lo <= c.pos[i] /\ c.pos[i] < n
    /\ \A p \in lo .. n - 1 : \E i \in Cell : s \in c.seq[i] /\ c.pos[i] = p
    /\ \A i, j \in Cell : s \in c.seq[i] /\ s \in c.seq[j] /\ c.pos[i] = c.pos[j] => i = j

\* What is missing before lo is out of the window w of the next token, n.
Late(w, lo, n) == lo = 0 \/ (w > 0 /\ lo + w <= n + 1)

Lines(c, w, L) == \A s \in Seqs : \E lo \in Nat : Line(c, s, lo, L[s]) /\ Late(w, lo, L[s])

\* no cell is shared
Single(c) == \A i \in Cell : \A s, q \in c.seq[i] : s = q

LEMMA LineCounts ==
    ASSUME NEW c, GoodCells(c), NEW s \in Seqs, NEW lo \in Nat, NEW n \in 0 .. MaxPos + 1,
           Line(c, s, lo, n)
    PROVE  /\ \A p \in Position : c.seqPos[s][p] = IF lo <= p /\ p < n THEN 1 ELSE 0
           /\ Present(c, s) = lo .. n - 1
           /\ SeqPosMin(c, s) = IF lo < n THEN lo ELSE -1
           /\ SeqPosMax(c, s) = IF lo < n THEN n - 1 ELSE -1
<1>0. n \in Nat /\ n <= MaxPos + 1 /\ MaxPos \in Nat
  BY KvConstants
<1>1. ASSUME NEW p \in Position PROVE c.seqPos[s][p] = IF lo <= p /\ p < n THEN 1 ELSE 0
  <2> DEFINE D == {i \in Cell : s \in c.seq[i] /\ c.pos[i] = p}
  <2>1. c.seqPos[s][p] = Cardinality(D)
    BY DEF GoodCells, Agree, Occurs
  <2>2. p \in Int
    BY KvConstants
  <2>3. CASE lo <= p /\ p < n
    <3>1. PICK i \in Cell : s \in c.seq[i] /\ c.pos[i] = p
      <4>1. p \in lo .. n - 1
        BY <1>0, <2>2, <2>3
      <4>2. QED BY <4>1 DEF Line
    <3>2. D = {i}
      BY <3>1 DEF Line
    <3>3. QED BY <2>1, <2>3, <3>2, FS_Singleton
  <2>4. CASE ~(lo <= p /\ p < n)
    <3>1. D = {}
      BY <2>4 DEF Line
    <3>2. QED BY <2>1, <2>4, <3>1, FS_EmptySet
  <2>5. QED BY <2>3, <2>4
<1>2. Present(c, s) = lo .. n - 1
  <2>1. Present(c, s) = {p \in Position : lo <= p /\ p < n}
    BY <1>1 DEF Present
  <2>2. \A p : p \in Position /\ lo <= p /\ p < n <=> p \in lo .. n - 1
    BY <1>0, KvConstants
  <2>3. QED BY <2>1, <2>2
<1>3. CASE lo < n
  <2>1. lo \in lo .. n - 1 /\ n - 1 \in lo .. n - 1
    BY <1>0, <1>3
  <2>2. PICK T : T = lo .. n - 1
    OBVIOUS
  <2>3. Min(T) = lo
    <3>1. lo \in T /\ \A y \in T : lo <= y
      BY <1>0, <2>1, <2>2
    <3>2. Min(T) \in T /\ \A y \in T : Min(T) <= y
      BY <3>1 DEF Min
    <3>3. QED BY <1>0, <2>2, <3>1, <3>2
  <2>4. Max(T) = n - 1
    <3>1. n - 1 \in T /\ \A y \in T : n - 1 >= y
      BY <1>0, <2>1, <2>2
    <3>2. Max(T) \in T /\ \A y \in T : Max(T) >= y
      BY <3>1 DEF Max
    <3>3. QED BY <1>0, <2>2, <3>1, <3>2
  <2>5. T # {}
    BY <2>1, <2>2
  <2>6. QED BY <1>1, <1>2, <1>3, <2>2, <2>3, <2>4, <2>5 DEF SeqPosMin, SeqPosMax
<1>4. CASE ~(lo < n)
  <2>1. lo .. n - 1 = {}
    BY <1>0, <1>4
  <2>2. QED BY <1>1, <1>2, <1>4, <2>1 DEF SeqPosMin, SeqPosMax
<1>5. QED BY <1>3, <1>4

\* the set-ups that are sound
SoundSetups ==
    \A c \in Configs :
        /\ ~(c.copies /\ c.shifts)
        /\ c.window > 0 => /\ ~c.copies /\ ~c.shifts /\ ~c.drafts /\ ~c.repeats /\ ~c.fails
                           /\ NCells >= c.window * NSeqs + NUbatch

KvSoundInv ==
    /\ KvInv
    /\ Lines(kv.cells, setup.window, len)
    /\ setup.copies \/ Single(kv.cells)
    /\ \A t \in drafted : setup.drafts /\ t.pos < len[t.seq]

LEMMA SetupIs ==
    ASSUME KvInv
    PROVE  /\ setup.window \in Nat
           /\ {setup.copies, setup.shifts, setup.drafts, setup.repeats, setup.fails} \subseteq BOOLEAN
  BY KvAssumption DEF KvInv

LEMMA KvSoundInvSound ==
    ASSUME KvSoundInv PROVE Contiguous /\ NeededPresent
<1>1. GoodCells(kv.cells) /\ len \in [Seqs -> 0 .. MaxPos + 1] /\ setup.window \in Nat /\ MaxPos \in Nat
  BY KvIs, SetupIs, KvConstants DEF KvSoundInv, KvInv
<1>2. ASSUME NEW s \in Seqs
      PROVE  /\ \A p \in SeqPosMin(kv.cells, s) .. SeqPosMax(kv.cells, s) :
                   p >= 0 => kv.cells.seqPos[s][p] = 1
             /\ Needed(s) \subseteq Holds(s) /\ SeqPosMax(kv.cells, s) < len[s]
  <2>1. PICK lo \in Nat : Line(kv.cells, s, lo, len[s]) /\ Late(setup.window, lo, len[s])
    BY DEF KvSoundInv, Lines
  <2>2. PICK n \in 0 .. MaxPos + 1 : n = len[s]
    BY <1>1
  <2>3. /\ \A p \in Position : kv.cells.seqPos[s][p] = IF lo <= p /\ p < n THEN 1 ELSE 0
        /\ SeqPosMin(kv.cells, s) = IF lo < n THEN lo ELSE -1
        /\ SeqPosMax(kv.cells, s) = IF lo < n THEN n - 1 ELSE -1
    BY <1>1, <2>1, <2>2, LineCounts
  <2>4. ASSUME NEW p \in SeqPosMin(kv.cells, s) .. SeqPosMax(kv.cells, s), p >= 0
        PROVE  kv.cells.seqPos[s][p] = 1
    <3>1. lo <= p /\ p < n /\ p \in Position
      BY <1>1, <2>2, <2>3, <2>4, KvConstants
    <3>2. QED BY <2>3, <3>1
  <2>5. SeqPosMax(kv.cells, s) < n
    BY <1>1, <2>2, <2>3
  <2>6. ASSUME NEW p \in Needed(s) PROVE p \in Holds(s)
    <3>1. p \in 0 .. n - 1 /\ ~(setup.window > 0 /\ n - p >= setup.window)
      BY <2>2 DEF Needed, Masked
    <3>2. p \in lo .. n - 1
      BY <1>1, <2>1, <2>2, <3>1 DEF Late
    <3>3. PICK i \in Cell : s \in kv.cells.seq[i] /\ kv.cells.pos[i] = p
      BY <2>1, <2>2, <3>2 DEF Line
    <3>4. QED BY <3>3 DEF Holds
  <2>7. QED BY <2>2, <2>4, <2>5, <2>6
<1>3. QED BY <1>2 DEF Contiguous, NeededPresent

-----------------------------------------------------------------------------
(* A ubatch that continues the lines *)

LenT == [Seqs -> 0 .. MaxPos + 1]

\* The tokens of ub continue the sequences of L tokens to M.
Continue(n, ub, L, M) ==
    /\ L \in LenT /\ M \in LenT
    /\ \A q \in Seqs : L[q] <= M[q]
    /\ \A j \in 1 .. n : L[ub[j].seq] <= ub[j].pos /\ ub[j].pos < M[ub[j].seq]
    /\ \A q \in Seqs : \A p \in L[q] .. M[q] - 1 : \E j \in 1 .. n : ub[j].seq = q /\ ub[j].pos = p
    /\ \A j, h \in 1 .. n : ub[j].seq = ub[h].seq /\ ub[j].pos = ub[h].pos => j = h

\* A usable cell is empty, or holds what its only sequence has behind it.
LEMMA UsableIs ==
    ASSUME NEW c, GoodCells(c), NEW L \in LenT, setup.window \in Nat, Lines(c, setup.window, L),
           NEW i \in Usable(c)
    PROVE  \/ c.pos[i] = Unused /\ c.seq[i] = {}
           \/ \E s \in Seqs : /\ c.seq[i] = {s} /\ c.pos[i] \in Position
                              /\ setup.window > 0 /\ c.pos[i] + setup.window <= L[s]
<1>1. i \in Cell /\ CanUse(c, i)
  BY DEF Usable
<1>2. /\ c.pos[i] \in Position \cup {Unused} /\ c.seq[i] \in SUBSET Seqs
      /\ c.pos[i] # Unused <=> c.seq[i] # {}
  BY <1>1, CellIs
<1>3. CASE c.pos[i] # Unused
  <2>1. PICK s \in Seqs : c.seq[i] = {s} /\ Masked(c.pos[i], SeqPosMax(c, s) + 1)
    BY <1>1, <1>3 DEF CanUse
  <2>2. PICK lo \in Nat : Line(c, s, lo, L[s])
    BY DEF Lines
  <2>3. PICK n \in 0 .. MaxPos + 1 : n = L[s]
    BY DEF LenT
  <2>4. lo <= c.pos[i] /\ c.pos[i] < n
    BY <1>1, <2>1, <2>2, <2>3 DEF Line
  <2>5. SeqPosMax(c, s) = IF lo < n THEN n - 1 ELSE -1
    BY <2>2, <2>3, LineCounts
  <2>6. c.pos[i] \in Position
    BY <1>2, <1>3
  <2>7. lo < n /\ SeqPosMax(c, s) + 1 = n
    BY <2>3, <2>4, <2>5, <2>6, KvConstants, SMTT(30)
  <2>8. setup.window > 0 /\ n - c.pos[i] >= setup.window
    BY <2>1, <2>7 DEF Masked
  <2>9. c.pos[i] + setup.window <= n
    BY <2>6, <2>8, KvConstants, SMTT(30)
  <2>10. QED BY <2>1, <2>3, <2>6, <2>8, <2>9
<1>4. QED BY <1>2, <1>3

\* d holds of q what c holds from lo on and the tokens of ub
Gets(c, idxs, ub, q, lo, d) ==
    \A i \in Cell :
        /\ q \in d.seq[i] <=> IF i \in Range(idxs) THEN ub[TokenOf(idxs, i)].seq = q
                              ELSE q \in c.seq[i] /\ lo <= c.pos[i]
        /\ q \in d.seq[i] => d.pos[i] = IF i \in Range(idxs) THEN ub[TokenOf(idxs, i)].pos ELSE c.pos[i]

\* Nothing of q from lo on is lost.
LEMMA ApplyGets ==
    ASSUME NEW k \in KvT, NEW n \in Nat \ {0}, NEW idxs \in Places(n), NEW ub \in [1 .. n -> TokenT],
           Len(ub) = n, NEW q \in Seqs, NEW lo \in Nat, NEW l \in Nat,
           NEW d, d = ApplyUbatch(k, idxs, ub).cells,
           \A j \in 1 .. n : ub[j].seq = q => l <= ub[j].pos,
           lo <= l,
           \A i \in Cell : q \in k.cells.seq[i] =>
              (lo <= k.cells.pos[i]
                <=> ~\E x \in Overwritten(k.cells, Range(idxs)) : x[1] = q /\ k.cells.pos[i] <= x[2]),
           \A x \in Overwritten(k.cells, Range(idxs)) : x[1] = q => x[2] < l
    PROVE  Gets(k.cells, idxs, ub, q, lo, d)
<1>1. PICK lost : lost = Overwritten(k.cells, Range(idxs))
  OBVIOUS
<1>2. \A i \in Cell : PutAt(k.cells, idxs, ub, lost, d, i)
  BY <1>1, ApplyAt
<1>3. ASSUME NEW i \in Cell
      PROVE  /\ q \in d.seq[i] <=> IF i \in Range(idxs) THEN ub[TokenOf(idxs, i)].seq = q
                                   ELSE q \in k.cells.seq[i] /\ lo <= k.cells.pos[i]
             /\ q \in d.seq[i] => d.pos[i] = IF i \in Range(idxs) THEN ub[TokenOf(idxs, i)].pos
                                             ELSE k.cells.pos[i]
  <2>1. PICK s, p : /\ Put(k.cells, idxs, ub, i, s, p)
                    /\ d.seq[i] = {r \in s : ~\E x \in lost : x[1] = r /\ p <= x[2]}
                    /\ d.pos[i] = IF d.seq[i] = {} THEN Unused ELSE p
    BY <1>2 DEF PutAt
  <2>2. CASE i \in Range(idxs)
    <3>1. PICK j \in 1 .. n : j = TokenOf(idxs, i)
      BY <2>2, PlacesAre
    <3>2. s = {ub[j].seq} /\ p = ub[j].pos
      BY <2>1, <2>2, <3>1 DEF Put
    <3>3. ub[j] \in TokenT /\ ub[j].pos \in Position
      BY DEF TokenT
    <3>4. ub[j].seq = q => ~\E x \in lost : x[1] = q /\ p <= x[2]
      <4>1. SUFFICES ASSUME ub[j].seq = q, NEW x \in lost, x[1] = q, p <= x[2] PROVE FALSE
        OBVIOUS
      <4>2. l <= p /\ x[2] < l
        BY <1>1, <3>2, <4>1
      <4>3. x[2] \in Int /\ p \in Int
        <5>1. GoodCells(k.cells)
          BY KvIs
        <5>2. Range(idxs) \in SUBSET Cell
          BY PlacesAre
        <5>3. lost \subseteq Seqs \X (Position \cup {Unused})
          BY <1>1, <5>1, <5>2, OverwrittenIs
        <5>4. x \in Seqs \X (Position \cup {Unused})
          BY <5>3
        <5>5. x[2] \in Position \cup {Unused}
          BY <5>4
        <5>6. QED BY <3>2, <3>3, <5>5, KvConstants
      <4>4. QED BY <4>1, <4>2, <4>3
    <3>5. q \in d.seq[i] <=> ub[j].seq = q
      BY <2>1, <3>2, <3>4
    <3>6. QED BY <2>1, <2>2, <3>1, <3>2, <3>5
  <2>3. CASE i \notin Range(idxs)
    <3>1. s = k.cells.seq[i] /\ p = k.cells.pos[i]
      BY <2>1, <2>3 DEF Put
    <3>2. q \in d.seq[i] <=> q \in k.cells.seq[i] /\ lo <= k.cells.pos[i]
      BY <1>1, <2>1, <3>1
    <3>3. QED BY <2>1, <2>3, <3>1, <3>2
  <2>4. QED BY <2>2, <2>3
<1>4. QED BY <1>3 DEF Gets

\* A line and the tokens that continue it are a line.
LEMMA GetsLine ==
    ASSUME NEW c, NEW d, NEW n \in Nat \ {0}, NEW idxs \in Places(n), NEW ub \in [1 .. n -> TokenT],
           NEW L, NEW M, Continue(n, ub, L, M), NEW q \in Seqs, NEW lo \in Nat, NEW old \in Nat,
           Line(c, q, old, L[q]), old <= lo, lo <= L[q], GoodCells(c),
           \A i \in Range(idxs) : q \in c.seq[i] => c.pos[i] < lo,
           Gets(c, idxs, ub, q, lo, d)
    PROVE  Line(d, q, lo, M[q])
<1>1. PICK l \in 0 .. MaxPos + 1, m \in 0 .. MaxPos + 1 : l = L[q] /\ m = M[q]
  BY DEF Continue, LenT
<1>2. l \in Nat /\ m \in Nat /\ l <= m
  BY <1>1, KvConstants DEF Continue
<1>3. \A i \in Cell : c.pos[i] \in Int
  BY CellIs
<1>4. \A j \in 1 .. n : ub[j].pos \in Int /\ (ub[j].seq = q => l <= ub[j].pos /\ ub[j].pos < m)
  <2>1. \A j \in 1 .. n : ub[j] \in TokenT
    OBVIOUS
  <2>2. \A j \in 1 .. n : ub[j].pos \in Int
    BY <2>1, KvConstants DEF TokenT
  <2>3. QED BY <1>1, <2>2 DEF Continue
<1>5. /\ Range(idxs) \in SUBSET Cell
      /\ \A j \in 1 .. n : idxs[j] \in Range(idxs) /\ TokenOf(idxs, idxs[j]) = j
      /\ \A i \in Range(idxs) : TokenOf(idxs, i) \in 1 .. n /\ idxs[TokenOf(idxs, i)] = i
  BY PlacesAre
<1>6. ASSUME NEW i \in Cell, q \in d.seq[i]
      PROVE  \/ /\ i \in Range(idxs) /\ ub[TokenOf(idxs, i)].seq = q
                /\ d.pos[i] = ub[TokenOf(idxs, i)].pos /\ l <= d.pos[i] /\ d.pos[i] < m
             \/ /\ i \notin Range(idxs) /\ q \in c.seq[i] /\ lo <= c.pos[i]
                /\ d.pos[i] = c.pos[i] /\ d.pos[i] < l
  <2>1. CASE i \in Range(idxs)
    BY <1>4, <1>5, <1>6, <2>1 DEF Gets
  <2>2. CASE i \notin Range(idxs)
    <3>1. q \in c.seq[i] /\ lo <= c.pos[i] /\ d.pos[i] = c.pos[i]
      BY <1>6, <2>2 DEF Gets
    <3>2. c.pos[i] < l
      BY <1>1, <3>1 DEF Line
    <3>3. QED BY <2>2, <3>1, <3>2
  <2>3. QED BY <2>1, <2>2
<1>7. ASSUME NEW i \in Cell, q \in d.seq[i] PROVE lo <= d.pos[i] /\ d.pos[i] < m
  <2>1. lo <= l
    BY <1>1
  <2>2. d.pos[i] \in Int
    BY <1>3, <1>4, <1>5, <1>6, <1>7
  <2>3. CASE l <= d.pos[i] /\ d.pos[i] < m
    BY <1>2, <2>1, <2>2, <2>3
  <2>4. CASE lo <= c.pos[i] /\ d.pos[i] = c.pos[i] /\ d.pos[i] < l
    BY <1>2, <2>1, <2>2, <2>4
  <2>5. QED BY <1>6, <1>7, <2>3, <2>4
<1>8. ASSUME NEW p \in lo .. m - 1 PROVE \E i \in Cell : q \in d.seq[i] /\ d.pos[i] = p
  <2>1. CASE p < l
    <3>1. p \in old .. l - 1
      BY <1>1, <1>2, <2>1
    <3>2. PICK i \in Cell : q \in c.seq[i] /\ c.pos[i] = p
      BY <1>1, <3>1 DEF Line
    <3>3. lo <= p /\ ~(p < lo)
      BY <1>2
    <3>4. i \notin Range(idxs)
      BY <3>2, <3>3
    <3>5. q \in d.seq[i] /\ d.pos[i] = p
      BY <3>2, <3>3, <3>4 DEF Gets
    <3>6. QED BY <3>5
  <2>2. CASE ~(p < l)
    <3>1. p \in l .. m - 1
      BY <1>2, <2>2
    <3>2. PICK j \in 1 .. n : ub[j].seq = q /\ ub[j].pos = p
      BY <1>1, <3>1 DEF Continue
    <3>3. PICK i \in Cell : i = idxs[j] /\ i \in Range(idxs) /\ TokenOf(idxs, i) = j
      BY <1>5
    <3>4. q \in d.seq[i] /\ d.pos[i] = p
      BY <3>2, <3>3 DEF Gets
    <3>5. QED BY <3>4
  <2>3. QED BY <2>1, <2>2
<1>9. ASSUME NEW i \in Cell, NEW h \in Cell, q \in d.seq[i], q \in d.seq[h], d.pos[i] = d.pos[h]
      PROVE  i = h
  <2>1. CASE i \in Range(idxs) /\ h \in Range(idxs)
    <3>1. ub[TokenOf(idxs, i)].seq = ub[TokenOf(idxs, h)].seq /\ ub[TokenOf(idxs, i)].pos = ub[TokenOf(idxs, h)].pos
      BY <1>6, <1>9, <2>1
    <3>2. TokenOf(idxs, i) = TokenOf(idxs, h)
      BY <1>5, <2>1, <3>1 DEF Continue
    <3>3. QED BY <1>5, <2>1, <3>2
  <2>2. CASE i \notin Range(idxs) /\ h \notin Range(idxs)
    <3>1. q \in c.seq[i] /\ q \in c.seq[h] /\ c.pos[i] = c.pos[h]
      BY <1>6, <1>9, <2>2
    <3>2. QED BY <3>1 DEF Line
  <2>3. CASE (i \in Range(idxs)) # (h \in Range(idxs))
    <3>1. d.pos[i] \in Int
      BY <1>3, <1>4, <1>5, <1>6, <1>9
    <3>2. (l <= d.pos[i] /\ d.pos[h] < l) \/ (d.pos[i] < l /\ l <= d.pos[h])
      BY <1>6, <1>9, <2>3
    <3>3. QED BY <1>2, <1>9, <3>1, <3>2
  <2>4. QED BY <2>1, <2>2, <2>3
<1>10. QED BY <1>1, <1>7, <1>8, <1>9 DEF Line

LEMMA ApplyLine ==
    ASSUME NEW k \in KvT, NEW n \in Nat \ {0}, NEW idxs \in Places(n), NEW ub \in [1 .. n -> TokenT],
           Len(ub) = n, NEW L, NEW M, Continue(n, ub, L, M), setup.window \in Nat,
           Lines(k.cells, setup.window, L), Range(idxs) \subseteq Usable(k.cells),
           NEW q \in Seqs
    PROVE  \E lo \in Nat : /\ Line(ApplyUbatch(k, idxs, ub).cells, q, lo, M[q])
                           /\ Late(setup.window, lo, M[q])
<1>1. PICK c, w, lost, d : /\ c = k.cells /\ w = setup.window
                           /\ lost = Overwritten(k.cells, Range(idxs))
                           /\ d = ApplyUbatch(k, idxs, ub).cells
  OBVIOUS
<1>2. GoodCells(c) /\ w \in Nat /\ Range(idxs) \in SUBSET Cell
  BY <1>1, KvIs, PlacesAre
<1>3. PICK l \in 0 .. MaxPos + 1, m \in 0 .. MaxPos + 1 : l = L[q] /\ m = M[q]
  BY DEF Continue, LenT
<1>4. l \in Nat /\ m \in Nat /\ l <= m
  BY <1>3, KvConstants DEF Continue
<1>5. PICK old \in Nat : Line(c, q, old, l) /\ Late(w, old, l)
  BY <1>1, <1>3 DEF Lines
<1>6. old <= l
  BY <1>2, <1>4, <1>5 DEF Late
<1>7. ASSUME NEW i \in Range(idxs), q \in c.seq[i]
      PROVE  c.seq[i] = {q} /\ c.pos[i] \in Position /\ w > 0 /\ c.pos[i] + w <= l /\ old <= c.pos[i]
  <2>1. \/ c.pos[i] = Unused /\ c.seq[i] = {}
        \/ \E s \in Seqs : /\ c.seq[i] = {s} /\ c.pos[i] \in Position
                           /\ setup.window > 0 /\ c.pos[i] + setup.window <= L[s]
    <3>1. i \in Usable(c)
      BY <1>1
    <3>2. L \in LenT
      BY DEF Continue
    <3>3. QED BY <1>1, <1>2, <3>1, <3>2, UsableIs
  <2>2. c.seq[i] = {q} /\ c.pos[i] \in Position /\ w > 0 /\ c.pos[i] + w <= l
    BY <1>1, <1>3, <1>7, <2>1
  <2>3. old <= c.pos[i]
    BY <1>2, <1>5, <1>7 DEF Line
  <2>4. QED BY <2>2, <2>3
<1> DEFINE T == {p \in Position : \E i \in Range(idxs) : q \in c.seq[i] /\ c.pos[i] = p}
<1>8. ASSUME NEW x \in lost, x[1] = q PROVE x[2] \in T /\ x[2] + w <= l /\ w > 0 /\ old <= x[2]
  <2>1. x \in Seqs \X (Position \cup {Unused})
    BY <1>1, <1>2, <1>8, OverwrittenIs
  <2>2. x = <<q, x[2]>>
    BY <1>8, <2>1
  <2>3. \A p : <<q, p>> \in lost <=> \E i \in Range(idxs) : c.seq[i] = {q} /\ c.pos[i] = p
    <3>1. \A s \in Seqs : \A p : <<s, p>> \in Overwritten(c, Range(idxs))
                                   <=> \E i \in Range(idxs) : c.seq[i] = {s} /\ c.pos[i] = p
      BY <1>2, OverwrittenIs
    <3>2. QED BY <1>1, <3>1
  <2>4. PICK i \in Range(idxs) : c.seq[i] = {q} /\ c.pos[i] = x[2]
    BY <1>8, <2>2, <2>3
  <2>5. QED BY <1>7, <2>4
<1>9. ASSUME NEW p \in T PROVE <<q, p>> \in lost
  <2>1. PICK i \in Range(idxs) : q \in c.seq[i] /\ c.pos[i] = p
    BY <1>9
  <2>2. c.seq[i] = {q}
    BY <1>7, <2>1
  <2>3. QED BY <1>1, <1>2, <2>1, <2>2, OverwrittenIs
<1>10. \E lo \in Nat : /\ old <= lo /\ lo <= l /\ Late(w, lo, m)
                       /\ \A p \in T : p < lo
                       /\ \A p \in Int : old <= p => (lo <= p <=> \A y \in T : y < p)
  <2>1. T \subseteq Position /\ \A p \in T : p + w <= l /\ w > 0 /\ old <= p
    BY <1>7
  <2> HIDE DEF T
  <2>2. CASE T = {}
    <3>1. Late(w, old, m)
      BY <1>2, <1>4, <1>5 DEF Late
    <3>2. QED BY <1>6, <2>2, <3>1
  <2>3. CASE T # {}
    <3>1. PICK p \in T : \A y \in T : y <= p
      <4>1. MaxPos \in Nat /\ T \subseteq 0 .. MaxPos
        BY <2>1, KvConstants
      <4>2. Max(T) \in T /\ \A y \in T : y <= Max(T)
        BY <2>3, <4>1, MaxUpTo
      <4>3. QED BY <4>2, Zenon
    <3>2. PICK z \in Nat : z = p + 1
      BY <2>1, KvConstants
    <3>3. p \in Nat /\ p + w <= l /\ w > 0 /\ old <= p
      BY <2>1, KvConstants
    <3>4. old <= z /\ z <= l /\ Late(w, z, m)
      BY <1>2, <1>4, <3>2, <3>3 DEF Late
    <3>5. \A y \in T : y \in Nat
      BY <2>1, KvConstants
    <3>6. \A y \in T : y < z
      BY <3>1, <3>2, <3>3, <3>5
    <3>7. ASSUME NEW r \in Int PROVE z <= r <=> \A y \in T : y < r
      BY <3>1, <3>2, <3>3, <3>5
    <3>8. QED BY <3>4, <3>6, <3>7
  <2>4. QED BY <2>2, <2>3
<1>11. PICK lo \in Nat : /\ old <= lo /\ lo <= l /\ Late(w, lo, m)
                         /\ \A p \in T : p < lo
                         /\ \A p \in Int : old <= p => (lo <= p <=> \A y \in T : y < p)
  BY <1>10
<1>12. Gets(c, idxs, ub, q, lo, d)
  <2>1. ASSUME NEW i \in Cell, q \in c.seq[i]
        PROVE  lo <= c.pos[i] <=> ~\E x \in lost : x[1] = q /\ c.pos[i] <= x[2]
    <3>1. c.pos[i] \in Int /\ old <= c.pos[i]
      <4>1. c.pos[i] \in Int
        BY <1>2, CellIs
      <4>2. QED BY <1>5, <2>1, <4>1 DEF Line
    <3>2. lo <= c.pos[i] <=> \A y \in T : y < c.pos[i]
      BY <1>11, <3>1
    <3>3. \A y \in T : y \in Int
      BY KvConstants
    <3>4. ASSUME NEW x \in lost, x[1] = q, c.pos[i] <= x[2] PROVE ~(lo <= c.pos[i])
      <4>1. x[2] \in T
        BY <1>8, <3>4
      <4>2. x[2] \in Int
        BY <3>3, <4>1
      <4> HIDE DEF T
      <4>3. QED BY <3>1, <3>2, <3>4, <4>1, <4>2
    <3>5. ASSUME ~(lo <= c.pos[i]) PROVE \E x \in lost : x[1] = q /\ c.pos[i] <= x[2]
      <4>1. PICK y \in T : ~(y < c.pos[i])
        BY <3>2, <3>5
      <4>2. PICK x : x = <<q, y>>
        OBVIOUS
      <4>3. x \in lost /\ x[1] = q /\ x[2] = y
        BY <1>9, <4>2
      <4>4. y \in Int
        BY <3>3
      <4> HIDE DEF T
      <4>5. QED BY <3>1, <4>1, <4>3, <4>4
    <3>6. QED BY <3>4, <3>5
  <2>2. ASSUME NEW x \in lost, x[1] = q PROVE x[2] < l
    <3>1. x[2] \in T /\ x[2] + w <= l /\ w > 0
      BY <1>8, <2>2
    <3>2. x[2] \in Int
      BY <3>1, KvConstants
    <3>3. QED BY <1>2, <1>4, <3>1, <3>2
  <2>3. \A j \in 1 .. n : ub[j].seq = q => l <= ub[j].pos
    BY <1>3 DEF Continue
  <2>4. QED BY <1>1, <1>4, <1>11, <2>1, <2>2, <2>3, ApplyGets
<1>13. ASSUME NEW i \in Range(idxs), q \in c.seq[i] PROVE c.pos[i] < lo
  <2>1. c.pos[i] \in T
    BY <1>7, <1>13
  <2>2. QED BY <1>11, <2>1
<1>14. Line(d, q, lo, m)
  BY <1>2, <1>3, <1>5, <1>11, <1>12, <1>13, GetsLine
<1>15. QED BY <1>1, <1>3, <1>11, <1>14

\* A ubatch that continues the lines leaves lines.
LEMMA ApplyLines ==
    ASSUME NEW k \in KvT, NEW n \in Nat \ {0}, NEW idxs \in Places(n), NEW ub \in [1 .. n -> TokenT],
           Len(ub) = n, NEW L, NEW M, Continue(n, ub, L, M), setup.window \in Nat,
           Lines(k.cells, setup.window, L), Range(idxs) \subseteq Usable(k.cells)
    PROVE  /\ Lines(ApplyUbatch(k, idxs, ub).cells, setup.window, M)
           /\ Single(k.cells) => Single(ApplyUbatch(k, idxs, ub).cells)
           /\ setup.window = 0 => Overwritten(k.cells, Range(idxs)) = {}
<1>1. Lines(ApplyUbatch(k, idxs, ub).cells, setup.window, M)
  BY ApplyLine DEF Lines
<1>2. ASSUME Single(k.cells) PROVE Single(ApplyUbatch(k, idxs, ub).cells)
  <2>1. PICK d, lost : d = ApplyUbatch(k, idxs, ub).cells /\ lost = Overwritten(k.cells, Range(idxs))
    OBVIOUS
  <2>2. \A i \in Cell : PutAt(k.cells, idxs, ub, lost, d, i)
    BY <2>1, ApplyAt
  <2>3. ASSUME NEW i \in Cell, NEW s \in d.seq[i], NEW q \in d.seq[i] PROVE s = q
    <3>1. PICK e, p : Put(k.cells, idxs, ub, i, e, p) /\ s \in e /\ q \in e
      BY <2>2 DEF PutAt
    <3>2. QED BY <1>2, <3>1 DEF Put, Single
  <2>4. QED BY <2>1, <2>3 DEF Single
<1>3. ASSUME setup.window = 0 PROVE Overwritten(k.cells, Range(idxs)) = {}
  <2>1. GoodCells(k.cells) /\ Range(idxs) \in SUBSET Cell /\ L \in LenT
    BY KvIs, PlacesAre DEF Continue
  <2>2. \A i \in Range(idxs) : k.cells.seq[i] = {}
    BY <1>3, <2>1, UsableIs
  <2>3. \A s \in Seqs : \A p : <<s, p>> \notin Overwritten(k.cells, Range(idxs))
    <3>1. \A s \in Seqs : \A p : <<s, p>> \in Overwritten(k.cells, Range(idxs))
                               <=> \E i \in Range(idxs) : k.cells.seq[i] = {s} /\ k.cells.pos[i] = p
      BY <2>1, OverwrittenIs
    <3>2. ASSUME NEW s \in Seqs, NEW p, <<s, p>> \in Overwritten(k.cells, Range(idxs)) PROVE FALSE
      <4>1. PICK i \in Range(idxs) : k.cells.seq[i] = {s}
        BY <3>1, <3>2
      <4>2. QED BY <2>2, <4>1
    <3>3. QED BY <3>2
  <2>4. Overwritten(k.cells, Range(idxs)) \subseteq Seqs \X (Position \cup {Unused})
    BY <2>1, OverwrittenIs
  <2>5. ASSUME NEW x \in Overwritten(k.cells, Range(idxs)) PROVE FALSE
    <3>1. x \in Seqs \X (Position \cup {Unused})
      BY <2>4
    <3>2. x[1] \in Seqs /\ x = <<x[1], x[2]>>
      BY <3>1
    <3>3. QED BY <2>3, <3>2
  <2>6. QED BY <2>5
<1>4. QED BY <1>1, <1>2, <1>3

-----------------------------------------------------------------------------
(* The size of the cache is enough *)

\* The size of the sliding-window cache is enough: the cells that are not usable are at most
\* the window of every sequence.
LEMMA SizeFits ==
    ASSUME NEW c, GoodCells(c), NEW L \in LenT, setup.window \in Nat \ {0}, Single(c),
           Lines(c, setup.window, L), NCells >= setup.window * NSeqs + NUbatch,
           NEW n \in 1 .. NUbatch
    PROVE  ~(Cardinality(Usable(c)) < n)
<1>1. PICK w \in Nat \ {0} : w = setup.window
  OBVIOUS
<1>2. PICK U : U = Usable(c)
  OBVIOUS
<1>3. U \in SUBSET Cell
  BY <1>2 DEF Usable
<1> DEFINE D == Cell \ U
           owner(i) == CHOOSE s \in Seqs : c.seq[i] = {s}
           f == [i \in D |-> <<owner(i), L[owner(i)] - c.pos[i]>>]
           T == Seqs \X (1 .. w)
<1> HIDE DEF owner
<1>4. ASSUME NEW i \in D
      PROVE  /\ owner(i) \in Seqs /\ c.seq[i] = {owner(i)} /\ c.pos[i] \in Int
             /\ L[owner(i)] \in Int /\ L[owner(i)] - c.pos[i] \in 1 .. w
  <2>1. i \in Cell /\ ~CanUse(c, i)
    BY <1>2 DEF Usable
  <2>2. c.pos[i] # Unused /\ c.seq[i] # {} /\ c.seq[i] \in SUBSET Seqs /\ c.pos[i] \in Int
    BY <2>1, CellIs DEF CanUse
  <2>3. PICK s \in Seqs : c.seq[i] = {s}
    BY <2>1, <2>2 DEF Single
  <2>4. owner(i) \in Seqs /\ c.seq[i] = {owner(i)}
    BY <2>3 DEF owner
  <2>5. owner(i) = s
    BY <2>3, <2>4
  <2>6. PICK lo \in Nat : Line(c, s, lo, L[s])
    BY DEF Lines
  <2>7. PICK m \in 0 .. MaxPos + 1 : m = L[s]
    BY DEF LenT
  <2>8. lo <= c.pos[i] /\ c.pos[i] < m
    BY <2>1, <2>3, <2>6, <2>7 DEF Line
  <2>9. SeqPosMax(c, s) = IF lo < m THEN m - 1 ELSE -1
    BY <2>6, <2>7, LineCounts
  <2>10. m \in Int
    BY <2>7, KvConstants
  <2>11. SeqPosMax(c, s) + 1 = m
    BY <2>2, <2>8, <2>9, <2>10
  <2>12. ~(m - c.pos[i] >= w)
    BY <1>1, <2>1, <2>3, <2>11 DEF CanUse, Masked
  <2>13. m - c.pos[i] \in 1 .. w
    BY <2>2, <2>8, <2>10, <2>12
  <2>14. QED BY <2>2, <2>3, <2>4, <2>5, <2>7, <2>10, <2>13
<1>5. f \in [D -> T]
  BY <1>4
<1>6. ASSUME NEW i \in D, NEW j \in D, f[i] = f[j] PROVE i = j
  <2>1. owner(i) = owner(j) /\ L[owner(i)] - c.pos[i] = L[owner(j)] - c.pos[j]
    <3>1. /\ f[i] = <<owner(i), L[owner(i)] - c.pos[i]>>
          /\ f[j] = <<owner(j), L[owner(j)] - c.pos[j]>>
      OBVIOUS
    <3>2. QED BY ONLY <1>6, <3>1
  <2>2. /\ owner(i) \in Seqs /\ c.seq[i] = {owner(i)} /\ c.pos[i] \in Int /\ L[owner(i)] \in Int
        /\ owner(j) \in Seqs /\ c.seq[j] = {owner(j)} /\ c.pos[j] \in Int /\ L[owner(j)] \in Int
    BY <1>4
  <2>3. c.pos[i] = c.pos[j]
    BY <2>1, <2>2
  <2>4. QED BY <2>1, <2>2, <2>3 DEF Lines, Line
<1>7. IsFiniteSet(T) /\ Cardinality(T) = NSeqs * w
  <2>1. IsFiniteSet(Seqs) /\ Cardinality(Seqs) = NSeqs
    <3>1. 0 \in Int /\ NSeqs - 1 \in Int /\ (0 > NSeqs - 1 <=> FALSE) /\ NSeqs - 1 - 0 + 1 = NSeqs
      BY KvConstants
    <3>2. QED BY <3>1, FS_Interval DEF Seqs
  <2>2. IsFiniteSet(1 .. w) /\ Cardinality(1 .. w) = w
    <3>1. 1 \in Int /\ w \in Int /\ ~(1 > w) /\ w - 1 + 1 = w
      OBVIOUS
    <3>2. QED BY <3>1, FS_Interval
  <2>3. QED BY <2>1, <2>2, FS_Product
<1>8. IsFiniteSet(D) /\ Cardinality(D) = NCells - Cardinality(U) /\ Cardinality(U) \in Nat
  <2>1. Cell \cap U = U
    BY <1>3
  <2>2. QED BY <1>3, <2>1, CellIsFinite, FS_Difference
<1>9. ~(Cardinality(T) < Cardinality(D))
  <2>1. SUFFICES ASSUME Cardinality(T) < Cardinality(D) PROVE FALSE
    OBVIOUS
  <2> HIDE DEF T, D, f
  <2>2. \E i, j \in D : i # j /\ f[i] = f[j]
    BY <1>5, <1>7, <1>8, <2>1, FS_PigeonHole
  <2>3. QED BY <1>6, <2>2
<1>10. PICK x \in Nat, u \in Nat, z \in Nat : x = NSeqs * w /\ u = Cardinality(U) /\ z = w * NSeqs
  <2>1. NSeqs * w \in Nat /\ w * NSeqs \in Nat
    BY KvConstants
  <2>2. QED BY <1>8, <2>1
<1>11. x = z
  BY <1>10, KvConstants
<1>12. ~(x < NCells - u) /\ NCells >= z + NUbatch
  BY <1>1, <1>7, <1>8, <1>9, <1>10
<1>13. QED BY <1>2, <1>10, <1>11, <1>12, KvConstants

-----------------------------------------------------------------------------
(* the lengths of the sequences during a decode *)

\* what the sequences have after g tokens of the batch
After(s, t, a, g) ==
    [q \in Seqs |-> len[q] + (IF q = s THEN (IF g <= a THEN g ELSE a)
                              ELSE IF q = t /\ g > a THEN g - a ELSE 0)]

LEMMA AfterIs ==
    ASSUME len \in LenT, NEW s, NEW t, NEW a, NEW b, DecodeArgs(s, t, a, b)
    PROVE  /\ \A g \in 0 .. a + b : After(s, t, a, g) \in LenT
           /\ After(s, t, a, 0) = len
           /\ After(s, t, a, a + b)[s] = len[s] + a /\ After(s, t, a, a + b)[t] = len[t] + b
           /\ \A q \in Seqs \ {s, t} : After(s, t, a, a + b)[q] = len[q]
<1>1. /\ s \in Seqs /\ t \in Seqs /\ t # s /\ a \in Nat \ {0} /\ b \in Nat
      /\ len[s] + a <= MaxPos + 1 /\ len[t] + b <= MaxPos + 1
  BY DEF DecodeArgs
<1>2. \A q \in Seqs : len[q] \in Nat /\ len[q] <= MaxPos + 1
  BY KvConstants DEF LenT
<1>3. ASSUME NEW g \in 0 .. a + b PROVE After(s, t, a, g) \in LenT
  <2>1. ASSUME NEW q \in Seqs
        PROVE  len[q] + (IF q = s THEN (IF g <= a THEN g ELSE a)
                         ELSE IF q = t /\ g > a THEN g - a ELSE 0) \in 0 .. MaxPos + 1
    <3>1. PICK l \in Nat : l = len[q] /\ l <= MaxPos + 1
      BY <1>2
    <3>2. CASE q = s
      BY <1>1, <3>1, <3>2, KvConstants
    <3>3. CASE q # s /\ q = t
      BY <1>1, <3>1, <3>3, KvConstants
    <3>4. CASE q # s /\ q # t
      BY <1>1, <3>1, <3>4, KvConstants
    <3>5. QED BY <3>2, <3>3, <3>4
  <2>2. QED BY <2>1 DEF After, LenT
<1>4. After(s, t, a, 0) = len
  <2>1. \A q \in Seqs : len[q] + (IF q = s THEN (IF 0 <= a THEN 0 ELSE a)
                                  ELSE IF q = t /\ 0 > a THEN 0 - a ELSE 0) = len[q]
    BY <1>1, <1>2
  <2>2. QED BY <2>1 DEF After, LenT
<1>5. ASSUME NEW q \in Seqs
      PROVE  After(s, t, a, a + b)[q] = len[q] + (IF q = s THEN a ELSE IF q = t THEN b ELSE 0)
  <2>1. PICK l \in Nat : l = len[q]
    BY <1>2
  <2>2. After(s, t, a, a + b)[q] = l + (IF q = s THEN (IF a + b <= a THEN a + b ELSE a)
                                        ELSE IF q = t /\ a + b > a THEN a + b - a ELSE 0)
    BY <1>1, <2>1 DEF After
  <2>3. QED BY <1>1, <2>1, <2>2
<1>6. /\ After(s, t, a, a + b)[s] = len[s] + a /\ After(s, t, a, a + b)[t] = len[t] + b
      /\ \A q \in Seqs \ {s, t} : After(s, t, a, a + b)[q] = len[q]
  BY <1>1, <1>2, <1>5
<1>7. QED BY <1>3, <1>4, <1>6

\* The tokens of the batch from the f-th on continue the sequences.
LEMMA BatchContinues ==
    ASSUME len \in LenT, NEW s, NEW t, NEW a, NEW b, DecodeArgs(s, t, a, b),
           NEW f \in 0 .. a + b, NEW g \in 0 .. a + b, f < g, NEW n, n = g - f, NEW ub,
           \A j \in 1 .. n : ub[j] = Batch(s, t, a, b)[f + j]
    PROVE  Continue(n, ub, After(s, t, a, f), After(s, t, a, g))
<1>1. /\ s \in Seqs /\ t \in Seqs /\ t # s /\ a \in Nat \ {0} /\ b \in Nat
      /\ len[s] + a <= MaxPos + 1 /\ len[t] + b <= MaxPos + 1
  BY DEF DecodeArgs
<1>2. \A q \in Seqs : len[q] \in Nat /\ len[q] <= MaxPos + 1
  BY KvConstants DEF LenT
<1>3. f \in Nat /\ g \in Nat /\ n \in Nat /\ f < g /\ g <= a + b /\ n = g - f
  BY <1>1
<1>4. PICK L, M : L = After(s, t, a, f) /\ M = After(s, t, a, g)
  OBVIOUS
<1>5. L \in LenT /\ M \in LenT
  BY <1>4, AfterIs
<1>6. PICK x \in Nat, y \in Nat : x = len[s] /\ y = len[t]
  BY <1>1, <1>2
<1>7. /\ L[s] = x + (IF f <= a THEN f ELSE a) /\ M[s] = x + (IF g <= a THEN g ELSE a)
      /\ L[t] = y + (IF f > a THEN f - a ELSE 0) /\ M[t] = y + (IF g > a THEN g - a ELSE 0)
      /\ \A q \in Seqs : q # s /\ q # t => L[q] = len[q] /\ M[q] = len[q]
  BY <1>1, <1>2, <1>4, <1>6 DEF After
<1>8. ASSUME NEW j \in 1 .. n
      PROVE  /\ f + j <= a => ub[j].seq = s /\ ub[j].pos = x - 1 + (f + j)
             /\ ~(f + j <= a) => ub[j].seq = t /\ ub[j].pos = y - 1 + (f + j - a)
  <2>1. PICK h \in 1 .. a + b : h = f + j
    <3>1. f + j \in 1 .. a + b
      BY <1>1, <1>3
    <3>2. QED BY <3>1
  <2>2. ub[j] = IF h <= a THEN [seq |-> s, pos |-> len[s] - 1 + h]
                ELSE [seq |-> t, pos |-> len[t] - 1 + (h - a)]
    <3>1. Batch(s, t, a, b)[h] = IF h <= a THEN [seq |-> s, pos |-> len[s] - 1 + h]
                                 ELSE [seq |-> t, pos |-> len[t] - 1 + (h - a)]
      BY BatchIs DEF LenT
    <3>2. QED BY <2>1, <3>1
  <2>3. CASE h <= a
    BY <1>6, <2>1, <2>2, <2>3
  <2>4. CASE ~(h <= a)
    <3>1. ub[j] = [seq |-> t, pos |-> y - 1 + (h - a)]
      BY <1>6, <2>2, <2>4
    <3>2. ub[j].seq = t /\ ub[j].pos = y - 1 + (h - a)
      BY <3>1
    <3>3. QED BY <1>1, <1>3, <2>1, <2>4, <3>2
  <2>5. QED BY <2>1, <2>3, <2>4
<1>9. \A q \in Seqs : L[q] <= M[q]
  <2>1. L[s] <= M[s] /\ L[t] <= M[t]
    BY <1>1, <1>3, <1>7
  <2>2. QED BY <1>2, <1>7, <2>1
<1>10. ASSUME NEW j \in 1 .. n PROVE L[ub[j].seq] <= ub[j].pos /\ ub[j].pos < M[ub[j].seq]
  <2>1. CASE f + j <= a
    <3>1. ub[j].seq = s /\ ub[j].pos = x - 1 + (f + j)
      BY <1>8, <2>1
    <3>2. L[s] <= x - 1 + (f + j) /\ x - 1 + (f + j) < M[s]
      BY <1>1, <1>3, <1>7, <2>1
    <3>3. QED BY <3>1, <3>2
  <2>2. CASE ~(f + j <= a)
    <3>1. ub[j].seq = t /\ ub[j].pos = y - 1 + (f + j - a)
      BY <1>8, <2>2
    <3>2. L[t] <= y - 1 + (f + j - a) /\ y - 1 + (f + j - a) < M[t]
      BY <1>1, <1>3, <1>7, <2>2
    <3>3. QED BY <3>1, <3>2
  <2>3. QED BY <2>1, <2>2
<1>11. ASSUME NEW q \in Seqs, NEW p \in L[q] .. M[q] - 1
       PROVE  \E j \in 1 .. n : ub[j].seq = q /\ ub[j].pos = p
  <2>1. CASE q = s
    <3>1. PICK j \in Int : j = p + 1 - x - f
      BY <1>3, <1>6, <1>7
    <3>2. j \in 1 .. n /\ f + j <= a /\ p = x - 1 + (f + j)
      BY <1>1, <1>3, <1>7, <2>1, <3>1
    <3>3. QED BY <1>8, <2>1, <3>2
  <2>2. CASE q = t
    <3>1. PICK j \in Int : j = p + 1 - y - f + a
      BY <1>1, <1>3, <1>6, <1>7
    <3>2. j \in 1 .. n /\ ~(f + j <= a) /\ p = y - 1 + (f + j - a)
      BY <1>1, <1>3, <1>7, <2>2, <3>1
    <3>3. QED BY <1>8, <2>2, <3>2
  <2>3. CASE q # s /\ q # t
    BY <1>2, <1>7, <2>3
  <2>4. QED BY <2>1, <2>2, <2>3
<1>12. ASSUME NEW j \in 1 .. n, NEW h \in 1 .. n, ub[j].seq = ub[h].seq, ub[j].pos = ub[h].pos
       PROVE  j = h
  <2>1. j \in Nat /\ h \in Nat
    BY <1>3
  <2>2. (f + j <= a) <=> (f + h <= a)
    BY <1>1, <1>8, <1>12
  <2>3. CASE f + j <= a
    <3>1. x - 1 + (f + j) = x - 1 + (f + h)
      BY <1>8, <1>12, <2>2, <2>3
    <3>2. QED BY <1>3, <2>1, <3>1
  <2>4. CASE ~(f + j <= a)
    <3>1. y - 1 + (f + j - a) = y - 1 + (f + h - a)
      BY <1>8, <1>12, <2>2, <2>4
    <3>2. QED BY <1>1, <1>3, <2>1, <3>1
  <2>5. QED BY <2>3, <2>4
<1>13. QED BY <1>4, <1>5, <1>9, <1>10, <1>11, <1>12 DEF Continue

-----------------------------------------------------------------------------
(* A decode keeps the lines *)

\* the caches of a batch of which the first n ubatches were placed
LEMMA SimulatedLines ==
    ASSUME len \in LenT, NEW s, NEW t, NEW a, NEW b, DecodeArgs(s, t, a, b), setup.window \in Nat,
           NEW k \in KvT, Lines(k.cells, setup.window, len),
           NEW ubs, UbatchesOk(ubs), NEW cut, Cuts(Batch(s, t, a, b), a + b, ubs, cut),
           NEW n, NEW ks, NEW is, Simulated(k, ubs, n, ks, is)
    PROVE  /\ \A u \in 0 .. n : /\ Lines(ks[u].cells, setup.window, After(s, t, a, cut[u]))
                                /\ Single(k.cells) => Single(ks[u].cells)
           /\ \A u \in 1 .. n : setup.window = 0 => LostBy(ks, is, u) = {}
<1>1. n \in Nat /\ n <= Len(ubs) /\ Len(ubs) \in Nat /\ ks[0] = k
  BY DEF Simulated, UbatchesOk
<1>2. ASSUME NEW u \in 1 .. n, Lines(ks[u - 1].cells, setup.window, After(s, t, a, cut[u - 1]))
      PROVE  /\ Lines(ks[u].cells, setup.window, After(s, t, a, cut[u]))
             /\ Single(ks[u - 1].cells) => Single(ks[u].cells)
             /\ setup.window = 0 => LostBy(ks, is, u) = {}
  <2>1. /\ u \in 1 .. Len(ubs) /\ Len(ubs[u]) \in Nat \ {0} /\ ubs[u] \in [1 .. Len(ubs[u]) -> TokenT]
        /\ is[u] \in Places(Len(ubs[u])) /\ ks[u - 1] \in KvT
    BY SimulatedAt
  <2>2. Range(is[u]) \subseteq Usable(ks[u - 1].cells) /\ ks[u] = ApplyUbatch(ks[u - 1], is[u], ubs[u])
    BY DEF Simulated
  <2>3. PICK f, g, m : f = cut[u - 1] /\ g = cut[u] /\ m = Len(ubs[u])
    OBVIOUS
  <2>4. u - 1 \in 0 .. Len(ubs) /\ u \in 0 .. Len(ubs)
    BY <1>1, <2>1
  <2>5. /\ f \in 0 .. a + b /\ g \in 0 .. a + b /\ f < g /\ m = g - f
        /\ \A j \in 1 .. m : ubs[u][j] = Batch(s, t, a, b)[f + j]
    BY <2>1, <2>3, <2>4 DEF Cuts
  <2>6. Continue(m, ubs[u], After(s, t, a, f), After(s, t, a, g))
    BY <2>5, BatchContinues
  <2>7. PICK ub : ub = ubs[u]
    OBVIOUS
  <2>8. /\ Lines(ApplyUbatch(ks[u - 1], is[u], ub).cells, setup.window, After(s, t, a, g))
        /\ Single(ks[u - 1].cells) => Single(ApplyUbatch(ks[u - 1], is[u], ub).cells)
        /\ setup.window = 0 => Overwritten(ks[u - 1].cells, Range(is[u])) = {}
    BY <1>2, <2>1, <2>2, <2>3, <2>6, <2>7, ApplyLines
  <2>9. QED BY <2>2, <2>3, <2>7, <2>8 DEF LostBy
<1> DEFINE B == {u \in 0 .. n : /\ Lines(ks[u].cells, setup.window, After(s, t, a, cut[u]))
                                /\ Single(k.cells) => Single(ks[u].cells)}
<1>3. \A u \in 0 .. n : u \in B
  <2>1. 0 \in B
    <3>1. After(s, t, a, cut[0]) = len
      BY AfterIs DEF Cuts
    <3>2. 0 \in 0 .. n
      BY <1>1
    <3>3. QED BY <1>1, <3>1, <3>2
  <2>2. ASSUME NEW u \in 1 .. n, u - 1 \in B PROVE u \in B
    <3>1. u \in 0 .. n
      BY <1>1
    <3>2. /\ Lines(ks[u].cells, setup.window, After(s, t, a, cut[u]))
          /\ Single(ks[u - 1].cells) => Single(ks[u].cells)
      BY <1>2, <2>2
    <3>3. QED BY <2>2, <3>1, <3>2
  <2> HIDE DEF B
  <2>3. QED BY <1>1, <2>1, <2>2, CountUp
<1>4. ASSUME NEW u \in 1 .. n, setup.window = 0 PROVE LostBy(ks, is, u) = {}
  <2>1. u - 1 \in B
    BY <1>1, <1>3
  <2>2. QED BY <1>2, <1>4, <2>1
<1>5. QED BY <1>3, <1>4

\* The loop that places the ubatches where they were found, in the cache they were found in.
LEMMA AppliedIsSimulated ==
    ASSUME NEW k \in KvT, NEW ubs, UbatchesOk(ubs), NEW n, NEW ks, NEW is,
           Simulated(k, ubs, n, ks, is), NEW m \in 0 .. n, NEW X, Applied(k, is, ubs, m, X)
    PROVE  X[m] = ks[m]
<1>1. n \in Nat /\ m \in Nat /\ m <= n
  BY DEF Simulated, UbatchesOk
<1> DEFINE B == {u \in 0 .. m : X[u] = ks[u]}
<1>2. 0 \in B
  BY <1>1 DEF Applied, Simulated
<1>3. ASSUME NEW u \in 1 .. m, u - 1 \in B PROVE u \in B
  <2>1. u \in 1 .. n /\ u \in 0 .. m
    BY <1>1
  <2>2. X[u] = ApplyUbatch(X[u - 1], is[u], ubs[u]) /\ ks[u] = ApplyUbatch(ks[u - 1], is[u], ubs[u])
    BY <2>1 DEF Applied, Simulated
  <2>3. X[u - 1] = ks[u - 1]
    BY <1>3
  <2>4. QED BY <2>1, <2>2, <2>3
<1>4. m \in 0 .. m
  BY <1>1
<1> HIDE DEF B
<1>5. \A u \in 0 .. m : u \in B
  BY <1>1, <1>2, <1>3, CountUp
<1>6. QED BY <1>4, <1>5 DEF B

LEMMA SoundIs ==
    ASSUME KvInv, SoundSetups
    PROVE  /\ setup.window \in Nat
           /\ ~(setup.copies /\ setup.shifts)
           /\ setup.window > 0 => /\ ~setup.copies /\ ~setup.shifts /\ ~setup.drafts /\ ~setup.repeats
                                  /\ ~setup.fails /\ NCells >= setup.window * NSeqs + NUbatch
  BY SetupIs DEF KvInv, SoundSetups

\* In a sound set-up every ubatch finds its place.
LEMMA NoneIsLeft ==
    ASSUME NEW k \in KvT, NEW L \in LenT, setup.window \in Nat \ {0}, Single(k.cells),
           Lines(k.cells, setup.window, L), NCells >= setup.window * NSeqs + NUbatch,
           NEW n \in 1 .. NUbatch
    PROVE  FindSlot(k, n) # <<>>
<1>1. GoodCells(k.cells)
  BY KvIs
<1>2. ~(Cardinality(Usable(k.cells)) < n)
  BY <1>1, SizeFits
<1>3. n \in Nat \ {0}
  BY KvConstants
<1>4. QED BY <1>2, <1>3, FindSlotIs

\* ks: the caches after the ubatches of a prepared batch
Placing(s, t, a, b, ubs, cut, ks) ==
    /\ UbatchesOk(ubs) /\ Len(ubs) > 0 /\ Cuts(Batch(s, t, a, b), a + b, ubs, cut)
    /\ \A u \in 1 .. Len(ubs) : /\ ks[u] \in KvT
                                /\ Lines(ks[u].cells, setup.window, After(s, t, a, cut[u]))
                                /\ setup.copies \/ Single(ks[u].cells)
    /\ \A m \in 1 .. Len(ubs) : setup.window = 0 \/ m = Len(ubs) =>
           Compute(Prepare(kv, ubs).kv, Prepare(kv, ubs).idxs, ubs, m) = ks[m]

LEMMA PreparedIs ==
    ASSUME KvSoundInv, SoundSetups, NEW s, NEW t, NEW a, NEW b, DecodeArgs(s, t, a, b),
           NEW ubs, ubs = Split(Batch(s, t, a, b))
    PROVE  /\ ~Prepare(kv, ubs).ok => Prepare(kv, ubs).kv = kv
           /\ Prepare(kv, ubs).ok => \E cut, ks : Placing(s, t, a, b, ubs, cut, ks)
<1>1. /\ kv \in KvT /\ len \in LenT /\ KvInv /\ len \in [Seqs -> 0 .. MaxPos + 1]
      /\ Lines(kv.cells, setup.window, len) /\ (setup.copies \/ Single(kv.cells))
  BY DEF KvSoundInv, KvInv, LenT
<1>2. setup.window \in Nat
  BY <1>1, SoundIs
<1>3. UbatchesOk(ubs) /\ Len(ubs) > 0 /\ \E cut : Cuts(Batch(s, t, a, b), a + b, ubs, cut)
  <2>1. Batch(s, t, a, b) \in Seq(TokenT) /\ Len(Batch(s, t, a, b)) = a + b /\ a + b \in Nat \ {0}
    BY <1>1, BatchIs
  <2>2. QED BY <2>1, SplitIs
<1>4. PICK cut : Cuts(Batch(s, t, a, b), a + b, ubs, cut)
  BY <1>3
<1>5. PICK n, ks, is :
          /\ Simulated(kv, ubs, n, ks, is)
          /\ Prepare(kv, ubs).ok <=> n = Len(ubs)
          /\ n < Len(ubs) => FindSlot(ks[n], Len(ubs[n + 1])) = <<>>
          /\ Prepare(kv, ubs).idxs = is
          /\ Prepare(kv, ubs).kv \in KvT
          /\ UndoneTo(ks, is, n, 0, Prepare(kv, ubs).kv)
  BY <1>1, <1>3, PrepareIs
<1>6. n \in Nat /\ n <= Len(ubs) /\ Len(ubs) \in Nat
  BY <1>3, <1>5 DEF Simulated, UbatchesOk
<1>7. /\ \A u \in 0 .. n : /\ Lines(ks[u].cells, setup.window, After(s, t, a, cut[u]))
                           /\ Single(kv.cells) => Single(ks[u].cells)
      /\ \A u \in 1 .. n : setup.window = 0 => LostBy(ks, is, u) = {}
  BY <1>1, <1>2, <1>3, <1>4, <1>5, SimulatedLines
<1>8. setup.window = 0 => Prepare(kv, ubs).kv = kv
  <2>1. SUFFICES ASSUME setup.window = 0 PROVE Prepare(kv, ubs).kv = kv
    OBVIOUS
  <2>2. \A u \in 1 .. n : LostBy(ks, is, u) = {}
    BY <1>7, <2>1
  <2>3. QED BY <1>1, <1>3, <1>5, <2>2, UndoneWhole
<1>9. ASSUME ~Prepare(kv, ubs).ok PROVE Prepare(kv, ubs).kv = kv
  <2>1. CASE setup.window = 0
    BY <1>8, <2>1
  <2>2. CASE setup.window # 0
    <3>1. n < Len(ubs) /\ n + 1 \in 1 .. Len(ubs) /\ n \in 0 .. n /\ n \in 0 .. Len(ubs)
      BY <1>5, <1>6, <1>9
    <3>2. /\ setup.window \in Nat \ {0} /\ NCells >= setup.window * NSeqs + NUbatch
          /\ ~setup.copies
      BY <1>1, <1>2, <2>2, SoundIs
    <3>3. /\ ks[n] \in KvT /\ Single(ks[n].cells)
          /\ Lines(ks[n].cells, setup.window, After(s, t, a, cut[n]))
      BY <1>1, <1>5, <1>7, <3>1, <3>2 DEF Simulated
    <3>4. After(s, t, a, cut[n]) \in LenT
      BY <1>1, <1>4, <3>1, AfterIs DEF Cuts
    <3>5. Len(ubs[n + 1]) \in 1 .. NUbatch
      <4>1. PICK v \in 1 .. Len(ubs) : v = n + 1
        BY <3>1
      <4>2. Len(ubs[v]) = cut[v] - cut[v - 1] /\ cut[v] - cut[v - 1] <= NUbatch
        BY <1>4 DEF Cuts
      <4>3. Len(ubs[v]) \in Nat \ {0}
        BY <1>3 DEF UbatchesOk
      <4>4. Len(ubs[v]) <= NUbatch
        BY <4>2
      <4>5. QED BY <4>1, <4>3, <4>4, KvConstants
    <3>6. FindSlot(ks[n], Len(ubs[n + 1])) # <<>>
      BY <3>2, <3>3, <3>4, <3>5, NoneIsLeft
    <3>7. QED BY <1>5, <3>1, <3>6
  <2>3. QED BY <2>1, <2>2
<1>10. ASSUME Prepare(kv, ubs).ok PROVE Placing(s, t, a, b, ubs, cut, ks)
  <2>1. n = Len(ubs) /\ n > 0
    BY <1>3, <1>5, <1>10
  <2>2. ASSUME NEW u \in 1 .. Len(ubs)
        PROVE  /\ ks[u] \in KvT
               /\ Lines(ks[u].cells, setup.window, After(s, t, a, cut[u]))
               /\ setup.copies \/ Single(ks[u].cells)
    <3>1. u \in 0 .. n
      BY <1>6, <2>1
    <3>2. QED BY <1>1, <1>5, <1>7, <3>1 DEF Simulated
  <2>3. ASSUME NEW m \in 1 .. Len(ubs), setup.window = 0 \/ m = Len(ubs)
        PROVE  Compute(Prepare(kv, ubs).kv, Prepare(kv, ubs).idxs, ubs, m) = ks[m]
    <3>1. m \in Nat /\ m <= Len(ubs) /\ m \in 0 .. n /\ \A u \in 1 .. m : u \in 1 .. n
      BY <1>6, <2>1
    <3>2. \A u \in 1 .. m : is[u] \in Places(Len(ubs[u]))
      BY <1>5, <3>1 DEF Simulated
    <3>3. PICK r \in KvT : r = Prepare(kv, ubs).kv
      BY <1>5
    <3>4. PICK X : Applied(r, is, ubs, m, X) /\ Compute(r, is, ubs, m) = X[m]
      BY <1>3, <3>1, <3>2, ComputeIs
    <3>5. X[m] = ks[m]
      <4>1. CASE setup.window = 0
        <5>1. Applied(kv, is, ubs, m, X)
          BY <1>8, <3>3, <3>4, <4>1
        <5>2. QED BY <1>1, <1>3, <1>5, <3>1, <5>1, AppliedIsSimulated
      <4>2. CASE m = Len(ubs)
        <5>1. Applied(r, is, ubs, n, X) /\ UndoneTo(ks, is, n, 0, r)
          BY <1>5, <2>1, <3>3, <3>4, <4>2
        <5>2. X[n] = ks[n]
          BY <1>1, <1>3, <1>5, <2>1, <5>1, PlacedAgain
        <5>3. QED BY <2>1, <4>2, <5>2
      <4>3. QED BY <2>3, <4>1, <4>2
    <3>6. QED BY <1>5, <3>3, <3>4, <3>5
  <2>4. QED BY <1>3, <1>4, <2>2, <2>3 DEF Placing
<1>11. QED BY <1>9, <1>10

\* What a step leaves as it was.
LeavesOthers ==
    /\ \A q \in Seqs \ by' : len'[q] = len[q]
    /\ setup' = setup
    /\ failed' => kv' = kv

\* What d holds of q and c holds of r.
LEMMA LineSame ==
    ASSUME NEW c, NEW d, NEW q, NEW r, NEW lo, NEW n, Line(c, r, lo, n),
           \A i \in Cell : /\ q \in d.seq[i] <=> r \in c.seq[i]
                           /\ q \in d.seq[i] => d.pos[i] = c.pos[i]
    PROVE  Line(d, q, lo, n)
<1>1. \A p \in lo .. n - 1 : \E i \in Cell : q \in d.seq[i] /\ d.pos[i] = p
  <2>1. ASSUME NEW p \in lo .. n - 1 PROVE \E i \in Cell : q \in d.seq[i] /\ d.pos[i] = p
    <3>1. PICK i \in Cell : r \in c.seq[i] /\ c.pos[i] = p
      BY DEF Line
    <3>2. QED BY <3>1
  <2>2. QED BY <2>1
<1>2. QED BY <1>1 DEF Line

LEMMA NoLine ==
    ASSUME NEW d, NEW q, \A i \in Cell : q \notin d.seq[i]
    PROVE  Line(d, q, 0, 0)
<1>1. 0 .. 0 - 1 = {}
  OBVIOUS
<1>2. QED BY <1>1 DEF Line

\* what is left of c without the sequences P
Without(c, P, d) ==
    \A i \in Cell : d.seq[i] = c.seq[i] \ P /\ (d.seq[i] # {} => d.pos[i] = c.pos[i])

\* A decode that fails after some ubatches drops whole sequences.
LEMMA DropsWhole ==
    ASSUME NEW c, GoodCells(c), NEW n \in Nat, NEW ub \in [1 .. n -> TokenT],
           NEW h \in 0 .. NCells, NEW P \in SUBSET Seqs, \A j \in 1 .. n : ub[j].seq \in P,
           NEW d, d = RemoveSeqs(DropUbatch([cells |-> c, head |-> h], ub), Cell \X P).cells
    PROVE  Without(c, P, d)
<1> DEFINE gone == UNION {{<<i, ub[j].seq>> : i \in InRange(c, ub[j].seq, ub[j].pos, Infinity)} :
                          j \in DOMAIN ub}
<1>1. PICK k : k = [cells |-> c, head |-> h]
  OBVIOUS
<1>2. k \in KvT /\ k.cells = c
  BY <1>1, KvIs
<1>3. PICK e : e = RemoveSeqs(k, gone)
  OBVIOUS
<1>4. DropUbatch(k, ub) = e
  BY <1>2, <1>3 DEF DropUbatch
<1>5. \A x \in gone : x[2] \in P
  <2>1. ASSUME NEW j \in DOMAIN ub,
               NEW x \in {<<i, ub[j].seq>> : i \in InRange(c, ub[j].seq, ub[j].pos, Infinity)}
        PROVE  x[2] \in P
    BY <2>1
  <2>2. QED BY <2>1
<1> HIDE DEF gone
<1>6. e \in KvT /\ LeftBy(c, gone, e.cells)
  BY <1>2, <1>3, RemoveSeqsIs
<1>7. LeftBy(e.cells, Cell \X P, d)
  BY <1>1, <1>4, <1>6, RemoveSeqsIs
<1>8. ASSUME NEW i \in Cell PROVE d.seq[i] = c.seq[i] \ P /\ (d.seq[i] # {} => d.pos[i] = c.pos[i])
  <2>1. /\ e.cells.seq[i] = {s \in c.seq[i] : <<i, s>> \notin gone}
        /\ e.cells.pos[i] = IF e.cells.seq[i] = {} THEN Unused ELSE c.pos[i]
        /\ d.seq[i] = {s \in e.cells.seq[i] : <<i, s>> \notin Cell \X P}
        /\ d.pos[i] = IF d.seq[i] = {} THEN Unused ELSE e.cells.pos[i]
    BY <1>6, <1>7 DEF LeftBy
  <2>2. \A s : <<i, s>> \in gone => s \in P
    <3>1. ASSUME NEW s, <<i, s>> \in gone PROVE s \in P
      <4>1. PICK x : x = <<i, s>>
        OBVIOUS
      <4>2. x \in gone /\ x[2] = s
        BY <3>1, <4>1
      <4>3. QED BY <1>5, <4>2
    <3>2. QED BY <3>1
  <2>3. d.seq[i] = c.seq[i] \ P
    BY <2>1, <2>2
  <2>4. d.seq[i] # {} => e.cells.seq[i] # {}
    BY <2>1
  <2>5. QED BY <2>1, <2>3, <2>4
<1>9. QED BY <1>8 DEF Without

LEMMA DecodeFailsSound ==
    ASSUME KvSoundInv, SoundSetups, NEW s, NEW t, NEW a, NEW b, DecodeArgs(s, t, a, b),
           NEW ubs, NEW cut, NEW ks, Placing(s, t, a, b, ubs, cut, ks), setup.window = 0,
           NEW u \in 1 .. Len(ubs), NEW P \in SUBSET Seqs, s \in P, b > 0 => t \in P,
           kv' = RemoveSeqs(DropUbatch(ks[u], ubs[u]), Cell \X P),
           len' = [q \in Seqs |-> IF q \in P THEN 0 ELSE len[q]], setup' = setup
    PROVE  /\ Lines(kv'.cells, setup'.window, len')
           /\ setup'.copies \/ Single(kv'.cells)
<1>1. PICK c, h, ub, n, d : /\ c = ks[u].cells /\ h = ks[u].head /\ ub = ubs[u]
                            /\ n = Len(ubs[u]) /\ d = kv'.cells
  OBVIOUS
<1>2. ks[u] \in KvT /\ Lines(c, 0, After(s, t, a, cut[u])) /\ (setup.copies \/ Single(c))
  BY <1>1 DEF Placing
<1>3. GoodCells(c) /\ h \in 0 .. NCells /\ ks[u] = [cells |-> c, head |-> h]
  BY <1>1, <1>2, KvIs
<1>4. n \in Nat /\ ub \in [1 .. n -> TokenT]
  BY <1>1 DEF Placing, UbatchesOk
<1>5. /\ u - 1 \in 0 .. Len(ubs) /\ u \in 0 .. Len(ubs)
      /\ Cuts(Batch(s, t, a, b), a + b, ubs, cut)
  BY DEF Placing, UbatchesOk
<1>6. PICK f \in 0 .. a + b, g \in 0 .. a + b :
          /\ f = cut[u - 1] /\ g = cut[u] /\ n = g - f /\ f < g
          /\ \A j \in 1 .. n : ub[j] = Batch(s, t, a, b)[f + j]
  BY <1>1, <1>5 DEF Cuts
<1>7. /\ s \in Seqs /\ t \in Seqs /\ t # s /\ a \in Nat \ {0} /\ b \in Nat
  BY DEF DecodeArgs
<1>8. \A j \in 1 .. n : ub[j].seq \in P
  <2>1. ASSUME NEW j \in 1 .. n PROVE ub[j].seq \in P
    <3>1. PICK e \in 1 .. a + b : e = f + j
      <4>1. f + j \in 1 .. a + b
        BY <1>4, <1>6, <1>7, SMTT(30)
      <4>2. QED BY <4>1
    <3>2. Batch(s, t, a, b)[e] = IF e <= a THEN [seq |-> s, pos |-> len[s] - 1 + e]
                                 ELSE [seq |-> t, pos |-> len[t] - 1 + (e - a)]
      BY BatchIs DEF KvSoundInv, KvInv
    <3>3. ub[j].seq = IF e <= a THEN s ELSE t
      BY <1>6, <3>1, <3>2
    <3>4. ~(e <= a) => b > 0
      BY <1>7
    <3>5. QED BY <3>3, <3>4
  <2>2. QED BY <2>1
<1>9. \A i \in Cell : d.seq[i] = c.seq[i] \ P /\ (d.seq[i] # {} => d.pos[i] = c.pos[i])
  <2>1. d = RemoveSeqs(DropUbatch([cells |-> c, head |-> h], ub), Cell \X P).cells
    <3>1. RemoveSeqs(DropUbatch(ks[u], ubs[u]), Cell \X P)
            = RemoveSeqs(DropUbatch([cells |-> c, head |-> h], ub), Cell \X P)
      BY <1>1, <1>3
    <3>2. QED BY <1>1, <3>1
  <2>2. Without(c, P, d)
    BY <1>3, <1>4, <1>8, <2>1, DropsWhole
  <2>3. QED BY <2>2 DEF Without
<1>10. ASSUME NEW q \in Seqs PROVE \E lo \in Nat : Line(d, q, lo, len'[q]) /\ Late(0, lo, len'[q])
  <2>1. CASE q \in P
    <3>1. \A i \in Cell : q \notin d.seq[i]
      BY <1>9, <2>1
    <3>2. Line(d, q, 0, 0) /\ len'[q] = 0
      BY <2>1, <3>1, NoLine
    <3>3. QED BY <3>2 DEF Late
  <2>2. CASE q \notin P
    <3>1. PICK lo \in Nat : /\ Line(c, q, lo, After(s, t, a, cut[u])[q])
                            /\ Late(0, lo, After(s, t, a, cut[u])[q])
      BY <1>2 DEF Lines
    <3>2. After(s, t, a, cut[u])[q] = len[q]
      <4>1. q # s /\ (q = t => b = 0)
        BY <1>7, <2>2
      <4>2. q = t => ~(g > a)
        BY <1>7, <4>1
      <4>3. len[q] \in Nat
        BY KvConstants DEF KvSoundInv, KvInv
      <4>4. After(s, t, a, g)[q] = len[q] + 0
        BY <4>1, <4>2 DEF After
      <4>5. QED BY <1>6, <4>3, <4>4
    <3>3. \A i \in Cell : /\ q \in d.seq[i] <=> q \in c.seq[i]
                          /\ q \in d.seq[i] => d.pos[i] = c.pos[i]
      BY <1>9, <2>2
    <3>4. Line(d, q, lo, len[q]) /\ Late(0, lo, len[q])
      BY <3>1, <3>2, <3>3, LineSame
    <3>5. QED BY <2>2, <3>4
  <2>3. QED BY <2>1, <2>2
<1>11. Single(c) => Single(d)
  BY <1>9 DEF Single
<1>12. QED BY <1>1, <1>2, <1>10, <1>11 DEF Lines

-----------------------------------------------------------------------------
(* The other operations keep the lines *)

\* A sequence that loses what it has from n on.
LEMMA Truncated ==
    ASSUME NEW c, GoodCells(c), NEW w \in Nat, NEW L \in LenT, Lines(c, w, L), NEW s \in Seqs,
           NEW n \in Nat, n <= L[s], NEW d, LeftOf(c, s, n, Infinity, d),
           NEW old \in Nat, Line(c, s, old, L[s]), Late(w, IF old <= n THEN old ELSE n, n)
    PROVE  Lines(d, w, [L EXCEPT ![s] = n]) /\ (Single(c) => Single(d))
<1>1. \A i \in Cell : c.pos[i] \in Int /\ (c.seq[i] # {} => c.pos[i] \in Position)
  BY CellIs
<1>2. ASSUME NEW i \in Cell
      PROVE  /\ d.seq[i] \subseteq c.seq[i] /\ c.seq[i] \subseteq d.seq[i] \cup {s}
             /\ s \in d.seq[i] <=> s \in c.seq[i] /\ c.pos[i] < n
             /\ d.seq[i] # {} => d.pos[i] = c.pos[i]
  <2>1. /\ d.seq[i] = IF n <= c.pos[i] /\ c.pos[i] < Infinity THEN c.seq[i] \ {s} ELSE c.seq[i]
        /\ d.pos[i] = IF d.seq[i] = {} THEN Unused ELSE c.pos[i]
    BY DEF LeftOf
  <2>2. s \in c.seq[i] => c.pos[i] < Infinity
    BY <1>1, KvConstants DEF Infinity
  <2>3. ~(n <= c.pos[i]) <=> c.pos[i] < n
    BY <1>1
  <2>4. QED BY <2>1, <2>2, <2>3
<1>3. PICK m \in Nat : m = L[s]
  BY KvConstants DEF LenT
<1>4. PICK lo \in Nat : lo = IF old <= n THEN old ELSE n
  OBVIOUS
<1>5. Line(d, s, lo, n)
  <2>1. ASSUME NEW i \in Cell, s \in d.seq[i] PROVE lo <= d.pos[i] /\ d.pos[i] < n
    <3>1. s \in c.seq[i] /\ c.pos[i] < n /\ d.pos[i] = c.pos[i]
      BY <1>2, <2>1
    <3>2. old <= c.pos[i]
      BY <3>1 DEF Line
    <3>3. QED BY <1>1, <1>4, <3>1, <3>2
  <2>2. ASSUME NEW p \in lo .. n - 1 PROVE \E i \in Cell : s \in d.seq[i] /\ d.pos[i] = p
    <3>1. p \in old .. m - 1 /\ p < n
      BY <1>3, <1>4
    <3>2. PICK i \in Cell : s \in c.seq[i] /\ c.pos[i] = p
      BY <1>3, <3>1 DEF Line
    <3>3. QED BY <1>2, <3>1, <3>2
  <2>3. ASSUME NEW i \in Cell, NEW h \in Cell, s \in d.seq[i], s \in d.seq[h], d.pos[i] = d.pos[h]
        PROVE  i = h
    <3>1. s \in c.seq[i] /\ s \in c.seq[h] /\ c.pos[i] = c.pos[h]
      BY <1>2, <2>3
    <3>2. QED BY <3>1 DEF Line
  <2>4. QED BY <2>1, <2>2, <2>3 DEF Line
<1>6. PICK M : M = [L EXCEPT ![s] = n]
  OBVIOUS
<1>7. M[s] = n /\ \A q \in Seqs : q # s => M[q] = L[q]
  BY <1>6 DEF LenT
<1>8. ASSUME NEW q \in Seqs PROVE \E e \in Nat : Line(d, q, e, M[q]) /\ Late(w, e, M[q])
  <2>1. CASE q = s
    BY <1>4, <1>5, <1>7, <2>1
  <2>2. CASE q # s
    <3>1. PICK e \in Nat : Line(c, q, e, L[q]) /\ Late(w, e, L[q])
      BY DEF Lines
    <3>2. \A i \in Cell : /\ q \in d.seq[i] <=> q \in c.seq[i]
                          /\ q \in d.seq[i] => d.pos[i] = c.pos[i]
      BY <1>2, <2>2
    <3>3. Line(d, q, e, L[q])
      BY <3>1, <3>2, LineSame
    <3>4. QED BY <1>7, <2>2, <3>1, <3>3
  <2>3. QED BY <2>1, <2>2
<1>9. Single(c) => Single(d)
  BY <1>2 DEF Single
<1>10. QED BY <1>6, <1>8, <1>9 DEF Lines

\* What Reuse keeps has its window, or is nothing.
LEMMA ReusedIsLate ==
    ASSUME KvSoundInv, SoundSetups, NEW s \in Seqs, NEW t \in 0 .. MaxPos + 1, NEW full \in BOOLEAN,
           Reuse(s, t, full), NEW n \in Nat, n = Reused(s, t) - (IF full THEN 1 ELSE 0),
           NEW old \in Nat, Line(kv.cells, s, old, len[s]), Late(setup.window, old, len[s])
    PROVE  Late(setup.window, IF old <= n THEN old ELSE n, n)
<1>1. KvInv /\ GoodCells(kv.cells)
  BY KvIs DEF KvSoundInv, KvInv
<1>2. PICK w \in Nat : w = setup.window
  BY <1>1, SoundIs
<1>3. PICK l \in Nat : l = len[s] /\ l \in 0 .. MaxPos + 1
  BY <1>1, KvConstants DEF KvInv
<1>4. PICK r : r = Reused(s, t)
  OBVIOUS
<1>5. t \in Nat /\ t <= l /\ r \in {0, t} /\ n = r - (IF full THEN 1 ELSE 0)
  <2>1. r \in {0, t}
    BY <1>1, <1>4, ReusedIs
  <2>2. QED BY <1>3, <1>4, <2>1, KvConstants DEF Reuse
<1>6. CASE w = 0
  BY <1>2, <1>6 DEF Late
<1>7. CASE w > 0 /\ n = 0
  BY <1>2, <1>7 DEF Late
<1>8. CASE w > 0 /\ n > 0
  <2>1. r = t /\ t > 0
    BY <1>5, <1>8
  <2>2. CASE t = l
    <3>1. ~full
      BY <1>1, <1>2, <1>3, <1>8, <2>2, SoundIs DEF Reuse
    <3>2. n = l
      BY <1>5, <2>1, <2>2, <3>1
    <3>3. old <= n
      BY <1>2, <1>3, <1>8, <3>2 DEF Late
    <3>4. QED BY <1>2, <1>3, <3>2, <3>3
  <2>3. CASE t < l
    <3>1. ~(SeqPosMin(kv.cells, s) >= Max({0, t - w}))
      BY <1>2, <1>3, <1>4, <2>1, <2>3 DEF Reused
    <3>2. SeqPosMin(kv.cells, s) = IF old < l THEN old ELSE -1
      BY <1>1, <1>3, LineCounts
    <3>3. CASE old < l
      <4>1. ~(old >= Max({0, t - w}))
        BY <3>1, <3>2, <3>3
      <4>2. Max({0, t - w}) \in {0, t - w}
        BY <1>5, MaxOf
      <4>3. ~(old >= 0) \/ ~(old >= t - w)
        BY <4>1, <4>2
      <4>4. old + w <= n + 1 /\ old <= n
        BY <1>5, <1>8, <2>1, <4>3
      <4>5. QED BY <1>2, <1>8, <4>4 DEF Late
    <3>4. CASE ~(old < l)
      <4>1. old + w <= l + 1
        BY <1>2, <1>3, <1>5, <2>3, <3>4 DEF Late
      <4>2. w = 1 /\ (old <= n => old = n)
        BY <1>5, <1>8, <2>1, <2>3, <3>4, <4>1
      <4>3. (IF old <= n THEN old ELSE n) = n
        BY <4>2
      <4>4. PICK lo : lo = IF old <= n THEN old ELSE n
        OBVIOUS
      <4>5. lo = n
        BY <4>3, <4>4
      <4>6. Late(setup.window, lo, n)
        BY <1>2, <4>2, <4>5 DEF Late
      <4>7. QED BY <4>4, <4>6
    <3>5. QED BY <3>3, <3>4
  <2>4. QED BY <1>5, <2>2, <2>3
<1>9. w = 0 \/ (w > 0 /\ n = 0) \/ (w > 0 /\ n > 0)
  <2>1. w \in Nat /\ n \in Nat
    OBVIOUS
  <2>2. QED BY ONLY <2>1
<1>10. QED BY <1>6, <1>7, <1>8, <1>9, Zenon

\* The copy of a sequence, the former cells of the copy being gone.
LEMMA CopyLines ==
    ASSUME NEW k \in KvT, NEW L \in LenT, Lines(k.cells, 0, L), NEW s \in Seqs, NEW d \in Seqs, s # d,
           NEW r, r = SeqCp(SeqRm(k, d, 0, Infinity), s, d)
    PROVE  Lines(r.cells, 0, [L EXCEPT ![d] = L[s]])
<1>1. GoodCells(k.cells) /\ Infinity \in Int /\ 0 \in Int
  BY KvIs, KvConstants DEF Infinity
<1>2. PICK m \in KvT : m = SeqRm(k, d, 0, Infinity) /\ LeftOf(k.cells, d, 0, Infinity, m.cells)
  BY <1>1, SeqRmIs
<1>3. ASSUME NEW i \in Cell
      PROVE  /\ m.cells.seq[i] = k.cells.seq[i] \ {d}
             /\ m.cells.seq[i] # {} => m.cells.pos[i] = k.cells.pos[i]
  <2>1. k.cells.pos[i] \in Position \cup {Unused} /\ (k.cells.pos[i] # Unused <=> k.cells.seq[i] # {})
    BY <1>1, CellIs
  <2>2. d \in k.cells.seq[i] => 0 <= k.cells.pos[i] /\ k.cells.pos[i] < Infinity
    BY <2>1, KvConstants DEF Infinity
  <2>3. QED BY <1>2, <2>2 DEF LeftOf
<1>4. \A i \in Cell : d \notin m.cells.seq[i]
  BY <1>3
<1>5. \A i \in Cell : /\ r.cells.pos[i] = m.cells.pos[i]
                      /\ r.cells.seq[i] = IF s \in m.cells.seq[i] THEN m.cells.seq[i] \cup {d}
                                          ELSE m.cells.seq[i]
  <2>1. r = SeqCp(m, s, d)
    BY <1>2
  <2>2. \A i \in Cell :
           /\ SeqCp(m, s, d).cells.pos[i] = m.cells.pos[i]
           /\ SeqCp(m, s, d).cells.seq[i] = IF s \in m.cells.seq[i] THEN m.cells.seq[i] \cup {d}
                                            ELSE m.cells.seq[i]
    BY <1>4, SeqCpIs
  <2>3. QED BY <2>1, <2>2
<1>6. PICK M : M = [L EXCEPT ![d] = L[s]]
  OBVIOUS
<1>7. M[d] = L[s] /\ \A q \in Seqs : q # d => M[q] = L[q]
  BY <1>6 DEF LenT
<1>8. ASSUME NEW q \in Seqs PROVE \E e \in Nat : Line(r.cells, q, e, M[q]) /\ Late(0, e, M[q])
  <2>1. PICK p \in Seqs : p = IF q = d THEN s ELSE q
    OBVIOUS
  <2>2. p # d /\ M[q] = L[p]
    BY <1>7, <2>1
  <2>3. PICK e \in Nat : Line(k.cells, p, e, L[p]) /\ Late(0, e, L[p])
    BY DEF Lines
  <2>4. \A i \in Cell : /\ q \in r.cells.seq[i] <=> p \in k.cells.seq[i]
                        /\ q \in r.cells.seq[i] => r.cells.pos[i] = k.cells.pos[i]
    <3>1. ASSUME NEW i \in Cell
          PROVE  /\ q \in r.cells.seq[i] <=> p \in k.cells.seq[i]
                 /\ q \in r.cells.seq[i] => r.cells.pos[i] = k.cells.pos[i]
      <4>1. q \in r.cells.seq[i] <=> p \in m.cells.seq[i]
        BY <1>4, <1>5, <2>1
      <4>2. p \in m.cells.seq[i] <=> p \in k.cells.seq[i]
        BY <1>3, <2>2
      <4>3. QED BY <1>3, <1>5, <4>1, <4>2
    <3>2. QED BY <3>1
  <2>5. Line(r.cells, q, e, L[p])
    BY <2>3, <2>4, LineSame
  <2>6. QED BY <2>2, <2>3, <2>5
<1>9. QED BY <1>6, <1>8 DEF Lines

\* The context shift of a sequence that shares no cell.
LEMMA ShiftLines ==
    ASSUME NEW k \in KvT, NEW L \in LenT, Lines(k.cells, 0, L), Single(k.cells), NEW s \in Seqs,
           NEW n \in Nat, n = L[s], NEW keep \in Nat, NEW discard \in Nat, discard > 0,
           keep + discard < n, NEW r,
           r = SeqAdd(SeqRm(k, s, keep, keep + discard), s, keep + discard, n, -discard)
    PROVE  Lines(r.cells, 0, [L EXCEPT ![s] = n - discard]) /\ Single(r.cells)
<1>1. GoodCells(k.cells) /\ keep + discard \in Nat /\ n \in Int /\ -discard \in Int
      /\ keep + discard + (-discard) >= 0 /\ -discard <= 0 /\ keep \in Int /\ keep + discard \in Int
  BY KvIs
<1>2. PICK m \in KvT : /\ m = SeqRm(k, s, keep, keep + discard)
                       /\ LeftOf(k.cells, s, keep, keep + discard, m.cells)
  BY <1>1, SeqRmIs
<1>3. \A i \in Cell :
         /\ r.cells.seq[i] = m.cells.seq[i]
         /\ r.cells.pos[i] = IF m.cells.pos[i] >= keep + discard /\ m.cells.pos[i] < n /\ s \in m.cells.seq[i]
                             THEN m.cells.pos[i] + (-discard) ELSE m.cells.pos[i]
  BY <1>1, <1>2, SeqAddIs
<1>4. PICK c, d : c = k.cells /\ d = r.cells
  OBVIOUS
<1>5. \A i \in Cell : c.pos[i] \in Int
  BY <1>1, <1>4, CellIs
<1>6. Line(c, s, 0, n)
  BY <1>4 DEF Lines, Late
<1>7. ASSUME NEW i \in Cell
      PROVE  /\ d.seq[i] = IF keep <= c.pos[i] /\ c.pos[i] < keep + discard THEN c.seq[i] \ {s} ELSE c.seq[i]
             /\ s \in d.seq[i] => d.pos[i] = IF c.pos[i] < keep THEN c.pos[i] ELSE c.pos[i] - discard
             /\ d.seq[i] # {} /\ s \notin d.seq[i] => d.pos[i] = c.pos[i]
  <2>1. /\ m.cells.seq[i] = IF keep <= c.pos[i] /\ c.pos[i] < keep + discard THEN c.seq[i] \ {s} ELSE c.seq[i]
        /\ m.cells.pos[i] = IF m.cells.seq[i] = {} THEN Unused ELSE c.pos[i]
    BY <1>2, <1>4 DEF LeftOf
  <2>2. d.seq[i] = m.cells.seq[i]
    BY <1>3, <1>4
  <2>3. s \in d.seq[i] => d.pos[i] = IF c.pos[i] < keep THEN c.pos[i] ELSE c.pos[i] - discard
    <3>1. SUFFICES ASSUME s \in d.seq[i]
                   PROVE  d.pos[i] = IF c.pos[i] < keep THEN c.pos[i] ELSE c.pos[i] - discard
      OBVIOUS
    <3>2. m.cells.pos[i] = c.pos[i] /\ s \in c.seq[i] /\ s \in m.cells.seq[i]
      BY <2>1, <2>2, <3>1
    <3>3. ~(keep <= c.pos[i] /\ c.pos[i] < keep + discard)
      BY <2>1, <3>2
    <3>4. c.pos[i] < n
      BY <1>6, <3>2 DEF Line
    <3>5. d.pos[i] = IF c.pos[i] >= keep + discard /\ c.pos[i] < n THEN c.pos[i] + (-discard) ELSE c.pos[i]
      BY <1>3, <1>4, <3>2
    <3>6. c.pos[i] \in Int
      BY <1>5
    <3>7. QED BY <3>3, <3>4, <3>5, <3>6
  <2>4. d.seq[i] # {} /\ s \notin d.seq[i] => d.pos[i] = c.pos[i]
    BY <1>3, <1>4, <2>1, <2>2
  <2>5. QED BY <2>1, <2>2, <2>3, <2>4
<1>8. ASSUME NEW i \in Cell, s \in d.seq[i]
      PROVE  /\ s \in c.seq[i] /\ 0 <= c.pos[i] /\ c.pos[i] < n /\ c.pos[i] \in Int
             /\ c.pos[i] < keep \/ c.pos[i] >= keep + discard
             /\ d.pos[i] = IF c.pos[i] < keep THEN c.pos[i] ELSE c.pos[i] - discard
  <2>1. s \in c.seq[i] /\ ~(keep <= c.pos[i] /\ c.pos[i] < keep + discard) /\ c.pos[i] \in Int
        /\ d.pos[i] = IF c.pos[i] < keep THEN c.pos[i] ELSE c.pos[i] - discard
    BY <1>5, <1>7, <1>8
  <2>2. 0 <= c.pos[i] /\ c.pos[i] < n
    BY <1>6, <2>1 DEF Line
  <2>3. QED BY <2>1, <2>2
<1>9. Line(d, s, 0, n - discard)
  <2>1. ASSUME NEW i \in Cell, s \in d.seq[i] PROVE 0 <= d.pos[i] /\ d.pos[i] < n - discard
    <3>1. PICK p \in Int : p = c.pos[i] /\ 0 <= p /\ p < n /\ (p < keep \/ p >= keep + discard)
                           /\ d.pos[i] = IF p < keep THEN p ELSE p - discard
      BY <1>8, <2>1
    <3>2. QED BY <3>1
  <2>2. ASSUME NEW p \in 0 .. (n - discard) - 1 PROVE \E i \in Cell : s \in d.seq[i] /\ d.pos[i] = p
    <3>1. PICK z \in 0 .. n - 1 : z = IF p < keep THEN p ELSE p + discard
      OBVIOUS
    <3>2. PICK i \in Cell : s \in c.seq[i] /\ c.pos[i] = z
      BY <1>6, <3>1 DEF Line
    <3>3. ~(keep <= z /\ z < keep + discard)
      BY <3>1
    <3>4. s \in d.seq[i]
      BY <1>7, <3>2, <3>3
    <3>5. d.pos[i] = IF z < keep THEN z ELSE z - discard
      BY <1>7, <3>2, <3>4
    <3>6. d.pos[i] = p
      BY <3>1, <3>5
    <3>7. QED BY <3>4, <3>6
  <2>3. ASSUME NEW i \in Cell, NEW h \in Cell, s \in d.seq[i], s \in d.seq[h], d.pos[i] = d.pos[h]
        PROVE  i = h
    <3>1. PICK p \in Int : p = c.pos[i] /\ 0 <= p /\ p < n /\ (p < keep \/ p >= keep + discard)
                           /\ d.pos[i] = (IF p < keep THEN p ELSE p - discard) /\ s \in c.seq[i]
      BY <1>8, <2>3
    <3>2. PICK z \in Int : z = c.pos[h] /\ 0 <= z /\ z < n /\ (z < keep \/ z >= keep + discard)
                           /\ d.pos[h] = (IF z < keep THEN z ELSE z - discard) /\ s \in c.seq[h]
      BY <1>8, <2>3
    <3>3. (IF p < keep THEN p ELSE p - discard) = (IF z < keep THEN z ELSE z - discard)
      BY <2>3, <3>1, <3>2
    <3>4. p = z
      BY <3>1, <3>2, <3>3
    <3>5. QED BY <1>6, <3>1, <3>2, <3>4 DEF Line
  <2>4. QED BY <2>1, <2>2, <2>3 DEF Line
<1>10. PICK M : M = [L EXCEPT ![s] = n - discard]
  OBVIOUS
<1>11. M[s] = n - discard /\ \A q \in Seqs : q # s => M[q] = L[q]
  BY <1>10 DEF LenT
<1>12. ASSUME NEW q \in Seqs PROVE \E e \in Nat : Line(d, q, e, M[q]) /\ Late(0, e, M[q])
  <2>1. CASE q = s
    BY <1>9, <1>11, <2>1 DEF Late
  <2>2. CASE q # s
    <3>1. PICK e \in Nat : Line(c, q, e, L[q]) /\ Late(0, e, L[q])
      BY <1>4 DEF Lines
    <3>2. ASSUME NEW i \in Cell
          PROVE  /\ q \in d.seq[i] <=> q \in c.seq[i]
                 /\ q \in d.seq[i] => d.pos[i] = c.pos[i]
      <4>1. q \in d.seq[i] <=> q \in c.seq[i]
        BY <1>7, <2>2
      <4>2. q \in c.seq[i] => s \notin c.seq[i]
        BY <1>4, <2>2 DEF Single
      <4>3. s \in d.seq[i] => s \in c.seq[i]
        BY <1>7
      <4>4. QED BY <1>7, <4>1, <4>2, <4>3
    <3>3. Line(d, q, e, L[q])
      BY <3>1, <3>2, LineSame
    <3>4. QED BY <1>11, <2>2, <3>1, <3>3
  <2>3. QED BY <2>1, <2>2
<1>13. Single(d)
  <2>1. \A i \in Cell : d.seq[i] \subseteq c.seq[i]
    BY <1>7
  <2>2. QED BY <1>4, <2>1 DEF Single
<1>14. QED BY <1>4, <1>10, <1>12, <1>13 DEF Lines

LEMMA DecodeKeepsSound ==
    ASSUME KvSoundInv, SoundSetups, NEW s \in Seqs, NEW t \in Seqs \ {s}, NEW a \in 1 .. NBatch,
           NEW b \in 0 .. NBatch - a, DecodeBatch(s, t, a, b)
    PROVE  KvSoundInv' /\ LeavesOthers
<1>0. NBatch \in Nat
  BY KvConstants DEF NBatch
<1>1. PICK ubs : ubs = Split(Batch(s, t, a, b))
  OBVIOUS
<1>2. PICK p : p = Prepare(kv, ubs)
  OBVIOUS
<1>3. PICK named : named = {s} \cup IF b > 0 THEN {t} ELSE {}
  OBVIOUS
<1>4. /\ len[s] + a <= MaxPos + 1 /\ len[t] + b <= MaxPos + 1 /\ setup' = setup
      /\ \/ /\ ~p.ok
            /\ kv' = p.kv
            /\ by' = named /\ failed' = TRUE /\ drafted' = {}
            /\ len' = len
         \/ /\ p.ok
            /\ kv' = Compute(p.kv, p.idxs, ubs, Len(ubs))
            /\ len' = [len EXCEPT ![s] = @ + a, ![t] = @ + b]
            /\ by' = named /\ failed' = FALSE
            /\ drafted' = IF setup.drafts THEN Range(Batch(s, t, a, b)) ELSE {}
         \/ /\ p.ok
            /\ \E last \in 1 .. Len(ubs) :
                 ComputeFails(DropUbatch(Compute(p.kv, p.idxs, ubs, last), ubs[last]), named)
  BY <1>1, <1>2, <1>3 DEF DecodeBatch, Batch
<1>5. DecodeArgs(s, t, a, b)
  BY <1>0, <1>4 DEF DecodeArgs
<1>6. /\ KvInv /\ KvInv' /\ len \in LenT /\ setup.window \in Nat
      /\ Lines(kv.cells, setup.window, len) /\ (setup.copies \/ Single(kv.cells))
  <2>1. KvInv
    BY DEF KvSoundInv
  <2>2. KvInv'
    BY <2>1, DecodeKeepsType
  <2>3. QED BY <2>1, <2>2, SoundIs DEF KvSoundInv, KvInv, LenT
<1>7. /\ ~p.ok => p.kv = kv
      /\ p.ok => \E cut, ks : Placing(s, t, a, b, ubs, cut, ks)
  BY <1>1, <1>2, <1>5, PreparedIs
<1>8. CASE /\ ~p.ok
           /\ kv' = p.kv
           /\ by' = named /\ failed' = TRUE /\ drafted' = {}
           /\ len' = len
  <2>1. kv' = kv
    BY <1>7, <1>8
  <2>2. Lines(kv'.cells, setup'.window, len') /\ (setup'.copies \/ Single(kv'.cells))
    BY <1>4, <1>6, <1>8, <2>1
  <2>3. QED BY <1>4, <1>6, <1>8, <2>1, <2>2 DEF KvSoundInv, LeavesOthers
<1>9. CASE /\ p.ok
           /\ kv' = Compute(p.kv, p.idxs, ubs, Len(ubs))
           /\ len' = [len EXCEPT ![s] = @ + a, ![t] = @ + b]
           /\ by' = named /\ failed' = FALSE
           /\ drafted' = IF setup.drafts THEN Range(Batch(s, t, a, b)) ELSE {}
  <2>1. PICK cut, ks : Placing(s, t, a, b, ubs, cut, ks)
    BY <1>7, <1>9
  <2>2. Len(ubs) \in 1 .. Len(ubs) /\ cut[Len(ubs)] = a + b
    <3>1. UbatchesOk(ubs) /\ Len(ubs) > 0 /\ Cuts(Batch(s, t, a, b), a + b, ubs, cut)
      BY <2>1 DEF Placing
    <3>2. Len(ubs) \in Nat
      BY <3>1 DEF UbatchesOk
    <3>3. cut[Len(ubs)] = a + b
      BY <3>1 DEF Cuts
    <3>4. QED BY <3>1, <3>2, <3>3
  <2>3. kv' = ks[Len(ubs)]
    <3>1. Compute(p.kv, p.idxs, ubs, Len(ubs)) = ks[Len(ubs)]
      <4>1. PICK m \in 1 .. Len(ubs) : m = Len(ubs)
        BY <2>2
      <4>2. Compute(Prepare(kv, ubs).kv, Prepare(kv, ubs).idxs, ubs, m) = ks[m]
        BY <2>1, <4>1 DEF Placing
      <4>3. QED BY <1>2, <4>1, <4>2
    <3>2. QED BY <1>9, <3>1
  <2>4. len' = After(s, t, a, a + b)
    <3>1. PICK e : e = After(s, t, a, a + b)
      OBVIOUS
    <3>2. a + b \in 0 .. a + b
      BY <1>5 DEF DecodeArgs
    <3>3. /\ e \in LenT /\ e[s] = len[s] + a /\ e[t] = len[t] + b
          /\ \A q \in Seqs \ {s, t} : e[q] = len[q]
      BY <1>5, <1>6, <3>1, <3>2, AfterIs
    <3>4. /\ len' = [q \in DOMAIN len' |-> len'[q]] /\ DOMAIN len' = Seqs
          /\ len'[s] = len[s] + a /\ len'[t] = len[t] + b
          /\ \A q \in Seqs : q # s /\ q # t => len'[q] = len[q]
      BY <1>6, <1>9 DEF LenT
    <3>5. e = [q \in Seqs |-> e[q]]
      BY <3>3 DEF LenT
    <3>6. \A q \in Seqs : e[q] = len'[q]
      BY <3>3, <3>4
    <3>7. QED BY <3>1, <3>4, <3>5, <3>6
  <2>5. Lines(kv'.cells, setup'.window, len') /\ (setup'.copies \/ Single(kv'.cells))
    <3>1. /\ Lines(ks[Len(ubs)].cells, setup.window, After(s, t, a, cut[Len(ubs)]))
          /\ setup.copies \/ Single(ks[Len(ubs)].cells)
      BY <2>1, <2>2 DEF Placing
    <3>2. QED BY <1>4, <2>2, <2>3, <2>4, <3>1
  <2>6. ASSUME NEW z \in drafted' PROVE setup'.drafts /\ z.pos < len'[z.seq]
    <3>1. setup.drafts /\ z \in Range(Batch(s, t, a, b))
      BY <1>9, <2>6
    <3>2. DOMAIN Batch(s, t, a, b) = 1 .. a + b /\ a + b \in Nat \ {0}
      <4>1. Batch(s, t, a, b) \in Seq(TokenT) /\ Len(Batch(s, t, a, b)) = a + b /\ a + b \in Nat \ {0}
        BY <1>5, <1>6, BatchIs DEF KvInv
      <4>2. QED BY <4>1, LenProperties
    <3>3. PICK e : e = Batch(s, t, a, b)
      OBVIOUS
    <3>4. PICK j \in 1 .. a + b : z = e[j]
      BY <3>1, <3>2, <3>3 DEF Range
    <3>5. Continue(a + b, e, After(s, t, a, 0), After(s, t, a, a + b))
      <4>1. 0 \in 0 .. a + b /\ a + b \in 0 .. a + b /\ 0 < a + b /\ a + b = a + b - 0
        BY <3>2
      <4>2. \A i \in 1 .. a + b : e[i] = Batch(s, t, a, b)[0 + i]
        BY <3>2, <3>3
      <4>3. PICK n : n = a + b
        OBVIOUS
      <4>4. n = (a + b) - 0 /\ \A i \in 1 .. n : e[i] = Batch(s, t, a, b)[0 + i]
        BY <4>1, <4>2, <4>3
      <4>5. Continue(n, e, After(s, t, a, 0), After(s, t, a, a + b))
        BY <1>5, <1>6, <4>1, <4>4, BatchContinues
      <4>6. QED BY <4>3, <4>5
    <3>6. QED BY <1>4, <2>4, <3>1, <3>4, <3>5 DEF Continue
  <2>7. \A q \in Seqs \ by' : len'[q] = len[q]
    <3>1. ASSUME NEW q \in Seqs \ by' PROVE len'[q] = len[q]
      <4>1. q # s /\ (q = t => ~(b > 0))
        BY <1>3, <1>9, <3>1
      <4>2. q = t => b = 0
        BY <1>0, <4>1
      <4>3. len[q] \in Nat /\ a \in Nat /\ b \in Nat
        BY <1>5, <1>6, KvConstants DEF LenT, DecodeArgs
      <4>4. After(s, t, a, a + b)[q] = len[q] + (IF q = t /\ a + b > a THEN a + b - a ELSE 0)
        BY <4>1 DEF After
      <4>5. QED BY <2>4, <4>2, <4>3, <4>4
    <3>2. QED BY <3>1
  <2>8. QED BY <1>4, <1>6, <1>9, <2>5, <2>6, <2>7 DEF KvSoundInv, LeavesOthers
<1>10. ASSUME p.ok, NEW u \in 1 .. Len(ubs),
              ComputeFails(DropUbatch(Compute(p.kv, p.idxs, ubs, u), ubs[u]), named)
       PROVE  KvSoundInv' /\ LeavesOthers
  <2>1. PICK cut, ks : Placing(s, t, a, b, ubs, cut, ks)
    BY <1>7, <1>10
  <2>2. PICK k : k = DropUbatch(Compute(p.kv, p.idxs, ubs, u), ubs[u])
    OBVIOUS
  <2>3. setup.fails /\
        \E P \in SUBSET Seqs :
          /\ named \subseteq P
          /\ kv' = RemoveSeqs(k, Cell \X P)
          /\ len' = [q \in Seqs |-> IF q \in P THEN 0 ELSE len[q]]
          /\ by' = P /\ failed' = FALSE /\ drafted' = {}
    BY <1>10, <2>2 DEF ComputeFails
  <2>4. PICK P \in SUBSET Seqs :
          /\ named \subseteq P
          /\ kv' = RemoveSeqs(k, Cell \X P)
          /\ len' = [q \in Seqs |-> IF q \in P THEN 0 ELSE len[q]]
          /\ by' = P /\ failed' = FALSE /\ drafted' = {}
    BY <2>3
  <2>5. setup.window = 0
    BY <1>6, <2>3, SoundIs
  <2>6. Compute(p.kv, p.idxs, ubs, u) = ks[u]
    BY <1>2, <2>1, <2>5 DEF Placing
  <2>7. kv' = RemoveSeqs(DropUbatch(ks[u], ubs[u]), Cell \X P)
    BY <2>2, <2>4, <2>6
  <2>8. /\ Lines(kv'.cells, setup'.window, len')
        /\ setup'.copies \/ Single(kv'.cells)
    <3>1. s \in P /\ (b > 0 => t \in P)
      BY <1>3, <2>4
    <3>2. len' = [q \in Seqs |-> IF q \in P THEN 0 ELSE len[q]] /\ setup' = setup
      BY <1>4, <2>4
    <3>3. QED BY <1>5, <2>1, <2>5, <2>7, <3>1, <3>2, DecodeFailsSound
  <2>9. \A q \in Seqs \ by' : len'[q] = len[q]
    BY <2>4
  <2>10. QED BY <1>4, <1>6, <2>4, <2>8, <2>9 DEF KvSoundInv, LeavesOthers
<1>11. QED BY <1>4, <1>8, <1>9, <1>10

-----------------------------------------------------------------------------
(* Every step, and the theorems *)

LEMMA DoneIs ==
    ASSUME NEW S, NEW s, NEW n, Done(S, s, n), KvSoundInv, KvInv'
    PROVE  /\ len' = [len EXCEPT ![s] = n] /\ by' = S /\ setup' = setup /\ ~failed'
           /\ s \in S => LeavesOthers
           /\ Lines(kv'.cells, setup.window, len') /\ (setup.copies \/ Single(kv'.cells)) => KvSoundInv'
<1>1. len' = [len EXCEPT ![s] = n] /\ by' = S /\ failed' = FALSE /\ drafted' = {} /\ setup' = setup
  BY DEF Done
<1>2. len \in [Seqs -> 0 .. MaxPos + 1]
  BY DEF KvSoundInv, KvInv
<1>3. s \in S => LeavesOthers
  <2>1. \A q \in Seqs : q # s => len'[q] = len[q]
    BY <1>1, <1>2
  <2>2. QED BY <1>1, <2>1 DEF LeavesOthers
<1>4. Lines(kv'.cells, setup.window, len') /\ (setup.copies \/ Single(kv'.cells)) => KvSoundInv'
  BY <1>1 DEF KvSoundInv
<1>5. QED BY <1>1, <1>3, <1>4

\* A step that keeps the first n tokens of a sequence.
LEMMA TruncateKeepsSound ==
    ASSUME KvSoundInv, SoundSetups, KvInv', NEW s \in Seqs, NEW n \in Nat, n <= len[s],
           kv' = SeqRm(kv, s, n, Infinity), Done({s}, s, n),
           \A old \in Nat : Line(kv.cells, s, old, len[s]) /\ Late(setup.window, old, len[s])
                              => Late(setup.window, IF old <= n THEN old ELSE n, n)
    PROVE  KvSoundInv' /\ LeavesOthers
<1>1. /\ kv \in KvT /\ len \in LenT /\ KvInv /\ GoodCells(kv.cells)
      /\ Lines(kv.cells, setup.window, len) /\ (setup.copies \/ Single(kv.cells))
  BY KvIs DEF KvSoundInv, KvInv, LenT
<1>2. setup.window \in Nat
  BY <1>1, SoundIs
<1>3. Infinity \in Int /\ n \in Int
  BY KvConstants DEF Infinity
<1>4. LeftOf(kv.cells, s, n, Infinity, kv'.cells)
  BY <1>1, <1>3, SeqRmIs
<1>5. PICK old \in Nat : Line(kv.cells, s, old, len[s]) /\ Late(setup.window, old, len[s])
  BY <1>1 DEF Lines
<1>6. Lines(kv'.cells, setup.window, [len EXCEPT ![s] = n]) /\ (Single(kv.cells) => Single(kv'.cells))
  <2>1. Late(setup.window, IF old <= n THEN old ELSE n, n)
    BY <1>5, Zenon
  <2>2. QED BY <1>1, <1>2, <1>4, <1>5, <2>1, Truncated
<1>7. QED BY <1>1, <1>6, DoneIs

LEMMA OtherStepsKeepSound ==
    ASSUME KvSoundInv, SoundSetups,
           \/ \E s \in Seqs, t \in 0 .. MaxPos + 1, full \in BOOLEAN : Reuse(s, t, full)
           \/ \E t \in drafted : Reject(t)
           \/ \E s \in Seqs : Clear(s)
           \/ \E s, d \in Seqs : CopyState(s, d)
           \/ \E s \in Seqs, keep, discard \in Position : Shift(s, keep, discard)
    PROVE  KvSoundInv' /\ LeavesOthers
<1>0. KvInv'
  BY OtherStepsKeepType DEF KvSoundInv
<1>1. /\ kv \in KvT /\ len \in LenT /\ KvInv /\ drafted \in SUBSET TokenT
      /\ Lines(kv.cells, setup.window, len) /\ (setup.copies \/ Single(kv.cells))
      /\ \A s \in Seqs : len[s] \in Nat
  BY KvConstants DEF KvSoundInv, KvInv, LenT
<1>2. /\ setup.window \in Nat /\ ~(setup.copies /\ setup.shifts)
      /\ setup.window > 0 => /\ ~setup.copies /\ ~setup.shifts /\ ~setup.drafts
  BY <1>1, SoundIs
<1>3. ASSUME NEW s \in Seqs, NEW t \in 0 .. MaxPos + 1, NEW full \in BOOLEAN, Reuse(s, t, full)
      PROVE  KvSoundInv' /\ LeavesOthers
  <2>1. PICK n \in Nat : n = Reused(s, t) - (IF full THEN 1 ELSE 0) /\ n <= len[s]
    <3>1. Reused(s, t) - (IF full THEN 1 ELSE 0) \in 0 .. len[s]
      BY <1>1, <1>3, ReusedIs
    <3>2. QED BY <1>1, <3>1
  <2>2. kv' = SeqRm(kv, s, n, Infinity) /\ Done({s}, s, n)
    BY <1>3, <2>1 DEF Reuse
  <2>3. \A old \in Nat : Line(kv.cells, s, old, len[s]) /\ Late(setup.window, old, len[s])
                           => Late(setup.window, IF old <= n THEN old ELSE n, n)
    BY <1>3, <2>1, ReusedIsLate
  <2>4. QED BY <1>0, <2>1, <2>2, <2>3, TruncateKeepsSound
<1>4. ASSUME NEW t \in drafted, Reject(t) PROVE KvSoundInv' /\ LeavesOthers
  <2>1. PICK s \in Seqs, n \in Nat : s = t.seq /\ n = t.pos
    BY <1>1, KvConstants DEF TokenT
  <2>2. setup.drafts /\ n < len[s]
    BY <2>1 DEF KvSoundInv
  <2>3. setup.window = 0
    BY <1>2, <2>2
  <2>4. n <= len[s]
    BY <1>1, <2>2
  <2>5. kv' = SeqRm(kv, s, n, Infinity) /\ Done({s}, s, n)
    BY <1>4, <2>1 DEF Reject
  <2>6. ASSUME NEW old \in Nat, Late(setup.window, old, len[s])
        PROVE  Late(setup.window, IF old <= n THEN old ELSE n, n)
    <3>1. (IF old <= n THEN old ELSE n) = 0
      BY <2>3, <2>6 DEF Late
    <3>2. QED BY <3>1 DEF Late
  <2>7. QED BY <1>0, <2>4, <2>5, <2>6, TruncateKeepsSound
<1>5. ASSUME NEW s \in Seqs, Clear(s) PROVE KvSoundInv' /\ LeavesOthers
  <2>1. kv' = SeqRm(kv, s, 0, Infinity) /\ Done({s}, s, 0)
    BY <1>5 DEF Clear
  <2>2. ASSUME NEW old \in Nat PROVE Late(setup.window, IF old <= 0 THEN old ELSE 0, 0)
    <3>1. (IF old <= 0 THEN old ELSE 0) = 0
      OBVIOUS
    <3>2. QED BY <3>1 DEF Late
  <2>3. 0 \in Nat /\ 0 <= len[s]
    BY <1>1
  <2>4. QED BY <1>0, <2>1, <2>2, <2>3, TruncateKeepsSound
<1>6. ASSUME NEW s \in Seqs, NEW d \in Seqs, CopyState(s, d) PROVE KvSoundInv' /\ LeavesOthers
  <2>1. /\ setup.copies /\ s # d /\ kv' = SeqCp(SeqRm(kv, d, 0, Infinity), s, d)
        /\ Done({s, d}, d, len[s])
    BY <1>6 DEF CopyState
  <2>2. setup.window = 0
    BY <1>2, <2>1
  <2>3. Lines(kv'.cells, 0, [len EXCEPT ![d] = len[s]])
    BY <1>1, <2>1, <2>2, CopyLines
  <2>4. d \in {s, d}
    OBVIOUS
  <2>5. QED BY <1>0, <2>1, <2>2, <2>3, <2>4, DoneIs
<1>7. ASSUME NEW s \in Seqs, NEW keep \in Position, NEW discard \in Position, Shift(s, keep, discard)
      PROVE  KvSoundInv' /\ LeavesOthers
  <2>1. PICK n \in Nat : n = len[s]
    BY <1>1
  <2>2. /\ setup.shifts /\ discard > 0 /\ keep + discard < n
        /\ kv' = SeqAdd(SeqRm(kv, s, keep, keep + discard), s, keep + discard, n, -discard)
        /\ Done({s}, s, n - discard)
    BY <1>7, <2>1 DEF Shift
  <2>3. setup.window = 0 /\ Single(kv.cells)
    BY <1>1, <1>2, <2>2
  <2>4. keep \in Nat /\ discard \in Nat
    BY KvConstants
  <2>5. Lines(kv'.cells, 0, [len EXCEPT ![s] = n - discard]) /\ Single(kv'.cells)
    BY <1>1, <2>1, <2>2, <2>3, <2>4, ShiftLines
  <2>6. s \in {s}
    OBVIOUS
  <2>7. QED BY <1>0, <2>2, <2>3, <2>5, <2>6, DoneIs
<1>8. QED BY <1>3, <1>4, <1>5, <1>6, <1>7

LEMMA KvSoundInvInit == KvInit => KvSoundInv
<1> SUFFICES ASSUME KvInit PROVE KvSoundInv
  OBVIOUS
<1>1. KvInv
  BY KvInvInit
<1>2. kv = [cells |-> NoCells, head |-> 0] /\ len = [s \in Seqs |-> 0] /\ drafted = {}
  BY DEF KvInit
<1>3. \A i \in Cell : kv.cells.seq[i] = {}
  BY <1>2, NoCellsGood
<1>4. Lines(kv.cells, setup.window, len)
  <2>1. ASSUME NEW s \in Seqs PROVE \E lo \in Nat : Line(kv.cells, s, lo, len[s]) /\ Late(setup.window, lo, len[s])
    <3>1. Line(kv.cells, s, 0, 0) /\ len[s] = 0
      BY <1>2, <1>3, NoLine
    <3>2. QED BY <3>1 DEF Late
  <2>2. QED BY <2>1 DEF Lines
<1>5. Single(kv.cells)
  BY <1>3 DEF Single
<1>6. QED BY <1>1, <1>2, <1>4, <1>5 DEF KvSoundInv

LEMMA KvSoundInvKept ==
    ASSUME SoundSetups, KvSoundInv, KvNext
    PROVE  KvSoundInv' /\ LeavesOthers
<1>1. CASE \E s \in Seqs, a \in 1 .. NBatch : \E t \in Seqs \ {s}, b \in 0 .. NBatch - a :
              DecodeBatch(s, t, a, b)
  BY <1>1, DecodeKeepsSound
<1>2. CASE \/ \E s \in Seqs, t \in 0 .. MaxPos + 1, full \in BOOLEAN : Reuse(s, t, full)
           \/ \E t \in drafted : Reject(t)
           \/ \E s \in Seqs : Clear(s)
           \/ \E s, d \in Seqs : CopyState(s, d)
           \/ \E s \in Seqs, keep, discard \in Position : Shift(s, keep, discard)
  BY <1>2, OtherStepsKeepSound
<1>3. QED BY <1>1, <1>2 DEF KvNext

LEMMA KvSoundInvAlways == SoundSetups => (KvSpec => []KvSoundInv)
<1> SUFFICES ASSUME SoundSetups PROVE KvSpec => []KvSoundInv
  OBVIOUS
<1>1. KvInit => KvSoundInv
  BY KvSoundInvInit
<1>2. KvSoundInv /\ [KvNext]_kvVars => KvSoundInv'
  <2>1. SUFFICES ASSUME KvSoundInv, [KvNext]_kvVars PROVE KvSoundInv'
    OBVIOUS
  <2>2. CASE KvNext
    BY <2>1, <2>2, KvSoundInvKept
  <2>3. CASE UNCHANGED kvVars
    BY <2>1, <2>3 DEF kvVars, KvSoundInv, KvInv
  <2>4. QED BY <2>1, <2>2, <2>3
<1>3. QED BY <1>1, <1>2, PTL DEF KvSpec

\* In a sound set-up the cells, what is kept beside them and what the slots
\* believe agree: every sequence has the positions from some one on, each in
\* one cell, up to its last token, and none that its next token attends to is
\* missing, whatever the other sequences decoded, and whatever failed
\* (llama_kv_cache, and the tests of seq_pos_min in server-context.cpp).
THEOREM KvIsSoundHolds == SoundSetups => (KvSpec => []KvIsSound)
<1> SUFFICES ASSUME SoundSetups PROVE KvSpec => []KvIsSound
  OBVIOUS
<1>1. KvSpec => []KvSoundInv
  BY KvSoundInvAlways
<1>2. KvSoundInv => KvIsSound
  BY KvInvSound, KvSoundInvSound DEF KvIsSound, KvSoundInv
<1>3. QED BY <1>1, <1>2, PTL

\* A ubatch always finds its place in a sliding-window cache of n_swa cells per
\* sequence and n_ubatch more, the size that llama_kv_cache_iswa gives it.
THEOREM AlwaysFitsHolds == SoundSetups => (KvSpec => []AlwaysFits)
<1> SUFFICES ASSUME SoundSetups PROVE KvSpec => []AlwaysFits
  OBVIOUS
<1>1. KvSpec => []KvSoundInv
  BY KvSoundInvAlways
<1>2. ASSUME KvSoundInv, SwaSized, NEW n \in 1 .. NUbatch PROVE FindSlot(kv, n) # <<>>
  <2>1. /\ kv \in KvT /\ len \in LenT /\ KvInv
        /\ Lines(kv.cells, setup.window, len) /\ (setup.copies \/ Single(kv.cells))
    BY <1>2 DEF KvSoundInv, KvInv, LenT
  <2>2. /\ setup.window \in Nat \ {0} /\ ~setup.copies /\ NCells >= setup.window * NSeqs + NUbatch
    BY <1>2, <2>1, SoundIs DEF SwaSized
  <2>3. QED BY <2>1, <2>2, NoneIsLeft
<1>3. KvSoundInv => AlwaysFits
  BY <1>2 DEF AlwaysFits
<1>4. QED BY <1>1, <1>3, PTL

\* No operation disturbs more than it names: what the next token of every other
\* sequence attends to stays in the shared cells, and a decode that finds no
\* place changes nothing (llama_kv_cache::prepare, seq_rm, apply_ubatch).
THEOREM OthersUntouchedHolds == SoundSetups => (KvSpec => OthersUntouched)
<1> SUFFICES ASSUME SoundSetups PROVE KvSpec => OthersUntouched
  OBVIOUS
<1>1. KvSpec => []KvSoundInv
  BY KvSoundInvAlways
<1>2. KvSoundInv /\ KvSoundInv' /\ [KvNext]_kvVars
         => /\ [\A s \in Seqs \ by' : Needed(s)' = Needed(s) /\ Needed(s) \subseteq Holds(s)']_kvVars
            /\ [failed' => kv' = kv]_kvVars
  <2>1. SUFFICES ASSUME KvSoundInv, KvSoundInv', KvNext
                 PROVE  /\ \A s \in Seqs \ by' : Needed(s)' = Needed(s) /\ Needed(s) \subseteq Holds(s)'
                        /\ failed' => kv' = kv
    OBVIOUS
  <2>2. LeavesOthers
    BY <2>1, KvSoundInvKept
  <2>3. NeededPresent'
    BY <2>1, KvSoundInvSound, PTL
  <2>4. ASSUME NEW s \in Seqs \ by' PROVE Needed(s)' = Needed(s) /\ Needed(s) \subseteq Holds(s)'
    <3>1. len'[s] = len[s] /\ setup' = setup
      BY <2>2 DEF LeavesOthers
    <3>2. Needed(s)' = Needed(s)
      BY <3>1 DEF Needed, Masked
    <3>3. Needed(s)' \subseteq Holds(s)'
      BY <2>3 DEF NeededPresent
    <3>4. QED BY <3>2, <3>3
  <2>5. QED BY <2>2, <2>4 DEF LeavesOthers
<1>3. KvSpec => Isolation /\ PrepareRestores
  BY <1>1, <1>2, PTL DEF KvSpec, Isolation, PrepareRestores
<1>4. QED BY <1>3 DEF OthersUntouched
=============================================================================
