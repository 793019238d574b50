----------------------------- MODULE TokenTexts -----------------------------
(* Prompts and answers as sequences of tokens.  Checkpoints and PromptCache *)
(* represent a memory by the text it was computed from.                     *)
EXTENDS Integers, SequencesExt, FiniteSetsExt

CONSTANTS
    Token,      \* the tokens
    MaxTokens   \* bound: the longest prompt and answer together

Texts == UNION {[1 .. n -> Token] : n \in 0 .. MaxTokens}

FirstN(s, n) == SubSeq(s, 1, n)
CommonPrefix(s, t) ==
    Max({n \in 0 .. Min({Len(s), Len(t)}) : FirstN(s, n) = FirstN(t, n)})

\* a loop that erases: the elements of cs that are in K, in their order
Selected(cs, K) ==
    LET kept[i \in 0 .. Len(cs)] ==
            IF i = 0 THEN <<>>
            ELSE IF cs[i] \in K THEN Append(kept[i - 1], cs[i]) ELSE kept[i - 1]
    IN  kept[Len(cs)]
=============================================================================
