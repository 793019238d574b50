---------------------------- MODULE MCServerSlots ----------------------------
(* Small instances of ServerSlots. *)
EXTENDS ServerSlots, TLC

CONSTANTS r1, r2, r3

RequestSymmetry == Permutations(Requests)

T(kind, parent, id_slot, tokens) ==
    [kind |-> kind, parent |-> parent, id_slot |-> id_slot, tokens |-> tokens,
     launches |-> TRUE, group |-> IF kind = "EMBEDDING" THEN 1 ELSE 0]

One(tokens)       == <<T("COMPLETION", 0, -1, tokens)>>
OnSlot(s, tokens) == <<T("COMPLETION", 0, s, tokens)>>
Pair(tokens)      == <<T("COMPLETION", 0, -1, tokens), T("COMPLETION", 1, -1, tokens)>>
Two(tokens)       == <<T("COMPLETION", 0, -1, tokens), T("COMPLETION", 0, -1, tokens)>>
TwoSlots          == <<T("COMPLETION", 0, 0, 1), T("COMPLETION", 0, 1, 1)>>
Embed             == <<T("EMBEDDING", 0, -1, 1)>>
Action(s)         == <<T("SLOT_ACTION", 0, s, 0)>>
Metric            == <<T("METRICS", 0, -1, 0)>>
Bad(q)            == [i \in DOMAIN q |-> [q[i] EXCEPT !.launches = FALSE]]

\* Requests whose prompts are neither empty nor too long.
GoodShapes    == {OnSlot(1, 2), Pair(1), TwoSlots, Embed}
CancelShapes  == {One(2), OnSlot(1, 1), Embed}
\* One of each kind, good and bad.
AllShapes     == {One(0), One(2), One(3), Pair(1), Bad(Pair(1)), Bad(One(1)), Embed,
                  Action(0), Metric}
\* What the runs that find a disagreement need.
EmptyParent   == {Pair(0)}
LongParent    == {Pair(3)}
ParentOrOne   == {One(1), Pair(1)}
WithAction    == {One(1), Action(0)}
HeadOfLine    == {One(1), Pair(1), Two(1)}
=============================================================================
