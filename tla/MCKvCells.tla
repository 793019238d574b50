------------------------------ MODULE MCKvCells ------------------------------
(* Instances of KvCells: the set-ups of the runs. *)
EXTENDS KvCells, TLC

Setup(window, uses) ==
    [window |-> window] @@ [u \in {"copies", "shifts", "drafts", "repeats", "fails"} |-> u \in uses]

\* a sliding window;  a full cache with context shifts;  one with copies
MCSound   == {Setup(2, {}),
              Setup(0, {"shifts", "drafts", "repeats", "fails"}),
              Setup(0, {"copies", "drafts", "repeats", "fails"})}
\* a full cache with copies and context shifts
MCShared  == {Setup(0, {"copies", "shifts"})}
\* a sliding window with copies, with repeated prompts, with drafts, with
\* computations that fail
MCCopies  == {Setup(2, {"copies"})}
MCRepeats == {Setup(3, {"repeats"})}
MCDrafts  == {Setup(2, {"drafts"})}
MCFails   == {Setup(3, {"fails"})}
=============================================================================
