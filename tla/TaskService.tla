---------------------------- MODULE TaskService ----------------------------
(***************************************************************************)
(* What the inference side of llama-server promises to an HTTP handler     *)
(* that posts tasks and reads their results: a task is accepted once, runs *)
(* at most once and on a slot, is answered at most once, and is forgotten  *)
(* without an answer only if its client has left or a task of the same     *)
(* request has failed.  ServerSlots implements it.                         *)
(***************************************************************************)
EXTENDS Integers, FiniteSets

CONSTANTS
    Requests,
    MaxTasks,       \* tasks of one request
    NSlots

VARIABLES
    phase,          \* of every task
    client          \* of every request

vars == <<phase, client>>

Tasks == Requests \X (1 .. MaxTasks)

Phases == {"none", "pending", "running", "ok", "error", "dropped"}

Of(r)    == {t \in Tasks : t[1] = r}
Running  == {t \in Tasks : phase[t] = "running"}

TypeOK ==
    /\ phase \in [Tasks -> Phases]
    /\ client \in [Requests -> {"new", "waiting", "left"}]
    /\ Cardinality(Running) <= NSlots

Init ==
    /\ phase = [t \in Tasks |-> "none"]
    /\ client = [r \in Requests |-> "new"]

\* A handler posts all tasks of its request at once.
Submit(r) ==
    /\ client[r] = "new"
    /\ client' = [client EXCEPT ![r] = "waiting"]
    /\ \E n \in 1 .. MaxTasks :
           phase' = [t \in Tasks |-> IF t[1] = r /\ t[2] <= n THEN "pending"
                                                              ELSE phase[t]]

\* Tasks that share a prompt start together; the others start alone.
Start(r) ==
    \E S \in SUBSET {t \in Of(r) : phase[t] = "pending"} :
        /\ S # {}
        /\ Cardinality(Running \cup S) <= NSlots
        /\ phase' = [t \in Tasks |-> IF t \in S THEN "running" ELSE phase[t]]
        /\ UNCHANGED client

\* A task that needs no slot, or is refused one, is answered while pending.
Answer(t) ==
    /\ phase[t] \in {"pending", "running"}
    /\ \E a \in {"ok", "error"} : phase' = [phase EXCEPT ![t] = a]
    /\ UNCHANGED client

\* The client leaves: with its answers, with an error, or without either.
Leave(r) ==
    /\ client[r] = "waiting"
    /\ client' = [client EXCEPT ![r] = "left"]
    /\ UNCHANGED phase

\* Unanswered tasks are given up, with the failure of one if that is why.
Drop(r) ==
    \E S \in SUBSET {t \in Of(r) : phase[t] \in {"pending", "running"}},
       F \in SUBSET Of(r) :
        /\ Cardinality(F) <= 1
        /\ F \subseteq S
        /\ \/ client[r] = "left"
           \/ \E t \in Of(r) : phase[t] = "error" \/ t \in F
        /\ phase' = [t \in Tasks |-> IF t \in F THEN "error"
                                     ELSE IF t \in S THEN "dropped"
                                     ELSE phase[t]]
        /\ UNCHANGED client

Next ==
    \/ \E r \in Requests : Submit(r) \/ Start(r) \/ Leave(r) \/ Drop(r)
    \/ \E t \in Tasks : Answer(t)

Spec == Init /\ [][Next]_vars
=============================================================================
