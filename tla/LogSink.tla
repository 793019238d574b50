------------------------------ MODULE LogSink ------------------------------
(***************************************************************************)
(* What common_log promises to a program: while the log is open, every     *)
(* message is accepted and is printed exactly once, in the order of        *)
(* acceptance; the log can be closed at any time and is opened again only  *)
(* when everything accepted before has been printed.                       *)
(***************************************************************************)
EXTENDS Naturals, Sequences

VARIABLES
  pending,   \* accepted, not yet printed
  printed,   \* printed, in order
  open       \* messages are accepted

svars == <<pending, printed, open>>

Init ==
  /\ pending = <<>>
  /\ printed = <<>>
  /\ open = TRUE

Accept ==
  /\ open
  /\ pending' = Append(pending, Len(printed) + Len(pending) + 1)
  /\ UNCHANGED <<printed, open>>

PrintNext ==
  /\ pending # <<>>
  /\ printed' = Append(printed, Head(pending))
  /\ pending' = Tail(pending)
  /\ UNCHANGED open

Close ==
  /\ open
  /\ open' = FALSE
  /\ UNCHANGED <<pending, printed>>

Reopen ==
  /\ ~open
  /\ pending = <<>>
  /\ open' = TRUE
  /\ UNCHANGED <<pending, printed>>

Next == Accept \/ PrintNext \/ Close \/ Reopen

Spec == Init /\ [][Next]_svars
=============================================================================
