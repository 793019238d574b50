----------------------------- MODULE CommonLog -----------------------------
(***************************************************************************)
(* The asynchronous log of common/log.cpp.                                 *)
(*                                                                         *)
(* Any thread calls add(), which stores a message in a ring of entries and *)
(* doubles the ring when the new tail meets the head.  One worker thread   *)
(* copies entries out and prints them with no lock held.  One control      *)
(* thread (pause and resume are documented as not thread safe) stops the   *)
(* worker with an end marker and joins it, either for common_log_pause(),  *)
(* to write to stdout itself, or inside set_file() and set_colors(), which *)
(* change what the worker reads without the lock and start it again.       *)
(*                                                                         *)
(* Every critical section of the code is one lock_guard from its first to  *)
(* its last statement, so it is one action.  A message is the number of    *)
(* its acceptance.  An entry keeps what it held before: a moved-from or    *)
(* consumed entry is not cleared by the code, and neither is its is_end    *)
(* flag.  Spurious wake-ups of cv.wait, which its predicate filters, are   *)
(* left out.                                                               *)
(*                                                                         *)
(* A definition Name_Variant is the mutated form of Name that the mutants  *)
(* of PROJECT.json put in its place.                                       *)
(***************************************************************************)
EXTENDS Naturals, Sequences

CONSTANTS
  InitialCapacity,   \* entries in the ring at the start: 256 in the code
  MaxMessages        \* bound: messages accepted in a behaviour

ASSUME CapacityAssumption == InitialCapacity \in Nat /\ InitialCapacity >= 2
ASSUME MessagesAssumption == MaxMessages \in Nat

VARIABLES
  entries,    \* the ring: [0 .. capacity - 1 -> entry]
  capacity,   \* entries.size()
  head,       \* next entry the worker takes
  tail,       \* next entry add() fills
  running,    \* add() accepts messages
  worker,     \* the worker thread: where it is
  cur,        \* the worker's copy of the entry it took
  control,    \* the control thread: where it is
  printed,    \* what the worker has printed, in order
  accepted    \* number of messages add() has stored

vars == <<entries, capacity, head, tail, running, worker, cur, control, printed, accepted>>

NoMsg == 0
Entry == [msg: 0 .. MaxMessages, is_end: BOOLEAN]
Blank == [msg |-> NoMsg, is_end |-> FALSE]

WorkerStates == {"none",      \* no thread: before resume() and after the join
                 "check",     \* about to lock and evaluate head != tail
                 "waiting",   \* blocked in cv.wait
                 "printing",  \* has copied an entry and released the lock
                 "done"}      \* left the loop at an end marker, joinable
ControlStates == {"idle",       \* runs the program
                  "join_pause",  \* thrd.join() in common_log_pause()
                  "join_change", \* thrd.join() in set_file() or set_colors()
                  "change"}      \* changes the file or the colors

(***************************************************************************)
(* The ring.                                                               *)
(***************************************************************************)
Step_NoWrap(i) == i + 1
Step(i) == (i + 1) % capacity

\* The end marker has been stored and the worker has not taken it yet.
MarkerStored == ~running /\ worker \in {"check", "waiting", "printing"}

\* Storing the end marker made tail meet head: the ring is full and the
\* worker's predicate head != tail sees an empty one.
MarkerOverran == MarkerStored /\ head = tail

\* Number of entries stored and not taken.
Stored ==
  IF MarkerOverran THEN capacity
  ELSE IF tail >= head THEN tail - head ELSE tail + capacity - head

\* The place of the k-th stored entry, counted from 0.
Place(k) == IF head + k < capacity THEN head + k ELSE head + k - capacity

\* Messages stored and not taken: all stored entries but the end marker.
Unread == IF MarkerStored THEN Stored - 1 ELSE Stored

Init ==
  /\ entries = [i \in 0 .. InitialCapacity - 1 |-> Blank]
  /\ capacity = InitialCapacity
  /\ head = 0
  /\ tail = 0
  /\ running = TRUE
  /\ worker = "check"
  /\ cur = Blank
  /\ control = "idle"
  /\ printed = <<>>
  /\ accepted = 0

Notified_None == worker
Notified == IF worker = "waiting" THEN "check" ELSE worker

\* The entries after the doubling: the old ones from head on, moved to the
\* front, then fresh ones.
Doubled_FromZero(full) ==
  [i \in 0 .. 2 * capacity - 1 |-> IF i < capacity THEN full[i] ELSE Blank]
Doubled(full) ==
  [i \in 0 .. 2 * capacity - 1 |-> IF i < capacity THEN full[Place(i)] ELSE Blank]

(***************************************************************************)
(* common_log::add by any thread, while the log is running; otherwise the  *)
(* message is discarded and nothing changes.                               *)
(***************************************************************************)
Add_KeepsEnd ==
  /\ running
  /\ accepted < MaxMessages
  /\ accepted' = accepted + 1
  /\ LET full == [entries EXCEPT ![tail] = [msg |-> accepted + 1, is_end |-> entries[tail].is_end]]
     IN  IF Step(tail) = head
         THEN /\ entries' = Doubled(full)
              /\ capacity' = 2 * capacity
              /\ head' = 0
              /\ tail' = capacity
         ELSE /\ entries' = full
              /\ tail' = Step(tail)
              /\ UNCHANGED <<capacity, head>>
  /\ worker' = Notified
  /\ UNCHANGED <<running, cur, control, printed>>

Add ==
  /\ running
  /\ accepted < MaxMessages
  /\ accepted' = accepted + 1
  /\ LET full == [entries EXCEPT ![tail] = [msg |-> accepted + 1, is_end |-> FALSE]]
     IN  IF Step(tail) = head
         THEN /\ entries' = Doubled(full)
              /\ capacity' = 2 * capacity
              /\ head' = 0
              /\ tail' = capacity
         ELSE /\ entries' = full
              /\ tail' = Step(tail)
              /\ UNCHANGED <<capacity, head>>
  /\ worker' = Notified
  /\ UNCHANGED <<running, cur, control, printed>>

(***************************************************************************)
(* The worker thread.                                                      *)
(***************************************************************************)
\* cv.wait: the predicate is false, the lock is released.
WorkerWait ==
  /\ worker = "check"
  /\ head = tail
  /\ worker' = "waiting"
  /\ UNCHANGED <<entries, capacity, head, tail, running, cur, control, printed, accepted>>

\* The predicate holds: copy the entry, advance, unlock; stop at a marker.
WorkerTake ==
  /\ worker = "check"
  /\ head # tail
  /\ cur' = entries[head]
  /\ head' = Step(head)
  /\ worker' = IF entries[head].is_end THEN "done" ELSE "printing"
  /\ UNCHANGED <<entries, capacity, tail, running, control, printed, accepted>>

\* Print the copy, with no lock held, and go back to the wait.
WorkerPrint ==
  /\ worker = "printing"
  /\ printed' = Append(printed, cur.msg)
  /\ worker' = "check"
  /\ UNCHANGED <<entries, capacity, head, tail, running, cur, control, accepted>>

(***************************************************************************)
(* The control thread.                                                     *)
(***************************************************************************)
\* pause() on a running log: mark the entry at tail, whatever it holds, and
\* advance without looking for room; "next" is the join it goes to.
StoreMarker_Silent(next) ==
  /\ control = "idle"
  /\ running
  /\ running' = FALSE
  /\ entries' = [entries EXCEPT ![tail] = [msg |-> entries[tail].msg, is_end |-> TRUE]]
  /\ tail' = Step(tail)
  /\ worker' = worker
  /\ control' = next
  /\ UNCHANGED <<capacity, head, cur, printed, accepted>>

StoreMarker(next) ==
  /\ control = "idle"
  /\ running
  /\ running' = FALSE
  /\ entries' = [entries EXCEPT ![tail] = [msg |-> entries[tail].msg, is_end |-> TRUE]]
  /\ tail' = Step(tail)
  /\ worker' = Notified
  /\ control' = next
  /\ UNCHANGED <<capacity, head, cur, printed, accepted>>

Pause == StoreMarker("join_pause")
BeginChange == StoreMarker("join_change")

\* set_file() or set_colors() on a paused log: pause() returns at once.
BeginChangePaused ==
  /\ control = "idle"
  /\ ~running
  /\ control' = "change"
  /\ UNCHANGED <<entries, capacity, head, tail, running, worker, cur, printed, accepted>>

Join_NoWait ==
  /\ control \in {"join_pause", "join_change"}
  /\ worker' = worker
  /\ control' = IF control = "join_pause" THEN "idle" ELSE "change"
  /\ UNCHANGED <<entries, capacity, head, tail, running, cur, printed, accepted>>

Join ==
  /\ control \in {"join_pause", "join_change"}
  /\ worker = "done"
  /\ worker' = "none"
  /\ control' = IF control = "join_pause" THEN "idle" ELSE "change"
  /\ UNCHANGED <<entries, capacity, head, tail, running, cur, printed, accepted>>

\* resume(): accept messages and start a worker.
StartWorker ==
  /\ ~running
  /\ running' = TRUE
  /\ worker' = "check"
  /\ control' = "idle"
  /\ UNCHANGED <<entries, capacity, head, tail, cur, printed, accepted>>

Resume == control = "idle" /\ StartWorker
EndChange == control = "change" /\ StartWorker

Worker == WorkerWait \/ WorkerTake \/ WorkerPrint
Control == Pause \/ BeginChange \/ BeginChangePaused \/ Join \/ Resume \/ EndChange
Next == Add \/ Worker \/ Control

(***************************************************************************)
(* The operating system schedules both threads, and a terminal or a file   *)
(* takes what is printed; nothing obliges the program to call pause or     *)
(* resume.                                                                 *)
(***************************************************************************)
Fairness == WF_vars(Worker) /\ WF_vars(Join) /\ WF_vars(EndChange)

Spec == Init /\ [][Next]_vars
FairSpec == Spec /\ Fairness

(***************************************************************************)
(* Properties.                                                             *)
(***************************************************************************)
TypeOK ==
  /\ capacity \in Nat /\ capacity >= 2
  /\ entries \in [0 .. capacity - 1 -> Entry]
  /\ head \in 0 .. capacity - 1
  /\ tail \in 0 .. capacity - 1
  /\ running \in BOOLEAN
  /\ worker \in WorkerStates
  /\ cur \in Entry
  /\ control \in ControlStates
  /\ printed \in Seq(1 .. MaxMessages)
  /\ accepted \in 0 .. MaxMessages

\* Messages the worker has taken out of the ring.
Taken == Len(printed) + (IF worker = "printing" THEN 1 ELSE 0)

\* Every message accepted is, exactly once and in its order, printed, in the
\* hands of the worker, or in the ring, across wrap-around and doubling; no
\* entry but a stored marker reads as one (add, resume).
NothingDropped ==
  /\ \A i \in 1 .. Len(printed) : printed[i] = i
  /\ worker = "printing" => cur.msg = Len(printed) + 1 /\ ~cur.is_end
  /\ Taken + Unread = accepted
  /\ \A k \in 0 .. capacity - 1 : k < Unread =>
       entries[Place(k)] = [msg |-> Taken + k + 1, is_end |-> FALSE]
  /\ MarkerStored => Unread >= 0 /\ entries[Place(Unread)].is_end

\* When pause() has returned, the worker is gone and everything accepted is
\* printed: the caller has stdout for itself (setup_child_server) and may
\* close the file the worker wrote to (set_file).
QuietWhilePaused ==
  ~running /\ control \in {"idle", "change"} =>
    worker = "none" /\ Len(printed) = accepted

\* Every message is printed, unless the marker of a pause overran the ring.
MessagesArePrinted ==
  \A n \in 1 .. MaxMessages :
    accepted >= n ~> (Len(printed) >= n \/ MarkerOverran)

\* pause() returns, unless its marker overran the ring.
PauseReturns ==
  control \in {"join_pause", "join_change"} ~>
    (control \notin {"join_pause", "join_change"} \/ MarkerOverran)

\* Nobody waits for ever for the log, unless the marker of a pause overran
\* the ring.
LogGoesOn == MessagesArePrinted /\ PauseReturns

\* "push an entry to signal the worker thread to stop" (log.cpp:293): the
\* worker of a paused log stops.
MarkerStopsWorker == MarkerStored ~> ~MarkerStored

\* The ring implements the promise of the log: pending messages are the one
\* the worker holds and those in the ring.
PendingMessages ==
  [i \in 1 .. (Taken - Len(printed)) + Unread |->
     IF i <= Taken - Len(printed) THEN cur.msg
     ELSE entries[Place(i - 1 - (Taken - Len(printed)))].msg]

Sink == INSTANCE LogSink WITH pending <- PendingMessages, open <- running
ImplementsLogSink == Sink!Spec

=============================================================================
