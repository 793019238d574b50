-------------------------- MODULE CommonLogProofs --------------------------
(***************************************************************************)
(* The ring of common_log keeps every message exactly once and in order    *)
(* and implements LogSink, for every initial capacity and any number of    *)
(* messages, growths, pauses and resumes.                                  *)
(***************************************************************************)
EXTENDS CommonLog, Integers, SequenceTheorems, TLAPS

(***************************************************************************)
(* The threads' places that the program can be in: a running log has a     *)
(* worker and an idle control thread, a join has a worker to wait for, and *)
(* after the join there is none.                                           *)
(***************************************************************************)
Phases ==
  /\ running => worker \in {"check", "waiting", "printing"} /\ control = "idle"
  /\ control \in {"join_pause", "join_change"} => ~running /\ worker # "none"
  /\ ~running /\ control \in {"idle", "change"} => worker = "none"
  /\ worker = "none" \/ worker = "done" => head = tail

IInv == TypeOK /\ Phases /\ NothingDropped

\* The index after i, without the modulus.
LEMMA StepIs ==
  ASSUME capacity \in Nat, capacity >= 2, NEW i \in 0 .. capacity - 1
  PROVE  Step(i) = IF i + 1 = capacity THEN 0 ELSE i + 1
  BY SMTT(30) DEF Step

LEMMA PlaceInRange ==
  ASSUME TypeOK, NEW k \in 0 .. capacity - 1
  PROVE  Place(k) \in 0 .. capacity - 1
  BY DEF TypeOK, Place

LEMMA Ranges ==
  IInv => /\ Stored \in 0 .. capacity
          /\ Unread \in 0 .. capacity
          /\ Taken \in Nat
          /\ Len(printed) \in Nat
          /\ Taken + Unread = accepted
          /\ capacity \in Nat
<1> SUFFICES ASSUME IInv
             PROVE  /\ Stored \in 0 .. capacity
                    /\ Unread \in 0 .. capacity
                    /\ Taken \in Nat
                    /\ Len(printed) \in Nat
                    /\ Taken + Unread = accepted
                    /\ capacity \in Nat
  OBVIOUS
<1>1. Stored \in 0 .. capacity
  BY DEF IInv, TypeOK, Stored
<1>2. Unread \in Int /\ (~MarkerStored => Unread >= 0) /\ Unread <= capacity
  BY <1>1 DEF Unread, IInv, TypeOK
<1>3. MarkerStored => Unread >= 0
  BY DEF IInv, NothingDropped
<1>4. Len(printed) \in Nat
  BY DEF IInv, TypeOK
<1>5. Taken \in Nat
  BY <1>4 DEF Taken
<1>6. Taken + Unread = accepted
  BY DEF IInv, NothingDropped
<1> QED BY <1>1, <1>2, <1>3, <1>4, <1>5, <1>6 DEF IInv, TypeOK

LEMMA InitIInv == Init => IInv
  BY CapacityAssumption, MessagesAssumption
  DEF Init, IInv, TypeOK, Phases, NothingDropped, Entry, Blank, NoMsg, WorkerStates,
      ControlStates, Taken, Unread, Stored, MarkerStored, MarkerOverran, Place

(***************************************************************************)
(* One lemma per kind of step.                                             *)
(***************************************************************************)
LEMMA AddKeeps == IInv /\ Add => IInv'
<1> SUFFICES ASSUME IInv, Add PROVE IInv'
  OBVIOUS
<1> USE MessagesAssumption
<1>1. Step(tail) = IF tail + 1 = capacity THEN 0 ELSE tail + 1
  BY StepIs DEF IInv, TypeOK
<1>2. MarkerStored = FALSE /\ MarkerStored' = FALSE /\ worker' \in WorkerStates
  BY DEF IInv, Phases, Add, MarkerStored, Notified, WorkerStates
<1>3. Phases'
  BY <1>1, <1>2 DEF IInv, Phases, TypeOK, Add, Notified
<1>4. Taken' = Taken
  BY DEF IInv, Phases, Add, Taken, Notified
<1>5. CASE Step(tail) = head
  <2>1. /\ capacity' = 2 * capacity /\ head' = 0 /\ tail' = capacity
        /\ \A i \in 0 .. 2 * capacity - 1 :
             entries'[i] = IF i < capacity
                           THEN (IF Place(i) = tail THEN [msg |-> accepted + 1, is_end |-> FALSE]
                                 ELSE entries[Place(i)])
                           ELSE Blank
    BY <1>5, PlaceInRange DEF Add, Doubled, IInv, TypeOK
  <2>2. TypeOK'
    <3>1. \A i \in 0 .. capacity' - 1 : entries'[i] \in Entry
      <4> SUFFICES ASSUME NEW i \in 0 .. 2 * capacity - 1 PROVE entries'[i] \in Entry
        BY <2>1
      <4>1. Blank \in Entry /\ [msg |-> accepted + 1, is_end |-> FALSE] \in Entry
        BY DEF Add, IInv, TypeOK, Entry, Blank, NoMsg
      <4>2. i < capacity => entries[Place(i)] \in Entry
        BY PlaceInRange DEF IInv, TypeOK
      <4> QED BY <2>1, <4>1, <4>2
    <3>2. entries' = [i \in 0 .. capacity' - 1 |-> entries'[i]]
      BY <1>5, <2>1 DEF Add, Doubled, IInv, TypeOK
    <3>3. entries' \in [0 .. capacity' - 1 -> Entry]
      BY <3>1, <3>2
    <3> QED BY <1>2, <2>1, <3>3 DEF Add, IInv, TypeOK
  <2>3. Stored = capacity - 1 /\ Stored' = capacity
    BY <1>1, <1>2, <1>5, <2>1 DEF Stored, MarkerOverran, IInv, TypeOK
  <2>4. Unread = capacity - 1 /\ Unread' = capacity
    BY <1>2, <2>3 DEF Unread
  <2>5. \A k \in 0 .. capacity' - 1 : k < Unread' =>
          entries'[Place(k)'] = [msg |-> Taken' + k + 1, is_end |-> FALSE]
    <3> SUFFICES ASSUME NEW k \in 0 .. capacity - 1
                 PROVE  entries'[k] = [msg |-> Taken + k + 1, is_end |-> FALSE]
      BY <1>4, <2>1, <2>4 DEF Place, IInv, TypeOK
    <3>1. CASE k < capacity - 1
      <4>1. Place(k) # tail
        BY <1>1, <1>5, <3>1 DEF Place, IInv, TypeOK
      <4> QED BY <2>1, <2>4, <3>1, <4>1 DEF IInv, TypeOK, NothingDropped
    <3>2. CASE k = capacity - 1
      <4>1. Place(k) = tail
        BY <1>1, <1>5, <3>2 DEF Place, IInv, TypeOK
      <4>2. accepted = Taken + k
        BY <2>4, <3>2, Ranges
      <4> QED BY <2>1, <4>1, <4>2 DEF IInv, TypeOK
    <3> QED BY <3>1, <3>2 DEF IInv, TypeOK
  <2>6. NothingDropped'
    <3>1. /\ printed' = printed /\ cur' = cur /\ accepted' = accepted + 1
          /\ worker' = "printing" <=> worker = "printing"
      BY DEF Add, Notified
    <3>2. \A i \in 1 .. Len(printed') : printed'[i] = i
      BY <3>1 DEF IInv, NothingDropped
    <3>3. worker' = "printing" => cur'.msg = Len(printed') + 1 /\ ~cur'.is_end
      BY <3>1 DEF IInv, NothingDropped
    <3>4. Taken' + Unread' = accepted'
      BY <1>4, <2>4, <3>1, Ranges
    <3> QED BY <1>2, <1>4, <3>2, <3>3, <3>4, <2>5 DEF NothingDropped
  <2> QED BY <1>3, <2>2, <2>6 DEF IInv
<1>6. CASE Step(tail) # head
  <2>1. /\ capacity' = capacity /\ head' = head /\ tail' = Step(tail)
        /\ entries' = [entries EXCEPT ![tail] = [msg |-> accepted + 1, is_end |-> FALSE]]
    BY <1>6 DEF Add
  <2>2. TypeOK'
    BY <1>1, <1>2, <2>1 DEF Add, IInv, TypeOK, Entry
  <2>3. Stored' = Stored + 1 /\ Stored < capacity /\ Place(Stored) = tail
    BY <1>1, <1>2, <1>6, <2>1 DEF Stored, MarkerOverran, IInv, TypeOK, Place
  <2>4. Unread = Stored /\ Unread' = Unread + 1 /\ \A k : Place(k)' = Place(k)
    BY <1>2, <2>1, <2>3 DEF Unread, Place
  <2>5. \A k \in 0 .. capacity - 1 : k < Unread => Place(k) # tail
    BY <2>3, <2>4 DEF Place, IInv, TypeOK
  <2>6. \A k \in 0 .. capacity - 1 : k < Unread' =>
          entries'[Place(k)] = [msg |-> Taken + k + 1, is_end |-> FALSE]
    <3> SUFFICES ASSUME NEW k \in 0 .. capacity - 1, k < Unread'
                 PROVE  entries'[Place(k)] = [msg |-> Taken + k + 1, is_end |-> FALSE]
      OBVIOUS
    <3>1. CASE k < Unread
      BY <2>1, <2>5, <3>1, PlaceInRange DEF IInv, TypeOK, NothingDropped
    <3>2. CASE k = Unread
      BY <2>1, <2>3, <2>4, <3>2, Ranges DEF IInv, TypeOK
    <3> QED BY <2>4, <3>1, <3>2, Ranges DEF IInv, TypeOK
  <2>7. NothingDropped'
    <3>1. /\ printed' = printed /\ cur' = cur /\ accepted' = accepted + 1
          /\ worker' = "printing" <=> worker = "printing"
      BY DEF Add, Notified
    <3>2. \A i \in 1 .. Len(printed') : printed'[i] = i
      BY <3>1 DEF IInv, NothingDropped
    <3>3. worker' = "printing" => cur'.msg = Len(printed') + 1 /\ ~cur'.is_end
      BY <3>1 DEF IInv, NothingDropped
    <3>4. Taken' + Unread' = accepted'
      BY <1>4, <2>4, <3>1, Ranges
    <3> QED BY <1>2, <1>4, <2>1, <2>4, <3>2, <3>3, <3>4, <2>6 DEF NothingDropped
  <2> QED BY <1>3, <2>2, <2>7 DEF IInv
<1> QED BY <1>5, <1>6

LEMMA TakeKeeps == IInv /\ WorkerTake => IInv'
<1> SUFFICES ASSUME IInv, WorkerTake PROVE IInv'
  OBVIOUS
<1>1. Step(head) = IF head + 1 = capacity THEN 0 ELSE head + 1
  BY StepIs DEF IInv, TypeOK
<1>2. Place(0) = head /\ Stored \in 1 .. capacity - 1
  BY DEF IInv, TypeOK, Place, Stored, MarkerOverran, WorkerTake
<1>3. entries[head].is_end <=> MarkerStored /\ Unread = 0
  <2>1. CASE Unread = 0
    <3>1. MarkerStored
      BY <1>2, <2>1 DEF Unread, IInv, TypeOK
    <3> QED BY <1>2, <2>1, <3>1 DEF IInv, NothingDropped
  <2>2. CASE Unread > 0
    <3>1. entries[Place(0)] = [msg |-> Taken + 0 + 1, is_end |-> FALSE]
      BY <2>2, Ranges DEF IInv, NothingDropped, TypeOK
    <3> QED BY <1>2, <2>2, <3>1
  <2> QED BY <2>1, <2>2, Ranges DEF IInv, TypeOK
<1>4. TypeOK'
  BY <1>1 DEF IInv, TypeOK, WorkerTake, WorkerStates
<1>5. CASE entries[head].is_end
  <2>1. head' = tail' /\ worker' = "done" /\ MarkerStored' = FALSE
    BY <1>1, <1>2, <1>3, <1>5
    DEF IInv, TypeOK, WorkerTake, Stored, MarkerOverran, MarkerStored, Unread
  <2>2. Phases'
    BY <1>3, <1>5, <2>1 DEF IInv, Phases, WorkerTake, MarkerStored
  <2>3. NothingDropped'
    BY <1>2, <1>3, <1>5, <2>1
    DEF IInv, TypeOK, NothingDropped, WorkerTake, Taken, Unread, Stored, MarkerOverran
  <2> QED BY <1>4, <2>2, <2>3 DEF IInv
<1>6. CASE ~entries[head].is_end
  <2>1. /\ worker' = "printing" /\ cur' = entries[head] /\ head' = Step(head)
        /\ MarkerStored' = MarkerStored
    BY <1>6 DEF WorkerTake, MarkerStored
  <2>2. Phases'
    BY <2>1 DEF IInv, Phases, WorkerTake
  <2>3. Unread >= 1 /\ Unread' = Unread - 1
    BY <1>1, <1>2, <1>3, <1>6, <2>1
    DEF IInv, TypeOK, NothingDropped, Unread, Stored, MarkerOverran, MarkerStored, WorkerTake
  <2>4. \A k \in 0 .. capacity - 2 : Place(k)' = Place(k + 1)
    BY <1>1, <2>1 DEF Place, IInv, TypeOK, WorkerTake
  <2>5. Taken' = Taken + 1 /\ Taken = Len(printed)
    BY <2>1 DEF Taken, IInv, TypeOK, WorkerTake
  <2>6. cur'.msg = Len(printed) + 1 /\ ~cur'.is_end
    <3>1. entries[Place(0)] = [msg |-> Taken + 0 + 1, is_end |-> FALSE]
      BY <2>3, Ranges DEF IInv, NothingDropped, TypeOK
    <3> QED BY <1>2, <2>1, <2>5, <3>1, Ranges
  <2>7. Unread \in 1 .. capacity - 1
    BY <1>2, <2>3 DEF Unread, IInv, TypeOK
  <2>8. \A k \in 0 .. capacity - 1 : k < Unread' =>
          entries[Place(k)'] = [msg |-> Taken' + k + 1, is_end |-> FALSE]
    BY <2>3, <2>4, <2>5, <2>7 DEF IInv, NothingDropped, TypeOK
  <2>9. MarkerStored' => (Unread >= 0 /\ entries[Place(Unread)].is_end)'
    <3>1. Unread \in 1 .. capacity - 1 /\ Unread' = Unread - 1
      BY <2>3, <2>7
    <3>2. Place(Unread)' = Place(Unread)
      BY <1>1, <2>1, <3>1 DEF Place, WorkerTake, IInv, TypeOK
    <3>3. MarkerStored => entries[Place(Unread)].is_end
      BY DEF IInv, NothingDropped
    <3>4. entries' = entries
      BY DEF WorkerTake
    <3>5. Unread' >= 0
      BY <3>1, Ranges
    <3> QED BY <2>1, <3>2, <3>3, <3>4, <3>5
  <2>10. NothingDropped'
    <3>1. /\ printed' = printed /\ accepted' = accepted /\ entries' = entries
          /\ capacity' = capacity /\ Taken' + Unread' = accepted
      BY <2>3, <2>5, Ranges DEF WorkerTake
    <3>2. \A i \in 1 .. Len(printed') : printed'[i] = i
      BY <3>1 DEF IInv, NothingDropped
    <3>3. worker' = "printing" => cur'.msg = Len(printed') + 1 /\ ~cur'.is_end
      BY <2>6, <3>1
    <3> QED BY <2>8, <2>9, <3>1, <3>2, <3>3 DEF NothingDropped
  <2> QED BY <1>4, <2>2, <2>10 DEF IInv
<1> QED BY <1>5, <1>6

LEMMA WaitKeeps == IInv /\ WorkerWait => IInv'
<1> SUFFICES ASSUME IInv, WorkerWait PROVE IInv'
  OBVIOUS
<1>1. MarkerStored' = MarkerStored /\ Unread' = Unread /\ \A k : Place(k)' = Place(k)
  BY DEF WorkerWait, MarkerStored, Unread, Stored, MarkerOverran, Place
<1>2. Taken' = Taken
  BY DEF WorkerWait, Taken
<1>3. TypeOK' /\ Phases'
  BY DEF IInv, TypeOK, Phases, WorkerWait, WorkerStates
<1>4. NothingDropped'
  BY <1>1, <1>2 DEF IInv, NothingDropped, WorkerWait
<1> QED BY <1>3, <1>4 DEF IInv

LEMMA PrintKeeps == IInv /\ WorkerPrint => IInv'
<1> SUFFICES ASSUME IInv, WorkerPrint PROVE IInv'
  OBVIOUS
<1> USE MessagesAssumption
<1>1. MarkerStored' = MarkerStored /\ Unread' = Unread /\ \A k : Place(k)' = Place(k)
  BY DEF WorkerPrint, MarkerStored, Unread, Stored, MarkerOverran, Place
<1>2. Taken' = Taken /\ Len(printed') = Len(printed) + 1
  BY DEF WorkerPrint, Taken, IInv, TypeOK
<1>3. cur.msg = Len(printed) + 1
  BY DEF WorkerPrint, IInv, NothingDropped
<1>4. Taken = Len(printed) + 1
  BY DEF WorkerPrint, Taken
<1>5. cur.msg \in 1 .. MaxMessages
  BY <1>3, <1>4, Ranges DEF IInv, TypeOK
<1>6. TypeOK'
  BY <1>5 DEF IInv, TypeOK, WorkerPrint, WorkerStates
<1>7. Phases'
  BY DEF IInv, Phases, WorkerPrint
<1>8. NothingDropped'
  BY <1>1, <1>2, <1>3 DEF IInv, NothingDropped, TypeOK, WorkerPrint
<1> QED BY <1>6, <1>7, <1>8 DEF IInv

LEMMA MarkerKeeps ==
  ASSUME IInv, NEW next \in {"join_pause", "join_change"}, StoreMarker(next)
  PROVE  IInv'
<1>1. Step(tail) = IF tail + 1 = capacity THEN 0 ELSE tail + 1
  BY StepIs DEF IInv, TypeOK
<1>2. /\ ~MarkerStored /\ MarkerStored' /\ worker' \in {"check", "printing"}
      /\ worker' = "printing" <=> worker = "printing"
  BY DEF IInv, Phases, StoreMarker, MarkerStored, Notified
<1>3. TypeOK'
  <2>1. entries[tail].msg \in 0 .. MaxMessages
    BY DEF IInv, TypeOK, Entry
  <2>2. entries' \in [0 .. capacity - 1 -> Entry]
    BY <2>1 DEF IInv, TypeOK, StoreMarker, Entry
  <2>3. /\ tail' = Step(tail) /\ running' = FALSE /\ control' = next
        /\ UNCHANGED <<capacity, head, cur, printed, accepted>>
    BY DEF StoreMarker
  <2>4. worker' \in WorkerStates /\ control' \in ControlStates
    BY <1>2, <2>3 DEF WorkerStates, ControlStates
  <2>5. tail' \in 0 .. capacity' - 1 /\ head' \in 0 .. capacity' - 1
    BY <1>1, <2>3 DEF IInv, TypeOK
  <2>6. /\ capacity' \in Nat /\ capacity' >= 2 /\ cur' \in Entry
        /\ printed' \in Seq(1 .. MaxMessages) /\ accepted' \in 0 .. MaxMessages
        /\ running' \in BOOLEAN
    BY <2>3 DEF IInv, TypeOK
  <2>7. entries' \in [0 .. capacity' - 1 -> Entry]
    BY <2>2, <2>3
  <2> QED BY <2>4, <2>5, <2>6, <2>7 DEF TypeOK, Entry, WorkerStates, ControlStates
<1>4. Phases'
  BY <1>2 DEF IInv, Phases, StoreMarker
<1>5. Unread = Stored /\ Stored' = Stored + 1 /\ Unread' = Unread /\ Place(Stored) = tail
      /\ Stored \in 0 .. capacity - 1
  <2>1. Unread = Stored /\ Stored = IF tail >= head THEN tail - head ELSE tail + capacity - head
    BY <1>2 DEF Unread, Stored, MarkerOverran
  <2>2. tail' = Step(tail) /\ head' = head /\ capacity' = capacity
    BY DEF StoreMarker
  <2>3. MarkerOverran' = (head = tail')
    BY <1>2, <2>2 DEF MarkerOverran
  <2>4. Stored' = Stored + 1
    <3>1. CASE head = tail'
      <4>1. Stored' = capacity
        BY <2>2, <2>3, <3>1 DEF Stored
      <4> QED BY <1>1, <2>1, <2>2, <3>1, <4>1 DEF IInv, TypeOK
    <3>2. CASE head # tail'
      <4>1. Stored' = IF tail' >= head THEN tail' - head ELSE tail' + capacity - head
        BY <2>2, <2>3, <3>2 DEF Stored
      <4> QED BY <1>1, <2>1, <2>2, <3>2, <4>1 DEF IInv, TypeOK
    <3> QED BY <3>1, <3>2
  <2>5. Stored \in 0 .. capacity - 1 /\ Place(Stored) = tail
    BY <2>1 DEF IInv, TypeOK, Place
  <2> QED BY <1>2, <2>1, <2>4, <2>5 DEF Unread, IInv, TypeOK
<1>6. Taken' = Taken /\ \A k : Place(k)' = Place(k)
  BY <1>2 DEF StoreMarker, Taken, Place
<1>7. \A k \in 0 .. capacity - 1 : k < Unread => Place(k) # tail
  BY <1>5 DEF IInv, TypeOK, Place
<1>8. NothingDropped'
  BY <1>2, <1>5, <1>6, <1>7, PlaceInRange DEF IInv, NothingDropped, TypeOK, StoreMarker
<1> QED BY <1>3, <1>4, <1>8 DEF IInv

LEMMA ControlKeeps ==
  IInv /\ (BeginChangePaused \/ Join \/ Resume \/ EndChange) => IInv'
<1> SUFFICES ASSUME IInv, BeginChangePaused \/ Join \/ Resume \/ EndChange
             PROVE  IInv'
  OBVIOUS
<1>1. ~running /\ ~MarkerStored /\ ~MarkerStored' /\ head = tail
      /\ worker # "printing" /\ worker' # "printing"
  BY DEF IInv, Phases, BeginChangePaused, Join, Resume, EndChange, StartWorker, MarkerStored
<1>2. TypeOK' /\ Phases'
  BY DEF IInv, TypeOK, Phases, BeginChangePaused, Join, Resume, EndChange, StartWorker,
         WorkerStates, ControlStates
<1>3. NothingDropped'
  BY <1>1 DEF IInv, TypeOK, NothingDropped, BeginChangePaused, Join, Resume, EndChange,
              StartWorker, Taken, Unread, Stored, MarkerOverran, Place
<1> QED BY <1>2, <1>3 DEF IInv

LEMMA NextIInv == IInv /\ [Next]_vars => IInv'
<1> SUFFICES ASSUME IInv, [Next]_vars PROVE IInv'
  OBVIOUS
<1>1. CASE UNCHANGED vars
  BY <1>1 DEF IInv, vars, TypeOK, Phases, NothingDropped, Taken, Unread, Stored,
              MarkerStored, MarkerOverran, Place
<1>2. CASE Pause \/ BeginChange
  BY <1>2, MarkerKeeps DEF Pause, BeginChange
<1> QED
  BY <1>1, <1>2, AddKeeps, TakeKeeps, WaitKeeps, PrintKeeps, ControlKeeps
  DEF Next, Worker, Control

LEMMA AlwaysIInv == Spec => []IInv
  BY InitIInv, NextIInv, PTL DEF Spec

(***************************************************************************)
(* The state of the log is always well formed.                             *)
(***************************************************************************)
THEOREM TypeCorrect == Spec => []TypeOK
  BY AlwaysIInv, PTL DEF IInv

(***************************************************************************)
(* Nothing accepted is lost, duplicated or reordered, whatever the ring's  *)
(* capacity and however often it wraps around or doubles (add, the worker  *)
(* loop, pause).                                                           *)
(***************************************************************************)
THEOREM RingFaithful == Spec => []NothingDropped
  BY AlwaysIInv, PTL DEF IInv

(***************************************************************************)
(* A pause that has returned leaves no worker and nothing unprinted.       *)
(***************************************************************************)
THEOREM PauseFlushes == Spec => []QuietWhilePaused
<1>1. IInv => QuietWhilePaused
  <2> SUFFICES ASSUME IInv, ~running, control \in {"idle", "change"}
               PROVE  worker = "none" /\ Len(printed) = accepted
    BY DEF QuietWhilePaused
  <2>1. worker = "none" /\ head = tail /\ ~MarkerStored
    BY DEF IInv, Phases, MarkerStored
  <2>2. Unread = 0 /\ Taken = Len(printed)
    BY <2>1 DEF Unread, Stored, MarkerOverran, Taken, IInv, TypeOK
  <2> QED BY <2>1, <2>2, Ranges
<1> QED BY <1>1, AlwaysIInv, PTL

(***************************************************************************)
(* Refinement: the pending messages are the numbers after the last printed *)
(* one, so a step changes them only through accepted and printed.          *)
(***************************************************************************)
Numbers(lo, n) == [i \in 1 .. n |-> lo + i]

LEMMA PendingIs ==
  ASSUME IInv
  PROVE  /\ PendingMessages = Numbers(Len(printed), accepted - Len(printed))
         /\ accepted - Len(printed) \in Nat
<1> DEFINE held == Taken - Len(printed)
<1>1. held \in {0, 1} /\ (held = 1 => cur.msg = Len(printed) + 1)
  BY Ranges DEF Taken, IInv, NothingDropped
<1>2. held + Unread = accepted - Len(printed) /\ held + Unread \in Nat
  BY <1>1, Ranges DEF IInv, TypeOK
<1>0. Unread \in 0 .. capacity /\ capacity \in Nat /\ Len(printed) \in Nat
      /\ Taken = held + Len(printed)
  BY Ranges
<1> HIDE DEF held
<1>3. ASSUME NEW i \in 1 .. held + Unread
      PROVE  (IF i <= held THEN cur.msg ELSE entries[Place(i - 1 - held)].msg)
               = Len(printed) + i
  <2>1. CASE i <= held
    BY <1>0, <1>1, <2>1
  <2>2. CASE i > held
    <3> DEFINE k == i - 1 - held
    <3>1. k \in 0 .. capacity - 1 /\ k < Unread
      BY <1>0, <1>1, <2>2
    <3>2. entries[Place(k)] = [msg |-> Taken + k + 1, is_end |-> FALSE]
      BY <3>1 DEF IInv, NothingDropped
    <3>3. Taken + k + 1 = Len(printed) + i
      BY <1>0, <1>1
    <3> QED BY <1>0, <1>1, <2>2, <3>2, <3>3
  <2> QED BY <1>0, <1>1, <2>1, <2>2
<1>4. PendingMessages = [i \in 1 .. held + Unread |->
         IF i <= held THEN cur.msg ELSE entries[Place(i - 1 - held)].msg]
  BY DEF PendingMessages, held
<1>5. PendingMessages = [i \in 1 .. held + Unread |-> Len(printed) + i]
  BY <1>3, <1>4
<1> QED BY <1>2, <1>5 DEF Numbers

\* A message accepted is appended to the numbers pending.
LEMMA NumbersAppend ==
  ASSUME NEW lo \in Nat, NEW n \in Nat
  PROVE  Numbers(lo, n + 1) = Append(Numbers(lo, n), lo + Len(Numbers(lo, n)) + 1)
<1>1. Numbers(lo, n) \in Seq(Nat) /\ Len(Numbers(lo, n)) = n
  BY DEF Numbers
<1>2. Append(Numbers(lo, n), lo + n + 1)
        = [i \in 1 .. n + 1 |-> IF i = n + 1 THEN lo + n + 1 ELSE lo + i]
  BY <1>1 DEF Numbers
<1> QED BY <1>1, <1>2 DEF Numbers

\* A message printed is the first of the numbers pending.
LEMMA NumbersTail ==
  ASSUME NEW lo \in Nat, NEW n \in Nat \ {0}
  PROVE  /\ Numbers(lo, n) # <<>>
         /\ Head(Numbers(lo, n)) = lo + 1
         /\ Tail(Numbers(lo, n)) = Numbers(lo + 1, n - 1)
<1>1. Numbers(lo, n) \in Seq(Nat) /\ Len(Numbers(lo, n)) = n
  BY DEF Numbers
<1>2. Numbers(lo, n) # <<>>
  BY <1>1
<1>3. /\ Tail(Numbers(lo, n)) \in Seq(Nat)
      /\ Len(Tail(Numbers(lo, n))) = n - 1
      /\ \A i \in 1 .. n - 1 : Tail(Numbers(lo, n))[i] = Numbers(lo, n)[i + 1]
  BY <1>1, <1>2, HeadTailProperties
<1>4. Numbers(lo + 1, n - 1) \in Seq(Nat) /\ Len(Numbers(lo + 1, n - 1)) = n - 1
  BY DEF Numbers
<1>5. \A i \in 1 .. n - 1 : Numbers(lo, n)[i + 1] = Numbers(lo + 1, n - 1)[i]
  BY DEF Numbers
<1>6. Tail(Numbers(lo, n)) = Numbers(lo + 1, n - 1)
  BY <1>3, <1>4, <1>5, SeqEqual
<1>7. Head(Numbers(lo, n)) = lo + 1
  BY <1>1 DEF Numbers
<1> QED BY <1>2, <1>6, <1>7

LEMMA PendingIsAlways ==
  IInv => /\ PendingMessages = Numbers(Len(printed), accepted - Len(printed))
          /\ accepted - Len(printed) \in Nat
  BY PendingIs

LEMMA PendingIsPrimed ==
  IInv' => (/\ PendingMessages = Numbers(Len(printed), accepted - Len(printed))
            /\ accepted - Len(printed) \in Nat)'
  BY PendingIsAlways, PTL

LEMMA StepRefines == IInv /\ IInv' /\ [Next]_vars => [Sink!Next]_(Sink!svars)
<1> SUFFICES ASSUME IInv, IInv', [Next]_vars PROVE [Sink!Next]_(Sink!svars)
  OBVIOUS
<1>1. /\ PendingMessages = Numbers(Len(printed), accepted - Len(printed))
      /\ accepted - Len(printed) \in Nat /\ Len(printed) \in Nat /\ accepted \in Nat
  BY PendingIs, Ranges DEF IInv, TypeOK
<1>2. /\ PendingMessages' = Numbers(Len(printed'), accepted' - Len(printed'))
      /\ accepted' - Len(printed') \in Nat
  BY PendingIsPrimed DEF Numbers
<1>3. CASE Add
  <2>1. /\ running /\ running' = running /\ printed' = printed
        /\ accepted' = accepted + 1
    BY <1>3 DEF Add
  <2>2. PendingMessages' = Append(PendingMessages, Len(printed) + Len(PendingMessages) + 1)
    <3>1. accepted' - Len(printed') = (accepted - Len(printed)) + 1
      BY <1>1, <2>1
    <3> QED BY <1>1, <1>2, <2>1, <3>1, NumbersAppend
  <2> QED BY <2>1, <2>2 DEF Sink!Next, Sink!Accept
<1>4. CASE WorkerPrint
  <2>1. /\ running' = running /\ accepted' = accepted
        /\ printed' = Append(printed, Len(printed) + 1)
    BY <1>4 DEF WorkerPrint, IInv, NothingDropped
  <2>2. Len(printed') = Len(printed) + 1
    BY <2>1 DEF IInv, TypeOK
  <2>3. accepted - Len(printed) \in Nat \ {0}
    BY <1>1, <1>2, <2>1, <2>2
  <2>4. accepted' - Len(printed') = (accepted - Len(printed)) - 1
    BY <1>1, <2>1, <2>2
  <2>5. /\ PendingMessages # <<>> /\ Head(PendingMessages) = Len(printed) + 1
        /\ PendingMessages' = Tail(PendingMessages)
    BY <1>1, <1>2, <2>2, <2>3, <2>4, NumbersTail
  <2> QED BY <2>1, <2>5 DEF Sink!Next, Sink!PrintNext
<1>5. CASE Pause \/ BeginChange
  <2>1. /\ running /\ running' = FALSE /\ printed' = printed /\ accepted' = accepted
    BY <1>5 DEF Pause, BeginChange, StoreMarker
  <2>2. PendingMessages' = PendingMessages
    BY <1>1, <1>2, <2>1
  <2> QED BY <2>1, <2>2 DEF Sink!Next, Sink!Close
<1>6. CASE Resume \/ EndChange
  <2>1. /\ ~running /\ running' = TRUE /\ printed' = printed /\ accepted' = accepted
        /\ worker = "none" /\ head = tail
    BY <1>6 DEF Resume, EndChange, StartWorker, IInv, Phases
  <2>2. accepted = Len(printed)
    <3>1. Unread = 0 /\ Taken = Len(printed)
      BY <2>1 DEF Unread, Stored, MarkerStored, MarkerOverran, Taken, IInv, TypeOK
    <3> QED BY <3>1, Ranges
  <2>3. PendingMessages = <<>> /\ PendingMessages' = <<>>
    BY <1>1, <1>2, <2>1, <2>2 DEF Numbers
  <2> QED BY <2>1, <2>3 DEF Sink!Next, Sink!Reopen
<1>7. CASE WorkerWait \/ WorkerTake \/ BeginChangePaused \/ Join \/ UNCHANGED vars
  <2>1. running' = running /\ printed' = printed /\ accepted' = accepted
    BY <1>7 DEF WorkerWait, WorkerTake, BeginChangePaused, Join, vars
  <2>2. PendingMessages' = PendingMessages
    BY <1>1, <1>2, <2>1
  <2> QED BY <2>1, <2>2 DEF Sink!svars
<1> QED BY <1>3, <1>4, <1>5, <1>6, <1>7 DEF Next, Worker, Control

LEMMA InitRefines == Init => Sink!Init
<1> SUFFICES ASSUME Init PROVE Sink!Init
  OBVIOUS
<1>1. IInv
  BY InitIInv
<1>2. accepted = 0 /\ printed = <<>> /\ running = TRUE
  BY DEF Init
<1>3. PendingMessages = <<>>
  BY <1>1, <1>2, PendingIs DEF Numbers
<1> QED BY <1>2, <1>3 DEF Sink!Init

(***************************************************************************)
(* The ring, the worker and pause implement the promise of the log.        *)
(***************************************************************************)
THEOREM Refinement == Spec => ImplementsLogSink
  BY InitRefines, StepRefines, AlwaysIInv, PTL DEF Spec, ImplementsLogSink, Sink!Spec
=============================================================================
