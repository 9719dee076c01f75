------------------------------ MODULE SeatLine ------------------------------
(***************************************************************************)
(* What the task queue keeps to towards the threads that take seats,       *)
(* without semaphore, mutex and workers: seats are left at the front, a    *)
(* message is delivered once, when it is ready and its seat was left, and  *)
(* no more than `Hands' messages are between their seat and their          *)
(* delivery.  Those may be delivered in any order: with more than one hand *)
(* this is less than the "deliver messages in order" of the README.        *)
(***************************************************************************)
EXTENDS Naturals, Sequences

CONSTANTS
  Tasks,     \* what may take a seat
  Hands      \* how many messages may be waited for at a time

VARIABLES
  seats,     \* the tasks in the order of their seats
  left,      \* how many seats were left, from the front
  ready,     \* the tasks whose message was processed
  ran        \* the tasks in the order of their delivery

vars == <<seats, left, ready, ran>>

Init == seats = <<>> /\ left = 0 /\ ready = {} /\ ran = <<>>

Places(seq) == {seq[i] : i \in DOMAIN seq}

TakeSeat(t) ==
  /\ t \notin Places(seats)
  /\ seats' = Append(seats, t)
  /\ UNCHANGED <<left, ready, ran>>

LeaveSeat ==
  /\ left < Len(seats)
  /\ left < Len(ran) + Hands
  /\ left' = left + 1
  /\ UNCHANGED <<seats, ready, ran>>

Finish(t) ==
  /\ t \in Places(seats)
  /\ ready' = ready \cup {t}
  /\ UNCHANGED <<seats, left, ran>>

Deliver(i) ==
  /\ i <= left
  /\ seats[i] \in ready \ Places(ran)
  /\ ran' = Append(ran, seats[i])
  /\ UNCHANGED <<seats, left, ready>>

Next ==
  \/ LeaveSeat
  \/ \E t \in Tasks : TakeSeat(t) \/ Finish(t)
  \/ \E i \in DOMAIN seats : Deliver(i)

Spec == Init /\ [][Next]_vars
=============================================================================
