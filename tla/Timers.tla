------------------------------- MODULE Timers -------------------------------
(***************************************************************************)
(* What the scheduler of core/schedule.c promises its clients, with the    *)
(* heap, the event structures and lazy deletion left out.                  *)
(*                                                                         *)
(* A client asks for a timer; the timer runs when it is due, never early,  *)
(* earlier timers first; it runs as often as was asked for, and not again  *)
(* once it was cancelled.                                                  *)
(***************************************************************************)
EXTENDS Integers

CONSTANTS
  Requests,   \* the calls of scheduleoneshot() and schedulerecurring()
  MaxTime     \* bound: the clock stops here

VARIABLES
  timer,      \* what is outstanding for each request, or NoTimer
  fired,      \* how often the callback of each request has run
  now         \* the clock

vars == <<timer, fired, now>>

\* left = 0 is a timer that repeats until it is cancelled.
NoTimer == [due |-> 0, interval |-> 0, left |-> -1]

Outstanding == {r \in Requests : timer[r].left >= 0}

Init ==
  /\ timer = [r \in Requests |-> NoTimer]
  /\ fired = [r \in Requests |-> 0]
  /\ now = 0

Ask(r) ==
  /\ r \notin Outstanding
  /\ fired[r] = 0
  /\ timer'[r] \in [due : Nat, interval : Nat, left : Nat]
  /\ timer' = [timer EXCEPT ![r] = timer'[r]]
  /\ UNCHANGED <<fired, now>>

\* The timer runs: it must be due and no other outstanding timer is due before it.
Fire(r) ==
  /\ r \in Outstanding
  /\ timer[r].due <= now
  /\ \A q \in Outstanding : timer[r].due <= timer[q].due
  /\ fired' = [fired EXCEPT ![r] = @ + 1]
  /\ timer' = [timer EXCEPT ![r] =
                 IF @.left = 1 THEN NoTimer
                 ELSE [due |-> @.due + @.interval, interval |-> @.interval,
                       left |-> IF @.left = 0 THEN 0 ELSE @.left - 1]]
  /\ UNCHANGED now

\* One call may cancel several timers (deleteallschedules).
Cancel(R) ==
  /\ timer' = [r \in Requests |-> IF r \in R THEN NoTimer ELSE timer[r]]
  /\ UNCHANGED <<fired, now>>

Tick ==
  /\ now < MaxTime
  /\ now' = now + 1
  /\ UNCHANGED <<timer, fired>>

Next ==
  \/ \E r \in Requests : Ask(r) \/ Fire(r)
  \/ \E R \in SUBSET Requests : Cancel(R)
  \/ Tick

Spec == Init /\ [][Next]_vars
=============================================================================
