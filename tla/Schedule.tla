------------------------------ MODULE Schedule ------------------------------
(***************************************************************************)
(* The timer queue of core/schedule.c: the life of an event structure from *)
(* scheduleoneshot() to freeschedule(), lazy deletion through the pointer  *)
(* a client kept, and doscheduledevents(), whose callbacks may call every  *)
(* function of the queue again while the pass is running.                  *)
(*                                                                         *)
(* The heap is the set of queued structures here, and the element popped   *)
(* is any one of the earliest: ScheduleHeap shows that the array does      *)
(* that.  A callback is the sequence of Schedule steps taken before the    *)
(* next pop, so a callback may schedule, cancel its own event or any other.*)
(***************************************************************************)
EXTENDS Integers, FiniteSets

CONSTANTS
  Requests,       \* the calls that schedule something, each made once
  Slots,          \* the memory an event structure can live in
  Callbacks, Args,
  Times,          \* the absolute times clients ask for
  Intervals,      \* the repeat intervals clients ask for
  Counts,         \* the repeat counts clients ask for; 0 is forever
  MaxTime,        \* bound of the clock
  StalePointers,  \* clients may pass a pointer to an event that has finished
  NULL

ASSUME ScheduleAssumption ==
  /\ Times \subseteq Nat
  /\ Intervals \subseteq Nat \ {0}
  /\ Counts \subseteq Nat
  /\ MaxTime \in Nat
  /\ StalePointers \in BOOLEAN
  /\ NULL \notin Requests
  /\ NULL \notin Slots

VARIABLES
  mem,        \* the contents of every slot, freed ones included
  heap,       \* events[0 .. heapsize-1] as a set: the queued slots
  handle,     \* the pointer each client holds for its request, with what it must match
  now,        \* time(NULL)
  passing,    \* doscheduledevents() is running
  goal,       \* history: how many runs each request asked for
  fired,      \* history: how many runs it has had
  cancelled   \* history: the requests their own client has cancelled

clients == <<goal, cancelled>>
vars == <<mem, heap, handle, now, passing, goal, fired, cancelled>>

-----------------------------------------------------------------------------
(* The event structure. *)

Event == [req : Requests \cup {NULL}, cb : Callbacks \cup {NULL}, arg : Args \cup {NULL},
          nextschedule : Nat, type : {"ONESHOT", "REPEATING"}, repeatinterval : Nat,
          repeatcount : Nat \cup {-1}, deleted : BOOLEAN]

Blank == [req |-> NULL, cb |-> NULL, arg |-> NULL, nextschedule |-> 0, type |-> "ONESHOT",
          repeatinterval |-> 0, repeatcount |-> 0, deleted |-> TRUE]

Handle == [slot : Slots, cb : Callbacks, arg : Args]

NotAsked == -1
Asked == {r \in Requests : goal[r] # NotAsked}

Matches(s, cb, arg) == mem[s].cb = cb /\ mem[s].arg = arg /\ ~mem[s].deleted

\* The queued structure request r is waiting in, if any.
LiveIn(r) == {s \in heap : mem[s].req = r /\ ~mem[s].deleted}
Live == {r \in Requests : LiveIn(r) # {}}

\* MUTANTS: an event is due only after its time; the queue is not kept in order.
Bug_DueLate(s) == s \in heap /\ mem[s].nextschedule < now
Bug_Unordered(s) == s \in heap

Due(s) == s \in heap /\ mem[s].nextschedule <= now
Earliest(s) == s \in heap /\ \A t \in heap : mem[s].nextschedule <= mem[t].nextschedule

\* A client drops its pointer no later than the structure is freed; where the run says so,
\* it keeps the pointer of a timer that has run for the last time.
Forget(R) ==
  LET kept == IF StalePointers THEN Requests \ cancelled ELSE {} IN
  handle' = [r \in Requests |-> IF r \in R \ kept THEN NULL ELSE handle[r]]

-----------------------------------------------------------------------------
Init ==
  /\ mem = [s \in Slots |-> Blank]
  /\ heap = {}
  /\ handle = [r \in Requests |-> NULL]
  /\ now = 0
  /\ passing = FALSE
  /\ goal = [r \in Requests |-> NotAsked]
  /\ fired = [r \in Requests |-> 0]
  /\ cancelled = {}

\* getschedule(), the assignments, insertschedule(), and the pointer given to the client.
Insert(r, e, n) ==
  /\ r \in Requests \ Asked
  /\ \E s \in Slots \ heap :
       /\ mem' = [mem EXCEPT ![s] = e]
       /\ heap' = heap \cup {s}
       /\ handle' = [handle EXCEPT ![r] = [slot |-> s, cb |-> e.cb, arg |-> e.arg]]
  /\ goal' = [goal EXCEPT ![r] = n]
  /\ UNCHANGED <<now, passing, fired, cancelled>>

scheduleoneshot(r, when, cb, arg) ==
  Insert(r, [req |-> r, cb |-> cb, arg |-> arg, nextschedule |-> when, type |-> "ONESHOT",
             repeatinterval |-> 0, repeatcount |-> 1, deleted |-> FALSE], 1)

\* MUTANT: a count of 1 not told apart.
Bug_NoOneshotCase(r, first, count, interval, cb, arg) ==
  Insert(r, [req |-> r, cb |-> cb, arg |-> arg, nextschedule |-> first, type |-> "REPEATING",
             repeatinterval |-> interval, repeatcount |-> count - 1, deleted |-> FALSE], count)

\* A count of 1 is a one-shot; a count of 0 leaves repeatcount at -1: repeat for ever.
schedulerecurring(r, first, count, interval, cb, arg) ==
  IF count = 1 THEN scheduleoneshot(r, first, cb, arg)
  ELSE Insert(r, [req |-> r, cb |-> cb, arg |-> arg, nextschedule |-> first,
                  type |-> "REPEATING", repeatinterval |-> interval,
                  repeatcount |-> count - 1, deleted |-> FALSE], count)

\* deleteschedule() with the pointer the client kept.
deleteschedule_fast(r) ==
  /\ handle[r] # NULL
  /\ LET h == handle[r] IN
       mem' = IF Matches(h.slot, h.cb, h.arg) THEN [mem EXCEPT ![h.slot].deleted = TRUE] ELSE mem
  /\ cancelled' = cancelled \cup {r}
  /\ UNCHANGED <<heap, handle, now, passing, goal, fired>>

\* deleteschedule() without one: the first match in array order, which can be any match.
deleteschedule_brute(cb, arg) ==
  \E s \in heap :
    /\ Matches(s, cb, arg)
    /\ mem' = [mem EXCEPT ![s].deleted = TRUE]
    /\ cancelled' = cancelled \cup {mem[s].req}
    /\ UNCHANGED <<heap, handle, now, passing, goal, fired>>

\* Events of the callback leave the queue and are freed at once, the deleted ones too.
deleteallschedules(cb) ==
  LET gone == {s \in heap : mem[s].cb = cb}
      rs == {mem[s].req : s \in gone} IN
  /\ gone # {}
  /\ heap' = heap \ gone
  /\ handle' = [r \in Requests |-> IF r \in rs THEN NULL ELSE handle[r]]
  /\ cancelled' = cancelled \cup {r \in rs : LiveIn(r) # {}}
  /\ UNCHANGED <<mem, now, passing, goal, fired>>

-----------------------------------------------------------------------------
(* doscheduledevents(when): the main loop calls it with the time it read. *)

PassBegin ==
  /\ ~passing
  /\ passing' = TRUE
  /\ UNCHANGED <<mem, heap, handle, now, clients, fired>>

\* The earliest event was marked as deleted: freed, its callback not called.
PopDeleted ==
  \E s \in heap :
    /\ passing /\ Due(s) /\ Earliest(s) /\ mem[s].deleted
    /\ heap' = heap \ {s}
    /\ Forget({mem[s].req})
    /\ UNCHANGED <<mem, now, passing, clients, fired>>

\* MUTANTS: the one-shot is queued for later; the last run is lost.
Bug_ZombieLater(e) == [e EXCEPT !.deleted = TRUE, !.nextschedule = @ + 1]
Bug_LastRunLost(e) ==
  [e EXCEPT !.nextschedule = @ + e.repeatinterval, !.repeatcount = IF @ > 0 THEN @ - 1 ELSE @,
            !.type = IF e.repeatcount <= 2 /\ e.repeatcount > 0 THEN "ONESHOT" ELSE "REPEATING"]

\* What the event looks like when it is put back before its callback runs.
RanOneshot(e) == [e EXCEPT !.deleted = TRUE]

RanRepeating(e) ==
  [e EXCEPT !.nextschedule = @ + e.repeatinterval,
            !.repeatcount = IF @ > 0 THEN @ - 1 ELSE @,
            !.type = IF e.repeatcount = 1 THEN "ONESHOT" ELSE "REPEATING"]

\* MUTANT: the deleted mark is not looked at.
Bug_RunAnyway ==
  \E s \in heap :
    LET e == mem[s] IN
    /\ passing /\ Due(s) /\ Earliest(s)
    /\ mem' = [mem EXCEPT ![s] = IF e.type = "ONESHOT" THEN RanOneshot(e) ELSE RanRepeating(e)]
    /\ fired' = [fired EXCEPT ![e.req] = @ + 1]
    /\ UNCHANGED <<heap, handle, now, passing, clients>>

\* The earliest event is due: it is updated and queued again, then its callback is called.
Run ==
  \E s \in heap :
    LET e == mem[s] IN
    /\ passing /\ Due(s) /\ Earliest(s) /\ ~e.deleted
    /\ mem' = [mem EXCEPT ![s] = IF e.type = "ONESHOT" THEN RanOneshot(e) ELSE RanRepeating(e)]
    /\ fired' = [fired EXCEPT ![e.req] = @ + 1]
    /\ UNCHANGED <<heap, handle, now, passing, clients>>

PassEnd ==
  /\ passing
  /\ \A s \in heap : ~Due(s)
  /\ passing' = FALSE
  /\ UNCHANGED <<mem, heap, handle, now, clients, fired>>

Tick ==
  /\ ~passing
  /\ now < MaxTime
  /\ now' = now + 1
  /\ UNCHANGED <<mem, heap, handle, passing, clients, fired>>

-----------------------------------------------------------------------------
Client ==
  \/ \E r \in Requests, t \in Times, cb \in Callbacks, arg \in Args :
       \/ scheduleoneshot(r, t, cb, arg)
       \/ \E n \in Counts, i \in Intervals : schedulerecurring(r, t, n, i, cb, arg)
  \/ \E r \in Requests : deleteschedule_fast(r)
  \/ \E cb \in Callbacks, arg \in Args : deleteschedule_brute(cb, arg)
  \/ \E cb \in Callbacks : deleteallschedules(cb)

doscheduledevents == PassBegin \/ PopDeleted \/ Run \/ PassEnd

Next == Client \/ doscheduledevents \/ Tick

Spec == Init /\ [][Next]_vars

\* The main loop calls doscheduledevents() on every turn and its loop does not stop early.
FairSpec == Spec /\ WF_vars(doscheduledevents)
-----------------------------------------------------------------------------
(* What makes the queue correct. *)

\* Types of the queue's state: repeatcount is -1 for a timer that repeats for ever.
TypeOK ==
  /\ mem \in [Slots -> Event]
  /\ heap \subseteq Slots
  /\ handle \in [Requests -> Handle \cup {NULL}]
  /\ now \in Nat
  /\ passing \in BOOLEAN
  /\ goal \in [Requests -> Nat \cup {NotAsked}]
  /\ fired \in [Requests -> Nat]
  /\ cancelled \subseteq Requests

\* schedulerecurring(first, count, ...) and scheduleoneshot(): the callback never runs more
\* often than the client asked for, whatever is cancelled or re-queued meanwhile.
FireBudget == \A r \in Asked : goal[r] # 0 => fired[r] <= goal[r]

\* A timer that its own client did not cancel and that has runs left is still queued: no
\* deletion of another timer, and no pass of doscheduledevents(), loses it.
NoTimerLost ==
  \A r \in Asked \ cancelled : goal[r] = 0 \/ fired[r] < goal[r] => r \in Live

\* insertschedule() puts an executed one-shot back at its old time so that the same pass
\* pops it again and frees it: none is left over when the pass ends.
FinishedIsFreed ==
  ~passing => \A s \in heap : goal[mem[s].req] # 0 => fired[mem[s].req] < goal[mem[s].req]

\* deleteschedule() and deleteallschedules(), called from anywhere, inside the timer's own
\* callback included: after it returns the callback never runs again.
QuietAfterDelete == [][\A r \in cancelled : fired'[r] = fired[r]]_vars

\* doscheduledevents() gets to every timer that is due, behind others and behind deleted
\* events.
DueTimerRuns ==
  \A r \in Requests : \A n \in 0..MaxTime :
    (fired[r] = n /\ \E s \in LiveIn(r) : mem[s].nextschedule <= now) ~> (fired[r] > n \/ r \notin Live)

-----------------------------------------------------------------------------
(* The queue implements Timers: lazily deleted structures are nothing there. *)

TimerOf(r) ==
  IF r \in Live
  THEN LET e == mem[CHOOSE s \in LiveIn(r) : TRUE] IN
       [due |-> e.nextschedule, interval |-> e.repeatinterval,
        left |-> IF e.type = "ONESHOT" THEN 1
                 ELSE IF e.repeatcount < 0 THEN 0 ELSE e.repeatcount + 1]
  ELSE [due |-> 0, interval |-> 0, left |-> -1]

T == INSTANCE Timers WITH timer <- [r \in Requests |-> TimerOf(r)]

\* The queue with its heap, lazy deletion and re-insertion does what Timers promises.
ImplementsTimers == T!Spec
=============================================================================
