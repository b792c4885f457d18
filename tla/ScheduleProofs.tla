--------------------------- MODULE ScheduleProofs ---------------------------
(***************************************************************************)
(* Proofs about the timer queue of Schedule, for any number of requests,   *)
(* any memory, any callbacks and any clock.                                *)
(*                                                                         *)
(* Counted is the inductive invariant behind the types and the number of   *)
(* runs; Kept adds what the pointers of the clients are good for.          *)
(***************************************************************************)
EXTENDS Schedule, TLAPS

\* A queued structure belongs to a request that was made, and carries its callback.
QueuedOK ==
  \A s \in heap : mem[s].req \in Asked /\ mem[s].cb \in Callbacks /\ mem[s].arg \in Args

\* A request has no more than one structure in the queue, deleted ones included.
OneEach == \A s, t \in heap : mem[s].req = mem[t].req => s = t

NotYet == \A r \in Requests \ Asked : fired[r] = 0

\* What is owed to the owner of structure s: repeatcount is the number of runs after the next.
OwedIn(s) ==
  LET e == mem[s] IN
  IF e.type = "ONESHOT" THEN goal[e.req] = fired[e.req] + 1
  ELSE \/ e.repeatcount = -1 /\ goal[e.req] = 0
       \/ e.repeatcount >= 1 /\ goal[e.req] = fired[e.req] + e.repeatcount + 1

Owed == \A s \in heap : ~mem[s].deleted => OwedIn(s)

\* A structure whose timer has had its last run is one that the running pass will pop again.
Settled ==
  \A s \in heap :
    goal[mem[s].req] # 0 /\ fired[mem[s].req] >= goal[mem[s].req] =>
      passing /\ mem[s].nextschedule <= now

Counted == TypeOK /\ QueuedOK /\ OneEach /\ NotYet /\ Owed /\ FireBudget /\ Settled

\* The pointer a client holds leads to the structure of its own request.
PointersOK ==
  \A r \in Requests : handle[r] # NULL =>
    LET h == handle[r] IN
    h.slot \in heap /\ mem[h.slot].req = r /\ mem[h.slot].cb = h.cb /\ mem[h.slot].arg = h.arg

CancelledGone == \A r \in cancelled : r \in Asked /\ r \notin Live

Kept == Counted /\ PointersOK /\ CancelledGone /\ NoTimerLost

-----------------------------------------------------------------------------
(* Event structures. *)

LEMMA EventAfterRanOneshot ==
  ASSUME NEW e \in Event
  PROVE  /\ RanOneshot(e) \in Event
         /\ RanOneshot(e).req = e.req /\ RanOneshot(e).cb = e.cb /\ RanOneshot(e).arg = e.arg
         /\ RanOneshot(e).deleted
         /\ RanOneshot(e).nextschedule = e.nextschedule
BY DEF Event, RanOneshot

LEMMA EventAfterRanRepeating ==
  ASSUME NEW e \in Event
  PROVE  /\ RanRepeating(e) \in Event
         /\ RanRepeating(e).req = e.req /\ RanRepeating(e).cb = e.cb
         /\ RanRepeating(e).arg = e.arg
         /\ RanRepeating(e).deleted = e.deleted
         /\ RanRepeating(e).repeatinterval = e.repeatinterval
         /\ RanRepeating(e).nextschedule = e.nextschedule + e.repeatinterval
         /\ RanRepeating(e).repeatcount =
              IF e.repeatcount > 0 THEN e.repeatcount - 1 ELSE e.repeatcount
         /\ RanRepeating(e).type = IF e.repeatcount = 1 THEN "ONESHOT" ELSE "REPEATING"
<1> DEFINE n == e.nextschedule + e.repeatinterval
           c == IF e.repeatcount > 0 THEN e.repeatcount - 1 ELSE e.repeatcount
           t == IF e.repeatcount = 1 THEN "ONESHOT" ELSE "REPEATING"
<1>1. n \in Nat /\ c \in Nat \cup {-1} /\ t \in {"ONESHOT", "REPEATING"}
  BY DEF Event
<1>2. RanRepeating(e) = [e EXCEPT !.nextschedule = n, !.repeatcount = c, !.type = t]
  BY DEF RanRepeating
<1> HIDE DEF n, c, t
<1>3. /\ RanRepeating(e) \in Event
      /\ RanRepeating(e).req = e.req /\ RanRepeating(e).cb = e.cb /\ RanRepeating(e).arg = e.arg
      /\ RanRepeating(e).deleted = e.deleted
      /\ RanRepeating(e).repeatinterval = e.repeatinterval
      /\ RanRepeating(e).nextschedule = n
      /\ RanRepeating(e).repeatcount = c
      /\ RanRepeating(e).type = t
  BY <1>1, <1>2 DEF Event
<1> QED BY <1>3 DEF n, c, t

\* What an event looks like once it is marked as deleted.
LEMMA EventMarked ==
  ASSUME NEW e \in Event
  PROVE  LET d == [e EXCEPT !.deleted = TRUE] IN
         /\ d \in Event
         /\ d.req = e.req /\ d.cb = e.cb /\ d.arg = e.arg /\ d.deleted
         /\ d.nextschedule = e.nextschedule
BY DEF Event

-----------------------------------------------------------------------------
(* The four ways in which a step changes the queue, each preserving Counted. *)

LEMMA InsertCounted ==
  ASSUME Counted, NEW r \in Requests, NEW e \in Event, NEW n \in Nat, Insert(r, e, n),
         e.req = r, e.cb \in Callbacks, e.arg \in Args, ~e.deleted,
         IF e.type = "ONESHOT" THEN n = 1
         ELSE (e.repeatcount = -1 /\ n = 0) \/ (e.repeatcount >= 1 /\ n = e.repeatcount + 1)
  PROVE  Counted'
<1> USE DEF Counted
<1>1. PICK s \in Slots \ heap :
        /\ mem' = [mem EXCEPT ![s] = e]
        /\ heap' = heap \cup {s}
        /\ handle' = [handle EXCEPT ![r] = [slot |-> s, cb |-> e.cb, arg |-> e.arg]]
  BY DEF Insert
<1>2. /\ r \notin Asked /\ goal' = [goal EXCEPT ![r] = n]
      /\ UNCHANGED <<now, passing, fired, cancelled>>
  BY DEF Insert
<1>3. mem'[s] = e /\ \A t \in heap : mem'[t] = mem[t]
  BY <1>1 DEF TypeOK
<1>4. goal'[r] = n /\ \A q \in Asked : goal'[q] = goal[q] /\ q # r
  BY <1>2 DEF TypeOK, Asked
<1>5. Asked' = Asked \cup {r}
  BY <1>2 DEF TypeOK, Asked, NotAsked
<1>6. TypeOK'
  BY <1>1, <1>2 DEF TypeOK, Handle
<1>7. QueuedOK'
  BY <1>1, <1>3, <1>5 DEF QueuedOK
<1>8. OneEach'
  BY <1>1, <1>2, <1>3 DEF QueuedOK, OneEach
<1>9. NotYet'
  BY <1>2, <1>5 DEF NotYet
<1>10. Owed'
  <2> SUFFICES ASSUME NEW t \in heap', ~mem'[t].deleted PROVE OwedIn(t)'
    BY DEF Owed
  <2>1. CASE t = s
    <3>1. fired'[r] = 0
      BY <1>2 DEF NotYet
    <3> QED BY <2>1, <3>1, <1>3, <1>4 DEF OwedIn, Event
  <2>2. CASE t \in heap
    <3>1. OwedIn(t) /\ mem[t].req \in Asked
      BY <2>2, <1>3 DEF Owed, QueuedOK
    <3> QED BY <3>1, <2>2, <1>2, <1>3, <1>4 DEF OwedIn
  <2> QED BY <2>1, <2>2, <1>1
<1>11. FireBudget'
  BY <1>2, <1>4, <1>5 DEF FireBudget, NotYet, TypeOK
<1>12. Settled'
  <2> SUFFICES ASSUME NEW t \in heap', goal'[mem'[t].req] # 0,
                      fired'[mem'[t].req] >= goal'[mem'[t].req]
               PROVE  passing' /\ mem'[t].nextschedule <= now'
    BY DEF Settled
  <2>1. t # s
    BY <1>2, <1>3, <1>4 DEF NotYet
  <2>2. t \in heap /\ mem'[t] = mem[t] /\ mem[t].req \in Asked
    BY <2>1, <1>1, <1>3 DEF QueuedOK
  <2> QED BY <2>2, <1>2, <1>4 DEF Settled
<1> QED BY <1>6, <1>7, <1>8, <1>9, <1>10, <1>11, <1>12

\* deleteschedule() found its event.
LEMMA MarkCounted ==
  ASSUME Counted, NEW s \in heap, mem' = [mem EXCEPT ![s].deleted = TRUE],
         UNCHANGED <<heap, handle, now, passing, goal, fired>>, cancelled' \subseteq Requests
  PROVE  Counted'
<1> USE DEF Counted
<1> DEFINE d == [mem[s] EXCEPT !.deleted = TRUE]
<1>0. s \in Slots /\ mem[s] \in Event
  BY DEF TypeOK
<1>1. /\ d \in Event /\ d.req = mem[s].req /\ d.cb = mem[s].cb /\ d.arg = mem[s].arg
      /\ d.deleted /\ d.nextschedule = mem[s].nextschedule
  BY <1>0, EventMarked
<1>2. mem' = [mem EXCEPT ![s] = d]
  OBVIOUS
<1> HIDE DEF d
<1>3. mem'[s] = d /\ \A t \in heap : t # s => mem'[t] = mem[t]
  BY <1>0, <1>2 DEF TypeOK
<1>4. Asked' = Asked
  BY DEF Asked
<1>5. TypeOK'
  BY <1>0, <1>1, <1>2 DEF TypeOK
<1>6. QueuedOK' /\ OneEach'
  BY <1>1, <1>3, <1>4 DEF QueuedOK, OneEach
<1>7. NotYet' /\ FireBudget'
  BY <1>4 DEF NotYet, FireBudget
<1>8. Owed'
  BY <1>1, <1>3 DEF Owed, OwedIn
<1>9. Settled'
  BY <1>1, <1>3 DEF Settled
<1> QED BY <1>5, <1>6, <1>7, <1>8, <1>9

\* Structures are freed.
LEMMA FreedCounted ==
  ASSUME Counted, heap' \subseteq heap, handle' \in [Requests -> Handle \cup {NULL}],
         cancelled' \subseteq Requests, UNCHANGED <<mem, now, passing, goal, fired>>
  PROVE  Counted'
BY DEF Counted, TypeOK, QueuedOK, OneEach, NotYet, Owed, OwedIn, FireBudget, Settled, Asked

\* What Run does to the event it runs.
LEMMA RunEffect ==
  ASSUME Counted, NEW s \in heap, ~mem[s].deleted,
         NEW d, d = IF mem[s].type = "ONESHOT" THEN RanOneshot(mem[s]) ELSE RanRepeating(mem[s])
  PROVE  /\ d \in Event
         /\ d.req = mem[s].req /\ d.cb = mem[s].cb /\ d.arg = mem[s].arg
         /\ mem[s].type = "ONESHOT" =>
              d.deleted /\ d.nextschedule = mem[s].nextschedule /\ goal[d.req] = fired[d.req] + 1
         /\ mem[s].type # "ONESHOT" =>
              /\ ~d.deleted
              /\ IF d.type = "ONESHOT" THEN goal[d.req] = fired[d.req] + 2
                 ELSE \/ d.repeatcount = -1 /\ goal[d.req] = 0
                      \/ d.repeatcount >= 1 /\ goal[d.req] = fired[d.req] + 2 + d.repeatcount
<1>1. mem[s] \in Event /\ OwedIn(s)
  BY DEF Counted, TypeOK, Owed
<1>2. mem[s].req \in Asked /\ fired[mem[s].req] \in Nat /\ goal[mem[s].req] \in Nat
  BY DEF Counted, QueuedOK, TypeOK, Asked, NotAsked
<1>3. CASE mem[s].type = "ONESHOT"
  BY <1>1, <1>3, EventAfterRanOneshot DEF OwedIn
<1>4. CASE mem[s].type # "ONESHOT"
  <2>1. d = RanRepeating(mem[s])
    BY <1>4
  <2>2. mem[s].repeatcount = -1 \/ mem[s].repeatcount = 1 \/ mem[s].repeatcount > 1
    BY <1>1, <1>4 DEF OwedIn, Event
  <2> QED BY <2>1, <2>2, <1>1, <1>2, <1>4, EventAfterRanRepeating DEF OwedIn, Event
<1> QED BY <1>3, <1>4

LEMMA RunCounted ==
  ASSUME Counted, Run
  PROVE  Counted'
<1> USE DEF Counted
<1>1. PICK s \in heap :
        /\ passing /\ Due(s) /\ ~mem[s].deleted
        /\ mem' = [mem EXCEPT ![s] = IF mem[s].type = "ONESHOT" THEN RanOneshot(mem[s])
                                     ELSE RanRepeating(mem[s])]
        /\ fired' = [fired EXCEPT ![mem[s].req] = @ + 1]
        /\ UNCHANGED <<heap, handle, now, passing, goal, cancelled>>
  BY DEF Run, clients
<1> DEFINE r == mem[s].req
           d == IF mem[s].type = "ONESHOT" THEN RanOneshot(mem[s]) ELSE RanRepeating(mem[s])
<1>2. /\ d \in Event /\ d.req = r /\ d.cb = mem[s].cb /\ d.arg = mem[s].arg
      /\ mem[s].type = "ONESHOT" =>
              d.deleted /\ d.nextschedule = mem[s].nextschedule /\ goal[r] = fired[r] + 1
      /\ mem[s].type # "ONESHOT" =>
              /\ ~d.deleted
              /\ IF d.type = "ONESHOT" THEN goal[r] = fired[r] + 2
                 ELSE \/ d.repeatcount = -1 /\ goal[r] = 0
                      \/ d.repeatcount >= 1 /\ goal[r] = fired[r] + 2 + d.repeatcount
  BY <1>1, RunEffect
<1>3. mem' = [mem EXCEPT ![s] = d]
  BY <1>1
<1> HIDE DEF d
<1>4. r \in Asked /\ r \in Requests /\ fired[r] \in Nat /\ goal[r] \in Nat
  BY DEF QueuedOK, TypeOK, Asked, NotAsked
<1>5. mem'[s] = d /\ \A t \in heap : t # s => mem'[t] = mem[t] /\ mem[t].req # r
  BY <1>3 DEF TypeOK, OneEach
<1>6. fired'[r] = fired[r] + 1 /\ \A q \in Requests : q # r => fired'[q] = fired[q]
  BY <1>1, <1>4 DEF TypeOK
<1>7. Asked' = Asked
  BY <1>1 DEF Asked
<1>8. TypeOK'
  <2>1. mem' \in [Slots -> Event]
    BY <1>2, <1>3 DEF TypeOK
  <2>2. fired' \in [Requests -> Nat]
    BY <1>1, <1>4 DEF TypeOK
  <2> QED BY <2>1, <2>2, <1>1 DEF TypeOK
<1>9. QueuedOK' /\ OneEach'
  BY <1>1, <1>2, <1>5, <1>7 DEF QueuedOK, OneEach
<1>10. NotYet'
  BY <1>4, <1>6, <1>7 DEF NotYet
<1>11. FireBudget'
  BY <1>1, <1>2, <1>4, <1>6, <1>7 DEF FireBudget, Event, Asked
<1>12. Owed'
  <2> SUFFICES ASSUME NEW t \in heap, ~mem'[t].deleted PROVE OwedIn(t)'
    BY <1>1 DEF Owed
  <2>1. CASE t = s
    BY <2>1, <1>1, <1>2, <1>4, <1>5, <1>6 DEF OwedIn, Event
  <2>2. CASE t # s
    <3>1. mem'[t] = mem[t] /\ mem[t].req \in Requests /\ fired'[mem[t].req] = fired[mem[t].req]
      BY <2>2, <1>5, <1>6 DEF QueuedOK, Asked
    <3> QED BY <3>1, <1>1 DEF Owed, OwedIn
  <2> QED BY <2>1, <2>2
<1>13. Settled'
  <2> SUFFICES ASSUME NEW t \in heap, goal[mem'[t].req] # 0,
                      fired'[mem'[t].req] >= goal[mem'[t].req]
               PROVE  passing /\ mem'[t].nextschedule <= now
    BY <1>1 DEF Settled
  <2>1. CASE t = s
    BY <2>1, <1>1, <1>2, <1>4, <1>5, <1>6 DEF Due, Event
  <2>2. CASE t # s
    BY <2>2, <1>5, <1>6 DEF Settled, QueuedOK, Asked
  <2> QED BY <2>1, <2>2
<1> QED BY <1>8, <1>9, <1>10, <1>11, <1>12, <1>13

-----------------------------------------------------------------------------
(* Counted is inductive. *)

LEMMA OneshotCounted ==
  ASSUME Counted, NEW r \in Requests, NEW t \in Times, NEW cb \in Callbacks, NEW arg \in Args,
         scheduleoneshot(r, t, cb, arg)
  PROVE  Counted'
<1> DEFINE e == [req |-> r, cb |-> cb, arg |-> arg, nextschedule |-> t, type |-> "ONESHOT",
                 repeatinterval |-> 0, repeatcount |-> 1, deleted |-> FALSE]
<1>1. e \in Event
  BY ScheduleAssumption DEF Event
<1>2. Insert(r, e, 1)
  BY DEF scheduleoneshot
<1> QED BY <1>1, <1>2, InsertCounted

LEMMA RecurringCounted ==
  ASSUME Counted, NEW r \in Requests, NEW t \in Times, NEW cb \in Callbacks, NEW arg \in Args,
         NEW n \in Counts, NEW i \in Intervals, schedulerecurring(r, t, n, i, cb, arg)
  PROVE  Counted'
<1> DEFINE e == [req |-> r, cb |-> cb, arg |-> arg, nextschedule |-> t, type |-> "REPEATING",
                 repeatinterval |-> i, repeatcount |-> n - 1, deleted |-> FALSE]
<1>1. CASE n = 1
  BY <1>1, OneshotCounted DEF schedulerecurring
<1>2. CASE n # 1
  <2>1. n \in Nat /\ e \in Event
    BY ScheduleAssumption DEF Event
  <2>2. Insert(r, e, n)
    BY <1>2 DEF schedulerecurring
  <2>3. (e.repeatcount = -1 /\ n = 0) \/ (e.repeatcount >= 1 /\ n = e.repeatcount + 1)
    BY <1>2, <2>1
  <2> QED BY <2>1, <2>2, <2>3, InsertCounted
<1> QED BY <1>1, <1>2

\* deleteschedule() by the client's pointer: the pointer is one of a queued structure, or of
\* one that was freed, whose memory may hold another event by now.
LEMMA FastCounted ==
  ASSUME Counted, NEW r \in Requests, deleteschedule_fast(r)
  PROVE  Counted'
<1> USE DEF Counted
<1> DEFINE s == handle[r].slot
<1>1. /\ s \in Slots /\ cancelled' \subseteq Requests
      /\ UNCHANGED <<heap, handle, now, passing, goal, fired>>
  BY DEF deleteschedule_fast, TypeOK, Handle
<1>2. CASE mem' = mem
  BY <1>1, <1>2, FreedCounted DEF TypeOK
<1>3. CASE mem' = [mem EXCEPT ![s].deleted = TRUE]
  <2>1. CASE s \in heap
    BY <2>1, <1>1, <1>3, MarkCounted
  <2>2. CASE s \notin heap
    <3>1. \A t \in heap : mem'[t] = mem[t]
      BY <2>2, <1>1, <1>3 DEF TypeOK
    <3>2. TypeOK'
      BY <1>1, <1>3, EventMarked DEF TypeOK
    <3> QED BY <3>1, <3>2, <1>1
            DEF QueuedOK, OneEach, NotYet, Owed, OwedIn, FireBudget, Settled, Asked
  <2> QED BY <2>1, <2>2
<1> QED BY <1>2, <1>3 DEF deleteschedule_fast

LEMMA BruteCounted ==
  ASSUME Counted, NEW cb, NEW arg, deleteschedule_brute(cb, arg)
  PROVE  Counted'
<1>1. PICK s \in heap : /\ mem' = [mem EXCEPT ![s].deleted = TRUE]
                        /\ cancelled' = cancelled \cup {mem[s].req}
                        /\ UNCHANGED <<heap, handle, now, passing, goal, fired>>
  BY DEF deleteschedule_brute
<1>2. cancelled' \subseteq Requests
  BY <1>1 DEF Counted, TypeOK, QueuedOK, Asked
<1> QED BY <1>1, <1>2, MarkCounted

LEMMA DeleteAllCounted ==
  ASSUME Counted, NEW cb, deleteallschedules(cb)
  PROVE  Counted'
<1>1. /\ heap' \subseteq heap /\ UNCHANGED <<mem, now, passing, goal, fired>>
      /\ handle' \in [Requests -> Handle \cup {NULL}]
  BY DEF deleteallschedules, Counted, TypeOK
<1>2. cancelled' \subseteq Requests
  BY DEF deleteallschedules, Counted, TypeOK, QueuedOK, Asked
<1> QED BY <1>1, <1>2, FreedCounted

LEMMA PopDeletedCounted ==
  ASSUME Counted, PopDeleted
  PROVE  Counted'
<1>1. /\ heap' \subseteq heap /\ UNCHANGED <<mem, now, passing, goal, fired, cancelled>>
  BY DEF PopDeleted, clients
<1>2. handle' \in [Requests -> Handle \cup {NULL}]
  BY DEF PopDeleted, Forget, Counted, TypeOK
<1> QED BY <1>1, <1>2, FreedCounted DEF Counted, TypeOK

LEMMA ClockCounted ==
  ASSUME Counted, PassBegin \/ PassEnd \/ Tick
  PROVE  Counted'
<1> USE DEF Counted, QueuedOK, OneEach, NotYet, Owed, OwedIn, FireBudget, Asked, clients
<1>1. CASE PassBegin
  BY <1>1 DEF PassBegin, TypeOK, Settled
<1>2. CASE PassEnd
  <2>1. TypeOK' /\ QueuedOK' /\ OneEach' /\ NotYet' /\ Owed' /\ FireBudget'
    BY <1>2 DEF PassEnd, TypeOK
  <2>2. Settled'
    BY <1>2 DEF PassEnd, Settled, Due
  <2> QED BY <2>1, <2>2
<1>3. CASE Tick
  BY <1>3 DEF Tick, TypeOK, Settled
<1> QED BY <1>1, <1>2, <1>3

LEMMA CountedStep == Counted /\ [Next]_vars => Counted'
<1> SUFFICES ASSUME Counted, [Next]_vars PROVE Counted'
  OBVIOUS
<1>1. CASE Client
  BY <1>1, OneshotCounted, RecurringCounted, FastCounted, BruteCounted, DeleteAllCounted
     DEF Client
<1>2. CASE doscheduledevents
  BY <1>2, RunCounted, PopDeletedCounted, ClockCounted DEF doscheduledevents
<1>3. CASE Tick
  BY <1>3, ClockCounted
<1>4. CASE UNCHANGED vars
  BY <1>4 DEF vars, Counted, TypeOK, QueuedOK, OneEach, NotYet, Owed, OwedIn, FireBudget,
              Settled, Asked
<1> QED BY <1>1, <1>2, <1>3, <1>4 DEF Next

LEMMA CountedInit == Init => Counted
<1> SUFFICES ASSUME Init PROVE Counted
  OBVIOUS
<1>1. Blank \in Event
  BY DEF Blank, Event
<1>2. TypeOK
  BY <1>1 DEF Init, TypeOK, NotAsked
<1>3. Asked = {} /\ heap = {}
  BY DEF Init, Asked
<1> QED BY <1>2, <1>3 DEF Init, Counted, QueuedOK, OneEach, NotYet, Owed, FireBudget, Settled

LEMMA CountedAlways == Spec => []Counted
BY CountedInit, CountedStep, PTL DEF Spec

\* The structures and tables of core/schedule.c keep their types, whatever the clients do.
THEOREM TypeCorrect == Spec => []TypeOK
<1>1. Counted => TypeOK
  BY DEF Counted
<1> QED BY <1>1, CountedAlways, PTL

\* schedulerecurring(), doscheduledevents(): no callback runs more often than was asked for,
\* even if clients delete timers by pointers that are out of date.
THEOREM BudgetKept == Spec => []FireBudget
<1>1. Counted => FireBudget
  BY DEF Counted
<1> QED BY <1>1, CountedAlways, PTL

\* insertschedule() at an executed one-shot's old time: no pass of doscheduledevents() ends
\* while a timer that has had its last run is still in the queue.
THEOREM NoneLeftOver == Spec => []FinishedIsFreed
<1>1. Counted => FinishedIsFreed
  <2> SUFFICES ASSUME Counted, ~passing, NEW s \in heap, goal[mem[s].req] # 0
               PROVE  fired[mem[s].req] < goal[mem[s].req]
    BY DEF FinishedIsFreed
  <2>1. goal[mem[s].req] \in Nat /\ fired[mem[s].req] \in Nat
    BY DEF Counted, TypeOK, QueuedOK, Asked, NotAsked
  <2>2. ~(fired[mem[s].req] >= goal[mem[s].req])
    BY DEF Counted, Settled
  <2> QED BY <2>1, <2>2
<1> QED BY <1>1, CountedAlways, PTL

-----------------------------------------------------------------------------
(* Kept is inductive, for clients that drop their pointers in time. *)

LEMMA InsertKept ==
  ASSUME Kept, Counted', NEW r \in Requests, NEW e \in Event, NEW n \in Nat, Insert(r, e, n),
         e.req = r, ~e.deleted
  PROVE  Kept'
<1> USE DEF Kept
<1>1. PICK s \in Slots \ heap :
        /\ mem' = [mem EXCEPT ![s] = e]
        /\ heap' = heap \cup {s}
        /\ handle' = [handle EXCEPT ![r] = [slot |-> s, cb |-> e.cb, arg |-> e.arg]]
  BY DEF Insert
<1>2. /\ r \notin Asked /\ goal' = [goal EXCEPT ![r] = n]
      /\ UNCHANGED <<now, passing, fired, cancelled>>
  BY DEF Insert
<1>3. mem'[s] = e /\ \A t \in heap : mem'[t] = mem[t]
  BY <1>1 DEF Counted, TypeOK
<1>4. \A q \in Asked : goal'[q] = goal[q] /\ q # r
  BY <1>2 DEF Counted, TypeOK, Asked
<1>5. Asked' = Asked \cup {r}
  BY <1>2 DEF Counted, TypeOK, Asked, NotAsked
<1>6. PointersOK'
  BY <1>1, <1>3 DEF PointersOK, Counted, TypeOK
<1>7. \A q \in Requests : q # r => (q \in Live' <=> q \in Live)
  BY <1>1, <1>3 DEF Live, LiveIn
<1>8. r \in Live'
  BY <1>1, <1>3 DEF Live, LiveIn
<1>9. CancelledGone'
  BY <1>2, <1>4, <1>5, <1>7 DEF CancelledGone, Asked
<1>10. NoTimerLost'
  BY <1>2, <1>4, <1>5, <1>7, <1>8 DEF NoTimerLost, Asked
<1> QED BY <1>6, <1>9, <1>10

LEMMA MarkKept ==
  ASSUME Kept, Counted', NEW s \in heap, mem' = [mem EXCEPT ![s].deleted = TRUE],
         UNCHANGED <<heap, handle, now, passing, goal, fired>>,
         cancelled' = cancelled \cup {mem[s].req}
  PROVE  Kept'
<1> USE DEF Kept
<1> DEFINE d == [mem[s] EXCEPT !.deleted = TRUE]
<1>0. s \in Slots /\ mem[s] \in Event
  BY DEF Counted, TypeOK
<1>1. d.req = mem[s].req /\ d.cb = mem[s].cb /\ d.arg = mem[s].arg /\ d.deleted
  BY <1>0, EventMarked
<1>2. mem' = [mem EXCEPT ![s] = d]
  OBVIOUS
<1> HIDE DEF d
<1>3. mem'[s] = d /\ \A t \in heap : t # s => mem'[t] = mem[t] /\ mem[t].req # mem[s].req
  BY <1>0, <1>2 DEF Counted, TypeOK, OneEach
<1>4. Asked' = Asked /\ mem[s].req \in Asked
  BY DEF Asked, Counted, QueuedOK
<1>5. PointersOK'
  BY <1>1, <1>3 DEF PointersOK
<1>6. /\ mem[s].req \notin Live'
      /\ \A q \in Requests : q # mem[s].req => (q \in Live' <=> q \in Live)
  BY <1>1, <1>3 DEF Live, LiveIn
<1>7. CancelledGone'
  BY <1>4, <1>6 DEF CancelledGone, Asked
<1>8. NoTimerLost'
  BY <1>4, <1>6 DEF NoTimerLost, Asked
<1> QED BY <1>5, <1>7, <1>8

LEMMA FastKept ==
  ASSUME Kept, Counted', NEW r \in Requests, deleteschedule_fast(r)
  PROVE  Kept'
<1> USE DEF Kept
<1> DEFINE s == handle[r].slot
<1>1. /\ s \in heap /\ mem[s].req = r /\ mem[s].cb = handle[r].cb /\ mem[s].arg = handle[r].arg
      /\ cancelled' = cancelled \cup {r}
      /\ UNCHANGED <<heap, handle, now, passing, goal, fired>>
  BY DEF deleteschedule_fast, PointersOK
<1>2. CASE mem[s].deleted
  <2>1. mem' = mem
    BY <1>2 DEF deleteschedule_fast, Matches
  <2>2. r \notin Live /\ r \in Asked
    BY <1>1, <1>2 DEF Live, LiveIn, Counted, OneEach, QueuedOK
  <2> QED BY <1>1, <2>1, <2>2 DEF PointersOK, CancelledGone, NoTimerLost, Live, LiveIn, Asked
<1>3. CASE ~mem[s].deleted
  <2>1. mem' = [mem EXCEPT ![s].deleted = TRUE]
    BY <1>1, <1>3 DEF deleteschedule_fast, Matches
  <2> QED BY <1>1, <2>1, MarkKept
<1> QED BY <1>2, <1>3

LEMMA BruteKept ==
  ASSUME Kept, Counted', NEW cb, NEW arg, deleteschedule_brute(cb, arg)
  PROVE  Kept'
BY MarkKept DEF deleteschedule_brute

LEMMA DeleteAllKept ==
  ASSUME Kept, Counted', NEW cb, deleteallschedules(cb)
  PROVE  Kept'
<1> USE DEF Kept
<1> DEFINE gone == {s \in heap : mem[s].cb = cb}
           rs == {mem[s].req : s \in gone}
<1>1. /\ heap' = heap \ gone
      /\ handle' = [q \in Requests |-> IF q \in rs THEN NULL ELSE handle[q]]
      /\ cancelled' = cancelled \cup {q \in rs : LiveIn(q) # {}}
      /\ UNCHANGED <<mem, now, passing, goal, fired>>
  BY DEF deleteallschedules
<1>2. \A q \in rs : q \in Asked /\ LiveIn(q)' = {}
  BY <1>1 DEF LiveIn, Counted, OneEach, QueuedOK
<1>3. \A q \in Requests : q \notin rs => LiveIn(q)' = LiveIn(q)
  BY <1>1 DEF LiveIn
<1>4. Asked' = Asked
  BY <1>1 DEF Asked
<1>5. PointersOK'
  BY <1>1 DEF PointersOK
<1>6. CancelledGone'
  BY <1>1, <1>2, <1>3, <1>4 DEF CancelledGone, Live, Asked
<1>7. NoTimerLost'
  <2> SUFFICES ASSUME NEW q \in Asked, q \notin cancelled', goal[q] = 0 \/ fired[q] < goal[q]
               PROVE  LiveIn(q)' # {}
    BY <1>1, <1>4 DEF NoTimerLost, Live, Asked
  <2>1. LiveIn(q) # {}
    BY <1>1 DEF NoTimerLost, Live
  <2> QED BY <2>1, <1>1, <1>3 DEF Asked
<1> QED BY <1>5, <1>6, <1>7

LEMMA PopDeletedKept ==
  ASSUME Kept, Counted', ~StalePointers, PopDeleted
  PROVE  Kept'
<1> USE DEF Kept
<1>1. PICK s \in heap :
        /\ mem[s].deleted
        /\ heap' = heap \ {s}
        /\ handle' = [q \in Requests |-> IF q = mem[s].req THEN NULL ELSE handle[q]]
        /\ UNCHANGED <<mem, now, passing, goal, fired, cancelled>>
  BY DEF PopDeleted, Forget, clients
<1>2. \A q \in Requests : LiveIn(q)' = LiveIn(q)
  BY <1>1 DEF LiveIn
<1>3. PointersOK'
  BY <1>1 DEF PointersOK
<1> QED BY <1>1, <1>2, <1>3 DEF CancelledGone, NoTimerLost, Live, Asked

LEMMA RunKept ==
  ASSUME Kept, Counted', Run
  PROVE  Kept'
<1> USE DEF Kept
<1>1. PICK s \in heap :
        /\ ~mem[s].deleted
        /\ mem' = [mem EXCEPT ![s] = IF mem[s].type = "ONESHOT" THEN RanOneshot(mem[s])
                                     ELSE RanRepeating(mem[s])]
        /\ fired' = [fired EXCEPT ![mem[s].req] = @ + 1]
        /\ UNCHANGED <<heap, handle, now, passing, goal, cancelled>>
  BY DEF Run, clients
<1> DEFINE r == mem[s].req
           d == IF mem[s].type = "ONESHOT" THEN RanOneshot(mem[s]) ELSE RanRepeating(mem[s])
<1>2. /\ d.req = r /\ d.cb = mem[s].cb /\ d.arg = mem[s].arg
      /\ mem[s].type = "ONESHOT" => goal[r] = fired[r] + 1
      /\ mem[s].type # "ONESHOT" => ~d.deleted
  BY <1>1, RunEffect
<1>3. mem' = [mem EXCEPT ![s] = d]
  BY <1>1
<1> HIDE DEF d
<1>4. r \in Asked /\ r \in Requests /\ fired[r] \in Nat
  BY DEF Counted, QueuedOK, TypeOK, Asked
<1>5. mem'[s] = d /\ \A t \in heap : t # s => mem'[t] = mem[t] /\ mem[t].req # r
  BY <1>3 DEF Counted, TypeOK, OneEach
<1>6. fired'[r] = fired[r] + 1 /\ \A q \in Requests : q # r => fired'[q] = fired[q]
  BY <1>1, <1>4 DEF Counted, TypeOK
<1>7. Asked' = Asked
  BY <1>1 DEF Asked
<1>8. \A q \in Requests : q # r => (q \in Live' <=> q \in Live)
  BY <1>1, <1>2, <1>5 DEF Live, LiveIn
<1>9. r \in Live
  BY <1>1, <1>4 DEF Live, LiveIn
<1>10. mem[s].type # "ONESHOT" => r \in Live'
  BY <1>1, <1>2, <1>4, <1>5 DEF Live, LiveIn
<1>11. PointersOK'
  BY <1>1, <1>2, <1>5 DEF PointersOK
<1>12. CancelledGone'
  BY <1>1, <1>7, <1>8, <1>9 DEF CancelledGone, Asked
<1>13. NoTimerLost'
  <2> SUFFICES ASSUME NEW q \in Asked \ cancelled, goal[q] = 0 \/ fired'[q] < goal[q]
               PROVE  q \in Live'
    BY <1>1, <1>7 DEF NoTimerLost
  <2>1. CASE q = r
    <3>1. goal[r] # fired[r] + 1
      BY <2>1, <1>4, <1>6
    <3> QED BY <2>1, <3>1, <1>2, <1>10
  <2>2. CASE q # r
    BY <2>2, <1>6, <1>8 DEF NoTimerLost, Asked
  <2> QED BY <2>1, <2>2
<1> QED BY <1>11, <1>12, <1>13

LEMMA KeptStep ==
  ASSUME ~StalePointers
  PROVE  Kept /\ [Next]_vars => Kept'
<1> SUFFICES ASSUME Kept, [Next]_vars PROVE Kept'
  OBVIOUS
<1>0. Counted'
  BY CountedStep DEF Kept
<1>1. ASSUME NEW r \in Requests, NEW t \in Times, NEW cb \in Callbacks, NEW arg \in Args,
             scheduleoneshot(r, t, cb, arg)
      PROVE  Kept'
  <2> DEFINE e == [req |-> r, cb |-> cb, arg |-> arg, nextschedule |-> t, type |-> "ONESHOT",
                   repeatinterval |-> 0, repeatcount |-> 1, deleted |-> FALSE]
  <2>1. e \in Event
    BY ScheduleAssumption DEF Event
  <2>2. Insert(r, e, 1)
    BY <1>1 DEF scheduleoneshot
  <2> QED BY <1>0, <2>1, <2>2, InsertKept
<1>2. ASSUME NEW r \in Requests, NEW t \in Times, NEW cb \in Callbacks, NEW arg \in Args,
             NEW n \in Counts, NEW i \in Intervals, schedulerecurring(r, t, n, i, cb, arg)
      PROVE  Kept'
  <2> DEFINE e == [req |-> r, cb |-> cb, arg |-> arg, nextschedule |-> t, type |-> "REPEATING",
                   repeatinterval |-> i, repeatcount |-> n - 1, deleted |-> FALSE]
  <2>1. CASE n = 1
    BY <2>1, <1>1, <1>2 DEF schedulerecurring
  <2>2. CASE n # 1
    <3>1. n \in Nat /\ e \in Event
      BY <2>2, ScheduleAssumption DEF Event
    <3>2. Insert(r, e, n)
      BY <2>2, <1>2 DEF schedulerecurring
    <3> QED BY <1>0, <3>1, <3>2, InsertKept
  <2> QED BY <2>1, <2>2
<1>3. CASE Client
  BY <1>0, <1>1, <1>2, <1>3, FastKept, BruteKept, DeleteAllKept DEF Client
<1>4. CASE PassBegin \/ PassEnd \/ Tick \/ UNCHANGED vars
  <2>1. UNCHANGED <<mem, heap, handle, goal, cancelled, fired>>
    BY <1>4 DEF PassBegin, PassEnd, Tick, vars, clients
  <2> QED BY <1>0, <2>1 DEF Kept, PointersOK, CancelledGone, NoTimerLost, Live, LiveIn, Asked
<1> QED BY <1>0, <1>3, <1>4, RunKept, PopDeletedKept DEF Next, doscheduledevents

LEMMA KeptInit == Init => Kept
BY CountedInit DEF Init, Kept, PointersOK, CancelledGone, NoTimerLost, Asked

LEMMA KeptAlways ==
  ASSUME ~StalePointers
  PROVE  Spec => []Kept
BY KeptInit, KeptStep, PTL DEF Spec

\* deleteschedule(), deleteallschedules(), doscheduledevents(): clients that drop their
\* pointers in time never lose a timer they did not cancel.
THEOREM TimersKept ==
  ASSUME ~StalePointers
  PROVE  Spec => []NoTimerLost
<1>1. Kept => NoTimerLost
  BY DEF Kept
<1> QED BY <1>1, KeptAlways, PTL

\* deleteschedule(), deleteallschedules(): and after either the callback never runs again.
THEOREM DeletedIsQuiet ==
  ASSUME ~StalePointers
  PROVE  Spec => QuietAfterDelete
<1>1. Kept /\ [Next]_vars => [\A r \in cancelled : fired'[r] = fired[r]]_vars
  <2> SUFFICES ASSUME Kept, Next, NEW r \in cancelled PROVE fired'[r] = fired[r]
    OBVIOUS
  <2>1. CASE Run
    <3>1. PICK s \in heap : ~mem[s].deleted /\ fired' = [fired EXCEPT ![mem[s].req] = @ + 1]
      BY <2>1 DEF Run
    <3>2. mem[s].req \in Live
      BY <3>1 DEF Live, LiveIn, Kept, Counted, QueuedOK, Asked
    <3>3. r # mem[s].req /\ r \in Requests
      BY <3>2 DEF Kept, CancelledGone, Asked
    <3> QED BY <3>1, <3>3 DEF Kept, Counted, TypeOK
  <2>2. CASE ~Run
    <3>1. ASSUME NEW q, NEW e, NEW n, Insert(q, e, n) PROVE fired' = fired
      BY <3>1 DEF Insert
    <3>2. ASSUME NEW q, NEW t, NEW n, NEW i, NEW cb, NEW arg,
                 scheduleoneshot(q, t, cb, arg) \/ schedulerecurring(q, t, n, i, cb, arg)
          PROVE  fired' = fired
      BY <3>1, <3>2 DEF scheduleoneshot, schedulerecurring
    <3>3. CASE Client
      BY <3>2, <3>3 DEF Client, deleteschedule_fast, deleteschedule_brute, deleteallschedules
    <3>4. CASE PassBegin \/ PopDeleted \/ PassEnd \/ Tick
      BY <3>4 DEF PassBegin, PopDeleted, PassEnd, Tick
    <3> QED BY <2>2, <3>3, <3>4 DEF Next, doscheduledevents
  <2> QED BY <2>1, <2>2
<1> QED BY <1>1, KeptAlways, PTL DEF Spec, QuietAfterDelete

-----------------------------------------------------------------------------
(* The queue implements Timers. *)

\* What an event structure stands for.
TimerIn(e) ==
  [due |-> e.nextschedule, interval |-> e.repeatinterval,
   left |-> IF e.type = "ONESHOT" THEN 1
            ELSE IF e.repeatcount < 0 THEN 0 ELSE e.repeatcount + 1]

LEMMA TimerOfLive ==
  ASSUME Counted, NEW r \in Requests, NEW s \in LiveIn(r)
  PROVE  TimerOf(r) = TimerIn(mem[s])
<1>1. LiveIn(r) = {s} /\ r \in Live
  BY DEF LiveIn, Live, Counted, OneEach
<1>2. (CHOOSE t \in LiveIn(r) : TRUE) = s
  BY <1>1
<1> QED BY <1>1, <1>2 DEF TimerOf, TimerIn

LEMMA TimerOfLiveNext ==
  ASSUME Counted', NEW r \in Requests, NEW s \in LiveIn(r)'
  PROVE  TimerOf(r)' = TimerIn(mem'[s])
<1>1. LiveIn(r)' = {s} /\ r \in Live'
  BY DEF LiveIn, Live, Counted, OneEach
<1>2. (CHOOSE t \in LiveIn(r)' : TRUE) = s
  BY <1>1
<1> QED BY <1>1, <1>2 DEF TimerOf, TimerIn

LEMMA NoTimerOf ==
  ASSUME NEW r \in Requests, r \notin Live
  PROVE  TimerOf(r) = T!NoTimer
BY DEF TimerOf, T!NoTimer

LEMMA NoTimerOfNext ==
  ASSUME NEW r \in Requests, r \notin Live'
  PROVE  TimerOf(r)' = T!NoTimer
BY DEF TimerOf, T!NoTimer

\* A request whose structures are left alone keeps its timer.
LEMMA SameTimer ==
  ASSUME Counted, Counted', NEW r \in Requests, LiveIn(r)' = LiveIn(r),
         \A s \in LiveIn(r) : mem'[s] = mem[s]
  PROVE  TimerOf(r)' = TimerOf(r)
<1>1. CASE LiveIn(r) = {}
  BY <1>1, NoTimerOf, NoTimerOfNext DEF Live
<1>2. CASE LiveIn(r) # {}
  <2>1. PICK s : s \in LiveIn(r)
    BY <1>2
  <2> QED BY <2>1, TimerOfLive, TimerOfLiveNext
<1> QED BY <1>1, <1>2

\* One request's timer changes.
LEMMA OneTimerChanges ==
  ASSUME NEW r \in Requests, \A q \in Requests : q # r => TimerOf(q)' = TimerOf(q)
  PROVE  LET timer == [q \in Requests |-> TimerOf(q)] IN
         timer'[r] = TimerOf(r)' /\ timer' = [timer EXCEPT ![r] = TimerOf(r)']
OBVIOUS

LEMMA InsertAsks ==
  ASSUME Kept, Kept', NEW r \in Requests, NEW e \in Event, NEW n \in Nat, Insert(r, e, n),
         e.req = r, ~e.deleted, e.type = "ONESHOT" \/ e.repeatcount \in Nat \cup {-1}
  PROVE  T!Ask(r)
<1> USE DEF Kept
<1>1. PICK s \in Slots \ heap : mem' = [mem EXCEPT ![s] = e] /\ heap' = heap \cup {s}
  BY DEF Insert
<1>2. mem'[s] = e /\ \A t \in heap : mem'[t] = mem[t]
  BY <1>1 DEF Counted, TypeOK
<1>3. r \notin Asked /\ UNCHANGED <<fired, now>> /\ fired[r] = 0
  BY DEF Insert, Counted, NotYet
<1>4. r \notin Live
  BY <1>3 DEF Live, LiveIn, Counted, QueuedOK
<1>5. s \in LiveIn(r)'
  BY <1>1, <1>2 DEF LiveIn
<1>6. TimerOf(r) = T!NoTimer /\ TimerOf(r)' = TimerIn(e)
  BY <1>2, <1>4, <1>5, NoTimerOf, TimerOfLiveNext
<1>7. TimerIn(e) \in [due : Nat, interval : Nat, left : Nat]
  BY DEF TimerIn, Event
<1>8. \A q \in Requests : q # r => TimerOf(q)' = TimerOf(q)
  <2> SUFFICES ASSUME NEW q \in Requests, q # r PROVE TimerOf(q)' = TimerOf(q)
    OBVIOUS
  <2>1. LiveIn(q)' = LiveIn(q) /\ \A t \in LiveIn(q) : mem'[t] = mem[t]
    BY <1>1, <1>2 DEF LiveIn
  <2> QED BY <2>1, SameTimer
<1> DEFINE timer == [q \in Requests |-> TimerOf(q)]
<1>9. timer'[r] = TimerIn(e) /\ timer' = [timer EXCEPT ![r] = timer'[r]]
  BY <1>6, <1>8, OneTimerChanges
<1>10. r \notin T!Outstanding
  BY <1>6 DEF T!Outstanding, T!NoTimer
<1> QED BY <1>3, <1>7, <1>9, <1>10 DEF T!Ask

\* Whatever leaves the structures of the other requests alone and those of R without a
\* waiting one cancels R.
LEMMA Cancels ==
  ASSUME Kept, Kept', NEW R \in SUBSET Requests, UNCHANGED <<fired, now>>,
         \A q \in R : q \notin Live',
         \A q \in Requests \ R : LiveIn(q)' = LiveIn(q),
         \A q \in Requests \ R : \A s \in LiveIn(q) : mem'[s] = mem[s]
  PROVE  T!Cancel(R)
<1>1. \A q \in R : TimerOf(q)' = T!NoTimer
  BY NoTimerOfNext
<1>2. \A q \in Requests \ R : TimerOf(q)' = TimerOf(q)
  BY SameTimer DEF Kept
<1> QED BY <1>1, <1>2 DEF T!Cancel

LEMMA FastCancels ==
  ASSUME Kept, Kept', NEW r \in Requests, deleteschedule_fast(r)
  PROVE  T!Cancel({r})
<1> DEFINE s == handle[r].slot
<1>1. /\ s \in heap /\ s \in Slots /\ mem[s].req = r
      /\ r \in cancelled' /\ UNCHANGED <<heap, fired, now>>
      /\ mem' = mem \/ mem' = [mem EXCEPT ![s].deleted = TRUE]
  BY DEF deleteschedule_fast, Kept, PointersOK, Counted, TypeOK
<1>2. r \notin Live'
  BY <1>1 DEF Kept, CancelledGone
<1>3. \A t \in heap : t # s => mem'[t] = mem[t]
  BY <1>1 DEF Kept, Counted, TypeOK
<1>4. \A q \in Requests \ {r} : LiveIn(q)' = LiveIn(q) /\ \A t \in LiveIn(q) : mem'[t] = mem[t]
  <2>1. mem'[s].req = r
    BY <1>1, EventMarked DEF Kept, Counted, TypeOK
  <2> QED BY <2>1, <1>1, <1>3 DEF LiveIn
<1> QED BY <1>1, <1>2, <1>4, Cancels

LEMMA BruteCancels ==
  ASSUME Kept, Kept', NEW cb, NEW arg, deleteschedule_brute(cb, arg)
  PROVE  \E r \in Requests : T!Cancel({r})
<1>1. PICK s \in heap : /\ mem' = [mem EXCEPT ![s].deleted = TRUE]
                        /\ cancelled' = cancelled \cup {mem[s].req}
                        /\ UNCHANGED <<heap, now, fired>>
  BY DEF deleteschedule_brute
<1> DEFINE r == mem[s].req
<1>2. s \in Slots /\ r \in Requests /\ r \notin Live'
  BY <1>1 DEF Kept, CancelledGone, Counted, TypeOK, QueuedOK, Asked
<1>3. \A t \in heap : t # s => mem'[t] = mem[t]
  BY <1>1 DEF Kept, Counted, TypeOK
<1>4. \A q \in Requests \ {r} : LiveIn(q)' = LiveIn(q) /\ \A t \in LiveIn(q) : mem'[t] = mem[t]
  <2>1. mem'[s].req = r
    BY <1>1, <1>2, EventMarked DEF Kept, Counted, TypeOK
  <2> QED BY <2>1, <1>1, <1>3 DEF LiveIn
<1> QED BY <1>1, <1>2, <1>4, Cancels

LEMMA DeleteAllCancels ==
  ASSUME Kept, Kept', NEW cb, deleteallschedules(cb)
  PROVE  \E R \in SUBSET Requests : T!Cancel(R)
<1> DEFINE gone == {s \in heap : mem[s].cb = cb}
           rs == {mem[s].req : s \in gone}
<1>1. heap' = heap \ gone /\ UNCHANGED <<mem, now, fired>>
  BY DEF deleteallschedules
<1>2. rs \in SUBSET Requests
  BY DEF Kept, Counted, QueuedOK, Asked
<1>3. \A q \in rs : q \notin Live'
  BY <1>1 DEF Live, LiveIn, Kept, Counted, OneEach
<1>4. \A q \in Requests \ rs : LiveIn(q)' = LiveIn(q)
  BY <1>1 DEF LiveIn
<1> QED BY <1>1, <1>2, <1>3, <1>4, Cancels

LEMMA RunFires ==
  ASSUME Kept, Kept', Run
  PROVE  \E r \in Requests : T!Fire(r)
<1> USE DEF Kept
<1>1. PICK s \in heap :
        /\ Due(s) /\ Earliest(s) /\ ~mem[s].deleted
        /\ mem' = [mem EXCEPT ![s] = IF mem[s].type = "ONESHOT" THEN RanOneshot(mem[s])
                                     ELSE RanRepeating(mem[s])]
        /\ fired' = [fired EXCEPT ![mem[s].req] = @ + 1]
        /\ UNCHANGED <<heap, now>>
  BY DEF Run
<1>r. PICK r \in Requests : r = mem[s].req
  BY <1>1 DEF Counted, QueuedOK, Asked
<1>d. PICK d : d = IF mem[s].type = "ONESHOT" THEN RanOneshot(mem[s]) ELSE RanRepeating(mem[s])
  OBVIOUS
<1>2. s \in Slots /\ s \in LiveIn(r) /\ mem[s] \in Event
  BY <1>1, <1>r DEF LiveIn, Counted, TypeOK
<1>3. TimerOf(r) = TimerIn(mem[s])
  BY <1>2, TimerOfLive
<1>4. mem'[s] = d /\ \A t \in heap : t # s => mem'[t] = mem[t] /\ mem[t].req # r
  BY <1>1, <1>2, <1>d, <1>r DEF Counted, TypeOK, OneEach
<1>5. d.req = r
  BY <1>2, <1>d, <1>r, EventAfterRanOneshot, EventAfterRanRepeating
<1>6. \A q \in Requests : q # r => TimerOf(q)' = TimerOf(q)
  <2> SUFFICES ASSUME NEW q \in Requests, q # r PROVE TimerOf(q)' = TimerOf(q)
    OBVIOUS
  <2>1. LiveIn(q)' = LiveIn(q) /\ \A t \in LiveIn(q) : mem'[t] = mem[t]
    BY <1>1, <1>r, <1>4, <1>5 DEF LiveIn
  <2> QED BY <2>1, SameTimer
<1>7. TimerOf(r)' = IF TimerOf(r).left = 1 THEN T!NoTimer
                    ELSE [due |-> TimerOf(r).due + TimerOf(r).interval,
                          interval |-> TimerOf(r).interval,
                          left |-> IF TimerOf(r).left = 0 THEN 0 ELSE TimerOf(r).left - 1]
  <2>1. CASE mem[s].type = "ONESHOT"
    <3>1. d.deleted
      BY <2>1, <1>2, <1>d, EventAfterRanOneshot
    <3>2. r \notin Live'
      BY <3>1, <1>1, <1>4 DEF Live, LiveIn
    <3>3. TimerOf(r)' = T!NoTimer
      BY <3>2, NoTimerOfNext
    <3>4. TimerOf(r).left = 1
      BY <2>1, <1>3 DEF TimerIn
    <3> QED BY <3>3, <3>4
  <2>2. CASE mem[s].type # "ONESHOT"
    <3>1. /\ ~d.deleted
          /\ d.nextschedule = mem[s].nextschedule + mem[s].repeatinterval
          /\ d.repeatinterval = mem[s].repeatinterval
          /\ d.repeatcount = IF mem[s].repeatcount > 0 THEN mem[s].repeatcount - 1
                             ELSE mem[s].repeatcount
          /\ d.type = IF mem[s].repeatcount = 1 THEN "ONESHOT" ELSE "REPEATING"
      BY <2>2, <1>1, <1>2, <1>d, EventAfterRanRepeating
    <3>2. s \in LiveIn(r)'
      BY <3>1, <1>1, <1>4, <1>5 DEF LiveIn
    <3>3. TimerOf(r)' = TimerIn(d)
      <4>1. TimerOf(r)' = TimerIn(mem'[s])
        BY <3>2, <1>2, TimerOfLiveNext
      <4> QED BY <4>1, <1>4
    <3>4. mem[s].repeatcount = -1 \/ mem[s].repeatcount >= 1
      BY <1>1, <2>2 DEF Counted, Owed, OwedIn
    <3>5. mem[s].repeatcount \in Int
      BY <1>2 DEF Event
    <3> QED BY <3>1, <3>3, <3>4, <3>5, <2>2, <1>3 DEF TimerIn
  <2> QED BY <2>1, <2>2
<1>8. r \in T!Outstanding /\ TimerOf(r).due <= now
  <2>1. mem[s].repeatcount \in Int
    BY <1>2 DEF Event
  <2> QED BY <2>1, <1>1, <1>2, <1>3 DEF T!Outstanding, TimerIn, Due
<1>9. \A q \in T!Outstanding : TimerOf(r).due <= TimerOf(q).due
  <2> SUFFICES ASSUME NEW q \in Requests, TimerOf(q).left >= 0
               PROVE  TimerOf(r).due <= TimerOf(q).due
    BY DEF T!Outstanding
  <2>1. q \in Live
    BY NoTimerOf DEF T!NoTimer
  <2>2. PICK t : t \in LiveIn(q)
    BY <2>1 DEF Live
  <2>3. TimerOf(q) = TimerIn(mem[t]) /\ t \in heap
    BY <2>2, TimerOfLive DEF LiveIn
  <2> QED BY <2>3, <1>1, <1>3 DEF TimerIn, Earliest
<1> DEFINE timer == [q \in Requests |-> TimerOf(q)]
<1>10. timer' = [timer EXCEPT ![r] = TimerOf(r)'] /\ timer[r] = TimerOf(r)
  BY <1>2, <1>6, OneTimerChanges
<1>11. T!Fire(r)
  BY <1>1, <1>r, <1>7, <1>8, <1>9, <1>10 DEF T!Fire, T!Outstanding
<1> QED BY <1>11

LEMMA StepImplements ==
  ASSUME Kept, Kept', ~StalePointers, [Next]_vars
  PROVE  [T!Next]_(T!vars)
<1>1. ASSUME NEW r \in Requests, NEW t \in Times, NEW cb \in Callbacks, NEW arg \in Args,
             scheduleoneshot(r, t, cb, arg)
      PROVE  T!Ask(r)
  <2> DEFINE e == [req |-> r, cb |-> cb, arg |-> arg, nextschedule |-> t, type |-> "ONESHOT",
                   repeatinterval |-> 0, repeatcount |-> 1, deleted |-> FALSE]
  <2>1. e \in Event
    BY ScheduleAssumption DEF Event
  <2>2. Insert(r, e, 1)
    BY <1>1 DEF scheduleoneshot
  <2> QED BY <2>1, <2>2, InsertAsks
<1>2. ASSUME NEW r \in Requests, NEW t \in Times, NEW cb \in Callbacks, NEW arg \in Args,
             NEW n \in Counts, NEW i \in Intervals, schedulerecurring(r, t, n, i, cb, arg)
      PROVE  T!Ask(r)
  <2> DEFINE e == [req |-> r, cb |-> cb, arg |-> arg, nextschedule |-> t, type |-> "REPEATING",
                   repeatinterval |-> i, repeatcount |-> n - 1, deleted |-> FALSE]
  <2>1. CASE n = 1
    BY <2>1, <1>1, <1>2 DEF schedulerecurring
  <2>2. CASE n # 1
    <3>1. n \in Nat /\ e \in Event
      BY <2>2, ScheduleAssumption DEF Event
    <3>2. e.repeatcount \in Nat \cup {-1}
      BY <3>1
    <3>3. Insert(r, e, n)
      BY <2>2, <1>2 DEF schedulerecurring
    <3> QED BY <3>1, <3>2, <3>3, InsertAsks
  <2> QED BY <2>1, <2>2
<1>3. CASE Client
  BY <1>1, <1>2, <1>3, FastCancels, BruteCancels, DeleteAllCancels DEF Client, T!Next
<1>4. CASE Run
  BY <1>4, RunFires DEF T!Next
<1>5. CASE Tick
  <2>1. \A q \in Requests : TimerOf(q)' = TimerOf(q)
    BY <1>5, SameTimer DEF Tick, Kept, clients, LiveIn
  <2> QED BY <2>1, <1>5 DEF Tick, T!Next, T!Tick, clients
<1>6. CASE PassBegin \/ PassEnd \/ PopDeleted \/ UNCHANGED vars
  <2>1. UNCHANGED <<mem, fired, now>>
    BY <1>6 DEF PassBegin, PassEnd, PopDeleted, vars, clients
  <2>2. \A q \in Requests : LiveIn(q)' = LiveIn(q)
    BY <1>6 DEF PassBegin, PassEnd, PopDeleted, vars, LiveIn
  <2>3. \A q \in Requests : TimerOf(q)' = TimerOf(q)
    BY <2>1, <2>2, SameTimer DEF Kept
  <2> QED BY <2>1, <2>3 DEF T!vars
<1> QED BY <1>3, <1>4, <1>5, <1>6 DEF Next, doscheduledevents

\* scheduleoneshot(), schedulerecurring(), deleteschedule(), deleteallschedules() and
\* doscheduledevents() together do what Timers promises, for clients that drop their pointers
\* in time: timers run when due, earlier ones first, as often as asked for, and not again once
\* they are cancelled.
THEOREM QueueImplementsTimers ==
  ASSUME ~StalePointers
  PROVE  Spec => ImplementsTimers
<1>1. Init => T!Init
  BY DEF Init, T!Init, TimerOf, Live, LiveIn, T!NoTimer
<1>2. Kept /\ Kept' /\ [Next]_vars => [T!Next]_(T!vars)
  BY StepImplements
<1> QED BY <1>1, <1>2, KeptAlways, PTL DEF Spec, ImplementsTimers, T!Spec
=============================================================================
