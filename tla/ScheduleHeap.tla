---------------------------- MODULE ScheduleHeap ----------------------------
(***************************************************************************)
(* The array heap of core/schedule.c: insertschedule(), schedule_remove(), *)
(* schedule_heapify() and the removal of the root by doscheduledevents().  *)
(* Schedule takes the queue to be a set whose earliest element is popped;  *)
(* this module shows that the array keeps that promise, and that the index *)
(* field of each structure, by which deleteallschedules() removes it, is   *)
(* its place in the array.                                                 *)
(***************************************************************************)
EXTENDS Integers, FiniteSets

CONSTANTS Items, Keys     \* event structures, and their nextschedule times

VARIABLES
  events,   \* events[0 .. heapsize-1]
  index,    \* the index field of each structure, -1 when invalidated
  key,      \* nextschedule
  queued    \* history: the structures put in and not taken out

vars == <<events, index, key, queued>>

HeapAssumption == Keys \subseteq Int

heapsize == Cardinality(DOMAIN events)
Parent(i) == (i - 1) \div 2
Leaf(i, n) == i * 2 + 1 >= n

\* A heap under repair: the array and the index fields, which every swap updates.
Swap(h, i, j) ==
  [ev |-> [h.ev EXCEPT ![i] = h.ev[j], ![j] = h.ev[i]],
   ix |-> [h.ix EXCEPT ![h.ev[i]] = j, ![h.ev[j]] = i]]

Resize(ev, n) == [i \in 0 .. n - 1 |-> ev[i]]

\* MUTANT: the right child is compared with the node instead of the smaller child so far.
Bug_FirstOf(h, k, i) ==
  LET l == i * 2 + 1
      r == i * 2 + 2
      n == Cardinality(DOMAIN h.ev) IN
  IF r < n /\ k[h.ev[i]] > k[h.ev[r]] THEN r
  ELSE IF k[h.ev[i]] > k[h.ev[l]] THEN l ELSE i

\* Which of a node and its children comes first; ties stay where they are.
FirstOf(h, k, i) ==
  LET l == i * 2 + 1
      r == i * 2 + 2
      n == Cardinality(DOMAIN h.ev)
      f == IF k[h.ev[i]] > k[h.ev[l]] THEN l ELSE i IN
  IF r < n /\ k[h.ev[f]] > k[h.ev[r]] THEN r ELSE f

\* One call of schedule_heapify(): the heap and the place it is called for.
Down(c, k) ==
  LET f == FirstOf(c.heap, k, c.at) IN
  IF Leaf(c.at, Cardinality(DOMAIN c.heap.ev)) \/ f = c.at THEN c
  ELSE [heap |-> Swap(c.heap, f, c.at), at |-> f]

\* schedule_heapify() calls itself for the child it swaps with: less often than there are places.
schedule_heapify(h, k, i) ==
  LET calls[s \in 0 .. Cardinality(DOMAIN h.ev)] ==
        IF s = 0 THEN [heap |-> h, at |-> i] ELSE Down(calls[s - 1], k)
  IN calls[Cardinality(DOMAIN h.ev)].heap

\* One pass of the loop that goes up.
Up(c, k) ==
  IF c.at = 0 \/ k[c.heap.ev[c.at]] >= k[c.heap.ev[Parent(c.at)]] THEN c
  ELSE [heap |-> Swap(c.heap, Parent(c.at), c.at), at |-> Parent(c.at)]

FloatUp(h, k, i) ==
  LET passes[s \in 0 .. i] == IF s = 0 THEN [heap |-> h, at |-> i] ELSE Up(passes[s - 1], k)
  IN passes[i].heap

Put(h) == events' = h.ev /\ index' = h.ix

\* freeschedule(): what the structure held does not matter any more.
Free(x, h) ==
  /\ Put([h EXCEPT !.ix[x] = -1])
  /\ key' = [key EXCEPT ![x] = 0]
  /\ queued' = queued \ {x}

-----------------------------------------------------------------------------
Init ==
  /\ events = [i \in {} |-> 0]
  /\ index = [x \in Items |-> -1]
  /\ key = [x \in Items |-> 0]
  /\ queued = {}

\* insertschedule() pulls parents down until the new element's place is found.
insertschedule(x, k) ==
  /\ x \notin queued
  /\ key' = [key EXCEPT ![x] = k]
  /\ queued' = queued \cup {x}
  /\ LET n == heapsize
         ev == [i \in 0 .. n |-> IF i = n THEN x ELSE events[i]]
     IN Put(FloatUp([ev |-> ev, ix |-> [index EXCEPT ![x] = n]], key', n))

\* The last element takes the place of the one removed.
MoveLast(i) ==
  LET n == heapsize - 1
      last == events[n] IN
  [ev |-> Resize([events EXCEPT ![i] = last], n),
   ix |-> [index EXCEPT ![events[i]] = -1, ![last] = i]]

\* The heap after schedule_remove(): pushed down, and then floated up from the same place.
Removed(i) ==
  IF i = heapsize - 1 THEN [ev |-> Resize(events, heapsize - 1), ix |-> index]
  ELSE FloatUp(schedule_heapify(MoveLast(i), key, i), key, i)

\* deleteallschedules() passes the index field of the structure.
schedule_remove(x) ==
  /\ x \in queued
  /\ LET i == index[x] IN
       /\ i \in 0 .. heapsize - 1
       /\ Free(x, Removed(i))

\* doscheduledevents() takes the root and puts the last element there.
WithoutRoot ==
  IF heapsize = 1 THEN [ev |-> Resize(events, 0), ix |-> index]
  ELSE schedule_heapify(MoveLast(0), key, 0)

PopRoot ==
  /\ heapsize > 0
  /\ Free(events[0], WithoutRoot)

Next ==
  \/ \E x \in Items, k \in Keys : insertschedule(x, k)
  \/ \E x \in Items : schedule_remove(x)
  \/ PopRoot

Spec == Init /\ [][Next]_vars

-----------------------------------------------------------------------------
\* schedule_heapify(), insertschedule(), schedule_remove(): no sequence of insertions and removals loses
\* an event or queues one twice; the index field of a queued structure is its place, or
\* deleteallschedules() would free some other client's event; and no event is above an earlier one,
\* so that events[0], the only one doscheduledevents() looks at, is the earliest.
HeapExact ==
  /\ heapsize = Cardinality(queued)
  /\ {events[i] : i \in DOMAIN events} = queued
  /\ \A i \in DOMAIN events : index[events[i]] = i
  /\ \A i \in DOMAIN events : i > 0 => key[events[Parent(i)]] <= key[events[i]]
=============================================================================
