------------------------------ MODULE ProxyScan -----------------------------
(***************************************************************************)
(* The scanner for open proxies, proxyscan/*.c. A user who connects from   *)
(* an address that is not known to be clean has a list of ports there      *)
(* tried. So many scans run at a time; the others wait, some of them until *)
(* a time: an address that answered but did not turn out to be a proxy is  *)
(* tried again, up to three times. Every scan has an alarm.                *)
(*                                                                         *)
(* Scans, waiting or running, hold a reference to the address in the tree  *)
(* of patricia/, as nicks and the cache of known addresses do.             *)
(***************************************************************************)
EXTENDS Integers, Sequences, FiniteSets, SequencesExt, FiniteSetsExt

CONSTANTS
  Node,           \* addresses
  thescans,       \* the kinds of scans (a type and a port), in order
  maxscans,
  PassDelay,      \* until an address is tried again
  CleanInterval, DirtyInterval, Again,    \* for how long the cache knows an address
  MaxTime, MaxForced,    \* bounds: of the clock, and of scans that operators ask for
  NULL

VARIABLES
  normalqueue, prioqueue,
  scantable,      \* the structures in use, by their place in memory
  alarm,          \* for each place, how many timers have it for their argument
  activescans,
  cache,          \* of known addresses: an extension of the nodes
  refs,           \* references that nodes have
  ready,          \* ps_ready
  online, now, forced

vars == <<normalqueue, prioqueue, scantable, alarm, activescans, cache, refs, ready, online, now, forced>>

Kinds == Range(thescans)
Places == 1 .. maxscans + 1

Classes == {"check", "normal", "pass2", "pass3", "pass4"}
Scan == [node : Node, kind : Kinds, class : Classes, state : {"connecting", "sentrequest"}]
CachedHost == [lastscan : Nat, proxies : SUBSET Kinds]

ScanAssumption ==
  /\ thescans \in Seq(Kinds)
  /\ maxscans \in Nat /\ PassDelay \in Nat
  /\ NULL \notin Classes /\ NULL \notin Scan /\ NULL \notin CachedHost

Init ==
  /\ normalqueue = <<>> /\ prioqueue = <<>>
  /\ scantable = [p \in Places |-> NULL] /\ alarm = [p \in Places |-> 0] /\ activescans = 0
  /\ cache = [n \in Node |-> NULL] /\ refs = [n \in Node |-> 0]
  /\ ready = FALSE /\ online = [n \in Node |-> FALSE] /\ now = 1 /\ forced = 0

-----------------------------------------------------------------------------
\* The functions call each other, so they map a record of what they change to the next.
State == [normal |-> normalqueue, prio |-> prioqueue, scans |-> scantable, alarm |-> alarm,
          active |-> activescans, cache |-> cache, refs |-> refs]

Become(st) ==
  /\ normalqueue' = st.normal /\ prioqueue' = st.prio
  /\ scantable' = st.scans /\ alarm' = st.alarm /\ activescans' = st.active
  /\ cache' = st.cache /\ refs' = st.refs

ref(st, n) == [st EXCEPT !.refs[n] = @ + 1]
derefnode(st, n) == [st EXCEPT !.refs[n] = @ - 1]
deleteschedule(st, p) == [st EXCEPT !.alarm[p] = IF @ = 0 THEN 0 ELSE @ - 1]
scheduleoneshot(st, p) == [st EXCEPT !.alarm[p] = @ + 1]

\* startscan(). No socket can be had for the kinds in bad.
startscan(st, job, bad) ==
  IF job.kind \in bad THEN derefnode(st, job.node)
  ELSE LET p == Min({q \in Places : st.scans[q] = NULL})
           started == [st EXCEPT !.scans[p] = [node |-> job.node, kind |-> job.kind, class |-> job.class,
                                               state |-> "connecting"], !.active = @ + 1]
       IN scheduleoneshot(started, p)

\* The priority queue is in the order of times, those of the same time in the order they came.
InOrder(queue, job) ==
  LET before == {i \in DOMAIN queue : queue[i].when <= job.when}
  IN InsertAt(queue, Cardinality(before) + 1, job)

queuescan(st, n, kind, class, when, bad) ==
  LET job == [node |-> n, kind |-> kind, class |-> class, when |-> when]
      held == ref(st, n)
  IN IF st.active < maxscans /\ when <= now /\ ready THEN startscan(held, job, bad)
     ELSE IF when = 0 THEN [held EXCEPT !.normal = Append(@, job)]
     ELSE [held EXCEPT !.prio = InOrder(@, job)]

\* startqueuedscans(), as often as there are scans that wait.
StartNext(st, bad) ==
  IF st.active >= maxscans THEN st
  ELSE IF st.prio # <<>> /\ Head(st.prio).when <= now
  THEN startscan([st EXCEPT !.prio = Tail(@)], Head(st.prio), bad)
  ELSE IF st.normal # <<>> THEN startscan([st EXCEPT !.normal = Tail(@)], Head(st.normal), bad)
  ELSE st

startqueuedscans(st, bad) ==
  LET waiting == Len(st.normal) + Len(st.prio)
      after[k \in 0 .. waiting] == IF k = 0 THEN st ELSE StartNext(after[k - 1], bad)
  IN after[waiting]

\* findcachehost() forgets what it has known for too long.
Stale(known) == known.lastscan < now - (IF known.proxies = {} THEN CleanInterval ELSE DirtyInterval)

findcachehost(st, n) ==
  IF st.cache[n] # NULL /\ Stale(st.cache[n]) THEN derefnode([st EXCEPT !.cache[n] = NULL], n) ELSE st

addcleanhost(st, n) == ref([st EXCEPT !.cache[n] = [lastscan |-> now, proxies |-> {}]], n)

-----------------------------------------------------------------------------
NextClass(sp) ==
  CASE sp.class = "check" \/ (sp.class = "normal" /\ sp.state = "sentrequest") -> "pass2"
    [] sp.class = "pass2" -> "pass3"
    [] sp.class = "pass3" -> "pass4"
    [] OTHER -> NULL

\* An open proxy: the cache has it, and a G-line is set (glinebyip(), see Glines).
FoundOpen(st, sp) ==
  LET found == findcachehost(st, sp.node)
      known == IF found.cache[sp.node] = NULL THEN addcleanhost(found, sp.node) ELSE found
  IN [known EXCEPT !.cache[sp.node].proxies = @ \cup {sp.kind}]

killsock(st, p, open, bad) ==
  LET sp == st.scans[p]
      over == [deleteschedule(st, p) EXCEPT !.scans[p] = NULL, !.active = @ - 1]
      told == IF open THEN FoundOpen(over, sp)
              ELSE IF NextClass(sp) # NULL THEN queuescan(over, sp.node, sp.kind, NextClass(sp), now + PassDelay, bad)
              ELSE over
  IN startqueuedscans(derefnode(told, sp.node), bad)

Does(st) == Become(st) /\ UNCHANGED <<ready, online, now, forced>>

timeoutscansock(p, bad) ==
  /\ alarm[p] > 0
  /\ Does(killsock([State EXCEPT !.alarm[p] = @ - 1], p, FALSE, bad))

\* handlescansock(), when the connection is there and the request is written, or not, and when
\* something is read, or the other side has closed it.
Connected(p, written, bad) ==
  /\ scantable[p] # NULL /\ scantable[p].state = "connecting"
  /\ LET st == [scheduleoneshot(deleteschedule(State, p), p) EXCEPT !.scans[p].state = "sentrequest"]
     IN Does(IF written THEN st ELSE killsock(st, p, FALSE, bad))

\* MUTANT: the alarm is set when more has been read, but the old one is not deleted.
Bug_MoreRead(p) ==
  /\ scantable[p] # NULL /\ scantable[p].state = "sentrequest"
  /\ Does(scheduleoneshot(State, p))

MoreRead(p) ==
  /\ scantable[p] # NULL /\ scantable[p].state = "sentrequest"
  /\ Does(scheduleoneshot(deleteschedule(State, p), p))

Answered(p, open, bad) ==
  /\ scantable[p] # NULL /\ scantable[p].state = "sentrequest"
  /\ Does(killsock(deleteschedule(State, p), p, open, bad))

Failed(p, bad) ==
  /\ scantable[p] # NULL
  /\ Does(killsock(deleteschedule(State, p), p, FALSE, bad))

-----------------------------------------------------------------------------
\* proxyscan_newnick(). A host that had proxies is asked about them again; the loop that would queue
\* the other scans looks at its condition only where it does not hold.
QueueAll(st, n, kinds, class, when, bad) ==
  LET after[k \in 0 .. Len(kinds)] ==
        IF k = 0 THEN st ELSE queuescan(after[k - 1], n, kinds[k], class, when, bad)
  IN after[Len(kinds)]

Scanned(st, n, bad) ==
  LET found == findcachehost(st, n)
      known == found.cache[n]
  IN IF known = NULL THEN QueueAll(addcleanhost(found, n), n, thescans, "normal", 0, bad)
     ELSE IF known.proxies = {} \/ now < known.lastscan + Again THEN found
     ELSE [QueueAll(found, n, SetToSeq(known.proxies), "check", now, bad)
             EXCEPT !.cache[n] = [lastscan |-> now, proxies |-> {}]]

newnick(n, bad) ==
  /\ ~online[n]
  /\ online' = [online EXCEPT ![n] = TRUE]
  /\ Become(Scanned(ref(State, n), n, bad))
  /\ UNCHANGED <<ready, now, forced>>

lostnick(n) ==
  /\ online[n]
  /\ online' = [online EXCEPT ![n] = FALSE]
  /\ Become(derefnode(State, n))
  /\ UNCHANGED <<ready, now, forced>>

\* The operator's search action: all kinds, now.
startnickscan(n, bad) ==
  /\ online[n] /\ forced < MaxForced
  /\ forced' = forced + 1
  /\ Become(QueueAll(State, n, thescans, "normal", now, bad))
  /\ UNCHANGED <<ready, online, now>>

\* Some server has ended its burst.
proxyscan_onconnect(bad) ==
  /\ ready' = TRUE
  /\ Become(startqueuedscans(State, bad))
  /\ UNCHANGED <<online, now, forced>>

dumpcachehosts ==
  LET over == {n \in Node : cache[n] # NULL /\ Stale(cache[n])}
  IN Does([State EXCEPT !.cache = [n \in Node |-> IF n \in over THEN NULL ELSE @[n]],
                        !.refs = [n \in Node |-> IF n \in over THEN @[n] - 1 ELSE @[n]]])

Tick ==
  /\ now < MaxTime
  /\ now' = now + 1
  /\ UNCHANGED <<normalqueue, prioqueue, scantable, alarm, activescans, cache, refs, ready, online, forced>>

Next ==
  \/ \E bad \in SUBSET Kinds :
       \/ \E p \in Places :
            \/ timeoutscansock(p, bad) \/ Failed(p, bad)
            \/ \E yes \in BOOLEAN : Connected(p, yes, bad) \/ Answered(p, yes, bad)
       \/ \E n \in Node : newnick(n, bad) \/ startnickscan(n, bad)
       \/ proxyscan_onconnect(bad)
  \/ \E p \in Places : MoreRead(p)
  \/ \E n \in Node : lostnick(n)
  \/ dumpcachehosts \/ Tick

Spec == Init /\ [][Next]_vars

-----------------------------------------------------------------------------
\* queuescan(), startscan(), killsock(), handlescansock(): as many scans run as may, each with one
\* alarm; none waits that could run, unless it waits for a time; and each address has a reference
\* for every nick, every scan and the cache, whatever ends a scan and whatever fails to start.
ScansExact ==
  LET running == {p \in Places : scantable[p] # NULL}
      Of(queue, n) == Cardinality({i \in DOMAIN queue : queue[i].node = n})
  IN /\ activescans = Cardinality(running) /\ activescans <= maxscans
     /\ \A p \in Places : alarm[p] = IF p \in running THEN 1 ELSE 0
     /\ ready /\ normalqueue # <<>> => activescans = maxscans
     /\ \A n \in Node :
          refs[n] = Cardinality({p \in running : scantable[p].node = n}) + Of(normalqueue, n) + Of(prioqueue, n)
                    + (IF online[n] THEN 1 ELSE 0) + (IF cache[n] # NULL THEN 1 ELSE 0)
=============================================================================
