------------------------------- MODULE Trusts -------------------------------
(***************************************************************************)
(* Trusts, trusts/data.c, trusts/events.c and the parts of                 *)
(* trusts/trusts_db.c that change them. A trust host is a network; each    *)
(* nick belongs to the most specific host that covers its address, is in   *)
(* the list of that host's users, and counts for the host and its group.   *)
(* Hosts come and go while nicks do, and all of them at once when the      *)
(* database is closed and loaded again.                                    *)
(*                                                                         *)
(* An address is a sequence of AddressBits bits, a host the sequence of    *)
(* the bits of its mask: no two hosts have the same.                       *)
(***************************************************************************)
EXTENDS Naturals, Sequences, SequencesExt, FiniteSetsExt

CONSTANTS
  Address,         \* from nicks to their addresses
  Masks, AddressBits,
  Group, NONE,
  FREED,           \* a pointer to a host that was freed
  DeletesCovered,  \* whether a host in use is deleted while a less specific one covers it
  EarlyChanges     \* whether hosts change between loadcomplete() and its timer

VARIABLES
  online,          \* the nicks of the network
  group,           \* from masks to the group of the host, NONE if there is no such host
  users, count, parent, children,
  groupcount,
  trusthost,       \* the host of a nick
  loaded,          \* trustsdbloaded
  timer,           \* triggerdbloaded() is scheduled
  hooksregistered

vars == <<online, group, users, count, parent, children, groupcount, trusthost, loaded, timer, hooksregistered>>

Nick == DOMAIN Address
NickOrder == SetToSeq(Nick)   \* the order of the nick hash

Init ==
  /\ online = {}
  /\ group = [h \in Masks |-> NONE]
  /\ users = [h \in Masks |-> <<>>]
  /\ count = [h \in Masks |-> 0]
  /\ parent = [h \in Masks |-> NONE]
  /\ children = [h \in Masks |-> {}]
  /\ groupcount = [g \in Group |-> 0]
  /\ trusthost = [n \in Nick |-> NONE]
  /\ loaded = FALSE /\ timer = FALSE /\ hooksregistered = FALSE

HostsOf(grp) == {h \in Masks : grp[h] # NONE}
Covers(h, n) == IsPrefix(h, Address[n])

\* The most specific of hosts, which all cover the same.
MostSpecific(hosts) == IF hosts = {} THEN NONE ELSE CHOOSE h \in hosts : \A k \in hosts : Len(k) <= Len(h)

th_getbyhost(grp, n) == MostSpecific({h \in HostsOf(grp) : Covers(h, n)})
th_getsmallestsuperset(grp, h) == MostSpecific({k \in HostsOf(grp) : IsStrictPrefix(k, h)})

\* th_getsubsetbyhost() finds the hosts that cover the first address of h only.
FirstAddress(h) == [i \in 1 .. AddressBits |-> IF i <= Len(h) THEN h[i] ELSE 0]
th_getsubset(grp, h) == {k \in HostsOf(grp) : IsPrefix(k, FirstAddress(h)) /\ Len(k) > Len(h)}

\* th_linktree(): parents are found anew, and the children of hosts that are somebody's parent.
th_linktree(grp, kids) ==
  LET p == [h \in Masks |-> IF grp[h] = NONE THEN NONE ELSE th_getsmallestsuperset(grp, h)] IN
  /\ parent' = p
  /\ children' = [h \in Masks |->
       IF \E k \in Masks : p[k] = h THEN {k \in Masks : p[k] = h} ELSE kids[h]]

\* What trusts_newnick() and trusts_lostnick() change.
Tables == [users |-> users, count |-> count, groupcount |-> groupcount, trusthost |-> trusthost]
Become(s) ==
  /\ users' = s.users /\ count' = s.count
  /\ groupcount' = s.groupcount /\ trusthost' = s.trusthost

trusts_newnick(s, grp, n) ==
  LET h == th_getbyhost(grp, n) IN
  IF h = NONE THEN [s EXCEPT !.trusthost[n] = NONE]
  ELSE [s EXCEPT !.trusthost[n] = h, !.users[h] = <<n>> \o @,
                 !.count[h] = @ + 1, !.groupcount[grp[h]] = @ + 1]

trusts_lostnick(s, grp, n) ==
  LET h == s.trusthost[n] IN
  IF h \notin HostsOf(grp) THEN s
  ELSE [s EXCEPT !.users[h] = RemoveFirst(@, n), !.count[h] = @ - 1, !.groupcount[grp[h]] = @ - 1]

-----------------------------------------------------------------------------
\* HOOK_NICK_NEWNICK; extensions of a new nick are NULL.
newnick(n) ==
  /\ n \notin online
  /\ online' = online \cup {n}
  /\ Become(IF hooksregistered THEN trusts_newnick(Tables, group, n)
            ELSE [Tables EXCEPT !.trusthost[n] = NONE])
  /\ UNCHANGED <<group, parent, children, loaded, timer, hooksregistered>>

lostnick(n) ==
  /\ n \in online
  /\ online' = online \ {n}
  /\ Become(IF hooksregistered THEN trusts_lostnick(Tables, group, n) ELSE Tables)
  /\ UNCHANGED <<group, parent, children, loaded, timer, hooksregistered>>

\* MUTANT: a more specific host hides the less specific one.
Bug_th_adjusthosts(s, grp, h, superset, subset) ==
  LET Move(n, t) == trusts_newnick(trusts_lostnick(t, grp, n), grp, n)
      Enter(n, t) == IF t.trusthost[n] = NONE THEN trusts_newnick(t, grp, n) ELSE t
      t2 == IF superset # NONE /\ subset = {}
            THEN FoldLeft(LAMBDA t, n : IF Covers(h, n) THEN Move(n, t) ELSE t, s, s.users[superset])
            ELSE s
  IN IF superset = NONE \/ subset # {}
     THEN FoldLeft(LAMBDA t, n : IF Covers(h, n) /\ n \in online THEN Enter(n, t) ELSE t, t2, NickOrder)
     ELSE t2

\* th_adjusthosts(): nicks move to the new host h from the one that covers it; others are looked for
\* among the nicks without a host, unless that host covers them all.
th_adjusthosts(s, grp, h, superset, subset) ==
  LET Move(n, t) == trusts_newnick(trusts_lostnick(t, grp, n), grp, n)
      Enter(n, t) == IF t.trusthost[n] = NONE THEN trusts_newnick(t, grp, n) ELSE t
      moved == IF superset = NONE THEN s
               ELSE FoldLeft(LAMBDA t, n : IF Covers(h, n) THEN Move(n, t) ELSE t, s, s.users[superset])
  IN IF superset = NONE \/ subset # {}
     THEN FoldLeft(LAMBDA t, n : IF Covers(h, n) /\ n \in online THEN Enter(n, t) ELSE t, moved, NickOrder)
     ELSE moved

\* The commands need the database, and the network's messages are obeyed once it is loaded.
MayChange == loaded /\ (timer => EarlyChanges)

\* th_copy() with th_add()
th_copy(h, g) ==
  /\ MayChange
  /\ group[h] = NONE
  /\ LET grp == [group EXCEPT ![h] = g]
         fresh == [Tables EXCEPT !.users[h] = <<>>, !.count[h] = 0]
     IN /\ group' = grp
        /\ Become(th_adjusthosts(fresh, grp, h, th_getsmallestsuperset(grp, h), th_getsubset(grp, h)))
        /\ th_linktree(grp, [children EXCEPT ![h] = {}])
  /\ UNCHANGED <<online, loaded, timer, hooksregistered>>

\* th_delete(): the users are left without a host, and their number is added to the parent's.
th_delete(h) ==
  /\ MayChange
  /\ group[h] # NONE
  /\ parent[h] # NONE /\ users[h] # <<>> => DeletesCovered
  /\ LET p == parent[h]
         cut == IF p = NONE THEN children ELSE [children EXCEPT ![p] = @ \ {h}]
     IN /\ trusthost' = [n \in Nick |->
                           IF n \in ToSet(users[h]) THEN NONE
                           ELSE IF trusthost[n] = h THEN FREED ELSE trusthost[n]]
        /\ groupcount' = [groupcount EXCEPT ![group[h]] = @ - count[h]]
        /\ count' = [k \in Masks |-> IF k = h THEN 0 ELSE IF k = p THEN count[k] + count[h] ELSE count[k]]
        /\ users' = [users EXCEPT ![h] = <<>>]
        /\ group' = [group EXCEPT ![h] = NONE]
        /\ th_linktree(group', [cut EXCEPT ![h] = {}])
  /\ UNCHANGED <<online, loaded, timer, hooksregistered>>

-----------------------------------------------------------------------------
\* loadhosts_data() and loadcomplete(), with any contents of the tables: a replication replaces them.
loadcomplete(table) ==
  /\ ~loaded
  /\ group' = table
  /\ th_linktree(table, [h \in Masks |-> {}])
  /\ loaded' = TRUE
  /\ timer' = TRUE
  /\ UNCHANGED <<online, users, count, groupcount, trusthost, hooksregistered>>

\* triggerdbloaded(): __dbloaded() enters every nick, and from now on those that come.
triggerdbloaded ==
  /\ timer
  /\ timer' = FALSE
  /\ hooksregistered' = TRUE
  /\ Become(IF hooksregistered THEN Tables
            ELSE FoldLeft(LAMBDA t, n : IF n \in online THEN trusts_newnick(t, group, n) ELSE t, Tables, NickOrder))
  /\ UNCHANGED <<online, group, parent, children, loaded>>

\* trusts_closedb(): all hosts and groups are freed, and __dbclosed() stops; nicks keep their pointers.
trusts_closedb ==
  /\ MayChange
  /\ group' = [h \in Masks |-> NONE]
  /\ users' = [h \in Masks |-> <<>>]
  /\ count' = [h \in Masks |-> 0]
  /\ parent' = [h \in Masks |-> NONE]
  /\ children' = [h \in Masks |-> {}]
  /\ groupcount' = [g \in Group |-> 0]
  /\ trusthost' = [n \in Nick |-> IF trusthost[n] = NONE THEN NONE ELSE FREED]
  /\ loaded' = FALSE
  /\ hooksregistered' = FALSE
  /\ UNCHANGED <<online, timer>>

Next ==
  \/ \E n \in Nick : newnick(n) \/ lostnick(n)
  \/ \E h \in Masks, g \in Group : th_copy(h, g)
  \/ \E h \in Masks : th_delete(h)
  \/ \E table \in [Masks -> Group \cup {NONE}] : loadcomplete(table)
  \/ triggerdbloaded
  \/ trusts_closedb

Spec == Init /\ [][Next]_vars

-----------------------------------------------------------------------------
\* th_adjusthosts(), trusts_newnick(), trusts_lostnick(), th_linktree(): in whatever order nicks, hosts
\* and loads come, each nick counts, once, for the most specific host that covers it and for that host's
\* group, and the hosts form the tree of their networks.
TrustsExact ==
  /\ hooksregistered =>
       /\ \A n \in online : trusthost[n] = th_getbyhost(group, n)
       /\ \A h \in Masks :
            LET mine == {n \in online : trusthost[n] = h} IN
            ToSet(users[h]) = mine /\ Len(users[h]) = Cardinality(mine) /\ count[h] = Cardinality(mine)
       /\ \A g \in Group :
            groupcount[g] = Cardinality({n \in online : trusthost[n] # NONE /\ group[trusthost[n]] = g})
  /\ \A h \in Masks :
       /\ children[h] = {k \in HostsOf(group) : th_getsmallestsuperset(group, k) = h}
       /\ \A k \in children[h] : parent[k] = h

\* th_adjusthosts() says of a host that a less specific one covers: "No need to look for extra hosts in
\* the main nick hash as they're all covered already": who is covered by a host has one.
CoveredAlready ==
  hooksregistered => \A n \in online, h \in HostsOf(group) : Covers(h, n) => trusthost[n] # NONE
=============================================================================
