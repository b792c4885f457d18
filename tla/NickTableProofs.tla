--------------------------- MODULE NickTableProofs --------------------------
(***************************************************************************)
(* Proofs about NickTable, for any servers, clients, names, hosts,         *)
(* accounts and timestamps, and any finite memory.                         *)
(***************************************************************************)
EXTENDS NickTable, FiniteSetTheorems, TLAPS

Tables ==
  /\ linked \subseteq Servers
  /\ servernicks \in [Servers -> [Slots -> Nicks \cup {NULL}]]
  /\ nick \in [Nicks -> NickRec \cup {NULL}]
  /\ nicktable \in [Names -> SUBSET Nicks]
  /\ hosttable \in [Hosts -> Shared \cup {NULL}]
  /\ authnametable \in [Auths -> Shared \cup {NULL}]

\* Nobody has the name that a handler is about to give to a nick, and what the handler has in its
\* hands is still there.
HandlingOK ==
  \/ handling = Idle
  \/ \E m \in NickMsg : handling = Introducing(m) /\ nicktable[m.name] = {}
  \/ \E p \in Live :
       handling = Placing(p) /\ nick[p].numeric[1] \in linked /\ nicktable[nick[p].name] = {}
  \/ \E p \in Live, n \in Names, ts \in Times : handling = Renaming(p, n, ts) /\ nicktable[n] = {}
  \/ \E s \in linked \ {MyServer} : handling = Losing(s)

\* The nicks that are in the tables.
Placed == Live \ Incoming

Numbered ==
  \A p \in Placed :
    /\ nick[p].numeric[1] \in linked
    /\ servernicks[nick[p].numeric[1]][Slot(nick[p].numeric)] = p

SlotsExact ==
  \A s \in linked, i \in Slots :
    servernicks[s][i] # NULL =>
      /\ servernicks[s][i] \in Placed
      /\ nick[servernicks[s][i]].numeric[1] = s
      /\ Slot(nick[servernicks[s][i]].numeric) = i

Named == \A n \in Names : nicktable[n] = {p \in Placed : nick[p].name = n}

OneHolder == \A p, q \in Placed : nick[p].name = nick[q].name => p = q

\* Those who can see the cloaked nick c, by the structures ns.
SeenBy(ns, c) == {q \in Nicks : ns[q] # NULL /\ ns[q].cloak_extra = c}

Cloaks(ns) ==
  \A c \in Nicks : IF ns[c] = NULL THEN SeenBy(ns, c) = {}
                   ELSE ns[c].cloak_count = Cardinality(SeenBy(ns, c))

\* A shared record tells who its users are.
Tells(t, users) ==
  IF users = {} THEN t = NULL ELSE t = [count |-> Cardinality(users), nicks |-> users]

OnHost(h) == {p \in Live : nick[p].host = h}
HostsTell == \A h \in Hosts : Tells(hosttable[h], OnHost(h))

\* However the modes +r and -r come and go, an account counts at least those who point at it.
WithAuth(a) == {p \in Live : nick[p].auth = a}
Accounted ==
  \A a \in Auths : WithAuth(a) # {} =>
    authnametable[a] # NULL /\ Cardinality(WithAuth(a)) <= authnametable[a].count

TablesCore ==
  /\ Tables
  /\ Numbered /\ SlotsExact /\ Named /\ OneHolder
  /\ Cloaks(nick) /\ HostsTell /\ Accounted

TablesInv == TablesCore /\ HandlingOK

\* Where nobody sends those modes, an account counts exactly those who have it.
WithAccount(a) == {p \in Live : nick[p].account /\ nick[p].auth = a}
AccountsTell == \A a \in Auths : Tells(authnametable[a], WithAccount(a))

-----------------------------------------------------------------------------
(* Cloaks. *)

Structures == [Nicks -> NickRec \cup {NULL}]

\* What a change of cloaks leaves alone.
SameNick(r, s) ==
  /\ r.name = s.name /\ r.numeric = s.numeric /\ r.ident = s.ident /\ r.host = s.host
  /\ r.timestamp = s.timestamp /\ r.account = s.account /\ r.auth = s.auth

SameNicks(ns, ms) ==
  \A q \in Nicks : IF ns[q] = NULL THEN ms[q] = NULL ELSE ms[q] # NULL /\ SameNick(ns[q], ms[q])

LEMMA SeenByFinite ==
  ASSUME NickTableAssumption, NEW ns, NEW c
  PROVE  IsFiniteSet(SeenBy(ns, c)) /\ Cardinality(SeenBy(ns, c)) \in Nat
<1>1. SeenBy(ns, c) \in SUBSET Nicks /\ IsFiniteSet(Nicks)
  BY DEF SeenBy, NickTableAssumption
<1> QED BY <1>1, FS_Subset, FS_CardinalityType

LEMMA RemoveTarget ==
  ASSUME NickTableAssumption, NEW ns \in Structures, Cloaks(ns),
         NEW q \in Nicks, ns[q] # NULL
  PROVE  LET ms == removecloaktarget(ns, q) IN
         /\ ms \in Structures /\ SameNicks(ns, ms) /\ Cloaks(ms)
         /\ ms[q].cloak_extra = NULL
<1> DEFINE c == ns[q].cloak_extra
           ms == removecloaktarget(ns, q)
<1>0. NULL \notin Nicks /\ NULL \notin NickRec /\ ns[q] \in NickRec /\ c \in Nicks \cup {NULL}
  BY DEF NickTableAssumption, Structures, NickRec
<1>1. CASE c = NULL
  <2>1. ms = ns
    BY <1>1 DEF removecloaktarget
  <2> QED BY <2>1, <1>1 DEF SameNicks, SameNick
<1>2. CASE c # NULL
  <2>1. q \in SeenBy(ns, c) /\ c \in Nicks
    BY <1>0, <1>2 DEF SeenBy
  <2>2. ns[c] # NULL /\ ns[c] \in NickRec /\ ns[c].cloak_count = Cardinality(SeenBy(ns, c))
    BY <2>1 DEF Cloaks, Structures
  <2>3. ns[c].cloak_count - 1 \in Nat
    BY <2>1, <2>2, SeenByFinite, FS_EmptySet
  <2>4. ms = [[ns EXCEPT ![c].cloak_count = ns[c].cloak_count - 1] EXCEPT ![q].cloak_extra = NULL]
    BY <1>2 DEF removecloaktarget
  <2> DEFINE k == ns[c].cloak_count - 1
  <2>5. ms \in Structures
    <3>1. [ns EXCEPT ![c].cloak_count = k] \in Structures
      BY <2>1, <2>2, <2>3 DEF Structures, NickRec
    <3>2. [ns EXCEPT ![c].cloak_count = k][q] \in NickRec
      BY <1>0, <2>1, <2>2, <2>3 DEF Structures, NickRec
    <3> HIDE DEF k
    <3> QED BY <2>4, <3>1, <3>2, SMTT(20) DEF Structures, NickRec, k
  <2>6. SameNicks(ns, ms)
    <3> SUFFICES ASSUME NEW d \in Nicks
                 PROVE  IF ns[d] = NULL THEN ms[d] = NULL ELSE ms[d] # NULL /\ SameNick(ns[d], ms[d])
      BY DEF SameNicks
    <3>1. CASE ns[d] = NULL
      BY <1>0, <2>1, <2>2, <2>4, <3>1 DEF Structures
    <3>2. CASE ns[d] # NULL
      <4>1. ns[d] \in NickRec
        BY <3>2 DEF Structures
      <4>2. SameNick(ns[d], ms[d]) /\ ms[d] \in NickRec
        BY <4>1, <1>0, <2>1, <2>2, <2>3, <2>4, <2>5, <3>2 DEF SameNick, Structures, NickRec
      <4> QED BY <1>0, <3>2, <4>2
    <3> QED BY <3>1, <3>2
  <2>7. /\ ms[q].cloak_extra = NULL
        /\ \A d \in Nicks \ {q} : ns[d] # NULL => ms[d].cloak_extra = ns[d].cloak_extra
        /\ \A d \in Nicks \ {c} : ns[d] # NULL => ms[d].cloak_count = ns[d].cloak_count
        /\ ms[c].cloak_count = k
    BY <1>0, <2>1, <2>2, <2>4 DEF Structures, NickRec
  <2>8. \A d \in Nicks : SeenBy(ms, d) = IF d = c THEN SeenBy(ns, d) \ {q} ELSE SeenBy(ns, d)
    BY <1>0, <2>6, <2>7 DEF SeenBy, SameNicks
  <2>9. Cardinality(SeenBy(ns, c) \ {q}) = k
    <3>1. IsFiniteSet(SeenBy(ns, c))
      BY SeenByFinite
    <3>2. Cardinality(SeenBy(ns, c) \ {q}) = Cardinality(SeenBy(ns, c)) - 1
      BY <2>1, <3>1, FS_RemoveElement
    <3> QED BY <2>2, <3>2
  <2>10. Cloaks(ms)
    BY <2>1, <2>2, <2>6, <2>7, <2>8, <2>9 DEF Cloaks, SameNicks
  <2> QED BY <2>5, <2>6, <2>7, <2>10
<1> QED BY <1>1, <1>2

LEMMA ClearTargets ==
  ASSUME NickTableAssumption, NEW ns \in Structures, Cloaks(ns),
         NEW c \in Nicks, ns[c] # NULL
  PROVE  LET ms == clearcloaktargets(ns, c) IN
         /\ ms \in Structures /\ SameNicks(ns, ms) /\ Cloaks(ms)
         /\ SeenBy(ms, c) = {}
         /\ ns[c].cloak_extra = NULL => ms[c].cloak_extra = NULL
<1> DEFINE ms == clearcloaktargets(ns, c)
<1>0. NULL \notin Nicks /\ NULL \notin NickRec /\ ns[c] \in NickRec
      /\ ns[c].cloak_count = Cardinality(SeenBy(ns, c))
  BY DEF NickTableAssumption, Structures, Cloaks
<1>1. CASE ns[c].cloak_count = 0
  <2>1. ms = ns
    BY <1>1 DEF clearcloaktargets
  <2>2. SeenBy(ns, c) = {}
    BY <1>0, <1>1, SeenByFinite, FS_EmptySet
  <2> QED BY <2>1, <2>2 DEF SameNicks, SameNick
<1>2. CASE ns[c].cloak_count # 0
  <2>1. ms = [q \in Nicks |->
                IF ns[q] = NULL THEN NULL
                ELSE [ns[q] EXCEPT !.cloak_extra = IF ns[q].cloak_extra = c THEN NULL ELSE ns[q].cloak_extra,
                                   !.cloak_count = IF q = c THEN 0 ELSE ns[q].cloak_count]]
    BY <1>2 DEF clearcloaktargets
  <2>2. \A q \in Nicks : ns[q] # NULL =>
          /\ ms[q] \in NickRec /\ SameNick(ns[q], ms[q])
          /\ ms[q].cloak_extra = IF ns[q].cloak_extra = c THEN NULL ELSE ns[q].cloak_extra
          /\ ms[q].cloak_count = IF q = c THEN 0 ELSE ns[q].cloak_count
    <3> SUFFICES ASSUME NEW q \in Nicks, ns[q] # NULL
                 PROVE  /\ ms[q] \in NickRec /\ SameNick(ns[q], ms[q])
                        /\ ms[q].cloak_extra = IF ns[q].cloak_extra = c THEN NULL ELSE ns[q].cloak_extra
                        /\ ms[q].cloak_count = IF q = c THEN 0 ELSE ns[q].cloak_count
      OBVIOUS
    <3> DEFINE x == IF ns[q].cloak_extra = c THEN NULL ELSE ns[q].cloak_extra
               k == IF q = c THEN 0 ELSE ns[q].cloak_count
    <3>1. ms[q] = [ns[q] EXCEPT !.cloak_extra = x, !.cloak_count = k]
      BY <2>1
    <3>2. ns[q] \in NickRec
      BY DEF Structures
    <3>3. x \in Nicks \cup {NULL} /\ k \in Nat
      BY <3>2 DEF NickRec
    <3> HIDE DEF x, k, ms
    <3>4. ms[q] \in NickRec /\ SameNick(ns[q], ms[q]) /\ ms[q].cloak_extra = x /\ ms[q].cloak_count = k
      BY <3>1, <3>2, <3>3 DEF NickRec, SameNick
    <3> QED BY <3>4 DEF x, k
  <2>3. \A q \in Nicks : ns[q] = NULL => ms[q] = NULL
    BY <2>1
  <2>4. ms \in Structures /\ SameNicks(ns, ms)
    <3>1. ms = [q \in Nicks |-> ms[q]]
      BY <2>1
    <3> HIDE DEF ms
    <3> QED BY <3>1, <2>2, <2>3, <1>0 DEF Structures, SameNicks
  <2> HIDE DEF ms
  <2>5. \A d \in Nicks : SeenBy(ms, d) = IF d = c THEN {} ELSE SeenBy(ns, d)
    BY <1>0, <2>2, <2>3, <2>4 DEF SeenBy, SameNicks
  <2>6. Cloaks(ms)
    BY <2>2, <2>3, <2>4, <2>5, FS_EmptySet DEF Cloaks, SameNicks
  <2> QED BY <2>2, <2>4, <2>5, <2>6 DEF ms
<1> QED BY <1>1, <1>2

LEMMA AddTarget ==
  ASSUME NickTableAssumption, NEW ns \in Structures, Cloaks(ns),
         NEW c \in Nicks, ns[c] # NULL, NEW q \in Nicks, ns[q] # NULL
  PROVE  LET ms == addcloaktarget(ns, c, q) IN
         ms \in Structures /\ SameNicks(ns, ms) /\ Cloaks(ms)
<1> DEFINE rs == removecloaktarget(ns, q)
           ms == addcloaktarget(ns, c, q)
           k == rs[c].cloak_count + 1
<1>1. rs \in Structures /\ SameNicks(ns, rs) /\ Cloaks(rs) /\ rs[q].cloak_extra = NULL
  BY RemoveTarget
<1>2. ms = [[rs EXCEPT ![q].cloak_extra = c] EXCEPT ![c].cloak_count = k]
  BY <1>1 DEF addcloaktarget, Structures
<1> HIDE DEF rs, ms
<1>0. NULL \notin Nicks /\ NULL \notin NickRec /\ rs[c] # NULL /\ rs[q] # NULL
      /\ rs[c] \in NickRec /\ rs[q] \in NickRec
  BY <1>1 DEF NickTableAssumption, Structures, SameNicks
<1>3. k \in Nat /\ rs[c].cloak_count = Cardinality(SeenBy(rs, c))
  BY <1>0, <1>1 DEF Cloaks, NickRec
<1>4. ms \in Structures
  <2>1. [rs EXCEPT ![q].cloak_extra = c] \in Structures
    BY <1>0, <1>1 DEF Structures, NickRec
  <2>2. [rs EXCEPT ![q].cloak_extra = c][c] \in NickRec
    BY <1>0, <1>1 DEF Structures, NickRec
  <2> HIDE DEF k
  <2> QED BY <1>2, <1>3, <2>1, <2>2 DEF Structures, NickRec
<1>5. SameNicks(rs, ms)
  BY <1>0, <1>1, <1>2, <1>4 DEF SameNicks, SameNick, Structures, NickRec
<1>6. SameNicks(ns, ms)
  BY <1>1, <1>5 DEF SameNicks, SameNick
<1>7. /\ ms[q].cloak_extra = c
      /\ \A d \in Nicks \ {q} : rs[d] # NULL => ms[d].cloak_extra = rs[d].cloak_extra
      /\ \A d \in Nicks \ {c} : rs[d] # NULL => ms[d].cloak_count = rs[d].cloak_count
      /\ ms[c].cloak_count = k
  BY <1>0, <1>1, <1>2 DEF Structures, NickRec
<1>8. \A d \in Nicks : SeenBy(ms, d) = IF d = c THEN SeenBy(rs, d) \cup {q} ELSE SeenBy(rs, d)
  BY <1>0, <1>1, <1>5, <1>7 DEF SeenBy, SameNicks
<1>9. Cardinality(SeenBy(rs, c) \cup {q}) = k
  <2>1. q \notin SeenBy(rs, c)
    BY <1>0, <1>1 DEF SeenBy
  <2> QED BY <2>1, <1>3, SeenByFinite, FS_AddElement
<1>10. Cloaks(ms)
  BY <1>0, <1>1, <1>5, <1>7, <1>8, <1>9 DEF Cloaks, SameNicks
<1> QED BY <1>4, <1>6, <1>10 DEF ms

-----------------------------------------------------------------------------
(* Shared records. *)

LEMMA JoinTells ==
  ASSUME NickTableAssumption, NEW t \in Shared \cup {NULL}, NEW users \in SUBSET Nicks,
         Tells(t, users), NEW p \in Nicks \ users
  PROVE  Join(t, p) \in Shared /\ Tells(Join(t, p), users \cup {p})
<1>1. IsFiniteSet(users) /\ Cardinality(users) \in Nat
  BY FS_Subset, FS_CardinalityType DEF NickTableAssumption
<1>2. Cardinality(users \cup {p}) = Cardinality(users) + 1
  BY <1>1, FS_AddElement
<1>3. CASE users = {}
  <2>1. Join(t, p) = [count |-> 1, nicks |-> {p}]
    BY <1>3 DEF Tells, Join
  <2>2. Cardinality(users \cup {p}) = 1 /\ users \cup {p} = {p}
    BY <1>2, <1>3, FS_EmptySet
  <2> QED BY <2>1, <2>2 DEF Tells, Shared
<1>4. CASE users # {}
  <2>1. t = [count |-> Cardinality(users), nicks |-> users] /\ t # NULL
    BY <1>1, <1>4 DEF Tells, Shared, NickTableAssumption
  <2>2. Join(t, p) = [count |-> Cardinality(users \cup {p}), nicks |-> users \cup {p}]
    BY <1>2, <2>1 DEF Join
  <2>3. Cardinality(users \cup {p}) \in Nat
    BY <1>1, <1>2
  <2> QED BY <2>2, <2>3 DEF Tells, Shared
<1> QED BY <1>3, <1>4

LEMMA LeaveTells ==
  ASSUME NickTableAssumption, NEW t \in Shared \cup {NULL}, NEW users \in SUBSET Nicks,
         Tells(t, users), NEW p \in users
  PROVE  Leave(t, p) \in Shared \cup {NULL} /\ Tells(Leave(t, p), users \ {p})
<1>1. IsFiniteSet(users) /\ Cardinality(users) \in Nat
  BY FS_Subset, FS_CardinalityType DEF NickTableAssumption
<1>2. Cardinality(users \ {p}) = Cardinality(users) - 1 /\ IsFiniteSet(users \ {p})
  BY <1>1, FS_RemoveElement
<1>3. t = [count |-> Cardinality(users), nicks |-> users]
  BY DEF Tells
<1>4. users \ {p} = {} <=> Cardinality(users) = 1
  BY <1>1, <1>2, FS_EmptySet
<1>5. CASE Cardinality(users) = 1
  BY <1>3, <1>4, <1>5 DEF Leave, Tells
<1>6. CASE Cardinality(users) # 1
  <2>1. Leave(t, p) = [count |-> Cardinality(users \ {p}), nicks |-> users \ {p}]
    BY <1>2, <1>3, <1>6 DEF Leave
  <2>2. Cardinality(users \ {p}) \in Nat
    BY <1>2, FS_CardinalityType
  <2> QED BY <1>4, <1>6, <2>1, <2>2 DEF Tells, Shared
<1> QED BY <1>5, <1>6

-----------------------------------------------------------------------------
(* Lookups and deletenick(). *)

LEMMA NickFields ==
  ASSUME NickTableAssumption, Tables, NEW p \in Live
  PROVE  /\ p \in Nicks /\ nick[p] \in NickRec /\ nick[p] # NULL
         /\ nick[p].name \in Names /\ nick[p].host \in Hosts /\ nick[p].ident \in Idents
         /\ nick[p].timestamp \in Times /\ nick[p].account \in BOOLEAN
         /\ nick[p].auth \in Auths \cup {NULL}
         /\ nick[p].numeric \in Numerics /\ nick[p].numeric[1] \in Servers
         /\ Slot(nick[p].numeric) \in Slots
  BY DEF Live, Tables, NickRec, Numerics, Slots

LEMMA FoundByNumeric ==
  ASSUME NickTableAssumption, TablesCore, NEW x \in Numerics, getnickbynumeric(x) # NULL
  PROVE  getnickbynumeric(x) \in Placed
<1>1. x[1] \in linked /\ Slot(x) \in Slots /\ servernicks[x[1]][Slot(x)] # NULL
      /\ getnickbynumeric(x) = servernicks[x[1]][Slot(x)]
  BY DEF getnickbynumeric, Slots
<1> QED BY <1>1 DEF TablesCore, SlotsExact

LEMMA FoundByNick ==
  ASSUME NickTableAssumption, TablesCore, NEW n \in Names
  PROVE  /\ getnickbynick(n) = NULL => nicktable[n] = {}
         /\ getnickbynick(n) # NULL => /\ getnickbynick(n) \in Placed
                                       /\ nick[getnickbynick(n)].name = n
                                       /\ nicktable[n] = {getnickbynick(n)}
<1>1. CASE nicktable[n] = {}
  BY <1>1 DEF getnickbynick
<1>2. CASE nicktable[n] # {}
  <2>1. getnickbynick(n) \in nicktable[n]
    BY <1>2 DEF getnickbynick
  <2>2. getnickbynick(n) \in Placed /\ nick[getnickbynick(n)].name = n /\ getnickbynick(n) \in Nicks
    BY <2>1 DEF TablesCore, Named, Placed, Live
  <2>3. nicktable[n] = {getnickbynick(n)}
    BY <2>1, <2>2 DEF TablesCore, Named, OneHolder
  <2> QED BY <2>2, <2>3, <1>2 DEF NickTableAssumption
<1> QED BY <1>1, <1>2

LEMMA DeletedNick ==
  ASSUME NickTableAssumption, TablesCore, NEW p \in Live, deletenick(p)
  PROVE  /\ nick' \in Structures /\ Cloaks(nick')
         /\ Live' = Live \ {p}
         /\ \A q \in Live \ {p} : SameNick(nick[q], nick'[q])
<1> DEFINE rs == removecloaktarget(nick, p)
           ns == clearcloaktargets(rs, p)
<1>0. p \in Nicks /\ nick[p] # NULL /\ nick \in Structures /\ Cloaks(nick) /\ NULL \notin Nicks
  BY DEF Live, TablesCore, Tables, Structures, NickTableAssumption
<1>1. rs \in Structures /\ SameNicks(nick, rs) /\ Cloaks(rs) /\ rs[p].cloak_extra = NULL
  BY <1>0, RemoveTarget
<1>2. rs[p] # NULL
  BY <1>0, <1>1 DEF SameNicks
<1>3. ns \in Structures /\ SameNicks(rs, ns) /\ Cloaks(ns) /\ SeenBy(ns, p) = {}
      /\ ns[p].cloak_extra = NULL
  BY <1>0, <1>1, <1>2, ClearTargets
<1>4. nick' = [ns EXCEPT ![p] = NULL]
  BY DEF deletenick
<1> HIDE DEF rs, ns
<1>5. SameNicks(nick, ns)
  BY <1>1, <1>3 DEF SameNicks, SameNick
<1>6. nick' \in Structures /\ nick'[p] = NULL /\ \A q \in Nicks \ {p} : nick'[q] = ns[q]
  BY <1>0, <1>3, <1>4 DEF Structures
<1>7. \A d \in Nicks : SeenBy(nick', d) = SeenBy(ns, d)
  BY <1>0, <1>3, <1>6 DEF SeenBy
<1>8. Cloaks(nick')
  BY <1>3, <1>6, <1>7 DEF Cloaks
<1>9. Live' = Live \ {p}
  BY <1>0, <1>5, <1>6 DEF Live, SameNicks
<1>10. \A q \in Live \ {p} : SameNick(nick[q], nick'[q])
  BY <1>0, <1>5, <1>6 DEF Live, SameNicks
<1> QED BY <1>6, <1>8, <1>9, <1>10

LEMMA DeletedFromRecords ==
  ASSUME NickTableAssumption, TablesCore, NEW p \in Live, deletenick(p)
  PROVE  /\ hosttable' \in [Hosts -> Shared \cup {NULL}] /\ HostsTell'
         /\ authnametable' \in [Auths -> Shared \cup {NULL}] /\ Accounted'
<1>0. /\ Live' = Live \ {p} /\ \A q \in Live \ {p} : SameNick(nick[q], nick'[q])
      /\ Live \subseteq Nicks /\ Tables /\ HostsTell /\ Accounted
  BY DeletedNick DEF Live, TablesCore
<1>1. \A h \in Hosts : OnHost(h)' = OnHost(h) \ {p} /\ OnHost(h) \in SUBSET Nicks
  BY <1>0 DEF OnHost, SameNick
<1>2. /\ hosttable' = [hosttable EXCEPT ![nick[p].host] = Leave(hosttable[nick[p].host], p)]
      /\ authnametable' = IF nick[p].account /\ nick[p].auth # NULL
                          THEN [authnametable EXCEPT ![nick[p].auth] = Leave(authnametable[nick[p].auth], p)]
                          ELSE authnametable
  BY DEF deletenick
<1>3. nick[p].host \in Hosts /\ p \in OnHost(nick[p].host)
  BY <1>0, NickFields DEF OnHost
<1>4. \A h \in Hosts \ {nick[p].host} : p \notin OnHost(h)
  BY DEF OnHost
<1>5. hosttable' \in [Hosts -> Shared \cup {NULL}] /\ HostsTell'
  <2> DEFINE h0 == nick[p].host
             left == Leave(hosttable[h0], p)
  <2>1. left \in Shared \cup {NULL} /\ Tells(left, OnHost(h0) \ {p})
    BY <1>0, <1>1, <1>3, LeaveTells DEF Tables, HostsTell
  <2> HIDE DEF left
  <2>2. hosttable' = [hosttable EXCEPT ![h0] = left]
    BY <1>2 DEF left
  <2>3. hosttable' \in [Hosts -> Shared \cup {NULL}]
    BY <1>0, <1>3, <2>1, <2>2 DEF Tables
  <2>4. ASSUME NEW h \in Hosts PROVE Tells(hosttable'[h], OnHost(h)')
    <3>1. CASE h = h0
      <4>1. hosttable'[h] = left
        BY <1>0, <1>3, <2>2, <3>1 DEF Tables
      <4> QED BY <1>1, <2>1, <3>1, <4>1
    <3>2. CASE h # h0
      <4>1. hosttable'[h] = hosttable[h] /\ OnHost(h)' = OnHost(h)
        BY <1>0, <1>1, <1>4, <2>2, <3>2 DEF Tables
      <4> QED BY <1>0, <4>1 DEF HostsTell
    <3> QED BY <3>1, <3>2
  <2>5. HostsTell' = \A h \in Hosts : Tells(hosttable'[h], OnHost(h)')
    BY DEF HostsTell, Tells
  <2> QED BY <2>3, <2>4, <2>5
<1>6. \A a \in Auths : WithAuth(a)' = WithAuth(a) \ {p} /\ IsFiniteSet(WithAuth(a))
                       /\ Cardinality(WithAuth(a)) \in Nat
  <2>1. \A a \in Auths : WithAuth(a) \in SUBSET Nicks
    BY <1>0 DEF WithAuth
  <2>2. IsFiniteSet(Nicks)
    BY DEF NickTableAssumption
  <2> QED BY <1>0, <2>1, <2>2, FS_Subset, FS_CardinalityType DEF WithAuth, SameNick
<1>7. CASE nick[p].account /\ nick[p].auth # NULL
  <2> DEFINE a0 == nick[p].auth
             t == authnametable[a0]
             left == Leave(t, p)
  <2>1. a0 \in Auths /\ p \in WithAuth(a0)
    BY <1>0, <1>7, NickFields DEF WithAuth
  <2>2. t \in Shared /\ Cardinality(WithAuth(a0)) <= t.count /\ t.count \in Nat
    BY <1>0, <2>1 DEF Accounted, Tables, Shared
  <2>3. /\ Cardinality(WithAuth(a0) \ {p}) = Cardinality(WithAuth(a0)) - 1
        /\ Cardinality(WithAuth(a0)) # 0
        /\ WithAuth(a0) \ {p} # {} => Cardinality(WithAuth(a0) \ {p}) # 0
    BY <1>6, <2>1, FS_RemoveElement, FS_EmptySet
  <2>4. left \in Shared \cup {NULL}
    BY <1>6, <2>1, <2>2, <2>3 DEF Leave, Shared
  <2>5. WithAuth(a0) \ {p} # {} => left # NULL /\ Cardinality(WithAuth(a0) \ {p}) <= left.count
    <3> SUFFICES ASSUME WithAuth(a0) \ {p} # {}
                 PROVE  left # NULL /\ Cardinality(WithAuth(a0) \ {p}) <= left.count
      OBVIOUS
    <3>1. t.count # 1 /\ Cardinality(WithAuth(a0) \ {p}) <= t.count - 1
      BY <1>6, <2>1, <2>2, <2>3
    <3>2. left = [count |-> t.count - 1, nicks |-> t.nicks \ {p}]
      BY <3>1 DEF Leave
    <3>3. left \in Shared
      BY <1>6, <2>1, <2>2, <2>3, <3>1, <3>2 DEF Shared
    <3> QED BY <3>1, <3>2, <3>3 DEF NickTableAssumption
  <2>6. authnametable' = [authnametable EXCEPT ![a0] = left]
    BY <1>2, <1>7
  <2> HIDE DEF left, t
  <2>7. authnametable' \in [Auths -> Shared \cup {NULL}]
    BY <1>0, <2>1, <2>4, <2>6 DEF Tables
  <2>8. \A a \in Auths : authnametable'[a] = IF a = a0 THEN left ELSE authnametable[a]
    BY <1>0, <2>1, <2>6 DEF Tables
  <2>9. \A a \in Auths \ {a0} : WithAuth(a)' = WithAuth(a)
    BY <1>6 DEF WithAuth
  <2>10. ASSUME NEW a \in Auths, WithAuth(a)' # {}
         PROVE  authnametable'[a] # NULL /\ Cardinality(WithAuth(a)') <= authnametable'[a].count
    <3>1. CASE a = a0
      BY <1>6, <2>1, <2>5, <2>8, <2>10, <3>1
    <3>2. CASE a # a0
      BY <1>0, <2>8, <2>9, <2>10, <3>2 DEF Accounted
    <3> QED BY <3>1, <3>2
  <2>11. Accounted'
    BY <2>10 DEF Accounted
  <2> QED BY <1>5, <2>7, <2>11
<1>8. CASE ~(nick[p].account /\ nick[p].auth # NULL)
  <2>1. authnametable' = authnametable
    BY <1>2, <1>8
  <2>2. \A a \in Auths : Cardinality(WithAuth(a)') <= Cardinality(WithAuth(a))
                         /\ Cardinality(WithAuth(a)') \in Nat
                         /\ (WithAuth(a)' # {} => WithAuth(a) # {})
    BY <1>6, FS_RemoveElement, FS_CardinalityType, FS_Subset
  <2>3. ASSUME NEW a \in Auths, WithAuth(a)' # {}
        PROVE  authnametable[a] # NULL /\ Cardinality(WithAuth(a)') <= authnametable[a].count
    <3>1. authnametable[a] # NULL /\ Cardinality(WithAuth(a)) <= authnametable[a].count
      BY <1>0, <2>2, <2>3 DEF Accounted
    <3>2. authnametable[a].count \in Nat
      BY <1>0, <3>1 DEF Tables, Shared
    <3> QED BY <1>6, <2>2, <3>1, <3>2
  <2>4. Accounted'
    BY <2>1, <2>3 DEF Accounted
  <2> QED BY <1>0, <1>5, <2>1, <2>4 DEF Tables
<1> QED BY <1>7, <1>8

LEMMA DeletedFromTables ==
  ASSUME NickTableAssumption, TablesCore, NEW p \in Placed, deletenick(p),
         linked' = linked, Incoming' = Incoming
  PROVE  TablesCore' /\ \A n \in Names : nicktable'[n] = nicktable[n] \ {p}
<1>0. /\ p \in Live /\ p \in Nicks /\ Live \subseteq Nicks /\ NULL \notin Nicks
      /\ Tables /\ Numbered /\ SlotsExact /\ Named /\ OneHolder
  BY DEF Placed, Live, TablesCore, NickTableAssumption
<1>1. /\ nick' \in Structures /\ Cloaks(nick') /\ Live' = Live \ {p}
      /\ \A q \in Live \ {p} : SameNick(nick[q], nick'[q])
  BY <1>0, DeletedNick
<1>2. /\ hosttable' \in [Hosts -> Shared \cup {NULL}] /\ HostsTell'
      /\ authnametable' \in [Auths -> Shared \cup {NULL}] /\ Accounted'
  BY <1>0, DeletedFromRecords
<1> DEFINE s0 == nick[p].numeric[1]
           i0 == Slot(nick[p].numeric)
           n0 == nick[p].name
<1>3. /\ s0 \in linked /\ s0 \in Servers /\ i0 \in Slots /\ n0 \in Names
      /\ servernicks[s0][i0] = p
  BY <1>0, NickFields DEF Numbered
<1>4. /\ servernicks' = [servernicks EXCEPT ![s0][i0] = NULL]
      /\ nicktable' = [nicktable EXCEPT ![n0] = nicktable[n0] \ {p}]
  BY DEF deletenick
<1> HIDE DEF s0, i0, n0
<1>5. /\ servernicks' \in [Servers -> [Slots -> Nicks \cup {NULL}]]
      /\ servernicks'[s0][i0] = NULL
      /\ \A s \in Servers, i \in Slots :
           s # s0 \/ i # i0 => servernicks'[s][i] = servernicks[s][i]
  BY <1>0, <1>3, <1>4 DEF Tables
<1>6. Placed' = Placed \ {p}
  BY <1>1 DEF Placed
<1>7. \A n \in Names : nicktable'[n] = nicktable[n] \ {p}
  <2>1. ASSUME NEW n \in Names, n # n0 PROVE p \notin nicktable[n]
    BY <1>0, <2>1 DEF Named, n0
  <2>2. nicktable \in [Names -> SUBSET Nicks]
    BY <1>0 DEF Tables
  <2> QED BY <1>3, <1>4, <2>1, <2>2
<1>8. Tables'
  <2>1. nicktable' \in [Names -> SUBSET Nicks]
    BY <1>0, <1>3, <1>4 DEF Tables
  <2> QED BY <1>0, <1>1, <1>2, <1>5, <2>1 DEF Tables, Structures
<1>9. Numbered'
  <2> SUFFICES ASSUME NEW q \in Placed \ {p}
               PROVE  /\ nick'[q].numeric[1] \in linked
                      /\ servernicks'[nick'[q].numeric[1]][Slot(nick'[q].numeric)] = q
    BY <1>6 DEF Numbered
  <2>1. nick'[q].numeric = nick[q].numeric /\ q \in Live
    BY <1>1 DEF Placed, SameNick
  <2>2. /\ nick[q].numeric[1] \in linked
        /\ servernicks[nick[q].numeric[1]][Slot(nick[q].numeric)] = q
    BY <1>0 DEF Numbered
  <2>3. nick[q].numeric[1] \in Servers /\ Slot(nick[q].numeric) \in Slots
    BY <1>0, <2>1, NickFields
  <2>4. nick[q].numeric[1] # s0 \/ Slot(nick[q].numeric) # i0
    BY <1>3, <2>2
  <2> QED BY <1>5, <2>1, <2>2, <2>3, <2>4
<1>10. SlotsExact'
  <2> SUFFICES ASSUME NEW s \in linked, NEW i \in Slots, servernicks'[s][i] # NULL
               PROVE  /\ servernicks'[s][i] \in Placed \ {p}
                      /\ nick'[servernicks'[s][i]].numeric[1] = s
                      /\ Slot(nick'[servernicks'[s][i]].numeric) = i
    BY <1>6 DEF SlotsExact
  <2>1. (s # s0 \/ i # i0) /\ s \in Servers
    BY <1>0, <1>5 DEF Tables
  <2>2. servernicks'[s][i] = servernicks[s][i]
    BY <1>5, <2>1
  <2>3. /\ servernicks[s][i] \in Placed
        /\ nick[servernicks[s][i]].numeric[1] = s /\ Slot(nick[servernicks[s][i]].numeric) = i
    BY <1>0, <2>2 DEF SlotsExact
  <2>4. servernicks[s][i] # p
    BY <2>1, <2>3 DEF s0, i0
  <2>5. nick'[servernicks[s][i]].numeric = nick[servernicks[s][i]].numeric
    BY <1>1, <2>3, <2>4 DEF Placed, SameNick
  <2> QED BY <2>2, <2>3, <2>4, <2>5
<1>11. \A q \in Placed \ {p} : nick'[q].name = nick[q].name
  BY <1>1 DEF Placed, SameNick
<1>12. Named'
  BY <1>0, <1>6, <1>7, <1>11 DEF Named
<1>13. OneHolder'
  BY <1>0, <1>6, <1>11 DEF OneHolder
<1>14. TablesCore'
  BY <1>1, <1>2, <1>8, <1>9, <1>10, <1>12, <1>13 DEF TablesCore
<1> QED BY <1>7, <1>14

-----------------------------------------------------------------------------
(* What the handlers have in hand. *)

LEMMA InHand ==
  /\ handling = Idle => Incoming = {} /\ handling.op = "none"
  /\ \A m : handling = Introducing(m) => Incoming = {} /\ handling.op = "introduce" /\ handling.msg = m
  /\ \A p : handling = Placing(p) => Incoming = {p} /\ handling.op = "place" /\ handling.np = p
  /\ \A p, n, ts : handling = Renaming(p, n, ts) =>
       Incoming = {} /\ handling.op = "rename" /\ handling.np = p /\ handling.name = n
  /\ \A s : handling = Losing(s) => Incoming = {} /\ handling.op = "lostserver" /\ handling.server = s
  BY DEF Idle, Introducing, Placing, Renaming, Losing, Incoming

LEMMA LiveFacts ==
  ASSUME NickTableAssumption, TablesInv
  PROVE  /\ TablesCore /\ HandlingOK /\ Tables /\ Numbered /\ SlotsExact /\ Named /\ OneHolder
         /\ Cloaks(nick) /\ HostsTell /\ Accounted
         /\ Placed \subseteq Live /\ Live \subseteq Nicks /\ NULL \notin Nicks /\ nick \in Structures
  BY DEF TablesInv, TablesCore, Placed, Live, Tables, Structures, NickTableAssumption

\* The tables, when only what handlers have in hand changes.
LEMMA TablesKept ==
  ASSUME TablesCore, Incoming' = Incoming,
         UNCHANGED <<linked, servernicks, nick, nicktable, hosttable, authnametable>>
  PROVE  TablesCore'
<1>1. Live' = Live /\ Placed' = Placed
  BY DEF Live, Placed
<1>2. Tables' /\ Numbered' /\ SlotsExact' /\ Named' /\ OneHolder'
  BY <1>1 DEF TablesCore, Tables, Numbered, SlotsExact, Named, OneHolder
<1>3. Cloaks(nick') /\ HostsTell' /\ Accounted'
  BY <1>1 DEF TablesCore, HostsTell, OnHost, Accounted, WithAuth
<1> QED BY <1>2, <1>3 DEF TablesCore

-----------------------------------------------------------------------------
(* Servers. *)

LEMMA NewServerInv ==
  ASSUME NickTableAssumption, TablesInv, NEW s \in Servers, NewServer(s)
  PROVE  TablesInv'
<1>0. TablesCore /\ Tables /\ Numbered /\ SlotsExact /\ Placed \subseteq Live /\ s \notin linked
      /\ handling = Idle /\ UNCHANGED <<nick, nicktable, hosttable, authnametable, handling>>
      /\ linked' = linked \cup {s}
      /\ servernicks' = [servernicks EXCEPT ![s] = [i \in Slots |-> NULL]]
  BY LiveFacts DEF NewServer
<1>1. Live' = Live /\ Incoming' = Incoming /\ Placed' = Placed
  BY <1>0 DEF Live, Incoming, Placed
<1>2. Tables'
  BY <1>0 DEF Tables
<1>3. \A t \in Servers \ {s} : servernicks'[t] = servernicks[t]
  BY <1>0 DEF Tables
<1>4. \A i \in Slots : servernicks'[s][i] = NULL
  BY <1>0 DEF Tables
<1>5. Numbered'
  <2>1. \A p \in Placed : nick[p].numeric[1] \in linked /\ nick[p].numeric[1] # s
    BY <1>0 DEF Numbered
  <2>2. linked \subseteq Servers
    BY <1>0 DEF Tables
  <2> QED BY <1>0, <1>1, <1>3, <2>1, <2>2 DEF Numbered
<1>6. SlotsExact'
  <2>1. linked \subseteq Servers
    BY <1>0 DEF Tables
  <2> QED BY <1>0, <1>1, <1>3, <1>4, <2>1 DEF SlotsExact
<1>7. TablesCore'
  BY <1>0, <1>1, <1>2, <1>5, <1>6 DEF TablesCore, Named, OneHolder, Cloaks, SeenBy, HostsTell, OnHost,
       Accounted, WithAuth
<1>8. HandlingOK'
  BY <1>0 DEF HandlingOK
<1> QED BY <1>7, <1>8 DEF TablesInv

LEMMA LostServerInv ==
  ASSUME NickTableAssumption, TablesInv, NEW s \in Servers, LostServer(s)
  PROVE  TablesInv'
<1>1. TablesCore /\ handling = Idle /\ handling' = Losing(s) /\ s \in linked \ {MyServer}
      /\ UNCHANGED <<linked, servernicks, nick, nicktable, hosttable, authnametable>>
  BY LiveFacts DEF LostServer
<1>2. Incoming' = Incoming
  BY <1>1 DEF Incoming, Idle, Losing
<1>3. HandlingOK'
  BY <1>1 DEF HandlingOK
<1> QED BY <1>1, <1>2, <1>3, TablesKept DEF TablesInv

LEMMA LoseNickInv ==
  ASSUME NickTableAssumption, TablesInv, LoseNick
  PROVE  TablesInv'
<1>0. TablesCore /\ SlotsExact /\ HandlingOK
  BY LiveFacts
<1>1. handling.op = "lostserver" /\ UNCHANGED <<linked, handling>>
  BY DEF LoseNick
<1>2. PICK s \in linked \ {MyServer} : handling = Losing(s)
  BY <1>0, <1>1, InHand DEF HandlingOK
<1>3. PICK i \in Slots : servernicks[s][i] # NULL /\ deletenick(servernicks[s][i])
  BY <1>2, InHand DEF LoseNick
<1>4. servernicks[s][i] \in Placed
  BY <1>0, <1>2, <1>3 DEF SlotsExact
<1>5. Incoming' = Incoming
  BY <1>1 DEF Incoming
<1>6. TablesCore'
  BY <1>0, <1>1, <1>3, <1>4, <1>5, DeletedFromTables
<1>7. HandlingOK'
  BY <1>1, <1>2 DEF HandlingOK
<1> QED BY <1>6, <1>7 DEF TablesInv

LEMMA ServerGoneInv ==
  ASSUME NickTableAssumption, TablesInv, ServerGone
  PROVE  TablesInv'
<1>0. TablesCore /\ Tables /\ Numbered /\ SlotsExact /\ HandlingOK /\ Placed \subseteq Live
  BY LiveFacts
<1>1. handling.op = "lostserver" /\ UNCHANGED <<servernicks, nick, nicktable, hosttable, authnametable>>
      /\ handling' = Idle
  BY DEF ServerGone
<1>2. PICK s \in linked \ {MyServer} : handling = Losing(s)
  BY <1>0, <1>1, InHand DEF HandlingOK
<1>3. linked' = linked \ {s} /\ \A i \in Slots : servernicks[s][i] = NULL
  BY <1>2, InHand DEF ServerGone
<1>4. Incoming' = {} /\ Incoming = {}
  BY <1>1, <1>2 DEF Incoming, Idle, Losing
<1>5. Live' = Live /\ Placed' = Placed
  BY <1>1, <1>4 DEF Live, Placed
<1>6. Tables'
  BY <1>0, <1>1, <1>3 DEF Tables
<1>7. Numbered'
  <2> SUFFICES ASSUME NEW p \in Placed PROVE nick[p].numeric[1] # s
    BY <1>0, <1>1, <1>3, <1>5 DEF Numbered
  <2>1. servernicks[nick[p].numeric[1]][Slot(nick[p].numeric)] = p /\ p \in Live
    BY <1>0 DEF Numbered
  <2>2. p # NULL /\ Slot(nick[p].numeric) \in Slots
    BY <1>0, <2>1, NickFields DEF NickTableAssumption
  <2> QED BY <1>3, <2>1, <2>2
<1>8. SlotsExact'
  BY <1>0, <1>1, <1>3, <1>5 DEF SlotsExact
<1>9. TablesCore'
  BY <1>0, <1>1, <1>5, <1>6, <1>7, <1>8 DEF TablesCore, Named, OneHolder, Cloaks, SeenBy, HostsTell, OnHost,
       Accounted, WithAuth
<1>10. HandlingOK'
  BY <1>1 DEF HandlingOK
<1> QED BY <1>9, <1>10 DEF TablesInv

-----------------------------------------------------------------------------
(* New nicks. *)

LEMMA JoinCounts ==
  ASSUME NickTableAssumption, NEW t \in Shared \cup {NULL}, NEW users \in SUBSET Nicks, NEW p \in Nicks,
         users # {} => t # NULL /\ Cardinality(users) <= t.count
  PROVE  /\ Join(t, p) \in Shared /\ Join(t, p) # NULL
         /\ Cardinality(users \cup {p}) <= Join(t, p).count
<1>1. IsFiniteSet(users) /\ Cardinality(users) \in Nat
  BY FS_Subset, FS_CardinalityType DEF NickTableAssumption
<1>2. Cardinality(users \cup {p}) <= Cardinality(users) + 1 /\ Cardinality(users \cup {p}) \in Nat
  BY <1>1, FS_AddElement
<1>3. Cardinality({p}) = 1
  BY FS_Singleton
<1>4. CASE t = NULL
  <2>1. users \cup {p} = {p} /\ Join(t, p) = [count |-> 1, nicks |-> {p}]
    BY <1>4 DEF Join
  <2>2. Join(t, p) \in Shared /\ Join(t, p).count = 1
    BY <2>1 DEF Shared
  <2> QED BY <1>3, <2>1, <2>2 DEF NickTableAssumption
<1>5. CASE t # NULL
  <2>1. t.count \in Nat /\ t.nicks \subseteq Nicks
    BY <1>5 DEF Shared
  <2>2. Join(t, p) = [count |-> t.count + 1, nicks |-> t.nicks \cup {p}]
    BY <1>5 DEF Join
  <2>3. Join(t, p) \in Shared /\ Join(t, p).count = t.count + 1
    BY <2>1, <2>2 DEF Shared
  <2>4. Cardinality(users) <= t.count
    <3>1. CASE users = {}
      BY <3>1, <2>1, FS_EmptySet
    <3> QED BY <3>1
  <2>5. Cardinality(users \cup {p}) <= t.count + 1
    BY <1>1, <1>2, <2>1, <2>4
  <2> QED BY <2>3, <2>5 DEF NickTableAssumption
<1> QED BY <1>4, <1>5

LEMMA NickCollisionInv ==
  ASSUME NickTableAssumption, TablesInv, NEW m \in NickMsg, NickCollision(m)
  PROVE  TablesInv'
<1> DEFINE p == getnickbynick(m.name)
<1>1. handling = Idle /\ p # NULL /\ deletenick(p) /\ handling' = Introducing(m) /\ linked' = linked
  BY DEF NickCollision
<1>2. m.name \in Names /\ TablesCore
  BY LiveFacts DEF NickMsg
<1>3. p \in Placed /\ nicktable[m.name] = {p}
  BY <1>1, <1>2, FoundByNick
<1>4. Incoming' = Incoming
  BY <1>1 DEF Incoming, Idle, Introducing
<1> HIDE DEF p
<1>5. TablesCore' /\ nicktable'[m.name] = nicktable[m.name] \ {p}
  BY <1>1, <1>2, <1>3, <1>4, DeletedFromTables
<1>6. HandlingOK'
  BY <1>1, <1>3, <1>5 DEF HandlingOK
<1> QED BY <1>5, <1>6 DEF TablesInv

LEMMA AllocateInv ==
  ASSUME NickTableAssumption, TablesInv, NEW m \in NickMsg, Allocate(m)
  PROVE  TablesInv'
<1>0. /\ TablesCore /\ Tables /\ Numbered /\ SlotsExact /\ Named /\ OneHolder /\ HandlingOK
      /\ Cloaks(nick) /\ HostsTell /\ Accounted
      /\ Placed \subseteq Live /\ Live \subseteq Nicks /\ NULL \notin Nicks /\ nick \in Structures
  BY LiveFacts
<1>1. /\ m.name \in Names /\ m.numeric \in Numerics /\ m.ident \in Idents /\ m.host \in Hosts
      /\ m.timestamp \in Times /\ m.account \in BOOLEAN /\ m.auth \in Auths \cup {NULL}
  BY DEF NickMsg
<1>2. /\ handling = Introducing(m) \/ (handling = Idle /\ getnickbynick(m.name) = NULL)
      /\ m.numeric[1] \in linked /\ UNCHANGED <<linked, servernicks, nicktable>>
  BY DEF Allocate
<1>3. nicktable[m.name] = {} /\ Incoming = {}
  <2>1. CASE handling = Introducing(m)
    <3>1. PICK l \in NickMsg : handling = Introducing(l) /\ nicktable[l.name] = {}
      BY <1>0, <2>1, InHand DEF HandlingOK
    <3>2. handling.msg = l /\ handling.msg = m
      BY <2>1, <3>1 DEF Introducing
    <3> QED BY <2>1, <3>1, <3>2, InHand
  <2>2. CASE handling = Idle /\ getnickbynick(m.name) = NULL
    BY <1>0, <1>1, <2>2, FoundByNick, InHand
  <2> QED BY <1>2, <2>1, <2>2
<1> DEFINE r == [name |-> m.name, numeric |-> m.numeric, ident |-> m.ident, host |-> m.host,
                 timestamp |-> m.timestamp, account |-> m.account, auth |-> m.auth,
                 cloak_extra |-> NULL, cloak_count |-> 0]
<1>4. PICK p \in Nicks \ Live :
        /\ nick' = [nick EXCEPT ![p] = r]
        /\ hosttable' = [hosttable EXCEPT ![m.host] = Join(hosttable[m.host], p)]
        /\ authnametable' = IF m.auth # NULL
                            THEN [authnametable EXCEPT ![m.auth] = Join(authnametable[m.auth], p)]
                            ELSE authnametable
        /\ handling' = Placing(p)
  BY DEF Allocate
<1>5. /\ r \in NickRec /\ r.name = m.name /\ r.numeric = m.numeric /\ r.host = m.host
      /\ r.auth = m.auth /\ r.cloak_extra = NULL /\ r.cloak_count = 0
  BY <1>1 DEF NickRec
<1> HIDE DEF r
<1>6. r # NULL /\ nick[p] = NULL
  BY <1>4, <1>5 DEF NickTableAssumption, Live
<1>7. /\ nick' \in Structures /\ nick'[p] = r /\ \A q \in Nicks \ {p} : nick'[q] = nick[q]
      /\ Live' = Live \cup {p} /\ p \notin Live
  BY <1>0, <1>4, <1>5, <1>6 DEF Live, Structures
<1>8. Incoming' = {p} /\ Placed = Live /\ Placed' = Placed
  BY <1>3, <1>4, <1>7 DEF Incoming, Placing, Placed
<1>9. Cloaks(nick')
  <2>1. \A d \in Nicks : SeenBy(nick', d) = SeenBy(nick, d)
    BY <1>0, <1>5, <1>6, <1>7 DEF SeenBy
  <2>2. SeenBy(nick, p) = {}
    BY <1>0, <1>6 DEF Cloaks
  <2> QED BY <1>0, <1>5, <1>6, <1>7, <2>1, <2>2, FS_EmptySet DEF Cloaks
<1>10. hosttable' \in [Hosts -> Shared \cup {NULL}] /\ HostsTell'
  <2> DEFINE joined == Join(hosttable[m.host], p)
  <2>1. /\ \A h \in Hosts : OnHost(h) \in SUBSET Nicks /\ p \notin OnHost(h)
        /\ \A h \in Hosts : OnHost(h)' = IF h = m.host THEN OnHost(h) \cup {p} ELSE OnHost(h)
    BY <1>0, <1>5, <1>7 DEF OnHost
  <2>2. joined \in Shared /\ Tells(joined, OnHost(m.host) \cup {p})
    BY <1>0, <1>1, <2>1, JoinTells DEF Tables, HostsTell
  <2>3. hosttable' = [hosttable EXCEPT ![m.host] = joined]
    BY <1>4
  <2> HIDE DEF joined
  <2>4. \A h \in Hosts : hosttable'[h] = IF h = m.host THEN joined ELSE hosttable[h]
    BY <1>0, <2>3 DEF Tables
  <2>5. hosttable' \in [Hosts -> Shared \cup {NULL}]
    BY <1>0, <2>2, <2>3 DEF Tables
  <2>6. ASSUME NEW h \in Hosts PROVE Tells(hosttable'[h], OnHost(h)')
    <3>1. CASE h = m.host
      BY <2>1, <2>2, <2>4, <3>1
    <3>2. CASE h # m.host
      <4>1. hosttable'[h] = hosttable[h] /\ OnHost(h)' = OnHost(h)
        BY <2>1, <2>4, <3>2
      <4> QED BY <1>0, <4>1 DEF HostsTell
    <3> QED BY <3>1, <3>2
  <2> QED BY <2>5, <2>6 DEF HostsTell
<1>11. authnametable' \in [Auths -> Shared \cup {NULL}] /\ Accounted'
  <2>1. \A a \in Auths : WithAuth(a) \in SUBSET Nicks
                         /\ WithAuth(a)' = IF a = m.auth THEN WithAuth(a) \cup {p} ELSE WithAuth(a)
    BY <1>0, <1>5, <1>7 DEF WithAuth
  <2>2. CASE m.auth = NULL
    <3>1. authnametable' = authnametable /\ \A a \in Auths : WithAuth(a)' = WithAuth(a)
      BY <1>4, <2>1, <2>2 DEF NickTableAssumption
    <3> QED BY <1>0, <3>1 DEF Tables, Accounted
  <2>3. CASE m.auth # NULL
    <3> DEFINE joined == Join(authnametable[m.auth], p)
    <3>1. m.auth \in Auths
      BY <1>1, <2>3
    <3>2. /\ joined \in Shared /\ joined # NULL
          /\ Cardinality(WithAuth(m.auth) \cup {p}) <= joined.count
      BY <1>0, <2>1, <3>1, JoinCounts DEF Tables, Accounted
    <3>3. authnametable' = [authnametable EXCEPT ![m.auth] = joined]
      BY <1>4, <2>3
    <3> HIDE DEF joined
    <3>4. authnametable' \in [Auths -> Shared \cup {NULL}]
      BY <1>0, <3>2, <3>3 DEF Tables
    <3>5. \A a \in Auths : authnametable'[a] = IF a = m.auth THEN joined ELSE authnametable[a]
      BY <1>0, <3>3 DEF Tables
    <3>6. ASSUME NEW a \in Auths, WithAuth(a)' # {}
          PROVE  authnametable'[a] # NULL /\ Cardinality(WithAuth(a)') <= authnametable'[a].count
      <4>1. CASE a = m.auth
        BY <2>1, <3>2, <3>5, <4>1
      <4>2. CASE a # m.auth
        <5>1. authnametable'[a] = authnametable[a] /\ WithAuth(a)' = WithAuth(a)
          BY <2>1, <3>5, <4>2
        <5> QED BY <1>0, <3>6, <5>1 DEF Accounted
      <4> QED BY <4>1, <4>2
    <3> QED BY <3>4, <3>6 DEF Accounted
  <2> QED BY <2>2, <2>3
<1>12. Tables'
  BY <1>0, <1>2, <1>7, <1>10, <1>11 DEF Tables, Structures
<1>13. \A q \in Placed : nick'[q] = nick[q]
  BY <1>0, <1>7
<1>14. Numbered' /\ Named' /\ OneHolder'
  BY <1>0, <1>2, <1>8, <1>13 DEF Numbered, Named, OneHolder
<1>15. SlotsExact'
  BY <1>0, <1>2, <1>8, <1>13 DEF SlotsExact
<1>16. HandlingOK'
  BY <1>2, <1>3, <1>4, <1>5, <1>7 DEF HandlingOK
<1> QED BY <1>9, <1>10, <1>11, <1>12, <1>14, <1>15, <1>16 DEF TablesInv, TablesCore

LEMMA InvalidNumericInv ==
  ASSUME NickTableAssumption, TablesInv, InvalidNumeric
  PROVE  TablesInv'
<1>1. TablesCore /\ handling.op = "introduce" /\ handling' = Idle
      /\ UNCHANGED <<linked, servernicks, nick, nicktable, hosttable, authnametable>>
  BY LiveFacts DEF InvalidNumeric
<1>2. Incoming' = Incoming /\ HandlingOK'
  BY <1>1 DEF Incoming, Idle, HandlingOK
<1> QED BY <1>1, <1>2, TablesKept DEF TablesInv

LEMMA MaskedCollisionInv ==
  ASSUME NickTableAssumption, TablesInv, MaskedCollision
  PROVE  TablesInv'
<1>0. TablesCore /\ Tables /\ SlotsExact /\ HandlingOK /\ Placed \subseteq Live
  BY LiveFacts
<1>1. handling.op = "place" /\ UNCHANGED <<linked, handling>>
  BY DEF MaskedCollision
<1>2. PICK p \in Live : handling = Placing(p) /\ nick[p].numeric[1] \in linked
                       /\ nicktable[nick[p].name] = {}
  BY <1>0, <1>1, InHand DEF HandlingOK
<1> DEFINE x == nick[p].numeric
           old == servernicks[x[1]][Slot(x)]
<1>3. old # NULL /\ deletenick(old)
  BY <1>2, InHand DEF MaskedCollision
<1>4. Slot(x) \in Slots /\ nick[p].name \in Names
  BY <1>0, NickFields
<1>5. old \in Placed /\ p \notin Placed
  BY <1>0, <1>2, <1>3, <1>4, InHand DEF SlotsExact, Placed
<1> HIDE DEF old
<1>6. Incoming' = Incoming
  BY <1>1 DEF Incoming
<1>7. TablesCore' /\ \A n \in Names : nicktable'[n] = nicktable[n] \ {old}
  BY <1>0, <1>1, <1>3, <1>5, <1>6, DeletedFromTables
<1>8. Live' = Live \ {old} /\ SameNick(nick[p], nick'[p])
  BY <1>0, <1>3, <1>5, DeletedNick
<1>9. p \in Live' /\ nick'[p].numeric = nick[p].numeric /\ nick'[p].name = nick[p].name
  BY <1>5, <1>8 DEF SameNick
<1>10. HandlingOK'
  BY <1>1, <1>2, <1>4, <1>7, <1>9 DEF HandlingOK
<1> QED BY <1>7, <1>10 DEF TablesInv

LEMMA PlaceInv ==
  ASSUME NickTableAssumption, TablesInv, Place
  PROVE  TablesInv'
<1>0. /\ TablesCore /\ Tables /\ Numbered /\ SlotsExact /\ Named /\ OneHolder /\ HandlingOK
      /\ Cloaks(nick) /\ HostsTell /\ Accounted
      /\ Placed \subseteq Live /\ Live \subseteq Nicks /\ NULL \notin Nicks
  BY LiveFacts
<1>1. handling.op = "place" /\ handling' = Idle /\ UNCHANGED <<linked, nick, hosttable, authnametable>>
  BY DEF Place
<1>2. PICK p \in Live : handling = Placing(p) /\ nick[p].numeric[1] \in linked
                       /\ nicktable[nick[p].name] = {}
  BY <1>0, <1>1, InHand DEF HandlingOK
<1> DEFINE s0 == nick[p].numeric[1]
           i0 == Slot(nick[p].numeric)
           n0 == nick[p].name
<1>3. /\ servernicks[s0][i0] = NULL
      /\ servernicks' = [servernicks EXCEPT ![s0][i0] = p]
      /\ nicktable' = [nicktable EXCEPT ![n0] = nicktable[n0] \cup {p}]
  BY <1>2, InHand DEF Place
<1>4. s0 \in Servers /\ i0 \in Slots /\ n0 \in Names /\ p \in Nicks
  BY <1>0, NickFields
<1>5. Live' = Live /\ Incoming = {p} /\ Incoming' = {} /\ Placed' = Placed \cup {p} /\ p \notin Placed
  BY <1>1, <1>2, InHand DEF Live, Incoming, Idle, Placed
<1>6. nicktable[n0] = {} /\ \A q \in Placed : nick[q].name # n0
  BY <1>0, <1>2, <1>4 DEF Named
<1>7. /\ servernicks' \in [Servers -> [Slots -> Nicks \cup {NULL}]]
      /\ servernicks'[s0][i0] = p
      /\ \A s \in Servers, i \in Slots : s # s0 \/ i # i0 => servernicks'[s][i] = servernicks[s][i]
  <2> HIDE DEF s0, i0
  <2> QED BY <1>0, <1>3, <1>4 DEF Tables
<1>8. /\ nicktable' \in [Names -> SUBSET Nicks]
      /\ \A n \in Names : nicktable'[n] = IF n = n0 THEN {p} ELSE nicktable[n]
  <2> HIDE DEF n0
  <2> QED BY <1>0, <1>3, <1>4, <1>6 DEF Tables
<1>9. Tables'
  BY <1>0, <1>1, <1>7, <1>8 DEF Tables
<1>10. Numbered'
  <2> SUFFICES ASSUME NEW q \in Placed \cup {p}
               PROVE  /\ nick[q].numeric[1] \in linked
                      /\ servernicks'[nick[q].numeric[1]][Slot(nick[q].numeric)] = q
    BY <1>1, <1>5 DEF Numbered
  <2>1. CASE q = p
    BY <1>2, <1>7, <2>1
  <2>2. CASE q \in Placed
    <3>1. /\ nick[q].numeric[1] \in linked
          /\ servernicks[nick[q].numeric[1]][Slot(nick[q].numeric)] = q
      BY <1>0, <2>2 DEF Numbered
    <3>2. nick[q].numeric[1] \in Servers /\ Slot(nick[q].numeric) \in Slots /\ q # NULL
      BY <1>0, <2>2, NickFields
    <3>3. nick[q].numeric[1] # s0 \/ Slot(nick[q].numeric) # i0
      BY <1>3, <3>1, <3>2
    <3> HIDE DEF s0, i0
    <3> QED BY <1>7, <3>1, <3>2, <3>3
  <2> QED BY <2>1, <2>2
<1>11. SlotsExact'
  <2> SUFFICES ASSUME NEW s \in linked, NEW i \in Slots, servernicks'[s][i] # NULL
               PROVE  /\ servernicks'[s][i] \in Placed \cup {p}
                      /\ nick[servernicks'[s][i]].numeric[1] = s
                      /\ Slot(nick[servernicks'[s][i]].numeric) = i
    BY <1>1, <1>5 DEF SlotsExact
  <2>1. CASE s = s0 /\ i = i0
    BY <1>7, <2>1
  <2>2. CASE s # s0 \/ i # i0
    <3>1. s \in Servers
      BY <1>0 DEF Tables
    <3>2. servernicks'[s][i] = servernicks[s][i]
      BY <1>7, <2>2, <3>1
    <3> QED BY <1>0, <3>2 DEF SlotsExact
  <2> QED BY <2>1, <2>2
<1>12. Named'
  BY <1>0, <1>1, <1>5, <1>6, <1>8 DEF Named
<1>13. OneHolder'
  BY <1>0, <1>1, <1>5, <1>6 DEF OneHolder
<1>14. Cloaks(nick') /\ HostsTell' /\ Accounted'
  BY <1>0, <1>1, <1>5 DEF HostsTell, OnHost, Accounted, WithAuth
<1>15. HandlingOK'
  BY <1>1 DEF HandlingOK
<1> QED BY <1>9, <1>10, <1>11, <1>12, <1>13, <1>14, <1>15 DEF TablesInv, TablesCore

-----------------------------------------------------------------------------
(* Renames, accounts, modes and cloaks. *)

\* Nicks that stay where they are, whatever else of them changes.
LEMMA NicksStay ==
  ASSUME NickTableAssumption, TablesCore, nick' \in Structures, Cloaks(nick'),
         \A q \in Nicks : nick[q] = NULL <=> nick'[q] = NULL,
         \A q \in Live : nick'[q].numeric = nick[q].numeric /\ nick'[q].host = nick[q].host,
         Incoming' = Incoming, UNCHANGED <<linked, servernicks, hosttable>>
  PROVE  /\ Live' = Live /\ Placed' = Placed
         /\ Numbered' /\ SlotsExact' /\ HostsTell'
<1>0. TablesCore /\ Placed \subseteq Live
  BY DEF Placed
<1>1. Live' = Live /\ Placed' = Placed
  BY DEF Live, Placed
<1>2. Numbered'
  BY <1>0, <1>1 DEF TablesCore, Numbered
<1>3. SlotsExact'
  BY <1>0, <1>1 DEF TablesCore, SlotsExact
<1>4. HostsTell'
  <2>1. \A h \in Hosts : OnHost(h)' = OnHost(h)
    BY <1>1 DEF OnHost
  <2> QED BY <1>0, <2>1 DEF TablesCore, HostsTell
<1> QED BY <1>1, <1>2, <1>3, <1>4

\* Likewise if they keep their names and accounts.
LEMMA NicksKeepNames ==
  ASSUME NickTableAssumption, TablesInv, nick' \in Structures, Cloaks(nick'),
         \A q \in Nicks : nick[q] = NULL <=> nick'[q] = NULL,
         \A q \in Live : /\ nick'[q].numeric = nick[q].numeric /\ nick'[q].host = nick[q].host
                         /\ nick'[q].name = nick[q].name /\ nick'[q].auth = nick[q].auth,
         handling = Idle,
         UNCHANGED <<linked, servernicks, nicktable, hosttable, authnametable, handling>>
  PROVE  TablesInv'
<1>0. TablesCore /\ Tables /\ Named /\ OneHolder /\ Accounted /\ Placed \subseteq Live
  BY LiveFacts
<1>1. Incoming' = Incoming
  BY DEF Incoming
<1>2. Live' = Live /\ Placed' = Placed /\ Numbered' /\ SlotsExact' /\ HostsTell'
  BY <1>0, <1>1, NicksStay
<1>3. Tables'
  BY <1>0 DEF Tables, Structures
<1>4. Named' /\ OneHolder'
  BY <1>0, <1>2 DEF Named, OneHolder
<1>5. Accounted'
  <2>1. \A a \in Auths : WithAuth(a)' = WithAuth(a)
    BY <1>2 DEF WithAuth
  <2> QED BY <1>0, <2>1 DEF Accounted
<1>6. HandlingOK'
  BY DEF HandlingOK
<1> QED BY <1>2, <1>3, <1>4, <1>5, <1>6 DEF TablesInv, TablesCore

\* One structure is overwritten, but for its cloaks.
LEMMA OneChanged ==
  ASSUME NickTableAssumption, TablesCore, NEW p \in Live, NEW r \in NickRec,
         nick' = [nick EXCEPT ![p] = r],
         r.cloak_extra = nick[p].cloak_extra, r.cloak_count = nick[p].cloak_count
  PROVE  /\ nick' \in Structures /\ Cloaks(nick')
         /\ \A q \in Nicks : nick[q] = NULL <=> nick'[q] = NULL
         /\ nick'[p] = r /\ \A q \in Nicks \ {p} : nick'[q] = nick[q]
<1>0. nick \in Structures /\ Cloaks(nick) /\ p \in Nicks /\ nick[p] # NULL /\ r # NULL
  BY DEF TablesCore, Tables, Structures, Live, NickTableAssumption
<1>1. nick' \in Structures /\ nick'[p] = r /\ \A q \in Nicks \ {p} : nick'[q] = nick[q]
  BY <1>0 DEF Structures
<1>2. \A d \in Nicks : SeenBy(nick', d) = SeenBy(nick, d)
  BY <1>0, <1>1 DEF SeenBy
<1>3. Cloaks(nick')
  BY <1>0, <1>1, <1>2 DEF Cloaks
<1> QED BY <1>0, <1>1, <1>3

LEMMA RenameSameInv ==
  ASSUME NickTableAssumption, TablesInv, NEW p \in Placed \cup {NULL}, NEW ts \in Times, RenameSame(p, ts)
  PROVE  TablesInv'
<1>0. TablesCore /\ Tables /\ Placed \subseteq Live
  BY LiveFacts
<1>1. /\ handling = Idle /\ p \in Live /\ nick' = [nick EXCEPT ![p].timestamp = ts]
      /\ UNCHANGED <<linked, servernicks, nicktable, hosttable, authnametable, handling>>
  BY <1>0 DEF RenameSame
<1> DEFINE r == [nick[p] EXCEPT !.timestamp = ts]
<1>2. /\ r \in NickRec /\ r.cloak_extra = nick[p].cloak_extra /\ r.cloak_count = nick[p].cloak_count
      /\ r.numeric = nick[p].numeric /\ r.host = nick[p].host /\ r.name = nick[p].name /\ r.auth = nick[p].auth
  BY <1>0, <1>1, NickFields DEF NickRec
<1>3. nick' = [nick EXCEPT ![p] = r]
  BY <1>1
<1> HIDE DEF r
<1>4. /\ nick' \in Structures /\ Cloaks(nick')
      /\ \A q \in Nicks : nick[q] = NULL <=> nick'[q] = NULL
      /\ nick'[p] = r /\ \A q \in Nicks \ {p} : nick'[q] = nick[q]
  BY <1>0, <1>1, <1>2, <1>3, OneChanged
<1>5. \A q \in Live : /\ nick'[q].numeric = nick[q].numeric /\ nick'[q].host = nick[q].host
                      /\ nick'[q].name = nick[q].name /\ nick'[q].auth = nick[q].auth
  BY <1>2, <1>4 DEF Live
<1> QED BY <1>1, <1>4, <1>5, NicksKeepNames

LEMMA RenameCollisionInv ==
  ASSUME NickTableAssumption, TablesInv, NEW p \in Placed \cup {NULL},
         NEW n \in Names, NEW ts \in Times, RenameCollision(p, n, ts)
  PROVE  TablesInv'
<1>0. TablesCore /\ Placed \subseteq Live
  BY LiveFacts
<1> DEFINE holder == getnickbynick(n)
<1>1. handling = Idle /\ p \in Placed /\ holder # NULL /\ holder # p /\ linked' = linked
  BY DEF RenameCollision
<1>2. holder \in Placed /\ nicktable[n] = {holder}
  BY <1>0, <1>1, FoundByNick
<1>3. \/ deletenick(p) /\ handling' = Idle
      \/ deletenick(holder) /\ handling' = Renaming(p, n, ts)
  BY DEF RenameCollision
<1> HIDE DEF holder
<1>4. Incoming' = Incoming
  BY <1>1, <1>3 DEF Incoming, Idle, Renaming
<1>5. CASE deletenick(p) /\ handling' = Idle
  <2>1. TablesCore'
    BY <1>0, <1>1, <1>4, <1>5, DeletedFromTables
  <2>2. HandlingOK'
    BY <1>5 DEF HandlingOK
  <2> QED BY <2>1, <2>2 DEF TablesInv
<1>6. CASE deletenick(holder) /\ handling' = Renaming(p, n, ts)
  <2>1. TablesCore' /\ nicktable'[n] = nicktable[n] \ {holder}
    BY <1>0, <1>1, <1>2, <1>4, <1>6, DeletedFromTables
  <2>2. p \in Live'
    BY <1>0, <1>1, <1>2, <1>6, DeletedNick
  <2>3. HandlingOK'
    BY <1>2, <1>6, <2>1, <2>2 DEF HandlingOK
  <2> QED BY <2>1, <2>3 DEF TablesInv
<1> QED BY <1>3, <1>5, <1>6

LEMMA RenameInv ==
  ASSUME NickTableAssumption, TablesInv, NEW p \in Placed \cup {NULL},
         NEW n \in Names, NEW ts \in Times, Rename(p, n, ts)
  PROVE  TablesInv'
<1>0. TablesCore /\ Tables /\ Named /\ OneHolder /\ Accounted /\ HandlingOK /\ Placed \subseteq Live
      /\ Live \subseteq Nicks
  BY LiveFacts
<1>1. /\ p \in Placed /\ handling' = Idle
      /\ handling = Renaming(p, n, ts) \/ (handling = Idle /\ getnickbynick(n) = NULL)
      /\ nick' = [nick EXCEPT ![p].name = n, ![p].timestamp = ts]
      /\ nicktable' = [[nicktable EXCEPT ![nick[p].name] = nicktable[nick[p].name] \ {p}] EXCEPT ![n] = @ \cup {p}]
      /\ UNCHANGED <<linked, servernicks, hosttable, authnametable>>
  BY DEF Rename
<1>2. nicktable[n] = {} /\ Incoming = {} /\ Incoming' = {}
  <2>1. CASE handling = Renaming(p, n, ts)
    <3>1. PICK q \in Live, l \in Names, t \in Times : handling = Renaming(q, l, t) /\ nicktable[l] = {}
      BY <1>0, <2>1, InHand DEF HandlingOK
    <3>2. handling.name = l /\ handling.name = n
      BY <2>1, <3>1 DEF Renaming
    <3> QED BY <1>1, <2>1, <3>1, <3>2 DEF Incoming, Idle, Renaming
  <2>2. CASE handling = Idle /\ getnickbynick(n) = NULL
    BY <1>0, <1>1, <2>2, FoundByNick DEF Incoming, Idle
  <2> QED BY <1>1, <2>1, <2>2
<1> DEFINE r == [[nick[p] EXCEPT !.name = n] EXCEPT !.timestamp = ts]
           n0 == nick[p].name
<1>3. /\ r \in NickRec /\ r.cloak_extra = nick[p].cloak_extra /\ r.cloak_count = nick[p].cloak_count
      /\ r.numeric = nick[p].numeric /\ r.host = nick[p].host /\ r.name = n /\ r.auth = nick[p].auth
  BY <1>0, <1>1, NickFields DEF NickRec
<1>4. nick' = [nick EXCEPT ![p] = r]
  BY <1>0, <1>1 DEF Tables
<1>5. p \in Live /\ n0 \in Names /\ p \in Nicks
  BY <1>0, <1>1, NickFields
<1> HIDE DEF r, n0
<1>6. /\ nick' \in Structures /\ Cloaks(nick')
      /\ \A q \in Nicks : nick[q] = NULL <=> nick'[q] = NULL
      /\ nick'[p] = r /\ \A q \in Nicks \ {p} : nick'[q] = nick[q]
  BY <1>0, <1>3, <1>4, <1>5, OneChanged
<1>7. \A q \in Live : /\ nick'[q].numeric = nick[q].numeric /\ nick'[q].host = nick[q].host
                      /\ nick'[q].auth = nick[q].auth
  BY <1>0, <1>3, <1>6
<1>8. Live' = Live /\ Placed' = Placed /\ Numbered' /\ SlotsExact' /\ HostsTell'
  BY <1>0, <1>1, <1>2, <1>6, <1>7, NicksStay
<1>9. nicktable' \in [Names -> SUBSET Nicks]
      /\ \A l \in Names : nicktable'[l] = IF l = n THEN {p} ELSE nicktable[l] \ {p}
  <2>1. nicktable' = [[nicktable EXCEPT ![n0] = nicktable[n0] \ {p}] EXCEPT ![n] = @ \cup {p}]
    BY <1>1 DEF n0
  <2>2. \A l \in Names : l # n0 => p \notin nicktable[l]
    BY <1>0 DEF Named, n0
  <2>3. nicktable \in [Names -> SUBSET Nicks]
    BY <1>0 DEF Tables
  <2>4. [nicktable EXCEPT ![n0] = nicktable[n0] \ {p}][n] = {}
    BY <1>2, <1>5, <2>3
  <2>5. nicktable' = [[nicktable EXCEPT ![n0] = nicktable[n0] \ {p}] EXCEPT ![n] = {p}]
    BY <2>1, <2>4
  <2> QED BY <1>5, <2>2, <2>3, <2>5
<1>10. \A q \in Placed \ {p} : nick'[q] = nick[q] /\ nick[q].name # n
  BY <1>0, <1>2, <1>6 DEF Named
<1>11. nick'[p].name = n
  BY <1>3, <1>6
<1>12. Tables'
  BY <1>0, <1>1, <1>6, <1>9 DEF Tables, Structures
<1>13. Named' /\ OneHolder'
  <2>1. ASSUME NEW l \in Names PROVE nicktable'[l] = {q \in Placed : nick'[q].name = l}
    <3>1. nicktable[l] = {q \in Placed : nick[q].name = l}
      BY <1>0 DEF Named
    <3>2. CASE l = n
      <4>1. ASSUME NEW q \in Placed PROVE nick'[q].name = l <=> q = p
        BY <1>10, <1>11, <3>2
      <4> QED BY <1>1, <1>9, <3>2, <4>1
    <3>3. CASE l # n
      <4>1. nicktable'[l] = nicktable[l] \ {p}
        BY <1>9, <3>3
      <4> QED BY <1>10, <1>11, <3>1, <3>3, <4>1
    <3> QED BY <3>2, <3>3
  <2>2. ASSUME NEW q1 \in Placed, NEW q2 \in Placed, nick'[q1].name = nick'[q2].name PROVE q1 = q2
    BY <1>0, <1>10, <1>11, <2>2 DEF OneHolder
  <2> QED BY <1>8, <2>1, <2>2 DEF Named, OneHolder
<1>14. Accounted'
  <2>1. \A a \in Auths : WithAuth(a)' = WithAuth(a)
    BY <1>7, <1>8 DEF WithAuth
  <2> QED BY <1>0, <1>1, <2>1 DEF Accounted
<1>15. HandlingOK'
  BY <1>1 DEF HandlingOK
<1> QED BY <1>6, <1>8, <1>12, <1>13, <1>14, <1>15 DEF TablesInv, TablesCore

LEMMA NickGoneInv ==
  ASSUME NickTableAssumption, TablesInv, NEW p \in Placed \cup {NULL}, NickGone(p)
  PROVE  TablesInv'
<1>1. handling = Idle /\ p \in Placed /\ deletenick(p) /\ UNCHANGED <<linked, handling>>
  BY DEF NickGone
<1>2. TablesCore'
  BY <1>1, DeletedFromTables DEF TablesInv, Incoming
<1>3. HandlingOK'
  BY <1>1 DEF HandlingOK
<1> QED BY <1>2, <1>3 DEF TablesInv

LEMMA AccountMsgInv ==
  ASSUME NickTableAssumption, TablesInv, NEW p \in Placed \cup {NULL},
         NEW a \in Auths \cup {NULL}, handleaccountmsg(p, a)
  PROVE  TablesInv'
<1>0. TablesCore /\ Tables /\ Named /\ OneHolder /\ Accounted /\ Placed \subseteq Live /\ Live \subseteq Nicks
  BY LiveFacts
<1>1. /\ handling = Idle /\ p \in Live
      /\ nick' = [nick EXCEPT ![p].account = TRUE, ![p].auth = a]
      /\ authnametable' = IF a = NULL THEN authnametable
                          ELSE [authnametable EXCEPT ![a] = Join(authnametable[a], p)]
      /\ UNCHANGED <<linked, servernicks, nicktable, hosttable, handling>>
  BY <1>0 DEF handleaccountmsg
<1> DEFINE r == [[nick[p] EXCEPT !.account = TRUE] EXCEPT !.auth = a]
<1>2. /\ r \in NickRec /\ r.cloak_extra = nick[p].cloak_extra /\ r.cloak_count = nick[p].cloak_count
      /\ r.numeric = nick[p].numeric /\ r.host = nick[p].host /\ r.name = nick[p].name /\ r.auth = a
  BY <1>0, <1>1, NickFields DEF NickRec
<1>3. nick' = [nick EXCEPT ![p] = r]
  BY <1>0, <1>1 DEF Tables
<1> HIDE DEF r
<1>4. /\ nick' \in Structures /\ Cloaks(nick')
      /\ \A q \in Nicks : nick[q] = NULL <=> nick'[q] = NULL
      /\ nick'[p] = r /\ \A q \in Nicks \ {p} : nick'[q] = nick[q]
  BY <1>0, <1>1, <1>2, <1>3, OneChanged
<1>5. \A q \in Live : /\ nick'[q].numeric = nick[q].numeric /\ nick'[q].host = nick[q].host
                      /\ nick'[q].name = nick[q].name
  BY <1>0, <1>2, <1>4
<1>6. Incoming' = Incoming
  BY <1>1 DEF Incoming
<1>7. Live' = Live /\ Placed' = Placed /\ Numbered' /\ SlotsExact' /\ HostsTell'
  BY <1>0, <1>1, <1>4, <1>5, <1>6, NicksStay
<1>8. Named' /\ OneHolder'
  <2>1. \A q \in Placed : nick'[q].name = nick[q].name
    BY <1>0, <1>5
  <2>2. Named'
    BY <1>0, <1>1, <1>7, <2>1 DEF Named
  <2>3. OneHolder'
    BY <1>0, <1>7, <2>1 DEF OneHolder
  <2> QED BY <2>2, <2>3
<1>9. \A b \in Auths : WithAuth(b)' = IF b = a THEN WithAuth(b) \cup {p} ELSE WithAuth(b) \ {p}
  BY <1>0, <1>1, <1>2, <1>4, <1>7 DEF WithAuth
<1>10. \A b \in Auths : /\ WithAuth(b) \in SUBSET Nicks /\ IsFiniteSet(WithAuth(b))
                        /\ Cardinality(WithAuth(b)) \in Nat
  <2>1. \A b \in Auths : WithAuth(b) \in SUBSET Nicks
    BY <1>0 DEF WithAuth
  <2> QED BY <2>1, FS_Subset, FS_CardinalityType DEF NickTableAssumption
<1>11. ASSUME NEW b \in Auths, b # a, authnametable'[b] = authnametable[b], WithAuth(b)' # {}
       PROVE  authnametable'[b] # NULL /\ Cardinality(WithAuth(b)') <= authnametable'[b].count
  <2>1. WithAuth(b)' = WithAuth(b) \ {p} /\ WithAuth(b) # {}
    BY <1>9, <1>11
  <2>2. Cardinality(WithAuth(b)') <= Cardinality(WithAuth(b)) /\ Cardinality(WithAuth(b)') \in Nat
    <3>1. IsFiniteSet(WithAuth(b)) /\ Cardinality(WithAuth(b)) \in Nat
      BY <1>10
    <3>2. IsFiniteSet(WithAuth(b) \ {p}) /\ Cardinality(WithAuth(b) \ {p}) <= Cardinality(WithAuth(b))
      BY <3>1, FS_RemoveElement
    <3> QED BY <2>1, <3>2, FS_CardinalityType
  <2>3. authnametable[b] # NULL /\ Cardinality(WithAuth(b)) <= authnametable[b].count
    BY <1>0, <2>1 DEF Accounted
  <2>4. authnametable[b].count \in Nat
    BY <1>0, <2>3 DEF Tables, Shared
  <2> QED BY <1>10, <1>11, <2>2, <2>3, <2>4
<1>12. authnametable' \in [Auths -> Shared \cup {NULL}] /\ Accounted'
  <2>1. CASE a = NULL
    <3>1. authnametable' = authnametable /\ \A b \in Auths : b # a
      BY <1>1, <2>1 DEF NickTableAssumption
    <3> QED BY <1>0, <1>11, <3>1 DEF Tables, Accounted
  <2>2. CASE a # NULL
    <3> DEFINE joined == Join(authnametable[a], p)
    <3>1. a \in Auths /\ p \in Nicks
      BY <1>0, <1>1, <2>2
    <3>2. joined \in Shared /\ joined # NULL /\ Cardinality(WithAuth(a) \cup {p}) <= joined.count
      BY <1>0, <1>10, <3>1, JoinCounts DEF Tables, Accounted
    <3>3. authnametable' = [authnametable EXCEPT ![a] = joined]
      BY <1>1, <2>2
    <3> HIDE DEF joined
    <3>4. authnametable' \in [Auths -> Shared \cup {NULL}]
      BY <1>0, <3>2, <3>3 DEF Tables
    <3>5. \A b \in Auths : authnametable'[b] = IF b = a THEN joined ELSE authnametable[b]
      BY <1>0, <3>3 DEF Tables
    <3>6. ASSUME NEW b \in Auths, WithAuth(b)' # {}
          PROVE  authnametable'[b] # NULL /\ Cardinality(WithAuth(b)') <= authnametable'[b].count
      <4>1. CASE b = a
        BY <1>9, <3>2, <3>5, <4>1
      <4>2. CASE b # a
        BY <1>11, <3>5, <3>6, <4>2
      <4> QED BY <4>1, <4>2
    <3> QED BY <3>4, <3>6 DEF Accounted
  <2> QED BY <2>1, <2>2
<1>13. Tables'
  BY <1>0, <1>1, <1>4, <1>12 DEF Tables, Structures
<1>14. HandlingOK'
  BY <1>1 DEF HandlingOK
<1> QED BY <1>4, <1>7, <1>8, <1>12, <1>13, <1>14 DEF TablesInv, TablesCore

LEMMA UserModeInv ==
  ASSUME NickTableAssumption, TablesInv, NEW p \in Placed \cup {NULL}, NEW on \in BOOLEAN,
         handleusermodemsg(p, on)
  PROVE  TablesInv'
<1>0. TablesCore /\ Tables /\ Placed \subseteq Live
  BY LiveFacts
<1>1. /\ handling = Idle /\ p \in Live /\ nick' = [nick EXCEPT ![p].account = on]
      /\ UNCHANGED <<linked, servernicks, nicktable, hosttable, authnametable, handling>>
  BY <1>0 DEF handleusermodemsg
<1> DEFINE r == [nick[p] EXCEPT !.account = on]
<1>2. /\ r \in NickRec /\ r.cloak_extra = nick[p].cloak_extra /\ r.cloak_count = nick[p].cloak_count
      /\ r.numeric = nick[p].numeric /\ r.host = nick[p].host /\ r.name = nick[p].name /\ r.auth = nick[p].auth
  BY <1>0, <1>1, NickFields DEF NickRec
<1>3. nick' = [nick EXCEPT ![p] = r]
  BY <1>1
<1> HIDE DEF r
<1>4. /\ nick' \in Structures /\ Cloaks(nick')
      /\ \A q \in Nicks : nick[q] = NULL <=> nick'[q] = NULL
      /\ nick'[p] = r /\ \A q \in Nicks \ {p} : nick'[q] = nick[q]
  BY <1>0, <1>1, <1>2, <1>3, OneChanged
<1>5. \A q \in Live : /\ nick'[q].numeric = nick[q].numeric /\ nick'[q].host = nick[q].host
                      /\ nick'[q].name = nick[q].name /\ nick'[q].auth = nick[q].auth
  BY <1>2, <1>4 DEF Live
<1> QED BY <1>1, <1>4, <1>5, NicksKeepNames

LEMMA CloaksInv ==
  ASSUME NickTableAssumption, TablesInv, NEW p \in Placed \cup {NULL}, NEW q \in Placed \cup {NULL},
         handleaddcloak(p, q) \/ handleclearcloak(p)
  PROVE  TablesInv'
<1>0. TablesCore /\ Cloaks(nick) /\ Placed \subseteq Live /\ nick \in Structures
  BY LiveFacts
<1>1. /\ handling = Idle
      /\ UNCHANGED <<linked, servernicks, nicktable, hosttable, authnametable, handling>>
  BY DEF handleaddcloak, handleclearcloak
<1>2. nick' \in Structures /\ SameNicks(nick, nick') /\ Cloaks(nick')
  <2>1. CASE handleaddcloak(p, q)
    <3>1. /\ p \in Nicks /\ nick[p] # NULL /\ q \in Nicks /\ nick[q] # NULL
          /\ nick' = addcloaktarget(nick, p, q)
      BY <1>0, <2>1 DEF handleaddcloak, Live
    <3> QED BY <1>0, <3>1, AddTarget
  <2>2. CASE handleclearcloak(p)
    <3>1. p \in Nicks /\ nick[p] # NULL /\ nick' = clearcloaktargets(nick, p)
      BY <1>0, <2>2 DEF handleclearcloak, Live
    <3> QED BY <1>0, <3>1, ClearTargets
  <2> QED BY <2>1, <2>2
<1>3. \A d \in Nicks : nick[d] = NULL <=> nick'[d] = NULL
  BY <1>2 DEF SameNicks
<1>4. \A d \in Live : /\ nick'[d].numeric = nick[d].numeric /\ nick'[d].host = nick[d].host
                      /\ nick'[d].name = nick[d].name /\ nick'[d].auth = nick[d].auth
  BY <1>2 DEF SameNicks, SameNick, Live
<1> QED BY <1>1, <1>2, <1>3, <1>4, NicksKeepNames

-----------------------------------------------------------------------------
(* Accounts, where nobody sends +r and -r. *)

LEMMA AccountsSame ==
  ASSUME AccountsTell, Live' = Live, authnametable' = authnametable,
         \A q \in Live : nick'[q].account = nick[q].account /\ nick'[q].auth = nick[q].auth
  PROVE  AccountsTell'
<1>1. \A a \in Auths : WithAccount(a)' = WithAccount(a)
  BY DEF WithAccount
<1> QED BY <1>1 DEF AccountsTell

LEMMA AccountJoined ==
  ASSUME NickTableAssumption, TablesInv, AccountsTell, NEW p \in Nicks, NEW a \in Auths,
         authnametable' = [authnametable EXCEPT ![a] = Join(authnametable[a], p)],
         p \notin WithAccount(a),
         \A b \in Auths : WithAccount(b)' = IF b = a THEN WithAccount(b) \cup {p} ELSE WithAccount(b)
  PROVE  AccountsTell'
<1> DEFINE joined == Join(authnametable[a], p)
<1>1. authnametable \in [Auths -> Shared \cup {NULL}] /\ WithAccount(a) \in SUBSET Nicks
  BY LiveFacts DEF Tables, WithAccount
<1>2. Tells(joined, WithAccount(a) \cup {p})
  BY <1>1, JoinTells DEF AccountsTell
<1> HIDE DEF joined
<1>3. \A b \in Auths : authnametable'[b] = IF b = a THEN joined ELSE authnametable[b]
  BY <1>1 DEF joined
<1>4. ASSUME NEW b \in Auths PROVE Tells(authnametable'[b], WithAccount(b)')
  <2>1. CASE b = a
    BY <1>2, <1>3, <2>1
  <2>2. CASE b # a
    <3>1. authnametable'[b] = authnametable[b] /\ WithAccount(b)' = WithAccount(b)
      BY <1>3, <2>2
    <3> QED BY <3>1 DEF AccountsTell
  <2> QED BY <2>1, <2>2
<1> QED BY <1>4 DEF AccountsTell

LEMMA AccountLeft ==
  ASSUME NickTableAssumption, TablesInv, AccountsTell, NEW p \in Live, deletenick(p)
  PROVE  AccountsTell'
<1>0. TablesCore /\ Tables /\ Live \subseteq Nicks
  BY LiveFacts
<1>1. Live' = Live \ {p} /\ \A q \in Live \ {p} : SameNick(nick[q], nick'[q])
  BY <1>0, DeletedNick
<1>2. \A a \in Auths : WithAccount(a)' = WithAccount(a) \ {p}
  BY <1>1 DEF WithAccount, SameNick
<1> DEFINE a0 == nick[p].auth
           left == Leave(authnametable[a0], p)
<1>3. CASE nick[p].account /\ a0 # NULL
  <2>1. a0 \in Auths /\ p \in WithAccount(a0) /\ \A a \in Auths \ {a0} : p \notin WithAccount(a)
    BY <1>0, <1>3, NickFields DEF WithAccount
  <2>2. authnametable' = [authnametable EXCEPT ![a0] = left]
    BY <1>3 DEF deletenick
  <2>3. WithAccount(a0) \in SUBSET Nicks /\ authnametable \in [Auths -> Shared \cup {NULL}]
    BY <1>0 DEF WithAccount, Tables
  <2>4. Tells(left, WithAccount(a0) \ {p})
    BY <2>1, <2>3, LeaveTells DEF AccountsTell
  <2> HIDE DEF left
  <2>5. \A a \in Auths : authnametable'[a] = IF a = a0 THEN left ELSE authnametable[a]
    BY <2>1, <2>2, <2>3
  <2>6. ASSUME NEW a \in Auths PROVE Tells(authnametable'[a], WithAccount(a)')
    <3>1. CASE a = a0
      BY <1>2, <2>1, <2>4, <2>5, <3>1
    <3>2. CASE a # a0
      <4>1. authnametable'[a] = authnametable[a] /\ WithAccount(a)' = WithAccount(a)
        BY <1>2, <2>1, <2>5, <3>2, ZenonT(40)
      <4> QED BY <4>1 DEF AccountsTell
    <3> QED BY <3>1, <3>2
  <2> QED BY <2>6 DEF AccountsTell
<1>4. CASE ~(nick[p].account /\ a0 # NULL)
  <2>1. authnametable' = authnametable
    BY <1>4 DEF deletenick
  <2>2. \A a \in Auths : WithAccount(a)' = WithAccount(a)
    BY <1>2, <1>4 DEF WithAccount, NickTableAssumption
  <2> QED BY <2>1, <2>2 DEF AccountsTell
<1> QED BY <1>3, <1>4

\* The steps that have to do with accounts.
LEMMA AllocateTells ==
  ASSUME NickTableAssumption, TablesInv, AccountsTell, NEW m \in NickMsg, Allocate(m)
  PROVE  AccountsTell'
<1>0. Live \subseteq Nicks /\ Tables
  BY LiveFacts
<1> DEFINE r == [name |-> m.name, numeric |-> m.numeric, ident |-> m.ident, host |-> m.host,
                 timestamp |-> m.timestamp, account |-> m.account, auth |-> m.auth,
                 cloak_extra |-> NULL, cloak_count |-> 0]
<1>1. PICK p \in Nicks \ Live :
        /\ nick' = [nick EXCEPT ![p] = r]
        /\ authnametable' = IF m.auth # NULL
                            THEN [authnametable EXCEPT ![m.auth] = Join(authnametable[m.auth], p)]
                            ELSE authnametable
  BY DEF Allocate
<1>2. r.account = m.account /\ r.auth = m.auth /\ r # NULL
  <2>1. r \in NickRec
    BY DEF NickMsg, NickRec
  <2> QED BY <2>1 DEF NickTableAssumption
<1> HIDE DEF r
<1>3. nick'[p] = r /\ (\A q \in Nicks \ {p} : nick'[q] = nick[q]) /\ Live' = Live \cup {p}
  BY <1>0, <1>1, <1>2 DEF Tables, Live
<1>4. m.auth \in Auths \cup {NULL} /\ (m.auth # NULL => m.account) /\ NULL \notin Auths
  BY DEF NickMsg, NickTableAssumption
<1>5. \A a \in Auths :
        WithAccount(a)' = IF a = m.auth THEN WithAccount(a) \cup {p} ELSE WithAccount(a)
  BY <1>0, <1>1, <1>2, <1>3, <1>4 DEF WithAccount
<1>6. CASE m.auth = NULL
  <2>1. authnametable' = authnametable /\ \A a \in Auths : WithAccount(a)' = WithAccount(a)
    BY <1>1, <1>4, <1>5, <1>6
  <2> QED BY <2>1 DEF AccountsTell
<1>7. CASE m.auth # NULL
  <2>1. p \notin WithAccount(m.auth)
    BY <1>1 DEF WithAccount
  <2> QED BY <1>1, <1>4, <1>5, <1>7, <2>1, AccountJoined
<1> QED BY <1>6, <1>7

LEMMA AccountMsgTells ==
  ASSUME NickTableAssumption, TablesInv, AccountsTell, NEW p \in Placed \cup {NULL},
         NEW a \in Auths \cup {NULL}, handleaccountmsg(p, a)
  PROVE  AccountsTell'
<1>0. Tables /\ Placed \subseteq Live /\ Live \subseteq Nicks /\ NULL \notin Auths
  BY LiveFacts DEF NickTableAssumption
<1>1. /\ p \in Live /\ ~nick[p].account
      /\ nick' = [nick EXCEPT ![p].account = TRUE, ![p].auth = a]
      /\ authnametable' = IF a = NULL THEN authnametable
                          ELSE [authnametable EXCEPT ![a] = Join(authnametable[a], p)]
  BY <1>0 DEF handleaccountmsg
<1> DEFINE r == [[nick[p] EXCEPT !.account = TRUE] EXCEPT !.auth = a]
<1>2. r \in NickRec /\ r.account = TRUE /\ r.auth = a /\ r # NULL
  <2>1. nick[p] \in NickRec
    BY <1>0, <1>1, NickFields
  <2>2. r \in NickRec /\ r.account = TRUE /\ r.auth = a
    BY <2>1 DEF NickRec
  <2> HIDE DEF r
  <2> QED BY <2>2 DEF NickTableAssumption
<1>3. nick' = [nick EXCEPT ![p] = r]
  BY <1>0, <1>1 DEF Tables
<1> HIDE DEF r
<1>4. nick'[p] = r /\ (\A q \in Nicks \ {p} : nick'[q] = nick[q]) /\ Live' = Live
  <2>1. nick'[p] = r /\ \A q \in Nicks \ {p} : nick'[q] = nick[q]
    BY <1>0, <1>1, <1>3 DEF Tables
  <2>2. nick[p] # NULL
    BY <1>1 DEF Live
  <2> QED BY <1>2, <2>1, <2>2 DEF Live
<1>5. \A b \in Auths : WithAccount(b)' = IF b = a THEN WithAccount(b) \cup {p} ELSE WithAccount(b)
  BY <1>0, <1>1, <1>2, <1>4 DEF WithAccount
<1>6. CASE a = NULL
  <2>1. authnametable' = authnametable /\ \A b \in Auths : WithAccount(b)' = WithAccount(b)
    BY <1>0, <1>1, <1>5, <1>6
  <2> QED BY <2>1 DEF AccountsTell
<1>7. CASE a # NULL
  <2>1. p \notin WithAccount(a)
    BY <1>1 DEF WithAccount
  <2> QED BY <1>0, <1>1, <1>5, <1>7, <2>1, AccountJoined
<1> QED BY <1>6, <1>7

-----------------------------------------------------------------------------
(* The specification. *)

LEMMA InitInv ==
  ASSUME NickTableAssumption, Init
  PROVE  TablesInv /\ AccountsTell
<1>1. Live = {} /\ Incoming = {} /\ Placed = {}
  BY DEF Init, Live, Incoming, Idle, Placed
<1>2. Tables
  BY DEF Init, Tables, NickTableAssumption
<1>3. Numbered /\ SlotsExact /\ Named /\ OneHolder
  BY <1>1 DEF Init, Numbered, SlotsExact, Named, OneHolder, NickTableAssumption
<1>4. Cloaks(nick)
  BY DEF Init, Cloaks, SeenBy
<1>5. HostsTell
  BY <1>1 DEF Init, HostsTell, OnHost, Tells
<1>6. Accounted
  BY <1>1 DEF Accounted, WithAuth
<1>7. AccountsTell
  BY <1>1 DEF Init, AccountsTell, WithAccount, Tells
<1>8. HandlingOK
  BY DEF Init, HandlingOK
<1> QED BY <1>2, <1>3, <1>4, <1>5, <1>6, <1>7, <1>8 DEF TablesInv, TablesCore

LEMMA UserMsgInv ==
  ASSUME NickTableAssumption, TablesInv, NEW x \in Numerics, UserMsg(x)
  PROVE  TablesInv'
<1>1. \A y \in Numerics : getnickbynumeric(y) \in Placed \cup {NULL}
  BY FoundByNumeric DEF TablesInv
<1> DEFINE p == getnickbynumeric(x)
<1>2. p \in Placed \cup {NULL}
  BY <1>1
<1>3. CASE \E ts \in Times : RenameSame(p, ts)
  BY <1>2, <1>3, RenameSameInv
<1>4. CASE \E n \in Names, ts \in Times : RenameCollision(p, n, ts) \/ Rename(p, n, ts)
  BY <1>2, <1>4, RenameCollisionInv, RenameInv
<1>5. CASE NickGone(p)
  BY <1>2, <1>5, NickGoneInv
<1>6. CASE \E a \in Auths \cup {NULL} : handleaccountmsg(p, a)
  BY <1>2, <1>6, AccountMsgInv
<1>7. CASE \E on \in BOOLEAN : handleusermodemsg(p, on)
  BY <1>2, <1>7, UserModeInv
<1>8. CASE \E y \in Numerics : handleaddcloak(p, getnickbynumeric(y))
  BY <1>1, <1>2, <1>8, CloaksInv
<1>9. CASE handleclearcloak(p)
  BY <1>2, <1>9, CloaksInv
<1> QED BY <1>3, <1>4, <1>5, <1>6, <1>7, <1>8, <1>9 DEF UserMsg

LEMMA NextInv ==
  ASSUME NickTableAssumption, TablesInv, [Next]_vars
  PROVE  TablesInv'
<1>1. CASE UNCHANGED vars
  <2>1. TablesCore' /\ Live' = Live
    BY <1>1, TablesKept DEF vars, Incoming, TablesInv, Live
  <2>2. HandlingOK'
    BY <1>1, <2>1 DEF vars, HandlingOK, TablesInv
  <2> QED BY <2>1, <2>2 DEF TablesInv
<1>2. CASE \E s \in Servers : NewServer(s) \/ LostServer(s)
  BY <1>2, NewServerInv, LostServerInv
<1>3. CASE LoseNick \/ ServerGone
  BY <1>3, LoseNickInv, ServerGoneInv
<1>4. CASE \E m \in NickMsg : NickCollision(m) \/ Allocate(m)
  BY <1>4, NickCollisionInv, AllocateInv
<1>5. CASE InvalidNumeric \/ MaskedCollision \/ Place
  BY <1>5, InvalidNumericInv, MaskedCollisionInv, PlaceInv
<1>6. CASE \E x \in Numerics : UserMsg(x)
  BY <1>6, UserMsgInv
<1> QED BY <1>1, <1>2, <1>3, <1>4, <1>5, <1>6 DEF Next

LEMMA UserMsgTells ==
  ASSUME NickTableAssumption, ~AccountModes, TablesInv, AccountsTell, NEW x \in Numerics, UserMsg(x)
  PROVE  AccountsTell'
<1>0. /\ Placed \subseteq Live /\ Live \subseteq Nicks /\ NULL \notin Nicks /\ Cloaks(nick)
      /\ nick \in Structures /\ Tables /\ TablesCore
  BY LiveFacts
<1>1. \A y \in Numerics : getnickbynumeric(y) \in Placed \cup {NULL}
  BY FoundByNumeric DEF TablesInv
<1> DEFINE p == getnickbynumeric(x)
<1>2. p \in Placed \cup {NULL}
  BY <1>1
<1> HIDE DEF p
\* A step that changes neither accounts nor their users.
<1>3. ASSUME authnametable' = authnametable, nick' \in [Nicks -> NickRec \cup {NULL}],
             \A q \in Nicks : nick[q] = NULL <=> nick'[q] = NULL,
             \A q \in Live : nick'[q].account = nick[q].account /\ nick'[q].auth = nick[q].auth
      PROVE  AccountsTell'
  BY <1>3, AccountsSame DEF Live
\* A step that overwrites other fields of one nick.
<1>4. ASSUME p \in Live, NEW r \in NickRec, nick' = [nick EXCEPT ![p] = r],
             r.account = nick[p].account, r.auth = nick[p].auth, authnametable' = authnametable
      PROVE  AccountsTell'
  <2>1. p \in Nicks /\ nick[p] # NULL /\ r # NULL
    BY <1>0, <1>4 DEF Live, NickTableAssumption
  <2>2. nick' \in [Nicks -> NickRec \cup {NULL}] /\ nick'[p] = r
        /\ \A q \in Nicks \ {p} : nick'[q] = nick[q]
    BY <1>0, <1>4, <2>1 DEF Tables
  <2>3. \A q \in Live : nick'[q].account = nick[q].account /\ nick'[q].auth = nick[q].auth
    BY <1>0, <1>4, <2>2
  <2> QED BY <1>3, <1>4, <2>1, <2>2, <2>3
<1>5. CASE \E ts \in Times : RenameSame(p, ts)
  <2>1. PICK ts \in Times : RenameSame(p, ts)
    BY <1>5
  <2> DEFINE r == [nick[p] EXCEPT !.timestamp = ts]
  <2>2. p \in Live /\ nick' = [nick EXCEPT ![p] = r] /\ authnametable' = authnametable
    BY <1>0, <1>2, <2>1 DEF RenameSame
  <2>3. nick[p] \in NickRec
    BY <1>0, <2>2, NickFields
  <2>4. r \in NickRec /\ r.account = nick[p].account /\ r.auth = nick[p].auth
    BY <2>3 DEF NickRec
  <2> HIDE DEF r
  <2> QED BY <1>4, <2>2, <2>4
<1>6. CASE \E n \in Names, ts \in Times : RenameCollision(p, n, ts)
  <2>1. PICK n \in Names, ts \in Times : RenameCollision(p, n, ts)
    BY <1>6
  <2>2. p \in Live /\ getnickbynick(n) # NULL /\ (deletenick(p) \/ deletenick(getnickbynick(n)))
    BY <1>0, <1>2, <2>1 DEF RenameCollision
  <2>3. getnickbynick(n) \in Live
    BY <1>0, <2>2, FoundByNick
  <2> QED BY <2>2, <2>3, AccountLeft
<1>7. CASE \E n \in Names, ts \in Times : Rename(p, n, ts)
  <2>1. PICK n \in Names, ts \in Times : Rename(p, n, ts)
    BY <1>7
  <2> DEFINE r == [[nick[p] EXCEPT !.name = n] EXCEPT !.timestamp = ts]
  <2>2. p \in Live /\ nick' = [nick EXCEPT ![p].name = n, ![p].timestamp = ts]
        /\ authnametable' = authnametable
    BY <1>0, <1>2, <2>1 DEF Rename
  <2>3. nick[p] \in NickRec /\ nick' = [nick EXCEPT ![p] = r]
    BY <1>0, <2>2, NickFields DEF Tables
  <2>4. r \in NickRec /\ r.account = nick[p].account /\ r.auth = nick[p].auth
    BY <2>3 DEF NickRec
  <2> HIDE DEF r
  <2> QED BY <1>4, <2>2, <2>3, <2>4
<1>8. CASE NickGone(p)
  BY <1>0, <1>2, <1>8, AccountLeft DEF NickGone
<1>9. CASE \E a \in Auths \cup {NULL} : handleaccountmsg(p, a)
  BY <1>2, <1>9, AccountMsgTells
<1>10. CASE \E on \in BOOLEAN : handleusermodemsg(p, on)
  <2>1. PICK on \in BOOLEAN : handleusermodemsg(p, on)
    BY <1>10
  <2> DEFINE r == [nick[p] EXCEPT !.account = on]
  <2>2. p \in Live /\ on = nick[p].account /\ nick' = [nick EXCEPT ![p] = r]
        /\ authnametable' = authnametable
    BY <1>0, <1>2, <2>1 DEF handleusermodemsg
  <2>3. nick[p] \in NickRec
    BY <1>0, <2>2, NickFields
  <2>4. r \in NickRec /\ r.account = nick[p].account /\ r.auth = nick[p].auth
    BY <2>2, <2>3 DEF NickRec
  <2> HIDE DEF r
  <2> QED BY <1>4, <2>2, <2>4
<1>11. CASE (\E y \in Numerics : handleaddcloak(p, getnickbynumeric(y))) \/ handleclearcloak(p)
  <2>1. authnametable' = authnametable /\ nick' \in Structures /\ SameNicks(nick, nick')
    <3>1. CASE \E y \in Numerics : handleaddcloak(p, getnickbynumeric(y))
      <4>1. PICK y \in Numerics : handleaddcloak(p, getnickbynumeric(y))
        BY <3>1
      <4> DEFINE q == getnickbynumeric(y)
      <4>2. q \in Placed \cup {NULL}
        BY <1>1
      <4> HIDE DEF q
      <4>3. /\ p \in Nicks /\ nick[p] # NULL /\ q \in Nicks /\ nick[q] # NULL
            /\ nick' = addcloaktarget(nick, p, q) /\ authnametable' = authnametable
        BY <1>0, <1>2, <4>1, <4>2 DEF handleaddcloak, Live, q
      <4> QED BY <1>0, <4>3, AddTarget
    <3>2. CASE handleclearcloak(p)
      <4>1. /\ p \in Nicks /\ nick[p] # NULL /\ nick' = clearcloaktargets(nick, p)
            /\ authnametable' = authnametable
        BY <1>0, <1>2, <3>2 DEF handleclearcloak, Live
      <4> QED BY <1>0, <4>1, ClearTargets
    <3> QED BY <1>11, <3>1, <3>2
  <2>2. \A q \in Nicks : nick[q] = NULL <=> nick'[q] = NULL
    BY <2>1 DEF SameNicks
  <2>3. \A q \in Live : nick'[q].account = nick[q].account /\ nick'[q].auth = nick[q].auth
    BY <2>1 DEF SameNicks, SameNick, Live
  <2> QED BY <1>3, <2>1, <2>2, <2>3 DEF Structures
<1> QED BY <1>5, <1>6, <1>7, <1>8, <1>9, <1>10, <1>11 DEF UserMsg, p

LEMMA NextTells ==
  ASSUME NickTableAssumption, ~AccountModes, TablesInv, AccountsTell, [Next]_vars
  PROVE  AccountsTell'
<1>0. TablesCore /\ Tables /\ SlotsExact /\ HandlingOK /\ Placed \subseteq Live
  BY LiveFacts
<1>1. CASE UNCHANGED <<nick, authnametable>>
  <2>1. Live' = Live
    BY <1>1 DEF Live
  <2> QED BY <1>1, <2>1, AccountsSame
<1>2. CASE \E s \in Servers : NewServer(s) \/ LostServer(s)
  BY <1>1, <1>2 DEF NewServer, LostServer
<1>3. CASE ServerGone \/ InvalidNumeric \/ Place
  BY <1>1, <1>3 DEF ServerGone, InvalidNumeric, Place
<1>4. CASE LoseNick
  <2>1. handling.op = "lostserver"
    BY <1>4 DEF LoseNick
  <2>2. PICK s \in linked \ {MyServer} : handling = Losing(s)
    BY <1>0, <2>1, InHand DEF HandlingOK
  <2>3. PICK i \in Slots : servernicks[s][i] # NULL /\ deletenick(servernicks[s][i])
    BY <1>4, <2>2, InHand DEF LoseNick
  <2>4. servernicks[s][i] \in Live
    BY <1>0, <2>3 DEF SlotsExact
  <2> QED BY <2>3, <2>4, AccountLeft
<1>5. CASE \E m \in NickMsg : NickCollision(m)
  <2>1. PICK m \in NickMsg : NickCollision(m)
    BY <1>5
  <2>2. getnickbynick(m.name) # NULL /\ deletenick(getnickbynick(m.name)) /\ m.name \in Names
    BY <2>1 DEF NickCollision, NickMsg
  <2>3. getnickbynick(m.name) \in Live
    BY <1>0, <2>2, FoundByNick
  <2> QED BY <2>2, <2>3, AccountLeft
<1>6. CASE \E m \in NickMsg : Allocate(m)
  BY <1>6, AllocateTells
<1>7. CASE MaskedCollision
  <2>1. handling.op = "place"
    BY <1>7 DEF MaskedCollision
  <2>2. PICK p \in Live : handling = Placing(p) /\ nick[p].numeric[1] \in linked
    BY <1>0, <2>1, InHand DEF HandlingOK
  <2> DEFINE x == nick[p].numeric
             old == servernicks[x[1]][Slot(x)]
  <2>3. old # NULL /\ deletenick(old)
    BY <1>7, <2>2, InHand DEF MaskedCollision
  <2>4. Slot(x) \in Slots
    BY <1>0, NickFields
  <2>5. old \in Live
    BY <1>0, <2>2, <2>3, <2>4 DEF SlotsExact
  <2> QED BY <2>3, <2>5, AccountLeft
<1>8. CASE \E x \in Numerics : UserMsg(x)
  BY <1>8, UserMsgTells
<1> QED BY <1>1, <1>2, <1>3, <1>4, <1>5, <1>6, <1>7, <1>8 DEF Next, vars

-----------------------------------------------------------------------------
(* The theorems. *)

\* addnicktohash(), gethandlebynumeric(), deletenick(), handlenickmsg(), handleserverchange(): the
\* tables by numeric and by name hold the nicks that are allocated, each under its own, and no
\* others, whatever is renamed, killed, collides or splits.
THEOREM TablesCorrect ==
  ASSUME NickTableAssumption
  PROVE  Spec => []TablesExact
<1>1. Init => TablesInv
  BY InitInv
<1>2. TablesInv /\ [Next]_vars => TablesInv'
  BY NextInv
<1>3. TablesInv => TablesExact
  <2> SUFFICES ASSUME TablesInv PROVE TablesExact
    OBVIOUS
  <2>1. Tables /\ Numbered /\ SlotsExact /\ Named /\ OneHolder /\ HandlingOK /\ Placed \subseteq Nicks
    BY LiveFacts
  <2>2. handling.op \in {"none", "introduce", "place", "rename", "lostserver"}
    BY <2>1, InHand DEF HandlingOK
  <2>3. TypeOK
    BY <2>1, <2>2 DEF TypeOK, Tables
  <2>4. ASSUME NEW n \in Names PROVE Cardinality(nicktable[n]) <= 1
    <3>1. \A p, q \in nicktable[n] : p = q
      BY <2>1 DEF Named, OneHolder
    <3>2. CASE nicktable[n] = {}
      BY <3>2, FS_EmptySet
    <3>3. CASE nicktable[n] # {}
      <4>1. PICK p \in nicktable[n] : nicktable[n] = {p}
        BY <3>1, <3>3
      <4>2. Cardinality({p}) = 1
        BY FS_Singleton
      <4> QED BY <4>1, <4>2
    <3> QED BY <3>2, <3>3
  <2> QED BY <2>1, <2>3, <2>4 DEF TablesExact, Numbered, SlotsExact, Named, Placed
<1> QED BY <1>1, <1>2, <1>3, PTL DEF Spec

\* findorcreatehost(), releasehost(), their likes for accounts, addcloaktarget(), clearcloaktargets(): a
\* host, an account and a cloaked nick know exactly those who share them, however these come and
\* go, on a network that never sends +r and -r as modes.
THEOREM RecordsShared ==
  ASSUME NickTableAssumption, ~AccountModes
  PROVE  Spec => []SharedExact
<1>1. Init => TablesInv /\ AccountsTell
  BY InitInv
<1>2. TablesInv /\ AccountsTell /\ [Next]_vars => (TablesInv /\ AccountsTell)'
  BY NextInv, NextTells
<1>3. TablesInv /\ AccountsTell => SharedExact
  <2> SUFFICES ASSUME TablesInv, AccountsTell PROVE SharedExact
    OBVIOUS
  <2>1. HostsTell /\ Cloaks(nick)
    BY LiveFacts
  <2>2. \A c \in Nicks : SeenBy(nick, c) = {q \in Live : nick[q].cloak_extra = c}
    BY DEF SeenBy, Live
  <2>3. \A c \in Nicks : IF c \in Live THEN nick[c].cloak_count = Cardinality(SeenBy(nick, c))
                         ELSE SeenBy(nick, c) = {}
    BY <2>1 DEF Cloaks, Live
  <2> QED BY <2>1, <2>2, <2>3 DEF SharedExact, HostsTell, AccountsTell, Tells, OnHost, WithAccount
<1> QED BY <1>1, <1>2, <1>3, PTL DEF Spec

\* Both branches of handlenickmsg() agree with each other and with the other side on who loses a
\* name, unless the timestamps are equal.
THEOREM CollisionsAgree ==
  ASSUME NickTableAssumption
  PROVE  Spec => []LoserIsTheSame
<1>1. Init => TablesInv
  BY InitInv
<1>2. TablesInv /\ [Next]_vars => TablesInv'
  BY NextInv
<1>3. TablesInv => LoserIsTheSame
  <2> SUFFICES ASSUME TablesInv, NEW p \in Live, NEW q \in Live, NEW ts \in Times, p # q,
                      ts # nick[q].timestamp
               PROVE  LET np == [nick[p] EXCEPT !.timestamp = ts] IN
                      /\ HolderDies(np, nick[q]) <=> ~HolderDies(nick[q], np)
                      /\ HolderDies(np, nick[q]) <=> ~RenamerDies(nick[p], nick[q], ts)
    BY DEF LoserIsTheSame
  <2>1. nick[p] \in NickRec /\ nick[q] \in NickRec /\ nick[q].timestamp \in Nat /\ ts \in Nat
    BY LiveFacts, NickFields DEF NickTableAssumption
  <2> DEFINE np == [nick[p] EXCEPT !.timestamp = ts]
  <2>2. np.ident = nick[p].ident /\ np.host = nick[p].host /\ np.timestamp = ts
    BY <2>1 DEF NickRec
  <2> HIDE DEF np
  <2>3. /\ HolderDies(np, nick[q]) <=> ~HolderDies(nick[q], np)
        /\ HolderDies(np, nick[q]) <=> ~RenamerDies(nick[p], nick[q], ts)
    BY <2>1, <2>2 DEF HolderDies, RenamerDies, SameUserHost
  <2> QED BY <2>3 DEF np
<1> QED BY <1>1, <1>2, <1>3, PTL DEF Spec
=============================================================================
