------------------------------ MODULE NickTable ------------------------------
(***************************************************************************)
(* Who is on the network: nick/nick.c, nick/nickhandlers.c and the shared  *)
(* host and account records of nick/nickhelpers.c and authext/authext.c.   *)
(*                                                                         *)
(* A nick structure is reached through its numeric (servernicks), through  *)
(* its name (nicktable), through the list of its host and, if it has an    *)
(* account with a user ID, through the list of that account; and nicks     *)
(* point at each other by cloaking.  A message may delete one nick and     *)
(* create or rename another, and deletenick() runs hooks: each deletenick()*)
(* is a step here, so that what its callbacks see is a state.  Which nicks *)
(* those callbacks may free themselves is the subject of PendingKills.     *)
(***************************************************************************)
EXTENDS Integers, FiniteSets

CONSTANTS
  Servers, MyServer,  \* server numerics; our own never leaves
  Clients,            \* the client part of a numeric
  maxusernum,         \* its mask: several client numbers share a slot
  Names, Idents, Hosts, Auths, Times,
  Nicks,              \* the memory of nick structures
  AccountModes,       \* a usermode change may carry +r and -r
  NULL

VARIABLES
  linked,         \* serverlist: the servers whose linkstate is not LS_INVALID
  servernicks,    \* servernicks[s][slot]
  nick,           \* the nick structures; NULL is free memory
  nicktable,      \* the hash chain of each name
  hosttable,      \* the users and the clonecount of each host; NULL is no record
  authnametable,  \* the users and the usercount of each account; NULL is no record
  handling        \* what the handler that is running has still to do

vars == <<linked, servernicks, nick, nicktable, hosttable, authnametable, handling>>

Numerics == Servers \X Clients
Slot(x) == x[2] % (maxusernum + 1)
Slots == {Slot(x) : x \in Numerics}

NickRec == [name : Names, numeric : Numerics, ident : Idents, host : Hosts, timestamp : Times,
            account : BOOLEAN, auth : Auths \cup {NULL},
            cloak_extra : Nicks \cup {NULL}, cloak_count : Nat]

\* A shared record: how many users it says it has, and the list of them.
Shared == [count : Nat, nicks : SUBSET Nicks]

\* What the tables rely on: the numbers are numbers, memory is finite, and NULL points at nothing.
NickTableAssumption ==
  /\ MyServer \in Servers
  /\ Clients \subseteq Nat /\ maxusernum \in Nat
  /\ Times \subseteq Nat
  /\ AccountModes \in BOOLEAN
  /\ IsFiniteSet(Nicks)
  /\ NULL \notin Nicks \cup Auths /\ NULL \notin NickRec /\ NULL \notin Shared

Live == {p \in Nicks : nick[p] # NULL}

\* The new-nick message: auth is a user ID, account alone is an account without one.
NickMsg == {m \in [name : Names, numeric : Numerics, ident : Idents, host : Hosts,
                   timestamp : Times, account : BOOLEAN, auth : Auths \cup {NULL}] :
              m.auth # NULL => m.account}

\* What a handler may have left to do after a deletenick().
Idle == [op |-> "none"]
Introducing(m) == [op |-> "introduce", msg |-> m]
Placing(p) == [op |-> "place", np |-> p]
Renaming(p, n, ts) == [op |-> "rename", np |-> p, name |-> n, timestamp |-> ts]
Losing(s) == [op |-> "lostserver", server |-> s]

Init ==
  /\ linked = {MyServer}
  /\ servernicks = [s \in Servers |-> [i \in Slots |-> NULL]]
  /\ nick = [p \in Nicks |-> NULL]
  /\ nicktable = [n \in Names |-> {}]
  /\ hosttable = [h \in Hosts |-> NULL]
  /\ authnametable = [a \in Auths |-> NULL]
  /\ handling = Idle

-----------------------------------------------------------------------------
(* Lookups. *)

\* getnickbynumeric(): the slot of the numeric, if it holds a nick of just that numeric.
getnickbynumeric(x) ==
  IF x[1] \in linked /\ servernicks[x[1]][Slot(x)] # NULL
     /\ nick[servernicks[x[1]][Slot(x)]].numeric = x
  THEN servernicks[x[1]][Slot(x)] ELSE NULL

getnickbynick(n) ==
  IF nicktable[n] = {} THEN NULL ELSE CHOOSE p \in nicktable[n] : TRUE

\* Shared records: a user is added, creating the record; a user leaves, and the last one
\* takes the record with it.
Join(t, p) ==
  IF t = NULL THEN [count |-> 1, nicks |-> {p}]
  ELSE [count |-> t.count + 1, nicks |-> t.nicks \cup {p}]

Leave(t, p) == IF t.count = 1 THEN NULL ELSE [count |-> t.count - 1, nicks |-> t.nicks \ {p}]

-----------------------------------------------------------------------------
(* Cloaks: each nick may be shown to one cloaked nick's targets. *)

removecloaktarget(ns, q) ==
  LET c == ns[q].cloak_extra IN
  IF c = NULL THEN ns
  ELSE [ns EXCEPT ![c].cloak_count = @ - 1, ![q].cloak_extra = NULL]

clearcloaktargets(ns, c) ==
  IF ns[c].cloak_count = 0 THEN ns
  ELSE [q \in Nicks |->
          IF ns[q] = NULL THEN NULL
          ELSE [ns[q] EXCEPT !.cloak_extra = IF @ = c THEN NULL ELSE @,
                             !.cloak_count = IF q = c THEN 0 ELSE @]]

addcloaktarget(ns, c, q) ==
  [removecloaktarget(ns, q) EXCEPT ![q].cloak_extra = c, ![c].cloak_count = @ + 1]

-----------------------------------------------------------------------------
\* MUTANT: the account's list is left alone.
Bug_AuthKept(p) ==
  LET np == nick[p] IN
  /\ hosttable' = [hosttable EXCEPT ![np.host] = Leave(@, p)]
  /\ UNCHANGED authnametable
  /\ nick' = [clearcloaktargets(removecloaktarget(nick, p), p) EXCEPT ![p] = NULL]
  /\ servernicks' = [servernicks EXCEPT ![np.numeric[1]][Slot(np.numeric)] = NULL]
  /\ nicktable' = [nicktable EXCEPT ![np.name] = @ \ {p}]

\* What is left of the tables when deletenick() is done; account is the +r umode.
deletenick(p) ==
  LET np == nick[p] IN
  /\ hosttable' = [hosttable EXCEPT ![np.host] = Leave(@, p)]
  /\ authnametable' = IF np.account /\ np.auth # NULL
                      THEN [authnametable EXCEPT ![np.auth] = Leave(@, p)] ELSE authnametable
  /\ nick' = [clearcloaktargets(removecloaktarget(nick, p), p) EXCEPT ![p] = NULL]
  /\ servernicks' = [servernicks EXCEPT ![np.numeric[1]][Slot(np.numeric)] = NULL]
  /\ nicktable' = [nicktable EXCEPT ![np.name] = @ \ {p}]

-----------------------------------------------------------------------------
(* Servers: handleservermsg() and deleteserver() of server/server.c run the hooks that *)
(* handleserverchange() hangs on.                                                      *)

NewServer(s) ==
  /\ handling = Idle
  /\ s \notin linked
  /\ linked' = linked \cup {s}
  /\ servernicks' = [servernicks EXCEPT ![s] = [i \in Slots |-> NULL]]
  /\ UNCHANGED <<nick, nicktable, hosttable, authnametable, handling>>

LostServer(s) ==
  /\ handling = Idle
  /\ s \in linked \ {MyServer}
  /\ handling' = Losing(s)
  /\ UNCHANGED <<linked, servernicks, nick, nicktable, hosttable, authnametable>>

LoseNick ==
  /\ handling.op = "lostserver"
  /\ \E i \in Slots :
       /\ servernicks[handling.server][i] # NULL
       /\ \A j \in Slots : j < i => servernicks[handling.server][j] = NULL
       /\ deletenick(servernicks[handling.server][i])
  /\ UNCHANGED <<linked, handling>>

ServerGone ==
  /\ handling.op = "lostserver"
  /\ \A i \in Slots : servernicks[handling.server][i] = NULL
  /\ linked' = linked \ {handling.server}
  /\ handling' = Idle
  /\ UNCHANGED <<servernicks, nick, nicktable, hosttable, authnametable>>

-----------------------------------------------------------------------------
(* handlenickmsg(): a new nick. *)

SameUserHost(m, np) == m.ident = np.ident /\ m.host = np.host

\* The nick that has the name gives way to the new one.
HolderDies(m, np) ==
  IF SameUserHost(m, np) THEN m.timestamp > np.timestamp ELSE m.timestamp <= np.timestamp

\* The name is taken and the newcomer wins.  (If it loses, the message is ignored.)
NickCollision(m) ==
  /\ handling = Idle
  /\ LET p == getnickbynick(m.name) IN
       /\ p # NULL /\ HolderDies(m, nick[p])
       /\ deletenick(p)
  /\ handling' = Introducing(m)
  /\ UNCHANGED linked

\* The structure is filled in, and joins its host and account, but not yet the tables.
Allocate(m) ==
  /\ \/ handling = Introducing(m)
     \/ handling = Idle /\ getnickbynick(m.name) = NULL
  /\ m.numeric[1] \in linked
  /\ \E p \in Nicks \ Live :
       /\ nick' = [nick EXCEPT ![p] =
                     [name |-> m.name, numeric |-> m.numeric, ident |-> m.ident, host |-> m.host,
                      timestamp |-> m.timestamp, account |-> m.account, auth |-> m.auth,
                      cloak_extra |-> NULL, cloak_count |-> 0]]
       /\ hosttable' = [hosttable EXCEPT ![m.host] = Join(@, p)]
       /\ authnametable' = IF m.auth # NULL
                           THEN [authnametable EXCEPT ![m.auth] = Join(@, p)] ELSE authnametable
       /\ handling' = Placing(p)
  /\ UNCHANGED <<linked, servernicks, nicktable>>

\* gethandlebynumeric() fails: the message is dropped, after the collision was dealt with.
InvalidNumeric ==
  /\ handling.op = "introduce"
  /\ handling.msg.numeric[1] \notin linked
  /\ handling' = Idle
  /\ UNCHANGED <<linked, servernicks, nick, nicktable, hosttable, authnametable>>

\* Masked numeric collision: the nick that has the slot is deleted.
MaskedCollision ==
  /\ handling.op = "place"
  /\ LET x == nick[handling.np].numeric
         old == servernicks[x[1]][Slot(x)] IN
       old # NULL /\ deletenick(old)
  /\ UNCHANGED <<linked, handling>>

\* MUTANT: whoever has the slot is not looked at.
Bug_Place ==
  /\ handling.op = "place"
  /\ LET p == handling.np
         x == nick[p].numeric IN
       /\ servernicks' = [servernicks EXCEPT ![x[1]][Slot(x)] = p]
       /\ nicktable' = [nicktable EXCEPT ![nick[p].name] = @ \cup {p}]
  /\ handling' = Idle
  /\ UNCHANGED <<linked, nick, hosttable, authnametable>>

Place ==
  /\ handling.op = "place"
  /\ LET p == handling.np
         x == nick[p].numeric IN
       /\ servernicks[x[1]][Slot(x)] = NULL
       /\ servernicks' = [servernicks EXCEPT ![x[1]][Slot(x)] = p]
       /\ nicktable' = [nicktable EXCEPT ![nick[p].name] = @ \cup {p}]
  /\ handling' = Idle
  /\ UNCHANGED <<linked, nick, hosttable, authnametable>>

-----------------------------------------------------------------------------
(* handlenickmsg(): a rename. *)

\* MUTANT: the same comparison whatever the user@host.
Bug_RenamerDies(np, other, ts) == other.timestamp < ts

\* The renaming nick gives way to the one that has the name.
RenamerDies(np, other, ts) ==
  IF np.ident = other.ident /\ np.host = other.host
  THEN other.timestamp >= ts ELSE other.timestamp < ts

\* The name in another case: only the timestamp can change.
RenameSame(p, ts) ==
  /\ handling = Idle
  /\ p # NULL
  /\ nick' = [nick EXCEPT ![p].timestamp = ts]
  /\ UNCHANGED <<linked, servernicks, nicktable, hosttable, authnametable, handling>>

RenameCollision(p, n, ts) ==
  /\ handling = Idle
  /\ p # NULL
  /\ LET holder == getnickbynick(n) IN
       /\ holder \notin {NULL, p}
       /\ IF RenamerDies(nick[p], nick[holder], ts)
          THEN deletenick(p) /\ handling' = Idle
          ELSE deletenick(holder) /\ handling' = Renaming(p, n, ts)
  /\ UNCHANGED linked

Rename(p, n, ts) ==
  /\ p # NULL
  /\ \/ handling = Renaming(p, n, ts)
     \/ handling = Idle /\ getnickbynick(n) = NULL
  /\ nick' = [nick EXCEPT ![p].name = n, ![p].timestamp = ts]
  /\ nicktable' = [[nicktable EXCEPT ![nick[p].name] = @ \ {p}] EXCEPT ![n] = @ \cup {p}]
  /\ handling' = Idle
  /\ UNCHANGED <<linked, servernicks, hosttable, authnametable>>

-----------------------------------------------------------------------------
(* The other handlers. *)

\* handlequitmsg(), handlekillmsg().
NickGone(p) ==
  /\ handling = Idle
  /\ p # NULL
  /\ deletenick(p)
  /\ UNCHANGED <<linked, handling>>

\* handleaccountmsg(), for a nick that has no account: one that has keeps it.
handleaccountmsg(p, a) ==
  /\ handling = Idle
  /\ p # NULL /\ ~nick[p].account
  /\ nick' = [nick EXCEPT ![p].account = TRUE, ![p].auth = a]
  /\ authnametable' = IF a = NULL THEN authnametable
                      ELSE [authnametable EXCEPT ![a] = Join(@, p)]
  /\ UNCHANGED <<linked, servernicks, nicktable, hosttable, handling>>

\* handleusermodemsg(): setflags() with UMODE_ALL would take +r and -r like any other mode;
\* AccountModes says whether the network ever sends them.
handleusermodemsg(p, on) ==
  /\ handling = Idle
  /\ p # NULL
  /\ AccountModes \/ on = nick[p].account
  /\ nick' = [nick EXCEPT ![p].account = on]
  /\ UNCHANGED <<linked, servernicks, nicktable, hosttable, authnametable, handling>>

handleaddcloak(c, q) ==
  /\ handling = Idle
  /\ c # NULL /\ q # NULL
  /\ nick' = addcloaktarget(nick, c, q)
  /\ UNCHANGED <<linked, servernicks, nicktable, hosttable, authnametable, handling>>

handleclearcloak(c) ==
  /\ handling = Idle
  /\ c # NULL
  /\ nick' = clearcloaktargets(nick, c)
  /\ UNCHANGED <<linked, servernicks, nicktable, hosttable, authnametable, handling>>

-----------------------------------------------------------------------------
\* Messages name users by numeric; a numeric that nobody has any more finds nobody.
UserMsg(x) ==
  LET p == getnickbynumeric(x) IN
  \/ \E ts \in Times : RenameSame(p, ts)
  \/ \E n \in Names, ts \in Times : RenameCollision(p, n, ts) \/ Rename(p, n, ts)
  \/ NickGone(p)
  \/ \E a \in Auths \cup {NULL} : handleaccountmsg(p, a)
  \/ \E on \in BOOLEAN : handleusermodemsg(p, on)
  \/ \E y \in Numerics : handleaddcloak(p, getnickbynumeric(y))
  \/ handleclearcloak(p)

Next ==
  \/ \E s \in Servers : NewServer(s) \/ LostServer(s)
  \/ LoseNick \/ ServerGone
  \/ \E m \in NickMsg : NickCollision(m) \/ Allocate(m)
  \/ InvalidNumeric \/ MaskedCollision \/ Place
  \/ \E x \in Numerics : UserMsg(x)

Spec == Init /\ [][Next]_vars

-----------------------------------------------------------------------------
\* The structure that handlenickmsg() has filled in and not yet put into the tables.
Incoming == IF handling.op = "place" THEN {handling.np} ELSE {}

\* Types of the tables.
TypeOK ==
  /\ linked \subseteq Servers
  /\ servernicks \in [Servers -> [Slots -> Nicks \cup {NULL}]]
  /\ nick \in [Nicks -> NickRec \cup {NULL}]
  /\ nicktable \in [Names -> SUBSET Nicks]
  /\ hosttable \in [Hosts -> Shared \cup {NULL}]
  /\ authnametable \in [Auths -> Shared \cup {NULL}]
  /\ handling.op \in {"none", "introduce", "place", "rename", "lostserver"}

\* gethandlebynumeric(), addnicktohash(), deletenick(), handleserverchange(): at every hook, a nick
\* structure is allocated exactly if the slot of its own numeric, on a server that is linked, points at
\* it, and exactly then its name finds it, and no other nick has that name; the one exception is the
\* nick being introduced.
TablesExact ==
  /\ TypeOK
  /\ \A p \in Live \ Incoming :
       LET x == nick[p].numeric IN x[1] \in linked /\ servernicks[x[1]][Slot(x)] = p
  /\ \A s \in linked : \A i \in Slots :
       servernicks[s][i] # NULL =>
         LET p == servernicks[s][i] IN
         p \in Live \ Incoming /\ nick[p].numeric[1] = s /\ Slot(nick[p].numeric) = i
  /\ \A n \in Names : nicktable[n] = {p \in Live \ Incoming : nick[p].name = n}
  /\ \A n \in Names : Cardinality(nicktable[n]) <= 1

\* findorcreatehost(), releasehost(), findorcreateauthname(), releaseauthname(): a shared
\* record exists exactly while it has users, its count is their number, and its list holds
\* them and nothing else, so that walking it never meets freed memory.
\* addcloaktarget(), removecloaktarget(), clearcloaktargets(): likewise for cloaked nicks and those
\* who can see them, so that clearing stops short of none, and nobody can see a nick that has left.
SharedExact ==
  LET Exact(t, users) ==
        IF users = {} THEN t = NULL
        ELSE t = [count |-> Cardinality(users), nicks |-> users] IN
  /\ \A h \in Hosts : Exact(hosttable[h], {p \in Live : nick[p].host = h})
  /\ \A a \in Auths : Exact(authnametable[a], {p \in Live : nick[p].account /\ nick[p].auth = a})
  /\ \A c \in Nicks :
       LET seenby == {q \in Live : nick[q].cloak_extra = c} IN
         IF c \in Live THEN nick[c].cloak_count = Cardinality(seenby) ELSE seenby = {}

\* handlenickmsg(), both branches: of two nicks that want one name, it does not depend on
\* which of them comes first who loses it, unless their timestamps are equal, nor on whether
\* the second comes as a new nick or by a rename; every server that applies the rule to the
\* two messages in its own order keeps the same user.
LoserIsTheSame ==
  \A p, q \in Live : \A ts \in Times :
    LET np == [nick[p] EXCEPT !.timestamp = ts] IN
    p # q /\ ts # nick[q].timestamp =>
      /\ HolderDies(np, nick[q]) <=> ~HolderDies(nick[q], np)
      /\ HolderDies(np, nick[q]) <=> ~RenamerDies(nick[p], nick[q], ts)
=============================================================================
