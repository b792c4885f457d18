---------------------------- MODULE ChannelModes ----------------------------
(***************************************************************************)
(* The modes of a channel: what the network's messages and our own bursts  *)
(* make of its timestamp, flags, key and limit and of its users' op and    *)
(* voice.  channel/channelhandlers.c and localuser/localuserchannel.c.     *)
(*                                                                         *)
(* After a netsplit each side bursts its view of the channel; the older    *)
(* one wins, and views of the same age are merged.  A burst takes each     *)
(* user from the server he is on, so no user comes in two bursts.          *)
(***************************************************************************)
EXTENDS Naturals, FiniteSets

CONSTANTS
  Users,
  Simple,       \* the modes without parameter; "s" and "p" exclude each other
  Keys,         \* naturals, in the order of ircd_strcmp()
  Limits,       \* positive naturals
  Times,
  MAGIC_REMOTE_JOIN_TS,
  NULL

VARIABLE cp     \* the channel, NULL while nobody is on it

vars == cp

Flags == Simple \cup {"k", "l"}
UserModes == {"o", "v"}

\* The struct channel, as far as it has to do with modes.
Channels ==
  [timestamp : Nat, flags : SUBSET Flags, key : Keys \cup {NULL}, limit : Limits \cup {0},
   users : UNION {[us -> SUBSET UserModes] : us \in SUBSET Users}]

\* The null pointer is neither a key nor a channel; a limit has a letter of its own, and so has a key.
ModesAssumption ==
  /\ Limits \subseteq Nat \ {0} /\ Keys \subseteq Nat /\ Times \subseteq Nat
  /\ MAGIC_REMOTE_JOIN_TS \in Nat
  /\ NULL \notin Keys \cup Channels
  /\ Simple \cap {"k", "l"} = {}

\* createchannel()
Created == [timestamp |-> MAGIC_REMOTE_JOIN_TS, flags |-> {}, key |-> NULL, limit |-> 0, users |-> << >>]
Channel == IF cp = NULL THEN Created ELSE cp

IsLimit(c) == "l" \in c.flags
IsKey(c) == "k" \in c.flags
WithUser(c, u, modes) ==
  [c EXCEPT !.users = IF u \in DOMAIN @ THEN @ ELSE [x \in DOMAIN @ \cup {u} |-> IF x = u THEN modes ELSE @[x]]]
Stripped(users, modes) == [u \in DOMAIN users |-> users[u] \ modes]

Init == cp = NULL

-----------------------------------------------------------------------------
\* What a BURST message tells: timestamp, modes with their parameters, users with theirs.
SomeModes == {b \in [flags : SUBSET Flags, key : Keys \cup {NULL}, limit : Limits \cup {0}] :
                ("k" \in b.flags <=> b.key # NULL) /\ ("l" \in b.flags <=> b.limit # 0)}
Bursts(us) == [timestamp : Times, modes : SomeModes, users : [us -> SUBSET {"o"}]]

Erased(c, ts) ==
  [c EXCEPT !.timestamp = ts, !.flags = {}, !.key = NULL, !.limit = 0,
            !.users = Stripped(@, UserModes)]

\* The lower limit and the first key count.
MergedModes(c, m) ==
  [c EXCEPT
     !.flags = @ \cup m.flags,
     !.limit = IF "l" \notin m.flags \/ (IsLimit(c) /\ @ > 0 /\ @ <= m.limit) THEN @ ELSE m.limit,
     !.key = IF "k" \notin m.flags \/ (IsKey(c) /\ @ <= m.key) THEN @ ELSE m.key]

\* MUTANT: users of a younger burst keep their modes.
Bug_Burst(old, b) ==
  LET c == IF old = NULL THEN [Created EXCEPT !.timestamp = b.timestamp] ELSE old
      base == IF b.timestamp < c.timestamp THEN Erased(c, b.timestamp) ELSE c
      wipeout == b.timestamp > c.timestamp
      merged == IF wipeout THEN base ELSE MergedModes(base, b.modes)
      new == [u \in DOMAIN base.users \cup DOMAIN b.users |->
                IF u \in DOMAIN base.users THEN base.users[u] ELSE b.users[u]]
  IN [merged EXCEPT !.users = new]

\* handleburstmsg(): the channel after the burst.
Burst(old, b) ==
  LET c == IF old = NULL THEN [Created EXCEPT !.timestamp = b.timestamp] ELSE old
      base == IF b.timestamp < c.timestamp THEN Erased(c, b.timestamp) ELSE c
      wipeout == b.timestamp > c.timestamp
      merged == IF wipeout THEN base ELSE MergedModes(base, b.modes)
      new == [u \in DOMAIN base.users \cup DOMAIN b.users |->
                IF u \in DOMAIN base.users THEN base.users[u]
                ELSE IF wipeout THEN {} ELSE b.users[u]]
  IN [merged EXCEPT !.users = new]

\* A channel that nobody is on after the burst goes.
handleburstmsg(b) ==
  LET c == Burst(cp, b) IN cp' = IF DOMAIN c.users = {} THEN NULL ELSE c

-----------------------------------------------------------------------------
\* handlejoinmsg(), handlecreatemsg() and our own localjoinchannel(): ts is 0 if none
\* is given, which only a join may do.
handlejoinmsg(u, ts, modes) ==
  /\ u \notin DOMAIN Channel.users
  /\ LET c == IF Channel.timestamp = MAGIC_REMOTE_JOIN_TS /\ ts # 0
              THEN [Channel EXCEPT !.timestamp = ts] ELSE Channel
     IN cp' = WithUser(c, u, modes)

\* delnickfromchannel()
Leave(u) ==
  /\ cp # NULL
  /\ u \in DOMAIN cp.users
  /\ cp' = IF DOMAIN cp.users = {u} THEN NULL
           ELSE [cp EXCEPT !.users = [x \in DOMAIN @ \ {u} |-> @[x]]]

\* handlemodemsg(), one mode of the message at a time.
ModeSimple(f, dir) ==
  /\ cp # NULL
  /\ cp' = [cp EXCEPT !.flags = IF dir THEN (@ \cup {f}) \ {x \in {"s", "p"} \ {f} : f \in {"s", "p"}}
                                ELSE @ \ {f}]

\* ircds never tell of a limit of zero.
ModeLimit(n) ==
  /\ cp # NULL
  /\ cp' = [cp EXCEPT !.limit = n, !.flags = IF n # 0 THEN @ \cup {"l"} ELSE @ \ {"l"}]

ModeKey(k) ==
  /\ cp # NULL
  /\ cp' = [cp EXCEPT !.key = k, !.flags = IF k # NULL THEN @ \cup {"k"} ELSE @ \ {"k"}]

ModeUser(u, m, dir) ==
  /\ cp # NULL
  /\ u \in DOMAIN cp.users
  /\ cp' = [cp EXCEPT !.users[u] = IF dir THEN @ \cup {m} ELSE @ \ {m}]

\* MUTANT: the limit stays behind when its flag is cleared.
Bug_handleclearmodemsg(ms) ==
  /\ cp # NULL
  /\ cp' = [cp EXCEPT !.flags = @ \ ms,
                      !.key = IF "k" \in ms THEN NULL ELSE @,
                      !.users = Stripped(@, ms)]

handleclearmodemsg(ms) ==
  /\ cp # NULL
  /\ cp' = [cp EXCEPT !.flags = @ \ ms,
                      !.key = IF "k" \in ms THEN NULL ELSE @,
                      !.limit = IF "l" \in ms THEN 0 ELSE @,
                      !.users = Stripped(@, ms)]

-----------------------------------------------------------------------------
\* localburstontochannel() with timestamp ts: an older one replaces modes and users' modes. A flag
\* without a value keeps the value the channel has, and is dropped if it has none.
Replaced(c, ts, flags, limit, key) ==
  LET newkey == IF "k" \notin flags THEN NULL ELSE IF key # NULL THEN key ELSE c.key
      newlimit == IF "l" \notin flags THEN 0 ELSE IF limit # 0 THEN limit ELSE c.limit
  IN [c EXCEPT !.timestamp = ts, !.key = newkey, !.limit = newlimit,
               !.flags = flags \ ({x \in {"k"} : newkey = NULL} \cup {x \in {"l"} : newlimit = 0}),
               !.users = Stripped(@, UserModes)]

localburstontochannel(u, ts, flags, limit, key) ==
  /\ cp # NULL
  /\ IF ts > cp.timestamp
     THEN handlejoinmsg(u, 0, {})
     ELSE cp' = WithUser(IF ts < cp.timestamp THEN Replaced(cp, ts, flags, limit, key) ELSE cp, u, {"o"})

Next ==
  \/ \E us \in SUBSET (Users \ DOMAIN Channel.users) : \E b \in Bursts(us) : handleburstmsg(b)
  \/ \E u \in Users, ts \in Times \cup {0} : handlejoinmsg(u, ts, {})
  \/ \E u \in Users, ts \in Times : handlejoinmsg(u, ts, {"o"})
  \/ \E u \in Users : Leave(u)
  \/ \E f \in Simple, dir \in BOOLEAN : ModeSimple(f, dir)
  \/ \E n \in Limits \cup {0} : ModeLimit(n)
  \/ \E k \in Keys \cup {NULL} : ModeKey(k)
  \/ \E u \in Users, m \in UserModes, dir \in BOOLEAN : ModeUser(u, m, dir)
  \/ \E ms \in SUBSET (Flags \cup UserModes) : handleclearmodemsg(ms)
  \/ \E u \in Users, ts \in Times, flags \in SUBSET Flags :
       \E n \in {m \in Limits : "l" \in flags} \cup {0}, k \in {m \in Keys : "k" \in flags} \cup {NULL} :
         localburstontochannel(u, ts, flags, n, k)

Spec == Init /\ [][Next]_vars

-----------------------------------------------------------------------------
\* handleburstmsg(), handlemodemsg(), handleclearmodemsg(), localburstontochannel(): whatever sets,
\* merges or erases modes, a channel has a key exactly while it is +k and a limit while it is +l;
\* the key of a channel that is +k is read without looking.
ValuesExact ==
  cp # NULL => /\ IsKey(cp) <=> cp.key # NULL
               /\ IsLimit(cp) <=> cp.limit # 0

\* handleburstmsg(): two servers' bursts leave the channel the same in whichever order they arrive,
\* so that we agree with servers that got them in the other order.
BurstsCommute ==
  cp # NULL =>
    \A u, v \in Users \ DOMAIN cp.users : u # v =>
      \A a \in Bursts({u}) :
        LET first == Burst(cp, a) IN \A b \in Bursts({v}) : Burst(first, b) = Burst(Burst(cp, b), a)
=============================================================================
